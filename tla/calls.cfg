SPECIFICATION Spec
CONSTANTS
  Web = {w}
  Programs = {p}
  Called = {"RegisterUser", "GetById", "UpdateUser", "DeleteUserById", "GetUsersByAddress"}
  Tokens = {t}
  NoToken = NoToken
  NotUtf8 = NotUtf8
INVARIANTS
  TypeOK
  DeliveredIntact
  SuccessRanOnce
  GuardedHasLogin
PROPERTIES
  EveryCallAnswered
