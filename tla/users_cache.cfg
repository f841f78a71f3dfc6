SPECIFICATION Spec
CONSTANTS
  u1 = u1  u2 = u2  u3 = u3  u4 = u4  u5 = u5  u6 = u6  e1 = e1  e2 = e2  n1 = n1  n2 = n2
  Empty = Empty
  NoUser = NoUser
  NoRequest = NoRequest
  UserIds = {u1}
  Emails = {e1, e2}
  Names = {n1, n2}
  InitialUsers <- OneLiveUser
  Published <- UpdatesByQueue
  Clients = {c1}
  Calls <- UpdatesByRpc
  MaxMessages = 1
  MaxFaults = 2
  MaxLosses = 1
INVARIANTS
  CacheHoldsCommitted
  StaleHasCause
