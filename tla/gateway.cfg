SPECIFICATION FairSpec
CONSTANTS
  e1 = e1  e2 = e2  n1 = n1  n2 = n2
  Emails = {e1, e2}
  Usernames = {n1, n2}
  Empty = Empty
  NoUser = NoUser
  NoRequest = NoRequest
  InitialUser <- Stored
  Requests <- AllRequests
  Handlers = {h1, h2}
  Rivals = {"GATEWAY", "DEVICES"}
  MaxMessages = 2
  MaxUsers = 4
  MaxFaults = 1
  MaxLosses = 1
INVARIANTS
  TypeOK
  DuplicateHasCause
  CreatedIsOwn
PROPERTIES
  EveryRequestAnswered
