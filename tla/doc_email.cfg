SPECIFICATION Spec
CONSTANTS
  e1 = e1  e2 = e2  n1 = n1  n2 = n2
  Emails = {e1, e2}
  Usernames = {n1, n2}
  Empty = Empty
  NoUser = NoUser
  NoRequest = NoRequest
  InitialUser <- Stored
  Requests <- Registrations
  Handlers = {h1, h2}
  Rivals = {}
  MaxMessages = 2
  MaxUsers = 3
  MaxFaults = 0
  MaxLosses = 0
INVARIANT
  EmailsUnique
