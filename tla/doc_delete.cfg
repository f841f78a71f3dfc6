SPECIFICATION Spec
CONSTANTS
  u1 = u1  u2 = u2  u3 = u3  u4 = u4  u5 = u5  u6 = u6  e1 = e1  e2 = e2  n1 = n1  n2 = n2
  Empty = Empty
  NoUser = NoUser
  NoRequest = NoRequest
  UserIds = {u1}
  Emails = {e1}
  Names = {n1, n2}
  InitialUsers <- OneLiveUser
  Published <- UpdateOrDelete
  Clients = {}
  Calls = {}
  MaxMessages = 2
  MaxFaults = 0
  MaxLosses = 0
INVARIANT
  DeleteMarksUser
