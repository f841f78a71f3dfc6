SPECIFICATION Spec
CONSTANTS
  BadId = BadId
  Cases = {"lower"}
  NoDevice = NoDevice
  NoRequest = NoRequest
  Ops = {"create", "update", "delete", "get", "list"}
  IdsFrom = {"answers"}
  Oids = {o1, o2}
  Clients = {c1}
  Names = {n1, n2}
  MaxFaults = 0
  MaxCrashes = 0
INVARIANT
  UpdateFindsDevice
