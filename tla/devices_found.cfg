SPECIFICATION Spec
CONSTANTS
  BadId = BadId
  Cases = {"lower", "upper"}
  NoDevice = NoDevice
  NoRequest = NoRequest
  Ops = {"create", "update", "delete", "get"}
  IdsFrom = {"collection"}
  Oids = {o1, o2}
  Clients = {c1, c2}
  Names = {n1, n2}
  MaxFaults = 1
  MaxCrashes = 1
SYMMETRY Alike
VIEW Unanswered
INVARIANTS
  StaleHasCause
PROPERTIES
  DeletionSticks
