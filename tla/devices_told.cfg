SPECIFICATION Spec
CONSTANTS
  BadId = BadId
  Cases = {"lower", "upper"}
  NoDevice = NoDevice
  NoRequest = NoRequest
  Ops = {"create", "update", "delete", "list"}
  IdsFrom = {"answers"}
  Oids = {o1, o2, o3, o4}
  Clients = {c1, c2}
  Names = {n1}
  MaxFaults = 1
  MaxCrashes = 1
SYMMETRY Alike
INVARIANTS
  TypeOK
  GivenIsStored
PROPERTIES
  ApiLeavesCollection
  OnlyUpdatesRevive
