SPECIFICATION FairSpec
CONSTANTS
  MaxMessages = 2
  MaxFaults = 2
  MaxLosses = 2
  MaxRestarts = 2
CHECK_DEADLOCK FALSE
INVARIANTS
  TypeOK
  DevicesBounded
  AckMeansDevice
  DeletionStays
PROPERTIES
  OthersSettled
  StopsOnSignal
  ImplementsLedger
