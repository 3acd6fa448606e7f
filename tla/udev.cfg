SPECIFICATION FairSpec
CONSTANTS
  Devices <- MCDevices
  MaxFd = 2
  MaxRefs = 2
  MaxQueue = 2
  MaxFaults = 2
INVARIANTS
  TypeOK
  OwnDescriptors
  CacheCatchesUp
  SameIdentity
PROPERTIES
  Informed
