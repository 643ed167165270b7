\* Devices come and go while the main loop enumerates them.
SPECIFICATION Spec
CONSTANTS
  RomBits = 4
  FamilyBits = 2
  Devices <- MCDevices
  ValidCodes <- MCValidCodes
  Targets <- Ones
  NoTarget = NoTarget
  MaxMisreads = 1
  NoCode = NoCode
INVARIANTS
  SearchOK
  NoPhantoms
  NoneTwice
  NoneMissed
  TargetFirst
PROPERTIES
  ImplementsEnumeration
