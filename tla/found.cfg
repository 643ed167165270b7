\* Devices come and go, then the bus is quiet.
SPECIFICATION Spec
CONSTANTS
  RomBits = 4
  FamilyBits = 2
  Devices <- ThreeDevices
  ValidCodes <- MCValidCodes
  Targets <- NoTargets
  NoTarget = NoTarget
  MaxMisreads = 1
  NoCode = NoCode
PROPERTIES
  FoundAgain
  RoundsEnd
