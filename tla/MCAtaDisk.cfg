\* Three drivers on a two-sector medium with a torn tail byte.
CONSTANTS
  SectorBytes = 4
  MediumBytes = 9
  CountMod    = 3
  LaneSize    = 2
  DeviceLanes = 2
  DmaLengths <- SomeLengths
  Commands   <- AllCommands
SPECIFICATION MCSpec
INVARIANTS
  BusyMatchesPending DataPhaseInBounds TransferConserved InterruptCoherent
PROPERTIES
  WritesStored WritesConfined FailureNamesFirstSector
