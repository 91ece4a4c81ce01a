\* Two-sector commands of every kind against a medium that is empty, which the drive takes for one sector.
CONSTANTS
  SectorBytes = 4
  MediumBytes = 0
  CountMod    = 3
  LaneSize    = 2
  DeviceLanes = 1
  DmaLengths <- NoLengths
  Commands   <- ViewCommands
SPECIFICATION Spec
PROPERTIES
  ImplementsDriverView
