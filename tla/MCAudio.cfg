SPECIFICATION MCSpec
CONSTANTS
  Depth = 4
  Ring = 4
  Chunk = 2
  Unit = 4
  Rates <- MCRates
  Step <- MCStep
  Default = 4
  RamWords = 2
  Samples = {1, 2, 3}
  Channels = 2
  MaxWords = 2
  MaxProduced = 6
CHECK_DEADLOCK FALSE
INVARIANTS FifoIsQueue InterruptsHonest KeepsTime
PROPERTIES PageHearsPlayed
