\* Nothing to do is not a deadlock: budgets and tick bounds end every behaviour.
SPECIFICATION MCSpec
CONSTANTS
  Devices = {"skips"}
  Patient = TRUE
  \* Input
  Buttons = {select, menu}
  Menu = menu
  QueueLimit = 2
  Positions = 3
  Deltas <- MCDeltas
  HoldTicks = 2
  MaxInputTicks = 3
  \* Idle
  Options <- MCPhaseOptions
  Scripts <- MCScripts
  TapTicks = 2
  MaxEvents = 8
  Slice = 2
  Budget = 20
  PollEvery = 4
  MaxSkip = 6
  Counters = {0, 2, 5}
  Durations = {3}
  \* Memory
  Modes <- MCModes
  Entries = {1, 2}
  Logicals <- MCLogicals
  Physicals <- MCPhysicals
  Addresses <- MCAddresses
  Accessed = {0}
  FlushGap = 2
  MaxVersion = 3
  MaxMemoryTicks = 3
  \* Lcd
  PanelWidth = 3
  GramHeight = 3
  PanelHeight = 2
  Base = 16
  Profiles = {"apple", "rockbox"}
  Boxes <- MCBoxes
  Frames = {1, 2}
CHECK_DEADLOCK FALSE
PROPERTY SkipEqualsTicks
