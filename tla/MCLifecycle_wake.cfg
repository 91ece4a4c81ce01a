SPECIFICATION MCSpec
CONSTANTS
  Paths = {"apple.img", "rockbox.img", "custom.img", "out.img"}
  OutPath = "out.img"
  Presets = {"apple", "rockbox"}
  DefaultDisk <- MCDefaultDisk
  Launches <- MCLaunches
  Wakes = TRUE
  InitMayFail = TRUE
  MaxWrites = 2
  MaxPrograms = 1
  MaxLaunches = 2
  MaxFailures = 1
CHECK_DEADLOCK FALSE
INVARIANT GuestSeesItsWrites
