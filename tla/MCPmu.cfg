SPECIFICATION MCSpec
CONSTANTS
  Rates <- TwoRates
  Second = 5
  StandbyDelay = 3
  AdcTime = 3
  Debounce = 5
  ForcedDelay = 5
  Seconds = 2
  Minutes = 2
  MaxSkip = 3
  MaxTicks = 12
  Profiles = {"battery", "wake", "clock", "skip"}
INVARIANTS WakeReasonKept Armed SkipsAreInvisible
PROPERTIES LowBatteryDebounced StandbyHasCause AlarmFires ClockRunsForward
CHECK_DEADLOCK FALSE
