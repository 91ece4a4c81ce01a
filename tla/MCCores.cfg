SPECIFICATION MCSpec
CONSTANTS
  Lo = {"timer", "mailbox", "cascade"}
  Hi = {"wheel"}
  Enables <- MCEnables
  Priorities <- MCPriorities
  Forceable = {"timer"}
  Controls <- MCControls
  Mailing = TRUE
  PowerOff = TRUE
  MaxWait = 2
  Guests = {"entry", "sleep", "mail"}
INVARIANTS HandlersNest MessageSignalled
PROPERTIES NoLostWakeup CountedWaitEnds MessageWakes
