-------------------------------- MODULE MCCores --------------------------------
(***************************************************************************)
(* Instances of Cores for TLC.  Three guests share the constants, and each *)
(* uses a part of what they allow: one programs every path of interrupt    *)
(* entry of the CPU, with standby, while the COP only controls it; one     *)
(* every form of the control word and forced interrupts, with the COP      *)
(* asleep or awake but uninterrupted; one the mailbox and nothing else     *)
(* that could wake a core, on both cores alike.                            *)
(***************************************************************************)
EXTENDS Cores

CONSTANT Guests
VARIABLE guest

Word(bits, ticks) == [bits |-> bits, ticks |-> ticks]

MCControls ==
  {Word({}, 1), Word({"sleep"}, 1), Word({"wait"}, 1), Word({"sleep", "count"}, 1),
   Word({"wait", "count"}, MaxWait)} \cup {Word({"wait", "count"}, 1)}

TimerAndWheel == {"timer", "wheel", Cascade}
MCEnables     == {{}, {"timer"}, {Mailbox}, TimerAndWheel}
MCPriorities  == {{}, {"wheel"}}

Mails(c) == unseen[c] \/ queue[c]

\* What each guest leaves alone.
Entry ==
  /\ forced = {} /\ \A c \in Cores : ~Mails(c)
  /\ core["cop"].ctl \in {{}, {"sleep"}} /\ core["cop"].psr = Reset("cop").psr
  /\ enable["cop"] = {} /\ priority["cop"] = {} /\ enable["cpu"] \in {{}, TimerAndWheel}
  /\ core["cpu"].ctl \notin {{"wait"}, {"sleep", "count"}} /\ core["cpu"].wait_ticks <= 1

Sleep ==
  /\ ~standby /\ \A c \in Cores : ~Mails(c)
  /\ \A c \in Cores : enable[c] \in {{}, {"timer"}} /\ priority[c] = {} /\ "wheel" \notin status[c]
  /\ enable["cop"] = {} /\ core["cop"].psr = Reset("cop").psr

Mail ==
  /\ ~standby /\ forced = {}
  /\ \A c \in Cores : enable[c] \in {{}, {Mailbox}} /\ priority[c] = {} /\ status[c] \subseteq {Mailbox}
  /\ \A c \in Cores : core[c].ctl \in {{}, {"sleep"}} /\ core[c].psr.F

MCInit == Init /\ guest \in Guests

MCNext ==
  /\ Next
  /\ CASE guest = "entry" -> Entry' [] guest = "sleep" -> Sleep' [] guest = "mail" -> Mail'
  /\ UNCHANGED guest

MCSpec == MCInit /\ [][MCNext]_<<vars, guest>> /\ WF_vars(EndSlice) /\ WF_vars(DeviceTick)
================================================================================
