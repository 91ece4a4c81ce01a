------------------------------- MODULE MCDevices -------------------------------
(***************************************************************************)
(* An instance in which one of the devices moves at a time: nothing        *)
(* connects them, they share a run.  "presses" and "switches" are Input,   *)
(* "skips" and "counting" Idle, "mapping" and "loading" Memory, "drawing"  *)
(* Lcd.  Each guest takes the steps its name says.                         *)
(***************************************************************************)
EXTENDS Input, Idle, Memory, Lcd

CONSTANTS
  Devices,
  Patient   \* whether the guest leaves the debouncer of discards its pause

VARIABLE device

vars == <<device, inputVars, idleVars, memoryVars, lcdVars>>

\* Input.
MCDeltas == {1, -1}
Off == [hold |-> FALSE, main |-> FALSE, usb |-> FALSE]

\* The chargers come and go together.
MCSwitches == {s \in [hold : BOOLEAN, main : BOOLEAN, usb : BOOLEAN] : s.main = s.usb}

Presses ==
  \/ \E b \in Buttons : PressButton(b) \/ LiftButton(b) \/ TapButton(b)
  \/ \E d \in Deltas : TurnWheel(d)
  \/ \E hold \in BOOLEAN : Hardware([Off EXCEPT !.hold = hold])
  \/ TickOpto \/ ReadReport \/ ClearReport

Switches ==
  \/ \E s \in MCSwitches : Hardware(s)
  \/ TapButton(Menu) \/ PressButton(Menu) \/ Sleep \/ Reboot \/ InputGuest

\* Idle.
Skipping == [usec |-> 3, divider |-> 1, skips |-> TRUE]
Dividing == [usec |-> 2, divider |-> 3, skips |-> FALSE]
MCOptions == {Skipping, Dividing}
MCPhaseOptions == {[usec |-> 1, divider |-> 2, skips |-> TRUE]}

Pause(n) == [kind |-> "wait", ticks |-> n]
OneTap   == [kind |-> "tap"]
OneEvent == [kind |-> "event"]
MCScripts == {<<Pause(3), OneTap, Pause(0), OneEvent>>, <<OneEvent, OneTap, OneTap, OneTap>>}

Skips ==
  \/ Iterate \/ Interrupt \/ Halt \/ Acknowledge \/ WriteByte \/ ReadIir
  \/ \E on \in BOOLEAN : WriteIer(on) \/ WriteLcr(on) \/ WriteFcr(on)
  \/ \E d \in Durations : StartAlarm(d) \/ StartJob(d)

Counting ==
  \/ Iterate \/ Interrupt \/ Halt
  \/ \E i \in Timers : ReadValue(i)
  \/ \E c \in Counters :
       \/ WriteValue("timer1", c)
       \/ \E enabled, repeat \in BOOLEAN : WriteTimer("timer1", enabled, repeat, c)

\* Memory.
Mode(virtual, flash) == [virtual |-> virtual, flash |-> flash]
MCModes == {Mode(FALSE, TRUE), Mode(FALSE, FALSE), Mode(TRUE, TRUE)}
MCLogicals == {[size |-> SdramSize, match |-> 0], [size |-> SdramSize, match |-> FlashAlias]}
MCPhysicals ==
  {[target |-> SdramBase, allows |-> {"read", "write", "data", "code"}],
   [target |-> 0, allows |-> {"read", "data", "code"}],
   [target |-> FlashAlias, allows |-> {"write", "data"}]}
MCAddresses ==
  UNION {{r.base, r.base + r.size - 1} : r \in MapMemory("ram") \cup MapMemory("flash") \cup Windows}
    \cup {Routes[k].base + Routes[k].size - 1 : k \in DOMAIN Routes}

Slices == CpuDone \/ TickDone

Mapping ==
  \/ \E i \in Entries : \/ \E l \in Logicals : WriteLogical(i, l)
                        \/ \E p \in Physicals : WritePhysical(i, p)
  \/ \E c \in Cores, a \in Accessed, kind \in Kinds : Access(c, a, kind)
  \/ Slices \/ (memory_ticks = 0 /\ CopDone)

Loading ==
  \/ WriteCacheControl \/ ((Patient => Calm) /\ WriteDiscard)
  \/ \E c \in Cores : StoreCode(c) \/ RunCode(c)
  \/ DmaCode \/ Slices \/ CopDone \/ Restart

\* Lcd.
Box(x0, x1, y0, y1) == [x0 |-> x0, x1 |-> x1, y0 |-> y0, y1 |-> y1]
MCBoxes == {Box(0, 2, 0, 1), Box(1, 2, 0, 2), Box(0, 0, 1, 1), Box(1, 1, 1, 2)}

MCInit ==
  /\ device \in Devices
  /\ InputInit  /\ switches \in (IF device = "switches" THEN MCSwitches ELSE {Off})
  /\ IdleInit   /\ CASE device = "skips"    -> options.skips
                     [] device = "counting" -> events = <<>>
                     [] OTHER -> events = <<>> /\ options = CHOOSE o \in Options : TRUE
  /\ MemoryInit /\ (device # "mapping" => mode = CHOOSE m \in Modes : TRUE)
  /\ LcdInit    /\ (device # "drawing" => profile = CHOOSE p \in Profiles : TRUE)

OnlyInput  == UNCHANGED <<device, idleVars, memoryVars, lcdVars>>
OnlyIdle   == UNCHANGED <<device, inputVars, memoryVars, lcdVars>>
OnlyMemory == UNCHANGED <<device, inputVars, idleVars, lcdVars>>
OnlyLcd    == UNCHANGED <<device, inputVars, idleVars, memoryVars>>

MCNext ==
  \/ device = "presses"  /\ Presses /\ OnlyInput
  \/ device = "switches" /\ Switches /\ OnlyInput
  \/ device = "skips"    /\ Skips /\ OnlyIdle
  \/ device = "counting" /\ Counting /\ OnlyIdle
  \/ device = "mapping"  /\ Mapping /\ OnlyMemory
  \/ device = "loading"  /\ Loading /\ OnlyMemory
  \/ device = "drawing"  /\ LcdNext /\ OnlyLcd

MCSpec == MCInit /\ [][MCNext]_vars
================================================================================
