--------------------------------- MODULE Input ---------------------------------
(***************************************************************************)
(* The controls: click wheel and buttons (dev_opto.c), the hold switch and *)
(* the charger contacts on the GPIO ports (dev_gpio.c), the requests of    *)
(* the page and the events of the script that move them, and the guest's   *)
(* two interrupt handlers that watch them.                                 *)
(*                                                                         *)
(* Page and script act between two slices of the guest, so they may come   *)
(* between any two accesses of a handler.                                  *)
(*                                                                         *)
(* Abstractions.  A port is the set of its pins that are high; the three   *)
(* pins of ports A and L that the emulator drives share one set.  A write  *)
(* is given by the pins it touches: a byte, a halfword, a word and the     *)
(* masked alias at 0x800 differ in nothing else.  The PMU's part of a      *)
(* charger event and of a wake is in Pmu, the output pin of the backlight  *)
(* is left out.                                                            *)
(***************************************************************************)
EXTENDS Integers, Sequences, SequencesExt

CONSTANTS
  Buttons,        \* select, left, right, play and menu
  Menu,           \* the one that wakes the machine
  QueueLimit,     \* 8: reports the wheel keeps
  Positions,      \* 96: of the wheel
  Deltas,         \* steps of the wheel: 4 and -4 from the page
  HoldTicks,      \* N1G_INPUT_HOLD_TICKS
  MaxInputTicks   \* bound of the instance

ASSUME InputAssumption ==
  /\ Menu \in Buttons
  /\ QueueLimit \in Nat /\ QueueLimit > 1   \* one is being read while another comes
  /\ Positions \in Nat \ {0} /\ Deltas \subseteq Int
  /\ HoldTicks \in Nat \ {0} /\ MaxInputTicks \in Nat

VARIABLES
  switches,  \* s.opts: hold_switch_engaged and the two chargers
  opto,      \* s.opto and its interrupt bit
  gpio,      \* s.gpio and its interrupt bit
  power,     \* s.i2c: "on", "standby", or "waking" until the restart
  device_ticks,
  driver     \* the guest's handlers

inputVars == <<switches, opto, gpio, power, device_ticks, driver>>

Pins == {"hold", "main", "usb"}

NoWheel == -1
Report(buttons, wheel) == [buttons |-> buttons, wheel |-> wheel]

Released ==
  [queue |-> <<>>, line |-> FALSE, buttons |-> {}, pending |-> {}, release_tick |-> 0,
   wheel_pos |-> 0,
   held |-> {}]    \* history: buttons pressed, and not lifted, other than by a tap

Ports == [status |-> {}, enable |-> {}, level |-> {}, line |-> FALSE]

\* The handlers: what the guest believes, and where each of them is.
Handlers == [buttons |-> {}, wheel |-> "idle", view |-> {}, pins |-> "boot"]

-----------------------------------------------------------------------------
(***************************************************************************)
(* Reports of the wheel.                                                   *)
(***************************************************************************)

\* A report like the last one is dropped, a full queue loses its oldest.
\* Mutation: compared with the report that is next to be read.
Repeats_Oldest(o, r) == o.queue # <<>> /\ Head(o.queue) = r
Repeats(o, r)        == o.queue # <<>> /\ Last(o.queue) = r

Enqueue(o, r) ==
  IF Repeats(o, r) THEN o
  ELSE [o EXCEPT !.queue = Append(IF Len(@) >= QueueLimit THEN Tail(@) ELSE @, r),
                 !.line  = TRUE]

ReportButtons(o) == Enqueue(o, Report(o.buttons, NoWheel))

LiftPending(o) ==
  ReportButtons([o EXCEPT !.buttons = @ \ o.pending, !.held = @ \ o.pending,
                          !.pending = {}, !.release_tick = 0])

\* n1g_dev_opto_button on a machine that is neither asleep nor on hold.
Button(o, b, pressed) ==
  ReportButtons(IF pressed THEN [o EXCEPT !.buttons = @ \cup {b}, !.held = @ \cup {b}]
                ELSE [o EXCEPT !.buttons = @ \ {b}, !.held = @ \ {b}])

\* A tap releases the one before.  Mutation: and forgets it.
Tap_Forgets(o, b) ==
  ReportButtons([o EXCEPT !.buttons = @ \cup {b}, !.pending = {b},
                          !.release_tick = device_ticks + HoldTicks])
Tap(o, b) ==
  LET lifted == IF o.pending # {} THEN LiftPending(o) ELSE o
  IN  ReportButtons([lifted EXCEPT !.buttons = @ \cup {b}, !.pending = {b},
                                   !.release_tick = device_ticks + HoldTicks])

Turn(o, delta) ==
  LET pos == (o.wheel_pos + delta) % Positions
  IN  Enqueue([o EXCEPT !.wheel_pos = pos], Report(o.buttons, pos))

\* Mutation: a pending tap is not released.
ReleaseAll_ButPending(o) ==
  IF o.buttons = {} THEN o
  ELSE Enqueue([o EXCEPT !.buttons = o.pending, !.held = {}], Report({}, NoWheel))
ReleaseAll(o) ==
  IF o.buttons = {} /\ o.pending = {} THEN o
  ELSE Enqueue([o EXCEPT !.buttons = {}, !.pending = {}, !.release_tick = 0, !.held = {}],
               Report({}, NoWheel))

-----------------------------------------------------------------------------
(***************************************************************************)
(* The ports.                                                              *)
(***************************************************************************)

\* Hold and the main charger pull their pins down.
High(s) == {p \in Pins : CASE p = "hold" -> ~s.hold
                           [] p = "main" -> ~s.main
                           [] p = "usb"  -> s.usb}

SyncGpio(g) == [g EXCEPT !.line = g.status \cap g.enable # {}]

\* A pin that changes to the level the guest waits for is latched: level lists
\* the pins that are waited for to be high.  Mutation: the other way round.
Awaited_Inverted(g, before, after) == ((before \ after) \cap g.level) \cup ((after \ before) \ g.level)
Awaited(g, before, after) == ((after \ before) \cap g.level) \cup ((before \ after) \ g.level)

LatchChange(g, before, after) == SyncGpio([g EXCEPT !.status = @ \cup Awaited(g, before, after)])

SetSwitches(s) ==
  /\ switches' = s
  /\ gpio' = LatchChange(gpio, High(switches), High(s))
  /\ opto' = IF s.hold /\ ~switches.hold THEN ReleaseAll(opto) ELSE opto

-----------------------------------------------------------------------------
InputInit ==
  /\ switches \in [hold : BOOLEAN, main : BOOLEAN, usb : BOOLEAN]
  /\ opto = Released /\ gpio = Ports
  /\ power = "on" /\ device_ticks = 0
  /\ driver = Handlers

(***************************************************************************)
(* Page and script.                                                        *)
(***************************************************************************)

\* Menu wakes a machine in standby, hold or not; else hold keeps everything out.
Wakes(b) == b = Menu /\ power = "standby"

WakeUp == power' = "waking" /\ UNCHANGED <<switches, opto, gpio, device_ticks, driver>>

Touch(o) ==
  /\ opto' = IF switches.hold THEN opto ELSE o
  /\ UNCHANGED <<switches, gpio, power, device_ticks, driver>>

PressButton(b) == IF Wakes(b) THEN WakeUp ELSE Touch(Button(opto, b, TRUE))
LiftButton(b)  == Touch(Button(opto, b, FALSE))
TapButton(b)   == IF Wakes(b) THEN WakeUp ELSE Touch(Tap(opto, b))
TurnWheel(d)   == Touch(Turn(opto, d))

\* send_hardware sets the chargers and then the hold switch; a script only the
\* latter.
Hardware(s) ==
  /\ s # switches
  /\ SetSwitches(s)
  /\ UNCHANGED <<power, device_ticks, driver>>

\* n1g_dev_opto_tick.
TickOpto ==
  /\ device_ticks < MaxInputTicks
  /\ device_ticks' = device_ticks + 1
  /\ opto' = IF opto.pending # {} /\ device_ticks + 1 >= opto.release_tick
             THEN LiftPending(opto) ELSE opto
  /\ UNCHANGED <<switches, gpio, power, driver>>

\* The PMU puts the machine to sleep; after a wake it is initialised again and
\* keeps its switches.
Sleep ==
  /\ power = "on"
  /\ power' = "standby"
  /\ UNCHANGED <<switches, opto, gpio, device_ticks, driver>>

Reboot ==
  /\ power = "waking"
  /\ power' = "on"
  /\ opto' = Released /\ gpio' = Ports /\ driver' = Handlers /\ device_ticks' = 0
  /\ UNCHANGED switches

(***************************************************************************)
(* The guest's accesses, and the handlers that make them: one reads a      *)
(* report and clears it; one clears the latches, looks at the pins, waits  *)
(* for the other level of each, and looks again.                           *)
(***************************************************************************)
Accesses == UNCHANGED <<switches, power, device_ticks>>

ReadReport ==
  /\ driver.wheel = "idle" /\ opto.line
  /\ driver' = [driver EXCEPT !.wheel = "read",
       !.buttons = IF opto.queue = <<>> THEN opto.buttons ELSE Head(opto.queue).buttons]
  /\ Accesses /\ UNCHANGED <<opto, gpio>>

ClearStatus(o) ==
  LET rest == IF o.queue = <<>> THEN <<>> ELSE Tail(o.queue)
  IN  [o EXCEPT !.queue = rest, !.line = rest # <<>>]

ClearReport ==
  /\ driver.wheel = "read"
  /\ opto' = ClearStatus(opto)
  /\ driver' = [driver EXCEPT !.wheel = "idle"]
  /\ Accesses /\ UNCHANGED gpio

Masked(old, pins, bits) == (old \ pins) \cup (bits \cap pins)

WriteEnable(pins, bits) == gpio' = SyncGpio([gpio EXCEPT !.enable = Masked(@, pins, bits)])
WriteLevel(pins, bits)  == gpio' = SyncGpio([gpio EXCEPT !.level = Masked(@, pins, bits)])
ClearInt(pins)          == gpio' = SyncGpio([gpio EXCEPT !.status = @ \ pins])

Handler(from, to, view) ==
  /\ driver.pins = from
  /\ driver' = [driver EXCEPT !.pins = to, !.view = view]
  /\ Accesses /\ UNCHANGED opto

EnablePins == Handler("boot", "look", driver.view) /\ WriteEnable(Pins, Pins)
TakePins   == gpio.line /\ Handler("idle", "look", driver.view) /\ ClearInt(Pins)
LookAtPins == Handler("look", "aim", High(switches)) /\ UNCHANGED gpio
AimAtPins  == Handler("aim", "check", driver.view) /\ WriteLevel(Pins, Pins \ driver.view)
CheckPins  ==
  Handler("check", IF driver.view = High(switches) THEN "idle" ELSE "look", driver.view)
    /\ UNCHANGED gpio

InputGuest ==
  ReadReport \/ ClearReport \/ EnablePins \/ TakePins \/ LookAtPins \/ AimAtPins \/ CheckPins

InputNext ==
  \/ \E b \in Buttons : PressButton(b) \/ LiftButton(b) \/ TapButton(b)
  \/ \E d \in Deltas : TurnWheel(d)
  \/ \E s \in [hold : BOOLEAN, main : BOOLEAN, usb : BOOLEAN] : Hardware(s)
  \/ TickOpto \/ Sleep \/ Reboot \/ InputGuest

InputSpec == InputInit /\ [][InputNext]_inputVars
-----------------------------------------------------------------------------
(***************************************************************************)
(* Properties.                                                             *)
(***************************************************************************)

\* A guest that has no interrupt to handle knows the controls as they are,
\* although reports are merged and dropped and switches move back while it looks.
GuestCatchesUp ==
  /\ driver.wheel = "idle" /\ ~opto.line => driver.buttons = opto.buttons
  /\ driver.pins = "idle" /\ ~gpio.line => driver.view = High(switches)

\* Nothing is pressed on hold, and no report comes from it but that of the
\* release: the guest takes those there are, or a restart drops them.
HeldIsQuiet ==
  [][switches.hold /\ switches'.hold
       => /\ opto'.buttons = {}
          /\ opto'.queue \in {opto.queue, <<>>}
               \/ (opto.queue # <<>> /\ opto'.queue = Tail(opto.queue))]_inputVars

\* No button stays down by itself: it is held, or a tap will release it in time.
NoStuckButton ==
  /\ opto.buttons \subseteq opto.held \cup opto.pending
  /\ opto.pending # {} => device_ticks < opto.release_tick
================================================================================
