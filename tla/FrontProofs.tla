------------------------------- MODULE FrontProofs -------------------------------
(***************************************************************************)
(* Proofs about the front of the player: Input, for any buttons, wheel,    *)
(* queue longer than one and time of a tap, and after it Lcd, for any      *)
(* panel, windows clear of the origin, frames and values of a byte.        *)
(***************************************************************************)
EXTENDS Input, Lcd, SequenceTheorems, WellFoundedInduction, TLAPS

Reports == [buttons : SUBSET Buttons, wheel : Int]

OptoRecords ==
  [queue : Seq(Reports), line : BOOLEAN, buttons : SUBSET Buttons, pending : SUBSET Buttons,
   release_tick : Nat, wheel_pos : Int, held : SUBSET Buttons]

GpioRecords ==
  [status : SUBSET Pins, enable : SUBSET Pins, level : SUBSET Pins, line : BOOLEAN]

TypeOK ==
  /\ switches \in [hold : BOOLEAN, main : BOOLEAN, usb : BOOLEAN]
  /\ opto \in OptoRecords
  /\ gpio \in GpioRecords
  /\ power \in {"on", "standby", "waking"}
  /\ device_ticks \in Nat
  /\ driver \in [buttons : SUBSET Buttons, wheel : {"idle", "read"}, view : SUBSET Pins,
                 pins : {"boot", "look", "aim", "check", "idle"}]

\* The interrupt goes with the queue, whose last report tells the buttons.
QueueSound(o) ==
  /\ o.line <=> o.queue # <<>>
  /\ o.queue # <<>> => Last(o.queue).buttons = o.buttons

\* A guest in the middle of the handler has read the only report, or more will come.
Reading(queue, seen) ==
  /\ queue # <<>>
  /\ Len(queue) = 1 => seen = Last(queue).buttons

Knows ==
  /\ driver.wheel = "read" => Reading(opto.queue, driver.buttons)
  /\ driver.wheel = "idle" /\ opto.queue = <<>> => driver.buttons = opto.buttons

\* Hold leaves nothing pressed and no tap to come.
HoldReleases == switches.hold => opto.buttons = {} /\ opto.pending = {}

\* Each pin is watched for a change from what the guest saw last.
PinsWatched ==
  /\ gpio.line <=> gpio.status \cap gpio.enable # {}
  /\ driver.pins # "boot" => gpio.enable = Pins
  /\ driver.pins \in {"check", "idle"} => gpio.level = Pins \ driver.view
  /\ driver.pins = "idle" => gpio.status # {} \/ driver.view = High(switches)

IInv ==
  /\ TypeOK
  /\ QueueSound(opto)
  /\ Knows
  /\ HoldReleases
  /\ NoStuckButton
  /\ PinsWatched

-----------------------------------------------------------------------------
(***************************************************************************)
(* Reports.                                                                *)
(***************************************************************************)

\* The elements of a queue that grows at one end and shrinks at the other.
LEMMA QueueFacts ==
  ASSUME NEW S, NEW q \in Seq(S), NEW r \in S
  PROVE  /\ Append(q, r) \in Seq(S) /\ Append(q, r) # <<>>
         /\ Len(Append(q, r)) = Len(q) + 1 /\ Last(Append(q, r)) = r
         /\ q # <<>> => /\ Len(q) > 0 /\ Last(q) \in S
                        /\ Tail(q) \in Seq(S) /\ Len(Tail(q)) = Len(q) - 1
                        /\ Tail(q) # <<>> => Last(Tail(q)) = Last(q)
                        /\ Len(q) = 1 => Head(q) = Last(q) /\ Tail(q) = <<>>
                        /\ Len(q) # 1 => Tail(q) # <<>>
<1>1. /\ Append(q, r) \in Seq(S) /\ Append(q, r) # <<>>
      /\ Len(Append(q, r)) = Len(q) + 1 /\ Last(Append(q, r)) = r
  BY AppendProperties DEF Last
<1>2. ASSUME q # <<>>
      PROVE  /\ Len(q) > 0 /\ Last(q) \in S
             /\ Tail(q) \in Seq(S) /\ Len(Tail(q)) = Len(q) - 1
             /\ Tail(q) # <<>> => Last(Tail(q)) = Last(q)
             /\ Len(q) = 1 => Head(q) = Last(q) /\ Tail(q) = <<>>
             /\ Len(q) # 1 => Tail(q) # <<>>
  <2>1. Len(q) \in Nat \ {0}  BY <1>2, EmptySeq
  <2>2. Last(q) \in S  BY <2>1, ElementOfSeq DEF Last
  <2>3. /\ Tail(q) \in Seq(S) /\ Len(Tail(q)) = Len(q) - 1
        /\ \A i \in 1 .. Len(Tail(q)) : Tail(q)[i] = q[i + 1]
    BY <1>2, HeadTailProperties
  <2>4. Tail(q) # <<>> => Last(Tail(q)) = Last(q)
    <3> SUFFICES ASSUME Tail(q) # <<>> PROVE Last(Tail(q)) = Last(q)  OBVIOUS
    <3>1. Len(Tail(q)) \in Nat \ {0}  BY <2>3, EmptySeq
    <3> QED  BY <2>1, <2>3, <3>1 DEF Last
  <2>5. Len(q) = 1 => Head(q) = Last(q)  BY <1>2 DEF Last
  <2>6. Tail(q) # <<>> => Len(Tail(q)) # 0  BY <2>3, EmptySeq
  <2>7. Len(q) # 1 => Tail(q) # <<>>
    <3>1. Len(<<>>) = 0  BY EmptySeq
    <3> QED  BY <2>1, <2>3, <3>1
  <2> QED  BY <2>1, <2>2, <2>3, <2>4, <2>5, <2>6, <2>7
<1> QED  BY <1>1, <1>2

\* A report leaves the interrupt up and itself in the last place, changes nothing but
\* the queue, and takes nothing from a guest that is reading.
LEMMA EnqueueKeeps ==
  ASSUME NEW o \in OptoRecords, NEW r \in Reports, o.line <=> o.queue # <<>>
  PROVE  LET p == Enqueue(o, r)
         IN  /\ p \in OptoRecords
             /\ p.queue # <<>> /\ p.line /\ Last(p.queue) = r
             /\ p.buttons = o.buttons /\ p.pending = o.pending /\ p.held = o.held
             /\ p.release_tick = o.release_tick
             /\ \A seen : Reading(o.queue, seen) => Reading(p.queue, seen)
<1> DEFINE q == IF Len(o.queue) >= QueueLimit THEN Tail(o.queue) ELSE o.queue
<1>1. o.queue \in Seq(Reports)  BY DEF OptoRecords
<1>2. CASE Repeats(o, r)
  BY <1>1, <1>2, QueueFacts DEF Enqueue, Repeats, OptoRecords
<1>3. CASE ~Repeats(o, r)
  <2>1. Enqueue(o, r) = [o EXCEPT !.queue = Append(q, r), !.line = TRUE]
    BY <1>3 DEF Enqueue
  <2>2. q \in Seq(Reports) /\ (o.queue # <<>> => Len(q) >= 1)
    BY <1>1, QueueFacts, InputAssumption
  <2> HIDE DEF q
  <2>3. /\ Append(q, r) \in Seq(Reports) /\ Append(q, r) # <<>>
        /\ Last(Append(q, r)) = r /\ Len(Append(q, r)) = Len(q) + 1
    BY <2>2, QueueFacts
  <2>4. o.queue # <<>> => Len(Append(q, r)) # 1
    BY <2>2, <2>3
  <2>5. LET p == Enqueue(o, r)
        IN  /\ p \in OptoRecords /\ p.queue = Append(q, r) /\ p.line
            /\ p.buttons = o.buttons /\ p.pending = o.pending /\ p.held = o.held
            /\ p.release_tick = o.release_tick
    BY <2>1, <2>3 DEF OptoRecords
  <2> QED  BY <2>3, <2>4, <2>5 DEF Reading
<1> QED  BY <1>2, <1>3

\* What an operation on the controls may do to a queue and to a tap under way.
Moves(o, p) ==
  /\ p \in OptoRecords
  /\ QueueSound(p)
  /\ p = o \/ p.queue # <<>>
  /\ \A seen : Reading(o.queue, seen) => Reading(p.queue, seen)

\* No button is down that is neither held nor about to be released, at a time.
Settled(o, t) ==
  /\ o.buttons \subseteq o.held \cup o.pending
  /\ o.pending # {} => t < o.release_tick

\* A report of the buttons changes only the queue, soundly.
LEMMA ReportKeeps ==
  ASSUME NEW o \in OptoRecords, o.line <=> o.queue # <<>>
  PROVE  LET p == ReportButtons(o)
         IN  /\ Moves(o, p)
             /\ p.buttons = o.buttons /\ p.pending = o.pending /\ p.held = o.held
             /\ p.release_tick = o.release_tick /\ p.queue # <<>>
<1>1. Report(o.buttons, NoWheel) \in Reports  BY DEF Report, Reports, NoWheel, OptoRecords
<1>2. Report(o.buttons, NoWheel).buttons = o.buttons  BY DEF Report
<1> QED  BY <1>1, <1>2, EnqueueKeeps DEF ReportButtons, Moves, QueueSound

\* The end of a tap leaves only held buttons down.
LEMMA LiftPendingKeeps ==
  ASSUME NEW o \in OptoRecords, QueueSound(o), o.buttons \subseteq o.held \cup o.pending
  PROVE  LET p == LiftPending(o)
         IN  Moves(o, p) /\ p.pending = {} /\ p.buttons \subseteq p.held /\ p.queue # <<>>
<1> DEFINE l == [o EXCEPT !.buttons = @ \ o.pending, !.held = @ \ o.pending,
                          !.pending = {}, !.release_tick = 0]
<1>1. /\ l \in OptoRecords /\ l.queue = o.queue /\ l.line = o.line
      /\ l.pending = {} /\ l.buttons \subseteq l.held
  BY DEF OptoRecords
<1>2. LiftPending(o) = ReportButtons(l)  BY DEF LiftPending
<1> HIDE DEF l
<1> QED  BY <1>1, <1>2, ReportKeeps DEF Moves, QueueSound

\* A button pressed is held; a button lifted is neither held nor down.
LEMMA ButtonKeeps ==
  ASSUME NEW o \in OptoRecords, QueueSound(o), NEW b \in Buttons, NEW pressed \in BOOLEAN,
         NEW t, Settled(o, t)
  PROVE  Moves(o, Button(o, b, pressed)) /\ Settled(Button(o, b, pressed), t)
<1> DEFINE l == IF pressed THEN [o EXCEPT !.buttons = @ \cup {b}, !.held = @ \cup {b}]
                ELSE [o EXCEPT !.buttons = @ \ {b}, !.held = @ \ {b}]
<1>1. /\ l \in OptoRecords /\ l.queue = o.queue /\ l.line = o.line /\ Settled(l, t)
  BY DEF OptoRecords, Settled
<1>2. Button(o, b, pressed) = ReportButtons(l)  BY DEF Button
<1> HIDE DEF l
<1> QED  BY <1>1, <1>2, ReportKeeps DEF Moves, QueueSound, Settled

\* A tap ends an earlier one before it arms its own release.
LEMMA TapKeeps ==
  ASSUME NEW o \in OptoRecords, QueueSound(o), NEW b \in Buttons,
         device_ticks \in Nat, Settled(o, device_ticks)
  PROVE  Moves(o, Tap(o, b)) /\ Settled(Tap(o, b), device_ticks)
<1> DEFINE k == IF o.pending # {} THEN LiftPending(o) ELSE o
           l == [k EXCEPT !.buttons = @ \cup {b}, !.pending = {b},
                          !.release_tick = device_ticks + HoldTicks]
<1>1. /\ k \in OptoRecords /\ QueueSound(k) /\ k.buttons \subseteq k.held
      /\ \A seen : Reading(o.queue, seen) => Reading(k.queue, seen)
  BY LiftPendingKeeps DEF Moves, Settled
<1> HIDE DEF k
<1>2. HoldTicks \in Nat /\ HoldTicks > 0  BY InputAssumption
<1>3. /\ l \in OptoRecords /\ l.queue = k.queue /\ l.line = k.line
      /\ Settled(l, device_ticks)
  <2>1. device_ticks + HoldTicks \in Nat /\ device_ticks < device_ticks + HoldTicks
    BY <1>2
  <2>2. /\ l \in OptoRecords /\ l.queue = k.queue /\ l.line = k.line
        /\ l.buttons = k.buttons \cup {b} /\ l.held = k.held /\ l.pending = {b}
        /\ l.release_tick = device_ticks + HoldTicks
    BY <1>1, <2>1 DEF OptoRecords
  <2> QED  BY <1>1, <2>1, <2>2 DEF Settled
<1>4. Tap(o, b) = ReportButtons(l)  BY DEF Tap, k
<1> HIDE DEF l
<1> QED  BY <1>1, <1>3, <1>4, ReportKeeps DEF Moves, QueueSound, Settled

\* The wheel leaves the buttons and a tap under way alone.
LEMMA TurnKeeps ==
  ASSUME NEW o \in OptoRecords, QueueSound(o), NEW d \in Deltas, NEW t, Settled(o, t)
  PROVE  Moves(o, Turn(o, d)) /\ Settled(Turn(o, d), t)
<1> DEFINE pos == (o.wheel_pos + d) % Positions
           l == [o EXCEPT !.wheel_pos = pos]
<1>1. pos \in Int  BY InputAssumption DEF OptoRecords
<1> HIDE DEF pos
<1>2. /\ l \in OptoRecords /\ l.queue = o.queue /\ l.line = o.line /\ l.buttons = o.buttons
      /\ Settled(l, t)
  BY <1>1 DEF OptoRecords, Settled
<1>3. Report(o.buttons, pos) \in Reports /\ Report(o.buttons, pos).buttons = o.buttons
  BY <1>1 DEF Report, Reports, OptoRecords
<1>4. Turn(o, d) = Enqueue(l, Report(o.buttons, pos))  BY DEF Turn, pos
<1> HIDE DEF l
<1> QED  BY <1>2, <1>3, <1>4, EnqueueKeeps DEF Moves, QueueSound, Settled

\* Hold lifts every button and forgets the tap.
LEMMA ReleaseAllKeeps ==
  ASSUME NEW o \in OptoRecords, QueueSound(o), NEW t, Settled(o, t)
  PROVE  /\ Moves(o, ReleaseAll(o)) /\ Settled(ReleaseAll(o), t)
         /\ ReleaseAll(o).buttons = {} /\ ReleaseAll(o).pending = {}
<1> DEFINE l == [o EXCEPT !.buttons = {}, !.pending = {}, !.release_tick = 0, !.held = {}]
<1>1. CASE o.buttons = {} /\ o.pending = {}
  BY <1>1 DEF ReleaseAll, Moves
<1>2. CASE ~(o.buttons = {} /\ o.pending = {})
  <2>1. /\ l \in OptoRecords /\ l.queue = o.queue /\ l.line = o.line
        /\ l.buttons = {} /\ l.pending = {} /\ l.held = {}
    BY DEF OptoRecords
  <2>2. Report({}, NoWheel) \in Reports /\ Report({}, NoWheel).buttons = {}
    BY DEF Report, Reports, NoWheel
  <2>3. ReleaseAll(o) = Enqueue(l, Report({}, NoWheel))  BY <1>2 DEF ReleaseAll
  <2> HIDE DEF l
  <2>4. l.line <=> l.queue # <<>>  BY <2>1 DEF QueueSound
  <2>5. LET p == ReleaseAll(o)
        IN  /\ p \in OptoRecords
            /\ p.queue # <<>> /\ p.line /\ Last(p.queue) = Report({}, NoWheel)
            /\ p.buttons = {} /\ p.pending = {}
            /\ \A seen : Reading(o.queue, seen) => Reading(p.queue, seen)
    BY <2>1, <2>2, <2>3, <2>4, EnqueueKeeps
  <2> QED  BY <2>2, <2>5 DEF Moves, QueueSound, Settled
<1> QED  BY <1>1, <1>2

-----------------------------------------------------------------------------
(***************************************************************************)
(* The inductive invariant.                                                *)
(***************************************************************************)
\* The levels are levels of pins.
LEMMA HighType == ASSUME NEW s PROVE High(s) \in SUBSET Pins
  BY DEF High

\* A machine that has just started is sound.
LEMMA InitIInv == InputInit => IInv
<1> SUFFICES ASSUME InputInit PROVE IInv  OBVIOUS
<1> USE DEF InputInit
<1>1. opto \in OptoRecords  BY DEF Released, OptoRecords
<1>2. gpio \in GpioRecords  BY DEF Ports, GpioRecords, Pins
<1>3. TypeOK  BY <1>1, <1>2 DEF TypeOK, Handlers
<1>4. QueueSound(opto)  BY DEF Released, QueueSound
<1>5. Knows  BY DEF Released, Handlers, Knows
<1>6. HoldReleases /\ NoStuckButton  BY DEF Released, HoldReleases, NoStuckButton
<1>7. PinsWatched  BY DEF Ports, Handlers, PinsWatched
<1> QED  BY <1>3, <1>4, <1>5, <1>6, <1>7 DEF IInv

\* Whatever the page, the script or a tick does to the controls, the guest's handler is
\* where it was and hears of it.
LEMMA MovesKeepsKnows ==
  ASSUME Knows, Moves(opto, opto'), driver' = driver
  PROVE  Knows'
  BY DEF Knows, Moves, QueueSound

\* A touch of the controls that is not kept out by hold.
LEMMA TouchKeeps ==
  ASSUME IInv, NEW o, Touch(o),
         Moves(opto, o), Settled(o, device_ticks)
  PROVE  IInv'
<1> USE DEF IInv
<1>1. CASE switches.hold
  <2>1. UNCHANGED inputVars  BY <1>1 DEF Touch, inputVars
  <2> QED  BY <2>1 DEF inputVars, TypeOK, Knows, HoldReleases, NoStuckButton, PinsWatched
<1>2. CASE ~switches.hold
  <2>1. opto' = o /\ UNCHANGED <<switches, gpio, power, device_ticks, driver>>
    BY <1>2 DEF Touch
  <2>2. TypeOK'  BY <2>1 DEF TypeOK, Moves
  <2>3. QueueSound(opto)'  BY <2>1 DEF Moves
  <2>4. Knows'  BY <2>1, MovesKeepsKnows
  <2>5. HoldReleases'  BY <1>2, <2>1 DEF HoldReleases
  <2>6. NoStuckButton'  BY <2>1 DEF NoStuckButton, Settled
  <2>7. PinsWatched'  BY <2>1 DEF PinsWatched
  <2> QED  BY <2>2, <2>3, <2>4, <2>5, <2>6, <2>7
<1> QED  BY <1>1, <1>2

\* A wake by Menu changes nothing the guest watches.
LEMMA WakeUpKeeps ==
  ASSUME IInv, WakeUp PROVE IInv'
  BY DEF IInv, WakeUp, TypeOK, Knows, HoldReleases, NoStuckButton, PinsWatched

\* Every pin that changes is latched, while the levels await what the guest has not seen.
LEMMA LatchChangeKeeps ==
  ASSUME NEW g \in GpioRecords, NEW earlier \in SUBSET Pins, NEW after \in SUBSET Pins
  PROVE  LET h == LatchChange(g, earlier, after)
         IN  /\ h \in GpioRecords
             /\ h.enable = g.enable /\ h.level = g.level
             /\ h.line <=> h.status \cap h.enable # {}
             /\ g.status \subseteq h.status
             /\ g.level = Pins \ earlier /\ after # earlier => h.status # {}
<1> DEFINE awaited == Awaited(g, earlier, after)
           k == [g EXCEPT !.status = @ \cup awaited]
<1>1. awaited \in SUBSET Pins  BY DEF Awaited, GpioRecords
<1>2. g.level = Pins \ earlier /\ after # earlier => awaited # {}
  BY DEF Awaited, GpioRecords
<1> HIDE DEF awaited
<1>3. /\ k \in GpioRecords /\ k.enable = g.enable /\ k.level = g.level
      /\ k.status = g.status \cup awaited
  BY <1>1 DEF GpioRecords
<1>4. LatchChange(g, earlier, after) = SyncGpio(k)  BY DEF LatchChange, awaited
<1> HIDE DEF k
<1>5. /\ SyncGpio(k) \in GpioRecords
      /\ SyncGpio(k).enable = k.enable /\ SyncGpio(k).level = k.level
      /\ SyncGpio(k).status = k.status
      /\ SyncGpio(k).line <=> k.status \cap k.enable # {}
  BY <1>3 DEF SyncGpio, GpioRecords
<1> QED  BY <1>2, <1>3, <1>4, <1>5

\* Hold and chargers: the pins latch what the guest will look at, hold releases.
LEMMA HardwareKeeps ==
  ASSUME IInv, NEW s \in [hold : BOOLEAN, main : BOOLEAN, usb : BOOLEAN], Hardware(s)
  PROVE  IInv'
<1> USE DEF IInv
<1>1. /\ switches' = s /\ UNCHANGED <<power, device_ticks, driver>>
      /\ gpio' = LatchChange(gpio, High(switches), High(s))
      /\ opto' = IF s.hold /\ ~switches.hold THEN ReleaseAll(opto) ELSE opto
  BY DEF Hardware, SetSwitches
<1>2. opto \in OptoRecords /\ gpio \in GpioRecords  BY DEF TypeOK
<1>3. Settled(opto, device_ticks)  BY DEF NoStuckButton, Settled
<1>4. /\ Moves(opto, opto') /\ Settled(opto', device_ticks)
      /\ s.hold /\ ~switches.hold => opto'.buttons = {} /\ opto'.pending = {}
  <2>1. CASE s.hold /\ ~switches.hold  BY <1>1, <1>2, <1>3, <2>1, ReleaseAllKeeps
  <2>2. CASE ~(s.hold /\ ~switches.hold)
    BY <1>1, <1>2, <1>3, <2>2 DEF Moves
  <2> QED  BY <2>1, <2>2
<1>5. High(switches) \in SUBSET Pins /\ High(s) \in SUBSET Pins  BY HighType
<1>6. /\ gpio' \in GpioRecords
      /\ gpio'.enable = gpio.enable /\ gpio'.level = gpio.level
      /\ gpio'.line <=> gpio'.status \cap gpio'.enable # {}
      /\ gpio.status \subseteq gpio'.status
      /\ gpio.level = Pins \ High(switches) /\ High(s) # High(switches) => gpio'.status # {}
  <2> DEFINE h == LatchChange(gpio, High(switches), High(s))
  <2>1. /\ h \in GpioRecords
        /\ h.enable = gpio.enable /\ h.level = gpio.level
        /\ h.line <=> h.status \cap h.enable # {}
        /\ gpio.status \subseteq h.status
        /\ gpio.level = Pins \ High(switches) /\ High(s) # High(switches) => h.status # {}
    BY <1>2, <1>5, LatchChangeKeeps
  <2>2. gpio' = h  BY <1>1
  <2> HIDE DEF h
  <2> QED  BY <2>1, <2>2
<1>7. TypeOK'  BY <1>1, <1>4, <1>6 DEF TypeOK, Moves
<1>8. QueueSound(opto)'  BY <1>4 DEF Moves
<1>9. Knows'  BY <1>1, <1>4, MovesKeepsKnows
<1>10. HoldReleases'
  <2>1. CASE s.hold /\ ~switches.hold  BY <1>4, <2>1 DEF HoldReleases
  <2>2. CASE ~(s.hold /\ ~switches.hold)  BY <1>1, <2>2 DEF HoldReleases
  <2> QED  BY <2>1, <2>2
<1>11. NoStuckButton'  BY <1>1, <1>4 DEF NoStuckButton, Settled
<1>12. PinsWatched'
  <2>1. driver.pins = "idle" => gpio'.status # {} \/ driver.view = High(s)
    BY <1>6 DEF PinsWatched
  <2> QED  BY <1>1, <1>6, <2>1 DEF PinsWatched
<1> QED  BY <1>7, <1>8, <1>9, <1>10, <1>11, <1>12

\* A tick releases a tap that is due, and one that is not is still to come.
LEMMA TickOptoKeeps ==
  ASSUME IInv, TickOpto PROVE IInv'
<1> USE DEF IInv
<1> DEFINE due == opto.pending # {} /\ device_ticks + 1 >= opto.release_tick
<1>1. /\ device_ticks' = device_ticks + 1
      /\ opto' = IF due THEN LiftPending(opto) ELSE opto
      /\ UNCHANGED <<switches, gpio, power, driver>>
  BY DEF TickOpto
<1>2. /\ opto \in OptoRecords /\ opto.buttons \subseteq opto.held \cup opto.pending
      /\ device_ticks \in Nat /\ opto.release_tick \in Nat
  BY DEF TypeOK, NoStuckButton, OptoRecords
<1>3. CASE due
  <2>1. /\ Moves(opto, opto') /\ opto'.pending = {} /\ opto'.buttons \subseteq opto'.held
    BY <1>1, <1>2, <1>3, LiftPendingKeeps
  <2>2. TypeOK'  BY <1>1, <1>2, <2>1 DEF TypeOK, Moves
  <2>3. QueueSound(opto)'  BY <2>1 DEF Moves
  <2>4. Knows'  BY <1>1, <2>1, MovesKeepsKnows
  <2>5. HoldReleases'  BY <1>1, <1>3 DEF HoldReleases
  <2>6. NoStuckButton'  BY <2>1 DEF NoStuckButton
  <2>7. PinsWatched'  BY <1>1 DEF PinsWatched
  <2> QED  BY <2>2, <2>3, <2>4, <2>5, <2>6, <2>7
<1>4. CASE ~due
  <2>1. opto' = opto  BY <1>1, <1>4
  <2>2. TypeOK'  BY <1>1, <1>2, <2>1 DEF TypeOK
  <2>3. QueueSound(opto)'  BY <2>1
  <2>4. Knows'  BY <1>1, <2>1 DEF Knows
  <2>5. HoldReleases'  BY <1>1, <2>1 DEF HoldReleases
  <2>6. NoStuckButton'
    <3>1. opto.pending # {} => device_ticks + 1 < opto.release_tick  BY <1>2, <1>4
    <3> QED  BY <1>1, <1>2, <2>1, <3>1 DEF NoStuckButton
  <2>7. PinsWatched'  BY <1>1 DEF PinsWatched
  <2> QED  BY <2>2, <2>3, <2>4, <2>5, <2>6, <2>7
<1> QED  BY <1>3, <1>4

\* Standby leaves the controls as they are.
LEMMA SleepKeeps ==
  ASSUME IInv, Sleep PROVE IInv'
  BY DEF IInv, Sleep, TypeOK, Knows, HoldReleases, NoStuckButton, PinsWatched

\* A restart leaves the controls released and both handlers at their start.
LEMMA RebootKeeps ==
  ASSUME IInv, Reboot PROVE IInv'
<1> USE DEF Reboot
<1>1. opto' \in OptoRecords  BY DEF Released, OptoRecords
<1>2. gpio' \in GpioRecords  BY DEF Ports, GpioRecords, Pins
<1>3. TypeOK'  BY <1>1, <1>2 DEF TypeOK, Handlers, IInv
<1>4. QueueSound(opto)'  BY DEF Released, QueueSound
<1>5. Knows'  BY DEF Released, Handlers, Knows
<1>6. (HoldReleases /\ NoStuckButton)'  BY DEF Released, HoldReleases, NoStuckButton
<1>7. PinsWatched'  BY DEF Ports, Handlers, PinsWatched
<1> QED  BY <1>3, <1>4, <1>5, <1>6, <1>7 DEF IInv

\* The guest that has read the only report knows the buttons.
LEMMA ReadReportKeeps ==
  ASSUME IInv, ReadReport PROVE IInv'
<1> USE DEF IInv
<1> DEFINE seen == IF opto.queue = <<>> THEN opto.buttons ELSE Head(opto.queue).buttons
<1>1. /\ driver' = [driver EXCEPT !.wheel = "read", !.buttons = seen]
      /\ UNCHANGED <<opto, gpio, switches, power, device_ticks>>
      /\ opto.line
  BY DEF ReadReport, Accesses
<1>2. opto \in OptoRecords  BY DEF TypeOK
<1>3. opto.queue # <<>> /\ opto.queue \in Seq(Reports)
  BY <1>1, <1>2 DEF QueueSound, OptoRecords
<1>4. Head(opto.queue) \in Reports  BY <1>3, HeadTailProperties
<1>5. seen \in SUBSET Buttons /\ seen = Head(opto.queue).buttons  BY <1>3, <1>4 DEF Reports
<1> HIDE DEF seen
<1>6. /\ driver' \in [buttons : SUBSET Buttons, wheel : {"idle", "read"}, view : SUBSET Pins,
                      pins : {"boot", "look", "aim", "check", "idle"}]
      /\ driver'.wheel = "read" /\ driver'.buttons = seen
      /\ driver'.pins = driver.pins /\ driver'.view = driver.view
  BY <1>1, <1>5 DEF TypeOK
<1>7. TypeOK'  BY <1>1, <1>6 DEF TypeOK
<1>8. Knows'
  <2>1. Len(opto.queue) = 1 => Head(opto.queue) = Last(opto.queue)
    BY <1>3, <1>4, QueueFacts
  <2> QED  BY <1>1, <1>3, <1>5, <1>6, <2>1 DEF Knows, Reading
<1>9. (QueueSound(opto) /\ HoldReleases /\ NoStuckButton)'
  BY <1>1 DEF HoldReleases, NoStuckButton
<1>10. PinsWatched'  BY <1>1, <1>6 DEF PinsWatched
<1> QED  BY <1>7, <1>8, <1>9, <1>10

\* The interrupt stays up while reports are left that the guest has not read.
LEMMA ClearReportKeeps ==
  ASSUME IInv, ClearReport PROVE IInv'
<1> USE DEF IInv
<1> DEFINE rest == Tail(opto.queue)
<1>1. /\ driver.wheel = "read" /\ driver' = [driver EXCEPT !.wheel = "idle"]
      /\ opto' = ClearStatus(opto)
      /\ UNCHANGED <<gpio, switches, power, device_ticks>>
  BY DEF ClearReport, Accesses
<1>2. opto \in OptoRecords /\ opto.queue \in Seq(Reports)  BY DEF TypeOK, OptoRecords
<1>3. Reading(opto.queue, driver.buttons) /\ opto.queue # <<>>
  BY <1>1 DEF Knows, Reading
<1>4. /\ rest \in Seq(Reports)
      /\ rest # <<>> => Last(rest) = Last(opto.queue)
      /\ Len(opto.queue) # 1 => rest # <<>>
  <2>1. Head(opto.queue) \in Reports  BY <1>2, <1>3, HeadTailProperties
  <2> QED  BY <1>2, <1>3, <2>1, QueueFacts
<1>5. opto' = [opto EXCEPT !.queue = rest, !.line = rest # <<>>]
  BY <1>1, <1>3 DEF ClearStatus
<1> HIDE DEF rest
<1>6. /\ opto' \in OptoRecords
      /\ opto'.queue = rest /\ (opto'.line <=> rest # <<>>)
      /\ opto'.buttons = opto.buttons /\ opto'.pending = opto.pending
      /\ opto'.held = opto.held /\ opto'.release_tick = opto.release_tick
  BY <1>2, <1>4, <1>5 DEF OptoRecords
<1>7. /\ driver' \in [buttons : SUBSET Buttons, wheel : {"idle", "read"}, view : SUBSET Pins,
                      pins : {"boot", "look", "aim", "check", "idle"}]
      /\ driver'.wheel = "idle" /\ driver'.buttons = driver.buttons
      /\ driver'.pins = driver.pins /\ driver'.view = driver.view
  BY <1>1 DEF TypeOK
<1>8. TypeOK'  BY <1>1, <1>6, <1>7 DEF TypeOK
<1>9. QueueSound(opto)'  BY <1>3, <1>4, <1>6 DEF QueueSound
<1>10. Knows'
  <2>1. rest = <<>> => driver.buttons = opto.buttons
    BY <1>3, <1>4 DEF Reading, QueueSound
  <2> QED  BY <1>6, <1>7, <2>1 DEF Knows
<1>11. (HoldReleases /\ NoStuckButton)'  BY <1>1, <1>6 DEF HoldReleases, NoStuckButton
<1>12. PinsWatched'  BY <1>1, <1>7 DEF PinsWatched
<1> QED  BY <1>8, <1>9, <1>10, <1>11, <1>12

\* The handler of the ports leaves the wheel alone.
LEMMA HandlerKeeps ==
  ASSUME IInv, NEW from, NEW to \in {"look", "aim", "check", "idle"},
         NEW view \in SUBSET Pins, Handler(from, to, view),
         gpio' \in GpioRecords, PinsWatched'
  PROVE  IInv'
<1>1. /\ driver' = [driver EXCEPT !.pins = to, !.view = view]
      /\ UNCHANGED <<opto, switches, power, device_ticks>>
  BY DEF Handler, Accesses
<1>2. /\ driver' \in [buttons : SUBSET Buttons, wheel : {"idle", "read"}, view : SUBSET Pins,
                      pins : {"boot", "look", "aim", "check", "idle"}]
      /\ driver'.wheel = driver.wheel /\ driver'.buttons = driver.buttons
  BY <1>1 DEF IInv, TypeOK
<1> QED  BY <1>1, <1>2 DEF IInv, TypeOK, Knows, HoldReleases, NoStuckButton

\* The interrupt of the ports follows the latches that are enabled.
LEMMA SyncGpioType ==
  ASSUME NEW g \in GpioRecords
  PROVE  /\ SyncGpio(g) \in GpioRecords
         /\ SyncGpio(g).status = g.status /\ SyncGpio(g).enable = g.enable
         /\ SyncGpio(g).level = g.level
         /\ SyncGpio(g).line <=> g.status \cap g.enable # {}
  BY DEF SyncGpio, GpioRecords

\* Each step of the handler of the ports, which ends only when nothing has changed since.
LEMMA PinsHandlerKeeps ==
  ASSUME IInv, EnablePins \/ TakePins \/ LookAtPins \/ AimAtPins \/ CheckPins
  PROVE  IInv'
<1> USE DEF IInv
<1>1. gpio \in GpioRecords /\ driver.view \in SUBSET Pins  BY DEF TypeOK
<1>2. ASSUME NEW from, NEW to, NEW view, Handler(from, to, view)
      PROVE  /\ driver.pins = from /\ driver'.pins = to /\ driver'.view = view
             /\ switches' = switches
  BY <1>2 DEF Handler, Accesses, TypeOK
<1>3. CASE EnablePins
  <2>1. Handler("boot", "look", driver.view) /\ WriteEnable(Pins, Pins)
    BY <1>3 DEF EnablePins
  <2>2. driver'.pins = "look" /\ driver'.view = driver.view  BY <1>2, <2>1
  <2> DEFINE g == [gpio EXCEPT !.enable = Masked(@, Pins, Pins)]
  <2>3. g \in GpioRecords /\ g.enable = Pins  BY <1>1 DEF GpioRecords, Masked
  <2>4. gpio' = SyncGpio(g)  BY <2>1 DEF WriteEnable
  <2> HIDE DEF g
  <2>5. gpio' \in GpioRecords /\ PinsWatched'
    BY <2>2, <2>3, <2>4, SyncGpioType DEF PinsWatched
  <2> QED  BY <1>1, <2>1, <2>5, HandlerKeeps
<1>4. CASE TakePins
  <2>1. Handler("idle", "look", driver.view) /\ ClearInt(Pins)
    BY <1>4 DEF TakePins
  <2>2. driver.pins = "idle" /\ driver'.pins = "look"  BY <1>2, <2>1
  <2> DEFINE g == [gpio EXCEPT !.status = @ \ Pins]
  <2>3. g \in GpioRecords /\ g.enable = gpio.enable  BY <1>1 DEF GpioRecords
  <2>4. gpio' = SyncGpio(g)  BY <2>1 DEF ClearInt
  <2> HIDE DEF g
  <2>5. gpio' \in GpioRecords /\ PinsWatched'
    BY <2>2, <2>3, <2>4, SyncGpioType DEF PinsWatched
  <2> QED  BY <1>1, <2>1, <2>5, HandlerKeeps
<1>5. CASE LookAtPins
  <2>1. Handler("look", "aim", High(switches)) /\ gpio' = gpio
    BY <1>5 DEF LookAtPins
  <2>2. driver.pins = "look" /\ driver'.pins = "aim"  BY <1>2, <2>1
  <2>3. gpio' \in GpioRecords /\ PinsWatched'  BY <1>1, <2>1, <2>2 DEF PinsWatched
  <2> QED  BY <2>1, <2>3, HighType, HandlerKeeps
<1>6. CASE AimAtPins
  <2>1. Handler("aim", "check", driver.view) /\ WriteLevel(Pins, Pins \ driver.view)
    BY <1>6 DEF AimAtPins
  <2>2. driver.pins = "aim" /\ driver'.pins = "check" /\ driver'.view = driver.view
    BY <1>2, <2>1
  <2> DEFINE g == [gpio EXCEPT !.level = Masked(@, Pins, Pins \ driver.view)]
  <2>3. g \in GpioRecords /\ g.enable = gpio.enable /\ g.level = Pins \ driver.view
    BY <1>1 DEF GpioRecords, Masked
  <2>4. gpio' = SyncGpio(g)  BY <2>1 DEF WriteLevel
  <2> HIDE DEF g
  <2>5. gpio' \in GpioRecords /\ PinsWatched'
    BY <2>2, <2>3, <2>4, SyncGpioType DEF PinsWatched
  <2> QED  BY <1>1, <2>1, <2>5, HandlerKeeps
<1>7. CASE CheckPins
  <2> DEFINE to == IF driver.view = High(switches) THEN "idle" ELSE "look"
  <2>1. Handler("check", to, driver.view) /\ gpio' = gpio
    BY <1>7 DEF CheckPins
  <2>2. /\ driver.pins = "check" /\ driver'.pins = to /\ driver'.view = driver.view
        /\ switches' = switches
    BY <1>2, <2>1
  <2>3. gpio' \in GpioRecords /\ PinsWatched'  BY <1>1, <2>1, <2>2 DEF PinsWatched
  <2>4. to \in {"look", "aim", "check", "idle"}  OBVIOUS
  <2> HIDE DEF to
  <2> QED  BY <1>1, <2>1, <2>3, <2>4, HandlerKeeps
<1> QED  BY <1>3, <1>4, <1>5, <1>6, <1>7

\* Press, lift and tap from the page or the script.
LEMMA ControlsKeep ==
  ASSUME IInv, NEW b \in Buttons, PressButton(b) \/ LiftButton(b) \/ TapButton(b)
  PROVE  IInv'
<1>1. /\ opto \in OptoRecords /\ QueueSound(opto) /\ Settled(opto, device_ticks)
      /\ device_ticks \in Nat
  BY DEF IInv, TypeOK, NoStuckButton, Settled
<1>2. CASE WakeUp  BY <1>2, WakeUpKeeps
<1>3. CASE Touch(Button(opto, b, TRUE))  BY <1>1, <1>3, ButtonKeeps, TouchKeeps
<1>4. CASE Touch(Button(opto, b, FALSE))  BY <1>1, <1>4, ButtonKeeps, TouchKeeps
<1>5. CASE Touch(Tap(opto, b))  BY <1>1, <1>5, TapKeeps, TouchKeeps
<1> QED  BY <1>2, <1>3, <1>4, <1>5 DEF PressButton, LiftButton, TapButton

\* A turn of the wheel.
LEMMA WheelKeeps ==
  ASSUME IInv, NEW d \in Deltas, TurnWheel(d)
  PROVE  IInv'
<1>1. opto \in OptoRecords /\ QueueSound(opto) /\ Settled(opto, device_ticks)
  BY DEF IInv, TypeOK, NoStuckButton, Settled
<1> QED  BY <1>1, TurnKeeps, TouchKeeps DEF TurnWheel

\* Every step keeps the inductive invariant.
LEMMA NextIInv ==
  ASSUME IInv, [InputNext]_inputVars PROVE IInv'
<1>1. CASE UNCHANGED inputVars
  BY <1>1 DEF inputVars, IInv, TypeOK, Knows, HoldReleases, NoStuckButton, PinsWatched
<1>2. CASE InputNext
  BY <1>2, ControlsKeep, WheelKeeps, HardwareKeeps, TickOptoKeeps, SleepKeeps, RebootKeeps,
     ReadReportKeeps, ClearReportKeeps, PinsHandlerKeeps
     DEF InputNext, InputGuest
<1> QED  BY <1>1, <1>2

\* Types, queue and interrupt, what the guest knows, hold, taps and pins, in every
\* reachable state of dev_opto.c and dev_gpio.c.
THEOREM IInvCorrect == InputSpec => []IInv
<1> QED  BY InitIInv, NextIInv, PTL DEF InputSpec

-----------------------------------------------------------------------------
\* A guest without an interrupt to handle knows the controls as they are.
THEOREM GuestCatchesUpCorrect == InputSpec => []GuestCatchesUp
<1>1. IInv => GuestCatchesUp
  <2> SUFFICES ASSUME IInv PROVE GuestCatchesUp  OBVIOUS
  <2>1. driver.wheel = "idle" /\ ~opto.line => driver.buttons = opto.buttons
    BY DEF IInv, Knows, QueueSound
  <2>2. driver.pins = "idle" /\ ~gpio.line => driver.view = High(switches)
    <3> SUFFICES ASSUME driver.pins = "idle", ~gpio.line PROVE driver.view = High(switches)
      OBVIOUS
    <3>1. gpio.status \cap Pins = {} /\ gpio.status \subseteq Pins
      BY DEF IInv, PinsWatched, TypeOK, GpioRecords
    <3> QED  BY <3>1 DEF IInv, PinsWatched
  <2> QED  BY <2>1, <2>2 DEF GuestCatchesUp
<1> QED  BY <1>1, IInvCorrect, PTL

\* A button that is down is held, or a tap will release it in time.
THEOREM NoStuckButtonCorrect == InputSpec => []NoStuckButton
<1>1. IInv => NoStuckButton  BY DEF IInv
<1> QED  BY <1>1, IInvCorrect, PTL

\* On hold nothing is pressed and nothing is reported.
THEOREM HeldIsQuietCorrect == InputSpec => HeldIsQuiet
<1> DEFINE Quiet ==
      switches.hold /\ switches'.hold
        => /\ opto'.buttons = {}
           /\ opto'.queue \in {opto.queue, <<>>}
                \/ (opto.queue # <<>> /\ opto'.queue = Tail(opto.queue))
<1>1. IInv /\ IInv' /\ [InputNext]_inputVars => Quiet
  <2> SUFFICES ASSUME IInv, IInv', [InputNext]_inputVars, switches.hold, switches'.hold
               PROVE  /\ opto'.buttons = {}
                      /\ opto'.queue \in {opto.queue, <<>>}
                           \/ (opto.queue # <<>> /\ opto'.queue = Tail(opto.queue))
    OBVIOUS
  <2>1. opto'.buttons = {}  BY DEF IInv, HoldReleases
  <2>2. opto.pending = {}  BY DEF IInv, HoldReleases
  <2>3. CASE opto' = opto  BY <2>1, <2>3
  <2>4. CASE ClearReport
    <3>1. opto \in OptoRecords  BY DEF IInv, TypeOK
    <3>2. opto'.queue = IF opto.queue = <<>> THEN <<>> ELSE Tail(opto.queue)
      BY <2>4, <3>1 DEF ClearReport, ClearStatus, OptoRecords
    <3> QED  BY <2>1, <3>2
  <2>5. CASE Reboot  BY <2>1, <2>5 DEF Reboot, Released
  <2>6. opto' = opto \/ ClearReport \/ Reboot
    BY <2>2 DEF InputNext, inputVars, PressButton, LiftButton, TapButton, TurnWheel, WakeUp,
       Touch, Hardware, SetSwitches, TickOpto, Sleep, InputGuest, ReadReport, EnablePins,
       TakePins, LookAtPins, AimAtPins, CheckPins, Handler
  <2> QED  BY <2>3, <2>4, <2>5, <2>6
<1> QED  BY <1>1, IInvCorrect, PTL DEF InputSpec, HeldIsQuiet

-----------------------------------------------------------------------------
Ways == {"pixels", "words", "blockThenArm", "armThenBlock"}

PanelRecords ==
  [pixels : [Places -> Nat],
   x0 : 0..PanelWidth - 1, x1 : 0..PanelWidth - 1, y0 : 0..GramHeight - 1, y1 : 0..GramHeight - 1,
   x : 0..PanelWidth - 1, y : 0..GramHeight - 1,
   command : {"none", "horizontal", "vertical", "cursor", "gram"}, hi : Int,
   config : Nat, remaining : Nat]

ChannelRecords ==
  [wait : BOOLEAN, words : Nat, ram : Seq(Nat \X Nat), aimed : BOOLEAN,
   armed : BOOLEAN, linked : BOOLEAN, intr : BOOLEAN]

\* The window of a panel is b, and set.
Windowed(l, b) ==
  /\ l.x0 = b.x0 /\ l.x1 = b.x1 /\ l.y0 = b.y0 /\ l.y1 = b.y1
  /\ b.x1 # 0 \/ b.y1 # 0

\* The first k pixels of a frame are in its window, the cursor is at the next, and around the
\* window all is as it was.
Drawn(l, b, frame, old, k) ==
  /\ k < Pixels(b) => Inside(<<l.x, l.y>>, b) /\ Order(<<l.x, l.y>>, b) = k
  /\ \A p \in Places :
       IF ~Inside(p, b) THEN l.pixels[p] = old[p]
       ELSE Order(p, b) < k => l.pixels[p] = Pixel(frame, Order(p, b))

\* What a pixel pushed leaves as it is.
Same(l, m) ==
  /\ m.x0 = l.x0 /\ m.x1 = l.x1 /\ m.y0 = l.y0 /\ m.y1 = l.y1
  /\ m.command = l.command /\ m.hi = l.hi /\ m.config = l.config /\ m.remaining = l.remaining

\* A window, and the pixels in it.
LEMMA BoxIs ==
  ASSUME NEW b \in Boxes
  PROVE  /\ b.x0 \in Nat /\ b.x1 \in Nat /\ b.y0 \in Nat /\ b.y1 \in Nat
         /\ b.x0 <= b.x1 /\ b.x1 < PanelWidth /\ b.y0 <= b.y1 /\ b.y1 < GramHeight
         /\ Width(b) = b.x1 - b.x0 + 1 /\ Width(b) \in Nat \ {0}
         /\ Pixels(b) = Width(b) * (b.y1 - b.y0 + 1) /\ Pixels(b) \in Nat \ {0}
         /\ PanelWidth \in Nat /\ GramHeight \in Nat
<1>1. /\ b \in [x0 : 0..PanelWidth - 1, x1 : 0..PanelWidth - 1,
               y0 : 0..GramHeight - 1, y1 : 0..GramHeight - 1]
      /\ b.x0 <= b.x1 /\ b.y0 <= b.y1 /\ PanelWidth \in Nat /\ GramHeight \in Nat
  BY LcdAssumption
<1>2. /\ b.x0 \in Nat /\ b.x1 \in Nat /\ b.y0 \in Nat /\ b.y1 \in Nat
      /\ b.x1 < PanelWidth /\ b.y1 < GramHeight
  BY <1>1
<1>3. Width(b) = b.x1 - b.x0 + 1 /\ Width(b) \in Nat \ {0}  BY <1>1, <1>2 DEF Width
<1>4. Pixels(b) \in Nat \ {0}
  <2> DEFINE h == b.y1 - b.y0 + 1
             w == Width(b)
  <2>1. h \in Nat \ {0} /\ w \in Nat \ {0}  BY <1>1, <1>2, <1>3
  <2> HIDE DEF h, w
  <2>2. w * h \in Nat \ {0}  BY <2>1
  <2> USE DEF h, w
  <2> QED  BY <2>2 DEF Pixels
<1> QED  BY <1>1, <1>2, <1>3, <1>4 DEF Pixels

\* Rows of a width: two places are one if they have one number, and a row ends where the next begins.
LEMMA RowsApart ==
  ASSUME NEW w \in Nat, NEW r \in Nat, NEW s \in Nat, NEW i \in Nat, NEW j \in Nat, i < w, j < w,
         r * w + i = s * w + j
  PROVE  r = s /\ i = j
<1>1. ASSUME NEW m \in Nat, NEW n \in Nat, NEW c \in Nat, NEW d \in Nat, c < w, d < w, m < n
      PROVE  m * w + c < n * w + d
  <2>1. (m + 1) * w <= n * w  BY <1>1
  <2>2. (m + 1) * w = m * w + w  OBVIOUS
  <2>3. m * w \in Nat /\ n * w \in Nat /\ (m + 1) * w \in Nat  OBVIOUS
  <2> QED  BY <1>1, <2>1, <2>2, <2>3
<1>2. ~(r < s)  BY <1>1
<1>3. ~(s < r)  BY <1>1
<1> QED  BY <1>2, <1>3

\* The number of a place in a window.
LEMMA OrderIs ==
  ASSUME NEW b \in Boxes, NEW p \in Places, Inside(p, b)
  PROVE  /\ p[1] - b.x0 \in Nat /\ p[1] - b.x0 < Width(b)
         /\ p[2] - b.y0 \in Nat /\ p[2] <= b.y1
         /\ Order(p, b) = (p[2] - b.y0) * Width(b) + (p[1] - b.x0)
         /\ Order(p, b) \in Nat /\ Order(p, b) < Pixels(b)
<1> DEFINE w == Width(b)
           r == p[2] - b.y0
           i == p[1] - b.x0
           h == b.y1 - b.y0 + 1
<1>1. /\ w \in Nat /\ r \in Nat /\ i \in Nat /\ h \in Nat /\ i < w /\ r < h
      /\ p[1] \in Nat /\ p[2] \in Nat
  BY BoxIs DEF Inside, Places
<1>2. Order(p, b) = r * w + p[1] - b.x0  BY DEF Order
<1>3. Pixels(b) = w * h  BY BoxIs
<1>4. b.x0 \in Nat  BY BoxIs
<1>5. r * w \in Nat  BY <1>1
<1>6. Order(p, b) = r * w + i  BY <1>1, <1>2, <1>4, <1>5
<1>7. r * w + i < w * h
  <2> HIDE DEF w, r, i, h
  <2>1. (r + 1) * w <= h * w  BY <1>1
  <2>2. (r + 1) * w = r * w + w /\ h * w = w * h  BY <1>1
  <2>3. h * w \in Nat  BY <1>1
  <2> QED  BY <1>1, <1>5, <2>1, <2>2, <2>3
<1>8. Order(p, b) \in Nat /\ Order(p, b) < Pixels(b)
  <2> HIDE DEF w, r, i, h
  <2> QED  BY <1>1, <1>3, <1>5, <1>6, <1>7
<1>9. i \in Nat /\ i < w /\ r \in Nat /\ p[2] <= b.y1  BY <1>1, BoxIs DEF Inside
<1> QED  BY <1>6, <1>8, <1>9

\* No two places of a window have one number.
LEMMA OrderApart ==
  ASSUME NEW b \in Boxes, NEW p \in Places, NEW q \in Places, Inside(p, b), Inside(q, b),
         Order(p, b) = Order(q, b)
  PROVE  p = q
<1>1. p[2] - b.y0 = q[2] - b.y0 /\ p[1] - b.x0 = q[1] - b.x0
  <2> DEFINE w == Width(b)
             r == p[2] - b.y0
             i == p[1] - b.x0
             s == q[2] - b.y0
             j == q[1] - b.x0
  <2>1. /\ r \in Nat /\ i \in Nat /\ i < w /\ Order(p, b) = r * w + i
        /\ s \in Nat /\ j \in Nat /\ j < w /\ Order(q, b) = s * w + j
    BY OrderIs
  <2>2. w \in Nat  BY BoxIs
  <2> HIDE DEF w, r, i, s, j
  <2>3. r = s /\ i = j  BY <2>1, <2>2, RowsApart
  <2> USE DEF r, s, i, j
  <2> QED  BY <2>3
<1>2. b.x0 \in Nat /\ b.y0 \in Nat  BY BoxIs
<1> QED  BY <1>1, <1>2 DEF Places

\* Where the cursor goes: to the next number, if there is one.
LEMMA CursorGoesOn ==
  ASSUME NEW l \in PanelRecords, NEW b \in Boxes, Windowed(l, b), NEW v \in Nat,
         Inside(<<l.x, l.y>>, b), Order(<<l.x, l.y>>, b) + 1 < Pixels(b),
         NEW m, m = PushPixel(l, v)
  PROVE  Inside(<<m.x, m.y>>, b) /\ Order(<<m.x, m.y>>, b) = Order(<<l.x, l.y>>, b) + 1
<1> DEFINE p == <<l.x, l.y>>
           w == Width(b)
           r == l.y - b.y0
<1>1. /\ l.x \in Nat /\ l.y \in Nat /\ p \in Places
      /\ b.x0 <= l.x /\ l.x <= b.x1 /\ b.y0 <= l.y /\ l.y <= b.y1
  BY BoxIs DEF PanelRecords, Inside, Places
<1>2. InitWindow(l) = l  BY BoxIs DEF Windowed, InitWindow
<1>3. /\ l.x < b.x1  => m.x = l.x + 1 /\ m.y = l.y
      /\ l.x = b.x1 /\ l.y < b.y1 => m.x = b.x0 /\ m.y = l.y + 1
  BY <1>1, <1>2, BoxIs DEF PushPixel, Windowed, PanelRecords
<1>4. /\ r \in Nat /\ w \in Nat \ {0} /\ w = b.x1 - b.x0 + 1
      /\ Pixels(b) = w * (b.y1 - b.y0 + 1)
      /\ Order(p, b) = r * w + (l.x - b.x0) /\ r * w \in Nat
  BY <1>1, BoxIs, OrderIs
<1>5. CASE l.x < b.x1
  <2>1. m.x = l.x + 1 /\ m.y = l.y  BY <1>3, <1>5
  <2>2. Inside(<<m.x, m.y>>, b)  BY <1>1, <1>5, <2>1, BoxIs DEF Inside
  <2>3. Order(<<m.x, m.y>>, b) = r * w + (l.x + 1) - b.x0  BY <2>1 DEF Order
  <2> HIDE DEF r, w, p
  <2> QED  BY <1>1, <1>4, <2>2, <2>3, BoxIs DEF p
<1>6. CASE l.x = b.x1
  <2>1. l.y < b.y1
    <3> SUFFICES ASSUME l.y = b.y1 PROVE FALSE
      <4>1. b.y1 \in Nat  BY BoxIs
      <4> QED  BY <1>1, <4>1
    <3>1. Order(p, b) + 1 = r * w + w  BY <1>4, <1>6, BoxIs
    <3>2. Pixels(b) = w * (r + 1)  BY <1>4
    <3> HIDE DEF r, w, p
    <3>3. w * (r + 1) = r * w + w  BY <1>4
    <3> QED  BY <1>4, <3>1, <3>2, <3>3 DEF p
  <2>2. m.x = b.x0 /\ m.y = l.y + 1  BY <1>3, <1>6, <2>1
  <2>3. Inside(<<m.x, m.y>>, b)  BY <1>1, <2>1, <2>2, BoxIs DEF Inside
  <2>4. Order(<<m.x, m.y>>, b) = (m.y - b.y0) * w + (m.x - b.x0)  BY DEF Order
  <2>5. Order(<<m.x, m.y>>, b) = (r + 1) * w
    <3>1. (r + 1) * w \in Nat  BY <1>4
    <3>2. m.y - b.y0 = r + 1 /\ m.x - b.x0 = 0
      <4>1. b.x0 \in Nat /\ b.y0 \in Nat  BY BoxIs
      <4> QED  BY <1>1, <2>2, <4>1
    <3>3. (m.y - b.y0) * w + (m.x - b.x0) = (r + 1) * w + 0  BY <3>2
    <3> HIDE DEF r, w
    <3> QED  BY <2>4, <3>1, <3>3
  <2> HIDE DEF r, w, p
  <2>6. (r + 1) * w = r * w + w  BY <1>4
  <2> QED  BY <1>4, <1>6, <2>3, <2>5, <2>6, BoxIs DEF p
<1> QED  BY <1>1, <1>5, <1>6, BoxIs

\* A pixel pushed where the frame stands is the frame's next.
LEMMA PushPixelDraws ==
  ASSUME NEW l \in PanelRecords, NEW b \in Boxes, Windowed(l, b), NEW frame \in Nat, NEW old,
         NEW k \in Nat, k < Pixels(b), Drawn(l, b, frame, old, k),
         NEW m, m = PushPixel(l, Pixel(frame, k))
  PROVE  m \in PanelRecords /\ Same(l, m) /\ Windowed(m, b) /\ Drawn(m, b, frame, old, k + 1)
<1> DEFINE v == Pixel(frame, k)
           p == <<l.x, l.y>>
<1>1. v \in Nat
  <2>1. frame * Base \in Nat  BY LcdAssumption
  <2> QED  BY <2>1 DEF Pixel
<1>2. p \in Places /\ Inside(p, b) /\ Order(p, b) = k  BY DEF Drawn, PanelRecords, Places
<1>0. m = PushPixel(l, v)  OBVIOUS
<1> HIDE DEF v
<1>3. InitWindow(l) = l  BY BoxIs DEF Windowed, InitWindow
<1>4. /\ m.pixels = [l.pixels EXCEPT ![p] = v]
      /\ Same(l, m) /\ Windowed(m, b)
      /\ m \in PanelRecords
  <2> DEFINE wrap == l.x + 1 > l.x1 \/ l.x + 1 >= PanelWidth
             down == l.y + 1 > l.y1 \/ l.y + 1 >= GramHeight
             nx == IF wrap THEN l.x0 ELSE l.x + 1
             ny == IF ~wrap THEN l.y ELSE IF down THEN l.y0 ELSE l.y + 1
             np == [l.pixels EXCEPT ![p] = v]
  <2>1. nx \in 0..PanelWidth - 1 /\ ny \in 0..GramHeight - 1  BY BoxIs DEF PanelRecords
  <2>2. np \in [Places -> Nat]  BY <1>1, <1>2 DEF PanelRecords
  <2>3. m = [l EXCEPT !.pixels = np, !.x = nx, !.y = ny]
    BY <1>0, <1>2, <1>3 DEF PushPixel, PanelRecords
  <2> HIDE DEF nx, ny, np, p
  <2>4. m.pixels = np /\ Same(l, m) /\ m \in PanelRecords
    BY <2>1, <2>2, <2>3 DEF PanelRecords, Same
  <2> USE DEF np
  <2> QED  BY <2>4 DEF Same, Windowed
<1>6. k + 1 < Pixels(b) => Inside(<<m.x, m.y>>, b) /\ Order(<<m.x, m.y>>, b) = k + 1
  BY <1>0, <1>1, <1>2, CursorGoesOn
<1>7. ASSUME NEW q \in Places
      PROVE  IF ~Inside(q, b) THEN m.pixels[q] = old[q]
             ELSE Order(q, b) < k + 1 => m.pixels[q] = Pixel(frame, Order(q, b))
  <2>1. m.pixels[q] = IF q = p THEN v ELSE l.pixels[q]  BY <1>2, <1>4 DEF PanelRecords
  <2>2. CASE ~Inside(q, b)  BY <1>2, <2>1, <2>2 DEF Drawn
  <2>3. CASE Inside(q, b) /\ q = p  BY <1>2, <2>1, <2>3 DEF v
  <2>4. CASE Inside(q, b) /\ q # p
    <3>1. Order(q, b) # k /\ Order(q, b) \in Nat  BY <1>2, <2>4, OrderApart, OrderIs
    <3> QED  BY <2>1, <2>4, <3>1 DEF Drawn
  <2> QED  BY <2>2, <2>3, <2>4
<1>8. Drawn(m, b, frame, old, k + 1)  BY <1>6, <1>7 DEF Drawn
<1> QED  BY <1>4, <1>8

-----------------------------------------------------------------------------
\* A set of numbers has a least one.
LEMMA LeastNat ==
  ASSUME NEW T \in SUBSET Nat, T # {}
  PROVE  \E n \in T : \A m \in T : n <= m
<1> DEFINE R == {ss \in Nat \X Nat : ss[1] < ss[2]}
<1>1. IsWellFoundedOn(R, Nat)  BY NatLessThanWellFounded DEF OpToRel
<1>2. \A m, n \in Nat : m < n => <<m, n>> \in R  OBVIOUS
<1> HIDE DEF R
<1>3. PICK n \in T : \A m \in T : ~(<<m, n>> \in R)  BY <1>1, WFMin
<1>4. ASSUME NEW m \in T PROVE n <= m
  <2>1. m \in Nat /\ n \in Nat  OBVIOUS
  <2>2. ~(m < n)  BY <1>2, <1>3, <2>1
  <2> QED  BY <2>1, <2>2
<1> QED  BY <1>3, <1>4

\* Induction up to a number.
LEMMA UpTo ==
  ASSUME NEW n \in Nat, NEW P, 0 \in P, \A i \in 1..n : i - 1 \in P => i \in P
  PROVE  \A i \in 0..n : i \in P
<1> DEFINE T == {i \in 0..n : i \notin P}
<1>1. T \in SUBSET Nat  OBVIOUS
<1>2. ASSUME NEW i \in T, \A m \in T : i <= m PROVE FALSE
  <2>1. i \in 0..n /\ i \notin P /\ i # 0  OBVIOUS
  <2>2. i - 1 \in 0..n /\ i - 1 \in P  BY <1>2, <2>1
  <2> QED  BY <2>1, <2>2
<1>3. T = {}
  <2> HIDE DEF T
  <2> QED  BY <1>1, <1>2, LeastNat
<1> QED  BY <1>3

-----------------------------------------------------------------------------
\* The panel after each of n words.
Pushes(l, ram, n, g) == g = [k \in 0..n |-> IF k = 0 THEN l ELSE PushWord(g[k - 1], ram[k])]

\* Words can be pushed one after the other.
LEMMA PushesExist ==
  ASSUME NEW l, NEW ram, NEW n \in Nat
  PROVE  \E g : Pushes(l, ram, n, g)
<1> USE DEF Pushes
<1> DEFINE P == {i \in 0..n :
                   \E g : g = [k \in 0..i |-> IF k = 0 THEN l ELSE PushWord(g[k - 1], ram[k])]}
<1>1. 0 \in P
  <2> DEFINE g == [k \in 0..0 |-> l]
  <2>1. g = [k \in 0..0 |-> IF k = 0 THEN l ELSE PushWord(g[k - 1], ram[k])]  OBVIOUS
  <2>2. 0 \in 0..n  OBVIOUS
  <2> HIDE DEF g
  <2> QED  BY <2>1, <2>2
<1>2. ASSUME NEW i \in 1..n, i - 1 \in P PROVE i \in P
  <2>1. PICK g : g = [k \in 0..i - 1 |-> IF k = 0 THEN l ELSE PushWord(g[k - 1], ram[k])]
    BY <1>2
  <2> DEFINE h == [k \in 0..i |-> IF k = i THEN PushWord(g[i - 1], ram[i]) ELSE g[k]]
  <2>2. ASSUME NEW k \in 0..i
        PROVE  h[k] = IF k = 0 THEN l ELSE PushWord(h[k - 1], ram[k])
    <3>1. CASE k = 0  BY <2>1, <3>1
    <3>2. CASE k = i
      <4>1. k - 1 \in 0..i /\ k - 1 # i /\ k # 0  BY <3>2
      <4> QED  BY <3>2, <4>1
    <3>3. CASE k # 0 /\ k # i
      <4>1. k - 1 \in 0..i /\ k - 1 # i /\ k \in 0..i - 1  BY <3>3
      <4>2. h[k] = g[k] /\ h[k - 1] = g[k - 1]  BY <3>3, <4>1
      <4>3. g[k] = PushWord(g[k - 1], ram[k])  BY <2>1, <3>3, <4>1
      <4> QED  BY <3>3, <4>2, <4>3
    <3> QED  BY <3>1, <3>2, <3>3
  <2>3. h = [k \in 0..i |-> h[k]]  OBVIOUS
  <2> HIDE DEF h
  <2>4. h = [k \in 0..i |-> IF k = 0 THEN l ELSE PushWord(h[k - 1], ram[k])]  BY <2>2, <2>3
  <2> QED  BY <2>4
<1> HIDE DEF P
<1>3. n \in P  BY <1>1, <1>2, UpTo
<1> USE DEF P
<1> QED  BY <1>3

\* A block of which k pixels are drawn, the rest to come.
Blocked(l, b, frame, old, k) ==
  /\ l \in PanelRecords /\ Windowed(l, b)
  /\ Drawn(l, b, frame, old, k) /\ l.remaining = Pixels(b) - k

\* What a word pushed leaves as it is.
Alike(l, m) == m.command = l.command /\ m.hi = l.hi /\ m.config = l.config

Half(b) == (Pixels(b) + 1) \div 2

\* The pixels of i words.
InWords(b, i) == AtMost(2 * i, Pixels(b))

\* The words of a frame hold its pixels in turn.
LEMMA WordsAre ==
  ASSUME NEW b \in Boxes, NEW frame \in Nat
  PROVE  /\ Half(b) \in Nat \ {0} /\ 2 * Half(b) \in {Pixels(b), Pixels(b) + 1}
         /\ Words(b, frame) \in Seq(Nat \X Nat) /\ Len(Words(b, frame)) = Half(b)
         /\ \A i \in 1..Half(b) :
              Words(b, frame)[i] = <<Pixel(frame, 2 * i - 2), Pixel(frame, 2 * i - 1)>>
<1>1. Half(b) \in Nat \ {0} /\ 2 * Half(b) \in {Pixels(b), Pixels(b) + 1}
  <2> DEFINE n == Pixels(b)
  <2>1. n \in Nat \ {0}  BY BoxIs
  <2> HIDE DEF n
  <2>2. (n + 1) \div 2 \in Nat \ {0} /\ 2 * ((n + 1) \div 2) \in {n, n + 1}  BY <2>1
  <2> USE DEF n
  <2> QED  BY <2>2 DEF Half
<1>2. \A k \in Nat : Pixel(frame, k) \in Nat
  <2>1. frame * Base \in Nat  BY LcdAssumption
  <2> QED  BY <2>1 DEF Pixel
<1>3. Words(b, frame) = [i \in 1..Half(b) |-> <<Pixel(frame, 2 * i - 2), Pixel(frame, 2 * i - 1)>>]
  BY DEF Words, Half
<1>4. \A i \in 1..Half(b) : <<Pixel(frame, 2 * i - 2), Pixel(frame, 2 * i - 1)>> \in Nat \X Nat
  <2> TAKE i \in 1..Half(b)
  <2>1. 2 * i - 2 \in Nat /\ 2 * i - 1 \in Nat  BY <1>1
  <2> QED  BY <1>2, <2>1
<1>5. Words(b, frame) \in [1..Half(b) -> Nat \X Nat]  BY <1>3, <1>4
<1>6. Words(b, frame) \in Seq(Nat \X Nat) /\ Len(Words(b, frame)) = Half(b)  BY <1>1, <1>5
<1>7. \A i \in 1..Half(b) :
        Words(b, frame)[i] = <<Pixel(frame, 2 * i - 2), Pixel(frame, 2 * i - 1)>>
  BY <1>3
<1> QED  BY <1>1, <1>6, <1>7

\* A word of a frame draws two more pixels, or the last.
LEMMA PushWordDraws ==
  ASSUME NEW b \in Boxes, NEW frame \in Nat, NEW old, NEW i \in 1..Half(b), NEW l,
         Blocked(l, b, frame, old, InWords(b, i - 1)),
         NEW m, m = PushWord(l, Words(b, frame)[i])
  PROVE  Blocked(m, b, frame, old, InWords(b, i)) /\ Alike(l, m)
<1> DEFINE n == Pixels(b)
           k == 2 * (i - 1)
           word == Words(b, frame)[i]
<1>1. word[1] = Pixel(frame, k) /\ word[2] = Pixel(frame, k + 1)
  <2>1. Half(b) \in Nat  BY WordsAre
  <2>2. 2 * i - 2 = k /\ 2 * i - 1 = k + 1  BY <2>1
  <2>3. word = <<Pixel(frame, 2 * i - 2), Pixel(frame, 2 * i - 1)>>  BY WordsAre
  <2> HIDE DEF k, word
  <2> QED  BY <2>2, <2>3
<1>2. n \in Nat /\ k \in Nat /\ k < n /\ InWords(b, i - 1) = k
      /\ InWords(b, i) = IF k + 1 = n THEN k + 1 ELSE k + 2
  <2>1. /\ n \in Nat /\ Half(b) \in Nat /\ 2 * Half(b) \in {n, n + 1}
        /\ InWords(b, i - 1) = IF k > n THEN n ELSE k
        /\ InWords(b, i) = IF 2 * i > n THEN n ELSE 2 * i
    BY BoxIs, WordsAre DEF InWords, AtMost
  <2> HIDE DEF n
  <2> QED  BY <2>1
<1>3. Blocked(l, b, frame, old, k)  BY <1>2
<1> HIDE DEF k, n, word
<1> DEFINE one == PushPixel(l, Pixel(frame, k))
           two == PushPixel(one, Pixel(frame, k + 1))
<1>4. one \in PanelRecords /\ Same(l, one) /\ Windowed(one, b) /\ Drawn(one, b, frame, old, k + 1)
  BY <1>2, <1>3, PushPixelDraws DEF Blocked, n
<1>5. ASSUME k + 1 # n
      PROVE  /\ two \in PanelRecords /\ Same(one, two) /\ Windowed(two, b)
             /\ Drawn(two, b, frame, old, k + 1 + 1)
  <2> HIDE DEF one
  <2>1. k + 1 \in Nat /\ k + 1 < n  BY <1>2, <1>5
  <2> QED  BY <1>4, <2>1, PushPixelDraws DEF n
<1>6. l.remaining = n - k  BY <1>3 DEF Blocked, n
<1>7. m = CASE l.remaining = 0 -> IF profile = "apple" THEN l ELSE two
            [] l.remaining = 1 -> [one EXCEPT !.remaining = 0]
            [] OTHER           -> [two EXCEPT !.remaining = @ - 2]
  BY <1>1 DEF PushWord, word
<1> HIDE DEF one, two
<1>8. CASE k + 1 = n
  <2>1. m = [one EXCEPT !.remaining = 0]  BY <1>2, <1>6, <1>7, <1>8
  <2>2. m \in PanelRecords /\ Windowed(m, b) /\ Drawn(m, b, frame, old, k + 1) /\ Alike(one, m)
        /\ m.remaining = 0
    BY <1>4, <2>1 DEF PanelRecords, Windowed, Drawn, Alike
  <2> QED  BY <1>2, <1>4, <1>8, <2>2 DEF Blocked, Alike, Same, n
<1>9. CASE k + 1 # n
  <2>1. m = [two EXCEPT !.remaining = @ - 2]  BY <1>2, <1>6, <1>7, <1>9
  <2>2. two.remaining = n - k /\ n - k - 2 \in Nat  BY <1>2, <1>4, <1>5, <1>6, <1>9 DEF Same
  <2>3. m \in PanelRecords /\ Windowed(m, b) /\ Drawn(m, b, frame, old, k + 1 + 1) /\ Alike(two, m)
        /\ m.remaining = n - k - 2
    BY <1>5, <1>9, <2>1, <2>2 DEF PanelRecords, Windowed, Drawn, Alike
  <2>4. k + 1 + 1 = k + 2 /\ n - k - 2 = n - (k + 2)  BY <1>2
  <2> QED  BY <1>2, <1>4, <1>5, <1>9, <2>3, <2>4 DEF Blocked, Alike, Same, n
<1> QED  BY <1>8, <1>9

\* The words of a frame draw it.
LEMMA TransferDraws ==
  ASSUME NEW b \in Boxes, NEW frame \in Nat, NEW old, NEW l, Blocked(l, b, frame, old, 0),
         NEW c, c.ram = Words(b, frame), c.words = Half(b), Transfers(l, c)
  PROVE  /\ Blocked(TransferLcd(l, c), b, frame, old, Pixels(b))
         /\ Alike(l, TransferLcd(l, c))
<1> DEFINE n == Half(b)
           ram == Words(b, frame)
           f == CHOOSE g : g = [k \in 0..n |-> IF k = 0 THEN l ELSE PushWord(g[k - 1], ram[k])]
<1>1. TransferLcd(l, c) = f[n]  BY DEF TransferLcd
<1>2. n \in Nat /\ InWords(b, n) = Pixels(b) /\ InWords(b, 0) = 0
  BY BoxIs, WordsAre DEF InWords, AtMost
<1>3. f = [k \in 0..n |-> IF k = 0 THEN l ELSE PushWord(f[k - 1], ram[k])]
  <2>1. \E g : Pushes(l, ram, n, g)  BY <1>2, PushesExist
  <2> QED  BY <2>1 DEF Pushes
<1> HIDE DEF f
<1> DEFINE P == {i \in 0..n : Blocked(f[i], b, frame, old, InWords(b, i)) /\ Alike(l, f[i])}
<1>4. 0 \in P
  <2>1. f[0] = l  BY <1>2, <1>3
  <2> QED  BY <1>2, <2>1 DEF Alike
<1>5. ASSUME NEW i \in 1..n, i - 1 \in P PROVE i \in P
  <2>1. f[i] = PushWord(f[i - 1], ram[i])  BY <1>2, <1>3
  <2>2. Blocked(f[i - 1], b, frame, old, InWords(b, i - 1)) /\ Alike(l, f[i - 1])  BY <1>5
  <2>3. Blocked(f[i], b, frame, old, InWords(b, i)) /\ Alike(f[i - 1], f[i])
    BY <2>1, <2>2, PushWordDraws
  <2> QED  BY <1>2, <2>2, <2>3 DEF Alike
<1> HIDE DEF P, n
<1>6. n \in P  BY <1>2, <1>4, <1>5, UpTo
<1> USE DEF P
<1> QED  BY <1>1, <1>2, <1>6

-----------------------------------------------------------------------------
\* A sequence is two others joined, and what that says of its elements.
IsJoin(p, s, t) == p = s \o t
Joins(p, s, t) ==
  /\ Len(p) = Len(s) + Len(t)
  /\ \A i \in 1..Len(s) : p[i] = s[i]
  /\ \A i \in 1..Len(t) : p[Len(s) + i] = t[i]

\* Two sequences joined are one.
LEMMA Joined ==
  ASSUME NEW A, NEW B, NEW s, s \in Seq(A), NEW t, t \in Seq(B), NEW p, IsJoin(p, s, t)
  PROVE  p \in Seq(A \cup B) /\ Joins(p, s, t)
<1>1. s \in Seq(A \cup B) /\ t \in Seq(A \cup B)  OBVIOUS
<1> QED  BY <1>1 DEF IsJoin, Joins

\* The writes that aim at a window.
LEMMA AimIs ==
  ASSUME NEW b
  PROVE  /\ Len(Aim(b)) = 14 /\ \E A : Aim(b) \in Seq(A)
         /\ \A i \in {1, 5, 9, 13} : Aim(b)[i] = Write("select", 0)
         /\ Aim(b)[2] = Write("command", "horizontal")
         /\ Aim(b)[3] = Write("byte", b.x1) /\ Aim(b)[4] = Write("byte", b.x0)
         /\ Aim(b)[6] = Write("command", "vertical")
         /\ Aim(b)[7] = Write("byte", b.y1) /\ Aim(b)[8] = Write("byte", b.y0)
         /\ Aim(b)[10] = Write("command", "cursor")
         /\ Aim(b)[11] = Write("byte", b.y0) /\ Aim(b)[12] = Write("byte", b.x0)
         /\ Aim(b)[14] = Write("command", "gram")
<1>1. Len(Aim(b)) = 14 /\ Aim(b) \in Seq({Aim(b)[i] : i \in 1..14})  BY DEF Aim, Set, Send
<1>2. \A i \in {1, 5, 9, 13} : Aim(b)[i] = Write("select", 0)  BY DEF Aim, Set, Send
<1>3. /\ Aim(b)[2] = Write("command", "horizontal")
      /\ Aim(b)[3] = Write("byte", b.x1) /\ Aim(b)[4] = Write("byte", b.x0)
  BY DEF Aim, Set, Send
<1>4. /\ Aim(b)[6] = Write("command", "vertical")
      /\ Aim(b)[7] = Write("byte", b.y1) /\ Aim(b)[8] = Write("byte", b.y0)
  BY DEF Aim, Set, Send
<1>5. /\ Aim(b)[10] = Write("command", "cursor")
      /\ Aim(b)[11] = Write("byte", b.y0) /\ Aim(b)[12] = Write("byte", b.x0)
      /\ Aim(b)[14] = Write("command", "gram")
  BY DEF Aim, Set, Send
<1> QED  BY <1>1, <1>2, <1>3, <1>4, <1>5

\* A program aims, and goes on with t.
GoesOn(p, b, t) ==
  /\ Len(p) = 14 + Len(t) /\ DOMAIN p = 1..14 + Len(t)
  /\ \A i \in 1..14 : p[i] = Aim(b)[i]
  /\ \A i \in 1..Len(t) : p[14 + i] = t[i]

\* What a program does after its aim stands 14 writes on.
LEMMA AfterAim ==
  ASSUME NEW b, NEW B, NEW t, t \in Seq(B), NEW p, IsJoin(p, Aim(b), t)
  PROVE  GoesOn(p, b, t)
<1> DEFINE s == Aim(b)
<1>1. PICK A : s \in Seq(A)  BY AimIs
<1>2. Len(s) = 14 /\ IsJoin(p, s, t)  BY AimIs
<1> HIDE DEF s
<1>3. p \in Seq(A \cup B) /\ Joins(p, s, t)  BY Zenon, <1>1, <1>2, Joined
<1>4. DOMAIN p = 1..14 + Len(t)
  <2>1. Len(p) = 14 + Len(t)  BY <1>2, <1>3 DEF Joins
  <2>2. DOMAIN p = 1..Len(p)  BY <1>3
  <2> QED  BY <2>1, <2>2
<1> QED  BY <1>2, <1>3, <1>4 DEF s, Joins, GoesOn

\* The four programs.
LEMMA PixelsProgram ==
  ASSUME NEW b \in Boxes, NEW frame \in Nat, NEW p, p = Program("pixels", b, frame)
  PROVE  /\ Len(p) = 14 + 2 * Pixels(b)
         /\ \A i \in 1..14 : p[i] = Aim(b)[i]
         /\ \A i \in 1..2 * Pixels(b) : p[14 + i] = PixelBytes(b, frame)[i]
<1>1. p = Aim(b) \o PixelBytes(b, frame)  BY DEF Program
<1> DEFINE n == 2 * Pixels(b)
           t == PixelBytes(b, frame)
<1>2. n \in Nat  BY BoxIs
<1>3. t = [i \in 1..n |-> t[i]]  BY DEF PixelBytes
<1> HIDE DEF n, t
<1>4. t \in Seq({t[i] : i \in 1..n}) /\ Len(t) = n  BY <1>2, <1>3
<1> USE DEF t
<1>5. IsJoin(p, Aim(b), t)  BY <1>1 DEF IsJoin
<1> HIDE DEF t
<1>6. GoesOn(p, b, t)  BY Zenon, <1>4, <1>5, AfterAim
<1> QED  BY <1>4, <1>6 DEF n, t, GoesOn

\* The block of words.
LEMMA WordsProgram ==
  ASSUME NEW b \in Boxes, NEW frame \in Nat, NEW p, p = Program("words", b, frame)
  PROVE  /\ Len(p) = 16 + Half(b)
         /\ \A i \in 1..14 : p[i] = Aim(b)[i]
         /\ p[15] = Write("config", 2 * Pixels(b) - 1) /\ p[16] = Write("start", 0)
         /\ \A i \in 1..Half(b) : p[16 + i] = Write("word", Words(b, frame)[i])
<1> DEFINE n == Half(b)
           s == Block(b)
           t == [i \in DOMAIN Words(b, frame) |-> Write("word", Words(b, frame)[i])]
           u == s \o t
<1>1. IsJoin(p, Aim(b), u)  BY DEF Program, IsJoin
<1>2. n \in Nat /\ DOMAIN Words(b, frame) = 1..n  BY WordsAre
<1>3. \A i \in 1..n : t[i] = Write("word", Words(b, frame)[i])  BY <1>2
<1>4. t = [i \in 1..n |-> t[i]]  BY <1>2
<1>5. s \in Seq({s[1], s[2]}) /\ Len(s) = 2 /\ s[1] = Write("config", 2 * Pixels(b) - 1)
      /\ s[2] = Write("start", 0)
  BY DEF Block
<1>0. IsJoin(u, s, t)  BY DEF IsJoin
<1> HIDE DEF n, s, t, u
<1>6. t \in Seq({t[i] : i \in 1..n}) /\ Len(t) = n  BY <1>2, <1>4
<1>7. /\ u \in Seq({s[1], s[2]} \cup {t[i] : i \in 1..n}) /\ Len(u) = 2 + n
      /\ u[1] = s[1] /\ u[2] = s[2] /\ \A i \in 1..n : u[2 + i] = t[i]
  <2>1. u \in Seq({s[1], s[2]} \cup {t[i] : i \in 1..n}) /\ Joins(u, s, t)
    BY Zenon, <1>0, <1>5, <1>6, Joined
  <2> QED  BY <1>5, <1>6, <2>1 DEF Joins
<1>8. /\ Len(p) = 14 + (2 + n) /\ \A i \in 1..14 : p[i] = Aim(b)[i]
      /\ \A i \in 1..2 + n : p[14 + i] = u[i]
  <2>1. GoesOn(p, b, u)  BY Zenon, <1>1, <1>7, AfterAim
  <2> QED  BY <1>7, <2>1 DEF GoesOn
<1>9. p[15] = u[1] /\ p[16] = u[2]
  <2>1. 1 \in 1..2 + n /\ 2 \in 1..2 + n  BY <1>2
  <2> QED  BY <1>8, <2>1
<1>10. ASSUME NEW i \in 1..n PROVE p[16 + i] = Write("word", Words(b, frame)[i])
  <2>1. 2 + i \in 1..2 + n /\ 14 + (2 + i) = 16 + i  BY <1>2
  <2> QED  BY <1>3, <1>7, <1>8, <2>1
<1>11. Len(p) = 16 + n  BY <1>2, <1>8
<1> QED  BY <1>5, <1>7, <1>8, <1>9, <1>10, <1>11 DEF n

FiveMore(p, b, t) ==
  /\ Len(p) = 19 /\ DOMAIN p = 1..19 /\ \A i \in 1..14 : p[i] = Aim(b)[i]
  /\ p[15] = t[1] /\ p[16] = t[2] /\ p[17] = t[3] /\ p[18] = t[4] /\ p[19] = t[5]

\* Five writes after the aim are the last five.
LEMMA FiveAfterAim ==
  ASSUME NEW b, NEW A, NEW t, t \in Seq(A), Len(t) = 5, NEW p, IsJoin(p, Aim(b), t)
  PROVE  FiveMore(p, b, t)
<1>1. GoesOn(p, b, t)  BY Zenon, AfterAim
<1>2. \A i \in 1..5 : p[14 + i] = t[i]  BY <1>1 DEF GoesOn
<1> QED  BY <1>1, <1>2 DEF GoesOn, FiveMore

Config(b) == Write("config", 2 * Pixels(b) - 1)
Start == Write("start", 0)
Ram(b, frame) == Write("ram", Words(b, frame))
Per == Write("per", TRUE)
Cmd(b) == Write("cmd", Half(b))

\* A block and the registers of the channel, in either order.
LEMMA BlockAndArm ==
  ASSUME NEW b \in Boxes, NEW frame \in Nat
  PROVE  /\ LET t == Block(b) \o Arm(b, frame)
            IN  /\ \E A : t \in Seq(A)
                /\ Len(t) = 5 /\ t[1] = Config(b) /\ t[2] = Start
                /\ t[3] = Ram(b, frame) /\ t[4] = Per /\ t[5] = Cmd(b)
         /\ LET t == Arm(b, frame) \o Block(b)
            IN  /\ \E A : t \in Seq(A)
                /\ Len(t) = 5 /\ t[1] = Ram(b, frame) /\ t[2] = Per /\ t[3] = Cmd(b)
                /\ t[4] = Config(b) /\ t[5] = Start
<1> DEFINE t == Block(b) \o Arm(b, frame)
           u == Arm(b, frame) \o Block(b)
           A == {Config(b), Start, Ram(b, frame), Per, Cmd(b)}
<1>1. Block(b) = <<Config(b), Start>>  BY DEF Block, Config, Start
<1>2. Arm(b, frame) = <<Ram(b, frame), Per, Cmd(b)>>
  <2>1. Len(Words(b, frame)) = Half(b)  BY WordsAre
  <2> QED  BY <2>1 DEF Arm, Ram, Per, Cmd
<1>3. /\ t \in Seq(A) /\ Len(t) = 5
      /\ t[1] = Config(b) /\ t[2] = Start /\ t[3] = Ram(b, frame) /\ t[4] = Per /\ t[5] = Cmd(b)
  BY <1>1, <1>2
<1>4. /\ u \in Seq(A) /\ Len(u) = 5
      /\ u[1] = Ram(b, frame) /\ u[2] = Per /\ u[3] = Cmd(b) /\ u[4] = Config(b) /\ u[5] = Start
  BY <1>1, <1>2
<1> HIDE DEF t, u, A
<1>5. (\E B : t \in Seq(B)) /\ (\E B : u \in Seq(B))  BY <1>3, <1>4
<1> USE DEF t, u
<1> QED  BY <1>3, <1>4, <1>5

\* The block begun before the channel is armed.
LEMMA BlockDmaProgram ==
  ASSUME NEW b \in Boxes, NEW frame \in Nat, NEW p, p = Program("blockThenArm", b, frame)
  PROVE  /\ Len(p) = 19 /\ DOMAIN p = 1..19 /\ \A i \in 1..14 : p[i] = Aim(b)[i]
         /\ p[15] = Config(b) /\ p[16] = Start
         /\ p[17] = Ram(b, frame) /\ p[18] = Per /\ p[19] = Cmd(b)
<1> DEFINE t == Block(b) \o Arm(b, frame)
<1>1. IsJoin(p, Aim(b), t)  BY DEF Program, IsJoin
<1>2. /\ \E A : t \in Seq(A)
      /\ Len(t) = 5 /\ t[1] = Config(b) /\ t[2] = Start
      /\ t[3] = Ram(b, frame) /\ t[4] = Per /\ t[5] = Cmd(b)
  BY BlockAndArm
<1> HIDE DEF t
<1>3. FiveMore(p, b, t)  BY Zenon, <1>1, <1>2, FiveAfterAim
<1> QED  BY <1>2, <1>3 DEF FiveMore

\* The channel armed before the block is begun.
LEMMA DmaBlockProgram ==
  ASSUME NEW b \in Boxes, NEW frame \in Nat, NEW p, p = Program("armThenBlock", b, frame)
  PROVE  /\ Len(p) = 19 /\ DOMAIN p = 1..19 /\ \A i \in 1..14 : p[i] = Aim(b)[i]
         /\ p[15] = Ram(b, frame) /\ p[16] = Per /\ p[17] = Cmd(b)
         /\ p[18] = Config(b) /\ p[19] = Start
<1> DEFINE t == Arm(b, frame) \o Block(b)
<1>1. IsJoin(p, Aim(b), t)  BY DEF Program, IsJoin
<1>2. /\ \E A : t \in Seq(A)
      /\ Len(t) = 5 /\ t[1] = Ram(b, frame) /\ t[2] = Per /\ t[3] = Cmd(b)
      /\ t[4] = Config(b) /\ t[5] = Start
  BY BlockAndArm
<1> HIDE DEF t
<1>3. FiveMore(p, b, t)  BY Zenon, <1>1, <1>2, FiveAfterAim
<1> QED  BY <1>2, <1>3 DEF FiveMore

-----------------------------------------------------------------------------
LcdTypeOK ==
  /\ profile \in {"apple", "rockbox"}
  /\ lcd \in PanelRecords /\ chan \in ChannelRecords
  /\ artist \in [way : Ways \cup {"none"}, box : Boxes, frame : Nat, pc : Nat]
  /\ before \in [Places -> Nat]

\* Nothing is to be transferred, and nothing to be told.
Quiet ==
  /\ ~chan.armed /\ ~chan.intr /\ ~chan.linked
  /\ profile = "rockbox" => ~chan.wait

\* All that the artist has drawn is its first k pixels.
DrawnNow(k) == Drawn(lcd, artist.box, artist.frame, before, k)
BlockedNow(k) == Blocked(lcd, artist.box, artist.frame, before, k)

AtRest ==
  /\ Quiet /\ lcd.remaining = 0
  /\ artist.frame = 0 => lcd.pixels = before /\ lcd.x1 = 0
  /\ artist.frame # 0 => Windowed(lcd, artist.box) /\ DrawnNow(Pixels(artist.box))

\* Before the vertical bounds are set the window does not end at the origin, or the
\* guest's windows are such that it will not.
Upright ==
  /\ (\A b \in Boxes : b.y1 # 0) /\ artist.pc <= 4 => lcd.y1 # 0 \/ lcd.x1 = 0
  /\ artist.pc \in 5..8 => lcd.x1 # 0 \/ lcd.y1 # 0

\* The window and the cursor so far.
Aiming ==
  LET b == artist.box
      pc == artist.pc
  IN  /\ Quiet /\ lcd.remaining = 0 /\ lcd.pixels = before
      /\ pc \in 3..4   => lcd.command = "horizontal"
      /\ pc \in 7..8   => lcd.command = "vertical"
      /\ pc \in 11..12 => lcd.command = "cursor"
      /\ pc = 15       => lcd.command = "gram"
      /\ pc \in {3, 7, 11, 15} => lcd.hi = NoByte
      /\ pc = 4  => lcd.hi = b.x1
      /\ pc = 8  => lcd.hi = b.y1
      /\ pc = 12 => lcd.hi = b.y0
      /\ pc >= 5 => lcd.x0 = b.x0 /\ lcd.x1 = b.x1
      /\ pc >= 9 => lcd.y0 = b.y0 /\ lcd.y1 = b.y1
      /\ pc >= 13 => lcd.x = b.x0 /\ lcd.y = b.y0

\* The bytes of pixels so far.
ByPixels ==
  LET sent == artist.pc - 15
  IN  /\ Quiet /\ lcd.remaining = 0 /\ lcd.command = "gram"
      /\ Windowed(lcd, artist.box) /\ DrawnNow(sent \div 2)
      /\ sent < 2 * Pixels(artist.box)
      /\ lcd.hi = IF sent % 2 = 0 THEN NoByte ELSE Pixel(artist.frame, sent \div 2) % Base

\* The block that is configured, or begun.
Beginning(first) ==
  /\ artist.pc <= first + 1 => Windowed(lcd, artist.box) /\ DrawnNow(0) /\ lcd.remaining = 0
  /\ artist.pc = first + 1 => lcd.config = 2 * Pixels(artist.box) - 1

ByWords ==
  /\ Quiet /\ Beginning(15)
  /\ artist.pc > 16 =>
       artist.pc - 17 < Half(artist.box) /\ BlockedNow(InWords(artist.box, artist.pc - 17))

\* The channel armed for the frame.
Armed ==
  /\ profile = "apple" /\ chan.wait /\ chan.aimed /\ chan.armed /\ ~chan.intr /\ ~chan.linked
  /\ chan.words = Half(artist.box) /\ chan.ram = Words(artist.box, artist.frame)

\* Once both have been told, the transfer is to come or has been.
Agreed ==
  \/ Armed /\ BlockedNow(0)
  \/ /\ profile = "apple" /\ ~chan.armed /\ chan.intr /\ chan.linked
     /\ BlockedNow(Pixels(artist.box))

ByBlockDma ==
  /\ artist.pc <= 19 => Quiet /\ Beginning(15)
  /\ artist.pc \in 17..19 => BlockedNow(0)
  /\ artist.pc \in 18..19 => chan.ram = Words(artist.box, artist.frame)
  /\ artist.pc = 19 => chan.aimed
  /\ artist.pc > 19 => artist.pc = 20 /\ Agreed

ByDmaBlock ==
  /\ profile = "apple" /\ Beginning(18)
  /\ artist.pc <= 17 => Quiet
  /\ artist.pc \in 16..17 => chan.ram = Words(artist.box, artist.frame)
  /\ artist.pc = 17 => chan.aimed
  /\ artist.pc \in 18..19 => Armed
  /\ artist.pc > 19 => artist.pc = 20 /\ Agreed

\* A descriptor holds the frame.
Fitting == Fits(artist.way, artist.box)

ByItsWay ==
  /\ artist.way = "pixels"       => ByPixels
  /\ artist.way = "words"        => ByWords
  /\ artist.way = "blockThenArm" => ByBlockDma
  /\ artist.way = "armThenBlock" => ByDmaBlock

LcdIInv ==
  /\ LcdTypeOK /\ Upright
  /\ artist.pc = 0 => AtRest
  /\ artist.pc # 0 => artist.frame # 0 /\ artist.way \in Ways /\ Fitting
  /\ artist.pc \in 1..15 => Aiming
  /\ artist.pc >= 15 => ByItsWay

-----------------------------------------------------------------------------
\* A number is its quotient and its remainder.
LEMMA DivMod ==
  ASSUME NEW n \in Nat, NEW d \in Nat, d > 0
  PROVE  n \div d \in Nat /\ n % d \in 0..d - 1 /\ n = d * (n \div d) + (n % d)
  BY SMT

\* What a write does is told by what is written.
LEMMA WriteEffect ==
  ASSUME LcdTypeOK, LcdWrite, NEW r, NEW v, Writes[artist.pc] = Write(r, v)
  PROVE  /\ artist.pc \in DOMAIN Writes /\ artist.pc # 0
         /\ artist' = [artist EXCEPT !.pc =
              IF artist.pc < Len(Writes) \/ Waits THEN artist.pc + 1 ELSE 0]
         /\ UNCHANGED <<profile, before>>
         /\ r = "select"  => lcd' = PortSelect(lcd) /\ chan' = chan
         /\ r = "command" => lcd' = PortCommand(lcd, v) /\ chan' = chan
         /\ r = "byte"    => lcd' = PortByte(lcd, v) /\ chan' = chan
         /\ r = "config"  => lcd' = [lcd EXCEPT !.config = v] /\ chan' = chan
         /\ r = "start"   => lcd' = StartBlock(lcd) /\ chan' = chan
         /\ r = "word"    => lcd' = PushWord(lcd, v) /\ chan' = chan
         /\ r = "ram"     => WriteChannel([chan EXCEPT !.ram = v])
         /\ r = "per"     => WriteChannel([chan EXCEPT !.aimed = v])
         /\ r = "cmd"     => WriteChannel(Command(chan, TRUE, v))
<1>1. Writes[artist.pc].reg = r /\ Value = v  BY DEF Write, Value
<1> QED
  BY <1>1
     DEF LcdWrite, WriteLcd, WriteSelect, WriteCommand, WriteByteOut, WriteConfigOut, WriteStart,
         WriteWord, WriteRam, WritePer, WriteCmd

\* Every program begins with the aim.
LEMMA WritesAim ==
  ASSUME LcdTypeOK, artist.way \in Ways
  PROVE  Len(Writes) \in Nat /\ Len(Writes) >= 15 /\ \A i \in 1..14 : Writes[i] = Aim(artist.box)[i]
<1> DEFINE b == artist.box
           f == artist.frame
           p == Writes
<1>1. b \in Boxes /\ f \in Nat /\ p = Program(artist.way, b, f)  BY DEF LcdTypeOK, Writes
<1> HIDE DEF b, f, p
<1>2. Pixels(b) \in Nat \ {0} /\ Half(b) \in Nat \ {0}  BY <1>1, BoxIs, WordsAre
<1>3. CASE artist.way = "pixels"
  <2>1. Len(p) = 14 + 2 * Pixels(b) /\ \A i \in 1..14 : p[i] = Aim(b)[i]
    BY <1>1, <1>3, PixelsProgram
  <2> QED  BY <1>2, <2>1 DEF b, p
<1>4. CASE artist.way = "words"
  <2>1. Len(p) = 16 + Half(b) /\ \A i \in 1..14 : p[i] = Aim(b)[i]
    BY <1>1, <1>4, WordsProgram
  <2> QED  BY <1>2, <2>1 DEF b, p
<1>5. CASE artist.way = "blockThenArm"
  <2>1. Len(p) = 19 /\ \A i \in 1..14 : p[i] = Aim(b)[i]  BY <1>1, <1>5, BlockDmaProgram
  <2> QED  BY <2>1 DEF b, p
<1>6. CASE artist.way = "armThenBlock"
  <2>1. Len(p) = 19 /\ \A i \in 1..14 : p[i] = Aim(b)[i]  BY <1>1, <1>6, DmaBlockProgram
  <2> QED  BY <2>1 DEF b, p
<1> QED  BY <1>3, <1>4, <1>5, <1>6 DEF Ways

\* The bounds of a window.
LEMMA BoxBounds ==
  ASSUME NEW b \in Boxes
  PROVE  /\ b.x0 \in 0..PanelWidth - 1 /\ b.x1 \in 0..PanelWidth - 1 /\ b.x0 <= b.x1
         /\ b.y0 \in 0..GramHeight - 1 /\ b.y1 \in 0..GramHeight - 1 /\ b.y0 <= b.y1
         /\ PanelWidth \in Nat \ {0} /\ GramHeight \in Nat \ {0}
<1>1. b \in [x0 : 0..PanelWidth - 1, x1 : 0..PanelWidth - 1,
             y0 : 0..GramHeight - 1, y1 : 0..GramHeight - 1]
  BY LcdAssumption
<1> QED  BY <1>1, LcdAssumption

\* A window that is not set becomes the panel.
LEMMA InitWindowIs ==
  ASSUME NEW l \in PanelRecords, NEW h, h = InitWindow(l)
  PROVE  /\ h \in PanelRecords
         /\ h.pixels = l.pixels /\ h.remaining = l.remaining /\ h.command = l.command
         /\ l.x1 # 0 \/ l.y1 # 0 => h = l
         /\ l.x1 = 0 /\ l.y1 = 0 => h.y1 = PanelHeight - 1
<1>1. CASE l.x1 # 0 \/ l.y1 # 0
  <2>1. h = l  BY <1>1 DEF InitWindow
  <2> QED  BY <1>1, <2>1
<1>2. CASE l.x1 = 0 /\ l.y1 = 0
  <2>1. /\ PanelWidth \in Nat \ {0} /\ GramHeight \in Nat \ {0}
        /\ PanelHeight \in 2..GramHeight
    BY LcdAssumption
  <2>2. /\ 0 \in 0..PanelWidth - 1 /\ PanelWidth - 1 \in 0..PanelWidth - 1
        /\ 0 \in 0..GramHeight - 1 /\ PanelHeight - 1 \in 0..GramHeight - 1
    BY <2>1
  <2>3. h = [l EXCEPT !.x0 = 0, !.y0 = 0, !.x1 = PanelWidth - 1, !.y1 = PanelHeight - 1]
    BY <1>2 DEF InitWindow
  <2> QED  BY <1>2, <2>2, <2>3 DEF PanelRecords
<1> QED  BY <1>1, <1>2

\* A byte that comes second is no longer kept.
Cleared(l) == [l EXCEPT !.hi = NoByte]

\* Only the byte is forgotten.
LEMMA ClearedIs ==
  ASSUME NEW l \in PanelRecords, NEW h, h = Cleared(l)
  PROVE  /\ h \in PanelRecords /\ h.hi = NoByte
         /\ h.pixels = l.pixels /\ h.remaining = l.remaining /\ h.command = l.command
         /\ h.x0 = l.x0 /\ h.x1 = l.x1 /\ h.y0 = l.y0 /\ h.y1 = l.y1 /\ h.x = l.x /\ h.y = l.y
         /\ h.config = l.config
<1>1. NoByte \in Int  BY DEF NoByte
<1> QED  BY <1>1 DEF Cleared, PanelRecords

\* A window in the panel is left by its clamps, but for an end above its start.
LEMMA ClampWindowIs ==
  ASSUME NEW l \in PanelRecords, l.x0 <= l.x1, NEW m, m = ClampWindow(l)
  PROVE  /\ m \in PanelRecords /\ m.x0 = l.x0 /\ m.x1 = l.x1 /\ m.y0 = l.y0
         /\ m.y1 = IF l.y1 < l.y0 THEN l.y0 ELSE l.y1
         /\ m.pixels = l.pixels /\ m.remaining = l.remaining
<1>1. /\ l.x0 \in 0..PanelWidth - 1 /\ l.x1 \in 0..PanelWidth - 1
      /\ l.y0 \in 0..GramHeight - 1 /\ l.y1 \in 0..GramHeight - 1
      /\ PanelWidth \in Nat /\ GramHeight \in Nat
  BY LcdAssumption DEF PanelRecords
<1>2. /\ AtMost(l.x0, PanelWidth - 1) = l.x0 /\ AtMost(l.y0, GramHeight - 1) = l.y0
      /\ AtMost(l.x1, PanelWidth - 1) = l.x1 /\ AtMost(l.y1, GramHeight - 1) = l.y1
      /\ AtLeast(l.x1, l.x0) = l.x1
  BY <1>1 DEF AtMost, AtLeast
<1>3. m = [l EXCEPT !.x0 = l.x0, !.x1 = l.x1, !.y0 = l.y0, !.y1 = AtLeast(l.y1, l.y0)]
  BY <1>2 DEF ClampWindow
<1>4. AtLeast(l.y1, l.y0) = (IF l.y1 < l.y0 THEN l.y0 ELSE l.y1)
      /\ AtLeast(l.y1, l.y0) \in 0..GramHeight - 1
  BY <1>1 DEF AtLeast
<1> QED  BY <1>3, <1>4 DEF PanelRecords

\* The pairs of bytes that aim.
LEMMA HorizontalPair ==
  ASSUME NEW l \in PanelRecords, NEW b \in Boxes, l.command = "horizontal", l.hi = b.x1,
         NEW m, m = PortByte(l, b.x0)
  PROVE  /\ m \in PanelRecords /\ m.x0 = b.x0 /\ m.x1 = b.x1
         /\ m.y1 >= (IF l.x1 = 0 /\ l.y1 = 0 THEN PanelHeight - 1 ELSE l.y1)
         /\ m.pixels = l.pixels /\ m.remaining = l.remaining
<1> DEFINE c == Cleared(l)
           h == InitWindow(c)
           g == [h EXCEPT !.x0 = b.x0, !.x1 = b.x1]
<1>0. /\ c \in PanelRecords /\ c.pixels = l.pixels /\ c.remaining = l.remaining
      /\ c.command = l.command /\ c.x1 = l.x1 /\ c.y1 = l.y1
  BY ClearedIs
<1>1. /\ h \in PanelRecords
      /\ h.pixels = c.pixels /\ h.remaining = c.remaining /\ h.command = c.command
      /\ c.x1 # 0 \/ c.y1 # 0 => h = c
      /\ c.x1 = 0 /\ c.y1 = 0 => h.y1 = PanelHeight - 1
  <2> HIDE DEF c
  <2> QED  BY <1>0, InitWindowIs
<1>2. l.hi # NoByte  BY BoxBounds DEF NoByte
<1>3. m = ClampWindow(g)  BY <1>0, <1>1, <1>2 DEF PortByte, CommandData, Cleared
<1> HIDE DEF h, c
<1>4. g \in PanelRecords /\ g.x0 <= g.x1  BY <1>1, BoxBounds DEF PanelRecords
<1> HIDE DEF g
<1>5. /\ m \in PanelRecords /\ m.x0 = g.x0 /\ m.x1 = g.x1
      /\ m.y1 = IF g.y1 < g.y0 THEN g.y0 ELSE g.y1
      /\ m.pixels = g.pixels /\ m.remaining = g.remaining
  BY <1>3, <1>4, ClampWindowIs
<1>6. /\ g.x0 = b.x0 /\ g.x1 = b.x1 /\ g.y1 = h.y1 /\ g.pixels = h.pixels
      /\ g.remaining = h.remaining /\ g.y1 \in Nat /\ g.y0 \in Nat
  BY <1>1, <1>4 DEF g, PanelRecords
<1>7. h.y1 = IF l.x1 = 0 /\ l.y1 = 0 THEN PanelHeight - 1 ELSE l.y1
  BY <1>0, <1>1
<1> QED  BY <1>0, <1>1, <1>5, <1>6, <1>7

\* The rows of a window are set; its columns stand, for it counts as set.
LEMMA VerticalPair ==
  ASSUME NEW l \in PanelRecords, NEW b \in Boxes, l.command = "vertical", l.hi = b.y1,
         l.x0 = b.x0, l.x1 = b.x1, l.x1 # 0 \/ l.y1 # 0,
         NEW m, m = PortByte(l, b.y0)
  PROVE  /\ m \in PanelRecords /\ m.x0 = b.x0 /\ m.x1 = b.x1 /\ m.y0 = b.y0 /\ m.y1 = b.y1
         /\ m.pixels = l.pixels /\ m.remaining = l.remaining
<1> DEFINE h == Cleared(l)
           g == [h EXCEPT !.y0 = b.y0, !.y1 = b.y1]
<1>0. /\ h \in PanelRecords /\ h.pixels = l.pixels /\ h.remaining = l.remaining
      /\ h.command = l.command /\ h.x0 = l.x0 /\ h.x1 = l.x1 /\ h.y1 = l.y1
  BY ClearedIs
<1>1. InitWindow(h) = h  BY <1>0 DEF InitWindow
<1>2. l.hi # NoByte  BY BoxBounds DEF NoByte
<1>4. m = ClampWindow(g)  BY <1>0, <1>1, <1>2 DEF PortByte, CommandData, Cleared
<1> HIDE DEF h
<1>5. g \in PanelRecords /\ g.x0 = b.x0 /\ g.x1 = b.x1 /\ g.y0 = b.y0 /\ g.y1 = b.y1
      /\ g.pixels = l.pixels /\ g.remaining = l.remaining
  BY <1>0, BoxBounds DEF PanelRecords
<1> HIDE DEF g
<1>6. /\ m \in PanelRecords /\ m.x0 = g.x0 /\ m.x1 = g.x1 /\ m.y0 = g.y0
      /\ m.y1 = IF g.y1 < g.y0 THEN g.y0 ELSE g.y1
      /\ m.pixels = g.pixels /\ m.remaining = g.remaining
  <2>1. g.x0 <= g.x1  BY <1>5, BoxBounds
  <2> QED  BY <1>4, <1>5, <2>1, ClampWindowIs
<1> QED  BY <1>5, <1>6, BoxBounds

\* The cursor goes to the first place of the window.
LEMMA CursorPair ==
  ASSUME NEW l \in PanelRecords, NEW b \in Boxes, Windowed(l, b), l.command = "cursor", l.hi = b.y0,
         NEW m, m = PortByte(l, b.x0)
  PROVE  /\ m \in PanelRecords /\ Windowed(m, b) /\ m.x = b.x0 /\ m.y = b.y0
         /\ m.pixels = l.pixels /\ m.remaining = l.remaining
<1> DEFINE h == Cleared(l)
<1>0. /\ h \in PanelRecords /\ h.pixels = l.pixels /\ h.remaining = l.remaining
      /\ h.command = l.command /\ h.x0 = l.x0 /\ h.x1 = l.x1 /\ h.y0 = l.y0 /\ h.y1 = l.y1
  BY ClearedIs
<1>1. InitWindow(h) = h  BY <1>0 DEF InitWindow, Windowed
<1>2. l.hi # NoByte  BY BoxBounds DEF NoByte
<1>4. m = SetCursor(h, b.x0, b.y0)  BY <1>0, <1>1, <1>2 DEF PortByte, CommandData, Cleared
<1>5. AtMost(b.x0, PanelWidth - 1) = b.x0 /\ AtMost(b.y0, GramHeight - 1) = b.y0
  BY BoxBounds DEF AtMost
<1>6. m = [h EXCEPT !.x = b.x0, !.y = b.y0]  BY <1>4, <1>5 DEF SetCursor
<1> HIDE DEF h
<1>7. /\ m \in PanelRecords /\ m.x = b.x0 /\ m.y = b.y0 /\ m.pixels = h.pixels
      /\ m.remaining = h.remaining
      /\ m.x0 = h.x0 /\ m.x1 = h.x1 /\ m.y0 = h.y0 /\ m.y1 = h.y1
  BY <1>0, <1>6, BoxBounds DEF PanelRecords
<1> QED  BY <1>0, <1>7 DEF Windowed

\* What the ports do to the panel's record.
LEMMA SelectIs ==
  ASSUME NEW l \in PanelRecords, NEW m, m = PortSelect(l)
  PROVE  /\ m \in PanelRecords /\ m.hi = NoByte
         /\ m.pixels = l.pixels /\ m.remaining = l.remaining /\ m.command = l.command
         /\ m.x0 = l.x0 /\ m.x1 = l.x1 /\ m.y0 = l.y0 /\ m.y1 = l.y1 /\ m.x = l.x /\ m.y = l.y
  BY ClearedIs DEF PortSelect, Cleared

\* A command forgets a byte that has come alone.
LEMMA CommandIs ==
  ASSUME NEW l \in PanelRecords, NEW c \in {"horizontal", "vertical", "cursor", "gram"},
         NEW m, m = PortCommand(l, c)
  PROVE  /\ m \in PanelRecords /\ m.hi = NoByte /\ m.command = c
         /\ m.pixels = l.pixels /\ m.remaining = l.remaining
         /\ m.x0 = l.x0 /\ m.x1 = l.x1 /\ m.y0 = l.y0 /\ m.y1 = l.y1 /\ m.x = l.x /\ m.y = l.y
<1>1. NoByte \in Int  BY DEF NoByte
<1> QED  BY <1>1 DEF PortCommand, PanelRecords

\* A first byte is kept and does nothing.
LEMMA FirstByteIs ==
  ASSUME NEW l \in PanelRecords, l.hi = NoByte, NEW v \in Nat, NEW m, m = PortByte(l, v)
  PROVE  /\ m \in PanelRecords /\ m.hi = v /\ m.command = l.command
         /\ m.pixels = l.pixels /\ m.remaining = l.remaining
         /\ m.x0 = l.x0 /\ m.x1 = l.x1 /\ m.y0 = l.y0 /\ m.y1 = l.y1 /\ m.x = l.x /\ m.y = l.y
<1>1. m = [l EXCEPT !.hi = v]  BY DEF PortByte
<1> QED  BY <1>1 DEF PanelRecords

\* The writes that aim, in turn.
LEMMA AimEffect ==
  ASSUME LcdTypeOK, LcdWrite, artist.way \in Ways, artist.pc \in 1..14
  PROVE  /\ artist' = [artist EXCEPT !.pc = @ + 1]
         /\ UNCHANGED <<profile, before, chan>>
         /\ artist.pc \in {1, 5, 9, 13} => lcd' = PortSelect(lcd)
         /\ artist.pc = 2 => lcd' = PortCommand(lcd, "horizontal")
         /\ artist.pc = 3 => lcd' = PortByte(lcd, artist.box.x1)
         /\ artist.pc = 4 => lcd' = PortByte(lcd, artist.box.x0)
         /\ artist.pc = 6 => lcd' = PortCommand(lcd, "vertical")
         /\ artist.pc = 7 => lcd' = PortByte(lcd, artist.box.y1)
         /\ artist.pc = 8 => lcd' = PortByte(lcd, artist.box.y0)
         /\ artist.pc = 10 => lcd' = PortCommand(lcd, "cursor")
         /\ artist.pc = 11 => lcd' = PortByte(lcd, artist.box.y0)
         /\ artist.pc = 12 => lcd' = PortByte(lcd, artist.box.x0)
         /\ artist.pc = 14 => lcd' = PortCommand(lcd, "gram")
<1> DEFINE pc == artist.pc
           b == artist.box
           w == Writes
<1>1. Len(w) \in Nat /\ Len(w) >= 15 /\ w[pc] = Aim(b)[pc]  BY WritesAim
<1>2. artist \in [way : Ways \cup {"none"}, box : Boxes, frame : Nat, pc : Nat]  BY DEF LcdTypeOK
<1>3. ASSUME NEW r, NEW v, Aim(b)[pc] = Write(r, v), r \in {"select", "command", "byte"}
      PROVE  /\ artist' = [artist EXCEPT !.pc = @ + 1]
             /\ UNCHANGED <<profile, before, chan>>
             /\ r = "select"  => lcd' = PortSelect(lcd)
             /\ r = "command" => lcd' = PortCommand(lcd, v)
             /\ r = "byte"    => lcd' = PortByte(lcd, v)
  <2>1. w[pc] = Write(r, v)  BY <1>1, <1>3
  <2>2. /\ artist' = [artist EXCEPT !.pc = IF pc < Len(w) \/ Waits THEN pc + 1 ELSE 0]
        /\ UNCHANGED <<profile, before>>
        /\ r = "select"  => lcd' = PortSelect(lcd) /\ chan' = chan
        /\ r = "command" => lcd' = PortCommand(lcd, v) /\ chan' = chan
        /\ r = "byte"    => lcd' = PortByte(lcd, v) /\ chan' = chan
    BY <2>1, WriteEffect
  <2>3. pc < Len(w)  BY <1>1
  <2> QED  BY <1>3, <2>2, <2>3
<1> HIDE DEF w
<1>4. pc \in {1, 2, 3, 4, 5, 6, 7, 8, 9, 10, 11, 12, 13, 14}  OBVIOUS
<1>5. CASE pc \in {1, 5, 9, 13}
  <2>1. Aim(b)[pc] = Write("select", 0)  BY <1>5, AimIs
  <2> QED  BY <1>3, <1>5, <2>1
<1>6. CASE pc \in {2, 6, 10, 14}
  <2>1. Aim(b)[pc] = Write("command", CASE pc = 2 -> "horizontal" [] pc = 6 -> "vertical"
                                        [] pc = 10 -> "cursor" [] OTHER -> "gram")
    BY <1>6, AimIs
  <2> QED  BY <1>3, <1>6, <2>1
<1>7. CASE pc \in {3, 4, 7, 8, 11, 12}
  <2>1. Aim(b)[pc] = Write("byte", CASE pc = 3 -> b.x1 [] pc = 4 -> b.x0 [] pc = 7 -> b.y1
                                     [] pc = 8 -> b.y0 [] pc = 11 -> b.y0 [] OTHER -> b.x0)
    BY <1>7, AimIs
  <2> QED  BY <1>3, <1>7, <2>1
<1> QED  BY <1>4, <1>5, <1>6, <1>7

\* A write of the aim brings it one further.
LEMMA AimWrites ==
  ASSUME LcdIInv, ClearOfOrigin, LcdWrite, artist.pc \in 1..14
  PROVE  LcdTypeOK' /\ Upright' /\ Aiming'
<1> DEFINE pc == artist.pc
           b == artist.box
<1>0. /\ LcdTypeOK /\ Upright /\ Aiming /\ artist.way \in Ways
      /\ artist \in [way : Ways \cup {"none"}, box : Boxes, frame : Nat, pc : Nat]
      /\ lcd \in PanelRecords /\ b \in Boxes
  <2>0. artist.pc # 0 /\ artist.pc \in 1..15  OBVIOUS
  <2>1. LcdTypeOK /\ Upright /\ Aiming /\ artist.way \in Ways  BY Zenon, <2>0 DEF LcdIInv, ByItsWay
  <2> QED  BY <2>1 DEF LcdTypeOK
<1>1. /\ artist' = [artist EXCEPT !.pc = @ + 1] /\ UNCHANGED <<profile, before, chan>>
      /\ pc \in {1, 5, 9, 13} => lcd' = PortSelect(lcd)
      /\ pc = 2 => lcd' = PortCommand(lcd, "horizontal")
      /\ pc = 3 => lcd' = PortByte(lcd, b.x1)
      /\ pc = 4 => lcd' = PortByte(lcd, b.x0)
      /\ pc = 6 => lcd' = PortCommand(lcd, "vertical")
      /\ pc = 7 => lcd' = PortByte(lcd, b.y1)
      /\ pc = 8 => lcd' = PortByte(lcd, b.y0)
      /\ pc = 10 => lcd' = PortCommand(lcd, "cursor")
      /\ pc = 11 => lcd' = PortByte(lcd, b.y0)
      /\ pc = 12 => lcd' = PortByte(lcd, b.x0)
      /\ pc = 14 => lcd' = PortCommand(lcd, "gram")
  BY <1>0, AimEffect
<1>2. /\ artist'.pc = pc + 1 /\ artist'.box = b /\ artist'.way = artist.way
      /\ artist'.frame = artist.frame
      /\ artist' \in [way : Ways \cup {"none"}, box : Boxes, frame : Nat, pc : Nat]
  BY <1>0, <1>1
<1>3. /\ b.x0 \in Nat /\ b.x1 \in Nat /\ b.y0 \in Nat /\ b.y1 \in Nat  BY <1>0, BoxIs
<1>4. ASSUME lcd' \in PanelRecords PROVE LcdTypeOK'  BY <1>0, <1>1, <1>2, <1>4 DEF LcdTypeOK
<1>5. Quiet'  BY <1>0, <1>1 DEF Quiet, Aiming
<1>6. /\ lcd.remaining = 0 /\ lcd.pixels = before /\ lcd.y1 \in Nat /\ lcd.x1 \in Nat
  BY <1>0 DEF Aiming, PanelRecords
<1>7. CASE pc \in {1, 5, 9, 13}
  <2>1. /\ lcd' \in PanelRecords /\ lcd'.hi = NoByte
        /\ lcd'.pixels = lcd.pixels /\ lcd'.remaining = lcd.remaining
        /\ lcd'.command = lcd.command
        /\ lcd'.x0 = lcd.x0 /\ lcd'.x1 = lcd.x1 /\ lcd'.y0 = lcd.y0 /\ lcd'.y1 = lcd.y1
        /\ lcd'.x = lcd.x /\ lcd'.y = lcd.y
    BY <1>0, <1>1, <1>7, SelectIs
  <2>2. Aiming'  BY <1>0, <1>1, <1>2, <1>5, <1>6, <1>7, <2>1 DEF Aiming
  <2>3. Upright'  BY <1>0, <1>1, <1>2, <1>7, <2>1 DEF Upright
  <2> QED  BY <1>4, <2>1, <2>2, <2>3
<1>8. CASE pc \in {2, 6, 10, 14}
  <2> DEFINE c == CASE pc = 2 -> "horizontal" [] pc = 6 -> "vertical"
                    [] pc = 10 -> "cursor" [] OTHER -> "gram"
  <2>0. lcd' = PortCommand(lcd, c) /\ c \in {"horizontal", "vertical", "cursor", "gram"}
    BY <1>1, <1>8
  <2>1. /\ lcd' \in PanelRecords /\ lcd'.hi = NoByte /\ lcd'.command = c
        /\ lcd'.pixels = lcd.pixels /\ lcd'.remaining = lcd.remaining
        /\ lcd'.x0 = lcd.x0 /\ lcd'.x1 = lcd.x1 /\ lcd'.y0 = lcd.y0 /\ lcd'.y1 = lcd.y1
        /\ lcd'.x = lcd.x /\ lcd'.y = lcd.y
    <3> HIDE DEF c
    <3> QED  BY <1>0, <2>0, CommandIs
  <2>2. Aiming'  BY <1>0, <1>1, <1>2, <1>5, <1>6, <1>8, <2>1 DEF Aiming
  <2>3. Upright'  BY <1>0, <1>1, <1>2, <1>8, <2>1 DEF Upright
  <2> QED  BY <1>4, <2>1, <2>2, <2>3
<1>9. CASE pc \in {3, 7, 11}
  <2> DEFINE v == CASE pc = 3 -> b.x1 [] pc = 7 -> b.y1 [] OTHER -> b.y0
  <2>0. lcd' = PortByte(lcd, v) /\ v \in Nat /\ lcd.hi = NoByte
    BY <1>0, <1>1, <1>3, <1>9 DEF Aiming
  <2>1. /\ lcd' \in PanelRecords /\ lcd'.hi = v /\ lcd'.command = lcd.command
        /\ lcd'.pixels = lcd.pixels /\ lcd'.remaining = lcd.remaining
        /\ lcd'.x0 = lcd.x0 /\ lcd'.x1 = lcd.x1 /\ lcd'.y0 = lcd.y0 /\ lcd'.y1 = lcd.y1
        /\ lcd'.x = lcd.x /\ lcd'.y = lcd.y
    <3> HIDE DEF v
    <3> QED  BY <1>0, <2>0, FirstByteIs
  <2>2. Aiming'  BY <1>0, <1>1, <1>2, <1>5, <1>6, <1>9, <2>1 DEF Aiming
  <2>3. Upright'  BY <1>0, <1>1, <1>2, <1>9, <2>1 DEF Upright
  <2> QED  BY <1>4, <2>1, <2>2, <2>3
<1>10. CASE pc = 4
  <2>0. lcd.command = "horizontal" /\ lcd.hi = b.x1  BY <1>0, <1>10 DEF Aiming
  <2>1. /\ lcd' \in PanelRecords /\ lcd'.x0 = b.x0 /\ lcd'.x1 = b.x1
        /\ lcd'.y1 >= (IF lcd.x1 = 0 /\ lcd.y1 = 0 THEN PanelHeight - 1 ELSE lcd.y1)
        /\ lcd'.pixels = lcd.pixels /\ lcd'.remaining = lcd.remaining
    BY <1>0, <1>1, <1>10, <2>0, HorizontalPair
  <2>2. Aiming'  BY <1>0, <1>1, <1>2, <1>5, <1>6, <1>10, <2>1 DEF Aiming
  <2>3. Upright'
    <3>1. artist'.pc = 5  BY <1>2, <1>10
    <3>2. CASE \A d \in Boxes : d.x1 # 0  BY <1>0, <2>1, <3>1, <3>2 DEF Upright
    <3>3. CASE \A d \in Boxes : d.y1 # 0
      <4>1. lcd.y1 # 0 \/ lcd.x1 = 0  BY <1>0, <1>10, <3>3 DEF Upright
      <4>2. PanelHeight \in Nat /\ PanelHeight >= 2  BY LcdAssumption
      <4>3. lcd'.y1 # 0  BY <1>6, <2>1, <4>1, <4>2
      <4> QED  BY <3>1, <4>3 DEF Upright
    <3> QED  BY <3>2, <3>3 DEF ClearOfOrigin
  <2> QED  BY <1>4, <2>1, <2>2, <2>3
<1>11. CASE pc = 8
  <2>0. /\ lcd.command = "vertical" /\ lcd.hi = b.y1 /\ lcd.x0 = b.x0 /\ lcd.x1 = b.x1
        /\ lcd.x1 # 0 \/ lcd.y1 # 0
    BY <1>0, <1>11 DEF Aiming, Upright
  <2>1. /\ lcd' \in PanelRecords
        /\ lcd'.x0 = b.x0 /\ lcd'.x1 = b.x1 /\ lcd'.y0 = b.y0 /\ lcd'.y1 = b.y1
        /\ lcd'.pixels = lcd.pixels /\ lcd'.remaining = lcd.remaining
    BY <1>0, <1>1, <1>11, <2>0, VerticalPair
  <2>2. Aiming'  BY <1>0, <1>1, <1>2, <1>5, <1>6, <1>11, <2>1 DEF Aiming
  <2>3. Upright'  BY <1>2, <1>11 DEF Upright
  <2> QED  BY <1>4, <2>1, <2>2, <2>3
<1>12. CASE pc = 12
  <2>0. lcd.command = "cursor" /\ lcd.hi = b.y0 /\ Windowed(lcd, b)
    BY <1>0, <1>12 DEF Aiming, Windowed, ClearOfOrigin
  <2>1. /\ lcd' \in PanelRecords /\ Windowed(lcd', b) /\ lcd'.x = b.x0 /\ lcd'.y = b.y0
        /\ lcd'.pixels = lcd.pixels /\ lcd'.remaining = lcd.remaining
    BY <1>0, <1>1, <1>12, <2>0, CursorPair
  <2>2. Aiming'  BY <1>0, <1>1, <1>2, <1>5, <1>6, <1>12, <2>1 DEF Aiming, Windowed
  <2>3. Upright'  BY <1>2, <1>12 DEF Upright
  <2> QED  BY <1>4, <2>1, <2>2, <2>3
<1> QED  BY <1>7, <1>8, <1>9, <1>10, <1>11, <1>12

-----------------------------------------------------------------------------
\* What is drawn depends on the pixels, the window and the cursor only.
LEMMA StaysDrawn ==
  ASSUME NEW l, NEW m, m.pixels = l.pixels, m.x = l.x, m.y = l.y,
         m.x0 = l.x0, m.x1 = l.x1, m.y0 = l.y0, m.y1 = l.y1,
         NEW b, NEW frame, NEW old, NEW k, Windowed(l, b), Drawn(l, b, frame, old, k)
  PROVE  Windowed(m, b) /\ Drawn(m, b, frame, old, k)
  BY DEF Windowed, Drawn

\* What the aim has come to: a window with nothing of the frame in it.
LEMMA AimedAtWindow ==
  ASSUME LcdTypeOK, Aiming, artist.pc = 15, ClearOfOrigin
  PROVE  Windowed(lcd, artist.box) /\ DrawnNow(0)
<1> DEFINE b == artist.box
           p == <<lcd.x, lcd.y>>
<1>1. b \in Boxes  BY DEF LcdTypeOK
<1>2. /\ lcd.x0 = b.x0 /\ lcd.x1 = b.x1 /\ lcd.y0 = b.y0 /\ lcd.y1 = b.y1
      /\ lcd.x = b.x0 /\ lcd.y = b.y0 /\ lcd.pixels = before
  BY DEF Aiming
<1>3. Windowed(lcd, b)  BY <1>1, <1>2 DEF Windowed, ClearOfOrigin
<1>4. Inside(p, b)  BY <1>1, <1>2, BoxIs DEF Inside
<1>5. Order(p, b) = 0
  <2>1. b.x0 \in Nat /\ b.y0 \in Nat /\ Width(b) \in Nat  BY <1>1, BoxIs
  <2>2. b.y0 - b.y0 = 0  BY <2>1
  <2>3. Order(p, b) = 0 * Width(b) + b.x0 - b.x0  BY <1>2, <2>2 DEF Order
  <2> QED  BY <2>1, <2>3
<1>6. ASSUME NEW q \in Places, Inside(q, b) PROVE ~(Order(q, b) < 0)
  <2>1. Order(q, b) \in Nat  BY <1>1, <1>6, OrderIs
  <2> QED  BY <2>1
<1> QED  BY <1>2, <1>3, <1>4, <1>5, <1>6 DEF DrawnNow, Drawn

\* Each way to draw begins where the aim ends.
LEMMA AimedThen ==
  ASSUME LcdTypeOK, Aiming, artist.pc = 15, artist.way \in Ways, Fitting, ClearOfOrigin
  PROVE  ByItsWay
<1>1. Windowed(lcd, artist.box) /\ DrawnNow(0)  BY AimedAtWindow
<1>2. Quiet /\ lcd.remaining = 0 /\ lcd.command = "gram" /\ lcd.hi = NoByte
  BY DEF Aiming
<1>3. Pixels(artist.box) \in Nat \ {0}  BY BoxIs DEF LcdTypeOK
<1>4. ByPixels
  <2>1. artist.pc - 15 = 0 /\ 0 \div 2 = 0 /\ 0 % 2 = 0 /\ 0 < 2 * Pixels(artist.box)  BY <1>3
  <2> QED  BY <1>1, <1>2, <2>1 DEF ByPixels
<1>5. ByWords  BY <1>1, <1>2 DEF ByWords, Beginning
<1>6. ByBlockDma  BY <1>1, <1>2 DEF ByBlockDma, Beginning
<1>7. /\ artist.pc <= 18 + 1 /\ ~(artist.pc = 18 + 1) /\ ~(artist.pc \in 16..17)
      /\ ~(artist.pc = 17) /\ ~(artist.pc \in 18..19) /\ ~(artist.pc > 19)
  OBVIOUS
<1>8. artist.way = "armThenBlock" => profile = "apple"  BY DEF Fitting, Fits
<1>9. Beginning(18)  BY Zenon, <1>1, <1>2, <1>7 DEF Beginning
<1>10. profile = "apple" => ByDmaBlock  BY Zenon, <1>2, <1>7, <1>9 DEF ByDmaBlock
<1> QED  BY <1>4, <1>5, <1>6, <1>8, <1>10 DEF ByItsWay

-----------------------------------------------------------------------------
\* A pixel is told by its bytes, and the second draws it.
LEMMA SecondByteDraws ==
  ASSUME NEW l \in PanelRecords, NEW b \in Boxes, Windowed(l, b), l.command = "gram",
         NEW frame \in Nat, NEW old, NEW k \in Nat, k < Pixels(b), Drawn(l, b, frame, old, k),
         l.hi = Pixel(frame, k) % Base,
         NEW m, m = PortByte(l, Pixel(frame, k) \div Base)
  PROVE  /\ m \in PanelRecords /\ Windowed(m, b) /\ Drawn(m, b, frame, old, k + 1)
         /\ m.command = "gram" /\ m.hi = NoByte /\ m.remaining = l.remaining
<1> DEFINE px == Pixel(frame, k)
           c == Cleared(l)
           hi == px % Base
           lo == px \div Base
<1>1. px \in Nat /\ Base \in Nat /\ Base > 0
  <2>1. Base \in Nat /\ Base > 0 /\ frame * Base \in Nat  BY LcdAssumption
  <2> QED  BY <2>1 DEF Pixel
<1>2. lo \in Nat /\ hi \in 0..Base - 1 /\ px = Base * lo + hi
  <2> HIDE DEF px
  <2> QED  BY <1>1, DivMod
<1>0. m = PortByte(l, lo) /\ l.hi = hi  OBVIOUS
<1>3. Swap(hi, lo) = px
  <2> HIDE DEF px, hi, lo
  <2> QED  BY <1>1, <1>2 DEF Swap
<1>4. /\ c \in PanelRecords /\ c.hi = NoByte
      /\ c.pixels = l.pixels /\ c.remaining = l.remaining /\ c.command = l.command
      /\ c.x0 = l.x0 /\ c.x1 = l.x1 /\ c.y0 = l.y0 /\ c.y1 = l.y1 /\ c.x = l.x /\ c.y = l.y
  BY ClearedIs
<1> HIDE DEF px, hi, lo
<1>5. l.hi # NoByte  BY <1>0, <1>1, <1>2 DEF NoByte
<1>6. InitWindow(c) = c  BY <1>4 DEF InitWindow, Windowed
<1>7. m = PushPixel(c, px)  BY <1>0, <1>3, <1>4, <1>5, <1>6 DEF PortByte, CommandData, Cleared
<1> HIDE DEF c
<1>8. Windowed(c, b) /\ Drawn(c, b, frame, old, k)  BY <1>4, StaysDrawn
<1>9. m \in PanelRecords /\ Same(c, m) /\ Windowed(m, b) /\ Drawn(m, b, frame, old, k + 1)
  BY <1>4, <1>7, <1>8, PushPixelDraws DEF px
<1> QED  BY <1>4, <1>9 DEF Same

\* The bytes of the pixels, in turn.
LEMMA PixelsWrites ==
  ASSUME LcdIInv, LcdWrite, artist.pc >= 15, artist.way = "pixels"
  PROVE  /\ LcdTypeOK' /\ artist'.way = artist.way /\ artist'.frame = artist.frame
         /\ artist'.box = artist.box /\ UNCHANGED <<profile, before>>
         /\ artist'.pc = 0 => AtRest'
         /\ artist'.pc # 0 => artist'.pc > 15 /\ ByPixels'
<1> DEFINE pc == artist.pc
           b == artist.box
           f == artist.frame
           n == Pixels(b)
           sent == pc - 15
           k == sent \div 2
           w == Writes
<1>0. /\ LcdTypeOK /\ ByPixels /\ artist.way \in Ways /\ f # 0
      /\ artist \in [way : Ways \cup {"none"}, box : Boxes, frame : Nat, pc : Nat]
      /\ lcd \in PanelRecords /\ b \in Boxes /\ pc \in Nat /\ f \in Nat
  <2>1. LcdTypeOK /\ artist.way \in Ways /\ f # 0  BY DEF LcdIInv, ByItsWay, LcdTypeOK
  <2>2. ByPixels  BY DEF LcdIInv, ByItsWay
  <2> QED  BY <2>1, <2>2 DEF LcdTypeOK
<1>1. n \in Nat \ {0} /\ sent \in Nat /\ sent < 2 * n /\ k \in Nat /\ sent % 2 \in {0, 1}
      /\ sent = 2 * k + (sent % 2)
  <2>1. n \in Nat \ {0}  BY <1>0, BoxIs
  <2>2. sent \in Nat /\ sent < 2 * n  BY <1>0 DEF ByPixels
  <2> HIDE DEF sent, n
  <2> QED  BY <2>1, <2>2
<1>2. /\ Quiet /\ lcd.remaining = 0 /\ lcd.command = "gram"
      /\ Windowed(lcd, b) /\ Drawn(lcd, b, f, before, k)
      /\ lcd.hi = IF sent % 2 = 0 THEN NoByte ELSE Pixel(f, k) % Base
  BY <1>0 DEF ByPixels, DrawnNow
<1>3. /\ Len(w) = 14 + 2 * n
      /\ w[pc] = Write("byte", IF sent % 2 = 0 THEN Pixel(f, k) % Base ELSE Pixel(f, k) \div Base)
  <2>0. w = Program("pixels", b, f)  BY DEF Writes
  <2> HIDE DEF w
  <2>1. /\ Len(w) = 14 + 2 * n
        /\ \A i \in 1..2 * n : w[14 + i] = PixelBytes(b, f)[i]
    BY <1>0, <2>0, PixelsProgram
  <2>2. sent + 1 \in 1..2 * n /\ 14 + (sent + 1) = pc
    <3>1. sent + 1 \in 1..2 * n
      <4> HIDE DEF n, sent
      <4> QED  BY <1>1
    <3> QED  BY <1>0, <3>1
  <2>3. w[pc] = PixelBytes(b, f)[sent + 1]  BY <2>1, <2>2
  <2>4. (sent + 1) - 1 = sent /\ ((sent + 1) % 2 = 1 <=> sent % 2 = 0)
    <3> HIDE DEF sent
    <3> QED  BY <1>1
  <2>5. PixelBytes(b, f)[sent + 1] =
          LET pixel == Pixel(f, ((sent + 1) - 1) \div 2)
          IN  Write("byte", IF (sent + 1) % 2 = 1 THEN pixel % Base ELSE pixel \div Base)
    <3> HIDE DEF sent
    <3> QED  BY <2>2 DEF PixelBytes
  <2> QED  BY <2>1, <2>3, <2>4, <2>5
<1> DEFINE v == IF sent % 2 = 0 THEN Pixel(f, k) % Base ELSE Pixel(f, k) \div Base
<1>4. /\ artist' = [artist EXCEPT !.pc = IF pc < Len(w) \/ Waits THEN pc + 1 ELSE 0]
      /\ UNCHANGED <<profile, before>> /\ lcd' = PortByte(lcd, v) /\ chan' = chan
  <2> HIDE DEF v
  <2>1. Writes[pc] = Write("byte", v)  BY <1>3 DEF v
  <2> QED  BY <1>0, <2>1, WriteEffect
<1>5. ~Waits  BY DEF Waits
<1>6. /\ artist'.pc = (IF sent + 1 < 2 * n THEN pc + 1 ELSE 0)
      /\ artist'.box = b /\ artist'.way = artist.way /\ artist'.frame = f
      /\ artist' \in [way : Ways \cup {"none"}, box : Boxes, frame : Nat, pc : Nat]
  <2>1. artist' = [artist EXCEPT !.pc = IF pc < Len(w) THEN pc + 1 ELSE 0]  BY <1>4, <1>5
  <2>2. pc < Len(w) <=> sent + 1 < 2 * n
    <3>1. Len(w) = 14 + 2 * n /\ n \in Nat /\ pc \in Nat  BY <1>0, <1>1, <1>3
    <3> HIDE DEF w, n
    <3> QED  BY <3>1
  <2> HIDE DEF w
  <2> QED  BY <1>0, <2>1, <2>2
<1>7. Quiet'  BY <1>2, <1>4 DEF Quiet
<1>8. ASSUME lcd' \in PanelRecords PROVE LcdTypeOK'  BY <1>0, <1>4, <1>6, <1>8 DEF LcdTypeOK
<1> HIDE DEF w
<1>9. CASE sent % 2 = 0
  <2>1. Pixel(f, k) % Base \in Nat
    <3>1. Base \in Nat /\ Base > 0 /\ f * Base \in Nat  BY <1>0, LcdAssumption
    <3>2. Pixel(f, k) \in Nat  BY <1>1, <3>1 DEF Pixel
    <3> QED  BY <3>1, <3>2
  <2>2. /\ lcd' \in PanelRecords /\ lcd'.hi = Pixel(f, k) % Base /\ lcd'.command = lcd.command
        /\ lcd'.pixels = lcd.pixels /\ lcd'.remaining = lcd.remaining
        /\ lcd'.x0 = lcd.x0 /\ lcd'.x1 = lcd.x1 /\ lcd'.y0 = lcd.y0 /\ lcd'.y1 = lcd.y1
        /\ lcd'.x = lcd.x /\ lcd'.y = lcd.y
    <3> HIDE DEF k
    <3> QED  BY <1>0, <1>2, <1>4, <1>9, <2>1, FirstByteIs
  <2>3. Windowed(lcd', b) /\ Drawn(lcd', b, f, before, k)
    <3> HIDE DEF k
    <3> QED  BY <1>2, <2>2, StaysDrawn
  <2>4. sent + 1 < 2 * n /\ (sent + 1) \div 2 = k /\ (sent + 1) % 2 = 1
    <3> HIDE DEF sent, n
    <3> QED  BY <1>1, <1>9
  <2>5. artist'.pc - 15 = sent + 1  BY <1>0, <1>6, <2>4
  <2>6. ByPixels'
    <3> HIDE DEF k, n, sent
    <3> QED  BY <1>2, <1>4, <1>6, <1>7, <2>2, <2>3, <2>4, <2>5 DEF ByPixels, DrawnNow, n
  <2> QED  BY <1>0, <1>4, <1>6, <1>8, <2>2, <2>4, <2>6
<1>10. CASE sent % 2 = 1
  <2>0. k < n
    <3> HIDE DEF sent, n
    <3> QED  BY <1>1, <1>10
  <2>1. /\ lcd' \in PanelRecords /\ Windowed(lcd', b) /\ Drawn(lcd', b, f, before, k + 1)
        /\ lcd'.command = "gram" /\ lcd'.hi = NoByte /\ lcd'.remaining = lcd.remaining
    <3>1. lcd.hi = Pixel(f, k) % Base /\ lcd' = PortByte(lcd, Pixel(f, k) \div Base)
      BY <1>2, <1>4, <1>10
    <3> HIDE DEF k
    <3> QED  BY <1>0, <1>1, <1>2, <2>0, <3>1, SecondByteDraws
  <2>2. (sent + 1) \div 2 = k + 1 /\ (sent + 1) % 2 = 0
    <3> HIDE DEF sent, n
    <3> QED  BY <1>1, <1>10
  <2>3. CASE sent + 1 < 2 * n
    <3>1. artist'.pc - 15 = sent + 1 /\ artist'.pc > 15
      <4> HIDE DEF n, k
      <4> QED  BY <1>0, <1>1, <1>6, <2>3
    <3>2. ByPixels'
      <4> HIDE DEF k, n, sent
      <4> QED  BY <1>2, <1>4, <1>6, <1>7, <2>1, <2>2, <2>3, <3>1 DEF ByPixels, DrawnNow, n
    <3> QED  BY <1>0, <1>4, <1>6, <1>8, <2>1, <3>1, <3>2
  <2>4. CASE ~(sent + 1 < 2 * n)
    <3>1. k + 1 = n /\ artist'.pc = 0
      <4>1. k + 1 = n
        <5> HIDE DEF sent, n
        <5> QED  BY <1>1, <1>10, <2>4
      <4> QED  BY <1>6, <2>4, <4>1
    <3>2. AtRest'
      <4> HIDE DEF k, n, sent
      <4> QED  BY <1>0, <1>2, <1>4, <1>6, <1>7, <2>1, <3>1 DEF AtRest, DrawnNow, n
    <3> QED  BY <1>0, <1>4, <1>6, <1>8, <2>1, <3>1, <3>2
  <2> QED  BY <2>3, <2>4
<1> QED  BY <1>1, <1>9, <1>10

\* A block is configured and begun.
LEMMA ConfigIs ==
  ASSUME NEW l \in PanelRecords, NEW b \in Boxes, NEW frame, NEW old,
         Windowed(l, b), Drawn(l, b, frame, old, 0),
         NEW m, m = [l EXCEPT !.config = 2 * Pixels(b) - 1]
  PROVE  /\ m \in PanelRecords /\ Windowed(m, b) /\ Drawn(m, b, frame, old, 0)
         /\ m.remaining = l.remaining /\ m.config = 2 * Pixels(b) - 1
<1> DEFINE v == 2 * Pixels(b) - 1
<1>1. v \in Nat
  <2> DEFINE n == Pixels(b)
  <2>1. n \in Nat \ {0}  BY BoxIs
  <2> HIDE DEF n
  <2>2. 2 * n - 1 \in Nat  BY <2>1
  <2> QED  BY <2>2 DEF n
<1>2. m = [l EXCEPT !.config = v]  OBVIOUS
<1> HIDE DEF v
<1>3. /\ m \in PanelRecords /\ m.config = v /\ m.remaining = l.remaining
      /\ m.pixels = l.pixels /\ m.x = l.x /\ m.y = l.y
      /\ m.x0 = l.x0 /\ m.x1 = l.x1 /\ m.y0 = l.y0 /\ m.y1 = l.y1
  BY <1>1, <1>2 DEF PanelRecords
<1>4. Windowed(m, b) /\ Drawn(m, b, frame, old, 0)  BY <1>3, StaysDrawn
<1> QED  BY <1>3, <1>4 DEF v

\* A block begun has all its pixels to come.
LEMMA StartIs ==
  ASSUME NEW l \in PanelRecords, NEW b \in Boxes, NEW frame, NEW old,
         Windowed(l, b), Drawn(l, b, frame, old, 0), l.config = 2 * Pixels(b) - 1,
         NEW m, m = StartBlock(l)
  PROVE  Blocked(m, b, frame, old, 0)
<1> DEFINE n == Pixels(b)
<1>1. n \in Nat \ {0}  BY BoxIs
<1>2. l.config = 2 * n - 1  OBVIOUS
<1>3. InitWindow(l) = l  BY DEF InitWindow, Windowed
<1> HIDE DEF n
<1>4. (l.config + 1) \div 2 = n  BY <1>1, <1>2
<1>5. m = [l EXCEPT !.remaining = n]  BY <1>3, <1>4 DEF StartBlock
<1>6. /\ m \in PanelRecords /\ m.remaining = n
      /\ m.pixels = l.pixels /\ m.x = l.x /\ m.y = l.y
      /\ m.x0 = l.x0 /\ m.x1 = l.x1 /\ m.y0 = l.y0 /\ m.y1 = l.y1
  BY <1>1, <1>5 DEF PanelRecords
<1>7. Windowed(m, b) /\ Drawn(m, b, frame, old, 0)  BY <1>6, StaysDrawn
<1>8. m.remaining = n - 0  BY <1>1, <1>6
<1> QED  BY <1>6, <1>7, <1>8 DEF Blocked, n

\* Where a write leaves the driver.
LEMMA DriverStep ==
  ASSUME LcdTypeOK, NEW q \in Nat, artist' = [artist EXCEPT !.pc = q]
  PROVE  /\ artist'.pc = q /\ artist'.box = artist.box /\ artist'.way = artist.way
         /\ artist'.frame = artist.frame
         /\ artist' \in [way : Ways \cup {"none"}, box : Boxes, frame : Nat, pc : Nat]
<1>1. artist \in [way : Ways \cup {"none"}, box : Boxes, frame : Nat, pc : Nat]  BY DEF LcdTypeOK
<1> QED  BY <1>1

\* What a step of the driver keeps.
Holds == artist'.way = artist.way /\ artist'.frame = artist.frame /\ artist'.box = artist.box

\* The words of a block, in turn.
LEMMA WordsWrites ==
  ASSUME LcdIInv, LcdWrite, artist.pc >= 15, artist.way = "words"
  PROVE  /\ LcdTypeOK' /\ Holds /\ UNCHANGED <<profile, before>>
         /\ artist'.pc = 0 => AtRest'
         /\ artist'.pc # 0 => artist'.pc > 15 /\ ByWords'
<1> DEFINE pc == artist.pc
           b == artist.box
           f == artist.frame
           n == Pixels(b)
           h == Half(b)
           w == Writes
<1>0. /\ LcdTypeOK /\ ByWords /\ artist.way \in Ways /\ f # 0
      /\ lcd \in PanelRecords /\ b \in Boxes /\ pc \in Nat /\ f \in Nat
  <2>1. LcdTypeOK /\ artist.way \in Ways /\ f # 0  BY DEF LcdIInv, ByItsWay, LcdTypeOK
  <2>2. ByWords  BY DEF LcdIInv, ByItsWay
  <2> QED  BY <2>1, <2>2 DEF LcdTypeOK
<1>1. n \in Nat \ {0} /\ h \in Nat \ {0} /\ 2 * h \in {n, n + 1}  BY <1>0, BoxIs, WordsAre
<1>2. Quiet  BY <1>0 DEF ByWords
<1>3. /\ Len(w) = 16 + h
      /\ w[15] = Write("config", 2 * n - 1) /\ w[16] = Write("start", 0)
      /\ \A i \in 1..h : w[16 + i] = Write("word", Words(b, f)[i])
  <2>0. w = Program("words", b, f)  BY DEF Writes
  <2>1. b \in Boxes /\ f \in Nat  BY <1>0
  <2> HIDE DEF w, b, f
  <2> QED  BY Zenon, <2>0, <2>1, WordsProgram
<1>5. ~Waits  BY DEF Waits
<1>6. ASSUME artist' = [artist EXCEPT !.pc = IF pc < Len(w) \/ Waits THEN pc + 1 ELSE 0]
      PROVE  /\ artist'.pc = (IF pc < 16 + h THEN pc + 1 ELSE 0)
             /\ artist'.box = b /\ artist'.way = artist.way /\ artist'.frame = f
             /\ artist' \in [way : Ways \cup {"none"}, box : Boxes, frame : Nat, pc : Nat]
  <2> DEFINE q == IF pc < 16 + h THEN pc + 1 ELSE 0
  <2>1. q \in Nat  BY <1>0
  <2>2. artist' = [artist EXCEPT !.pc = q]  BY <1>3, <1>5, <1>6
  <2> HIDE DEF q
  <2>3. /\ artist'.pc = q /\ artist'.box = b /\ artist'.way = artist.way /\ artist'.frame = f
        /\ artist' \in [way : Ways \cup {"none"}, box : Boxes, frame : Nat, pc : Nat]
    BY <1>0, <2>1, <2>2, DriverStep
  <2> QED  BY <2>3 DEF q
<1> HIDE DEF w, n, h
<1>7. CASE pc = 15
  <2>1. /\ artist' = [artist EXCEPT !.pc = IF pc < Len(w) \/ Waits THEN pc + 1 ELSE 0]
        /\ UNCHANGED <<profile, before>> /\ lcd' = [lcd EXCEPT !.config = 2 * n - 1]
        /\ chan' = chan
    <3>1. Writes[pc] = Write("config", 2 * n - 1)  BY <1>3, <1>7 DEF w
    <3> QED  BY <1>0, <3>1, WriteEffect DEF w
  <2>2. artist'.pc = 16 /\ artist'.box = b /\ artist'.frame = f  BY <1>1, <1>6, <1>7, <2>1
  <2>3. Windowed(lcd, b) /\ Drawn(lcd, b, f, before, 0) /\ lcd.remaining = 0
    BY <1>0, <1>7 DEF ByWords, Beginning, DrawnNow
  <2>4. /\ lcd' \in PanelRecords /\ Windowed(lcd', b) /\ Drawn(lcd', b, f, before, 0)
        /\ lcd'.remaining = 0 /\ lcd'.config = 2 * n - 1
    BY <1>0, <2>1, <2>3, ConfigIs DEF n
  <2>5. Quiet'  BY <1>2, <2>1 DEF Quiet
  <2>6. ByWords'  BY <2>1, <2>2, <2>4, <2>5 DEF ByWords, Beginning, DrawnNow, n
  <2>7. LcdTypeOK'  BY <1>0, <1>6, <2>1, <2>4 DEF LcdTypeOK
  <2> QED  BY <1>6, <2>1, <2>2, <2>6, <2>7 DEF Holds
<1>8. CASE pc = 16
  <2>1. /\ artist' = [artist EXCEPT !.pc = IF pc < Len(w) \/ Waits THEN pc + 1 ELSE 0]
        /\ UNCHANGED <<profile, before>> /\ lcd' = StartBlock(lcd) /\ chan' = chan
    <3>1. Writes[pc] = Write("start", 0)  BY <1>3, <1>8 DEF w
    <3> QED  BY <1>0, <3>1, WriteEffect DEF w
  <2>2. artist'.pc = 17 /\ artist'.box = b /\ artist'.frame = f  BY <1>1, <1>6, <1>8, <2>1
  <2>3. Windowed(lcd, b) /\ Drawn(lcd, b, f, before, 0) /\ lcd.config = 2 * n - 1
    BY <1>0, <1>8 DEF ByWords, Beginning, DrawnNow, n
  <2>4. Blocked(lcd', b, f, before, 0)  BY <1>0, <2>1, <2>3, StartIs DEF n
  <2>5. Quiet'  BY <1>2, <2>1 DEF Quiet
  <2>6. ByWords'
    <3>1. 17 - 17 < h /\ InWords(b, 17 - 17) = 0  BY <1>1 DEF InWords, AtMost, n
    <3> QED  BY <2>1, <2>2, <2>4, <2>5, <3>1 DEF ByWords, Beginning, BlockedNow, h
  <2>7. LcdTypeOK'  BY <1>0, <1>6, <2>1, <2>4 DEF LcdTypeOK, Blocked
  <2> QED  BY <1>6, <2>1, <2>2, <2>6, <2>7 DEF Holds
<1>9. CASE pc > 16
  <2> DEFINE i == pc - 16
  <2>0. i \in 1..h /\ pc = 16 + i /\ i - 1 = pc - 17
    <3>1. pc - 17 < h  BY <1>0, <1>9 DEF ByWords, h
    <3>2. pc \in Nat  BY <1>0
    <3> HIDE DEF pc
    <3> QED  BY <1>1, <1>9, <3>1, <3>2
  <2>1. /\ artist' = [artist EXCEPT !.pc = IF pc < Len(w) \/ Waits THEN pc + 1 ELSE 0]
        /\ UNCHANGED <<profile, before>> /\ lcd' = PushWord(lcd, Words(b, f)[i]) /\ chan' = chan
    <3>1. Writes[pc] = Write("word", Words(b, f)[i])
      <4> HIDE DEF i
      <4> QED  BY <1>3, <2>0 DEF w
    <3> HIDE DEF i
    <3> QED  BY <1>0, <3>1, WriteEffect DEF w
  <2>2. /\ artist'.pc = (IF pc < 16 + h THEN pc + 1 ELSE 0) /\ artist'.box = b /\ artist'.frame = f
    BY <1>6, <2>1
  <2>3. Blocked(lcd, b, f, before, InWords(b, i - 1))
    BY <1>0, <1>9, <2>0 DEF ByWords, BlockedNow
  <2>4. Blocked(lcd', b, f, before, InWords(b, i))
    <3> HIDE DEF i
    <3> QED  BY <1>0, <2>0, <2>1, <2>3, PushWordDraws DEF h
  <2>5. Quiet'  BY <1>2, <2>1 DEF Quiet
  <2>6. CASE i < h
    <3>1. artist'.pc = pc + 1 /\ (pc + 1) - 17 = i /\ pc + 1 > 16 + 1
      <4>1. pc \in Nat /\ pc < 16 + h  BY <1>0, <1>1, <1>9, <2>0, <2>6
      <4>2. artist'.pc = pc + 1  BY <2>2, <4>1
      <4> HIDE DEF pc
      <4> QED  BY <1>9, <4>1, <4>2
    <3>2. ByWords'
      <4> HIDE DEF i
      <4> QED  BY <1>0, <1>9, <2>1, <2>2, <2>4, <2>5, <2>6, <3>1
              DEF ByWords, Beginning, BlockedNow, h
    <3> QED
      <4>1. LcdTypeOK'  BY <1>0, <1>6, <2>1, <2>4 DEF LcdTypeOK, Blocked
      <4> QED  BY <1>0, <1>6, <1>9, <2>1, <3>1, <3>2, <4>1 DEF Holds
  <2>7. CASE i = h
    <3>1. artist'.pc = 0  BY <1>1, <2>0, <2>2, <2>7
    <3>2. InWords(b, i) = n /\ n - n = 0  BY <1>1, <2>7 DEF InWords, AtMost, n
    <3>3. AtRest'
      <4> HIDE DEF i
      <4> QED  BY <1>0, <2>1, <2>2, <2>4, <2>5, <3>1, <3>2 DEF AtRest, DrawnNow, Blocked, n
    <3> QED
      <4>1. LcdTypeOK'  BY <1>0, <1>6, <2>1, <2>4 DEF LcdTypeOK, Blocked
      <4> QED  BY <1>6, <2>1, <3>1, <3>3, <4>1 DEF Holds
  <2> QED  BY <1>1, <2>0, <2>6, <2>7
<1> QED  BY <1>0, <1>7, <1>8, <1>9

\* A block is configured, or begun, by a driver that has its window.
LEMMA ConfigWrite ==
  ASSUME LcdTypeOK, LcdWrite, Windowed(lcd, artist.box), DrawnNow(0), lcd.remaining = 0,
         Writes[artist.pc] = Config(artist.box)
  PROVE  /\ UNCHANGED <<profile, before, chan>>
         /\ lcd' \in PanelRecords /\ Windowed(lcd', artist.box)
         /\ Drawn(lcd', artist.box, artist.frame, before, 0)
         /\ lcd'.remaining = 0 /\ lcd'.config = 2 * Pixels(artist.box) - 1
<1> DEFINE v == 2 * Pixels(artist.box) - 1
<1>1. Writes[artist.pc] = Write("config", v)  BY DEF Config
<1>2. lcd \in PanelRecords /\ artist.box \in Boxes  BY DEF LcdTypeOK
<1> HIDE DEF v
<1>3. /\ UNCHANGED <<profile, before>> /\ lcd' = [lcd EXCEPT !.config = v] /\ chan' = chan
  BY <1>1, WriteEffect
<1> USE DEF v
<1> QED  BY <1>2, <1>3, ConfigIs DEF DrawnNow

\* The write that begins the block.
LEMMA StartWrite ==
  ASSUME LcdTypeOK, LcdWrite, Windowed(lcd, artist.box), DrawnNow(0),
         lcd.config = 2 * Pixels(artist.box) - 1, Writes[artist.pc] = Start
  PROVE  /\ UNCHANGED <<profile, before, chan>>
         /\ Blocked(lcd', artist.box, artist.frame, before, 0)
<1>1. Writes[artist.pc] = Write("start", 0)  BY DEF Start
<1>2. lcd \in PanelRecords /\ artist.box \in Boxes  BY DEF LcdTypeOK
<1>3. UNCHANGED <<profile, before>> /\ lcd' = StartBlock(lcd) /\ chan' = chan
  BY <1>1, WriteEffect
<1> QED  BY <1>2, <1>3, StartIs DEF DrawnNow

\* The registers of the channel.
LEMMA RamWrite ==
  ASSUME LcdTypeOK, LcdWrite, Quiet, Writes[artist.pc] = Ram(artist.box, artist.frame)
  PROVE  /\ UNCHANGED <<profile, before, lcd>> /\ chan' \in ChannelRecords /\ Quiet'
         /\ chan'.ram = Words(artist.box, artist.frame)
<1> DEFINE v == Words(artist.box, artist.frame)
           c == [chan EXCEPT !.ram = v]
<1>1. Writes[artist.pc] = Write("ram", v)  BY DEF Ram
<1>2. v \in Seq(Nat \X Nat) /\ chan \in ChannelRecords  BY WordsAre DEF LcdTypeOK
<1> HIDE DEF v
<1>3. UNCHANGED <<profile, before>> /\ WriteChannel(c)  BY <1>1, WriteEffect
<1>4. /\ c \in ChannelRecords /\ c.ram = v /\ c.wait = chan.wait /\ c.armed = chan.armed
      /\ c.intr = chan.intr /\ c.linked = chan.linked
  BY <1>2 DEF ChannelRecords
<1> HIDE DEF c
<1>5. profile = "apple" \/ ~c.wait  BY <1>4 DEF Quiet, LcdTypeOK
<1>6. chan' = c /\ lcd' = lcd
  BY <1>3, <1>5 DEF WriteChannel, TransferChannel, TransferLcd, Transfers
<1> QED  BY <1>3, <1>4, <1>6 DEF Quiet, v

\* The write that aims the channel.
LEMMA PerWrite ==
  ASSUME LcdTypeOK, LcdWrite, Quiet, Writes[artist.pc] = Per
  PROVE  /\ UNCHANGED <<profile, before, lcd>> /\ chan' \in ChannelRecords /\ Quiet'
         /\ chan'.ram = chan.ram /\ chan'.aimed
<1> DEFINE c == [chan EXCEPT !.aimed = TRUE]
<1>1. Writes[artist.pc] = Write("per", TRUE)  BY DEF Per
<1>2. chan \in ChannelRecords  BY DEF LcdTypeOK
<1>3. UNCHANGED <<profile, before>> /\ WriteChannel(c)  BY <1>1, WriteEffect
<1>4. /\ c \in ChannelRecords /\ c.ram = chan.ram /\ c.wait = chan.wait /\ c.armed = chan.armed
      /\ c.intr = chan.intr /\ c.linked = chan.linked /\ c.aimed
  BY <1>2 DEF ChannelRecords
<1> HIDE DEF c
<1>5. profile = "apple" \/ ~c.wait  BY <1>4 DEF Quiet, LcdTypeOK
<1>6. chan' = c /\ lcd' = lcd
  BY <1>3, <1>5 DEF WriteChannel, TransferChannel, TransferLcd, Transfers
<1> QED  BY <1>3, <1>4, <1>6 DEF Quiet

\* The command: Apple's channel waits for the tick, Rockbox's block is drawn at once.
LEMMA CmdWrite ==
  ASSUME LcdTypeOK, LcdWrite, Quiet, Writes[artist.pc] = Cmd(artist.box), Holds,
         chan.aimed, chan.ram = Words(artist.box, artist.frame)
  PROVE  /\ UNCHANGED <<profile, before>> /\ chan' \in ChannelRecords
         /\ profile = "apple" => Armed' /\ lcd' = lcd
         /\ profile # "apple" /\ BlockedNow(0) =>
              /\ Quiet'
              /\ Blocked(lcd', artist.box, artist.frame, before, Pixels(artist.box))
<1> DEFINE b == artist.box
           h == Half(b)
           c == Command(chan, TRUE, h)
           ram == Words(b, artist.frame)
<1>1. Writes[artist.pc] = Write("cmd", h)  BY DEF Cmd
<1>2. /\ h \in Nat /\ chan \in ChannelRecords /\ b \in Boxes /\ artist.frame \in Nat
      /\ profile \in {"apple", "rockbox"}
  BY WordsAre DEF LcdTypeOK
<1>0. chan.ram = ram  OBVIOUS
<1> HIDE DEF h, ram
<1>3. UNCHANGED <<profile, before>> /\ WriteChannel(c)  BY <1>1, WriteEffect
<1>4. /\ c \in ChannelRecords /\ c.ram = chan.ram /\ c.wait = TRUE /\ c.words = h
      /\ c.armed = (profile = "apple") /\ c.aimed = chan.aimed
      /\ c.intr = chan.intr /\ c.linked = chan.linked
  BY <1>2 DEF Command, ChannelRecords
<1> HIDE DEF c
<1>5. CASE profile = "apple"
  <2>1. chan' = c /\ lcd' = lcd  BY <1>3, <1>5 DEF WriteChannel
  <2>2. Armed'  BY <1>0, <1>3, <1>4, <1>5, <2>1 DEF Armed, Quiet, Holds, h, ram
  <2> QED  BY <1>3, <1>4, <1>5, <2>1, <2>2
<1>6. CASE profile # "apple"
  <2>1. Transfers(lcd, c)  BY <1>4, <1>6 DEF Transfers, Requested
  <2>2. chan' = [c EXCEPT !.wait = FALSE] /\ lcd' = TransferLcd(lcd, c)
    BY <1>3, <1>6, <2>1 DEF WriteChannel, TransferChannel
  <2>3. chan' \in ChannelRecords /\ Quiet'
    BY <1>3, <1>4, <1>6, <2>2 DEF ChannelRecords, Quiet
  <2>4. BlockedNow(0) => Blocked(lcd', b, artist.frame, before, Pixels(b))
    BY <1>0, <1>2, <1>4, <2>1, <2>2, TransferDraws DEF BlockedNow, h, ram
  <2> QED  BY <1>3, <1>6, <2>3, <2>4
<1> QED  BY <1>5, <1>6

-----------------------------------------------------------------------------
\* A block is begun, and the channel armed for it.
LEMMA BlockDmaWrites ==
  ASSUME LcdIInv, LcdWrite, artist.pc >= 15, artist.way = "blockThenArm"
  PROVE  /\ LcdTypeOK' /\ Holds /\ UNCHANGED <<profile, before>>
         /\ artist'.pc = 0 => AtRest'
         /\ artist'.pc # 0 => artist'.pc > 15 /\ ByBlockDma'
<1> DEFINE pc == artist.pc
           b == artist.box
           f == artist.frame
           w == Writes
<1>0. /\ LcdTypeOK /\ ByBlockDma /\ artist.way \in Ways /\ f # 0
      /\ lcd \in PanelRecords /\ chan \in ChannelRecords
      /\ b \in Boxes /\ pc \in Nat /\ f \in Nat /\ profile \in {"apple", "rockbox"}
  <2>1. LcdTypeOK /\ artist.way \in Ways /\ f # 0  BY DEF LcdIInv, ByItsWay, LcdTypeOK
  <2>2. ByBlockDma  BY DEF LcdIInv, ByItsWay
  <2> QED  BY <2>1, <2>2 DEF LcdTypeOK
<1>1. /\ Len(w) = 19 /\ DOMAIN w = 1..19 /\ w[15] = Config(b) /\ w[16] = Start
      /\ w[17] = Ram(b, f) /\ w[18] = Per /\ w[19] = Cmd(b)
  <2>0. w = Program("blockThenArm", b, f)  BY DEF Writes
  <2>1. b \in Boxes /\ f \in Nat  BY <1>0
  <2> HIDE DEF w, b, f
  <2> QED  BY Zenon, <2>0, <2>1, BlockDmaProgram
<1>2. Waits <=> profile = "apple"  BY DEF Waits
<1> HIDE DEF w
<1>3. /\ pc \in 15..19
      /\ artist' = [artist EXCEPT !.pc = IF pc < Len(w) \/ Waits THEN pc + 1 ELSE 0]
  <2>1. PICK r, v : w[pc] = Write(r, v)
    <3>1. pc \in DOMAIN w  BY DEF LcdWrite, WriteLcd, WriteSelect, WriteCommand, WriteByteOut,
            WriteConfigOut, WriteStart, WriteWord, WriteRam, WritePer, WriteCmd, w
    <3>2. pc \in {15, 16, 17, 18, 19}  BY <1>0, <1>1, <3>1
    <3> QED  BY <1>1, <3>2 DEF Config, Start, Ram, Per, Cmd
  <2>2. /\ pc \in DOMAIN w
        /\ artist' = [artist EXCEPT !.pc = IF pc < Len(w) \/ Waits THEN pc + 1 ELSE 0]
    BY <1>0, <2>1, WriteEffect DEF w
  <2> QED  BY <1>0, <1>1, <2>2
<1>4. /\ artist'.pc = (IF pc < 19 \/ profile = "apple" THEN pc + 1 ELSE 0)
      /\ artist'.box = b /\ artist'.way = artist.way /\ artist'.frame = f
      /\ artist' \in [way : Ways \cup {"none"}, box : Boxes, frame : Nat, pc : Nat]
  <2> DEFINE q == IF pc < 19 \/ profile = "apple" THEN pc + 1 ELSE 0
  <2>1. q \in Nat  BY <1>0
  <2>2. artist' = [artist EXCEPT !.pc = q]  BY <1>1, <1>2, <1>3
  <2> HIDE DEF q
  <2>3. /\ artist'.pc = q /\ artist'.box = b /\ artist'.way = artist.way /\ artist'.frame = f
        /\ artist' \in [way : Ways \cup {"none"}, box : Boxes, frame : Nat, pc : Nat]
    BY <1>0, <2>1, <2>2, DriverStep
  <2> QED  BY <2>3 DEF q
<1>5. Holds  BY <1>4 DEF Holds
<1>6. ASSUME lcd' \in PanelRecords, chan' \in ChannelRecords, UNCHANGED <<profile, before>>
      PROVE  LcdTypeOK'
  BY <1>0, <1>4, <1>6 DEF LcdTypeOK
<1>7. Quiet /\ Beginning(15)  BY <1>0, <1>3 DEF ByBlockDma
<1>8. CASE pc = 15
  <2>1. Windowed(lcd, b) /\ DrawnNow(0) /\ lcd.remaining = 0  BY <1>7, <1>8 DEF Beginning
  <2>2. /\ UNCHANGED <<profile, before, chan>>
        /\ lcd' \in PanelRecords /\ Windowed(lcd', b) /\ Drawn(lcd', b, f, before, 0)
        /\ lcd'.remaining = 0 /\ lcd'.config = 2 * Pixels(b) - 1
    BY <1>0, <1>1, <1>8, <2>1, ConfigWrite DEF w
  <2>3. artist'.pc = 16  BY <1>4, <1>8
  <2>4. Quiet'  BY <1>7, <2>2 DEF Quiet
  <2>5. ByBlockDma'  BY <1>4, <2>2, <2>3, <2>4 DEF ByBlockDma, Beginning, DrawnNow
  <2> QED  BY <1>0, <1>5, <1>6, <2>2, <2>3, <2>5
<1>9. CASE pc = 16
  <2>1. Windowed(lcd, b) /\ DrawnNow(0) /\ lcd.config = 2 * Pixels(b) - 1
    BY <1>7, <1>9 DEF Beginning
  <2>2. UNCHANGED <<profile, before, chan>> /\ Blocked(lcd', b, f, before, 0)
    BY <1>0, <1>1, <1>9, <2>1, StartWrite DEF w
  <2>3. artist'.pc = 17  BY <1>4, <1>9
  <2>4. Quiet'  BY <1>7, <2>2 DEF Quiet
  <2>5. ByBlockDma'  BY <1>4, <2>2, <2>3, <2>4 DEF ByBlockDma, Beginning, BlockedNow
  <2> QED  BY <1>0, <1>5, <1>6, <2>2, <2>3, <2>5 DEF Blocked
<1>10. CASE pc = 17
  <2>1. BlockedNow(0)  BY <1>0, <1>10 DEF ByBlockDma
  <2>2. UNCHANGED <<profile, before, lcd>> /\ chan' \in ChannelRecords /\ Quiet'
        /\ chan'.ram = Words(b, f)
    BY <1>0, <1>1, <1>7, <1>10, RamWrite DEF w
  <2>3. artist'.pc = 18  BY <1>4, <1>10
  <2>4. ByBlockDma'  BY <1>4, <2>1, <2>2, <2>3 DEF ByBlockDma, Beginning, BlockedNow
  <2> QED  BY <1>0, <1>5, <1>6, <2>2, <2>3, <2>4
<1>11. CASE pc = 18
  <2>1. BlockedNow(0) /\ chan.ram = Words(b, f)  BY <1>0, <1>11 DEF ByBlockDma
  <2>2. UNCHANGED <<profile, before, lcd>> /\ chan' \in ChannelRecords /\ Quiet'
        /\ chan'.ram = chan.ram /\ chan'.aimed
    BY <1>0, <1>1, <1>7, <1>11, PerWrite DEF w
  <2>3. artist'.pc = 19  BY <1>4, <1>11
  <2>4. ByBlockDma'  BY <1>4, <2>1, <2>2, <2>3 DEF ByBlockDma, Beginning, BlockedNow
  <2> QED  BY <1>0, <1>5, <1>6, <2>2, <2>3, <2>4
<1>12. CASE pc = 19
  <2>1. BlockedNow(0) /\ chan.ram = Words(b, f) /\ chan.aimed  BY <1>0, <1>12 DEF ByBlockDma
  <2>2. /\ UNCHANGED <<profile, before>> /\ chan' \in ChannelRecords
        /\ profile = "apple" => Armed' /\ lcd' = lcd
        /\ profile # "apple" => Quiet' /\ Blocked(lcd', b, f, before, Pixels(b))
    BY <1>0, <1>1, <1>5, <1>7, <1>12, <2>1, CmdWrite DEF w
  <2>3. CASE profile = "apple"
    <3>1. artist'.pc = 20  BY <1>4, <1>12, <2>3
    <3>2. BlockedNow(0)'  BY <1>4, <2>1, <2>2, <2>3 DEF BlockedNow
    <3>3. ByBlockDma'  BY <2>2, <2>3, <3>1, <3>2 DEF ByBlockDma, Agreed
    <3> QED  BY <1>0, <1>5, <1>6, <2>2, <2>3, <3>1, <3>3
  <2>4. CASE profile # "apple"
    <3>1. artist'.pc = 0  BY <1>4, <1>12, <2>4
    <3>2. Pixels(b) - Pixels(b) = 0  BY <1>0, BoxIs
    <3>3. AtRest'  BY <1>0, <1>4, <2>2, <2>4, <3>2 DEF AtRest, Blocked, DrawnNow
    <3> QED  BY <1>0, <1>5, <1>6, <2>2, <2>4, <3>1, <3>3 DEF Blocked
  <2> QED  BY <2>3, <2>4
<1> QED  BY <1>3, <1>8, <1>9, <1>10, <1>11, <1>12

\* The channel is armed, and the block begun.
LEMMA DmaBlockWrites ==
  ASSUME LcdIInv, LcdWrite, artist.pc >= 15, artist.way = "armThenBlock"
  PROVE  /\ LcdTypeOK' /\ Holds /\ UNCHANGED <<profile, before>>
         /\ artist'.pc > 15 /\ ByDmaBlock'
<1> DEFINE pc == artist.pc
           b == artist.box
           f == artist.frame
           w == Writes
<1>0. /\ LcdTypeOK /\ ByDmaBlock /\ artist.way \in Ways /\ f # 0
      /\ lcd \in PanelRecords /\ chan \in ChannelRecords
      /\ b \in Boxes /\ pc \in Nat /\ f \in Nat /\ profile = "apple"
  <2>1. LcdTypeOK /\ artist.way \in Ways /\ f # 0  BY DEF LcdIInv, ByItsWay, LcdTypeOK
  <2>2. ByDmaBlock  BY DEF LcdIInv, ByItsWay
  <2> QED  BY <2>1, <2>2 DEF LcdTypeOK, ByDmaBlock
<1>1. /\ Len(w) = 19 /\ DOMAIN w = 1..19 /\ w[15] = Ram(b, f) /\ w[16] = Per
      /\ w[17] = Cmd(b) /\ w[18] = Config(b) /\ w[19] = Start
  <2>0. w = Program("armThenBlock", b, f)  BY DEF Writes
  <2>1. b \in Boxes /\ f \in Nat  BY <1>0
  <2> HIDE DEF w, b, f
  <2> QED  BY Zenon, <2>0, <2>1, DmaBlockProgram
<1>2. Waits  BY <1>0 DEF Waits
<1> HIDE DEF w
<1>3. pc \in 15..19 /\ artist' = [artist EXCEPT !.pc = pc + 1]
  <2>1. PICK r, v : w[pc] = Write(r, v)
    <3>1. pc \in DOMAIN w  BY DEF LcdWrite, WriteLcd, WriteSelect, WriteCommand, WriteByteOut,
            WriteConfigOut, WriteStart, WriteWord, WriteRam, WritePer, WriteCmd, w
    <3>2. pc \in {15, 16, 17, 18, 19}  BY <1>0, <1>1, <3>1
    <3> QED  BY <1>1, <3>2 DEF Config, Start, Ram, Per, Cmd
  <2>2. /\ pc \in DOMAIN w
        /\ artist' = [artist EXCEPT !.pc = IF pc < Len(w) \/ Waits THEN pc + 1 ELSE 0]
    BY <1>0, <2>1, WriteEffect DEF w
  <2> QED  BY <1>0, <1>1, <1>2, <2>2
<1>4. /\ artist'.pc = pc + 1
      /\ artist'.box = b /\ artist'.way = artist.way /\ artist'.frame = f
      /\ artist' \in [way : Ways \cup {"none"}, box : Boxes, frame : Nat, pc : Nat]
  <2>1. pc + 1 \in Nat  BY <1>0
  <2> QED  BY <1>0, <1>3, <2>1, DriverStep
<1>5. Holds  BY <1>4 DEF Holds
<1>6. ASSUME lcd' \in PanelRecords, chan' \in ChannelRecords, UNCHANGED <<profile, before>>
      PROVE  LcdTypeOK'
  BY <1>0, <1>4, <1>6 DEF LcdTypeOK
<1>7. Windowed(lcd, b) /\ DrawnNow(0) /\ lcd.remaining = 0
  BY <1>0, <1>3 DEF ByDmaBlock, Beginning
<1>8. CASE pc = 15
  <2>1. Quiet  BY <1>0, <1>8 DEF ByDmaBlock
  <2>2. UNCHANGED <<profile, before, lcd>> /\ chan' \in ChannelRecords /\ Quiet'
        /\ chan'.ram = Words(b, f)
    BY <1>0, <1>1, <1>8, <2>1, RamWrite DEF w
  <2>3. artist'.pc = 16  BY <1>4, <1>8
  <2>4. ByDmaBlock'  BY <1>0, <1>4, <1>7, <2>2, <2>3 DEF ByDmaBlock, Beginning, DrawnNow
  <2> QED  BY <1>0, <1>5, <1>6, <2>2, <2>3, <2>4
<1>9. CASE pc = 16
  <2>1. Quiet /\ chan.ram = Words(b, f)  BY <1>0, <1>9 DEF ByDmaBlock
  <2>2. UNCHANGED <<profile, before, lcd>> /\ chan' \in ChannelRecords /\ Quiet'
        /\ chan'.ram = chan.ram /\ chan'.aimed
    BY <1>0, <1>1, <1>9, <2>1, PerWrite DEF w
  <2>3. artist'.pc = 17  BY <1>4, <1>9
  <2>4. ByDmaBlock'  BY <1>0, <1>4, <1>7, <2>1, <2>2, <2>3 DEF ByDmaBlock, Beginning, DrawnNow
  <2> QED  BY <1>0, <1>5, <1>6, <2>2, <2>3, <2>4
<1>10. CASE pc = 17
  <2>1. Quiet /\ chan.ram = Words(b, f) /\ chan.aimed  BY <1>0, <1>10 DEF ByDmaBlock
  <2>2. /\ UNCHANGED <<profile, before>> /\ chan' \in ChannelRecords
        /\ Armed' /\ lcd' = lcd
    BY <1>0, <1>1, <1>5, <1>10, <2>1, CmdWrite DEF w
  <2>3. artist'.pc = 18  BY <1>4, <1>10
  <2>4. ByDmaBlock'  BY <1>0, <1>4, <1>7, <2>2, <2>3 DEF ByDmaBlock, Beginning, DrawnNow
  <2> QED  BY <1>0, <1>5, <1>6, <2>2, <2>3, <2>4
<1>11. CASE pc = 18
  <2>1. Armed  BY <1>0, <1>11 DEF ByDmaBlock
  <2>2. /\ UNCHANGED <<profile, before, chan>>
        /\ lcd' \in PanelRecords /\ Windowed(lcd', b) /\ Drawn(lcd', b, f, before, 0)
        /\ lcd'.remaining = 0 /\ lcd'.config = 2 * Pixels(b) - 1
    BY <1>0, <1>1, <1>7, <1>11, ConfigWrite DEF w
  <2>3. artist'.pc = 19  BY <1>4, <1>11
  <2>4. Armed'  BY <1>4, <2>1, <2>2 DEF Armed
  <2>5. ByDmaBlock'  BY <1>0, <1>4, <2>2, <2>3, <2>4 DEF ByDmaBlock, Beginning, DrawnNow
  <2> QED  BY <1>0, <1>5, <1>6, <2>2, <2>3, <2>5
<1>12. CASE pc = 19
  <2>1. Armed /\ lcd.config = 2 * Pixels(b) - 1  BY <1>0, <1>12 DEF ByDmaBlock, Beginning
  <2>2. UNCHANGED <<profile, before, chan>> /\ Blocked(lcd', b, f, before, 0)
    BY <1>0, <1>1, <1>7, <1>12, <2>1, StartWrite DEF w
  <2>3. artist'.pc = 20  BY <1>4, <1>12
  <2>4. Armed' /\ BlockedNow(0)'  BY <1>4, <2>1, <2>2 DEF Armed, BlockedNow
  <2>5. ByDmaBlock'  BY <1>0, <2>2, <2>3, <2>4 DEF ByDmaBlock, Beginning, Agreed
  <2> QED  BY <1>0, <1>5, <1>6, <2>2, <2>3, <2>5 DEF Blocked
<1> QED  BY <1>3, <1>8, <1>9, <1>10, <1>11, <1>12

\* How long the driver's program is.
LEMMA ProgramEnds ==
  ASSUME LcdIInv, artist.pc # 0, NEW w, w = Writes
  PROVE  /\ artist.pc \in Nat /\ Len(w) \in Nat
         /\ artist.pc > Len(w) =>
              /\ artist.pc = 20 /\ artist.way \in {"blockThenArm", "armThenBlock"}
              /\ Agreed
<1> DEFINE pc == artist.pc
           b == artist.box
           f == artist.frame
<1>1. /\ LcdTypeOK /\ artist.way \in Ways /\ b \in Boxes /\ f \in Nat /\ pc \in Nat
  <2>1. LcdTypeOK /\ artist.way \in Ways  BY DEF LcdIInv, ByItsWay
  <2> QED  BY <2>1 DEF LcdTypeOK
<1>2. w = Program(artist.way, b, f)  BY DEF Writes
<1>3. Pixels(b) \in Nat \ {0} /\ Half(b) \in Nat \ {0}  BY <1>1, BoxIs, WordsAre
<1> HIDE DEF b, f, pc
<1>4. CASE artist.way = "pixels"
  <2>0. w = Program("pixels", b, f)  BY <1>2, <1>4
  <2>1. Len(w) = 14 + 2 * Pixels(b)  BY Zenon, <1>1, <2>0, PixelsProgram
  <2>2. pc >= 15 => pc - 15 < 2 * Pixels(b)  BY <1>4 DEF LcdIInv, ByItsWay, ByPixels, pc, b
  <2> DEFINE n == Pixels(b)
  <2> HIDE DEF n
  <2>3. ~(pc > 14 + 2 * n) /\ 14 + 2 * n \in Nat  BY <1>1, <1>3, <2>2 DEF n
  <2> QED  BY <1>1, <2>1, <2>3 DEF pc, n
<1>5. CASE artist.way = "words"
  <2>0. w = Program("words", b, f)  BY <1>2, <1>5
  <2>1. Len(w) = 16 + Half(b)  BY Zenon, <1>1, <2>0, WordsProgram
  <2>2. pc > 16 => pc - 17 < Half(b)
    <3>1. pc > 16 => pc >= 15  BY <1>1
    <3> QED  BY <1>5, <3>1 DEF LcdIInv, ByItsWay, ByWords, pc, b
  <2> DEFINE h == Half(b)
  <2> HIDE DEF h
  <2>3. ~(pc > 16 + h) /\ 16 + h \in Nat  BY <1>1, <1>3, <2>2 DEF h
  <2> QED  BY <1>1, <2>1, <2>3 DEF pc, h
<1>6. CASE artist.way = "blockThenArm"
  <2>0. w = Program("blockThenArm", b, f)  BY <1>2, <1>6
  <2>1. Len(w) = 19  BY Zenon, <1>1, <2>0, BlockDmaProgram
  <2>2. pc > 19 => pc >= 15  BY <1>1
  <2>3. pc > 19 => pc = 20 /\ Agreed  BY <1>6, <2>2 DEF LcdIInv, ByItsWay, ByBlockDma, pc
  <2> QED  BY <1>1, <1>6, <2>1, <2>3 DEF pc
<1>7. CASE artist.way = "armThenBlock"
  <2>0. w = Program("armThenBlock", b, f)  BY <1>2, <1>7
  <2>1. Len(w) = 19  BY Zenon, <1>1, <2>0, DmaBlockProgram
  <2>2. pc > 19 => pc >= 15  BY <1>1
  <2>3. pc > 19 => pc = 20 /\ Agreed  BY <1>7, <2>2 DEF LcdIInv, ByItsWay, ByDmaBlock, pc
  <2> QED  BY <1>1, <1>7, <2>1, <2>3 DEF pc
<1> QED  BY <1>1, <1>4, <1>5, <1>6, <1>7 DEF Ways

\* There is a transfer to make only when the driver waits for it.
LEMMA TransferIsAwaited ==
  ASSUME LcdIInv, Transfers(lcd, chan)
  PROVE  /\ artist.pc = 20 /\ artist.way \in {"blockThenArm", "armThenBlock"}
         /\ Armed /\ BlockedNow(0)
<1> DEFINE pc == artist.pc
<1>0. LcdTypeOK /\ pc \in Nat  BY DEF LcdIInv, ByItsWay, LcdTypeOK
<1>1. ~Quiet
  BY <1>0 DEF LcdTypeOK, Quiet, Transfers, Requested
<1>2. pc # 0  BY <1>1 DEF LcdIInv, ByItsWay, AtRest
<1>3. ~(pc \in 1..15)  BY <1>1 DEF LcdIInv, ByItsWay, Aiming
<1>4. pc >= 15 /\ artist.way \in Ways  BY <1>0, <1>2, <1>3 DEF LcdIInv, ByItsWay
<1>5. artist.way # "pixels" /\ artist.way # "words"
  BY <1>1, <1>4 DEF LcdIInv, ByItsWay, ByPixels, ByWords
<1>6. CASE artist.way = "blockThenArm"
  <2>1. ByBlockDma  BY <1>4, <1>6 DEF LcdIInv, ByItsWay
  <2>2. pc = 20 /\ Agreed  BY <1>0, <1>1, <2>1 DEF ByBlockDma
  <2> QED  BY <1>6, <2>2 DEF Agreed, Transfers, Requested
<1>7. CASE artist.way = "armThenBlock"
  <2>1. ByDmaBlock  BY <1>4, <1>7 DEF LcdIInv, ByItsWay
  <2>2. lcd.remaining # 0 /\ profile = "apple"
    BY <2>1 DEF ByDmaBlock, Transfers, Requested
  <2>3. pc > 19  BY <1>0, <2>1, <2>2 DEF ByDmaBlock, Beginning
  <2>4. pc = 20 /\ Agreed  BY <2>1, <2>3 DEF ByDmaBlock
  <2> QED  BY <1>7, <2>4 DEF Agreed, Transfers, Requested
<1> QED  BY <1>4, <1>5, <1>6, <1>7 DEF Ways

\* A driver that waits has a transfer to come.
LEMMA AgreedTransfers ==
  ASSUME LcdTypeOK, Fitting, artist.way \in {"blockThenArm", "armThenBlock"}, Armed, BlockedNow(0)
  PROVE  Transfers(lcd, chan)
<1> DEFINE b == artist.box
           n == Pixels(b)
           h == Half(b)
<1>1. b \in Boxes  BY DEF LcdTypeOK
<1>2. n \in Nat \ {0} /\ h \in Nat /\ 2 * h \in {n, n + 1}  BY <1>1, BoxIs, WordsAre
<1>3. n % 2 = 0  BY DEF Fitting, Fits, Armed
<1>4. lcd.remaining = n - 0 /\ chan.words = h  BY DEF BlockedNow, Blocked, Armed
<1> HIDE DEF n, h
<1>5. 2 * h = n  BY <1>2, <1>3
<1>6. lcd.remaining # 0 /\ lcd.remaining = 2 * chan.words  BY <1>2, <1>4, <1>5
<1> QED  BY <1>6 DEF Armed, Transfers, Requested

-----------------------------------------------------------------------------
\* The panel, the channel and the driver as the machine starts.
LEMMA LcdStarts ==
  ASSUME LcdInit
  PROVE  LcdIInv
<1>1. /\ PanelWidth \in Nat \ {0} /\ GramHeight \in Nat \ {0}
      /\ Profiles \subseteq {"apple", "rockbox"} /\ Boxes # {}
  BY LcdAssumption
<1>2. 0 \in 0..PanelWidth - 1 /\ 0 \in 0..GramHeight - 1 /\ NoByte \in Int
  BY <1>1 DEF NoByte
<1>3. lcd \in PanelRecords  BY <1>2 DEF LcdInit, Panel, PanelRecords
<1>4. chan \in ChannelRecords
  <2>1. <<>> \in Seq(Nat \X Nat)  OBVIOUS
  <2> QED  BY <2>1 DEF LcdInit, Channel, ChannelRecords
<1>5. artist \in [way : Ways \cup {"none"}, box : Boxes, frame : Nat, pc : Nat]
  <2> DEFINE b == CHOOSE x \in Boxes : TRUE
  <2>1. b \in Boxes  BY <1>1
  <2> HIDE DEF b
  <2>2. artist = [way |-> "none", box |-> b, frame |-> 0, pc |-> 0]
    BY DEF LcdInit, Resting, b
  <2> QED  BY <2>1, <2>2
<1>6. artist.pc = 0 /\ artist.frame = 0  BY DEF LcdInit, Resting
<1>7. before \in [Places -> Nat] /\ lcd.pixels = before /\ lcd.x1 = 0 /\ lcd.remaining = 0
  BY DEF LcdInit, Panel
<1>8. LcdTypeOK  BY <1>1, <1>3, <1>4, <1>5, <1>7 DEF LcdTypeOK, LcdInit
<1>9. AtRest  BY <1>6, <1>7 DEF AtRest, Quiet, LcdInit, Channel
<1>10. Upright  BY <1>6, <1>7 DEF Upright
<1> QED  BY <1>6, <1>8, <1>9, <1>10 DEF LcdIInv, ByItsWay

\* A frame is begun.
LEMMA BeginKeeps ==
  ASSUME LcdIInv, NEW way \in Ways, NEW b \in Boxes, NEW frame \in Frames,
         BeginFrame(way, b, frame)
  PROVE  LcdIInv'
<1>1. LcdTypeOK /\ Upright /\ AtRest /\ artist.frame \in Nat /\ frame \in Nat
  BY LcdAssumption DEF LcdIInv, ByItsWay, LcdTypeOK, BeginFrame
<1>2. /\ artist' = [way |-> way, box |-> b, frame |-> frame, pc |-> 1]
      /\ before' = lcd.pixels /\ UNCHANGED <<profile, lcd, chan>>
      /\ artist.pc = 0 /\ frame > artist.frame /\ Fits(way, b)
  BY DEF BeginFrame
<1>3. /\ artist'.way = way /\ artist'.box = b /\ artist'.frame = frame /\ artist'.pc = 1
      /\ frame # 0
  BY <1>1, <1>2
<1>4. LcdTypeOK'
  BY <1>1, <1>2 DEF LcdTypeOK, PanelRecords
<1>5. Upright'
  BY <1>1, <1>2, <1>3 DEF Upright
<1>6. Aiming'  BY <1>1, <1>2, <1>3 DEF Aiming, AtRest, Quiet
<1>7. Fitting'  BY <1>2, <1>3 DEF Fitting, Fits
<1> QED  BY <1>3, <1>4, <1>5, <1>6, <1>7 DEF LcdIInv, ByItsWay

\* What a step that ends one stage and begins another comes to.
Rested == LcdTypeOK /\ AtRest /\ artist.pc = 0 /\ artist.frame # 0
Aimed == LcdTypeOK /\ Aiming /\ artist.pc = 15 /\ artist.way \in Ways /\ Fitting /\ ClearOfOrigin

\* A driver at rest has left a window that counts as set.
LEMMA RestedUpright == Rested => Upright
  BY DEF Rested, Upright, AtRest, Windowed, LcdTypeOK

\* The same, of a state.
LEMMA AimedByItsWay == Aimed => ByItsWay
  BY AimedThen DEF Aimed

\* The driver's writes.
LEMMA WriteKeeps ==
  ASSUME LcdIInv, ClearOfOrigin, LcdWrite
  PROVE  LcdIInv'
<1>0. /\ LcdTypeOK /\ artist.pc \in Nat
  BY DEF LcdIInv, ByItsWay, LcdTypeOK
<1>1. artist.pc # 0
  BY DEF LcdWrite, WriteLcd, WriteSelect, WriteCommand, WriteByteOut,
         WriteConfigOut, WriteStart, WriteWord, WriteRam, WritePer, WriteCmd
<1>2. artist.way \in Ways /\ artist.frame # 0 /\ Fitting  BY <1>1 DEF LcdIInv, ByItsWay
<1>3. ASSUME Holds, profile' = profile PROVE Fitting' /\ artist'.frame # 0 /\ artist'.way \in Ways
  BY <1>2, <1>3 DEF Fitting, Fits, Holds
<1>4. CASE artist.pc \in 1..14
  <2>1. LcdTypeOK' /\ Upright' /\ Aiming'  BY <1>4, AimWrites
  <2>2. artist' = [artist EXCEPT !.pc = @ + 1] /\ profile' = profile
    BY <1>0, <1>2, <1>4, AimEffect
  <2>3. artist'.pc = artist.pc + 1 /\ Holds
    <3>1. artist.pc + 1 \in Nat  BY <1>0
    <3> QED  BY <1>0, <2>2, <3>1, DriverStep DEF Holds
  <2>4. Fitting' /\ artist'.frame # 0 /\ artist'.way \in Ways  BY <1>3, <2>2, <2>3
  <2>5. CASE artist.pc = 14
    <3>1. artist'.pc = 15  BY <2>3, <2>5
    <3>2. ByItsWay'
      <4>1. Aimed'  BY <2>1, <2>4, <3>1 DEF Aimed, ClearOfOrigin
      <4> QED  BY <4>1, AimedByItsWay, PTL
    <3> QED  BY <2>1, <2>4, <3>1, <3>2 DEF LcdIInv, ByItsWay
  <2>6. CASE artist.pc < 14
    <3>1. artist'.pc # 0 /\ artist'.pc \in 1..15 /\ ~(artist'.pc >= 15)  BY <1>4, <2>3, <2>6
    <3> QED  BY <2>1, <2>4, <3>1 DEF LcdIInv, ByItsWay
  <2> QED  BY <1>4, <2>5, <2>6
<1>5. CASE artist.pc >= 15
  <2>1. /\ LcdTypeOK' /\ Holds /\ profile' = profile
        /\ artist'.pc = 0 => AtRest'
        /\ artist'.pc # 0 =>
             artist'.pc > 15 /\ ByItsWay'
    <3>1. CASE artist.way = "pixels"
      BY <1>5, <3>1, PixelsWrites DEF Holds, ByItsWay
    <3>2. CASE artist.way = "words"
      BY <1>5, <3>2, WordsWrites DEF Holds, ByItsWay
    <3>3. CASE artist.way = "blockThenArm"
      BY <1>5, <3>3, BlockDmaWrites DEF Holds, ByItsWay
    <3>4. CASE artist.way = "armThenBlock"
      BY <1>5, <3>4, DmaBlockWrites DEF Holds, ByItsWay
    <3> QED  BY <1>2, <3>1, <3>2, <3>3, <3>4 DEF Ways
  <2>2. Fitting' /\ artist'.frame # 0 /\ artist'.way \in Ways  BY <1>3, <2>1
  <2>3. CASE artist'.pc = 0
    <3>1. Upright'
      <4>1. Rested'  BY <2>1, <2>2, <2>3 DEF Rested
      <4> QED  BY <4>1, RestedUpright, PTL
    <3> QED  BY <2>1, <2>3, <3>1 DEF LcdIInv, ByItsWay
  <2>4. CASE artist'.pc # 0
    <3>1. artist'.pc > 15 /\ artist'.pc \in Nat  BY <2>1, <2>4 DEF LcdTypeOK
    <3>2. artist'.pc > 8 /\ ~(artist'.pc \in 1..15)  BY <3>1
    <3>3. Upright'
      <4>1. ~(artist'.pc <= 4) /\ ~(artist'.pc \in 5..8)  BY <3>1
      <4> QED  BY <4>1 DEF Upright
    <3> QED  BY <2>1, <2>2, <2>4, <3>1, <3>2, <3>3 DEF LcdIInv, ByItsWay
  <2> QED  BY <2>3, <2>4
<1> QED  BY <1>0, <1>1, <1>4, <1>5

\* The interrupt of a transfer is taken.
LEMMA TakeKeeps ==
  ASSUME LcdIInv, TakeTransfer
  PROVE  LcdIInv'
<1> DEFINE b == artist.box
           w == Writes
<1>1. /\ artist.pc # 0 /\ artist.pc > Len(w) /\ chan.intr /\ chan.linked
      /\ chan' = [chan EXCEPT !.intr = FALSE, !.linked = FALSE]
      /\ artist' = [artist EXCEPT !.pc = 0] /\ UNCHANGED <<profile, lcd, before>>
  BY DEF TakeTransfer
<1> HIDE DEF w
<1>2. Agreed
  BY <1>1, ProgramEnds DEF w
<1>3. /\ profile = "apple" /\ ~chan.armed /\ BlockedNow(Pixels(b))  BY <1>1, <1>2 DEF Agreed, Armed
<1>4. LcdTypeOK /\ artist.frame # 0  BY <1>1 DEF LcdIInv, ByItsWay
<1>5. /\ artist'.pc = 0 /\ artist'.box = b /\ artist'.way = artist.way
      /\ artist'.frame = artist.frame
      /\ artist' \in [way : Ways \cup {"none"}, box : Boxes, frame : Nat, pc : Nat]
  BY <1>1, <1>4, DriverStep
<1>6. chan' \in ChannelRecords /\ Quiet'
  BY <1>1, <1>3, <1>4 DEF LcdTypeOK, ChannelRecords, Quiet
<1>7. LcdTypeOK'  BY <1>1, <1>4, <1>5, <1>6 DEF LcdTypeOK
<1>8. AtRest'
  <2>1. Pixels(b) - Pixels(b) = 0  BY <1>4, BoxIs DEF LcdTypeOK
  <2> QED  BY <1>1, <1>3, <1>4, <1>5, <1>6, <2>1 DEF AtRest, BlockedNow, Blocked, DrawnNow
<1>9. Upright'
  <2>1. Rested'  BY <1>4, <1>5, <1>7, <1>8 DEF Rested
  <2> QED  BY <2>1, RestedUpright, PTL
<1> QED  BY <1>5, <1>7, <1>8, <1>9 DEF LcdIInv, ByItsWay

\* Nothing changes.
LEMMA LcdStutters ==
  ASSUME LcdIInv, UNCHANGED lcdVars
  PROVE  LcdIInv'
  BY DEF LcdIInv, ByItsWay, lcdVars, LcdTypeOK, Upright, AtRest, Quiet, DrawnNow, Aiming,
         Fitting, Fits,
         ByPixels, ByWords, ByBlockDma, ByDmaBlock, Beginning, BlockedNow, Agreed, Armed

\* The tick.
LEMMA TickKeeps ==
  ASSUME LcdIInv, TickLcd
  PROVE  LcdIInv'
<1> DEFINE b == artist.box
           f == artist.frame
<1>1. CASE ~Transfers(lcd, chan)
  <2>1. UNCHANGED lcdVars
    BY <1>1 DEF TickLcd, TransferLcd, TransferChannel, lcdVars
  <2> QED  BY <2>1, LcdStutters
<1>2. CASE Transfers(lcd, chan)
  <2>1. /\ artist.pc = 20 /\ artist.way \in {"blockThenArm", "armThenBlock"}
        /\ Armed /\ BlockedNow(0)
    BY <1>2, TransferIsAwaited
  <2>2. LcdTypeOK /\ Fitting /\ artist.way \in Ways /\ artist.frame # 0 /\ b \in Boxes /\ f \in Nat
    <3>1. LcdTypeOK /\ Fitting /\ artist.way \in Ways /\ artist.frame # 0
      BY <2>1 DEF LcdIInv, ByItsWay
    <3> QED  BY <3>1 DEF LcdTypeOK
  <2>3. /\ UNCHANGED <<profile, artist, before>>
        /\ lcd' = TransferLcd(lcd, chan)
        /\ chan' = [chan EXCEPT !.armed = FALSE, !.linked = TRUE, !.intr = TRUE]
    BY <1>2, <2>1 DEF TickLcd, TransferChannel, Armed
  <2>4. Blocked(lcd', b, f, before, Pixels(b))
    BY <1>2, <2>1, <2>2, <2>3, TransferDraws DEF Armed, BlockedNow
  <2>5. chan' \in ChannelRecords /\ ~chan'.armed /\ chan'.intr /\ chan'.linked
    BY <2>2, <2>3 DEF LcdTypeOK, ChannelRecords
  <2>6. Agreed'  BY <2>1, <2>3, <2>4, <2>5 DEF Agreed, Armed, BlockedNow
  <2>7. LcdTypeOK'  BY <2>2, <2>3, <2>4, <2>5 DEF LcdTypeOK, Blocked
  <2>8. Fitting'  BY <2>2, <2>3 DEF Fitting, Fits
  <2>9. artist' = artist /\ artist'.pc = 20 /\ profile' = "apple"  BY <2>1, <2>3 DEF Armed
  <2>10. Upright'  BY <2>9 DEF Upright
  <2>11. ByBlockDma' /\ ByDmaBlock'
    BY <2>6, <2>9 DEF ByBlockDma, ByDmaBlock, Beginning
  <2> QED  BY <2>1, <2>2, <2>7, <2>8, <2>9, <2>10, <2>11 DEF LcdIInv, ByItsWay
<1> QED  BY <1>1, <1>2

\* What the invariant says of the panel.
LEMMA PanelIsRight ==
  ASSUME LcdIInv
  PROVE  PanelShowsFrame
<1> DEFINE b == artist.box
           f == artist.frame
           pc == artist.pc
<1>0. LcdTypeOK /\ pc \in Nat /\ b \in Boxes  BY DEF LcdIInv, ByItsWay, LcdTypeOK
<1>1. CASE pc = 0
  <2>1. AtRest  BY <1>1 DEF LcdIInv, ByItsWay
  <2>2. ASSUME NEW p \in Places
        PROVE  IF ~Inside(p, b) THEN lcd.pixels[p] = before[p]
               ELSE f # 0 => lcd.pixels[p] = Pixel(f, Order(p, b))
    <3>1. CASE f = 0  BY <2>1, <3>1 DEF AtRest
    <3>2. CASE f # 0
      <4>1. DrawnNow(Pixels(b))  BY <2>1, <3>2 DEF AtRest
      <4>2. Inside(p, b) => Order(p, b) < Pixels(b)  BY <1>0, OrderIs
      <4> QED  BY <4>1, <4>2 DEF DrawnNow, Drawn
    <3> QED  BY <3>1, <3>2
  <2> QED  BY <1>1, <2>2 DEF PanelShowsFrame
<1>2. CASE pc # 0
  <2>1. \A p \in Places : ~Inside(p, b) => lcd.pixels[p] = before[p]
    <3>1. CASE pc \in 1..15  BY <3>1 DEF LcdIInv, ByItsWay, Aiming
    <3>2. CASE pc > 15
      <4>1. /\ pc >= 15 /\ artist.way \in Ways
            /\ artist.way = "pixels"       => ByPixels
            /\ artist.way = "words"        => ByWords
            /\ artist.way = "blockThenArm" => ByBlockDma
            /\ artist.way = "armThenBlock" => ByDmaBlock
        BY <1>0, <1>2, <3>2 DEF LcdIInv, ByItsWay
      <4>2. \E k : DrawnNow(k)
        <5>1. CASE artist.way = "pixels"  BY <4>1, <5>1 DEF ByPixels
        <5>2. CASE artist.way = "words"
          <6>1. pc <= 16 \/ pc > 16  BY <1>0
          <6> QED  BY <4>1, <5>2, <6>1 DEF ByWords, Beginning, BlockedNow, Blocked, DrawnNow
        <5>3. CASE artist.way = "blockThenArm"
          <6>1. pc <= 16 \/ pc \in 17..19 \/ pc > 19  BY <1>0
          <6>2. pc <= 16 => pc <= 19  BY <1>0
          <6> QED  BY <4>1, <5>3, <6>1, <6>2
                   DEF ByBlockDma, Beginning, Agreed, BlockedNow, Blocked, DrawnNow
        <5>4. CASE artist.way = "armThenBlock"
          <6>1. pc <= 19 \/ pc > 19  BY <1>0
          <6> QED  BY <4>1, <5>4, <6>1
                   DEF ByDmaBlock, Beginning, Agreed, BlockedNow, Blocked, DrawnNow
        <5> QED  BY <4>1, <5>1, <5>2, <5>3, <5>4 DEF Ways
      <4> QED  BY <4>2 DEF DrawnNow, Drawn
    <3> QED  BY <1>0, <1>2, <3>1, <3>2
  <2>2. pc > Len(Writes) => chan.intr \/ Transfers(lcd, chan)
    <3> SUFFICES ASSUME pc > Len(Writes) PROVE chan.intr \/ Transfers(lcd, chan)
      OBVIOUS
    <3>1. artist.way \in {"blockThenArm", "armThenBlock"} /\ Agreed  BY <1>2, ProgramEnds
    <3>2. Fitting  BY <1>2 DEF LcdIInv, ByItsWay
    <3> QED  BY <1>0, <3>1, <3>2, AgreedTransfers DEF Agreed
  <2> QED  BY <1>2, <2>1, <2>2 DEF PanelShowsFrame
<1> QED  BY <1>1, <1>2

\* Whichever way a frame is sent to dev_lcd2.c, and whenever dev_dma.c is ticked between the
\* writes, nothing outside its window changes, all of it is there when the driver has done, and a
\* driver that waits for its interrupt has a transfer to come.
THEOREM PanelShowsFrameCorrect ==
  ASSUME ClearOfOrigin
  PROVE  LcdSpec => []PanelShowsFrame
<1>1. LcdInit => LcdIInv  BY LcdStarts
<1>2. LcdIInv /\ [LcdNext]_lcdVars => LcdIInv'
  <2> SUFFICES ASSUME LcdIInv, [LcdNext]_lcdVars PROVE LcdIInv'  OBVIOUS
  <2>1. ASSUME NEW way \in Ways, NEW b \in Boxes, NEW frame \in Frames, BeginFrame(way, b, frame)
        PROVE  LcdIInv'
    BY <2>1, BeginKeeps
  <2>2. CASE LcdWrite  BY <2>2, WriteKeeps
  <2>3. CASE TakeTransfer  BY <2>3, TakeKeeps
  <2>4. CASE TickLcd  BY <2>4, TickKeeps
  <2>5. CASE UNCHANGED lcdVars  BY <2>5, LcdStutters
  <2> QED  BY <2>1, <2>2, <2>3, <2>4, <2>5 DEF LcdNext, Ways
<1>3. LcdIInv => PanelShowsFrame  BY PanelIsRight
<1> QED  BY <1>1, <1>2, <1>3, PTL DEF LcdSpec
==================================================================================
