---------------------------------- MODULE Idle ----------------------------------
(***************************************************************************)
(* The loop of main.c that gives the devices their time, and the skip of   *)
(* it while both cores are halted (bus.c): the two timers (dev_timer.c),   *)
(* a serial port (dev_serial.c), the input script (input_script.c) and the *)
(* poll of the web server.                                                 *)
(*                                                                         *)
(* Abstractions.  The other devices take part as two kinds of work: an     *)
(* alarm at a tick that the skip knows (a deadline of the PMU, a second of *)
(* the clock; Pmu has them one by one), and a job that must be counted     *)
(* down tick by tick (a drive command, a DMA channel, a core's wait, the   *)
(* release of a tap).  The two cores are halted together, an event of the  *)
(* script shows as an interrupt request, the microsecond counter does not  *)
(* wrap.                                                                   *)
(***************************************************************************)
EXTENDS Integers, Sequences, SequencesExt

CONSTANTS
  Options,      \* records [usec, divider, skips]: rtc_usec_per_tick,
                \* timer_divider and idle_fast_forward
  Scripts,      \* scripts to start with: sequences of tokens
  TapTicks,     \* N1G_INPUT_HOLD_TICKS
  MaxEvents,    \* N1G_INPUT_MAX_EVENTS
  Slice,        \* slice_insns
  Budget,       \* max_insns
  PollEvery,    \* 256: ticks between two polls of the web server
  MaxSkip,      \* 65536
  Counters,     \* of a timer
  Durations     \* of alarms and jobs

ASSUME IdleAssumption ==
  /\ Options \subseteq [usec : Nat \ {0}, divider : Nat \ {0}, skips : BOOLEAN]
  /\ {TapTicks, MaxEvents, Slice, PollEvery, MaxSkip} \subseteq Nat \ {0}
  /\ \A s \in Scripts :
       s \in Seq([kind : {"wait"}, ticks : Nat] \cup [kind : {"event", "tap"}])
  /\ Budget \in Nat /\ Counters \subseteq Nat /\ Durations \subseteq Nat \ {0}

VARIABLES
  options,
  events,    \* s.input_script_state.events
  machine,   \* the rest of the state
  first      \* history: when a timer started last would expire first

idleVars == <<options, events, machine, first>>

Timers == {"timer1", "timer2"}
Timer == [enabled |-> FALSE, repeat |-> FALSE, counter |-> 0, val |-> 0]

Uart == [enabled |-> FALSE, pending |-> FALSE, dlab |-> FALSE]

Machine ==
  [device_ticks |-> 0, usec |-> 0, phase |-> 0,
   timer  |-> [i \in Timers |-> Timer],
   uart   |-> Uart,
   alarm  |-> 0, job |-> 0,           \* 0: none
   irq    |-> {},                     \* status bits of the interrupt controller
   halted |-> FALSE,
   cursor |-> 0, wait_left |-> 0,     \* of the script
   polled |-> 0,                      \* history: tick of the last poll
   remaining |-> Budget, scheduled |-> 0]

Smaller(a, b) == IF a < b THEN a ELSE b
Bits(bits, b, on) == IF on THEN bits \cup {b} ELSE bits \ {b}

-----------------------------------------------------------------------------
(***************************************************************************)
(* The script.  A token is [wait |-> n], or a name with "event" or "tap".  *)
(* What the events do to the controls is in Input.                         *)
(***************************************************************************)
Wait(n) == [kind |-> "wait", ticks |-> n]
Act     == [kind |-> "act",  ticks |-> 0]

TokenEvents(token) ==
  CASE token.kind = "wait"  -> <<Wait(token.ticks)>>
    [] token.kind = "event" -> <<Act>>
    [] token.kind = "tap"   -> <<Act, Wait(TapTicks), Act>>

ScriptEvents(tokens) == FlattenSeq([k \in DOMAIN tokens |-> TokenEvents(tokens[k])])

\* n1g_input_script_load: the program does not start with too long a script.
Loads(tokens) == Len(ScriptEvents(tokens)) \in 1..MaxEvents

Done(m) == m.cursor >= Len(events) /\ m.wait_left = 0

\* All events up to the next wait.
ScriptTick(m) ==
  IF m.wait_left > 0 THEN [m EXCEPT !.wait_left = @ - 1]
  ELSE LET waits == {k \in m.cursor + 1 .. Len(events) : events[k].ticks > 0}
           stop  == IF waits = {} THEN Len(events)
                    ELSE CHOOSE k \in waits : \A j \in waits : k <= j
           acts  == \E k \in m.cursor + 1 .. stop : events[k] = Act
       IN  [m EXCEPT !.cursor = stop,
                     !.wait_left = IF waits = {} THEN 0 ELSE events[stop].ticks - 1,
                     !.irq = IF acts THEN @ \cup {"input"} ELSE @]

AdvanceWait(m, ticks) == [m EXCEPT !.wait_left = @ - Smaller(ticks, @)]

-----------------------------------------------------------------------------
(***************************************************************************)
(* One tick of the devices.                                                *)
(***************************************************************************)
Counts(t) == t.enabled /\ t.counter # 0 /\ t.val # 0

\* Mutation: the part of a period that has passed already is forgotten.
Advance_FullPeriod(t, steps) ==
  IF steps < t.val THEN [t EXCEPT !.val = @ - steps]
  ELSE IF t.repeat THEN [t EXCEPT !.val = t.counter]
  ELSE [t EXCEPT !.val = 0, !.enabled = FALSE]
Advance(t, steps) ==
  IF steps < t.val THEN [t EXCEPT !.val = @ - steps]
  ELSE IF t.repeat THEN [t EXCEPT !.val = t.counter - ((steps - t.val) % t.counter)]
  ELSE [t EXCEPT !.val = 0, !.enabled = FALSE]

TickTimers(m) ==
  LET elapsed == m.phase + options.usec
      steps   == elapsed \div options.divider
  IN  [m EXCEPT
        !.usec  = @ + options.usec,
        !.phase = elapsed % options.divider,
        !.timer = [i \in Timers |->
          IF steps > 0 /\ Counts(@[i]) THEN Advance(@[i], steps) ELSE @[i]],
        !.irq   = @ \cup {i \in Timers : steps > 0 /\ Counts(m.timer[i]) /\ steps >= m.timer[i].val}]

\* The PMU's share of a tick, of which only this matters here: a deadline that
\* the skip is told, and something visible when it is reached.  In full in Pmu.
TickAlarm(m) ==
  IF m.alarm # 0 /\ m.device_ticks >= m.alarm
  THEN [m EXCEPT !.alarm = 0, !.irq = @ \cup {"alarm"}] ELSE m

\* The disk's share: work that ends by itself and holds the skip off until then.
\* How many ticks it takes is left open.  In full in AtaDisk.
TickJob(m) ==
  IF m.job = 0 THEN m
  ELSE [m EXCEPT !.job = @ - 1, !.irq = Bits(@, "job", m.job = 1 \/ "job" \in @)]

TickSerial(m) ==
  [m EXCEPT !.irq = Bits(@, "serial", m.uart.enabled /\ m.uart.pending)]

BusTick(m) ==
  TickSerial(TickAlarm(TickTimers(TickJob([m EXCEPT !.device_ticks = @ + 1]))))

-----------------------------------------------------------------------------
(***************************************************************************)
(* The loop.                                                               *)
(***************************************************************************)

\* Mutation: a job under way is no reason to wait for every tick.
Quiescent_Jobs(m) ==
  /\ \A i \in Timers : ~m.timer[i].enabled
  /\ ~m.uart.pending /\ m.irq = {}
Quiescent(m) ==
  /\ \A i \in Timers : ~m.timer[i].enabled
  /\ m.job = 0 /\ ~m.uart.pending /\ m.irq = {}


IdleLimit(m) ==
  IF ~m.halted \/ ~Quiescent(m) THEN 1
  ELSE IF m.alarm = 0 THEN MaxSkip
  ELSE IF m.alarm > m.device_ticks THEN Smaller(MaxSkip, m.alarm - m.device_ticks)
  ELSE 1

ScriptLimit(m) ==
  IF m.wait_left > 0 THEN m.wait_left ELSE IF Done(m) THEN MaxSkip ELSE 1

\* Mutation: to the poll, not to the tick before it.
PollLimit_Onto(m) == PollEvery - (m.device_ticks % PollEvery)
PollLimit(m) ==
  LET until == PollEvery - (m.device_ticks % PollEvery)
  IN  IF until > 1 THEN until - 1 ELSE 1

SliceOf(m) == Smaller(Slice, m.remaining)

AdvanceTicks(m) ==
  IF ~options.skips \/ IdleLimit(m) = 1 THEN 1
  ELSE Smaller(Smaller(IdleLimit(m), ScriptLimit(m)),
               Smaller(PollLimit(m), (m.remaining + SliceOf(m) - 1) \div SliceOf(m)))

\* One round for the devices: tick, script, poll.
Step(m) ==
  LET ticked == ScriptTick(BusTick(m))
      polls  == ticked.device_ticks % PollEvery = 0
  IN  [ticked EXCEPT !.scheduled = @ + SliceOf(m), !.remaining = @ - SliceOf(m),
                     !.polled = IF polls THEN ticked.device_ticks ELSE @]

\* n1g_bus_advance and the rest of that branch.
Skip(m, ticks) ==
  LET scheduled == ticks * SliceOf(m)
  IN  AdvanceWait(
        TickAlarm([m EXCEPT
          !.device_ticks = @ + ticks, !.usec = @ + ticks * options.usec,
          !.scheduled = @ + scheduled,
          !.remaining = @ - Smaller(scheduled, @)]), ticks)

-----------------------------------------------------------------------------
IdleInit ==
  /\ options \in Options
  /\ events \in {ScriptEvents(s) : s \in {s \in Scripts : Loads(s)}} \cup {<<>>}
  /\ machine = Machine
  /\ first = [i \in Timers |-> 0]

\* Cores that are not halted run their slice before the tick: the guest's
\* accesses below, as many as it likes.
Iterate ==
  /\ machine.remaining > 0
  /\ machine' = IF AdvanceTicks(machine) > 1 THEN Skip(machine, AdvanceTicks(machine))
                ELSE Step(machine)
  /\ UNCHANGED <<options, events, first>>

Steps(m) == m.usec \div options.divider

Guest(m) == ~machine.halted /\ machine' = m /\ UNCHANGED <<options, events>>

Halt == Guest([machine EXCEPT !.halted = TRUE]) /\ UNCHANGED first

\* An interrupt that is not masked wakes the core; which are masked, and in
\* which tick it is delivered, is left open.  In full in Cores.
Interrupt ==
  /\ machine.halted /\ machine.irq # {}
  /\ machine' = [machine EXCEPT !.halted = FALSE]
  /\ UNCHANGED <<options, events, first>>

SetTimer(i, t) ==
  /\ Guest([machine EXCEPT !.timer[i] = t])
  /\ first' = [first EXCEPT ![i] = Steps(machine) + t.val]

\* A timer is loaded when it is enabled, not when its configuration changes.
WriteTimer(i, enabled, repeat, counter) ==
  LET t == machine.timer[i]
  IN  SetTimer(i, [enabled |-> enabled, repeat |-> repeat, counter |-> counter,
                   val |-> IF enabled /\ ~t.enabled THEN counter ELSE t.val])

WriteValue(i, val) == SetTimer(i, [machine.timer[i] EXCEPT !.val = val])

ReadValue(i) ==
  /\ i \in machine.irq
  /\ Guest([machine EXCEPT !.irq = @ \ {i}]) /\ UNCHANGED first

\* Every write to the port recomputes its interrupt, and so does the read of
\* the identification register that takes it.
SetUart(u) ==
  /\ Guest([machine EXCEPT !.uart = u, !.irq = Bits(@, "serial", u.enabled /\ u.pending)])
  /\ UNCHANGED first

WriteLcr(dlab) == SetUart([machine.uart EXCEPT !.dlab = dlab])

WriteIer(on) ==
  LET u == machine.uart
  IN  SetUart(IF u.dlab THEN u
              ELSE [u EXCEPT !.enabled = on, !.pending = @ \/ (on /\ ~u.enabled)])

WriteByte ==
  LET u == machine.uart IN SetUart(IF u.dlab THEN u ELSE [u EXCEPT !.pending = u.enabled])

WriteFcr(reset) ==
  LET u == machine.uart IN SetUart([u EXCEPT !.pending = @ \/ (reset /\ u.enabled)])

ReadIir ==
  LET u == machine.uart IN SetUart([u EXCEPT !.pending = @ /\ ~u.enabled])

StartAlarm(d) ==
  /\ Guest([machine EXCEPT !.alarm = machine.device_ticks + d]) /\ UNCHANGED first
StartJob(d) ==
  /\ machine.job = 0
  /\ Guest([machine EXCEPT !.job = d]) /\ UNCHANGED first
Acknowledge ==
  /\ Guest([machine EXCEPT !.irq = @ \ {"alarm", "job", "input"}]) /\ UNCHANGED first

IdleGuest ==
  \/ Halt \/ WriteByte \/ ReadIir \/ Acknowledge
  \/ \E i \in Timers, c \in Counters :
       \/ \E enabled, repeat \in BOOLEAN : WriteTimer(i, enabled, repeat, c)
       \/ WriteValue(i, c)
  \/ \E i \in Timers : ReadValue(i)
  \/ \E on \in BOOLEAN : WriteLcr(on) \/ WriteIer(on) \/ WriteFcr(on)
  \/ \E d \in Durations : StartAlarm(d) \/ StartJob(d)

IdleNext == Iterate \/ Interrupt \/ IdleGuest

IdleSpec == IdleInit /\ [][IdleNext]_idleVars
-----------------------------------------------------------------------------
(***************************************************************************)
(* Properties.                                                             *)
(***************************************************************************)

\* A skip is nothing but so many ticks: it leaves what they would have left,
\* and none but the last of them would have raised an interrupt.
SameAsTicks ==
  LET ticks == machine'.device_ticks - machine.device_ticks
      after[n \in 0..MaxSkip] == IF n = 0 THEN machine ELSE Step(after[n - 1])
  IN  ticks > 0 => /\ machine' = after[ticks]
                   /\ \A n \in 1..ticks - 1 : after[n].irq = {}
SkipEqualsTicks == [][SameAsTicks]_idleVars

\* A timer expires at its first expiry, and if it repeats at every period after
\* it, however many steps a tick of the devices takes; an interrupt shows in the
\* tick that reaches one, and the value is what is left until the next.
IsDue(i, at) ==
  \/ at = first[i]
  \/ /\ machine.timer[i].repeat /\ at > first[i]
     /\ (at - first[i]) % machine.timer[i].counter = 0
NextDue(i, from, to) == IsDue(i, to) /\ \A at \in from + 1 .. to - 1 : ~IsDue(i, at)

OnTime(i, next) ==
  LET due == \E at \in Steps(machine) + 1 .. Steps(next) : IsDue(i, at)
      now == next.timer[i]
  IN  IF Counts(machine.timer[i])
      THEN /\ (i \in next.irq) <=> (due \/ i \in machine.irq)
           /\ Counts(now) <=> (~due \/ now.repeat)
           /\ Counts(now) => NextDue(i, Steps(next), Steps(next) + now.val)
      ELSE now = machine.timer[i] /\ ((i \in next.irq) <=> (i \in machine.irq))
TimersAsDue ==
  machine'.device_ticks > machine.device_ticks => \A i \in Timers : OnTime(i, machine')
TimersOnTime == [][TimersAsDue]_idleVars

\* Skips or not, every event of the script comes at its tick, and the server is
\* polled every so many ticks.
WaitBefore(k) ==
  LET sum[j \in 0..Len(events)] == IF j = 0 THEN 0 ELSE sum[j - 1] + events[j].ticks
  IN  sum[k - 1]
WorldOnTime ==
  /\ \A k \in DOMAIN events :
       events[k] = Act => (k <= machine.cursor <=> machine.device_ticks > WaitBefore(k))
  /\ machine.device_ticks - machine.polled < PollEvery
  /\ machine.polled % PollEvery = 0
================================================================================
