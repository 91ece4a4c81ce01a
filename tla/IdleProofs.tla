------------------------------- MODULE IdleProofs -------------------------------
(***************************************************************************)
(* The proofs that a skip of idle time is nothing but so many ticks, and   *)
(* that skips or not the script, the polls and the timers are on time, for *)
(* any script, options and longest skip.  Where idle time is skipped the   *)
(* timer clock must not be divided (for the skips and the timers), and the *)
(* budget must be a whole number of slices (for the skips).                *)
(*                                                                         *)
(* While the loop may skip, a tick only counts: the state after n ticks    *)
(* is known in closed form (Glide), which the skip reaches at once.        *)
(***************************************************************************)
EXTENDS Idle, SequenceTheorems, WellFoundedInduction, TLAPS

-----------------------------------------------------------------------------
(***************************************************************************)
(* Numbers and induction.                                                  *)
(***************************************************************************)

\* Quotient and remainder.
LEMMA DivMod ==
  ASSUME NEW n \in Nat, NEW d \in Nat, d > 0
  PROVE  /\ n \div d \in Nat /\ n % d \in 0 .. d - 1
         /\ n = d * (n \div d) + (n % d)
  BY SMT

\* A product does not decrease with its factor.
LEMMA MulMono ==
  ASSUME NEW d \in Nat, NEW j \in Nat, NEW k \in Nat, j <= k
  PROVE  d * j <= d * k
  BY SMT

\* The quotient is known from a remainder that is small enough.
LEMMA QuotientIs ==
  ASSUME NEW n \in Nat, NEW d \in Nat, d > 0, NEW q \in Nat, NEW r \in 0 .. d - 1,
         n = d * q + r
  PROVE  n \div d = q /\ n % d = r
<1> DEFINE p == n \div d
           s == n % d
<1>1. p \in Nat /\ s \in 0 .. d - 1 /\ n = d * p + s  BY DivMod
<1> HIDE DEF p, s
<1>2. d * p \in Nat /\ d * q \in Nat  BY <1>1
<1>3. ~(p < q)
  <2> SUFFICES ASSUME p < q PROVE FALSE  OBVIOUS
  <2>1. d * (p + 1) <= d * q  BY <1>1, MulMono
  <2>2. d * (p + 1) = d * p + d  BY <1>1
  <2> QED  BY <1>1, <1>2, <2>1, <2>2
<1>4. ~(q < p)
  <2> SUFFICES ASSUME q < p PROVE FALSE  OBVIOUS
  <2>1. d * (q + 1) <= d * p  BY <1>1, MulMono
  <2>2. d * (q + 1) = d * q + d  OBVIOUS
  <2> QED  BY <1>1, <1>2, <2>1, <2>2
<1>5. p = q  BY <1>1, <1>3, <1>4
<1> QED  BY <1>1, <1>2, <1>5 DEF p, s

\* A set of numbers has a least one.
LEMMA LeastNat ==
  ASSUME NEW T \in SUBSET Nat, T # {}
  PROVE  \E n \in T : \A m \in T : n <= m
<1> DEFINE R == {ss \in Nat \X Nat : ss[1] < ss[2]}
<1>1. IsWellFoundedOn(R, Nat)  BY NatLessThanWellFounded DEF OpToRel
<1>2. \A m, n \in Nat : m < n => <<m, n>> \in R  OBVIOUS
<1> HIDE DEF R
<1>3. PICK n \in T : \A m \in T : ~(<<m, n>> \in R)  BY <1>1, WFMin
<1>4. ASSUME NEW m \in T PROVE n <= m
  <2>1. m \in Nat /\ n \in Nat  OBVIOUS
  <2>2. ~(m < n)  BY <1>2, <1>3, <2>1
  <2> QED  BY <2>1, <2>2
<1> QED  BY <1>3, <1>4

\* Induction up to a number.
LEMMA UpTo ==
  ASSUME NEW n \in Nat, NEW P, 0 \in P, \A i \in 1 .. n : i - 1 \in P => i \in P
  PROVE  \A i \in 0 .. n : i \in P
<1> DEFINE T == {i \in 0 .. n : i \notin P}
<1>1. T \in SUBSET Nat  OBVIOUS
<1>2. ASSUME NEW i \in T, \A m \in T : i <= m PROVE FALSE
  <2>1. i \in 0 .. n /\ i \notin P /\ i # 0  OBVIOUS
  <2>2. i - 1 \in 0 .. n /\ i - 1 \in P  BY <1>2, <2>1
  <2> QED  BY <2>1, <2>2
<1>3. T = {}
  <2> HIDE DEF T
  <2> QED  BY <1>1, <1>2, LeastNat
<1> QED  BY <1>3


-----------------------------------------------------------------------------
(***************************************************************************)
(* The events of a script.                                                 *)
(***************************************************************************)
Events == [kind : {"wait", "act"}, ticks : Nat]

\* The sequences of q can be joined one by one.
Joins(q, m) == \E g : g = [i \in 1 .. m |-> IF i = 1 THEN q[i] ELSE g[i - 1] \o q[i]]

LEMMA JoinExists ==
  ASSUME NEW q, NEW n \in Nat PROVE Joins(q, n)
<1> DEFINE P == {m \in 0 .. n : Joins(q, m)}
<1>1. 0 \in P
  <2> DEFINE g == [i \in 1 .. 0 |-> q[i]]
  <2>1. g = [i \in 1 .. 0 |-> IF i = 1 THEN q[i] ELSE g[i - 1] \o q[i]]  OBVIOUS
  <2> HIDE DEF g
  <2>2. Joins(q, 0)  BY <2>1 DEF Joins
  <2>3. 0 \in 0 .. n  OBVIOUS
  <2> QED  BY <2>2, <2>3
<1>2. ASSUME NEW m \in 1 .. n, m - 1 \in P PROVE m \in P
  <2>1. PICK g : g = [i \in 1 .. m - 1 |-> IF i = 1 THEN q[i] ELSE g[i - 1] \o q[i]]
    BY <1>2 DEF Joins
  <2> DEFINE last == IF m = 1 THEN q[m] ELSE g[m - 1] \o q[m]
             h == [i \in 1 .. m |-> IF i = m THEN last ELSE g[i]]
  <2>2. ASSUME NEW i \in 1 .. m
        PROVE  h[i] = IF i = 1 THEN q[i] ELSE h[i - 1] \o q[i]
    <3> HIDE DEF last
    <3>1. CASE i = m
      <4>1. h[i] = last  BY <3>1
      <4>2. i # 1 => h[i - 1] = g[i - 1]
        <5>1. i # 1 => i - 1 \in 1 .. m /\ i - 1 # m  BY <3>1
        <5> QED  BY <5>1
      <4> QED  BY <3>1, <4>1, <4>2 DEF last
    <3>2. CASE i # m
      <4>1. i \in 1 .. m - 1 /\ h[i] = g[i]  BY <3>2
      <4>2. i # 1 => h[i - 1] = g[i - 1]
        <5>1. i # 1 => i - 1 \in 1 .. m /\ i - 1 # m  BY <3>2
        <5> QED  BY <5>1
      <4>3. g[i] = IF i = 1 THEN q[i] ELSE g[i - 1] \o q[i]  BY <2>1, <4>1
      <4> QED  BY <4>1, <4>2, <4>3
    <3> QED  BY <3>1, <3>2
  <2>3. h = [i \in 1 .. m |-> h[i]]  OBVIOUS
  <2> HIDE DEF h
  <2>4. h = [i \in 1 .. m |-> IF i = 1 THEN q[i] ELSE h[i - 1] \o q[i]]  BY <2>2, <2>3
  <2>5. Joins(q, m)  BY <2>4 DEF Joins
  <2> QED  BY <2>5
<1> HIDE DEF P
<1>3. n \in P  BY <1>1, <1>2, UpTo
<1> QED  BY <1>3 DEF P

\* Sequences joined are a sequence of the same elements.
LEMMA FlattenType ==
  ASSUME NEW E, NEW q \in Seq(Seq(E)) PROVE FlattenSeq(q) \in Seq(E)
<1> DEFINE n == Len(q)
           f == CHOOSE g : g = [i \in 1 .. n |-> IF i = 1 THEN q[i] ELSE g[i - 1] \o q[i]]
<1>1. n \in Nat /\ \A i \in 1 .. n : q[i] \in Seq(E)  OBVIOUS
<1>2. CASE n = 0
  <2>1. FlattenSeq(q) = q /\ q = <<>>  BY <1>2, EmptySeq DEF FlattenSeq
  <2>2. <<>> \in Seq(E)  OBVIOUS
  <2> QED  BY <2>1, <2>2
<1>3. CASE n # 0
  <2>1. FlattenSeq(q) = f[n]  BY <1>3 DEF FlattenSeq
  <2> HIDE DEF n
  <2>2. f = [i \in 1 .. n |-> IF i = 1 THEN q[i] ELSE f[i - 1] \o q[i]]
    <3>1. Joins(q, n)  BY <1>1, JoinExists
    <3> QED  BY <3>1 DEF Joins
  <2> HIDE DEF f
  <2> DEFINE P == {i \in 0 .. n : i # 0 => f[i] \in Seq(E)}
  <2>3. 0 \in P  BY <1>1
  <2>4. ASSUME NEW i \in 1 .. n, i - 1 \in P PROVE i \in P
    <3>1. i = 1 => f[i] = q[i]  BY <2>2
    <3>2. i # 1 => f[i] = f[i - 1] \o q[i] /\ f[i - 1] \in Seq(E)
      <4>1. f[i] = IF i = 1 THEN q[i] ELSE f[i - 1] \o q[i]  BY <2>2
      <4>2. i - 1 # 0 => f[i - 1] \in Seq(E)  BY <2>4
      <4>3. i # 1 => i - 1 # 0  BY <1>1
      <4> QED  BY <4>1, <4>2, <4>3
    <3>3. q[i] \in Seq(E) /\ i \in 0 .. n  BY <1>1
    <3>4. f[i - 1] \in Seq(E) => f[i - 1] \o q[i] \in Seq(E)  BY <3>3, ConcatProperties
    <3>5. f[i] \in Seq(E)
      <4>1. CASE i = 1  BY <3>1, <3>3, <4>1
      <4>2. CASE i # 1  BY <3>2, <3>4, <4>2
      <4> QED  BY <4>1, <4>2
    <3> QED  BY <3>3, <3>5
  <2> HIDE DEF P
  <2>5. \A i \in 0 .. n : i \in P  BY <1>1, <2>3, <2>4, UpTo
  <2>6. n \in 0 .. n  BY <1>1
  <2> QED  BY <1>3, <2>1, <2>5, <2>6 DEF P
<1> QED  BY <1>2, <1>3

\* A script's events are waits and acts.
LEMMA ScriptEventsType ==
  ASSUME NEW s \in Scripts PROVE ScriptEvents(s) \in Seq(Events)
<1> DEFINE T == [kind : {"wait"}, ticks : Nat] \cup [kind : {"event", "tap"}]
           q == [k \in DOMAIN s |-> TokenEvents(s[k])]
<1>1. s \in Seq(T)  BY IdleAssumption
<1>2. ASSUME NEW t \in T PROVE TokenEvents(t) \in Seq(Events)
  <2>1. TapTicks \in Nat  BY IdleAssumption
  <2>2. Act \in Events /\ Wait(TapTicks) \in Events  BY <2>1 DEF Act, Wait, Events
  <2>3. <<Act>> \in Seq(Events) /\ <<Act, Wait(TapTicks), Act>> \in Seq(Events)  BY <2>2
  <2>4. CASE t \in [kind : {"wait"}, ticks : Nat]
    <3>1. Wait(t.ticks) \in Events /\ t.kind = "wait"  BY <2>4 DEF Wait, Events
    <3>2. TokenEvents(t) = <<Wait(t.ticks)>>  BY <3>1 DEF TokenEvents
    <3>3. <<Wait(t.ticks)>> \in Seq(Events)  BY <3>1
    <3> QED  BY <3>2, <3>3
  <2>5. CASE t \in [kind : {"event", "tap"}]
    <3>1. t.kind = "event" \/ t.kind = "tap"  BY <2>5
    <3>2. TokenEvents(t) \in {<<Act>>, <<Act, Wait(TapTicks), Act>>}
      BY <3>1 DEF TokenEvents
    <3> QED  BY <2>3, <3>2
  <2> QED  BY <2>4, <2>5
<1> HIDE DEF T
<1>3. \A k \in DOMAIN s : q[k] \in Seq(Events)
  <2>1. \A k \in DOMAIN s : s[k] \in T  BY <1>1
  <2> QED  BY <1>2, <2>1
<1>4. q \in Seq(Seq(Events))
  <2>1. Len(s) \in Nat /\ DOMAIN s = 1 .. Len(s)  BY <1>1
  <2>2. q \in [1 .. Len(s) -> Seq(Events)]  BY <1>3, <2>1
  <2> HIDE DEF q
  <2> QED  BY <2>1, <2>2
<1> QED  BY <1>4, FlattenType DEF ScriptEvents

-----------------------------------------------------------------------------
(***************************************************************************)
(* The machine, and what holds of it.                                      *)
(***************************************************************************)
IrqBits == Timers \cup {"alarm", "job", "serial", "input"}

TimerRecords == [enabled : BOOLEAN, repeat : BOOLEAN, counter : Nat, val : Nat]

Machines ==
  [device_ticks : Nat, usec : Nat, phase : Nat, timer : [Timers -> TimerRecords],
   uart : [enabled : BOOLEAN, pending : BOOLEAN, dlab : BOOLEAN],
   alarm : Nat, job : Nat, irq : SUBSET IrqBits, halted : BOOLEAN,
   cursor : Nat, wait_left : Nat, polled : Nat, remaining : Nat, scheduled : Nat]

\* The remainder is less than the divider, and the script stays within its events.
Steady(m) ==
  /\ m \in Machines
  /\ m.phase < options.divider
  /\ m.cursor <= Len(events)

\* The budget left is whole slices.
Whole(m) == \E q \in Nat : m.remaining = Slice * q

IInv == options \in Options /\ events \in Seq(Events) /\ Steady(machine)

\* Idle time is skipped only where the timer clock is not divided.
SkipsUndivided == \A o \in Options : o.skips => o.divider = 1

\* The last slice is not cut off.
WholeSlices == \E q \in Nat : Budget = Slice * q

\* The constants are numbers.
LEMMA Sizes ==
  /\ MaxSkip \in Nat /\ MaxSkip > 0 /\ Slice \in Nat /\ Slice > 0
  /\ PollEvery \in Nat /\ PollEvery > 0 /\ Budget \in Nat
  /\ Counters \subseteq Nat /\ Durations \subseteq Nat \ {0}
  /\ \A o \in Options :
       /\ o.usec \in Nat /\ o.divider \in Nat /\ o.divider > 0 /\ o.skips \in BOOLEAN
<1>1. {TapTicks, MaxEvents, Slice, PollEvery, MaxSkip} \subseteq Nat \ {0}
  BY IdleAssumption
<1>2. /\ Slice \in Nat \ {0} /\ PollEvery \in Nat \ {0} /\ MaxSkip \in Nat \ {0}
  BY <1>1
<1>3. \A o \in Options : o \in [usec : Nat \ {0}, divider : Nat \ {0}, skips : BOOLEAN]
  BY IdleAssumption
<1>4. \A o \in Options :
        /\ o.usec \in Nat /\ o.divider \in Nat /\ o.divider > 0 /\ o.skips \in BOOLEAN
  BY <1>3
<1>5. Budget \in Nat /\ Counters \subseteq Nat /\ Durations \subseteq Nat \ {0}
  BY IdleAssumption
<1> QED  BY <1>2, <1>4, <1>5

\* What the devices leave to the loop.
LoopSame(a, b) ==
  /\ b.cursor = a.cursor /\ b.wait_left = a.wait_left /\ b.polled = a.polled
  /\ b.remaining = a.remaining /\ b.scheduled = a.scheduled

\* A timer that counts goes on counting or stops.
LEMMA AdvanceType ==
  ASSUME NEW t \in TimerRecords, Counts(t), NEW steps \in Nat
  PROVE  Advance(t, steps) \in TimerRecords
<1>1. t.val \in Nat /\ t.counter \in Nat /\ t.counter > 0  BY DEF TimerRecords, Counts
<1>2. CASE steps < t.val
  <2> DEFINE val == t.val - steps
  <2>1. val \in Nat  BY <1>1, <1>2
  <2>2. Advance(t, steps) = [t EXCEPT !.val = val]  BY <1>2 DEF Advance
  <2> HIDE DEF val
  <2> QED  BY <2>1, <2>2 DEF TimerRecords
<1>3. CASE ~(steps < t.val) /\ t.repeat
  <2> DEFINE late == steps - t.val
             val == t.counter - (late % t.counter)
  <2>1. late \in Nat  BY <1>1, <1>3
  <2>2. val \in Nat
    <3> HIDE DEF late
    <3>1. late % t.counter \in 0 .. t.counter - 1  BY <1>1, <2>1, DivMod
    <3> QED  BY <1>1, <3>1
  <2>3. Advance(t, steps) = [t EXCEPT !.val = val]  BY <1>3 DEF Advance
  <2> HIDE DEF val
  <2> QED  BY <2>2, <2>3 DEF TimerRecords
<1>4. CASE ~(steps < t.val) /\ ~t.repeat
  <2>1. Advance(t, steps) = [t EXCEPT !.val = 0, !.enabled = FALSE]  BY <1>4 DEF Advance
  <2>2. 0 \in Nat /\ FALSE \in BOOLEAN  OBVIOUS
  <2>3. [t EXCEPT !.val = 0, !.enabled = FALSE] \in TimerRecords
    BY <1>1, <2>2, Zenon DEF TimerRecords
  <2> QED  BY <2>1, <2>3
<1> QED  BY <1>2, <1>3, <1>4

\* A tick of the timers.
LEMMA TickTimersKeeps ==
  ASSUME NEW m \in Machines, options \in Options
  PROVE  LET b == TickTimers(m)
         IN  /\ b \in Machines /\ b.phase < options.divider
             /\ LoopSame(m, b) /\ b.device_ticks = m.device_ticks
<1> DEFINE elapsed == m.phase + options.usec
           steps   == elapsed \div options.divider
           usec    == m.usec + options.usec
           phase   == elapsed % options.divider
           timer   == [i \in Timers |-> IF steps > 0 /\ Counts(m.timer[i])
                                        THEN Advance(m.timer[i], steps) ELSE m.timer[i]]
           irq     == m.irq \cup {i \in Timers : /\ steps > 0 /\ Counts(m.timer[i])
                                                 /\ steps >= m.timer[i].val}
           b == [m EXCEPT !.usec = usec, !.phase = phase, !.timer = timer, !.irq = irq]
<1>1. TickTimers(m) = b  BY DEF TickTimers, Machines
<1>2. /\ m.phase \in Nat /\ m.usec \in Nat /\ m.timer \in [Timers -> TimerRecords]
      /\ m.irq \in SUBSET IrqBits
  BY DEF Machines
<1>3. options.usec \in Nat /\ options.divider \in Nat /\ options.divider > 0  BY Sizes
<1>4. elapsed \in Nat /\ usec \in Nat  BY <1>2, <1>3
<1>5. steps \in Nat /\ phase \in 0 .. options.divider - 1
  <2> HIDE DEF elapsed
  <2> QED  BY <1>3, <1>4, DivMod
<1> HIDE DEF steps, phase, usec
<1>6. timer \in [Timers -> TimerRecords]  BY <1>2, <1>5, AdvanceType
<1>7. irq \in SUBSET IrqBits  BY <1>2 DEF IrqBits
<1> HIDE DEF timer, irq
<1>8. phase \in Nat /\ phase < options.divider  BY <1>3, <1>5
<1>9. /\ b \in Machines /\ b.phase = phase /\ LoopSame(m, b)
      /\ b.device_ticks = m.device_ticks
  BY <1>4, <1>6, <1>7, <1>8 DEF Machines, LoopSame
<1> HIDE DEF b
<1> QED  BY <1>1, <1>8, <1>9

\* The other devices of a tick.
LEMMA TickRestKeeps ==
  ASSUME NEW m \in Machines, NEW b \in {TickJob(m), TickAlarm(m), TickSerial(m)}
  PROVE  /\ b \in Machines /\ LoopSame(m, b)
         /\ b.device_ticks = m.device_ticks /\ b.phase = m.phase
<1>1. m.job \in Nat /\ m.irq \in SUBSET IrqBits  BY DEF Machines
<1>2. \A bit \in IrqBits : \A on : Bits(m.irq, bit, on) \in SUBSET IrqBits  BY <1>1 DEF Bits
<1>3. "alarm" \in IrqBits /\ "job" \in IrqBits /\ "serial" \in IrqBits  BY DEF IrqBits
<1>4. CASE b = TickJob(m)
  <2>1. CASE m.job = 0  BY <1>4, <2>1 DEF TickJob, LoopSame
  <2>2. CASE m.job # 0
    <3> DEFINE job == m.job - 1
               irq == Bits(m.irq, "job", m.job = 1 \/ "job" \in m.irq)
    <3>1. job \in Nat /\ irq \in SUBSET IrqBits  BY <1>1, <1>2, <1>3, <2>2
    <3>2. b = [m EXCEPT !.job = job, !.irq = irq]  BY <1>4, <2>2 DEF TickJob, Machines
    <3> HIDE DEF job, irq
    <3> QED  BY <3>1, <3>2 DEF Machines, LoopSame
  <2> QED  BY <2>1, <2>2
<1>5. CASE b = TickAlarm(m)
  <2>1. CASE ~(m.alarm # 0 /\ m.device_ticks >= m.alarm)
    BY <1>5, <2>1 DEF TickAlarm, LoopSame
  <2>2. CASE m.alarm # 0 /\ m.device_ticks >= m.alarm
    <3> DEFINE irq == m.irq \cup {"alarm"}
    <3>1. irq \in SUBSET IrqBits  BY <1>1, <1>3
    <3>2. b = [m EXCEPT !.alarm = 0, !.irq = irq]  BY <1>5, <2>2 DEF TickAlarm
    <3> HIDE DEF irq
    <3> QED  BY <3>1, <3>2 DEF Machines, LoopSame
  <2> QED  BY <2>1, <2>2
<1>6. CASE b = TickSerial(m)
  <2> DEFINE irq == Bits(m.irq, "serial", m.uart.enabled /\ m.uart.pending)
  <2>1. irq \in SUBSET IrqBits  BY <1>2, <1>3
  <2>2. b = [m EXCEPT !.irq = irq]  BY <1>6 DEF TickSerial
  <2> HIDE DEF irq
  <2> QED  BY <2>1, <2>2 DEF Machines, LoopSame
<1> QED  BY <1>4, <1>5, <1>6

\* A tick of the devices.
LEMMA BusTickKeeps ==
  ASSUME NEW m \in Machines, options \in Options
  PROVE  LET b == BusTick(m)
         IN  /\ b \in Machines /\ b.phase < options.divider
             /\ LoopSame(m, b) /\ b.device_ticks = m.device_ticks + 1
<1> DEFINE n  == m.device_ticks + 1
           m1 == [m EXCEPT !.device_ticks = n]
           m2 == TickJob(m1)
           m3 == TickTimers(m2)
           m4 == TickAlarm(m3)
           m5 == TickSerial(m4)
<1>1. BusTick(m) = m5  BY DEF BusTick
<1>2. n \in Nat  BY DEF Machines
<1> HIDE DEF n
<1>3. m1 \in Machines /\ LoopSame(m, m1) /\ m1.device_ticks = n
  BY <1>2 DEF Machines, LoopSame
<1> HIDE DEF m1
<1>4. m2 \in Machines /\ LoopSame(m1, m2) /\ m2.device_ticks = m1.device_ticks
  BY <1>3, TickRestKeeps
<1> HIDE DEF m2
<1>5. /\ m3 \in Machines /\ LoopSame(m2, m3) /\ m3.device_ticks = m2.device_ticks
      /\ m3.phase < options.divider
  BY <1>4, TickTimersKeeps
<1> HIDE DEF m3
<1>6. /\ m4 \in Machines /\ LoopSame(m3, m4) /\ m4.device_ticks = m3.device_ticks
      /\ m4.phase = m3.phase
  BY <1>5, TickRestKeeps
<1> HIDE DEF m4
<1>7. /\ m5 \in Machines /\ LoopSame(m4, m5) /\ m5.device_ticks = m4.device_ticks
      /\ m5.phase = m4.phase
  BY <1>6, TickRestKeeps
<1> HIDE DEF m5
<1>8. LoopSame(m, m5)  BY <1>3, <1>4, <1>5, <1>6, <1>7 DEF LoopSame
<1> QED  BY <1>1, <1>3, <1>4, <1>5, <1>6, <1>7, <1>8 DEF n

\* The script waits on, or goes to its next wait, or to its end.
Moved(m, b) ==
  \/ m.wait_left > 0 /\ b.cursor = m.cursor /\ b.wait_left = m.wait_left - 1
  \/ /\ m.wait_left = 0 /\ b.cursor = Len(events) /\ b.wait_left = 0
     /\ \A k \in m.cursor + 1 .. Len(events) : events[k].ticks = 0
  \/ /\ m.wait_left = 0 /\ b.cursor \in m.cursor + 1 .. Len(events)
     /\ events[b.cursor].ticks > 0 /\ b.wait_left = events[b.cursor].ticks - 1
     /\ \A k \in m.cursor + 1 .. b.cursor - 1 : events[k].ticks = 0

\* The script moves on within its events.
LEMMA ScriptTickKeeps ==
  ASSUME NEW m \in Machines, events \in Seq(Events), m.cursor <= Len(events)
  PROVE  LET b == ScriptTick(m)
         IN  /\ b \in Machines /\ b.cursor <= Len(events) /\ b.phase = m.phase
             /\ b.device_ticks = m.device_ticks /\ b.polled = m.polled
             /\ b.remaining = m.remaining /\ b.scheduled = m.scheduled
             /\ Moved(m, b)
<1>1. /\ m.cursor \in Nat /\ m.wait_left \in Nat /\ Len(events) \in Nat
      /\ m.irq \in SUBSET IrqBits
  BY DEF Machines
<1>2. CASE m.wait_left > 0
  <2> DEFINE left == m.wait_left - 1
  <2>1. left \in Nat  BY <1>1, <1>2
  <2>2. ScriptTick(m) = [m EXCEPT !.wait_left = left]  BY <1>2 DEF ScriptTick
  <2>3. Moved(m, ScriptTick(m))  BY <1>2, <2>2 DEF Moved, Machines
  <2> HIDE DEF left
  <2> QED  BY <2>1, <2>2, <2>3 DEF Machines
<1>3. CASE ~(m.wait_left > 0)
  <2> DEFINE waits == {k \in m.cursor + 1 .. Len(events) : events[k].ticks > 0}
             first_wait == CHOOSE k \in waits : \A j \in waits : k <= j
             stop == IF waits = {} THEN Len(events) ELSE first_wait
             acts == \E k \in m.cursor + 1 .. stop : events[k] = Act
             left == IF waits = {} THEN 0 ELSE events[stop].ticks - 1
             irq  == IF acts THEN m.irq \cup {"input"} ELSE m.irq
  <2>1. ScriptTick(m) = [m EXCEPT !.cursor = stop, !.wait_left = left, !.irq = irq]
    BY <1>3 DEF ScriptTick, Machines
  <2>2. waits # {} => first_wait \in waits /\ \A j \in waits : first_wait <= j
    <3>1. waits \in SUBSET Nat  BY <1>1
    <3> HIDE DEF waits
    <3>2. waits # {} => \E k \in waits : \A j \in waits : k <= j  BY <3>1, LeastNat
    <3> QED  BY <3>2
  <2>3. \A k \in 1 .. Len(events) : events[k].ticks \in Nat
    <3>1. \A k \in 1 .. Len(events) : events[k] \in Events  OBVIOUS
    <3> QED  BY <3>1 DEF Events
  <2> HIDE DEF first_wait
  <2>4. stop \in Nat /\ stop <= Len(events) /\ left \in Nat
    <3>1. CASE waits = {}  BY <1>1, <3>1
    <3>2. CASE waits # {}
      <4>1. first_wait \in m.cursor + 1 .. Len(events) /\ events[first_wait].ticks > 0
        BY <2>2, <3>2
      <4>2. first_wait \in 1 .. Len(events)  BY <1>1, <4>1
      <4>3. events[first_wait].ticks \in Nat  BY <2>3, <4>2
      <4>4. stop = first_wait /\ left = events[first_wait].ticks - 1  BY <3>2
      <4> HIDE DEF stop, left
      <4> QED  BY <1>1, <4>1, <4>2, <4>3, <4>4
    <3> QED  BY <3>1, <3>2
  <2>5. irq \in SUBSET IrqBits  BY <1>1 DEF IrqBits
  <2> HIDE DEF irq
  <2>6. /\ ScriptTick(m).cursor = stop /\ ScriptTick(m).wait_left = left
    <3> HIDE DEF stop, left
    <3> QED  BY <2>1 DEF Machines
  <2>7. Moved(m, ScriptTick(m))
    <3>1. m.wait_left = 0  BY <1>1, <1>3
    <3>2. CASE waits = {}
      <4>1. stop = Len(events) /\ left = 0  BY <3>2
      <4>2. \A k \in m.cursor + 1 .. Len(events) : events[k].ticks = 0
        <5>1. ASSUME NEW k \in m.cursor + 1 .. Len(events) PROVE events[k].ticks = 0
          <6>1. k \in 1 .. Len(events)  BY <1>1
          <6>2. events[k].ticks \in Nat /\ ~(events[k].ticks > 0)  BY <2>3, <3>2, <6>1
          <6> QED  BY <6>2
        <5> QED  BY <5>1
      <4> QED  BY <2>6, <3>1, <4>1, <4>2 DEF Moved
    <3>3. CASE waits # {}
      <4>1. stop = first_wait /\ left = events[stop].ticks - 1  BY <3>3
      <4>2. stop \in m.cursor + 1 .. Len(events) /\ events[stop].ticks > 0
        BY <2>2, <3>3, <4>1
      <4>3. ASSUME NEW k \in m.cursor + 1 .. stop - 1 PROVE events[k].ticks = 0
        <5>1. k \in m.cursor + 1 .. Len(events) /\ k \in 1 .. Len(events) /\ ~(stop <= k)
          <6> HIDE DEF stop, left, waits
          <6>1. m.cursor \in Nat /\ Len(events) \in Nat  BY <1>1
          <6>2. stop \in Nat /\ stop <= Len(events)  BY <4>2, <6>1
          <6>3. k \in Nat /\ k >= m.cursor + 1 /\ k <= stop - 1  BY <6>1, <6>2
          <6> QED  BY <6>1, <6>2, <6>3
        <5>2. k \notin waits  BY <2>2, <3>3, <4>1, <5>1
        <5>3. ~(events[k].ticks > 0) /\ events[k].ticks \in Nat  BY <2>3, <5>1, <5>2
        <5> QED  BY <5>3
      <4> HIDE DEF stop, left
      <4> QED  BY <2>6, <3>1, <4>1, <4>2, <4>3 DEF Moved
    <3> QED  BY <3>2, <3>3
  <2> HIDE DEF stop, left
  <2> QED  BY <2>1, <2>4, <2>5, <2>7 DEF Machines
<1> QED  BY <1>2, <1>3

-----------------------------------------------------------------------------
(***************************************************************************)
(* While the loop may skip, a tick only counts.                            *)
(***************************************************************************)

\* The next k ticks have nothing to do before the last of them.
Ready(m, k) ==
  /\ m \in Machines
  /\ m.irq = {} /\ m.job = 0 /\ ~m.uart.pending
  /\ \A i \in Timers : ~m.timer[i].enabled
  /\ options.divider = 1 /\ m.phase = 0
  /\ m.alarm = 0 \/ m.alarm >= m.device_ticks + k
  /\ m.cursor <= Len(events)
  /\ k # 0 => IF m.wait_left = 0 THEN m.cursor = Len(events) ELSE k <= m.wait_left
  /\ \A j \in 1 .. k : (m.device_ticks + j) % PollEvery # 0
  /\ \E q \in Nat : m.remaining = Slice * q /\ k <= q

\* The machine n ticks later.
Glide(m, n) ==
  [m EXCEPT !.device_ticks = @ + n, !.usec = @ + n * options.usec,
            !.wait_left = IF @ = 0 THEN 0 ELSE @ - n,
            !.scheduled = @ + n * Slice, !.remaining = @ - n * Slice]

\* What n ticks leave is fit for the next.
LEMMA GlideReady ==
  ASSUME NEW m, NEW k \in Nat, Ready(m, k), NEW n \in 0 .. k, options \in Options
  PROVE  Ready(Glide(m, n), k - n)
<1> DEFINE dt   == m.device_ticks + n
           usec == m.usec + n * options.usec
           left == IF m.wait_left = 0 THEN 0 ELSE m.wait_left - n
           sch  == m.scheduled + n * Slice
           rem  == m.remaining - n * Slice
           g == [m EXCEPT !.device_ticks = dt, !.usec = usec, !.wait_left = left,
                          !.scheduled = sch, !.remaining = rem]
<1>1. m \in Machines  BY DEF Ready
<1>2. /\ m.device_ticks \in Nat /\ m.usec \in Nat /\ m.wait_left \in Nat
      /\ m.scheduled \in Nat /\ m.alarm \in Nat
  BY <1>1 DEF Machines
<1>3. /\ Slice \in Nat /\ PollEvery \in Nat /\ options.usec \in Nat
  BY Sizes
<1>4. n \in Nat /\ n <= k /\ k - n \in Nat  OBVIOUS
<1>5. Glide(m, n) = g  BY <1>1 DEF Glide, Machines
<1>6. dt \in Nat  BY <1>2, <1>4
<1>7. usec \in Nat
  <2>1. n * options.usec \in Nat  BY <1>3, <1>4
  <2> QED  BY <1>2, <2>1
<1>8. /\ left \in Nat
      /\ k - n # 0 => IF left = 0 THEN m.cursor = Len(events) ELSE k - n <= left
  <2>1. k # 0 => IF m.wait_left = 0 THEN m.cursor = Len(events) ELSE k <= m.wait_left
    BY DEF Ready
  <2> QED  BY <1>2, <1>4, <2>1
<1>9. sch \in Nat
  <2>1. n * Slice \in Nat  BY <1>3, <1>4
  <2> QED  BY <1>2, <2>1
<1>10. rem \in Nat /\ \E q \in Nat : rem = Slice * q /\ k - n <= q
  <2>1. PICK q \in Nat : m.remaining = Slice * q /\ k <= q  BY DEF Ready
  <2>2. q - n \in Nat /\ k - n <= q - n  BY <1>4, <2>1
  <2>3. Slice * (q - n) = Slice * q - n * Slice  BY <1>3, <1>4
  <2>4. Slice * (q - n) \in Nat  BY <1>3, <2>2
  <2> QED  BY <2>1, <2>2, <2>3, <2>4
<1>11. /\ m.irq = {} /\ m.job = 0 /\ ~m.uart.pending
       /\ \A i \in Timers : ~m.timer[i].enabled
       /\ options.divider = 1 /\ m.phase = 0 /\ m.cursor <= Len(events)
  BY DEF Ready
<1>12. m.alarm = 0 \/ m.alarm >= dt + (k - n)  BY <1>2, <1>4 DEF Ready
<1>13. ASSUME NEW j \in 1 .. k - n PROVE (dt + j) % PollEvery # 0
  <2>1. n + j \in 1 .. k /\ dt + j = m.device_ticks + (n + j)  BY <1>2, <1>4
  <2> QED  BY <2>1 DEF Ready
<1> HIDE DEF dt, usec, left, sch, rem
<1>14. /\ g \in Machines
       /\ g.irq = m.irq /\ g.job = m.job /\ g.uart = m.uart /\ g.timer = m.timer
       /\ g.phase = m.phase /\ g.alarm = m.alarm /\ g.cursor = m.cursor
       /\ g.device_ticks = dt /\ g.wait_left = left /\ g.remaining = rem
  BY <1>1, <1>6, <1>7, <1>8, <1>9, <1>10 DEF Machines
<1> HIDE DEF g
<1> QED  BY <1>5, <1>8, <1>10, <1>11, <1>12, <1>13, <1>14 DEF Ready

\* The alarm of a tick, in one form whether it goes off or not.
LEMMA AlarmForm ==
  ASSUME NEW m \in Machines, m.irq = {}
  PROVE  LET goes == m.alarm # 0 /\ m.device_ticks >= m.alarm
         IN  TickAlarm(m) = [m EXCEPT !.alarm = IF goes THEN 0 ELSE m.alarm,
                                      !.irq   = IF goes THEN {"alarm"} ELSE {}]
<1>1. CASE m.alarm # 0 /\ m.device_ticks >= m.alarm
  <2>1. m.irq \cup {"alarm"} = {"alarm"}  OBVIOUS
  <2> QED  BY <1>1, <2>1 DEF TickAlarm, Machines
<1>2. CASE ~(m.alarm # 0 /\ m.device_ticks >= m.alarm)
  <2>1. TickAlarm(m) = m  BY <1>2 DEF TickAlarm
  <2>2. m = [m EXCEPT !.alarm = m.alarm, !.irq = {}]  BY DEF Machines
  <2> QED  BY <1>2, <2>1, <2>2
<1> QED  BY <1>1, <1>2

\* The timers of a tick count their microseconds, nothing more.
LEMMA QuietTimers ==
  ASSUME NEW m \in Machines, m.irq = {}, \A i \in Timers : ~m.timer[i].enabled,
         options \in Options, options.divider = 1, m.phase = 0
  PROVE  TickTimers(m) = [m EXCEPT !.usec = @ + options.usec]
<1> DEFINE elapsed == m.phase + options.usec
           steps   == elapsed \div options.divider
           usec    == m.usec + options.usec
           phase   == elapsed % options.divider
           timer   == [i \in Timers |-> IF steps > 0 /\ Counts(m.timer[i])
                                        THEN Advance(m.timer[i], steps) ELSE m.timer[i]]
           irq     == m.irq \cup {i \in Timers : /\ steps > 0 /\ Counts(m.timer[i])
                                                 /\ steps >= m.timer[i].val}
<1>1. TickTimers(m) = [m EXCEPT !.usec = usec, !.phase = phase, !.timer = timer, !.irq = irq]
  BY DEF TickTimers, Machines
<1>2. \A i \in Timers : ~Counts(m.timer[i])  BY DEF Counts
<1>3. options.usec \in Nat /\ elapsed = options.usec  BY Sizes
<1>4. phase = m.phase  BY <1>3
<1> HIDE DEF steps, phase, elapsed, usec
<1>5. m.timer \in [Timers -> TimerRecords]  BY DEF Machines
<1>6. timer = m.timer  BY <1>2, <1>5
<1>7. irq = m.irq  BY <1>2
<1> HIDE DEF timer, irq
<1>8. [m EXCEPT !.usec = usec, !.phase = m.phase, !.timer = m.timer, !.irq = m.irq]
        = [m EXCEPT !.usec = usec]
  BY DEF Machines
<1> QED  BY <1>1, <1>4, <1>6, <1>7, <1>8 DEF usec

\* The script of a tick waits on, or has ended.
LEMMA QuietScript ==
  ASSUME NEW m \in Machines, events \in Seq(Events), m.cursor <= Len(events),
         m.wait_left = 0 => m.cursor = Len(events)
  PROVE  ScriptTick(m) = [m EXCEPT !.wait_left = IF @ = 0 THEN 0 ELSE @ - 1]
<1>1. m.wait_left \in Nat /\ m.cursor \in Nat /\ Len(events) \in Nat  BY DEF Machines
<1>2. CASE m.wait_left > 0  BY <1>1, <1>2 DEF ScriptTick, Machines
<1>3. CASE m.wait_left = 0
  <2> DEFINE waits == {k \in m.cursor + 1 .. Len(events) : events[k].ticks > 0}
             stop  == IF waits = {} THEN Len(events)
                      ELSE CHOOSE k \in waits : \A j \in waits : k <= j
             acts  == \E k \in m.cursor + 1 .. stop : events[k] = Act
             left  == IF waits = {} THEN 0 ELSE events[stop].ticks - 1
             irq   == IF acts THEN m.irq \cup {"input"} ELSE m.irq
  <2>1. ScriptTick(m) = [m EXCEPT !.cursor = stop, !.wait_left = left, !.irq = irq]
    BY <1>3 DEF ScriptTick, Machines
  <2>2. waits = {}  BY <1>1, <1>3
  <2>3. stop = m.cursor /\ left = 0  BY <1>3, <2>2
  <2> HIDE DEF stop, left
  <2>4. ~acts  BY <1>1, <2>3
  <2>5. irq = m.irq  BY <2>4
  <2> HIDE DEF irq
  <2>6. [m EXCEPT !.cursor = m.cursor, !.wait_left = 0, !.irq = m.irq]
          = [m EXCEPT !.wait_left = 0]
    BY DEF Machines
  <2>7. [m EXCEPT !.wait_left = IF @ = 0 THEN 0 ELSE @ - 1] = [m EXCEPT !.wait_left = 0]
    BY <1>3
  <2> QED  BY <2>1, <2>3, <2>5, <2>6, <2>7
<1> QED  BY <1>1, <1>2, <1>3

\* A tick that only counts, and may set off the alarm.
LEMMA QuietTick ==
  ASSUME NEW m, Ready(m, 1), options \in Options, events \in Seq(Events)
  PROVE  Step(m) = TickAlarm(Glide(m, 1))
<1> DEFINE dt    == m.device_ticks + 1
           usec  == m.usec + options.usec
           left  == IF m.wait_left = 0 THEN 0 ELSE m.wait_left - 1
           sch   == m.scheduled + Slice
           rem   == m.remaining - Slice
           goes  == m.alarm # 0 /\ dt >= m.alarm
           alarm == IF goes THEN 0 ELSE m.alarm
           irq   == IF goes THEN {"alarm"} ELSE {}
           m1 == [m EXCEPT !.device_ticks = dt]
           m2 == [m EXCEPT !.device_ticks = dt, !.usec = usec]
           m3 == [m EXCEPT !.device_ticks = dt, !.usec = usec, !.alarm = alarm, !.irq = irq]
           m4 == [m EXCEPT !.device_ticks = dt, !.usec = usec, !.alarm = alarm, !.irq = irq,
                           !.wait_left = left]
           last == [m EXCEPT !.device_ticks = dt, !.usec = usec, !.alarm = alarm, !.irq = irq,
                             !.wait_left = left, !.scheduled = sch, !.remaining = rem]
<1>1. m \in Machines /\ m.irq = {} /\ m.job = 0 /\ ~m.uart.pending  BY DEF Ready
<1>2. /\ m.device_ticks \in Nat /\ m.usec \in Nat /\ m.wait_left \in Nat
      /\ m.scheduled \in Nat /\ m.alarm \in Nat /\ options.usec \in Nat
      /\ Slice \in Nat /\ Slice > 0
  BY <1>1, Sizes DEF Machines
<1>3. dt \in Nat /\ usec \in Nat /\ left \in Nat /\ alarm \in Nat /\ irq \in SUBSET IrqBits
  BY <1>2 DEF IrqBits
<1>4. PICK q \in Nat : m.remaining = Slice * q /\ 1 <= q  BY DEF Ready
<1>5. SliceOf(m) = Slice
  <2>1. q - 1 \in Nat /\ Slice * (q - 1) \in Nat /\ Slice * q = Slice * (q - 1) + Slice
    BY <1>2, <1>4
  <2>2. m.remaining \in Nat /\ Slice <= m.remaining  BY <1>2, <1>4, <2>1
  <2> QED  BY <1>2, <2>2 DEF SliceOf, Smaller
<1>6. m.wait_left = 0 => m.cursor = Len(events)  BY DEF Ready
<1>7. /\ \A i \in Timers : ~m.timer[i].enabled
      /\ options.divider = 1 /\ m.phase = 0 /\ m.cursor <= Len(events)
      /\ dt % PollEvery # 0
  <2>1. 1 \in 1 .. 1  OBVIOUS
  <2> QED  BY <2>1 DEF Ready
<1> HIDE DEF dt, usec, left, sch, rem
<1>8. TickJob(m1) = m1  BY <1>1 DEF TickJob, Machines
<1>9. TickTimers(m1) = m2
  <2>1. /\ m1 \in Machines /\ m1.irq = {} /\ m1.timer = m.timer /\ m1.phase = m.phase
        /\ m1.usec = m.usec
    BY <1>1, <1>3 DEF Machines
  <2> HIDE DEF m1
  <2>2. TickTimers(m1) = [m1 EXCEPT !.usec = m1.usec + options.usec]
    BY <1>7, <2>1, QuietTimers
  <2>3. TickTimers(m1) = [m1 EXCEPT !.usec = usec]  BY <2>1, <2>2 DEF usec
  <2> QED  BY <1>1, <2>3 DEF m1, Machines
<1>10. TickAlarm(m2) = m3
  <2>1. m2 \in Machines /\ m2.irq = {} /\ m2.alarm = m.alarm /\ m2.device_ticks = dt
    BY <1>1, <1>3 DEF Machines
  <2> HIDE DEF m2
  <2>2. TickAlarm(m2) = [m2 EXCEPT !.alarm = alarm, !.irq = irq]
    BY <2>1, AlarmForm
  <2> HIDE DEF alarm, irq
  <2> QED  BY <1>1, <2>2 DEF m2, Machines
<1>11. TickSerial(m3) = m3
  <2>1. Bits(irq, "serial", m.uart.enabled /\ m.uart.pending) = irq
    BY <1>1 DEF Bits
  <2>2. m3 \in Machines /\ m3.irq = irq /\ m3.uart = m.uart
    <3> HIDE DEF alarm, irq
    <3> QED  BY <1>1, <1>3 DEF Machines
  <2> HIDE DEF m3, irq
  <2>3. TickSerial(m3) = [m3 EXCEPT !.irq = irq]  BY <2>1, <2>2 DEF TickSerial
  <2>4. [m3 EXCEPT !.irq = irq] = m3  BY <2>2 DEF Machines
  <2> QED  BY <2>3, <2>4
<1>12. BusTick(m) = m3
  <2>1. BusTick(m) = TickSerial(TickAlarm(TickTimers(TickJob(m1))))
    BY DEF BusTick, dt
  <2> HIDE DEF m1, m2, m3
  <2> QED  BY <1>8, <1>9, <1>10, <1>11, <2>1
<1> HIDE DEF alarm, irq, goes
<1>13. ScriptTick(m3) = m4
  <2>1. /\ m3 \in Machines /\ m3.wait_left = m.wait_left /\ m3.cursor = m.cursor
    BY <1>1, <1>3 DEF Machines
  <2> HIDE DEF m3
  <2>2. ScriptTick(m3) = [m3 EXCEPT !.wait_left = IF m3.wait_left = 0 THEN 0 ELSE m3.wait_left - 1]
    BY <1>6, <1>7, <2>1, QuietScript
  <2>3. ScriptTick(m3) = [m3 EXCEPT !.wait_left = left]  BY <2>1, <2>2 DEF left
  <2> QED  BY <1>1, <2>3 DEF m3, Machines
<1>14. Step(m) = last
  <2>1. /\ m4 \in Machines /\ m4.device_ticks = dt
        /\ m4.scheduled = m.scheduled /\ m4.remaining = m.remaining
    BY <1>1, <1>3 DEF Machines
  <2> HIDE DEF m4
  <2>2. Step(m) = [m4 EXCEPT !.scheduled = @ + SliceOf(m), !.remaining = @ - SliceOf(m),
                             !.polled = IF m4.device_ticks % PollEvery = 0
                                        THEN m4.device_ticks ELSE @]
    <3> HIDE DEF m3
    <3> QED  BY <1>12, <1>13 DEF Step
  <2>3. Step(m) = [m4 EXCEPT !.scheduled = sch, !.remaining = rem, !.polled = m4.polled]
    BY <1>5, <1>7, <2>1, <2>2 DEF sch, rem, Machines
  <2>4. Step(m) = [m4 EXCEPT !.scheduled = sch, !.remaining = rem]
    BY <2>1, <2>3 DEF Machines
  <2> QED  BY <1>1, <2>4 DEF m4, Machines
<1> DEFINE g == [m EXCEPT !.device_ticks = dt, !.usec = usec, !.wait_left = left,
                          !.scheduled = sch, !.remaining = rem]
<1>15. Glide(m, 1) = g
  <2>1. 1 * options.usec = options.usec /\ 1 * Slice = Slice  BY <1>2
  <2> QED  BY <1>1, <2>1 DEF Glide, Machines, dt, usec, left, sch, rem
<1>16. TickAlarm(g) = last
  <2>1. g \in Machines
    <3>1. Ready(g, 0)
      <4>1. 1 \in 0 .. 1 /\ 1 \in Nat /\ 1 - 1 = 0  OBVIOUS
      <4>2. Ready(Glide(m, 1), 1 - 1)  BY <4>1, GlideReady
      <4> QED  BY <1>15, <4>1, <4>2
    <3> QED  BY <3>1 DEF Ready
  <2>2. g.irq = {} /\ g.alarm = m.alarm /\ g.device_ticks = dt
    BY <1>1 DEF Machines
  <2> HIDE DEF g
  <2>3. TickAlarm(g) = [g EXCEPT !.alarm = alarm, !.irq = irq]
    BY <2>1, <2>2, AlarmForm DEF alarm, irq, goes
  <2> QED  BY <1>1, <2>3 DEF g, Machines
<1> HIDE DEF last, g
<1> QED  BY <1>14, <1>15, <1>16

\* One more tick.
LEMMA GlideOn ==
  ASSUME NEW m \in Machines, NEW k \in Nat, Ready(m, k), NEW n \in 1 .. k,
         options \in Options
  PROVE  Glide(Glide(m, n - 1), 1) = Glide(m, n)
<1> DEFINE p == n - 1
           dt   == m.device_ticks + p
           usec == m.usec + p * options.usec
           left == IF m.wait_left = 0 THEN 0 ELSE m.wait_left - p
           sch  == m.scheduled + p * Slice
           rem  == m.remaining - p * Slice
           g == [m EXCEPT !.device_ticks = dt, !.usec = usec, !.wait_left = left,
                          !.scheduled = sch, !.remaining = rem]
<1>1. /\ m.device_ticks \in Nat /\ m.usec \in Nat /\ m.wait_left \in Nat
      /\ m.scheduled \in Nat /\ m.remaining \in Nat
      /\ options.usec \in Nat /\ Slice \in Nat
  BY Sizes DEF Machines
<1>2. p \in Nat /\ p + 1 = n /\ (m.wait_left # 0 => n <= m.wait_left)
  <2>1. k # 0 => IF m.wait_left = 0 THEN m.cursor = Len(events) ELSE k <= m.wait_left
    BY DEF Ready
  <2> QED  BY <1>1, <2>1
<1>3. dt + 1 = m.device_ticks + n  BY <1>1, <1>2
<1>4. usec + 1 * options.usec = m.usec + n * options.usec
  <2>1. n * options.usec = p * options.usec + options.usec  BY <1>1
  <2>2. p * options.usec \in Nat  BY <1>1, <1>2
  <2> QED  BY <1>1, <2>1, <2>2
<1>5. (IF left = 0 THEN 0 ELSE left - 1) = IF m.wait_left = 0 THEN 0 ELSE m.wait_left - n
  BY <1>1, <1>2
<1>6. sch + 1 * Slice = m.scheduled + n * Slice /\ rem - 1 * Slice = m.remaining - n * Slice
  <2>1. n * Slice = p * Slice + Slice  BY <1>1
  <2>2. p * Slice \in Nat  BY <1>1, <1>2
  <2> QED  BY <1>1, <2>1, <2>2
<1>7. Glide(m, n - 1) = g  BY DEF Glide, Machines
<1> HIDE DEF dt, usec, left, sch, rem, g
<1>8. g \in Machines
  <2>1. n - 1 \in 0 .. k  OBVIOUS
  <2>2. Ready(Glide(m, n - 1), k - (n - 1))  BY <2>1, GlideReady
  <2> QED  BY <1>7, <2>2 DEF Ready
<1> HIDE DEF p
<1>9. Glide(g, 1) = [m EXCEPT !.device_ticks = dt + 1, !.usec = usec + 1 * options.usec,
                              !.wait_left = IF left = 0 THEN 0 ELSE left - 1,
                              !.scheduled = sch + 1 * Slice, !.remaining = rem - 1 * Slice]
  <2>1. /\ g.device_ticks = dt /\ g.usec = usec /\ g.wait_left = left
        /\ g.scheduled = sch /\ g.remaining = rem
    BY DEF Machines, g
  <2> DEFINE dt1 == dt + 1
             usec1 == usec + 1 * options.usec
             left1 == IF left = 0 THEN 0 ELSE left - 1
             sch1 == sch + 1 * Slice
             rem1 == rem - 1 * Slice
  <2>2. Glide(g, 1) = [g EXCEPT !.device_ticks = dt1, !.usec = usec1, !.wait_left = left1,
                                !.scheduled = sch1, !.remaining = rem1]
    BY <1>8, <2>1 DEF Glide, Machines
  <2> HIDE DEF dt1, usec1, left1, sch1, rem1
  <2>3. [g EXCEPT !.device_ticks = dt1, !.usec = usec1, !.wait_left = left1,
                  !.scheduled = sch1, !.remaining = rem1]
          = [m EXCEPT !.device_ticks = dt1, !.usec = usec1, !.wait_left = left1,
                      !.scheduled = sch1, !.remaining = rem1]
    BY DEF Machines, g
  <2>4. Glide(g, 1) = [m EXCEPT !.device_ticks = dt1, !.usec = usec1, !.wait_left = left1,
                                !.scheduled = sch1, !.remaining = rem1]
    BY <2>2, <2>3
  <2> QED  BY <2>4 DEF dt1, usec1, left1, sch1, rem1
<1>10. Glide(g, 1) = [m EXCEPT !.device_ticks = m.device_ticks + n,
                              !.usec = m.usec + n * options.usec,
                              !.wait_left = IF m.wait_left = 0 THEN 0 ELSE m.wait_left - n,
                              !.scheduled = m.scheduled + n * Slice,
                              !.remaining = m.remaining - n * Slice]
  BY <1>3, <1>4, <1>5, <1>6, <1>9
<1> QED  BY <1>7, <1>10 DEF Glide, Machines

\* A slice is part of what is left of the budget.
LEMMA SliceIs ==
  ASSUME NEW m \in Machines, m.remaining > 0
  PROVE  /\ SliceOf(m) \in Nat /\ SliceOf(m) > 0 /\ SliceOf(m) <= m.remaining
         /\ Whole(m) => SliceOf(m) = Slice /\ \E q \in Nat : m.remaining - Slice = Slice * q
<1>1. m.remaining \in Nat /\ Slice \in Nat /\ Slice > 0  BY Sizes DEF Machines
<1>2. SliceOf(m) \in Nat /\ SliceOf(m) > 0 /\ SliceOf(m) <= m.remaining
  BY <1>1 DEF SliceOf, Smaller
<1>3. ASSUME Whole(m)
      PROVE  SliceOf(m) = Slice /\ \E q \in Nat : m.remaining - Slice = Slice * q
  <2>1. PICK q \in Nat : m.remaining = Slice * q  BY <1>3 DEF Whole
  <2>2. q # 0  BY <1>1, <2>1
  <2>3. q - 1 \in Nat /\ Slice * (q - 1) \in Nat /\ Slice * q = Slice * (q - 1) + Slice
    BY <1>1, <2>2
  <2>4. Slice <= m.remaining  BY <1>1, <2>1, <2>3
  <2>5. SliceOf(m) = Slice  BY <1>1, <2>4 DEF SliceOf, Smaller
  <2>6. m.remaining - Slice = Slice * (q - 1)  BY <1>1, <2>1, <2>3
  <2> QED  BY <2>3, <2>5, <2>6
<1> QED  BY <1>2, <1>3

\* What the loop knows of ticks it skips.
LEMMA Limits ==
  ASSUME IInv, machine.remaining > 0, NEW k, k = AdvanceTicks(machine), k > 1
  PROVE  /\ k \in Nat /\ k <= MaxSkip /\ options.skips /\ Quiescent(machine)
         /\ k <= (machine.remaining + SliceOf(machine) - 1) \div SliceOf(machine)
         /\ machine.alarm = 0 \/ machine.alarm >= machine.device_ticks + k
         /\ IF machine.wait_left = 0 THEN machine.cursor = Len(events)
            ELSE k <= machine.wait_left
         /\ (machine.device_ticks % PollEvery) + k <= PollEvery - 1
<1> DEFINE m == machine
<1>1. /\ m \in Machines /\ m.cursor <= Len(events) /\ events \in Seq(Events)
  BY DEF IInv, Steady
<1>2. /\ m.device_ticks \in Nat /\ m.wait_left \in Nat /\ m.alarm \in Nat
      /\ m.cursor \in Nat /\ Len(events) \in Nat /\ m.remaining \in Nat
      /\ MaxSkip \in Nat /\ MaxSkip > 0 /\ PollEvery \in Nat /\ PollEvery > 0
  BY <1>1, Sizes DEF Machines
<1>3. m.remaining > 0  OBVIOUS
<1> HIDE DEF m
<1> DEFINE slices == (m.remaining + SliceOf(m) - 1) \div SliceOf(m)
<1>4. /\ options.skips /\ IdleLimit(m) # 1
      /\ k = Smaller(Smaller(IdleLimit(m), ScriptLimit(m)), Smaller(PollLimit(m), slices))
  BY DEF AdvanceTicks, m
<1>5. Quiescent(m)  BY <1>4 DEF IdleLimit
<1>6. slices \in Nat
  <2>1. SliceOf(m) \in Nat /\ SliceOf(m) > 0  BY <1>1, <1>3, SliceIs
  <2>2. m.remaining + SliceOf(m) - 1 \in Nat  BY <1>2, <2>1
  <2> QED  BY <2>1, <2>2, DivMod
<1> HIDE DEF slices
<1>7. IdleLimit(m) \in Nat /\ IdleLimit(m) <= MaxSkip
      /\ (m.alarm = 0 \/ IdleLimit(m) = 1 \/ m.alarm >= m.device_ticks + IdleLimit(m))
  BY <1>2 DEF IdleLimit, Smaller
<1>8. /\ ScriptLimit(m) \in Nat
      /\ ScriptLimit(m) > 1 => IF m.wait_left = 0 THEN m.cursor = Len(events)
                               ELSE ScriptLimit(m) = m.wait_left
  BY <1>1, <1>2 DEF ScriptLimit, Done
<1> DEFINE rest == m.device_ticks % PollEvery
<1>9. rest \in 0 .. PollEvery - 1  BY <1>2, DivMod
<1>10. PollLimit(m) \in Nat /\ (PollLimit(m) > 1 => rest + PollLimit(m) <= PollEvery - 1)
  <2>1. PollLimit(m) = IF PollEvery - rest > 1 THEN PollEvery - rest - 1 ELSE 1
    BY DEF PollLimit
  <2> HIDE DEF rest
  <2> QED  BY <1>2, <1>9, <2>1
<1>11. /\ k \in Nat /\ k <= IdleLimit(m) /\ k <= ScriptLimit(m) /\ k <= PollLimit(m)
       /\ k <= slices
  BY <1>4, <1>6, <1>7, <1>8, <1>10 DEF Smaller
<1>12. m.alarm = 0 \/ m.alarm >= m.device_ticks + k  BY <1>2, <1>4, <1>7, <1>11
<1>13. IF m.wait_left = 0 THEN m.cursor = Len(events) ELSE k <= m.wait_left
  BY <1>8, <1>11
<1>14. rest + k <= PollEvery - 1
  <2> HIDE DEF rest
  <2> QED  BY <1>2, <1>9, <1>10, <1>11
<1>15. k <= MaxSkip  BY <1>2, <1>7, <1>11
<1> QED  BY <1>4, <1>5, <1>11, <1>12, <1>13, <1>14, <1>15 DEF m, slices

\* The last poll before a tick.
LEMMA PollIs ==
  ASSUME NEW n \in Nat, NEW j \in Nat, (n % PollEvery) + j <= PollEvery - 1
  PROVE  (n + j) % PollEvery = (n % PollEvery) + j
<1> DEFINE p == n \div PollEvery
           rest == n % PollEvery
           sum == n + j
           r == rest + j
<1>1. PollEvery \in Nat /\ PollEvery > 0  BY Sizes
<1>2. p \in Nat /\ rest \in 0 .. PollEvery - 1 /\ n = PollEvery * p + rest  BY <1>1, DivMod
<1>3. PollEvery * p \in Nat  BY <1>1, <1>2
<1>4. r <= PollEvery - 1  OBVIOUS
<1> HIDE DEF p, rest
<1>5. r \in 0 .. PollEvery - 1 /\ sum \in Nat  BY <1>1, <1>2, <1>4
<1>6. sum = PollEvery * p + r  BY <1>2, <1>3
<1> HIDE DEF sum, r
<1>7. sum % PollEvery = r  BY <1>1, <1>2, <1>5, <1>6, QuotientIs
<1> QED  BY <1>7 DEF sum, r, rest

\* The loop skips only ticks that have nothing to do.
LEMMA SkipsReady ==
  ASSUME SkipsUndivided, IInv, Whole(machine), machine.remaining > 0,
         NEW k, k = AdvanceTicks(machine), k > 1
  PROVE  k \in Nat /\ k <= MaxSkip /\ Ready(machine, k)
<1> DEFINE m == machine
<1>1. /\ m \in Machines /\ m.phase < options.divider /\ m.cursor <= Len(events)
      /\ options \in Options
  BY DEF IInv, Steady
<1>2. PICK q \in Nat : m.remaining = Slice * q  BY DEF Whole
<1>3. /\ m.device_ticks \in Nat /\ m.phase \in Nat /\ m.remaining \in Nat
      /\ Slice \in Nat /\ Slice > 0 /\ PollEvery \in Nat /\ PollEvery > 0
  BY <1>1, Sizes DEF Machines
<1>4. /\ k \in Nat /\ k <= MaxSkip /\ options.skips /\ Quiescent(m)
      /\ k <= (m.remaining + SliceOf(m) - 1) \div SliceOf(m)
      /\ m.alarm = 0 \/ m.alarm >= m.device_ticks + k
      /\ IF m.wait_left = 0 THEN m.cursor = Len(events) ELSE k <= m.wait_left
      /\ (m.device_ticks % PollEvery) + k <= PollEvery - 1
  BY Limits
<1>5. SliceOf(m) = Slice  BY <1>1, SliceIs
<1> HIDE DEF m
<1>6. k <= q
  <2> DEFINE n == m.remaining + Slice - 1
             r == Slice - 1
  <2>1. n \in Nat /\ r \in 0 .. Slice - 1 /\ n = Slice * q + r  BY <1>2, <1>3 DEF m
  <2> HIDE DEF n, r
  <2>2. n \div Slice = q  BY <1>3, <2>1, QuotientIs
  <2> QED  BY <1>4, <1>5, <2>2 DEF n
<1>7. options.divider = 1 /\ m.phase = 0
  <2>1. options.divider = 1  BY <1>1, <1>4 DEF SkipsUndivided
  <2> QED  BY <1>1, <1>3, <2>1
<1>8. ASSUME NEW j \in 1 .. k PROVE (m.device_ticks + j) % PollEvery # 0
  <2> DEFINE rest == m.device_ticks % PollEvery
  <2>1. rest \in 0 .. PollEvery - 1  BY <1>3, DivMod
  <2>2. rest + k <= PollEvery - 1 /\ k \in Nat  BY <1>4
  <2> HIDE DEF rest
  <2>3. j \in Nat /\ rest + j <= PollEvery - 1 /\ rest + j # 0  BY <1>3, <2>1, <2>2
  <2>4. (m.device_ticks + j) % PollEvery = rest + j  BY <1>3, <2>3, PollIs DEF rest
  <2> QED  BY <2>3, <2>4
<1>9. Ready(m, k)
  BY <1>1, <1>2, <1>4, <1>6, <1>7, <1>8 DEF Ready, Quiescent, m
<1> QED  BY <1>4, <1>9 DEF m

\* Ready for k ticks is ready for fewer.
LEMMA ReadyLess ==
  ASSUME NEW m, NEW k \in Nat, Ready(m, k), NEW j \in 1 .. k
  PROVE  Ready(m, j)
<1>1. /\ m \in Machines /\ m.irq = {} /\ m.job = 0 /\ ~m.uart.pending
      /\ \A i \in Timers : ~m.timer[i].enabled
      /\ options.divider = 1 /\ m.phase = 0 /\ m.cursor <= Len(events)
  BY DEF Ready
<1>2. m.device_ticks \in Nat /\ m.alarm \in Nat /\ m.wait_left \in Nat
  BY <1>1 DEF Machines
<1>3. m.alarm = 0 \/ m.alarm >= m.device_ticks + j
  <2>1. m.alarm = 0 \/ m.alarm >= m.device_ticks + k  BY DEF Ready
  <2> QED  BY <1>2, <2>1
<1>4. IF m.wait_left = 0 THEN m.cursor = Len(events) ELSE j <= m.wait_left
  <2>1. k # 0  OBVIOUS
  <2>2. IF m.wait_left = 0 THEN m.cursor = Len(events) ELSE k <= m.wait_left
    BY <2>1 DEF Ready
  <2> QED  BY <1>2, <2>2
<1>5. \A i \in 1 .. j : (m.device_ticks + i) % PollEvery # 0
  <2>1. \A i \in 1 .. k : (m.device_ticks + i) % PollEvery # 0  BY DEF Ready
  <2>2. \A i \in 1 .. j : i \in 1 .. k  OBVIOUS
  <2> QED  BY <2>1, <2>2
<1>6. \E q \in Nat : m.remaining = Slice * q /\ j <= q
  <2>1. PICK q \in Nat : m.remaining = Slice * q /\ k <= q  BY DEF Ready
  <2>2. j <= q  BY <2>1
  <2> QED  BY <2>1, <2>2
<1> QED  BY <1>1, <1>3, <1>4, <1>5, <1>6 DEF Ready

\* No alarm goes off before the last of the ticks.
LEMMA QuietAlarm ==
  ASSUME NEW m, NEW k \in Nat, k # 0, Ready(m, k)
  PROVE  TickAlarm(m) = m
<1>1. m \in Machines /\ (m.alarm = 0 \/ m.alarm >= m.device_ticks + k)  BY DEF Ready
<1>2. m.device_ticks \in Nat /\ m.alarm \in Nat  BY <1>1 DEF Machines
<1> QED  BY <1>1, <1>2 DEF TickAlarm

\* The ticks can be made one by one.
Ticked(m, n) == \E f : f = [i \in 0 .. n |-> IF i = 0 THEN m ELSE Step(f[i - 1])]

LEMMA TickedExists ==
  ASSUME NEW m, NEW n \in Nat PROVE Ticked(m, n)
<1> DEFINE P == {i \in 0 .. n : Ticked(m, i)}
<1>1. 0 \in P
  <2> DEFINE f == [i \in 0 .. 0 |-> m]
  <2>1. f = [i \in 0 .. 0 |-> IF i = 0 THEN m ELSE Step(f[i - 1])]  OBVIOUS
  <2> HIDE DEF f
  <2>2. Ticked(m, 0)  BY <2>1 DEF Ticked
  <2>3. 0 \in 0 .. n  OBVIOUS
  <2> QED  BY <2>2, <2>3
<1>2. ASSUME NEW j \in 1 .. n, j - 1 \in P PROVE j \in P
  <2>1. PICK f : f = [i \in 0 .. j - 1 |-> IF i = 0 THEN m ELSE Step(f[i - 1])]
    BY <1>2 DEF Ticked
  <2> DEFINE last == Step(f[j - 1])
             g == [i \in 0 .. j |-> IF i = j THEN last ELSE f[i]]
  <2>2. ASSUME NEW i \in 0 .. j
        PROVE  g[i] = IF i = 0 THEN m ELSE Step(g[i - 1])
    <3>1. CASE i = j
      <4>1. i # 0 /\ i - 1 \in 0 .. j /\ i - 1 # j  BY <3>1
      <4>2. g[i] = last /\ g[i - 1] = f[i - 1]
        <5> HIDE DEF last
        <5> QED  BY <3>1, <4>1
      <4> QED  BY <3>1, <4>1, <4>2
    <3>2. CASE i # j
      <4> HIDE DEF last
      <4>1. i \in 0 .. j - 1 /\ g[i] = f[i]  BY <3>2
      <4>2. i # 0 => g[i - 1] = f[i - 1]
        <5>1. i # 0 => i - 1 \in 0 .. j /\ i - 1 # j  BY <3>2
        <5> QED  BY <5>1
      <4>3. f[i] = IF i = 0 THEN m ELSE Step(f[i - 1])  BY <2>1, <4>1
      <4> QED  BY <4>1, <4>2, <4>3
    <3> QED  BY <3>1, <3>2
  <2>3. g = [i \in 0 .. j |-> g[i]]  OBVIOUS
  <2> HIDE DEF g
  <2>4. g = [i \in 0 .. j |-> IF i = 0 THEN m ELSE Step(g[i - 1])]  BY <2>2, <2>3
  <2>5. Ticked(m, j)  BY <2>4 DEF Ticked
  <2>6. j \in 0 .. n  OBVIOUS
  <2> QED  BY <2>5, <2>6
<1> HIDE DEF P
<1>3. \A i \in 0 .. n : i \in P  BY <1>1, <1>2, UpTo
<1>4. n \in 0 .. n  OBVIOUS
<1> QED  BY <1>3, <1>4 DEF P

\* The ticks made one by one reach what the closed form says.
LEMMA TicksGlide ==
  ASSUME NEW m, NEW k \in Nat, Ready(m, k), k <= MaxSkip,
         options \in Options, events \in Seq(Events),
         NEW f, \A i \in 0 .. MaxSkip : f[i] = IF i = 0 THEN m ELSE Step(f[i - 1]),
         NEW n \in 1 .. k
  PROVE  f[n] = TickAlarm(Glide(m, n)) /\ f[n - 1] = Glide(m, n - 1)
<1> DEFINE P == {i \in 0 .. k : /\ i # 0 => f[i] = TickAlarm(Glide(m, i))
                                /\ i # k => f[i] = Glide(m, i)}
<1>1. m \in Machines /\ MaxSkip \in Nat  BY Sizes DEF Ready
<1>2. \A i \in 0 .. k : i # k => TickAlarm(Glide(m, i)) = Glide(m, i)
  <2> SUFFICES ASSUME NEW i \in 0 .. k, i # k
               PROVE  TickAlarm(Glide(m, i)) = Glide(m, i)
    OBVIOUS
  <2>1. k - i \in Nat /\ k - i # 0  OBVIOUS
  <2>2. Ready(Glide(m, i), k - i)  BY GlideReady
  <2> QED  BY <2>1, <2>2, QuietAlarm
<1>3. 0 \in P
  <2>1. f[0] = m  BY <1>1
  <2>2. Glide(m, 0) = m
    <3>1. /\ m.device_ticks \in Nat /\ m.usec \in Nat /\ m.wait_left \in Nat
          /\ m.scheduled \in Nat /\ m.remaining \in Nat
          /\ options.usec \in Nat /\ Slice \in Nat
      BY <1>1, Sizes DEF Machines
    <3>2. /\ m.device_ticks + 0 = m.device_ticks /\ m.usec + 0 * options.usec = m.usec
          /\ (IF m.wait_left = 0 THEN 0 ELSE m.wait_left - 0) = m.wait_left
          /\ m.scheduled + 0 * Slice = m.scheduled /\ m.remaining - 0 * Slice = m.remaining
      BY <3>1
    <3>3. Glide(m, 0) = [m EXCEPT !.device_ticks = m.device_ticks, !.usec = m.usec,
                                  !.wait_left = m.wait_left, !.scheduled = m.scheduled,
                                  !.remaining = m.remaining]
      BY <1>1, <3>2 DEF Glide, Machines
    <3> QED  BY <1>1, <3>3 DEF Machines
  <2>3. 0 \in 0 .. k  OBVIOUS
  <2> QED  BY <2>1, <2>2, <2>3
<1>4. ASSUME NEW i \in 1 .. k, i - 1 \in P PROVE i \in P
  <2>1. i - 1 \in 0 .. k /\ i - 1 # k /\ i \in 0 .. k /\ i \in 0 .. MaxSkip /\ i # 0
    BY <1>1
  <2>2. f[i - 1] = Glide(m, i - 1)  BY <1>4, <2>1
  <2>3. f[i] = Step(f[i - 1])  BY <2>1
  <2>4. Ready(Glide(m, i - 1), 1)
    <3>1. Ready(Glide(m, i - 1), k - (i - 1))  BY <2>1, GlideReady
    <3>2. k - (i - 1) \in Nat /\ 1 \in 1 .. k - (i - 1)  OBVIOUS
    <3> QED  BY <3>1, <3>2, ReadyLess
  <2>5. Step(Glide(m, i - 1)) = TickAlarm(Glide(Glide(m, i - 1), 1))
    BY <2>4, QuietTick
  <2>6. Glide(Glide(m, i - 1), 1) = Glide(m, i)  BY <1>1, GlideOn
  <2>7. f[i] = TickAlarm(Glide(m, i))  BY <2>2, <2>3, <2>5, <2>6
  <2>8. i # k => f[i] = Glide(m, i)  BY <1>2, <2>1, <2>7
  <2> QED  BY <2>1, <2>7, <2>8
<1> HIDE DEF P
<1>5. \A i \in 0 .. k : i \in P  BY <1>3, <1>4, UpTo
<1>6. n \in P /\ n - 1 \in P /\ n # 0 /\ n - 1 # k
  <2>1. n \in 0 .. k /\ n - 1 \in 0 .. k  OBVIOUS
  <2> QED  BY <1>5, <2>1
<1> QED  BY <1>6 DEF P

\* And so does the skip.
LEMMA SkipGlides ==
  ASSUME NEW m, NEW k \in Nat, Ready(m, k), k # 0, options \in Options
  PROVE  Skip(m, k) = TickAlarm(Glide(m, k))
<1> DEFINE dt    == m.device_ticks + k
           usec  == m.usec + k * options.usec
           left  == IF m.wait_left = 0 THEN 0 ELSE m.wait_left - k
           sch   == m.scheduled + k * Slice
           rem   == m.remaining - k * Slice
           goes  == m.alarm # 0 /\ dt >= m.alarm
           alarm == IF goes THEN 0 ELSE m.alarm
           irq   == IF goes THEN {"alarm"} ELSE {}
           b == [m EXCEPT !.device_ticks = dt, !.usec = usec, !.scheduled = sch,
                          !.remaining = rem]
           c == [m EXCEPT !.device_ticks = dt, !.usec = usec, !.scheduled = sch,
                          !.remaining = rem, !.alarm = alarm, !.irq = irq]
           g == [m EXCEPT !.device_ticks = dt, !.usec = usec, !.wait_left = left,
                          !.scheduled = sch, !.remaining = rem]
           last == [m EXCEPT !.device_ticks = dt, !.usec = usec, !.scheduled = sch,
                             !.remaining = rem, !.alarm = alarm, !.irq = irq,
                             !.wait_left = left]
<1>1. m \in Machines /\ m.irq = {}  BY DEF Ready
<1>2. /\ m.device_ticks \in Nat /\ m.usec \in Nat /\ m.wait_left \in Nat
      /\ m.scheduled \in Nat /\ m.remaining \in Nat /\ m.alarm \in Nat
      /\ options.usec \in Nat /\ Slice \in Nat /\ Slice > 0
  BY <1>1, Sizes DEF Machines
<1>3. PICK q \in Nat : m.remaining = Slice * q /\ k <= q  BY DEF Ready
<1>4. SliceOf(m) = Slice
  <2>1. q - 1 \in Nat  BY <1>3
  <2>2. Slice * (q - 1) \in Nat /\ Slice * q = Slice * (q - 1) + Slice  BY <1>2, <2>1
  <2>3. Slice <= m.remaining  BY <1>2, <1>3, <2>2
  <2> QED  BY <1>2, <2>3 DEF SliceOf, Smaller
<1>5. m.remaining - Smaller(k * Slice, m.remaining) = rem
  <2>1. Slice * k <= Slice * q  BY <1>2, <1>3, MulMono
  <2>2. k * Slice = Slice * k /\ k * Slice \in Nat  BY <1>2
  <2>3. k * Slice <= m.remaining  BY <1>3, <2>1, <2>2
  <2> QED  BY <1>2, <2>2, <2>3 DEF Smaller
<1>6. Skip(m, k) = AdvanceWait(TickAlarm(b), k)
  BY <1>1, <1>4, <1>5 DEF Skip, Machines
<1>7. g \in Machines /\ Glide(m, k) = g
  <2>1. Glide(m, k) = g  BY <1>1 DEF Glide, Machines
  <2> HIDE DEF g
  <2>2. k \in 0 .. k  OBVIOUS
  <2>3. Ready(Glide(m, k), k - k)  BY <2>2, GlideReady
  <2> QED  BY <2>1, <2>3 DEF Ready
<1>8. dt \in Nat /\ usec \in Nat /\ sch \in Nat /\ rem \in Nat
  <2> HIDE DEF dt, usec, sch, rem, left
  <2>1. g.device_ticks = dt /\ g.usec = usec /\ g.scheduled = sch /\ g.remaining = rem
    BY <1>1 DEF Machines
  <2> HIDE DEF g
  <2> QED  BY <1>7, <2>1 DEF Machines
<1> HIDE DEF dt, usec, sch, rem
<1>9. b \in Machines /\ b.irq = {} /\ b.alarm = m.alarm /\ b.device_ticks = dt
  BY <1>1, <1>8 DEF Machines
<1>10. TickAlarm(b) = c
  <2> HIDE DEF b
  <2>1. TickAlarm(b) = [b EXCEPT !.alarm = alarm, !.irq = irq]  BY <1>9, AlarmForm
  <2> HIDE DEF alarm, irq
  <2> QED  BY <1>1, <2>1 DEF b, Machines
<1>11. m.wait_left - Smaller(k, m.wait_left) = left
  <2>1. k # 0 => IF m.wait_left = 0 THEN m.cursor = Len(events) ELSE k <= m.wait_left
    BY DEF Ready
  <2> QED  BY <1>2, <2>1 DEF Smaller
<1> HIDE DEF left
<1>12. TickAlarm(g) = last
  <2>1. g.irq = {} /\ g.alarm = m.alarm /\ g.device_ticks = dt
    BY <1>1 DEF Machines
  <2> HIDE DEF g
  <2>2. TickAlarm(g) = [g EXCEPT !.alarm = alarm, !.irq = irq]
    BY <1>7, <2>1, AlarmForm
  <2> HIDE DEF alarm, irq
  <2> QED  BY <1>1, <2>2 DEF g, Machines
<1>13. AdvanceWait(c, k) = last
  <2> HIDE DEF alarm, irq
  <2> QED  BY <1>1, <1>11 DEF AdvanceWait, Machines
<1> HIDE DEF b, c, g, last
<1> QED  BY <1>6, <1>7, <1>10, <1>12, <1>13

-----------------------------------------------------------------------------
(***************************************************************************)
(* The invariant.                                                          *)
(***************************************************************************)

\* A tick of the loop.
LEMMA StepKeeps ==
  ASSUME NEW m, Steady(m), m.remaining > 0, options \in Options, events \in Seq(Events)
  PROVE  LET b == Step(m)
         IN  /\ Steady(b) /\ (Whole(m) => Whole(b))
             /\ b.device_ticks = m.device_ticks + 1 /\ Moved(m, b)
             /\ b.polled = IF b.device_ticks % PollEvery = 0 THEN b.device_ticks ELSE m.polled
<1> DEFINE a   == BusTick(m)
           b   == ScriptTick(a)
           sch == b.scheduled + SliceOf(m)
           rem == b.remaining - SliceOf(m)
           pol == IF b.device_ticks % PollEvery = 0 THEN b.device_ticks ELSE b.polled
           c   == [b EXCEPT !.scheduled = sch, !.remaining = rem, !.polled = pol]
<1>1. m \in Machines /\ m.cursor <= Len(events) /\ m.remaining \in Nat
  BY DEF Steady, Machines
<1>2. a \in Machines /\ a.phase < options.divider /\ LoopSame(m, a)
      /\ a.device_ticks = m.device_ticks + 1
  BY <1>1, BusTickKeeps
<1>3. Step(m) = c
  <2> HIDE DEF a
  <2>1. b \in Machines
    <3>1. a.cursor <= Len(events)  BY <1>1, <1>2 DEF LoopSame
    <3> QED  BY <1>2, <3>1, ScriptTickKeeps
  <2>2. Step(m) = [b EXCEPT !.scheduled = @ + SliceOf(m), !.remaining = @ - SliceOf(m),
                            !.polled = IF b.device_ticks % PollEvery = 0
                                       THEN b.device_ticks ELSE @]
    BY DEF Step, a
  <2> HIDE DEF b
  <2> QED  BY <2>1, <2>2 DEF Machines
<1> HIDE DEF a
<1>4. /\ b \in Machines /\ b.cursor <= Len(events) /\ b.phase = a.phase
      /\ b.device_ticks = a.device_ticks /\ b.remaining = a.remaining /\ b.polled = a.polled
      /\ Moved(a, b)
  <2>1. a.cursor <= Len(events)  BY <1>1, <1>2 DEF LoopSame
  <2> QED  BY <1>2, <2>1, ScriptTickKeeps
<1> HIDE DEF b
<1>5. b.remaining = m.remaining /\ b.polled = m.polled /\ Moved(m, b)
  BY <1>2, <1>4 DEF LoopSame, Moved
<1>6. rem \in Nat /\ (Whole(m) => \E q \in Nat : rem = Slice * q)
  <2>1. /\ SliceOf(m) \in Nat /\ SliceOf(m) <= m.remaining
        /\ Whole(m) => SliceOf(m) = Slice /\ \E q \in Nat : m.remaining - Slice = Slice * q
    BY <1>1, SliceIs
  <2>2. rem = m.remaining - SliceOf(m)  BY <1>5
  <2>3. rem \in Nat  BY <1>1, <2>1, <2>2
  <2> QED  BY <2>1, <2>2, <2>3
<1>7. sch \in Nat /\ pol \in Nat
  <2>1. b.scheduled \in Nat /\ b.device_ticks \in Nat /\ b.polled \in Nat
    BY <1>4 DEF Machines
  <2>2. SliceOf(m) \in Nat  BY <1>1, SliceIs
  <2> QED  BY <2>1, <2>2
<1>8. pol = IF b.device_ticks % PollEvery = 0 THEN b.device_ticks ELSE m.polled
  BY <1>5
<1> HIDE DEF sch, rem, pol
<1>9. /\ c \in Machines /\ c.phase = b.phase /\ c.cursor = b.cursor /\ c.remaining = rem
      /\ c.device_ticks = b.device_ticks /\ c.wait_left = b.wait_left /\ c.polled = pol
  BY <1>4, <1>6, <1>7 DEF Machines
<1> HIDE DEF c
<1>10. Steady(c)  BY <1>2, <1>4, <1>9 DEF Steady
<1>11. Moved(m, c)  BY <1>5, <1>9 DEF Moved
<1>12. Whole(m) => Whole(c)  BY <1>6, <1>9 DEF Whole
<1> QED  BY <1>2, <1>3, <1>4, <1>8, <1>9, <1>10, <1>11, <1>12

\* A skip.
LEMMA SkipKeeps ==
  ASSUME NEW m, Steady(m), m.remaining > 0, NEW k \in Nat, options \in Options
  PROVE  LET b == Skip(m, k)
         IN  /\ Steady(b) /\ b.device_ticks = m.device_ticks + k
             /\ b.cursor = m.cursor /\ b.wait_left = m.wait_left - Smaller(k, m.wait_left)
             /\ b.polled = m.polled
<1> DEFINE dt    == m.device_ticks + k
           usec  == m.usec + k * options.usec
           sch   == m.scheduled + k * SliceOf(m)
           rem   == m.remaining - Smaller(k * SliceOf(m), m.remaining)
           left  == m.wait_left - Smaller(k, m.wait_left)
           a == [m EXCEPT !.device_ticks = dt, !.usec = usec, !.scheduled = sch,
                          !.remaining = rem]
           b == TickAlarm(a)
           c == [b EXCEPT !.wait_left = left]
<1>1. m \in Machines /\ m.phase < options.divider /\ m.cursor <= Len(events)  BY DEF Steady
<1>2. /\ m.device_ticks \in Nat /\ m.usec \in Nat /\ m.wait_left \in Nat
      /\ m.scheduled \in Nat /\ m.remaining \in Nat /\ options.usec \in Nat
  BY <1>1, Sizes DEF Machines
<1>3. SliceOf(m) \in Nat  BY <1>1, SliceIs
<1>4. Skip(m, k) = AdvanceWait(b, k)  BY <1>1 DEF Skip, Machines
<1>5. dt \in Nat /\ left \in Nat  BY <1>2 DEF Smaller
<1>6. usec \in Nat
  <2>1. k * options.usec \in Nat  BY <1>2
  <2> QED  BY <1>2, <2>1
<1>7. sch \in Nat /\ rem \in Nat
  <2>1. k * SliceOf(m) \in Nat  BY <1>3
  <2> QED  BY <1>2, <2>1 DEF Smaller
<1> HIDE DEF dt, usec, sch, rem
<1>8. /\ a \in Machines /\ a.device_ticks = dt /\ LoopSame([m EXCEPT !.remaining = a.remaining,
                                                          !.scheduled = a.scheduled], a)
      /\ a.phase = m.phase /\ a.cursor = m.cursor /\ a.wait_left = m.wait_left
      /\ a.polled = m.polled
  BY <1>1, <1>5, <1>6, <1>7 DEF Machines, LoopSame
<1> HIDE DEF a
<1>9. b \in Machines /\ LoopSame(a, b) /\ b.device_ticks = a.device_ticks /\ b.phase = a.phase
  BY <1>8, TickRestKeeps
<1> HIDE DEF b
<1>10. b.wait_left = m.wait_left /\ b.cursor = m.cursor /\ b.polled = m.polled
  BY <1>8, <1>9 DEF LoopSame
<1>11. AdvanceWait(b, k) = c  BY <1>9, <1>10 DEF AdvanceWait, Machines
<1> HIDE DEF left
<1>12. /\ c \in Machines /\ c.device_ticks = b.device_ticks /\ c.phase = b.phase
       /\ c.cursor = b.cursor /\ c.wait_left = left /\ c.polled = b.polled
  BY <1>5, <1>9 DEF Machines
<1> HIDE DEF c
<1>13. Steady(c)  BY <1>1, <1>8, <1>9, <1>10, <1>12 DEF Steady
<1> QED  BY <1>4, <1>8, <1>9, <1>10, <1>11, <1>12, <1>13 DEF dt, left

\* A skip takes whole slices.
LEMMA SkipWhole ==
  ASSUME NEW m, NEW k \in Nat, Ready(m, k), k # 0, options \in Options
  PROVE  Whole(Skip(m, k))
<1> DEFINE g == Glide(m, k)
           b == TickAlarm(g)
<1>1. Skip(m, k) = b  BY SkipGlides
<1>2. Ready(g, k - k)
  <2>1. k \in 0 .. k  OBVIOUS
  <2> QED  BY <2>1, GlideReady
<1> HIDE DEF g
<1>3. g \in Machines /\ \E q \in Nat : g.remaining = Slice * q  BY <1>2 DEF Ready
<1>4. LoopSame(g, b)  BY <1>3, TickRestKeeps
<1> HIDE DEF b
<1> QED  BY <1>1, <1>3, <1>4 DEF LoopSame, Whole

\* The guest changes neither the clock of the timers nor the loop.
LEMMA GuestKeeps ==
  ASSUME IInv, IdleGuest \/ Interrupt
  PROVE  /\ IInv' /\ UNCHANGED <<options, events>>
         /\ machine'.device_ticks = machine.device_ticks
         /\ machine'.cursor = machine.cursor /\ machine'.wait_left = machine.wait_left
         /\ machine'.polled = machine.polled /\ machine'.remaining = machine.remaining
         /\ machine'.usec = machine.usec /\ machine'.phase = machine.phase
<1> DEFINE m == machine
           Kept(b) == /\ b \in Machines /\ b.phase = m.phase /\ b.cursor = m.cursor
                      /\ b.remaining = m.remaining /\ b.device_ticks = m.device_ticks
                      /\ b.wait_left = m.wait_left /\ b.polled = m.polled
                      /\ b.usec = m.usec
<1>1. m \in Machines  BY DEF IInv, Steady
<1>2. /\ m.timer \in [Timers -> TimerRecords] /\ m.irq \in SUBSET IrqBits
      /\ m.device_ticks \in Nat
      /\ m.uart \in [enabled : BOOLEAN, pending : BOOLEAN, dlab : BOOLEAN]
  BY <1>1 DEF Machines
<1> DEFINE Uarts == [enabled : BOOLEAN, pending : BOOLEAN, dlab : BOOLEAN]
<1>3. \A timer \in [Timers -> TimerRecords] : Kept([m EXCEPT !.timer = timer])
  BY <1>1 DEF Machines
<1>4. \A irq \in SUBSET IrqBits : Kept([m EXCEPT !.irq = irq])  BY <1>1 DEF Machines
<1>5. \A uart \in Uarts, irq \in SUBSET IrqBits : Kept([m EXCEPT !.uart = uart, !.irq = irq])
  BY <1>1 DEF Machines
<1>6. \A n \in Nat : Kept([m EXCEPT !.alarm = n]) /\ Kept([m EXCEPT !.job = n])
  BY <1>1 DEF Machines
<1>7. \A h \in BOOLEAN : Kept([m EXCEPT !.halted = h])  BY <1>1 DEF Machines
<1>8. Kept(machine') /\ UNCHANGED <<options, events>> => 
        /\ IInv' /\ machine'.device_ticks = machine.device_ticks
        /\ machine'.cursor = machine.cursor /\ machine'.wait_left = machine.wait_left
        /\ machine'.polled = machine.polled /\ machine'.remaining = machine.remaining
        /\ machine'.usec = machine.usec /\ machine'.phase = machine.phase
  BY DEF IInv, Steady
<1> SUFFICES Kept(machine') /\ UNCHANGED <<options, events>>  BY <1>8
<1> HIDE DEF Kept, m
<1>9. CASE Halt
  BY <1>7, <1>9 DEF Halt, Guest, m
<1>10. CASE Interrupt
  BY <1>7, <1>10 DEF Interrupt, m
<1>11. CASE Acknowledge
  <2>1. m.irq \ {"alarm", "job", "input"} \in SUBSET IrqBits  BY <1>2
  <2>2. /\ machine' = [m EXCEPT !.irq = m.irq \ {"alarm", "job", "input"}]
        /\ UNCHANGED <<options, events>>
    BY <1>11 DEF Acknowledge, Guest, m
  <2> QED  BY <1>4, <2>1, <2>2
<1>12. ASSUME NEW i \in Timers, NEW t \in TimerRecords, SetTimer(i, t)
       PROVE  Kept(machine') /\ UNCHANGED <<options, events>>
  <2>1. [m.timer EXCEPT ![i] = t] \in [Timers -> TimerRecords]  BY <1>2
  <2>2. machine' = [m EXCEPT !.timer = [m.timer EXCEPT ![i] = t]] /\ UNCHANGED <<options, events>>
    BY <1>1, <1>12 DEF SetTimer, Guest, Machines, m
  <2> QED  BY <1>3, <2>1, <2>2
<1>13. ASSUME NEW i \in Timers, NEW c \in Counters, NEW enabled \in BOOLEAN,
              NEW repeat \in BOOLEAN, WriteTimer(i, enabled, repeat, c)
       PROVE  Kept(machine') /\ UNCHANGED <<options, events>>
  <2> DEFINE val == IF enabled /\ ~m.timer[i].enabled THEN c ELSE m.timer[i].val
             t == [enabled |-> enabled, repeat |-> repeat, counter |-> c, val |-> val]
  <2>1. m.timer[i] \in TimerRecords /\ c \in Nat  BY <1>2, Sizes
  <2>2. val \in Nat  BY <2>1 DEF TimerRecords
  <2>3. SetTimer(i, t)  BY <1>13 DEF WriteTimer, m
  <2> HIDE DEF val
  <2>4. t \in TimerRecords  BY <2>1, <2>2 DEF TimerRecords
  <2> HIDE DEF t
  <2> QED  BY <1>12, <2>3, <2>4
<1>14. ASSUME NEW i \in Timers, NEW c \in Counters, WriteValue(i, c)
       PROVE  Kept(machine') /\ UNCHANGED <<options, events>>
  <2>1. m.timer[i] \in TimerRecords /\ c \in Nat  BY <1>2, Sizes
  <2>2. [m.timer[i] EXCEPT !.val = c] \in TimerRecords  BY <2>1 DEF TimerRecords
  <2>3. SetTimer(i, [m.timer[i] EXCEPT !.val = c])  BY <1>14 DEF WriteValue, m
  <2> QED  BY <1>12, <2>2, <2>3
<1>15. ASSUME NEW i \in Timers, ReadValue(i)
       PROVE  Kept(machine') /\ UNCHANGED <<options, events>>
  <2>1. m.irq \ {i} \in SUBSET IrqBits  BY <1>2
  <2>2. machine' = [m EXCEPT !.irq = m.irq \ {i}] /\ UNCHANGED <<options, events>>
    BY <1>15 DEF ReadValue, Guest, m
  <2> QED  BY <1>4, <2>1, <2>2
<1>16. ASSUME NEW u \in Uarts, SetUart(u)
       PROVE  Kept(machine') /\ UNCHANGED <<options, events>>
  <2> DEFINE irq == Bits(m.irq, "serial", u.enabled /\ u.pending)
  <2>1. irq \in SUBSET IrqBits  BY <1>2 DEF Bits, IrqBits
  <2>2. machine' = [m EXCEPT !.uart = u, !.irq = irq] /\ UNCHANGED <<options, events>>
    BY <1>1, <1>16 DEF SetUart, Guest, Machines, m
  <2> HIDE DEF irq
  <2> QED  BY <1>5, <2>1, <2>2
<1>17. ASSUME NEW on \in BOOLEAN, WriteLcr(on) \/ WriteIer(on) \/ WriteFcr(on)
       PROVE  Kept(machine') /\ UNCHANGED <<options, events>>
  <2> DEFINE u == m.uart
  <2>1. u.enabled \in BOOLEAN /\ u.pending \in BOOLEAN /\ u.dlab \in BOOLEAN  BY <1>2
  <2>2. \A p \in BOOLEAN : [u EXCEPT !.pending = p] \in Uarts  BY <1>2
  <2>3. \A e, p \in BOOLEAN : [u EXCEPT !.enabled = e, !.pending = p] \in Uarts  BY <1>2
  <2>4. CASE WriteLcr(on)
    <3>1. [u EXCEPT !.dlab = on] \in Uarts  BY <1>2
    <3>2. SetUart([u EXCEPT !.dlab = on])  BY <2>4 DEF WriteLcr, m
    <3> QED  BY <1>16, <3>1, <3>2
  <2>5. CASE WriteIer(on)
    <3> DEFINE p == u.pending \/ (on /\ ~u.enabled)
               v == IF u.dlab THEN u ELSE [u EXCEPT !.enabled = on, !.pending = p]
    <3>1. p \in BOOLEAN  OBVIOUS
    <3>2. SetUart(v)  BY <1>2, <2>5 DEF WriteIer, m
    <3> HIDE DEF p
    <3>3. v \in Uarts  BY <1>2, <2>3, <3>1
    <3> QED  BY <1>16, <3>2, <3>3
  <2>6. CASE WriteFcr(on)
    <3> DEFINE p == u.pending \/ (on /\ u.enabled)
    <3>1. p \in BOOLEAN  OBVIOUS
    <3>2. SetUart([u EXCEPT !.pending = p])  BY <1>2, <2>6 DEF WriteFcr, m
    <3> HIDE DEF p
    <3> QED  BY <1>16, <2>2, <3>1, <3>2
  <2> QED  BY <1>17, <2>4, <2>5, <2>6
<1>18. CASE WriteByte
  <2> DEFINE v == IF m.uart.dlab THEN m.uart ELSE [m.uart EXCEPT !.pending = m.uart.enabled]
  <2>1. v \in Uarts  BY <1>2
  <2>2. SetUart(v)  BY <1>2, <1>18 DEF WriteByte, m
  <2> HIDE DEF v
  <2> QED  BY <1>16, <2>1, <2>2
<1>19. CASE ReadIir
  <2> DEFINE p == m.uart.pending /\ ~m.uart.enabled
  <2>1. p \in BOOLEAN  OBVIOUS
  <2>2. SetUart([m.uart EXCEPT !.pending = p])  BY <1>2, <1>19 DEF ReadIir, m
  <2> HIDE DEF p
  <2>3. [m.uart EXCEPT !.pending = p] \in Uarts  BY <1>2, <2>1
  <2> QED  BY <1>16, <2>2, <2>3
<1>20. ASSUME NEW d \in Durations, StartAlarm(d) \/ StartJob(d)
       PROVE  Kept(machine') /\ UNCHANGED <<options, events>>
  <2>1. d \in Nat  BY Sizes
  <2>2. m.device_ticks + d \in Nat  BY <1>2, <2>1
  <2>3. CASE StartAlarm(d)
    <3>1. machine' = [m EXCEPT !.alarm = m.device_ticks + d] /\ UNCHANGED <<options, events>>
      BY <2>3 DEF StartAlarm, Guest, m
    <3> QED  BY <1>6, <2>2, <3>1
  <2>4. CASE StartJob(d)
    <3>1. machine' = [m EXCEPT !.job = d] /\ UNCHANGED <<options, events>>
      BY <2>4 DEF StartJob, Guest, m
    <3> QED  BY <1>6, <2>1, <3>1
  <2> QED  BY <1>20, <2>3, <2>4
<1> QED
  BY <1>9, <1>10, <1>11, <1>13, <1>14, <1>15, <1>17, <1>18, <1>19, <1>20 DEF IdleGuest

\* At the start nothing runs.
LEMMA InitKeeps ==
  ASSUME IdleInit PROVE IInv /\ (WholeSlices => Whole(machine))
<1>1. options \in Options /\ machine = Machine  BY DEF IdleInit
<1>2. events \in Seq(Events)
  <2>1. events = <<>> \/ \E s \in Scripts : events = ScriptEvents(s)  BY DEF IdleInit
  <2>2. <<>> \in Seq(Events)  OBVIOUS
  <2> QED  BY <2>1, <2>2, ScriptEventsType
<1>3. Len(events) \in Nat  BY <1>2
<1>4. options.divider \in Nat /\ options.divider > 0 /\ Budget \in Nat  BY <1>1, Sizes
<1> DEFINE timer == [i \in Timers |-> Timer]
<1>5. timer \in [Timers -> TimerRecords]
  <2>1. Timer \in TimerRecords  BY DEF Timer, TimerRecords
  <2> QED  BY <2>1
<1>6. Uart \in [enabled : BOOLEAN, pending : BOOLEAN, dlab : BOOLEAN]  BY DEF Uart
<1> HIDE DEF timer
<1>7. machine = [device_ticks |-> 0, usec |-> 0, phase |-> 0, timer |-> timer, uart |-> Uart,
                 alarm |-> 0, job |-> 0, irq |-> {}, halted |-> FALSE, cursor |-> 0,
                 wait_left |-> 0, polled |-> 0, remaining |-> Budget, scheduled |-> 0]
  BY <1>1 DEF Machine, timer
<1>8. machine \in Machines  BY <1>4, <1>5, <1>6, <1>7 DEF Machines
<1>9. machine.phase = 0 /\ machine.cursor = 0 /\ machine.remaining = Budget  BY <1>7
<1> QED  BY <1>1, <1>2, <1>3, <1>4, <1>8, <1>9 DEF IInv, Steady, WholeSlices, Whole

\* A round of the loop.
LEMMA IterateKeeps ==
  ASSUME IInv, Iterate
  PROVE  IInv'
<1>1. /\ Steady(machine) /\ options \in Options /\ events \in Seq(Events)
      /\ machine.remaining > 0 /\ UNCHANGED <<options, events>>
  BY DEF IInv, Iterate
<1>2. Steady(machine')
  <2>1. CASE AdvanceTicks(machine) > 1
    <3> DEFINE k == AdvanceTicks(machine)
    <3>1. k \in Nat  BY <1>1, <2>1, Limits
    <3>2. machine' = Skip(machine, k)  BY <2>1 DEF Iterate
    <3> HIDE DEF k
    <3> QED  BY <1>1, <3>1, <3>2, SkipKeeps
  <2>2. CASE ~(AdvanceTicks(machine) > 1)
    <3>1. machine' = Step(machine)  BY <2>2 DEF Iterate
    <3> QED  BY <1>1, <3>1, StepKeeps
  <2> QED  BY <2>1, <2>2
<1> QED  BY <1>1, <1>2 DEF IInv, Steady

\* Every step keeps the invariant.
LEMMA NextKeeps ==
  ASSUME IInv, [IdleNext]_idleVars PROVE IInv'
<1>1. CASE Iterate  BY <1>1, IterateKeeps
<1>2. CASE IdleGuest \/ Interrupt  BY <1>2, GuestKeeps
<1>3. CASE UNCHANGED idleVars  BY <1>3 DEF IInv, Steady, idleVars
<1> QED  BY <1>1, <1>2, <1>3 DEF IdleNext

\* A round of the loop that may skip, in one piece or tick by tick.
LEMMA WholeRound ==
  ASSUME SkipsUndivided, IInv, Whole(machine), Iterate
  PROVE  /\ Whole(machine')
         /\ \E k \in 1 .. MaxSkip :
              /\ machine'.device_ticks = machine.device_ticks + k
              /\ \/ k = 1 /\ machine' = Step(machine)
                 \/ Ready(machine, k) /\ machine' = Skip(machine, k)
<1>1. /\ Steady(machine) /\ options \in Options /\ events \in Seq(Events)
      /\ machine.remaining > 0
  BY DEF IInv, Iterate
<1>2. CASE AdvanceTicks(machine) > 1
  <2> DEFINE k == AdvanceTicks(machine)
  <2>1. k \in Nat /\ k <= MaxSkip /\ Ready(machine, k)  BY <1>1, <1>2, SkipsReady
  <2>2. machine' = Skip(machine, k)  BY <1>2 DEF Iterate
  <2> HIDE DEF k
  <2>3. k # 0 /\ k \in 1 .. MaxSkip
    <3>1. k > 1  BY <1>2 DEF k
    <3>2. MaxSkip \in Nat  BY Sizes
    <3> QED  BY <2>1, <3>1, <3>2
  <2>4. machine'.device_ticks = machine.device_ticks + k
    BY <1>1, <2>1, <2>2, SkipKeeps
  <2>5. Whole(machine')  BY <1>1, <2>1, <2>2, <2>3, SkipWhole
  <2> QED  BY <2>1, <2>2, <2>3, <2>4, <2>5
<1>3. CASE ~(AdvanceTicks(machine) > 1)
  <2>1. machine' = Step(machine)  BY <1>3 DEF Iterate
  <2>2. Whole(machine') /\ machine'.device_ticks = machine.device_ticks + 1
    BY <1>1, <2>1, StepKeeps
  <2>3. 1 \in 1 .. MaxSkip
    <3>1. MaxSkip \in Nat /\ MaxSkip > 0  BY Sizes
    <3> QED  BY <3>1
  <2> QED  BY <2>1, <2>2, <2>3
<1> QED  BY <1>2, <1>3

\* The budget stays whole slices.
LEMMA WholeKeeps ==
  ASSUME SkipsUndivided, IInv, Whole(machine), [IdleNext]_idleVars PROVE Whole(machine')
<1>1. CASE Iterate  BY <1>1, WholeRound
<1>2. CASE IdleGuest \/ Interrupt
  <2>1. machine'.remaining = machine.remaining  BY <1>2, GuestKeeps
  <2> QED  BY <2>1 DEF Whole
<1>3. CASE UNCHANGED idleVars  BY <1>3 DEF Whole, idleVars
<1> QED  BY <1>1, <1>2, <1>3 DEF IdleNext

-----------------------------------------------------------------------------
(***************************************************************************)
(* A skip is so many ticks.                                                *)
(***************************************************************************)

\* The ticks of a step, one by one, reach what the step reaches, and none
\* before the last raises an interrupt.
LEMMA SkipIsTicks ==
  ASSUME SkipsUndivided, IInv, Whole(machine), [IdleNext]_idleVars,
         NEW ticks, ticks = machine'.device_ticks - machine.device_ticks, ticks > 0,
         NEW f, \A n \in 0 .. MaxSkip : f[n] = IF n = 0 THEN machine ELSE Step(f[n - 1])
  PROVE  machine' = f[ticks] /\ \A n \in 1 .. ticks - 1 : f[n].irq = {}
<1>1. /\ machine \in Machines /\ options \in Options /\ events \in Seq(Events)
      /\ MaxSkip \in Nat /\ MaxSkip > 0
  BY Sizes DEF IInv, Steady
<1>2. machine.device_ticks \in Nat  BY <1>1 DEF Machines
<1>3. Iterate
  <2>1. ~(IdleGuest \/ Interrupt)
    <3>1. IdleGuest \/ Interrupt => machine'.device_ticks = machine.device_ticks
      BY GuestKeeps
    <3> QED  BY <1>2, <3>1
  <2>2. ~UNCHANGED idleVars
    <3>1. UNCHANGED idleVars => machine'.device_ticks = machine.device_ticks
      BY DEF idleVars
    <3> QED  BY <1>2, <3>1
  <2> QED  BY <2>1, <2>2 DEF IdleNext
<1>4. PICK k \in 1 .. MaxSkip :
        /\ machine'.device_ticks = machine.device_ticks + k
        /\ \/ k = 1 /\ machine' = Step(machine)
           \/ Ready(machine, k) /\ machine' = Skip(machine, k)
  BY <1>3, WholeRound
<1>5. ticks = k /\ k \in Nat /\ k # 0 /\ k <= MaxSkip  BY <1>2, <1>4
<1>6. CASE k = 1 /\ machine' = Step(machine)
  <2>1. 0 \in 0 .. MaxSkip /\ 1 \in 0 .. MaxSkip /\ 1 - 1 = 0  BY <1>1
  <2>2. f[0] = machine  BY <2>1
  <2>3. f[1] = Step(f[0])  BY <2>1
  <2>4. \A n \in 1 .. ticks - 1 : FALSE  BY <1>5, <1>6
  <2> QED  BY <1>5, <1>6, <2>2, <2>3, <2>4
<1>7. CASE Ready(machine, k) /\ machine' = Skip(machine, k)
  <2>1. ASSUME NEW n \in 1 .. k
        PROVE  f[n] = TickAlarm(Glide(machine, n)) /\ f[n - 1] = Glide(machine, n - 1)
    BY <1>1, <1>5, <1>7, TicksGlide
  <2>2. machine' = f[k]
    <3>1. k \in 1 .. k  BY <1>5
    <3>2. Skip(machine, k) = TickAlarm(Glide(machine, k))  BY <1>1, <1>5, <1>7, SkipGlides
    <3> QED  BY <1>7, <2>1, <3>1, <3>2
  <2>3. ASSUME NEW n \in 1 .. k - 1 PROVE f[n].irq = {}
    <3>1. n + 1 \in 1 .. k /\ (n + 1) - 1 = n  BY <1>5
    <3>2. f[n] = Glide(machine, n)  BY <2>1, <3>1
    <3>3. Glide(machine, n).irq = {}  BY <1>1, <1>7 DEF Glide, Ready, Machines
    <3> QED  BY <3>2, <3>3
  <2> QED  BY <1>5, <2>2, <2>3
<1> QED  BY <1>4, <1>6, <1>7

\* A skip of idle time leaves what its ticks, made one by one, would have left,
\* and none of them but the last would have raised an interrupt: n1g_bus_advance
\* and the loop of main.c, for any script, any polls and any longest skip.
THEOREM SkipEqualsTicksCorrect ==
  ASSUME SkipsUndivided, WholeSlices
  PROVE  IdleSpec => SkipEqualsTicks
<1> DEFINE WInv == IInv /\ Whole(machine)
<1>1. IdleInit => WInv  BY InitKeeps
<1>2. WInv /\ [IdleNext]_idleVars => WInv'  BY NextKeeps, WholeKeeps DEF Whole
<1>3. WInv /\ [IdleNext]_idleVars => SameAsTicks
  <2> SUFFICES ASSUME WInv, [IdleNext]_idleVars PROVE SameAsTicks  OBVIOUS
  <2> DEFINE ticks == machine'.device_ticks - machine.device_ticks
             after == CHOOSE f : f = [n \in 0 .. MaxSkip |->
                                        IF n = 0 THEN machine ELSE Step(f[n - 1])]
  <2>1. after = [n \in 0 .. MaxSkip |-> IF n = 0 THEN machine ELSE Step(after[n - 1])]
    <3>1. MaxSkip \in Nat  BY Sizes
    <3>2. Ticked(machine, MaxSkip)  BY <3>1, TickedExists
    <3> QED  BY <3>2 DEF Ticked
  <2>2. SameAsTicks <=> (ticks > 0 => /\ machine' = after[ticks]
                                      /\ \A n \in 1 .. ticks - 1 : after[n].irq = {})
    BY DEF SameAsTicks
  <2> HIDE DEF after, ticks
  <2>3. \A n \in 0 .. MaxSkip : after[n] = IF n = 0 THEN machine ELSE Step(after[n - 1])
    BY <2>1
  <2>4. ticks > 0 => /\ machine' = after[ticks]
                     /\ \A n \in 1 .. ticks - 1 : after[n].irq = {}
    BY <2>3, SkipIsTicks DEF ticks
  <2> QED  BY <2>2, <2>4
<1> HIDE DEF WInv
<1> QED  BY <1>1, <1>2, <1>3, PTL DEF IdleSpec, SkipEqualsTicks

-----------------------------------------------------------------------------
(***************************************************************************)
(* The script and the polls come at their ticks.                           *)
(***************************************************************************)

\* The waits can be summed.
Sums(n) == \E f : f = [j \in 0 .. n |-> IF j = 0 THEN 0 ELSE f[j - 1] + events[j].ticks]

LEMMA SumExists ==
  ASSUME NEW n \in Nat PROVE Sums(n)
<1> DEFINE P == {i \in 0 .. n : Sums(i)}
<1>1. 0 \in P
  <2> DEFINE f == [i \in 0 .. 0 |-> 0]
  <2>1. f = [i \in 0 .. 0 |-> IF i = 0 THEN 0 ELSE f[i - 1] + events[i].ticks]  OBVIOUS
  <2> HIDE DEF f
  <2>2. Sums(0)  BY <2>1 DEF Sums
  <2>3. 0 \in 0 .. n  OBVIOUS
  <2> QED  BY <2>2, <2>3
<1>2. ASSUME NEW j \in 1 .. n, j - 1 \in P PROVE j \in P
  <2>1. PICK f : f = [i \in 0 .. j - 1 |-> IF i = 0 THEN 0 ELSE f[i - 1] + events[i].ticks]
    BY <1>2 DEF Sums
  <2> DEFINE last == f[j - 1] + events[j].ticks
             g == [i \in 0 .. j |-> IF i = j THEN last ELSE f[i]]
  <2>2. ASSUME NEW i \in 0 .. j
        PROVE  g[i] = IF i = 0 THEN 0 ELSE g[i - 1] + events[i].ticks
    <3>1. CASE i = j
      <4>1. i # 0 /\ i - 1 \in 0 .. j /\ i - 1 # j  BY <3>1
      <4>2. g[i] = last /\ g[i - 1] = f[i - 1]
        <5> HIDE DEF last
        <5> QED  BY <3>1, <4>1
      <4> QED  BY <3>1, <4>1, <4>2
    <3>2. CASE i # j
      <4> HIDE DEF last
      <4>1. i \in 0 .. j - 1 /\ g[i] = f[i]  BY <3>2
      <4>2. i # 0 => g[i - 1] = f[i - 1]
        <5>1. i # 0 => i - 1 \in 0 .. j /\ i - 1 # j  BY <3>2
        <5> QED  BY <5>1
      <4>3. f[i] = IF i = 0 THEN 0 ELSE f[i - 1] + events[i].ticks  BY <2>1, <4>1
      <4> QED  BY <4>1, <4>2, <4>3
    <3> QED  BY <3>1, <3>2
  <2>3. g = [i \in 0 .. j |-> g[i]]  OBVIOUS
  <2> HIDE DEF g
  <2>4. g = [i \in 0 .. j |-> IF i = 0 THEN 0 ELSE g[i - 1] + events[i].ticks]
    BY <2>2, <2>3
  <2>5. Sums(j)  BY <2>4 DEF Sums
  <2>6. j \in 0 .. n  OBVIOUS
  <2> QED  BY <2>5, <2>6
<1> HIDE DEF P
<1>3. \A i \in 0 .. n : i \in P  BY <1>1, <1>2, UpTo
<1>4. n \in 0 .. n  OBVIOUS
<1> QED  BY <1>3, <1>4 DEF P

\* Each event adds its wait to what comes before it.
LEMMA WaitIs ==
  ASSUME events \in Seq(Events)
  PROVE  /\ WaitBefore(1) = 0
         /\ \A k \in 1 .. Len(events) : /\ WaitBefore(k + 1) = WaitBefore(k) + events[k].ticks
                                        /\ events[k].ticks \in Nat
         /\ \A k \in 1 .. Len(events) + 1 : WaitBefore(k) \in Nat
<1> DEFINE n == Len(events)
           sum == CHOOSE f : f = [j \in 0 .. n |->
                                    IF j = 0 THEN 0 ELSE f[j - 1] + events[j].ticks]
<1>1. n \in Nat  OBVIOUS
<1>2. \A k \in 1 .. n : events[k].ticks \in Nat
  <2>1. \A k \in 1 .. n : events[k] \in Events  OBVIOUS
  <2> QED  BY <2>1 DEF Events
<1>3. \A k : WaitBefore(k) = sum[k - 1]  BY DEF WaitBefore
<1> HIDE DEF n
<1>4. sum = [j \in 0 .. n |-> IF j = 0 THEN 0 ELSE sum[j - 1] + events[j].ticks]
  <2>1. Sums(n)  BY <1>1, SumExists
  <2> QED  BY <2>1 DEF Sums
<1> HIDE DEF sum
<1>5. \A j \in 0 .. n : sum[j] = IF j = 0 THEN 0 ELSE sum[j - 1] + events[j].ticks
  BY <1>4
<1>6. \A j \in 0 .. n : sum[j] \in Nat
  <2> DEFINE P == {j \in 0 .. n : sum[j] \in Nat}
  <2>1. 0 \in P  BY <1>1, <1>5
  <2>2. ASSUME NEW j \in 1 .. n, j - 1 \in P PROVE j \in P
    <3>1. j \in 0 .. n /\ j # 0 /\ sum[j - 1] \in Nat  BY <2>2
    <3>2. sum[j] = sum[j - 1] + events[j].ticks  BY <1>5, <3>1
    <3>3. events[j].ticks \in Nat  BY <1>2
    <3> QED  BY <3>1, <3>2, <3>3
  <2> HIDE DEF P
  <2>3. \A j \in 0 .. n : j \in P  BY <1>1, <2>1, <2>2, UpTo
  <2> QED  BY <2>3 DEF P
<1>7. WaitBefore(1) = 0
  <2>1. 0 \in 0 .. n /\ 1 - 1 = 0  BY <1>1
  <2> QED  BY <1>3, <1>5, <2>1
<1>8. ASSUME NEW k \in 1 .. n PROVE WaitBefore(k + 1) = WaitBefore(k) + events[k].ticks
  <2>1. k \in 0 .. n /\ (k + 1) - 1 = k /\ k # 0  BY <1>1
  <2>2. WaitBefore(k + 1) = sum[k] /\ WaitBefore(k) = sum[k - 1]
    <3>1. WaitBefore(k + 1) = sum[(k + 1) - 1]  BY <1>3
    <3> QED  BY <1>3, <2>1, <3>1
  <2> QED  BY <1>5, <2>1, <2>2
<1>9. ASSUME NEW k \in 1 .. n + 1 PROVE WaitBefore(k) \in Nat
  <2>1. k - 1 \in 0 .. n  BY <1>1
  <2> QED  BY <1>3, <1>6, <2>1
<1> QED  BY <1>2, <1>7, <1>8, <1>9 DEF n

\* The waits before a later event are no less, and the same if none lies between.
LEMMA WaitMono ==
  ASSUME events \in Seq(Events), NEW j \in 1 .. Len(events) + 1,
         NEW k \in 1 .. Len(events) + 1, j <= k
  PROVE  /\ WaitBefore(j) <= WaitBefore(k)
         /\ (\A i \in j .. k - 1 : events[i].ticks = 0) => WaitBefore(k) = WaitBefore(j)
<1> DEFINE n == k - j
           P == {d \in 0 .. n :
                   /\ WaitBefore(j) <= WaitBefore(j + d)
                   /\ (\A i \in j .. (j + d) - 1 : events[i].ticks = 0)
                        => WaitBefore(j + d) = WaitBefore(j)}
<1>1. Len(events) \in Nat /\ n \in Nat  OBVIOUS
<1>2. \A i \in 1 .. Len(events) + 1 : WaitBefore(i) \in Nat  BY WaitIs
<1>3. 0 \in P
  <2>1. j + 0 = j  OBVIOUS
  <2> QED  BY <1>1, <1>2, <2>1
<1>4. ASSUME NEW d \in 1 .. n, d - 1 \in P PROVE d \in P
  <2> DEFINE a == j + (d - 1)
  <2>1. a \in 1 .. Len(events) /\ j + d = a + 1 /\ a + 1 \in 1 .. Len(events) + 1
        /\ a \in 1 .. Len(events) + 1 /\ (j + d) - 1 = a /\ d \in 0 .. n
    BY <1>1
  <2>2. /\ WaitBefore(j) <= WaitBefore(a)
        /\ (\A i \in j .. a - 1 : events[i].ticks = 0) => WaitBefore(a) = WaitBefore(j)
    BY <1>4
  <2> HIDE DEF a, n
  <2>3. WaitBefore(a + 1) = WaitBefore(a) + events[a].ticks /\ events[a].ticks \in Nat
    BY <2>1, WaitIs
  <2>4. WaitBefore(j) \in Nat /\ WaitBefore(a) \in Nat  BY <1>2, <2>1
  <2>5. WaitBefore(j) <= WaitBefore(a + 1)  BY <2>2, <2>3, <2>4
  <2>6. ASSUME \A i \in j .. a : events[i].ticks = 0
        PROVE  WaitBefore(a + 1) = WaitBefore(j)
    <3>1. \A i \in j .. a - 1 : i \in j .. a  BY <2>1
    <3>2. a \in j .. a  BY <2>1 DEF a
    <3>3. events[a].ticks = 0 /\ WaitBefore(a) = WaitBefore(j)  BY <2>2, <2>6, <3>1, <3>2
    <3> QED  BY <2>3, <2>4, <3>3
  <2> QED  BY <2>1, <2>5, <2>6
<1> HIDE DEF P
<1>5. \A d \in 0 .. n : d \in P  BY <1>1, <1>3, <1>4, UpTo
<1>6. n \in P /\ j + n = k
  <2>1. n \in 0 .. n  BY <1>1
  <2> QED  BY <1>5, <2>1
<1> QED  BY <1>6 DEF P

\* Where the script stands: at the wait that is running, or past its end; and
\* the last poll.
Scripted(m) ==
  \/ /\ m.device_ticks + m.wait_left = WaitBefore(m.cursor + 1)
     /\ IF m.cursor = 0 THEN m.wait_left = 0 ELSE m.wait_left < events[m.cursor].ticks
  \/ /\ m.cursor = Len(events) /\ m.wait_left = 0
     /\ m.device_ticks > WaitBefore(Len(events) + 1)

Polled(m) ==
  m.polled % PollEvery = 0 /\ m.device_ticks = m.polled + (m.device_ticks % PollEvery)

\* A tick moves the script to the event that is due.
LEMMA ScriptedTick ==
  ASSUME events \in Seq(Events), NEW m \in Machines, NEW b \in Machines,
         m.cursor <= Len(events), Scripted(m), Moved(m, b),
         b.device_ticks = m.device_ticks + 1
  PROVE  Scripted(b)
<1>1. /\ m.device_ticks \in Nat /\ m.wait_left \in Nat /\ m.cursor \in Nat
      /\ Len(events) \in Nat /\ b.cursor \in Nat /\ b.wait_left \in Nat
  BY DEF Machines
<1>2. \A k \in 1 .. Len(events) + 1 : WaitBefore(k) \in Nat  BY WaitIs
<1>3. m.cursor + 1 \in 1 .. Len(events) + 1 /\ Len(events) + 1 \in 1 .. Len(events) + 1
  BY <1>1
<1>4. CASE m.wait_left > 0 /\ b.cursor = m.cursor /\ b.wait_left = m.wait_left - 1
  <2>1. /\ m.device_ticks + m.wait_left = WaitBefore(m.cursor + 1)
        /\ m.cursor # 0 /\ m.wait_left < events[m.cursor].ticks
    BY <1>1, <1>4 DEF Scripted
  <2>2. b.device_ticks + b.wait_left = WaitBefore(b.cursor + 1)  BY <1>1, <1>4, <2>1
  <2>3. events[m.cursor].ticks \in Nat
    <3>1. m.cursor \in 1 .. Len(events)  BY <1>1, <2>1
    <3> QED  BY <3>1, WaitIs
  <2>4. b.cursor # 0 /\ b.wait_left < events[b.cursor].ticks  BY <1>1, <1>4, <2>1, <2>3
  <2> QED  BY <2>2, <2>4 DEF Scripted
<1>5. CASE /\ m.wait_left = 0 /\ b.cursor = Len(events) /\ b.wait_left = 0
           /\ \A k \in m.cursor + 1 .. Len(events) : events[k].ticks = 0
  <2>1. WaitBefore(Len(events) + 1) <= m.device_ticks
    <3>1. CASE m.device_ticks + m.wait_left = WaitBefore(m.cursor + 1)
      <4>1. m.device_ticks = WaitBefore(m.cursor + 1)  BY <1>1, <1>5, <3>1
      <4>2. \A k \in m.cursor + 1 .. (Len(events) + 1) - 1 : events[k].ticks = 0
        BY <1>1, <1>5
      <4>3. m.cursor + 1 <= Len(events) + 1  BY <1>1
      <4>4. WaitBefore(Len(events) + 1) = WaitBefore(m.cursor + 1)
        BY <1>3, <4>2, <4>3, WaitMono
      <4> QED  BY <1>1, <4>1, <4>4
    <3>2. CASE m.device_ticks > WaitBefore(Len(events) + 1)  BY <1>1, <1>2, <1>3, <3>2
    <3> QED  BY <3>1, <3>2 DEF Scripted
  <2>2. b.device_ticks > WaitBefore(Len(events) + 1)  BY <1>1, <1>2, <1>3, <2>1
  <2> QED  BY <1>5, <2>2 DEF Scripted
<1>6. CASE /\ m.wait_left = 0 /\ b.cursor \in m.cursor + 1 .. Len(events)
           /\ events[b.cursor].ticks > 0 /\ b.wait_left = events[b.cursor].ticks - 1
           /\ \A k \in m.cursor + 1 .. b.cursor - 1 : events[k].ticks = 0
  <2>1. m.device_ticks = WaitBefore(m.cursor + 1)
    <3>1. m.cursor # Len(events)  BY <1>1, <1>6
    <3> QED  BY <1>1, <1>6, <3>1 DEF Scripted
  <2>2. b.cursor \in 1 .. Len(events) /\ b.cursor \in 1 .. Len(events) + 1 /\ b.cursor # 0
        /\ m.cursor + 1 <= b.cursor
    BY <1>1, <1>6
  <2>3. WaitBefore(b.cursor) = WaitBefore(m.cursor + 1)  BY <1>3, <1>6, <2>2, WaitMono
  <2>4. /\ WaitBefore(b.cursor + 1) = WaitBefore(b.cursor) + events[b.cursor].ticks
        /\ events[b.cursor].ticks \in Nat
    BY <2>2, WaitIs
  <2>5. b.device_ticks + b.wait_left = WaitBefore(b.cursor + 1)
    <3> DEFINE t == events[b.cursor].ticks
               w == WaitBefore(b.cursor)
    <3>1. b.wait_left = t - 1 /\ t \in Nat /\ WaitBefore(b.cursor + 1) = w + t
      BY <1>6, <2>4
    <3>2. b.device_ticks = w + 1 /\ w \in Nat  BY <1>1, <2>1, <2>3
    <3> HIDE DEF t, w
    <3> QED  BY <3>1, <3>2
  <2>6. b.wait_left < events[b.cursor].ticks  BY <1>6, <2>4
  <2> QED  BY <2>2, <2>5, <2>6 DEF Scripted
<1> QED  BY <1>4, <1>5, <1>6 DEF Moved

\* A skip ends within the wait, or passes time after the end.
LEMMA ScriptedSkip ==
  ASSUME events \in Seq(Events), NEW m \in Machines, NEW b \in Machines,
         m.cursor <= Len(events), Scripted(m), NEW k \in Nat, k > 1,
         IF m.wait_left = 0 THEN m.cursor = Len(events) ELSE k <= m.wait_left,
         b.device_ticks = m.device_ticks + k, b.cursor = m.cursor,
         b.wait_left = m.wait_left - Smaller(k, m.wait_left)
  PROVE  Scripted(b)
<1>1. /\ m.device_ticks \in Nat /\ m.wait_left \in Nat /\ m.cursor \in Nat
      /\ Len(events) \in Nat
  BY DEF Machines
<1>2. WaitBefore(Len(events) + 1) \in Nat
  <2>1. Len(events) + 1 \in 1 .. Len(events) + 1  BY <1>1
  <2> QED  BY <2>1, WaitIs
<1>3. CASE m.wait_left = 0
  <2>1. b.wait_left = 0 /\ m.cursor = Len(events)
    <3>1. Smaller(k, m.wait_left) = 0  BY <1>3 DEF Smaller
    <3>2. b.wait_left = m.wait_left - Smaller(k, m.wait_left)  OBVIOUS
    <3>3. m.cursor = Len(events)  BY <1>3
    <3> QED  BY <1>3, <3>1, <3>2, <3>3
  <2>2. WaitBefore(Len(events) + 1) <= m.device_ticks
    BY <1>1, <1>2, <1>3, <2>1 DEF Scripted
  <2>3. b.device_ticks > WaitBefore(Len(events) + 1)  BY <1>1, <1>2, <2>2
  <2> QED  BY <2>1, <2>3 DEF Scripted
<1>4. CASE m.wait_left # 0
  <2>1. b.wait_left = m.wait_left - k /\ k <= m.wait_left  BY <1>1, <1>4 DEF Smaller
  <2>2. /\ m.device_ticks + m.wait_left = WaitBefore(m.cursor + 1)
        /\ m.cursor # 0 /\ m.wait_left < events[m.cursor].ticks
    BY <1>4 DEF Scripted
  <2>3. events[m.cursor].ticks \in Nat
    <3>1. m.cursor \in 1 .. Len(events)  BY <1>1, <2>2
    <3> QED  BY <3>1, WaitIs
  <2>4. b.device_ticks + b.wait_left = WaitBefore(b.cursor + 1)  BY <1>1, <2>1, <2>2
  <2>5. b.wait_left < events[b.cursor].ticks  BY <1>1, <2>1, <2>2, <2>3
  <2> QED  BY <2>2, <2>4, <2>5 DEF Scripted
<1> QED  BY <1>3, <1>4

\* The server is polled at the tick that is due.
LEMMA PolledTick ==
  ASSUME NEW m \in Machines, NEW b \in Machines, Polled(m),
         b.device_ticks = m.device_ticks + 1,
         b.polled = IF b.device_ticks % PollEvery = 0 THEN b.device_ticks ELSE m.polled
  PROVE  Polled(b)
<1> DEFINE n    == m.device_ticks
           rest == n % PollEvery
           p    == n \div PollEvery
<1>1. /\ PollEvery \in Nat /\ PollEvery > 0 /\ n \in Nat /\ m.polled \in Nat
      /\ b.device_ticks = n + 1 /\ n = m.polled + rest /\ m.polled % PollEvery = 0
  BY Sizes DEF Machines, Polled
<1> HIDE DEF n
<1>2. CASE (n + 1) % PollEvery = 0
  <2>1. b.polled = n + 1 /\ n + 1 = (n + 1) + 0  BY <1>1, <1>2
  <2> QED  BY <1>1, <1>2, <2>1 DEF Polled
<1>3. CASE (n + 1) % PollEvery # 0
  <2>1. p \in Nat /\ rest \in 0 .. PollEvery - 1 /\ n = PollEvery * p + rest
    BY <1>1, DivMod
  <2> HIDE DEF p, rest
  <2>2. rest # PollEvery - 1
    <3> SUFFICES ASSUME rest = PollEvery - 1 PROVE FALSE  OBVIOUS
    <3> DEFINE sum == n + 1
               q == p + 1
               none == 0
    <3>1. PollEvery * q = PollEvery * p + PollEvery /\ PollEvery * p \in Nat
      BY <1>1, <2>1
    <3>2. /\ sum = PollEvery * q + none /\ q \in Nat /\ none \in 0 .. PollEvery - 1
          /\ sum \in Nat
      BY <1>1, <2>1, <3>1
    <3> HIDE DEF sum, q, none
    <3>3. sum % PollEvery = none  BY <1>1, <3>2, QuotientIs
    <3> QED  BY <1>3, <3>3 DEF sum, none
  <2>3. rest + 1 <= PollEvery - 1  BY <1>1, <2>1, <2>2
  <2>4. (n + 1) % PollEvery = rest + 1
    <3>1. 1 \in Nat  OBVIOUS
    <3> QED  BY <1>1, <2>3, <3>1, PollIs DEF rest
  <2>5. b.polled = m.polled  BY <1>1, <1>3
  <2>6. n + 1 = m.polled + (rest + 1)  BY <1>1, <2>1
  <2> QED  BY <1>1, <2>4, <2>5, <2>6 DEF Polled
<1> QED  BY <1>2, <1>3

\* A skip ends before the next poll.
LEMMA PolledSkip ==
  ASSUME NEW m \in Machines, NEW b \in Machines, Polled(m), NEW k \in Nat,
         (m.device_ticks % PollEvery) + k <= PollEvery - 1,
         b.device_ticks = m.device_ticks + k, b.polled = m.polled
  PROVE  Polled(b)
<1> DEFINE n    == m.device_ticks
           rest == n % PollEvery
<1>1. /\ PollEvery \in Nat /\ PollEvery > 0 /\ n \in Nat /\ m.polled \in Nat
      /\ n = m.polled + rest /\ m.polled % PollEvery = 0
  BY Sizes DEF Machines, Polled
<1>2. rest \in 0 .. PollEvery - 1  BY <1>1, DivMod
<1>3. (n + k) % PollEvery = rest + k  BY <1>1, PollIs
<1> HIDE DEF rest
<1>4. n + k = m.polled + (rest + k)  BY <1>1, <1>2
<1> QED  BY <1>1, <1>3, <1>4 DEF Polled

\* The loop keeps script and polls on time.
LEMMA OnTimeKeeps ==
  ASSUME IInv, Scripted(machine), Polled(machine), [IdleNext]_idleVars
  PROVE  Scripted(machine)' /\ Polled(machine)'
<1>1. /\ machine \in Machines /\ Steady(machine) /\ options \in Options
      /\ events \in Seq(Events) /\ machine.cursor <= Len(events)
  BY DEF IInv, Steady
<1>2. UNCHANGED events
  <2>1. CASE Iterate  BY <2>1 DEF Iterate
  <2>2. CASE IdleGuest \/ Interrupt  BY <2>2, GuestKeeps
  <2>3. CASE UNCHANGED idleVars  BY <2>3 DEF idleVars
  <2> QED  BY <2>1, <2>2, <2>3 DEF IdleNext
<1>3. Scripted(machine') => Scripted(machine)'
  BY <1>2 DEF Scripted, WaitBefore
<1>4. Polled(machine') => Polled(machine)'  BY DEF Polled
<1>5. machine' \in Machines
  <2>1. IInv'  BY NextKeeps
  <2> QED  BY <2>1 DEF IInv, Steady
<1> SUFFICES Scripted(machine') /\ Polled(machine')  BY <1>3, <1>4
<1>6. CASE Iterate /\ AdvanceTicks(machine) > 1
  <2> DEFINE k == AdvanceTicks(machine)
  <2>1. machine.remaining > 0 /\ machine' = Skip(machine, k)  BY <1>6 DEF Iterate
  <2>2. /\ k \in Nat
        /\ IF machine.wait_left = 0 THEN machine.cursor = Len(events)
           ELSE k <= machine.wait_left
        /\ (machine.device_ticks % PollEvery) + k <= PollEvery - 1
    BY <1>6, <2>1, Limits
  <2>3. k > 1  BY <1>6
  <2> HIDE DEF k
  <2>4. /\ machine'.device_ticks = machine.device_ticks + k
        /\ machine'.cursor = machine.cursor
        /\ machine'.wait_left = machine.wait_left - Smaller(k, machine.wait_left)
        /\ machine'.polled = machine.polled
    BY <1>1, <2>1, <2>2, SkipKeeps
  <2>5. Scripted(machine')  BY <1>1, <1>5, <2>2, <2>3, <2>4, ScriptedSkip
  <2>6. Polled(machine')  BY <1>1, <1>5, <2>2, <2>4, PolledSkip
  <2> QED  BY <2>5, <2>6
<1>7. CASE Iterate /\ ~(AdvanceTicks(machine) > 1)
  <2>1. machine.remaining > 0 /\ machine' = Step(machine)  BY <1>7 DEF Iterate
  <2>2. /\ machine'.device_ticks = machine.device_ticks + 1 /\ Moved(machine, machine')
        /\ machine'.polled = IF machine'.device_ticks % PollEvery = 0
                             THEN machine'.device_ticks ELSE machine.polled
    BY <1>1, <2>1, StepKeeps
  <2>3. Scripted(machine')  BY <1>1, <1>5, <2>2, ScriptedTick
  <2>4. Polled(machine')  BY <1>1, <1>5, <2>2, PolledTick
  <2> QED  BY <2>3, <2>4
<1>8. CASE IdleGuest \/ Interrupt
  <2>1. /\ machine'.device_ticks = machine.device_ticks
        /\ machine'.cursor = machine.cursor /\ machine'.wait_left = machine.wait_left
        /\ machine'.polled = machine.polled
    BY <1>8, GuestKeeps
  <2> QED  BY <2>1 DEF Scripted, Polled
<1>9. CASE UNCHANGED idleVars  BY <1>9 DEF idleVars
<1> QED  BY <1>6, <1>7, <1>8, <1>9 DEF IdleNext

\* So every event has come exactly when its waits have passed.
LEMMA OnTimeShows ==
  ASSUME IInv, Scripted(machine), Polled(machine) PROVE WorldOnTime
<1> DEFINE m == machine
           n == Len(events)
<1>1. /\ m \in Machines /\ events \in Seq(Events) /\ m.cursor <= n
  BY DEF IInv, Steady
<1>2. /\ m.device_ticks \in Nat /\ m.wait_left \in Nat /\ m.cursor \in Nat /\ n \in Nat
      /\ m.polled \in Nat /\ PollEvery \in Nat /\ PollEvery > 0
  BY <1>1, Sizes DEF Machines
<1>3. Scripted(m) /\ Polled(m)  OBVIOUS
<1> HIDE DEF m
<1>4. ASSUME NEW k \in 1 .. n, events[k] = Act
      PROVE  k <= m.cursor <=> m.device_ticks > WaitBefore(k)
  <2>1. events[k].ticks = 0  BY <1>4 DEF Act
  <2>2. \A i \in 1 .. n + 1 : WaitBefore(i) \in Nat  BY <1>1, WaitIs
  <2>3. k \in 1 .. n + 1 /\ m.cursor + 1 \in 1 .. n + 1 /\ n + 1 \in 1 .. n + 1
        /\ k <= n + 1
    BY <1>1, <1>2
  <2>4. /\ WaitBefore(k) \in Nat /\ WaitBefore(m.cursor + 1) \in Nat
        /\ WaitBefore(n + 1) \in Nat
    BY <2>2, <2>3
  <2>5. CASE m.cursor = n /\ m.wait_left = 0 /\ m.device_ticks > WaitBefore(n + 1)
    <3>1. WaitBefore(k) <= WaitBefore(n + 1)  BY <1>1, <2>3, WaitMono
    <3> QED  BY <1>2, <2>4, <2>5, <3>1
  <2>6. CASE /\ m.device_ticks + m.wait_left = WaitBefore(m.cursor + 1)
             /\ IF m.cursor = 0 THEN m.wait_left = 0 ELSE m.wait_left < events[m.cursor].ticks
    <3>1. ASSUME k <= m.cursor PROVE m.device_ticks > WaitBefore(k)
      <4>1. m.cursor \in 1 .. n /\ m.cursor \in 1 .. n + 1 /\ m.cursor # 0  BY <1>1, <1>2, <3>1
      <4>2. m.wait_left < events[m.cursor].ticks  BY <2>6, <4>1
      <4>3. /\ WaitBefore(m.cursor + 1) = WaitBefore(m.cursor) + events[m.cursor].ticks
            /\ events[m.cursor].ticks \in Nat
        BY <1>1, <4>1, WaitIs
      <4>4. WaitBefore(k) <= WaitBefore(m.cursor) /\ WaitBefore(m.cursor) \in Nat
        BY <1>1, <2>2, <2>3, <3>1, <4>1, WaitMono
      <4>5. m.device_ticks + m.wait_left = WaitBefore(m.cursor + 1)  BY <2>6
      <4>6. m.device_ticks > WaitBefore(m.cursor)  BY <1>2, <4>2, <4>3, <4>4, <4>5
      <4> QED  BY <1>2, <2>4, <4>4, <4>6
    <3>2. ASSUME ~(k <= m.cursor) PROVE ~(m.device_ticks > WaitBefore(k))
      <4>1. m.cursor + 1 <= k  BY <1>2, <3>2
      <4>2. WaitBefore(m.cursor + 1) <= WaitBefore(k)  BY <1>1, <2>3, <4>1, WaitMono
      <4> QED  BY <1>2, <2>4, <2>6, <4>2
    <3> QED  BY <3>1, <3>2
  <2> QED  BY <1>3, <2>5, <2>6 DEF Scripted
<1>5. m.device_ticks - m.polled < PollEvery /\ m.polled % PollEvery = 0
  <2> DEFINE rest == m.device_ticks % PollEvery
  <2>1. m.polled % PollEvery = 0 /\ m.device_ticks = m.polled + rest  BY <1>3 DEF Polled
  <2>2. rest \in 0 .. PollEvery - 1  BY <1>2, DivMod
  <2> HIDE DEF rest
  <2> QED  BY <1>2, <2>1, <2>2
<1>6. DOMAIN events = 1 .. n  BY <1>1
<1> QED  BY <1>4, <1>5, <1>6 DEF WorldOnTime, m

\* Skips or not, every event of the script comes exactly at its tick, and the
\* server is polled every so many ticks: for any script, budget and options.
THEOREM WorldOnTimeCorrect == IdleSpec => []WorldOnTime
<1> DEFINE TInv == IInv /\ Scripted(machine) /\ Polled(machine)
<1>1. IdleInit => TInv
  <2> SUFFICES ASSUME IdleInit PROVE TInv  OBVIOUS
  <2>1. IInv  BY InitKeeps
  <2>2. machine.device_ticks = 0 /\ machine.wait_left = 0 /\ machine.cursor = 0
        /\ machine.polled = 0
    BY DEF IdleInit, Machine
  <2>3. WaitBefore(1) = 0  BY <2>1, WaitIs DEF IInv
  <2>4. Scripted(machine)  BY <2>2, <2>3 DEF Scripted
  <2>5. 0 % PollEvery = 0
    <3>1. PollEvery \in Nat /\ PollEvery > 0  BY Sizes
    <3> QED  BY <3>1
  <2>6. Polled(machine)  BY <2>2, <2>5 DEF Polled
  <2> QED  BY <2>1, <2>4, <2>6
<1>2. TInv /\ [IdleNext]_idleVars => TInv'  BY NextKeeps, OnTimeKeeps
<1>3. TInv => WorldOnTime  BY OnTimeShows
<1> HIDE DEF TInv
<1> QED  BY <1>1, <1>2, <1>3, PTL DEF IdleSpec

-----------------------------------------------------------------------------
(***************************************************************************)
(* The timers expire on time.                                              *)
(***************************************************************************)

\* What only the tick of the timers changes.
ClockSame(a, b) ==
  /\ b.usec = a.usec /\ b.phase = a.phase /\ b.timer = a.timer
  /\ \A i \in Timers : i \in b.irq <=> i \in a.irq

\* What it does to them.
StepsOf(m) == (m.phase + options.usec) \div options.divider

Counted(m, b) ==
  /\ b.usec = m.usec + options.usec
  /\ b.phase = (m.phase + options.usec) % options.divider
  /\ \A i \in Timers :
       /\ b.timer[i] = IF StepsOf(m) > 0 /\ Counts(m.timer[i])
                       THEN Advance(m.timer[i], StepsOf(m)) ELSE m.timer[i]
       /\ i \in b.irq <=> \/ i \in m.irq
                          \/ /\ StepsOf(m) > 0 /\ Counts(m.timer[i])
                             /\ StepsOf(m) >= m.timer[i].val

\* No other device touches the timers.
LEMMA RestClock ==
  ASSUME NEW m \in Machines,
         NEW b \in {TickJob(m), TickAlarm(m), TickSerial(m), ScriptTick(m)}
  PROVE  ClockSame(m, b)
<1>1. \A i \in Timers : i # "alarm" /\ i # "job" /\ i # "serial" /\ i # "input"
  BY DEF Timers
<1>2. \A bit \in {"job", "serial"} : \A on :
        \A i \in Timers : i \in Bits(m.irq, bit, on) <=> i \in m.irq
  BY <1>1 DEF Bits
<1>3. CASE b = TickJob(m)
  <2>1. CASE m.job = 0  BY <1>3, <2>1 DEF TickJob, ClockSame
  <2>2. CASE m.job # 0
    <3> DEFINE irq == Bits(m.irq, "job", m.job = 1 \/ "job" \in m.irq)
    <3>1. \A i \in Timers : i \in irq <=> i \in m.irq  BY <1>2
    <3>2. b = [m EXCEPT !.job = m.job - 1, !.irq = irq]
      BY <1>3, <2>2 DEF TickJob, Machines
    <3> HIDE DEF irq
    <3> QED  BY <3>1, <3>2 DEF Machines, ClockSame
  <2> QED  BY <2>1, <2>2
<1>4. CASE b = TickAlarm(m)
  <2>1. CASE ~(m.alarm # 0 /\ m.device_ticks >= m.alarm)
    BY <1>4, <2>1 DEF TickAlarm, ClockSame
  <2>2. CASE m.alarm # 0 /\ m.device_ticks >= m.alarm
    <3> DEFINE irq == m.irq \cup {"alarm"}
    <3>1. \A i \in Timers : i \in irq <=> i \in m.irq  BY <1>1
    <3>2. b = [m EXCEPT !.alarm = 0, !.irq = irq]  BY <1>4, <2>2 DEF TickAlarm
    <3> HIDE DEF irq
    <3> QED  BY <3>1, <3>2 DEF Machines, ClockSame
  <2> QED  BY <2>1, <2>2
<1>5. CASE b = TickSerial(m)
  <2> DEFINE irq == Bits(m.irq, "serial", m.uart.enabled /\ m.uart.pending)
  <2>1. \A i \in Timers : i \in irq <=> i \in m.irq  BY <1>2
  <2>2. b = [m EXCEPT !.irq = irq]  BY <1>5 DEF TickSerial
  <2> HIDE DEF irq
  <2> QED  BY <2>1, <2>2 DEF Machines, ClockSame
<1>6. CASE b = ScriptTick(m)
  <2>1. CASE m.wait_left > 0
    <3>1. b = [m EXCEPT !.wait_left = m.wait_left - 1]  BY <1>6, <2>1 DEF ScriptTick
    <3> QED  BY <3>1 DEF Machines, ClockSame
  <2>2. CASE ~(m.wait_left > 0)
    <3> DEFINE waits == {k \in m.cursor + 1 .. Len(events) : events[k].ticks > 0}
               stop  == IF waits = {} THEN Len(events)
                        ELSE CHOOSE k \in waits : \A j \in waits : k <= j
               acts  == \E k \in m.cursor + 1 .. stop : events[k] = Act
               left  == IF waits = {} THEN 0 ELSE events[stop].ticks - 1
               irq   == IF acts THEN m.irq \cup {"input"} ELSE m.irq
    <3>1. b = [m EXCEPT !.cursor = stop, !.wait_left = left, !.irq = irq]
      BY <1>6, <2>2 DEF ScriptTick, Machines
    <3> HIDE DEF stop, left, acts
    <3>2. \A i \in Timers : i \in irq <=> i \in m.irq  BY <1>1
    <3> HIDE DEF irq
    <3> QED  BY <3>1, <3>2 DEF Machines, ClockSame
  <2> QED  BY <2>1, <2>2
<1> QED  BY <1>3, <1>4, <1>5, <1>6

\* A tick of the timers.
LEMMA TimersCount ==
  ASSUME NEW m \in Machines, options \in Options
  PROVE  Counted(m, TickTimers(m))
<1> DEFINE elapsed == m.phase + options.usec
           steps   == elapsed \div options.divider
           usec    == m.usec + options.usec
           phase   == elapsed % options.divider
           timer   == [i \in Timers |-> IF steps > 0 /\ Counts(m.timer[i])
                                        THEN Advance(m.timer[i], steps) ELSE m.timer[i]]
           irq     == m.irq \cup {i \in Timers : /\ steps > 0 /\ Counts(m.timer[i])
                                                 /\ steps >= m.timer[i].val}
           b == [m EXCEPT !.usec = usec, !.phase = phase, !.timer = timer, !.irq = irq]
<1>1. TickTimers(m) = b  BY DEF TickTimers, Machines
<1>2. /\ \A i \in Timers : timer[i] = IF steps > 0 /\ Counts(m.timer[i])
                                      THEN Advance(m.timer[i], steps) ELSE m.timer[i]
      /\ \A i \in Timers : i \in irq <=> \/ i \in m.irq
                                         \/ /\ steps > 0 /\ Counts(m.timer[i])
                                            /\ steps >= m.timer[i].val
  <2> HIDE DEF steps
  <2> QED  OBVIOUS
<1>3. steps = StepsOf(m)  BY DEF StepsOf
<1> HIDE DEF steps, timer, irq
<1>4. b.usec = usec /\ b.phase = phase /\ b.timer = timer /\ b.irq = irq
  <2> HIDE DEF usec, phase
  <2> QED  BY DEF Machines
<1> HIDE DEF b
<1>5. /\ b.usec = m.usec + options.usec
      /\ b.phase = (m.phase + options.usec) % options.divider
  BY <1>4
<1>6. \A i \in Timers :
        /\ b.timer[i] = IF StepsOf(m) > 0 /\ Counts(m.timer[i])
                        THEN Advance(m.timer[i], StepsOf(m)) ELSE m.timer[i]
        /\ i \in b.irq <=> \/ i \in m.irq
                           \/ /\ StepsOf(m) > 0 /\ Counts(m.timer[i])
                              /\ StepsOf(m) >= m.timer[i].val
  BY <1>2, <1>3, <1>4
<1> QED  BY <1>1, <1>5, <1>6 DEF Counted

\* A tick of the loop counts the timers once.
LEMMA StepCounts ==
  ASSUME NEW m, Steady(m), m.remaining > 0, options \in Options, events \in Seq(Events)
  PROVE  Counted(m, Step(m))
<1> DEFINE n  == m.device_ticks + 1
           m1 == [m EXCEPT !.device_ticks = n]
           m2 == TickJob(m1)
           m3 == TickTimers(m2)
           m4 == TickAlarm(m3)
           m5 == TickSerial(m4)
           m6 == ScriptTick(m5)
           sch == m6.scheduled + SliceOf(m)
           rem == m6.remaining - SliceOf(m)
           pol == IF m6.device_ticks % PollEvery = 0 THEN m6.device_ticks ELSE m6.polled
           m7 == [m6 EXCEPT !.scheduled = sch, !.remaining = rem, !.polled = pol]
<1>1. m \in Machines /\ m.cursor <= Len(events)  BY DEF Steady
<1>2. BusTick(m) = m5  BY DEF BusTick
<1>3. n \in Nat  BY <1>1 DEF Machines
<1> HIDE DEF n
<1>4. m1 \in Machines /\ ClockSame(m, m1) /\ LoopSame(m, m1)
  BY <1>1, <1>3 DEF Machines, ClockSame, LoopSame
<1> HIDE DEF m1
<1>5. m2 \in Machines /\ ClockSame(m1, m2) /\ LoopSame(m1, m2)
  BY <1>4, TickRestKeeps, RestClock
<1> HIDE DEF m2
<1>6. m3 \in Machines /\ Counted(m2, m3) /\ LoopSame(m2, m3)
  BY <1>5, TickTimersKeeps, TimersCount
<1> HIDE DEF m3
<1>7. m4 \in Machines /\ ClockSame(m3, m4) /\ LoopSame(m3, m4)
  BY <1>6, TickRestKeeps, RestClock
<1> HIDE DEF m4
<1>8. m5 \in Machines /\ ClockSame(m4, m5) /\ LoopSame(m4, m5)
  BY <1>7, TickRestKeeps, RestClock
<1>9. m5.cursor <= Len(events)
  <2> HIDE DEF m5
  <2> QED  BY <1>1, <1>4, <1>5, <1>6, <1>7, <1>8 DEF LoopSame
<1>10. Step(m) = [m6 EXCEPT !.scheduled = @ + SliceOf(m), !.remaining = @ - SliceOf(m),
                            !.polled = IF m6.device_ticks % PollEvery = 0
                                       THEN m6.device_ticks ELSE @]
  <2> HIDE DEF m5
  <2> QED  BY <1>2 DEF Step
<1> HIDE DEF m5
<1>11. m6 \in Machines /\ ClockSame(m5, m6)  BY <1>8, <1>9, ScriptTickKeeps, RestClock
<1> HIDE DEF m6
<1>12. Step(m) = m7  BY <1>10, <1>11 DEF Machines
<1> HIDE DEF sch, rem, pol
<1>13. ClockSame(m6, m7)  BY <1>11 DEF ClockSame, Machines
<1> HIDE DEF m7
<1>14. ClockSame(m, m2) /\ ClockSame(m3, m7)
  BY <1>4, <1>5, <1>7, <1>8, <1>11, <1>13 DEF ClockSame
<1>15. StepsOf(m2) = StepsOf(m)  BY <1>14 DEF ClockSame, StepsOf
<1>16. Counted(m, m7)
  BY <1>6, <1>14, <1>15 DEF ClockSame, Counted
<1> QED  BY <1>12, <1>16

\* A skip counts no timer.
LEMMA SkipCounts ==
  ASSUME NEW m, Steady(m), m.remaining > 0, NEW k \in Nat, options \in Options
  PROVE  LET b == Skip(m, k)
         IN  /\ b.usec = m.usec + k * options.usec /\ b.phase = m.phase
             /\ b.timer = m.timer /\ \A i \in Timers : i \in b.irq <=> i \in m.irq
<1> DEFINE dt    == m.device_ticks + k
           usec  == m.usec + k * options.usec
           sch   == m.scheduled + k * SliceOf(m)
           rem   == m.remaining - Smaller(k * SliceOf(m), m.remaining)
           a == [m EXCEPT !.device_ticks = dt, !.usec = usec, !.scheduled = sch,
                          !.remaining = rem]
           b == TickAlarm(a)
           left == b.wait_left - Smaller(k, b.wait_left)
           c == [b EXCEPT !.wait_left = left]
<1>1. m \in Machines  BY DEF Steady
<1>2. /\ m.device_ticks \in Nat /\ m.usec \in Nat /\ m.scheduled \in Nat
      /\ m.remaining \in Nat /\ options.usec \in Nat
  BY <1>1, Sizes DEF Machines
<1>3. SliceOf(m) \in Nat  BY <1>1, SliceIs
<1>4. Skip(m, k) = AdvanceWait(b, k)  BY <1>1 DEF Skip, Machines
<1>5. dt \in Nat  BY <1>2
<1>6. usec \in Nat
  <2>1. k * options.usec \in Nat  BY <1>2
  <2> QED  BY <1>2, <2>1
<1>7. sch \in Nat /\ rem \in Nat
  <2>1. k * SliceOf(m) \in Nat  BY <1>3
  <2> QED  BY <1>2, <2>1 DEF Smaller
<1> HIDE DEF dt, usec, sch, rem
<1>8. a \in Machines /\ a.usec = usec /\ a.phase = m.phase /\ a.timer = m.timer
      /\ a.irq = m.irq
  BY <1>1, <1>5, <1>6, <1>7 DEF Machines
<1> HIDE DEF a
<1>9. b \in Machines /\ ClockSame(a, b)  BY <1>8, TickRestKeeps, RestClock
<1> HIDE DEF b
<1>10. AdvanceWait(b, k) = c  BY <1>9 DEF AdvanceWait, Machines
<1> HIDE DEF left
<1>11. ClockSame(b, c)  BY <1>9 DEF ClockSame, Machines
<1> HIDE DEF c
<1> QED  BY <1>4, <1>8, <1>9, <1>10, <1>11 DEF ClockSame, usec

\* A timer that counts expires when its value has passed; after the first expiry
\* no earlier one is left within its period.
Dated(m, i) ==
  Counts(m.timer[i]) =>
    \E j \in Nat :
      /\ Steps(m) + m.timer[i].val = first[i] + m.timer[i].counter * j
      /\ j # 0 => m.timer[i].repeat /\ m.timer[i].val <= m.timer[i].counter

Clock(m) ==
  /\ first \in [Timers -> Nat] /\ m.phase = m.usec % options.divider
  /\ \A i \in Timers : Dated(m, i)

\* A number is due when it is the first or periods after it.
LEMMA DueIs ==
  ASSUME NEW i \in Timers, NEW c \in Nat, c > 0, c = machine.timer[i].counter,
         first[i] \in Nat, NEW at \in Nat
  PROVE  IsDue(i, at) <=> \E j \in Nat : /\ at = first[i] + c * j
                                         /\ j = 0 \/ machine.timer[i].repeat
<1> DEFINE f == first[i]
<1>1. f \in Nat  OBVIOUS
<1>2. IsDue(i, at) <=> \/ at = f
                       \/ machine.timer[i].repeat /\ at > f /\ (at - f) % c = 0
  BY DEF IsDue
<1> HIDE DEF f
<1>3. ASSUME IsDue(i, at)
      PROVE  \E j \in Nat : at = f + c * j /\ (j = 0 \/ machine.timer[i].repeat)
  <2>1. CASE at = f
    <3>1. at = f + c * 0 /\ 0 \in Nat  BY <1>1, <2>1
    <3> QED  BY <3>1
  <2>2. CASE machine.timer[i].repeat /\ at > f /\ (at - f) % c = 0
    <3> DEFINE n == at - f
               q == n \div c
    <3>1. n \in Nat /\ at = f + n  BY <1>1, <2>2
    <3>2. n % c = 0  BY <2>2
    <3> HIDE DEF n
    <3>3. q \in Nat /\ n = c * q + 0  BY <3>1, <3>2, DivMod
    <3> HIDE DEF q
    <3>4. c * q \in Nat  BY <3>3
    <3>5. at = f + c * q  BY <1>1, <3>1, <3>3, <3>4
    <3> QED  BY <2>2, <3>3, <3>5
  <2> QED  BY <1>2, <1>3, <2>1, <2>2
<1>4. ASSUME NEW j \in Nat, at = f + c * j, j = 0 \/ machine.timer[i].repeat
      PROVE  IsDue(i, at)
  <2>1. CASE j = 0
    <3>1. c * j = 0  BY <2>1
    <3>2. at = f  BY <1>1, <1>4, <3>1
    <3> QED  BY <1>2, <3>2
  <2>2. CASE j # 0
    <3> DEFINE n == c * j
               none == 0
    <3>1. n \in Nat  OBVIOUS
    <3>2. c * 1 <= c * j
      <4>1. 1 \in Nat /\ 1 <= j  BY <2>2
      <4> QED  BY <4>1, MulMono
    <3>3. n = c * j + none /\ none \in 0 .. c - 1  OBVIOUS
    <3>4. n > 0  BY <3>2
    <3>5. at = f + n  BY <1>4
    <3> HIDE DEF n, none
    <3>6. n % c = none  BY <3>1, <3>3, QuotientIs
    <3>7. at > f /\ at - f = n  BY <1>1, <3>1, <3>4, <3>5
    <3>8. machine.timer[i].repeat  BY <1>4, <2>2
    <3> QED  BY <1>2, <3>6, <3>7, <3>8 DEF none
  <2> QED  BY <2>1, <2>2
<1> QED  BY <1>3, <1>4 DEF f

\* Between two expiries there is none: none before the first, and none in the
\* period before a later one.
LEMMA NoneBetween ==
  ASSUME NEW f \in Nat, NEW c \in Nat, c > 0, NEW j \in Nat, NEW l \in Nat,
         NEW at \in Nat, at = f + c * l, at < f + c * j,
         j = 0 \/ at + c > f + c * j
  PROVE  FALSE
<1>1. c * l \in Nat /\ c * j \in Nat  OBVIOUS
<1>2. ~(j <= l)
  <2>1. j <= l => c * j <= c * l  BY MulMono
  <2> QED  BY <1>1, <2>1
<1>3. j # 0 /\ l + 1 <= j /\ l + 1 \in Nat  BY <1>2
<1>4. c * (l + 1) <= c * j  BY <1>3, MulMono
<1>5. c * (l + 1) = c * l + c  OBVIOUS
<1> QED  BY <1>1, <1>3, <1>4, <1>5

\* The steps of a tick are those the microsecond counter shows.
LEMMA StepsAdd ==
  ASSUME NEW m \in Machines, options \in Options, m.phase = m.usec % options.divider,
         NEW b \in Machines, b.usec = m.usec + options.usec,
         b.phase = (m.phase + options.usec) % options.divider
  PROVE  /\ Steps(m) \in Nat /\ StepsOf(m) \in Nat /\ Steps(b) = Steps(m) + StepsOf(m)
         /\ b.phase = b.usec % options.divider
<1> DEFINE d == options.divider
           p == m.phase
           e == m.phase + options.usec
           q == m.usec \div d
           n == e \div d
           r == e % d
           sum == q + n
           u == b.usec
<1>1. d \in Nat /\ d > 0 /\ options.usec \in Nat  BY Sizes
<1>2. m.usec \in Nat /\ p \in Nat /\ e \in Nat  BY <1>1 DEF Machines
<1>3. q \in Nat /\ m.usec = d * q + p
  <2>1. m.usec = d * q + (m.usec % d) /\ q \in Nat  BY <1>1, <1>2, DivMod
  <2> QED  BY <2>1
<1>4. n \in Nat /\ r \in 0 .. d - 1 /\ e = d * n + r
  <2> HIDE DEF e
  <2> QED  BY <1>1, <1>2, DivMod
<1>5. b.phase = r /\ Steps(m) = q /\ StepsOf(m) = n  BY DEF Steps, StepsOf
<1> HIDE DEF q, n, r
<1>6. u = d * sum + r
  <2>1. d * q \in Nat /\ d * n \in Nat /\ d * sum = d * q + d * n  BY <1>1, <1>3, <1>4
  <2>2. u = m.usec + options.usec  OBVIOUS
  <2>3. d * q + p + options.usec = d * q + e  BY <1>1, <1>2, <2>1
  <2> HIDE DEF sum, u, e, d
  <2>4. u = d * q + e  BY <1>1, <1>2, <1>3, <2>1, <2>2, <2>3
  <2> QED  BY <1>4, <2>1, <2>4
<1>7. sum \in Nat /\ u \in Nat  BY <1>3, <1>4 DEF Machines
<1> HIDE DEF sum
<1>8. u \div d = sum /\ u % d = r
  <2> HIDE DEF u, d
  <2> QED  BY <1>1, <1>4, <1>6, <1>7, QuotientIs
<1>9. Steps(b) = sum  BY <1>8 DEF Steps
<1> QED  BY <1>3, <1>4, <1>5, <1>8, <1>9 DEF sum

\* An expiry within a period is the next.
LEMMA NextIs ==
  ASSUME NEW i \in Timers, NEW c \in Nat, c > 0, c = machine.timer[i].counter,
         first[i] \in Nat, NEW from \in Nat, NEW to \in Nat, from < to,
         NEW j \in Nat, to = first[i] + c * j,
         j # 0 => machine.timer[i].repeat /\ to <= from + c
  PROVE  NextDue(i, from, to)
<1> DEFINE f == first[i]
<1>1. f \in Nat /\ to = f + c * j  OBVIOUS
<1>2. \A at \in Nat : IsDue(i, at) <=> \E l \in Nat : /\ at = f + c * l
                                                      /\ l = 0 \/ machine.timer[i].repeat
  BY DueIs
<1> HIDE DEF f
<1>3. IsDue(i, to)  BY <1>1, <1>2
<1>4. ASSUME NEW at \in from + 1 .. to - 1, IsDue(i, at) PROVE FALSE
  <2>1. at \in Nat /\ at >= from + 1 /\ at < to  OBVIOUS
  <2>2. PICK l \in Nat : at = f + c * l  BY <1>2, <1>4, <2>1
  <2>3. at < f + c * j  BY <1>1, <2>1
  <2>4. j = 0 \/ at + c > f + c * j
    <3>1. j # 0 => to <= from + c  OBVIOUS
    <3>2. j # 0 => at + c > to  BY <2>1, <3>1
    <3> QED  BY <1>1, <3>2
  <2> QED  BY <1>1, <2>1, <2>2, <2>3, <2>4, NoneBetween
<1> QED  BY <1>3, <1>4 DEF NextDue

\* The expiries of a repeating timer after its first.
Later(f, c) == {f + c * l : l \in Nat \ {0}}

\* A timer that repeats is reloaded for the next expiry after the steps.
LEMMA Reload ==
  ASSUME NEW f \in Nat, NEW c \in Nat, c > 0, NEW j \in Nat, NEW from \in Nat,
         NEW val \in Nat, from + val = f + c * j, NEW n \in Nat, n >= val,
         NEW next, next = c - ((n - val) % c)
  PROVE  /\ next \in Nat /\ next > 0 /\ next <= c
         /\ from + n + next \in Later(f, c)
<1> DEFINE late == n - val
           q == late \div c
           r == late % c
           l == j + q + 1
<1>1. late \in Nat /\ n = val + late  OBVIOUS
<1> HIDE DEF late
<1>2. q \in Nat /\ r \in 0 .. c - 1 /\ late = c * q + r  BY <1>1, DivMod
<1> HIDE DEF q, r
<1>3. c * l = c * j + c * q + c
  BY <1>2
<1>4. l \in Nat /\ l # 0  BY <1>2
<1> HIDE DEF l
<1>5. c * j \in Nat /\ c * q \in Nat /\ c * l \in Nat  BY <1>2, <1>4
<1>6. from + n + (c - r) = f + c * l
  BY <1>1, <1>2, <1>3, <1>5
<1>7. c - r \in Nat /\ c - r > 0 /\ c - r <= c  BY <1>2
<1>8. r = (n - val) % c  BY DEF r, late
<1>9. next = c - r  BY <1>8
<1>10. f + c * l \in Later(f, c)  BY <1>4 DEF Later
<1> QED  BY <1>6, <1>7, <1>9, <1>10

\* A timer goes on after the steps with the time that is left, or starts its
\* next period, or stops.
LEMMA AdvanceIs ==
  ASSUME NEW t \in TimerRecords, Counts(t), NEW n \in Nat, NEW b, b = Advance(t, n)
  PROVE  /\ b \in TimerRecords /\ b.counter = t.counter /\ b.repeat = t.repeat
         /\ n < t.val => b.val = t.val - n /\ b.enabled
         /\ ~(n < t.val) /\ t.repeat =>
              b.val = t.counter - ((n - t.val) % t.counter) /\ b.enabled
         /\ ~(n < t.val) /\ ~t.repeat => ~b.enabled
<1>1. b \in TimerRecords  BY AdvanceType
<1>2. t.enabled  BY DEF Counts
<1>3. CASE n < t.val
  <2> DEFINE val == t.val - n
  <2>1. b = [t EXCEPT !.val = val]  BY <1>3 DEF Advance
  <2>2. val = t.val - n  OBVIOUS
  <2> HIDE DEF val
  <2>3. b.counter = t.counter /\ b.repeat = t.repeat /\ b.val = val /\ b.enabled
    BY <1>2, <2>1 DEF TimerRecords
  <2> QED  BY <1>1, <1>3, <2>2, <2>3
<1>4. CASE ~(n < t.val) /\ t.repeat
  <2> DEFINE val == t.counter - ((n - t.val) % t.counter)
  <2>1. b = [t EXCEPT !.val = val]  BY <1>4 DEF Advance
  <2>2. val = t.counter - ((n - t.val) % t.counter)  OBVIOUS
  <2> HIDE DEF val
  <2>3. b.counter = t.counter /\ b.repeat = t.repeat /\ b.val = val /\ b.enabled
    BY <1>2, <2>1 DEF TimerRecords
  <2> QED  BY <1>1, <1>4, <2>2, <2>3
<1>5. CASE ~(n < t.val) /\ ~t.repeat
  <2>1. b = [t EXCEPT !.val = 0, !.enabled = FALSE]  BY <1>5 DEF Advance
  <2>2. b.counter = t.counter /\ b.repeat = t.repeat /\ b.enabled = FALSE
    BY <2>1, Zenon DEF TimerRecords
  <2> QED  BY <1>1, <1>5, <2>2
<1> QED  BY <1>3, <1>4, <1>5

\* A tick of a timer shows its expiries, and leaves what there is to the next.
LEMMA TimerTicks ==
  ASSUME machine \in Machines, options \in Options, Clock(machine),
         NEW b \in Machines, Counted(machine, b), Steps(b) = Steps(machine) + StepsOf(machine),
         Steps(machine) \in Nat, StepsOf(machine) \in Nat, NEW i \in Timers
  PROVE  OnTime(i, b) /\ Dated(b, i)
<1> DEFINE t    == machine.timer[i]
           now  == b.timer[i]
           from == Steps(machine)
           n    == StepsOf(machine)
           f    == first[i]
           due  == \E at \in from + 1 .. from + n : IsDue(i, at)
<1>1. /\ f \in Nat /\ Dated(machine, i) /\ t \in TimerRecords /\ now \in TimerRecords
      /\ from \in Nat /\ n \in Nat /\ Steps(b) = from + n
  BY DEF Clock, Machines
<1>2. /\ now = IF n > 0 /\ Counts(t) THEN Advance(t, n) ELSE t
      /\ i \in b.irq <=> i \in machine.irq \/ (n > 0 /\ Counts(t) /\ n >= t.val)
  BY DEF Counted
<1>3. CASE ~Counts(t)
  <2>1. now = t /\ (i \in b.irq <=> i \in machine.irq)  BY <1>2, <1>3
  <2> QED  BY <1>3, <2>1 DEF OnTime, Dated
<1>4. CASE Counts(t)
  <2>1. /\ t.val \in Nat /\ t.val > 0 /\ t.counter \in Nat /\ t.counter > 0
        /\ t.repeat \in BOOLEAN /\ t.enabled
    BY <1>1, <1>4 DEF Counts, TimerRecords
  <2>2. PICK j \in Nat : /\ from + t.val = f + t.counter * j
                         /\ j # 0 => t.repeat /\ t.val <= t.counter
    BY <1>1, <1>4 DEF Dated
  <2>3. /\ now.counter = t.counter /\ now.repeat = t.repeat
        /\ n < t.val => now.val = t.val - n /\ now.enabled
        /\ ~(n < t.val) /\ t.repeat =>
             now.val = t.counter - ((n - t.val) % t.counter) /\ now.enabled
        /\ ~(n < t.val) /\ ~t.repeat => ~now.enabled
    <3>1. CASE n > 0  BY <1>1, <1>2, <1>4, <3>1, AdvanceIs
    <3>2. CASE n = 0
      <4>1. now = t  BY <1>2, <3>2
      <4> QED  BY <2>1, <3>2, <4>1
    <3> QED  BY <1>1, <3>1, <3>2
  <2>4. /\ IsDue(i, from + t.val)
        /\ \A at \in from + 1 .. from + t.val - 1 : ~IsDue(i, at)
    <3> DEFINE c == t.counter
               to == from + t.val
    <3>1. c = machine.timer[i].counter /\ c \in Nat /\ c > 0  BY <2>1
    <3>2. to \in Nat /\ from < to /\ to = first[i] + c * j  BY <1>1, <2>1, <2>2
    <3>3. j # 0 => machine.timer[i].repeat /\ to <= from + c
      <4>1. j # 0 => t.repeat /\ t.val <= c  BY <2>2
      <4> HIDE DEF from
      <4> QED  BY <1>1, <2>1, <4>1
    <3> HIDE DEF c, to
    <3>4. NextDue(i, from, to)  BY <1>1, <3>1, <3>2, <3>3, NextIs
    <3>5. IsDue(i, to) /\ \A at \in from + 1 .. to - 1 : ~IsDue(i, at)
      BY <3>4 DEF NextDue
    <3>6. from + 1 .. to - 1 = from + 1 .. from + t.val - 1
      <4> HIDE DEF from, t
      <4> QED  BY <1>1, <2>1 DEF to
    <3> QED  BY <3>5, <3>6 DEF to
  <2>5. due <=> ~(n < t.val)
    <3> HIDE DEF t, from, n
    <3>1. CASE n < t.val
      <4>1. \A at \in from + 1 .. from + n : at \in from + 1 .. from + t.val - 1
        BY <1>1, <2>1, <3>1
      <4> QED  BY <2>4, <3>1, <4>1
    <3>2. CASE ~(n < t.val)
      <4>1. from + t.val \in from + 1 .. from + n  BY <1>1, <2>1, <3>2
      <4> QED  BY <2>4, <3>2, <4>1
    <3> QED  BY <3>1, <3>2
  <2>6. i \in b.irq <=> due \/ i \in machine.irq
    <3> HIDE DEF t, from, n, due
    <3>1. n > 0 /\ Counts(t) /\ n >= t.val <=> ~(n < t.val)  BY <1>1, <1>4, <2>1
    <3> QED  BY <1>2, <2>5, <3>1
  <2>7. Counts(now) => \E l \in Nat : /\ from + n + now.val = f + t.counter * l
                                      /\ l # 0 => t.repeat /\ now.val <= t.counter
    <3> HIDE DEF t, from, n, f, now, due
    <3>1. CASE n < t.val
      <4>1. now.val = t.val - n /\ now.val <= t.val  BY <1>1, <2>1, <2>3, <3>1
      <4>2. from + n + now.val = from + t.val  BY <1>1, <2>1, <4>1
      <4>3. j # 0 => t.repeat /\ now.val <= t.counter  BY <1>1, <2>1, <2>2, <4>1
      <4> QED  BY <2>2, <4>2, <4>3
    <3>2. CASE ~(n < t.val) /\ t.repeat
      <4>1. n >= t.val  BY <1>1, <2>1, <3>2
      <4> DEFINE next == t.counter - ((n - t.val) % t.counter)
      <4>2. /\ next \in Nat /\ next <= t.counter
            /\ \E l \in Nat : l # 0 /\ from + n + next = f + t.counter * l
        <5> DEFINE c == t.counter
                   v == t.val
        <5>1. c \in Nat /\ c > 0 /\ v \in Nat /\ from + v = f + c * j /\ n >= v
          BY <2>1, <2>2, <4>1
        <5>2. next = c - ((n - v) % c)  OBVIOUS
        <5> HIDE DEF c, v, next
        <5>3. f \in Nat /\ from \in Nat /\ n \in Nat  BY <1>1
        <5>4. next \in Nat /\ next <= c  BY <5>1, <5>2, <5>3, Reload
        <5>5. from + n + next \in Later(f, c)  BY <5>1, <5>2, <5>3, Reload
        <5>6. \E l \in Nat : l # 0 /\ from + n + next = f + c * l  BY <5>5 DEF Later
        <5> QED  BY <5>4, <5>6 DEF c
      <4>3. now.val = next  BY <2>3, <3>2
      <4> HIDE DEF next
      <4> QED  BY <3>2, <4>2, <4>3
    <3>3. CASE ~(n < t.val) /\ ~t.repeat
      <4>1. ~Counts(now)  BY <2>3, <3>3 DEF Counts
      <4> QED  BY <4>1
    <3> QED  BY <3>1, <3>2, <3>3
  <2>8. Counts(now) <=> (~due \/ now.repeat)
    <3> HIDE DEF t, from, n, f, now, due
    <3>1. CASE n < t.val
      <4>1. now.val # 0 /\ now.enabled /\ now.counter # 0  BY <1>1, <2>1, <2>3, <3>1
      <4> QED  BY <2>5, <3>1, <4>1 DEF Counts
    <3>2. CASE ~(n < t.val) /\ t.repeat
      <4>1. n >= t.val  BY <1>1, <2>1, <3>2
      <4>2. now.val \in Nat /\ now.val > 0
        BY <1>1, <2>1, <2>2, <2>3, <3>2, <4>1, Reload
      <4>3. now.val # 0 /\ now.enabled /\ now.counter # 0 /\ now.repeat
        BY <2>1, <2>3, <3>2, <4>2
      <4> QED  BY <4>3 DEF Counts
    <3>3. CASE ~(n < t.val) /\ ~t.repeat
      <4>1. ~Counts(now) /\ ~now.repeat  BY <2>3, <3>3 DEF Counts
      <4> QED  BY <2>5, <3>3, <4>1
    <3> QED  BY <2>1, <3>1, <3>2, <3>3
  <2>9. Counts(now) => NextDue(i, from + n, from + n + now.val)
    <3> SUFFICES ASSUME Counts(now)
                 PROVE  NextDue(i, from + n, from + n + now.val)
      OBVIOUS
    <3>1. PICK l \in Nat : /\ from + n + now.val = f + t.counter * l
                           /\ l # 0 => t.repeat /\ now.val <= t.counter
      BY <2>7
    <3>2. now.val \in Nat /\ now.val > 0  BY <1>1 DEF Counts, TimerRecords
    <3>3. from + n \in Nat  BY <1>1
    <3> DEFINE c == t.counter
               past == from + n
               to == past + now.val
    <3>4. c = machine.timer[i].counter /\ c \in Nat /\ c > 0  BY <2>1
    <3>5. past \in Nat /\ first[i] \in Nat  BY <1>1, <3>3
    <3>6. to = first[i] + c * l /\ (l # 0 => machine.timer[i].repeat /\ now.val <= c)
      BY <3>1
    <3>7. past + now.val = to  OBVIOUS
    <3> HIDE DEF c, past, now, to
    <3>8. to \in Nat /\ past < to  BY <3>2, <3>5, <3>7
    <3>9. l # 0 => machine.timer[i].repeat /\ to <= past + c
      BY <3>2, <3>4, <3>5, <3>6, <3>7
    <3>10. to = first[i] + c * l  BY <3>6
    <3>11. NextDue(i, past, to)  BY <3>4, <3>5, <3>8, <3>9, <3>10, NextIs
    <3> QED  BY <3>11 DEF past, to
  <2>10. OnTime(i, b)
    <3> HIDE DEF n
    <3> QED  BY <1>1, <1>4, <2>6, <2>8, <2>9 DEF OnTime
  <2>11. Dated(b, i)
    <3> HIDE DEF n
    <3>1. Counts(now) => \E l \in Nat : /\ Steps(b) + now.val = f + now.counter * l
                                        /\ l # 0 => now.repeat /\ now.val <= now.counter
      <4> HIDE DEF now, t, f, from
      <4> QED  BY <1>1, <2>3, <2>7
    <3> QED  BY <3>1 DEF Dated
  <2> QED  BY <2>10, <2>11
<1> QED  BY <1>3, <1>4

\* The guest starts a timer anew, or leaves it.
LEMMA GuestTimers ==
  ASSUME IInv, Clock(machine), IdleGuest \/ Interrupt
  PROVE  Clock(machine)'
<1>1. /\ machine \in Machines /\ options \in Options /\ first \in [Timers -> Nat]
      /\ machine.timer \in [Timers -> TimerRecords]
      /\ machine.phase = machine.usec % options.divider /\ \A i \in Timers : Dated(machine, i)
  BY DEF IInv, Steady, Clock, Machines
<1>2. /\ UNCHANGED options /\ machine'.usec = machine.usec /\ machine'.phase = machine.phase
  BY GuestKeeps
<1>3. Steps(machine) \in Nat
  <2>1. machine.usec \in Nat /\ options.divider \in Nat /\ options.divider > 0
    BY <1>1, Sizes DEF Machines
  <2> QED  BY <2>1, DivMod DEF Steps
<1>4. machine'.phase = machine'.usec % options'.divider  BY <1>1, <1>2
<1>5. Steps(machine)' = Steps(machine)  BY <1>2 DEF Steps
<1>6. ASSUME machine'.timer = machine.timer, UNCHANGED first PROVE Clock(machine)'
  <2>1. \A i \in Timers : Dated(machine, i)'  BY <1>1, <1>5, <1>6 DEF Dated, Counts
  <2> QED  BY <1>1, <1>4, <1>6, <2>1 DEF Clock
<1>7. ASSUME NEW j \in Timers, NEW t \in TimerRecords, SetTimer(j, t) PROVE Clock(machine)'
  <2>0. t.val \in Nat /\ t.counter \in Nat  BY DEF TimerRecords
  <2>1. machine' = [machine EXCEPT !.timer = [machine.timer EXCEPT ![j] = t]]
    BY <1>1, <1>7 DEF SetTimer, Guest, Machines
  <2>2. machine'.timer = [machine.timer EXCEPT ![j] = t]  BY <1>1, <2>1 DEF Machines
  <2>3. first' = [first EXCEPT ![j] = Steps(machine) + t.val]  BY <1>7 DEF SetTimer
  <2>4. first' \in [Timers -> Nat]
    <3>1. Steps(machine) + t.val \in Nat  BY <1>3, <2>0
    <3> QED  BY <1>1, <2>3, <3>1
  <2>5. ASSUME NEW i \in Timers PROVE Dated(machine, i)'
    <3>1. CASE i = j
      <4>1. machine'.timer[i] = t /\ first'[i] = Steps(machine) + t.val
        BY <1>1, <2>2, <2>3, <3>1
      <4>2. ASSUME Counts(t)
            PROVE  Steps(machine) + t.val = first'[i] + t.counter * 0
        <5>1. t.counter * 0 = 0  BY <2>0
        <5> QED  BY <1>3, <2>0, <4>1, <5>1
      <4> QED  BY <1>5, <4>1, <4>2 DEF Dated, Counts
    <3>2. CASE i # j
      <4>1. machine'.timer[i] = machine.timer[i] /\ first'[i] = first[i]
        BY <1>1, <2>2, <2>3, <3>2
      <4> QED  BY <1>1, <1>5, <4>1 DEF Dated, Counts
    <3> QED  BY <3>1, <3>2
  <2> QED  BY <1>4, <2>4, <2>5 DEF Clock
<1>8. CASE Halt \/ Interrupt \/ Acknowledge
  BY <1>1, <1>6, <1>8 DEF Halt, Interrupt, Acknowledge, Guest, Machines
<1>9. ASSUME NEW i \in Timers, ReadValue(i) PROVE Clock(machine)'
  BY <1>1, <1>6, <1>9 DEF ReadValue, Guest, Machines
<1>10. ASSUME NEW u, SetUart(u) PROVE Clock(machine)'
  <2> DEFINE irq == Bits(machine.irq, "serial", u.enabled /\ u.pending)
  <2>1. machine' = [machine EXCEPT !.uart = u, !.irq = irq] /\ UNCHANGED first
    BY <1>1, <1>10 DEF SetUart, Guest, Machines
  <2> HIDE DEF irq
  <2> QED  BY <1>1, <1>6, <2>1 DEF Machines
<1>11. CASE WriteByte  BY <1>10, <1>11 DEF WriteByte
<1>12. CASE ReadIir  BY <1>10, <1>12 DEF ReadIir
<1>13. ASSUME NEW on, WriteLcr(on) \/ WriteIer(on) \/ WriteFcr(on) PROVE Clock(machine)'
  BY <1>10, <1>13 DEF WriteLcr, WriteIer, WriteFcr
<1>14. ASSUME NEW d, StartAlarm(d) \/ StartJob(d) PROVE Clock(machine)'
  BY <1>1, <1>6, <1>14 DEF StartAlarm, StartJob, Guest, Machines
<1>15. ASSUME NEW i \in Timers, NEW c \in Counters, NEW enabled \in BOOLEAN,
              NEW repeat \in BOOLEAN, WriteTimer(i, enabled, repeat, c)
       PROVE  Clock(machine)'
  <2> DEFINE val == IF enabled /\ ~machine.timer[i].enabled THEN c ELSE machine.timer[i].val
             t == [enabled |-> enabled, repeat |-> repeat, counter |-> c, val |-> val]
  <2>1. machine.timer[i] \in TimerRecords /\ c \in Nat  BY <1>1, Sizes
  <2>2. val \in Nat  BY <2>1 DEF TimerRecords
  <2>3. SetTimer(i, t)  BY <1>15 DEF WriteTimer
  <2> HIDE DEF val
  <2>4. t \in TimerRecords  BY <2>1, <2>2 DEF TimerRecords
  <2> HIDE DEF t
  <2> QED  BY <1>7, <2>3, <2>4
<1>16. ASSUME NEW i \in Timers, NEW c \in Counters, WriteValue(i, c) PROVE Clock(machine)'
  <2> DEFINE t == [machine.timer[i] EXCEPT !.val = c]
  <2>1. machine.timer[i] \in TimerRecords /\ c \in Nat  BY <1>1, Sizes
  <2>2. t \in TimerRecords  BY <2>1 DEF TimerRecords
  <2>3. SetTimer(i, t)  BY <1>16 DEF WriteValue
  <2> HIDE DEF t
  <2> QED  BY <1>7, <2>2, <2>3
<1> QED
  BY <1>8, <1>9, <1>11, <1>12, <1>13, <1>14, <1>15, <1>16 DEF IdleGuest

\* A skip finds no timer counting, and leaves them alone.
LEMMA TimersSkip ==
  ASSUME SkipsUndivided, IInv, Clock(machine), machine.remaining > 0,
         NEW k, k = AdvanceTicks(machine), k > 1, NEW b, b = Skip(machine, k)
  PROVE  Clock(b) /\ \A i \in Timers : OnTime(i, b)
<1>1. Steady(machine) /\ machine \in Machines /\ options \in Options  BY DEF IInv, Steady
<1>2. k \in Nat /\ options.skips /\ Quiescent(machine)  BY Limits
<1>3. /\ b.usec = machine.usec + k * options.usec /\ b.phase = machine.phase
      /\ b.timer = machine.timer /\ \A i \in Timers : i \in b.irq <=> i \in machine.irq
  BY <1>1, <1>2, SkipCounts
<1>4. \A i \in Timers : ~Counts(machine.timer[i]) /\ ~Counts(b.timer[i])
  BY <1>2, <1>3 DEF Quiescent, Counts
<1>5. b.phase = b.usec % options.divider
  <2> DEFINE u == machine.usec
             v == k * options.usec
  <2>1. options.divider = 1 /\ options.usec \in Nat  BY <1>1, <1>2, Sizes DEF SkipsUndivided
  <2>2. u \in Nat /\ v \in Nat  BY <1>1, <1>2, <2>1 DEF Machines
  <2>3. machine.phase = u % 1  BY <2>1 DEF Clock
  <2>4. b.usec = u + v  BY <1>3
  <2> HIDE DEF u, v
  <2>5. u % 1 = 0 /\ (u + v) % 1 = 0  BY <2>2
  <2> QED  BY <1>3, <2>1, <2>3, <2>4, <2>5
<1>6. Clock(b)  BY <1>4, <1>5 DEF Clock, Dated
<1> QED  BY <1>3, <1>4, <1>6 DEF OnTime

\* A tick of the loop keeps the timers on time.
LEMMA TimersStep ==
  ASSUME IInv, Clock(machine), machine.remaining > 0, NEW b, b = Step(machine)
  PROVE  Clock(b) /\ \A i \in Timers : OnTime(i, b)
<1>1. /\ Steady(machine) /\ machine \in Machines /\ options \in Options
      /\ events \in Seq(Events)
  BY DEF IInv, Steady
<1>2. b \in Machines  BY <1>1, StepKeeps DEF Steady
<1>3. Counted(machine, b)  BY <1>1, StepCounts
<1>4. /\ Steps(machine) \in Nat /\ StepsOf(machine) \in Nat
      /\ Steps(b) = Steps(machine) + StepsOf(machine)
      /\ b.phase = b.usec % options.divider
  <2>1. machine.phase = machine.usec % options.divider  BY DEF Clock
  <2>2. /\ b.usec = machine.usec + options.usec
        /\ b.phase = (machine.phase + options.usec) % options.divider
    BY <1>3 DEF Counted
  <2> QED  BY <1>1, <1>2, <2>1, <2>2, StepsAdd
<1>5. \A i \in Timers : OnTime(i, b) /\ Dated(b, i)  BY <1>1, <1>2, <1>3, <1>4, TimerTicks
<1> QED  BY <1>4, <1>5 DEF Clock

\* Every step keeps the timers on time.
LEMMA TimersKeep ==
  ASSUME SkipsUndivided, IInv, Clock(machine), [IdleNext]_idleVars
  PROVE  Clock(machine)' /\ TimersAsDue
<1>1. CASE Iterate
  <2>1. machine.remaining > 0 /\ UNCHANGED <<options, events, first>>  BY <1>1 DEF Iterate
  <2>2. Clock(machine') /\ \A i \in Timers : OnTime(i, machine')
    <3>1. CASE AdvanceTicks(machine) > 1
      <4>1. machine' = Skip(machine, AdvanceTicks(machine))  BY <1>1, <3>1 DEF Iterate
      <4> QED  BY <2>1, <3>1, <4>1, TimersSkip
    <3>2. CASE ~(AdvanceTicks(machine) > 1)
      <4>1. machine' = Step(machine)  BY <1>1, <3>2 DEF Iterate
      <4> QED  BY <2>1, <4>1, TimersStep
    <3> QED  BY <3>1, <3>2
  <2>3. Clock(machine)'  BY <2>1, <2>2 DEF Clock, Dated, Steps
  <2> QED  BY <2>2, <2>3 DEF TimersAsDue
<1>2. CASE IdleGuest \/ Interrupt
  <2>1. machine'.device_ticks = machine.device_ticks  BY <1>2, GuestKeeps
  <2>2. machine.device_ticks \in Nat  BY DEF IInv, Steady, Machines
  <2>3. TimersAsDue  BY <2>1, <2>2 DEF TimersAsDue
  <2> QED  BY <1>2, <2>3, GuestTimers
<1>3. CASE UNCHANGED idleVars
  <2>1. UNCHANGED <<options, events, machine, first>>  BY <1>3 DEF idleVars
  <2>2. machine.device_ticks \in Nat  BY DEF IInv, Steady, Machines
  <2>3. TimersAsDue  BY <2>1, <2>2 DEF TimersAsDue
  <2>4. Clock(machine)'  BY <2>1 DEF Clock, Dated, Steps
  <2> QED  BY <2>3, <2>4
<1> QED  BY <1>1, <1>2, <1>3 DEF IdleNext

\* Skips or not, a timer expires at its first expiry and, if it repeats, at every
\* period after it, for any counters and any ticks, provided idle time is skipped
\* only where the timer clock is not divided.
THEOREM TimersOnTimeCorrect == ASSUME SkipsUndivided PROVE IdleSpec => TimersOnTime
<1> DEFINE TInv == IInv /\ Clock(machine)
<1>1. IdleInit => TInv
  <2> SUFFICES ASSUME IdleInit PROVE TInv  OBVIOUS
  <2>1. IInv  BY InitKeeps
  <2>2. /\ machine.usec = 0 /\ machine.phase = 0
        /\ \A i \in Timers : machine.timer[i] = Timer
    BY DEF IdleInit, Machine
  <2>3. first \in [Timers -> Nat]  BY DEF IdleInit
  <2>4. \A i \in Timers : ~Counts(machine.timer[i])  BY <2>2 DEF Counts, Timer
  <2>5. machine.phase = machine.usec % options.divider
    <3> DEFINE d == options.divider
    <3>1. d \in Nat /\ d > 0  BY <2>1, Sizes DEF IInv
    <3> HIDE DEF d
    <3>2. 0 % d = 0  BY <3>1
    <3> QED  BY <2>2, <3>2 DEF d
  <2> QED  BY <2>1, <2>3, <2>4, <2>5 DEF Clock, Dated
<1>2. TInv /\ [IdleNext]_idleVars => TInv' /\ [TimersAsDue]_idleVars
  <2> SUFFICES ASSUME TInv, [IdleNext]_idleVars PROVE TInv' /\ [TimersAsDue]_idleVars
    OBVIOUS
  <2>1. Clock(machine)' /\ TimersAsDue  BY TimersKeep
  <2>2. IInv'  BY NextKeeps
  <2> QED  BY <2>1, <2>2
<1> HIDE DEF TInv
<1> QED  BY <1>1, <1>2, PTL DEF IdleSpec, TimersOnTime
=============================================================================
