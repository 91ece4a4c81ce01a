------------------------------ MODULE PmuProofs ------------------------------
(***************************************************************************)
(* Proofs about Pmu, for any rates, delays, radices and uses.              *)
(***************************************************************************)
EXTENDS Pmu, TLAPS

-----------------------------------------------------------------------------
(***************************************************************************)
(* Arithmetic.                                                             *)
(***************************************************************************)
\* Division and remainder by a positive number.
LEMMA DivMod ==
  ASSUME NEW a \in Nat, NEW b \in Nat, b > 0
  PROVE  /\ a \div b \in Nat
         /\ a % b \in 0 .. b - 1
         /\ a = b * (a \div b) + (a % b)
  BY SMT

\* Multiplication by a natural number is monotone.
LEMMA MulMono ==
  ASSUME NEW a \in Int, NEW b \in Int, NEW c \in Nat, a <= b
  PROVE  a * c <= b * c
  BY SMT

\* A duration takes a whole number of ticks, and at least one.
LEMMA TicksForPositive ==
  ASSUME NEW usec \in Nat, NEW r \in Rates
  PROVE  TicksFor(usec, r) \in Nat /\ TicksFor(usec, r) >= 1
<1>1. r \in Nat /\ r > 0 /\ usec + r - 1 \in Nat  BY PmuAssumption
<1>2. (usec + r - 1) \div r \in Nat  BY <1>1, DivMod
<1> QED  BY <1>2 DEF TicksFor

\* A clock read from a number of seconds has its fields in range.
LEMMA AsClockType ==
  ASSUME NEW n \in Nat
  PROVE  AsClock(n) \in Clocks
<1>1. Seconds \in Nat /\ Seconds > 0 /\ Minutes \in Nat /\ Minutes > 0  BY PmuAssumption
<1>2. n % Seconds \in 0 .. Seconds - 1 /\ n \div Seconds \in Nat  BY <1>1, DivMod
<1>3. (n \div Seconds) % Minutes \in 0 .. Minutes - 1  BY <1>1, <1>2, DivMod
<1> QED  BY <1>2, <1>3 DEF AsClock, Clocks

\* The seconds a clock stands for.
LEMMA AsSecondsType ==
  ASSUME NEW c \in Clocks
  PROVE  AsSeconds(c) \in Nat
<1>1. Seconds \in Nat  BY PmuAssumption
<1>2. c.sec \in Nat /\ c.min \in Nat  BY <1>1, PmuAssumption DEF Clocks
<1> QED  BY <1>1, <1>2 DEF AsSeconds

\* Time that has passed is a natural number of seconds.
LEMMA ElapsedType ==
  ASSUME NEW base \in Nat, NEW t \in Nat, base <= t, NEW r \in Rates
  PROVE  ElapsedSeconds(base, r, t) \in Nat
<1>1. r \in Nat /\ Second \in Nat /\ Second > 0  BY PmuAssumption
<1>2. t - base \in Nat  OBVIOUS
<1>3. (t - base) * r \in Nat  BY <1>1, <1>2
<1> QED  BY <1>1, <1>3, DivMod DEF ElapsedSeconds

\* What the guest reads is a clock.
LEMMA RtcFieldsType ==
  ASSUME NEW p \in Pmus, NEW t \in Nat, p.rtc_base <= t, NEW r \in Rates
  PROVE  RtcFields(p, r, t) \in Clocks
<1>1. p.rtc \in Clocks /\ p.rtc_base \in Nat  BY DEF Pmus
<1>2. DefaultRtc \in Clocks  BY PmuAssumption DEF DefaultRtc, Clocks
<1>3. AsSeconds(p.rtc) + ElapsedSeconds(p.rtc_base, r, t) \in Nat
  BY <1>1, AsSecondsType, ElapsedType
<1>4. AsSeconds(DefaultRtc) + ElapsedSeconds(0, r, t) \in Nat
  BY <1>2, AsSecondsType, ElapsedType
<1> QED  BY <1>3, <1>4, AsClockType DEF RtcFields

-----------------------------------------------------------------------------
(***************************************************************************)
(* The parts of a tick.  Each keeps the types and what the parts before it *)
(* have established, and loses no event.                                   *)
(***************************************************************************)

\* What a tick starts from: deadlines are armed for what has not happened.
Consistent(p) ==
  /\ p.standby_deadline # 0 => ~p.standby
  /\ p.adc_deadline # 0 => ~p.adc_ready
  /\ p.low_deadline # 0 => ~p.low
  /\ p.forced_deadline # 0 => p.low

StandbyAhead(p, t) == p.standby_deadline # 0 => p.standby_deadline > t
AdcAhead(p, t)     == p.adc_deadline # 0 => p.adc_deadline > t
LowAhead(p, t)     == p.low_deadline # 0 => p.low_deadline > t
ForcedAhead(p, t)  ==
  p.forced_deadline # 0 => p.forced_deadline > t \/ p.standby \/ p.wake_requested

\* What no part of a tick before the alarm does.
Keeps(p, q) ==
  /\ p.ints \subseteq q.ints
  /\ p.standby => q.standby
  /\ q.rtc_base = p.rtc_base /\ q.last_second = p.last_second

\* The events.
LEMMA EventNames ==
  Events = {"second", "alarm", "onkey", "chgins", "chgrm", "adcrdy", "lowbat"}
<1>1. Events = Register["INT1"] \cup Register["INT2"] \cup Register["INT3"]
  BY DEF Events, Register
<1> QED  BY <1>1 DEF Register

\* Entering standby.
LEMMA EnterStandbyKeeps ==
  ASSUME NEW p \in Pmus, Consistent(p), NEW t \in Nat
  PROVE  LET q == EnterStandby(p)
         IN  /\ q \in Pmus /\ Consistent(q) /\ Keeps(p, q) /\ q.standby
             /\ StandbyAhead(q, t)
             /\ AdcAhead(p, t) => AdcAhead(q, t)
             /\ q.low_deadline = p.low_deadline /\ q.forced_deadline = p.forced_deadline
  BY DEF EnterStandby, Pmus, Consistent, Keeps, StandbyAhead, AdcAhead

\* The standby deadline.
LEMMA TickStandbyKeeps ==
  ASSUME NEW p \in Pmus, Consistent(p), NEW t \in Nat
  PROVE  LET q == TickStandby(p, t)
         IN  q \in Pmus /\ Consistent(q) /\ Keeps(p, q) /\ StandbyAhead(q, t)
<1>1. CASE ~p.standby /\ Reached(p.standby_deadline, t)
  BY <1>1, EnterStandbyKeeps DEF TickStandby
<1>2. CASE ~(~p.standby /\ Reached(p.standby_deadline, t))
  BY <1>2 DEF TickStandby, Reached, StandbyAhead, Keeps, Consistent, Pmus
<1> QED  BY <1>1, <1>2

\* The conversion.
LEMMA TickAdcKeeps ==
  ASSUME NEW p \in Pmus, Consistent(p), NEW t \in Nat, StandbyAhead(p, t)
  PROVE  LET q == TickAdc(p, t)
         IN  /\ q \in Pmus /\ Consistent(q) /\ Keeps(p, q)
             /\ StandbyAhead(q, t) /\ AdcAhead(q, t)
<1>1. CASE Reached(p.adc_deadline, t)
  <2>1. TickAdc(p, t) =
          [p EXCEPT !.adc_ready = TRUE, !.adc_deadline = 0, !.ints = @ \cup {"adcrdy"}]
    BY <1>1 DEF TickAdc
  <2>2. p.ints \cup {"adcrdy"} \in SUBSET Events  BY EventNames DEF Pmus
  <2> QED  BY <2>1, <2>2 DEF Pmus, Consistent, Keeps, StandbyAhead, AdcAhead
<1>2. CASE ~Reached(p.adc_deadline, t)
  BY <1>2 DEF TickAdc, Reached, Pmus, Keeps, AdcAhead
<1> QED  BY <1>1, <1>2

\* The report of a low battery.
LEMMA BatteryLowKeeps ==
  ASSUME NEW p \in Pmus, Consistent(p), NEW r \in Rates, NEW t \in Nat
  PROVE  LET q == BatteryLow(p, r, t)
         IN  /\ q \in Pmus /\ Consistent(q) /\ Keeps(p, q) /\ LowAhead(q, t)
             /\ StandbyAhead(p, t) => StandbyAhead(q, t)
             /\ AdcAhead(p, t) => AdcAhead(q, t)
<1> DEFINE due == t + TicksFor(ForcedDelay, r)
<1>1. due \in Nat  BY TicksForPositive, PmuAssumption
<1>2. BatteryLow(p, r, t) =
        [p EXCEPT !.low = TRUE, !.low_deadline = 0, !.ints = @ \cup {"lowbat"},
                  !.forced_deadline = due]
  BY DEF BatteryLow
<1>3. p.ints \cup {"lowbat"} \in SUBSET Events  BY EventNames DEF Pmus
<1> HIDE DEF due
<1> QED
  BY <1>1, <1>2, <1>3 DEF Pmus, Consistent, Keeps, LowAhead, StandbyAhead, AdcAhead

\* The battery monitor.
LEMMA TickBatteryKeeps ==
  ASSUME NEW p \in Pmus, Consistent(p), NEW level \in Levels, NEW r \in Rates, NEW t \in Nat,
         StandbyAhead(p, t), AdcAhead(p, t)
  PROVE  LET q == TickBattery(p, level, r, t)
         IN  /\ q \in Pmus /\ Consistent(q) /\ Keeps(p, q)
             /\ StandbyAhead(q, t) /\ AdcAhead(q, t) /\ LowAhead(q, t)
<1> DEFINE due == t + (IF p.debounce THEN TicksFor(Debounce, r) ELSE 1)
<1>0. due \in Nat /\ due > t  BY TicksForPositive, PmuAssumption
<1>1. CASE ~p.low /\ level = "below" /\ p.low_deadline = 0
  <2>1. TickBattery(p, level, r, t) = [p EXCEPT !.low_deadline = due]
    BY <1>1 DEF TickBattery, Reached
  <2> HIDE DEF due
  <2> QED  BY <1>0, <1>1, <2>1 DEF Pmus, Consistent, Keeps, StandbyAhead, AdcAhead, LowAhead
<1>2. CASE ~p.low /\ level = "below" /\ Reached(p.low_deadline, t)
  <2>1. TickBattery(p, level, r, t) = BatteryLow(p, r, t)
    BY <1>2 DEF TickBattery, Reached
  <2> QED  BY <2>1, BatteryLowKeeps
<1>3. CASE p.low /\ level = "above"
  <2>1. TickBattery(p, level, r, t) =
          [p EXCEPT !.low = FALSE, !.low_deadline = 0, !.forced_deadline = 0]
    BY <1>3 DEF TickBattery
  <2> QED  BY <2>1 DEF Pmus, Consistent, Keeps, StandbyAhead, AdcAhead, LowAhead
<1>4. CASE level = "between" \/ (level = "above" /\ ~p.low)
  <2>1. TickBattery(p, level, r, t) = [p EXCEPT !.low_deadline = 0]
    BY <1>4 DEF TickBattery
  <2> QED  BY <2>1 DEF Pmus, Consistent, Keeps, StandbyAhead, AdcAhead, LowAhead
<1>5. CASE level = "below" /\ (p.low \/ (p.low_deadline # 0 /\ ~Reached(p.low_deadline, t)))
  <2>1. TickBattery(p, level, r, t) = p  BY <1>5 DEF TickBattery
  <2>2. LowAhead(p, t)  BY <1>5 DEF LowAhead, Reached, Consistent, Pmus
  <2> QED  BY <2>1, <2>2 DEF Keeps
<1> QED  BY <1>1, <1>2, <1>3, <1>4, <1>5 DEF Levels, Pmus

\* The forced standby.
LEMMA TickForcedKeeps ==
  ASSUME NEW p \in Pmus, Consistent(p), NEW t \in Nat,
         StandbyAhead(p, t), AdcAhead(p, t), LowAhead(p, t)
  PROVE  LET q == TickForced(p, t)
         IN  /\ q \in Pmus /\ Consistent(q) /\ Keeps(p, q)
             /\ StandbyAhead(q, t) /\ AdcAhead(q, t) /\ LowAhead(q, t) /\ ForcedAhead(q, t)
<1>1. CASE ~p.standby /\ Reached(p.forced_deadline, t)
  <2> DEFINE d == [p EXCEPT !.forced_deadline = 0]
  <2>1. /\ d \in Pmus /\ Consistent(d) /\ Keeps(p, d) /\ AdcAhead(d, t)
        /\ d.low_deadline = p.low_deadline /\ d.forced_deadline = 0
    BY DEF Pmus, Consistent, Keeps, AdcAhead
  <2>2. TickForced(p, t) = EnterStandby(d)  BY <1>1 DEF TickForced
  <2> HIDE DEF d
  <2>3. /\ EnterStandby(d) \in Pmus /\ Consistent(EnterStandby(d))
        /\ Keeps(d, EnterStandby(d)) /\ StandbyAhead(EnterStandby(d), t)
        /\ AdcAhead(EnterStandby(d), t)
        /\ EnterStandby(d).low_deadline = p.low_deadline
        /\ EnterStandby(d).forced_deadline = 0
    BY <2>1, EnterStandbyKeeps
  <2>4. Keeps(p, EnterStandby(d))  BY <2>1, <2>3 DEF Keeps
  <2> QED  BY <2>2, <2>3, <2>4 DEF LowAhead, ForcedAhead
<1>2. CASE ~(~p.standby /\ Reached(p.forced_deadline, t))
  <2>1. TickForced(p, t) = p  BY <1>2 DEF TickForced
  <2>2. ForcedAhead(p, t)  BY <1>2 DEF ForcedAhead, Reached, Pmus
  <2> QED  BY <2>1, <2>2 DEF Keeps
<1> QED  BY <1>1, <1>2

\* A wake.
LEMMA WakeKeeps ==
  ASSUME NEW p \in Pmus, Consistent(p), NEW t \in Nat,
         StandbyAhead(p, t), AdcAhead(p, t), LowAhead(p, t), ForcedAhead(p, t)
  PROVE  LET q == Wake(p)
         IN  /\ q \in Pmus /\ ArmedAt(q, t) /\ Consistent(q)
             /\ q.ints = p.ints /\ q.rtc_base = p.rtc_base /\ q.last_second = p.last_second
  BY DEF Wake, Pmus, Consistent, StandbyAhead, AdcAhead, LowAhead, ForcedAhead, ArmedAt

\* The second and the alarm: only the alarm wakes the machine.
LEMMA TickSecondKeeps ==
  ASSUME NEW p \in Pmus, Consistent(p), NEW r \in Rates, NEW t \in Nat, p.rtc_base <= t,
         StandbyAhead(p, t), AdcAhead(p, t), LowAhead(p, t), ForcedAhead(p, t)
  PROVE  LET q == TickSecond(p, r, t)
         IN  /\ q \in Pmus /\ ArmedAt(q, t) /\ p.ints \subseteq q.ints
             /\ p.standby /\ ~q.standby => "alarm" \in q.ints
             /\ q.rtc_base = p.rtc_base
             /\ q.last_second = ElapsedSeconds(p.rtc_base, r, t)
<1> DEFINE second == ElapsedSeconds(p.rtc_base, r, t)
           s      == [p EXCEPT !.last_second = second, !.ints = @ \cup {"second"}]
           fields == RtcFields(p, r, t)
           match  == AlarmMatches(s.alarm, fields)
           starts == match /\ ~s.match_active
           raised == [s EXCEPT !.match_active = match,
                               !.ints = IF starts THEN @ \cup {"alarm"} ELSE @]
           q      == TickSecond(p, r, t)
<1>0. second \in Nat  BY ElapsedType DEF Pmus
<1>1. CASE second = p.last_second
  <2>1. q = p  BY <1>1 DEF TickSecond
  <2> QED
    BY <1>1, <2>1 DEF ArmedAt, Consistent, StandbyAhead, AdcAhead, LowAhead, ForcedAhead
<1>2. CASE second # p.last_second
  <2>1. match \in BOOLEAN  BY DEF AlarmMatches
  <2>2. q = TickAlarm(s, fields)  BY <1>2 DEF TickSecond
  <2>3. q = IF starts /\ "rtcwak" \in s.wakes /\ "alarm" \notin s.masked
            THEN Wake(raised) ELSE raised
    BY <2>2 DEF TickAlarm
  <2>4. /\ s \in Pmus /\ s.last_second = second /\ p.ints \subseteq s.ints
        /\ s.standby = p.standby /\ s.rtc_base = p.rtc_base /\ Consistent(s)
        /\ StandbyAhead(s, t) /\ AdcAhead(s, t) /\ LowAhead(s, t) /\ ForcedAhead(s, t)
    <3>1. p.ints \cup {"second"} \in SUBSET Events  BY EventNames DEF Pmus
    <3> HIDE DEF second
    <3> QED
      BY <1>0, <3>1 DEF Pmus, Consistent, StandbyAhead, AdcAhead, LowAhead, ForcedAhead
  <2> HIDE DEF second, s, match, q
  <2>5. /\ raised \in Pmus /\ raised.last_second = second /\ s.ints \subseteq raised.ints
        /\ raised.standby = s.standby /\ raised.rtc_base = s.rtc_base /\ Consistent(raised)
        /\ StandbyAhead(raised, t) /\ AdcAhead(raised, t) /\ LowAhead(raised, t)
        /\ ForcedAhead(raised, t)
        /\ starts => "alarm" \in raised.ints
    <3>1. s.ints \in SUBSET Events /\ s.ints \cup {"alarm"} \in SUBSET Events
      BY <2>4, EventNames DEF Pmus
    <3> QED
      BY <2>1, <2>4, <3>1 DEF Pmus, Consistent, StandbyAhead, AdcAhead, LowAhead, ForcedAhead
  <2> HIDE DEF starts, raised
  <2>6. CASE starts /\ "rtcwak" \in s.wakes /\ "alarm" \notin s.masked
    <3>1. q = Wake(raised)  BY <2>3, <2>6
    <3> QED  BY <2>4, <2>5, <2>6, <3>1, WakeKeeps DEF second, q
  <2>7. CASE ~(starts /\ "rtcwak" \in s.wakes /\ "alarm" \notin s.masked)
    <3>1. q = raised  BY <2>3, <2>7
    <3>2. ArmedAt(raised, t)
      BY <2>5 DEF ArmedAt, Consistent, StandbyAhead, AdcAhead, LowAhead, ForcedAhead
    <3> QED  BY <2>4, <2>5, <3>1, <3>2 DEF second, q
  <2> QED  BY <2>6, <2>7
<1> QED  BY <1>1, <1>2

\* The whole tick.
LEMMA TickKeeps ==
  ASSUME NEW p \in Pmus, Consistent(p), NEW level \in Levels, NEW r \in Rates,
         NEW t \in Nat, p.rtc_base <= t
  PROVE  LET q == TickAt(p, level, r, t)
         IN  /\ q \in Pmus /\ ArmedAt(q, t) /\ p.ints \subseteq q.ints
             /\ p.standby /\ ~q.standby => "alarm" \in q.ints
             /\ q.rtc_base = p.rtc_base
             /\ q.last_second = ElapsedSeconds(p.rtc_base, r, t)
<1> DEFINE s == TickStandby(p, t)
           a == TickAdc(s, t)
           b == TickBattery(a, level, r, t)
           f == TickForced(b, t)
<1>1. s \in Pmus /\ Consistent(s) /\ Keeps(p, s) /\ StandbyAhead(s, t)
  BY TickStandbyKeeps
<1>2. TickAt(p, level, r, t) = TickSecond(f, r, t)  BY DEF TickAt
<1> HIDE DEF s
<1>3. a \in Pmus /\ Consistent(a) /\ Keeps(s, a) /\ StandbyAhead(a, t) /\ AdcAhead(a, t)
  BY <1>1, TickAdcKeeps
<1> HIDE DEF a
<1>4. /\ b \in Pmus /\ Consistent(b) /\ Keeps(a, b)
      /\ StandbyAhead(b, t) /\ AdcAhead(b, t) /\ LowAhead(b, t)
  BY <1>3, TickBatteryKeeps
<1> HIDE DEF b
<1>5. /\ f \in Pmus /\ Consistent(f) /\ Keeps(b, f)
      /\ StandbyAhead(f, t) /\ AdcAhead(f, t) /\ LowAhead(f, t) /\ ForcedAhead(f, t)
  BY <1>4, TickForcedKeeps
<1> HIDE DEF f
<1>6. Keeps(p, f)  BY <1>1, <1>3, <1>4, <1>5 DEF Keeps
<1>7. f.rtc_base = p.rtc_base /\ (p.standby => f.standby) /\ p.ints \subseteq f.ints
  BY <1>6 DEF Keeps
<1> QED  BY <1>2, <1>5, <1>7, TickSecondKeeps

-----------------------------------------------------------------------------
(***************************************************************************)
(* The inductive invariant.                                                *)
(***************************************************************************)
IInv == TypeOK /\ Armed /\ SecondSeen /\ WakeReasonKept

\* No time has passed when the clock starts.
LEMMA NothingElapsed ==
  ASSUME NEW t \in Nat, NEW r \in Rates
  PROVE  ElapsedSeconds(t, r, t) = 0
<1>1. r \in Nat /\ Second \in Nat /\ Second > 0  BY PmuAssumption
<1>2. (t - t) * r = 0  BY <1>1
<1>3. 0 \div Second = 0  BY <1>1, SMT
<1> QED  BY <1>2, <1>3 DEF ElapsedSeconds

\* The registers after a power-up.
LEMMA StartType == Start \in Pmus
  BY PmuAssumption DEF Start, Pmus, Clocks, Alarms, WakeBits

\* The initial states.
LEMMA InitInv == Init => IInv
<1> SUFFICES ASSUME Init  PROVE IInv  OBVIOUS
<1>2. TypeOK  BY StartType DEF Init, TypeOK, Levels
<1>3. Armed  BY DEF Init, Armed, ArmedAt, Start
<1>4. SecondSeen
  <2>1. ElapsedSeconds(0, rate, 0) = 0  BY NothingElapsed DEF Init
  <2> QED  BY <2>1 DEF Init, SecondSeen, Start
<1>5. WakeReasonKept  BY DEF Init, WakeReasonKept
<1> QED  BY <1>2, <1>3, <1>4, <1>5 DEF IInv

\* A guest access that sets registers: what must be known of the new ones.
LEMMA GuestSetsInv ==
  ASSUME IInv, NEW p \in Pmus, GuestSets(p),
         ArmedAt(p, now), p.ints = pmu.ints, p.rtc_base <= now,
         \/ p.rtc_base = pmu.rtc_base /\ p.last_second = pmu.last_second
         \/ p.rtc_base = now /\ p.last_second = 0
  PROVE  IInv'
<1> USE DEF GuestSets, outside, history
<1>1. TypeOK'  BY DEF IInv, TypeOK
<1>2. Armed'  BY DEF Armed
<1>3. SecondSeen'
  <2>1. now \in Nat /\ rate \in Rates  BY DEF IInv, TypeOK
  <2>2. ElapsedSeconds(now, rate, now) = 0  BY <2>1, NothingElapsed
  <2>3. FixedRate => p.last_second = ElapsedSeconds(p.rtc_base, rate, now)
    BY <2>2 DEF IInv, SecondSeen
  <2> QED  BY <2>3 DEF SecondSeen, FixedRate
<1>4. WakeReasonKept'  BY DEF IInv, WakeReasonKept
<1> QED  BY <1>1, <1>2, <1>3, <1>4 DEF IInv

\* Guest accesses.
LEMMA GuestInv ==
  ASSUME IInv, GuestAccess
  PROVE  IInv'
<1>0. /\ pmu \in Pmus /\ now \in Nat /\ rate \in Rates /\ ArmedAt(pmu, now)
      /\ pmu.rtc_base <= now
  BY DEF IInv, TypeOK, Armed, SecondSeen
<1>1. ASSUME NEW wakes \in SUBSET WakeBits, NEW go \in BOOLEAN, WriteOocc1(wakes, go)
      PROVE IInv'
  <2> DEFINE due == IF go /\ ~pmu.standby /\ pmu.standby_deadline = 0
                    THEN now + TicksFor(StandbyDelay, rate) ELSE pmu.standby_deadline
             p   == [pmu EXCEPT !.wakes = wakes, !.standby_deadline = due]
  <2>1. /\ due \in Nat
        /\ due # 0 => ~pmu.standby /\ due > now
    BY <1>0, TicksForPositive, PmuAssumption DEF Pmus, ArmedAt
  <2>2. GuestSets(p)  BY <1>1 DEF WriteOocc1
  <2> HIDE DEF due
  <2>3. p \in Pmus /\ ArmedAt(p, now)  BY <1>0, <2>1 DEF Pmus, ArmedAt
  <2>4. p.ints = pmu.ints /\ p.rtc_base = pmu.rtc_base /\ p.last_second = pmu.last_second
    BY <1>0 DEF Pmus
  <2> HIDE DEF p
  <2> QED  BY <1>0, <2>2, <2>3, <2>4, GuestSetsInv
<1>2. ASSUME NEW masked \in SUBSET Masks, WriteMasks(masked)
      PROVE IInv'
  <2> DEFINE p == [pmu EXCEPT !.masked = masked]
  <2>1. GuestSets(p)  BY <1>2 DEF WriteMasks
  <2>2. p \in Pmus /\ ArmedAt(p, now)  BY <1>0 DEF Pmus, ArmedAt
  <2>3. p.ints = pmu.ints /\ p.rtc_base = pmu.rtc_base /\ p.last_second = pmu.last_second
    BY <1>0 DEF Pmus
  <2> HIDE DEF p
  <2> QED  BY <1>0, <2>1, <2>2, <2>3, GuestSetsInv
<1>3. ASSUME NEW register \in DOMAIN Register, ReadInt(register)
      PROVE IInv'
  <2> USE <1>3 DEF ReadInt, outside
  <2>1. TypeOK'  BY <1>0 DEF IInv, TypeOK, Pmus
  <2>2. Armed'  BY <1>0 DEF Armed, ArmedAt, Pmus
  <2>3. SecondSeen'  BY <1>0 DEF IInv, SecondSeen, FixedRate, Pmus
  <2>4. WakeReasonKept'  BY <1>0 DEF IInv, WakeReasonKept, Pmus
  <2> QED  BY <2>1, <2>2, <2>3, <2>4 DEF IInv
<1>4. ASSUME NEW sync \in BOOLEAN, StartAdc(sync)
      PROVE IInv'
  <2> DEFINE due == IF sync THEN 0 ELSE now + TicksFor(AdcTime, rate)
             p   == [pmu EXCEPT !.adc_ready = FALSE, !.adc_deadline = due]
  <2>1. due \in Nat /\ (due # 0 => due > now)
    BY <1>0, TicksForPositive, PmuAssumption
  <2>2. GuestSets(p)  BY <1>4 DEF StartAdc
  <2> HIDE DEF due
  <2>3. p \in Pmus /\ ArmedAt(p, now)  BY <1>0, <2>1 DEF Pmus, ArmedAt
  <2>4. p.ints = pmu.ints /\ p.rtc_base = pmu.rtc_base /\ p.last_second = pmu.last_second
    BY <1>0 DEF Pmus
  <2> HIDE DEF p
  <2> QED  BY <1>0, <2>2, <2>3, <2>4, GuestSetsInv
<1>5. ASSUME NEW level \in Levels, NEW debounce \in BOOLEAN, WriteBvmc(level, debounce)
      PROVE IInv'
  <2> USE <1>5 DEF WriteBvmc, history
  <2>1. TypeOK'  BY <1>0 DEF IInv, TypeOK, Pmus
  <2>2. Armed'  BY <1>0 DEF Armed, ArmedAt, Pmus
  <2>3. SecondSeen'  BY <1>0 DEF IInv, SecondSeen, FixedRate, Pmus
  <2>4. WakeReasonKept'  BY <1>0 DEF IInv, WakeReasonKept, Pmus
  <2> QED  BY <2>1, <2>2, <2>3, <2>4 DEF IInv
<1>6. ASSUME NEW field \in {"sec", "min"}, NEW value, WriteRtc(field, value),
             [pmu.rtc EXCEPT ![field] = value] \in Clocks
      PROVE IInv'
  <2> DEFINE p   == ClockWritten(field, value)
             rtc == [pmu.rtc EXCEPT ![field] = value]
  <2>1. GuestSets(p)  BY <1>6 DEF WriteRtc
  <2>2. p = [pmu EXCEPT !.rtc = rtc, !.rtc_set = @ \/ field = "sec",
                        !.rtc_base = now, !.last_second = 0]
    BY <1>0 DEF ClockWritten, Pmus
  <2>3. rtc \in Clocks  BY <1>6
  <2> HIDE DEF rtc
  <2>4. p \in Pmus /\ ArmedAt(p, now)  BY <1>0, <2>2, <2>3 DEF Pmus, ArmedAt
  <2>5. p.ints = pmu.ints /\ p.rtc_base = now /\ p.last_second = 0
    BY <1>0, <2>2 DEF Pmus
  <2> HIDE DEF p
  <2> QED  BY <1>0, <2>1, <2>4, <2>5, GuestSetsInv
<1>7. ASSUME NEW field \in {"sec", "min"}, NEW value, WriteAlarm(field, value),
             [pmu.alarm EXCEPT ![field] = value] \in Alarms
      PROVE IInv'
  <2> DEFINE alarm == [pmu.alarm EXCEPT ![field] = value]
             p == [pmu EXCEPT !.alarm = alarm, !.match_active = FALSE]
  <2>1. GuestSets(p)  BY <1>0, <1>7 DEF WriteAlarm, Pmus
  <2>2. alarm \in Alarms  BY <1>7
  <2> HIDE DEF alarm
  <2>3. p \in Pmus /\ ArmedAt(p, now)  BY <1>0, <2>2 DEF Pmus, ArmedAt
  <2>4. p.ints = pmu.ints /\ p.rtc_base = pmu.rtc_base /\ p.last_second = pmu.last_second
    BY <1>0 DEF Pmus
  <2> HIDE DEF p
  <2> QED  BY <1>0, <2>1, <2>3, <2>4, GuestSetsInv
<1>8. pmu.rtc \in Clocks /\ pmu.alarm \in Alarms  BY <1>0 DEF Pmus
<1>9. /\ \A sec \in 0 .. Seconds - 1 : [pmu.rtc EXCEPT !["sec"] = sec] \in Clocks
      /\ \A min \in 0 .. Minutes - 1 : [pmu.rtc EXCEPT !["min"] = min] \in Clocks
      /\ \A sec \in {Off} \cup 0 .. Seconds - 1 : [pmu.alarm EXCEPT !["sec"] = sec] \in Alarms
      /\ \A min \in {Off} \cup 0 .. Minutes - 1 : [pmu.alarm EXCEPT !["min"] = min] \in Alarms
  BY <1>8 DEF Clocks, Alarms
<1> QED
  BY <1>1, <1>2, <1>3, <1>4, <1>5, <1>6, <1>7, <1>9 DEF GuestAccess, SetClock

\* The outside.
LEMMA OutsideInv ==
  ASSUME IInv, Outside
  PROVE  IInv'
<1>0. /\ pmu \in Pmus /\ now \in Nat /\ rate \in Rates /\ ArmedAt(pmu, now)
      /\ pmu.rtc_base <= now
  BY DEF IInv, TypeOK, Armed, SecondSeen
<1>1. ASSUME NEW event \in {"onkey", "chgins", "chgrm"},
             NEW p, p = [pmu EXCEPT !.ints = @ \cup {event}]
      PROVE  /\ p \in Pmus /\ ArmedAt(p, now) /\ p.ints = pmu.ints \cup {event}
             /\ p.rtc_base = pmu.rtc_base /\ p.last_second = pmu.last_second
             /\ p.standby = pmu.standby
             /\ Wake(p) \in Pmus /\ ArmedAt(Wake(p), now) /\ Wake(p).ints = p.ints
             /\ Wake(p).rtc_base = pmu.rtc_base /\ Wake(p).last_second = pmu.last_second
  <2>1. pmu.ints \cup {event} \in SUBSET Events  BY <1>0, EventNames DEF Pmus
  <2>2. /\ p \in Pmus /\ ArmedAt(p, now) /\ p.ints = pmu.ints \cup {event}
        /\ p.rtc_base = pmu.rtc_base /\ p.last_second = pmu.last_second
        /\ p.standby = pmu.standby
    BY <1>0, <1>1, <2>1 DEF Pmus, ArmedAt
  <2>3. /\ Consistent(p) /\ StandbyAhead(p, now) /\ AdcAhead(p, now) /\ LowAhead(p, now)
        /\ ForcedAhead(p, now)
    BY <2>2 DEF ArmedAt, Consistent, StandbyAhead, AdcAhead, LowAhead, ForcedAhead
  <2> QED  BY <1>0, <2>2, <2>3, WakeKeeps
<1>2. ASSUME Onkey  PROVE IInv'
  <2> DEFINE p == [pmu EXCEPT !.ints = @ \cup {"onkey"}]
  <2> USE <1>2 DEF Onkey, outside
  <2>1. pmu' = Wake(p)  OBVIOUS
  <2>2. /\ Wake(p) \in Pmus /\ ArmedAt(Wake(p), now) /\ "onkey" \in Wake(p).ints
        /\ Wake(p).rtc_base = pmu.rtc_base /\ Wake(p).last_second = pmu.last_second
    BY <1>1
  <2> HIDE DEF p
  <2>3. TypeOK'  BY <2>1, <2>2 DEF IInv, TypeOK
  <2>4. Armed'  BY <2>1, <2>2 DEF Armed
  <2>5. SecondSeen'  BY <2>1, <2>2 DEF IInv, SecondSeen, FixedRate
  <2>6. WakeReasonKept'  BY <2>1, <2>2 DEF WakeReasonKept
  <2> QED  BY <2>3, <2>4, <2>5, <2>6 DEF IInv
<1>3. ASSUME ChargerEvent  PROVE IInv'
  <2> DEFINE event == IF charger' THEN "chgins" ELSE "chgrm"
             p     == [pmu EXCEPT !.ints = @ \cup {event}]
  <2>1. event \in {"chgins", "chgrm"}  OBVIOUS
  <2>2. /\ p \in Pmus /\ ArmedAt(p, now) /\ p.ints = pmu.ints \cup {event}
        /\ p.rtc_base = pmu.rtc_base /\ p.last_second = pmu.last_second
        /\ p.standby = pmu.standby
        /\ Wake(p) \in Pmus /\ ArmedAt(Wake(p), now) /\ Wake(p).ints = p.ints
        /\ Wake(p).rtc_base = pmu.rtc_base /\ Wake(p).last_second = pmu.last_second
    BY <1>1, <2>1
  <2>3. /\ charger' = ~charger /\ UNCHANGED <<now, rate, battery, restarting, below_run, low_run>>
        /\ pmu' \in {p, Wake(p)} /\ (pmu' = Wake(p) /\ pmu' # p => event = "chgins")
        /\ woken' = Awakened(pmu, pmu', "chgins")
    BY <1>3 DEF ChargerEvent
  <2> HIDE DEF event, p
  <2>4. TypeOK'  BY <2>2, <2>3 DEF IInv, TypeOK, Awakened
  <2>5. Armed'  BY <2>2, <2>3 DEF Armed
  <2>6. SecondSeen'  BY <2>2, <2>3 DEF IInv, SecondSeen, FixedRate
  <2>7. WakeReasonKept'
    <3>1. pmu'.ints = pmu.ints \cup {event}  BY <2>2, <2>3
    <3>2. pmu.standby /\ ~pmu'.standby => event = "chgins"  BY <2>2, <2>3
    <3> QED  BY <2>3, <3>1, <3>2 DEF IInv, WakeReasonKept, Awakened
  <2> QED  BY <2>4, <2>5, <2>6, <2>7 DEF IInv
<1>4. ASSUME NEW level \in Levels, SetBattery(level)  PROVE IInv'
  BY <1>4 DEF SetBattery, history, IInv, TypeOK, Armed, SecondSeen, FixedRate, WakeReasonKept
<1>5. ASSUME NEW r \in Rates, SetRate(r)  PROVE IInv'
  <2> USE <1>5 DEF SetRate, history
  <2>1. FixedRate' => FixedRate /\ rate' = rate  BY DEF IInv, TypeOK, FixedRate
  <2>2. SecondSeen'  BY <2>1 DEF IInv, SecondSeen
  <2> QED  BY <2>2 DEF IInv, TypeOK, Armed, WakeReasonKept
<1> QED  BY <1>2, <1>3, <1>4, <1>5 DEF Outside

\* One step of the loop, of one tick or of several.
LEMMA AdvanceInv ==
  ASSUME IInv, NEW n \in 1 .. MaxSkip, Advance(n)
  PROVE  IInv'
<1>0. /\ pmu \in Pmus /\ now \in Nat /\ rate \in Rates /\ battery \in Levels
      /\ ArmedAt(pmu, now) /\ pmu.rtc_base <= now /\ n \in Nat
  BY PmuAssumption DEF IInv, TypeOK, Armed, SecondSeen
<1>1. now + n \in Nat /\ now' = now + n /\ pmu.rtc_base <= now + n /\ pmu.rtc_base \in Nat
  BY <1>0 DEF Advance, Pmus
<1>2. Consistent(pmu)  BY <1>0 DEF ArmedAt, Consistent
<1> DEFINE q == TickAt(pmu, battery, rate, now + n)
<1>3. /\ q \in Pmus /\ ArmedAt(q, now + n) /\ pmu.ints \subseteq q.ints
      /\ pmu.standby /\ ~q.standby => "alarm" \in q.ints
      /\ q.rtc_base = pmu.rtc_base
      /\ q.last_second = ElapsedSeconds(pmu.rtc_base, rate, now + n)
  BY <1>0, <1>1, <1>2, TickKeeps
<1>4. /\ pmu' = q /\ UNCHANGED <<rate, battery, charger>>
      /\ restarting' = pmu'.wake_requested /\ woken' = Awakened(pmu, pmu', "alarm")
      /\ below_run' = IF battery = "below" THEN below_run + n ELSE 0
      /\ low_run' = IF pmu'.low /\ pmu.low THEN low_run + n ELSE 0
  BY <1>1 DEF Advance, outside
<1> HIDE DEF q
<1>5. TypeOK'
  <2>1. q.wake_requested \in BOOLEAN  BY <1>3 DEF Pmus
  <2> QED  BY <1>0, <1>1, <1>3, <1>4, <2>1 DEF IInv, TypeOK, Awakened
<1>6. Armed'  BY <1>1, <1>3, <1>4 DEF Armed
<1>7. SecondSeen'  BY <1>1, <1>3, <1>4 DEF SecondSeen
<1>8. WakeReasonKept'  BY <1>3, <1>4 DEF IInv, WakeReasonKept, Awakened
<1> QED  BY <1>5, <1>6, <1>7, <1>8 DEF IInv

\* What a restart finds: the registers, no deadline, and a clock that starts now.
LEMMA RestoredFacts ==
  ASSUME IInv
  PROVE  LET q == Restored(pmu, rate, now)
         IN  /\ q \in Pmus /\ ArmedAt(q, 0) /\ q.ints = pmu.ints
             /\ q.rtc_base = 0 /\ q.last_second = 0
<1>0. pmu \in Pmus /\ now \in Nat /\ rate \in Rates /\ pmu.rtc_base <= now
  BY DEF IInv, TypeOK, SecondSeen
<1> DEFINE fields == RtcFields(pmu, rate, now)
           q      == Restored(pmu, rate, now)
<1>1. fields \in Clocks  BY <1>0, RtcFieldsType
<1>2. /\ pmu.ints \in SUBSET Events /\ pmu.masked \in SUBSET Masks
      /\ pmu.wakes \in SUBSET WakeBits /\ pmu.debounce \in BOOLEAN
      /\ pmu.alarm \in Alarms /\ pmu.match_active \in BOOLEAN
  BY <1>0 DEF Pmus
<1>3. q = [Start EXCEPT !.ints = pmu.ints, !.masked = pmu.masked, !.wakes = pmu.wakes,
             !.debounce = pmu.debounce, !.alarm = pmu.alarm,
             !.match_active = pmu.match_active, !.rtc = fields, !.rtc_set = TRUE]
  BY DEF Restored
<1>4. /\ Start.standby_deadline = 0 /\ Start.adc_deadline = 0 /\ Start.low_deadline = 0
      /\ Start.forced_deadline = 0 /\ Start.rtc_base = 0 /\ Start.last_second = 0
  BY DEF Start
<1> HIDE DEF fields, q
<1>5. q \in Pmus  BY <1>1, <1>2, <1>3, StartType DEF Pmus
<1>6. /\ q.standby_deadline = 0 /\ q.adc_deadline = 0 /\ q.low_deadline = 0
      /\ q.forced_deadline = 0 /\ q.rtc_base = 0 /\ q.last_second = 0
      /\ q.ints = pmu.ints
  BY <1>3, <1>4, StartType DEF Pmus
<1>7. ArmedAt(q, 0)  BY <1>6 DEF ArmedAt
<1> QED  BY <1>5, <1>6, <1>7 DEF q

\* A machine that starts with such registers.
LEMMA BootInv ==
  ASSUME IInv, NEW p \in Pmus, Boot(p), ArmedAt(p, 0), p.ints = pmu.ints,
         p.rtc_base = 0, p.last_second = 0,
         rate' \in Rates, battery' \in Levels, charger' \in BOOLEAN, woken' = woken
  PROVE  IInv'
<1> USE DEF Boot
<1>1. TypeOK'  BY DEF IInv, TypeOK
<1>2. Armed'  BY DEF Armed
<1>3. SecondSeen'
  <2>1. ElapsedSeconds(0, rate', 0) = 0  BY NothingElapsed
  <2> QED  BY <2>1 DEF SecondSeen
<1>4. WakeReasonKept'  BY DEF IInv, WakeReasonKept
<1> QED  BY <1>1, <1>2, <1>3, <1>4 DEF IInv

\* A restart within the process.
LEMMA RestartInv ==
  ASSUME IInv, Restart
  PROVE  IInv'
<1> DEFINE q == Restored(pmu, rate, now)
<1>1. /\ q \in Pmus /\ ArmedAt(q, 0) /\ q.ints = pmu.ints
      /\ q.rtc_base = 0 /\ q.last_second = 0
  BY RestoredFacts
<1>2. /\ Boot(q) /\ rate' \in Rates /\ battery' \in Levels /\ charger' \in BOOLEAN
      /\ woken' = woken
  BY DEF Restart, IInv, TypeOK
<1> HIDE DEF q
<1> QED  BY <1>1, <1>2, BootInv

\* A new process.
LEMMA ColdStartInv ==
  ASSUME IInv, NEW gap \in Nat, ColdStart(gap)
  PROVE  IInv'
<1> DEFINE q     == Restored(pmu, rate, now)
           clock == AsClock(AsSeconds(q.rtc) + gap)
           p     == [q EXCEPT !.rtc = clock, !.match_active = FALSE]
<1>1. /\ q \in Pmus /\ ArmedAt(q, 0) /\ q.ints = pmu.ints
      /\ q.rtc_base = 0 /\ q.last_second = 0
  BY RestoredFacts
<1>2. Boot(p) /\ rate' \in Rates /\ battery' \in Levels /\ charger' \in BOOLEAN
      /\ woken' = woken
  BY DEF ColdStart
<1> HIDE DEF q
<1>3. clock \in Clocks
  <2>1. AsSeconds(q.rtc) \in Nat  BY <1>1, AsSecondsType DEF Pmus
  <2>2. AsSeconds(q.rtc) + gap \in Nat  BY <2>1
  <2> QED  BY <2>2, AsClockType
<1> HIDE DEF clock
<1>4. /\ p \in Pmus /\ ArmedAt(p, 0) /\ p.ints = pmu.ints
      /\ p.rtc_base = 0 /\ p.last_second = 0
  BY <1>1, <1>3 DEF Pmus, ArmedAt
<1> HIDE DEF p
<1> QED  BY <1>2, <1>4, BootInv

\* Every step.
LEMMA NextInv == IInv /\ [Next]_vars => IInv'
<1> SUFFICES ASSUME IInv, [Next]_vars  PROVE IInv'  OBVIOUS
<1>1. CASE UNCHANGED vars
  BY <1>1 DEF vars, outside, IInv, TypeOK, Armed, SecondSeen, FixedRate, WakeReasonKept
<1>2. CASE GuestAccess  BY <1>2, GuestInv
<1>3. CASE Outside  BY <1>3, OutsideInv
<1>4. ASSUME NEW n \in 1 .. MaxSkip, Advance(n)  PROVE IInv'  BY <1>4, AdvanceInv
<1>5. CASE Restart  BY <1>5, RestartInv
<1>6. ASSUME NEW gap \in 0 .. Seconds, ColdStart(gap)  PROVE IInv'
  <2>1. gap \in Nat  BY PmuAssumption
  <2> QED  BY <1>6, <2>1, ColdStartInv
<1> QED  BY <1>1, <1>2, <1>3, <1>4, <1>5, <1>6 DEF Next

\* The inductive invariant holds.
THEOREM Invariance == Spec => []IInv
  BY InitInv, NextInv, PTL DEF Spec

\* Types: no register, deadline or field of the clock ever leaves its range.
THEOREM TypeCorrect == Spec => []TypeOK
<1>1. IInv => TypeOK  BY DEF IInv
<1> QED  BY <1>1, Invariance, PTL

\* A deadline is armed only for something that has not happened yet.
THEOREM ArmedCorrect == Spec => []Armed
<1>1. IInv => Armed  BY DEF IInv
<1> QED  BY <1>1, Invariance, PTL

\* No second is announced twice or missed, unless the rate can change on the way.
THEOREM SecondCorrect == Spec => []SecondSeen
<1>1. IInv => SecondSeen  BY DEF IInv
<1> QED  BY <1>1, Invariance, PTL

\* After a wake the guest finds what woke it.
THEOREM WakeReasonCorrect == Spec => []WakeReasonKept
<1>1. IInv => WakeReasonKept  BY DEF IInv
<1> QED  BY <1>1, Invariance, PTL

-----------------------------------------------------------------------------
(***************************************************************************)
(* The idle fast-forward.                                                  *)
(***************************************************************************)

\* A quotient is the number of whole divisors.
LEMMA FloorBelow ==
  ASSUME NEW a \in Nat, NEW b \in Nat, b > 0
  PROVE  (a \div b) * b <= a
<1> DEFINE q == a \div b
           m == a % b
<1>1. q \in Nat /\ m \in 0 .. b - 1 /\ a = b * q + m  BY DivMod
<1> HIDE DEF q, m
<1>2. b * q = q * b  BY <1>1, SMT
<1> QED  BY <1>1, <1>2, b * q \in Nat DEF q

LEMMA FloorIs ==
  ASSUME NEW a \in Nat, NEW b \in Nat, b > 0, NEW c \in Nat,
         c * b <= a, a < c * b + b
  PROVE  a \div b = c
<1> DEFINE q == a \div b
           m == a % b
<1>1. q \in Nat /\ m \in 0 .. b - 1 /\ a = b * q + m  BY DivMod
<1> HIDE DEF q, m
<1>2. b * q = q * b /\ q * b \in Nat /\ c * b \in Nat  BY <1>1, SMT
<1>3. ASSUME q < c  PROVE FALSE
  <2>1. (q + 1) * b <= c * b  BY <1>1, <1>3, MulMono
  <2>2. (q + 1) * b = q * b + b  BY <1>1, SMT
  <2> QED  BY <1>1, <1>2, <2>1, <2>2
<1>4. ASSUME q > c  PROVE FALSE
  <2>1. (c + 1) * b <= q * b  BY <1>1, <1>4, MulMono
  <2>2. (c + 1) * b = c * b + b  BY SMT
  <2> QED  BY <1>1, <1>2, <2>1, <2>2
<1> QED  BY <1>1, <1>3, <1>4 DEF q

\* Before the next second is due, the clock stands at the last one announced.
LEMMA SecondNotDue ==
  ASSUME NEW p \in Pmus, NEW r \in Rates, NEW t \in Nat, p.rtc_base <= t,
         p.last_second = ElapsedSeconds(p.rtc_base, r, t),
         NEW n \in Nat, n <= UntilSecond(p, r, t), NEW i \in Nat, 1 <= i, i < n
  PROVE  ElapsedSeconds(p.rtc_base, r, t + i) = p.last_second
<1> DEFINE base == p.rtc_base
           last == p.last_second
           e    == (t - base) * r
           g    == (last + 1) * Second
           m    == (g - e + r - 1) \div r
           x    == i * r
           z    == ((t + i) - base) * r
<1>0. base \in Nat /\ last \in Nat /\ last = ElapsedSeconds(base, r, t) /\ base <= t
  BY DEF Pmus
<1>a. n <= IF g > e THEN m ELSE 1  BY DEF UntilSecond
<1> HIDE DEF base, last
<1>1. r \in Nat /\ r > 0 /\ Second \in Nat /\ Second > 0  BY PmuAssumption
<1>2. e \in Nat /\ g \in Nat /\ x \in Nat  BY <1>0, <1>1
<1>3. g > e /\ n <= m  BY <1>a, <1>2
<1>4. z = e + x
  <2>1. (t + i) - base = (t - base) + i  BY <1>0
  <2>2. \A a, b, c \in Int : (a + b) * c = a * c + b * c  BY SMT
  <2>3. t - base \in Int /\ i \in Int /\ r \in Int  BY <1>0, <1>1
  <2> QED  BY <2>1, <2>2, <2>3
<1>5. g = last * Second + Second
  BY <1>0, <1>1, SMT
<1>6. last * Second <= e
  <2>1. last = e \div Second  BY <1>0 DEF ElapsedSeconds
  <2> HIDE DEF e
  <2> QED  BY <1>1, <1>2, <2>1, FloorBelow
<1>7. x < g - e
  <2> DEFINE y == g - e + r - 1
  <2>1. y \in Nat  BY <1>1, <1>2, <1>3
  <2>2. m \in Nat /\ y = r * m + (y % r) /\ y % r \in 0 .. r - 1
    BY <1>1, <2>1, DivMod
  <2>3. i + 1 <= m  BY <1>3, <2>2
  <2>a. i + 1 \in Int /\ m \in Int  BY <2>2
  <2> HIDE DEF m
  <2>4. (i + 1) * r <= m * r  BY <1>1, <2>3, <2>a, MulMono
  <2>5. (i + 1) * r = x + r  BY <1>1, SMT
  <2>6. m * r = r * m  BY <1>1, <2>2, SMT
  <2> HIDE DEF x
  <2>7. x + r <= y  BY <1>1, <1>2, <2>1, <2>2, <2>4, <2>5, <2>6, r * m \in Nat
  <2> QED  BY <1>1, <1>2, <2>7
<1>8. last * Second <= e + x /\ e + x < last * Second + Second
  BY <1>0, <1>1, <1>2, <1>5, <1>6, <1>7
<1>9. ElapsedSeconds(base, r, t + i) = z \div Second
  BY DEF ElapsedSeconds
<1> HIDE DEF e, g, m, x, z
<1>10. (e + x) \div Second = last
  BY <1>0, <1>1, <1>2, <1>8, FloorIs
<1> QED  BY <1>4, <1>9, <1>10 DEF base, last

\* Ticks that nothing is due at change nothing, at a fixed rate.
LEMMA QuietTicks ==
  ASSUME IInv, FixedRate
  PROVE  SkipsAreInvisible
<1>0. /\ pmu \in Pmus /\ now \in Nat /\ rate \in Rates /\ battery \in Levels
      /\ ArmedAt(pmu, now) /\ pmu.rtc_base \in Nat /\ pmu.rtc_base <= now
      /\ pmu.last_second \in Nat
      /\ pmu.last_second = ElapsedSeconds(pmu.rtc_base, rate, now)
  BY DEF IInv, TypeOK, Armed, SecondSeen, Pmus
<1> SUFFICES ASSUME NEW n \in 1 .. MaxSkip, MaySkip(pmu, battery, rate, now, n),
                    NEW i \in 1 .. n - 1
             PROVE  TickAt(pmu, battery, rate, now + i) = pmu
  BY DEF SkipsAreInvisible
<1> DEFINE t == now + i
<1>1. n \in Nat /\ i \in Nat /\ 1 <= i /\ i < n /\ n # 1 /\ t \in Nat /\ now < t
  BY <1>0, PmuAssumption
<1>2. /\ Quiescent(pmu, battery) /\ n <= UntilSecond(pmu, rate, now)
      /\ \A d \in Deadlines(pmu) : n <= TicksUntil(d, now)
  BY <1>1 DEF MaySkip
<1>3. ASSUME NEW d \in Deadlines(pmu), d \in Nat, d > now
      PROVE  ~Reached(d, t)
  <2>1. n <= d - now  BY <1>2, <1>3 DEF TicksUntil
  <2> QED  BY <1>0, <1>1, <1>3, <2>1 DEF Reached
<1>4. ~Reached(pmu.standby_deadline, t)
  BY <1>0, <1>3 DEF Deadlines, ArmedAt, Pmus, Reached
<1>5. ~Reached(pmu.adc_deadline, t)
  BY <1>0, <1>3 DEF Deadlines, ArmedAt, Pmus, Reached
<1>6. ~Reached(pmu.low_deadline, t)
  BY <1>0, <1>3 DEF Deadlines, ArmedAt, Pmus, Reached
<1>7. pmu.standby \/ ~Reached(pmu.forced_deadline, t)
  BY <1>0, <1>2, <1>3 DEF Deadlines, ArmedAt, Pmus, Reached, Quiescent
<1>8. ElapsedSeconds(pmu.rtc_base, rate, t) = pmu.last_second
  BY <1>0, <1>1, <1>2, SecondNotDue
<1> HIDE DEF t
<1>9. TickStandby(pmu, t) = pmu  BY <1>4 DEF TickStandby
<1>10. TickAdc(pmu, t) = pmu  BY <1>5 DEF TickAdc
<1>11. TickBattery(pmu, battery, rate, t) = pmu
  <2>1. CASE battery = "below"
    BY <1>2, <1>6, <2>1 DEF TickBattery, Quiescent
  <2>2. CASE battery # "below"
    <3>1. pmu.low_deadline = 0 /\ ~(pmu.low /\ battery = "above")
      BY <1>2, <2>2 DEF Quiescent
    <3>2. battery = "between" \/ (battery = "above" /\ ~pmu.low)
      BY <1>0, <2>2, <3>1 DEF Levels
    <3>3. TickBattery(pmu, battery, rate, t) = [pmu EXCEPT !.low_deadline = 0]
      BY <2>2, <3>1, <3>2 DEF TickBattery
    <3> QED  BY <1>0, <3>1, <3>3 DEF Pmus
  <2> QED  BY <2>1, <2>2
<1>12. TickForced(pmu, t) = pmu  BY <1>7 DEF TickForced
<1>13. TickSecond(pmu, rate, t) = pmu  BY <1>8 DEF TickSecond
<1>14. TickAt(pmu, battery, rate, t) = pmu
  BY <1>9, <1>10, <1>11, <1>12, <1>13 DEF TickAt
<1> QED  BY <1>14 DEF t

\* Ticks taken in one do what they would have done one by one, for any deadlines,
\* battery and time, as long as the rate cannot change while the machine runs.
THEOREM SkipCorrect ==
  ASSUME \A r, s \in Rates : r = s
  PROVE  Spec => []SkipsAreInvisible
<1>1. IInv => FixedRate  BY DEF IInv, TypeOK, FixedRate
<1>2. IInv => SkipsAreInvisible  BY <1>1, QuietTicks
<1> QED  BY <1>2, Invariance, PTL

-----------------------------------------------------------------------------
(***************************************************************************)
(* The battery, in and between ticks.  The histories are tied to the       *)
(* deadlines: what has been counted and what is left add up to the delay.  *)
(***************************************************************************)

\* The ticks for a duration are the fewest that last as long.
LEMMA TicksForMeets ==
  ASSUME NEW usec \in Nat, NEW r \in Rates, NEW k \in Nat, k >= 1
  PROVE  k >= TicksFor(usec, r) <=> k * r >= usec
<1> DEFINE y == usec + r - 1
           m == y \div r
           z == y % r
<1>1. r \in Nat /\ r > 0 /\ y \in Nat  BY PmuAssumption
<1>2. m \in Nat /\ z \in 0 .. r - 1 /\ y = r * m + z  BY <1>1, DivMod
<1>3. k >= TicksFor(usec, r) <=> k >= m  BY <1>1, <1>2 DEF TicksFor
<1> HIDE DEF m, z
<1>4. m * r = r * m /\ r * m \in Nat /\ k * r \in Nat  BY <1>1, <1>2, SMT
<1>5. ASSUME k >= m  PROVE k * r >= usec
  <2>1. m * r <= k * r  BY <1>1, <1>2, <1>5, MulMono
  <2> QED  BY <1>1, <1>2, <1>4, <2>1
<1>6. ASSUME k < m  PROVE k * r < usec
  <2>1. (k + 1) * r <= m * r  BY <1>1, <1>2, <1>6, MulMono
  <2>2. (k + 1) * r = k * r + r  BY <1>1, SMT
  <2> QED  BY <1>1, <1>2, <1>4, <2>1, <2>2
<1>7. m \in Nat /\ k * r \in Nat  BY <1>2, <1>4
<1> HIDE DEF y
<1>8. CASE k >= m  BY <1>3, <1>5, <1>8
<1>9. CASE k < m
  <2>1. ~(k >= m)  BY <1>7, <1>9
  <2>2. ~(k * r >= usec)  BY <1>6, <1>7, <1>9
  <2> QED  BY <1>3, <2>1, <2>2
<1> QED  BY <1>7, <1>8, <1>9

\* What a tick makes of the monitor's deadline and of its report.
DebounceTicks(p, r) == IF p.debounce THEN TicksFor(Debounce, r) ELSE 1

Monitored(p, q, level, r, t) ==
  /\ p.low => (q.low <=> level # "above") /\ q.low_deadline = 0
  /\ ~p.low /\ level # "below" => ~q.low /\ q.low_deadline = 0
  /\ ~p.low /\ level = "below" /\ p.low_deadline = 0
       => ~q.low /\ q.low_deadline = t + DebounceTicks(p, r)
  /\ ~p.low /\ level = "below" /\ p.low_deadline # 0
       => IF t >= p.low_deadline THEN q.low ELSE ~q.low /\ q.low_deadline = p.low_deadline

\* The deadline of the forced standby after the monitor has looked.
ForcedFrom(p, q, r, t) ==
  IF q.low /\ ~p.low THEN t + TicksFor(ForcedDelay, r)
  ELSE IF p.low /\ ~q.low THEN 0 ELSE p.forced_deadline

SameBattery(p, q) ==
  q.low = p.low /\ q.low_deadline = p.low_deadline /\ q.debounce = p.debounce

\* What the parts of a tick but the monitor leave alone.
LEMMA StandbyLeaves ==
  ASSUME NEW p \in Pmus, NEW t \in Nat
  PROVE  LET q == TickStandby(p, t)
         IN  /\ SameBattery(p, q) /\ q.forced_deadline = p.forced_deadline
             /\ q.wake_requested = p.wake_requested
             /\ ~p.standby => (q.standby <=> Reached(p.standby_deadline, t))
  BY DEF TickStandby, EnterStandby, SameBattery, Pmus

LEMMA AdcLeaves ==
  ASSUME NEW p \in Pmus, NEW t \in Nat
  PROVE  LET q == TickAdc(p, t)
         IN  /\ SameBattery(p, q) /\ q.forced_deadline = p.forced_deadline
             /\ q.wake_requested = p.wake_requested /\ q.standby = p.standby
  BY DEF TickAdc, SameBattery, Pmus

LEMMA ForcedLeaves ==
  ASSUME NEW p \in Pmus, NEW t \in Nat
  PROVE  LET q == TickForced(p, t)
         IN  /\ SameBattery(p, q) /\ q.wake_requested = p.wake_requested
             /\ q.standby <=> p.standby \/ Reached(p.forced_deadline, t)
             /\ ~q.standby => q.forced_deadline = p.forced_deadline
  BY DEF TickForced, EnterStandby, SameBattery, Pmus

LEMMA SecondLeaves ==
  ASSUME NEW p \in Pmus, NEW r \in Rates, NEW t \in Nat, p.rtc_base <= t
  PROVE  LET q == TickSecond(p, r, t)
         IN  /\ SameBattery(p, q) /\ q.forced_deadline = p.forced_deadline
             /\ q.standby \/ q.wake_requested <=> p.standby \/ p.wake_requested
<1> DEFINE second == ElapsedSeconds(p.rtc_base, r, t)
           s      == [p EXCEPT !.last_second = second, !.ints = @ \cup {"second"}]
           match  == AlarmMatches(s.alarm, RtcFields(p, r, t))
           ints   == IF match /\ ~s.match_active THEN s.ints \cup {"alarm"} ELSE s.ints
           raised == [s EXCEPT !.match_active = match, !.ints = ints]
           q      == TickSecond(p, r, t)
<1>1. q \in {p, raised, Wake(raised)}
  BY DEF TickSecond, TickAlarm
<1>2. /\ SameBattery(p, raised) /\ raised.forced_deadline = p.forced_deadline
      /\ raised.standby = p.standby /\ raised.wake_requested = p.wake_requested
      /\ raised = [raised EXCEPT !.ints = ints]
      /\ DOMAIN raised = DOMAIN p
  <2> HIDE DEF second, match, ints
  <2> QED  BY DEF SameBattery, Pmus
<1> HIDE DEF raised, q
<1>3. /\ SameBattery(raised, Wake(raised)) /\ Wake(raised).forced_deadline = raised.forced_deadline
      /\ Wake(raised).standby \/ Wake(raised).wake_requested
           <=> raised.standby \/ raised.wake_requested
  BY <1>2 DEF Wake, SameBattery, Pmus
<1> QED  BY <1>1, <1>2, <1>3 DEF SameBattery, q

\* What the monitor does.
LEMMA BatteryMonitors ==
  ASSUME NEW p \in Pmus, Consistent(p), NEW level \in Levels, NEW r \in Rates, NEW t \in Nat
  PROVE  LET q == TickBattery(p, level, r, t)
         IN  /\ Monitored(p, q, level, r, t) /\ q.debounce = p.debounce
             /\ q.forced_deadline = ForcedFrom(p, q, r, t)
             /\ q.standby = p.standby /\ q.wake_requested = p.wake_requested
<1> DEFINE due == t + DebounceTicks(p, r)
           ahead == t + TicksFor(ForcedDelay, r)
<1> USE DEF Monitored, ForcedFrom
<1>1. CASE ~p.low /\ level = "below" /\ p.low_deadline = 0
  <2>1. TickBattery(p, level, r, t) = [p EXCEPT !.low_deadline = due]
    BY <1>1 DEF TickBattery, DebounceTicks, Reached
  <2> HIDE DEF due
  <2>2. TickBattery(p, level, r, t).low = p.low /\ TickBattery(p, level, r, t).low_deadline = due
    BY <2>1 DEF Pmus
  <2> QED  BY <1>1, <2>1, <2>2 DEF Pmus, due
<1>2. CASE ~p.low /\ level = "below" /\ Reached(p.low_deadline, t)
  <2>1. TickBattery(p, level, r, t) = BatteryLow(p, r, t)
    BY <1>2 DEF TickBattery, Reached
  <2>2. TickBattery(p, level, r, t) =
          [p EXCEPT !.low = TRUE, !.low_deadline = 0, !.ints = @ \cup {"lowbat"},
                    !.forced_deadline = ahead]
    BY <2>1 DEF BatteryLow
  <2> HIDE DEF ahead
  <2>3. /\ TickBattery(p, level, r, t).low = TRUE
        /\ TickBattery(p, level, r, t).forced_deadline = ahead
    BY <2>2 DEF Pmus
  <2> QED  BY <1>2, <2>2, <2>3 DEF Pmus, Reached, ahead
<1>3. CASE p.low /\ level = "above"
  <2>1. TickBattery(p, level, r, t) =
          [p EXCEPT !.low = FALSE, !.low_deadline = 0, !.forced_deadline = 0]
    BY <1>3 DEF TickBattery
  <2> QED  BY <1>3, <2>1 DEF Pmus
<1>4. CASE level = "between" \/ (level = "above" /\ ~p.low)
  <2>1. TickBattery(p, level, r, t) = [p EXCEPT !.low_deadline = 0]
    BY <1>4 DEF TickBattery
  <2> QED  BY <1>4, <2>1 DEF Pmus
<1>5. CASE level = "below" /\ (p.low \/ (p.low_deadline # 0 /\ ~Reached(p.low_deadline, t)))
  <2>1. TickBattery(p, level, r, t) = p  BY <1>5 DEF TickBattery
  <2> QED  BY <1>5, <2>1 DEF Reached, Consistent, Pmus
<1> QED  BY <1>1, <1>2, <1>3, <1>4, <1>5 DEF Levels, Pmus

\* The same of a whole tick, and when it ends in standby.
LEMMA TickMonitors ==
  ASSUME NEW p \in Pmus, Consistent(p), NEW level \in Levels, NEW r \in Rates, NEW t \in Nat,
         p.rtc_base <= t
  PROVE  LET q   == TickAt(p, level, r, t)
             due == ForcedFrom(p, q, r, t)
         IN  /\ Monitored(p, q, level, r, t) /\ q.debounce = p.debounce
             /\ ~q.standby /\ ~q.wake_requested => q.forced_deadline = due
             /\ p.standby \/ p.wake_requested => q.standby \/ q.wake_requested
             /\ ~p.standby /\ ~p.wake_requested
                  => (q.standby \/ q.wake_requested
                        <=> Reached(p.standby_deadline, t) \/ Reached(due, t))
<1> DEFINE s == TickStandby(p, t)
           a == TickAdc(s, t)
           b == TickBattery(a, level, r, t)
           f == TickForced(b, t)
           q == TickAt(p, level, r, t)
<1>1. /\ s \in Pmus /\ Consistent(s) /\ StandbyAhead(s, t) /\ s.rtc_base = p.rtc_base
      /\ SameBattery(p, s) /\ s.forced_deadline = p.forced_deadline
      /\ s.wake_requested = p.wake_requested
      /\ p.standby => s.standby
      /\ ~p.standby => (s.standby <=> Reached(p.standby_deadline, t))
  BY TickStandbyKeeps, StandbyLeaves DEF Keeps
<1>2. q = TickSecond(f, r, t)  BY DEF TickAt
<1> HIDE DEF s, q
<1>3. /\ a \in Pmus /\ Consistent(a) /\ StandbyAhead(a, t) /\ AdcAhead(a, t)
      /\ a.rtc_base = s.rtc_base /\ SameBattery(s, a)
      /\ a.forced_deadline = s.forced_deadline
      /\ a.wake_requested = s.wake_requested /\ a.standby = s.standby
  BY <1>1, TickAdcKeeps, AdcLeaves DEF Keeps
<1> HIDE DEF a
<1>4. /\ b \in Pmus /\ Consistent(b) /\ StandbyAhead(b, t) /\ AdcAhead(b, t) /\ LowAhead(b, t)
      /\ b.rtc_base = a.rtc_base
      /\ Monitored(a, b, level, r, t) /\ b.debounce = a.debounce
      /\ b.forced_deadline = ForcedFrom(a, b, r, t)
      /\ b.standby = a.standby /\ b.wake_requested = a.wake_requested
  BY <1>3, TickBatteryKeeps, BatteryMonitors DEF Keeps
<1> HIDE DEF b
<1>5. /\ f \in Pmus /\ f.rtc_base = b.rtc_base
      /\ SameBattery(b, f) /\ f.wake_requested = b.wake_requested
      /\ f.standby <=> b.standby \/ Reached(b.forced_deadline, t)
      /\ ~f.standby => f.forced_deadline = b.forced_deadline
  BY <1>4, TickForcedKeeps, ForcedLeaves DEF Keeps
<1> HIDE DEF f
<1>6. /\ SameBattery(f, q) /\ q.forced_deadline = f.forced_deadline
      /\ q.standby \/ q.wake_requested <=> f.standby \/ f.wake_requested
  BY <1>1, <1>2, <1>3, <1>4, <1>5, SecondLeaves
<1>7. SameBattery(p, a) /\ a.forced_deadline = p.forced_deadline  BY <1>1, <1>3 DEF SameBattery
<1>8. SameBattery(b, q)  BY <1>5, <1>6 DEF SameBattery
<1>9. Monitored(p, q, level, r, t) /\ q.debounce = p.debounce
  BY <1>4, <1>7, <1>8 DEF Monitored, SameBattery, DebounceTicks
<1>10. b.forced_deadline = ForcedFrom(p, q, r, t)
  BY <1>4, <1>7, <1>8 DEF ForcedFrom, SameBattery
<1> QED  BY <1>1, <1>3, <1>4, <1>5, <1>6, <1>9, <1>10 DEF q

\* The debounce has run for as long as the battery has been seen below, and the
\* forced standby for as long as it has been low.
LowCounted ==
  /\ below_run <= now
  /\ ~pmu.low => (pmu.low_deadline = 0 <=> below_run = 0)
  /\ ~pmu.low /\ below_run # 0
       => pmu.low_deadline + below_run = now + 1 + DebounceTicks(pmu, rate)

ForcedCounted ==
  pmu.low =>
    /\ low_run < now
    /\ ~pmu.standby /\ ~pmu.wake_requested
         => pmu.forced_deadline + low_run = now + TicksFor(ForcedDelay, rate)

\* A step of the loop.
LEMMA AdvanceFacts ==
  ASSUME IInv, NEW n \in 1 .. MaxSkip, Advance(n)
  PROVE  /\ pmu \in Pmus /\ now \in Nat /\ rate \in Rates /\ battery \in Levels
         /\ below_run \in Nat /\ low_run \in Nat
         /\ n \in Nat /\ n >= 1 /\ now' = now + n /\ now' \in Nat /\ now' > now
         /\ Consistent(pmu) /\ ArmedAt(pmu, now) /\ MaySkip(pmu, battery, rate, now, n)
         /\ pmu.rtc_base \in Nat /\ pmu.rtc_base <= now /\ pmu.rtc_base <= now'
         /\ pmu' = TickAt(pmu, battery, rate, now') /\ rate' = rate
         /\ below_run' = IF battery = "below" THEN below_run + n ELSE 0
         /\ low_run' = IF pmu'.low /\ pmu.low THEN low_run + n ELSE 0
<1>1. /\ pmu \in Pmus /\ now \in Nat /\ rate \in Rates /\ battery \in Levels
      /\ below_run \in Nat /\ low_run \in Nat
      /\ ArmedAt(pmu, now) /\ pmu.rtc_base <= now /\ n \in Nat /\ n >= 1
  BY PmuAssumption DEF IInv, TypeOK, Armed, SecondSeen
<1>2. Consistent(pmu) /\ pmu.rtc_base \in Nat  BY <1>1 DEF ArmedAt, Consistent, Pmus
<1> QED  BY <1>1, <1>2 DEF Advance, outside

LEMMA AdvanceMonitors ==
  ASSUME IInv, NEW n \in 1 .. MaxSkip, Advance(n)
  PROVE  /\ Monitored(pmu, pmu', battery, rate, now') /\ pmu'.debounce = pmu.debounce
         /\ ~pmu'.standby /\ ~pmu'.wake_requested
              => pmu'.forced_deadline = ForcedFrom(pmu, pmu', rate, now')
         /\ pmu.standby \/ pmu.wake_requested => pmu'.standby \/ pmu'.wake_requested
         /\ ~pmu.standby /\ ~pmu.wake_requested
              => (pmu'.standby \/ pmu'.wake_requested
                    <=> \/ Reached(pmu.standby_deadline, now')
                        \/ Reached(ForcedFrom(pmu, pmu', rate, now'), now'))
<1>1. /\ pmu \in Pmus /\ Consistent(pmu) /\ battery \in Levels /\ rate \in Rates
      /\ now' \in Nat /\ pmu.rtc_base <= now' /\ pmu' = TickAt(pmu, battery, rate, now')
  BY AdvanceFacts
<1> QED  BY <1>1, TickMonitors

\* A guest access between two ticks is none of the monitor's business, but for the
\* debounce.
LEMMA GuestLeaves ==
  ASSUME IInv, GuestAccess \/ Outside
  PROVE  /\ UNCHANGED <<now, restarting, below_run, low_run>>
         /\ UNCHANGED <<pmu.low, pmu.low_deadline, pmu.forced_deadline>>
         /\ pmu'.standby \/ pmu'.wake_requested <=> pmu.standby \/ pmu.wake_requested
<1>0. pmu \in Pmus  BY DEF IInv, TypeOK
<1>1. CASE GuestAccess
  <2>1. CASE SetClock
    BY <1>0, <2>1 DEF SetClock, WriteRtc, GuestSets, ClockWritten, outside, history, Pmus
  <2>2. CASE ~SetClock
    BY <1>0, <1>1, <2>2 DEF GuestAccess, WriteOocc1, WriteMasks, ReadInt, StartAdc, WriteBvmc,
                       WriteAlarm, GuestSets, outside, history, Pmus
  <2> QED  BY <2>1, <2>2
<1>2. CASE Outside
  <2>1. CASE Onkey
    BY <1>0, <2>1 DEF Onkey, Wake, outside, history, Pmus
  <2>2. CASE ChargerEvent
    <3> DEFINE p == [pmu EXCEPT !.ints = @ \cup {IF charger' THEN "chgins" ELSE "chgrm"}]
    <3>1. UNCHANGED <<now, restarting, below_run, low_run>> /\ pmu' \in {p, Wake(p)}
      BY <2>2 DEF ChargerEvent
    <3> QED  BY <1>0, <3>1 DEF Wake, Pmus
  <2> QED  BY <1>2, <2>1, <2>2 DEF Outside, SetBattery, SetRate, history
<1> QED  BY <1>1, <1>2

\* The steps, by what they mean to the monitor.
LEMMA NextCases ==
  ASSUME [Next]_vars
  PROVE  \/ UNCHANGED vars
         \/ GuestAccess \/ Outside
         \/ \E n \in 1 .. MaxSkip : Advance(n)
         \/ Restart \/ \E gap \in 0 .. Seconds : ColdStart(gap)
  BY DEF Next

\* A machine that starts has seen nothing yet.
LEMMA RestartForgets ==
  ASSUME Restart \/ \E gap \in 0 .. Seconds : ColdStart(gap)
  PROVE  /\ now' = 0 /\ below_run' = 0 /\ low_run' = 0
         /\ pmu'.low = FALSE /\ pmu'.low_deadline = 0
  BY DEF Restart, ColdStart, Boot, Restored, Start

LEMMA LowCountedStep ==
  ASSUME IInv, LowCounted, [Next]_vars, SteadyRate \/ UNCHANGED vars,
         SteadyDebounce \/ UNCHANGED vars
  PROVE  LowCounted'
<1>0. /\ now \in Nat /\ below_run \in Nat /\ rate \in Rates
      /\ pmu.low_deadline \in Nat /\ pmu.low \in BOOLEAN
  BY DEF IInv, TypeOK, Pmus
<1>1. CASE UNCHANGED vars
  BY <1>1 DEF vars, outside, LowCounted, DebounceTicks
<1>2. CASE (GuestAccess \/ Outside) /\ SteadyRate /\ SteadyDebounce
  <2>1. UNCHANGED <<now, below_run, pmu.low, pmu.low_deadline>>
    BY <1>2, GuestLeaves
  <2>2. SUFFICES ASSUME ~pmu.low, below_run # 0
                 PROVE  DebounceTicks(pmu, rate)' = DebounceTicks(pmu, rate)
    BY <2>1 DEF LowCounted
  <2>3. now # 0 /\ pmu.low_deadline # 0  BY <1>0, <2>2 DEF LowCounted
  <2>4. rate' = rate /\ pmu'.debounce = pmu.debounce
    BY <1>2, <2>1, <2>3 DEF SteadyRate, SteadyDebounce
  <2> QED  BY <2>4 DEF DebounceTicks
<1>3. ASSUME NEW n \in 1 .. MaxSkip, Advance(n)
      PROVE  LowCounted'
  <2> DEFINE d == DebounceTicks(pmu, rate)
  <2>0. d \in Nat /\ d >= 1  BY <1>0, TicksForPositive, PmuAssumption DEF DebounceTicks
  <2>1. /\ Monitored(pmu, pmu', battery, rate, now')
        /\ DebounceTicks(pmu, rate)' = d
    BY <1>3, AdvanceMonitors, AdvanceFacts DEF DebounceTicks
  <2>2. /\ n \in Nat /\ n >= 1 /\ now' = now + n /\ battery \in Levels
        /\ pmu.low_deadline # 0 => pmu.low_deadline > now
        /\ MaySkip(pmu, battery, rate, now, n)
        /\ below_run' = IF battery = "below" THEN below_run + n ELSE 0
    BY <1>3, AdvanceFacts DEF ArmedAt
  <2> HIDE DEF d
  <2>3. CASE battery # "below"
    BY <1>0, <2>1, <2>2, <2>3 DEF Monitored, LowCounted, Levels
  <2>4. CASE battery = "below" /\ pmu.low
    BY <1>0, <2>1, <2>2, <2>4 DEF Monitored, LowCounted
  <2>5. CASE battery = "below" /\ ~pmu.low /\ pmu.low_deadline = 0
    <3>1. n = 1 /\ below_run = 0  BY <2>2, <2>5 DEF MaySkip, Quiescent, LowCounted
    <3>2. ~pmu'.low /\ pmu'.low_deadline = now' + d /\ below_run' = 1
      BY <2>1, <2>2, <2>5, <3>1 DEF Monitored, d
    <3> QED  BY <1>0, <2>0, <2>1, <2>2, <3>1, <3>2 DEF LowCounted
  <2>6. CASE battery = "below" /\ ~pmu.low /\ pmu.low_deadline # 0
    <3>1. pmu.low_deadline + below_run = now + 1 + d /\ below_run # 0 /\ below_run <= now
      BY <2>6 DEF LowCounted, d
    <3>2. pmu'.low \/ (~pmu'.low /\ pmu'.low_deadline = pmu.low_deadline)
      BY <2>1, <2>6 DEF Monitored
    <3> QED  BY <1>0, <2>0, <2>1, <2>2, <2>6, <3>1, <3>2 DEF LowCounted
  <2> QED  BY <1>0, <2>3, <2>4, <2>5, <2>6
<1>4. CASE Restart \/ \E gap \in 0 .. Seconds : ColdStart(gap)
  <2>1. now' = 0 /\ below_run' = 0 /\ pmu'.low_deadline = 0
    BY <1>4, RestartForgets
  <2> QED  BY <2>1 DEF LowCounted
<1> QED  BY <1>1, <1>2, <1>3, <1>4, NextCases

\* The report comes with the last tick of the debounce, and with no other.
LEMMA LowReported ==
  ASSUME IInv, LowCounted, LowCounted', [Next]_vars, ~pmu.low
  PROVE  pmu'.low <=> Debounced(below_run')
<1>0. /\ now \in Nat /\ below_run \in Nat /\ rate \in Rates /\ rate \in Nat
      /\ pmu.low_deadline \in Nat /\ Debounce \in Nat
  BY PmuAssumption DEF IInv, TypeOK, Pmus
<1>3. ASSUME NEW n \in 1 .. MaxSkip, Advance(n)
      PROVE  pmu'.low <=> Debounced(below_run')
  <2> DEFINE d == DebounceTicks(pmu, rate)
             k == below_run' - 1
  <2>1. Monitored(pmu, pmu', battery, rate, now')
    BY <1>3, AdvanceMonitors
  <2>2. /\ n \in Nat /\ n >= 1 /\ now' = now + n
        /\ MaySkip(pmu, battery, rate, now, n)
        /\ below_run' = IF battery = "below" THEN below_run + n ELSE 0
    BY <1>3, AdvanceFacts
  <2>3. CASE battery # "below"
    BY <2>1, <2>2, <2>3 DEF Monitored, Debounced
  <2>4. CASE battery = "below" /\ pmu.low_deadline = 0
    <3>1. n = 1 /\ below_run = 0  BY <2>2, <2>4 DEF MaySkip, Quiescent, LowCounted
    <3> QED  BY <2>1, <2>2, <2>4, <3>1 DEF Monitored, Debounced
  <2>5. CASE battery = "below" /\ pmu.low_deadline # 0
    <3>1. pmu.low_deadline + below_run = now + 1 + d /\ below_run # 0
      BY <2>5 DEF LowCounted
    <3>2. k \in Nat /\ k >= 1 /\ below_run' > 1 /\ k = below_run + n - 1
      BY <1>0, <2>2, <2>5, <3>1
    <3>3. d \in Nat  BY <1>0, TicksForPositive, PmuAssumption DEF DebounceTicks
    <3> HIDE DEF d, k
    <3>4. pmu'.low <=> k >= d
      BY <1>0, <2>1, <2>2, <2>5, <3>1, <3>2, <3>3 DEF Monitored
    <3>5. k >= d <=> (pmu.debounce => k * rate >= Debounce)
      BY <1>0, <3>2, TicksForMeets DEF d, DebounceTicks
    <3> QED  BY <3>2, <3>4, <3>5 DEF Debounced, k
  <2> QED  BY <2>3, <2>4, <2>5
<1>1. ASSUME UNCHANGED <<pmu.low, below_run>>
      PROVE  pmu'.low <=> Debounced(below_run')
  <2> SUFFICES ~Debounced(below_run)
    BY <1>1
  <2>1. SUFFICES ASSUME below_run > 1, pmu.debounce => (below_run - 1) * rate >= Debounce
                 PROVE  FALSE
    BY DEF Debounced
  <2> DEFINE d == DebounceTicks(pmu, rate)
             k == below_run - 1
  <2>2. pmu.low_deadline + below_run = now + 1 + d /\ pmu.low_deadline > now
    BY <1>0, <2>1 DEF LowCounted, IInv, Armed, ArmedAt
  <2>3. d \in Nat  BY <1>0, TicksForPositive, PmuAssumption DEF DebounceTicks
  <2>4. k \in Nat /\ k >= 1  BY <1>0, <2>1
  <2>5. k >= d  BY <1>0, <2>1, <2>4, TicksForMeets DEF DebounceTicks
  <2> HIDE DEF d
  <2> QED  BY <1>0, <2>1, <2>2, <2>3, <2>5
<1>2. CASE GuestAccess \/ Outside
  BY <1>1, <1>2, GuestLeaves
<1>4. CASE Restart \/ \E gap \in 0 .. Seconds : ColdStart(gap)
  <2>1. below_run' = 0 /\ pmu'.low = FALSE
    BY <1>4, RestartForgets
  <2> QED  BY <2>1 DEF Debounced
<1>5. CASE UNCHANGED vars
  BY <1>1, <1>5 DEF vars, history
<1> QED  BY <1>2, <1>3, <1>4, <1>5, NextCases

\* A low battery is reported exactly when it has been below the threshold for the
\* debounce time: not earlier, not later, and not for a dip.
THEOREM LowBatteryCorrect ==
  Spec /\ [][SteadyRate]_vars /\ [][SteadyDebounce]_vars => LowBatteryDebounced
<1> DEFINE A == ~pmu.low => (pmu'.low <=> Debounced(below_run'))
<1>1. Init => LowCounted
  BY DEF Init, LowCounted, Start
<1>2. IInv /\ LowCounted /\ [Next]_vars /\ [SteadyRate]_vars /\ [SteadyDebounce]_vars
        => LowCounted'
  BY LowCountedStep
<1>3. IInv /\ LowCounted /\ LowCounted' /\ [Next]_vars => [A]_vars
  BY LowReported
<1>4. Spec /\ [][SteadyRate]_vars /\ [][SteadyDebounce]_vars => [][A]_vars
  BY <1>1, <1>2, <1>3, Invariance, PTL DEF Spec
<1> QED  BY <1>4 DEF LowBatteryDebounced

LEMMA ForcedCountedStep ==
  ASSUME IInv, ForcedCounted, [Next]_vars, SteadyRate \/ UNCHANGED vars
  PROVE  ForcedCounted'
<1>0. /\ now \in Nat /\ low_run \in Nat /\ rate \in Rates
      /\ pmu.forced_deadline \in Nat /\ pmu.low \in BOOLEAN
  BY DEF IInv, TypeOK, Pmus
<1>1. CASE UNCHANGED vars
  BY <1>1 DEF vars, outside, history, ForcedCounted
<1>2. CASE (GuestAccess \/ Outside) /\ SteadyRate
  <2>1. /\ UNCHANGED <<now, low_run, pmu.low, pmu.forced_deadline>>
        /\ pmu'.standby \/ pmu'.wake_requested <=> pmu.standby \/ pmu.wake_requested
    BY <1>2, GuestLeaves
  <2>2. pmu.low => now # 0  BY <1>0 DEF ForcedCounted
  <2>3. pmu.low => rate' = rate  BY <1>2, <2>1, <2>2 DEF SteadyRate
  <2> QED  BY <2>1, <2>3 DEF ForcedCounted
<1>3. ASSUME NEW n \in 1 .. MaxSkip, Advance(n)
      PROVE  ForcedCounted'
  <2> DEFINE d == TicksFor(ForcedDelay, rate)
  <2>0. d \in Nat  BY <1>0, TicksForPositive, PmuAssumption
  <2>1. /\ n \in Nat /\ n >= 1 /\ now' = now + n /\ d' = d
        /\ low_run' = IF pmu'.low /\ pmu.low THEN low_run + n ELSE 0
        /\ ~pmu'.standby /\ ~pmu'.wake_requested
              => pmu'.forced_deadline = ForcedFrom(pmu, pmu', rate, now')
        /\ ~pmu'.standby /\ ~pmu'.wake_requested => ~pmu.standby /\ ~pmu.wake_requested
    BY <1>3, AdvanceFacts, AdvanceMonitors
  <2>2. ForcedFrom(pmu, pmu', rate, now')
          = IF pmu'.low /\ ~pmu.low THEN now' + d
            ELSE IF pmu.low /\ ~pmu'.low THEN 0 ELSE pmu.forced_deadline
    BY DEF ForcedFrom
  <2> HIDE DEF d
  <2>3. CASE pmu'.low /\ ~pmu.low
    BY <1>0, <2>0, <2>1, <2>2, <2>3 DEF ForcedCounted, d
  <2>4. CASE pmu'.low /\ pmu.low
    BY <1>0, <2>0, <2>1, <2>2, <2>4 DEF ForcedCounted, d
  <2> QED  BY <2>3, <2>4 DEF ForcedCounted
<1>4. CASE Restart \/ \E gap \in 0 .. Seconds : ColdStart(gap)
  BY <1>4, RestartForgets DEF ForcedCounted
<1> QED  BY <1>1, <1>2, <1>3, <1>4, NextCases

\* Time goes on only in a step of the loop.
LEMMA OnlyAdvances ==
  ASSUME IInv, [Next]_vars, now' > now
  PROVE  \E n \in 1 .. MaxSkip : Advance(n)
<1>0. now \in Nat  BY DEF IInv, TypeOK
<1>1. CASE UNCHANGED vars  BY <1>0, <1>1 DEF vars
<1>2. CASE GuestAccess \/ Outside  BY <1>0, <1>2, GuestLeaves
<1>3. CASE Restart \/ \E gap \in 0 .. Seconds : ColdStart(gap)
  <2>1. now' = 0  BY <1>3, RestartForgets
  <2> QED  BY <1>0, <2>1
<1> QED  BY <1>1, <1>2, <1>3, NextCases

LEMMA StandbyCaused ==
  ASSUME IInv, ForcedCounted, [Next]_vars, now' > now, ~pmu.standby, ~pmu.wake_requested
  PROVE  Entered <=> Asked \/ Uncleared
<1>1. PICK n \in 1 .. MaxSkip : Advance(n)  BY OnlyAdvances
<1> DEFINE due == ForcedFrom(pmu, pmu', rate, now')
           d   == TicksFor(ForcedDelay, rate)
<1>a. /\ now \in Nat /\ low_run \in Nat /\ rate \in Rates /\ n \in Nat /\ n >= 1
      /\ now' = now + n /\ pmu \in Pmus
      /\ low_run' = IF pmu'.low /\ pmu.low THEN low_run + n ELSE 0
  BY <1>1, AdvanceFacts
<1>b. rate \in Nat /\ pmu.forced_deadline \in Nat
  BY <1>a, PmuAssumption DEF Pmus
<1>2. /\ now \in Nat /\ low_run \in Nat /\ rate \in Rates /\ rate \in Nat /\ n \in Nat /\ n >= 1
      /\ now' = now + n /\ pmu.forced_deadline \in Nat
      /\ low_run' = IF pmu'.low /\ pmu.low THEN low_run + n ELSE 0
  BY <1>a, <1>b
<1>3. /\ d \in Nat /\ d >= 1 /\ ForcedDelay \in Nat /\ ForcedDelay > 0
  BY <1>2, TicksForPositive, PmuAssumption
<1>4. Entered <=> Asked \/ Reached(due, now')
  BY <1>1, AdvanceMonitors DEF Entered, Asked
<1>5. Reached(due, now') <=> Uncleared
  <2>1. CASE pmu'.low /\ ~pmu.low
    <3>1. due = now' + d  BY <2>1 DEF ForcedFrom
    <3>2. low_run' * rate = 0  BY <1>2, <2>1
    <3> HIDE DEF due, d
    <3> QED  BY <1>2, <1>3, <2>1, <3>1, <3>2 DEF Reached, Uncleared
  <2>2. CASE pmu'.low /\ pmu.low
    <3>1. due = pmu.forced_deadline  BY <2>2 DEF ForcedFrom
    <3>2. pmu.forced_deadline + low_run = now + d /\ low_run < now
      BY <2>2 DEF ForcedCounted
    <3>3. low_run' = low_run + n /\ low_run' \in Nat /\ low_run' >= 1
      BY <1>2, <2>2
    <3>4. low_run' >= d <=> low_run' * rate >= ForcedDelay
      BY <1>2, <1>3, <3>3, TicksForMeets
    <3> HIDE DEF due, d
    <3>5. Reached(due, now') <=> low_run' >= d
      BY <1>2, <1>3, <3>1, <3>2, <3>3 DEF Reached
    <3> QED  BY <2>2, <3>4, <3>5 DEF Uncleared
  <2>3. CASE ~pmu'.low /\ pmu.low
    <3>1. due = 0  BY <2>3 DEF ForcedFrom
    <3> QED  BY <2>3, <3>1 DEF Reached, Uncleared
  <2>4. CASE ~pmu'.low /\ ~pmu.low
    <3>1. due = pmu.forced_deadline  BY <2>4 DEF ForcedFrom
    <3>2. pmu.forced_deadline = 0  BY <2>4 DEF IInv, Armed, ArmedAt
    <3> QED  BY <2>4, <3>1, <3>2 DEF Reached, Uncleared
  <2> QED  BY <2>1, <2>2, <2>3, <2>4
<1> QED  BY <1>4, <1>5

\* The machine goes into standby exactly when the guest has asked for it or when a low
\* battery has not recovered for the forced delay, whatever skips took place.
THEOREM StandbyCorrect == Spec /\ [][SteadyRate]_vars => StandbyHasCause
<1> DEFINE A == now' > now /\ ~pmu.standby /\ ~pmu.wake_requested
                  => (Entered <=> Asked \/ Uncleared)
<1>1. Init => ForcedCounted
  BY DEF Init, ForcedCounted, Start
<1>2. IInv /\ ForcedCounted /\ [Next]_vars /\ [SteadyRate]_vars => ForcedCounted'
  BY ForcedCountedStep
<1>3. IInv /\ ForcedCounted /\ [Next]_vars => [A]_vars
  BY StandbyCaused
<1>4. Spec /\ [][SteadyRate]_vars => [][A]_vars
  BY <1>1, <1>2, <1>3, Invariance, PTL DEF Spec
<1> QED  BY <1>4 DEF StandbyHasCause

-----------------------------------------------------------------------------
(***************************************************************************)
(* The clock and its alarm.                                                *)
(***************************************************************************)

\* The second the clock shows is the last one announced.
ClockKept ==
  /\ pmu.last_second = ElapsedSeconds(pmu.rtc_base, rate, now)
  /\ pmu.rtc_set \/ pmu.rtc_base = 0

\* A match that is remembered is one.
MatchKept == pmu.match_active => AlarmMatches(pmu.alarm, Time)

SameRtc(p, q) ==
  /\ q.rtc = p.rtc /\ q.rtc_set = p.rtc_set /\ q.rtc_base = p.rtc_base
  /\ q.alarm = p.alarm

SameClock(p, q) ==
  SameRtc(p, q) /\ q.last_second = p.last_second /\ q.match_active = p.match_active

\* The parts of a tick before the alarm leave the clock alone, and report no alarm.
Silent(p, q) == SameClock(p, q) /\ ("alarm" \in q.ints <=> "alarm" \in p.ints)

LEMMA StandbySilent ==
  ASSUME NEW p \in Pmus, NEW t \in Nat
  PROVE  Silent(p, TickStandby(p, t))
  BY DEF TickStandby, EnterStandby, Silent, SameClock, SameRtc, Pmus

LEMMA AdcSilent ==
  ASSUME NEW p \in Pmus, NEW t \in Nat
  PROVE  Silent(p, TickAdc(p, t))
  BY DEF TickAdc, Silent, SameClock, SameRtc, Pmus

LEMMA BatterySilent ==
  ASSUME NEW p \in Pmus, NEW level \in Levels, NEW r \in Rates, NEW t \in Nat
  PROVE  Silent(p, TickBattery(p, level, r, t))
<1> DEFINE q == TickBattery(p, level, r, t)
<1>1. \/ q = p
      \/ \E due : q = [p EXCEPT !.low_deadline = due]
      \/ q = [p EXCEPT !.low = FALSE, !.low_deadline = 0, !.forced_deadline = 0]
      \/ q = BatteryLow(p, r, t)
  <2>1. CASE ~p.low /\ level = "below" /\ p.low_deadline = 0
    <3> DEFINE due == t + (IF p.debounce THEN TicksFor(Debounce, r) ELSE 1)
    <3>1. q = [p EXCEPT !.low_deadline = due]  BY <2>1 DEF TickBattery, Reached
    <3> QED  BY <3>1
  <2>2. CASE ~p.low /\ level = "below" /\ p.low_deadline # 0
    BY <2>2 DEF TickBattery, Reached
  <2>3. CASE p.low \/ level # "below"
    BY <2>3 DEF TickBattery, Levels
  <2> QED  BY <2>1, <2>2, <2>3
<1> HIDE DEF q
<1>2. CASE q = BatteryLow(p, r, t)
  <2>1. PICK due : q = [p EXCEPT !.low = TRUE, !.low_deadline = 0, !.ints = @ \cup {"lowbat"},
                                 !.forced_deadline = due]
    BY <1>2 DEF BatteryLow
  <2> QED  BY <2>1 DEF Silent, SameClock, SameRtc, Pmus, q
<1> QED  BY <1>1, <1>2 DEF Silent, SameClock, SameRtc, Pmus, q

LEMMA ForcedSilent ==
  ASSUME NEW p \in Pmus, NEW t \in Nat
  PROVE  Silent(p, TickForced(p, t))
  BY DEF TickForced, EnterStandby, Silent, SameClock, SameRtc, Pmus

\* The second, and the alarm when it starts to match.
Ticked(p, q, r, t) ==
  LET match == AlarmMatches(p.alarm, RtcFields(p, r, t))
  IN  /\ SameRtc(p, q) /\ q.last_second = ElapsedSeconds(p.rtc_base, r, t)
      /\ IF q.last_second = p.last_second
         THEN /\ q.match_active = p.match_active
              /\ "alarm" \in q.ints <=> "alarm" \in p.ints
         ELSE /\ q.match_active = match
              /\ "alarm" \in q.ints <=> "alarm" \in p.ints \/ (match /\ ~p.match_active)

LEMMA SecondTicks ==
  ASSUME NEW p \in Pmus, NEW r \in Rates, NEW t \in Nat
  PROVE  Ticked(p, TickSecond(p, r, t), r, t)
<1> DEFINE second == ElapsedSeconds(p.rtc_base, r, t)
           s      == [p EXCEPT !.last_second = second, !.ints = @ \cup {"second"}]
           match  == AlarmMatches(p.alarm, RtcFields(p, r, t))
           starts == match /\ ~p.match_active
           ints   == IF starts THEN s.ints \cup {"alarm"} ELSE s.ints
           raised == [s EXCEPT !.match_active = match, !.ints = ints]
           q      == TickSecond(p, r, t)
<1>1. CASE second = p.last_second
  <2>1. q = p  BY <1>1 DEF TickSecond
  <2> QED  BY <1>1, <2>1 DEF Ticked, SameRtc
<1>2. CASE second # p.last_second
  <2>1. /\ s.alarm = p.alarm /\ s.match_active = p.match_active /\ s.rtc = p.rtc
        /\ s.rtc_set = p.rtc_set /\ s.rtc_base = p.rtc_base /\ s.last_second = second
        /\ "alarm" \in s.ints <=> "alarm" \in p.ints
        /\ DOMAIN s = DOMAIN p
    <3> HIDE DEF second
    <3> QED  BY DEF Pmus
  <2>2. q = TickAlarm(s, RtcFields(p, r, t))  BY <1>2 DEF TickSecond
  <2> HIDE DEF s, second, q
  <2>3. q \in {raised, Wake(raised)}  BY <2>1, <2>2 DEF TickAlarm
  <2>4. /\ SameRtc(s, raised) /\ raised.last_second = s.last_second
        /\ raised.match_active = match /\ raised.ints = ints
        /\ DOMAIN raised = DOMAIN p
    <3> HIDE DEF match, ints
    <3> QED  BY <2>1 DEF SameRtc, Pmus
  <2> HIDE DEF raised
  <2>5. /\ SameRtc(raised, Wake(raised)) /\ Wake(raised).last_second = raised.last_second
        /\ Wake(raised).match_active = raised.match_active /\ Wake(raised).ints = raised.ints
    BY <2>4 DEF Wake, SameRtc, Pmus
  <2>6. /\ SameRtc(p, q) /\ q.last_second = second /\ q.match_active = match /\ q.ints = ints
    BY <2>1, <2>3, <2>4, <2>5 DEF SameRtc
  <2>7. "alarm" \in ints <=> "alarm" \in p.ints \/ starts  BY <2>1
  <2> QED  BY <1>2, <2>6, <2>7 DEF Ticked, second, q
<1> QED  BY <1>1, <1>2

LEMMA TickTicks ==
  ASSUME NEW p \in Pmus, Consistent(p), NEW level \in Levels, NEW r \in Rates, NEW t \in Nat
  PROVE  Ticked(p, TickAt(p, level, r, t), r, t)
<1> DEFINE s == TickStandby(p, t)
           a == TickAdc(s, t)
           b == TickBattery(a, level, r, t)
           f == TickForced(b, t)
<1>1. s \in Pmus /\ Consistent(s) /\ StandbyAhead(s, t) /\ Silent(p, s)
  BY TickStandbyKeeps, StandbySilent
<1>2. TickAt(p, level, r, t) = TickSecond(f, r, t)  BY DEF TickAt
<1> HIDE DEF s
<1>3. a \in Pmus /\ Consistent(a) /\ StandbyAhead(a, t) /\ AdcAhead(a, t) /\ Silent(s, a)
  BY <1>1, TickAdcKeeps, AdcSilent
<1> HIDE DEF a
<1>4. /\ b \in Pmus /\ Consistent(b) /\ Silent(a, b)
      /\ StandbyAhead(b, t) /\ AdcAhead(b, t) /\ LowAhead(b, t)
  BY <1>3, TickBatteryKeeps, BatterySilent
<1> HIDE DEF b
<1>5. f \in Pmus /\ Silent(b, f)
  BY <1>4, TickForcedKeeps, ForcedSilent
<1> HIDE DEF f
<1>6. Silent(p, f)  BY <1>1, <1>3, <1>4, <1>5 DEF Silent, SameClock, SameRtc
<1>7. Ticked(f, TickSecond(f, r, t), r, t)  BY <1>5, SecondTicks
<1>8. RtcFields(f, r, t) = RtcFields(p, r, t)
  BY <1>6 DEF Silent, SameClock, SameRtc, RtcFields
<1> QED  BY <1>2, <1>6, <1>7, <1>8 DEF Ticked, Silent, SameClock, SameRtc

\* What the clock shows, when the second it shows is the one announced.
Shown(p) == AsSeconds(IF p.rtc_set THEN p.rtc ELSE DefaultRtc)

LEMMA ShownAt ==
  ASSUME NEW p \in Pmus, p.rtc_set \/ p.rtc_base = 0, NEW r, NEW t
  PROVE  RtcFields(p, r, t) = AsClock(Shown(p) + ElapsedSeconds(p.rtc_base, r, t))
  BY DEF RtcFields, Shown

LEMMA AdvanceTicks ==
  ASSUME IInv, ClockKept, NEW n \in 1 .. MaxSkip, Advance(n)
  PROVE  /\ Ticked(pmu, pmu', rate, now') /\ rate' = rate
         /\ Time' = RtcFields(pmu, rate, now')
         /\ pmu'.last_second = pmu.last_second => Time' = Time
<1>1. /\ pmu \in Pmus /\ Consistent(pmu) /\ battery \in Levels /\ rate \in Rates
      /\ now' \in Nat /\ pmu' = TickAt(pmu, battery, rate, now') /\ rate' = rate
  BY AdvanceFacts
<1>2. Ticked(pmu, pmu', rate, now')  BY <1>1, TickTicks
<1>3. Time' = RtcFields(pmu, rate, now')
  BY <1>1, <1>2 DEF Time, Ticked, SameRtc, RtcFields
<1>4. ASSUME pmu'.last_second = pmu.last_second  PROVE Time' = Time
  <2>1. ElapsedSeconds(pmu.rtc_base, rate, now') = ElapsedSeconds(pmu.rtc_base, rate, now)
    BY <1>2, <1>4 DEF Ticked, ClockKept
  <2> QED  BY <1>1, <1>3, <2>1, ShownAt DEF Time, ClockKept
<1> QED  BY <1>1, <1>2, <1>3, <1>4

\* Between two ticks only a guest that sets it moves the clock.
LEMMA GuestLeavesClock ==
  ASSUME IInv, GuestAccess \/ Outside, ~SetClock
  PROVE  /\ now' = now /\ UNCHANGED <<pmu.rtc, pmu.rtc_set, pmu.rtc_base>>
         /\ pmu'.last_second = pmu.last_second
         /\ pmu'.match_active => pmu.match_active /\ pmu'.alarm = pmu.alarm
<1>0. pmu \in Pmus  BY DEF IInv, TypeOK
<1>1. CASE GuestAccess
  BY <1>0, <1>1 DEF GuestAccess, WriteOocc1, WriteMasks, ReadInt, StartAdc, WriteBvmc,
                    WriteAlarm, GuestSets, outside, history, Pmus
<1>2. CASE Outside
  <2>1. CASE Onkey
    BY <1>0, <2>1 DEF Onkey, Wake, outside, history, Pmus
  <2>2. CASE ChargerEvent
    <3> DEFINE p == [pmu EXCEPT !.ints = @ \cup {IF charger' THEN "chgins" ELSE "chgrm"}]
    <3>1. now' = now /\ pmu' \in {p, Wake(p)}
      BY <2>2 DEF ChargerEvent
    <3> QED  BY <1>0, <3>1 DEF Wake, Pmus
  <2> QED  BY <1>0, <1>2, <2>1, <2>2 DEF Outside, SetBattery, SetRate, history, Pmus
<1> QED  BY <1>1, <1>2

\* Between two ticks the clock stands.
LEMMA TimeStands ==
  ASSUME IInv, GuestAccess \/ Outside, ~SetClock, SteadyRate
  PROVE  Time' = Time
<1>0. /\ pmu \in Pmus /\ now \in Nat /\ rate \in Rates /\ rate' \in Rates
      /\ pmu.rtc_base \in Nat /\ pmu.rtc_base <= now
  <2>1. [Next]_vars  BY DEF Next
  <2> QED  BY <2>1, NextInv DEF IInv, TypeOK, SecondSeen, Pmus
<1>1. now' = now /\ UNCHANGED <<pmu.rtc, pmu.rtc_set, pmu.rtc_base>>
  BY GuestLeavesClock
<1>2. CASE rate' = rate
  BY <1>1, <1>2 DEF Time, RtcFields
<1>3. CASE now' = 0
  <2>1. now = 0 /\ pmu.rtc_base = 0  BY <1>0, <1>1, <1>3
  <2>2. ElapsedSeconds(0, rate, 0) = 0 /\ ElapsedSeconds(0, rate', 0) = 0
    BY <1>0, NothingElapsed
  <2> QED  BY <1>1, <2>1, <2>2 DEF Time, RtcFields
<1> QED  BY <1>2, <1>3 DEF SteadyRate

\* Setting the clock restarts its second.
LEMMA ClockSet ==
  ASSUME IInv, SetClock
  PROVE  /\ now' = now /\ rate' = rate /\ pmu'.rtc_base = now /\ pmu'.last_second = 0
         /\ pmu'.match_active = pmu.match_active
<1>0. pmu \in Pmus  BY DEF IInv, TypeOK
<1> QED  BY <1>0 DEF SetClock, WriteRtc, GuestSets, ClockWritten, outside, Pmus

LEMMA ClockKeptStep ==
  ASSUME IInv, ClockKept, [Next]_vars, SteadyRate \/ UNCHANGED vars,
         SecondsFirst \/ UNCHANGED vars
  PROVE  ClockKept'
<1>0. /\ pmu \in Pmus /\ now \in Nat /\ rate \in Rates /\ rate' \in Rates
      /\ pmu.rtc_base \in Nat /\ pmu.rtc_base <= now
  BY NextInv DEF IInv, TypeOK, SecondSeen, Pmus
<1>1. CASE UNCHANGED vars
  BY <1>1 DEF vars, outside, ClockKept
<1>2. CASE (GuestAccess \/ Outside) /\ ~SetClock /\ SteadyRate
  <2>1. /\ now' = now /\ UNCHANGED <<pmu.rtc_set, pmu.rtc_base>>
        /\ pmu'.last_second = pmu.last_second
    BY <1>2, GuestLeavesClock
  <2>2. CASE rate' = rate
    BY <2>1, <2>2 DEF ClockKept
  <2>3. CASE now' = 0
    <3>1. now = 0 /\ pmu.rtc_base = 0  BY <1>0, <2>1, <2>3
    <3>2. ElapsedSeconds(0, rate, 0) = 0 /\ ElapsedSeconds(0, rate', 0) = 0
      BY <1>0, NothingElapsed
    <3> QED  BY <2>1, <3>1, <3>2 DEF ClockKept
  <2> QED  BY <1>2, <2>2, <2>3 DEF SteadyRate
<1>3. CASE SetClock /\ SecondsFirst
  <2>1. /\ now' = now /\ rate' = rate /\ pmu'.rtc_base = now /\ pmu'.last_second = 0
        /\ pmu'.rtc_set
    BY <1>3, ClockSet DEF SecondsFirst
  <2>2. ElapsedSeconds(now, rate, now) = 0  BY <1>0, NothingElapsed
  <2> QED  BY <2>1, <2>2 DEF ClockKept
<1>4. ASSUME NEW n \in 1 .. MaxSkip, Advance(n)
      PROVE  ClockKept'
  <2>1. Ticked(pmu, pmu', rate, now') /\ rate' = rate
    BY <1>4, AdvanceTicks
  <2> QED  BY <2>1 DEF Ticked, SameRtc, ClockKept
<1>5. CASE Restart \/ \E gap \in 0 .. Seconds : ColdStart(gap)
  <2>1. now' = 0 /\ pmu'.rtc_base = 0 /\ pmu'.last_second = 0
    BY <1>5 DEF Restart, ColdStart, Boot, Restored, Start
  <2>2. ElapsedSeconds(0, rate', 0) = 0  BY <1>0, NothingElapsed
  <2> QED  BY <2>1, <2>2 DEF ClockKept
<1> QED  BY <1>1, <1>2, <1>3, <1>4, <1>5, NextCases

\* A quotient with a remainder.
LEMMA DivAdd ==
  ASSUME NEW y \in Nat, NEW j \in Nat, NEW b \in Nat, b > 0
  PROVE  (y + b * j) \div b = (y \div b) + j /\ (y + b * j) % b = y % b
<1> DEFINE q == y \div b
           m == y % b
           z == y + b * j
<1>1. q \in Nat /\ m \in 0 .. b - 1 /\ y = b * q + m  BY DivMod
<1>2. z \in Nat /\ b * j \in Nat  BY SMT
<1>3. z \div b \in Nat /\ z % b \in 0 .. b - 1 /\ z = b * (z \div b) + (z % b)
  BY <1>2, DivMod
<1> HIDE DEF q, m
<1>4. (q + j) * b = b * q + b * j /\ b * q \in Nat  BY <1>1, SMT
<1>5. z = (q + j) * b + m  BY <1>1, <1>2, <1>4
<1>6. z \div b = q + j
  <2>1. (q + j) * b <= z /\ z < (q + j) * b + b /\ q + j \in Nat
    BY <1>1, <1>2, <1>4, <1>5
  <2> HIDE DEF z
  <2> QED  BY <1>2, <2>1, FloorIs
<1>7. b * (q + j) = (q + j) * b  BY <1>1, SMT
<1>8. z % b = m  BY <1>1, <1>3, <1>5, <1>6, <1>7, <1>4, <1>2
<1> QED  BY <1>6, <1>8 DEF q, m

LEMMA SmallDiv ==
  ASSUME NEW s \in Nat, NEW b \in Nat, s < b
  PROVE  s \div b = 0 /\ s % b = s
<1>1. s \div b = 0
  <2>1. 0 * b = 0  BY SMT
  <2> QED  BY <2>1, FloorIs
<1>2. s = b * (s \div b) + (s % b) /\ s % b \in 0 .. b - 1  BY DivMod
<1> QED  BY <1>1, <1>2

\* A clock is read as it was set.
LEMMA ClockOfClock ==
  ASSUME NEW c \in Clocks
  PROVE  AsClock(AsSeconds(c)) = c
<1>1. /\ Seconds \in Nat /\ Seconds > 0 /\ Minutes \in Nat /\ Minutes > 0
      /\ c.sec \in Nat /\ c.sec < Seconds /\ c.min \in Nat /\ c.min < Minutes
      /\ c = [sec |-> c.sec, min |-> c.min]
  BY PmuAssumption DEF Clocks
<1>2. c.sec \div Seconds = 0 /\ c.sec % Seconds = c.sec /\ c.min % Minutes = c.min
  BY <1>1, SmallDiv
<1>3. /\ AsSeconds(c) \div Seconds = (c.sec \div Seconds) + c.min
      /\ AsSeconds(c) % Seconds = c.sec % Seconds
  BY <1>1, DivAdd DEF AsSeconds
<1> HIDE DEF AsSeconds
<1>4. AsSeconds(c) \div Seconds = c.min /\ AsSeconds(c) % Seconds = c.sec
  BY <1>1, <1>2, <1>3
<1> QED  BY <1>1, <1>2, <1>4 DEF AsClock

\* Whole turns of the clock do not show.
LEMMA Turns ==
  ASSUME NEW y \in Nat, NEW k \in Nat
  PROVE  AsClock(y + Seconds * (Minutes * k)) = AsClock(y)
<1>1. Seconds \in Nat /\ Seconds > 0 /\ Minutes \in Nat /\ Minutes > 0  BY PmuAssumption
<1>2. PICK j \in Nat : j = Minutes * k  BY <1>1
<1>3. /\ (y + Seconds * j) \div Seconds = (y \div Seconds) + j
      /\ (y + Seconds * j) % Seconds = y % Seconds
  BY <1>1, DivAdd
<1>4. y \div Seconds \in Nat  BY <1>1, DivMod
<1>5. ((y \div Seconds) + Minutes * k) % Minutes = (y \div Seconds) % Minutes
  BY <1>1, <1>4, DivAdd
<1> QED  BY <1>2, <1>3, <1>5 DEF AsClock

\* Time that passes adds up.
LEMMA ClockOfSum ==
  ASSUME NEW n \in Nat, NEW g \in Nat
  PROVE  AsClock(AsSeconds(AsClock(n)) + g) = AsClock(n + g)
<1>1. Seconds \in Nat /\ Seconds > 0 /\ Minutes \in Nat /\ Minutes > 0  BY PmuAssumption
<1> DEFINE a == n \div Seconds
           s == n % Seconds
           b == a \div Minutes
           m == a % Minutes
           y == s + Seconds * m + g
<1>2. a \in Nat /\ s \in Nat /\ n = Seconds * a + s  BY <1>1, DivMod
<1> HIDE DEF a
<1>3. b \in Nat /\ m \in Nat /\ a = Minutes * b + m  BY <1>1, <1>2, DivMod
<1>4. AsSeconds(AsClock(n)) = s + Seconds * m  BY DEF AsClock, AsSeconds, a
<1> HIDE DEF s, b, m
<1>5. Minutes * b \in Nat /\ Seconds * m \in Nat  BY <1>1, <1>3
<1>6. Seconds * (Minutes * b + m) = Seconds * (Minutes * b) + Seconds * m
  <2>1. \A u, v, w \in Int : w * (u + v) = w * u + w * v  BY SMT
  <2> QED  BY <1>1, <1>3, <1>5, <2>1
<1>7. Seconds * (Minutes * b) \in Nat  BY <1>1, <1>5
<1>8. y \in Nat /\ n + g = y + Seconds * (Minutes * b)
  BY <1>2, <1>3, <1>5, <1>6, <1>7
<1>9. AsClock(y + Seconds * (Minutes * b)) = AsClock(y)
  <2>1. y \in Nat  BY <1>8
  <2> HIDE DEF y
  <2> QED  BY <1>3, <2>1, Turns
<1> QED  BY <1>4, <1>8, <1>9

\* What a restart or a new process shows.
LEMMA TimeRestored ==
  ASSUME IInv, NEW q, pmu' = q, q.rtc_set = TRUE, q.rtc_base = 0, q.rtc \in Clocks,
         now' = 0, rate' \in Rates
  PROVE  Time' = q.rtc
<1>1. ElapsedSeconds(0, rate', 0) = 0  BY NothingElapsed
<1>2. AsSeconds(q.rtc) \in Nat /\ AsClock(AsSeconds(q.rtc)) = q.rtc
  BY AsSecondsType, ClockOfClock
<1>3. AsSeconds(q.rtc) + 0 = AsSeconds(q.rtc)  BY <1>2
<1> QED  BY <1>1, <1>2, <1>3 DEF Time, RtcFields

LEMMA TimeKept ==
  ASSUME IInv
  PROVE  /\ Time \in Clocks
         /\ Restart => Time' = Time
         /\ \A gap \in 0 .. Seconds :
              ColdStart(gap) => Time' = AsClock(AsSeconds(Time) + gap)
<1>0. pmu \in Pmus /\ now \in Nat /\ rate \in Rates /\ pmu.rtc_base <= now
  BY DEF IInv, TypeOK, SecondSeen
<1>1. Time \in Clocks  BY <1>0, RtcFieldsType DEF Time
<1> DEFINE p == Restored(pmu, rate, now)
<1>2. p.rtc = Time /\ p.rtc_set = TRUE /\ p.rtc_base = 0 /\ p \in Pmus
  <2>1. p.rtc = Time /\ p.rtc_set = TRUE  BY DEF Restored, Start, Time
  <2> QED  BY <2>1, RestoredFacts
<1>3. ASSUME Restart  PROVE Time' = Time
  <2>1. pmu' = p /\ now' = 0 /\ rate' \in Rates  BY <1>0, <1>3 DEF Restart, Boot
  <2> HIDE DEF p
  <2> QED  BY <1>1, <1>2, <2>1, TimeRestored
<1>4. ASSUME NEW gap \in 0 .. Seconds, ColdStart(gap)
      PROVE  Time' = AsClock(AsSeconds(Time) + gap)
  <2> DEFINE clock == AsClock(AsSeconds(p.rtc) + gap)
             q     == [p EXCEPT !.rtc = clock, !.match_active = FALSE]
  <2>1. pmu' = q /\ now' = 0 /\ rate' \in Rates  BY <1>4 DEF ColdStart, Boot
  <2> HIDE DEF p
  <2>2. gap \in Nat  BY PmuAssumption
  <2>3. AsSeconds(p.rtc) + gap \in Nat  BY <1>1, <1>2, <2>2, AsSecondsType
  <2>4. clock \in Clocks  BY <2>3, AsClockType
  <2>5. clock = AsClock(AsSeconds(Time) + gap)  BY <1>2
  <2> HIDE DEF clock
  <2>6. q.rtc_set = TRUE /\ q.rtc_base = 0 /\ q.rtc = clock  BY <1>2 DEF Pmus
  <2> HIDE DEF q
  <2> QED  BY <2>1, <2>4, <2>5, <2>6, TimeRestored
<1> QED  BY <1>1, <1>3, <1>4

\* Ticks that may be taken in one reach at most the next second.
LEMMA NextSecond ==
  ASSUME NEW p \in Pmus, NEW r \in Rates, NEW t \in Nat, p.rtc_base <= t,
         p.last_second = ElapsedSeconds(p.rtc_base, r, t),
         NEW n \in Nat, n >= 1, n = 1 \/ n <= UntilSecond(p, r, t)
  PROVE  ElapsedSeconds(p.rtc_base, r, t + n) \in {p.last_second, p.last_second + 1}
<1> DEFINE base == p.rtc_base
           last == p.last_second
           e    == (t - base) * r
           g    == (last + 1) * Second
           m    == (g - e + r - 1) \div r
           x    == n * r
           z    == ((t + n) - base) * r
<1>0. base \in Nat /\ last \in Nat /\ last = ElapsedSeconds(base, r, t) /\ base <= t
  BY DEF Pmus
<1>a. n = 1 \/ n <= IF g > e THEN m ELSE 1  BY DEF UntilSecond
<1> HIDE DEF base, last
<1>1. r \in Nat /\ r > 0 /\ Second \in Nat /\ Second > 0 /\ r <= Second  BY PmuAssumption
<1>2. e \in Nat /\ g \in Nat /\ x \in Nat /\ last * Second \in Nat  BY <1>0, <1>1
<1>4. z = e + x
  <2>1. (t + n) - base = (t - base) + n  BY <1>0
  <2>2. \A a, b, c \in Int : (a + b) * c = a * c + b * c  BY SMT
  <2>3. t - base \in Int /\ n \in Int /\ r \in Int  BY <1>0, <1>1
  <2> QED  BY <2>1, <2>2, <2>3
<1>5. g = last * Second + Second
  BY <1>0, <1>1, SMT
<1>6. last * Second <= e /\ e < g
  <2>1. last = e \div Second  BY <1>0 DEF ElapsedSeconds
  <2> HIDE DEF e, g
  <2>2. last * Second <= e  BY <1>1, <1>2, <2>1, FloorBelow
  <2>3. e % Second \in 0 .. Second - 1 /\ e = Second * last + (e % Second)
    BY <1>1, <1>2, <2>1, DivMod
  <2>4. Second * last = last * Second  BY <1>0, <1>1, SMT
  <2> QED  BY <1>1, <1>2, <1>5, <2>2, <2>3, <2>4
<1>7. x <= g - e + r - 1
  <2>1. CASE n = 1
    <3>1. x = r  BY <1>1, <2>1
    <3> HIDE DEF x, g, e
    <3> QED  BY <1>1, <1>2, <1>6, <3>1
  <2>2. CASE n # 1
    <3> DEFINE y == g - e + r - 1
    <3>1. y \in Nat  BY <1>1, <1>2, <1>6
    <3>2. m \in Nat /\ y = r * m + (y % r) /\ y % r \in 0 .. r - 1
      BY <1>1, <3>1, DivMod
    <3>3. n <= m  BY <1>a, <1>6, <2>2
    <3> HIDE DEF m
    <3>4. x <= m * r  BY <1>1, <3>2, <3>3, MulMono
    <3>5. m * r = r * m  BY <1>1, <3>2, SMT
    <3> HIDE DEF x
    <3> QED  BY <1>1, <1>2, <3>1, <3>2, <3>4, <3>5, r * m \in Nat
  <2> QED  BY <2>1, <2>2
<1>8. ElapsedSeconds(base, r, t + n) = z \div Second
  BY DEF ElapsedSeconds
<1>9. (last + 1) * Second = last * Second + Second /\ g = (last + 1) * Second
  BY <1>5
<1> HIDE DEF e, g, m, x, z
<1>10. CASE e + x < g
  <2>1. e + x \in Nat /\ last * Second <= e + x /\ e + x < last * Second + Second
    BY <1>0, <1>1, <1>2, <1>5, <1>6, <1>10
  <2>2. (e + x) \div Second = last
    BY <1>0, <1>1, <2>1, FloorIs
  <2> QED  BY <1>4, <1>8, <2>2 DEF base, last
<1>11. CASE e + x >= g
  <2>1. /\ e + x \in Nat /\ (last + 1) * Second <= e + x
        /\ e + x < (last + 1) * Second + Second
    BY <1>1, <1>2, <1>7, <1>9, <1>11
  <2>2. (e + x) \div Second = last + 1
    BY <1>0, <1>1, <2>1, FloorIs
  <2> QED  BY <1>4, <1>8, <2>2 DEF base, last
<1> QED  BY <1>2, <1>10, <1>11

LEMMA ClockRuns ==
  ASSUME IInv, ClockKept, NEW n \in 1 .. MaxSkip, Advance(n)
  PROVE  Time' \in {Time, AsClock(AsSeconds(Time) + 1)}
<1>1. /\ pmu \in Pmus /\ now \in Nat /\ rate \in Rates /\ n \in Nat /\ n >= 1
      /\ now' = now + n /\ pmu.rtc_base \in Nat /\ pmu.rtc_base <= now
      /\ MaySkip(pmu, battery, rate, now, n)
  BY AdvanceFacts
<1>2. /\ Time' = RtcFields(pmu, rate, now') /\ Time = RtcFields(pmu, rate, now)
  BY AdvanceTicks DEF Time
<1> DEFINE last == pmu.last_second
           next == ElapsedSeconds(pmu.rtc_base, rate, now')
<1>3. last = ElapsedSeconds(pmu.rtc_base, rate, now) /\ last \in Nat
  BY <1>1 DEF ClockKept, Pmus
<1>4. next \in {last, last + 1}
  BY <1>1, <1>3, NextSecond DEF MaySkip
<1>5. Shown(pmu) \in Nat
  <2>1. DefaultRtc \in Clocks /\ pmu.rtc \in Clocks
    BY <1>1, PmuAssumption DEF DefaultRtc, Clocks, Pmus
  <2> QED  BY <2>1, AsSecondsType DEF Shown
<1>6. Time = AsClock(Shown(pmu) + last) /\ Time' = AsClock(Shown(pmu) + next)
  BY <1>1, <1>2, <1>3, ShownAt DEF ClockKept
<1> HIDE DEF last, next
<1>7. Shown(pmu) + last \in Nat /\ Shown(pmu) + (last + 1) = (Shown(pmu) + last) + 1
  BY <1>3, <1>5
<1>8. AsClock(AsSeconds(Time) + 1) = AsClock((Shown(pmu) + last) + 1)
  BY <1>6, <1>7, ClockOfSum
<1> QED  BY <1>4, <1>6, <1>7, <1>8

LEMMA ClockStep ==
  ASSUME IInv, ClockKept, [Next]_vars, SteadyRate \/ UNCHANGED vars
  PROVE  \/ UNCHANGED vars \/ SetClock
         \/ \E gap \in 0 .. Seconds : ColdStart(gap) /\ Time' = AsClock(AsSeconds(Time) + gap)
         \/ Time' \in {Time, AsClock(AsSeconds(Time) + 1)}
<1>1. CASE (GuestAccess \/ Outside) /\ ~SetClock /\ SteadyRate
  BY <1>1, TimeStands
<1>2. CASE \E n \in 1 .. MaxSkip : Advance(n)
  BY <1>2, ClockRuns
<1>3. CASE Restart
  BY <1>3, TimeKept
<1>4. CASE \E gap \in 0 .. Seconds : ColdStart(gap)
  BY <1>4, TimeKept
<1> QED  BY <1>1, <1>2, <1>3, <1>4, NextCases

\* The clock the guest reads runs second by second through ticks, skips and restarts,
\* for any rates, radices and lengths of a skip.
THEOREM ClockCorrect ==
  Spec /\ [][SteadyRate]_vars /\ [][SecondsFirst]_vars => ClockRunsForward
<1> DEFINE A == \/ SetClock
                \/ \E gap \in 0 .. Seconds :
                     ColdStart(gap) /\ Time' = AsClock(AsSeconds(Time) + gap)
                \/ Time' \in {Time, AsClock(AsSeconds(Time) + 1)}
<1>1. Init => ClockKept
  <2> SUFFICES ASSUME Init  PROVE ClockKept  OBVIOUS
  <2>1. ElapsedSeconds(0, rate, 0) = 0  BY NothingElapsed DEF Init
  <2> QED  BY <2>1 DEF Init, ClockKept, Start
<1>2. IInv /\ ClockKept /\ [Next]_vars /\ [SteadyRate]_vars /\ [SecondsFirst]_vars => ClockKept'
  BY ClockKeptStep
<1>3. IInv /\ ClockKept /\ [Next]_vars /\ [SteadyRate]_vars => [A]_vars
  BY ClockStep
<1>4. Spec /\ [][SteadyRate]_vars /\ [][SecondsFirst]_vars => [][A]_vars
  BY <1>1, <1>2, <1>3, Invariance, PTL DEF Spec
<1> QED  BY <1>4 DEF ClockRunsForward

LEMMA MatchKeptStep ==
  ASSUME IInv, ClockKept, MatchKept, [Next]_vars, SteadyRate \/ UNCHANGED vars,
         ClearOfAlarm \/ UNCHANGED vars
  PROVE  MatchKept'
<1>1. CASE UNCHANGED vars
  BY <1>1 DEF vars, outside, MatchKept, Time
<1>2. CASE (GuestAccess \/ Outside) /\ ~SetClock /\ SteadyRate
  BY <1>2, GuestLeavesClock, TimeStands DEF MatchKept
<1>3. CASE SetClock /\ ClearOfAlarm
  BY <1>3, ClockSet DEF MatchKept, ClearOfAlarm
<1>4. ASSUME NEW n \in 1 .. MaxSkip, Advance(n)
      PROVE  MatchKept'
  <2>1. /\ Ticked(pmu, pmu', rate, now') /\ Time' = RtcFields(pmu, rate, now')
        /\ pmu'.last_second = pmu.last_second => Time' = Time
    BY <1>4, AdvanceTicks
  <2> QED  BY <2>1 DEF Ticked, SameRtc, MatchKept
<1>5. CASE Restart
  <2>1. pmu'.alarm = pmu.alarm /\ pmu'.match_active = pmu.match_active
    BY <1>5 DEF Restart, Boot, Restored, Start
  <2>2. Time' = Time  BY <1>5, TimeKept
  <2> QED  BY <2>1, <2>2 DEF MatchKept
<1>6. CASE \E gap \in 0 .. Seconds : ColdStart(gap)
  <2>1. pmu'.match_active = FALSE
    BY <1>6 DEF ColdStart, Boot, Restored, Start
  <2> QED  BY <2>1 DEF MatchKept
<1> QED  BY <1>1, <1>2, <1>3, <1>4, <1>5, <1>6, NextCases

LEMMA AlarmRaised ==
  ASSUME IInv, ClockKept, MatchKept, [Next]_vars, now' > now
  PROVE  /\ AlarmMatches(pmu.alarm, Time') /\ ~AlarmMatches(pmu.alarm, Time)
              => "alarm" \in pmu'.ints
         /\ "alarm" \in pmu'.ints \ pmu.ints => AlarmMatches(pmu.alarm, Time')
<1>1. PICK n \in 1 .. MaxSkip : Advance(n)  BY OnlyAdvances
<1>2. /\ Ticked(pmu, pmu', rate, now') /\ Time' = RtcFields(pmu, rate, now')
      /\ pmu'.last_second = pmu.last_second => Time' = Time
  BY <1>1, AdvanceTicks
<1> QED  BY <1>2 DEF Ticked, MatchKept

\* The alarm is raised in the tick that makes the clock match, and in no tick after
\* which it does not, for any clock, alarm, rate and length of a skip.
THEOREM AlarmCorrect ==
  Spec /\ [][SteadyRate]_vars /\ [][SecondsFirst]_vars /\ [][ClearOfAlarm]_vars => AlarmFires
<1> DEFINE A == now' > now =>
                  /\ AlarmMatches(pmu.alarm, Time') /\ ~AlarmMatches(pmu.alarm, Time)
                       => "alarm" \in pmu'.ints
                  /\ "alarm" \in pmu'.ints \ pmu.ints => AlarmMatches(pmu.alarm, Time')
<1>1. Init => ClockKept /\ MatchKept
  <2> SUFFICES ASSUME Init  PROVE ClockKept /\ MatchKept  OBVIOUS
  <2>1. ElapsedSeconds(0, rate, 0) = 0  BY NothingElapsed DEF Init
  <2> QED  BY <2>1 DEF Init, ClockKept, MatchKept, Start
<1>2. IInv /\ ClockKept /\ [Next]_vars /\ [SteadyRate]_vars /\ [SecondsFirst]_vars => ClockKept'
  BY ClockKeptStep
<1>3. IInv /\ ClockKept /\ MatchKept /\ [Next]_vars /\ [SteadyRate]_vars /\ [ClearOfAlarm]_vars
        => MatchKept'
  BY MatchKeptStep
<1>4. IInv /\ ClockKept /\ MatchKept /\ [Next]_vars => [A]_vars
  BY AlarmRaised
<1>5. Spec /\ [][SteadyRate]_vars /\ [][SecondsFirst]_vars /\ [][ClearOfAlarm]_vars => [][A]_vars
  BY <1>1, <1>2, <1>3, <1>4, Invariance, PTL DEF Spec
<1> QED  BY <1>5 DEF AlarmFires
=============================================================================
