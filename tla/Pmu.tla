---------------------------------- MODULE Pmu ----------------------------------
(***************************************************************************)
(* The PCF50605 power unit of dev_i2c.c: standby and wake, the ADC, the    *)
(* low-battery monitor, the clock and its alarm, the interrupt registers,  *)
(* what of them a restart keeps, and how far the idle fast-forward of      *)
(* bus.c may skip.                                                         *)
(*                                                                         *)
(* Every duration in the code is in microseconds; a tick of the bus is     *)
(* rate of them, and the page may change rate while the machine runs.  A   *)
(* deadline is the tick at which it falls due, 0 if there is none.         *)
(*                                                                         *)
(* Abstractions.  The clock has two fields, seconds and minutes, of small  *)
(* radices (the calendar's other fields only carry on); the battery is     *)
(* below the threshold, above it by the hysteresis, or between, and a      *)
(* write of the threshold may move it; results of the ADC, the codec and   *)
(* the bytes of an I2C transaction are left out.                           *)
(***************************************************************************)
EXTENDS Integers

CONSTANTS
  Rates,            \* microseconds per tick, as preset, page or command line set it
  Second, StandbyDelay, AdcTime, Debounce, ForcedDelay,  \* microseconds
  Seconds, Minutes, \* radices of the clock
  MaxSkip,          \* longest skip
  MaxTicks          \* bound of the instance: ticks since the machine started

Levels   == {"below", "between", "above"}
Register == [INT1 |-> {"second", "alarm", "onkey"}, INT2 |-> {"chgins", "chgrm"},
             INT3 |-> {"adcrdy", "lowbat"}]
Events   == UNION {Register[r] : r \in DOMAIN Register}
WakeBits == {"rtcwak", "chgwak"}
Masks    == {"alarm", "chgins"}   \* the mask bits that matter to a wake
Off      == -1                    \* an alarm field that matches anything
Clocks   == [sec : 0 .. Seconds - 1, min : 0 .. Minutes - 1]
Alarms   == [sec : {Off} \cup 0 .. Seconds - 1, min : {Off} \cup 0 .. Minutes - 1]

ASSUME PmuAssumption ==
  /\ Rates # {} /\ Rates \subseteq 1 .. Second /\ Second \in Nat
  /\ {StandbyDelay, AdcTime, Debounce, ForcedDelay} \subseteq Nat /\ ForcedDelay > 0
  /\ Seconds \in Nat \ {0} /\ Minutes \in Nat \ {0, 1}
  /\ MaxSkip \in Nat \ {0} /\ MaxTicks \in Nat

VARIABLES
  pmu,         \* the registers and deadlines (Start)
  now,         \* device_ticks
  rate,        \* rtc_usec_per_tick
  battery,     \* where battery_percent stands to the threshold
  charger,     \* whether any charger is connected
  restarting,  \* the loop has seen a wake request
  below_run,   \* history: consecutive ticks that saw the battery below
  low_run,     \* history: ticks since the low battery was reported
  woken        \* history: what woke the machine, until the guest reads it

vars == <<pmu, now, rate, battery, charger, restarting, below_run, low_run, woken>>

outside == <<rate, battery, charger>>
history == <<below_run, low_run, woken>>

\* pcf_ticks_for_usec
TicksFor(usec, r) ==
  LET ticks == (usec + r - 1) \div r IN IF ticks = 0 THEN 1 ELSE ticks

DefaultRtc == [sec |-> 0, min |-> 1]   \* shown until the guest sets the clock

Start ==
  [ints |-> {}, masked |-> {}, wakes |-> {"chgwak"},
   standby |-> FALSE, standby_deadline |-> 0, wake_requested |-> FALSE,
   adc_deadline |-> 0, adc_ready |-> FALSE,
   debounce |-> TRUE, low |-> FALSE, low_deadline |-> 0, forced_deadline |-> 0,
   rtc |-> [sec |-> 0, min |-> 0], rtc_set |-> FALSE, rtc_base |-> 0, last_second |-> 0,
   alarm |-> [sec |-> Off, min |-> Off], match_active |-> FALSE]

-----------------------------------------------------------------------------
(***************************************************************************)
(* The clock.                                                              *)
(***************************************************************************)
AsSeconds(c) == c.sec + Seconds * c.min

AsClock(n) == [sec |-> n % Seconds, min |-> (n \div Seconds) % Minutes]

ElapsedSeconds(base, r, t) == ((t - base) * r) \div Second

\* pcf_rtc_fields: what the guest reads.
RtcFields(p, r, t) ==
  IF p.rtc_set
  THEN AsClock(AsSeconds(p.rtc) + ElapsedSeconds(p.rtc_base, r, t))
  ELSE AsClock(AsSeconds(DefaultRtc) + ElapsedSeconds(0, r, t))

\* Fields that are off match anything, but not all of them may be.
AlarmMatches(alarm, fields) ==
  /\ \E f \in {"sec", "min"} : alarm[f] # Off
  /\ \A f \in {"sec", "min"} : alarm[f] \in {Off, fields[f]}

(***************************************************************************)
(* One tick, n1g_dev_i2c_tick, in the order of its parts.                  *)
(***************************************************************************)
Reached(deadline, t) == deadline # 0 /\ t >= deadline

\* pcf_wake: nothing happens outside standby.
Wake(p) ==
  IF p.standby
  THEN [p EXCEPT !.standby = FALSE, !.standby_deadline = 0, !.wake_requested = TRUE]
  ELSE p

\* pcf_enter_standby
EnterStandby(p) ==
  IF p.standby THEN p
  ELSE [p EXCEPT !.standby = TRUE, !.standby_deadline = 0,
                 !.adc_deadline = 0, !.adc_ready = FALSE]

TickStandby(p, t) ==
  IF ~p.standby /\ Reached(p.standby_deadline, t) THEN EnterStandby(p) ELSE p

TickAdc(p, t) ==
  IF Reached(p.adc_deadline, t)
  THEN [p EXCEPT !.adc_ready = TRUE, !.adc_deadline = 0, !.ints = @ \cup {"adcrdy"}]
  ELSE p

BatteryLow(p, r, t) ==
  [p EXCEPT !.low = TRUE, !.low_deadline = 0, !.ints = @ \cup {"lowbat"},
            !.forced_deadline = t + TicksFor(ForcedDelay, r)]

\* Mutation: a battery that recovers before the deadline does not stop it.
TickBattery_KeepsCounting(p, level, r, t) ==
  IF ~p.low /\ level = "below"
  THEN IF p.low_deadline = 0
       THEN [p EXCEPT !.low_deadline = t + (IF p.debounce THEN TicksFor(Debounce, r) ELSE 1)]
       ELSE IF t >= p.low_deadline THEN BatteryLow(p, r, t) ELSE p
  ELSE IF p.low /\ level = "above"
  THEN [p EXCEPT !.low = FALSE, !.low_deadline = 0, !.forced_deadline = 0]
  ELSE p

\* Mutation: a recovered battery leaves the forced standby armed.
TickBattery_StaysForced(p, level, r, t) ==
  IF ~p.low /\ level = "below"
  THEN IF p.low_deadline = 0
       THEN [p EXCEPT !.low_deadline = t + (IF p.debounce THEN TicksFor(Debounce, r) ELSE 1)]
       ELSE IF t >= p.low_deadline THEN BatteryLow(p, r, t) ELSE p
  ELSE IF p.low /\ level = "above" THEN [p EXCEPT !.low = FALSE]
  ELSE IF level # "below" THEN [p EXCEPT !.low_deadline = 0]
  ELSE p

\* The debounce starts when the battery is first seen below, ends early when it is
\* seen above the threshold, and is not needed again until the battery recovers.
TickBattery(p, level, r, t) ==
  CASE ~p.low /\ level = "below" /\ p.low_deadline = 0 ->
         [p EXCEPT !.low_deadline = t + (IF p.debounce THEN TicksFor(Debounce, r) ELSE 1)]
    [] ~p.low /\ level = "below" /\ Reached(p.low_deadline, t) -> BatteryLow(p, r, t)
    [] p.low /\ level = "above" ->
         [p EXCEPT !.low = FALSE, !.low_deadline = 0, !.forced_deadline = 0]
    [] level = "between" \/ (level = "above" /\ ~p.low) -> [p EXCEPT !.low_deadline = 0]
    [] OTHER -> p

TickForced(p, t) ==
  IF ~p.standby /\ Reached(p.forced_deadline, t)
  THEN EnterStandby([p EXCEPT !.forced_deadline = 0]) ELSE p

\* Mutation: a match that is over is remembered.
TickAlarm_Forever(p, fields) ==
  LET starts == AlarmMatches(p.alarm, fields) /\ ~p.match_active
      raised == [p EXCEPT !.match_active = @ \/ starts,
                          !.ints = IF starts THEN @ \cup {"alarm"} ELSE @]
  IN  IF starts /\ "rtcwak" \in p.wakes /\ "alarm" \notin p.masked THEN Wake(raised) ELSE raised

\* The alarm is looked at once in each second and raised when it starts to match.
TickAlarm(p, fields) ==
  LET match  == AlarmMatches(p.alarm, fields)
      starts == match /\ ~p.match_active
      raised == [p EXCEPT !.match_active = match,
                          !.ints = IF starts THEN @ \cup {"alarm"} ELSE @]
  IN  IF starts /\ "rtcwak" \in p.wakes /\ "alarm" \notin p.masked THEN Wake(raised) ELSE raised

TickSecond(p, r, t) ==
  LET second == ElapsedSeconds(p.rtc_base, r, t)
  IN  IF second = p.last_second THEN p
      ELSE TickAlarm([p EXCEPT !.last_second = second, !.ints = @ \cup {"second"}],
                     RtcFields(p, r, t))

\* The whole tick, with the battery at level and device_ticks at t.
TickAt(p, level, r, t) ==
  LET adc == TickAdc(TickStandby(p, t), t)
  IN  TickSecond(TickForced(TickBattery(adc, level, r, t), t), r, t)

(***************************************************************************)
(* How many ticks the loop may take in one: n1g_dev_i2c_idle_quiescent and *)
(* the part of n1g_bus_idle_advance_limit that is about this unit.         *)
(***************************************************************************)
Quiescent(p, level) ==
  /\ ~p.wake_requested
  /\ ~(~p.low /\ level = "below" /\ p.low_deadline = 0)
  /\ ~(p.low /\ level = "above")
  /\ ~(level # "below" /\ p.low_deadline # 0)

Deadlines(p) ==
  {p.standby_deadline, p.adc_deadline, p.low_deadline, p.forced_deadline} \ {0}

TicksUntil(deadline, t) == IF deadline > t THEN deadline - t ELSE 1

UntilSecond(p, r, t) ==
  LET elapsed == (t - p.rtc_base) * r
      target  == (p.last_second + 1) * Second
  IN  IF target > elapsed THEN (target - elapsed + r - 1) \div r ELSE 1

\* Mutation: the second is not a boundary.
MaySkip_OverSeconds(p, level, r, t, n) ==
  /\ n \in 1 .. MaxSkip
  /\ n = 1 \/ (Quiescent(p, level) /\ \A d \in Deadlines(p) : n <= TicksUntil(d, t))

\* n ticks may be taken in one.
MaySkip(p, level, r, t, n) ==
  /\ n \in 1 .. MaxSkip
  /\ n = 1 \/ /\ Quiescent(p, level)
              /\ \A d \in Deadlines(p) : n <= TicksUntil(d, t)
              /\ n <= UntilSecond(p, r, t)

-----------------------------------------------------------------------------
Init ==
  /\ pmu = Start /\ now = 0 /\ rate \in Rates
  /\ battery = "above" /\ charger = FALSE /\ restarting = FALSE
  /\ below_run = 0 /\ low_run = 0 /\ woken = "nothing"

\* What a transition from p to q tells the histories.
Awakened(p, q, event) == IF p.standby /\ ~q.standby THEN event ELSE woken

(***************************************************************************)
(* Guest accesses, between two ticks.  A core may run in standby.          *)
(***************************************************************************)
GuestSets(p) ==
  /\ ~restarting
  /\ pmu' = p
  /\ UNCHANGED <<now, outside, restarting, history>>

\* OOCC1: a request for standby takes effect a millisecond later.
WriteOocc1(wakes, go) ==
  LET due == IF go /\ ~pmu.standby /\ pmu.standby_deadline = 0
             THEN now + TicksFor(StandbyDelay, rate) ELSE pmu.standby_deadline
  IN  GuestSets([pmu EXCEPT !.wakes = wakes, !.standby_deadline = due])

WriteMasks(masked) == GuestSets([pmu EXCEPT !.masked = masked])

\* Reading an interrupt register clears it.
ReadInt(register) ==
  /\ ~restarting
  /\ pmu' = [pmu EXCEPT !.ints = @ \ Register[register]]
  /\ woken' = IF woken \in Register[register] THEN "nothing" ELSE woken
  /\ UNCHANGED <<now, outside, restarting, below_run, low_run>>

\* ADCC2 with START; a conversion synchronised to the guest's request never completes.
StartAdc(sync) ==
  GuestSets([pmu EXCEPT !.adc_ready = FALSE,
                        !.adc_deadline = IF sync THEN 0 ELSE now + TicksFor(AdcTime, rate)])

\* BVMC: another threshold, with or without debounce.
WriteBvmc(level, debounce) ==
  /\ ~restarting
  /\ battery' = level
  /\ pmu' = [pmu EXCEPT !.debounce = debounce]
  /\ UNCHANGED <<now, rate, charger, restarting, history>>

ClockWritten(field, value) ==
  [pmu EXCEPT !.rtc[field] = value, !.rtc_set = @ \/ field = "sec",
              !.rtc_base = now, !.last_second = 0]

\* A write of one clock register restarts the time that has passed for all,
\* though it shows only once the seconds are written.  What the alarm has
\* matched is not forgotten.
WriteRtc(field, value) == GuestSets(ClockWritten(field, value))

WriteAlarm(field, value) ==
  GuestSets([pmu EXCEPT !.alarm[field] = value, !.match_active = FALSE])

(***************************************************************************)
(* The outside, from the page or the script; the page is polled once more  *)
(* before a restart.                                                       *)
(***************************************************************************)

\* The Menu button wakes the machine; outside standby it is only a button.
Onkey ==
  /\ pmu.standby
  /\ pmu' = Wake([pmu EXCEPT !.ints = @ \cup {"onkey"}])
  /\ woken' = "onkey"
  /\ UNCHANGED <<now, outside, restarting, below_run, low_run>>

ChargerEvent ==
  /\ charger' = ~charger
  /\ LET p == [pmu EXCEPT !.ints = @ \cup {IF charger' THEN "chgins" ELSE "chgrm"}]
     IN  pmu' = IF charger' /\ "chgwak" \in pmu.wakes /\ "chgins" \notin pmu.masked
                THEN Wake(p) ELSE p
  /\ woken' = Awakened(pmu, pmu', "chgins")
  /\ UNCHANGED <<now, rate, battery, restarting, below_run, low_run>>

SetBattery(level) ==
  /\ battery' = level
  /\ UNCHANGED <<pmu, now, rate, charger, restarting, history>>

SetRate(r) ==
  /\ rate' = r
  /\ UNCHANGED <<pmu, now, battery, charger, restarting, history>>

(***************************************************************************)
(* The main loop: one tick, or several in one while both cores are halted. *)
(***************************************************************************)
Advance(n) ==
  /\ ~restarting /\ now + n <= MaxTicks
  /\ MaySkip(pmu, battery, rate, now, n)
  /\ now' = now + n
  /\ pmu' = TickAt(pmu, battery, rate, now')
  /\ restarting' = pmu'.wake_requested
  /\ woken' = Awakened(pmu, pmu', "alarm")
  /\ below_run' = IF battery = "below" THEN below_run + n ELSE 0
  /\ low_run' = IF pmu'.low /\ pmu.low THEN low_run + n ELSE 0
  /\ UNCHANGED outside

(***************************************************************************)
(* Restarts: after a wake, from the page, or as a new process that finds   *)
(* the state file gap seconds after it was saved.                          *)
(***************************************************************************)

\* Mutation: the pending interrupts are not saved.
Restored_NoInts(p, r, t) ==
  [Start EXCEPT !.masked = p.masked, !.wakes = p.wakes,
     !.debounce = p.debounce, !.alarm = p.alarm, !.match_active = p.match_active,
     !.rtc = RtcFields(p, r, t), !.rtc_set = TRUE]

\* Mutation: the clock registers are saved as they were written.
Restored_StaleRtc(p, r, t) ==
  [Start EXCEPT !.ints = p.ints, !.masked = p.masked, !.wakes = p.wakes,
     !.debounce = p.debounce, !.alarm = p.alarm, !.match_active = p.match_active,
     !.rtc = p.rtc, !.rtc_set = TRUE]

\* n1g_dev_i2c_save_pcf and n1g_dev_i2c_restore_pcf on a fresh machine: the
\* registers are kept, with the clock as it stands; deadlines and standby are not.
Restored(p, r, t) ==
  [Start EXCEPT !.ints = p.ints, !.masked = p.masked, !.wakes = p.wakes,
     !.debounce = p.debounce, !.alarm = p.alarm, !.match_active = p.match_active,
     !.rtc = RtcFields(p, r, t), !.rtc_set = TRUE]

Boot(p) ==
  /\ pmu' = p /\ now' = 0 /\ restarting' = FALSE
  /\ below_run' = 0 /\ low_run' = 0

\* A wake keeps the options; the page's restart takes the rate of its preset.
Restart ==
  /\ Boot(Restored(pmu, rate, now))
  /\ rate' \in IF restarting THEN {rate} ELSE Rates
  /\ UNCHANGED <<battery, charger, woken>>

ColdStart(gap) ==
  /\ ~restarting
  /\ LET p == Restored(pmu, rate, now)
     IN  Boot([p EXCEPT !.rtc = AsClock(AsSeconds(p.rtc) + gap), !.match_active = FALSE])
  /\ rate' \in Rates /\ battery' \in Levels /\ charger' \in BOOLEAN
  /\ UNCHANGED woken

SetClock ==
  \/ \E sec \in 0 .. Seconds - 1 : WriteRtc("sec", sec)
  \/ \E min \in 0 .. Minutes - 1 : WriteRtc("min", min)

GuestAccess ==
  \/ \E wakes \in SUBSET WakeBits, go \in BOOLEAN : WriteOocc1(wakes, go)
  \/ \E masked \in SUBSET Masks : WriteMasks(masked)
  \/ \E register \in DOMAIN Register : ReadInt(register)
  \/ \E sync \in BOOLEAN : StartAdc(sync)
  \/ \E level \in Levels, debounce \in BOOLEAN : WriteBvmc(level, debounce)
  \/ SetClock
  \/ \E sec \in {Off} \cup 0 .. Seconds - 1 : WriteAlarm("sec", sec)
  \/ \E min \in {Off} \cup 0 .. Minutes - 1 : WriteAlarm("min", min)

Outside ==
  \/ Onkey \/ ChargerEvent
  \/ \E level \in Levels : SetBattery(level)
  \/ \E r \in Rates : SetRate(r)

Next ==
  \/ GuestAccess \/ Outside
  \/ \E n \in 1 .. MaxSkip : Advance(n)
  \/ Restart
  \/ \E gap \in 0 .. Seconds : ColdStart(gap)

Spec == Init /\ [][Next]_vars
-----------------------------------------------------------------------------
(***************************************************************************)
(* What the properties below assume of the page and of the guest.          *)
(***************************************************************************)

\* The page sets the rate as the machine starts, not while it runs.
SteadyRate == rate' = rate \/ now' = 0

\* The guest does not change the debounce while one runs.
SteadyDebounce == pmu.low_deadline # 0 => pmu'.debounce = pmu.debounce

\* The guest writes the seconds before the other fields of the clock, which show
\* only then.
SecondsFirst == SetClock => pmu'.rtc_set

\* The guest does not set the clock while the alarm matches it.
ClearOfAlarm == SetClock => ~pmu.match_active

(***************************************************************************)
(* Properties.                                                             *)
(***************************************************************************)

Pmus ==
  [ints : SUBSET Events, masked : SUBSET Masks, wakes : SUBSET WakeBits,
   standby : BOOLEAN, standby_deadline : Nat, wake_requested : BOOLEAN,
   adc_deadline : Nat, adc_ready : BOOLEAN,
   debounce : BOOLEAN, low : BOOLEAN, low_deadline : Nat, forced_deadline : Nat,
   rtc : Clocks, rtc_set : BOOLEAN, rtc_base : Nat, last_second : Nat,
   alarm : Alarms, match_active : BOOLEAN]

\* Types.
TypeOK ==
  /\ pmu \in Pmus
  /\ now \in Nat /\ rate \in Rates /\ battery \in Levels
  /\ charger \in BOOLEAN /\ restarting \in BOOLEAN
  /\ below_run \in Nat /\ low_run \in Nat
  /\ woken \in {"nothing", "onkey", "chgins", "alarm"}

\* A deadline is armed only for something that has not happened yet: no
\* debounce of a battery already reported, no forced standby of one that has
\* recovered, no conversion whose result is ready, no second standby.  All lie
\* ahead, except that standby suspends the forced one.
ArmedAt(p, t) ==
  /\ p.standby_deadline # 0 => ~p.standby /\ p.standby_deadline > t
  /\ p.adc_deadline # 0 => ~p.adc_ready /\ p.adc_deadline > t
  /\ p.low_deadline # 0 => ~p.low /\ p.low_deadline > t
  /\ p.forced_deadline # 0 =>
       p.low /\ (p.forced_deadline > t \/ p.standby \/ p.wake_requested)

Armed == ArmedAt(pmu, now)

FixedRate == Rates = {rate}

\* No second is announced twice or missed, whenever the clock is set: the last one
\* announced is the last one that has passed (at a fixed rate).
SecondSeen ==
  /\ pmu.rtc_base <= now
  /\ FixedRate => pmu.last_second = ElapsedSeconds(pmu.rtc_base, rate, now)

\* The battery is reported low exactly when it has been below the threshold at
\* every tick of the debounce time, or at two if there is none (with a rate and a
\* debounce that do not change on the way).
Debounced(n) == n > 1 /\ (pmu.debounce => (n - 1) * rate >= Debounce)

LowBatteryDebounced ==
  [][~pmu.low => (pmu'.low <=> Debounced(below_run'))]_vars

\* The machine goes into standby exactly when the guest has asked for it or when
\* a low battery has not recovered for the forced delay; an alarm in the same
\* tick wakes it at once.
Asked     == Reached(pmu.standby_deadline, now')
Uncleared == pmu'.low /\ low_run' * rate >= ForcedDelay
Entered   == pmu'.standby \/ pmu'.wake_requested

StandbyHasCause ==
  [][now' > now /\ ~pmu.standby /\ ~pmu.wake_requested
       => (Entered <=> Asked \/ Uncleared)]_vars

\* After a wake the guest starts again and finds in the interrupt registers
\* what woke it, whatever else happens before it reads them.
WakeReasonKept == woken # "nothing" => woken \in pmu.ints

\* The alarm is raised in the tick that makes the clock match, and in no tick
\* after which it does not.
Time == RtcFields(pmu, rate, now)

AlarmFires ==
  [][now' > now =>
       /\ AlarmMatches(pmu.alarm, Time') /\ ~AlarmMatches(pmu.alarm, Time)
            => "alarm" \in pmu'.ints
       /\ "alarm" \in pmu'.ints \ pmu.ints => AlarmMatches(pmu.alarm, Time')]_vars

\* The clock the guest reads runs second by second through ticks, skips and
\* restarts, and is put forward by the time the process did not run.
ClockRunsForward ==
  [][\/ SetClock
     \/ \E gap \in 0 .. Seconds : ColdStart(gap) /\ Time' = AsClock(AsSeconds(Time) + gap)
     \/ Time' \in {Time, AsClock(AsSeconds(Time) + 1)}]_vars

\* Ticks taken in one do what they would have done one by one: all but the last
\* change nothing.
SkipsAreInvisible ==
  \A n \in 1 .. MaxSkip :
    MaySkip(pmu, battery, rate, now, n)
      => \A i \in 1 .. n - 1 : TickAt(pmu, battery, rate, now + i) = pmu
=============================================================================
