------------------------------- MODULE MCPmu -------------------------------
(***************************************************************************)
(* Instances of Pmu for TLC.  Four profiles share the constants, and each  *)
(* uses a part of the unit as closely as it can: the battery, the events   *)
(* that wake the machine, the clock with its alarm, and everything that    *)
(* arms or cancels a deadline.  The page sets the rate as the machine      *)
(* starts; in the profile "page" at any time.                              *)
(***************************************************************************)
EXTENDS Pmu

CONSTANT Profiles
VARIABLE profile

TwoRates == {1, 2}

\* Ticks a machine runs and rates it runs at.
Ticks   == [battery |-> 9, wake |-> 3, clock |-> 7, skip |-> 4, page |-> 8]
RatesOf == [battery |-> {2}, wake |-> {2}, clock |-> TwoRates, skip |-> {2}, page |-> TwoRates]

AskStandby == \E go \in BOOLEAN : WriteOocc1(pmu.wakes, go)
ReadInts   == \E register \in DOMAIN Register : ReadInt(register)
SetAlarm   ==
  \/ \E sec \in {Off} \cup 0 .. Seconds - 1 : WriteAlarm("sec", sec)
  \/ \E min \in {Off} \cup 0 .. Minutes - 1 : WriteAlarm("min", min)

SetsClock == SetClock /\ SecondsFirst /\ ClearOfAlarm

UsesBattery ==
  \/ AskStandby \/ ReadInts \/ Onkey \/ Restart
  \/ \E level \in Levels : SetBattery(level)

UsesWakes ==
  \/ \E wakes \in {{}, WakeBits}, go \in BOOLEAN : WriteOocc1(wakes, go)
  \/ \E masked \in {{}, {"alarm"}} : WriteMasks(masked)
  \/ \E sec \in {Off, 1} : WriteAlarm("sec", sec)
  \/ ReadInts \/ Onkey \/ ChargerEvent \/ Restart

UsesClock ==
  \/ SetsClock \/ SetAlarm \/ ReadInts \/ Restart
  \/ \E gap \in 0 .. Seconds : ColdStart(gap) /\ battery' = battery /\ charger' = charger
  \/ \E r \in Rates : SetRate(r)

UsesDeadlines ==
  \/ AskStandby \/ SetsClock
  \/ \E sync \in BOOLEAN : StartAdc(sync)
  \/ \E level \in Levels, debounce \in BOOLEAN :
       WriteBvmc(level, debounce) /\ SteadyDebounce

MCInit == Init /\ profile \in Profiles /\ rate \in RatesOf[profile]

MCNext ==
  /\ \/ profile = "battery" /\ UsesBattery
     \/ profile = "wake" /\ UsesWakes
     \/ profile = "clock" /\ UsesClock
     \/ profile = "skip" /\ UsesDeadlines
     \/ profile = "page" /\ \E r \in Rates : SetRate(r)
     \/ \E n \in 1 .. MaxSkip : Advance(n)
  /\ now' <= Ticks[profile] /\ rate' \in RatesOf[profile]
  /\ SteadyRate \/ profile = "page"
  /\ UNCHANGED profile

MCSpec == MCInit /\ [][MCNext]_<<vars, profile>>
=============================================================================
