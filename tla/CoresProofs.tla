----------------------------- MODULE CoresProofs -----------------------------
(***************************************************************************)
(* Proofs about Cores, for any sources, register values and waits.         *)
(***************************************************************************)
EXTENDS Cores, TLAPS

\* What a core satisfies whenever it is looked at, in or out of standby.
Sound(k, cut) == k \in CoreRecords /\ Nested(k) /\ Agrees(k, cut)

-----------------------------------------------------------------------------
(***************************************************************************)
(* One core.                                                               *)
(***************************************************************************)
\* After a reset a core is sound.
LEMMA ResetSound ==
  ASSUME NEW c \in Cores
  PROVE  Sound(Reset(c), FALSE)
<1>1. MaxWait \in Nat  BY CoresAssumption
<1>2. Reset(c) \in CoreRecords
  BY <1>1 DEF Reset, CoreRecords, Psr, None
<1>3. Nested(Reset(c))  BY DEF Reset, Nested, None
<1>4. Agrees(Reset(c), FALSE)  BY DEF Reset, Agrees, Cores
<1> QED  BY <1>2, <1>3, <1>4 DEF Sound

\* A core that wakes runs, and its word says so; nothing else changes.
LEMMA WakeSound ==
  ASSUME NEW k \in CoreRecords, Nested(k), NEW cut \in BOOLEAN
  PROVE  Sound(Wake(k), cut) /\ Wake(k).psr = k.psr
<1>1. Wake(k) \in CoreRecords  BY DEF Wake, CoreRecords
<1>2. Nested(Wake(k))  BY DEF Wake, CoreRecords, Nested
<1>3. Agrees(Wake(k), cut)  BY DEF Wake, CoreRecords, Agrees
<1>4. Wake(k).psr = k.psr  BY DEF Wake, CoreRecords
<1> QED  BY <1>1, <1>2, <1>3, <1>4 DEF Sound

\* A write of the control word keeps a core sound.
LEMMA ControlSound ==
  ASSUME NEW k \in CoreRecords, Nested(k), NEW ctl \in Controls, NEW cut \in BOOLEAN
  PROVE  Sound(UpdateControl(k, ctl), cut)
<1>0. MaxWait \in Nat  BY CoresAssumption
<1>1. ctl.bits \in SUBSET {"sleep", "wait", "count"} /\ ctl.ticks \in 1 .. MaxWait
  BY CoresAssumption
<1>2. UpdateControl(k, ctl) \in CoreRecords
  <2> DEFINE ticks == IF {"wait", "count"} \subseteq ctl.bits THEN ctl.ticks ELSE 0
  <2>1. ticks \in 0 .. MaxWait  BY <1>0, <1>1
  <2>2. UpdateControl(k, ctl) =
          [k EXCEPT !.ctl = ctl.bits, !.halted = ctl.bits \cap {"sleep", "wait"} # {},
                    !.wait_ticks = ticks]
    BY DEF UpdateControl
  <2> HIDE DEF ticks
  <2> QED  BY <1>1, <2>1, <2>2 DEF CoreRecords
<1>3. Nested(UpdateControl(k, ctl))  BY DEF UpdateControl, CoreRecords, Nested
<1>4. Agrees(UpdateControl(k, ctl), cut)  BY <1>1 DEF UpdateControl, CoreRecords, Agrees
<1> QED  BY <1>2, <1>3, <1>4 DEF Sound

\* The counting of a wait keeps a core sound.
LEMMA CpuconSound ==
  ASSUME NEW k, NEW cut \in BOOLEAN, Sound(k, cut)
  PROVE  Sound(CpuconTick(k), cut)
<1> DEFINE counted == [k EXCEPT !.wait_ticks = @ - 1]
<1>0. MaxWait \in Nat  BY CoresAssumption
<1>1. k \in CoreRecords /\ Nested(k) /\ Agrees(k, cut)  BY DEF Sound
<1>2. CASE k.halted /\ {"wait", "count"} \subseteq k.ctl /\ k.wait_ticks > 0
  <2>1. k.wait_ticks \in 0 .. MaxWait  BY <1>1 DEF CoreRecords
  <2>2. k.wait_ticks - 1 \in 0 .. MaxWait  BY <1>0, <1>2, <2>1
  <2>3. counted \in CoreRecords  BY <1>1, <2>2 DEF CoreRecords
  <2>4. Nested(counted)  BY <1>1 DEF CoreRecords, Nested
  <2>5. Agrees(counted, cut)  BY <1>1 DEF CoreRecords, Agrees
  <2>6. CpuconTick(k) = IF counted.wait_ticks = 0 THEN Wake(counted) ELSE counted
    BY <1>2 DEF CpuconTick
  <2>7. Sound(Wake(counted), cut)  BY <2>3, <2>4, WakeSound
  <2> HIDE DEF counted
  <2> QED  BY <2>3, <2>4, <2>5, <2>6, <2>7 DEF Sound
<1>3. CASE ~(k.halted /\ {"wait", "count"} \subseteq k.ctl /\ k.wait_ticks > 0)
  BY <1>1, <1>3 DEF CpuconTick, Sound
<1> QED  BY <1>2, <1>3

\* An FIQ enters a sound core so that it stays sound.
LEMMA FiqSound ==
  ASSUME NEW k, NEW cut \in BOOLEAN, Sound(k, cut)
  PROVE  Sound(RaiseFiq(k), cut)
<1>1. k \in CoreRecords /\ Nested(k)  BY DEF Sound
<1>2. CASE ~k.psr.F
  <2> DEFINE fiq == [mode |-> "fiq", I |-> TRUE, F |-> TRUE]
             e == [Wake(k) EXCEPT !.spsr_fiq = k.psr, !.psr = fiq]
  <2>1. RaiseFiq(k) = e  BY <1>2 DEF RaiseFiq
  <2>2. k.psr \in Psr /\ fiq \in Psr  BY <1>1 DEF CoreRecords, Psr
  <2>3. Sound(Wake(k), cut)  BY <1>1, WakeSound
  <2>4. e \in CoreRecords  BY <2>2, <2>3 DEF Sound, CoreRecords
  <2>5. k.psr.mode # "fiq"  BY <1>1, <1>2 DEF Nested
  <2>6. e.psr = fiq /\ e.spsr_fiq = k.psr /\ e.spsr_irq = k.spsr_irq
    BY <1>1 DEF CoreRecords, Wake
  <2>7. k.psr # None  BY <2>2 DEF Psr, None
  <2>8. Nested(e)  BY <1>1, <1>2, <2>5, <2>6, <2>7 DEF Nested
  <2>9. Agrees(e, cut)  BY <1>1, <2>3 DEF Sound, Agrees, CoreRecords, Wake
  <2> QED  BY <2>1, <2>4, <2>8, <2>9 DEF Sound
<1>3. CASE k.psr.F  BY <1>3 DEF RaiseFiq
<1> QED  BY <1>1, <1>2, <1>3

\* So does an IRQ.
LEMMA IrqSound ==
  ASSUME NEW k, NEW cut \in BOOLEAN, Sound(k, cut)
  PROVE  Sound(RaiseIrq(k), cut)
<1>1. k \in CoreRecords /\ Nested(k)  BY DEF Sound
<1>2. CASE ~k.psr.I
  <2> DEFINE irq == [mode |-> "irq", I |-> TRUE, F |-> k.psr.F]
             e == [Wake(k) EXCEPT !.spsr_irq = k.psr, !.psr = irq]
  <2>1. RaiseIrq(k) = e  BY <1>2 DEF RaiseIrq
  <2>2. k.psr \in Psr /\ irq \in Psr  BY <1>1 DEF CoreRecords, Psr
  <2>3. Sound(Wake(k), cut)  BY <1>1, WakeSound
  <2>4. e \in CoreRecords  BY <2>2, <2>3 DEF Sound, CoreRecords
  <2>5. k.psr.mode # "fiq" /\ k.psr.mode # "irq"  BY <1>1, <1>2 DEF Nested
  <2>6. k.psr.mode = "svc" /\ k.spsr_irq = None /\ k.spsr_fiq = None
    BY <1>1, <2>2, <2>5 DEF Nested, Psr
  <2>7. e.psr = irq /\ e.spsr_irq = k.psr /\ e.spsr_fiq = None
    BY <1>1, <2>6 DEF CoreRecords, Wake
  <2>8. k.psr # None  BY <2>2 DEF Psr, None
  <2>9. Nested(e)  BY <1>2, <2>6, <2>7, <2>8 DEF Nested
  <2>10. Agrees(e, cut)  BY <1>1, <2>3 DEF Sound, Agrees, CoreRecords, Wake
  <2> QED  BY <2>1, <2>4, <2>9, <2>10 DEF Sound
<1>3. CASE k.psr.I  BY <1>3 DEF RaiseIrq
<1> QED  BY <1>1, <1>2, <1>3

\* The delivery of the interrupts of a tick keeps a core sound.
LEMMA IntcSound ==
  ASSUME NEW c, NEW k, NEW st, NEW fo, NEW cut \in BOOLEAN, Sound(k, cut)
  PROVE  Sound(IntcTick(c, k, st, fo), cut)
<1> DEFINE afterFiq == IF FiqPending(c, st, fo) THEN RaiseFiq(Wake(k)) ELSE k
<1>1. Sound(Wake(k), cut)  BY WakeSound DEF Sound
<1>2. Sound(afterFiq, cut)  BY <1>1, FiqSound
<1>3. IntcTick(c, k, st, fo) = IF IrqPending(c, st, fo) THEN RaiseIrq(Wake(afterFiq)) ELSE afterFiq
  BY DEF IntcTick
<1> HIDE DEF afterFiq
<1>4. Sound(Wake(afterFiq), cut)  BY <1>2, WakeSound DEF Sound
<1>5. Sound(RaiseIrq(Wake(afterFiq)), cut)  BY <1>4, IrqSound
<1> QED  BY <1>2, <1>3, <1>5
-----------------------------------------------------------------------------
(***************************************************************************)
(* The two cores together.                                                 *)
(***************************************************************************)
IInv == TypeOK /\ HandlersNest /\ HaltedAsWritten /\ MessageSignalled

\* The types and the mailbox, apart from the cores.
IntcTypes ==
  /\ status \in [Cores -> SUBSET Sources] /\ forced \subseteq Sources
  /\ enable \in [Cores -> SUBSET Sources] /\ priority \in [Cores -> SUBSET Sources]

MailboxTypes == queue \in [Cores -> BOOLEAN] /\ unseen \in [Cores -> BOOLEAN]

SchedTypes ==
  standby \in BOOLEAN /\ turn \in Cores \cup {"tick"} /\ executing \in BOOLEAN

SoundState ==
  /\ IntcTypes /\ MailboxTypes /\ SchedTypes /\ MessageSignalled
  /\ core \in [Cores -> CoreRecords]
  /\ \A c \in Cores : Sound(core[c], standby)

LEMMA SameInvariant == IInv <=> SoundState
BY DEF IInv, SoundState, TypeOK, IntcTypes, MailboxTypes, SchedTypes, Sound,
       HandlersNest, HaltedAsWritten

LEMMA InitSound == Init => SoundState
<1> SUFFICES ASSUME Init PROVE SoundState  OBVIOUS
<1>1. \A c \in Cores : Sound(core[c], standby)  BY ResetSound DEF Init
<1>2. core \in [Cores -> CoreRecords]  BY ResetSound DEF Init, Sound
<1>3. IntcTypes  BY DEF Init, IntcTypes
<1>4. MailboxTypes /\ SchedTypes /\ MessageSignalled
  BY DEF Init, MailboxTypes, SchedTypes, MessageSignalled, Cores
<1> QED  BY <1>1, <1>2, <1>3, <1>4 DEF SoundState

\* A step that touches one core's record only.
LEMMA OneCore ==
  ASSUME SoundState, NEW d \in Cores, NEW k, Sound(k, standby),
         core' = [core EXCEPT ![d] = k], UNCHANGED <<intc, mailbox, sched>>
  PROVE  SoundState'
<1>1. core' \in [Cores -> CoreRecords]  BY DEF SoundState, Sound
<1>2. \A c \in Cores : Sound(core'[c], standby)  BY DEF SoundState
<1>3. (\A c \in Cores : Sound(core[c], standby))'  BY <1>2 DEF sched
<1>4. (IntcTypes /\ MailboxTypes /\ SchedTypes /\ MessageSignalled)'
  BY DEF SoundState, IntcTypes, MailboxTypes, SchedTypes, MessageSignalled, intc, mailbox, sched
<1> QED  BY <1>1, <1>3, <1>4 DEF SoundState

\* A step that leaves the cores and the schedule alone.
LEMMA NoCore ==
  ASSUME SoundState, UNCHANGED <<core, sched>>, IntcTypes', MailboxTypes', MessageSignalled'
  PROVE  SoundState'
<1>1. (\A c \in Cores : Sound(core[c], standby))'  BY DEF SoundState, sched
<1> QED  BY <1>1 DEF SoundState, SchedTypes, sched

LEMMA AccessSound ==
  ASSUME SoundState, NEW c \in Cores, GuestAccess(c)
  PROVE  SoundState'
<1> USE DEF SoundState
<1>0. /\ core[c] \in CoreRecords /\ Nested(core[c]) /\ Agrees(core[c], standby)
      /\ standby \in BOOLEAN
  BY DEF Sound, SchedTypes
<1>1. ASSUME NEW d \in Cores, NEW ctl \in Controls, WriteControl(c, d, ctl)  PROVE SoundState'
  <2>1. Sound(UpdateControl(core[d], ctl), standby)
    BY <1>0, ControlSound DEF Sound
  <2> QED  BY <1>1, <2>1, OneCore DEF WriteControl
<1>2. ASSUME NEW i \in BOOLEAN, NEW f \in BOOLEAN, WriteCpsr(c, i, f)  PROVE SoundState'
  <2> DEFINE k == [core[c] EXCEPT !.psr.I = i, !.psr.F = f]
  <2>1. core' = [core EXCEPT ![c] = k]  BY <1>2 DEF WriteCpsr
  <2>2. k \in CoreRecords  BY <1>0 DEF CoreRecords, Psr
  <2>3. Nested(k)  BY <1>0, <1>2 DEF Nested, WriteCpsr, CoreRecords, Psr
  <2>4. Agrees(k, standby)  BY <1>0 DEF Agrees, CoreRecords
  <2> HIDE DEF k
  <2>5. Sound(k, standby)  BY <2>2, <2>3, <2>4 DEF Sound
  <2> QED  BY <1>2, <2>1, <2>5, OneCore DEF WriteCpsr
<1>3. ASSUME ReturnFromIrq(c)  PROVE SoundState'
  <2> DEFINE k == [core[c] EXCEPT !.psr = core[c].spsr_irq, !.spsr_irq = None]
  <2>1. core' = [core EXCEPT ![c] = k]  BY <1>3 DEF ReturnFromIrq
  <2>2. core[c].spsr_irq # None /\ core[c].spsr_irq.mode = "svc"
    BY <1>0, <1>3 DEF Nested, ReturnFromIrq
  <2>3. k \in CoreRecords  BY <1>0, <2>2 DEF CoreRecords
  <2>4. Nested(k)  BY <1>0, <1>3, <2>2 DEF Nested, ReturnFromIrq, CoreRecords
  <2>5. Agrees(k, standby)  BY <1>0 DEF Agrees, CoreRecords
  <2> HIDE DEF k
  <2>6. Sound(k, standby)  BY <2>3, <2>4, <2>5 DEF Sound
  <2> QED  BY <1>3, <2>1, <2>6, OneCore DEF ReturnFromIrq
<1>4. ASSUME ReturnFromFiq(c)  PROVE SoundState'
  <2> DEFINE k == [core[c] EXCEPT !.psr = core[c].spsr_fiq, !.spsr_fiq = None]
  <2>1. core' = [core EXCEPT ![c] = k]  BY <1>4 DEF ReturnFromFiq
  <2>2. core[c].spsr_fiq # None /\ core[c].spsr_fiq.mode # "fiq"
    BY <1>0, <1>4 DEF Nested, ReturnFromFiq
  <2>3. k \in CoreRecords  BY <1>0, <2>2 DEF CoreRecords
  <2>4. Nested(k)  BY <1>0, <1>4, <2>2 DEF Nested, ReturnFromFiq, CoreRecords
  <2>5. Agrees(k, standby)  BY <1>0 DEF Agrees, CoreRecords
  <2> HIDE DEF k
  <2>6. Sound(k, standby)  BY <2>3, <2>4, <2>5 DEF Sound
  <2> QED  BY <1>4, <2>1, <2>6, OneCore DEF ReturnFromFiq
<1>5. ASSUME NEW d \in Cores, NEW e \in Enables, WriteEnable(c, d, e)  PROVE SoundState'
  <2>1. e \subseteq Sources  BY CoresAssumption
  <2>2. IntcTypes'  BY <1>5, <2>1 DEF WriteEnable, IntcTypes
  <2>3. MailboxTypes' /\ MessageSignalled'
    BY <1>5 DEF WriteEnable, MailboxTypes, MessageSignalled, mailbox
  <2> QED  BY <1>5, <2>2, <2>3, NoCore DEF WriteEnable
<1>6. ASSUME NEW d \in Cores, NEW p \in Priorities, WritePriority(c, d, p)  PROVE SoundState'
  <2>1. p \subseteq Sources  BY CoresAssumption
  <2>2. IntcTypes'  BY <1>6, <2>1 DEF WritePriority, IntcTypes
  <2>3. MailboxTypes' /\ MessageSignalled'
    BY <1>6 DEF WritePriority, MailboxTypes, MessageSignalled, mailbox
  <2> QED  BY <1>6, <2>2, <2>3, NoCore DEF WritePriority
<1>7. ASSUME NEW s \in Forceable, ForceInterrupt(c, s)  PROVE SoundState'
  <2>1. s \in Sources  BY CoresAssumption
  <2>2. IntcTypes'  BY <1>7, <2>1 DEF ForceInterrupt, IntcTypes
  <2>3. MailboxTypes' /\ MessageSignalled'
    BY <1>7 DEF ForceInterrupt, MailboxTypes, MessageSignalled, mailbox
  <2> QED  BY <1>7, <2>2, <2>3, NoCore DEF ForceInterrupt
<1>8. ASSUME NEW s \in Devices, ServeDevice(c, s)  PROVE SoundState'
  <2>1. IntcTypes'  BY <1>8 DEF ServeDevice, IntcTypes
  <2>2. MailboxTypes' /\ MessageSignalled'
    BY <1>8 DEF ServeDevice, MailboxTypes, MessageSignalled, mailbox, IntcTypes, Devices
  <2> QED  BY <1>8, <2>1, <2>2, NoCore DEF ServeDevice
<1>9. Mailbox \in Sources  BY CoresAssumption DEF Sources
<1> USE DEF IntcTypes, MailboxTypes, MessageSignalled
<1>10. ASSUME WriteShared(c)  PROVE SoundState'
  <2>1. IntcTypes' /\ MailboxTypes' /\ MessageSignalled'
    BY <1>9, <1>10 DEF WriteShared, Signal, Receiver, Other, Cores
  <2> QED  BY <1>10, <2>1, NoCore DEF WriteShared
<1>11. ASSUME ReadShared(c)  PROVE SoundState'
  <2>1. IntcTypes' /\ MailboxTypes' /\ MessageSignalled'
    BY <1>11 DEF ReadShared, Acknowledge
  <2> QED  BY <1>11, <2>1, NoCore DEF ReadShared
<1>12. ASSUME NEW d \in Cores, WriteQueue(c, d)  PROVE SoundState'
  <2>1. IntcTypes' /\ MailboxTypes' /\ MessageSignalled'
    BY <1>9, <1>12 DEF WriteQueue, Signal
  <2> QED  BY <1>12, <2>1, NoCore DEF WriteQueue
<1>13. ASSUME NEW d \in Cores, ReadQueue(c, d)  PROVE SoundState'
  <2>1. IntcTypes' /\ MailboxTypes' /\ MessageSignalled'
    BY <1>13 DEF ReadQueue, Acknowledge, Empties
  <2> QED  BY <1>13, <2>1, NoCore DEF ReadQueue
<1> QED
  BY <1>1, <1>2, <1>3, <1>4, <1>5, <1>6, <1>7, <1>8, <1>10, <1>11, <1>12, <1>13
     DEF GuestAccess

LEMMA TickSound ==
  ASSUME SoundState, NEW raised \in SUBSET Devices, NEW cut \in BOOLEAN, Tick(raised, cut)
  PROVE  SoundState'
<1> DEFINE Cut(c) == IF cut /\ ~standby THEN [core[c] EXCEPT !.halted = TRUE] ELSE core[c]
           After(c) == IntcTick(c, CpuconTick(Cut(c)), status', forced)
<1>1. standby \in BOOLEAN /\ standby' = (standby \/ cut) /\ standby' \in BOOLEAN
  BY DEF SoundState, SchedTypes, Tick
<1>2. ASSUME NEW c \in Cores  PROVE Sound(After(c), standby')
  <2>1. core[c] \in CoreRecords /\ Nested(core[c]) /\ Agrees(core[c], standby)
    BY DEF SoundState, Sound
  <2>2. Cut(c) \in CoreRecords /\ Nested(Cut(c))
    BY <2>1 DEF CoreRecords, Nested
  <2>3. Agrees(Cut(c), standby')  BY <1>1, <2>1 DEF CoreRecords, Agrees
  <2>4. Sound(Cut(c), standby')  BY <2>2, <2>3 DEF Sound
  <2> HIDE DEF Cut
  <2>5. Sound(CpuconTick(Cut(c)), standby')  BY <1>1, <2>4, CpuconSound
  <2> QED  BY <1>1, <2>5, IntcSound
<1>3. core' = [c \in Cores |-> After(c)]  BY DEF Tick
<1> HIDE DEF After
<1>4. core' \in [Cores -> CoreRecords] /\ \A c \in Cores : Sound(core'[c], standby')
  BY <1>2, <1>3 DEF Sound
<1>5. IntcTypes'  BY DEF SoundState, IntcTypes, Tick, Devices
<1>6. MailboxTypes' /\ MessageSignalled'
  BY DEF SoundState, MailboxTypes, MessageSignalled, IntcTypes, Tick, mailbox
<1>7. executing' \in BOOLEAN
  <2>1. core'["cpu"] \in CoreRecords  BY <1>4 DEF Cores
  <2>2. executing' = ~core'["cpu"].halted  BY DEF Tick
  <2> QED  BY <2>1, <2>2 DEF CoreRecords
<1>8. SchedTypes'  BY <1>1, <1>7 DEF SchedTypes, Tick, Cores
<1> QED  BY <1>4, <1>5, <1>6, <1>8 DEF SoundState

LEMMA NextSound == SoundState /\ [Next]_vars => SoundState'
<1> SUFFICES ASSUME SoundState, [Next]_vars PROVE SoundState'  OBVIOUS
<1>1. ASSUME NEW c \in Cores, GuestAccess(c)  PROVE SoundState'  BY <1>1, AccessSound
<1>2. CASE EndSlice
  <2>1. executing' \in BOOLEAN  BY <1>2 DEF EndSlice
  <2>2. SchedTypes'  BY <1>2, <2>1 DEF SoundState, SchedTypes, EndSlice, Cores
  <2>3. (IntcTypes /\ MailboxTypes /\ MessageSignalled)'
    BY <1>2 DEF SoundState, IntcTypes, MailboxTypes, MessageSignalled, EndSlice, intc, mailbox
  <2>4. (\A c \in Cores : Sound(core[c], standby))'  BY <1>2 DEF SoundState, EndSlice
  <2>5. (core \in [Cores -> CoreRecords])'  BY <1>2 DEF SoundState, EndSlice
  <2> QED  BY <2>2, <2>3, <2>4, <2>5 DEF SoundState
<1>3. CASE DeviceTick
  <2>1. PICK raised \in SUBSET Devices, cut \in {FALSE, PowerOff} : Tick(raised, cut)
    BY <1>3 DEF DeviceTick
  <2>2. cut \in BOOLEAN  BY CoresAssumption
  <2> QED  BY <2>1, <2>2, TickSound
<1>4. CASE PowerOn
  <2>1. (\A c \in Cores : Sound(core[c], standby))'  BY <1>4, ResetSound DEF PowerOn
  <2>2. (core \in [Cores -> CoreRecords])'  BY <1>4, ResetSound DEF PowerOn, Sound
  <2>3. IntcTypes'  BY <1>4 DEF PowerOn, IntcTypes
  <2>4. (MailboxTypes /\ SchedTypes /\ MessageSignalled)'
    BY <1>4 DEF PowerOn, MailboxTypes, SchedTypes, MessageSignalled, Cores
  <2> QED  BY <2>1, <2>2, <2>3, <2>4 DEF SoundState
<1>5. CASE UNCHANGED vars
  <2>1. (\A c \in Cores : Sound(core[c], standby))'  BY <1>5 DEF SoundState, vars
  <2>2. (core \in [Cores -> CoreRecords])'  BY <1>5 DEF SoundState, vars
  <2>3. (IntcTypes /\ MailboxTypes /\ SchedTypes /\ MessageSignalled)'
    BY <1>5 DEF SoundState, IntcTypes, MailboxTypes, SchedTypes, MessageSignalled, vars
  <2> QED  BY <2>1, <2>2, <2>3 DEF SoundState
<1> QED  BY <1>1, <1>2, <1>3, <1>4, <1>5 DEF Next

-----------------------------------------------------------------------------
(***************************************************************************)
(* Theorems.                                                               *)
(***************************************************************************)

\* The inductive invariant holds: of the cores in every order of slices,
\* ticks, interrupts, waits and standby.
THEOREM Invariance == Spec => []IInv
<1>1. Init => IInv  BY InitSound, SameInvariant
<1>2. SoundState' => IInv'
  BY SameInvariant DEF IInv, SoundState, TypeOK, IntcTypes, MailboxTypes, SchedTypes, Sound,
                       HandlersNest, HaltedAsWritten, MessageSignalled
<1>3. IInv /\ [Next]_vars => IInv'  BY <1>2, NextSound, SameInvariant
<1> QED  BY <1>1, <1>3, PTL DEF Spec

\* Type correctness.
THEOREM TypeCorrect == Spec => []TypeOK
<1>1. IInv => TypeOK  BY DEF IInv
<1> QED  BY <1>1, Invariance, PTL

\* Interrupt entry and return nest (cpu_unicorn.c, raise_fiq and raise_irq).
THEOREM NestingCorrect == Spec => []HandlersNest
<1>1. IInv => HandlersNest  BY DEF IInv
<1> QED  BY <1>1, Invariance, PTL

\* The halted flag and the CPUCON word agree (dev_cpucon.c and dev_intc.c).
THEOREM HaltedCorrect == Spec => []HaltedAsWritten
<1>1. IInv => HaltedAsWritten  BY DEF IInv
<1> QED  BY <1>1, Invariance, PTL

\* No message is left without its request (dev_mailbox.c).
THEOREM MailboxCorrect == Spec => []MessageSignalled
<1>1. IInv => MessageSignalled  BY DEF IInv
<1> QED  BY <1>1, Invariance, PTL

\* A queue is emptied by its owner only (dev_mailbox.c, n1g_dev_mailbox_read).
THEOREM QueueCorrect == Spec => QueueEmptiedByOwner
<1> DEFINE P == \A c \in Cores : queue[c] /\ ~queue'[c] => Runs(c) \/ standby
<1>1. IInv /\ [Next]_vars => [P]_vars
  <2> SUFFICES ASSUME IInv, Next PROVE P  OBVIOUS
  <2>1. queue \in [Cores -> BOOLEAN]  BY DEF IInv, TypeOK
  <2>2. ASSUME NEW c \in Cores, GuestAccess(c)  PROVE P
    <3>1. ASSUME NEW d \in Cores, ReadQueue(c, d)  PROVE P
      BY <2>1, <3>1 DEF ReadQueue, Empties
    <3>2. ASSUME NEW d \in Cores, WriteQueue(c, d)  PROVE P
      BY <2>1, <3>2 DEF WriteQueue
    <3>3. CASE UNCHANGED queue  BY <3>3
    <3> QED
      BY <2>2, <3>1, <3>2, <3>3
         DEF GuestAccess, WriteControl, WriteCpsr, ReturnFromIrq, ReturnFromFiq, WriteEnable,
             WritePriority, ForceInterrupt, ServeDevice, WriteShared, ReadShared, mailbox
  <2>3. CASE EndSlice  BY <2>3 DEF EndSlice, mailbox
  <2>4. CASE DeviceTick  BY <2>4 DEF DeviceTick, Tick, mailbox
  <2>5. CASE PowerOn  BY <2>5 DEF PowerOn
  <2> QED  BY <2>2, <2>3, <2>4, <2>5 DEF Next
<1> QED  BY <1>1, Invariance, PTL DEF Spec, QueueEmptiedByOwner
=============================================================================
