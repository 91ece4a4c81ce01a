-------------------------------- MODULE Cores --------------------------------
(***************************************************************************)
(* The two ARM cores of the PP502x as they sleep, wake, are interrupted    *)
(* and signal each other: dev_cpucon.c, dev_intc.c, dev_mailbox.c, the     *)
(* interrupt entry of cpu_unicorn.c and the order in which main.c runs     *)
(* them.                                                                   *)
(*                                                                         *)
(* The CPU runs a slice, then the COP, then every device ticks.  A core is *)
(* only looked at before its slice: one that puts itself to sleep keeps    *)
(* executing to the end of the slice.  Slices end between any two guest    *)
(* instructions, so the accesses of the two cores interleave freely.       *)
(*                                                                         *)
(* Abstractions.  Interrupt words are sets of sources; the words sent      *)
(* through the mailbox are left out; an SPSR is None while no handler      *)
(* needs it; "svc" stands for every mode but IRQ and FIQ.                  *)
(***************************************************************************)
EXTENDS Integers

CONSTANTS
  Lo, Hi,      \* sources in the low and in the high interrupt words
  Enables,     \* values of an enable word pair that the guest uses
  Priorities,  \* values of a priority word pair that the guest uses
  Forceable,   \* sources the guest forces
  Controls,    \* values of a CPUCON word that the guest uses
  Mailing,     \* whether the guest uses the mailbox
  PowerOff,    \* whether the PMU may enter standby
  MaxWait      \* bound of the instance: the longest counted wait

Cores   == {"cpu", "cop"}
Sources == Lo \cup Hi
Mailbox == "mailbox"    \* bit 4 of the low words
Cascade == "cascade"    \* bit 30 of the low words: the high words as a whole
Devices == Sources \ {Mailbox, Cascade}

Other(c) == IF c = "cpu" THEN "cop" ELSE "cpu"

ASSUME CoresAssumption ==
  /\ {Mailbox, Cascade} \subseteq Lo /\ Lo \cap Hi = {}
  /\ Enables \subseteq SUBSET Sources /\ {} \in Enables
  /\ Priorities \subseteq SUBSET Sources /\ {} \in Priorities
  /\ Forceable \subseteq Sources
  /\ MaxWait \in Nat
  /\ Controls \subseteq [bits : SUBSET {"sleep", "wait", "count"}, ticks : 1 .. MaxWait]
  /\ Mailing \in BOOLEAN /\ PowerOff \in BOOLEAN

VARIABLES
  core,        \* per core: halted, CPSR, both SPSRs, CPUCON word, wait_ticks
  status,      \* per core: the sources its status words show
  forced,      \* forced_status, common to both cores
  enable,      \* per core
  priority,    \* per core: the sources routed to FIQ
  queue,       \* per core: whether its mailbox queue word is not zero
  unseen,      \* history: posted to this core since it last acknowledged
  standby,     \* the PMU has cut the power
  turn,        \* whose slice it is, or "tick"
  executing    \* whether the core whose turn it is runs a slice

vars == <<core, status, forced, enable, priority, queue, unseen, standby, turn, executing>>

intc    == <<status, forced, enable, priority>>
mailbox == <<queue, unseen>>
sched   == <<standby, turn, executing>>

Psr  == [mode : {"svc", "irq", "fiq"}, I : BOOLEAN, F : BOOLEAN]
None == [mode |-> "none", I |-> FALSE, F |-> FALSE]

-----------------------------------------------------------------------------
(***************************************************************************)
(* One core.                                                               *)
(***************************************************************************)
Reset(c) ==
  [halted     |-> c = "cop",
   psr        |-> [mode |-> "svc", I |-> TRUE, F |-> TRUE],
   spsr_irq   |-> None,
   spsr_fiq   |-> None,
   ctl        |-> IF c = "cop" THEN {"sleep"} ELSE {},
   wait_ticks |-> 0]

\* update_control
UpdateControl(k, ctl) ==
  [k EXCEPT !.ctl = ctl.bits,
            !.halted = ctl.bits \cap {"sleep", "wait"} # {},
            !.wait_ticks = IF {"wait", "count"} \subseteq ctl.bits THEN ctl.ticks ELSE 0]

Wake(k) == [k EXCEPT !.halted = FALSE, !.ctl = @ \ {"sleep", "wait"}]

\* Mutation: the count stops at one.
CpuconTick_StopsShort(k) ==
  IF k.halted /\ {"wait", "count"} \subseteq k.ctl /\ k.wait_ticks > 1
  THEN [k EXCEPT !.wait_ticks = @ - 1] ELSE k

\* n1g_dev_cpucon_tick, for one core.  A wait without a count unit, or one that
\* was overtaken by an interrupt, does not count.
CpuconTick(k) ==
  LET counts  == k.halted /\ {"wait", "count"} \subseteq k.ctl /\ k.wait_ticks > 0
      counted == [k EXCEPT !.wait_ticks = @ - 1]
  IN  IF ~counts THEN k ELSE IF counted.wait_ticks = 0 THEN Wake(counted) ELSE counted

\* Mutation: an FIQ leaves IRQs unmasked.
RaiseFiq_KeepsI(k) ==
  IF k.psr.F THEN k
  ELSE [Wake(k) EXCEPT !.spsr_fiq = k.psr, !.psr = [mode |-> "fiq", I |-> k.psr.I, F |-> TRUE]]

\* n1g_cpu_raise_fiq
RaiseFiq(k) ==
  IF k.psr.F THEN k
  ELSE [Wake(k) EXCEPT !.spsr_fiq = k.psr, !.psr = [mode |-> "fiq", I |-> TRUE, F |-> TRUE]]

\* n1g_cpu_raise_irq: FIQs stay as they were.
RaiseIrq(k) ==
  IF k.psr.I THEN k
  ELSE [Wake(k) EXCEPT !.spsr_irq = k.psr, !.psr = [mode |-> "irq", I |-> TRUE, F |-> k.psr.F]]

(***************************************************************************)
(* The interrupt controller.  In the operators status and forced are       *)
(* parameters, because a tick delivers what it has raised itself.          *)
(***************************************************************************)
Pending(c, st, fo) == (st[c] \cup fo) \cap enable[c]

\* A source of the high words interrupts through bit 30 of the low enable word.
IrqPending(c, st, fo) ==
  LET p == Pending(c, st, fo) \ priority[c]
  IN  p \cap Lo # {} \/ (Cascade \in enable[c] /\ p \cap Hi # {})

\* Routed to FIQ, it does not need that bit.
FiqPending(c, st, fo) == Pending(c, st, fo) \cap priority[c] # {}

\* Mutation: a core that masks interrupts is left asleep.
IntcTick_OnlyUnmasked(c, k, st, fo) ==
  LET afterFiq == IF FiqPending(c, st, fo) /\ ~k.psr.F THEN RaiseFiq(Wake(k)) ELSE k
  IN  IF IrqPending(c, st, fo) /\ ~afterFiq.psr.I THEN RaiseIrq(Wake(afterFiq)) ELSE afterFiq

\* n1g_dev_intc_tick, for one core: a masked core wakes all the same.
IntcTick(c, k, st, fo) ==
  LET afterFiq == IF FiqPending(c, st, fo) THEN RaiseFiq(Wake(k)) ELSE k
  IN  IF IrqPending(c, st, fo) THEN RaiseIrq(Wake(afterFiq)) ELSE afterFiq

-----------------------------------------------------------------------------
Init ==
  /\ core = [c \in Cores |-> Reset(c)]
  /\ status = [c \in Cores |-> {}] /\ forced = {}
  /\ enable = [c \in Cores |-> {}] /\ priority = [c \in Cores |-> {}]
  /\ queue = [c \in Cores |-> FALSE] /\ unseen = [c \in Cores |-> FALSE]
  /\ standby = FALSE /\ turn = "cpu" /\ executing = TRUE

Runs(c) == turn = c /\ executing

(***************************************************************************)
(* Guest accesses of core c.                                               *)
(***************************************************************************)

\* A write to either CPUCON word.
WriteControl(c, target, ctl) ==
  /\ Runs(c)
  /\ core' = [core EXCEPT ![target] = UpdateControl(@, ctl)]
  /\ UNCHANGED <<intc, mailbox, sched>>

\* The guest masks interrupts in any mode; it unmasks them outside handlers,
\* which keep them masked until they return.
WriteCpsr(c, i, f) ==
  /\ Runs(c)
  /\ core[c].psr.mode \in {"irq", "fiq"} => (core[c].psr.I => i) /\ (core[c].psr.F => f)
  /\ core' = [core EXCEPT ![c].psr.I = i, ![c].psr.F = f]
  /\ UNCHANGED <<intc, mailbox, sched>>

\* The end of a handler: the CPSR comes back from the SPSR.
ReturnFromIrq(c) ==
  /\ Runs(c) /\ core[c].psr.mode = "irq"
  /\ core' = [core EXCEPT ![c].psr = core[c].spsr_irq, ![c].spsr_irq = None]
  /\ UNCHANGED <<intc, mailbox, sched>>

ReturnFromFiq(c) ==
  /\ Runs(c) /\ core[c].psr.mode = "fiq"
  /\ core' = [core EXCEPT ![c].psr = core[c].spsr_fiq, ![c].spsr_fiq = None]
  /\ UNCHANGED <<intc, mailbox, sched>>

\* Either core may write the enable, priority and force registers of both.
WriteEnable(c, target, sources) ==
  /\ Runs(c)
  /\ \/ enable' = [enable EXCEPT ![target] = @ \cup sources]
     \/ enable' = [enable EXCEPT ![target] = @ \ sources]
  /\ UNCHANGED <<core, status, forced, priority, mailbox, sched>>

WritePriority(c, target, sources) ==
  /\ Runs(c)
  /\ priority' = [priority EXCEPT ![target] = sources]
  /\ UNCHANGED <<core, status, forced, enable, mailbox, sched>>

ForceInterrupt(c, source) ==
  /\ Runs(c)
  /\ \/ forced' = forced \cup {source}
     \/ forced' = forced \ {source}
  /\ UNCHANGED <<core, status, enable, priority, mailbox, sched>>

\* The device behind a source is served: the request goes from both cores.
ServeDevice(c, source) ==
  /\ Runs(c)
  /\ status' = [d \in Cores |-> status[d] \ {source}]
  /\ UNCHANGED <<core, forced, enable, priority, mailbox, sched>>

(***************************************************************************)
(* The mailbox.                                                            *)
(***************************************************************************)
Signal(d)      == status' = [status EXCEPT ![d] = @ \cup {Mailbox}]
Acknowledge(d) == status' = [status EXCEPT ![d] = @ \ {Mailbox}]

\* Mutation: a core signals itself.
Receiver_Self(c) == c
Receiver(c) == Other(c)

\* Shared bits are set or cleared: the other core is told.
WriteShared(c) ==
  /\ Runs(c) /\ Mailing
  /\ Signal(Receiver(c))
  /\ unseen' = [unseen EXCEPT ![Other(c)] = TRUE]
  /\ UNCHANGED <<core, forced, enable, priority, queue, sched>>

ReadShared(c) ==
  /\ Runs(c) /\ Mailing
  /\ Acknowledge(c)
  /\ unseen' = [unseen EXCEPT ![c] = FALSE]
  /\ UNCHANGED <<core, forced, enable, priority, queue, sched>>

\* A zero word is queued as a notification bit; either core may write both.
WriteQueue(c, d) ==
  /\ Runs(c) /\ Mailing
  /\ queue' = [queue EXCEPT ![d] = TRUE]
  /\ Signal(d)
  /\ unseen' = [unseen EXCEPT ![d] = TRUE]
  /\ UNCHANGED <<core, forced, enable, priority, sched>>

\* Mutation: whoever reads a queue empties and acknowledges it.
Empties_Anyone(c, d) == TRUE
Empties(c, d) == c = d

\* The owner of a queue empties it; the other core only looks.
ReadQueue(c, d) ==
  /\ Runs(c) /\ Mailing
  /\ Empties(c, d)
  /\ queue' = [queue EXCEPT ![d] = FALSE]
  /\ Acknowledge(d)
  /\ unseen' = [unseen EXCEPT ![c] = FALSE]
  /\ UNCHANGED <<core, forced, enable, priority, sched>>

(***************************************************************************)
(* The main loop.                                                          *)
(***************************************************************************)
EndSlice ==
  /\ turn \in Cores
  /\ turn' = IF turn = "cpu" THEN "cop" ELSE "tick"
  /\ executing' = (turn = "cpu" /\ ~core["cop"].halted)
  /\ UNCHANGED <<core, intc, mailbox, standby>>

\* n1g_bus_tick: devices raise requests for both cores, the PMU may cut the
\* power, then the waits count and the interrupts are delivered.
Tick(raised, cut) ==
  /\ turn = "tick"
  /\ status' = [c \in Cores |-> status[c] \cup raised]
  /\ standby' = (standby \/ cut)
  /\ core' = [c \in Cores |->
       LET k == IF cut /\ ~standby THEN [core[c] EXCEPT !.halted = TRUE] ELSE core[c]
       IN  IntcTick(c, CpuconTick(k), status', forced)]
  /\ turn' = "cpu" /\ executing' = ~core'["cpu"].halted
  /\ UNCHANGED <<forced, enable, priority, mailbox>>

\* The PMU wakes the machine, which starts again from reset.
PowerOn ==
  /\ standby /\ turn = "cpu"
  /\ core' = [c \in Cores |-> Reset(c)]
  /\ status' = [c \in Cores |-> {}] /\ forced' = {}
  /\ enable' = [c \in Cores |-> {}] /\ priority' = [c \in Cores |-> {}]
  /\ queue' = [c \in Cores |-> FALSE] /\ unseen' = [c \in Cores |-> FALSE]
  /\ standby' = FALSE /\ turn' = "cpu" /\ executing' = TRUE

\* A core's CPUCON word is written, by either core.
Control(c) ==
  \E d \in Cores, ctl \in Controls : WriteControl(d, c, ctl)

GuestAccess(c) ==
  \/ \E d \in Cores, ctl \in Controls : WriteControl(c, d, ctl)
  \/ \E i, f \in BOOLEAN : WriteCpsr(c, i, f)
  \/ ReturnFromIrq(c) \/ ReturnFromFiq(c)
  \/ \E d \in Cores, e \in Enables : WriteEnable(c, d, e)
  \/ \E d \in Cores, p \in Priorities : WritePriority(c, d, p)
  \/ \E s \in Forceable : ForceInterrupt(c, s)
  \/ \E s \in Devices : ServeDevice(c, s)
  \/ WriteShared(c) \/ ReadShared(c)
  \/ \E d \in Cores : WriteQueue(c, d) \/ ReadQueue(c, d)

DeviceTick ==
  \E raised \in SUBSET Devices, cut \in {FALSE, PowerOff} :
    Tick(raised, cut)

Next == (\E c \in Cores : GuestAccess(c)) \/ EndSlice \/ DeviceTick \/ PowerOn

\* Slices are bounded and the loop goes on, whatever the guest executes.
Spec == Init /\ [][Next]_vars /\ WF_vars(EndSlice) /\ WF_vars(DeviceTick)
-----------------------------------------------------------------------------
(***************************************************************************)
(* Properties.                                                             *)
(***************************************************************************)

CoreRecords ==
  [halted : BOOLEAN, psr : Psr, spsr_irq : Psr \cup {None}, spsr_fiq : Psr \cup {None},
   ctl : SUBSET {"sleep", "wait", "count"}, wait_ticks : 0 .. MaxWait]

\* Types.
TypeOK ==
  /\ core \in [Cores -> CoreRecords]
  /\ status \in [Cores -> SUBSET Sources] /\ forced \subseteq Sources
  /\ enable \in [Cores -> SUBSET Sources] /\ priority \in [Cores -> SUBSET Sources]
  /\ queue \in [Cores -> BOOLEAN] /\ unseen \in [Cores -> BOOLEAN]
  /\ standby \in BOOLEAN /\ turn \in Cores \cup {"tick"} /\ executing \in BOOLEAN

\* Interrupts nest: an FIQ may interrupt an IRQ handler and nothing interrupts an
\* FIQ handler, so that no return state is overwritten before its handler
\* returns, and each handler returns to a state that was not masked.
Nested(k) ==
  /\ k.psr.mode = "fiq" <=> k.spsr_fiq # None
  /\ k.psr.mode = "fiq" => k.psr.I /\ k.psr.F /\ ~k.spsr_fiq.F
  /\ LET interrupted == IF k.psr.mode = "fiq" THEN k.spsr_fiq ELSE k.psr
     IN  /\ interrupted.mode = IF k.spsr_irq # None THEN "irq" ELSE "svc"
         /\ interrupted.mode = "irq" => interrupted.I
  /\ k.spsr_irq # None => k.spsr_irq.mode = "svc" /\ ~k.spsr_irq.I

HandlersNest == \A c \in Cores : Nested(core[c])

\* The halted flag the scheduler tests and the CPUCON word the guest reads
\* agree, through interrupts, expiring waits and writes by either core; only
\* standby halts a core whose word says that it runs.
Agrees(k, cut) ==
  /\ k.ctl \cap {"sleep", "wait"} # {} => k.halted
  /\ k.halted => k.ctl \cap {"sleep", "wait"} # {} \/ cut

HaltedAsWritten == \A c \in Cores : Agrees(core[c], standby)

\* What is posted to a core keeps its request up until that core, not the other,
\* has read it.
MessageSignalled ==
  \A c \in Cores : unseen[c] => Mailbox \in status[c]

\* A queued word is taken out by its owner only.
QueueEmptiedByOwner ==
  [][\A c \in Cores : queue[c] /\ ~queue'[c] => Runs(c) \/ standby]_vars

\* A core that goes to sleep with a request pending, or gets one while asleep,
\* wakes, even if it masks the interrupt: checking for work and going to sleep
\* is safe with interrupts masked.
Requested(c) == IrqPending(c, status, forced) \/ FiqPending(c, status, forced)

NoLostWakeup == \A c \in Cores : Requested(c) ~> (~core[c].halted \/ ~Requested(c))

\* A message to a core that enables the mailbox interrupt finds it awake.
MessageWakes ==
  \A c \in Cores : (unseen[c] /\ Mailbox \in enable[c])
                       ~> (~core[c].halted \/ ~unseen[c] \/ Mailbox \notin enable[c])

\* A counted wait ends, unless its word is written again and again.
Counting(c) == core[c].halted /\ {"wait", "count"} \subseteq core[c].ctl

CountedWaitEnds ==
  \A c \in Cores : (Counting(c) ~> ~Counting(c)) \/ []<><<Control(c)>>_vars

\* Standby cuts the power: no core executes until the PMU wakes the machine.
StandbyIsQuiet == standby => ~executing
=============================================================================
