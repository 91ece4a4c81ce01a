---------------------------- MODULE AtaDriverView ----------------------------
(***************************************************************************)
(* What a driver may rely on when it talks to the drive: the protocol of   *)
(* README.md (ATA bullets of "Current status"), without registers, flags   *)
(* or data.  A command makes the drive busy; a busy drive turns to a data  *)
(* block or to idle by itself; an interrupt appears only at those two      *)
(* turns or at the end of a DMA command, and only the driver or the start  *)
(* of new work takes it away.  AtaDiskView shows that AtaDisk implements   *)
(* this module.                                                            *)
(***************************************************************************)
EXTENDS Integers

CONSTANT MaxSectors     \* sectors a single command may ask for

VARIABLES
  phase,      \* "idle", "busy", "data", "dma" or "reset"
  held,       \* the driver holds the drive in reset
  left,       \* sectors the running command still has to move
  intrq,        \* an interrupt is requested
  failed      \* the last command ended in error

driverVars == <<phase, held, left, intrq, failed>>

Phases == {"idle", "busy", "data", "dma", "reset"}

Init == phase = "idle" /\ ~held /\ left = 0 /\ ~intrq /\ ~failed

-----------------------------------------------------------------------------
(* The driver.                                                             *)

\* A command may overtake a running one.  It starts with no interrupt.
Issue ==
  /\ phase # "reset"
  /\ phase' \in {"busy", "dma"}
  /\ left' \in IF phase' = "dma" THEN 1 .. MaxSectors ELSE 0 .. MaxSectors
  /\ ~intrq' /\ ~failed'
  /\ UNCHANGED held

\* The last word of a block ends a read silently, or makes the drive busy:
\* with the next block, with the end of a write, or with an error.
DrainBlock ==
  /\ phase = "data"
  /\ \/ phase' = "idle" /\ left = 1 /\ left' = 0 /\ intrq' = intrq
     \/ phase' = "busy" /\ left' \in {0, left - 1} /\ ~intrq'
  /\ UNCHANGED <<held, failed>>

Acknowledge == ~intrq' /\ UNCHANGED <<phase, held, left, failed>>

HoldReset ==
  /\ phase' = "reset" /\ held' /\ left' = 0 /\ ~intrq' /\ ~failed'

ReleaseReset ==
  /\ phase = "reset" /\ held /\ ~held'
  /\ UNCHANGED <<phase, left, intrq, failed>>

-----------------------------------------------------------------------------
(* The drive.                                                              *)

\* The end of a command always interrupts; so does every data block except the
\* first one of a write, for which the driver polls.
LeaveBusy ==
  /\ phase = "busy"
  /\ \/ phase' = "idle" /\ left' = 0 /\ intrq' /\ failed' \in BOOLEAN
     \/ phase' = "data" /\ left > 0 /\ left' = left /\ intrq' \in BOOLEAN /\ ~failed'
  /\ UNCHANGED held

\* A DMA segment never interrupts unless it is the last one; a segment that
\* cannot be moved makes the drive busy with an error.
DmaSegment ==
  /\ phase = "dma"
  /\ \/ phase' = "dma" /\ left' \in 1 .. left /\ intrq' = intrq
     \/ phase' = "idle" /\ left' = 0 /\ intrq'
     \/ phase' = "busy" /\ left' = 0 /\ ~intrq'
  /\ UNCHANGED <<held, failed>>

\* The end of a reset is silent.
EndReset ==
  /\ phase = "reset" /\ ~held
  /\ phase' = "idle" /\ left' = 0 /\ ~intrq' /\ ~failed'
  /\ UNCHANGED held

Next ==
  \/ Issue \/ DrainBlock \/ Acknowledge \/ HoldReset \/ ReleaseReset
  \/ LeaveBusy \/ DmaSegment \/ EndReset

\* The drive's own duty: neither a busy phase nor a released reset lasts.
Progress ==
  /\ phase = "busy" ~> phase # "busy"
  /\ (phase = "reset" /\ ~held) ~> (phase # "reset" \/ held)

Protocol == Init /\ [][Next]_driverVars

Spec == Protocol /\ Progress
=============================================================================
