----------------------------- MODULE AtaDiskView -----------------------------
(* The registers of AtaDisk implement the protocol a driver relies on.        *)
EXTENDS AtaDisk

Phase ==
  IF InReset THEN "reset"
  ELSE IF status = Busy THEN "busy"
  ELSE IF status # Drq THEN "idle"
  ELSE IF transfer_kind \in DmaKinds THEN "dma" ELSE "data"

View ==
  INSTANCE AtaDriverView WITH
    MaxSectors <- CountMod,
    phase  <- Phase,
    held   <- soft_reset_asserted,
    left   <- sectors_remaining,
    intrq  <- irq_pending,
    failed <- status = Failed

\* Every behaviour of the registers is a behaviour of the protocol, its promise
\* that a busy drive and a released reset come to an end included.
ImplementsDriverView == View!Spec
=============================================================================
