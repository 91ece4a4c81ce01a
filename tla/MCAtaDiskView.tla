---------------------------- MODULE MCAtaDiskView ----------------------------
(* The refinement is checked with one command of every course a command can   *)
(* take; the multiple-mode commands take the same courses as READ and WRITE.  *)
EXTENDS AtaDiskView

NoLengths    == {}
ViewCommands == {"IDENTIFY", "READ", "WRITE", "READ_DMA", "NONDATA", "UNSUPPORTED"}
=============================================================================
