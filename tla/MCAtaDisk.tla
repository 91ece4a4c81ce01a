------------------------------ MODULE MCAtaDisk ------------------------------
(* Small instances of the ATA drive.  Three drivers share the constants: one  *)
(* moves sectors through the data register, one issues everything that moves  *)
(* at most one, and one works in DMA segments of dma_length + 4 bytes.  What  *)
(* each leaves alone is written below: a guest that does all of it at once is *)
(* out of reach.                                                              *)
EXTENDS AtaDisk

VARIABLE driver

Issues ==
  [pio     |-> {"IDENTIFY", "READ", "WRITE"},
   control |-> {"READ_MULTIPLE", "WRITE_MULTIPLE", "SET_MULTIPLE", "NONDATA",
                "UNSUPPORTED", "READ_DMA"},
   dma     |-> {"READ_DMA", "WRITE_DMA", "IDENTIFY"}]

SomeLengths == {2}

Pio ==
  /\ device_control \subseteq {"nIEN"} /\ ~dma_enable /\ dma_length = 0
  /\ error # "feature"

Control ==
  /\ total <= 1 /\ dma_length = 0
  /\ error # "feature" \/ pending = {}
  /\ selected_lba \in {0, 2}

Dma == device_control = {} /\ error # "feature" /\ selected_lba # 3

MCInit == Init /\ driver \in DOMAIN Issues

MCNext ==
  /\ Next
  /\ command' \in Issues[driver] \cup {"NONE"}
  /\ CASE driver = "pio" -> Pio' [] driver = "control" -> Control' [] driver = "dma" -> Dma'
  /\ UNCHANGED driver

MCSpec == MCInit /\ [][MCNext]_<<vars, driver>>
=============================================================================
