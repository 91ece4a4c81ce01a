-------------------------------- MODULE MCAudio --------------------------------
(***************************************************************************)
(* Instances of Audio for TLC.  While nobody listens one guest plays from  *)
(* memory through two channels, and one by hand at two rates; the third    *)
(* keeps the FIFO supplied, changes the rate and resets the transmitter    *)
(* while the page polls.                                                   *)
(***************************************************************************)
EXTENDS Audio

VARIABLE guest

MCRates == {3, 4, 8}
MCStep  == [r \in MCRates |-> r]

\* A pushed sample tells the slot it was pushed to.
Counted == \A i \in DOMAIN audio.slot : audio.slot[i] \in {Silence, 1 + (i % 3)}

Dma ==
  \/ \E txen \in BOOLEAN : WriteConfig(FALSE, txen, txen)
  \/ \E interrupts \in BOOLEAN :
       \/ \E base \in 0 .. RamWords, words \in 1 .. MaxWords : StartChannel(0, base, words, interrupts)
       \/ StartChannel(1, 0, 1, interrupts)
       \/ \E c \in {0, 1} : StopChannel(c, interrupts)
  \/ \E c \in {0, 1} : ReadStatus(c)
  \/ Tick /\ audio.produced < 2

ByHand ==
  /\ \/ \E txen, irqtx \in BOOLEAN : WriteConfig(FALSE, txen, irqtx)
     \/ WriteFifoClear
     \/ \E sample \in Samples : WriteFifo(sample)
     \/ \E left, right \in Samples : WriteFifoPair(left, right)
     \/ \E audible \in BOOLEAN : WriteCodec(3, audible)
     \/ Tick /\ audio.produced < 3
  /\ Counted'

Polls ==
  /\ \/ WriteConfig(audio.produced > 1, TRUE, FALSE)
     \/ \E left, right \in Samples : WriteFifoPair(left, right) /\ audio.fill = 0
     \/ \E rate \in {4, 8} : WriteCodec(rate, TRUE) /\ rate # audio.codec
     \/ Tick /\ audio.fill > 0
     \/ ServePump \/ ServeStatus \/ Page
  /\ Counted' /\ audio.resets' <= 1 /\ audio.stream_id' + audio.produced' <= 5 /\ audio.stream_id' <= 2

MCInit == Init /\ guest \in {"dma", "hand", "polls"}

MCNext ==
  /\ \/ guest = "dma" /\ Dma
     \/ guest = "hand" /\ ByHand
     \/ guest = "polls" /\ Polls
  /\ UNCHANGED guest

MCSpec == MCInit /\ [][MCNext]_<<vars, guest>>
================================================================================
