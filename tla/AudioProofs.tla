------------------------------- MODULE AudioProofs -------------------------------
(***************************************************************************)
(* Proofs about Audio, for any depth of the FIFO, ring longer than an      *)
(* answer, rates, channels, and lengths of a transfer.                     *)
(*                                                                         *)
(* A tick plays, and a channel moves, as many halfwords as are due, by a   *)
(* recursive function.  Induction over the number of steps is done with    *)
(* the least number at which a claim fails.                                *)
(***************************************************************************)
EXTENDS Audio, SequenceTheorems, WellFoundedInduction, TLAPS

-----------------------------------------------------------------------------
(***************************************************************************)
(* Numbers, induction and iteration.                                       *)
(***************************************************************************)

\* Quotient and remainder.
LEMMA DivMod ==
  ASSUME NEW n \in Nat, NEW d \in Nat, d > 0
  PROVE  /\ n \div d \in Nat /\ n % d \in 0 .. d - 1
         /\ n = d * (n \div d) + (n % d)
  BY SMT

\* A product does not decrease with its factor.
LEMMA MulMono ==
  ASSUME NEW d \in Nat, NEW j \in Nat, NEW k \in Nat, j <= k
  PROVE  d * j <= d * k
  BY SMT

\* The quotient is known from a remainder that is small enough.
LEMMA QuotientIs ==
  ASSUME NEW n \in Nat, NEW d \in Nat, d > 0, NEW q \in Nat, NEW r \in 0 .. d - 1,
         n = d * q + r
  PROVE  n \div d = q /\ n % d = r
<1> DEFINE p == n \div d
           s == n % d
<1>1. p \in Nat /\ s \in 0 .. d - 1 /\ n = d * p + s  BY DivMod
<1> HIDE DEF p, s
<1>2. d * p \in Nat /\ d * q \in Nat  BY <1>1
<1>3. ~(p < q)
  <2> SUFFICES ASSUME p < q PROVE FALSE  OBVIOUS
  <2>1. d * (p + 1) <= d * q  BY <1>1, MulMono
  <2>2. d * (p + 1) = d * p + d  BY <1>1
  <2> QED  BY <1>1, <1>2, <2>1, <2>2
<1>4. ~(q < p)
  <2> SUFFICES ASSUME q < p PROVE FALSE  OBVIOUS
  <2>1. d * (q + 1) <= d * p  BY <1>1, MulMono
  <2>2. d * (q + 1) = d * q + d  OBVIOUS
  <2> QED  BY <1>1, <1>2, <2>1, <2>2
<1>5. p = q  BY <1>1, <1>3, <1>4
<1> QED  BY <1>1, <1>2, <1>5 DEF p, s

\* An index that runs round a buffer at most once.
LEMMA Wraps ==
  ASSUME NEW d \in Nat, d > 0, NEW h \in 0 .. d - 1, NEW j \in 0 .. d
  PROVE  (h + j) % d = IF h + j < d THEN h + j ELSE h + j - d
<1>1. CASE h + j < d
  <2>1. h + j = d * 0 + (h + j)  OBVIOUS
  <2> QED  BY <1>1, <2>1, QuotientIs
<1>2. CASE h + j >= d
  <2>1. h + j = d * 1 + (h + j - d) /\ h + j - d \in 0 .. d - 1  BY <1>2
  <2> QED  BY <1>2, <2>1, QuotientIs
<1> QED  BY <1>1, <1>2

\* Positions less than a buffer apart lie at different places in it.
LEMMA Apart ==
  ASSUME NEW d \in Nat, d > 0, NEW m \in Nat, NEW n \in Nat, m < n, n < m + d
  PROVE  m % d # n % d
<1> SUFFICES ASSUME m % d = n % d PROVE FALSE  OBVIOUS
<1> DEFINE p == m \div d
           q == n \div d
           r == m % d
<1>1. /\ p \in Nat /\ q \in Nat /\ r \in 0 .. d - 1
      /\ m = d * p + r /\ n = d * q + r
  BY DivMod
<1> HIDE DEF p, q, r
<1>2. d * p \in Nat /\ d * q \in Nat  BY <1>1
<1>3. ~(q <= p)
  <2> SUFFICES ASSUME q <= p PROVE FALSE  OBVIOUS
  <2>1. d * q <= d * p  BY <1>1, MulMono
  <2> QED  BY <1>1, <1>2, <2>1
<1>4. d * (p + 1) <= d * q  BY <1>1, <1>3, MulMono
<1>5. d * (p + 1) = d * p + d  BY <1>1
<1> QED  BY <1>1, <1>2, <1>4, <1>5

\* A set of numbers has a least one.
LEMMA LeastNat ==
  ASSUME NEW T \in SUBSET Nat, T # {}
  PROVE  \E n \in T : \A m \in T : n <= m
<1> DEFINE R == {ss \in Nat \X Nat : ss[1] < ss[2]}
<1>1. IsWellFoundedOn(R, Nat)  BY NatLessThanWellFounded DEF OpToRel
<1>2. \A m, n \in Nat : m < n => <<m, n>> \in R  OBVIOUS
<1> HIDE DEF R
<1>3. PICK n \in T : \A m \in T : ~(<<m, n>> \in R)  BY <1>1, WFMin
<1>4. ASSUME NEW m \in T PROVE n <= m
  <2>1. m \in Nat /\ n \in Nat  OBVIOUS
  <2>2. ~(m < n)  BY <1>2, <1>3, <2>1
  <2> QED  BY <2>1, <2>2
<1> QED  BY <1>3, <1>4

\* Induction up to a number.
LEMMA UpTo ==
  ASSUME NEW n \in Nat, NEW P, 0 \in P, \A i \in 1 .. n : i - 1 \in P => i \in P
  PROVE  \A i \in 0 .. n : i \in P
<1> DEFINE T == {i \in 0 .. n : i \notin P}
<1>1. T \in SUBSET Nat  OBVIOUS
<1>2. ASSUME NEW i \in T, \A m \in T : i <= m PROVE FALSE
  <2>1. i \in 0 .. n /\ i \notin P /\ i # 0  OBVIOUS
  <2>2. i - 1 \in 0 .. n /\ i - 1 \in P  BY <1>2, <2>1
  <2> QED  BY <2>1, <2>2
<1>3. T = {}
  <2> HIDE DEF T
  <2> QED  BY <1>1, <1>2, LeastNat
<1> QED  BY <1>3

\* n steps on S, and runs of them.
StepsOn(S, n, G) == G \in [(1 .. n) \X S -> S]
HasRun(S, s, n, G) ==
  \E f \in [0 .. n -> S] : f[0] = s /\ \A i \in 1 .. n : f[i] = G[<<i, f[i - 1]>>]

\* Steps on S can be taken one after the other.
LEMMA Iteration ==
  ASSUME NEW S, NEW s \in S, NEW n \in Nat, NEW G, StepsOn(S, n, G)
  PROVE  HasRun(S, s, n, G)
<1> USE DEF StepsOn
<1> DEFINE Runs(m, f) == f[0] = s /\ \A i \in 1 .. m : f[i] = G[<<i, f[i - 1]>>]
           P == {m \in 0 .. n : \E f \in [0 .. m -> S] : Runs(m, f)}
<1>1. 0 \in P
  <2> DEFINE f == [i \in 0 .. 0 |-> s]
  <2>1. f \in [0 .. 0 -> S] /\ Runs(0, f)  OBVIOUS
  <2>2. 0 \in 0 .. n  OBVIOUS
  <2> HIDE DEF f, Runs
  <2> QED  BY <2>1, <2>2
<1>2. ASSUME NEW m \in 1 .. n, m - 1 \in P PROVE m \in P
  <2>1. PICK f \in [0 .. m - 1 -> S] : Runs(m - 1, f)  BY <1>2
  <2> DEFINE g == [i \in 0 .. m |-> IF i = m THEN G[<<m, f[m - 1]>>] ELSE f[i]]
  <2>2. f[m - 1] \in S  BY <2>1
  <2>3. g \in [0 .. m -> S]  BY <2>1, <2>2
  <2>4. g[0] = s  BY <2>1
  <2>5. ASSUME NEW i \in 1 .. m PROVE g[i] = G[<<i, g[i - 1]>>]
    <3>1. CASE i = m
      <4>1. m - 1 \in 0 .. m /\ m - 1 # m /\ m \in 0 .. m  OBVIOUS
      <4>2. g[m - 1] = f[m - 1] /\ g[m] = G[<<m, f[m - 1]>>]  BY <4>1
      <4> QED  BY <3>1, <4>2
    <3>2. CASE i # m
      <4>1. i \in 1 .. m - 1 /\ i - 1 \in 0 .. m /\ i - 1 # m  BY <3>2
      <4> QED  BY <2>1, <3>2, <4>1
    <3> QED  BY <3>1, <3>2
  <2>6. Runs(m, g)  BY <2>4, <2>5
  <2> HIDE DEF g, Runs
  <2> QED  BY <2>3, <2>6
<1> HIDE DEF P
<1>3. n \in P  BY <1>1, <1>2, UpTo
<1> USE DEF P
<1> QED  BY <1>3 DEF HasRun

-----------------------------------------------------------------------------
(***************************************************************************)
(* The device, and what holds of it.                                       *)
(***************************************************************************)
ChannelRecords ==
  [base : Nat, words : Nat, interrupts : BOOLEAN, active : BOOLEAN, addr : Nat, left : Int,
   intr : BOOLEAN, moved : Seq(Nat), owed : BOOLEAN]

Played == [sample : Nat, rate : Rates]

Devices ==
  [txen : BOOLEAN, irqtx : BOOLEAN, tx_line : BOOLEAN, dma_line : BOOLEAN,
   slot : [0 .. Depth - 1 -> Nat], head : 0 .. Depth - 1, tail : 0 .. Depth - 1,
   fill : 0 .. Depth, acc : 0 .. Unit - 1,
   ring : [0 .. Ring - 1 -> Nat], produced : Nat, stream_start : Nat, stream_id : Nat,
   rate : Rates \cup {NoRate}, codec : Rates, audible : BOOLEAN,
   ch : [0 .. Channels - 1 -> ChannelRecords],
   waiting : Seq(Nat), played : Seq(Played), resets : Nat, elapsed : Nat, since : Nat]

\* FifoIsQueue, and the tail is where the queue ends.
Fifo(a) ==
  /\ a.fill = Len(a.waiting)
  /\ a.tail = (a.head + a.fill) % Depth
  /\ \A i \in 1 .. a.fill : a.slot[(a.head + i - 1) % Depth] = a.waiting[i]

\* The clock has played what its time was worth, and keeps the rest.
Clock(a) == a.elapsed = Unit * a.since + a.acc

\* The ring ends in what was played last, the stream's at its rate.
History(a) ==
  /\ Len(a.played) = a.produced
  /\ \A p \in 0 .. a.produced - 1 :
       /\ p >= a.produced - Ring => a.ring[p % Ring] = a.played[p + 1].sample
       /\ p >= a.stream_start => a.played[p + 1].rate = a.rate
  /\ a.rate = NoRate => a.produced = 0

\* What a transfer has moved, and that its end is owed to the guest as its interrupt says.
Moving(k) ==
  /\ k.left <= k.words
  /\ k.addr = k.base + (k.words - k.left)
  /\ k.moved = [i \in 1 .. k.words - k.left |-> k.base + i - 1]
  /\ k.owed = k.intr

DmaLine(a) == a.dma_line <=> \E c \in 0 .. Channels - 1 : a.ch[c].intr
TxLine(a)  == a.tx_line <=> a.irqtx /\ a.txen /\ a.fill + 2 <= Depth

Sound(a) ==
  /\ a \in Devices
  /\ Fifo(a) /\ Clock(a) /\ History(a) /\ DmaLine(a) /\ TxLine(a)
  /\ \A c \in 0 .. Channels - 1 : Moving(a.ch[c]) /\ a.ch[c].left >= 0

\* What an operation leaves alone.
FifoSame(a, b)  == /\ b.slot = a.slot /\ b.head = a.head /\ b.tail = a.tail
                   /\ b.fill = a.fill /\ b.waiting = a.waiting
ClockSame(a, b) == b.acc = a.acc /\ b.elapsed = a.elapsed /\ b.since = a.since
RingSame(a, b)  == /\ b.ring = a.ring /\ b.produced = a.produced /\ b.played = a.played
                   /\ b.stream_start = a.stream_start /\ b.stream_id = a.stream_id
                   /\ b.rate = a.rate /\ b.resets = a.resets
DmaSame(a, b)   == b.ch = a.ch /\ b.dma_line = a.dma_line
TxSame(a, b)    == b.irqtx = a.irqtx /\ b.txen = a.txen

\* Streams are numbered, and a reset is always another stream.
Onward(a, b) ==
  /\ b.stream_id >= a.stream_id
  /\ b.stream_id = a.stream_id => b.resets = a.resets

\* The same ring is the same stream.
LEMMA RingOnward ==
  ASSUME NEW a \in Devices, NEW b, RingSame(a, b) PROVE Onward(a, b)
<1>1. a.stream_id \in Nat  BY DEF Devices
<1> QED  BY <1>1 DEF RingSame, Onward

\* The constants are numbers, and an empty FIFO has room.
LEMMA Sizes ==
  /\ Depth \in Nat /\ Depth > 0 /\ Ring \in Nat /\ Ring > 0 /\ Unit \in Nat /\ Unit > 0
  /\ Chunk \in Nat /\ Chunk < Ring /\ RamWords \in Nat /\ Channels \in Nat /\ MaxWords \in Nat
  /\ Depth % 2 = 0 /\ Ring % 2 = 0 /\ Chunk % 2 = 0
  /\ NoRate \notin Rates /\ Rates \subseteq Nat /\ Default \in Rates
  /\ \A r \in Rates : Step[r] \in Nat
<1>1. \A n \in {Depth, Ring, Chunk} : n \in Nat \ {0} /\ n % 2 = 0  BY AudioAssumption
<1>2. /\ Depth \in Nat \ {0} /\ Ring \in Nat \ {0} /\ Chunk \in Nat \ {0}
      /\ Depth % 2 = 0 /\ Ring % 2 = 0 /\ Chunk % 2 = 0
  BY <1>1
<1>3. RamWords \in Nat /\ Channels \in Nat /\ MaxWords \in Nat  BY AudioAssumption
<1>4. NoRate \notin Rates /\ Rates \subseteq Nat /\ Default \in Rates
  BY AudioAssumption DEF NoRate
<1>5. \A r \in Rates : Step[r] \in Nat  BY AudioAssumption
<1>6. Unit \in Nat /\ Unit > 0 /\ Chunk < Ring  BY AudioAssumption
<1> QED  BY <1>2, <1>3, <1>4, <1>5, <1>6

\* The ranges of the device's numbers have their first elements.
LEMMA Zeros ==
  0 \in 0 .. Depth - 1 /\ 0 \in 0 .. Depth /\ 0 \in 0 .. Unit - 1
  BY Sizes

\* A queue that is left alone stays one.
LEMMA FifoFrame ==
  ASSUME NEW a, NEW b, Fifo(a), FifoSame(a, b) PROVE Fifo(b)
  BY DEF Fifo, FifoSame

\* The same for what was played.
LEMMA HistoryFrame ==
  ASSUME NEW a, NEW b, History(a), RingSame(a, b) PROVE History(b)
  BY DEF History, RingSame

\* The line that tells of room follows the rest.
LEMMA UpdateTxKeeps ==
  ASSUME NEW a \in Devices
  PROVE  LET b == UpdateTx(a)
         IN  /\ b \in Devices /\ TxLine(b)
             /\ FifoSame(a, b) /\ ClockSame(a, b) /\ RingSame(a, b) /\ DmaSame(a, b)
             /\ TxSame(a, b) /\ b.codec = a.codec /\ b.audible = a.audible
<1> DEFINE on == a.irqtx /\ a.txen /\ Free(a) >= 2
           b == [a EXCEPT !.tx_line = on]
<1>1. on \in BOOLEAN  BY DEF Devices
<1>2. on <=> a.irqtx /\ a.txen /\ a.fill + 2 <= Depth
  <2>1. a.fill \in 0 .. Depth /\ a.irqtx \in BOOLEAN /\ a.txen \in BOOLEAN  BY DEF Devices
  <2>2. Depth \in Nat  BY Sizes
  <2>3. Free(a) >= 2 <=> a.fill + 2 <= Depth  BY <2>1, <2>2 DEF Free
  <2> QED  BY <2>1, <2>3
<1> HIDE DEF on
<1>3. /\ b \in Devices /\ b.tx_line = on
      /\ FifoSame(a, b) /\ ClockSame(a, b) /\ RingSame(a, b) /\ DmaSame(a, b)
      /\ TxSame(a, b) /\ b.codec = a.codec /\ b.audible = a.audible
  BY <1>1 DEF Devices, FifoSame, ClockSame, RingSame, DmaSame, TxSame
<1>4. UpdateTx(a) = b  BY DEF UpdateTx, on
<1> HIDE DEF b
<1> QED  BY <1>2, <1>3, <1>4 DEF TxLine, TxSame, FifoSame

\* The indices of a FIFO.
LEMMA TailApart ==
  ASSUME NEW h \in 0 .. Depth - 1, NEW n \in 0 .. Depth - 1, NEW i \in 1 .. n
  PROVE  /\ (h + i - 1) % Depth \in 0 .. Depth - 1
         /\ (h + i - 1) % Depth # (h + n) % Depth
         /\ (((h + n) % Depth) + 1) % Depth = (h + (n + 1)) % Depth
<1>1. (h + i - 1) % Depth = IF h + (i - 1) < Depth THEN h + (i - 1) ELSE h + (i - 1) - Depth
  <2>1. i - 1 \in 0 .. Depth /\ h + i - 1 = h + (i - 1)  BY Sizes
  <2> QED  BY <2>1, Sizes, Wraps
<1>2. (h + n) % Depth = IF h + n < Depth THEN h + n ELSE h + n - Depth
  BY Sizes, Wraps
<1>3. (h + (n + 1)) % Depth = IF h + (n + 1) < Depth THEN h + (n + 1) ELSE h + (n + 1) - Depth
  <2>1. n + 1 \in 0 .. Depth  BY Sizes
  <2> QED  BY <2>1, Sizes, Wraps
<1> DEFINE t == (h + n) % Depth
<1>4. t \in 0 .. Depth - 1  BY <1>2, Sizes
<1>5. (t + 1) % Depth = IF t + 1 < Depth THEN t + 1 ELSE t + 1 - Depth
  <2> HIDE DEF t
  <2> QED  BY <1>4, Sizes, Wraps
<1> QED  BY <1>1, <1>2, <1>3, <1>4, <1>5, Sizes

\* The same for an empty FIFO, which TailApart does not cover.
LEMMA TailNext ==
  ASSUME NEW h \in 0 .. Depth - 1, NEW n \in 0 .. Depth - 1
  PROVE  /\ (h + n) % Depth \in 0 .. Depth - 1
         /\ (((h + n) % Depth) + 1) % Depth = (h + (n + 1)) % Depth
         /\ (((h + n) % Depth) + 1) % Depth \in 0 .. Depth - 1
<1>1. (h + n) % Depth = IF h + n < Depth THEN h + n ELSE h + n - Depth
  BY Sizes, Wraps
<1>2. (h + (n + 1)) % Depth = IF h + (n + 1) < Depth THEN h + (n + 1) ELSE h + (n + 1) - Depth
  <2>1. n + 1 \in 0 .. Depth  BY Sizes
  <2> QED  BY <2>1, Sizes, Wraps
<1> DEFINE t == (h + n) % Depth
<1>3. t \in 0 .. Depth - 1  BY <1>1, Sizes
<1>4. (t + 1) % Depth = IF t + 1 < Depth THEN t + 1 ELSE t + 1 - Depth
  <2> HIDE DEF t
  <2> QED  BY <1>3, Sizes, Wraps
<1> QED  BY <1>1, <1>2, <1>3, <1>4, Sizes

\* A sample pushed is the last of the queue, or is lost when the FIFO is full.
LEMMA PushTxKeeps ==
  ASSUME NEW a \in Devices, Fifo(a), NEW sample \in Nat
  PROVE  LET b == PushTx(a, sample)
         IN  /\ b \in Devices /\ Fifo(b)
             /\ ClockSame(a, b) /\ RingSame(a, b) /\ DmaSame(a, b)
             /\ TxSame(a, b) /\ b.codec = a.codec /\ b.audible = a.audible
<1> DEFINE b == [a EXCEPT !.slot[a.tail] = sample, !.tail = (@ + 1) % Depth, !.fill = @ + 1,
                          !.waiting = Append(@, sample)]
<1>1. CASE a.fill = Depth
  <2>1. PushTx(a, sample) = a  BY <1>1 DEF PushTx
  <2> QED  BY <2>1 DEF ClockSame, RingSame, DmaSame, TxSame
<1>2. CASE a.fill # Depth
  <2>1. PushTx(a, sample) = b  BY <1>2 DEF PushTx
  <2>2. /\ a.head \in 0 .. Depth - 1 /\ a.fill \in 0 .. Depth - 1 /\ a.tail \in 0 .. Depth - 1
        /\ a.waiting \in Seq(Nat) /\ a.slot \in [0 .. Depth - 1 -> Nat]
    <3>1. /\ a.head \in 0 .. Depth - 1 /\ a.fill \in 0 .. Depth /\ a.tail \in 0 .. Depth - 1
          /\ a.waiting \in Seq(Nat) /\ a.slot \in [0 .. Depth - 1 -> Nat]
      BY DEF Devices
    <3>2. a.fill \in 0 .. Depth - 1  BY <1>2, <3>1, Sizes
    <3> QED  BY <3>1, <3>2
  <2>3. /\ (a.tail + 1) % Depth \in 0 .. Depth - 1
        /\ (a.tail + 1) % Depth = (a.head + (a.fill + 1)) % Depth
    <3>1. a.tail = (a.head + a.fill) % Depth  BY DEF Fifo
    <3> DEFINE h == a.head
               n == a.fill
    <3>2. h \in 0 .. Depth - 1 /\ n \in 0 .. Depth - 1  BY <2>2
    <3> HIDE DEF h, n
    <3>3. /\ (((h + n) % Depth) + 1) % Depth = (h + (n + 1)) % Depth
          /\ (((h + n) % Depth) + 1) % Depth \in 0 .. Depth - 1
      BY <3>2, TailNext
    <3>4. a.tail = (h + n) % Depth  BY <3>1 DEF h, n
    <3> QED  BY <3>3, <3>4 DEF h, n
  <2>4. /\ Append(a.waiting, sample) \in Seq(Nat)
        /\ Len(Append(a.waiting, sample)) = Len(a.waiting) + 1
        /\ Append(a.waiting, sample)[Len(a.waiting) + 1] = sample
        /\ \A i \in 1 .. Len(a.waiting) : Append(a.waiting, sample)[i] = a.waiting[i]
    BY <2>2, AppendProperties
  <2>5. /\ b \in Devices
        /\ b.slot = [a.slot EXCEPT ![a.tail] = sample] /\ b.head = a.head
        /\ b.tail = (a.tail + 1) % Depth /\ b.fill = a.fill + 1
        /\ b.waiting = Append(a.waiting, sample)
        /\ ClockSame(a, b) /\ RingSame(a, b) /\ DmaSame(a, b)
        /\ TxSame(a, b) /\ b.codec = a.codec /\ b.audible = a.audible
    <3> DEFINE slots == [a.slot EXCEPT ![a.tail] = sample]
               tail == (a.tail + 1) % Depth
               fill == a.fill + 1
               waiting == Append(a.waiting, sample)
               c == [a EXCEPT !.slot = slots, !.tail = tail, !.fill = fill, !.waiting = waiting]
    <3>1. slots \in [0 .. Depth - 1 -> Nat]  BY <2>2
    <3>2. tail \in 0 .. Depth - 1 /\ waiting \in Seq(Nat)  BY <2>3, <2>4
    <3>3. fill \in 0 .. Depth  BY <2>2, Sizes
    <3>4. b = c  BY DEF Devices
    <3> HIDE DEF b, slots, tail, fill, waiting
    <3>5. /\ c \in Devices /\ c.slot = slots /\ c.head = a.head
          /\ c.tail = tail /\ c.fill = fill /\ c.waiting = waiting
      BY <3>1, <3>2, <3>3 DEF Devices
    <3>6. /\ ClockSame(a, c) /\ RingSame(a, c) /\ DmaSame(a, c)
          /\ TxSame(a, c) /\ c.codec = a.codec /\ c.audible = a.audible
      BY DEF Devices, ClockSame, RingSame, DmaSame, TxSame
    <3> QED  BY <3>4, <3>5, <3>6 DEF slots, tail, fill, waiting
  <2> HIDE DEF b
  <2>6. b.fill = Len(b.waiting)  BY <2>4, <2>5 DEF Fifo
  <2>7. b.tail = (b.head + b.fill) % Depth  BY <2>3, <2>5
  <2>8. ASSUME NEW i \in 1 .. b.fill
        PROVE  b.slot[(b.head + i - 1) % Depth] = b.waiting[i]
    <3>1. CASE i = a.fill + 1
      <4>1. b.head + i - 1 = a.head + a.fill  BY <2>2, <2>5, <3>1
      <4>2. (b.head + i - 1) % Depth = a.tail  BY <4>1 DEF Fifo
      <4> QED  BY <2>2, <2>4, <2>5, <3>1, <4>2 DEF Fifo
    <3>2. CASE i # a.fill + 1
      <4>1. i \in 1 .. a.fill  BY <2>2, <2>5, <3>2
      <4>2. /\ (a.head + i - 1) % Depth \in 0 .. Depth - 1
            /\ (a.head + i - 1) % Depth # a.tail
        BY <2>2, <4>1, TailApart DEF Fifo
      <4>3. a.slot[(a.head + i - 1) % Depth] = a.waiting[i]  BY <4>1 DEF Fifo
      <4> QED  BY <2>2, <2>4, <2>5, <4>1, <4>2, <4>3 DEF Fifo
    <3> QED  BY <3>1, <3>2
  <2> QED  BY <2>1, <2>5, <2>6, <2>7, <2>8 DEF Fifo
<1> QED  BY <1>1, <1>2

\* Nothing waits in a FIFO that was cleared.
LEMMA ClearFifoKeeps ==
  ASSUME NEW a \in Devices
  PROVE  LET b == ClearFifo(a)
         IN  /\ b \in Devices /\ Fifo(b) /\ b.fill = 0
             /\ ClockSame(a, b) /\ RingSame(a, b) /\ DmaSame(a, b)
             /\ TxSame(a, b) /\ b.codec = a.codec /\ b.audible = a.audible
<1> DEFINE b == ClearFifo(a)
<1>1. /\ b \in Devices /\ b.fill = 0 /\ b.head = 0 /\ b.tail = 0 /\ b.waiting = <<>>
      /\ ClockSame(a, b) /\ RingSame(a, b) /\ DmaSame(a, b)
      /\ TxSame(a, b) /\ b.codec = a.codec /\ b.audible = a.audible
  <2>1. <<>> \in Seq(Nat)  OBVIOUS
  <2> DEFINE c == [a EXCEPT !.fill = 0, !.head = 0, !.tail = 0, !.waiting = <<>>]
  <2>2. c \in Devices /\ c.fill = 0 /\ c.head = 0 /\ c.tail = 0 /\ c.waiting = <<>>
    BY <2>1, Zeros DEF Devices
  <2>3. /\ ClockSame(a, c) /\ RingSame(a, c) /\ DmaSame(a, c)
        /\ TxSame(a, c) /\ c.codec = a.codec /\ c.audible = a.audible
    BY DEF Devices, ClockSame, RingSame, DmaSame, TxSame
  <2>4. b = c  BY DEF ClearFifo
  <2> HIDE DEF b, c
  <2> QED  BY <2>2, <2>3, <2>4
<1> HIDE DEF b
<1>2. Len(<<>>) = 0  OBVIOUS
<1>3. (0 + 0) % Depth = 0  BY Sizes, Wraps
<1>4. Fifo(b)  BY <1>1, <1>2, <1>3 DEF Fifo
<1> QED  BY <1>1, <1>4 DEF b

\* The clock starts anew.
LEMMA StopClockKeeps ==
  ASSUME NEW a \in Devices
  PROVE  LET b == StopClock(a)
         IN  /\ b \in Devices /\ Clock(b)
             /\ b.acc = 0 /\ b.elapsed = 0 /\ b.since = 0
             /\ FifoSame(a, b) /\ RingSame(a, b) /\ DmaSame(a, b)
             /\ TxSame(a, b) /\ b.codec = a.codec /\ b.audible = a.audible
             /\ b.tx_line = a.tx_line
<1> DEFINE b == StopClock(a)
<1>1. /\ b \in Devices /\ b.acc = 0 /\ b.elapsed = 0 /\ b.since = 0
      /\ FifoSame(a, b) /\ RingSame(a, b) /\ DmaSame(a, b)
      /\ TxSame(a, b) /\ b.codec = a.codec /\ b.audible = a.audible
      /\ b.tx_line = a.tx_line
  BY Zeros DEF StopClock, Devices, FifoSame, RingSame, DmaSame, TxSame
<1> HIDE DEF b
<1>2. Clock(b)  BY <1>1, Sizes DEF Clock
<1> QED  BY <1>1, <1>2 DEF b

-----------------------------------------------------------------------------
(***************************************************************************)
(* Playing.                                                                *)
(***************************************************************************)

\* The head moves on round the FIFO.
LEMMA HeadNext ==
  ASSUME NEW h \in 0 .. Depth - 1, NEW i \in 0 .. Depth - 1
  PROVE  /\ (h + 1) % Depth \in 0 .. Depth - 1
         /\ (((h + 1) % Depth) + i) % Depth = (h + (i + 1)) % Depth
<1>1. Depth \in Nat /\ Depth > 0  BY Sizes
<1>2. (h + 1) % Depth = IF h + 1 < Depth THEN h + 1 ELSE h + 1 - Depth
  BY <1>1, Wraps
<1> DEFINE t == (h + 1) % Depth
<1>3. t \in 0 .. Depth - 1  BY <1>1, <1>2
<1>4. (h + (i + 1)) % Depth = IF h + (i + 1) < Depth THEN h + (i + 1) ELSE h + (i + 1) - Depth
  <2>1. i + 1 \in 0 .. Depth  BY <1>1
  <2> QED  BY <1>1, <2>1, Wraps
<1>5. (t + i) % Depth = IF t + i < Depth THEN t + i ELSE t + i - Depth
  <2> HIDE DEF t
  <2> QED  BY <1>1, <1>3, Wraps
<1> QED  BY <1>1, <1>2, <1>3, <1>4, <1>5

\* What a sample played leaves as it was.
PlaySame(a, b) ==
  /\ b.acc = a.acc /\ b.elapsed = a.elapsed
  /\ b.stream_start = a.stream_start /\ b.stream_id = a.stream_id /\ b.resets = a.resets
  /\ b.rate = a.rate /\ b.codec = a.codec
  /\ DmaSame(a, b) /\ TxSame(a, b)

\* A sample played is the first of the queue, or silence, and the ring's last.
LEMMA PlaySampleKeeps ==
  ASSUME NEW a \in Devices, Fifo(a), History(a), a.rate = a.codec
  PROVE  LET b == PlaySample(a)
         IN  /\ b \in Devices /\ Fifo(b) /\ History(b)
             /\ b.since = a.since + 1 /\ PlaySame(a, b)
<1> DEFINE sample == IF a.fill > 0 /\ a.audible THEN a.slot[a.head] ELSE Silence
           due    == IF a.waiting # <<>> /\ a.audible THEN Head(a.waiting) ELSE Silence
           head   == IF a.fill = 0 THEN a.head ELSE (a.head + 1) % Depth
           fill   == IF a.fill = 0 THEN a.fill ELSE a.fill - 1
           ring   == [a.ring EXCEPT ![a.produced % Ring] = sample]
           waiting == IF a.waiting = <<>> THEN <<>> ELSE Tail(a.waiting)
           entry  == [sample |-> due, rate |-> a.codec]
           played == Append(a.played, entry)
           b == [a EXCEPT !.head = head, !.fill = fill, !.ring = ring, !.produced = @ + 1,
                          !.waiting = waiting, !.played = played, !.since = @ + 1]
<1>1. PlaySample(a) = b
  <2> DEFINE taken == IF a.fill = 0 THEN a
                      ELSE [a EXCEPT !.head = (a.head + 1) % Depth, !.fill = a.fill - 1]
             end(t, r, w, p) ==
               [t EXCEPT !.ring = r, !.produced = a.produced + 1, !.waiting = w,
                         !.played = p, !.since = a.since + 1]
  <2>1. /\ taken.ring = a.ring /\ taken.produced = a.produced /\ taken.waiting = a.waiting
        /\ taken.played = a.played /\ taken.since = a.since
    BY DEF Devices
  <2>2. PlaySample(a) = end(taken, ring, waiting, played)
    <3>1. PlaySample(a) =
            [taken EXCEPT !.ring[a.produced % Ring] = sample, !.produced = @ + 1,
                          !.waiting = IF @ = <<>> THEN <<>> ELSE Tail(@),
                          !.played = Append(@, entry), !.since = @ + 1]
      BY DEF PlaySample
    <3> HIDE DEF taken, sample, entry
    <3> QED  BY <2>1, <3>1
  <2>3. taken = [a EXCEPT !.head = head, !.fill = fill]  BY DEF Devices
  <2> HIDE DEF taken, sample, due, head, fill, ring, waiting, entry, played
  <2> QED  BY <2>2, <2>3
<1>2. /\ a.head \in 0 .. Depth - 1 /\ a.fill \in 0 .. Depth /\ a.produced \in Nat
      /\ a.waiting \in Seq(Nat) /\ a.slot \in [0 .. Depth - 1 -> Nat]
      /\ a.ring \in [0 .. Ring - 1 -> Nat] /\ a.played \in Seq(Played) /\ a.codec \in Rates
      /\ a.since \in Nat /\ a.stream_start \in Nat
  BY DEF Devices
<1>3. Depth \in Nat /\ Depth > 0 /\ Ring \in Nat /\ Ring > 0  BY Sizes
<1>4. a.fill = Len(a.waiting) /\ (a.fill = 0 <=> a.waiting = <<>>)
  <2>1. a.fill = Len(a.waiting)  BY DEF Fifo
  <2>2. Len(a.waiting) = 0 <=> a.waiting = <<>>  BY <1>2, EmptySeq
  <2> QED  BY <2>1, <2>2
<1>5. ASSUME a.fill # 0
      PROVE  /\ Head(a.waiting) \in Nat /\ Head(a.waiting) = a.slot[a.head]
             /\ Tail(a.waiting) \in Seq(Nat) /\ Len(Tail(a.waiting)) = a.fill - 1
             /\ \A i \in 1 .. a.fill - 1 : Tail(a.waiting)[i] = a.waiting[i + 1]
  <2>1. a.waiting # <<>>  BY <1>4, <1>5
  <2>2. /\ Head(a.waiting) \in Nat /\ Head(a.waiting) = a.waiting[1]
        /\ Tail(a.waiting) \in Seq(Nat) /\ Len(Tail(a.waiting)) = Len(a.waiting) - 1
        /\ \A i \in 1 .. Len(Tail(a.waiting)) : Tail(a.waiting)[i] = a.waiting[i + 1]
    BY <1>2, <2>1, HeadTailProperties
  <2>3. 1 \in 1 .. a.fill  BY <1>2, <1>3, <1>5
  <2>4. a.slot[(a.head + 1 - 1) % Depth] = a.waiting[1]  BY <2>3 DEF Fifo
  <2>5. (a.head + 1 - 1) % Depth = a.head
    <3> DEFINE h == a.head
    <3>0. h \in 0 .. Depth - 1  BY <1>2
    <3> HIDE DEF h
    <3>1. (h + 0) % Depth = h  BY <1>3, <3>0, Zeros, Wraps
    <3>2. a.head + 1 - 1 = a.head + 0  BY <1>2
    <3> QED  BY <3>1, <3>2 DEF h
  <2> QED  BY <1>4, <2>2, <2>4, <2>5
<1>6. sample = due /\ sample \in Nat  BY <1>2, <1>4, <1>5 DEF Silence
<1>7. head \in 0 .. Depth - 1 /\ fill \in 0 .. Depth
  <2>1. (a.head + 1) % Depth \in 0 .. Depth - 1  BY <1>2, HeadNext, Zeros
  <2>2. a.head \in 0 .. Depth - 1 /\ a.fill \in 0 .. Depth  BY <1>2
  <2>3. fill \in 0 .. Depth  BY <1>3, <2>2
  <2> QED  BY <2>1, <2>2, <2>3
<1>8. waiting \in Seq(Nat) /\ entry \in Played
  <2>1. <<>> \in Seq(Nat)  OBVIOUS
  <2>2. waiting \in Seq(Nat)  BY <1>4, <1>5, <2>1
  <2>3. entry \in Played  BY <1>2, <1>6 DEF Played
  <2> QED  BY <2>2, <2>3
<1>9. /\ played \in Seq(Played) /\ Len(played) = Len(a.played) + 1
      /\ played[Len(a.played) + 1] = entry
      /\ \A i \in 1 .. Len(a.played) : played[i] = a.played[i]
  <2> HIDE DEF entry
  <2> QED  BY <1>2, <1>8, AppendProperties
<1>10. a.produced % Ring \in 0 .. Ring - 1  BY <1>2, <1>3, DivMod
<1>11. ring \in [0 .. Ring - 1 -> Nat]  BY <1>2, <1>6, <1>10
<1> HIDE DEF sample, due, head, fill, ring, waiting, played
<1>12. /\ b \in Devices
       /\ b.head = head /\ b.fill = fill /\ b.ring = ring /\ b.produced = a.produced + 1
       /\ b.waiting = waiting /\ b.played = played /\ b.since = a.since + 1
       /\ b.slot = a.slot /\ b.tail = a.tail
  <2>1. a.produced + 1 \in Nat /\ a.since + 1 \in Nat  BY <1>2
  <2> DEFINE n == a.produced + 1
             t == a.since + 1
             c == [a EXCEPT !.head = head, !.fill = fill, !.ring = ring, !.produced = n,
                            !.waiting = waiting, !.played = played, !.since = t]
  <2>2. b = c  BY DEF Devices
  <2> HIDE DEF b, n, t
  <2>3. /\ c \in Devices
        /\ c.head = head /\ c.fill = fill /\ c.ring = ring /\ c.produced = n
        /\ c.waiting = waiting /\ c.played = played /\ c.since = t
        /\ c.slot = a.slot /\ c.tail = a.tail
    BY <1>7, <1>8, <1>9, <1>11, <2>1 DEF Devices, n, t
  <2> QED  BY <2>2, <2>3 DEF n, t
<1>13. PlaySame(a, b)  BY DEF Devices, PlaySame, DmaSame, TxSame
<1> HIDE DEF b
<1>14. Fifo(b)
  <2>1. CASE a.fill = 0
    <3>1. fill = 0 /\ head = a.head /\ waiting = <<>> /\ Len(<<>>) = 0
      BY <1>4, <2>1 DEF fill, head, waiting
    <3>2. a.tail = (a.head + 0) % Depth  BY <2>1 DEF Fifo
    <3> QED  BY <1>12, <3>1, <3>2 DEF Fifo
  <2>2. CASE a.fill # 0
    <3>1. fill = a.fill - 1 /\ head = (a.head + 1) % Depth /\ waiting = Tail(a.waiting)
      BY <1>4, <2>2 DEF fill, head, waiting
    <3>2. fill = Len(waiting)  BY <1>5, <2>2, <3>1
    <3>3. fill \in 0 .. Depth - 1 /\ fill + 1 = a.fill
      <4>1. a.fill \in 0 .. Depth  BY <1>2
      <4> QED  BY <1>3, <2>2, <3>1, <4>1
    <3>4. a.tail = (head + fill) % Depth
      <4>1. (((a.head + 1) % Depth) + fill) % Depth = (a.head + (fill + 1)) % Depth
        BY <1>2, <3>3, HeadNext
      <4> QED  BY <3>1, <3>3, <4>1 DEF Fifo
    <3>5. ASSUME NEW i \in 1 .. fill
          PROVE  a.slot[(head + i - 1) % Depth] = waiting[i]
      <4>1. i - 1 \in 0 .. Depth - 1 /\ i + 1 \in 1 .. a.fill /\ i \in 1 .. a.fill - 1
        BY <1>3, <3>3
      <4>2. (((a.head + 1) % Depth) + (i - 1)) % Depth = (a.head + ((i - 1) + 1)) % Depth
        BY <1>2, <4>1, HeadNext
      <4>3. a.head + ((i - 1) + 1) = a.head + (i + 1) - 1  BY <1>2
      <4>4. head + (i - 1) = head + i - 1  BY <1>7
      <4>5. (head + i - 1) % Depth = (a.head + (i + 1) - 1) % Depth
        BY <3>1, <4>2, <4>3, <4>4
      <4>6. a.slot[(a.head + (i + 1) - 1) % Depth] = a.waiting[i + 1]  BY <4>1 DEF Fifo
      <4>7. waiting[i] = a.waiting[i + 1]  BY <1>5, <2>2, <3>1, <4>1
      <4> QED  BY <4>5, <4>6, <4>7
    <3> QED  BY <1>12, <3>2, <3>4, <3>5 DEF Fifo
  <2> QED  BY <2>1, <2>2
<1>15. History(b)
  <2>1. Len(a.played) = a.produced  BY DEF History
  <2>2. Len(b.played) = b.produced  BY <1>9, <1>12, <2>1
  <2>3. ASSUME NEW p \in 0 .. b.produced - 1
        PROVE  /\ p >= b.produced - Ring => b.ring[p % Ring] = b.played[p + 1].sample
               /\ p >= b.stream_start => b.played[p + 1].rate = b.rate
    <3>1. CASE p = a.produced
      <4>1. b.played[p + 1] = entry  BY <1>9, <1>12, <2>1, <3>1
      <4>2. b.ring[p % Ring] = sample  BY <1>2, <1>10, <1>12, <3>1 DEF ring
      <4>3. entry.rate = b.rate  BY <1>13 DEF PlaySame, entry
      <4>4. entry.sample = sample  BY <1>6 DEF entry
      <4> QED  BY <4>1, <4>2, <4>3, <4>4
    <3>2. CASE p # a.produced
      <4>1. p \in 0 .. a.produced - 1 /\ p + 1 \in 1 .. Len(a.played) /\ p \in Nat
            /\ b.produced = a.produced + 1
        BY <1>2, <1>12, <2>1, <3>2
      <4>2. b.played[p + 1] = a.played[p + 1]  BY <1>9, <1>12, <4>1
      <4>3. p >= a.stream_start => a.played[p + 1].rate = a.rate  BY <4>1 DEF History
      <4>4. ASSUME p >= b.produced - Ring
            PROVE  b.ring[p % Ring] = a.played[p + 1].sample
        <5>1. p < a.produced /\ a.produced < p + Ring /\ p >= a.produced - Ring
          <6>1. a.produced \in Nat  BY <1>2
          <6> QED  BY <1>3, <4>1, <4>4, <6>1
        <5>2. p % Ring # a.produced % Ring  BY <1>2, <1>3, <4>1, <5>1, Apart
        <5>3. p % Ring \in 0 .. Ring - 1  BY <1>3, <4>1, DivMod
        <5>4. b.ring[p % Ring] = a.ring[p % Ring]  BY <1>2, <1>12, <5>2, <5>3 DEF ring
        <5> QED  BY <4>1, <5>1, <5>4 DEF History
      <4> QED  BY <1>13, <4>2, <4>3, <4>4 DEF PlaySame
    <3> QED  BY <3>1, <3>2
  <2>4. b.rate # NoRate  BY <1>2, <1>13, Sizes DEF PlaySame
  <2> QED  BY <2>2, <2>3, <2>4 DEF History
<1> QED  BY <1>1, <1>12, <1>13, <1>14, <1>15

\* Whatever a tick's time is worth is played, sample by sample.
LEMMA PlaySamplesKeeps ==
  ASSUME NEW a \in Devices, Fifo(a), History(a), a.rate = a.codec, NEW n \in Nat
  PROVE  LET b == PlaySamples(a, n)
         IN  /\ b \in Devices /\ Fifo(b) /\ History(b)
             /\ b.since = a.since + n /\ PlaySame(a, b)
<1> DEFINE S == {b \in Devices : Fifo(b) /\ History(b) /\ b.rate = b.codec}
           f == CHOOSE g : g = [i \in 0 .. n |-> IF i = 0 THEN a ELSE PlaySample(g[i - 1])]
<1>1. PlaySamples(a, n) = f[n]  BY DEF PlaySamples
<1>2. ASSUME NEW b \in S
      PROVE  PlaySample(b) \in S /\ PlaySample(b).since = b.since + 1 /\ PlaySame(b, PlaySample(b))
  BY PlaySampleKeeps DEF PlaySame
<1>3. a \in S  OBVIOUS
<1> HIDE DEF S
<1>4. f = [i \in 0 .. n |-> IF i = 0 THEN a ELSE PlaySample(f[i - 1])]
  <2> DEFINE G == [ib \in (1 .. n) \X S |-> PlaySample(ib[2])]
  <2>1. StepsOn(S, n, G)  BY <1>2 DEF StepsOn
  <2>2. \A i \in 1 .. n, b \in S : G[<<i, b>>] = PlaySample(b)  OBVIOUS
  <2> HIDE DEF G
  <2>3. PICK g \in [0 .. n -> S] : g[0] = a /\ \A i \in 1 .. n : g[i] = G[<<i, g[i - 1]>>]
    <3>1. HasRun(S, a, n, G)  BY <1>3, <2>1, Iteration
    <3> QED  BY <3>1 DEF HasRun
  <2>4. ASSUME NEW i \in 1 .. n PROVE g[i] = PlaySample(g[i - 1])
    <3>1. i - 1 \in 0 .. n  OBVIOUS
    <3> QED  BY <2>2, <2>3, <3>1
  <2>5. g = [i \in 0 .. n |-> IF i = 0 THEN a ELSE PlaySample(g[i - 1])]  BY <2>3, <2>4
  <2> QED  BY <2>5
<1> HIDE DEF f
<1> DEFINE P == {i \in 0 .. n : f[i] \in S /\ f[i].since = a.since + i /\ PlaySame(a, f[i])}
<1>5. 0 \in P
  <2>1. f[0] = a  BY <1>4
  <2>2. a.since = a.since + 0  BY DEF Devices
  <2>3. PlaySame(a, a)  BY DEF PlaySame, DmaSame, TxSame
  <2> QED  BY <1>3, <2>1, <2>2, <2>3
<1>6. ASSUME NEW i \in 1 .. n, i - 1 \in P PROVE i \in P
  <2>1. f[i] = PlaySample(f[i - 1])  BY <1>4
  <2>2. f[i] \in S /\ f[i].since = f[i - 1].since + 1 /\ PlaySame(f[i - 1], f[i])
    BY <1>2, <1>6, <2>1
  <2>3. a.since + (i - 1) + 1 = a.since + i  BY DEF Devices
  <2>4. PlaySame(a, f[i])  BY <1>6, <2>2 DEF PlaySame, DmaSame, TxSame
  <2> QED  BY <1>6, <2>2, <2>3, <2>4
<1> HIDE DEF P
<1>7. n \in P  BY <1>5, <1>6, UpTo
<1> QED  BY <1>1, <1>7 DEF P, S

\* Another rate starts a stream of its own, and the clock with it.
LEMMA SyncRateKeeps ==
  ASSUME NEW a \in Devices, Fifo(a), Clock(a), History(a)
  PROVE  LET b == SyncRate(a)
         IN  /\ b \in Devices /\ Fifo(b) /\ Clock(b) /\ History(b)
             /\ b.rate = b.codec /\ DmaSame(a, b) /\ TxSame(a, b) /\ Onward(a, b)
<1>1. a.codec \in Rates /\ a.produced \in Nat /\ a.stream_id \in Nat  BY DEF Devices
<1>2. CASE a.rate \in {NoRate, a.codec}
  <2> DEFINE b == [a EXCEPT !.rate = a.codec]
  <2>1. SyncRate(a) = b  BY <1>2 DEF SyncRate
  <2>2. /\ b \in Devices /\ b.rate = a.codec /\ b.codec = a.codec
        /\ FifoSame(a, b) /\ ClockSame(a, b) /\ DmaSame(a, b) /\ TxSame(a, b)
        /\ b.ring = a.ring /\ b.produced = a.produced /\ b.played = a.played
        /\ b.stream_start = a.stream_start
        /\ b.stream_id = a.stream_id /\ b.resets = a.resets
    BY <1>1 DEF Devices, FifoSame, ClockSame, DmaSame, TxSame
  <2> HIDE DEF b
  <2>3. Fifo(b) /\ Clock(b)  BY <2>2, FifoFrame DEF Clock, ClockSame
  <2>4. History(b)
    <3>1. CASE a.rate = NoRate
      <4>1. a.produced = 0 /\ 0 .. 0 - 1 = {}  BY <3>1 DEF History
      <4> QED  BY <1>1, <2>2, <4>1, Sizes DEF History
    <3>2. CASE a.rate = a.codec  BY <2>2, <3>2 DEF History
    <3> QED  BY <1>2, <3>1, <3>2
  <2>5. Onward(a, b)  BY <1>1, <2>2 DEF Onward
  <2> QED  BY <2>1, <2>2, <2>3, <2>4, <2>5
<1>3. CASE a.rate \notin {NoRate, a.codec}
  <2> DEFINE start == RoundUp(a.produced)
             id == a.stream_id + 1
             b == [a EXCEPT !.rate = a.codec, !.stream_start = start, !.stream_id = id]
  <2>1. SyncRate(a) = StopClock(b)  BY <1>3 DEF SyncRate, Devices
  <2>2. start \in Nat /\ start >= a.produced
    <3>1. a.produced % 2 \in 0 .. 1  BY <1>1, DivMod
    <3> QED  BY <1>1, <3>1 DEF RoundUp
  <2>3. id \in Nat  BY <1>1
  <2> HIDE DEF start, id
  <2>4. /\ b \in Devices /\ b.rate = a.codec /\ b.codec = a.codec
        /\ FifoSame(a, b) /\ DmaSame(a, b) /\ TxSame(a, b)
        /\ b.ring = a.ring /\ b.produced = a.produced /\ b.played = a.played
        /\ b.stream_start = start /\ b.stream_id = id
    BY <1>1, <2>2, <2>3 DEF Devices, FifoSame, DmaSame, TxSame
  <2> HIDE DEF b
  <2>5. History(b)
    <3>1. \A p \in 0 .. a.produced - 1 : ~(p >= start)  BY <1>1, <2>2
    <3>2. b.rate # NoRate  BY <1>1, <2>4, Sizes
    <3> QED  BY <2>4, <3>1, <3>2 DEF History
  <2> DEFINE c == StopClock(b)
  <2>6. /\ c \in Devices /\ Clock(c) /\ FifoSame(b, c) /\ RingSame(b, c) /\ DmaSame(b, c)
        /\ TxSame(b, c) /\ c.codec = b.codec
    BY <2>4, StopClockKeeps
  <2> HIDE DEF c
  <2>7. Fifo(c) /\ History(c)
    BY <2>4, <2>5, <2>6, FifoFrame, HistoryFrame
  <2>8. c.rate = c.codec /\ DmaSame(a, c) /\ TxSame(a, c)
    BY <2>4, <2>6 DEF RingSame, DmaSame, TxSame
  <2>9. Onward(a, c)
    <3>1. c.stream_id = a.stream_id + 1  BY <2>4, <2>6 DEF RingSame, id
    <3> QED  BY <1>1, <3>1 DEF Onward
  <2> QED  BY <2>1, <2>6, <2>7, <2>8, <2>9 DEF c
<1> QED  BY <1>2, <1>3

\* A tick of the transmitter plays what the time since the last one is worth.
LEMMA TickI2sKeeps ==
  ASSUME NEW a \in Devices, Fifo(a), Clock(a), History(a), TxLine(a)
  PROVE  LET b == TickI2s(a)
         IN  /\ b \in Devices /\ Fifo(b) /\ Clock(b) /\ History(b) /\ TxLine(b)
             /\ DmaSame(a, b) /\ Onward(a, b)
<1>1. CASE ~a.txen
  <2> DEFINE b == StopClock(a)
  <2>1. TickI2s(a) = b  BY <1>1 DEF TickI2s
  <2>2. /\ b \in Devices /\ Clock(b) /\ FifoSame(a, b) /\ RingSame(a, b) /\ DmaSame(a, b)
        /\ TxSame(a, b) /\ b.tx_line = a.tx_line
    BY StopClockKeeps
  <2> HIDE DEF b
  <2>3. Fifo(b) /\ History(b)  BY <2>2, FifoFrame, HistoryFrame
  <2>4. TxLine(b)  BY <2>2 DEF TxLine, TxSame, FifoSame
  <2>5. Onward(a, b)  BY <2>2, RingOnward
  <2> QED  BY <2>1, <2>2, <2>3, <2>4, <2>5
<1>2. CASE a.txen
  <2> DEFINE s == SyncRate(a)
             acc == s.acc + Step[s.rate]
             elapsed == s.elapsed + Step[s.rate]
             rest == acc % Unit
             due == acc \div Unit
             t == [s EXCEPT !.acc = rest, !.elapsed = elapsed]
             q == PlaySamples(t, due)
  <2>1. TickI2s(a) = UpdateTx(q)
    <3>1. [s EXCEPT !.acc = Keep(acc), !.elapsed = @ + Step[s.rate]] = t  BY DEF Keep
    <3> QED  BY <1>2, <3>1 DEF TickI2s
  <2>2. /\ s \in Devices /\ Fifo(s) /\ Clock(s) /\ History(s)
        /\ s.rate = s.codec /\ DmaSame(a, s) /\ Onward(a, s)
    BY SyncRateKeeps
  <2> HIDE DEF s
  <2>3. /\ s.acc \in 0 .. Unit - 1 /\ s.elapsed \in Nat /\ s.since \in Nat /\ s.codec \in Rates
    BY <2>2 DEF Devices
  <2>4. Step[s.rate] \in Nat  BY <2>2, <2>3, Sizes
  <2>5. acc \in Nat /\ elapsed \in Nat  BY <2>3, <2>4, Sizes
  <2>6. rest \in 0 .. Unit - 1 /\ due \in Nat /\ acc = Unit * due + rest
    <3> HIDE DEF acc
    <3> QED  BY <2>5, Sizes, DivMod
  <2>7. s.elapsed = Unit * s.since + s.acc  BY <2>2 DEF Clock
  <2>8. elapsed = Unit * (s.since + due) + rest
    <3>1. elapsed = Unit * s.since + acc  BY <2>3, <2>4, <2>7, Sizes
    <3>2. Unit * (s.since + due) = Unit * s.since + Unit * due  BY <2>3, <2>6, Sizes
    <3>3. Unit * s.since \in Nat /\ Unit * due \in Nat  BY <2>3, <2>6, Sizes
    <3> HIDE DEF elapsed, acc, rest, due
    <3> QED  BY <2>5, <2>6, <3>1, <3>2, <3>3
  <2> HIDE DEF elapsed, acc, rest, due
  <2>9. /\ t \in Devices /\ t.acc = rest /\ t.elapsed = elapsed /\ t.since = s.since
        /\ t.rate = s.rate /\ t.codec = s.codec
        /\ FifoSame(s, t) /\ RingSame(s, t) /\ DmaSame(s, t)
    BY <2>2, <2>5, <2>6 DEF Devices, FifoSame, RingSame, DmaSame
  <2> HIDE DEF t
  <2>10. Fifo(t) /\ History(t)  BY <2>2, <2>9, FifoFrame, HistoryFrame
  <2>11. /\ q \in Devices /\ Fifo(q) /\ History(q) /\ q.since = t.since + due /\ PlaySame(t, q)
    BY <2>2, <2>6, <2>9, <2>10, PlaySamplesKeeps
  <2> HIDE DEF q
  <2>12. Clock(q)  BY <2>8, <2>9, <2>11 DEF Clock, PlaySame
  <2>13. DmaSame(a, q)  BY <2>2, <2>9, <2>11 DEF PlaySame, DmaSame
  <2> DEFINE u == UpdateTx(q)
  <2>14. /\ u \in Devices /\ TxLine(u)
         /\ FifoSame(q, u) /\ ClockSame(q, u) /\ RingSame(q, u) /\ DmaSame(q, u)
    BY <2>11, UpdateTxKeeps
  <2> HIDE DEF u
  <2>15. Fifo(u) /\ History(u)  BY <2>11, <2>14, FifoFrame, HistoryFrame
  <2>16. Clock(u)  BY <2>12, <2>14 DEF Clock, ClockSame
  <2>17. DmaSame(a, u)  BY <2>13, <2>14 DEF DmaSame
  <2>18. Onward(a, u)
    <3>1. u.stream_id = s.stream_id /\ u.resets = s.resets
      BY <2>9, <2>11, <2>14 DEF RingSame, PlaySame
    <3> QED  BY <2>2, <3>1 DEF Onward
  <2> QED  BY <2>1, <2>14, <2>15, <2>16, <2>17, <2>18 DEF u
<1> QED  BY <1>1, <1>2

-----------------------------------------------------------------------------
(***************************************************************************)
(* Moving.                                                                 *)
(***************************************************************************)

\* A channel is written, and nothing else.
LEMMA EditKeeps ==
  ASSUME NEW a \in Devices, NEW c \in 0 .. Channels - 1, NEW k \in ChannelRecords
  PROVE  LET b == [a EXCEPT !.ch[c] = k]
         IN  /\ b \in Devices /\ b.ch = [a.ch EXCEPT ![c] = k]
             /\ b.ch[c] = k /\ \A d \in 0 .. Channels - 1 : d # c => b.ch[d] = a.ch[d]
             /\ b.dma_line = a.dma_line /\ b.tx_line = a.tx_line
             /\ FifoSame(a, b) /\ ClockSame(a, b) /\ RingSame(a, b) /\ TxSame(a, b)
<1> DEFINE ch == [a.ch EXCEPT ![c] = k]
           b == [a EXCEPT !.ch = ch]
<1>1. a.ch \in [0 .. Channels - 1 -> ChannelRecords]  BY DEF Devices
<1>2. /\ ch \in [0 .. Channels - 1 -> ChannelRecords] /\ ch[c] = k
      /\ \A d \in 0 .. Channels - 1 : d # c => ch[d] = a.ch[d]
  BY <1>1
<1>3. [a EXCEPT !.ch[c] = k] = b  BY DEF Devices
<1> HIDE DEF ch
<1>4. /\ b \in Devices /\ b.ch = ch
      /\ b.dma_line = a.dma_line /\ b.tx_line = a.tx_line
      /\ FifoSame(a, b) /\ ClockSame(a, b) /\ RingSame(a, b) /\ TxSame(a, b)
  BY <1>2 DEF Devices, FifoSame, ClockSame, RingSame, TxSame
<1> HIDE DEF b
<1> QED  BY <1>2, <1>3, <1>4 DEF ch

\* The line of the channels follows their interrupts.
LEMMA SyncDmaKeeps ==
  ASSUME NEW a \in Devices, NEW c
  PROVE  LET b == SyncDma(a, c)
         IN  /\ b \in Devices /\ DmaLine(b) /\ b.ch = a.ch /\ b.tx_line = a.tx_line
             /\ FifoSame(a, b) /\ ClockSame(a, b) /\ RingSame(a, b) /\ TxSame(a, b)
<1> DEFINE on == \E d \in 0 .. Channels - 1 : a.ch[d].intr
           b == [a EXCEPT !.dma_line = on]
<1>1. on \in BOOLEAN  OBVIOUS
<1>2. SyncDma(a, c) = b  BY DEF SyncDma
<1> HIDE DEF on
<1>3. /\ b \in Devices /\ b.dma_line = on /\ b.ch = a.ch /\ b.tx_line = a.tx_line
      /\ FifoSame(a, b) /\ ClockSame(a, b) /\ RingSame(a, b) /\ TxSame(a, b)
  BY <1>1 DEF Devices, FifoSame, ClockSame, RingSame, TxSame
<1> HIDE DEF b
<1> QED  BY <1>2, <1>3 DEF DmaLine, on

\* i words of a transfer have been moved since a.
Moved(a, b, c, i) ==
  /\ b \in Devices /\ Fifo(b) /\ TxLine(b)
  /\ ClockSame(a, b) /\ RingSame(a, b) /\ TxSame(a, b) /\ b.dma_line = a.dma_line
  /\ Moving(b.ch[c]) /\ b.ch[c].left = a.ch[c].left - i
  /\ b.ch[c].intr = a.ch[c].intr /\ b.ch[c].active = a.ch[c].active
  /\ b.ch[c].interrupts = a.ch[c].interrupts
  /\ \A d \in 0 .. Channels - 1 : d # c => b.ch[d] = a.ch[d]

\* One word: the address it came from is the next of the buffer.
LEMMA MoveWordKeeps ==
  ASSUME NEW a \in Devices, Fifo(a), NEW c \in 0 .. Channels - 1, Moving(a.ch[c])
  PROVE  Moved(a, MoveWord(a, c), c, 1)
<1> DEFINE k == a.ch[c]
           addr == k.addr + 1
           left == k.left - 1
           moved == Append(k.moved, k.addr)
           l == [k EXCEPT !.addr = addr, !.left = left, !.moved = moved]
           m == [a EXCEPT !.ch[c] = l]
           low == 2 * k.addr + 1
           high == 2 * k.addr + 2
           p == PushTx(m, low)
           q == PushTx(p, high)
           u == UpdateTx(q)
<1>1. MoveWord(a, c) = u
  <2>1. [a EXCEPT !.ch[c].addr = @ + 1, !.ch[c].left = @ - 1, !.ch[c].moved = Append(@, k.addr)] = m
    BY DEF Devices
  <2> HIDE DEF m
  <2> QED  BY <2>1 DEF MoveWord
<1>2. k \in ChannelRecords  BY DEF Devices
<1>3. k.addr \in Nat /\ k.base \in Nat /\ k.words \in Nat /\ k.left \in Int
  BY <1>2 DEF ChannelRecords
<1>3a. k.moved \in Seq(Nat)  BY <1>2 DEF ChannelRecords
<1>4. /\ k.left <= k.words /\ k.addr = k.base + (k.words - k.left)
      /\ k.moved = [i \in 1 .. k.words - k.left |-> k.base + i - 1] /\ k.owed = k.intr
  BY DEF Moving
<1>4a. MoveWord(a, c) = u /\ a.ch[c] = k  BY <1>1
<1> HIDE DEF k, u, q, p, m, l
<1>5. addr \in Nat /\ left \in Int /\ low \in Nat /\ high \in Nat  BY <1>3
<1>6. moved \in Seq(Nat) /\ moved = [i \in 1 .. k.words - left |-> k.base + i - 1]
  <2> DEFINE n == k.words - k.left
  <2>1. n \in Nat  BY <1>3, <1>4
  <2>2. k.words - left = n + 1  BY <1>3
  <2>3. Len(k.moved) = n
    <3>1. Len([i \in 1 .. n |-> k.base + i - 1]) = n  BY <2>1
    <3> QED  BY <1>4, <3>1
  <2>4. /\ moved \in Seq(Nat) /\ Len(moved) = n + 1 /\ moved[n + 1] = k.addr
        /\ \A i \in 1 .. n : moved[i] = k.moved[i]
    BY <1>3, <1>3a, <2>3, AppendProperties
  <2>5. \A i \in 1 .. n : k.moved[i] = k.base + i - 1  BY <1>4
  <2>6. k.addr = k.base + (n + 1) - 1  BY <1>3, <1>4
  <2> HIDE DEF n, moved
  <2>7. ASSUME NEW i \in 1 .. n + 1 PROVE moved[i] = k.base + i - 1
    <3>1. CASE i = n + 1  BY <2>4, <2>6, <3>1
    <3>2. CASE i # n + 1
      <4>1. i \in 1 .. n  BY <2>1, <3>2
      <4> QED  BY <2>4, <2>5, <4>1
    <3> QED  BY <3>1, <3>2
  <2>8. DOMAIN moved = 1 .. n + 1 /\ moved = [i \in DOMAIN moved |-> moved[i]]
    BY <2>1, <2>4, LenProperties
  <2>9. moved = [i \in 1 .. n + 1 |-> k.base + i - 1]  BY <2>7, <2>8
  <2> QED  BY <2>2, <2>4, <2>9
<1> HIDE DEF moved, addr, left, low, high
<1>7. /\ l \in ChannelRecords
      /\ l.base = k.base /\ l.words = k.words /\ l.addr = addr /\ l.left = left
      /\ l.moved = moved /\ l.owed = k.owed /\ l.intr = k.intr /\ l.active = k.active
      /\ l.interrupts = k.interrupts
  BY <1>2, <1>5, <1>6 DEF ChannelRecords, l
<1>8. Moving(l)
  <2>1. left <= k.words /\ addr = k.base + (k.words - left)  BY <1>3, <1>4 DEF left, addr
  <2> QED  BY <1>4, <1>6, <1>7, <2>1 DEF Moving
<1>9. /\ m \in Devices /\ m.ch[c] = l /\ \A d \in 0 .. Channels - 1 : d # c => m.ch[d] = a.ch[d]
      /\ m.dma_line = a.dma_line
      /\ FifoSame(a, m) /\ ClockSame(a, m) /\ RingSame(a, m) /\ TxSame(a, m)
  BY <1>7, EditKeeps DEF m
<1>10. Fifo(m)  BY <1>9, FifoFrame
<1>11. /\ p \in Devices /\ Fifo(p)
       /\ ClockSame(m, p) /\ RingSame(m, p) /\ DmaSame(m, p) /\ TxSame(m, p)
  BY <1>5, <1>9, <1>10, PushTxKeeps DEF p
<1>12. /\ q \in Devices /\ Fifo(q)
       /\ ClockSame(p, q) /\ RingSame(p, q) /\ DmaSame(p, q) /\ TxSame(p, q)
  BY <1>5, <1>11, PushTxKeeps DEF q
<1>13. /\ u \in Devices /\ TxLine(u)
       /\ FifoSame(q, u) /\ ClockSame(q, u) /\ RingSame(q, u) /\ DmaSame(q, u) /\ TxSame(q, u)
  BY <1>12, UpdateTxKeeps DEF u
<1>14. Fifo(u)  BY <1>12, <1>13, FifoFrame
<1>15. ClockSame(a, u)  BY <1>9, <1>11, <1>12, <1>13 DEF ClockSame
<1>16. RingSame(a, u)  BY <1>9, <1>11, <1>12, <1>13 DEF RingSame
<1>17. TxSame(a, u)  BY <1>9, <1>11, <1>12, <1>13 DEF TxSame
<1>18. u.ch = m.ch /\ u.dma_line = a.dma_line  BY <1>9, <1>11, <1>12, <1>13 DEF DmaSame
<1>19. u.ch[c] = l /\ \A d \in 0 .. Channels - 1 : d # c => u.ch[d] = a.ch[d]
  BY <1>9, <1>18
<1> QED  BY <1>4a, <1>7, <1>8, <1>13, <1>14, <1>15, <1>16, <1>17, <1>18, <1>19 DEF Moved, left

\* Words in a row.
LEMMA MovedTrans ==
  ASSUME NEW a, NEW b, NEW d, NEW c, NEW i \in Nat,
         a.ch[c].left \in Int, Moved(a, b, c, i), Moved(b, d, c, 1)
  PROVE  Moved(a, d, c, i + 1)
<1>1. ClockSame(a, d) /\ RingSame(a, d) /\ TxSame(a, d)
  BY DEF Moved, ClockSame, RingSame, TxSame
<1>2. d.ch[c].left = a.ch[c].left - (i + 1)
  <2>1. d.ch[c].left = (a.ch[c].left - i) - 1  BY DEF Moved
  <2> QED  BY <2>1
<1>3. \A e \in 0 .. Channels - 1 : e # c => d.ch[e] = a.ch[e]  BY DEF Moved
<1> QED  BY <1>1, <1>2, <1>3 DEF Moved

\* As many words as there is room for, and the transfer and RAM have.
LEMMA MoveWordsKeeps ==
  ASSUME NEW a \in Devices, Fifo(a), TxLine(a), NEW c \in 0 .. Channels - 1, Moving(a.ch[c]),
         a.ch[c].left >= 0
  PROVE  /\ Movable(a, c) \in Nat /\ Movable(a, c) <= a.ch[c].left
         /\ Moved(a, MoveWords(a, c), c, Movable(a, c))
<1> DEFINE n == Movable(a, c)
<1>1. /\ a.fill \in 0 .. Depth /\ a.ch[c] \in ChannelRecords
      /\ a.ch[c].left \in Nat /\ a.ch[c].addr \in Nat
  <2>1. a.fill \in 0 .. Depth /\ a.ch[c] \in ChannelRecords  BY DEF Devices
  <2>2. a.ch[c].left \in Int /\ a.ch[c].addr \in Nat  BY <2>1 DEF ChannelRecords
  <2> QED  BY <2>1, <2>2
<1>2. n \in Nat /\ n <= a.ch[c].left
  <2> DEFINE room == Free(a) \div 2
             backed == Larger(RamWords - a.ch[c].addr, 0)
             both == Smaller(a.ch[c].left, room)
  <2>1. room \in Nat
    <3>1. Free(a) \in Nat  BY <1>1, Sizes DEF Free
    <3> QED  BY <3>1, DivMod
  <2>2. backed \in Nat  BY <1>1, Sizes DEF Larger
  <2> HIDE DEF room, backed
  <2>3. both \in Nat /\ both <= a.ch[c].left  BY <1>1, <2>1 DEF Smaller
  <2> HIDE DEF both
  <2>4. n = Smaller(both, backed)  BY DEF Movable, room, backed, both
  <2> HIDE DEF n
  <2> QED  BY <1>1, <2>2, <2>3, <2>4 DEF Smaller
<1> DEFINE S == {b \in Devices : Fifo(b) /\ Moving(b.ch[c])}
           f == CHOOSE g : g = [i \in 0 .. n |-> IF i = 0 THEN a ELSE MoveWord(g[i - 1], c)]
<1>3. MoveWords(a, c) = f[n]  BY DEF MoveWords
<1>4. ASSUME NEW b \in S PROVE MoveWord(b, c) \in S /\ Moved(b, MoveWord(b, c), c, 1)
  BY MoveWordKeeps DEF Moved
<1>5. a \in S  OBVIOUS
<1>6. \A b : Moved(a, b, c, n) => b \in S  BY DEF Moved
<1>7. \A b, i : Moved(a, b, c, i) => b \in S  BY DEF Moved
<1> HIDE DEF S, n
<1>8. f = [i \in 0 .. n |-> IF i = 0 THEN a ELSE MoveWord(f[i - 1], c)]
  <2> DEFINE G == [ib \in (1 .. n) \X S |-> MoveWord(ib[2], c)]
  <2>1. StepsOn(S, n, G)  BY <1>4 DEF StepsOn
  <2>2. \A i \in 1 .. n, b \in S : G[<<i, b>>] = MoveWord(b, c)  OBVIOUS
  <2> HIDE DEF G
  <2>3. PICK g \in [0 .. n -> S] : g[0] = a /\ \A i \in 1 .. n : g[i] = G[<<i, g[i - 1]>>]
    <3>1. HasRun(S, a, n, G)  BY <1>2, <1>5, <2>1, Iteration
    <3> QED  BY <3>1 DEF HasRun
  <2>4. ASSUME NEW i \in 1 .. n PROVE g[i] = MoveWord(g[i - 1], c)
    <3>1. i - 1 \in 0 .. n  BY <1>2
    <3> QED  BY <2>2, <2>3, <3>1
  <2>5. g = [i \in 0 .. n |-> IF i = 0 THEN a ELSE MoveWord(g[i - 1], c)]  BY <2>3, <2>4
  <2> QED  BY <2>5
<1> HIDE DEF f
<1> DEFINE P == {i \in 0 .. n : Moved(a, f[i], c, i)}
<1>9. 0 \in P
  <2>1. f[0] = a /\ 0 \in 0 .. n  BY <1>2, <1>8
  <2>2. Moved(a, a, c, 0)  BY <1>1 DEF Moved, ClockSame, RingSame, TxSame
  <2> QED  BY <2>1, <2>2
<1>10. ASSUME NEW i \in 1 .. n, i - 1 \in P PROVE i \in P
  <2>1. f[i] = MoveWord(f[i - 1], c) /\ i \in 0 .. n /\ i - 1 \in Nat /\ (i - 1) + 1 = i
    BY <1>2, <1>8
  <2>2. Moved(a, f[i - 1], c, i - 1)  BY <1>10
  <2>3. Moved(f[i - 1], f[i], c, 1)  BY <1>4, <1>7, <2>1, <2>2
  <2>4. Moved(a, f[i], c, (i - 1) + 1)  BY <1>1, <2>1, <2>2, <2>3, MovedTrans
  <2> QED  BY <2>1, <2>4
<1> HIDE DEF P
<1>11. n \in P
  <2>1. \A i \in 0 .. n : i \in P  BY <1>2, <1>9, <1>10, UpTo
  <2> QED  BY <1>2, <2>1
<1> QED  BY <1>2, <1>3, <1>11 DEF P, n

\* A channel changed in its flags only, or not at all.
LEMMA FlagsKeep ==
  ASSUME NEW a, NEW b, Fifo(a), Clock(a), History(a), TxLine(a), b \in Devices, DmaLine(b),
         FifoSame(a, b), ClockSame(a, b), RingSame(a, b), TxSame(a, b), b.tx_line = a.tx_line,
         \A d \in 0 .. Channels - 1 : Moving(b.ch[d]) /\ b.ch[d].left >= 0
  PROVE  Sound(b)
<1>1. Fifo(b) /\ History(b)  BY FifoFrame, HistoryFrame
<1>2. Clock(b)  BY DEF Clock, ClockSame
<1>3. TxLine(b)  BY DEF TxLine, TxSame, FifoSame
<1> QED  BY <1>1, <1>2, <1>3 DEF Sound

\* A channel's turn: its words, and its interrupt when the transfer is complete.
LEMMA RunChannelKeeps ==
  ASSUME NEW a, Sound(a), NEW c \in 0 .. Channels - 1
  PROVE  Sound(RunChannel(a, c)) /\ RingSame(a, RunChannel(a, c))
<1> DEFINE m == MoveWords(a, c)
           k == m.ch[c]
<1>1. CASE ~a.ch[c].active
  <2>1. RunChannel(a, c) = a  BY <1>1 DEF RunChannel
  <2> QED  BY <2>1 DEF RingSame
<1>2. CASE a.ch[c].active
  <2>1. /\ a \in Devices /\ Fifo(a) /\ Clock(a) /\ History(a) /\ TxLine(a) /\ DmaLine(a)
        /\ Moving(a.ch[c]) /\ a.ch[c].left >= 0
    BY DEF Sound
  <2>2. a.ch[c].left \in Int
    <3>1. a.ch[c] \in ChannelRecords  BY <2>1 DEF Devices
    <3> QED  BY <3>1 DEF ChannelRecords
  <2>3. /\ m \in Devices /\ Fifo(m) /\ TxLine(m)
        /\ ClockSame(a, m) /\ RingSame(a, m) /\ TxSame(a, m) /\ m.dma_line = a.dma_line
        /\ Moving(k) /\ k.left >= 0 /\ k.intr = a.ch[c].intr
        /\ \A d \in 0 .. Channels - 1 : d # c => m.ch[d] = a.ch[d]
    <3>1. /\ Movable(a, c) \in Nat /\ Movable(a, c) <= a.ch[c].left
          /\ Moved(a, m, c, Movable(a, c))
      BY <2>1, MoveWordsKeeps
    <3> DEFINE n == Movable(a, c)
    <3> HIDE DEF n, m
    <3>2. k.left >= 0
      <4>1. k.left = a.ch[c].left - n  BY <3>1 DEF Moved, n
      <4> QED  BY <2>2, <3>1, <4>1 DEF n
    <3> QED  BY <3>1, <3>2 DEF Moved
  <2>4. RunChannel(a, c) =
          IF ~Complete(k) THEN [m EXCEPT !.ch[c].active = Free(m) < 2]
          ELSE IF ~k.interrupts THEN [m EXCEPT !.ch[c].active = FALSE]
          ELSE SyncDma([m EXCEPT !.ch[c].active = FALSE, !.ch[c].intr = TRUE,
                                 !.ch[c].owed = @ \/ k.moved = Whole(k)], c)
    BY <1>2 DEF RunChannel
  <2> HIDE DEF m
  <2>5. k \in ChannelRecords  BY <2>3 DEF Devices
  <2>6. Clock(m) /\ History(m)  BY <2>1, <2>3, HistoryFrame DEF Clock, ClockSame
  <2>7. DmaLine(m)
    <3>1. \A d \in 0 .. Channels - 1 : m.ch[d].intr = a.ch[d].intr  BY <2>3
    <3> QED  BY <2>1, <2>3, <3>1 DEF DmaLine
  <2>8. \A d \in 0 .. Channels - 1 : d # c => Moving(m.ch[d]) /\ m.ch[d].left >= 0
    BY <2>3 DEF Sound
  <2>9. ASSUME NEW on \in BOOLEAN
        PROVE  LET b == [m EXCEPT !.ch[c].active = on] IN Sound(b) /\ RingSame(a, b)
    <3> DEFINE l == [k EXCEPT !.active = on]
               b == [m EXCEPT !.ch[c] = l]
    <3>1. [m EXCEPT !.ch[c].active = on] = b  BY <2>3 DEF Devices
    <3>2. /\ l \in ChannelRecords /\ Moving(l) /\ l.left >= 0 /\ l.intr = k.intr
      BY <2>3, <2>5 DEF ChannelRecords, Moving
    <3> HIDE DEF l
    <3>3. /\ b \in Devices /\ b.ch[c] = l
          /\ \A d \in 0 .. Channels - 1 : d # c => b.ch[d] = m.ch[d]
          /\ b.dma_line = m.dma_line /\ b.tx_line = m.tx_line
          /\ FifoSame(m, b) /\ ClockSame(m, b) /\ RingSame(m, b) /\ TxSame(m, b)
      BY <2>3, <3>2, EditKeeps
    <3> HIDE DEF b
    <3>4. DmaLine(b)
      <4>1. \A d \in 0 .. Channels - 1 : b.ch[d].intr = m.ch[d].intr  BY <3>2, <3>3
      <4> QED  BY <2>7, <3>3, <4>1 DEF DmaLine
    <3>5. \A d \in 0 .. Channels - 1 : Moving(b.ch[d]) /\ b.ch[d].left >= 0
      BY <2>8, <3>2, <3>3
    <3>6. Sound(b)  BY <2>3, <2>6, <3>3, <3>4, <3>5, FlagsKeep
    <3>7. RingSame(a, b)  BY <2>3, <3>3 DEF RingSame
    <3> QED  BY <3>1, <3>6, <3>7
  <2>10. CASE ~Complete(k)
    <3>1. (Free(m) < 2) \in BOOLEAN  OBVIOUS
    <3> QED  BY <2>4, <2>9, <2>10, <3>1
  <2>11. CASE Complete(k) /\ ~k.interrupts
    BY <2>4, <2>9, <2>11
  <2>12. CASE Complete(k) /\ k.interrupts
    <3> DEFINE l == [k EXCEPT !.active = FALSE, !.intr = TRUE, !.owed = TRUE]
               b == [m EXCEPT !.ch[c] = l]
               u == SyncDma(b, c)
    <3>1. k.moved = Whole(k)
      <4>1. k.left = 0 /\ k.words \in Nat  BY <2>5, <2>12 DEF Complete, ChannelRecords
      <4>2. k.words - k.left = k.words  BY <4>1
      <4> QED  BY <2>3, <4>2 DEF Moving, Whole
    <3>2. [m EXCEPT !.ch[c].active = FALSE, !.ch[c].intr = TRUE,
                    !.ch[c].owed = @ \/ k.moved = Whole(k)] = b
      BY <2>3, <3>1 DEF Devices
    <3>3. RunChannel(a, c) = u
      <4> HIDE DEF b
      <4> QED  BY <2>4, <2>12, <3>2
    <3>4. l \in ChannelRecords /\ Moving(l) /\ l.left >= 0
      BY <2>3, <2>5 DEF ChannelRecords, Moving
    <3> HIDE DEF l
    <3>5. /\ b \in Devices /\ b.ch[c] = l
          /\ \A d \in 0 .. Channels - 1 : d # c => b.ch[d] = m.ch[d]
          /\ b.tx_line = m.tx_line
          /\ FifoSame(m, b) /\ ClockSame(m, b) /\ RingSame(m, b) /\ TxSame(m, b)
      BY <2>3, <3>4, EditKeeps
    <3> HIDE DEF b
    <3>6. /\ u \in Devices /\ DmaLine(u) /\ u.ch = b.ch /\ u.tx_line = b.tx_line
          /\ FifoSame(b, u) /\ ClockSame(b, u) /\ RingSame(b, u) /\ TxSame(b, u)
      BY <3>5, SyncDmaKeeps
    <3> HIDE DEF u
    <3>7. /\ FifoSame(m, u) /\ ClockSame(m, u) /\ RingSame(m, u) /\ TxSame(m, u)
          /\ u.tx_line = m.tx_line
      BY <3>5, <3>6 DEF FifoSame, ClockSame, RingSame, TxSame
    <3>8. \A d \in 0 .. Channels - 1 : Moving(u.ch[d]) /\ u.ch[d].left >= 0
      BY <2>8, <3>4, <3>5, <3>6
    <3>9. Sound(u)  BY <2>3, <2>6, <3>6, <3>7, <3>8, FlagsKeep
    <3>10. RingSame(a, u)  BY <2>3, <3>7 DEF RingSame
    <3> QED  BY <3>3, <3>9, <3>10
  <2> QED  BY <2>10, <2>11, <2>12
<1> QED  BY <1>1, <1>2

\* The channels take their turns.
LEMMA TickDmaKeeps ==
  ASSUME NEW a, Sound(a)
  PROVE  Sound(TickDma(a)) /\ RingSame(a, TickDma(a))
<1> DEFINE S == {b \in Devices : Sound(b) /\ RingSame(a, b)}
           n == Channels
           f == CHOOSE g : g = [c \in 0 .. n |-> IF c = 0 THEN a ELSE RunChannel(g[c - 1], c - 1)]
<1>1. TickDma(a) = f[n]  BY DEF TickDma
<1>2. n \in Nat  BY Sizes
<1>3. ASSUME NEW b \in S, NEW c \in 1 .. n PROVE RunChannel(b, c - 1) \in S
  <2>1. c - 1 \in 0 .. Channels - 1  BY <1>2
  <2>2. Sound(RunChannel(b, c - 1)) /\ RingSame(b, RunChannel(b, c - 1))
    BY <2>1, RunChannelKeeps
  <2>3. RingSame(a, RunChannel(b, c - 1))  BY <2>2 DEF RingSame
  <2> QED  BY <2>2, <2>3 DEF Sound
<1>4. a \in S  BY DEF Sound, RingSame
<1> HIDE DEF S, n
<1>5. f = [c \in 0 .. n |-> IF c = 0 THEN a ELSE RunChannel(f[c - 1], c - 1)]
  <2> DEFINE G == [cb \in (1 .. n) \X S |-> RunChannel(cb[2], cb[1] - 1)]
  <2>1. StepsOn(S, n, G)  BY <1>3 DEF StepsOn
  <2>2. \A c \in 1 .. n, b \in S : G[<<c, b>>] = RunChannel(b, c - 1)  OBVIOUS
  <2> HIDE DEF G
  <2>3. PICK g \in [0 .. n -> S] : g[0] = a /\ \A c \in 1 .. n : g[c] = G[<<c, g[c - 1]>>]
    <3>1. HasRun(S, a, n, G)  BY <1>2, <1>4, <2>1, Iteration
    <3> QED  BY <3>1 DEF HasRun
  <2>4. ASSUME NEW c \in 1 .. n PROVE g[c] = RunChannel(g[c - 1], c - 1)
    <3>1. c - 1 \in 0 .. n  BY <1>2
    <3> QED  BY <2>2, <2>3, <3>1
  <2>5. g = [c \in 0 .. n |-> IF c = 0 THEN a ELSE RunChannel(g[c - 1], c - 1)]
    BY <2>3, <2>4
  <2> QED  BY <2>5
<1> HIDE DEF f
<1> DEFINE P == {c \in 0 .. n : f[c] \in S}
<1>6. 0 \in P  BY <1>2, <1>4, <1>5
<1>7. ASSUME NEW c \in 1 .. n, c - 1 \in P PROVE c \in P
  BY <1>2, <1>3, <1>5, <1>7
<1> HIDE DEF P
<1>8. n \in P
  <2>1. \A c \in 0 .. n : c \in P  BY <1>2, <1>6, <1>7, UpTo
  <2> QED  BY <1>2, <2>1
<1> QED  BY <1>1, <1>8 DEF P, S

-----------------------------------------------------------------------------
(***************************************************************************)
(* The accesses of the guest, and a tick.                                  *)
(***************************************************************************)

\* Sound, but for the line of the transmitter, which UpdateTx brings up to date.
SoundButTx(a) ==
  /\ a \in Devices
  /\ Fifo(a) /\ Clock(a) /\ History(a) /\ DmaLine(a)
  /\ \A c \in 0 .. Channels - 1 : Moving(a.ch[c]) /\ a.ch[c].left >= 0

\* The handlers of the transmitter end with it.
LEMMA UpdateTxSound ==
  ASSUME NEW a, SoundButTx(a)
  PROVE  Sound(UpdateTx(a)) /\ RingSame(a, UpdateTx(a))
<1> DEFINE b == UpdateTx(a)
<1>1. /\ b \in Devices /\ TxLine(b)
      /\ FifoSame(a, b) /\ ClockSame(a, b) /\ RingSame(a, b) /\ DmaSame(a, b)
  BY UpdateTxKeeps DEF SoundButTx
<1> HIDE DEF b
<1>2. Fifo(b) /\ History(b)  BY <1>1, FifoFrame, HistoryFrame DEF SoundButTx
<1>3. Clock(b)  BY <1>1 DEF SoundButTx, Clock, ClockSame
<1>4. DmaLine(b)  BY <1>1 DEF SoundButTx, DmaLine, DmaSame
<1>5. \A c \in 0 .. Channels - 1 : Moving(b.ch[c]) /\ b.ch[c].left >= 0
  BY <1>1 DEF SoundButTx, DmaSame
<1> QED  BY <1>1, <1>2, <1>3, <1>4, <1>5 DEF Sound, b

\* What leaves the channels alone need only keep the rest.
LEMMA SoundFrame ==
  ASSUME NEW a, NEW b, SoundButTx(a), b \in Devices, Fifo(b), Clock(b), History(b),
         DmaSame(a, b)
  PROVE  SoundButTx(b)
<1>1. DmaLine(b)  BY DEF SoundButTx, DmaLine, DmaSame
<1>2. \A c \in 0 .. Channels - 1 : Moving(b.ch[c]) /\ b.ch[c].left >= 0
  BY DEF SoundButTx, DmaSame
<1> QED  BY <1>1, <1>2 DEF SoundButTx

\* Sound without its last part.
LEMMA SoundIsButTx ==
  ASSUME NEW a, Sound(a) PROVE SoundButTx(a)
  BY DEF Sound, SoundButTx

\* The ring cleared is another stream, of which nothing was played.
LEMMA ClearRingKeeps ==
  ASSUME NEW a \in Devices
  PROVE  LET b == ClearRing(a)
         IN  /\ b \in Devices /\ History(b)
             /\ FifoSame(a, b) /\ ClockSame(a, b) /\ DmaSame(a, b) /\ TxSame(a, b)
             /\ b.stream_id = a.stream_id + 1
<1> DEFINE ring == [i \in 0 .. Ring - 1 |-> Silence]
           id == a.stream_id + 1
           resets == a.resets + 1
           b == [a EXCEPT !.ring = ring, !.produced = 0, !.stream_start = 0, !.rate = a.codec,
                          !.stream_id = id, !.played = <<>>, !.resets = resets]
<1>1. ring \in [0 .. Ring - 1 -> Nat]  BY DEF Silence
<1>2. a.codec \in Rates /\ id \in Nat /\ resets \in Nat  BY DEF Devices
<1>3. <<>> \in Seq(Played) /\ Len(<<>>) = 0  OBVIOUS
<1>4. ClearRing(a) = b  BY DEF ClearRing
<1> HIDE DEF ring, id, resets
<1>5. /\ b \in Devices /\ b.produced = 0 /\ b.played = <<>> /\ b.rate = a.codec
      /\ b.stream_id = id
      /\ FifoSame(a, b) /\ ClockSame(a, b) /\ DmaSame(a, b) /\ TxSame(a, b)
  BY <1>1, <1>2, <1>3 DEF Devices, FifoSame, ClockSame, DmaSame, TxSame
<1> HIDE DEF b
<1>6. History(b)
  <2>1. 0 .. 0 - 1 = {}  OBVIOUS
  <2> QED  BY <1>3, <1>5, <2>1 DEF History
<1> QED  BY <1>4, <1>5, <1>6 DEF id

\* Writing the configuration, with a reset or without.
LEMMA WriteConfigKeeps ==
  ASSUME Sound(audio), NEW reset \in BOOLEAN, NEW txen \in BOOLEAN, NEW irqtx \in BOOLEAN,
         WriteConfig(reset, txen, irqtx)
  PROVE  Sound(audio') /\ Onward(audio, audio')
<1> DEFINE emptied == ClearFifo(audio)
           stopped == StopClock(emptied)
           fresh   == ClearRing(stopped)
           cleared == IF reset THEN fresh ELSE audio
           written == [cleared EXCEPT !.txen = txen, !.irqtx = irqtx]
           ended   == IF audio.txen /\ ~txen THEN StopClock(written) ELSE written
<1>1. audio' = UpdateTx(ended)  BY DEF WriteConfig, Device
<1>2. SoundButTx(audio)  BY SoundIsButTx
<1>3. SoundButTx(fresh) /\ Onward(audio, fresh)
  <2>1. /\ emptied \in Devices /\ Fifo(emptied) /\ RingSame(audio, emptied)
        /\ DmaSame(audio, emptied)
    BY <1>2, ClearFifoKeeps DEF SoundButTx
  <2> HIDE DEF emptied
  <2>2. /\ stopped \in Devices /\ Clock(stopped) /\ FifoSame(emptied, stopped)
        /\ RingSame(emptied, stopped)
        /\ DmaSame(emptied, stopped)
    BY <2>1, StopClockKeeps
  <2> HIDE DEF stopped
  <2>3. /\ fresh \in Devices /\ History(fresh) /\ FifoSame(stopped, fresh)
        /\ ClockSame(stopped, fresh) /\ DmaSame(stopped, fresh)
        /\ fresh.stream_id = stopped.stream_id + 1
    BY <2>2, ClearRingKeeps
  <2> HIDE DEF fresh
  <2>4. Fifo(fresh)  BY <2>1, <2>2, <2>3, FifoFrame
  <2>5. Clock(fresh)  BY <2>2, <2>3 DEF Clock, ClockSame
  <2>6. DmaSame(audio, fresh)  BY <2>1, <2>2, <2>3 DEF DmaSame
  <2>7. Onward(audio, fresh)
    <3>1. audio.stream_id \in Nat  BY <1>2 DEF SoundButTx, Devices
    <3>2. fresh.stream_id = audio.stream_id + 1  BY <2>1, <2>2, <2>3 DEF RingSame
    <3> QED  BY <3>1, <3>2 DEF Onward
  <2> QED  BY <1>2, <2>3, <2>4, <2>5, <2>6, <2>7, SoundFrame
<1> HIDE DEF fresh
<1>4. SoundButTx(cleared) /\ Onward(audio, cleared)
  <2>1. Onward(audio, audio)  BY <1>2, RingOnward DEF RingSame, SoundButTx
  <2> QED  BY <1>2, <1>3, <2>1
<1> HIDE DEF cleared
<1>5. SoundButTx(written) /\ RingSame(cleared, written)
  <2>1. cleared \in Devices  BY <1>4 DEF SoundButTx
  <2>2. /\ written \in Devices /\ FifoSame(cleared, written) /\ ClockSame(cleared, written)
        /\ RingSame(cleared, written) /\ DmaSame(cleared, written)
    BY <2>1 DEF Devices, FifoSame, ClockSame, RingSame, DmaSame
  <2> HIDE DEF written
  <2>3. Fifo(written) /\ History(written)
    BY <1>4, <2>2, FifoFrame, HistoryFrame DEF SoundButTx
  <2>4. Clock(written)  BY <1>4, <2>2 DEF SoundButTx, Clock, ClockSame
  <2> QED  BY <1>4, <2>2, <2>3, <2>4, SoundFrame
<1> HIDE DEF written
<1>6. SoundButTx(StopClock(written)) /\ RingSame(written, StopClock(written))
  <2> DEFINE b == StopClock(written)
  <2>1. /\ b \in Devices /\ Clock(b) /\ FifoSame(written, b) /\ RingSame(written, b)
        /\ DmaSame(written, b)
    BY <1>5, StopClockKeeps DEF SoundButTx
  <2> HIDE DEF b
  <2>2. Fifo(b) /\ History(b)  BY <1>5, <2>1, FifoFrame, HistoryFrame DEF SoundButTx
  <2>3. SoundButTx(b)  BY <1>5, <2>1, <2>2, SoundFrame
  <2> QED  BY <2>1, <2>3 DEF b
<1>7. SoundButTx(ended) /\ RingSame(cleared, ended)
  <2>1. RingSame(cleared, StopClock(written))  BY <1>5, <1>6 DEF RingSame
  <2> QED  BY <1>5, <1>6, <2>1
<1> HIDE DEF ended
<1>8. Sound(audio') /\ RingSame(ended, audio')  BY <1>1, <1>7, UpdateTxSound
<1>9. Onward(audio, audio')
  <2>1. audio'.stream_id = cleared.stream_id /\ audio'.resets = cleared.resets
    BY <1>7, <1>8 DEF RingSame
  <2> QED  BY <1>4, <2>1 DEF Onward
<1> QED  BY <1>8, <1>9

\* Clearing the FIFO.
LEMMA WriteFifoClearKeeps ==
  ASSUME Sound(audio), WriteFifoClear
  PROVE  Sound(audio') /\ Onward(audio, audio')
<1> DEFINE b == ClearFifo(audio)
<1>1. audio' = UpdateTx(b)  BY DEF WriteFifoClear, Device
<1>2. SoundButTx(audio)  BY SoundIsButTx
<1>3. b \in Devices /\ Fifo(b) /\ ClockSame(audio, b) /\ RingSame(audio, b) /\ DmaSame(audio, b)
  BY <1>2, ClearFifoKeeps DEF SoundButTx
<1> HIDE DEF b
<1>4. Clock(b) /\ History(b)
  BY <1>2, <1>3, HistoryFrame DEF SoundButTx, Clock, ClockSame
<1>5. SoundButTx(b)  BY <1>2, <1>3, <1>4, SoundFrame
<1>6. Sound(audio') /\ RingSame(b, audio')  BY <1>1, <1>5, UpdateTxSound
<1>7. RingSame(audio, audio')  BY <1>3, <1>6 DEF RingSame
<1> QED  BY <1>2, <1>6, <1>7, RingOnward DEF SoundButTx

\* A sample pushed, before the line is brought up to date.
LEMMA PushSound ==
  ASSUME NEW a, SoundButTx(a), NEW sample \in Nat
  PROVE  SoundButTx(PushTx(a, sample)) /\ RingSame(a, PushTx(a, sample))
<1> DEFINE b == PushTx(a, sample)
<1>1. b \in Devices /\ Fifo(b) /\ ClockSame(a, b) /\ RingSame(a, b) /\ DmaSame(a, b)
  BY PushTxKeeps DEF SoundButTx
<1> HIDE DEF b
<1>2. Clock(b) /\ History(b)  BY <1>1, HistoryFrame DEF SoundButTx, Clock, ClockSame
<1>3. SoundButTx(b)  BY <1>1, <1>2, SoundFrame
<1> QED  BY <1>1, <1>3 DEF b

\* Writing the FIFO, one halfword or two.
LEMMA WriteFifoKeeps ==
  ASSUME Sound(audio), NEW left \in Samples, NEW right \in Samples,
         WriteFifo(left) \/ WriteFifoPair(left, right)
  PROVE  Sound(audio') /\ Onward(audio, audio')
<1>1. left \in Nat /\ right \in Nat  BY AudioAssumption
<1>2. SoundButTx(audio)  BY SoundIsButTx
<1> DEFINE p == PushTx(audio, left)
           q == PushTx(p, right)
<1>3. audio' = UpdateTx(p) \/ audio' = UpdateTx(q)
  BY DEF WriteFifo, WriteFifoPair, Device
<1>4. SoundButTx(p) /\ RingSame(audio, p)  BY <1>1, <1>2, PushSound
<1> HIDE DEF p
<1>5. SoundButTx(q) /\ RingSame(p, q)  BY <1>1, <1>4, PushSound
<1> HIDE DEF q
<1>6. Sound(audio') /\ (RingSame(p, audio') \/ RingSame(q, audio'))
  BY <1>3, <1>4, <1>5, UpdateTxSound
<1>7. RingSame(audio, audio')  BY <1>4, <1>5, <1>6 DEF RingSame
<1> QED  BY <1>2, <1>6, <1>7, RingOnward DEF SoundButTx

\* The codec is read at the next tick.
LEMMA WriteCodecKeeps ==
  ASSUME Sound(audio), NEW rate \in Rates, NEW audible \in BOOLEAN, WriteCodec(rate, audible)
  PROVE  Sound(audio') /\ Onward(audio, audio')
<1> DEFINE b == [audio EXCEPT !.codec = rate, !.audible = audible]
<1>1. audio' = b  BY DEF WriteCodec, Device
<1>2. audio \in Devices  BY DEF Sound
<1>3. /\ b \in Devices /\ FifoSame(audio, b) /\ ClockSame(audio, b) /\ RingSame(audio, b)
      /\ DmaSame(audio, b) /\ TxSame(audio, b) /\ b.tx_line = audio.tx_line
  BY <1>2 DEF Devices, FifoSame, ClockSame, RingSame, DmaSame, TxSame
<1> HIDE DEF b
<1>4. DmaLine(b) /\ \A d \in 0 .. Channels - 1 : Moving(b.ch[d]) /\ b.ch[d].left >= 0
  BY <1>3 DEF Sound, DmaLine, DmaSame
<1>5. Fifo(audio) /\ Clock(audio) /\ History(audio) /\ TxLine(audio)  BY DEF Sound
<1>6. Sound(b)  BY <1>3, <1>4, <1>5, FlagsKeep
<1> QED  BY <1>1, <1>2, <1>3, <1>6, RingOnward

\* A channel written, and a line brought up to date or left alone because no
\* interrupt changed.
LEMMA EditSound ==
  ASSUME NEW a, Sound(a), NEW c \in 0 .. Channels - 1, NEW k \in ChannelRecords,
         Moving(k), k.left >= 0
  PROVE  LET b == [a EXCEPT !.ch[c] = k]
         IN  /\ Sound(SyncDma(b, c)) /\ RingSame(a, SyncDma(b, c))
             /\ RingSame(a, b) /\ (k.intr = a.ch[c].intr => Sound(b))
<1> DEFINE b == [a EXCEPT !.ch[c] = k]
           u == SyncDma(b, c)
<1>1. /\ a \in Devices /\ Fifo(a) /\ Clock(a) /\ History(a) /\ TxLine(a) /\ DmaLine(a)
      /\ \A d \in 0 .. Channels - 1 : Moving(a.ch[d]) /\ a.ch[d].left >= 0
  BY DEF Sound
<1>2. /\ b \in Devices /\ b.ch[c] = k /\ \A d \in 0 .. Channels - 1 : d # c => b.ch[d] = a.ch[d]
      /\ b.dma_line = a.dma_line /\ b.tx_line = a.tx_line
      /\ FifoSame(a, b) /\ ClockSame(a, b) /\ RingSame(a, b) /\ TxSame(a, b)
  BY <1>1, EditKeeps
<1> HIDE DEF b
<1>3. \A d \in 0 .. Channels - 1 : Moving(b.ch[d]) /\ b.ch[d].left >= 0  BY <1>1, <1>2
<1>4. ASSUME k.intr = a.ch[c].intr PROVE Sound(b)
  <2>1. \A d \in 0 .. Channels - 1 : b.ch[d].intr = a.ch[d].intr  BY <1>2, <1>4
  <2>2. DmaLine(b)  BY <1>1, <1>2, <2>1 DEF DmaLine
  <2> QED  BY <1>1, <1>2, <1>3, <2>2, FlagsKeep
<1>5. /\ u \in Devices /\ DmaLine(u) /\ u.ch = b.ch /\ u.tx_line = b.tx_line
      /\ FifoSame(b, u) /\ ClockSame(b, u) /\ RingSame(b, u) /\ TxSame(b, u)
  BY <1>2, SyncDmaKeeps
<1> HIDE DEF u
<1>6. /\ FifoSame(a, u) /\ ClockSame(a, u) /\ RingSame(a, u) /\ TxSame(a, u)
      /\ u.tx_line = a.tx_line
  BY <1>2, <1>5 DEF FifoSame, ClockSame, RingSame, TxSame
<1>7. Sound(u)
  <2>1. \A d \in 0 .. Channels - 1 : Moving(u.ch[d]) /\ u.ch[d].left >= 0  BY <1>3, <1>5
  <2> QED  BY <1>1, <1>5, <1>6, <2>1, FlagsKeep
<1> QED  BY <1>2, <1>4, <1>6, <1>7 DEF b, u

\* A transfer starts with nothing moved, and with the interrupt of the last.
LEMMA StartChannelKeeps ==
  ASSUME Sound(audio), NEW c \in 0 .. Channels - 1, NEW base \in 0 .. RamWords,
         NEW words \in 1 .. MaxWords, NEW interrupts \in BOOLEAN,
         StartChannel(c, base, words, interrupts)
  PROVE  Sound(audio') /\ Onward(audio, audio')
<1> DEFINE k == audio.ch[c]
           l == [base |-> base, words |-> words, interrupts |-> interrupts, active |-> TRUE,
                 addr |-> base, left |-> words, intr |-> k.intr, moved |-> <<>>,
                 owed |-> k.owed]
           b == [audio EXCEPT !.ch[c] = l]
<1>1. audio \in Devices /\ Moving(k)  BY DEF Sound
<1>2. k \in ChannelRecords  BY <1>1 DEF Devices
<1>3. audio' = RunChannel(b, c)
  <2>1. audio.ch[c] = k  OBVIOUS
  <2>2. c \in DOMAIN audio.ch  BY <1>1 DEF Devices
  <2> QED  BY <2>1, <2>2 DEF StartChannel, Device
<1>4. base \in Nat /\ words \in Nat  BY Sizes
<1>5. l \in ChannelRecords /\ l.intr = k.intr /\ l.left >= 0
  <2>1. <<>> \in Seq(Nat)  OBVIOUS
  <2>2. k.intr \in BOOLEAN /\ k.owed \in BOOLEAN  BY <1>2 DEF ChannelRecords
  <2> HIDE DEF k
  <2> QED  BY <1>4, <2>1, <2>2 DEF ChannelRecords
<1>6. Moving(l)
  <2>1. words - words = 0 /\ base + 0 = base  BY <1>4
  <2>2. [i \in 1 .. 0 |-> base + i - 1] = <<>>  OBVIOUS
  <2>3. k.owed = k.intr  BY <1>1 DEF Moving
  <2> HIDE DEF k
  <2> QED  BY <1>4, <2>1, <2>2, <2>3 DEF Moving
<1> HIDE DEF l
<1>7. Sound(b) /\ RingSame(audio, b)  BY <1>5, <1>6, EditSound
<1> HIDE DEF b
<1>8. Sound(audio') /\ RingSame(b, audio')  BY <1>3, <1>7, RunChannelKeeps
<1>9. RingSame(audio, audio')  BY <1>7, <1>8 DEF RingSame
<1> QED  BY <1>1, <1>8, <1>9, RingOnward

\* A transfer stopped, and the end of the last one withdrawn or not.
LEMMA StopChannelKeeps ==
  ASSUME Sound(audio), NEW c \in 0 .. Channels - 1, NEW interrupts \in BOOLEAN,
         StopChannel(c, interrupts)
  PROVE  Sound(audio') /\ Onward(audio, audio')
<1> DEFINE k == audio.ch[c]
           l == [k EXCEPT !.active = FALSE, !.interrupts = interrupts,
                          !.intr = k.intr /\ interrupts, !.owed = k.owed /\ interrupts]
           b == [audio EXCEPT !.ch[c] = l]
<1>1. audio \in Devices /\ Moving(k) /\ k.left >= 0  BY DEF Sound
<1>2. k \in ChannelRecords  BY <1>1 DEF Devices
<1>3. audio' = IF interrupts THEN b ELSE SyncDma(b, c)
  <2> DEFINE intr == k.intr /\ interrupts
             owed == k.owed /\ interrupts
             a == [audio EXCEPT !.ch[c].active = FALSE, !.ch[c].interrupts = interrupts,
                                !.ch[c].intr = intr, !.ch[c].owed = owed]
             m == [k EXCEPT !.active = FALSE, !.interrupts = interrupts, !.intr = intr,
                            !.owed = owed]
  <2>1. audio' = IF interrupts THEN a ELSE SyncDma(a, c)  BY DEF StopChannel, Device
  <2>2. a = [audio EXCEPT !.ch[c] = m]
    <3> DEFINE n == [k EXCEPT !.active = FALSE, !.interrupts = interrupts]
               half == [audio EXCEPT !.ch[c] = n]
    <3>1. [audio EXCEPT !.ch[c].active = FALSE, !.ch[c].interrupts = interrupts] = half
      BY <1>1 DEF Devices
    <3>2. half.ch[c] = n  BY <1>1 DEF Devices
    <3>3. a = [half EXCEPT !.ch[c].intr = intr, !.ch[c].owed = owed]
      <4> HIDE DEF half, intr, owed
      <4> QED  BY <3>1
    <3>4. m = [n EXCEPT !.intr = intr, !.owed = owed]  OBVIOUS
    <3> HIDE DEF intr, owed, n, a, m
    <3> QED  BY <1>1, <3>2, <3>3, <3>4 DEF Devices
  <2> HIDE DEF a
  <2> QED  BY <2>1, <2>2
<1>4. /\ l \in ChannelRecords /\ Moving(l) /\ l.left >= 0
      /\ interrupts => l.intr = k.intr
  <2>1. k.owed = k.intr /\ k.intr \in BOOLEAN /\ k.owed \in BOOLEAN
    BY <1>1, <1>2 DEF Moving, ChannelRecords
  <2>2. (k.intr /\ interrupts) \in BOOLEAN /\ (k.owed /\ interrupts) \in BOOLEAN  OBVIOUS
  <2>3. /\ l \in ChannelRecords /\ l.left = k.left /\ l.words = k.words /\ l.addr = k.addr
        /\ l.base = k.base /\ l.moved = k.moved
        /\ l.intr = (k.intr /\ interrupts) /\ l.owed = (k.owed /\ interrupts)
    BY <1>2, <2>2 DEF ChannelRecords
  <2> HIDE DEF k, l
  <2> QED  BY <1>1, <2>1, <2>3 DEF Moving
<1> HIDE DEF l
<1>5. /\ Sound(SyncDma(b, c)) /\ RingSame(audio, SyncDma(b, c))
      /\ RingSame(audio, b) /\ (interrupts => Sound(b))
  BY <1>4, EditSound
<1> QED  BY <1>1, <1>3, <1>5, RingOnward

\* The status read, and the interrupt with it.
LEMMA ReadStatusKeeps ==
  ASSUME Sound(audio), NEW c \in 0 .. Channels - 1, ReadStatus(c)
  PROVE  Sound(audio') /\ Onward(audio, audio')
<1> DEFINE k == audio.ch[c]
           l == [k EXCEPT !.intr = FALSE, !.owed = FALSE]
           b == [audio EXCEPT !.ch[c] = l]
<1>1. audio \in Devices /\ Moving(k) /\ k.left >= 0  BY DEF Sound
<1>2. k \in ChannelRecords  BY <1>1 DEF Devices
<1>3. audio' = SyncDma(b, c)  BY <1>1 DEF ReadStatus, Device, Devices
<1>4. l \in ChannelRecords /\ Moving(l) /\ l.left >= 0
  BY <1>1, <1>2 DEF ChannelRecords, Moving
<1> HIDE DEF l
<1>5. Sound(SyncDma(b, c)) /\ RingSame(audio, SyncDma(b, c))  BY <1>4, EditSound
<1> QED  BY <1>1, <1>3, <1>5, RingOnward

\* A tick: the transmitter, then the channels.
LEMMA TickKeeps ==
  ASSUME Sound(audio), Tick
  PROVE  Sound(audio') /\ Onward(audio, audio')
<1> DEFINE b == TickI2s(audio)
<1>1. SoundButTx(audio)  BY SoundIsButTx
<1>2. audio \in Devices /\ Fifo(audio) /\ Clock(audio) /\ History(audio) /\ TxLine(audio)
  BY DEF Sound
<1>3. /\ b \in Devices /\ Fifo(b) /\ Clock(b) /\ History(b) /\ TxLine(b)
      /\ DmaSame(audio, b) /\ Onward(audio, b)
  BY <1>2, TickI2sKeeps
<1>4. audio' = TickDma(b)  BY DEF Tick, Device
<1> HIDE DEF b
<1>5. SoundButTx(b)  BY <1>1, <1>3, SoundFrame
<1>6. Sound(b)  BY <1>3, <1>5 DEF Sound, SoundButTx
<1>7. Sound(audio') /\ RingSame(b, audio')  BY <1>4, <1>6, TickDmaKeeps
<1>8. Onward(audio, audio')  BY <1>3, <1>7 DEF Onward, RingSame
<1> QED  BY <1>7, <1>8

\* The device before anything was written to it.
LEMMA StartSound == Sound(Start)
<1>1. Start \in Devices
  <2>1. [i \in 0 .. Depth - 1 |-> Silence] \in [0 .. Depth - 1 -> Nat]  BY DEF Silence
  <2>2. [i \in 0 .. Ring - 1 |-> Silence] \in [0 .. Ring - 1 -> Nat]  BY DEF Silence
  <2>3. <<>> \in Seq(Nat) /\ <<>> \in Seq(Played)  OBVIOUS
  <2>4. Channel \in ChannelRecords  BY <2>3 DEF Channel, ChannelRecords
  <2>5. [c \in 0 .. Channels - 1 |-> Channel] \in [0 .. Channels - 1 -> ChannelRecords]
    BY <2>4
  <2>6. Default \in Rates /\ NoRate \in Rates \cup {NoRate}  BY Sizes
  <2> QED  BY <2>1, <2>2, <2>3, <2>5, <2>6, Zeros DEF Start, Devices
<1>2. Len(<<>>) = 0  OBVIOUS
<1>3. Fifo(Start)
  <2>1. (0 + 0) % Depth = 0  BY Sizes, Wraps
  <2>2. 1 .. 0 = {}  OBVIOUS
  <2> QED  BY <1>2, <2>1, <2>2 DEF Fifo, Start
<1>4. Clock(Start)  BY Sizes DEF Clock, Start
<1>5. History(Start)
  <2>1. 0 .. 0 - 1 = {}  OBVIOUS
  <2> QED  BY <1>2, <2>1 DEF History, Start
<1>6. \A c \in 0 .. Channels - 1 : Start.ch[c] = Channel  BY DEF Start
<1>7. Moving(Channel) /\ Channel.left >= 0 /\ ~Channel.intr
  <2>1. [i \in 1 .. 0 |-> 0 + i - 1] = <<>> /\ 0 - 0 = 0 /\ 0 + 0 = 0  OBVIOUS
  <2> QED  BY <2>1 DEF Moving, Channel
<1>8. DmaLine(Start)
  <2>1. ~Start.dma_line  BY DEF Start
  <2> QED  BY <1>6, <1>7, <2>1 DEF DmaLine
<1>9. TxLine(Start)  BY DEF TxLine, Start
<1> QED  BY <1>1, <1>3, <1>4, <1>5, <1>6, <1>7, <1>8, <1>9 DEF Sound

-----------------------------------------------------------------------------
(***************************************************************************)
(* The theorems about the device.                                          *)
(***************************************************************************)

\* Every step of the system keeps the device sound.
LEMMA StepSound ==
  ASSUME Sound(audio), [Next]_vars
  PROVE  Sound(audio') /\ Onward(audio, audio')
<1>1. CASE Guest
  <2>1. CASE \E reset, txen, irqtx \in BOOLEAN : WriteConfig(reset, txen, irqtx)
    BY <2>1, WriteConfigKeeps
  <2>2. CASE WriteFifoClear  BY <2>2, WriteFifoClearKeeps
  <2>3. CASE \E sample \in Samples : WriteFifo(sample)  BY <2>3, WriteFifoKeeps
  <2>4. CASE \E left, right \in Samples : WriteFifoPair(left, right)  BY <2>4, WriteFifoKeeps
  <2>5. CASE \E rate \in Rates, audible \in BOOLEAN : WriteCodec(rate, audible)
    BY <2>5, WriteCodecKeeps
  <2>6. ASSUME NEW c \in 0 .. Channels - 1,
               \/ \E base \in 0 .. RamWords, words \in 1 .. MaxWords, interrupts \in BOOLEAN :
                    StartChannel(c, base, words, interrupts)
               \/ \E interrupts \in BOOLEAN : StopChannel(c, interrupts)
               \/ ReadStatus(c)
        PROVE  Sound(audio') /\ Onward(audio, audio')
    <3>1. CASE \E base \in 0 .. RamWords, words \in 1 .. MaxWords, interrupts \in BOOLEAN :
                 StartChannel(c, base, words, interrupts)
      BY <3>1, StartChannelKeeps
    <3>2. CASE \E interrupts \in BOOLEAN : StopChannel(c, interrupts)
      BY <3>2, StopChannelKeeps
    <3>3. CASE ReadStatus(c)  BY <3>3, ReadStatusKeeps
    <3> QED  BY <2>6, <3>1, <3>2, <3>3
  <2> QED  BY <1>1, <2>1, <2>2, <2>3, <2>4, <2>5, <2>6 DEF Guest
<1>2. CASE Tick  BY <1>2, TickKeeps
<1>3. CASE ServePump \/ ServeStatus \/ Page \/ UNCHANGED vars
  <2>1. audio' = audio
    BY <1>3 DEF ServePump, ServeStatus, Page, AskPump, TakePump, AskStatus, TakeStatus,
                EnableAudio, vars
  <2>2. Onward(audio, audio)  BY RingOnward DEF RingSame, Sound
  <2> QED  BY <2>1, <2>2
<1> QED  BY <1>1, <1>2, <1>3 DEF Next

\* The device stays sound: its types, its queue, its clock, its ring and its
\* transfers.
THEOREM SoundCorrect == Spec => []Sound(audio)
<1>1. Init => Sound(audio)  BY StartSound DEF Init
<1>2. Sound(audio) /\ [Next]_vars => Sound(audio)'  BY StepSound
<1> QED  BY <1>1, <1>2, PTL DEF Spec

\* The circular FIFO is a queue, for any depth and whoever pushes.
THEOREM FifoIsQueueCorrect == Spec => []FifoIsQueue
<1>1. Sound(audio) => FifoIsQueue  BY DEF Sound, Fifo, FifoIsQueue
<1> QED  BY <1>1, SoundCorrect, PTL

\* Playback keeps time at any rate, whatever the remainder of a tick.
THEOREM KeepsTimeCorrect == Spec => []KeepsTime
<1>1. ASSUME Sound(audio) PROVE KeepsTime
  <2>1. audio.elapsed \in Nat /\ audio.since \in Nat /\ audio.acc \in 0 .. Unit - 1
    BY <1>1 DEF Sound, Devices
  <2>2. audio.elapsed = Unit * audio.since + audio.acc  BY <1>1 DEF Sound, Clock
  <2>3. Unit \in Nat /\ Unit > 0  BY Sizes
  <2> QED  BY <2>1, <2>2, <2>3, QuotientIs DEF KeepsTime
<1> QED  BY <1>1, SoundCorrect, PTL

\* The lines say what the guest is owed, for any number of channels and however
\* often a transfer had to wait for room.
THEOREM InterruptsHonestCorrect == Spec => []InterruptsHonest
<1>1. ASSUME Sound(audio) PROVE InterruptsHonest
  <2>1. audio.fill = Len(audio.waiting) /\ audio.fill \in 0 .. Depth
    BY <1>1 DEF Sound, Fifo, Devices
  <2>2. audio.fill + 2 <= Depth <=> Depth - Len(audio.waiting) >= 2
    BY <2>1, Sizes
  <2>3. audio.tx_line <=> audio.irqtx /\ audio.txen /\ Depth - Len(audio.waiting) >= 2
    BY <1>1, <2>2 DEF Sound, TxLine
  <2>4. \A c \in 0 .. Channels - 1 : audio.ch[c].owed = audio.ch[c].intr
    BY <1>1 DEF Sound, Moving
  <2>5. audio.dma_line <=> \E c \in 0 .. Channels - 1 : audio.ch[c].owed
    BY <1>1, <2>4 DEF Sound, DmaLine
  <2> QED  BY <2>3, <2>5 DEF InterruptsHonest
<1> QED  BY <1>1, SoundCorrect, PTL

-----------------------------------------------------------------------------
(***************************************************************************)
(* The answers, and what the page makes of them.                           *)
(***************************************************************************)

\* The start and the end of an answer: whole pairs, in the ring and in the
\* stream unless there is nothing to send.
LEMMA AnswerRange ==
  ASSUME Sound(audio), NEW cursor \in Nat
  PROVE  LET r == AudioAnswer(cursor)
         IN  /\ r.start \in Nat /\ r.next \in Nat /\ r.start <= r.next
             /\ r.next <= audio.produced /\ r.start >= audio.produced - Ring
             /\ r.start < r.next => r.start >= audio.stream_start
<1> DEFINE P        == audio.produced
           produced == P - (P % 2)
           oldest   == Oldest(produced)
           least    == Larger(cursor, oldest)
           most     == Smaller(least, produced)
           wanted   == RoundUp(most)
           start    == Larger(wanted, produced - Chunk)
<1>1. P \in Nat /\ audio.stream_start \in Nat  BY DEF Sound, Devices
<1>2. Ring \in Nat /\ Chunk \in Nat /\ Chunk < Ring  BY Sizes
<1>3. produced \in Nat /\ produced <= P /\ P <= produced + 1 /\ produced % 2 = 0
  <2> DEFINE q == P \div 2
             r == P % 2
  <2>1. q \in Nat /\ r \in 0 .. 1 /\ P = 2 * q + r  BY <1>1, DivMod
  <2>2. produced = P - r  OBVIOUS
  <2> HIDE DEF P, q, r, produced
  <2> QED  BY <2>1, <2>2
<1>4. oldest \in Nat /\ oldest >= audio.stream_start
  <2> DEFINE m == Larger(audio.stream_start, Larger(produced - Ring, 0))
  <2>1. m \in Nat /\ m >= audio.stream_start  BY <1>1, <1>2, <1>3 DEF Larger
  <2> HIDE DEF m
  <2>2. RoundUp(m) \in Nat /\ RoundUp(m) >= m
    <3>1. m % 2 \in 0 .. 1  BY <2>1, DivMod
    <3> QED  BY <2>1, <3>1 DEF RoundUp
  <2>3. oldest = RoundUp(m)  BY DEF Oldest, m
  <2> HIDE DEF oldest
  <2> QED  BY <1>1, <2>1, <2>2, <2>3
<1>5. AudioAnswer(cursor).start = start /\ AudioAnswer(cursor).next = produced
  BY DEF AudioAnswer
<1> HIDE DEF P, produced, oldest
<1>6. least \in Nat /\ least >= oldest  BY <1>4 DEF Larger
<1> HIDE DEF least
<1>7. most \in Nat /\ most <= produced /\ (most = least \/ most = produced)
  BY <1>3, <1>6 DEF Smaller
<1> HIDE DEF most
<1>8. wanted \in Nat /\ most <= wanted /\ wanted <= produced
  <2>1. most % 2 \in 0 .. 1  BY <1>7, DivMod
  <2>2. most = produced => most % 2 = 0  BY <1>3
  <2> QED  BY <1>3, <1>7, <2>1, <2>2 DEF RoundUp
<1>9. wanted < produced => wanted >= audio.stream_start
  BY <1>1, <1>3, <1>4, <1>6, <1>7, <1>8
<1> HIDE DEF wanted
<1>10. /\ start \in Nat /\ start <= produced /\ start >= wanted /\ start >= produced - Chunk
  BY <1>2, <1>3, <1>8 DEF Larger
<1> HIDE DEF start
<1> QED  BY <1>1, <1>2, <1>3, <1>5, <1>8, <1>9, <1>10 DEF P

\* An answer is true of the device that gave it.
LEMMA AnswersTrue ==
  ASSUME Sound(audio), NEW cursor \in Nat
  PROVE  AnswerTrue(AudioAnswer(cursor))
<1> DEFINE r == AudioAnswer(cursor)
           n == r.next - r.start
<1>1. /\ r.start \in Nat /\ r.next \in Nat /\ r.start <= r.next
      /\ r.next <= audio.produced /\ r.start >= audio.produced - Ring
      /\ r.start < r.next => r.start >= audio.stream_start
  BY AnswerRange
<1>2. /\ r.samples = [i \in 1 .. n |-> audio.ring[(r.start + i - 1) % Ring]]
      /\ r.rate = ShownRate
  BY DEF AudioAnswer
<1> HIDE DEF r
<1>3. /\ audio.produced \in Nat /\ audio.stream_start \in Nat /\ audio.played \in Seq(Played)
      /\ Len(audio.played) = audio.produced
      /\ \A p \in 0 .. audio.produced - 1 :
           /\ p >= audio.produced - Ring => audio.ring[p % Ring] = audio.played[p + 1].sample
           /\ p >= audio.stream_start => audio.played[p + 1].rate = audio.rate
      /\ audio.rate = NoRate => audio.produced = 0
  BY DEF Sound, Devices, History
<1>4. Ring \in Nat  BY Sizes
<1>5. n \in Nat  BY <1>1
<1>6. n = Len(r.samples) /\ DOMAIN r.samples = 1 .. n
  <2> HIDE DEF n
  <2>1. Len([i \in 1 .. n |-> audio.ring[(r.start + i - 1) % Ring]]) = n  BY <1>5
  <2> QED  BY <1>2, <2>1
<1>7. ASSUME NEW i \in 1 .. n
      PROVE  audio.played[r.start + i] = [sample |-> r.samples[i], rate |-> r.rate]
  <2> DEFINE p == r.start + i - 1
  <2>1. /\ p \in 0 .. audio.produced - 1 /\ p >= audio.produced - Ring
        /\ p >= audio.stream_start /\ p + 1 = r.start + i
    <3>1. r.start < r.next  BY <1>1, <1>5
    <3>2. r.start >= audio.stream_start  BY <1>1, <3>1
    <3>3. audio.produced \in Nat /\ audio.stream_start \in Nat  BY <1>3
    <3>4. /\ r.start \in Nat /\ r.next \in Nat /\ r.next <= audio.produced
          /\ r.start >= audio.produced - Ring
      BY <1>1
    <3>5. i \in Nat /\ 1 <= i /\ i <= r.next - r.start  BY <1>5
    <3> QED  BY <1>4, <3>2, <3>3, <3>4, <3>5
  <2>2. r.samples[i] = audio.ring[p % Ring]  BY <1>2, <1>5
  <2> HIDE DEF p, n
  <2>3. /\ audio.ring[p % Ring] = audio.played[p + 1].sample
        /\ audio.played[p + 1].rate = audio.rate
    BY <1>3, <2>1
  <2>4. audio.played[p + 1] \in Played
    <3>1. p + 1 \in 1 .. Len(audio.played)  BY <1>3, <2>1
    <3> QED  BY <1>3, <3>1, ElementOfSeq
  <2>5. r.rate = audio.rate
    <3>1. audio.rate # NoRate  BY <1>3, <2>1
    <3> QED  BY <1>2, <3>1 DEF ShownRate
  <2> QED  BY <2>1, <2>2, <2>3, <2>4, <2>5 DEF Played
<1>8. r.next <= Len(audio.played)  BY <1>1, <1>3
<1>9. AnswerTrue(r)  BY <1>6, <1>7, <1>8 DEF AnswerTrue
<1> QED  BY <1>9 DEF r

\* The page's variables and the messages in flight.
Pages == [cursor : Nat, latest : Nat, stream : Int, rate : Nat, queued : Seq(Nat)]

PumpTypes ==
  /\ pump.stage # "idle" => pump.requested \in Nat
  /\ pump.stage = "answered" =>
       /\ pump.start \in Nat /\ pump.next \in Nat /\ pump.start <= pump.next
       /\ pump.stream \in Nat /\ pump.rate \in Nat /\ pump.resets \in Nat

StatusTypes ==
  status.stage = "answered" =>
    status.cursor \in Nat /\ status.rate \in Nat /\ status.stream \in Nat

\* A stream's number names one of the device's resets: an answer in flight, and
\* what is queued, are of the present stream only if of the present reset.
AnswerDated ==
  pump.stage = "answered" =>
    /\ pump.stream <= audio.stream_id
    /\ pump.stream = audio.stream_id => pump.resets = audio.resets

QueueDated ==
  page.queued # <<>> =>
    /\ page.queued = <<page.queued[1], page.cursor>>
    /\ page.stream <= audio.stream_id
    /\ page.stream = audio.stream_id => page.queued[1] = audio.resets

\* While something is queued the request in flight asks for what follows it.
QueueAsked ==
  page.queued # <<>> =>
    /\ pump.stage # "idle" => pump.requested = page.cursor
    /\ pump.stage = "answered" /\ pump.stream = page.stream => pump.resets = page.queued[1]

PageSound ==
  /\ Sound(audio) /\ page \in Pages /\ PumpTypes /\ StatusTypes
  /\ AnswerDated /\ QueueDated /\ QueueAsked

\* The rate the server names is one.
LEMMA ShownRateType ==
  ASSUME Sound(audio) PROVE ShownRate \in Nat
<1>1. audio.rate \in Rates \cup {NoRate}  BY DEF Sound, Devices
<1> QED  BY <1>1, Sizes DEF ShownRate, NoRate

\* A step of the device makes what is dated at most older.
LEMMA DeviceKeepsPage ==
  ASSUME PageSound, Sound(audio'), Onward(audio, audio'), UNCHANGED <<page, pump, status>>
  PROVE  PageSound'
<1>1. /\ audio.stream_id \in Nat /\ audio'.stream_id \in Nat
      /\ audio'.stream_id >= audio.stream_id
      /\ audio'.stream_id = audio.stream_id => audio'.resets = audio.resets
  BY DEF PageSound, Sound, Devices, Onward
<1>2. (page \in Pages)' /\ PumpTypes' /\ StatusTypes' /\ QueueAsked'
  BY DEF PageSound, PumpTypes, StatusTypes, QueueAsked
<1>3. AnswerDated'
  <2> SUFFICES ASSUME pump.stage = "answered"
               PROVE  /\ pump.stream <= audio'.stream_id
                      /\ pump.stream = audio'.stream_id => pump.resets = audio'.resets
    BY DEF AnswerDated
  <2>1. pump.stream \in Nat /\ pump.stream <= audio.stream_id
        /\ (pump.stream = audio.stream_id => pump.resets = audio.resets)
    BY DEF PageSound, PumpTypes, AnswerDated
  <2> QED  BY <1>1, <2>1
<1>4. QueueDated'
  <2> SUFFICES ASSUME page.queued # <<>>
               PROVE  /\ page.queued = <<page.queued[1], page.cursor>>
                      /\ page.stream <= audio'.stream_id
                      /\ page.stream = audio'.stream_id => page.queued[1] = audio'.resets
    BY DEF QueueDated
  <2>1. /\ page.queued = <<page.queued[1], page.cursor>> /\ page.stream <= audio.stream_id
        /\ page.stream = audio.stream_id => page.queued[1] = audio.resets
    BY DEF PageSound, QueueDated
  <2>2. page.stream \in Int  BY DEF PageSound, Pages
  <2> QED  BY <1>1, <2>1, <2>2
<1> QED  BY <1>2, <1>3, <1>4 DEF PageSound

\* The server answers the request for samples.
LEMMA ServePumpKeepsPage ==
  ASSUME PageSound, ServePump PROVE PageSound'
<1>1. /\ pump.stage = "asked" /\ pump' = AudioAnswer(pump.requested)
      /\ audio' = audio /\ page' = page /\ status' = status
  BY DEF ServePump
<1>2. pump.requested \in Nat  BY <1>1 DEF PageSound, PumpTypes
<1>3. /\ pump'.start \in Nat /\ pump'.next \in Nat /\ pump'.start <= pump'.next
  BY <1>1, <1>2, AnswerRange DEF PageSound
<1>4. /\ pump'.stage = "answered" /\ pump'.requested = pump.requested
      /\ pump'.stream = audio.stream_id /\ pump'.resets = audio.resets
      /\ pump'.rate = ShownRate
  BY <1>1 DEF AudioAnswer
<1>5. audio.stream_id \in Nat /\ audio.resets \in Nat /\ ShownRate \in Nat
  BY ShownRateType DEF PageSound, Sound, Devices
<1>6. PumpTypes' /\ AnswerDated'
  BY <1>1, <1>2, <1>3, <1>4, <1>5 DEF PumpTypes, AnswerDated
<1>7. QueueDated' /\ QueueAsked'
  BY <1>1, <1>4 DEF PageSound, QueueDated, QueueAsked
<1> QED  BY <1>1, <1>6, <1>7 DEF PageSound, StatusTypes

\* The server answers the request for the status.
LEMMA ServeStatusKeepsPage ==
  ASSUME PageSound, ServeStatus PROVE PageSound'
<1>1. /\ status' = [stage |-> "answered", cursor |-> audio.produced, rate |-> ShownRate,
                    stream |-> audio.stream_id]
      /\ audio' = audio /\ page' = page /\ pump' = pump
  BY DEF ServeStatus
<1>2. audio.produced \in Nat /\ audio.stream_id \in Nat /\ ShownRate \in Nat
  BY ShownRateType DEF PageSound, Sound, Devices
<1>3. StatusTypes'  BY <1>1, <1>2 DEF StatusTypes
<1> QED  BY <1>1, <1>3 DEF PageSound, PumpTypes, AnswerDated, QueueDated, QueueAsked

\* The page takes samples: they replace the queue, or continue it.
LEMMA TakePumpKeepsPage ==
  ASSUME PageSound, TakePump PROVE PageSound'
<1> DEFINE queued == IF pump.next > pump.start THEN <<pump.resets, pump.next>>
                     ELSE IF StartsQueue(pump) THEN <<>> ELSE page.queued
<1>1. /\ pump.stage = "answered" /\ pump' = Idle /\ audio' = audio /\ status' = status
      /\ page' = [page EXCEPT !.cursor = pump.next, !.stream = pump.stream, !.rate = pump.rate,
                              !.queued = queued]
  BY DEF TakePump, Pages
<1>2. /\ pump.requested \in Nat /\ pump.start \in Nat /\ pump.next \in Nat
      /\ pump.start <= pump.next /\ pump.stream \in Nat /\ pump.rate \in Nat
      /\ pump.resets \in Nat
  <2>1. pump.stage # "idle"  BY <1>1
  <2> QED  BY <1>1, <2>1 DEF PageSound, PumpTypes
<1>3. page \in Pages /\ page.queued \in Seq(Nat)  BY DEF PageSound, Pages
<1>4. queued \in Seq(Nat)
  <2>1. <<pump.resets, pump.next>> \in Seq(Nat) /\ <<>> \in Seq(Nat)  BY <1>2
  <2> QED  BY <1>3, <2>1
<1>5. \/ queued = <<pump.resets, pump.next>>
      \/ queued = <<>>
      \/ queued = page.queued /\ ~StartsQueue(pump) /\ pump.next = pump.start
  BY <1>2
<1> HIDE DEF queued
<1>6. /\ page' \in Pages /\ page'.cursor = pump.next /\ page'.stream = pump.stream
      /\ page'.queued = queued
  <2> DEFINE new == [page EXCEPT !.cursor = pump.next, !.stream = pump.stream,
                                 !.rate = pump.rate, !.queued = queued]
  <2>1. /\ pump.next \in Nat /\ pump.stream \in Int /\ pump.rate \in Nat
        /\ page \in Pages /\ queued \in Seq(Nat)
    BY <1>2, <1>3, <1>4
  <2>2. new \in Pages /\ new.cursor = pump.next /\ new.stream = pump.stream
        /\ new.queued = queued
    BY <2>1 DEF Pages
  <2>3. page' = new  BY <1>1
  <2> HIDE DEF new
  <2> QED  BY <2>2, <2>3
<1>7. pump'.stage = "idle"  BY <1>1 DEF Idle
<1>8. PumpTypes' /\ AnswerDated' /\ QueueAsked' /\ StatusTypes'
  BY <1>1, <1>7 DEF PageSound, PumpTypes, AnswerDated, QueueAsked, StatusTypes
<1>9. /\ pump.stream <= audio.stream_id
      /\ pump.stream = audio.stream_id => pump.resets = audio.resets
  BY <1>1 DEF PageSound, AnswerDated
<1>10. ASSUME queued # <<>>
       PROVE  queued = <<queued[1], pump.next>> /\ queued[1] = pump.resets
  <2>1. CASE queued = <<pump.resets, pump.next>>  BY <2>1
  <2>2. CASE queued = page.queued /\ ~StartsQueue(pump) /\ pump.next = pump.start
    <3>1. page.queued # <<>>  BY <1>10, <2>2
    <3>2. page.queued = <<page.queued[1], page.cursor>>
      BY <3>1 DEF PageSound, QueueDated
    <3>3. /\ pump.requested = page.cursor
          /\ pump.stream = page.stream => pump.resets = page.queued[1]
      BY <1>1, <3>1 DEF PageSound, QueueAsked
    <3>4. pump.stream = page.stream /\ pump.start = pump.requested
      BY <2>2 DEF StartsQueue
    <3> QED  BY <2>2, <3>2, <3>3, <3>4
  <2> QED  BY <1>5, <1>10, <2>1, <2>2
<1>11. QueueDated'  BY <1>1, <1>6, <1>9, <1>10 DEF QueueDated
<1> QED  BY <1>1, <1>6, <1>8, <1>11 DEF PageSound

\* The page takes the status: another stream empties the queue.
LEMMA TakeStatusKeepsPage ==
  ASSUME PageSound, TakeStatus PROVE PageSound'
<1> DEFINE fresh == [cursor |-> status.cursor, latest |-> status.cursor,
                     stream |-> status.stream, rate |-> status.rate, queued |-> <<>>]
           known == [page EXCEPT !.latest = status.cursor]
<1>1. /\ status.stage = "answered" /\ status' = Idle /\ audio' = audio /\ pump' = pump
      /\ page' = fresh \/ page' = known
  BY DEF TakeStatus
<1>2. /\ status.cursor \in Nat /\ status.rate \in Nat /\ status.stream \in Nat
      /\ page \in Pages
  BY <1>1 DEF PageSound, StatusTypes
<1>3. StatusTypes'  BY <1>1 DEF StatusTypes, Idle
<1>4. PumpTypes' /\ AnswerDated'  BY <1>1 DEF PageSound, PumpTypes, AnswerDated
<1>5. CASE page' = fresh
  <2>1. <<>> \in Seq(Nat)  OBVIOUS
  <2>2. page' \in Pages /\ page'.queued = <<>>  BY <1>2, <1>5, <2>1 DEF Pages
  <2>3. QueueDated' /\ QueueAsked'  BY <2>2 DEF QueueDated, QueueAsked
  <2> QED  BY <1>1, <1>3, <1>4, <2>2, <2>3 DEF PageSound
<1>6. CASE page' = known
  <2>1. /\ page' \in Pages /\ page'.queued = page.queued /\ page'.cursor = page.cursor
        /\ page'.stream = page.stream
    BY <1>2, <1>6 DEF Pages
  <2>2. QueueDated' /\ QueueAsked'
    BY <1>1, <2>1 DEF PageSound, QueueDated, QueueAsked
  <2> QED  BY <1>1, <1>3, <1>4, <2>1, <2>2 DEF PageSound
<1> QED  BY <1>1, <1>5, <1>6

\* The page asks, or its switch is used.
LEMMA AskKeepsPage ==
  ASSUME PageSound, AskPump \/ AskStatus \/ EnableAudio PROVE PageSound'
<1>1. page \in Pages /\ page.cursor \in Nat /\ page.latest \in Nat  BY DEF PageSound, Pages
<1>2. CASE AskPump
  <2>1. /\ pump' = [stage |-> "asked", requested |-> page.cursor]
        /\ audio' = audio /\ page' = page /\ status' = status
    BY <1>2 DEF AskPump
  <2>2. PumpTypes' /\ AnswerDated' /\ QueueAsked'
    BY <1>1, <2>1 DEF PumpTypes, AnswerDated, QueueAsked
  <2> QED  BY <2>1, <2>2 DEF PageSound, StatusTypes, QueueDated
<1>3. CASE AskStatus
  <2>1. /\ status' = [stage |-> "asked"]
        /\ audio' = audio /\ page' = page /\ pump' = pump
    BY <1>3 DEF AskStatus
  <2>2. StatusTypes'  BY <2>1 DEF StatusTypes
  <2> QED  BY <2>1, <2>2 DEF PageSound, PumpTypes, AnswerDated, QueueDated, QueueAsked
<1>4. CASE EnableAudio
  <2>1. /\ page' = [page EXCEPT !.cursor = page.latest, !.queued = <<>>]
        /\ audio' = audio /\ pump' = pump /\ status' = status
    BY <1>4 DEF EnableAudio
  <2>2. <<>> \in Seq(Nat)  OBVIOUS
  <2>3. page' \in Pages /\ page'.queued = <<>>  BY <1>1, <2>1, <2>2 DEF Pages
  <2>4. QueueDated' /\ QueueAsked'  BY <2>3 DEF QueueDated, QueueAsked
  <2> QED  BY <2>1, <2>3, <2>4 DEF PageSound, PumpTypes, StatusTypes, AnswerDated
<1> QED  BY <1>2, <1>3, <1>4

\* Every step of the system keeps the page's invariant.
LEMMA StepPage ==
  ASSUME PageSound, [Next]_vars PROVE PageSound'
<1>1. CASE Guest \/ Tick
  <2>1. Sound(audio') /\ Onward(audio, audio')
    <3>1. Sound(audio)  BY DEF PageSound
    <3> QED  BY <3>1, StepSound
  <2>2. \A a : Device(a) => UNCHANGED <<page, pump, status>>  BY DEF Device
  <2>3. CASE Tick  BY <2>1, <2>2, <2>3, DeviceKeepsPage DEF Tick
  <2>4. CASE Guest
    <3>1. \A reset, txen, irqtx :
            WriteConfig(reset, txen, irqtx) => UNCHANGED <<page, pump, status>>
      BY <2>2, Zenon DEF WriteConfig
    <3>2. WriteFifoClear => UNCHANGED <<page, pump, status>>
      BY <2>2 DEF WriteFifoClear
    <3>3. \A left, right : WriteFifo(left) \/ WriteFifoPair(left, right)
            => UNCHANGED <<page, pump, status>>
      BY <2>2, Zenon DEF WriteFifo, WriteFifoPair
    <3>4. \A rate, audible : WriteCodec(rate, audible) => UNCHANGED <<page, pump, status>>
      BY <2>2, Zenon DEF WriteCodec
    <3>5. \A c, base, words, interrupts :
            StartChannel(c, base, words, interrupts) => UNCHANGED <<page, pump, status>>
      BY <2>2, Zenon DEF StartChannel
    <3>6. \A c, interrupts :
            StopChannel(c, interrupts) => UNCHANGED <<page, pump, status>>
      BY DEF StopChannel, Device
    <3>7. \A c : ReadStatus(c) => UNCHANGED <<page, pump, status>>
      BY <2>2, Zenon DEF ReadStatus
    <3>8. UNCHANGED <<page, pump, status>>
      BY <2>4, <3>1, <3>2, <3>3, <3>4, <3>5, <3>6, <3>7 DEF Guest
    <3> QED  BY <2>1, <3>8, DeviceKeepsPage
  <2> QED  BY <1>1, <2>3, <2>4
<1>2. CASE ServePump  BY <1>2, ServePumpKeepsPage
<1>3. CASE ServeStatus  BY <1>3, ServeStatusKeepsPage
<1>4. CASE Page
  BY <1>4, AskKeepsPage, TakePumpKeepsPage, TakeStatusKeepsPage DEF Page
<1>5. CASE UNCHANGED vars
  <2>1. audio' = audio /\ page' = page /\ pump' = pump /\ status' = status
    BY <1>5 DEF vars
  <2> QED
    BY <2>1 DEF PageSound, PumpTypes, StatusTypes, AnswerDated, QueueDated, QueueAsked
<1> QED  BY <1>1, <1>2, <1>3, <1>4, <1>5 DEF Next

\* Streams, answers and the queue of the page fit together.
THEOREM PageSoundCorrect == Spec => []PageSound
<1>1. Init => PageSound
  <2> SUFFICES ASSUME Init PROVE PageSound  OBVIOUS
  <2>1. audio = Start /\ page = NoPage /\ pump = Idle /\ status = Idle  BY DEF Init
  <2>2. <<>> \in Seq(Nat)  OBVIOUS
  <2>3. page \in Pages /\ page.queued = <<>>  BY <2>1, <2>2 DEF NoPage, Pages, NoRate
  <2>4. pump.stage = "idle" /\ status.stage = "idle"  BY <2>1 DEF Idle
  <2>5. PumpTypes /\ StatusTypes /\ AnswerDated /\ QueueDated /\ QueueAsked
    BY <2>3, <2>4 DEF PumpTypes, StatusTypes, AnswerDated, QueueDated, QueueAsked
  <2> QED  BY <2>1, <2>3, <2>5, StartSound DEF PageSound
<1>2. PageSound /\ [Next]_vars => PageSound'  BY StepPage
<1> QED  BY <1>1, <1>2, PTL DEF Spec

\* What the page queues was played, at the rate it is told, and goes on where
\* the queue ends or replaces it.
THEOREM PageHearsPlayedCorrect == Spec => PageHearsPlayed
<1> DEFINE Heard ==
      /\ ServePump => AnswerTrue(pump')
      /\ TakePump /\ page.queued # <<>> /\ ~StartsQueue(pump)
           => page.queued = <<pump.resets, pump.start>>
<1>1. ASSUME PageSound PROVE Heard
  <2>1. ASSUME ServePump PROVE AnswerTrue(pump')
    <3>1. pump.stage = "asked" /\ pump' = AudioAnswer(pump.requested)
      BY <2>1 DEF ServePump
    <3>2. pump.requested \in Nat /\ Sound(audio)  BY <1>1, <3>1 DEF PageSound, PumpTypes
    <3> QED  BY <3>1, <3>2, AnswersTrue
  <2>2. ASSUME TakePump, page.queued # <<>>, ~StartsQueue(pump)
        PROVE  page.queued = <<pump.resets, pump.start>>
    <3>1. pump.stage = "answered"  BY <2>2 DEF TakePump
    <3>2. pump.stream = page.stream /\ pump.start = pump.requested
      BY <2>2 DEF StartsQueue
    <3>3. pump.requested = page.cursor /\ pump.resets = page.queued[1]
      BY <1>1, <2>2, <3>1, <3>2 DEF PageSound, QueueAsked
    <3>4. page.queued = <<page.queued[1], page.cursor>>
      BY <1>1, <2>2 DEF PageSound, QueueDated
    <3> QED  BY <3>2, <3>3, <3>4
  <2> QED  BY <2>1, <2>2
<1>2. PageSound => [Heard]_vars  BY <1>1
<1> QED  BY <1>2, PageSoundCorrect, PTL DEF PageHearsPlayed
=============================================================================
