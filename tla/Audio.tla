--------------------------------- MODULE Audio ---------------------------------
(***************************************************************************)
(* Sound, from the guest's memory to the ears of the page: the DMA         *)
(* channels that feed the IIS transmitter (dev_dma.c), its FIFO, clock and *)
(* PCM ring (dev_i2s.c), the server's answers and the script of the page   *)
(* that polls them (web_frontend.c).                                       *)
(*                                                                         *)
(* A tick of the bus drains the FIFO at the codec's rate and then lets the *)
(* channels fill it.  The page keeps one request for samples and one for   *)
(* the status in flight, and their answers arrive in any order.            *)
(*                                                                         *)
(* Abstractions.  A sample is a number, 0 is silence, and the codec's gain *)
(* leaves it alone.  RAM word a holds the samples 2a + 1 and 2a + 2.       *)
(* Transfers are counted in words.  The diagnostic counters, the register  *)
(* reads without effect and the page's timing of its buffers are left out. *)
(***************************************************************************)
EXTENDS Integers, Sequences

CONSTANTS
  Depth,       \* N1G_I2S_TX_DEPTH: halfwords in the transmit FIFO
  Ring,        \* N1G_AUDIO_RING_HALFWORDS
  Chunk,       \* most halfwords in one answer
  Unit,        \* 1000000: what one halfword takes of drain_acc
  Rates,       \* sample rates of the codec
  Step,        \* per rate: what a tick adds to drain_acc
  Default,     \* 44100, the rate shown before the first tick
  RamWords,    \* words backed by RAM; a source beyond them reads nothing
  Samples,     \* values the guest pushes itself
  Channels,    \* 4: number of DMA channels
  MaxWords,    \* longest transfer
  MaxProduced  \* bound of the instance: halfwords played

ASSUME AudioAssumption ==
  /\ \A n \in {Depth, Ring, Chunk} : n \in Nat \ {0} /\ n % 2 = 0
  /\ Chunk < Ring   \* the oldest sample may be half of a pair
  /\ Unit \in Nat \ {0} /\ Rates \subseteq Nat \ {0} /\ Step \in [Rates -> Nat]
  /\ Default \in Rates
  /\ {RamWords, Channels, MaxWords, MaxProduced} \subseteq Nat
  /\ Samples \subseteq Nat \ {0}

VARIABLES
  audio,    \* the device: s.i2s, s.dma.ch and the codec's rate and output
  page,     \* the script's audio_cursor, audio_latest, audio_stream, audio_rate
  pump,     \* the request for samples in flight, or its answer
  status    \* the request for the status in flight, or its answer

vars == <<audio, page, pump, status>>

Silence == 0
NoRate  == 0

Smaller(a, b) == IF a < b THEN a ELSE b
Larger(a, b)  == IF a > b THEN a ELSE b
RoundUp(n)    == n + (n % 2)

Channel ==
  [base |-> 0, words |-> 0, interrupts |-> FALSE, active |-> FALSE, addr |-> 0,
   left |-> 0, intr |-> FALSE,
   moved |-> <<>>,       \* history: addresses this transfer has moved
   owed  |-> FALSE]      \* history: complete, and the guest has not been told

Start ==
  [txen |-> FALSE, irqtx |-> FALSE, tx_line |-> FALSE, dma_line |-> FALSE,
   slot |-> [i \in 0 .. Depth - 1 |-> Silence], head |-> 0, tail |-> 0, fill |-> 0,
   acc |-> 0,
   ring |-> [i \in 0 .. Ring - 1 |-> Silence], produced |-> 0,
   stream_start |-> 0, stream_id |-> 0, rate |-> NoRate,
   codec |-> Default, audible |-> TRUE,
   ch |-> [c \in 0 .. Channels - 1 |-> Channel],
   waiting |-> <<>>,     \* history: samples accepted and not yet played
   played  |-> <<>>,     \* history: since the transmitter was reset
   resets  |-> 0,        \* history: resets of the transmitter
   elapsed |-> 0, since |-> 0]   \* history: of drain_acc and samples since the clock was reset

-----------------------------------------------------------------------------
(***************************************************************************)
(* The transmitter.                                                        *)
(***************************************************************************)
Free(a) == Depth - a.fill

\* i2s_update_irq
UpdateTx(a) == [a EXCEPT !.tx_line = a.irqtx /\ a.txen /\ Free(a) >= 2]

\* dma_irq_sync.  Mutation: the channel that changed decides alone.
SyncDma_OneChannel(a, c) == [a EXCEPT !.dma_line = a.ch[c].intr]
SyncDma(a, c) == [a EXCEPT !.dma_line = \E d \in 0 .. Channels - 1 : a.ch[d].intr]

StopClock(a) == [a EXCEPT !.acc = 0, !.elapsed = 0, !.since = 0]

\* Mutation: only the fill is cleared.
ClearFifo_KeepsTail(a) == [a EXCEPT !.fill = 0, !.head = 0, !.waiting = <<>>]
ClearFifo(a) == [a EXCEPT !.fill = 0, !.head = 0, !.tail = 0, !.waiting = <<>>]

PushTx(a, sample) ==
  IF a.fill = Depth THEN a
  ELSE [a EXCEPT !.slot[a.tail] = sample, !.tail = (@ + 1) % Depth, !.fill = @ + 1,
                 !.waiting = Append(@, sample)]

\* Another rate starts another stream, at the next left sample.
SyncRate(a) ==
  IF a.rate \in {NoRate, a.codec} THEN [a EXCEPT !.rate = a.codec]
  ELSE StopClock([a EXCEPT !.rate = a.codec, !.stream_start = RoundUp(a.produced),
                           !.stream_id = @ + 1])

\* One sample of the tick's loop; an empty FIFO plays silence.
PlaySample(a) ==
  LET sample == IF a.fill > 0 /\ a.audible THEN a.slot[a.head] ELSE Silence
      due    == IF a.waiting # <<>> /\ a.audible THEN Head(a.waiting) ELSE Silence
      taken  == IF a.fill = 0 THEN a
                ELSE [a EXCEPT !.head = (@ + 1) % Depth, !.fill = @ - 1]
  IN  [taken EXCEPT !.ring[a.produced % Ring] = sample, !.produced = @ + 1,
                    !.waiting = IF @ = <<>> THEN <<>> ELSE Tail(@),
                    !.played = Append(@, [sample |-> due, rate |-> a.codec]),
                    !.since = @ + 1]

PlaySamples(a, n) ==
  LET after[i \in 0 .. n] == IF i = 0 THEN a ELSE PlaySample(after[i - 1])
  IN  after[n]

\* Mutation: the fraction of a sample is dropped.
Keep_Nothing(acc) == 0
Keep(acc) == acc % Unit

TickI2s(a) ==
  IF ~a.txen THEN StopClock(a)
  ELSE LET s     == SyncRate(a)
           acc   == s.acc + Step[s.rate]
           timed == [s EXCEPT !.acc = Keep(acc), !.elapsed = @ + Step[s.rate]]
       IN  UpdateTx(PlaySamples(timed, acc \div Unit))

(***************************************************************************)
(* A channel, audio_ch_run: words move while there is room for one; a word *)
(* that RAM does not back stops the channel and tells nobody.              *)
(***************************************************************************)
MoveWord(a, c) ==
  LET addr == a.ch[c].addr
  IN  UpdateTx(PushTx(PushTx([a EXCEPT !.ch[c].addr = @ + 1, !.ch[c].left = @ - 1,
                                       !.ch[c].moved = Append(@, addr)],
                             2 * addr + 1), 2 * addr + 2))

Movable(a, c) ==
  Smaller(Smaller(a.ch[c].left, Free(a) \div 2), Larger(RamWords - a.ch[c].addr, 0))

MoveWords(a, c) ==
  LET after[i \in 0 .. Movable(a, c)] == IF i = 0 THEN a ELSE MoveWord(after[i - 1], c)
  IN  after[Movable(a, c)]

Complete(k) == k.left = 0

Whole(k) == [i \in 1 .. k.words |-> k.base + i - 1]

RunChannel(a, c) ==
  LET m == MoveWords(a, c)
      k == m.ch[c]
  IN  IF ~a.ch[c].active THEN a
      ELSE IF ~Complete(k) THEN [m EXCEPT !.ch[c].active = Free(m) < 2]
      ELSE IF ~k.interrupts THEN [m EXCEPT !.ch[c].active = FALSE]
      ELSE SyncDma([m EXCEPT !.ch[c].active = FALSE, !.ch[c].intr = TRUE,
                             !.ch[c].owed = @ \/ k.moved = Whole(k)], c)

TickDma(a) ==
  LET after[c \in 0 .. Channels] == IF c = 0 THEN a ELSE RunChannel(after[c - 1], c - 1)
  IN  after[Channels]

-----------------------------------------------------------------------------
(***************************************************************************)
(* The page.                                                               *)
(***************************************************************************)
Idle == [stage |-> "idle"]

NoPage == [cursor |-> 0, latest |-> 0, stream |-> -1, rate |-> NoRate,
           queued |-> <<>>]  \* history: the last sample queued, as <<resets, position>>

Init ==
  /\ audio = Start
  /\ page = NoPage /\ pump = Idle /\ status = Idle

Device(a) ==
  /\ a.produced <= MaxProduced
  /\ audio' = a
  /\ UNCHANGED <<page, pump, status>>

(***************************************************************************)
(* Guest accesses.                                                         *)
(***************************************************************************)
\* IISCONFIG with RESET clears the FIFO and the ring and starts another stream;
\* whoever clears TXFIFOEN stops the clock.
ClearRing(a) ==
  [a EXCEPT !.ring = [i \in 0 .. Ring - 1 |-> Silence], !.produced = 0, !.stream_start = 0,
            !.rate = a.codec, !.stream_id = @ + 1, !.played = <<>>, !.resets = @ + 1]

WriteConfig(reset, txen, irqtx) ==
  LET cleared == IF reset THEN ClearRing(StopClock(ClearFifo(audio))) ELSE audio
      written == [cleared EXCEPT !.txen = txen, !.irqtx = irqtx]
  IN  Device(UpdateTx(IF audio.txen /\ ~txen THEN StopClock(written) ELSE written))

WriteFifoClear == Device(UpdateTx(ClearFifo(audio)))

\* A 16-bit or a 32-bit write of IISFIFO_WR; what does not fit is lost.
WriteFifo(sample)         == Device(UpdateTx(PushTx(audio, sample)))
WriteFifoPair(left, right) == Device(UpdateTx(PushTx(PushTx(audio, left), right)))

\* The codec's registers, through I2C: the rate is taken over at the next tick.
WriteCodec(rate, audible) == Device([audio EXCEPT !.codec = rate, !.audible = audible])

\* A command word with START, and the first words at once.
StartChannel(c, base, words, interrupts) ==
  Device(RunChannel([audio EXCEPT !.ch[c] =
    [base |-> base, words |-> words, interrupts |-> interrupts, active |-> TRUE,
     addr |-> base, left |-> words, intr |-> @.intr, moved |-> <<>>, owed |-> @.owed]], c))

\* A command word without it; an interrupt survives if the word still asks for one.
StopChannel(c, interrupts) ==
  LET k == audio.ch[c]
      a == [audio EXCEPT !.ch[c].active = FALSE, !.ch[c].interrupts = interrupts,
                         !.ch[c].intr = k.intr /\ interrupts,
                         !.ch[c].owed = k.owed /\ interrupts]
  IN  Device(IF interrupts THEN a ELSE SyncDma(a, c))

\* Reading the status acknowledges the interrupt.
ReadStatus(c) ==
  Device(SyncDma([audio EXCEPT !.ch[c].intr = FALSE, !.ch[c].owed = FALSE], c))

Tick == Device(TickDma(TickI2s(audio)))

(***************************************************************************)
(* The server, between two ticks.                                          *)
(***************************************************************************)
ShownRate == IF audio.rate = NoRate THEN Default ELSE audio.rate

Oldest(produced) == RoundUp(Larger(audio.stream_start, Larger(produced - Ring, 0)))

\* send_audio_pcm: whole pairs, from the cursor if the ring still has it.
AudioAnswer(cursor) ==
  LET produced == audio.produced - (audio.produced % 2)
      wanted   == RoundUp(Smaller(Larger(cursor, Oldest(produced)), produced))
      start    == Larger(wanted, produced - Chunk)
  IN  [stage |-> "answered", requested |-> cursor, start |-> start, next |-> produced,
       rate |-> ShownRate, stream |-> audio.stream_id, resets |-> audio.resets,
       samples |-> [i \in 1 .. produced - start |-> audio.ring[(start + i - 1) % Ring]]]

ServePump ==
  /\ pump.stage = "asked"
  /\ pump' = AudioAnswer(pump.requested)
  /\ UNCHANGED <<audio, page, status>>

ServeStatus ==
  /\ status.stage = "asked"
  /\ status' = [stage |-> "answered", cursor |-> audio.produced, rate |-> ShownRate,
                stream |-> audio.stream_id]
  /\ UNCHANGED <<audio, page, pump>>

(***************************************************************************)
(* The script.                                                             *)
(***************************************************************************)
AskPump ==
  /\ pump = Idle
  /\ pump' = [stage |-> "asked", requested |-> page.cursor]
  /\ UNCHANGED <<audio, page, status>>

\* The answer replaces what is queued unless it goes on where the request stood.
\* Mutation: the stream is not compared.
StartsQueue_SameRate(r) == r.rate # page.rate \/ r.start # r.requested
StartsQueue(r) == r.stream # page.stream \/ r.rate # page.rate \/ r.start # r.requested

TakePump ==
  /\ pump.stage = "answered"
  /\ page' = [page EXCEPT !.cursor = pump.next, !.stream = pump.stream, !.rate = pump.rate,
               !.queued = IF pump.next > pump.start THEN <<pump.resets, pump.next>>
                          ELSE IF StartsQueue(pump) THEN <<>> ELSE @]
  /\ pump' = Idle
  /\ UNCHANGED <<audio, status>>

AskStatus ==
  /\ status = Idle
  /\ status' = [stage |-> "asked"]
  /\ UNCHANGED <<audio, page, pump>>

TakeStatus ==
  /\ status.stage = "answered"
  /\ LET other == \/ status.stream # page.stream \/ status.rate # page.rate
                  \/ status.cursor < page.latest
     IN  page' = IF other
                 THEN [cursor |-> status.cursor, latest |-> status.cursor,
                       stream |-> status.stream, rate |-> status.rate, queued |-> <<>>]
                 ELSE [page EXCEPT !.latest = status.cursor]
  /\ status' = Idle
  /\ UNCHANGED <<audio, pump>>

\* The page's audio switch.
EnableAudio ==
  /\ page' = [page EXCEPT !.cursor = page.latest, !.queued = <<>>]
  /\ UNCHANGED <<audio, pump, status>>

Guest ==
  \/ \E reset, txen, irqtx \in BOOLEAN : WriteConfig(reset, txen, irqtx)
  \/ WriteFifoClear
  \/ \E sample \in Samples : WriteFifo(sample)
  \/ \E left, right \in Samples : WriteFifoPair(left, right)
  \/ \E rate \in Rates, audible \in BOOLEAN : WriteCodec(rate, audible)
  \/ \E c \in 0 .. Channels - 1 :
       \/ \E base \in 0 .. RamWords, words \in 1 .. MaxWords, interrupts \in BOOLEAN :
            StartChannel(c, base, words, interrupts)
       \/ \E interrupts \in BOOLEAN : StopChannel(c, interrupts)
       \/ ReadStatus(c)

Page == AskPump \/ TakePump \/ AskStatus \/ TakeStatus \/ EnableAudio

Next == Guest \/ Tick \/ ServePump \/ ServeStatus \/ Page

Spec == Init /\ [][Next]_vars
-----------------------------------------------------------------------------
(***************************************************************************)
(* Properties.                                                             *)
(***************************************************************************)

\* The circular FIFO is a queue: what it holds, from the head, are the samples
\* accepted and neither played nor cleared, in order, whoever pushed them.
FifoIsQueue ==
  /\ audio.fill = Len(audio.waiting)
  /\ \A i \in 1 .. audio.fill : audio.slot[(audio.head + i - 1) % Depth] = audio.waiting[i]

\* The interrupt lines tell the guest what it waits for: room for two halfwords,
\* and a transfer that moved its whole buffer in order and was not yet
\* acknowledged, whatever the other channels do.
InterruptsHonest ==
  /\ audio.tx_line <=> audio.irqtx /\ audio.txen /\ Depth - Len(audio.waiting) >= 2
  /\ audio.dma_line <=> \E c \in 0 .. Channels - 1 : audio.ch[c].owed

\* Playback keeps the guest's time: since the clock was started as many samples
\* were played as the rate makes of the ticks, with no fraction lost.
KeepsTime == audio.since = audio.elapsed \div Unit

\* An answer holds what was played at the positions it names, at the rate it
\* names.
AnswerTrue(r) ==
  /\ r.next - r.start = Len(r.samples) /\ r.next <= Len(audio.played)
  /\ \A i \in DOMAIN r.samples :
       audio.played[r.start + i] = [sample |-> r.samples[i], rate |-> r.rate]

\* What the page queues is true, and continues what it has queued or replaces
\* it, in whatever order the answers to its two requests arrive.
PageHearsPlayed ==
  [][/\ ServePump => AnswerTrue(pump')
     /\ TakePump /\ page.queued # <<>> /\ ~StartsQueue(pump)
          => page.queued = <<pump.resets, pump.start>>]_vars
=============================================================================
