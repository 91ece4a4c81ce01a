----------------------------------- MODULE Lcd -----------------------------------
(***************************************************************************)
(* The LCD controller (dev_lcd2.c), the DMA channel that feeds it          *)
(* (dev_dma.c), and a guest's driver that draws frames into windows of the *)
(* panel: pixel by pixel through the command port, in a block of words, or *)
(* in a block the channel fills.                                           *)
(*                                                                         *)
(* Apple's firmware arms the channel and starts the block in either order, *)
(* and the emulator's tick, which may come between any two writes, serves  *)
(* the request once the two agree.  Rockbox needs no tick.                 *)
(*                                                                         *)
(* Abstractions.  A byte has Base values, a pixel is two bytes and a word  *)
(* two pixels.  One channel, aimed at the block's data port; the audio     *)
(* channels are in Audio.  The lists of the firmware's DMA manager that    *)
(* apple_dma_link_service edits are one flag.  Ready flags of the          *)
(* controller are not kept: its registers always read as ready.  The count *)
(* of a block fits its 16 bits, as that of the whole panel does.           *)
(***************************************************************************)
EXTENDS Integers, Sequences

CONSTANTS
  PanelWidth, GramHeight,   \* 176 and 136
  PanelHeight,              \* 132
  Base,
  Profiles,       \* of the firmware: "apple" and "rockbox"
  Boxes,          \* windows a driver draws: [x0, x1, y0, y1]
  Frames          \* what it draws

ASSUME LcdAssumption ==
  /\ {PanelWidth, GramHeight, Base} \subseteq Nat \ {0}
  /\ PanelHeight \in 2..GramHeight /\ Profiles \subseteq {"apple", "rockbox"}
  /\ Boxes # {} /\ Frames \subseteq Nat
  /\ Boxes \subseteq [x0 : 0..PanelWidth - 1, x1 : 0..PanelWidth - 1,
                     y0 : 0..GramHeight - 1, y1 : 0..GramHeight - 1]
  /\ \A b \in Boxes : b.x0 <= b.x1 /\ b.y0 <= b.y1

VARIABLES
  profile,
  lcd,      \* s.lcd2
  chan,     \* the channel: s.dma and its interrupt bit
  artist,   \* the guest's driver
  before    \* history: the panel when the frame was begun

lcdVars == <<profile, lcd, chan, artist, before>>

Places == (0..PanelWidth - 1) \X (0..GramHeight - 1)

NoByte == -1
Panel ==
  [pixels |-> [p \in Places |-> 0],
   x0 |-> 0, x1 |-> 0, y0 |-> 0, y1 |-> 0,     \* the window
   x |-> 0, y |-> 0,                           \* the cursor
   command |-> "none", hi |-> NoByte,          \* pending_data_hi
   config |-> 0, remaining |-> 0]

Channel == [wait |-> FALSE, words |-> 0, ram |-> <<>>, aimed |-> FALSE,
            armed |-> FALSE, linked |-> FALSE, intr |-> FALSE]

-----------------------------------------------------------------------------
(***************************************************************************)
(* The controller.                                                         *)
(***************************************************************************)
AtMost(a, b) == IF a > b THEN b ELSE a
AtLeast(a, b) == IF a < b THEN b ELSE a

\* A window that ends at the origin counts as not set.
InitWindow(l) ==
  IF l.x1 = 0 /\ l.y1 = 0
  THEN [l EXCEPT !.x0 = 0, !.y0 = 0, !.x1 = PanelWidth - 1, !.y1 = PanelHeight - 1] ELSE l

ClampWindow(l) ==
  LET x0 == AtMost(l.x0, PanelWidth - 1)
      y0 == AtMost(l.y0, GramHeight - 1)
  IN  [l EXCEPT !.x0 = x0, !.x1 = AtLeast(AtMost(@, PanelWidth - 1), x0),
                !.y0 = y0, !.y1 = AtLeast(AtMost(@, GramHeight - 1), y0)]

SetCursor(l, x, y) == [l EXCEPT !.x = AtMost(x, PanelWidth - 1), !.y = AtMost(y, GramHeight - 1)]

PushPixel(before_, pixel) ==
  LET l    == InitWindow(before_)
      wrap == l.x + 1 > l.x1 \/ l.x + 1 >= PanelWidth
      down == l.y + 1 > l.y1 \/ l.y + 1 >= GramHeight
  IN  [l EXCEPT !.pixels = IF <<l.x, l.y>> \in Places THEN [@ EXCEPT ![<<l.x, l.y>>] = pixel] ELSE @,
                !.x = IF wrap THEN l.x0 ELSE @ + 1,
                !.y = IF ~wrap THEN @ ELSE IF down THEN l.y0 ELSE @ + 1]

Swap(hi, lo) == lo * Base + hi

CommandData(before_, hi, lo) ==
  LET l == InitWindow(before_)
  IN  CASE l.command = "horizontal" -> ClampWindow([l EXCEPT !.x0 = lo, !.x1 = hi])
        [] l.command = "vertical"   -> ClampWindow([l EXCEPT !.y0 = lo, !.y1 = hi])
        [] l.command = "cursor"     -> SetCursor(l, lo, hi)
        [] l.command = "gram"       -> PushPixel(l, Swap(hi, lo))
        [] OTHER -> l

\* lcd2_write_port: the bytes of a command's data come in pairs, and a command
\* forgets one that has come alone.
PortByte(l, byte) ==
  IF l.hi = NoByte THEN [l EXCEPT !.hi = byte]
  ELSE CommandData([l EXCEPT !.hi = NoByte], l.hi, byte)
PortSelect(l) == [l EXCEPT !.hi = NoByte]
PortCommand(l, command) == [l EXCEPT !.hi = NoByte, !.command = command]

StartBlock(l) == [InitWindow(l) EXCEPT !.remaining = (l.config + 1) \div 2]

\* A word beyond the block is dropped for Apple; for Rockbox it is two more
\* pixels.  The second half of an odd block's last word is dropped.
PushWord(l, word) ==
  LET one == PushPixel(l, word[1])
      two == PushPixel(one, word[2])
  IN  CASE l.remaining = 0 -> IF profile = "apple" THEN l ELSE two
        [] l.remaining = 1 -> [one EXCEPT !.remaining = 0]
        [] OTHER           -> [two EXCEPT !.remaining = @ - 2]

-----------------------------------------------------------------------------
(***************************************************************************)
(* The channel.                                                            *)
(***************************************************************************)

\* Apple's request: armed, and the block as long as the descriptor.  Mutation:
\* the channel need not be armed again.
Requested_Unarmed(l, c) == profile # "apple" \/ (l.remaining # 0 /\ l.remaining = 2 * c.words)
Requested(l, c) == profile # "apple" \/ (c.armed /\ l.remaining # 0 /\ l.remaining = 2 * c.words)

Transfers(l, c) == c.wait /\ c.aimed /\ Requested(l, c)

TransferLcd(l, c) ==
  IF ~Transfers(l, c) THEN l
  ELSE LET after[k \in 0..c.words] == IF k = 0 THEN l ELSE PushWord(after[k - 1], c.ram[k])
       IN  after[c.words]

TransferChannel(l, c) ==
  IF ~Transfers(l, c) THEN c
  ELSE IF profile = "apple" THEN [c EXCEPT !.armed = FALSE, !.linked = TRUE, !.intr = TRUE]
  ELSE [c EXCEPT !.wait = FALSE]

\* Any write to a channel's register, and for Rockbox the transfer at once.
WriteChannel(c) ==
  IF profile = "apple" THEN chan' = c /\ UNCHANGED lcd
  ELSE chan' = TransferChannel(lcd, c) /\ lcd' = TransferLcd(lcd, c)

Command(c, wait, words) ==
  [c EXCEPT !.wait = wait, !.words = words, !.armed = profile = "apple" /\ wait]

-----------------------------------------------------------------------------
(***************************************************************************)
(* The driver.                                                             *)
(***************************************************************************)
Width(b) == b.x1 - b.x0 + 1
Pixels(b) == Width(b) * (b.y1 - b.y0 + 1)

\* The k-th pixel of a frame, from 0, and the words it is sent in.
Pixel(frame, k) == frame * Base + k + 1
Words(b, frame) ==
  [i \in 1..(Pixels(b) + 1) \div 2 |-> <<Pixel(frame, 2 * i - 2), Pixel(frame, 2 * i - 1)>>]

Write(reg, val) == [reg |-> reg, val |-> val]
Send(command) == <<Write("select", 0), Write("command", command)>>
Set(command, hi, lo) == Send(command) \o <<Write("byte", hi), Write("byte", lo)>>

Aim(b) == Set("horizontal", b.x1, b.x0) \o Set("vertical", b.y1, b.y0)
            \o Set("cursor", b.y0, b.x0) \o Send("gram")

Block(b) == <<Write("config", 2 * Pixels(b) - 1), Write("start", 0)>>
Arm(b, frame) ==
  <<Write("ram", Words(b, frame)), Write("per", TRUE), Write("cmd", Len(Words(b, frame)))>>

\* A byte of a pixel, low one first as the port swaps them.
PixelBytes(b, frame) ==
  [i \in 1..2 * Pixels(b) |->
     LET pixel == Pixel(frame, (i - 1) \div 2)
     IN  Write("byte", IF i % 2 = 1 THEN pixel % Base ELSE pixel \div Base)]

Program(way, b, frame) ==
  Aim(b) \o
  CASE way = "pixels"    -> PixelBytes(b, frame)
    [] way = "words"     -> Block(b) \o [i \in DOMAIN Words(b, frame) |->
                                           Write("word", Words(b, frame)[i])]
    [] way = "blockThenArm" -> Block(b) \o Arm(b, frame)
    [] way = "armThenBlock" -> Arm(b, frame) \o Block(b)

\* A descriptor is whole words, and the channel of Rockbox does not wait.
Fits(way, b) ==
  /\ way \in {"blockThenArm", "armThenBlock"} /\ profile = "apple" => Pixels(b) % 2 = 0
  /\ way = "armThenBlock" => profile = "apple"

\* A guest that never asks for a window one column wide at the left edge, or never
\* for one a row high at the top: from a window of the second kind to one of the
\* first, the window ends at the origin on the way and counts as not set.
ClearOfOrigin == (\A b \in Boxes : b.x1 # 0) \/ (\A b \in Boxes : b.y1 # 0)

Resting == [way |-> "none", box |-> CHOOSE b \in Boxes : TRUE, frame |-> 0, pc |-> 0]

LcdInit ==
  /\ profile \in Profiles
  /\ lcd = Panel /\ chan = Channel /\ artist = Resting
  /\ before = Panel.pixels

BeginFrame(way, b, frame) ==
  /\ artist.pc = 0 /\ frame > artist.frame /\ Fits(way, b)
  /\ artist' = [way |-> way, box |-> b, frame |-> frame, pc |-> 1]
  /\ before' = lcd.pixels
  /\ UNCHANGED <<profile, lcd, chan>>

Writes == Program(artist.way, artist.box, artist.frame)
Waits == artist.way \in {"blockThenArm", "armThenBlock"} /\ profile = "apple"

\* One write; after the last the driver rests, or waits for its interrupt.
WriteLcd(reg) ==
  /\ artist.pc # 0 /\ artist.pc \in DOMAIN Writes /\ Writes[artist.pc].reg = reg
  /\ artist' = [artist EXCEPT !.pc =
                  IF artist.pc < Len(Writes) \/ Waits THEN artist.pc + 1 ELSE 0]
  /\ UNCHANGED <<profile, before>>

Value == Writes[artist.pc].val

WriteSelect  == WriteLcd("select")  /\ lcd' = PortSelect(lcd) /\ UNCHANGED chan
WriteCommand == WriteLcd("command") /\ lcd' = PortCommand(lcd, Value) /\ UNCHANGED chan
WriteByteOut   == WriteLcd("byte")    /\ lcd' = PortByte(lcd, Value) /\ UNCHANGED chan
WriteConfigOut == WriteLcd("config")  /\ lcd' = [lcd EXCEPT !.config = Value] /\ UNCHANGED chan
WriteStart   == WriteLcd("start")   /\ lcd' = StartBlock(lcd) /\ UNCHANGED chan
WriteWord    == WriteLcd("word")    /\ lcd' = PushWord(lcd, Value) /\ UNCHANGED chan
WriteRam     == WriteLcd("ram")     /\ WriteChannel([chan EXCEPT !.ram = Value])
WritePer     == WriteLcd("per")     /\ WriteChannel([chan EXCEPT !.aimed = Value])
WriteCmd     == WriteLcd("cmd")     /\ WriteChannel(Command(chan, TRUE, Value))

\* Apple's handler reads the status, which acknowledges, and takes the record off
\* the list.
TakeTransfer ==
  /\ artist.pc # 0 /\ artist.pc > Len(Writes) /\ chan.intr /\ chan.linked
  /\ chan' = [chan EXCEPT !.intr = FALSE, !.linked = FALSE]
  /\ artist' = [artist EXCEPT !.pc = 0]
  /\ UNCHANGED <<profile, lcd, before>>

TickLcd ==
  /\ lcd' = TransferLcd(lcd, chan) /\ chan' = TransferChannel(lcd, chan)
  /\ UNCHANGED <<profile, artist, before>>

LcdWrite == WriteSelect \/ WriteCommand \/ WriteByteOut \/ WriteConfigOut \/ WriteStart \/ WriteWord
              \/ WriteRam \/ WritePer \/ WriteCmd

LcdNext ==
  \/ \E way \in {"pixels", "words", "blockThenArm", "armThenBlock"}, b \in Boxes, frame \in Frames :
       BeginFrame(way, b, frame)
  \/ LcdWrite \/ TakeTransfer \/ TickLcd

LcdSpec == LcdInit /\ [][LcdNext]_lcdVars
-----------------------------------------------------------------------------
(***************************************************************************)
(* Properties.                                                             *)
(***************************************************************************)
Inside(p, b) == p[1] \in b.x0..b.x1 /\ p[2] \in b.y0..b.y1
Order(p, b)  == (p[2] - b.y0) * Width(b) + p[1] - b.x0

\* While a frame is drawn nothing outside its window changes; when the driver
\* believes it drawn it is there, each pixel at its place, whichever way it went
\* and whenever the ticks came; and a driver that waits has a transfer to come.
PanelShowsFrame ==
  /\ \A p \in Places :
       IF ~Inside(p, artist.box) THEN lcd.pixels[p] = before[p]
       ELSE artist.pc = 0 /\ artist.frame # 0 =>
              lcd.pixels[p] = Pixel(artist.frame, Order(p, artist.box))
  /\ artist.pc # 0 /\ artist.pc > Len(Writes) => chan.intr \/ Transfers(lcd, chan)
================================================================================
