--------------------------------- MODULE Memory ---------------------------------
(***************************************************************************)
(* What an address means: to a core, by the regions and windows that       *)
(* cpu_unicorn.c maps into its engine and the remapping registers of the   *)
(* memory controller (dev_memcon.c, memmap.c), and to a device, by ram.c   *)
(* and the routes of bus.c.  And when a core runs the code that is in      *)
(* memory, and not an older translation of it.                             *)
(*                                                                         *)
(* The two cores take their slices in turn and the devices tick after them *)
(* (main.c), so a register one core writes acts on a slice the other core  *)
(* starts later.                                                           *)
(*                                                                         *)
(* Abstractions.  An address counts words.  The mask of a remapping        *)
(* register is the size of what it maps, a power of two.  The code a core  *)
(* runs is one page with a version, and a core's translation of it the     *)
(* version it was made from.  External, as Unicorn does it: a core's own   *)
(* store drops its own translations of the page, and nothing tells an      *)
(* engine of a store of the other one or of a device.                      *)
(***************************************************************************)
EXTENDS Integers, Sequences, FiniteSets

CONSTANTS
  Modes,         \* records [virtual, flash]: virtual_memmap, and whether address
                 \* 0 starts as flash
  Entries,       \* 1..8: pairs of remapping registers
  Logicals,      \* values of the first of a pair: [size, match]
  Physicals,     \* values of the second: [target, allows]
  Addresses,     \* that are compared
  Accessed,      \* that a core accesses
  FlushGap,      \* 16: ticks
  MaxVersion, MaxMemoryTicks   \* bounds of the instance

ASSUME MemoryAssumption ==
  /\ Addresses \subseteq Nat /\ Accessed \subseteq Nat /\ Entries \subseteq Nat \ {0}
  /\ FlushGap \in Nat \ {0} /\ MaxVersion \in Nat /\ MaxMemoryTicks \in Nat

VARIABLES
  mode,
  memcon,     \* the remapping registers
  low0,       \* s.low0_map: "flash" or "ram"
  maps,       \* the regions of memory in both engines
  tlb,        \* translations of addresses each core has made
  code,       \* [version, discarded]; discarded: history, what the guest's last
              \* request to drop old code was about
  blocks,     \* translations of code each core has made: a version, 0 for none
  tb_flush_pending,
  last_request,   \* the debouncer's static tick, NoTick at first
  memory_ticks,   \* s.counters.device_ticks
  turn,       \* whose slice it is: "CPU", "COP" or "devices"
  stopped     \* uc_emu_stop: nothing more is run in this slice

memoryVars == <<mode, memcon, low0, maps, tlb, code, blocks, tb_flush_pending,
                last_request, memory_ticks, turn, stopped>>

Cores == {"CPU", "COP"}
NoTick == -1

-----------------------------------------------------------------------------
(***************************************************************************)
(* The map, map.h.                                                         *)
(***************************************************************************)

\* The word at an address given by its two halfwords, and sizes in words.
At(hi, lo) == hi * 16384 + lo \div 4
KB == 256
MB == 1024 * KB

SdramSize == 32 * MB
FlashSize == MB
SdramBase == At(\h1000, 0)
SdramAlias == At(\h9000, 0)
FastramBase == At(\h4000, 0)
FlashAlias == At(\h2000, 0)

Nowhere == [of |-> "none", offset |-> 0]
Place(of, offset) == [of |-> of, offset |-> offset]
Region(base, size, of) == [base |-> base, size |-> size, of |-> of]
In(a, r) == r.base <= a /\ a < r.base + r.size

Low0(kind) == IF kind = "flash" THEN Region(0, FlashSize, "flash")
              ELSE Region(0, SdramSize, "sdram")

\* n1g_cpu_map_memory.  Every region is the emulator's own buffer, which the
\* core maps; an engine that refuses it gets a region of its own with a copy in
\* it, which is left out: here core and device always see the same bytes.
MapMemory(kind) ==
  {Region(base + i * SdramSize, SdramSize, "sdram") : base \in {SdramBase, SdramAlias}, i \in 0..3}
    \cup {Region(i * SdramSize, SdramSize, "sdram") : i \in 1..3}
    \cup {Low0(kind), Region(FastramBase, 128 * KB, "fastram")}

Windows ==
  {Region(At(\h6000, 0), MB, "mmio"), Region(At(\h6400, 0), 64 * KB, "mmio"),
   Region(At(\h7000, 0), 64 * KB, "mmio"), Region(At(\hc300, 0), 4 * KB, "mmio"),
   Region(At(\hc500, 0), 4 * KB, "mmio"), Region(At(\hf000, 0), 64 * KB, "mmio")}

\* What a core finds at a physical address.
CorePlace(a) ==
  LET found == {r \in maps \cup Windows : In(a, r)}
  IN  IF found = {} THEN Nowhere
      ELSE LET r == CHOOSE r \in found : TRUE IN Place(r.of, a - r.base)

\* n1g_ram_ptr, what a device finds there.  Mutation: low memory whatever is
\* mapped there.
RamPtr_Low(a) ==
  CASE a >= SdramBase /\ a < SdramBase + 4 * SdramSize ->
         Place("sdram", (a - SdramBase) % SdramSize)
    [] a >= SdramAlias /\ a < SdramAlias + 4 * SdramSize ->
         Place("sdram", (a - SdramAlias) % SdramSize)
    [] a < SdramSize -> Place("sdram", a)
    [] a >= FastramBase /\ a < FastramBase + 128 * KB -> Place("fastram", a - FastramBase)
    [] OTHER -> Nowhere
RamPtr(a) ==
  CASE a >= SdramBase /\ a < SdramBase + 4 * SdramSize ->
         Place("sdram", (a - SdramBase) % SdramSize)
    [] a >= SdramAlias /\ a < SdramAlias + 4 * SdramSize ->
         Place("sdram", (a - SdramAlias) % SdramSize)
    [] low0 = "ram" /\ a < SdramSize -> Place("sdram", a)
    [] a >= FastramBase /\ a < FastramBase + 128 * KB -> Place("fastram", a - FastramBase)
    [] OTHER -> Nowhere

Route(hi, lo, bytes, device) == Region(At(hi, lo), (bytes + 3) \div 4, device)

\* The tests of n1g_bus_read after that of RAM, in their order.
Routes == <<
  Region(0, FlashSize, "flash"), Region(FlashAlias, FlashSize, "flash"),
  Route(\h6000, 0, \h1000, "cpuid"),          Route(\h6000, \h1000, \h30, "mailbox"),
  Route(\h6000, \h3000, \h20, "sysreg3000"),  Route(\h6000, \h4000, \h200, "intc"),
  Route(\h6000, \h5000, \h18, "timer"),       Route(\h6000, \h6000, \h1000, "devcon"),
  Route(\h6000, \h7000, \h1000, "cpucon"),    Route(\h6000, \h8000, \h2000, "dma2"),
  Route(\h6000, \ha000, \h2000, "dma"),       Route(\h6000, \hd000, \ha00, "gpio"),
  Route(\h6000, \hc000, \h1000, "cachecon"),  Route(\h6000, \hf000, \h20, "evp"),
  Route(\h7000, 0, \h2000, "ppcon"),          Route(\h7000, \h3800, \h100, "sysreg3800"),
  Route(\h7000, \h8a00, \h200, "lcd2"),       Route(\h7000, \h2800, \h100, "i2s"),
  Route(\h7000, \ha000, \h40, "pwm"),         Route(\h7000, \hc000, \h100, "i2c"),
  Route(\h7000, \h6000, \h40, "serial0"),     Route(\h7000, \h6040, \h40, "serial1"),
  Route(\h7000, \hc100, \h100, "opto"),       Route(\h7000, \hc300, \h100, "dimmer"),
  Route(\hc300, 0, \h1000, "eide"),           Route(\hc500, 0, \h1000, "usb"),
  Route(\hf000, 0, \h10000, "memcon") >>

\* The first of the tests that are made which holds.
Routed(tested, a) ==
  LET found == {k \in tested : In(a, Routes[k])}
  IN  IF found = {} THEN Nowhere
      ELSE LET r == Routes[CHOOSE k \in found : \A j \in found : k <= j]
           IN  Place(r.of, a - r.base)

\* Nothing takes a write to the identification of the core.
Writable == {k \in DOMAIN Routes : Routes[k].of # "cpuid"}

-----------------------------------------------------------------------------
(***************************************************************************)
(* Remapping, memmap.c.                                                    *)
(***************************************************************************)
Kinds == {"read", "write", "fetch"}

\* What a pair allows: the flags read and write, data and code.
Allows(entry, kind) ==
  CASE kind = "read"  -> {"read", "data"} \subseteq entry.allows
    [] kind = "write" -> {"write", "data"} \subseteq entry.allows
    [] kind = "fetch" -> {"read", "code"} \subseteq entry.allows

Matches(entry, a, kind) ==
  /\ a < FastramBase
  /\ entry.size # 0 /\ Allows(entry, kind)
  /\ a \div entry.size = entry.match \div entry.size

TranslateBy(entry, a) == (entry.target \div entry.size) * entry.size + (a % entry.size)

\* The first pair that matches.
Translate(regs, a, kind) ==
  LET found == {i \in Entries : Matches(regs[i], a, kind)}
  IN  IF found = {} THEN a
      ELSE TranslateBy(regs[CHOOSE i \in found : \A j \in found : i <= j], a)

WantLowSdram(regs) == \A kind \in Kinds : Translate(regs, 0, kind) = SdramBase
WantFlashAlias(regs) == \A kind \in {"read", "fetch"} : Translate(regs, FlashAlias, kind) = 0

NoTranslations == [c \in Cores |-> {}]
NoBlocks == [c \in Cores |-> 0]

-----------------------------------------------------------------------------
MemoryInit ==
  /\ mode \in Modes
  /\ memcon = [i \in Entries |-> [size |-> 0, match |-> 0, target |-> 0, allows |-> {}]]
  /\ low0 = IF mode.flash \/ mode.virtual THEN "flash" ELSE "ram"
  /\ maps = MapMemory(low0)
  /\ tlb = NoTranslations
  /\ code = [version |-> 1, discarded |-> 1] /\ blocks = NoBlocks
  /\ tb_flush_pending = FALSE /\ last_request = NoTick
  /\ memory_ticks = 0 /\ turn = "CPU" /\ stopped = FALSE

Runs(c) == turn = c /\ ~stopped

(***************************************************************************)
(* Writes to the registers.                                                *)
(***************************************************************************)

\* n1g_cpu_apply_memmap.  Address 0 becomes RAM, and the alias of the flash
\* appears, once and for all; with virtual_memmap only the translations go.
\* Mutation: they stay.
ApplyMemmap_KeepsTlb(regs) ==
  LET low   == ~mode.virtual /\ low0 # "ram" /\ WantLowSdram(regs)
      alias == ~mode.virtual /\ WantFlashAlias(regs)
  IN  /\ low0' = IF low THEN "ram" ELSE low0
      /\ maps' = (IF low THEN (maps \ {Low0(low0)}) \cup {Low0("ram")} ELSE maps)
                   \cup (IF alias THEN {Region(FlashAlias, FlashSize, "flash")} ELSE {})
      /\ UNCHANGED <<tlb, blocks>>
ApplyMemmap(regs) ==
  LET low   == ~mode.virtual /\ low0 # "ram" /\ WantLowSdram(regs)
      alias == ~mode.virtual /\ WantFlashAlias(regs)
  IN  /\ low0' = IF low THEN "ram" ELSE low0
      /\ maps' = (IF low THEN (maps \ {Low0(low0)}) \cup {Low0("ram")} ELSE maps)
                   \cup (IF alias THEN {Region(FlashAlias, FlashSize, "flash")} ELSE {})
      /\ IF mode.virtual \/ maps' # maps
         THEN tlb' = NoTranslations /\ blocks' = NoBlocks
         ELSE UNCHANGED <<tlb, blocks>>

WriteRemap(i, entry) ==
  /\ turn \in Cores /\ ~stopped
  /\ memcon' = [memcon EXCEPT ![i] = entry]
  /\ ApplyMemmap(memcon')
  /\ UNCHANGED <<mode, code, tb_flush_pending, last_request, memory_ticks, turn, stopped>>

WriteLogical(i, l)  == WriteRemap(i, [memcon[i] EXCEPT !.size = l.size, !.match = l.match])
WritePhysical(i, p) == WriteRemap(i, [memcon[i] EXCEPT !.target = p.target, !.allows = p.allows])

\* A write that asks to drop old code: mmio_write_cb stops the core when a flush
\* is pending.  Mutation: the core runs on.
Discard_RunsOn(pending, request) ==
  /\ turn \in Cores /\ ~stopped
  /\ tb_flush_pending' = pending /\ last_request' = request
  /\ code' = [code EXCEPT !.discarded = code.version]
  /\ UNCHANGED <<mode, memcon, low0, maps, tlb, blocks, memory_ticks, turn, stopped>>
Discard(pending, request) ==
  /\ turn \in Cores /\ ~stopped
  /\ tb_flush_pending' = pending /\ last_request' = request
  /\ stopped' = pending
  /\ code' = [code EXCEPT !.discarded = code.version]
  /\ UNCHANGED <<mode, memcon, low0, maps, tlb, blocks, memory_ticks, turn>>

\* Any register of the cache controller.
WriteCacheControl == Discard(TRUE, last_request)

\* The status lines and the operation register of the memory controller, which
\* ask again only after a pause.  The difference is unsigned.
Paused == \/ last_request = NoTick \/ memory_ticks < last_request
          \/ memory_ticks - last_request >= FlushGap

WriteDiscard == Discard(tb_flush_pending \/ Paused, memory_ticks)

(***************************************************************************)
(* Accesses and stores, and the code a core runs.                          *)
(***************************************************************************)

\* hook_tlb_fill: without virtual_memmap an address is what it is.
Access(c, a, kind) ==
  /\ Runs(c) /\ mode.virtual
  /\ ~ \E t \in tlb[c] : t.a = a /\ t.kind = kind
  /\ tlb' = [tlb EXCEPT ![c] =
       {t \in @ : t.a # a} \cup {[a |-> a, kind |-> kind, to |-> Translate(memcon, a, kind)]}]
  /\ UNCHANGED <<mode, memcon, low0, maps, code, blocks, tb_flush_pending, last_request,
                 memory_ticks, turn, stopped>>

NewCode(kept) ==
  /\ code.version < MaxVersion
  /\ code' = [code EXCEPT !.version = @ + 1]
  /\ blocks' = kept
  /\ UNCHANGED <<mode, memcon, low0, maps, tlb, tb_flush_pending, last_request,
                 memory_ticks, turn, stopped>>

StoreCode(c) == Runs(c) /\ NewCode([blocks EXCEPT ![c] = 0])
DmaCode      == turn = "devices" /\ NewCode(blocks)

RunCode(c) ==
  /\ Runs(c) /\ blocks[c] = 0
  /\ blocks' = [blocks EXCEPT ![c] = code.version]
  /\ UNCHANGED <<mode, memcon, low0, maps, tlb, code, tb_flush_pending, last_request,
                 memory_ticks, turn, stopped>>

\* n1g_cpu_step_slice flushes both engines first.
StartSlice(c) ==
  /\ turn' = c /\ stopped' = FALSE
  /\ tb_flush_pending' = FALSE
  /\ IF tb_flush_pending THEN tlb' = NoTranslations /\ blocks' = NoBlocks
     ELSE UNCHANGED <<tlb, blocks>>
  /\ UNCHANGED <<mode, memcon, low0, maps, code, last_request>>

CpuDone == turn = "CPU" /\ StartSlice("COP") /\ UNCHANGED memory_ticks

CopDone ==
  /\ turn = "COP" /\ memory_ticks < MaxMemoryTicks
  /\ turn' = "devices" /\ memory_ticks' = memory_ticks + 1
  /\ UNCHANGED <<mode, memcon, low0, maps, tlb, code, blocks, tb_flush_pending, last_request, stopped>>

TickDone == turn = "devices" /\ StartSlice("CPU") /\ UNCHANGED memory_ticks

\* A restart makes new engines; the tick of the last request survives it.
Restart ==
  /\ turn = "devices"
  /\ memcon' = [i \in Entries |-> [size |-> 0, match |-> 0, target |-> 0, allows |-> {}]]
  /\ low0' = (IF mode.flash \/ mode.virtual THEN "flash" ELSE "ram")
  /\ maps' = MapMemory(low0')
  /\ tlb' = NoTranslations /\ blocks' = NoBlocks
  /\ tb_flush_pending' = FALSE /\ memory_ticks' = 0 /\ turn' = "CPU" /\ stopped' = FALSE
  /\ UNCHANGED <<mode, code, last_request>>

MemoryNext ==
  \/ \E i \in Entries : \/ \E l \in Logicals : WriteLogical(i, l)
                        \/ \E p \in Physicals : WritePhysical(i, p)
  \/ WriteCacheControl \/ WriteDiscard
  \/ \E c \in Cores : \/ \E a \in Accessed, kind \in Kinds : Access(c, a, kind)
                      \/ StoreCode(c) \/ RunCode(c)
  \/ DmaCode \/ CpuDone \/ CopDone \/ TickDone \/ Restart

MemorySpec == MemoryInit /\ [][MemoryNext]_memoryVars

\* A guest that asks for one discard after another only when nothing has been
\* loaded in between, or after the pause.
Calm == Paused \/ code.version = code.discarded
-----------------------------------------------------------------------------
(***************************************************************************)
(* Properties.                                                             *)
(***************************************************************************)

\* The routes of reads and writes agree but for the identification of the core,
\* no register hides another, and all lie in windows.
RoutesSound ==
  \A a \in Addresses :
    LET found == {k \in DOMAIN Routes : In(a, Routes[k])}
    IN  /\ \/ Routed(DOMAIN Routes, a) = Routed(Writable, a)
           \/ Routed(DOMAIN Routes, a).of = "cpuid"
        /\ Cardinality(found) <= 1
        /\ \A k \in found : Routes[k].of # "flash" => \E w \in Windows : In(a, w)

MemoryShared ==
  \A a \in Addresses :
    IF \E w \in Windows : In(a, w) THEN RamPtr(a) = Nowhere /\ ~ \E r \in maps : In(a, r)
    ELSE RamPtr(a) # Nowhere => CorePlace(a) = RamPtr(a)

\* Before and after every change of the map, cores and devices find the same
\* byte of memory at an address both have, every byte a device can reach is
\* mapped into the cores, and no window hides memory; behind the windows, a
\* register is found where it is written.
OneMemory ==
  [][/\ low0' # low0 => RoutesSound
     /\ <<low0, maps>>' # <<low0, maps>> => MemoryShared /\ MemoryShared']_memoryVars

\* No core works with an address that the registers translate otherwise by now,
\* whichever core wrote them; without virtual_memmap, low memory and the alias
\* of the flash are there once the registers have asked for them.
MapsFollowRegisters ==
  /\ \A c \in Cores : \A t \in tlb[c] : t.to = Translate(memcon, t.a, t.kind)
  /\ ~mode.virtual /\ WantLowSdram(memcon) => RamPtr(0) = CorePlace(SdramBase)
  /\ ~mode.virtual /\ WantFlashAlias(memcon) => CorePlace(FlashAlias) = Place("flash", 0)

\* No core runs code older than what the guest's last discard was about.
FreshAfterDiscard ==
  \A c \in Cores : Runs(c) /\ blocks[c] # 0 => blocks[c] >= code.discarded
================================================================================
