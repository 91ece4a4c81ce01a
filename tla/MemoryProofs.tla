------------------------------ MODULE MemoryProofs ------------------------------
(***************************************************************************)
(* Proofs about Memory, for any registers, addresses and pause of the      *)
(* debouncer.                                                              *)
(***************************************************************************)
EXTENDS Memory, FiniteSetTheorems, TLAPS

AliasRegion == Region(FlashAlias, FlashSize, "flash")

\* What is mapped whatever lies at address 0.
Rest ==
  {Region(base + i * SdramSize, SdramSize, "sdram") : base \in {SdramBase, SdramAlias}, i \in 0..3}
    \cup {Region(i * SdramSize, SdramSize, "sdram") : i \in 1..3}
    \cup {Region(FastramBase, 128 * KB, "fastram")}

TypeOK ==
  /\ low0 \in {"flash", "ram"}
  /\ tlb = [c \in Cores |-> tlb[c]]
  /\ code \in [version : Nat, discarded : Nat] /\ code.discarded <= code.version
  /\ blocks \in [Cores -> Nat]
  /\ turn \in {"CPU", "COP", "devices"}

\* Only a core that translates holds translations, and they are those of the registers.
Translated ==
  /\ \A c \in Cores : \A t \in tlb[c] : t.to = Translate(memcon, t.a, t.kind)
  /\ mode.virtual \/ tlb = NoTranslations

\* The maps are the first ones with what the registers have asked for since.
Mapped ==
  /\ maps \in {Rest \cup {Low0(low0)}, Rest \cup {Low0(low0), AliasRegion}}
  /\ mode.virtual \/ ~WantLowSdram(memcon) \/ low0 = "ram"
  /\ mode.virtual \/ ~WantFlashAlias(memcon) \/ AliasRegion \in maps

\* Translations that a discard was about are only kept by cores that do not run before
\* the flush.
OldCodeWaits ==
  \/ tb_flush_pending /\ (stopped \/ turn = "devices")
  \/ \A c \in Cores : blocks[c] # 0 => blocks[c] >= code.discarded

IInv == TypeOK /\ Translated /\ Mapped

-----------------------------------------------------------------------------
(***************************************************************************)
(* Addresses.                                                              *)
(***************************************************************************)

\* The bases and sizes of the map, in words.
LEMMA Sizes ==
  /\ SdramSize = 8388608 /\ FlashSize = 262144 /\ KB = 256
  /\ SdramBase = 67108864 /\ SdramAlias = 603979776
  /\ FastramBase = 268435456 /\ FlashAlias = 134217728
  BY DEF SdramSize, FlashSize, KB, MB, SdramBase, SdramAlias, FastramBase, FlashAlias, At

\* Every window lies above the memory that is asked about here.
LEMMA WindowsAbove ==
  ASSUME NEW r \in Windows PROVE r.base \in Nat /\ r.base > 268435456
  BY Sizes DEF Windows, Region, KB, MB, At

\* A core finds the first word of a mapped region at its base, if no other region is there.
LEMMA PlaceAtBase ==
  ASSUME NEW r \in maps, NEW a \in Nat, r.base = a, In(a, r),
         \A s \in maps \cup Windows : In(a, s) => s = r
  PROVE  CorePlace(a) = Place(r.of, 0)
<1> DEFINE found == {s \in maps \cup Windows : In(a, s)}
<1>1. found = {r}  OBVIOUS
<1>2. (CHOOSE s \in found : TRUE) = r  BY <1>1
<1> QED  BY <1>1, <1>2 DEF CorePlace

\* The SDRAM has its base, and the alias of the flash its own, to itself.
LEMMA BasesFree ==
  ASSUME NEW kind \in {"flash", "ram"},
         NEW s \in Rest \cup {Low0(kind), AliasRegion} \cup Windows
  PROVE  /\ In(SdramBase, s) => s = Region(SdramBase, SdramSize, "sdram")
         /\ In(FlashAlias, s) => s = AliasRegion
<1>1. CASE s \in Windows  BY <1>1, WindowsAbove, Sizes DEF In
<1>2. CASE s \in {Low0(kind), AliasRegion}
  BY <1>2, Sizes DEF Low0, AliasRegion, Region, In
<1>3. CASE s \in Rest
  <2>1. ASSUME NEW base \in {SdramBase, SdramAlias}, NEW i \in 0..3,
               s = Region(base + i * SdramSize, SdramSize, "sdram")
        PROVE  /\ In(SdramBase, s) => s = Region(SdramBase, SdramSize, "sdram")
               /\ ~In(FlashAlias, s)
    BY <2>1, Sizes DEF Region, In
  <2>2. ASSUME NEW i \in 1..3, s = Region(i * SdramSize, SdramSize, "sdram")
        PROVE  ~In(SdramBase, s) /\ ~In(FlashAlias, s)
    BY <2>2, Sizes DEF Region, In
  <2>3. CASE s = Region(FastramBase, 128 * KB, "fastram")
    BY <2>3, Sizes DEF Region, In
  <2> QED  BY <1>3, <2>1, <2>2, <2>3 DEF Rest
<1> QED  BY <1>1, <1>2, <1>3

\* With the maps as they may be, both are found.
LEMMA PlacesFound ==
  ASSUME TypeOK, Mapped
  PROVE  /\ CorePlace(SdramBase) = Place("sdram", 0)
         /\ AliasRegion \in maps => CorePlace(FlashAlias) = Place("flash", 0)
<1>1. maps \subseteq Rest \cup {Low0(low0), AliasRegion}  BY DEF Mapped
<1>2. /\ Region(SdramBase, SdramSize, "sdram") \in maps
      /\ In(SdramBase, Region(SdramBase, SdramSize, "sdram"))
      /\ In(FlashAlias, AliasRegion)
  <2>1. Region(SdramBase + 0 * SdramSize, SdramSize, "sdram") \in Rest  BY DEF Rest
  <2>2. SdramBase + 0 * SdramSize = SdramBase  BY Sizes
  <2> QED  BY <2>1, <2>2, Sizes DEF Mapped, Region, In, AliasRegion
<1>3. CorePlace(SdramBase) = Place("sdram", 0)
  <2> DEFINE r == Region(SdramBase, SdramSize, "sdram")
  <2>1. r.base = SdramBase /\ r.of = "sdram" /\ SdramBase \in Nat  BY Sizes DEF Region
  <2>2. \A s \in maps \cup Windows : In(SdramBase, s) => s = r
    BY <1>1, BasesFree DEF TypeOK
  <2>3. r \in maps /\ In(SdramBase, r)  BY <1>2
  <2> HIDE DEF r
  <2> QED  BY <2>1, <2>2, <2>3, PlaceAtBase
<1>4. ASSUME AliasRegion \in maps PROVE CorePlace(FlashAlias) = Place("flash", 0)
  <2>1. /\ AliasRegion.base = FlashAlias /\ AliasRegion.of = "flash" /\ FlashAlias \in Nat
    BY Sizes DEF AliasRegion, Region
  <2>2. \A s \in maps \cup Windows : In(FlashAlias, s) => s = AliasRegion
    BY <1>1, BasesFree DEF TypeOK
  <2> QED  BY <1>2, <1>4, <2>1, <2>2, PlaceAtBase
<1> QED  BY <1>3, <1>4

\* Without a size a pair maps nothing.
LEMMA NothingMapped ==
  ASSUME NEW regs, \A i \in Entries : regs[i].size = 0
  PROVE  ~WantLowSdram(regs) /\ ~WantFlashAlias(regs)
<1>1. ASSUME NEW a, NEW kind PROVE Translate(regs, a, kind) = a
  BY DEF Translate, Matches
<1> QED  BY <1>1, Sizes DEF WantLowSdram, WantFlashAlias, Kinds

\* The region at address 0 is not among the rest, nor is it the alias.
LEMMA LowApart ==
  ASSUME NEW kind \in {"flash", "ram"}
  PROVE  /\ Low0("flash") \notin Rest \cup {AliasRegion, Low0("ram")}
         /\ MapMemory(kind) = Rest \cup {Low0(kind)}
<1>1. \A r \in Rest : r.of \in {"sdram", "fastram"}  BY DEF Rest, Region
<1>2. Low0("flash").of = "flash" /\ Low0("ram").of = "sdram"  BY DEF Low0, Region
<1>3. Low0("flash").base = 0 /\ AliasRegion.base # 0
  BY Sizes DEF Low0, AliasRegion, Region
<1>4. MapMemory(kind) = Rest \cup {Low0(kind)}  BY DEF MapMemory, Rest
<1> QED  BY <1>1, <1>2, <1>3, <1>4

-----------------------------------------------------------------------------
(***************************************************************************)
(* Maps and translations follow the registers.                             *)
(***************************************************************************)

\* Fresh engines and empty registers.
LEMMA FreshIInv ==
  ASSUME memcon = [i \in Entries |-> [size |-> 0, match |-> 0, target |-> 0, allows |-> {}]],
         low0 \in {"flash", "ram"}, maps = MapMemory(low0), tlb = NoTranslations
  PROVE  Translated /\ Mapped
<1>1. ~WantLowSdram(memcon) /\ ~WantFlashAlias(memcon)  BY NothingMapped
<1> QED  BY <1>1, LowApart DEF Translated, Mapped, NoTranslations

\* The machine starts so.
LEMMA InitIInv == MemoryInit => IInv /\ OldCodeWaits
<1> SUFFICES ASSUME MemoryInit PROVE IInv /\ OldCodeWaits  OBVIOUS
<1>1. low0 \in {"flash", "ram"}  BY DEF MemoryInit
<1>2. Translated /\ Mapped  BY <1>1, FreshIInv DEF MemoryInit
<1>3. TypeOK /\ OldCodeWaits
  BY <1>1 DEF MemoryInit, TypeOK, OldCodeWaits, NoTranslations, NoBlocks, Cores
<1> QED  BY <1>2, <1>3 DEF IInv

\* A write to the registers drops the translations, or maps what is now wanted.
LEMMA WriteRemapKeeps ==
  ASSUME IInv, NEW i, NEW entry, WriteRemap(i, entry) PROVE IInv'
<1> USE DEF IInv
<1> DEFINE low   == ~mode.virtual /\ low0 # "ram" /\ WantLowSdram(memcon')
           alias == ~mode.virtual /\ WantFlashAlias(memcon')
<1>1. /\ low0' = IF low THEN "ram" ELSE low0
      /\ maps' = (IF low THEN (maps \ {Low0(low0)}) \cup {Low0("ram")} ELSE maps)
                   \cup (IF alias THEN {AliasRegion} ELSE {})
      /\ IF mode.virtual \/ maps' # maps
         THEN tlb' = NoTranslations /\ blocks' = NoBlocks ELSE UNCHANGED <<tlb, blocks>>
      /\ UNCHANGED <<mode, code, turn>>
  BY DEF WriteRemap, ApplyMemmap, AliasRegion
<1> HIDE DEF low, alias
<1>2. TypeOK'  BY <1>1 DEF TypeOK, NoTranslations, NoBlocks
<1>3. tlb' = NoTranslations  BY <1>1 DEF Translated
<1>4. Translated'  BY <1>3 DEF Translated, NoTranslations
<1>5. maps' \in {Rest \cup {Low0(low0')}, Rest \cup {Low0(low0'), AliasRegion}}
  <2>1. CASE low
    <3>1. low0 = "flash" /\ low0' = "ram"  BY <1>1, <2>1 DEF low, TypeOK
    <3>2. maps \ {Low0(low0)} \in {Rest, Rest \cup {AliasRegion}}
      BY <3>1, LowApart DEF Mapped
    <3> QED  BY <1>1, <2>1, <3>1, <3>2
  <2>2. CASE ~low  BY <1>1, <2>2 DEF Mapped
  <2> QED  BY <2>1, <2>2
<1>6. mode'.virtual \/ ~WantLowSdram(memcon') \/ low0' = "ram"
  BY <1>1 DEF low
<1>7. mode'.virtual \/ ~WantFlashAlias(memcon') \/ AliasRegion \in maps'
  BY <1>1 DEF alias
<1>8. Mapped'
  <2>1. WantLowSdram(memcon)' <=> WantLowSdram(memcon')  BY DEF WantLowSdram, Translate, Matches, Allows, TranslateBy
  <2>2. WantFlashAlias(memcon)' <=> WantFlashAlias(memcon')  BY DEF WantFlashAlias, Translate, Matches, Allows, TranslateBy
  <2> QED  BY <1>5, <1>6, <1>7, <2>1, <2>2 DEF Mapped
<1> QED  BY <1>2, <1>4, <1>8

\* An access adds the translation that the registers give now.
LEMMA AccessKeeps ==
  ASSUME IInv, NEW c \in Cores, NEW a, NEW kind, Access(c, a, kind) PROVE IInv'
<1> USE DEF IInv
<1> DEFINE new == [a |-> a, kind |-> kind, to |-> Translate(memcon, a, kind)]
<1>1. /\ mode.virtual
      /\ tlb' = [tlb EXCEPT ![c] = {t \in @ : t.a # a} \cup {new}]
      /\ UNCHANGED <<mode, memcon, low0, maps, code, blocks, turn>>
  BY DEF Access
<1>2. TypeOK'  BY <1>1 DEF TypeOK
<1>3. ASSUME NEW d \in Cores, NEW t \in tlb'[d] PROVE t.to = Translate(memcon, t.a, t.kind)
  <2>1. t \in tlb[d] \/ t = new  BY <1>1, <1>3 DEF TypeOK
  <2>2. CASE t \in tlb[d]  BY <2>2 DEF Translated
  <2>3. CASE t = new  BY <2>3
  <2> QED  BY <2>1, <2>2, <2>3
<1>4. Translated'  BY <1>1, <1>3 DEF Translated
<1>5. Mapped'  BY <1>1 DEF Mapped
<1> QED  BY <1>2, <1>4, <1>5

\* A slice begins with the flush that is pending.
LEMMA StartSliceKeeps ==
  ASSUME IInv, NEW c \in Cores, StartSlice(c) PROVE IInv'
<1>1. UNCHANGED <<mode, memcon, low0, maps, code>> /\ turn' = c  BY DEF StartSlice
<1>2. CASE tb_flush_pending
  <2>1. tlb' = NoTranslations /\ blocks' = NoBlocks  BY <1>2 DEF StartSlice
  <2> QED  BY <1>1, <2>1 DEF IInv, TypeOK, Translated, Mapped, NoTranslations, NoBlocks, Cores
<1>3. CASE ~tb_flush_pending
  BY <1>1, <1>3 DEF StartSlice, IInv, TypeOK, Translated, Mapped, Cores
<1> QED  BY <1>2, <1>3

\* A restart is a fresh machine but for the code that was loaded.
LEMMA RestartKeeps ==
  ASSUME IInv, Restart PROVE IInv'
<1>1. low0' \in {"flash", "ram"}  BY DEF Restart
<1>2. /\ memcon' = [i \in Entries |-> [size |-> 0, match |-> 0, target |-> 0, allows |-> {}]]
      /\ maps' = MapMemory(low0') /\ tlb' = NoTranslations
      /\ blocks' = NoBlocks /\ turn' = "CPU" /\ code' = code
  BY DEF Restart
<1>3. ~WantLowSdram(memcon') /\ ~WantFlashAlias(memcon')  BY <1>2, NothingMapped
<1>4. (Translated /\ Mapped)'
  BY <1>1, <1>2, <1>3, LowApart
     DEF Translated, Mapped, NoTranslations, WantLowSdram, WantFlashAlias, Translate, Matches,
         Allows, TranslateBy
<1>5. TypeOK'  BY <1>1, <1>2 DEF IInv, TypeOK, NoTranslations, NoBlocks
<1> QED  BY <1>4, <1>5 DEF IInv

\* Discards, stores and translations of code concern neither maps nor registers.
LEMMA CodeKeeps ==
  ASSUME IInv,
         \/ WriteCacheControl \/ WriteDiscard \/ DmaCode \/ CopDone
         \/ \E c \in Cores : StoreCode(c) \/ RunCode(c)
  PROVE  IInv'
<1> USE DEF IInv
<1>1. UNCHANGED <<mode, memcon, low0, maps, tlb>>
  BY DEF WriteCacheControl, WriteDiscard, Discard, DmaCode, CopDone, StoreCode, NewCode, RunCode
<1>2. (Translated /\ Mapped)'  BY <1>1 DEF Translated, Mapped
<1>3. TypeOK'
  <2>1. CASE WriteCacheControl \/ WriteDiscard
    BY <1>1, <2>1 DEF WriteCacheControl, WriteDiscard, Discard, TypeOK
  <2>2. CASE DmaCode  BY <1>1, <2>2 DEF DmaCode, NewCode, TypeOK
  <2>3. CASE CopDone  BY <1>1, <2>3 DEF CopDone, TypeOK
  <2>4. ASSUME NEW c \in Cores, StoreCode(c) PROVE TypeOK'
    BY <1>1, <2>4 DEF StoreCode, NewCode, TypeOK
  <2>5. ASSUME NEW c \in Cores, RunCode(c) PROVE TypeOK'
    BY <1>1, <2>5 DEF RunCode, TypeOK
  <2> QED  BY <2>1, <2>2, <2>3, <2>4, <2>5
<1> QED  BY <1>2, <1>3

\* Every step keeps maps and translations with the registers.
LEMMA NextIInv ==
  ASSUME IInv, [MemoryNext]_memoryVars PROVE IInv'
<1>1. CASE UNCHANGED memoryVars
  BY <1>1 DEF memoryVars, IInv, TypeOK, Translated, Mapped
<1>2. CASE MemoryNext
  <2>1. ASSUME NEW i \in Entries, NEW l \in Logicals, WriteLogical(i, l) PROVE IInv'
    BY <2>1, WriteRemapKeeps DEF WriteLogical
  <2>2. ASSUME NEW i \in Entries, NEW p \in Physicals, WritePhysical(i, p) PROVE IInv'
    BY <2>2, WriteRemapKeeps DEF WritePhysical
  <2>3. CASE CpuDone  BY <2>3, StartSliceKeeps DEF CpuDone, Cores
  <2>4. CASE TickDone  BY <2>4, StartSliceKeeps DEF TickDone, Cores
  <2> QED  BY <1>2, <2>1, <2>2, <2>3, <2>4, AccessKeeps, CodeKeeps, RestartKeeps DEF MemoryNext
<1> QED  BY <1>1, <1>2

\* Types, translations and maps, in every reachable state of memmap.c's remapping.
THEOREM IInvCorrect == MemorySpec => []IInv
<1> QED  BY InitIInv, NextIInv, PTL DEF MemorySpec

\* No core works with an address the registers translate otherwise by now, and low
\* memory and the alias of the flash are there once they have been asked for.
THEOREM MapsFollowRegistersCorrect == MemorySpec => []MapsFollowRegisters
<1>1. IInv => MapsFollowRegisters
  <2> SUFFICES ASSUME IInv PROVE MapsFollowRegisters  OBVIOUS
  <2> USE DEF IInv
  <2>1. \A c \in Cores : \A t \in tlb[c] : t.to = Translate(memcon, t.a, t.kind)
    BY DEF Translated
  <2>2. /\ CorePlace(SdramBase) = Place("sdram", 0)
        /\ AliasRegion \in maps => CorePlace(FlashAlias) = Place("flash", 0)
    BY PlacesFound
  <2>3. low0 = "ram" => RamPtr(0) = Place("sdram", 0)  BY Sizes DEF RamPtr
  <2> QED  BY <2>1, <2>2, <2>3 DEF Mapped, MapsFollowRegisters
<1> QED  BY <1>1, IInvCorrect, PTL

-----------------------------------------------------------------------------
(***************************************************************************)
(* Old code.                                                               *)
(***************************************************************************)

\* A guest that leaves the debouncer its pause, or has nothing new to discard.
Patience == WriteDiscard => Calm

\* A discard stops the core until the flush, or was about nothing new.
LEMMA DiscardKeepsCode ==
  ASSUME TypeOK, OldCodeWaits, WriteCacheControl \/ (WriteDiscard /\ Calm)
  PROVE  OldCodeWaits'
<1>1. CASE WriteCacheControl
  BY <1>1 DEF WriteCacheControl, Discard, OldCodeWaits
<1>2. CASE WriteDiscard /\ Calm
  <2>1. /\ tb_flush_pending' = (tb_flush_pending \/ Paused)
        /\ stopped' = (tb_flush_pending \/ Paused)
        /\ code' = [code EXCEPT !.discarded = code.version] /\ blocks' = blocks
        /\ ~stopped /\ turn \in Cores
    BY <1>2 DEF WriteDiscard, Discard
  <2>2. CASE tb_flush_pending \/ Paused  BY <2>1, <2>2 DEF OldCodeWaits
  <2>3. CASE ~(tb_flush_pending \/ Paused)
    <3>1. code'.discarded = code.discarded  BY <1>2, <2>1, <2>3 DEF Calm, TypeOK
    <3> QED  BY <2>1, <2>3, <3>1 DEF OldCodeWaits
  <2> QED  BY <2>2, <2>3
<1> QED  BY <1>1, <1>2

\* Every other step runs what is there now, or nothing until the flush.
LEMMA NextKeepsCode ==
  ASSUME TypeOK, OldCodeWaits, [MemoryNext /\ Patience]_memoryVars PROVE OldCodeWaits'
<1>1. CASE UNCHANGED memoryVars  BY <1>1 DEF memoryVars, OldCodeWaits
<1>2. ASSUME NEW i, NEW entry, WriteRemap(i, entry) PROVE OldCodeWaits'
  BY <1>2 DEF WriteRemap, ApplyMemmap, OldCodeWaits, NoBlocks
<1>3. ASSUME NEW c \in Cores, NEW a, NEW kind, Access(c, a, kind) PROVE OldCodeWaits'
  BY <1>3 DEF Access, OldCodeWaits
<1>4. ASSUME NEW c \in Cores, StoreCode(c) PROVE OldCodeWaits'
  BY <1>4 DEF StoreCode, NewCode, OldCodeWaits, TypeOK
<1>5. ASSUME NEW c \in Cores, RunCode(c) PROVE OldCodeWaits'
  BY <1>5 DEF RunCode, OldCodeWaits, TypeOK
<1>6. CASE DmaCode  BY <1>6 DEF DmaCode, NewCode, OldCodeWaits, TypeOK
<1>7. ASSUME NEW c \in Cores, StartSlice(c) PROVE OldCodeWaits'
  BY <1>7 DEF StartSlice, OldCodeWaits, NoBlocks
<1>8. CASE CopDone  BY <1>8 DEF CopDone, OldCodeWaits
<1>9. CASE Restart  BY <1>9 DEF Restart, OldCodeWaits, NoBlocks
<1>10. CASE MemoryNext /\ Patience
  BY <1>10, <1>2, <1>3, <1>4, <1>5, <1>6, <1>7, <1>8, <1>9, DiscardKeepsCode
     DEF MemoryNext, Patience, WriteLogical, WritePhysical, CpuDone, TickDone, Cores
<1> QED  BY <1>1, <1>10

\* If the guest is patient with the debouncer, no core runs code older than its last
\* discard was about.
THEOREM FreshAfterDiscardCorrect ==
  MemorySpec /\ [][Patience]_memoryVars => []FreshAfterDiscard
<1>1. IInv /\ OldCodeWaits => FreshAfterDiscard
  BY DEF OldCodeWaits, FreshAfterDiscard, Runs, Cores
<1>2. IInv /\ OldCodeWaits /\ [MemoryNext]_memoryVars /\ [Patience]_memoryVars
        => (IInv /\ OldCodeWaits)'
  BY NextIInv, NextKeepsCode DEF IInv
<1> QED  BY <1>1, <1>2, InitIInv, PTL DEF MemorySpec

-----------------------------------------------------------------------------
(***************************************************************************)
(* The map in words.                                                       *)
(***************************************************************************)

\* The windows, in words.
LEMMA WindowsAre ==
  Windows = {[base |-> 402653184, size |-> 262144, of |-> "mmio"],
             [base |-> 419430400, size |-> 16384, of |-> "mmio"],
             [base |-> 469762048, size |-> 16384, of |-> "mmio"],
             [base |-> 817889280, size |-> 1024, of |-> "mmio"],
             [base |-> 826277888, size |-> 1024, of |-> "mmio"],
             [base |-> 1006632960, size |-> 16384, of |-> "mmio"]}
  BY DEF Windows, Region, KB, MB, At

\* The copies of the SDRAM, whatever lies at address 0.
LEMMA RestAre ==
  Rest = {[base |-> 67108864, size |-> 8388608, of |-> "sdram"],
          [base |-> 75497472, size |-> 8388608, of |-> "sdram"],
          [base |-> 83886080, size |-> 8388608, of |-> "sdram"],
          [base |-> 92274688, size |-> 8388608, of |-> "sdram"],
          [base |-> 603979776, size |-> 8388608, of |-> "sdram"],
          [base |-> 612368384, size |-> 8388608, of |-> "sdram"],
          [base |-> 620756992, size |-> 8388608, of |-> "sdram"],
          [base |-> 629145600, size |-> 8388608, of |-> "sdram"],
          [base |-> 8388608, size |-> 8388608, of |-> "sdram"],
          [base |-> 16777216, size |-> 8388608, of |-> "sdram"],
          [base |-> 25165824, size |-> 8388608, of |-> "sdram"],
          [base |-> 268435456, size |-> 32768, of |-> "fastram"]}
<1> DEFINE R(b) == [base |-> b, size |-> 8388608, of |-> "sdram"]
<1>1. {Region(base + i * SdramSize, SdramSize, "sdram") : base \in {SdramBase, SdramAlias}, i \in 0..3}
        = {R(67108864), R(75497472), R(83886080), R(92274688),
           R(603979776), R(612368384), R(620756992), R(629145600)}
  <2>1. \A base \in {SdramBase, SdramAlias}, i \in 0..3 :
          Region(base + i * SdramSize, SdramSize, "sdram") = R(base + i * 8388608)
    BY Sizes DEF Region
  <2>2. 0..3 = {0, 1, 2, 3}  OBVIOUS
  <2>3. {Region(base + i * SdramSize, SdramSize, "sdram") : base \in {SdramBase, SdramAlias}, i \in 0..3}
          = {R(base + i * 8388608) : base \in {SdramBase, SdramAlias}, i \in 0..3}
    BY <2>1
  <2> QED  BY <2>3, <2>2, Sizes
<1>2. {Region(i * SdramSize, SdramSize, "sdram") : i \in 1..3}
        = {R(8388608), R(16777216), R(25165824)}
  BY Sizes DEF Region
<1>3. Region(FastramBase, 128 * KB, "fastram") = [base |-> 268435456, size |-> 32768, of |-> "fastram"]
  BY Sizes DEF Region
<1> QED  BY <1>1, <1>2, <1>3 DEF Rest

-----------------------------------------------------------------------------
(***************************************************************************)
(* The routes of the bus.                                                  *)
(***************************************************************************)

\* No address is in two of the tests.
LEMMA RoutesApart ==
  ASSUME NEW j \in DOMAIN Routes, NEW k \in DOMAIN Routes, NEW a \in Nat,
         In(a, Routes[j]), In(a, Routes[k])
  PROVE  j = k
  BY SMTT(30), Sizes DEF Routes, Route, Region, At, In

\* Every register lies in a window.
LEMMA RoutesInWindows ==
  ASSUME NEW k \in DOMAIN Routes, NEW a \in Nat,
         In(a, Routes[k]), Routes[k].of # "flash"
  PROVE  \E w \in Windows : In(a, w)
  BY SMTT(30), Sizes, WindowsAre DEF Routes, Route, Region, At, In

\* A test that holds is the only one, and its device is found if it is tested.
LEMMA RoutedTo ==
  ASSUME NEW a \in Nat, NEW k \in DOMAIN Routes, In(a, Routes[k]),
         NEW tested \in SUBSET DOMAIN Routes, k \in tested
  PROVE  Routed(tested, a) = Place(Routes[k].of, a - Routes[k].base)
<1> DEFINE found == {j \in tested : In(a, Routes[j])}
<1>1. found = {k}  BY RoutesApart
<1>2. DOMAIN Routes = 1..27  BY SMT DEF Routes
<1>3. (CHOOSE i \in found : \A j \in found : i <= j) = k  BY <1>1, <1>2
<1> QED  BY <1>1, <1>3 DEF Routed

\* Whatever is compared: one test at most, in a window, the same for reads and writes.
LEMMA RoutesAreSound == RoutesSound
<1> SUFFICES ASSUME NEW a \in Addresses
    PROVE  LET found == {k \in DOMAIN Routes : In(a, Routes[k])}
           IN  /\ \/ Routed(DOMAIN Routes, a) = Routed(Writable, a)
                  \/ Routed(DOMAIN Routes, a).of = "cpuid"
               /\ Cardinality(found) <= 1
               /\ \A k \in found : Routes[k].of # "flash" => \E w \in Windows : In(a, w)
  BY DEF RoutesSound
<1> DEFINE found == {k \in DOMAIN Routes : In(a, Routes[k])}
<1>1. a \in Nat  BY MemoryAssumption
<1>2. CASE found = {}
  <2>1. {k \in Writable : In(a, Routes[k])} = {}  BY <1>2 DEF Writable
  <2>2. Routed(DOMAIN Routes, a) = Nowhere /\ Routed(Writable, a) = Nowhere
    BY <1>2, <2>1 DEF Routed
  <2> QED  BY <1>2, <2>2, FS_EmptySet
<1>3. ASSUME NEW k \in found PROVE
        /\ \/ Routed(DOMAIN Routes, a) = Routed(Writable, a)
           \/ Routed(DOMAIN Routes, a).of = "cpuid"
        /\ Cardinality(found) <= 1
        /\ \A j \in found : Routes[j].of # "flash" => \E w \in Windows : In(a, w)
  <2>1. found = {k}  BY <1>1, RoutesApart
  <2>2. Cardinality(found) = 1  BY <2>1, FS_Singleton
  <2>3. Routed(DOMAIN Routes, a) = Place(Routes[k].of, a - Routes[k].base)
    BY <1>1, RoutedTo
  <2>4. Routed(Writable, a) = Place(Routes[k].of, a - Routes[k].base) \/ Routes[k].of = "cpuid"
    BY <1>1, RoutedTo DEF Writable
  <2>5. \A j \in found : Routes[j].of # "flash" => \E w \in Windows : In(a, w)
    BY <1>1, RoutesInWindows
  <2> QED  BY <2>2, <2>3, <2>4, <2>5 DEF Place
<1> QED  BY <1>2, <1>3

-----------------------------------------------------------------------------
(***************************************************************************)
(* The memory that cores and devices share.                                *)
(***************************************************************************)

\* What may be mapped, in words.
LEMMA MapsAre ==
  ASSUME IInv
  PROVE  /\ Rest \subseteq maps /\ Low0(low0) \in maps
         /\ maps \subseteq Rest \cup {Low0(low0), AliasRegion}
         /\ AliasRegion = [base |-> 134217728, size |-> 262144, of |-> "flash"]
         /\ \/ low0 = "flash" /\ Low0(low0) = [base |-> 0, size |-> 262144, of |-> "flash"]
            \/ low0 = "ram" /\ Low0(low0) = [base |-> 0, size |-> 8388608, of |-> "sdram"]
  BY Sizes DEF IInv, TypeOK, Mapped, Low0, AliasRegion, Region

\* No window hides memory.
LEMMA WindowsFree ==
  ASSUME IInv, NEW a \in Nat, NEW w \in Windows, In(a, w)
  PROVE  RamPtr(a) = Nowhere /\ ~ \E r \in maps : In(a, r)
<1>1. RamPtr(a) = Nowhere  BY WindowsAre, Sizes DEF In, RamPtr
<1>2. ASSUME NEW r \in maps PROVE ~In(a, r)
  <2>1. CASE r \in Rest  BY <2>1, RestAre, WindowsAre DEF In
  <2>2. CASE r \in {Low0(low0), AliasRegion}  BY <2>2, MapsAre, WindowsAre DEF In
  <2> QED  BY <2>1, <2>2, MapsAre
<1> QED  BY <1>1, <1>2

\* A region that has an address a device can reach has it where the device finds it.
LEMMA SamePlace ==
  ASSUME IInv, NEW a \in Nat, RamPtr(a) # Nowhere, NEW r \in maps, In(a, r)
  PROVE  Place(r.of, a - r.base) = RamPtr(a)
<1>1. CASE r \in Rest  BY <1>1, RestAre, Sizes DEF In, RamPtr, Place
<1>2. CASE r \in {Low0(low0), AliasRegion}  BY <1>2, MapsAre, Sizes DEF In, RamPtr, Place
<1> QED  BY <1>1, <1>2, MapsAre

\* And there is one.
LEMMA Reached ==
  ASSUME IInv, NEW a \in Nat, RamPtr(a) # Nowhere
  PROVE  \E r \in maps : In(a, r)
<1>1. CASE a < 8388608 /\ low0 = "ram"  BY <1>1, MapsAre DEF In
<1>2. CASE ~(a < 8388608 /\ low0 = "ram")
  <2>1. \E r \in Rest : In(a, r)  BY <1>2, RestAre, Sizes DEF In, RamPtr
  <2> QED  BY <2>1, MapsAre
<1> QED  BY <1>1, <1>2

\* So a core finds what a device finds.
LEMMA MemoryIsShared == ASSUME IInv PROVE MemoryShared
<1> SUFFICES ASSUME NEW a \in Addresses
    PROVE  IF \E w \in Windows : In(a, w)
           THEN RamPtr(a) = Nowhere /\ ~ \E r \in maps : In(a, r)
           ELSE RamPtr(a) # Nowhere => CorePlace(a) = RamPtr(a)
  BY DEF MemoryShared
<1>1. a \in Nat  BY MemoryAssumption
<1>2. CASE \E w \in Windows : In(a, w)  BY <1>1, <1>2, WindowsFree
<1>3. ASSUME ~ \E w \in Windows : In(a, w), RamPtr(a) # Nowhere
      PROVE  CorePlace(a) = RamPtr(a)
  <2> DEFINE found == {r \in maps \cup Windows : In(a, r)}
             r == CHOOSE r \in found : TRUE
  <2>1. found # {}  BY <1>1, <1>3, Reached
  <2>2. r \in maps /\ In(a, r)  BY <1>3, <2>1
  <2>3. CorePlace(a) = Place(r.of, a - r.base)  BY <2>1 DEF CorePlace
  <2> HIDE DEF r
  <2> QED  BY <1>1, <1>3, <2>2, <2>3, SamePlace
<1> QED  BY <1>2, <1>3

\* At every change of the map, cores and devices agree on memory before and after, and
\* the registers on where they are: ram.c, bus.c and the maps of cpu_unicorn.c.
THEOREM OneMemoryCorrect == MemorySpec => OneMemory
<1>1. IInv => MemoryShared  BY MemoryIsShared
<1>2. RoutesSound  BY RoutesAreSound
<1> QED  BY <1>1, <1>2, IInvCorrect, PTL DEF OneMemory
================================================================================
