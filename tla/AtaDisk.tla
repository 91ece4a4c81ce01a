------------------------------- MODULE AtaDisk -------------------------------
(***************************************************************************)
(* The emulated ATA drive and its PP502x IDE front end (disk_ata.c).       *)
(*                                                                         *)
(* The guest drives the device through memory-mapped registers; the main   *)
(* loop calls n1g_disk_tick between CPU slices.  A command never completes *)
(* in the register write that starts it: the handler leaves a pending flag *)
(* behind, and a later tick turns the flag into data, an error or an       *)
(* interrupt.  Nothing in the code stops the guest from writing registers  *)
(* while a flag is outstanding, so every action below is enabled whenever  *)
(* its handler would do anything.                                          *)
(*                                                                         *)
(* Abstractions.  The medium is the set of byte offsets the guest has      *)
(* overwritten.  The three LBA byte registers are one lane of LaneSize     *)
(* values and the low nibble of the device register is the other.  Whether *)
(* a DMA address is backed by RAM is chosen at every segment.  Latches     *)
(* nothing depends on (ide0_cfg, ide1_cfg, dma_addr, dma_unknown, bit 31   *)
(* of dma_control, the upper nibble of device), the words returned to the  *)
(* guest, the IDENTIFY block and the logging are left out.                 *)
(***************************************************************************)
EXTENDS Integers

CONSTANTS
  SectorBytes,    \* 512: bytes in a sector, and in the IDENTIFY block
  MediumBytes,    \* size of the loaded image, 0 when there is none
  CountMod,       \* 256: values of the 8-bit sector count register
  LaneSize,       \* 2^24: values of the LBA low, mid and high registers
  DeviceLanes,    \* 16: values of the LBA nibble of the device register
  DmaLengths,     \* values the guest writes to the DMA length register
  Commands        \* commands the guest issues

AllCommands ==
  { "IDENTIFY", "READ", "READ_MULTIPLE", "WRITE", "WRITE_MULTIPLE",
    "READ_DMA", "WRITE_DMA", "SET_MULTIPLE", "NONDATA", "UNSUPPORTED" }

ASSUME SizesAssumption ==
  /\ SectorBytes \in Nat /\ SectorBytes > 0 /\ SectorBytes % 2 = 0
  /\ MediumBytes \in Nat
  /\ CountMod \in Nat /\ CountMod > 1
  /\ LaneSize \in Nat /\ LaneSize > 1
  /\ DeviceLanes \in Nat /\ DeviceLanes > 0

ASSUME GuestAssumption ==
  /\ DmaLengths \subseteq Nat
  /\ Commands \subseteq AllCommands

VARIABLES
  dirty,                  \* byte offsets of the medium the guest has overwritten
  selected_lba, sector_count, device, error,          \* taskfile registers
  command,                \* last command accepted, "NONE" after a reset
  status,                 \* the status register, named by the bits that are set
  irq_pending,            \* the device's interrupt request
  irq_line,               \* bit 23 of intc.cpu_status and intc.cop_status
  device_control,         \* bits set in the device control register
  dma_enable,             \* bit 0 of dma_control
  dma_status, dma_length,
  pending,                \* the *_pending flags that are set
  pio_ready_irq,
  soft_reset_asserted,
  pending_error, pending_multiple_update, pending_multiple_count,
  multiple_count,
  transfer_kind, transfer_lba, sectors_remaining, data_index,
  first_lba, total        \* history: the extent the running command asked for

taskfile  == <<selected_lba, sector_count, device, error>>
irq       == <<irq_pending, irq_line>>
dma_regs  == <<dma_enable, dma_status, dma_length>>
transfer  == <<transfer_kind, transfer_lba, sectors_remaining, data_index>>
completion == <<pending_error, pending_multiple_update, pending_multiple_count>>
history   == <<first_lba, total>>

vars == <<dirty, taskfile, command, status, irq, device_control, dma_regs,
          pending, pio_ready_irq, soft_reset_asserted, completion,
          multiple_count, transfer, history>>

(***************************************************************************)
(* Register values.                                                        *)
(***************************************************************************)
Loaded == "DRDY"
Ready  == "DRDY|DSC"
Failed == "DRDY|DSC|ERR"
Drq    == "DRDY|DSC|DRQ"
Busy   == "BSY"
Statuses == {Loaded, Ready, Failed, Drq, Busy}

\* The error register: cleared, the two error bits the device reports, the
\* diagnostic code 1 that a reset leaves, and a FEATURES value of the guest.
Errors == {"none", "ABRT", "IDNF", "diagnostic", "feature"}

PioKinds  == {"READ", "WRITE"}
DmaKinds  == {"DMA_READ", "DMA_WRITE"}
DataKinds == PioKinds \cup DmaKinds
Kinds     == DataKinds \cup {"none", "IDENTIFY"}

Flags == {"dma", "pio_data", "pio_completion", "nondata", "soft_reset"}

Smaller(a, b) == IF a < b THEN a ELSE b

\* disk_sector_count and lba_in_range: never empty, never more than 28 bits.
Capacity ==
  LET sectors == MediumBytes \div SectorBytes
  IN  Smaller(IF sectors = 0 THEN 1 ELSE sectors, LaneSize * DeviceLanes - 1)

\* What the taskfile can hold.
LbaRange == 0 .. LaneSize * DeviceLanes - 1

InRange(lba) == lba < Capacity

\* A count register of 0 asks for 256 sectors.
RequestedSectors == IF sector_count = 0 THEN CountMod ELSE sector_count

\* Byte offsets of the medium in a run of n bytes.
OnMedium(first, n) == {b \in first .. first + n - 1 : b < MediumBytes}

\* The same for a run of 16-bit words: a word is stored only when both of its
\* bytes are on the medium.
WordsOnMedium(first, n) ==
  {b \in first .. first + n - 1 : (b - (b % 2)) + 1 < MediumBytes}

(***************************************************************************)
(* Helpers: one per helper function of the code, each an action over the   *)
(* variables that function assigns.                                        *)
(***************************************************************************)
\* Mutation: nIEN is not consulted.
SetIdeIrq_Unmasked(raised, control) ==
  irq_pending' = raised /\ irq_line' = raised

SetIdeIrq(raised, control) ==
  /\ irq_pending' = raised
  /\ irq_line'    = (raised /\ "nIEN" \notin control)

Transfer(kind, lba, left, index) ==
  /\ transfer_kind'     = kind
  /\ transfer_lba'      = lba
  /\ sectors_remaining' = left
  /\ data_index'        = index

\* Mutation: the LBA nibble of the device register is left behind.
ShowProgress_StaleDevice(lba, left) ==
  /\ selected_lba' = lba
  /\ sector_count' = left % CountMod
  /\ UNCHANGED <<device, error>>

\* The taskfile follows the transfer at every sector boundary.
ShowProgress(lba, left) ==
  /\ selected_lba' = lba
  /\ sector_count' = left % CountMod
  /\ device'       = (lba \div LaneSize) % DeviceLanes
  /\ UNCHANGED error

\* Mutation: every end of a command interrupts, draining a read included.
FinishTransfer_AlwaysRaises(lba, raise, kept) ==
  /\ status' = Ready
  /\ Transfer("none", lba, 0, 0)
  /\ pending' = pending \cap kept
  /\ pio_ready_irq' = FALSE
  /\ SetIdeIrq(TRUE, device_control)
  /\ UNCHANGED completion

FinishTransfer(lba, raise, kept) ==
  /\ status' = Ready
  /\ Transfer("none", lba, 0, 0)
  /\ pending' = pending \cap kept
  /\ pio_ready_irq' = FALSE
  /\ IF raise THEN SetIdeIrq(TRUE, device_control) ELSE UNCHANGED irq
  /\ UNCHANGED completion

\* Mutation: an outstanding non-data completion survives.
SchedulePioData_KeepsNondata(raise) ==
  /\ status' = Busy
  /\ pending' = (pending \ {"pio_completion"}) \cup {"pio_data"}
  /\ pio_ready_irq' = raise
  /\ SetIdeIrq(FALSE, device_control)
  /\ UNCHANGED completion

SchedulePioData(raise) ==
  /\ status' = Busy
  /\ pending' = (pending \ {"pio_completion", "nondata"}) \cup {"pio_data"}
  /\ pio_ready_irq' = raise
  /\ SetIdeIrq(FALSE, device_control)
  /\ UNCHANGED completion

SchedulePioCompletion ==
  /\ status' = Busy
  /\ pending' = (pending \ {"pio_data", "nondata"}) \cup {"pio_completion"}
  /\ pio_ready_irq' = FALSE
  /\ SetIdeIrq(FALSE, device_control)
  /\ UNCHANGED completion

ScheduleNondata(lba, err, update, count) ==
  /\ pending_error' = err
  /\ pending_multiple_update' = update
  /\ pending_multiple_count' = count
  /\ status' = Busy
  /\ Transfer("none", lba, 0, 0)
  /\ pending' = (pending \ {"dma", "pio_data", "pio_completion"}) \cup {"nondata"}
  /\ pio_ready_irq' = FALSE
  /\ SetIdeIrq(FALSE, device_control)

\* schedule_dma: the flag is recomputed, never merely added.
ArmDma(kind, enable, flags) ==
  IF enable /\ kind \in DmaKinds THEN flags \cup {"dma"} ELSE flags \ {"dma"}

CancelTransfer(lba) ==
  /\ Transfer("none", lba, 0, 0)
  /\ pio_ready_irq' = FALSE
  /\ pending_multiple_update' = FALSE
  /\ pending_error' = "none"
  /\ UNCHANGED pending_multiple_count

InReset == soft_reset_asserted \/ "soft_reset" \in pending

-----------------------------------------------------------------------------
(***************************************************************************)
(* n1g_disk_load: a fresh drive.                                           *)
(***************************************************************************)
Init ==
  /\ dirty = {}
  /\ selected_lba = 0 /\ sector_count = 0 /\ device = 0 /\ error = "none"
  /\ command = "NONE"
  /\ status = Loaded
  /\ irq_pending = FALSE /\ irq_line = FALSE
  /\ device_control = {}
  /\ dma_enable = FALSE /\ dma_status = 0 /\ dma_length = 0
  /\ pending = {}
  /\ pio_ready_irq = FALSE
  /\ soft_reset_asserted = FALSE
  /\ pending_error = "none"
  /\ pending_multiple_update = FALSE
  /\ pending_multiple_count = 0
  /\ multiple_count = 0
  /\ transfer_kind = "none" /\ transfer_lba = 0
  /\ sectors_remaining = 0 /\ data_index = 0
  /\ first_lba = 0 /\ total = 0

(***************************************************************************)
(* Register reads with a side effect.                                      *)
(***************************************************************************)

\* Reading the status register acknowledges the interrupt; so does writing a
\* one to either interrupt bit of IDE0_CFG.
AcknowledgeIrq ==
  /\ SetIdeIrq(FALSE, device_control)
  /\ UNCHANGED <<dirty, taskfile, command, status, device_control, dma_regs,
                 pending, pio_ready_irq, soft_reset_asserted, completion,
                 multiple_count, transfer, history>>

\* Mutation: a 32-bit access is never split at the end of a block.
WordsMoved_Unsplit(n) == 2 * n

\* The words of a data access that still belong to the current block: a 32-bit
\* access moves two words unless the first one ends the block.
WordsMoved(n) == Smaller(2 * n, SectorBytes - data_index)

\* Mutation: the next block is prepared without looking at the medium.
NextBlock_Unchecked(left) ==
  /\ ShowProgress(transfer_lba + 1, left)
  /\ Transfer(transfer_kind, transfer_lba + 1, left, 0)
  /\ SchedulePioData(TRUE)

\* Mutation: the transfer stays on its sector.
NextBlock_SameSector(left) ==
  LET lba == transfer_lba + 1
  IN  /\ ShowProgress(lba, left)
      /\ IF InRange(lba)
         THEN /\ Transfer(transfer_kind, transfer_lba, left, 0)
              /\ SchedulePioData(TRUE)
         ELSE ScheduleNondata(lba, "IDNF", FALSE, 0)

\* A block is complete: the LBA advances, and the next block is prepared only
\* while it lies on the medium.
NextBlock(left) ==
  LET lba == transfer_lba + 1
  IN  /\ ShowProgress(lba, left)
      /\ IF InRange(lba)
         THEN /\ Transfer(transfer_kind, lba, left, 0)
              /\ SchedulePioData(TRUE)
         ELSE ScheduleNondata(lba, "IDNF", FALSE, 0)

ReadData(n) ==
  /\ status = Drq
  /\ LET index == data_index + WordsMoved(n)
         left  == sectors_remaining - 1
     IN  \/ /\ transfer_kind \in {"IDENTIFY", "READ"} /\ index < SectorBytes
            /\ data_index' = index
            /\ UNCHANGED <<taskfile, status, irq, pending, pio_ready_irq,
                           completion, transfer_kind, transfer_lba,
                           sectors_remaining>>
         \/ /\ transfer_kind = "IDENTIFY" /\ index >= SectorBytes
            /\ FinishTransfer(transfer_lba, FALSE, {"dma"})
            /\ UNCHANGED taskfile
         \/ /\ transfer_kind = "READ" /\ index >= SectorBytes
            /\ IF left = 0
               THEN /\ ShowProgress(transfer_lba + 1, left)
                    /\ FinishTransfer(transfer_lba + 1, FALSE, {"dma"})
               ELSE NextBlock(left)
  /\ UNCHANGED <<dirty, command, device_control, dma_regs,
                 soft_reset_asserted, multiple_count, history>>

(***************************************************************************)
(* Register writes.  A reset in progress makes the drive deaf to all of    *)
(* the taskfile, the data register included.                               *)
(***************************************************************************)
\* The words of an access go to the medium at the transfer's position.
StoreWords(n) ==
  dirty' = dirty \cup WordsOnMedium(transfer_lba * SectorBytes + data_index, WordsMoved(n))

WriteData(n) ==
  /\ ~InReset
  /\ status = Drq
  /\ transfer_kind = "WRITE"
  /\ LET index == data_index + WordsMoved(n)
         left  == sectors_remaining - 1
     IN  /\ StoreWords(n)
         /\ \/ /\ index < SectorBytes
               /\ data_index' = index
               /\ UNCHANGED <<taskfile, status, irq, pending, pio_ready_irq,
                              completion, transfer_kind, transfer_lba,
                              sectors_remaining>>
            \/ /\ index >= SectorBytes
               /\ IF left = 0
                  THEN /\ ShowProgress(transfer_lba + 1, left)
                       /\ Transfer("WRITE", transfer_lba + 1, left, 0)
                       /\ SchedulePioCompletion
                  ELSE NextBlock(left)
  /\ UNCHANGED <<command, device_control, dma_regs, soft_reset_asserted,
                 multiple_count, history>>

TaskfileWrite ==
  /\ ~InReset
  /\ UNCHANGED <<dirty, command, status, irq, device_control, dma_regs,
                 pending, pio_ready_irq, soft_reset_asserted, completion,
                 multiple_count, transfer, history>>

WriteFeatures ==
  /\ TaskfileWrite
  /\ error' = "feature"
  /\ UNCHANGED <<selected_lba, sector_count, device>>

WriteSectorCount(count) ==
  /\ TaskfileWrite
  /\ sector_count' = count
  /\ UNCHANGED <<selected_lba, device, error>>

WriteLba(value) ==
  /\ TaskfileWrite
  /\ selected_lba' = (selected_lba - (selected_lba % LaneSize)) + value
  /\ UNCHANGED <<sector_count, device, error>>

WriteDevice(nibble) ==
  /\ TaskfileWrite
  /\ device' = nibble
  /\ selected_lba' = (selected_lba % LaneSize) + nibble * LaneSize
  /\ UNCHANGED <<sector_count, error>>

(***************************************************************************)
(* The command register.                                                   *)
(***************************************************************************)
StartTransfer(kind) ==
  /\ error' = "none"
  /\ UNCHANGED <<selected_lba, sector_count, device>>
  /\ Transfer(kind, selected_lba, RequestedSectors, 0)
  /\ first_lba' = selected_lba /\ total' = RequestedSectors

RejectCommand(err) ==
  /\ ScheduleNondata(transfer_lba, err, FALSE, 0)
  /\ UNCHANGED <<taskfile, history>>

StartIdentify ==
  /\ error' = "none"
  /\ UNCHANGED <<selected_lba, sector_count, device, history>>
  /\ Transfer("IDENTIFY", transfer_lba, 1, 0)
  /\ SchedulePioData(TRUE)

StartRead ==
  IF InRange(selected_lba)
  THEN StartTransfer("READ") /\ SchedulePioData(TRUE)
  ELSE RejectCommand("IDNF")

StartWrite ==
  IF InRange(selected_lba)
  THEN StartTransfer("WRITE") /\ SchedulePioData(FALSE)
  ELSE RejectCommand("IDNF")

StartDma(kind) ==
  IF InRange(selected_lba)
  THEN /\ StartTransfer(kind)
       /\ status' = Drq
       /\ pending' = ArmDma(kind, dma_enable,
                            pending \ {"pio_data", "pio_completion", "nondata"})
       /\ pio_ready_irq' = FALSE
       /\ SetIdeIrq(FALSE, device_control)
       /\ UNCHANGED completion
  ELSE RejectCommand("IDNF")

\* The only block size the drive offers is one sector; 0 disables the mode.
SetMultipleMode ==
  IF sector_count \in {0, 1}
  THEN /\ ScheduleNondata(transfer_lba, "none", TRUE, sector_count)
       /\ UNCHANGED <<taskfile, history>>
  ELSE RejectCommand("ABRT")

WriteCommand(c) ==
  /\ ~InReset
  /\ command' = c
  /\ CASE c = "IDENTIFY" -> StartIdentify
       [] c = "READ"  -> StartRead
       [] c = "WRITE" -> StartWrite
       [] c = "READ_MULTIPLE" ->
            IF multiple_count = 0 THEN RejectCommand("ABRT") ELSE StartRead
       [] c = "WRITE_MULTIPLE" ->
            IF multiple_count = 0 THEN RejectCommand("ABRT") ELSE StartWrite
       [] c = "READ_DMA"  -> StartDma("DMA_READ")
       [] c = "WRITE_DMA" -> StartDma("DMA_WRITE")
       [] c = "SET_MULTIPLE" -> SetMultipleMode
       [] c = "NONDATA" ->
            /\ ScheduleNondata(transfer_lba, "none", FALSE, 0)
            /\ UNCHANGED <<taskfile, history>>
       [] c = "UNSUPPORTED" -> RejectCommand("ABRT")
  /\ UNCHANGED <<dirty, device_control, dma_regs, soft_reset_asserted,
                 multiple_count>>

(***************************************************************************)
(* Device control: SRST and nIEN.                                          *)
(***************************************************************************)
AssertSoftReset(control) ==
  /\ CancelTransfer(transfer_lba)
  /\ pending' = {}
  /\ soft_reset_asserted' = TRUE
  /\ status' = Busy
  /\ SetIdeIrq(FALSE, control)

ReleaseSoftReset(control) ==
  /\ soft_reset_asserted' = FALSE
  /\ pending' = pending \cup {"soft_reset"}
  /\ status' = Busy
  /\ SetIdeIrq(FALSE, control)
  /\ UNCHANGED <<transfer, pio_ready_irq, completion>>

WriteDeviceControl(control) ==
  LET held == "SRST" \in device_control
  IN  /\ device_control' = control
      /\ \/ /\ "SRST" \in control
            /\ ~held \/ "soft_reset" \in pending
            /\ AssertSoftReset(control)
         \/ /\ "SRST" \in control
            /\ held /\ "soft_reset" \notin pending
            /\ SetIdeIrq(FALSE, control)
            /\ UNCHANGED <<status, transfer, pending, pio_ready_irq,
                           soft_reset_asserted, completion>>
         \/ /\ "SRST" \notin control
            /\ held
            /\ ReleaseSoftReset(control)
         \/ /\ "SRST" \notin control
            /\ ~held
            /\ SetIdeIrq(irq_pending, control)
            /\ UNCHANGED <<status, transfer, pending, pio_ready_irq,
                           soft_reset_asserted, completion>>
      /\ UNCHANGED <<dirty, taskfile, command, dma_regs, multiple_count, history>>

(***************************************************************************)
(* The DMA registers of the controller, not guarded by a reset.            *)
(***************************************************************************)
DmaRegisterWrite ==
  UNCHANGED <<dirty, taskfile, command, status, irq, device_control,
              pio_ready_irq, soft_reset_asserted, completion, multiple_count,
              transfer, history>>

WriteDmaControl(enable) ==
  /\ DmaRegisterWrite
  /\ dma_enable' = enable
  /\ pending' = ArmDma(transfer_kind, enable, pending)
  /\ UNCHANGED <<dma_status, dma_length>>

WriteDmaStatus(value) ==
  /\ DmaRegisterWrite
  /\ dma_status' = value
  /\ UNCHANGED <<dma_enable, dma_length, pending>>

WriteDmaLength(length) ==
  /\ DmaRegisterWrite
  /\ dma_length' = length
  /\ UNCHANGED <<dma_enable, dma_status, pending>>

(***************************************************************************)
(* n1g_disk_tick, which the main loop calls once per iteration.  The code  *)
(* tests the flags one after the other; BusyMatchesPending below says at   *)
(* most one of them can act in a tick, so each is a disjunct of its own.   *)
(***************************************************************************)
TickReset ==
  /\ "soft_reset" \in pending
  /\ CancelTransfer(1)
  /\ pending' = {}
  /\ command' = "NONE"
  /\ error' = "diagnostic" /\ sector_count' = 1 /\ selected_lba' = 1 /\ device' = 0
  /\ multiple_count' = 0
  /\ status' = Ready
  /\ SetIdeIrq(FALSE, device_control)
  /\ UNCHANGED <<dirty, dma_regs, history>>

TickNondata ==
  /\ "soft_reset" \notin pending /\ "nondata" \in pending
  /\ multiple_count' = IF pending_error = "none" /\ pending_multiple_update
                       THEN pending_multiple_count ELSE multiple_count
  /\ error' = pending_error
  /\ status' = IF pending_error = "none" THEN Ready ELSE Failed
  /\ Transfer("none", transfer_lba, 0, 0)
  /\ pending' = pending \ {"pio_data", "pio_completion", "nondata"}
  /\ pio_ready_irq' = FALSE
  /\ pending_multiple_update' = FALSE
  /\ pending_error' = "none"
  /\ SetIdeIrq(TRUE, device_control)
  /\ UNCHANGED <<dirty, selected_lba, sector_count, device, command, dma_regs,
                 pending_multiple_count, history>>

TickPioCompletion ==
  /\ "soft_reset" \notin pending /\ "pio_completion" \in pending
  /\ FinishTransfer(transfer_lba, TRUE, {"dma"})
  /\ UNCHANGED <<dirty, taskfile, command, dma_regs, multiple_count, history>>

TickPioData ==
  /\ "soft_reset" \notin pending /\ "pio_data" \in pending
  /\ pending' = pending \ {"pio_data"}
  /\ status' = Drq
  /\ SetIdeIrq(pio_ready_irq, device_control)
  /\ pio_ready_irq' = FALSE
  /\ UNCHANGED <<dirty, taskfile, command, dma_regs, completion,
                 multiple_count, transfer, history>>

\* complete_dma_transfer: one segment of dma_length + 4 bytes, cut to what the
\* command still wants and then to what the medium still has.
SegmentAvailable == sectors_remaining * SectorBytes - data_index
SegmentRequested == Smaller(dma_length + 4, SegmentAvailable)
SegmentStart     == transfer_lba * SectorBytes + data_index
SegmentBytes ==
  Smaller(SegmentRequested,
          IF SegmentStart < Capacity * SectorBytes
          THEN Capacity * SectorBytes - SegmentStart ELSE 0)

RefuseSegment ==
  /\ dma_status' = 1
  /\ ScheduleNondata(transfer_lba,
                     IF SegmentBytes = 0 THEN "IDNF" ELSE "ABRT", FALSE, 0)
  /\ UNCHANGED <<dirty, taskfile, dma_length>>

\* Sectors that are complete once the segment is moved.
SegmentSectors == (data_index + SegmentBytes) \div SectorBytes

\* Mutation: the length register is taken for the number of bytes.
StoreSegment_ByLength ==
  dirty' = IF transfer_kind = "DMA_WRITE"
           THEN dirty \cup OnMedium(SegmentStart, Smaller(dma_length, SegmentBytes))
           ELSE dirty

StoreSegment ==
  dirty' = IF transfer_kind = "DMA_WRITE"
           THEN dirty \cup OnMedium(SegmentStart, SegmentBytes) ELSE dirty

MoveSegment ==
  LET moved == data_index + SegmentBytes
      done  == SegmentSectors
      lba   == transfer_lba + done
      left  == IF done >= sectors_remaining THEN 0 ELSE sectors_remaining - done
  IN  /\ SegmentBytes > 0
      /\ StoreSegment
      /\ dma_length' = 0
      /\ ShowProgress(lba, left)
      /\ \/ /\ SegmentBytes < SegmentRequested
            /\ dma_status' = 1
            /\ ScheduleNondata(lba, "IDNF", FALSE, 0)
         \/ /\ SegmentBytes = SegmentRequested /\ left = 0
            /\ dma_status' = 0
            /\ FinishTransfer(lba, TRUE, {})
         \/ /\ SegmentBytes = SegmentRequested /\ left > 0
            /\ dma_status' = 0
            /\ Transfer(transfer_kind, lba, left, moved % SectorBytes)
            /\ pending' = pending \ {"dma"}
            /\ UNCHANGED <<status, irq, pio_ready_irq, completion>>

TickDma ==
  /\ "soft_reset" \notin pending /\ "dma" \in pending
  /\ dma_enable /\ transfer_kind \in DmaKinds
  /\ RefuseSegment \/ MoveSegment
  /\ UNCHANGED <<command, dma_enable, multiple_count, history>>

DiskTick ==
  /\ ~soft_reset_asserted
  /\ TickReset \/ TickNondata \/ TickPioCompletion \/ TickPioData \/ TickDma
  /\ UNCHANGED <<device_control, soft_reset_asserted>>

-----------------------------------------------------------------------------
GuestAccess ==
  \/ AcknowledgeIrq
  \/ \E n \in {1, 2} : ReadData(n) \/ WriteData(n)
  \/ WriteFeatures
  \/ \E count \in 0 .. CountMod - 1 : WriteSectorCount(count)
  \/ \E value \in 0 .. LaneSize - 1 : WriteLba(value)
  \/ \E nibble \in 0 .. DeviceLanes - 1 : WriteDevice(nibble)
  \/ \E c \in Commands : WriteCommand(c)
  \/ \E control \in SUBSET {"nIEN", "SRST"} : WriteDeviceControl(control)
  \/ \E enable \in BOOLEAN : WriteDmaControl(enable)
  \/ WriteDmaStatus(0)    \* the acknowledging write; nothing reads the register
  \/ \E length \in DmaLengths : WriteDmaLength(length)

Next == GuestAccess \/ DiskTick

\* The main loop ticks the device once per iteration, whatever the guest does.
Spec == Init /\ [][Next]_vars /\ WF_vars(DiskTick)

-----------------------------------------------------------------------------
(***************************************************************************)
(* Safety.                                                                 *)
(***************************************************************************)

\* Every register holds a value the hardware register could hold.
TypeOK ==
  /\ dirty \subseteq Nat
  /\ selected_lba \in LbaRange
  /\ sector_count \in 0 .. CountMod - 1
  /\ device \in 0 .. DeviceLanes - 1
  /\ error \in Errors
  /\ command \in AllCommands \cup {"NONE"}
  /\ status \in Statuses
  /\ irq_pending \in BOOLEAN /\ irq_line \in BOOLEAN
  /\ device_control \subseteq {"nIEN", "SRST"}
  /\ dma_enable \in BOOLEAN /\ dma_status \in {0, 1} /\ dma_length \in Nat
  /\ pending \subseteq Flags
  /\ pio_ready_irq \in BOOLEAN
  /\ soft_reset_asserted \in BOOLEAN
  /\ pending_error \in Errors
  /\ pending_multiple_update \in BOOLEAN
  /\ pending_multiple_count \in {0, 1}
  /\ multiple_count \in {0, 1}
  /\ transfer_kind \in Kinds
  /\ transfer_lba \in Nat
  /\ sectors_remaining \in 0 .. CountMod
  /\ data_index \in 0 .. SectorBytes - 1
  /\ first_lba \in Nat /\ total \in 0 .. CountMod

\* BSY is shown exactly while something is outstanding that a tick (or the
\* guest, for SRST) will end, and never more than one such thing: a command
\* written over an unfinished one leaves no flag of its predecessor behind that
\* a later tick could act on.  The DMA flag is the exception: a PIO command
\* does not clear it.
BusyMatchesPending ==
  /\ (status = Busy) <=> (soft_reset_asserted \/ pending \ {"dma"} # {})
  /\ \A f, g \in pending \ {"dma"} : f = g
  /\ soft_reset_asserted => pending = {}
  /\ "soft_reset" \in pending => pending = {"soft_reset"}
  /\ soft_reset_asserted <=> "SRST" \in device_control

\* While DRQ is shown there is a transfer with work left, and what the next
\* word or segment touches lies on the medium.  A DMA transfer may stand at the
\* end of the medium between two segments, never beyond it.  In particular the
\* unsigned subtraction sectors_remaining * 512 - data_index cannot wrap.
DataPhaseInBounds ==
  status = Drq =>
    /\ transfer_kind # "none"
    /\ sectors_remaining > 0
    /\ transfer_kind \in PioKinds => InRange(transfer_lba)
    /\ transfer_kind \in DmaKinds => transfer_lba <= Capacity

\* Between blocks the same holds of what the outstanding flag promises: the
\* flag, the kind of transfer and the status never disagree about which course
\* the command is on.
CourseOfTransfer ==
  /\ "pio_data" \in pending =>
       /\ transfer_kind \in PioKinds \cup {"IDENTIFY"}
       /\ sectors_remaining > 0
       /\ transfer_kind \in PioKinds => InRange(transfer_lba)
       /\ transfer_kind = "WRITE" /\ pio_ready_irq => transfer_lba > first_lba
  /\ "pio_completion" \in pending => transfer_kind = "WRITE" /\ sectors_remaining = 0
  /\ transfer_kind \in DmaKinds => status = Drq
  /\ transfer_kind # "none" =>
       status = Drq \/ "pio_data" \in pending \/ "pio_completion" \in pending
  /\ "dma" \in pending /\ transfer_kind \in DmaKinds => dma_enable
  /\ transfer_kind \notin DmaKinds => data_index % 2 = 0

\* No sector is skipped or moved twice: what was moved and what remains always
\* add up to the extent of the command, through every block boundary, split
\* access and DMA segment.
TransferConserved ==
  transfer_kind \in DataKinds =>
    /\ first_lba <= transfer_lba
    /\ transfer_lba + sectors_remaining = first_lba + total

\* The interrupt controller sees the request exactly when it is not masked by
\* nIEN, and the drive never requests an interrupt while it is busy, during a
\* DMA data phase, or to announce the first block of a PIO write.
InterruptCoherent ==
  /\ irq_line <=> irq_pending /\ "nIEN" \notin device_control
  /\ irq_pending => status # Busy
  /\ irq_pending /\ status = Drq =>
       /\ transfer_kind \notin DmaKinds
       /\ transfer_kind = "WRITE" => transfer_lba > first_lba

\* From the assertion of SRST to the tick that completes the reset the drive is
\* busy and silent, with nothing left of the cancelled command.
ResetIsQuiet ==
  InReset =>
    /\ status = Busy
    /\ ~irq_pending
    /\ transfer_kind = "none"
    /\ ~pending_multiple_update

(***************************************************************************)
(* Action properties.                                                      *)
(***************************************************************************)

\* The medium changes only under a write command, inside the extent it asked
\* for, inside the advertised capacity, and never during a reset.
WritesConfined ==
  [][\A b \in dirty' \ dirty :
       /\ transfer_kind \in {"WRITE", "DMA_WRITE"}
       /\ ~InReset
       /\ b \in first_lba * SectorBytes .. (first_lba + total) * SectorBytes - 1
       /\ b < Capacity * SectorBytes]_vars

\* When a transfer runs off the medium, the taskfile names the first sector
\* that could not be moved and how many were left.
FirstBadSectorShown ==
  /\ selected_lba = Capacity
  /\ device = (Capacity \div LaneSize) % DeviceLanes
  /\ sector_count = (first_lba + total - Capacity) % CountMod

FailureNamesFirstSector ==
  [][(/\ transfer_kind \in DataKinds
      /\ transfer_lba' # transfer_lba
      /\ "nondata" \in pending' /\ pending_error' = "IDNF") => FirstBadSectorShown']_vars

\* A write that has not failed has stored every byte up to where it stands, at
\* every access and segment, and one that ends without an error its whole extent.
Extent(n) ==
  LET first == first_lba * SectorBytes
  IN  IF transfer_kind = "WRITE" THEN WordsOnMedium(first, n) ELSE OnMedium(first, n)

Writing == transfer_kind \in {"WRITE", "DMA_WRITE"}

StoredSoFar == Writing => Extent(SegmentStart - first_lba * SectorBytes) \subseteq dirty

WritesStored ==
  [][/\ StoredSoFar'
     /\ Writing /\ transfer_kind' = "none" /\ status' = Ready
          => Extent(total * SectorBytes) \subseteq dirty']_vars
=============================================================================
