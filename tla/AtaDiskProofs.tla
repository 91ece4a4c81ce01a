---------------------------- MODULE AtaDiskProofs ----------------------------
(***************************************************************************)
(* Proofs about AtaDisk for every sector size, medium, register width and  *)
(* guest.  Inv is the inductive invariant: no part of it is inductive on   *)
(* its own.  That a transfer stays on the medium needs the course the      *)
(* pending flags promise; that BSY matches the flags needs their           *)
(* exclusivity, which needs the flags and the transfer kind to agree.      *)
(***************************************************************************)
EXTENDS AtaDiskView, TLAPS

Inv ==
  /\ TypeOK
  /\ BusyMatchesPending
  /\ DataPhaseInBounds
  /\ CourseOfTransfer
  /\ TransferConserved
  /\ InterruptCoherent
  /\ ResetIsQuiet

LEMMA DivMod ==
  ASSUME NEW a \in Nat, NEW b \in Nat, b > 0
  PROVE  /\ a \div b \in Nat
         /\ a % b \in 0 .. b - 1
         /\ a = b * (a \div b) + (a % b)
  BY SMT
LEMMA MulMono ==
  ASSUME NEW a \in Int, NEW b \in Int, NEW c \in Nat, a <= b
  PROVE  a * c <= b * c
  BY SMT
LEMMA Product ==
  ASSUME NEW a \in Nat
  PROVE  a * SectorBytes \in Nat
<1>1. SectorBytes \in Nat
  BY SizesAssumption
<1> QED BY <1>1
LEMMA Distribute ==
  ASSUME NEW a \in Int, NEW b \in Int, NEW c \in Int
  PROVE  (a + b) * c = a * c + b * c
  BY SMT
LEMMA CapacityBounds ==
  /\ Capacity \in Nat
  /\ Capacity > 0
  /\ Capacity <= LaneSize * DeviceLanes - 1
  BY SizesAssumption, SMT DEF Capacity, Smaller

USE DEF Loaded, Ready, Failed, Drq, Busy

\* The part of Inv that is about the course of commands, as opposed to types.
Course ==
  /\ BusyMatchesPending
  /\ DataPhaseInBounds
  /\ CourseOfTransfer
  /\ TransferConserved
  /\ InterruptCoherent
  /\ ResetIsQuiet

LEMMA InvParts == Inv <=> TypeOK /\ Course
  BY DEF Inv, Course

LEMMA InitInv == Init => Inv
<1> SUFFICES ASSUME Init PROVE Inv
  OBVIOUS
<1> USE SizesAssumption DEF Init
<1>1. TypeOK
  <2>1. LaneSize * DeviceLanes \in Nat /\ LaneSize * DeviceLanes > 0
    BY CapacityBounds
  <2>2. 0 \in LbaRange
    BY <2>1 DEF LbaRange
  <2>3. sector_count \in 0 .. CountMod - 1 /\ sectors_remaining \in 0 .. CountMod
        /\ total \in 0 .. CountMod /\ data_index \in 0 .. SectorBytes - 1
        /\ device \in 0 .. DeviceLanes - 1
    OBVIOUS
  <2>4. irq_pending \in BOOLEAN /\ irq_line \in BOOLEAN /\ dma_enable \in BOOLEAN
        /\ pio_ready_irq \in BOOLEAN /\ soft_reset_asserted \in BOOLEAN
        /\ pending_multiple_update \in BOOLEAN
    OBVIOUS
  <2> QED BY <2>2, <2>3, <2>4 DEF TypeOK, Statuses, Errors, Flags, Kinds
<1>2. BusyMatchesPending /\ ResetIsQuiet
  BY DEF BusyMatchesPending, ResetIsQuiet, InReset
<1>3. DataPhaseInBounds /\ CourseOfTransfer /\ TransferConserved
  BY DEF DataPhaseInBounds, CourseOfTransfer, TransferConserved,
         DataKinds, PioKinds, DmaKinds
<1>4. InterruptCoherent
  BY DEF InterruptCoherent
<1> QED BY <1>1, <1>2, <1>3, <1>4 DEF Inv

-----------------------------------------------------------------------------
(***************************************************************************)
(* What the helpers do to the course of commands, whoever calls them.      *)
(***************************************************************************)

courseVars ==
  <<status, pending, pio_ready_irq, soft_reset_asserted, device_control,
    irq_pending, irq_line, pending_multiple_update, dma_enable,
    transfer_kind, transfer_lba, sectors_remaining, data_index, first_lba, total>>

LEMMA CourseUnchanged ==
  ASSUME Course, UNCHANGED courseVars
  PROVE  Course'
<1>1. BusyMatchesPending' /\ DataPhaseInBounds' /\ CourseOfTransfer'
  BY DEF courseVars, Course, BusyMatchesPending, DataPhaseInBounds, CourseOfTransfer, InRange
<1>2. TransferConserved' /\ InterruptCoherent'
  BY DEF courseVars, Course, TransferConserved, InterruptCoherent
<1>3. ResetIsQuiet'
  BY DEF courseVars, Course, ResetIsQuiet, InReset
<1> QED BY <1>1, <1>2, <1>3 DEF Course

\* Outside a reset at most one flag besides "dma" is set.
LEMMA NoReset ==
  ASSUME TypeOK, BusyMatchesPending, ~InReset
  PROVE  /\ ~soft_reset_asserted
         /\ pending \subseteq {"dma", "pio_data", "pio_completion", "nondata"}
         /\ "SRST" \notin device_control
  BY DEF TypeOK, BusyMatchesPending, InReset, Flags

\* schedule_nondata_command drops whatever was running.
LEMMA NondataCourse ==
  ASSUME TypeOK, BusyMatchesPending, ~InReset,
         NEW lba \in Nat, NEW err, NEW update, NEW count,
         ScheduleNondata(lba, err, update, count),
         UNCHANGED <<soft_reset_asserted, device_control>>
  PROVE  Course'
<1>1. /\ status' = Busy /\ pending' = {"nondata"} /\ ~soft_reset_asserted'
      /\ ~irq_pending' /\ ~irq_line'
      /\ transfer_kind' = "none" /\ data_index' = 0
      /\ "SRST" \notin device_control'
  BY NoReset DEF ScheduleNondata, Transfer, SetIdeIrq
<1>2. BusyMatchesPending'
  BY <1>1 DEF BusyMatchesPending
<1>3. DataPhaseInBounds' /\ TransferConserved' /\ InterruptCoherent'
  BY <1>1 DEF DataPhaseInBounds, TransferConserved, InterruptCoherent,
              DataKinds, PioKinds, DmaKinds
<1>4. CourseOfTransfer'
  BY <1>1 DEF CourseOfTransfer, DmaKinds
<1>5. ResetIsQuiet'
  BY <1>1 DEF ResetIsQuiet, InReset
<1> QED BY <1>2, <1>3, <1>4, <1>5 DEF Course

\* schedule_pio_data announces a block that is on the medium.
LEMMA PioDataCourse ==
  ASSUME TypeOK, BusyMatchesPending, ~InReset,
         NEW kind \in PioKinds \cup {"IDENTIFY"},
         NEW lba \in Nat, NEW left \in Nat, NEW raise \in BOOLEAN,
         Transfer(kind, lba, left, 0), SchedulePioData(raise),
         UNCHANGED <<soft_reset_asserted, device_control>>,
         left > 0,
         kind \in PioKinds => /\ InRange(lba)
                              /\ first_lba' \in Nat /\ first_lba' <= lba
                              /\ lba + left = first_lba' + total',
         kind = "WRITE" /\ raise => lba > first_lba'
  PROVE  Course'
<1>1. /\ status' = Busy /\ pending' \subseteq {"dma", "pio_data"}
      /\ "pio_data" \in pending' /\ ~soft_reset_asserted'
      /\ ~irq_pending' /\ ~irq_line' /\ pio_ready_irq' = raise
      /\ transfer_kind' = kind /\ transfer_lba' = lba
      /\ sectors_remaining' = left /\ data_index' = 0
      /\ "SRST" \notin device_control'
  BY NoReset DEF SchedulePioData, Transfer, SetIdeIrq
<1>2. BusyMatchesPending'
  BY <1>1 DEF BusyMatchesPending
<1>3. DataPhaseInBounds' /\ InterruptCoherent'
  BY <1>1 DEF DataPhaseInBounds, InterruptCoherent
<1>4. TransferConserved'
  BY <1>1 DEF TransferConserved, DataKinds, PioKinds, DmaKinds
<1>5. CourseOfTransfer'
  BY <1>1 DEF CourseOfTransfer, PioKinds, DmaKinds, InRange
<1>6. ResetIsQuiet'
  BY <1>1 DEF ResetIsQuiet, InReset
<1> QED BY <1>2, <1>3, <1>4, <1>5, <1>6 DEF Course

\* finish_transfer leaves the drive idle; a stale DMA flag may stay behind.
LEMMA FinishCourse ==
  ASSUME TypeOK, BusyMatchesPending, ~InReset,
         NEW lba \in Nat, NEW raise \in BOOLEAN,
         NEW kept, kept \subseteq {"dma"},
         InterruptCoherent,
         FinishTransfer(lba, raise, kept),
         UNCHANGED <<soft_reset_asserted, device_control>>
  PROVE  Course'
<1>1. /\ status' = Ready /\ pending' \subseteq {"dma"} /\ ~soft_reset_asserted'
      /\ transfer_kind' = "none" /\ data_index' = 0
      /\ "SRST" \notin device_control'
  BY NoReset DEF FinishTransfer, Transfer
<1>2. irq_line' <=> irq_pending' /\ "nIEN" \notin device_control'
  BY DEF FinishTransfer, SetIdeIrq, irq, InterruptCoherent
<1>3. BusyMatchesPending'
  BY <1>1 DEF BusyMatchesPending
<1>4. DataPhaseInBounds' /\ TransferConserved' /\ CourseOfTransfer'
  BY <1>1 DEF DataPhaseInBounds, TransferConserved, CourseOfTransfer,
              DataKinds, PioKinds, DmaKinds
<1>5. InterruptCoherent'
  BY <1>1, <1>2 DEF InterruptCoherent
<1>6. ResetIsQuiet'
  BY <1>1 DEF ResetIsQuiet, InReset
<1> QED BY <1>3, <1>4, <1>5, <1>6 DEF Course

-----------------------------------------------------------------------------
(***************************************************************************)
(* Accesses that leave the course of the command alone.                    *)
(***************************************************************************)

LEMMA AcknowledgeInv == Inv /\ AcknowledgeIrq => Inv'
<1> SUFFICES ASSUME Inv, AcknowledgeIrq PROVE Inv'
  OBVIOUS
<1> USE DEF Inv
<1>1. /\ ~irq_pending' /\ ~irq_line'
      /\ irq_pending' \in BOOLEAN /\ irq_line' \in BOOLEAN
  BY DEF AcknowledgeIrq, SetIdeIrq
<1>2. /\ UNCHANGED <<dirty, selected_lba, sector_count, device, error, command, status>>
      /\ UNCHANGED <<device_control, dma_enable, dma_status, dma_length, pending>>
      /\ UNCHANGED <<pio_ready_irq, soft_reset_asserted, pending_error>>
      /\ UNCHANGED <<pending_multiple_update, pending_multiple_count, multiple_count>>
      /\ UNCHANGED <<transfer_kind, transfer_lba, sectors_remaining, data_index>>
      /\ UNCHANGED <<first_lba, total>>
  BY DEF AcknowledgeIrq, taskfile, dma_regs, completion, transfer, history
<1>3. TypeOK'
  BY <1>1, <1>2 DEF TypeOK
<1>4. BusyMatchesPending' /\ DataPhaseInBounds' /\ CourseOfTransfer'
  BY <1>2 DEF BusyMatchesPending, DataPhaseInBounds, CourseOfTransfer, InRange
<1>5. TransferConserved' /\ InterruptCoherent'
  BY <1>1, <1>2 DEF TransferConserved, InterruptCoherent
<1>6. ResetIsQuiet'
  BY <1>1, <1>2 DEF ResetIsQuiet, InReset
<1> QED BY <1>3, <1>4, <1>5, <1>6

LEMMA TaskfileCourse ==
  ASSUME Inv, TaskfileWrite
  PROVE  /\ Course'
         /\ UNCHANGED <<dirty, command, status, irq_pending, irq_line, device_control>>
         /\ UNCHANGED <<dma_enable, dma_status, dma_length, pending, pio_ready_irq>>
         /\ UNCHANGED <<soft_reset_asserted, pending_error, pending_multiple_update>>
         /\ UNCHANGED <<pending_multiple_count, multiple_count, transfer_kind>>
         /\ UNCHANGED <<transfer_lba, sectors_remaining, data_index, first_lba, total>>
<1>1. UNCHANGED courseVars
  BY DEF TaskfileWrite, courseVars, irq, dma_regs, completion, transfer, history
<1>2. Course'
  BY <1>1, CourseUnchanged, InvParts
<1> QED BY <1>2 DEF TaskfileWrite, irq, dma_regs, completion, transfer, history

\* The two lanes of an LBA: any lane value in any device lane is an LBA.
LEMMA Lanes ==
  ASSUME NEW nibble \in 0 .. DeviceLanes - 1, NEW value \in 0 .. LaneSize - 1
  PROVE  value + nibble * LaneSize \in LbaRange
<1> USE SizesAssumption
<1>1. nibble * LaneSize <= (DeviceLanes - 1) * LaneSize
  BY MulMono
<1>2. (DeviceLanes - 1) * LaneSize = LaneSize * DeviceLanes - LaneSize
  OBVIOUS
<1>3. nibble * LaneSize \in Nat /\ LaneSize * DeviceLanes \in Nat
  OBVIOUS
<1> QED BY <1>1, <1>2, <1>3 DEF LbaRange

LEMMA LaneOf ==
  ASSUME NEW lba \in LbaRange
  PROVE  /\ lba \div LaneSize \in 0 .. DeviceLanes - 1
         /\ lba - (lba % LaneSize) = (lba \div LaneSize) * LaneSize
         /\ lba % LaneSize \in 0 .. LaneSize - 1
<1> USE SizesAssumption
<1> DEFINE q == lba \div LaneSize
<1>1. lba \in Nat /\ lba < LaneSize * DeviceLanes
  BY DEF LbaRange
<1>2. q \in Nat /\ lba % LaneSize \in 0 .. LaneSize - 1 /\ lba = LaneSize * q + (lba % LaneSize)
  BY <1>1, DivMod
<1> HIDE DEF q
<1>3. LaneSize * q <= lba
  BY <1>2
<1>4. q < DeviceLanes
  <2>1. SUFFICES ASSUME DeviceLanes <= q PROVE FALSE
    BY <1>2
  <2>2. DeviceLanes * LaneSize <= q * LaneSize
    BY <2>1, <1>2, MulMono
  <2> QED BY <2>2, <1>1, <1>2, <1>3
<1>5. lba - (lba % LaneSize) = q * LaneSize
  BY <1>1, <1>2
<1> QED BY <1>2, <1>4, <1>5 DEF q

LEMMA WriteFeaturesInv == Inv /\ WriteFeatures => Inv'
<1> SUFFICES ASSUME Inv, WriteFeatures PROVE Inv'
  OBVIOUS
<1>1. error' \in Errors /\ TaskfileWrite /\ UNCHANGED <<selected_lba, sector_count, device>>
  BY DEF WriteFeatures, Errors
<1>2. TypeOK'
  BY <1>1, TaskfileCourse DEF Inv, TypeOK
<1> QED BY <1>1, <1>2, TaskfileCourse DEF Inv, Course

LEMMA WriteSectorCountInv ==
  ASSUME NEW count \in 0 .. CountMod - 1
  PROVE  Inv /\ WriteSectorCount(count) => Inv'
<1> SUFFICES ASSUME Inv, WriteSectorCount(count) PROVE Inv'
  OBVIOUS
<1>1. TypeOK'
  BY TaskfileCourse DEF Inv, WriteSectorCount, TypeOK
<1> QED BY <1>1, TaskfileCourse DEF WriteSectorCount, Inv, Course

LEMMA WriteLbaInv ==
  ASSUME NEW value \in 0 .. LaneSize - 1
  PROVE  Inv /\ WriteLba(value) => Inv'
<1> SUFFICES ASSUME Inv, WriteLba(value) PROVE Inv'
  OBVIOUS
<1>1. selected_lba \in LbaRange
  BY DEF Inv, TypeOK
<1>2. selected_lba' = value + (selected_lba \div LaneSize) * LaneSize
  BY <1>1, LaneOf, SizesAssumption DEF WriteLba
<1>3. selected_lba' \in LbaRange
  BY <1>1, <1>2, LaneOf, Lanes
<1>4. TaskfileWrite /\ UNCHANGED <<sector_count, device, error>>
  BY DEF WriteLba
<1>5. TypeOK'
  BY <1>3, <1>4, TaskfileCourse DEF Inv, TypeOK
<1> QED BY <1>4, <1>5, TaskfileCourse DEF Inv, Course

LEMMA WriteDeviceInv ==
  ASSUME NEW nibble \in 0 .. DeviceLanes - 1
  PROVE  Inv /\ WriteDevice(nibble) => Inv'
<1> SUFFICES ASSUME Inv, WriteDevice(nibble) PROVE Inv'
  OBVIOUS
<1>1. selected_lba \in LbaRange
  BY DEF Inv, TypeOK
<1>2. selected_lba' \in LbaRange
  BY <1>1, LaneOf, Lanes DEF WriteDevice
<1>3. TypeOK'
  BY <1>2, TaskfileCourse DEF Inv, WriteDevice, TypeOK
<1> QED BY <1>3, TaskfileCourse DEF WriteDevice, Inv, Course

-----------------------------------------------------------------------------
(***************************************************************************)
(* Data blocks.                                                            *)
(***************************************************************************)

\* The end of the medium has an LBA of its own, so every block boundary a
\* transfer reaches can be shown in the taskfile.
LEMMA ShowProgressType ==
  ASSUME NEW lba \in Nat, NEW left \in Nat, lba <= Capacity, TypeOK,
         ShowProgress(lba, left)
  PROVE  /\ selected_lba' \in LbaRange
         /\ sector_count' \in 0 .. CountMod - 1
         /\ device' \in 0 .. DeviceLanes - 1
         /\ error' \in Errors
<1>1. lba \in LbaRange
  BY CapacityBounds, SizesAssumption DEF LbaRange
<1>2. left % CountMod \in 0 .. CountMod - 1
  BY DivMod, SizesAssumption
<1>3. (lba \div LaneSize) % DeviceLanes \in 0 .. DeviceLanes - 1
  BY DivMod, SizesAssumption
<1> QED BY <1>1, <1>2, <1>3 DEF ShowProgress, TypeOK

LEMMA DmaRegisterWriteCourse ==
  ASSUME Inv, DmaRegisterWrite, UNCHANGED <<dma_enable, pending>>
  PROVE  Course'
<1>1. UNCHANGED courseVars
  BY DEF DmaRegisterWrite, courseVars, irq, completion, transfer, history
<1> QED BY <1>1, CourseUnchanged, InvParts

LEMMA WriteDmaStatusInv == Inv /\ WriteDmaStatus(0) => Inv'
<1> SUFFICES ASSUME Inv, WriteDmaStatus(0) PROVE Inv'
  OBVIOUS
<1>1. TypeOK'
  BY DEF Inv, WriteDmaStatus, DmaRegisterWrite, TypeOK,
         taskfile, irq, completion, transfer, history
<1> QED BY <1>1, DmaRegisterWriteCourse, InvParts DEF WriteDmaStatus, Course, Inv

LEMMA WriteDmaLengthInv ==
  ASSUME NEW length \in DmaLengths
  PROVE  Inv /\ WriteDmaLength(length) => Inv'
<1> SUFFICES ASSUME Inv, WriteDmaLength(length) PROVE Inv'
  OBVIOUS
<1>1. TypeOK'
  BY GuestAssumption DEF Inv, WriteDmaLength, DmaRegisterWrite, TypeOK,
         taskfile, irq, completion, transfer, history
<1> QED BY <1>1, DmaRegisterWriteCourse, InvParts DEF WriteDmaLength, Course, Inv

LEMMA WriteDmaControlInv ==
  ASSUME NEW enable \in BOOLEAN
  PROVE  Inv /\ WriteDmaControl(enable) => Inv'
<1> SUFFICES ASSUME Inv, WriteDmaControl(enable) PROVE Inv'
  OBVIOUS
<1> USE DEF Inv
<1>1. /\ UNCHANGED <<dirty, selected_lba, sector_count, device, error, command, status>>
      /\ UNCHANGED <<irq_pending, irq_line, device_control, dma_status, dma_length>>
      /\ UNCHANGED <<pio_ready_irq, soft_reset_asserted, pending_error>>
      /\ UNCHANGED <<pending_multiple_update, pending_multiple_count, multiple_count>>
      /\ UNCHANGED <<transfer_kind, transfer_lba, sectors_remaining, data_index>>
      /\ UNCHANGED <<first_lba, total>>
  BY DEF WriteDmaControl, DmaRegisterWrite, taskfile, irq, completion, transfer, history
<1>2. /\ dma_enable' = enable
      /\ pending' = pending \ {"dma"} \/ pending' = pending \cup {"dma"}
      /\ "dma" \in pending' => enable /\ transfer_kind \in DmaKinds
  BY DEF WriteDmaControl, ArmDma
<1>3. pending' \ {"dma"} = pending \ {"dma"}
  BY <1>2
<1>4. TypeOK'
  BY <1>1, <1>2 DEF TypeOK, Flags
<1>5. BusyMatchesPending'
  <2>1. InReset => "dma" \notin pending'
    BY <1>2 DEF ResetIsQuiet, DmaKinds
  <2>2. soft_reset_asserted => pending' = {}
    BY <2>1, <1>3 DEF BusyMatchesPending, InReset
  <2>3. "soft_reset" \in pending' => pending' = {"soft_reset"}
    BY <2>1, <1>3 DEF BusyMatchesPending, InReset
  <2> QED BY <1>1, <1>3, <2>2, <2>3 DEF BusyMatchesPending
<1>6. DataPhaseInBounds' /\ TransferConserved' /\ InterruptCoherent'
  BY <1>1 DEF DataPhaseInBounds, TransferConserved, InterruptCoherent, InRange
<1>7. CourseOfTransfer'
  BY <1>1, <1>2, <1>3 DEF CourseOfTransfer, InRange
<1>8. ResetIsQuiet'
  BY <1>1, <1>3 DEF ResetIsQuiet, InReset
<1> QED BY <1>4, <1>5, <1>6, <1>7, <1>8

\* The variables a scheduling helper assigns, with their types.
HelperTypes ==
  /\ status \in Statuses
  /\ irq_pending \in BOOLEAN /\ irq_line \in BOOLEAN
  /\ pending \subseteq Flags
  /\ pio_ready_irq \in BOOLEAN
  /\ pending_error \in Errors
  /\ pending_multiple_update \in BOOLEAN
  /\ pending_multiple_count \in {0, 1}

LEMMA SetIdeIrqType ==
  ASSUME NEW raise \in BOOLEAN, NEW control, SetIdeIrq(raise, control)
  PROVE  irq_pending' \in BOOLEAN /\ irq_line' \in BOOLEAN
  BY DEF SetIdeIrq

LEMMA NondataTypes ==
  ASSUME TypeOK, NEW lba, NEW err \in Errors, NEW update \in BOOLEAN,
         NEW count \in {0, 1}, ScheduleNondata(lba, err, update, count)
  PROVE  HelperTypes'
<1>1. irq_pending' \in BOOLEAN /\ irq_line' \in BOOLEAN
  BY SetIdeIrqType DEF ScheduleNondata
<1>2. status' \in Statuses /\ pending' \subseteq Flags
  BY DEF ScheduleNondata, Statuses, Flags, TypeOK
<1>3. /\ pio_ready_irq' \in BOOLEAN /\ pending_error' \in Errors
      /\ pending_multiple_update' \in BOOLEAN /\ pending_multiple_count' \in {0, 1}
  BY DEF ScheduleNondata
<1> QED BY <1>1, <1>2, <1>3 DEF HelperTypes

LEMMA PioDataTypes ==
  ASSUME TypeOK, NEW raise \in BOOLEAN, SchedulePioData(raise)
  PROVE  HelperTypes'
<1>1. irq_pending' \in BOOLEAN /\ irq_line' \in BOOLEAN
  BY SetIdeIrqType DEF SchedulePioData
<1>2. status' \in Statuses /\ pending' \subseteq Flags
  BY DEF SchedulePioData, Statuses, Flags, TypeOK
<1>3. /\ pio_ready_irq' \in BOOLEAN /\ pending_error' \in Errors
      /\ pending_multiple_update' \in BOOLEAN /\ pending_multiple_count' \in {0, 1}
  BY DEF SchedulePioData, completion, TypeOK
<1> QED BY <1>1, <1>2, <1>3 DEF HelperTypes

LEMMA FinishTypes ==
  ASSUME TypeOK, NEW lba, NEW raise \in BOOLEAN, NEW kept,
         FinishTransfer(lba, raise, kept)
  PROVE  HelperTypes'
<1>1. irq_pending' \in BOOLEAN /\ irq_line' \in BOOLEAN
  BY SetIdeIrqType DEF FinishTransfer, irq, TypeOK
<1>2. status' \in Statuses /\ pending' \subseteq Flags
  BY DEF FinishTransfer, Statuses, TypeOK
<1>3. /\ pio_ready_irq' \in BOOLEAN /\ pending_error' \in Errors
      /\ pending_multiple_update' \in BOOLEAN /\ pending_multiple_count' \in {0, 1}
  BY DEF FinishTransfer, completion, TypeOK
<1> QED BY <1>1, <1>2, <1>3 DEF HelperTypes

\* What a data access finds: a block with work left, outside any reset.
LEMMA DataPhaseFacts ==
  ASSUME Inv, status = Drq
  PROVE  /\ ~InReset
         /\ transfer_lba \in Nat /\ sectors_remaining \in Nat /\ sectors_remaining > 0
         /\ sectors_remaining <= CountMod
         /\ data_index \in Nat /\ data_index < SectorBytes
         /\ pending \subseteq {"dma"}
         /\ first_lba \in Nat /\ total \in Nat
         /\ transfer_kind \in PioKinds => transfer_lba < Capacity
  BY SizesAssumption
     DEF Inv, TypeOK, BusyMatchesPending, DataPhaseInBounds, InReset, Flags, InRange

\* NextBlock: the transfer goes on with one sector less, or fails.
LEMMA NextBlockStep ==
  ASSUME Inv, status = Drq, transfer_kind \in PioKinds,
         NEW left, left = sectors_remaining - 1, left # 0,
         NextBlock(left),
         UNCHANGED <<soft_reset_asserted, device_control, first_lba, total>>
  PROVE  /\ Course' /\ HelperTypes'
         /\ selected_lba' \in LbaRange
         /\ sector_count' \in 0 .. CountMod - 1
         /\ device' \in 0 .. DeviceLanes - 1
         /\ error' \in Errors
         /\ transfer_kind' \in Kinds /\ transfer_lba' \in Nat
         /\ sectors_remaining' \in 0 .. CountMod /\ data_index' = 0
<1> DEFINE lba == transfer_lba + 1
<1>1. /\ ~InReset /\ lba \in Nat /\ lba <= Capacity
      /\ left \in Nat /\ left > 0 /\ left <= CountMod
  BY DataPhaseFacts, CapacityBounds, SizesAssumption
<1>2. TypeOK /\ BusyMatchesPending /\ TransferConserved
  BY DEF Inv
<1>3. ShowProgress(lba, left)
  BY DEF NextBlock
<1>4. /\ first_lba' \in Nat /\ first_lba' < lba /\ lba + left = first_lba' + total'
  BY <1>1, <1>2, DataPhaseFacts DEF TransferConserved, DataKinds
<1>5. CASE InRange(lba)
  <2>1. Transfer(transfer_kind, lba, left, 0) /\ SchedulePioData(TRUE)
    BY <1>5 DEF NextBlock
  <2>2. Course'
    <3>1. transfer_kind \in PioKinds \cup {"IDENTIFY"} /\ TRUE \in BOOLEAN
      OBVIOUS
    <3>2. lba > first_lba' /\ first_lba' <= lba
      BY <1>1, <1>4
    <3> HIDE DEF lba
    <3> QED BY <1>1, <1>2, <1>4, <1>5, <2>1, <3>1, <3>2, PioDataCourse
  <2>3. HelperTypes'
    BY <1>2, <2>1, PioDataTypes
  <2> QED BY <1>1, <1>2, <1>3, <2>1, <2>2, <2>3, ShowProgressType DEF Transfer, TypeOK
<1>6. CASE ~InRange(lba)
  <2>1. ScheduleNondata(lba, "IDNF", FALSE, 0)
    BY <1>6 DEF NextBlock
  <2>2. Course'
    BY <1>1, <1>2, <2>1, NondataCourse
  <2>3. HelperTypes'
    <3>1. "IDNF" \in Errors
      BY DEF Errors
    <3> QED BY <1>2, <2>1, <3>1, NondataTypes
  <2>4. transfer_kind' \in Kinds /\ transfer_lba' = lba /\ sectors_remaining' = 0 /\ data_index' = 0
    BY <2>1 DEF ScheduleNondata, Transfer, Kinds
  <2> QED BY <1>1, <1>2, <1>3, <2>2, <2>3, <2>4, ShowProgressType, SizesAssumption
<1> QED BY <1>5, <1>6

\* Inside a block only the index moves, by whole words.
LEMMA InsideBlock ==
  ASSUME Inv, status = Drq, transfer_kind \in PioKinds \cup {"IDENTIFY"},
         NEW n \in {1, 2}, NEW index, index = data_index + WordsMoved(n),
         index < SectorBytes, data_index' = index,
         UNCHANGED <<status, pending, pio_ready_irq, soft_reset_asserted, device_control>>,
         UNCHANGED <<irq_pending, irq_line, pending_multiple_update, dma_enable>>,
         UNCHANGED <<transfer_kind, transfer_lba, sectors_remaining, first_lba, total>>
  PROVE  Course' /\ data_index' \in 0 .. SectorBytes - 1
<1> USE DEF Inv
<1>1. data_index' \in 0 .. SectorBytes - 1 /\ data_index' % 2 = 0
  <2>1. data_index \in Nat /\ data_index % 2 = 0
    BY DEF TypeOK, CourseOfTransfer, PioKinds, DmaKinds
  <2> QED BY <2>1, SizesAssumption DEF WordsMoved, Smaller
<1>2. BusyMatchesPending' /\ DataPhaseInBounds' /\ TransferConserved'
  BY DEF BusyMatchesPending, DataPhaseInBounds, TransferConserved, InRange
<1>3. CourseOfTransfer'
  BY <1>1 DEF CourseOfTransfer, InRange
<1>4. InterruptCoherent' /\ ResetIsQuiet'
  BY DEF InterruptCoherent, ResetIsQuiet, InReset
<1> QED BY <1>1, <1>2, <1>3, <1>4 DEF Course

LEMMA ReadDataInv ==
  ASSUME NEW n \in {1, 2}
  PROVE  Inv /\ ReadData(n) => Inv'
<1> SUFFICES ASSUME Inv, ReadData(n) PROVE Inv'
  OBVIOUS
<1> DEFINE index == data_index + WordsMoved(n)
           left  == sectors_remaining - 1
<1>1. status = Drq
  BY DEF ReadData
<1>2. /\ UNCHANGED <<dirty, command, device_control, dma_enable, dma_status, dma_length>>
      /\ UNCHANGED <<soft_reset_asserted, multiple_count, first_lba, total>>
  BY DEF ReadData, dma_regs, history
<1>3. TypeOK /\ BusyMatchesPending /\ InterruptCoherent
  BY DEF Inv
<1>4. CASE /\ transfer_kind \in {"IDENTIFY", "READ"} /\ index < SectorBytes
           /\ data_index' = index
           /\ UNCHANGED <<taskfile, status, irq, pending, pio_ready_irq, completion,
                          transfer_kind, transfer_lba, sectors_remaining>>
  <2>1. /\ UNCHANGED <<selected_lba, sector_count, device, error, status, pending>>
        /\ UNCHANGED <<irq_pending, irq_line, pio_ready_irq, pending_error>>
        /\ UNCHANGED <<pending_multiple_update, pending_multiple_count>>
        /\ UNCHANGED <<transfer_kind, transfer_lba, sectors_remaining>>
    BY <1>4 DEF taskfile, irq, completion
  <2>2. Course' /\ data_index' \in 0 .. SectorBytes - 1
    BY <1>1, <1>2, <1>4, <2>1, InsideBlock DEF PioKinds
  <2>3. TypeOK'
    BY <1>2, <1>3, <2>1, <2>2 DEF TypeOK
  <2> QED BY <2>2, <2>3 DEF Inv, Course
<1>5. CASE /\ transfer_kind = "IDENTIFY" /\ index >= SectorBytes
           /\ FinishTransfer(transfer_lba, FALSE, {"dma"})
           /\ UNCHANGED taskfile
  <2>1. Course' /\ HelperTypes'
    BY <1>1, <1>2, <1>3, <1>5, DataPhaseFacts, FinishCourse, FinishTypes
  <2>2. /\ UNCHANGED <<selected_lba, sector_count, device, error>>
        /\ transfer_kind' \in Kinds /\ transfer_lba' = transfer_lba
        /\ sectors_remaining' = 0 /\ data_index' = 0
    BY <1>5 DEF taskfile, FinishTransfer, Transfer, Kinds
  <2>3. TypeOK'
    BY <1>2, <1>3, <2>1, <2>2, SizesAssumption DEF TypeOK, HelperTypes
  <2> QED BY <2>1, <2>3 DEF Inv, Course
<1>6. CASE /\ transfer_kind = "READ" /\ index >= SectorBytes /\ left = 0
           /\ ShowProgress(transfer_lba + 1, left)
           /\ FinishTransfer(transfer_lba + 1, FALSE, {"dma"})
  <2>1. transfer_lba + 1 \in Nat /\ transfer_lba + 1 <= Capacity /\ left \in Nat
    BY <1>1, <1>6, DataPhaseFacts, CapacityBounds DEF PioKinds
  <2>2. Course' /\ HelperTypes'
    BY <1>1, <1>2, <1>3, <1>6, <2>1, DataPhaseFacts, FinishCourse, FinishTypes
  <2>3. /\ transfer_kind' \in Kinds /\ transfer_lba' \in Nat
        /\ sectors_remaining' = 0 /\ data_index' = 0
    BY <1>6, <2>1 DEF FinishTransfer, Transfer, Kinds
  <2>4. /\ selected_lba' \in LbaRange /\ sector_count' \in 0 .. CountMod - 1
        /\ device' \in 0 .. DeviceLanes - 1 /\ error' \in Errors
    BY <1>3, <1>6, <2>1, ShowProgressType
  <2>5. TypeOK'
    BY <1>2, <1>3, <2>2, <2>3, <2>4, SizesAssumption DEF TypeOK, HelperTypes
  <2> QED BY <2>2, <2>5 DEF Inv, Course
<1>7. CASE /\ transfer_kind = "READ" /\ index >= SectorBytes /\ left # 0
           /\ NextBlock(left)
  <2>1. transfer_kind \in PioKinds
    BY <1>7 DEF PioKinds
  <2> HIDE DEF left
  <2>2. left = sectors_remaining - 1
    BY DEF left
  <2>3. /\ Course' /\ HelperTypes'
        /\ selected_lba' \in LbaRange /\ sector_count' \in 0 .. CountMod - 1
        /\ device' \in 0 .. DeviceLanes - 1 /\ error' \in Errors
        /\ transfer_kind' \in Kinds /\ transfer_lba' \in Nat
        /\ sectors_remaining' \in 0 .. CountMod /\ data_index' = 0
    BY <1>1, <1>2, <1>7, <2>1, <2>2, NextBlockStep
  <2>4. TypeOK'
    BY <1>2, <1>3, <2>3, SizesAssumption DEF TypeOK, HelperTypes
  <2> QED BY <2>3, <2>4 DEF Inv, Course
<1> QED BY <1>4, <1>5, <1>6, <1>7 DEF ReadData

\* The end of a PIO write: nothing left to move, the completion outstanding.
LEMMA PioCompletionStep ==
  ASSUME Inv, status = Drq, transfer_kind = "WRITE", sectors_remaining = 1,
         Transfer("WRITE", transfer_lba + 1, 0, 0), SchedulePioCompletion,
         UNCHANGED <<soft_reset_asserted, device_control, first_lba, total>>
  PROVE  Course' /\ HelperTypes'
<1> USE DEF Inv
<1>1. /\ status' = Busy /\ pending' \subseteq {"dma", "pio_completion"}
      /\ "pio_completion" \in pending' /\ ~soft_reset_asserted'
      /\ ~irq_pending' /\ ~irq_line' /\ pio_ready_irq' = FALSE
      /\ transfer_kind' = "WRITE" /\ transfer_lba' = transfer_lba + 1
      /\ sectors_remaining' = 0 /\ data_index' = 0
      /\ "SRST" \notin device_control'
  BY NoReset, DataPhaseFacts DEF SchedulePioCompletion, Transfer, SetIdeIrq
<1>2. BusyMatchesPending'
  BY <1>1 DEF BusyMatchesPending
<1>3. DataPhaseInBounds' /\ InterruptCoherent'
  BY <1>1 DEF DataPhaseInBounds, InterruptCoherent
<1>4. TransferConserved'
  BY <1>1, DataPhaseFacts DEF TransferConserved, DataKinds, PioKinds
<1>5. CourseOfTransfer'
  BY <1>1 DEF CourseOfTransfer, DmaKinds
<1>6. ResetIsQuiet'
  BY <1>1 DEF ResetIsQuiet, InReset
<1>7. HelperTypes'
  <2>1. irq_pending' \in BOOLEAN /\ irq_line' \in BOOLEAN
    BY SetIdeIrqType DEF SchedulePioCompletion
  <2>2. status' \in Statuses /\ pending' \subseteq Flags /\ pio_ready_irq' \in BOOLEAN
    BY <1>1 DEF Statuses, Flags
  <2>3. /\ pending_error' \in Errors
        /\ pending_multiple_update' \in BOOLEAN /\ pending_multiple_count' \in {0, 1}
    BY DEF SchedulePioCompletion, completion, TypeOK
  <2> QED BY <2>1, <2>2, <2>3 DEF HelperTypes
<1> QED BY <1>2, <1>3, <1>4, <1>5, <1>6, <1>7 DEF Course

LEMMA MediumOffsets ==
  ASSUME NEW first \in Nat, NEW n
  PROVE  WordsOnMedium(first, n) \subseteq Nat /\ OnMedium(first, n) \subseteq Nat
  BY DEF WordsOnMedium, OnMedium

LEMMA WriteDataInv ==
  ASSUME NEW n \in {1, 2}
  PROVE  Inv /\ WriteData(n) => Inv'
<1> SUFFICES ASSUME Inv, WriteData(n) PROVE Inv'
  OBVIOUS
<1> DEFINE index == data_index + WordsMoved(n)
           left  == sectors_remaining - 1
<1>1. status = Drq /\ transfer_kind = "WRITE" /\ transfer_kind \in PioKinds
  BY DEF WriteData, PioKinds
<1>2. /\ UNCHANGED <<command, device_control, dma_enable, dma_status, dma_length>>
      /\ UNCHANGED <<soft_reset_asserted, multiple_count, first_lba, total>>
  BY DEF WriteData, dma_regs, history
<1>3. TypeOK /\ BusyMatchesPending /\ InterruptCoherent
  BY DEF Inv
<1>4. dirty' \subseteq Nat
  <2>1. transfer_lba * SectorBytes + data_index \in Nat
    BY <1>1, DataPhaseFacts, SizesAssumption
  <2> QED BY <1>3, <2>1, MediumOffsets DEF WriteData, StoreWords, TypeOK
<1>5. CASE /\ index < SectorBytes /\ data_index' = index
           /\ UNCHANGED <<taskfile, status, irq, pending, pio_ready_irq, completion,
                          transfer_kind, transfer_lba, sectors_remaining>>
  <2>1. /\ UNCHANGED <<selected_lba, sector_count, device, error, status, pending>>
        /\ UNCHANGED <<irq_pending, irq_line, pio_ready_irq, pending_error>>
        /\ UNCHANGED <<pending_multiple_update, pending_multiple_count>>
        /\ UNCHANGED <<transfer_kind, transfer_lba, sectors_remaining>>
    BY <1>5 DEF taskfile, irq, completion
  <2>2. Course' /\ data_index' \in 0 .. SectorBytes - 1
    BY <1>1, <1>2, <1>5, <2>1, InsideBlock
  <2>3. TypeOK'
    BY <1>2, <1>3, <1>4, <2>1, <2>2 DEF TypeOK
  <2> QED BY <2>2, <2>3 DEF Inv, Course
<1>6. CASE /\ index >= SectorBytes /\ left = 0
           /\ ShowProgress(transfer_lba + 1, left)
           /\ Transfer("WRITE", transfer_lba + 1, left, 0)
           /\ SchedulePioCompletion
  <2>1. /\ transfer_lba + 1 \in Nat /\ transfer_lba + 1 <= Capacity
        /\ left \in Nat /\ sectors_remaining = 1
    BY <1>1, <1>6, DataPhaseFacts, CapacityBounds
  <2>2. Course' /\ HelperTypes'
    BY <1>1, <1>2, <1>6, <2>1, PioCompletionStep
  <2>3. /\ transfer_kind' \in Kinds /\ transfer_lba' \in Nat
        /\ sectors_remaining' = 0 /\ data_index' = 0
    BY <1>6, <2>1 DEF Transfer, Kinds, DataKinds, PioKinds
  <2>4. /\ selected_lba' \in LbaRange /\ sector_count' \in 0 .. CountMod - 1
        /\ device' \in 0 .. DeviceLanes - 1 /\ error' \in Errors
    BY <1>3, <1>6, <2>1, ShowProgressType
  <2>5. TypeOK'
    BY <1>2, <1>3, <1>4, <2>2, <2>3, <2>4, SizesAssumption DEF TypeOK, HelperTypes
  <2> QED BY <2>2, <2>5 DEF Inv, Course
<1>7. CASE index >= SectorBytes /\ left # 0 /\ NextBlock(left)
  <2> HIDE DEF left
  <2>1. left = sectors_remaining - 1
    BY DEF left
  <2>2. /\ Course' /\ HelperTypes'
        /\ selected_lba' \in LbaRange /\ sector_count' \in 0 .. CountMod - 1
        /\ device' \in 0 .. DeviceLanes - 1 /\ error' \in Errors
        /\ transfer_kind' \in Kinds /\ transfer_lba' \in Nat
        /\ sectors_remaining' \in 0 .. CountMod /\ data_index' = 0
    BY <1>1, <1>2, <1>7, <2>1, NextBlockStep
  <2>3. TypeOK'
    BY <1>2, <1>3, <1>4, <2>2, SizesAssumption DEF TypeOK, HelperTypes
  <2> QED BY <2>2, <2>3 DEF Inv, Course
<1> QED BY <1>5, <1>6, <1>7 DEF WriteData

-----------------------------------------------------------------------------
(***************************************************************************)
(* Commands.                                                               *)
(***************************************************************************)

LEMMA RejectCommandInv ==
  ASSUME Inv, ~InReset, NEW err \in Errors, NEW update \in BOOLEAN, NEW count \in {0, 1},
         ScheduleNondata(transfer_lba, err, update, count),
         command' \in AllCommands,
         UNCHANGED <<dirty, device_control, soft_reset_asserted, multiple_count>>,
         UNCHANGED <<taskfile, dma_regs, history>>
  PROVE  Inv'
<1>1. TypeOK /\ BusyMatchesPending /\ transfer_lba \in Nat
  BY DEF Inv, TypeOK
<1>2. Course' /\ HelperTypes'
  BY <1>1, NondataCourse, NondataTypes
<1>3. /\ transfer_kind' \in Kinds /\ transfer_lba' = transfer_lba
      /\ sectors_remaining' = 0 /\ data_index' = 0
  BY DEF ScheduleNondata, Transfer, Kinds
<1>4. TypeOK'
  BY <1>1, <1>2, <1>3, SizesAssumption DEF TypeOK, HelperTypes, taskfile, dma_regs, history
<1> QED BY <1>2, <1>4 DEF Inv, Course

\* A transfer that starts on the medium has its whole extent ahead of it.
LEMMA StartTransferFacts ==
  ASSUME Inv, InRange(selected_lba), NEW kind \in DataKinds, StartTransfer(kind)
  PROVE  /\ RequestedSectors \in 1 .. CountMod
         /\ transfer_kind' = kind /\ transfer_lba' = selected_lba
         /\ sectors_remaining' = RequestedSectors /\ data_index' = 0
         /\ first_lba' = selected_lba /\ total' = RequestedSectors
         /\ error' \in Errors /\ UNCHANGED <<selected_lba, sector_count, device>>
         /\ selected_lba \in Nat /\ selected_lba < Capacity
<1>1. RequestedSectors \in 1 .. CountMod
  BY SizesAssumption DEF Inv, TypeOK, RequestedSectors
<1>2. selected_lba \in Nat
  BY DEF Inv, TypeOK, LbaRange
<1> QED BY <1>1, <1>2 DEF StartTransfer, Transfer, Errors, InRange

LEMMA StartPioInv ==
  ASSUME Inv, ~InReset, InRange(selected_lba),
         NEW kind \in PioKinds, NEW raise \in BOOLEAN, kind = "WRITE" => ~raise,
         StartTransfer(kind), SchedulePioData(raise),
         command' \in AllCommands,
         UNCHANGED <<dirty, device_control, soft_reset_asserted, multiple_count, dma_regs>>
  PROVE  Inv'
<1>1. TypeOK /\ BusyMatchesPending
  BY DEF Inv
<1>2. /\ RequestedSectors \in 1 .. CountMod
      /\ transfer_kind' = kind /\ transfer_lba' = selected_lba
      /\ sectors_remaining' = RequestedSectors /\ data_index' = 0
      /\ first_lba' = selected_lba /\ total' = RequestedSectors
      /\ error' \in Errors /\ UNCHANGED <<selected_lba, sector_count, device>>
      /\ selected_lba \in Nat /\ selected_lba < Capacity
  BY StartTransferFacts DEF DataKinds
<1>3. Course'
  <2>1. Transfer(kind, selected_lba, RequestedSectors, 0)
    BY DEF StartTransfer
  <2>2. RequestedSectors \in Nat /\ RequestedSectors > 0
    BY <1>2, SizesAssumption
  <2> QED BY <1>1, <1>2, <2>1, <2>2, PioDataCourse
<1>4. HelperTypes'
  BY <1>1, PioDataTypes
<1>5. kind \in Kinds
  BY DEF Kinds, DataKinds
<1>6. sectors_remaining' \in 0 .. CountMod /\ total' \in 0 .. CountMod
  BY <1>2, SizesAssumption
<1>7. TypeOK'
  BY <1>1, <1>2, <1>4, <1>5, <1>6, SizesAssumption DEF TypeOK, HelperTypes, dma_regs
<1> QED BY <1>3, <1>7 DEF Inv, Course

LEMMA StartIdentifyInv ==
  ASSUME Inv, ~InReset, StartIdentify,
         command' \in AllCommands,
         UNCHANGED <<dirty, device_control, soft_reset_asserted, multiple_count, dma_regs>>
  PROVE  Inv'
<1>1. TypeOK /\ BusyMatchesPending /\ transfer_lba \in Nat
  BY DEF Inv, TypeOK
<1>2. Transfer("IDENTIFY", transfer_lba, 1, 0) /\ SchedulePioData(TRUE)
  BY DEF StartIdentify
<1>3. PICK kind \in PioKinds \cup {"IDENTIFY"}, left \in Nat, raise \in BOOLEAN :
        /\ kind = "IDENTIFY" /\ left = 1
        /\ Transfer(kind, transfer_lba, left, 0) /\ SchedulePioData(raise)
  BY <1>2
<1>4. Course'
  <2>1. kind \notin PioKinds /\ kind # "WRITE" /\ left > 0
    BY <1>3 DEF PioKinds
  <2> QED BY <1>1, <1>3, <2>1, PioDataCourse
<1>5. HelperTypes'
  BY <1>1, <1>2, PioDataTypes
<1>6. /\ transfer_kind' \in Kinds /\ transfer_lba' = transfer_lba
      /\ sectors_remaining' = 1 /\ data_index' = 0 /\ error' \in Errors
      /\ UNCHANGED <<selected_lba, sector_count, device, first_lba, total>>
  BY DEF StartIdentify, Transfer, Kinds, Errors, history
<1>7. TypeOK'
  BY <1>1, <1>5, <1>6, SizesAssumption DEF TypeOK, HelperTypes, dma_regs
<1> QED BY <1>4, <1>7 DEF Inv, Course

\* A DMA command goes straight to its data phase.
LEMMA StartDmaInv ==
  ASSUME Inv, ~InReset, NEW kind \in DmaKinds, StartDma(kind),
         command' \in AllCommands,
         UNCHANGED <<dirty, device_control, soft_reset_asserted, multiple_count, dma_regs>>
  PROVE  Inv'
<1>1. TypeOK /\ BusyMatchesPending
  BY DEF Inv
<1>2. CASE InRange(selected_lba)
  <2>1. /\ StartTransfer(kind)
        /\ status' = Drq /\ pio_ready_irq' = FALSE
        /\ pending' = ArmDma(kind, dma_enable, pending \ {"pio_data", "pio_completion", "nondata"})
        /\ SetIdeIrq(FALSE, device_control)
        /\ UNCHANGED completion
    BY <1>2 DEF StartDma
  <2>2. /\ RequestedSectors \in 1 .. CountMod
        /\ transfer_kind' = kind /\ transfer_lba' = selected_lba
        /\ sectors_remaining' = RequestedSectors /\ data_index' = 0
        /\ first_lba' = selected_lba /\ total' = RequestedSectors
        /\ error' \in Errors /\ UNCHANGED <<selected_lba, sector_count, device>>
        /\ selected_lba \in Nat /\ selected_lba < Capacity
    BY <1>2, <2>1, StartTransferFacts DEF DataKinds
  <2>3. /\ pending' \subseteq {"dma"} /\ ("dma" \in pending' => dma_enable)
        /\ ~irq_pending' /\ ~irq_line' /\ ~soft_reset_asserted'
        /\ "SRST" \notin device_control'
    BY <1>1, <2>1, NoReset DEF ArmDma, SetIdeIrq
  <2>4. sectors_remaining' \in 0 .. CountMod /\ sectors_remaining' > 0 /\ total' \in 0 .. CountMod
    BY <2>2, SizesAssumption
  <2>5. BusyMatchesPending'
    BY <2>1, <2>3 DEF BusyMatchesPending
  <2>6. DataPhaseInBounds' /\ InterruptCoherent'
    BY <2>2, <2>3, <2>4, CapacityBounds
       DEF DataPhaseInBounds, InterruptCoherent, PioKinds, DmaKinds
  <2>7. TransferConserved'
    BY <2>2 DEF TransferConserved
  <2>8. CourseOfTransfer'
    BY <2>1, <2>2, <2>3 DEF CourseOfTransfer, dma_regs
  <2>9. ResetIsQuiet'
    BY <2>3 DEF ResetIsQuiet, InReset
  <2>10. HelperTypes'
    <3>1. irq_pending' \in BOOLEAN /\ irq_line' \in BOOLEAN
      BY <2>1, SetIdeIrqType
    <3>2. status' \in Statuses /\ pending' \subseteq Flags /\ pio_ready_irq' \in BOOLEAN
      BY <2>1, <2>3 DEF Statuses, Flags
    <3> QED BY <1>1, <2>1, <3>1, <3>2 DEF HelperTypes, completion, TypeOK
  <2>11. kind \in Kinds
    BY DEF Kinds, DataKinds
  <2>12. TypeOK'
    BY <1>1, <2>2, <2>4, <2>10, <2>11, SizesAssumption DEF TypeOK, HelperTypes, dma_regs
  <2> QED BY <2>5, <2>6, <2>7, <2>8, <2>9, <2>12 DEF Inv, Course
<1>3. CASE ~InRange(selected_lba)
  <2>1. "IDNF" \in Errors /\ FALSE \in BOOLEAN
    BY DEF Errors
  <2>2. ScheduleNondata(transfer_lba, "IDNF", FALSE, 0) /\ UNCHANGED <<taskfile, history>>
    BY <1>3 DEF StartDma, RejectCommand
  <2> QED BY <2>1, <2>2, RejectCommandInv
<1> QED BY <1>2, <1>3

LEMMA RejectedInv ==
  ASSUME Inv, ~InReset, NEW err \in {"ABRT", "IDNF"}, RejectCommand(err),
         command' \in AllCommands,
         UNCHANGED <<dirty, device_control, soft_reset_asserted, multiple_count, dma_regs>>
  PROVE  Inv'
<1>1. err \in Errors
  BY DEF Errors
<1> QED BY <1>1, RejectCommandInv DEF RejectCommand

LEMMA StartReadInv ==
  ASSUME Inv, ~InReset, StartRead, command' \in AllCommands,
         UNCHANGED <<dirty, device_control, soft_reset_asserted, multiple_count, dma_regs>>
  PROVE  Inv'
<1>1. "READ" \in PioKinds
  BY DEF PioKinds
<1> QED BY <1>1, StartPioInv, RejectedInv DEF StartRead

LEMMA StartWriteInv ==
  ASSUME Inv, ~InReset, StartWrite, command' \in AllCommands,
         UNCHANGED <<dirty, device_control, soft_reset_asserted, multiple_count, dma_regs>>
  PROVE  Inv'
<1>1. "WRITE" \in PioKinds
  BY DEF PioKinds
<1> QED BY <1>1, StartPioInv, RejectedInv DEF StartWrite

LEMMA WriteCommandInv ==
  ASSUME NEW c \in Commands
  PROVE  Inv /\ WriteCommand(c) => Inv'
<1> SUFFICES ASSUME Inv, WriteCommand(c) PROVE Inv'
  OBVIOUS
<1>1. /\ ~InReset /\ c \in AllCommands /\ command' \in AllCommands
      /\ UNCHANGED <<dirty, device_control, soft_reset_asserted, multiple_count, dma_regs>>
  BY GuestAssumption DEF WriteCommand
<1>2. CASE c = "IDENTIFY"
  BY <1>1, <1>2, StartIdentifyInv DEF WriteCommand
<1>3. CASE c \in {"READ", "READ_MULTIPLE"}
  <2>1. StartRead \/ RejectCommand("ABRT")
    BY <1>3 DEF WriteCommand
  <2> QED BY <1>1, <2>1, StartReadInv, RejectedInv
<1>4. CASE c \in {"WRITE", "WRITE_MULTIPLE"}
  <2>1. StartWrite \/ RejectCommand("ABRT")
    BY <1>4 DEF WriteCommand
  <2> QED BY <1>1, <2>1, StartWriteInv, RejectedInv
<1>5. CASE c \in {"READ_DMA", "WRITE_DMA"}
  <2>1. StartDma("DMA_READ") \/ StartDma("DMA_WRITE")
    BY <1>5 DEF WriteCommand
  <2> QED BY <1>1, <2>1, StartDmaInv DEF DmaKinds
<1>6. CASE c = "SET_MULTIPLE"
  <2>1. SetMultipleMode
    BY <1>6 DEF WriteCommand
  <2>2. CASE sector_count \in {0, 1}
    <3>1. /\ ScheduleNondata(transfer_lba, "none", TRUE, sector_count)
          /\ UNCHANGED <<taskfile, history>>
      BY <2>1, <2>2 DEF SetMultipleMode
    <3>2. "none" \in Errors /\ TRUE \in BOOLEAN
      BY DEF Errors
    <3> QED BY <1>1, <2>2, <3>1, <3>2, RejectCommandInv
  <2>3. CASE sector_count \notin {0, 1}
    BY <1>1, <2>1, <2>3, RejectedInv DEF SetMultipleMode
  <2> QED BY <2>2, <2>3
<1>7. CASE c = "NONDATA"
  <2>1. /\ ScheduleNondata(transfer_lba, "none", FALSE, 0)
        /\ UNCHANGED <<taskfile, history>>
    BY <1>7 DEF WriteCommand
  <2>2. "none" \in Errors /\ FALSE \in BOOLEAN
    BY DEF Errors
  <2> QED BY <1>1, <2>1, <2>2, RejectCommandInv
<1>8. CASE c = "UNSUPPORTED"
  BY <1>1, <1>8, RejectedInv DEF WriteCommand
<1> QED BY <1>1, <1>2, <1>3, <1>4, <1>5, <1>6, <1>7, <1>8 DEF AllCommands

-----------------------------------------------------------------------------
(***************************************************************************)
(* Device control.                                                         *)
(***************************************************************************)

LEMMA WriteDeviceControlInv ==
  ASSUME NEW control \in SUBSET {"nIEN", "SRST"}
  PROVE  Inv /\ WriteDeviceControl(control) => Inv'
<1> SUFFICES ASSUME Inv, WriteDeviceControl(control) PROVE Inv'
  OBVIOUS
<1> DEFINE held == "SRST" \in device_control
<1> USE DEF Inv
<1>1. /\ device_control' = control
      /\ UNCHANGED <<dirty, selected_lba, sector_count, device, error, command>>
      /\ UNCHANGED <<dma_enable, dma_status, dma_length, multiple_count, first_lba, total>>
  BY DEF WriteDeviceControl, taskfile, dma_regs, history
<1>2. CASE "SRST" \in control /\ AssertSoftReset(control)
  <2>1. /\ status' = Busy /\ pending' = {} /\ soft_reset_asserted' = TRUE
        /\ ~irq_pending' /\ ~irq_line'
        /\ transfer_kind' = "none" /\ transfer_lba' = transfer_lba
        /\ sectors_remaining' = 0 /\ data_index' = 0
        /\ pio_ready_irq' = FALSE /\ pending_multiple_update' = FALSE
        /\ pending_error' = "none" /\ UNCHANGED pending_multiple_count
    BY <1>2 DEF AssertSoftReset, CancelTransfer, Transfer, SetIdeIrq
  <2>2. irq_pending' \in BOOLEAN /\ irq_line' \in BOOLEAN
    BY <1>2, SetIdeIrqType DEF AssertSoftReset
  <2>3. TypeOK'
    <3>1. /\ status' \in Statuses /\ pending' \subseteq Flags /\ soft_reset_asserted' \in BOOLEAN
          /\ pio_ready_irq' \in BOOLEAN /\ pending_multiple_update' \in BOOLEAN
      BY <2>1 DEF Statuses
    <3>2. pending_error' \in Errors /\ transfer_kind' \in Kinds
      BY <2>1 DEF Errors, Kinds
    <3> QED BY <1>1, <2>1, <2>2, <3>1, <3>2, SizesAssumption DEF TypeOK
  <2>4. BusyMatchesPending'
    BY <1>1, <1>2, <2>1 DEF BusyMatchesPending
  <2>5. DataPhaseInBounds' /\ TransferConserved' /\ CourseOfTransfer'
    BY <2>1 DEF DataPhaseInBounds, TransferConserved, CourseOfTransfer,
                DataKinds, PioKinds, DmaKinds
  <2>6. InterruptCoherent' /\ ResetIsQuiet'
    BY <2>1 DEF InterruptCoherent, ResetIsQuiet
  <2> QED BY <2>3, <2>4, <2>5, <2>6
<1>3. CASE /\ ~("SRST" \in control /\ AssertSoftReset(control))
           /\ UNCHANGED <<transfer, pio_ready_irq, completion>>
  <2>1. /\ UNCHANGED <<transfer_kind, transfer_lba, sectors_remaining, data_index>>
        /\ UNCHANGED <<pio_ready_irq, pending_error, pending_multiple_update>>
        /\ UNCHANGED pending_multiple_count
    BY <1>3 DEF transfer, completion
  <2>2. CASE "SRST" \notin control /\ held /\ ReleaseSoftReset(control)
    <3>1. /\ status' = Busy /\ pending' = {"soft_reset"} /\ soft_reset_asserted' = FALSE
          /\ ~irq_pending' /\ ~irq_line' /\ InReset
      BY <2>2 DEF ReleaseSoftReset, SetIdeIrq, BusyMatchesPending, InReset
    <3>2. irq_pending' \in BOOLEAN /\ irq_line' \in BOOLEAN
      BY <2>2, SetIdeIrqType DEF ReleaseSoftReset
    <3>3. TypeOK'
      BY <1>1, <2>1, <3>1, <3>2 DEF TypeOK, Statuses, Flags
    <3>4. BusyMatchesPending'
      BY <1>1, <2>2, <3>1 DEF BusyMatchesPending
    <3>5. transfer_kind' = "none" /\ ~pending_multiple_update' /\ data_index' % 2 = 0
      BY <2>1, <3>1 DEF ResetIsQuiet, CourseOfTransfer, DmaKinds
    <3>6. DataPhaseInBounds' /\ TransferConserved' /\ CourseOfTransfer'
      BY <3>1, <3>5 DEF DataPhaseInBounds, TransferConserved, CourseOfTransfer,
                        DataKinds, PioKinds, DmaKinds
    <3>7. InterruptCoherent' /\ ResetIsQuiet'
      BY <3>1, <3>5 DEF InterruptCoherent, ResetIsQuiet
    <3> QED BY <3>3, <3>4, <3>6, <3>7
  <2>3. CASE /\ ("SRST" \in control <=> held)
             /\ \E raise \in {FALSE, irq_pending} : SetIdeIrq(raise, control)
             /\ UNCHANGED <<status, pending, soft_reset_asserted>>
    <3>1. PICK raise \in {FALSE, irq_pending} : SetIdeIrq(raise, control)
      BY <2>3
    <3>2. raise \in BOOLEAN /\ (raise => irq_pending)
      <4>1. irq_pending \in BOOLEAN
        BY DEF TypeOK
      <4>2. CASE raise = FALSE
        BY <4>2
      <4>3. CASE raise = irq_pending
        BY <4>1, <4>3
      <4> QED BY <3>1, <4>2, <4>3
    <3>3. irq_pending' = raise /\ (irq_line' <=> irq_pending' /\ "nIEN" \notin device_control')
      BY <1>1, <3>1 DEF SetIdeIrq
    <3>4. irq_pending' \in BOOLEAN /\ irq_line' \in BOOLEAN
      BY <3>1, <3>2, SetIdeIrqType
    <3>5. TypeOK'
      BY <1>1, <2>1, <2>3, <3>4 DEF TypeOK
    <3>6. BusyMatchesPending'
      BY <1>1, <2>3 DEF BusyMatchesPending
    <3>7. DataPhaseInBounds' /\ TransferConserved' /\ CourseOfTransfer'
      BY <1>1, <2>1, <2>3 DEF DataPhaseInBounds, TransferConserved, CourseOfTransfer, InRange
    <3>8. InterruptCoherent'
      BY <1>1, <2>1, <2>3, <3>2, <3>3 DEF InterruptCoherent
    <3>9. ResetIsQuiet'
      BY <2>1, <2>3, <3>2, <3>3 DEF ResetIsQuiet, InReset
    <3> QED BY <3>5, <3>6, <3>7, <3>8, <3>9
  <2> QED BY <1>3, <2>2, <2>3 DEF WriteDeviceControl, irq
<1>4. \/ "SRST" \in control /\ AssertSoftReset(control)
      \/ UNCHANGED <<transfer, pio_ready_irq, completion>>
  BY DEF WriteDeviceControl, ReleaseSoftReset
<1> QED BY <1>2, <1>3, <1>4

-----------------------------------------------------------------------------
(***************************************************************************)
(* Ticks.                                                                  *)
(***************************************************************************)

LEMMA TickResetInv ==
  ASSUME Inv, ~soft_reset_asserted, TickReset,
         UNCHANGED <<device_control, soft_reset_asserted>>
  PROVE  Inv'
<1> USE DEF Inv
<1>1. /\ pending' = {} /\ status' = Ready
      /\ transfer_kind' = "none" /\ transfer_lba' = 1
      /\ sectors_remaining' = 0 /\ data_index' = 0
      /\ pio_ready_irq' = FALSE /\ pending_multiple_update' = FALSE
      /\ pending_error' = "none" /\ UNCHANGED pending_multiple_count
      /\ command' = "NONE" /\ error' = "diagnostic"
      /\ sector_count' = 1 /\ selected_lba' = 1 /\ device' = 0 /\ multiple_count' = 0
      /\ ~irq_pending' /\ ~irq_line'
      /\ "SRST" \notin device_control'
      /\ UNCHANGED <<dirty, dma_enable, dma_status, dma_length, first_lba, total>>
  BY DEF TickReset, CancelTransfer, Transfer, SetIdeIrq, BusyMatchesPending, dma_regs, history
<1>2. irq_pending' \in BOOLEAN /\ irq_line' \in BOOLEAN
  BY SetIdeIrqType DEF TickReset
<1>3. TypeOK'
  <2>1. selected_lba' \in LbaRange
    BY <1>1, CapacityBounds, SizesAssumption DEF LbaRange
  <2>2. /\ pending' \subseteq Flags /\ pio_ready_irq' \in BOOLEAN
        /\ pending_multiple_update' \in BOOLEAN
    BY <1>1
  <2>3. pending_error' \in Errors /\ transfer_kind' \in Kinds /\ error' \in Errors
    BY <1>1 DEF Errors, Kinds
  <2>4. status' \in Statuses
    BY <1>1 DEF Statuses
  <2> QED BY <1>1, <1>2, <2>1, <2>2, <2>3, <2>4, SizesAssumption DEF TypeOK
<1>4. BusyMatchesPending'
  BY <1>1 DEF BusyMatchesPending
<1>5. DataPhaseInBounds' /\ TransferConserved' /\ CourseOfTransfer'
  BY <1>1 DEF DataPhaseInBounds, TransferConserved, CourseOfTransfer,
              DataKinds, PioKinds, DmaKinds
<1>6. InterruptCoherent' /\ ResetIsQuiet'
  BY <1>1 DEF InterruptCoherent, ResetIsQuiet, InReset
<1> QED BY <1>3, <1>4, <1>5, <1>6

LEMMA TickNondataInv ==
  ASSUME Inv, ~soft_reset_asserted, TickNondata,
         UNCHANGED <<device_control, soft_reset_asserted>>
  PROVE  Inv'
<1> USE DEF Inv
<1>1. /\ pending' \subseteq {"dma"} /\ status' \in {Ready, Failed}
      /\ transfer_kind' = "none" /\ transfer_lba' = transfer_lba
      /\ sectors_remaining' = 0 /\ data_index' = 0
      /\ pio_ready_irq' = FALSE /\ pending_multiple_update' = FALSE
      /\ pending_error' = "none" /\ error' = pending_error
      /\ irq_pending' = TRUE /\ (irq_line' <=> "nIEN" \notin device_control')
      /\ "SRST" \notin device_control'
      /\ UNCHANGED <<dirty, selected_lba, sector_count, device, command>>
      /\ UNCHANGED <<dma_enable, dma_status, dma_length, pending_multiple_count>>
      /\ UNCHANGED <<first_lba, total>>
  <2>1. pending' \subseteq {"dma"}
    BY DEF TickNondata, BusyMatchesPending
  <2> QED BY <2>1 DEF TickNondata, Transfer, SetIdeIrq, BusyMatchesPending, dma_regs, history
<1>2. irq_pending' \in BOOLEAN /\ irq_line' \in BOOLEAN
  BY SetIdeIrqType DEF TickNondata
<1>3. TypeOK'
  <2>1. multiple_count' \in {0, 1}
    BY DEF TickNondata, TypeOK
  <2>2. /\ pending' \subseteq Flags /\ pio_ready_irq' \in BOOLEAN
        /\ pending_multiple_update' \in BOOLEAN
    BY <1>1 DEF Flags
  <2>3. pending_error' \in Errors /\ transfer_kind' \in Kinds
    BY <1>1 DEF Errors, Kinds
  <2>4. status' \in Statuses
    BY <1>1 DEF Statuses
  <2> QED BY <1>1, <1>2, <2>1, <2>2, <2>3, <2>4, SizesAssumption DEF TypeOK
<1>4. BusyMatchesPending'
  BY <1>1 DEF BusyMatchesPending
<1>5. DataPhaseInBounds' /\ TransferConserved' /\ CourseOfTransfer'
  BY <1>1 DEF DataPhaseInBounds, TransferConserved, CourseOfTransfer,
              DataKinds, PioKinds, DmaKinds
<1>6. InterruptCoherent' /\ ResetIsQuiet'
  BY <1>1 DEF InterruptCoherent, ResetIsQuiet, InReset
<1> QED BY <1>3, <1>4, <1>5, <1>6

LEMMA TickPioCompletionInv ==
  ASSUME Inv, ~soft_reset_asserted, TickPioCompletion,
         UNCHANGED <<device_control, soft_reset_asserted>>
  PROVE  Inv'
<1>1. TypeOK /\ BusyMatchesPending /\ InterruptCoherent /\ ~InReset /\ transfer_lba \in Nat
  BY DEF Inv, TypeOK, TickPioCompletion, InReset
<1>2. FinishTransfer(transfer_lba, TRUE, {"dma"})
  BY DEF TickPioCompletion
<1>3. Course' /\ HelperTypes'
  BY <1>1, <1>2, FinishCourse, FinishTypes
<1>4. /\ transfer_kind' \in Kinds /\ transfer_lba' = transfer_lba
      /\ sectors_remaining' = 0 /\ data_index' = 0
  BY <1>2 DEF FinishTransfer, Transfer, Kinds
<1>5. TypeOK'
  BY <1>1, <1>3, <1>4, SizesAssumption
     DEF TickPioCompletion, TypeOK, HelperTypes, taskfile, dma_regs, history
<1> QED BY <1>3, <1>5 DEF Inv, Course

LEMMA TickPioDataInv ==
  ASSUME Inv, ~soft_reset_asserted, TickPioData,
         UNCHANGED <<device_control, soft_reset_asserted>>
  PROVE  Inv'
<1> USE DEF Inv
<1>1. /\ pending' \subseteq {"dma"} /\ pending' \subseteq pending
      /\ status' = Drq /\ pio_ready_irq' = FALSE
      /\ irq_pending' = pio_ready_irq
      /\ (irq_line' <=> irq_pending' /\ "nIEN" \notin device_control')
      /\ "SRST" \notin device_control'
  BY DEF TickPioData, SetIdeIrq, BusyMatchesPending
<1>2. /\ UNCHANGED <<dirty, selected_lba, sector_count, device, error, command>>
      /\ UNCHANGED <<dma_enable, dma_status, dma_length, multiple_count>>
      /\ UNCHANGED <<pending_error, pending_multiple_update, pending_multiple_count>>
      /\ UNCHANGED <<transfer_kind, transfer_lba, sectors_remaining, data_index>>
      /\ UNCHANGED <<first_lba, total>>
  BY DEF TickPioData, taskfile, dma_regs, completion, transfer, history
<1>3. TypeOK'
  <2>1. irq_pending' \in BOOLEAN /\ irq_line' \in BOOLEAN
    BY SetIdeIrqType DEF TickPioData, TypeOK
  <2>2. pending' \subseteq Flags /\ pio_ready_irq' \in BOOLEAN /\ status' \in Statuses
    BY <1>1 DEF Flags, Statuses
  <2> QED BY <1>2, <2>1, <2>2 DEF TypeOK
<1>4. /\ "pio_data" \in pending /\ transfer_kind \in PioKinds \cup {"IDENTIFY"}
      /\ sectors_remaining > 0 /\ (transfer_kind \in PioKinds => InRange(transfer_lba))
      /\ (transfer_kind = "WRITE" /\ pio_ready_irq => transfer_lba > first_lba)
  BY DEF TickPioData, CourseOfTransfer
<1>5. transfer_kind \notin DmaKinds /\ transfer_kind # "none" /\ data_index % 2 = 0
  BY <1>4 DEF CourseOfTransfer, PioKinds, DmaKinds
<1>6. BusyMatchesPending'
  BY <1>1 DEF BusyMatchesPending
<1>7. DataPhaseInBounds' /\ TransferConserved'
  BY <1>1, <1>2, <1>4, <1>5 DEF DataPhaseInBounds, TransferConserved, InRange
<1>8. CourseOfTransfer'
  BY <1>1, <1>2, <1>4, <1>5 DEF CourseOfTransfer
<1>9. InterruptCoherent' /\ ResetIsQuiet'
  BY <1>1, <1>2, <1>4, <1>5 DEF InterruptCoherent, ResetIsQuiet, InReset
<1> QED BY <1>3, <1>6, <1>7, <1>8, <1>9

\* A segment is a whole number of bytes.
LEMMA SegmentTypes ==
  ASSUME Inv, status = Drq, transfer_kind \in DmaKinds, SegmentBytes > 0
  PROVE  SegmentStart \in Nat /\ SegmentBytes \in Nat
<1> USE SizesAssumption
<1>1. /\ transfer_lba \in Nat /\ sectors_remaining \in Nat
      /\ data_index \in Nat /\ dma_length \in Nat /\ Capacity \in Nat
  BY DataPhaseFacts, CapacityBounds DEF Inv, TypeOK
<1>2. transfer_lba * SectorBytes \in Nat /\ sectors_remaining * SectorBytes \in Nat
      /\ Capacity * SectorBytes \in Nat
  BY <1>1
<1> QED BY <1>1, <1>2 DEF SegmentBytes, SegmentRequested, SegmentAvailable, SegmentStart, Smaller

\* The arithmetic of a DMA segment: it is cut so that neither the command's
\* extent nor the medium is left, whatever length the guest asked for.
LEMMA SegmentArithmetic ==
  ASSUME Inv, status = Drq, transfer_kind \in DmaKinds, SegmentBytes > 0,
         NEW done \in Nat, NEW rest \in 0 .. SectorBytes - 1,
         data_index + SegmentBytes = SectorBytes * done + rest
  PROVE  done <= sectors_remaining /\ transfer_lba + done <= Capacity
<1> USE SizesAssumption
<1> DEFINE moved == data_index + SegmentBytes
<1>1. /\ transfer_lba \in Nat /\ sectors_remaining \in Nat /\ sectors_remaining > 0
      /\ data_index \in Nat /\ data_index < SectorBytes /\ dma_length \in Nat
      /\ transfer_lba <= Capacity /\ Capacity \in Nat
  BY DataPhaseFacts, CapacityBounds DEF Inv, TypeOK, DataPhaseInBounds
<1>2. /\ transfer_lba * SectorBytes \in Nat /\ Capacity * SectorBytes \in Nat
      /\ sectors_remaining * SectorBytes \in Nat
      /\ sectors_remaining * SectorBytes >= SectorBytes
  <2>1. 1 * SectorBytes <= sectors_remaining * SectorBytes
    BY <1>1, MulMono
  <2> QED BY <1>1, <2>1
<1>3. /\ SegmentAvailable \in Nat /\ SegmentAvailable = sectors_remaining * SectorBytes - data_index
      /\ SegmentStart \in Nat /\ SegmentStart = transfer_lba * SectorBytes + data_index
  BY <1>1, <1>2 DEF SegmentAvailable, SegmentStart
<1>4. SegmentRequested \in Nat /\ SegmentRequested <= SegmentAvailable
  BY <1>1, <1>3 DEF SegmentRequested, Smaller
<1>5. /\ SegmentBytes \in Nat /\ SegmentBytes <= SegmentRequested
      /\ SegmentStart + SegmentBytes <= Capacity * SectorBytes
  BY <1>2, <1>3, <1>4 DEF SegmentBytes, Smaller
<1>6. /\ moved \in Nat /\ moved <= sectors_remaining * SectorBytes
      /\ transfer_lba * SectorBytes + moved <= Capacity * SectorBytes
  BY <1>1, <1>2, <1>3, <1>4, <1>5
<1>8. moved = SectorBytes * done + rest
  OBVIOUS
<1> HIDE DEF moved
<1>9. done * SectorBytes \in Nat /\ done * SectorBytes <= moved
  BY <1>6, <1>8
<1>10. done <= sectors_remaining
  <2>1. SUFFICES ASSUME sectors_remaining + 1 <= done PROVE FALSE
    BY <1>1, <1>8
  <2>2. (sectors_remaining + 1) * SectorBytes <= done * SectorBytes
    BY <1>1, <1>8, <2>1, MulMono
  <2>3. (sectors_remaining + 1) * SectorBytes = sectors_remaining * SectorBytes + SectorBytes
    BY <1>1
  <2> QED BY <1>2, <1>6, <1>9, <2>2, <2>3
<1>11. transfer_lba + done <= Capacity
  <2>1. SUFFICES ASSUME Capacity + 1 <= transfer_lba + done PROVE FALSE
    BY <1>1, <1>8
  <2>2. (Capacity + 1) * SectorBytes <= (transfer_lba + done) * SectorBytes
    BY <1>1, <1>8, <2>1, MulMono
  <2>3. (Capacity + 1) * SectorBytes = Capacity * SectorBytes + 1 * SectorBytes
    BY <1>1, Distribute
  <2>4. (transfer_lba + done) * SectorBytes = transfer_lba * SectorBytes + done * SectorBytes
    BY <1>1, <1>8, Distribute
  <2> QED BY <1>2, <1>6, <1>9, <2>2, <2>3, <2>4
<1> QED BY <1>10, <1>11

LEMMA TickDmaInv ==
  ASSUME Inv, ~soft_reset_asserted, TickDma,
         UNCHANGED <<device_control, soft_reset_asserted>>
  PROVE  Inv'
<1>1. /\ status = Drq /\ transfer_kind \in DmaKinds /\ ~InReset
      /\ TypeOK /\ BusyMatchesPending /\ InterruptCoherent /\ TransferConserved
      /\ UNCHANGED <<command, dma_enable, multiple_count, first_lba, total>>
  BY DEF Inv, TickDma, CourseOfTransfer, InReset, history
<1>2. CASE RefuseSegment
  <2>1. PICK err \in {"IDNF", "ABRT"} : ScheduleNondata(transfer_lba, err, FALSE, 0)
    BY <1>2 DEF RefuseSegment
  <2>2. err \in Errors /\ FALSE \in BOOLEAN /\ transfer_lba \in Nat
    BY <1>1 DEF Errors, TypeOK
  <2>3. Course' /\ HelperTypes'
    BY <1>1, <2>1, <2>2, NondataCourse, NondataTypes
  <2>4. /\ transfer_kind' \in Kinds /\ transfer_lba' = transfer_lba
        /\ sectors_remaining' = 0 /\ data_index' = 0
    BY <2>1 DEF ScheduleNondata, Transfer, Kinds
  <2>5. /\ UNCHANGED <<dirty, selected_lba, sector_count, device, error, dma_length>>
        /\ dma_status' = 1
    BY <1>2 DEF RefuseSegment, taskfile
  <2>6. TypeOK'
    BY <1>1, <2>3, <2>4, <2>5, SizesAssumption DEF TypeOK, HelperTypes
  <2> QED BY <2>3, <2>6 DEF Inv, Course
<1>3. CASE MoveSegment
  <2> DEFINE moved == data_index + SegmentBytes
             done  == moved \div SectorBytes
             lba   == transfer_lba + done
             left  == IF done >= sectors_remaining THEN 0 ELSE sectors_remaining - done
  <2>1. SegmentBytes > 0 /\ dma_length' = 0 /\ ShowProgress(lba, left)
    BY <1>3 DEF MoveSegment, SegmentSectors
  <2>0. SegmentStart \in Nat /\ SegmentBytes \in Nat /\ moved \in Nat
    BY <1>1, <2>1, SegmentTypes DEF TypeOK
  <2>2. /\ done \in Nat /\ done <= sectors_remaining /\ transfer_lba + done <= Capacity
        /\ moved % SectorBytes \in 0 .. SectorBytes - 1
    <3> HIDE DEF moved
    <3>1. /\ done \in Nat /\ moved % SectorBytes \in 0 .. SectorBytes - 1
          /\ moved = SectorBytes * done + (moved % SectorBytes)
      BY <2>0, DivMod, SizesAssumption
    <3> HIDE DEF done
    <3>2. data_index + SegmentBytes = SectorBytes * done + (moved % SectorBytes)
      BY <3>1 DEF moved
    <3> QED BY <1>1, <2>1, <3>1, <3>2, SegmentArithmetic
  <2> HIDE DEF moved, done, lba, left
  <2>3. /\ transfer_lba \in Nat /\ sectors_remaining \in Nat /\ sectors_remaining <= CountMod
        /\ first_lba \in Nat /\ total \in Nat
        /\ first_lba <= transfer_lba /\ transfer_lba + sectors_remaining = first_lba + total
    BY <1>1, DataPhaseFacts DEF TransferConserved, DataKinds
  <2>4. /\ lba \in Nat /\ left \in Nat /\ left <= CountMod
        /\ first_lba <= lba /\ lba + left = first_lba + total
    <3>1. lba = transfer_lba + done /\ left = sectors_remaining - done
      BY <2>2, <2>3 DEF lba, left
    <3> QED BY <2>2, <2>3, <3>1, SizesAssumption
  <2>5. dirty' \subseteq Nat
    BY <1>1, <1>3, <2>0, MediumOffsets DEF MoveSegment, StoreSegment, TypeOK
  <2>6. /\ selected_lba' \in LbaRange /\ sector_count' \in 0 .. CountMod - 1
        /\ device' \in 0 .. DeviceLanes - 1 /\ error' \in Errors
    <3>1. lba <= Capacity
      BY <2>2 DEF lba
    <3> QED BY <1>1, <2>1, <2>4, <3>1, ShowProgressType
  <2>7. CASE dma_status' = 1 /\ ScheduleNondata(lba, "IDNF", FALSE, 0)
    <3>1. "IDNF" \in Errors /\ FALSE \in BOOLEAN
      BY DEF Errors
    <3>2. Course' /\ HelperTypes'
      BY <1>1, <2>4, <2>7, <3>1, NondataCourse, NondataTypes
    <3>3. /\ transfer_kind' \in Kinds /\ transfer_lba' = lba
          /\ sectors_remaining' = 0 /\ data_index' = 0
      BY <2>7 DEF ScheduleNondata, Transfer, Kinds
    <3>4. TypeOK'
      BY <1>1, <2>1, <2>4, <2>5, <2>6, <2>7, <3>2, <3>3, SizesAssumption
         DEF TypeOK, HelperTypes
    <3> QED BY <3>2, <3>4 DEF Inv, Course
  <2>8. CASE dma_status' = 0 /\ FinishTransfer(lba, TRUE, {})
    <3>1. Course' /\ HelperTypes'
      <4>1. {} \subseteq {"dma"} /\ TRUE \in BOOLEAN
        OBVIOUS
      <4> QED BY <1>1, <2>4, <2>8, <4>1, FinishCourse, FinishTypes
    <3>2. /\ transfer_kind' \in Kinds /\ transfer_lba' = lba
          /\ sectors_remaining' = 0 /\ data_index' = 0
      BY <2>8 DEF FinishTransfer, Transfer, Kinds
    <3>3. TypeOK'
      BY <1>1, <2>1, <2>4, <2>5, <2>6, <2>8, <3>1, <3>2, SizesAssumption
         DEF TypeOK, HelperTypes
    <3> QED BY <3>1, <3>3 DEF Inv, Course
  <2>9. CASE /\ left > 0 /\ dma_status' = 0
             /\ Transfer(transfer_kind, lba, left, moved % SectorBytes)
             /\ pending' = pending \ {"dma"}
             /\ UNCHANGED <<status, irq, pio_ready_irq, completion>>
    <3>0. lba <= Capacity
      BY <2>2 DEF lba
    <3>1. /\ transfer_kind' = transfer_kind /\ transfer_lba' = lba
          /\ sectors_remaining' = left /\ data_index' \in 0 .. SectorBytes - 1
          /\ status' = Drq /\ pending' = {}
          /\ UNCHANGED <<irq_pending, irq_line, pio_ready_irq, pending_error>>
          /\ UNCHANGED <<pending_multiple_update, pending_multiple_count>>
      BY <1>1, <2>2, <2>9, DataPhaseFacts DEF Transfer, irq, completion
    <3>2. TypeOK'
      <4>1. sectors_remaining' \in 0 .. CountMod /\ transfer_lba' \in Nat
        BY <2>4, <3>1, SizesAssumption
      <4>2. pending' \subseteq Flags /\ status' \in Statuses
        BY <1>1, <3>1 DEF TypeOK
      <4>3. dma_length' \in Nat /\ dma_status' \in {0, 1}
        BY <2>1, <2>9
      <4>4. UNCHANGED <<device_control, soft_reset_asserted, dma_enable>>
        BY <1>1
      <4> QED BY <1>1, <2>5, <2>6, <3>1, <4>1, <4>2, <4>3, <4>4 DEF TypeOK
    <3>3. BusyMatchesPending'
      BY <1>1, <3>1 DEF BusyMatchesPending
    <3>4. DataPhaseInBounds' /\ TransferConserved'
      BY <1>1, <2>4, <2>9, <3>0, <3>1, CapacityBounds
         DEF DataPhaseInBounds, TransferConserved, PioKinds, DmaKinds
    <3>5. CourseOfTransfer'
      BY <1>1, <3>1 DEF CourseOfTransfer
    <3>6. InterruptCoherent'
      BY <1>1, <3>1 DEF InterruptCoherent
    <3>7. ResetIsQuiet'
      BY <1>1, <3>1 DEF ResetIsQuiet, InReset
    <3> QED BY <3>2, <3>3, <3>4, <3>5, <3>6, <3>7 DEF Inv
  <2> QED BY <1>3, <2>7, <2>8, <2>9 DEF MoveSegment, SegmentSectors, moved, done, lba, left
<1> QED BY <1>2, <1>3 DEF TickDma

\* The bytes a command may touch are the ones between its first sector and
\* the end of its extent.
LEMMA InsideExtent ==
  ASSUME NEW lba \in Nat, NEW first \in Nat, NEW left \in Nat, NEW index \in Nat,
         NEW n \in Nat, NEW b \in Nat, first <= lba,
         index + n <= left * SectorBytes,
         b \in lba * SectorBytes + index .. lba * SectorBytes + index + n - 1
  PROVE  b \in first * SectorBytes .. (lba + left) * SectorBytes - 1
<1> USE SizesAssumption
<1>1. first * SectorBytes <= lba * SectorBytes
  BY MulMono
<1>2. (lba + left) * SectorBytes = lba * SectorBytes + left * SectorBytes
  BY Distribute
<1>3. /\ first * SectorBytes \in Nat /\ lba * SectorBytes \in Nat
      /\ left * SectorBytes \in Nat
  OBVIOUS
<1> QED BY <1>1, <1>2, <1>3

LEMMA DiskTickInv == Inv /\ DiskTick => Inv'
  BY TickResetInv, TickNondataInv, TickPioCompletionInv, TickPioDataInv, TickDmaInv
     DEF DiskTick

LEMMA StutterInv == Inv /\ UNCHANGED vars => Inv'
<1> SUFFICES ASSUME Inv, UNCHANGED vars PROVE Inv'
  OBVIOUS
<1>1. UNCHANGED courseVars
  BY DEF vars, courseVars, irq, dma_regs, completion, transfer, history
<1>2. Course'
  BY <1>1, CourseUnchanged, InvParts
<1>3. TypeOK'
  BY DEF Inv, TypeOK, vars, taskfile, irq, dma_regs, completion, transfer, history
<1> QED BY <1>2, <1>3 DEF Inv, Course

LEMMA NextInv == Inv /\ [Next]_vars => Inv'
<1> SUFFICES ASSUME Inv, [Next]_vars PROVE Inv'
  OBVIOUS
<1>1. CASE DiskTick
  BY <1>1, DiskTickInv
<1>2. CASE GuestAccess
  <2>1. CASE AcknowledgeIrq
    BY <2>1, AcknowledgeInv
  <2>2. CASE \E n \in {1, 2} : ReadData(n) \/ WriteData(n)
    BY <2>2, ReadDataInv, WriteDataInv
  <2>3. CASE WriteFeatures
    BY <2>3, WriteFeaturesInv
  <2>4. CASE \E count \in 0 .. CountMod - 1 : WriteSectorCount(count)
    BY <2>4, WriteSectorCountInv
  <2>5. CASE \E value \in 0 .. LaneSize - 1 : WriteLba(value)
    BY <2>5, WriteLbaInv
  <2>6. CASE \E nibble \in 0 .. DeviceLanes - 1 : WriteDevice(nibble)
    BY <2>6, WriteDeviceInv
  <2>7. CASE \E c \in Commands : WriteCommand(c)
    BY <2>7, WriteCommandInv
  <2>8. CASE \E control \in SUBSET {"nIEN", "SRST"} : WriteDeviceControl(control)
    BY <2>8, WriteDeviceControlInv
  <2>9. CASE \E enable \in BOOLEAN : WriteDmaControl(enable)
    BY <2>9, WriteDmaControlInv
  <2>10. CASE WriteDmaStatus(0)
    BY <2>10, WriteDmaStatusInv
  <2>11. CASE \E length \in DmaLengths : WriteDmaLength(length)
    BY <2>11, WriteDmaLengthInv
  <2> QED BY <1>2, <2>1, <2>2, <2>3, <2>4, <2>5, <2>6, <2>7, <2>8, <2>9, <2>10, <2>11
          DEF GuestAccess
<1>3. CASE UNCHANGED vars
  BY <1>3, StutterInv
<1> QED BY <1>1, <1>2, <1>3 DEF Next

-----------------------------------------------------------------------------
(***************************************************************************)
(* The theorems.                                                           *)
(***************************************************************************)

\* The inductive invariant holds in every reachable state.
THEOREM Invariance == Spec => []Inv
  BY InitInv, NextInv, PTL DEF Spec

\* Every register keeps to the values its hardware register can hold: no
\* counter wraps and no LBA leaves the 28 bits of the taskfile.
THEOREM TypeCorrect == Spec => []TypeOK
<1>1. Inv => TypeOK
  BY DEF Inv
<1> QED BY <1>1, Invariance, PTL

\* BSY is shown exactly while one deferred effect, or SRST, is outstanding.
THEOREM BusyCorrect == Spec => []BusyMatchesPending
<1>1. Inv => BusyMatchesPending
  BY DEF Inv
<1> QED BY <1>1, Invariance, PTL

\* The data phase stays on the medium, for every medium and every DMA length.
THEOREM DataPhaseCorrect == Spec => []DataPhaseInBounds
<1>1. Inv => DataPhaseInBounds
  BY DEF Inv
<1> QED BY <1>1, Invariance, PTL

\* The deferred flags and the transfer agree on the course of the command.
THEOREM CourseCorrect == Spec => []CourseOfTransfer
<1>1. Inv => CourseOfTransfer
  BY DEF Inv
<1> QED BY <1>1, Invariance, PTL

\* No sector is skipped or moved twice.
THEOREM ConservationCorrect == Spec => []TransferConserved
<1>1. Inv => TransferConserved
  BY DEF Inv
<1> QED BY <1>1, Invariance, PTL

\* The interrupt line follows the request and nIEN, and is never raised while
\* the drive is busy.
THEOREM InterruptCorrect == Spec => []InterruptCoherent
<1>1. Inv => InterruptCoherent
  BY DEF Inv
<1> QED BY <1>1, Invariance, PTL

\* A software reset leaves nothing of the cancelled command.
THEOREM ResetCorrect == Spec => []ResetIsQuiet
<1>1. Inv => ResetIsQuiet
  BY DEF Inv
<1> QED BY <1>1, Invariance, PTL

\* The medium changes only under a write command, inside the extent it asked
\* for and inside the advertised capacity, and never during a reset.
LEMMA WriteDataConfined ==
  ASSUME Inv, NEW n \in {1, 2}, WriteData(n), NEW b \in dirty' \ dirty
  PROVE  /\ transfer_kind = "WRITE" /\ ~InReset
         /\ b \in first_lba * SectorBytes .. (first_lba + total) * SectorBytes - 1
         /\ b < Capacity * SectorBytes
<1> USE SizesAssumption
<1>1. /\ transfer_kind = "WRITE" /\ status = Drq /\ ~InReset
      /\ b \in WordsOnMedium(transfer_lba * SectorBytes + data_index, WordsMoved(n))
  BY DEF WriteData, StoreWords
<1>2. /\ transfer_lba \in Nat /\ sectors_remaining \in Nat /\ sectors_remaining > 0
      /\ data_index \in Nat /\ data_index < SectorBytes
      /\ first_lba \in Nat /\ total \in Nat /\ transfer_lba < Capacity
      /\ first_lba <= transfer_lba /\ transfer_lba + sectors_remaining = first_lba + total
  BY <1>1, DataPhaseFacts DEF Inv, TransferConserved, DataKinds, PioKinds
<1>3. WordsMoved(n) \in Nat /\ data_index + WordsMoved(n) <= SectorBytes
  BY <1>2 DEF WordsMoved, Smaller
<1>4. b \in transfer_lba * SectorBytes + data_index
             .. transfer_lba * SectorBytes + data_index + WordsMoved(n) - 1
  BY <1>1 DEF WordsOnMedium
<1>5. b \in Nat
  <2>1. transfer_lba * SectorBytes + data_index \in Nat
    BY <1>2
  <2> QED BY <1>3, <1>4, <2>1
<1>6. 1 * SectorBytes = SectorBytes /\ 1 * SectorBytes <= sectors_remaining * SectorBytes
  BY <1>2, MulMono
<1>7. sectors_remaining * SectorBytes \in Nat
  BY <1>2
<1>8. data_index + WordsMoved(n) <= sectors_remaining * SectorBytes
  BY <1>2, <1>3, <1>6, <1>7
<1>9. b \in first_lba * SectorBytes .. (transfer_lba + sectors_remaining) * SectorBytes - 1
  BY <1>2, <1>3, <1>4, <1>5, <1>8, InsideExtent
<1>10. b < Capacity * SectorBytes
  <2>1. b \in transfer_lba * SectorBytes .. (transfer_lba + 1) * SectorBytes - 1
    BY <1>2, <1>3, <1>4, <1>5, <1>6, InsideExtent
  <2>2. (transfer_lba + 1) * SectorBytes <= Capacity * SectorBytes
    BY <1>2, CapacityBounds, MulMono
  <2>3. (transfer_lba + 1) * SectorBytes \in Nat /\ Capacity * SectorBytes \in Nat
    BY <1>2, CapacityBounds
  <2> QED BY <1>5, <2>1, <2>2, <2>3
<1> QED BY <1>1, <1>2, <1>9, <1>10

LEMMA TickDmaConfined ==
  ASSUME Inv, TickDma, NEW b \in dirty' \ dirty
  PROVE  /\ transfer_kind = "DMA_WRITE" /\ ~InReset
         /\ b \in first_lba * SectorBytes .. (first_lba + total) * SectorBytes - 1
         /\ b < Capacity * SectorBytes
<1> USE SizesAssumption
<1>1. /\ transfer_kind = "DMA_WRITE" /\ SegmentBytes > 0
      /\ b \in OnMedium(SegmentStart, SegmentBytes)
  BY DEF TickDma, RefuseSegment, MoveSegment, StoreSegment
<1>2. status = Drq /\ transfer_kind \in DmaKinds
  BY <1>1 DEF Inv, CourseOfTransfer, DmaKinds
<1>3. /\ transfer_lba \in Nat /\ sectors_remaining \in Nat
      /\ data_index \in Nat /\ data_index < SectorBytes
      /\ first_lba \in Nat /\ total \in Nat /\ ~InReset
      /\ first_lba <= transfer_lba /\ transfer_lba + sectors_remaining = first_lba + total
      /\ dma_length \in Nat
  BY <1>1, <1>2, DataPhaseFacts DEF Inv, TypeOK, TransferConserved, DataKinds
<1>4. SegmentBytes \in Nat /\ SegmentStart \in Nat
  BY <1>1, <1>2, SegmentTypes
<1>5. /\ transfer_lba * SectorBytes \in Nat /\ Capacity * SectorBytes \in Nat
      /\ sectors_remaining * SectorBytes \in Nat
  BY <1>3, CapacityBounds
<1>6. /\ data_index + SegmentBytes <= sectors_remaining * SectorBytes
      /\ SegmentStart + SegmentBytes <= Capacity * SectorBytes
      /\ SegmentStart = transfer_lba * SectorBytes + data_index
  BY <1>1, <1>3, <1>4, <1>5
     DEF SegmentBytes, SegmentRequested, SegmentAvailable, SegmentStart, Smaller
<1>7. b \in SegmentStart .. SegmentStart + SegmentBytes - 1 /\ b \in Nat
  BY <1>1, <1>4 DEF OnMedium
<1>8. b \in transfer_lba * SectorBytes + data_index
             .. transfer_lba * SectorBytes + data_index + SegmentBytes - 1
  BY <1>6, <1>7
<1>9. b \in first_lba * SectorBytes .. (transfer_lba + sectors_remaining) * SectorBytes - 1
  BY <1>3, <1>4, <1>6, <1>7, <1>8, InsideExtent
<1> QED BY <1>1, <1>3, <1>4, <1>5, <1>6, <1>7, <1>9

\* Whatever the guest does, writes stay where their command said.
THEOREM WritesCorrect == Spec => WritesConfined
<1> DEFINE A == \A b \in dirty' \ dirty :
                  /\ transfer_kind \in {"WRITE", "DMA_WRITE"}
                  /\ ~InReset
                  /\ b \in first_lba * SectorBytes .. (first_lba + total) * SectorBytes - 1
                  /\ b < Capacity * SectorBytes
<1>1. Inv /\ [Next]_vars => [A]_vars
  <2> SUFFICES ASSUME Inv, Next, NEW b \in dirty' \ dirty
               PROVE  /\ transfer_kind \in {"WRITE", "DMA_WRITE"} /\ ~InReset
                      /\ b \in first_lba * SectorBytes .. (first_lba + total) * SectorBytes - 1
                      /\ b < Capacity * SectorBytes
    OBVIOUS
  <2>1. CASE \E n \in {1, 2} : WriteData(n)
    BY <2>1, WriteDataConfined
  <2>2. CASE TickDma
    BY <2>2, TickDmaConfined
  <2>3. CASE GuestAccess /\ ~(\E n \in {1, 2} : WriteData(n))
    <3>1. dirty' = dirty
      BY <2>3 DEF GuestAccess, AcknowledgeIrq, ReadData, WriteFeatures, WriteSectorCount,
                  WriteLba, WriteDevice, TaskfileWrite, WriteCommand, WriteDeviceControl,
                  WriteDmaControl, WriteDmaStatus, WriteDmaLength, DmaRegisterWrite
    <3> QED BY <3>1
  <2>4. CASE DiskTick /\ ~TickDma
    <3>1. dirty' = dirty
      BY <2>4 DEF DiskTick, TickReset, TickNondata, TickPioCompletion, TickPioData
    <3> QED BY <3>1
  <2> QED BY <2>1, <2>2, <2>3, <2>4 DEF Next
<1>2. Spec => [][A]_vars
  BY <1>1, Invariance, PTL DEF Spec
<1> QED BY <1>2 DEF WritesConfined

-----------------------------------------------------------------------------
(***************************************************************************)
(* What a step does to the transfer, as far as the medium and the taskfile *)
(* are concerned.                                                          *)
(***************************************************************************)

\* A run of bytes is stored once its two parts are.
LEMMA MediumSplit ==
  ASSUME NEW first \in Nat, NEW n \in Nat, NEW m \in Nat, NEW k \in Nat, k <= n + m
  PROVE  /\ OnMedium(first, k) \subseteq OnMedium(first, n) \cup OnMedium(first + n, m)
         /\ WordsOnMedium(first, k)
              \subseteq WordsOnMedium(first, n) \cup WordsOnMedium(first + n, m)
  BY DEF OnMedium, WordsOnMedium

\* How far a transfer has come.
Moved == SegmentStart - first_lba * SectorBytes

LEMMA MovedFacts ==
  ASSUME Inv, transfer_kind \in DataKinds
  PROVE  /\ first_lba * SectorBytes \in Nat /\ SegmentStart \in Nat /\ Moved \in Nat
         /\ first_lba * SectorBytes + Moved = SegmentStart
<1> USE SizesAssumption
<1>1. /\ first_lba \in Nat /\ transfer_lba \in Nat /\ data_index \in Nat
      /\ first_lba <= transfer_lba
  BY DEF Inv, TypeOK, TransferConserved
<1>2. first_lba * SectorBytes <= transfer_lba * SectorBytes
  BY <1>1, MulMono
<1>3. first_lba * SectorBytes \in Nat /\ transfer_lba * SectorBytes \in Nat
  BY <1>1
<1> QED BY <1>1, <1>2, <1>3 DEF Moved, SegmentStart

\* Steps that leave the medium alone and neither start nor move a transfer.
Elsewhere ==
  /\ UNCHANGED <<dirty, first_lba, total>>
  /\ \/ UNCHANGED <<transfer_kind, transfer_lba, data_index>>
     \/ transfer_kind' \in {"none", "IDENTIFY"} /\ (transfer_lba' = transfer_lba \/ pending' = {})
  /\ transfer_kind \in {"WRITE", "DMA_WRITE"} /\ transfer_kind' = "none" /\ status' = Ready
       => transfer_kind = "WRITE" /\ sectors_remaining = 0

LEMMA GuestElsewhere ==
  ASSUME Inv, GuestAccess, ~\E n \in {1, 2} : ReadData(n) \/ WriteData(n),
         ~\E c \in Commands : WriteCommand(c)
  PROVE  Elsewhere
<1>1. CASE \E control \in SUBSET {"nIEN", "SRST"} : WriteDeviceControl(control)
  <2>1. PICK control \in SUBSET {"nIEN", "SRST"} : WriteDeviceControl(control)
    BY <1>1
  <2>2. CASE AssertSoftReset(control)
    BY <2>1, <2>2 DEF WriteDeviceControl, AssertSoftReset, CancelTransfer, Transfer, history, Elsewhere
  <2>3. CASE ~AssertSoftReset(control)
    BY <2>1, <2>3 DEF WriteDeviceControl, ReleaseSoftReset, transfer, history, Elsewhere
  <2> QED BY <2>2, <2>3
<1>2. CASE ~\E control \in SUBSET {"nIEN", "SRST"} : WriteDeviceControl(control)
  <2>1. UNCHANGED <<dirty, first_lba, total, transfer_kind, transfer_lba, data_index>>
    BY <1>2 DEF GuestAccess, AcknowledgeIrq, WriteFeatures, WriteSectorCount, WriteLba,
                WriteDevice, TaskfileWrite, WriteDmaControl, WriteDmaStatus, WriteDmaLength,
                DmaRegisterWrite, transfer, history
  <2> QED BY <2>1 DEF Elsewhere
<1> QED BY <1>1, <1>2

LEMMA TickElsewhere ==
  ASSUME Inv, DiskTick, ~TickDma
  PROVE  Elsewhere
<1>1. CASE TickReset
  <2>1. transfer_kind = "none"
    BY <1>1 DEF TickReset, Inv, ResetIsQuiet, InReset
  <2> QED BY <1>1, <2>1 DEF TickReset, CancelTransfer, Transfer, history, Elsewhere
<1>2. CASE TickNondata
  <2>1. transfer_kind = "none"
    BY <1>2 DEF TickNondata, Inv, BusyMatchesPending, CourseOfTransfer
  <2> QED BY <1>2, <2>1 DEF TickNondata, Transfer, history, Elsewhere
<1>3. CASE TickPioCompletion
  <2>1. transfer_kind = "WRITE" /\ sectors_remaining = 0
    BY <1>3 DEF TickPioCompletion, Inv, CourseOfTransfer
  <2> QED BY <1>3, <2>1 DEF TickPioCompletion, FinishTransfer, Transfer, history, Elsewhere
<1>4. CASE TickPioData
  BY <1>4 DEF TickPioData, transfer, history, Elsewhere
<1> QED BY <1>1, <1>2, <1>3, <1>4 DEF DiskTick

\* A command starts a transfer at the first sector of its extent, or none.
LEMMA CommandStarts ==
  ASSUME Inv, NEW c \in Commands, WriteCommand(c)
  PROVE  /\ dirty' = dirty /\ status' # Ready
         /\ \/ /\ transfer_kind' \in DataKinds /\ "nondata" \notin pending'
               /\ transfer_lba' = first_lba' /\ data_index' = 0
            \/ transfer_kind' \in {"none", "IDENTIFY"} /\ transfer_lba' = transfer_lba
<1>0. dirty' = dirty /\ ~InReset /\ c \in AllCommands
  BY GuestAssumption DEF WriteCommand
<1>1. \/ StartIdentify
      \/ \E kind \in PioKinds, raise \in BOOLEAN : StartTransfer(kind) /\ SchedulePioData(raise)
      \/ \E kind \in DmaKinds : StartDma(kind) /\ StartTransfer(kind)
      \/ \E err, update, count : ScheduleNondata(transfer_lba, err, update, count)
  BY <1>0 DEF WriteCommand, StartRead, StartWrite, StartDma, RejectCommand, SetMultipleMode,
              PioKinds, DmaKinds, AllCommands
<1>2. CASE StartIdentify
  BY <1>0, <1>2 DEF StartIdentify, Transfer, SchedulePioData
<1>3. CASE \E kind \in PioKinds, raise \in BOOLEAN : StartTransfer(kind) /\ SchedulePioData(raise)
  BY <1>0, <1>3 DEF StartTransfer, Transfer, SchedulePioData, DataKinds
<1>4. CASE \E kind \in DmaKinds : StartDma(kind) /\ StartTransfer(kind)
  <2>1. PICK kind \in DmaKinds : StartDma(kind) /\ StartTransfer(kind)
    BY <1>4
  <2>2. transfer_kind' = kind /\ transfer_lba' = first_lba' /\ data_index' = 0
    BY <2>1 DEF StartTransfer, Transfer
  <2>3. CASE InRange(selected_lba)
    BY <1>0, <2>1, <2>2, <2>3 DEF StartDma, ArmDma, DataKinds
  <2>4. CASE ~InRange(selected_lba)
    BY <1>0, <2>1, <2>2, <2>4 DEF StartDma, RejectCommand, ScheduleNondata, Transfer, DmaKinds
  <2> QED BY <2>3, <2>4
<1>5. CASE \E err, update, count : ScheduleNondata(transfer_lba, err, update, count)
  BY <1>0, <1>5 DEF ScheduleNondata, Transfer
<1> QED BY <1>1, <1>2, <1>3, <1>4, <1>5

\* A write through the data register moves the transfer by what it stores.
LEMMA WriteDataMoves ==
  ASSUME Inv, NEW n \in {1, 2}, WriteData(n)
  PROVE  /\ transfer_kind = "WRITE" /\ status' # Ready /\ UNCHANGED <<first_lba, total>>
         /\ WordsMoved(n) \in Nat
         /\ dirty' = dirty \cup WordsOnMedium(SegmentStart, WordsMoved(n))
         /\ \/ transfer_kind' = "WRITE" /\ SegmentStart' = SegmentStart + WordsMoved(n)
            \/ transfer_kind' = "none"
<1> USE SizesAssumption
<1>1. status = Drq /\ transfer_kind = "WRITE" /\ UNCHANGED <<first_lba, total>>
  BY DEF WriteData, history
<1>2. transfer_lba \in Nat /\ data_index \in Nat /\ data_index < SectorBytes
  BY <1>1, DataPhaseFacts
<1>3. WordsMoved(n) \in Nat /\ WordsMoved(n) <= SectorBytes - data_index
  BY <1>2 DEF WordsMoved, Smaller
<1>4. dirty' = dirty \cup WordsOnMedium(SegmentStart, WordsMoved(n))
  BY DEF WriteData, StoreWords, SegmentStart
<1>5. transfer_lba * SectorBytes \in Nat
      /\ (transfer_lba + 1) * SectorBytes = transfer_lba * SectorBytes + SectorBytes
  BY <1>2
<1>6. CASE data_index + WordsMoved(n) < SectorBytes
  <2>1. /\ data_index' = data_index + WordsMoved(n)
        /\ UNCHANGED <<status, transfer_kind, transfer_lba>>
    BY <1>2, <1>3, <1>6 DEF WriteData
  <2>2. SegmentStart' = SegmentStart + WordsMoved(n)
    BY <1>2, <1>3, <1>5, <2>1 DEF SegmentStart
  <2> QED BY <1>1, <1>3, <1>4, <2>1, <2>2
<1>7. CASE data_index + WordsMoved(n) >= SectorBytes
  <2>1. \/ Transfer("WRITE", transfer_lba + 1, 0, 0) /\ SchedulePioCompletion
        \/ \E left : NextBlock(left)
    BY <1>2, <1>3, <1>7 DEF WriteData
  <2>2. /\ status' = Busy
        /\ \/ transfer_kind' = "WRITE" /\ transfer_lba' = transfer_lba + 1 /\ data_index' = 0
           \/ transfer_kind' = "none"
    BY <1>1, <2>1 DEF NextBlock, Transfer, SchedulePioCompletion, SchedulePioData, ScheduleNondata
  <2>3. data_index + WordsMoved(n) = SectorBytes
    BY <1>2, <1>3, <1>7
  <2>4. transfer_kind' = "WRITE" => SegmentStart' = SegmentStart + WordsMoved(n)
    BY <1>2, <1>3, <1>5, <2>2, <2>3 DEF SegmentStart
  <2> QED BY <1>1, <1>3, <1>4, <2>2, <2>4
<1> QED BY <1>2, <1>3, <1>6, <1>7

\* Where a DMA segment leads.
LEMMA SegmentLeadsTo ==
  ASSUME Inv, TickDma, MoveSegment,
         NEW done, done = SegmentSectors, NEW rest, rest = (data_index + SegmentBytes) % SectorBytes
  PROVE  /\ done \in Nat /\ rest \in 0 .. SectorBytes - 1
         /\ SegmentBytes \in Nat /\ SegmentBytes > 0 /\ SegmentStart \in Nat
         /\ done <= sectors_remaining /\ transfer_lba + done <= Capacity
         /\ (transfer_lba + done) * SectorBytes \in Nat
         /\ (transfer_lba + done) * SectorBytes + rest = SegmentStart + SegmentBytes
         /\ ShowProgress(transfer_lba + done, sectors_remaining - done)
<1> USE SizesAssumption
<1>1. status = Drq /\ transfer_kind \in DmaKinds /\ SegmentBytes > 0
  BY DEF TickDma, MoveSegment, Inv, CourseOfTransfer
<1>2. SegmentStart \in Nat /\ SegmentBytes \in Nat
  BY <1>1, SegmentTypes
<1>3. transfer_lba \in Nat /\ data_index \in Nat /\ sectors_remaining \in Nat
  BY <1>1, DataPhaseFacts
<1>4. PICK moved \in Nat : moved = data_index + SegmentBytes
  BY <1>2, <1>3
<1>5. done = moved \div SectorBytes /\ rest = moved % SectorBytes
  BY <1>4 DEF SegmentSectors
<1>6. done \in Nat /\ rest \in 0 .. SectorBytes - 1 /\ moved = SectorBytes * done + rest
  BY <1>5, DivMod
<1>7. done <= sectors_remaining /\ transfer_lba + done <= Capacity
  BY <1>1, <1>4, <1>6, SegmentArithmetic
<1>8. (transfer_lba + done) * SectorBytes = transfer_lba * SectorBytes + SectorBytes * done
      /\ transfer_lba * SectorBytes \in Nat /\ SectorBytes * done \in Nat
  BY <1>3, <1>6
<1>9. (transfer_lba + done) * SectorBytes + rest = SegmentStart + SegmentBytes
  BY <1>2, <1>3, <1>4, <1>6, <1>8 DEF SegmentStart
<1>10. ShowProgress(transfer_lba + done, IF done >= sectors_remaining THEN 0 ELSE sectors_remaining - done)
  BY DEF MoveSegment
<1>11. ShowProgress(transfer_lba + done, sectors_remaining - done)
  <2>1. CASE done >= sectors_remaining
    BY <1>3, <1>6, <1>7, <1>10, <2>1
  <2>2. CASE ~(done >= sectors_remaining)
    BY <1>10, <2>2
  <2> QED BY <2>1, <2>2
<1> QED BY <1>1, <1>2, <1>6, <1>7, <1>8, <1>9, <1>11

-----------------------------------------------------------------------------
(***************************************************************************)
(* A write that has not failed has stored what it went past.               *)
(***************************************************************************)

\* Storing m bytes from where the transfer stands stores the extent up to there.
LEMMA StoresOn ==
  ASSUME Inv, StoredSoFar, NEW m \in Nat, NEW k \in Nat, k <= Moved + m,
         \/ transfer_kind = "WRITE" /\ dirty' = dirty \cup WordsOnMedium(SegmentStart, m)
         \/ transfer_kind = "DMA_WRITE" /\ dirty' = dirty \cup OnMedium(SegmentStart, m)
  PROVE  Extent(k) \subseteq dirty'
<1>1. transfer_kind \in DataKinds /\ Writing
  BY DEF DataKinds, PioKinds, DmaKinds, Writing
<1>2. /\ first_lba * SectorBytes \in Nat /\ Moved \in Nat
      /\ first_lba * SectorBytes + Moved = SegmentStart
  BY <1>1, MovedFacts
<1>3. Extent(Moved) \subseteq dirty
  BY <1>1 DEF StoredSoFar, Moved
<1>4. PICK first \in Nat : first = first_lba * SectorBytes
  BY <1>2
<1>5. /\ OnMedium(first, k) \subseteq OnMedium(first, Moved) \cup OnMedium(SegmentStart, m)
      /\ WordsOnMedium(first, k)
           \subseteq WordsOnMedium(first, Moved) \cup WordsOnMedium(SegmentStart, m)
  BY <1>2, <1>4, MediumSplit
<1> QED BY <1>3, <1>4, <1>5 DEF Extent

LEMMA WriteDataStores ==
  ASSUME Inv, StoredSoFar, NEW n \in {1, 2}, WriteData(n)
  PROVE  StoredSoFar'
<1>1. /\ transfer_kind = "WRITE" /\ UNCHANGED <<first_lba, total>>
      /\ WordsMoved(n) \in Nat
      /\ dirty' = dirty \cup WordsOnMedium(SegmentStart, WordsMoved(n))
  BY WriteDataMoves
<1>2. CASE transfer_kind' = "none"
  BY <1>2 DEF StoredSoFar, Writing
<1>3. CASE transfer_kind' = "WRITE" /\ SegmentStart' = SegmentStart + WordsMoved(n)
  <2>1. /\ first_lba * SectorBytes \in Nat /\ Moved \in Nat
        /\ first_lba * SectorBytes + Moved = SegmentStart
    BY <1>1, MovedFacts DEF DataKinds, PioKinds
  <2>2. SegmentStart' - first_lba' * SectorBytes = Moved + WordsMoved(n)
    BY <1>1, <1>3, <2>1
  <2>3. Extent(Moved + WordsMoved(n)) \subseteq dirty'
    BY <1>1, <2>1, StoresOn
  <2> QED BY <1>1, <1>3, <2>2, <2>3 DEF StoredSoFar, Extent
<1> QED BY <1>2, <1>3, WriteDataMoves

LEMMA TickDmaStores ==
  ASSUME Inv, StoredSoFar, TickDma
  PROVE  /\ StoredSoFar'
         /\ Writing /\ transfer_kind' = "none" /\ status' = Ready
              => Extent(total * SectorBytes) \subseteq dirty'
<1> USE SizesAssumption
<1>1. /\ status = Drq /\ transfer_kind \in DmaKinds /\ UNCHANGED <<first_lba, total>>
  BY DEF Inv, TickDma, CourseOfTransfer, history
<1>0. /\ transfer_lba \in Nat /\ sectors_remaining \in Nat
      /\ first_lba \in Nat /\ total \in Nat
  BY <1>1, DataPhaseFacts
<1>2. CASE RefuseSegment
  BY <1>2 DEF RefuseSegment, ScheduleNondata, Transfer, StoredSoFar, Writing
<1>3. CASE MoveSegment /\ transfer_kind = "DMA_READ"
  BY <1>3 DEF MoveSegment, ScheduleNondata, FinishTransfer, Transfer, StoredSoFar, Writing
<1>4. CASE MoveSegment /\ transfer_kind = "DMA_WRITE"
  <2>1. PICK done, rest : done = SegmentSectors /\ rest = (data_index + SegmentBytes) % SectorBytes
    OBVIOUS
  <2>2. /\ done \in Nat /\ rest \in 0 .. SectorBytes - 1
        /\ SegmentBytes \in Nat /\ SegmentStart \in Nat
        /\ done <= sectors_remaining
        /\ (transfer_lba + done) * SectorBytes \in Nat
        /\ (transfer_lba + done) * SectorBytes + rest = SegmentStart + SegmentBytes
    BY <1>4, <2>1, SegmentLeadsTo
  <2>3. dirty' = dirty \cup OnMedium(SegmentStart, SegmentBytes)
    BY <1>4 DEF MoveSegment, StoreSegment
  <2>4. /\ first_lba * SectorBytes \in Nat /\ Moved \in Nat
        /\ first_lba * SectorBytes + Moved = SegmentStart
    BY <1>4, MovedFacts DEF DataKinds, DmaKinds
  <2>5. \A k \in Nat : k <= Moved + SegmentBytes => Extent(k) \subseteq dirty'
    BY <1>4, <2>2, <2>3, StoresOn
  <2>6. CASE transfer_kind' = "none" /\ status' # Ready
    BY <2>6 DEF StoredSoFar, Writing
  <2>7. CASE transfer_kind' = "none" /\ status' = Ready
    <3>1. done = sectors_remaining
      <4>1. done >= sectors_remaining
        <5>1. 0 = IF done >= sectors_remaining THEN 0 ELSE sectors_remaining - done
          BY <1>4, <2>1, <2>7 DEF MoveSegment, ScheduleNondata, Transfer, DmaKinds
        <5> QED BY <1>0, <2>2, <5>1
      <4> QED BY <1>0, <2>2, <4>1
    <3>2. transfer_lba + done = first_lba + total
      BY <1>0, <1>1, <3>1 DEF Inv, TransferConserved, DataKinds
    <3>3. (transfer_lba + done) * SectorBytes = first_lba * SectorBytes + total * SectorBytes
      BY <1>0, <3>2, Distribute
    <3>4. total * SectorBytes \in Nat
      BY <1>0
    <3>5. total * SectorBytes <= Moved + SegmentBytes
      BY <2>2, <2>4, <3>3, <3>4
    <3> QED BY <2>5, <2>7, <3>4, <3>5 DEF StoredSoFar, Writing
  <2>8. CASE transfer_kind' = transfer_kind /\ transfer_lba' = transfer_lba + done /\ data_index' = rest
    <3>1. SegmentStart' = SegmentStart + SegmentBytes
      BY <2>2, <2>8 DEF SegmentStart
    <3>0. PICK first \in Nat : first = first_lba * SectorBytes /\ first = first_lba' * SectorBytes
      BY <1>1, <2>4
    <3>2. SegmentStart' - first = Moved + SegmentBytes
      BY <2>2, <2>4, <3>0, <3>1
    <3>3. SegmentStart' - first_lba' * SectorBytes = Moved + SegmentBytes
      BY <3>0, <3>2
    <3>4. Extent(Moved + SegmentBytes) \subseteq dirty'
      BY <2>2, <2>4, <2>5
    <3> QED BY <1>1, <1>4, <2>8, <3>3, <3>4 DEF StoredSoFar, Extent
  <2> QED BY <1>4, <2>1, <2>6, <2>7, <2>8 DEF MoveSegment, ScheduleNondata, FinishTransfer, Transfer
<1> QED BY <1>1, <1>2, <1>3, <1>4 DEF TickDma, DmaKinds

\* Elsewhere nothing is moved; the tick that ends a PIO write finds its whole
\* extent behind it.
LEMMA ElsewhereStores ==
  ASSUME Inv, StoredSoFar, Elsewhere
  PROVE  /\ StoredSoFar'
         /\ Writing /\ transfer_kind' = "none" /\ status' = Ready
              => Extent(total * SectorBytes) \subseteq dirty'
<1> USE SizesAssumption
<1>1. StoredSoFar'
  BY DEF Elsewhere, StoredSoFar, Writing, Extent, SegmentStart
<1>2. ASSUME Writing, transfer_kind' = "none", status' = Ready
      PROVE  Extent(total * SectorBytes) \subseteq dirty'
  <2>1. transfer_kind = "WRITE" /\ sectors_remaining = 0 /\ dirty' = dirty
    BY <1>2 DEF Elsewhere, Writing
  <2>2. /\ first_lba * SectorBytes \in Nat /\ Moved \in Nat
        /\ first_lba * SectorBytes + Moved = SegmentStart
    BY <2>1, MovedFacts DEF DataKinds, PioKinds
  <2>3. /\ transfer_lba = first_lba + total /\ first_lba \in Nat /\ total \in Nat
        /\ transfer_lba \in Nat /\ data_index \in Nat
    BY <2>1 DEF Inv, TypeOK, TransferConserved, DataKinds, PioKinds
  <2>4. transfer_lba * SectorBytes = first_lba * SectorBytes + total * SectorBytes
        /\ total * SectorBytes \in Nat
    BY <2>3, Distribute
  <2>5. total * SectorBytes <= Moved + 0
    BY <2>2, <2>3, <2>4 DEF SegmentStart
  <2>6. dirty' = dirty \cup WordsOnMedium(SegmentStart, 0)
    BY <2>1, <2>2 DEF WordsOnMedium
  <2> QED BY <2>1, <2>4, <2>5, <2>6, StoresOn
<1> QED BY <1>1, <1>2

LEMMA StepStores ==
  ASSUME Inv, StoredSoFar, Next
  PROVE  /\ StoredSoFar'
         /\ Writing /\ transfer_kind' = "none" /\ status' = Ready
              => Extent(total * SectorBytes) \subseteq dirty'
<1>1. CASE \E n \in {1, 2} : WriteData(n)
  BY <1>1, WriteDataStores, WriteDataMoves
<1>2. CASE \E n \in {1, 2} : ReadData(n)
  <2>1. transfer_kind \in {"IDENTIFY", "READ"} /\ transfer_kind' \in {transfer_kind, "none"}
    BY <1>2 DEF ReadData, NextBlock, Transfer, FinishTransfer, ScheduleNondata
  <2> QED BY <2>1 DEF StoredSoFar, Writing
<1>3. CASE \E c \in Commands : WriteCommand(c)
  <2>1. /\ dirty' = dirty /\ status' # Ready
        /\ \/ transfer_kind' \in {"none", "IDENTIFY"}
           \/ transfer_lba' = first_lba' /\ data_index' = 0
    BY <1>3, CommandStarts
  <2>2. CASE transfer_kind' \in {"none", "IDENTIFY"}
    BY <2>1, <2>2 DEF StoredSoFar, Writing
  <2>3. CASE transfer_lba' = first_lba' /\ data_index' = 0
    <3>0. Inv'
      BY NextInv
    <3>1. PICK first \in Nat : first = first_lba'
      BY <3>0 DEF Inv, TypeOK
    <3>2. first_lba' * SectorBytes \in Nat
      BY <3>1, Product
    <3>3. SegmentStart' - first_lba' * SectorBytes = 0
      BY <2>3, <3>2 DEF SegmentStart
    <3>4. Extent(0)' = {}
      BY <3>2 DEF Extent, OnMedium, WordsOnMedium
    <3> QED BY <2>1, <3>3, <3>4 DEF StoredSoFar, Extent
  <2> QED BY <2>1, <2>2, <2>3
<1>4. CASE /\ GuestAccess /\ ~(\E n \in {1, 2} : ReadData(n) \/ WriteData(n))
           /\ ~\E c \in Commands : WriteCommand(c)
  BY <1>4, GuestElsewhere, ElsewhereStores
<1>5. CASE TickDma
  BY <1>5, TickDmaStores
<1>6. CASE DiskTick /\ ~TickDma
  BY <1>6, TickElsewhere, ElsewhereStores
<1> QED BY <1>1, <1>2, <1>3, <1>4, <1>5, <1>6 DEF Next

\* A write stores every byte it goes past, at every access and segment, and one
\* that ends without an error its whole extent.
THEOREM StoredCorrect == Spec => WritesStored
<1> DEFINE A == /\ StoredSoFar'
                /\ Writing /\ transfer_kind' = "none" /\ status' = Ready
                     => Extent(total * SectorBytes) \subseteq dirty'
<1>1. Init => StoredSoFar
  BY DEF Init, StoredSoFar, Writing
<1>2. Inv /\ StoredSoFar /\ Next => A
  BY StepStores
<1>3. Inv /\ StoredSoFar /\ [Next]_vars => [A]_vars
  BY <1>2
<1>4. StoredSoFar /\ UNCHANGED vars => StoredSoFar'
  BY DEF vars, transfer, history, StoredSoFar, Writing, Extent, SegmentStart
<1>5. Inv /\ StoredSoFar /\ [Next]_vars => StoredSoFar'
  BY <1>2, <1>4
<1> HIDE DEF A
<1>6. Spec => [][A]_vars
  BY <1>1, <1>3, <1>5, InitInv, NextInv, PTL DEF Spec
<1> QED BY <1>6 DEF WritesStored, A

-----------------------------------------------------------------------------
(***************************************************************************)
(* A transfer that runs off the medium names where.                        *)
(***************************************************************************)

\* The taskfile that ShowProgress leaves when a transfer stops at the end of the medium.
LEMMA ProgressNamesEnd ==
  ASSUME Inv, transfer_kind \in DataKinds, UNCHANGED <<first_lba, total>>,
         NEW lba, lba = Capacity, NEW done \in Nat, lba = transfer_lba + done,
         NEW left, left = sectors_remaining - done, ShowProgress(lba, left)
  PROVE  FirstBadSectorShown'
<1>1. /\ transfer_lba \in Nat /\ sectors_remaining \in Nat /\ first_lba \in Nat /\ total \in Nat
      /\ transfer_lba + sectors_remaining = first_lba + total
  BY SizesAssumption DEF Inv, TypeOK, TransferConserved
<1>2. left = (first_lba + total) - Capacity
  BY <1>1
<1>3. left % CountMod = (first_lba + total - Capacity) % CountMod
  BY <1>1, <1>2, CapacityBounds
<1> QED BY <1>3 DEF ShowProgress, FirstBadSectorShown

LEMMA NextBlockNames ==
  ASSUME Inv, status = Drq, transfer_kind \in PioKinds, UNCHANGED <<first_lba, total>>,
         NEW left, left = sectors_remaining - 1, NextBlock(left), "nondata" \in pending'
  PROVE  FirstBadSectorShown'
<1>1. transfer_lba \in Nat /\ transfer_lba < Capacity
  BY DataPhaseFacts
<1>2. ~InRange(transfer_lba + 1)
  BY DataPhaseFacts DEF NextBlock, SchedulePioData
<1>3. transfer_lba + 1 = Capacity
  BY <1>1, <1>2, CapacityBounds DEF InRange
<1>4. ShowProgress(transfer_lba + 1, left)
  BY DEF NextBlock
<1>5. transfer_kind \in DataKinds
  BY DEF DataKinds
<1> QED BY <1>3, <1>4, <1>5, ProgressNamesEnd

LEMMA TickDmaNames ==
  ASSUME Inv, TickDma, transfer_lba' # transfer_lba, "nondata" \in pending'
  PROVE  FirstBadSectorShown'
<1> USE SizesAssumption
<1>1. /\ status = Drq /\ transfer_kind \in DmaKinds /\ transfer_kind \in DataKinds
      /\ UNCHANGED <<first_lba, total>>
  BY DEF Inv, TickDma, CourseOfTransfer, DataKinds, history
<1>2. transfer_lba \in Nat /\ pending \subseteq {"dma"} /\ Capacity \in Nat
  BY <1>1, DataPhaseFacts, CapacityBounds
<1>3. MoveSegment
  BY DEF TickDma, RefuseSegment, ScheduleNondata, Transfer
<1>4. SegmentBytes < SegmentRequested
  BY <1>2, <1>3 DEF MoveSegment, FinishTransfer
<1>5. PICK done, rest : done = SegmentSectors /\ rest = (data_index + SegmentBytes) % SectorBytes
  OBVIOUS
<1>6. /\ done \in Nat /\ rest \in 0 .. SectorBytes - 1
      /\ SegmentBytes \in Nat /\ SegmentBytes > 0 /\ SegmentStart \in Nat
      /\ transfer_lba + done <= Capacity
      /\ (transfer_lba + done) * SectorBytes \in Nat
      /\ (transfer_lba + done) * SectorBytes + rest = SegmentStart + SegmentBytes
      /\ ShowProgress(transfer_lba + done, sectors_remaining - done)
  BY <1>3, <1>5, SegmentLeadsTo
<1>7. SegmentStart + SegmentBytes = Capacity * SectorBytes
  <2>1. Capacity * SectorBytes \in Nat
    BY <1>2, Product
  <2>2. SegmentBytes # SegmentRequested
    BY <1>4, <1>6
  <2> QED BY <1>6, <2>1, <2>2 DEF SegmentBytes, Smaller
<1>8. transfer_lba + done = Capacity
  <2>1. SUFFICES ASSUME transfer_lba + done + 1 <= Capacity PROVE FALSE
    BY <1>2, <1>6
  <2>2. (transfer_lba + done + 1) * SectorBytes <= Capacity * SectorBytes
    BY <1>2, <1>6, <2>1, MulMono
  <2>3. (transfer_lba + done + 1) * SectorBytes = (transfer_lba + done) * SectorBytes + 1 * SectorBytes
    BY <1>2, <1>6, Distribute
  <2>4. Capacity * SectorBytes \in Nat
    BY <1>2, Product
  <2> QED BY <1>6, <1>7, <2>2, <2>3, <2>4
<1> QED BY <1>1, <1>6, <1>8, ProgressNamesEnd

\* When a transfer runs off the medium, the taskfile names the first sector that
\* could not be moved and how many were left.
THEOREM FailureCorrect == Spec => FailureNamesFirstSector
<1> DEFINE A == (/\ transfer_kind \in DataKinds
                 /\ transfer_lba' # transfer_lba
                 /\ "nondata" \in pending' /\ pending_error' = "IDNF") => FirstBadSectorShown'
<1>1. Inv /\ [Next]_vars => [A]_vars
  <2> SUFFICES ASSUME Inv, Next, transfer_kind \in DataKinds, transfer_lba' # transfer_lba,
                      "nondata" \in pending'
               PROVE  FirstBadSectorShown'
    OBVIOUS
  <2>1. CASE \E n \in {1, 2} : ReadData(n) \/ WriteData(n)
    <3>1. status = Drq /\ UNCHANGED <<first_lba, total>>
      BY <2>1 DEF ReadData, WriteData, history
    <3>2. "nondata" \notin pending
      BY <3>1, DataPhaseFacts
    <3>3. PICK n \in {1, 2} : ReadData(n) \/ WriteData(n)
      BY <2>1
    <3>4. transfer_kind \in {"READ", "WRITE"}
      BY <3>3 DEF ReadData, WriteData, DataKinds, PioKinds, DmaKinds
    <3>5. pending' # pending
      BY <3>2
    <3>6. CASE ReadData(n)
      <4>1. transfer_kind = "READ"
        BY <3>4, <3>6 DEF ReadData
      <4>2. NextBlock(sectors_remaining - 1)
        <5>1. ~FinishTransfer(transfer_lba + 1, FALSE, {"dma"}) /\ ~UNCHANGED pending
          BY <3>2, <3>5 DEF FinishTransfer
        <5> QED BY <3>6, <4>1, <5>1 DEF ReadData
      <4> QED BY <3>1, <4>1, <4>2, NextBlockNames DEF PioKinds
    <3>7. CASE WriteData(n)
      <4>1. NextBlock(sectors_remaining - 1)
        <5>1. SchedulePioCompletion
                => pending' = (pending \ {"pio_data", "nondata"}) \cup {"pio_completion"}
          BY DEF SchedulePioCompletion
        <5>2. ~UNCHANGED pending
          BY <3>5
        <5>3. ~SchedulePioCompletion
          BY <5>1
        <5> QED BY <3>7, <5>2, <5>3 DEF WriteData
      <4> QED BY <3>1, <3>7, <4>1, NextBlockNames DEF WriteData, PioKinds
    <3> QED BY <3>3, <3>6, <3>7
  <2>2. CASE TickDma
    BY <2>2, TickDmaNames
  <2>3. CASE \E c \in Commands : WriteCommand(c)
    BY <2>3, CommandStarts
  <2>4. CASE /\ GuestAccess /\ ~(\E n \in {1, 2} : ReadData(n) \/ WriteData(n))
             /\ ~\E c \in Commands : WriteCommand(c)
    BY <2>4, GuestElsewhere DEF Elsewhere
  <2>5. CASE DiskTick /\ ~TickDma
    BY <2>5, TickElsewhere DEF Elsewhere
  <2> QED BY <2>1, <2>2, <2>3, <2>4, <2>5 DEF Next
<1>2. Spec => [][A]_vars
  BY <1>1, Invariance, PTL DEF Spec
<1> QED BY <1>2 DEF FailureNamesFirstSector

-----------------------------------------------------------------------------
(***************************************************************************)
(* The registers implement the protocol of AtaDriverView, its promise of   *)
(* progress aside.  A step of the registers is a step of the protocol or   *)
(* leaves what the driver sees as it was (ViewStep).                       *)
(***************************************************************************)
ViewStep == View!Next \/ UNCHANGED <<Phase, soft_reset_asserted, sectors_remaining,
                                     irq_pending, status = Failed>>

\* The IDENTIFY block is the only one of its command.
IdentifyIsOneBlock == transfer_kind = "IDENTIFY" => sectors_remaining = 1

LEMMA PhaseInDataPhase ==
  ASSUME Inv, status = Drq
  PROVE  /\ Phase = IF transfer_kind \in DmaKinds THEN "dma" ELSE "data"
         /\ ~InReset /\ "soft_reset" \notin pending /\ ~soft_reset_asserted
  BY DataPhaseFacts DEF Phase, InReset

\* A flag that asks a tick for the end of a command, or for a block, goes with BSY.
LEMMA PhaseWhileBusy ==
  ASSUME Inv, pending \cap {"pio_data", "pio_completion", "nondata"} # {}
  PROVE  /\ Phase = "busy" /\ status = Busy
         /\ ~InReset /\ "soft_reset" \notin pending /\ ~soft_reset_asserted
  BY DEF Inv, BusyMatchesPending, Phase, InReset

\* A block that is complete is followed by another one or by an error.
LEMMA NextBlockSeen ==
  ASSUME Inv, status = Drq, transfer_kind \in PioKinds, NextBlock(sectors_remaining - 1),
         UNCHANGED soft_reset_asserted
  PROVE  View!DrainBlock
<1>1. /\ status' = Busy /\ irq_pending' = FALSE /\ "soft_reset" \notin pending'
      /\ sectors_remaining' \in {0, sectors_remaining - 1}
  BY PhaseInDataPhase DEF NextBlock, Transfer, SchedulePioData, ScheduleNondata, SetIdeIrq
<1>2. Phase' = "busy" /\ Phase = "data"
  BY <1>1, PhaseInDataPhase DEF Phase, InReset, PioKinds, DmaKinds
<1> QED BY <1>1, <1>2 DEF View!DrainBlock

\* The last block of a command is drained in silence.
LEMMA LastBlockSeen ==
  ASSUME Inv, status = Drq, transfer_kind \notin DmaKinds, sectors_remaining = 1,
         NEW lba, FinishTransfer(lba, FALSE, {"dma"}), UNCHANGED soft_reset_asserted
  PROVE  View!DrainBlock
<1>1. /\ status' = Ready /\ irq_pending' = irq_pending /\ "soft_reset" \notin pending'
      /\ sectors_remaining' = 0
  BY PhaseInDataPhase DEF FinishTransfer, Transfer, irq
<1>2. Phase' = "idle" /\ Phase = "data"
  BY <1>1, PhaseInDataPhase DEF Phase, InReset
<1> QED BY <1>1, <1>2 DEF View!DrainBlock

LEMMA ReadDataSeen ==
  ASSUME Inv, IdentifyIsOneBlock, NEW n \in {1, 2}, ReadData(n)
  PROVE  ViewStep
<1>1. status = Drq /\ UNCHANGED soft_reset_asserted
  BY DEF ReadData
<1>2. \/ UNCHANGED <<status, irq, pending, transfer_kind, sectors_remaining>>
      \/ transfer_kind = "IDENTIFY" /\ FinishTransfer(transfer_lba, FALSE, {"dma"})
      \/ transfer_kind = "READ" /\ sectors_remaining - 1 = 0
           /\ FinishTransfer(transfer_lba + 1, FALSE, {"dma"})
      \/ transfer_kind = "READ" /\ NextBlock(sectors_remaining - 1)
  BY DEF ReadData
<1>3. CASE UNCHANGED <<status, irq, pending, transfer_kind, sectors_remaining>>
  BY <1>1, <1>3 DEF ViewStep, Phase, InReset, irq
<1>4. CASE transfer_kind = "IDENTIFY" /\ FinishTransfer(transfer_lba, FALSE, {"dma"})
  <2>1. transfer_kind \notin DmaKinds /\ sectors_remaining = 1
    BY <1>4 DEF IdentifyIsOneBlock, DmaKinds
  <2> QED BY <1>1, <1>4, <2>1, LastBlockSeen DEF ViewStep, View!Next
<1>5. CASE transfer_kind = "READ" /\ sectors_remaining - 1 = 0
             /\ FinishTransfer(transfer_lba + 1, FALSE, {"dma"})
  <2>1. transfer_kind \notin DmaKinds /\ sectors_remaining = 1
    BY <1>1, <1>5, DataPhaseFacts DEF DmaKinds
  <2> QED BY <1>1, <1>5, <2>1, LastBlockSeen DEF ViewStep, View!Next
<1>6. CASE transfer_kind = "READ" /\ NextBlock(sectors_remaining - 1)
  BY <1>1, <1>6, NextBlockSeen DEF ViewStep, View!Next, PioKinds
<1> QED BY <1>2, <1>3, <1>4, <1>5, <1>6

LEMMA WriteDataSeen ==
  ASSUME Inv, NEW n \in {1, 2}, WriteData(n)
  PROVE  ViewStep
<1>1. status = Drq /\ transfer_kind = "WRITE" /\ UNCHANGED soft_reset_asserted
  BY DEF WriteData
<1>2. \/ UNCHANGED <<status, irq, pending, transfer_kind, sectors_remaining>>
      \/ sectors_remaining - 1 = 0 /\ sectors_remaining' = 0 /\ SchedulePioCompletion
      \/ NextBlock(sectors_remaining - 1)
  BY DEF WriteData, Transfer
<1>3. CASE UNCHANGED <<status, irq, pending, transfer_kind, sectors_remaining>>
  BY <1>1, <1>3 DEF ViewStep, Phase, InReset, irq
<1>4. CASE sectors_remaining - 1 = 0 /\ sectors_remaining' = 0 /\ SchedulePioCompletion
  <2>1. status' = Busy /\ irq_pending' = FALSE /\ "soft_reset" \notin pending'
    BY <1>1, <1>4, PhaseInDataPhase DEF SchedulePioCompletion, SetIdeIrq
  <2>2. Phase' = "busy" /\ Phase = "data"
    BY <1>1, <2>1, PhaseInDataPhase DEF Phase, InReset, DmaKinds
  <2> QED BY <1>1, <1>4, <2>1, <2>2 DEF ViewStep, View!Next, View!DrainBlock
<1>5. CASE NextBlock(sectors_remaining - 1)
  BY <1>1, <1>5, NextBlockSeen DEF ViewStep, View!Next, PioKinds
<1> QED BY <1>2, <1>3, <1>4, <1>5

\* A command starts work, or is refused by way of a busy phase.
LEMMA WriteCommandSeen ==
  ASSUME Inv, NEW c \in Commands, WriteCommand(c)
  PROVE  View!Issue
<1>0. c \in AllCommands /\ ~InReset /\ UNCHANGED soft_reset_asserted
  BY GuestAssumption DEF WriteCommand
<1>1. \/ StartIdentify
      \/ \E kind \in PioKinds, raise \in BOOLEAN : StartTransfer(kind) /\ SchedulePioData(raise)
      \/ \E kind \in DmaKinds : StartDma(kind) /\ InRange(selected_lba)
      \/ \E err, update, count : ScheduleNondata(transfer_lba, err, update, count)
  BY <1>0 DEF WriteCommand, StartRead, StartWrite, StartDma, RejectCommand, SetMultipleMode,
              PioKinds, DmaKinds, AllCommands
<1>2. RequestedSectors \in 1 .. CountMod
  BY SizesAssumption DEF RequestedSectors, Inv, TypeOK
<1>3. "soft_reset" \notin pending /\ ~soft_reset_asserted /\ Phase # "reset"
  BY <1>0 DEF InReset, Phase
<1>4. CASE /\ status' = Busy /\ irq_pending' = FALSE /\ "soft_reset" \notin pending'
           /\ sectors_remaining' \in 0 .. CountMod
  <2>1. Phase' = "busy"
    BY <1>0, <1>3, <1>4 DEF Phase, InReset
  <2> QED BY <1>0, <1>3, <1>4, <2>1 DEF View!Issue
<1>5. CASE StartIdentify
  <2>1. 1 \in 0 .. CountMod
    BY SizesAssumption
  <2> QED BY <1>3, <1>4, <1>5, <2>1 DEF StartIdentify, Transfer, SchedulePioData, SetIdeIrq
<1>6. CASE \E kind \in PioKinds, raise \in BOOLEAN : StartTransfer(kind) /\ SchedulePioData(raise)
  <2>1. RequestedSectors \in 0 .. CountMod
    BY <1>2, SizesAssumption
  <2> QED BY <1>3, <1>4, <1>6, <2>1 DEF StartTransfer, Transfer, SchedulePioData, SetIdeIrq
<1>7. CASE \E kind \in DmaKinds : StartDma(kind) /\ InRange(selected_lba)
  <2>1. /\ status' = Drq /\ irq_pending' = FALSE /\ "soft_reset" \notin pending'
        /\ transfer_kind' \in DmaKinds /\ sectors_remaining' = RequestedSectors
    BY <1>3, <1>7 DEF StartDma, StartTransfer, Transfer, SetIdeIrq, ArmDma
  <2>2. Phase' = "dma"
    BY <1>0, <1>3, <2>1 DEF Phase, InReset
  <2> QED BY <1>0, <1>2, <1>3, <2>1, <2>2 DEF View!Issue
<1>8. CASE \E err, update, count : ScheduleNondata(transfer_lba, err, update, count)
  <2>1. 0 \in 0 .. CountMod
    BY SizesAssumption
  <2> QED BY <1>3, <1>4, <1>8, <2>1 DEF ScheduleNondata, Transfer, SetIdeIrq
<1> QED BY <1>1, <1>5, <1>6, <1>7, <1>8

LEMMA DeviceControlSeen ==
  ASSUME Inv, NEW control \in SUBSET {"nIEN", "SRST"}, WriteDeviceControl(control)
  PROVE  ViewStep
<1>1. soft_reset_asserted <=> "SRST" \in device_control
  BY DEF Inv, BusyMatchesPending
<1>2. soft_reset_asserted \in BOOLEAN /\ irq_pending \in BOOLEAN
  BY DEF Inv, TypeOK
<1>3. CASE AssertSoftReset(control)
  <2>1. /\ soft_reset_asserted' = TRUE /\ sectors_remaining' = 0 /\ irq_pending' = FALSE
        /\ status' = Busy
    BY <1>3 DEF AssertSoftReset, CancelTransfer, Transfer, SetIdeIrq
  <2>2. Phase' = "reset"
    BY <2>1 DEF Phase, InReset
  <2> QED BY <2>1, <2>2 DEF ViewStep, View!Next, View!HoldReset
<1>4. CASE /\ SetIdeIrq(FALSE, control)
           /\ UNCHANGED <<status, transfer, pending, pio_ready_irq, soft_reset_asserted, completion>>
  <2>1. irq_pending' = FALSE /\ UNCHANGED <<Phase, soft_reset_asserted, sectors_remaining, status>>
    BY <1>4 DEF SetIdeIrq, Phase, InReset, transfer
  <2> QED BY <2>1 DEF ViewStep, View!Next, View!Acknowledge
<1>5. CASE "SRST" \in device_control /\ ReleaseSoftReset(control)
  <2>1. soft_reset_asserted /\ Phase = "reset" /\ irq_pending = FALSE /\ status = Busy
    BY <1>1, <1>2, <1>5 DEF InReset, Phase, Inv, ResetIsQuiet
  <2>2. /\ soft_reset_asserted' = FALSE /\ "soft_reset" \in pending' /\ irq_pending' = FALSE
        /\ status' = Busy /\ UNCHANGED sectors_remaining
    BY <1>5 DEF ReleaseSoftReset, SetIdeIrq, transfer
  <2>3. Phase' = "reset"
    BY <2>2 DEF Phase, InReset
  <2> QED BY <2>1, <2>2, <2>3 DEF ViewStep, View!Next, View!ReleaseReset
<1>6. CASE /\ SetIdeIrq(irq_pending, control)
           /\ UNCHANGED <<status, transfer, pending, pio_ready_irq, soft_reset_asserted, completion>>
  BY <1>6 DEF SetIdeIrq, Phase, InReset, transfer, ViewStep
<1> QED BY <1>3, <1>4, <1>5, <1>6 DEF WriteDeviceControl

LEMMA GuestSeen ==
  ASSUME Inv, IdentifyIsOneBlock, GuestAccess
  PROVE  ViewStep
<1>1. CASE AcknowledgeIrq
  <2>1. irq_pending' = FALSE /\ UNCHANGED <<Phase, soft_reset_asserted, sectors_remaining, status>>
    BY <1>1 DEF AcknowledgeIrq, SetIdeIrq, Phase, InReset, transfer
  <2> QED BY <2>1 DEF ViewStep, View!Next, View!Acknowledge
<1>2. CASE \E n \in {1, 2} : ReadData(n) \/ WriteData(n)
  BY <1>2, ReadDataSeen, WriteDataSeen
<1>3. CASE \E c \in Commands : WriteCommand(c)
  BY <1>3, WriteCommandSeen DEF ViewStep, View!Next
<1>4. CASE \E control \in SUBSET {"nIEN", "SRST"} : WriteDeviceControl(control)
  BY <1>4, DeviceControlSeen
<1>5. CASE WriteFeatures \/ (\E count \in 0 .. CountMod - 1 : WriteSectorCount(count))
           \/ (\E value \in 0 .. LaneSize - 1 : WriteLba(value))
           \/ (\E nibble \in 0 .. DeviceLanes - 1 : WriteDevice(nibble))
  <2>1. TaskfileWrite
    BY <1>5 DEF WriteFeatures, WriteSectorCount, WriteLba, WriteDevice
  <2> QED BY <2>1 DEF TaskfileWrite, Phase, InReset, transfer, irq, ViewStep
<1>6. CASE (\E enable \in BOOLEAN : WriteDmaControl(enable)) \/ WriteDmaStatus(0)
           \/ \E length \in DmaLengths : WriteDmaLength(length)
  <2>1. DmaRegisterWrite /\ ("soft_reset" \in pending <=> "soft_reset" \in pending')
    BY <1>6 DEF WriteDmaControl, WriteDmaStatus, WriteDmaLength, ArmDma
  <2> QED BY <2>1 DEF DmaRegisterWrite, Phase, InReset, transfer, irq, ViewStep
<1> QED BY <1>1, <1>2, <1>3, <1>4, <1>5, <1>6 DEF GuestAccess

\* A busy drive turns to a data block or to the end of its command.
LEMMA BusyTickSeen ==
  ASSUME Inv, TickNondata \/ TickPioCompletion \/ TickPioData, UNCHANGED soft_reset_asserted
  PROVE  View!LeaveBusy
<1>1. /\ Phase = "busy" /\ status = Busy /\ "soft_reset" \notin pending
      /\ ~soft_reset_asserted /\ ~soft_reset_asserted'
  BY PhaseWhileBusy DEF TickNondata, TickPioCompletion, TickPioData
<1>2. CASE TickNondata
  <2>1. /\ status' \in {Ready, Failed} /\ irq_pending' = TRUE /\ sectors_remaining' = 0
        /\ "soft_reset" \notin pending'
    BY <1>1, <1>2 DEF TickNondata, Transfer, SetIdeIrq
  <2>2. Phase' = "idle"
    BY <1>1, <2>1 DEF Phase, InReset
  <2> QED BY <1>1, <2>1, <2>2 DEF View!LeaveBusy
<1>3. CASE TickPioCompletion
  <2>1. /\ status' = Ready /\ irq_pending' = TRUE /\ sectors_remaining' = 0
        /\ "soft_reset" \notin pending'
    BY <1>1, <1>3 DEF TickPioCompletion, FinishTransfer, Transfer, SetIdeIrq
  <2>2. Phase' = "idle"
    BY <1>1, <2>1 DEF Phase, InReset
  <2> QED BY <1>1, <2>1, <2>2 DEF View!LeaveBusy
<1>4. CASE TickPioData
  <2>1. /\ status' = Drq /\ irq_pending' \in BOOLEAN /\ "soft_reset" \notin pending'
        /\ UNCHANGED <<transfer_kind, sectors_remaining>>
    BY <1>1, <1>4 DEF TickPioData, SetIdeIrq, transfer, Inv, TypeOK
  <2>2. sectors_remaining > 0 /\ transfer_kind \notin DmaKinds
    BY <1>4 DEF TickPioData, Inv, CourseOfTransfer, PioKinds, DmaKinds
  <2>3. Phase' = "data"
    BY <1>1, <2>1, <2>2 DEF Phase, InReset
  <2> QED BY <1>1, <2>1, <2>2, <2>3 DEF View!LeaveBusy
<1> QED BY <1>2, <1>3, <1>4

LEMMA TickDmaSeen ==
  ASSUME Inv, TickDma, UNCHANGED soft_reset_asserted
  PROVE  View!DmaSegment
<1>1. transfer_kind \in DmaKinds /\ status = Drq
  BY DEF TickDma, Inv, CourseOfTransfer
<1>2. /\ Phase = "dma" /\ "soft_reset" \notin pending
      /\ ~soft_reset_asserted /\ ~soft_reset_asserted'
  BY <1>1, PhaseInDataPhase
<1>3. CASE \E lba, err : ScheduleNondata(lba, err, FALSE, 0)
  <2>1. /\ status' = Busy /\ irq_pending' = FALSE /\ sectors_remaining' = 0
        /\ "soft_reset" \notin pending'
    BY <1>2, <1>3 DEF ScheduleNondata, Transfer, SetIdeIrq
  <2>2. Phase' = "busy"
    BY <1>2, <2>1 DEF Phase, InReset
  <2> QED BY <1>1, <1>2, <2>1, <2>2 DEF View!DmaSegment
<1>4. CASE \E lba : FinishTransfer(lba, TRUE, {})
  <2>1. /\ status' = Ready /\ irq_pending' = TRUE /\ sectors_remaining' = 0
        /\ "soft_reset" \notin pending'
    BY <1>2, <1>4 DEF FinishTransfer, Transfer, SetIdeIrq
  <2>2. Phase' = "idle"
    BY <1>2, <2>1 DEF Phase, InReset
  <2> QED BY <1>1, <1>2, <2>1, <2>2 DEF View!DmaSegment
<1>5. CASE /\ sectors_remaining' \in 1 .. sectors_remaining
           /\ transfer_kind' = transfer_kind /\ pending' = pending \ {"dma"}
           /\ UNCHANGED <<status, irq>>
  <2>1. Phase' = "dma"
    BY <1>1, <1>2, <1>5 DEF Phase, InReset
  <2> QED BY <1>1, <1>2, <1>5, <2>1 DEF View!DmaSegment, irq
<1>6. CASE RefuseSegment
  BY <1>3, <1>6 DEF RefuseSegment
<1>7. CASE MoveSegment
  <2> DEFINE done == SegmentSectors
             left == IF done >= sectors_remaining THEN 0 ELSE sectors_remaining - done
  <2>1. SegmentBytes > 0 /\ SegmentBytes \in Nat /\ data_index \in Nat /\ sectors_remaining \in Nat
    BY <1>1, <1>7, SegmentTypes, DataPhaseFacts DEF MoveSegment
  <2>2. SegmentSectors \in Nat
    BY <2>1, DivMod, SizesAssumption DEF SegmentSectors
  <2>3. left > 0 => left \in 1 .. sectors_remaining
    BY <2>1, <2>2
  <2>4. \/ \E lba, err : ScheduleNondata(lba, err, FALSE, 0)
        \/ \E lba : FinishTransfer(lba, TRUE, {})
        \/ /\ left > 0 /\ sectors_remaining' = left /\ transfer_kind' = transfer_kind
           /\ pending' = pending \ {"dma"} /\ UNCHANGED <<status, irq>>
    BY <1>7 DEF MoveSegment, Transfer
  <2> QED BY <1>3, <1>4, <1>5, <2>3, <2>4
<1> QED BY <1>6, <1>7 DEF TickDma

LEMMA DiskTickSeen ==
  ASSUME Inv, DiskTick
  PROVE  ViewStep
<1>1. ~soft_reset_asserted /\ UNCHANGED soft_reset_asserted
  BY DEF DiskTick
<1>2. CASE TickReset
  <2>1. /\ Phase = "reset" /\ status' = Ready /\ irq_pending' = FALSE
        /\ sectors_remaining' = 0 /\ pending' = {}
    BY <1>1, <1>2 DEF TickReset, CancelTransfer, Transfer, SetIdeIrq, Phase, InReset
  <2>2. Phase' = "idle"
    BY <1>1, <2>1 DEF Phase, InReset
  <2> QED BY <1>1, <2>1, <2>2 DEF ViewStep, View!Next, View!EndReset
<1>3. CASE TickNondata \/ TickPioCompletion \/ TickPioData
  BY <1>1, <1>3, BusyTickSeen DEF ViewStep, View!Next
<1>4. CASE TickDma
  BY <1>1, <1>4, TickDmaSeen DEF ViewStep, View!Next
<1> QED BY <1>2, <1>3, <1>4 DEF DiskTick

LEMMA OneBlockStep ==
  ASSUME Inv, IdentifyIsOneBlock, [Next]_vars
  PROVE  IdentifyIsOneBlock'
<1> SUFFICES ASSUME transfer_kind' = "IDENTIFY"
             PROVE  sectors_remaining' = 1
  BY DEF IdentifyIsOneBlock
<1>0. CASE UNCHANGED <<transfer_kind, sectors_remaining>>
  BY <1>0 DEF IdentifyIsOneBlock
<1>1. CASE \E n \in {1, 2} : ReadData(n) \/ WriteData(n)
  <2>1. transfer_kind' # transfer_kind => transfer_kind' \in {"none", "WRITE"}
    BY <1>1 DEF ReadData, WriteData, NextBlock, FinishTransfer, ScheduleNondata, Transfer
  <2>2. transfer_kind = "IDENTIFY"
    BY <2>1
  <2>3. UNCHANGED sectors_remaining
    BY <1>1, <2>2 DEF ReadData, WriteData, FinishTransfer, Transfer
  <2> QED BY <2>2, <2>3 DEF IdentifyIsOneBlock
<1>2. CASE \E c \in Commands : WriteCommand(c)
  <2>1. PICK c \in Commands : WriteCommand(c)
    BY <1>2
  <2>2. c = "IDENTIFY"
    BY <2>1, GuestAssumption
       DEF WriteCommand, StartRead, StartWrite, StartDma, RejectCommand, SetMultipleMode,
           StartTransfer, ScheduleNondata, Transfer, AllCommands
  <2> QED BY <2>1, <2>2 DEF WriteCommand, StartIdentify, Transfer
<1>3. CASE \E control \in SUBSET {"nIEN", "SRST"} : WriteDeviceControl(control)
  BY <1>0, <1>3 DEF WriteDeviceControl, AssertSoftReset, ReleaseSoftReset, CancelTransfer,
                    Transfer, transfer
<1>4. CASE AcknowledgeIrq \/ TaskfileWrite \/ DmaRegisterWrite
  BY <1>0, <1>4 DEF AcknowledgeIrq, TaskfileWrite, DmaRegisterWrite, transfer
<1>5. CASE DiskTick
  BY <1>0, <1>5 DEF DiskTick, TickReset, TickNondata, TickPioCompletion, TickPioData, TickDma,
                    RefuseSegment, MoveSegment, CancelTransfer, FinishTransfer,
                    ScheduleNondata, Transfer, transfer, DmaKinds
<1>6. CASE UNCHANGED vars
  BY <1>0, <1>6 DEF vars, transfer
<1> QED
  BY <1>1, <1>2, <1>3, <1>4, <1>5, <1>6
     DEF Next, GuestAccess, WriteFeatures, WriteSectorCount, WriteLba, WriteDevice,
         WriteDmaControl, WriteDmaStatus, WriteDmaLength

LEMMA OneBlock == Spec => []IdentifyIsOneBlock
<1>1. Init => IdentifyIsOneBlock
  BY DEF Init, IdentifyIsOneBlock
<1> QED BY <1>1, OneBlockStep, Invariance, PTL DEF Spec

\* Every step of the registers is a step of the protocol a driver relies on, or
\* one it does not see: the drive never leaves a phase, moves work or requests an
\* interrupt otherwise than AtaDriverView says.
THEOREM ProtocolCorrect == Spec => View!Protocol
<1>1. Init => View!Init
  BY DEF Init, View!Init, Phase, InReset
<1>2. Inv /\ IdentifyIsOneBlock /\ [Next]_vars => [View!Next]_(View!driverVars)
  <2> SUFFICES ASSUME Inv, IdentifyIsOneBlock, [Next]_vars
               PROVE  [View!Next]_(View!driverVars)
    OBVIOUS
  <2>1. CASE UNCHANGED vars
    BY <2>1 DEF vars, View!driverVars, Phase, InReset, irq, transfer
  <2>2. CASE Next
    BY <2>2, GuestSeen, DiskTickSeen DEF Next, ViewStep, View!driverVars
  <2> QED BY <2>1, <2>2
<1> QED BY <1>1, <1>2, Invariance, OneBlock, PTL DEF Spec, View!Protocol
=============================================================================
