--------------------------- MODULE LifecycleProofs ---------------------------
(***************************************************************************)
(* Proofs about Lifecycle, for all values of its constants.                *)
(***************************************************************************)
EXTENDS Lifecycle, TLAPS

(***************************************************************************)
(* The inductive invariant.                                                *)
(***************************************************************************)

\* Every save on the way to a restart knows what to restart.
RestartNamed ==
  /\ pc = "reinit" => purpose # "exit"
  /\ pc \notin {"off", "loop", "hold"} /\ purpose # "exit"
       => wanted \in Presets \cup {Same}

\* An image was owned by a session with an output, or was never there.
Owned(i) == i.origin \in SeedPaths \cup {"missing", "torn"}

\* Only the session's own image can reach the output.
OnlyOwnImageSaved ==
  /\ \A p \in Paths \ {OutPath} : file[p].origin \in {p, "missing", "torn"}
  /\ opts.out => opts.seed \in SeedPaths \cup {OutPath}
  /\ DiskOutputActive(opts) => Owned(image)
  /\ pc = "disk_write" => DiskOutputActive(opts)

\* What is about to be renamed is whole.
TempWhole == pc = "pcf_rename" => pcf_file.tmp = pcf

IInv == TypeOK /\ RestartNamed /\ OnlyOwnImageSaved /\ OutputOwned /\ TempWhole /\ PcfFileWhole

(***************************************************************************)
(* The options a restart computes are options, and the output and the seed *)
(* of the session are kept.                                                *)
(***************************************************************************)
LEMMA RestartOptions ==
  ASSUME TypeOK, wanted \in Presets \cup {Same}
  PROVE  /\ NextOptions \in Options
         /\ NextOptions.out = opts.out /\ NextOptions.seed = opts.seed
  <1>1. CASE wanted = Same
    BY <1>1 DEF NextOptions, TypeOK
  <1>2. CASE wanted # Same
    <2>1. wanted \in Presets /\ DefaultDisk[wanted] \in Paths
      BY <1>2, LifecycleAssumption
    <2>2. NextOptions = MakeRestartOpts(opts, wanted)
      BY <1>2 DEF NextOptions
    <2>3. PICK d \in Paths :
            MakeRestartOpts(opts, wanted) = [opts EXCEPT !.label = wanted, !.disk = d]
      BY <2>1, LifecycleAssumption DEF MakeRestartOpts
    <2> QED BY <2>1, <2>2, <2>3 DEF TypeOK, Options
  <1> QED BY <1>1, <1>2

LEMMA InitIInv == Init => IInv
  <1> SUFFICES ASSUME Init PROVE IInv
    OBVIOUS
  <1> USE LifecycleAssumption
  <1>0. NoOptions \in Options /\ NoOptions.out = FALSE
    BY DEF NoOptions, Options
  <1>1. Missing \in Images /\ \A p \in Paths : [origin |-> p, writes |-> {}] \in Images
    BY DEF Missing, Images
  <1>n. MaxWrites \in Nat /\ MaxPrograms \in Nat /\ MaxLaunches \in Nat /\ MaxFailures \in Nat
    OBVIOUS
  <1>2. TypeOK
    <2>1. file \in [Paths -> Images] /\ image \in Images
      BY <1>1 DEF Init
    <2>2. pcf \in Blank .. MaxPrograms
          /\ pcf_file \in [main : TornPcf .. MaxPrograms, tmp : TornPcf .. MaxPrograms]
      BY <1>n DEF Init, Blank, NoPcf, TornPcf
    <2>3. written \in 0 .. MaxWrites /\ launched \in 0 .. MaxLaunches
          /\ failed \in 0 .. MaxFailures /\ made \subseteq 0 .. MaxWrites - 1
      BY <1>n DEF Init
    <2> QED BY <1>0, <2>1, <2>2, <2>3 DEF Init, TypeOK
  <1>3. OnlyOwnImageSaved /\ OutputOwned
    BY <1>0 DEF Init, OnlyOwnImageSaved, OutputOwned, DiskOutputActive, Missing
  <1>4. RestartNamed /\ TempWhole /\ PcfFileWhole
    BY DEF Init, RestartNamed, TempWhole, PcfFileWhole, NoPcf, TornPcf
  <1> QED BY <1>2, <1>3, <1>4 DEF IInv

(***************************************************************************)
(* Every step preserves it.                                                *)
(***************************************************************************)
LEMMA LaunchIInv ==
  ASSUME IInv, NEW l \in Launches, Launch(l)
  PROVE  IInv'
  <1> USE LifecycleAssumption DEF IInv
  <1>1. l.label \in Presets /\ l.disk \in Paths /\ l.out \in BOOLEAN
    OBVIOUS
  <1>2. opts' \in Options /\ image' \in Images
    BY <1>1 DEF Launch, Options, TypeOK
  <1>3. made' \subseteq 0 .. MaxWrites - 1
    BY <1>2 DEF Launch, Images
  <1>4. pcf' \in Blank .. MaxPrograms
    BY DEF Launch, TypeOK, NoPcf, Blank, TornPcf
  <1>n. MaxLaunches \in Nat
    OBVIOUS
  <1>5. TypeOK'
    <2>1. launched' \in 0 .. MaxLaunches
      BY <1>n DEF Launch, TypeOK
    <2>2. UNCHANGED <<file, pcf_file, written, failed>>
      BY DEF Launch
    <2> QED BY <1>2, <1>3, <1>4, <2>1, <2>2 DEF Launch, TypeOK
  <1>6. OnlyOwnImageSaved' /\ OutputOwned'
    <2>1. l.out => l.disk \in SeedPaths \cup {OutPath}
      BY <1>1 DEF SeedPaths
    <2>2. l.out => Owned(file[l.disk])
      BY <2>1 DEF OnlyOwnImageSaved, OutputOwned, Owned, TypeOK, SeedPaths
    <2> QED BY <2>1, <2>2 DEF Launch, OnlyOwnImageSaved, OutputOwned, DiskOutputActive, Owned
  <1>7. RestartNamed' /\ TempWhole' /\ PcfFileWhole'
    BY DEF Launch, RestartNamed, TempWhole, PcfFileWhole
  <1> QED BY <1>5, <1>6, <1>7

LEMMA RunningIInv ==
  ASSUME IInv,
         GuestWrite \/ GuestProgramsPcf \/ StopSignal \/ WebRestart \/ WakeRestart
         \/ LeaveLoop \/ HoldRestart \/ LeaveHold \/ Crash
  PROVE  IInv'
  <1> USE LifecycleAssumption DEF IInv, machine, history, bounds
  <1>1. CASE GuestWrite
    <2>1. image'.writes \subseteq 0 .. MaxWrites - 1 /\ image'.origin = image.origin
          /\ image' \in Images
      BY <1>1 DEF GuestWrite, TypeOK, Images
    <2>2. TypeOK'
      BY <1>1, <2>1 DEF GuestWrite, TypeOK
    <2>3. OnlyOwnImageSaved' /\ OutputOwned'
      BY <1>1, <2>1 DEF GuestWrite, OnlyOwnImageSaved, OutputOwned, Owned, DiskOutputActive
    <2>4. RestartNamed' /\ TempWhole' /\ PcfFileWhole'
      BY <1>1 DEF GuestWrite, RestartNamed, TempWhole, PcfFileWhole
    <2> QED BY <2>2, <2>3, <2>4
  <1>2. CASE GuestProgramsPcf
    BY <1>2 DEF GuestProgramsPcf, TypeOK, RestartNamed, OnlyOwnImageSaved, OutputOwned,
                Owned, DiskOutputActive, TempWhole, PcfFileWhole, Blank
  <1>3. CASE StopSignal
    BY <1>3 DEF StopSignal, TypeOK, RestartNamed, OnlyOwnImageSaved, OutputOwned,
                Owned, DiskOutputActive, TempWhole, PcfFileWhole
  <1>4. CASE WebRestart
    BY <1>4 DEF WebRestart, Requests, BeginSave, TypeOK, RestartNamed, OnlyOwnImageSaved,
                OutputOwned, Owned, DiskOutputActive, TempWhole, PcfFileWhole
  <1>5. CASE WakeRestart
    BY <1>5 DEF WakeRestart, Requests, BeginSave, TypeOK, RestartNamed, OnlyOwnImageSaved,
                OutputOwned, Owned, DiskOutputActive, TempWhole, PcfFileWhole
  <1>6. CASE LeaveLoop
    BY <1>6 DEF LeaveLoop, HoldOrExit, Requests, BeginSave, TypeOK, RestartNamed,
                OnlyOwnImageSaved, OutputOwned, Owned, DiskOutputActive, TempWhole, PcfFileWhole
  <1>7. CASE HoldRestart
    BY <1>7 DEF HoldRestart, Requests, BeginSave, TypeOK, RestartNamed, OnlyOwnImageSaved,
                OutputOwned, Owned, DiskOutputActive, TempWhole, PcfFileWhole
  <1>8. CASE LeaveHold
    BY <1>8 DEF LeaveHold, BeginSave, TypeOK, RestartNamed, OnlyOwnImageSaved,
                OutputOwned, Owned, DiskOutputActive, TempWhole, PcfFileWhole
  <1>9. CASE Crash
    BY <1>9 DEF Crash, TypeOK, RestartNamed, OnlyOwnImageSaved,
                OutputOwned, Owned, DiskOutputActive, TempWhole, PcfFileWhole
  <1> QED BY <1>1, <1>2, <1>3, <1>4, <1>5, <1>6, <1>7, <1>8, <1>9

\* What a failing operation leads to.
LEMMA CancelledLeadsTo ==
  ASSUME TypeOK, NEW stage \in {"pcf_open", "off"}, Cancelled(stage)
  PROVE  /\ pc' \in {stage, "disk_open", "hold"}
         /\ purpose' \in {"restart", "hold_restart", "exit"}
         /\ pc' = stage => purpose' = "exit"
         /\ pc' = "disk_open" => purpose' = "exit"
         /\ exit_code' = "error" /\ failed' \in 0 .. MaxFailures
  BY LifecycleAssumption DEF Cancelled, Fail, HoldOrExit, BeginSave, TypeOK

LEMMA SaveDiskIInv ==
  ASSUME IInv, OpenDisk \/ WriteDisk
  PROVE  IInv'
  <1> USE LifecycleAssumption DEF IInv
  <1>1. UNCHANGED <<opts, image, pcf, wanted, pcf_file, stop_requested,
                    restart_requested, made, rewound, written, launched>>
    BY DEF OpenDisk, WriteDisk, SavingDisk, machine, history
  <1>2. pc \in {"disk_open", "disk_write"}
    BY DEF OpenDisk, WriteDisk
  <1>3. /\ pc' \in {"pcf_open", "disk_open", "disk_write", "hold"}
        /\ purpose' \in {"restart", "hold_restart", "exit"}
        /\ purpose' # "exit" => purpose' = purpose
        /\ exit_code' \in {"clean", "error", "killed"} /\ failed' \in 0 .. MaxFailures
    <2>1. CASE Cancelled("pcf_open")
      BY <2>1, CancelledLeadsTo DEF Cancelled, HoldOrExit, BeginSave
    <2>2. CASE Continue("pcf_open") \/ Continue("disk_write")
      BY <2>2 DEF Continue, TypeOK
    <2>3. CASE exit_code' = "error" /\ pc' = "pcf_open" /\ UNCHANGED <<purpose, failed, file>>
      BY <2>3 DEF TypeOK
    <2> QED BY <2>1, <2>2, <2>3 DEF OpenDisk, WriteDisk
  <1>4. pc' = "disk_write" => DiskOutputActive(opts)
    BY CancelledLeadsTo DEF OpenDisk, WriteDisk, Continue
  <1>5. \/ UNCHANGED file
        \/ file' = [file EXCEPT ![OutPath] = Torn]
        \/ file' = [file EXCEPT ![OutPath] = image] /\ DiskOutputActive(opts)
    BY DEF OpenDisk, WriteDisk, SaveTarget, OnlyOwnImageSaved
  <1>6. file' \in [Paths -> Images]
    BY <1>5 DEF TypeOK, Torn, Images
  <1>7. TypeOK'
    BY <1>1, <1>3, <1>6 DEF TypeOK
  <1>8. OnlyOwnImageSaved' /\ OutputOwned'
    <2>1. \A p \in Paths \ {OutPath} : file'[p] = file[p]
      BY <1>5 DEF TypeOK
    <2>2. OutputOwned'
      BY <1>5 DEF TypeOK, Torn, OutputOwned, OnlyOwnImageSaved, Owned
    <2> QED BY <1>1, <1>4, <2>1, <2>2 DEF OnlyOwnImageSaved, DiskOutputActive, Owned
  <1>9. RestartNamed' /\ TempWhole' /\ PcfFileWhole'
    BY <1>1, <1>2, <1>3 DEF RestartNamed, TempWhole, PcfFileWhole
  <1> QED BY <1>7, <1>8, <1>9

LEMMA SavePcfIInv ==
  ASSUME IInv, OpenPcf \/ WritePcf \/ RenamePcf
  PROVE  IInv'
  <1> USE LifecycleAssumption DEF IInv
  <1>1. UNCHANGED <<opts, image, pcf, wanted, file, stop_requested,
                    restart_requested, made, rewound, written, launched>>
    BY DEF OpenPcf, WritePcf, RenamePcf, SavingPcf, machine, history
  <1>2. pc \in {"pcf_open", "pcf_write", "pcf_rename"}
    BY DEF OpenPcf, WritePcf, RenamePcf
  <1>3. /\ pc' \in {"off", "hold", "disk_open", "pcf_write", "pcf_rename", "reinit"}
        /\ purpose' \in {"restart", "hold_restart", "exit"}
        /\ purpose' # "exit" => purpose' = purpose
        /\ pc' = "reinit" => purpose' # "exit"
        /\ exit_code' \in {"clean", "error", "killed"} /\ failed' \in 0 .. MaxFailures
    <2>1. CASE Cancelled("off")
      BY <2>1, CancelledLeadsTo DEF Cancelled, HoldOrExit, BeginSave
    <2>2. CASE Continue("pcf_write") \/ Continue("pcf_rename") \/ Continue(AfterSaves)
      BY <2>2 DEF Continue, AfterSaves, TypeOK
    <2> QED BY <2>1, <2>2 DEF OpenPcf, WritePcf, RenamePcf
  <1>4. /\ pcf_file' \in [main : TornPcf .. MaxPrograms, tmp : TornPcf .. MaxPrograms]
        /\ pcf_file'.main \in {pcf_file.main, pcf_file.tmp}
        /\ pcf_file'.main # pcf_file.main => pc = "pcf_rename"
        /\ pc' = "pcf_rename" => pcf_file'.tmp = pcf
    <2>1. pcf \in TornPcf .. MaxPrograms /\ NoPcf \in TornPcf .. MaxPrograms
          /\ TornPcf \in TornPcf .. MaxPrograms
      BY DEF TypeOK, Blank, NoPcf, TornPcf
    <2>2. CASE OpenPcf
      BY <2>1, <2>2, CancelledLeadsTo DEF OpenPcf, PcfTarget, TypeOK, Continue
    <2>3. CASE WritePcf
      BY <2>1, <2>3, CancelledLeadsTo DEF WritePcf, PcfTarget, TypeOK, Continue
    <2>4. CASE RenamePcf
      BY <2>1, <2>4, <1>3, CancelledLeadsTo DEF RenamePcf, TypeOK, Continue, AfterSaves
    <2> QED BY <2>2, <2>3, <2>4
  <1>5. TypeOK'
    BY <1>1, <1>3, <1>4 DEF TypeOK
  <1>6. OnlyOwnImageSaved' /\ OutputOwned'
    BY <1>1, <1>3 DEF OnlyOwnImageSaved, OutputOwned, DiskOutputActive, Owned
  <1>7. RestartNamed'
    BY <1>1, <1>2, <1>3 DEF RestartNamed
  <1>8. TempWhole' /\ PcfFileWhole'
    BY <1>1, <1>4 DEF TempWhole, PcfFileWhole, TypeOK, Blank, TornPcf
  <1> QED BY <1>5, <1>6, <1>7, <1>8

LEMMA ReinitIInv ==
  ASSUME IInv, Reinit \/ ReinitFails
  PROVE  IInv'
  <1> USE LifecycleAssumption DEF IInv, history, bounds
  <1>1. wanted \in Presets \cup {Same}
    BY DEF Reinit, ReinitFails, RestartNamed
  <1>2. /\ opts' = NextOptions /\ NextOptions \in Options
        /\ opts'.out = opts.out /\ opts'.seed = opts.seed
    BY <1>1, RestartOptions DEF Reinit, ReinitFails
  <1>3. image' \in Images /\ (image' = file[opts'.disk] \/ image' = Missing)
    BY <1>2 DEF Reinit, ReinitFails, TypeOK, Options, Missing, Images
  <1>4. pcf' \in Blank .. MaxPrograms
    BY DEF Reinit, ReinitFails, RestoredPcf, TypeOK, Blank
  <1>5. /\ pc' \in {"loop", "disk_open", "off"} /\ exit_code' \in {exit_code, "error"}
        /\ purpose' \in {purpose, "exit"} /\ (pc' = "disk_open" => purpose' = "exit")
        /\ wanted' = None /\ rewound' \in BOOLEAN
        /\ UNCHANGED <<file, pcf_file, stop_requested, restart_requested, made,
                        written, launched, failed>>
    BY DEF Reinit, ReinitFails, BeginSave, TypeOK
  <1>6. TypeOK'
    BY <1>2, <1>3, <1>4, <1>5 DEF TypeOK
  <1>7. OnlyOwnImageSaved' /\ OutputOwned'
    <2>1. DiskOutputActive(opts') => Owned(image')
      <3> SUFFICES ASSUME DiskOutputActive(opts') PROVE Owned(image')
        OBVIOUS
      <3>1. opts'.disk \in {opts'.seed, OutPath} /\ opts'.seed \in SeedPaths \cup {OutPath}
            /\ opts'.disk \in Paths
        BY <1>2 DEF DiskOutputActive, OnlyOwnImageSaved, Options
      <3>2. Owned(file[opts'.disk])
        BY <3>1 DEF OnlyOwnImageSaved, OutputOwned, Owned, SeedPaths
      <3> QED BY <1>3, <3>2 DEF Owned, Missing
    <2> QED BY <1>2, <1>5, <2>1 DEF OnlyOwnImageSaved, OutputOwned
  <1>8. RestartNamed' /\ TempWhole' /\ PcfFileWhole'
    BY <1>5 DEF RestartNamed, TempWhole, PcfFileWhole
  <1> QED BY <1>6, <1>7, <1>8

LEMMA StepIInv == IInv /\ [Next]_vars => IInv'
  <1> SUFFICES ASSUME IInv, [Next]_vars PROVE IInv'
    OBVIOUS
  <1>1. CASE \E l \in Launches : Launch(l)
    BY <1>1, LaunchIInv
  <1>2. CASE GuestWrite \/ GuestProgramsPcf \/ StopSignal \/ WebRestart \/ WakeRestart
             \/ LeaveLoop \/ HoldRestart \/ LeaveHold \/ Crash
    BY <1>2, RunningIInv
  <1>3. CASE OpenDisk \/ WriteDisk
    BY <1>3, SaveDiskIInv
  <1>4. CASE OpenPcf \/ WritePcf \/ RenamePcf
    BY <1>4, SavePcfIInv
  <1>5. CASE Reinit \/ ReinitFails
    BY <1>5, ReinitIInv
  <1>6. CASE UNCHANGED vars
    BY <1>6 DEF vars, machine, history, bounds, IInv, TypeOK, RestartNamed, OnlyOwnImageSaved,
                Owned, DiskOutputActive, OutputOwned, TempWhole, PcfFileWhole
  <1> QED BY <1>1, <1>2, <1>3, <1>4, <1>5, <1>6 DEF Next, Process

THEOREM Invariance == Spec => []IInv
  BY InitIInv, StepIInv, PTL DEF Spec

(***************************************************************************)
(* The theorems.                                                           *)
(***************************************************************************)

\* Every variable keeps its type through restarts, failures and crashes.
THEOREM TypeCorrect == Spec => []TypeOK
  BY Invariance, PTL DEF IInv

\* The output never holds an image that no session with an output owned.
THEOREM OutputCorrect == Spec => []OutputOwned
  BY Invariance, PTL DEF IInv

\* The PCF state file is whole whatever fails, and whenever the process dies.
THEOREM PcfFileCorrect == Spec => []PcfFileWhole
  BY Invariance, PTL DEF IInv

\* No image but the output is ever written.
LEMMA StepSourceUntouched ==
  IInv /\ [Next]_vars => [\A p \in Paths \ {OutPath} : file'[p] = file[p]]_vars
  <1> SUFFICES ASSUME IInv, Next PROVE \A p \in Paths \ {OutPath} : file'[p] = file[p]
    OBVIOUS
  <1>1. CASE OpenDisk \/ WriteDisk
    BY <1>1, LifecycleAssumption DEF OpenDisk, WriteDisk, SaveTarget, IInv, TypeOK
  <1>2. CASE ~(OpenDisk \/ WriteDisk)
    <2>1. UNCHANGED file
      BY <1>2 DEF Next, Process, Launch, GuestWrite, GuestProgramsPcf, StopSignal, WebRestart,
                  WakeRestart, LeaveLoop, HoldRestart, LeaveHold, Crash, OpenPcf, WritePcf,
                  RenamePcf, SavingPcf, Reinit, ReinitFails
    <2> QED BY <2>1
  <1> QED BY <1>1, <1>2

THEOREM SourceCorrect == Spec => SourceUntouched
  BY Invariance, StepSourceUntouched, PTL DEF Spec, SourceUntouched

(***************************************************************************)
(* No write and no programmed register is forgotten.                       *)
(***************************************************************************)

\* A machine without an image is one whose initialisation failed, and the
\* process is on its way out.
MachineThere ==
  image = Missing /\ pc # "off" =>
    purpose = "exit" /\ exit_code = "error" /\ pc \notin {"loop", "hold", "reinit"}

\* The output holds what the session's disk is owed.
Saved == made \subseteq file[OutPath].writes

\* Past the save of the image on the way to a restart or to a clean exit.
ImageDealtWith ==
  /\ pc \in {"pcf_open", "pcf_write", "pcf_rename", "reinit"}
  /\ purpose # "exit" \/ exit_code = "clean"

\* What the session's disk is owed is in the drive while that disk is, and in the
\* output while another one is, or once the image has been saved.
WritesKept ==
  /\ ~rewound /\ pc # "off" =>
       /\ SessionDisk /\ image # Missing => made \subseteq image.writes
       /\ opts.out /\ (~SessionDisk \/ ImageDealtWith) => Saved
  /\ WritesSaved

\* The registers in the machine are never behind the ones on the host.
PcfAhead == image # Missing /\ pc # "off" => pcf_file.main <= pcf

KInv == MachineThere /\ WritesKept /\ PcfAhead

LEMMA InitKInv == Init => KInv
  BY DEF Init, KInv, MachineThere, WritesKept, WritesSaved, CleanExitSaves, PcfAhead, NoOptions

\* Saves are for the disk of the session.
LEMMA SavedDiskIsSessionDisk == DiskOutputActive(opts) <=> SessionDisk
  BY DEF DiskOutputActive, SessionDisk

LEMMA LaunchKInv ==
  ASSUME IInv, KInv, NEW l \in Launches, Launch(l)
  PROVE  KInv'
  <1>1. image' # Missing /\ made' = image'.writes /\ pc' = "loop"
    BY DEF Launch
  <1>2. opts'.out => SessionDisk'
    BY DEF Launch, SessionDisk
  <1>3. pcf_file'.main <= pcf'
    BY DEF Launch, IInv, TypeOK, TornPcf, NoPcf
  <1>4. WritesKept'
    BY <1>1, <1>2 DEF WritesKept, WritesSaved, CleanExitSaves, ImageDealtWith
  <1> QED BY <1>1, <1>3, <1>4 DEF KInv, MachineThere, PcfAhead

LEMMA RunningKInv ==
  ASSUME IInv, KInv,
         GuestWrite \/ GuestProgramsPcf \/ StopSignal \/ WebRestart \/ WakeRestart
         \/ LeaveLoop \/ HoldRestart \/ LeaveHold \/ Crash
  PROVE  KInv'
  <1> USE DEF KInv, machine, history, bounds
  <1>1. CASE GuestWrite
    <2>1. image # Missing /\ image' = [image EXCEPT !.writes = @ \cup {written}]
      BY <1>1 DEF GuestWrite, MachineThere
    <2>2. image.writes \cup {written} # {} /\ image'.writes = image.writes \cup {written}
      BY <2>1 DEF IInv, TypeOK, Images
    <2>3. image' # Missing
      BY <2>2 DEF Missing
    <2>4. MachineThere' /\ PcfAhead'
      BY <1>1, <2>1, <2>3 DEF GuestWrite, MachineThere, PcfAhead
    <2>5. WritesKept'
      BY <1>1, <2>1, <2>2 DEF GuestWrite, WritesKept, WritesSaved, CleanExitSaves, SessionDisk,
                              ImageDealtWith, Saved
    <2> QED BY <2>4, <2>5
  <1>2. CASE GuestProgramsPcf
    <2>1. PcfAhead'
      BY <1>2 DEF GuestProgramsPcf, PcfAhead, IInv, TypeOK, TornPcf, Blank
    <2>2. MachineThere' /\ WritesKept'
      BY <1>2 DEF GuestProgramsPcf, MachineThere, WritesKept, WritesSaved, CleanExitSaves,
                  SessionDisk, ImageDealtWith, Saved
    <2> QED BY <2>1, <2>2
  <1>3. CASE StopSignal \/ WebRestart \/ WakeRestart \/ LeaveLoop \/ HoldRestart \/ LeaveHold
    <2>1. /\ UNCHANGED <<opts, image, pcf, file, pcf_file, exit_code, made, rewound>>
          /\ pc # "off"
          /\ \/ pc' = pc /\ purpose' = purpose
             \/ pc \in {"loop", "hold"} /\ pc' \in {"hold", "disk_open"}
      BY <1>3 DEF StopSignal, WebRestart, WakeRestart, LeaveLoop, HoldOrExit, HoldRestart,
                  LeaveHold, BeginSave
    <2> QED BY <2>1 DEF MachineThere, WritesKept, WritesSaved, CleanExitSaves, SessionDisk,
                        ImageDealtWith, Saved, PcfAhead
  <1>4. CASE Crash
    BY <1>4 DEF Crash, MachineThere, WritesKept, WritesSaved, CleanExitSaves, PcfAhead
  <1> QED BY <1>1, <1>2, <1>3, <1>4

\* A failed operation of a save that matters is remembered by the exit code.
LEMMA CancelledIsNoSuccess ==
  ASSUME IInv, NEW stage \in {"pcf_open", "off"}, Cancelled(stage)
  PROVE  /\ exit_code' = "error" /\ pc' \in {stage, "disk_open", "hold"}
         /\ pc' = stage => purpose = "exit" /\ purpose' = "exit"
         /\ purpose = "exit" => pc' = stage /\ purpose' = "exit"
         /\ pc' = "disk_open" => purpose' = "exit"
  BY DEF Cancelled, Fail, HoldOrExit, BeginSave

LEMMA SaveDiskKInv ==
  ASSUME IInv, KInv, OpenDisk \/ WriteDisk
  PROVE  KInv'
  <1> USE DEF KInv
  <1>1. UNCHANGED <<opts, image, pcf, pcf_file, made, rewound>>
    BY DEF OpenDisk, WriteDisk, SavingDisk, machine, history
  <1>2. pc \in {"disk_open", "disk_write"} /\ pc' \in {"disk_open", "disk_write", "pcf_open", "hold"}
    BY CancelledIsNoSuccess DEF OpenDisk, WriteDisk, Continue
  <1>3. PcfAhead'
    BY <1>1, <1>2 DEF PcfAhead
  <1>4. MachineThere'
    <2>1. SUFFICES ASSUME image = Missing, purpose = "exit" /\ exit_code = "error"
                   PROVE  purpose' = "exit" /\ exit_code' = "error" /\ pc' \notin {"loop", "hold", "reinit"}
      BY <1>1, <1>2 DEF MachineThere
    <2> QED BY <1>2, <2>1, CancelledIsNoSuccess DEF OpenDisk, WriteDisk, Continue
  <1>5. pc = "disk_write" => SessionDisk
    BY SavedDiskIsSessionDisk DEF IInv, OnlyOwnImageSaved
  <1>6. SessionDisk' <=> SessionDisk
    BY <1>1 DEF SessionDisk
  <1>7. ~SessionDisk => UNCHANGED file
    BY <1>5, SavedDiskIsSessionDisk DEF OpenDisk, WriteDisk
  <1>8. SessionDisk /\ ImageDealtWith' => image # Missing /\ file' = [file EXCEPT ![OutPath] = image]
    <2>1. SUFFICES ASSUME SessionDisk, ImageDealtWith'
                   PROVE  image # Missing /\ file' = [file EXCEPT ![OutPath] = image]
      OBVIOUS
    <2>2. pc' = "pcf_open" /\ (purpose' # "exit" \/ exit_code' = "clean")
      BY <1>2, <2>1 DEF ImageDealtWith
    <2>3. image # Missing
      BY <1>1, <1>4, <2>2 DEF MachineThere
    <2>4. ~Cancelled("pcf_open")
      BY <2>2, CancelledIsNoSuccess
    <2> QED BY <2>1, <2>2, <2>3, <2>4, SavedDiskIsSessionDisk
            DEF OpenDisk, WriteDisk, Continue, SaveTarget
  <1>9. WritesKept'
    <2>1. SessionDisk /\ ImageDealtWith' /\ made \subseteq image.writes => Saved'
      BY <1>1, <1>8, LifecycleAssumption DEF Saved, IInv, TypeOK
    <2>2. ~SessionDisk /\ Saved => Saved'
      BY <1>1, <1>7 DEF Saved
    <2> HIDE DEF Saved
    <2> QED BY <1>1, <1>2, <1>6, <1>8, <2>1, <2>2 DEF WritesKept, WritesSaved, CleanExitSaves, SessionDisk
  <1> QED BY <1>3, <1>4, <1>9

LEMMA SavePcfKInv ==
  ASSUME IInv, KInv, OpenPcf \/ WritePcf \/ RenamePcf
  PROVE  KInv'
  <1> USE DEF KInv
  <1>1. UNCHANGED <<opts, image, pcf, file, made, rewound>>
    BY DEF OpenPcf, WritePcf, RenamePcf, SavingPcf, machine, history
  <1>2. /\ pc \in {"pcf_open", "pcf_write", "pcf_rename"}
        /\ pc' \in {"off", "disk_open", "hold", "pcf_write", "pcf_rename", "reinit"}
    BY CancelledIsNoSuccess DEF OpenPcf, WritePcf, RenamePcf, Continue, AfterSaves
  <1>3. \/ exit_code' = "error" /\ pc' \in {"off", "disk_open", "hold"}
           /\ (purpose = "exit" => pc' = "off" /\ purpose' = "exit")
           /\ (pc' = "disk_open" => purpose' = "exit")
        \/ UNCHANGED <<exit_code, purpose>> /\ pc' \in {"off", "pcf_write", "pcf_rename", "reinit"}
           /\ (pc' = "reinit" => purpose # "exit") /\ (pc' = "off" => purpose = "exit")
    BY CancelledIsNoSuccess DEF OpenPcf, WritePcf, RenamePcf, Continue, AfterSaves
  <1>4. MachineThere'
    BY <1>1, <1>2, <1>3 DEF MachineThere
  <1>5. pcf_file'.main = pcf_file.main \/ pcf_file'.main = pcf
    BY DEF OpenPcf, WritePcf, RenamePcf, PcfTarget, IInv, TypeOK, TempWhole
  <1>6. PcfAhead'
    BY <1>1, <1>2, <1>5 DEF PcfAhead, IInv, TypeOK, Blank
  <1>7. WritesKept'
    BY <1>1, <1>2, <1>3 DEF WritesKept, WritesSaved, CleanExitSaves, SessionDisk, Saved, ImageDealtWith
  <1> QED BY <1>4, <1>6, <1>7

LEMMA ReinitKInv ==
  ASSUME IInv, KInv, Reinit \/ ReinitFails
  PROVE  KInv'
  <1> USE DEF KInv
  <1>1. wanted \in Presets \cup {Same} /\ purpose # "exit" /\ pc = "reinit"
    BY DEF Reinit, ReinitFails, IInv, RestartNamed
  <1>2. image # Missing
    BY <1>1 DEF MachineThere
  <1>3. /\ opts' = NextOptions /\ opts'.out = opts.out /\ opts'.seed = opts.seed
        /\ UNCHANGED <<file, pcf_file, made>>
    BY <1>1, RestartOptions DEF IInv, Reinit, ReinitFails, history
  <1>4. ~rewound /\ opts.out => Saved
    BY <1>1, <1>2 DEF WritesKept, ImageDealtWith
  <1>5. CASE Reinit
    <2>1. image' = file[opts'.disk] /\ image' # Missing /\ pcf' = pcf /\ pc' \in {"loop", "disk_open"}
      BY <1>3, <1>5 DEF Reinit, RestoredPcf, BeginSave
    <2>2. MachineThere' /\ PcfAhead'
      BY <1>1, <1>2, <1>3, <2>1 DEF MachineThere, PcfAhead
    <2>3. ~rewound' /\ SessionDisk' => opts'.disk = OutPath
      <3>1. SUFFICES ASSUME ~rewound', SessionDisk' PROVE opts'.disk = OutPath
        OBVIOUS
      <3>2. CASE wanted = Same
        BY <1>3, <1>5, <3>1, <3>2 DEF Reinit, SessionDisk, NextOptions
      <3>3. CASE wanted # Same
        <4>1. opts' = MakeRestartOpts(opts, wanted)
          BY <1>3, <3>3 DEF NextOptions
        <4>2. opts'.disk = OutPath \/ (opts'.disk = DefaultDisk[wanted] /\ ~(opts.out /\ DefaultDisk[wanted] = opts.seed))
          BY <4>1 DEF MakeRestartOpts, IInv, TypeOK, Options
        <4> QED BY <1>3, <3>1, <4>2 DEF SessionDisk
      <3> QED BY <3>2, <3>3
    <2>4. ~rewound' => ~rewound
      BY <1>5 DEF Reinit
    <2>5. WritesKept'
      BY <1>3, <1>4, <2>1, <2>3, <2>4 DEF WritesKept, WritesSaved, CleanExitSaves, SessionDisk, Saved
    <2> QED BY <2>2, <2>5
  <1>6. CASE ReinitFails
    <2>1. /\ image' = Missing /\ exit_code' = "error" /\ rewound' = rewound
          /\ pc' = "off" \/ (pc' = "disk_open" /\ purpose' = "exit")
      BY <1>6 DEF ReinitFails, BeginSave, history
    <2> QED BY <1>3, <1>4, <2>1 DEF MachineThere, WritesKept, WritesSaved, CleanExitSaves, PcfAhead,
                                    Saved, ImageDealtWith
  <1> QED BY <1>5, <1>6

LEMMA StepKInv == IInv /\ KInv /\ [Next]_vars => KInv'
  <1> SUFFICES ASSUME IInv, KInv, [Next]_vars PROVE KInv'
    OBVIOUS
  <1>1. CASE \E l \in Launches : Launch(l)
    BY <1>1, LaunchKInv
  <1>2. CASE GuestWrite \/ GuestProgramsPcf \/ StopSignal \/ WebRestart \/ WakeRestart
             \/ LeaveLoop \/ HoldRestart \/ LeaveHold \/ Crash
    BY <1>2, RunningKInv
  <1>3. CASE OpenDisk \/ WriteDisk
    BY <1>3, SaveDiskKInv
  <1>4. CASE OpenPcf \/ WritePcf \/ RenamePcf
    BY <1>4, SavePcfKInv
  <1>5. CASE Reinit \/ ReinitFails
    BY <1>5, ReinitKInv
  <1>6. CASE UNCHANGED vars
    BY <1>6 DEF vars, machine, history, bounds, KInv, MachineThere, WritesKept, WritesSaved,
                CleanExitSaves, SessionDisk, Saved, ImageDealtWith, PcfAhead
  <1> QED BY <1>1, <1>2, <1>3, <1>4, <1>5, <1>6 DEF Next, Process

THEOREM NothingForgotten == Spec => [](IInv /\ KInv)
  BY InitIInv, InitKInv, StepIInv, StepKInv, PTL DEF Spec

\* The guest finds what it wrote to the session's disk whenever that disk is in the
\* drive, unless a wake from standby put the seed image back.
THEOREM WritesSeenCorrect == Spec => []WritesSeen
  <1>1. IInv /\ KInv => WritesSeen
    BY DEF KInv, MachineThere, WritesKept, WritesSeen, GuestSeesItsWrites
  <1> QED BY <1>1, NothingForgotten, PTL

\* A clean exit leaves every such write in the output.
THEOREM WritesSavedCorrect == Spec => []WritesSaved
  BY NothingForgotten, PTL DEF KInv, WritesKept

\* The registers on the host are only replaced by what the machine made of them.
LEMMA StepPcfKept ==
  IInv /\ KInv /\ [Next]_vars => [image # Missing => pcf_file'.main >= pcf_file.main]_vars
  <1> SUFFICES ASSUME IInv, KInv, Next, image # Missing
               PROVE  pcf_file'.main >= pcf_file.main
    OBVIOUS
  <1>0. pcf_file.main \in Int /\ pcf \in Int
    BY LifecycleAssumption DEF IInv, TypeOK, TornPcf, Blank
  <1>1. CASE RenamePcf
    <2>1. pcf_file'.main \in {pcf_file.main, pcf} /\ pcf_file.main <= pcf
      BY <1>1 DEF RenamePcf, IInv, TypeOK, TempWhole, KInv, PcfAhead
    <2> QED BY <1>0, <2>1
  <1>2. CASE ~RenamePcf
    <2>1. pcf_file'.main = pcf_file.main
      BY <1>2 DEF Next, Process, Launch, GuestWrite, GuestProgramsPcf, StopSignal, WebRestart,
                  WakeRestart, LeaveLoop, HoldRestart, LeaveHold, Crash, OpenDisk, WriteDisk,
                  SavingDisk, OpenPcf, WritePcf, PcfTarget, Reinit, ReinitFails, IInv, TypeOK
    <2> QED BY <1>0, <2>1
  <1> QED BY <1>1, <1>2

THEOREM PcfKeptCorrect == Spec => PcfKept
  BY InitIInv, InitKInv, StepIInv, StepKInv, StepPcfKept, PTL DEF Spec, PcfKept
=============================================================================
