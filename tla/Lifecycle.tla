------------------------------ MODULE Lifecycle ------------------------------
(***************************************************************************)
(* The life of the emulated machine's durable state (main.c): the disk     *)
(* image, its mutable output file and the PCF50605 state file, through     *)
(* browser restarts, PMU wake restarts, the hold page, signals, failing    *)
(* writes, crashes and new processes.                                      *)
(*                                                                         *)
(* The process is sequential, but it can be killed between any two steps   *)
(* and a signal can set stop_requested at any of them, so the saves are    *)
(* modelled one file operation at a time.                                  *)
(*                                                                         *)
(* Abstractions.  An image is the source it started from and the set of    *)
(* guest writes it carries.  A battery-backed PCF register bank is the      *)
(* number of times the guest has programmed it, or Blank.  Emulation itself, the options that  *)
(* name no file and the web protocol are left out; --pcf-state is given.    *)
(***************************************************************************)
EXTENDS Integers

CONSTANTS
  Paths,        \* disk image paths
  OutPath,      \* --disk-out
  Presets,      \* presets of the web page; a preset is also its run label
  DefaultDisk,  \* the disk path apply_run_preset gives a preset
  Launches,     \* command lines: label, --disk and whether --disk-out is given
  Wakes,        \* whether the guest uses standby, so that the PMU may wake it
  InitMayFail,  \* whether a preset's firmware or flash image may be missing
  MaxWrites, MaxPrograms, MaxLaunches, MaxFailures   \* bounds of the instance

ASSUME LifecycleAssumption ==
  /\ OutPath \in Paths /\ Presets # {}
  /\ DefaultDisk \in [Presets -> Paths]
  /\ Launches \subseteq [label : Presets, disk : Paths, out : BOOLEAN]
  /\ Wakes \in BOOLEAN /\ InitMayFail \in BOOLEAN
  /\ {MaxWrites, MaxPrograms, MaxLaunches, MaxFailures} \subseteq Nat

VARIABLES
  pc,               \* where the process is
  purpose,          \* what the save in progress is for
  opts,             \* s.opts: label, disk_path, seed path and label, --disk-out
  wanted,           \* the preset a restart is for, or Same
  image,            \* s.disk.data
  pcf,              \* s.i2c: the battery-backed registers
  file,             \* the images on the host
  pcf_file,         \* the PCF state file and its temporary
  stop_requested, restart_requested,
  exit_code,        \* of the last process, or "killed"
  made,             \* history: the writes the session's disk is owed
  rewound,          \* history: whether a PMU wake reloaded the session's seed image
  written, launched, failed                      \* counters for the bounds

machine == <<opts, image, pcf>>
history == <<made, rewound>>
bounds  == <<written, launched, failed>>
vars    == <<pc, purpose, machine, wanted, file, pcf_file, stop_requested,
             restart_requested, exit_code, history, bounds>>

None     == "none"
Same     == "same"       \* a PMU wake restarts with the options it has
Missing  == [origin |-> "missing", writes |-> {}]
Torn     == [origin |-> "torn", writes |-> {}]
Blank    == -1           \* a PCF register bank that was just zeroed
NoPcf    == -2           \* no state file
TornPcf  == -3           \* a state file cut short

Images == [origin : Paths \cup {"missing", "torn"}, writes : SUBSET (0 .. MaxWrites - 1)]

Options == [label : Presets, disk : Paths, seed : Paths, seed_label : Presets,
            out : BOOLEAN]

NoOptions ==
  LET label == CHOOSE p \in Presets : TRUE
  IN  [label |-> label, disk |-> OutPath, seed |-> OutPath,
       seed_label |-> label, out |-> FALSE]

\* disk_output_active: only the session's own disk is saved.  Mutation: any disk is saved to the output.
DiskOutputActive_Always(o) == o.out
\* Mutation: a disk reloaded from the output is not saved again.
DiskOutputActive_SeedOnly(o) == o.out /\ o.disk = o.seed
DiskOutputActive(o) == o.out /\ o.disk \in {o.seed, OutPath}

\* Mutation: the restart forgets the output image.
MakeRestartOpts_Forgets(o, preset) ==
  [o EXCEPT !.label = preset, !.disk = DefaultDisk[preset]]

\* make_restart_opts: the preset's own disk, unless the session's output
\* image stands for it.
MakeRestartOpts(o, preset) ==
  LET disk == DefaultDisk[preset]
      owns == o.out /\ (disk = o.seed \/ preset = o.seed_label)
  IN  [o EXCEPT !.label = preset, !.disk = IF owns THEN OutPath ELSE disk]

-----------------------------------------------------------------------------
(***************************************************************************)
(* Starting.                                                               *)
(***************************************************************************)
Init ==
  /\ pc = "off" /\ purpose = "exit"
  /\ opts = NoOptions /\ wanted = None
  /\ image = Missing /\ pcf = Blank
  /\ file = [p \in Paths |-> IF p = OutPath THEN Missing
                             ELSE [origin |-> p, writes |-> {}]]
  /\ pcf_file = [main |-> NoPcf, tmp |-> NoPcf]
  /\ stop_requested = FALSE /\ restart_requested = None
  /\ exit_code = "clean" /\ made = {} /\ rewound = FALSE
  /\ written = 0 /\ launched = 0 /\ failed = 0

\* A new process: the image and the PCF state are loaded.  An image that was
\* cut short loads like any other; a missing one ends the process.
Launch(l) ==
  /\ pc = "off" /\ launched < MaxLaunches
  /\ file[l.disk] # Missing
  /\ pcf_file.main # TornPcf
  /\ opts' = [label |-> l.label, disk |-> l.disk, seed |-> l.disk,
              seed_label |-> l.label, out |-> l.out]
  /\ image' = file[l.disk]
  /\ pcf' = IF pcf_file.main = NoPcf THEN 0 ELSE pcf_file.main
  /\ made' = image'.writes /\ rewound' = FALSE
  /\ pc' = "loop" /\ purpose' = "exit" /\ exit_code' = "clean"
  /\ stop_requested' = FALSE /\ restart_requested' = None /\ wanted' = None
  /\ launched' = launched + 1
  /\ UNCHANGED <<file, pcf_file, written, failed>>

(***************************************************************************)
(* Running.                                                                *)
(***************************************************************************)
\* The disk in the drive is the one the session was started with: what
\* --disk-out is about.
SessionDisk == opts.out /\ opts.disk \in {opts.seed, OutPath}

GuestWrite ==
  /\ pc = "loop" /\ written < MaxWrites
  /\ image' = [image EXCEPT !.writes = @ \cup {written}]
  /\ made' = IF SessionDisk THEN made \cup {written} ELSE made
  /\ written' = written + 1
  /\ UNCHANGED <<pc, purpose, opts, pcf, wanted, file, pcf_file, stop_requested,
                 restart_requested, exit_code, rewound, launched, failed>>

GuestProgramsPcf ==
  /\ pc = "loop" /\ pcf < MaxPrograms
  /\ pcf' = pcf + 1
  /\ UNCHANGED <<pc, purpose, opts, image, wanted, file, pcf_file, stop_requested,
                 restart_requested, exit_code, history, bounds>>

StopSignal ==
  /\ pc # "off" /\ ~stop_requested
  /\ stop_requested' = TRUE
  /\ UNCHANGED <<pc, purpose, machine, wanted, file, pcf_file, restart_requested,
                 exit_code, history, bounds>>

\* Every poll may bring a request, which replaces one not yet taken.
Requests == {restart_requested} \cup Presets

BeginSave(why) == pc' = "disk_open" /\ purpose' = why

\* The poll inside the loop, every 256 ticks.  The poll after the loop may
\* record one more request, which is left for later.
WebRestart ==
  /\ pc = "loop"
  /\ wanted' \in Requests \ {None}
  /\ restart_requested' \in Presets \cup {None}
  /\ BeginSave("restart")
  /\ UNCHANGED <<machine, file, pcf_file, stop_requested, exit_code, history, bounds>>

\* The PMU wakes the machine: it restarts with the options it has.
WakeRestart ==
  /\ pc = "loop" /\ Wakes
  /\ wanted' = Same
  /\ restart_requested' \in Requests
  /\ BeginSave("restart")
  /\ UNCHANGED <<machine, file, pcf_file, stop_requested, exit_code, history, bounds>>

\* After the loop the page holds the final frame, or the process ends.
HoldOrExit ==
  \/ ~stop_requested /\ pc' = "hold" /\ UNCHANGED purpose
  \/ BeginSave("exit")

\* The loop ends: the budget is spent, a core failed, or a signal came.
LeaveLoop ==
  /\ pc = "loop"
  /\ restart_requested' = None
  /\ \/ wanted' \in Requests \ {None} /\ BeginSave("restart")
     \/ restart_requested = None /\ HoldOrExit /\ UNCHANGED wanted
  /\ UNCHANGED <<machine, file, pcf_file, stop_requested, exit_code, history, bounds>>

HoldRestart ==
  /\ pc = "hold" /\ ~stop_requested
  /\ wanted' \in Requests \ {None} /\ restart_requested' = None
  /\ BeginSave("hold_restart")
  /\ UNCHANGED <<machine, file, pcf_file, stop_requested, exit_code, history, bounds>>

LeaveHold ==
  /\ pc = "hold" /\ stop_requested
  /\ BeginSave("exit")
  /\ UNCHANGED <<machine, wanted, file, pcf_file, stop_requested, restart_requested,
                 exit_code, history, bounds>>

(***************************************************************************)
(* Saving.  A failed save before a restart cancels the restart: the page   *)
(* holds the machine, or, if it held it already, the process ends.         *)
(***************************************************************************)
Fail == failed < MaxFailures /\ failed' = failed + 1 /\ exit_code' = "error"

Cancelled(stage) ==
  /\ Fail
  /\ \/ purpose = "exit" /\ pc' = stage /\ UNCHANGED purpose
     \/ purpose = "hold_restart" /\ BeginSave("exit")
     \/ purpose = "restart" /\ HoldOrExit

Continue(stage) == pc' = stage /\ UNCHANGED <<purpose, exit_code, failed>>

SavingDisk == UNCHANGED <<machine, wanted, pcf_file, stop_requested,
                          restart_requested, history, written, launched>>

SaveTarget == OutPath

\* save_disk_output.  A machine whose initialisation failed has no image and
\* fails the save without touching the file.
OpenDisk ==
  /\ pc = "disk_open"
  /\ SavingDisk
  /\ \/ ~DiskOutputActive(opts) /\ Continue("pcf_open") /\ UNCHANGED file
     \/ /\ DiskOutputActive(opts) /\ image = Missing
        /\ exit_code' = "error" /\ pc' = "pcf_open" /\ UNCHANGED <<purpose, failed, file>>
     \/ /\ DiskOutputActive(opts) /\ image # Missing
        /\ \/ Cancelled("pcf_open") /\ UNCHANGED file
           \/ Continue("disk_write") /\ file' = [file EXCEPT ![SaveTarget] = Torn]

WriteDisk ==
  /\ pc = "disk_write"
  /\ SavingDisk
  /\ \/ Cancelled("pcf_open") /\ UNCHANGED file
     \/ Continue("pcf_open") /\ file' = [file EXCEPT ![SaveTarget] = image]

AfterSaves == IF purpose = "exit" THEN "off" ELSE "reinit"

SavingPcf == UNCHANGED <<machine, wanted, file, stop_requested, restart_requested,
                         history, written, launched>>

\* Mutation: the state file is written in place.
PcfTarget_InPlace == "main"
PcfTarget == "tmp"

OpenPcf ==
  /\ pc = "pcf_open"
  /\ SavingPcf
  /\ \/ Cancelled("off") /\ UNCHANGED pcf_file
     \/ Continue("pcf_write") /\ pcf_file' = [pcf_file EXCEPT ![PcfTarget] = TornPcf]

WritePcf ==
  /\ pc = "pcf_write"
  /\ SavingPcf
  /\ \/ Cancelled("off") /\ pcf_file' = [pcf_file EXCEPT !.tmp = NoPcf]
     \/ Continue("pcf_rename") /\ pcf_file' = [pcf_file EXCEPT ![PcfTarget] = pcf]

RenamePcf ==
  /\ pc = "pcf_rename"
  /\ SavingPcf
  /\ \/ Cancelled("off") /\ pcf_file' = [pcf_file EXCEPT !.tmp = NoPcf]
     \/ Continue(AfterSaves) /\ pcf_file' = [main |-> pcf_file.tmp, tmp |-> NoPcf]

(***************************************************************************)
(* The restart proper: destroy_state, init_state, restore the PCF backup.  *)
(***************************************************************************)

\* Mutation: the backup is not restored.
RestoredPcf_Blank == Blank

RestoredPcf == pcf

\* The loop is left for good once stop_requested; only the hold page's restart
\* enters it once more.  Mutation: do ... while (TRUE).
RunsAgain_Always == TRUE
RunsAgain == purpose = "hold_restart" \/ ~stop_requested

NextOptions == IF wanted = Same THEN opts ELSE MakeRestartOpts(opts, wanted)

Reinit ==
  /\ pc = "reinit"
  /\ file[NextOptions.disk] # Missing
  /\ opts' = NextOptions /\ image' = file[opts'.disk] /\ pcf' = RestoredPcf
  /\ IF RunsAgain THEN pc' = "loop" /\ UNCHANGED purpose ELSE BeginSave("exit")
  /\ wanted' = None
  /\ rewound' = (rewound \/ (wanted = Same /\ SessionDisk /\ opts.disk # OutPath))
  /\ UNCHANGED <<file, pcf_file, stop_requested, restart_requested,
                 exit_code, made, bounds>>

\* The new machine cannot be initialised, and the old one is gone.  From the
\* loop the process ends at once; from the hold page it goes through the final
\* saves with the zeroed machine.
ReinitFails ==
  /\ pc = "reinit"
  /\ InitMayFail \/ file[NextOptions.disk] = Missing
  /\ opts' = NextOptions /\ image' = Missing /\ pcf' = Blank
  /\ exit_code' = "error"
  /\ \/ purpose = "restart" /\ pc' = "off" /\ UNCHANGED purpose
     \/ purpose = "hold_restart" /\ BeginSave("exit")
  /\ wanted' = None
  /\ UNCHANGED <<file, pcf_file, stop_requested, restart_requested, history, bounds>>

\* The process is killed, or the host loses power.
Crash ==
  /\ pc # "off"
  /\ pc' = "off" /\ exit_code' = "killed"
  /\ UNCHANGED <<purpose, machine, wanted, file, pcf_file, stop_requested,
                 restart_requested, history, bounds>>

-----------------------------------------------------------------------------
Process ==
  \/ LeaveLoop \/ LeaveHold \/ OpenDisk \/ WriteDisk
  \/ OpenPcf \/ WritePcf \/ RenamePcf \/ Reinit \/ ReinitFails

Next ==
  \/ \E l \in Launches : Launch(l)
  \/ GuestWrite \/ GuestProgramsPcf \/ StopSignal
  \/ WebRestart \/ WakeRestart \/ HoldRestart
  \/ Process \/ Crash

\* The process keeps executing once it has left the loop or must leave it.
Spec == Init /\ [][Next]_vars /\ WF_vars(stop_requested /\ Process)

-----------------------------------------------------------------------------
(***************************************************************************)
(* Properties.                                                             *)
(***************************************************************************)

\* Types.
TypeOK ==
  /\ pc \in {"off", "loop", "hold", "disk_open", "disk_write", "pcf_open",
             "pcf_write", "pcf_rename", "reinit"}
  /\ purpose \in {"restart", "hold_restart", "exit"}
  /\ opts \in Options /\ wanted \in Presets \cup {None, Same}
  /\ image \in Images /\ file \in [Paths -> Images]
  /\ pcf \in Blank .. MaxPrograms
  /\ pcf_file \in [main : TornPcf .. MaxPrograms, tmp : TornPcf .. MaxPrograms]
  /\ stop_requested \in BOOLEAN /\ restart_requested \in Presets \cup {None}
  /\ exit_code \in {"clean", "error", "killed"}
  /\ made \subseteq 0 .. MaxWrites - 1 /\ rewound \in BOOLEAN
  /\ written \in 0 .. MaxWrites /\ launched \in 0 .. MaxLaunches
  /\ failed \in 0 .. MaxFailures

\* The source passed with --disk remains untouched, like every other image but
\* the output, whatever preset runs and whatever fails.
SourceUntouched ==
  [][\A p \in Paths \ {OutPath} : file'[p] = file[p]]_vars

\* Unrelated presets cannot overwrite the output: what it holds always descends
\* from the image of a session that was given --disk-out.
SeedPaths == {l.disk : l \in {k \in Launches : k.out}} \ {OutPath}
OutputOwned == file[OutPath].origin \in SeedPaths \cup {"missing", "torn"}

\* While the session's disk is in the drive, the guest finds every write it made
\* to it since the process started, restarts included.
GuestSeesItsWrites == pc = "loop" /\ SessionDisk => made \subseteq image.writes

\* After a clean exit the output holds every write the guest made to the
\* session's disk, whatever presets ran in between.
CleanExitSaves ==
  pc = "off" /\ exit_code = "clean" /\ opts.out => made \subseteq file[OutPath].writes

\* A crash or a failed write in the middle of a save leaves a whole PCF state
\* file: the one from before, or the new one.
PcfFileWhole == pcf_file.main # TornPcf

\* Only a wake from standby that reloads the seed image takes anything back:
\* otherwise the guest finds what it wrote (GuestSeesItsWrites) ...
WritesSeen == ~rewound => GuestSeesItsWrites

\* ... and a clean exit leaves all of it in the output (CleanExitSaves), through
\* every preset, failed save and failed restart.
WritesSaved == ~rewound => CleanExitSaves

\* What has been saved of the battery-backed registers is only ever replaced by
\* what the guest has made of it since, through restarts, failed saves and crashes;
\* all but the final saves of a machine whose initialisation failed, which has no
\* image (main.c:1604).
PcfKept == [][image # Missing => pcf_file'.main >= pcf_file.main]_vars

\* A signal ends the process, whatever it was doing.
StopEndsProcess == stop_requested ~> (pc = "off")
=============================================================================
