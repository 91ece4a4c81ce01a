----------------------------- MODULE MCLifecycle -----------------------------
(***************************************************************************)
(* Instances of Lifecycle for TLC: two presets with a disk each; sessions on*)
(* the disk of a preset, on the output image, on a custom disk known by its*)
(* label only, on the disk of the other preset, and without an output.     *)
(* Three guests bound the state space: one writes to the disk, one programs*)
(* the PCF50605, and the third meets a failing initialisation but neither  *)
(* writes much nor starts twice.  The PMU may wake all of them, the first  *)
(* two in their first process only.                                        *)
(***************************************************************************)
EXTENDS Lifecycle

VARIABLE guest

MCDefaultDisk ==
  [p \in Presets |-> IF p = "rockbox" THEN "rockbox.img" ELSE "apple.img"]

Start(label, disk, out) == [label |-> label, disk |-> disk, out |-> out]

MCLaunches ==
  { Start("apple", "apple.img", TRUE),
    Start("apple", "out.img", TRUE),
    Start("apple", "custom.img", TRUE),
    Start("rockbox", "apple.img", TRUE),
    Start("rockbox", "rockbox.img", FALSE) }

\* What each guest leaves alone.
Disk  == pcf < 1 /\ (launched = 2 => wanted # Same /\ (written <= 1 \/ failed = 0))
Pcf   == written = 0 /\ opts.disk # "custom.img" /\ (launched = 2 => wanted # Same)
Rough == pcf < 1 /\ written <= 1 /\ launched <= 1

MCInit == Init /\ guest \in {"disk", "pcf", "rough"}

MCNext ==
  /\ Next
  /\ CASE guest = "disk" -> Disk' [] guest = "pcf" -> Pcf' [] guest = "rough" -> Rough'
  /\ guest # "rough" /\ pc = "reinit" /\ image' = Missing => file[NextOptions.disk] = Missing
  /\ UNCHANGED guest

MCSpec == MCInit /\ [][MCNext]_<<vars, guest>> /\ WF_vars(stop_requested /\ Process)
=============================================================================
