---------------------------- MODULE MCFolderSync ----------------------------
(***************************************************************************)
(* FolderSync for TLC: what Drive holds at first, and how often each kind  *)
(* of edit and fault happens in each run.                                  *)
(***************************************************************************)
EXTENDS FolderSync, TLC

SeedFile == <<"a">> :> 1
SeedPull == (<<"a">> :> 1) @@ (<<"d">> :> 2) @@ (<<"d", "b">> :> 3)
SeedTree == (<<"d">> :> 1) @@ (<<"d", "a">> :> 2)

Nothing == [kind \in {"write", "remove", "move", "remote write", "trash", "delete", "edit",
                      "fault", "start"} |-> 0]

\* Two edits of different kinds, two faults and two restarts.
ResumeBudget == [Nothing EXCEPT !["write"] = 1, !["remove"] = 1, !["move"] = 1,
    !["remote write"] = 1, !["trash"] = 1, !["edit"] = 2, !["fault"] = 2, !["start"] = 3]

\* Two edits and a fault; the folder stays watched.
WatchBudget == [Nothing EXCEPT !["write"] = 2, !["remove"] = 1, !["remote write"] = 1,
    !["trash"] = 1, !["delete"] = 1, !["edit"] = 2, !["fault"] = 1, !["start"] = 1]

\* Nothing but faults and restarts.
PullBudget == [Nothing EXCEPT !["fault"] = 2, !["start"] = 3]

\* One edit on Drive while the first pull is under way.
GapBudget == [Nothing EXCEPT !["remote write"] = 1, !["edit"] = 1, !["start"] = 1]

\* Two edits of one local file, none on Drive.
WriterBudget == [Nothing EXCEPT !["write"] = 2, !["edit"] = 2, !["start"] = 1]

\* Nobody edits and nothing fails.
QuietBudget == [Nothing EXCEPT !["start"] = 1]
=============================================================================
