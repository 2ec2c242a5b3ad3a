---------------------------- MODULE ServicePromise ----------------------------
(***************************************************************************)
(* What the D-Bus service of gdrived promises the desktop session, stated  *)
(* without its mutex, its sign-in tasks, its files and its signals         *)
(* (gdrived/README.md, "SignOut cancels the pending attempt ...").         *)
(*                                                                         *)
(* A change of the folder list, a completed sign-in and a sign-out are one *)
(* step each.  An attempt to sign in is pending until it completes, fails  *)
(* or is signed out; only the pending attempt can open a session, once.    *)
(* The folder list outlives the daemon, but for a crash while the list is  *)
(* being saved, or after a save that failed.                               *)
(***************************************************************************)
EXTENDS Naturals

CONSTANTS
    Folders,        \* configured sync folders
    MaxGeneration   \* attempts are numbered 1..MaxGeneration

VARIABLES
    on,        \* the daemon runs
    folders,   \* of each folder: "enabled", "disabled", "absent" or "torn"
    exposed,   \* a crash now may lose the folder list
    workers,   \* folders being synchronised
    session,   \* the attempt that opened the session, NoSession or Restored
    kept,      \* a token is cached on disk
    pending    \* the attempt that may still open a session, 0 for none

vars == <<on, folders, exposed, workers, session, kept, pending>>

Attempts  == 1..MaxGeneration
NoSession == 0
Restored  == MaxGeneration + 1

Enabled == {f \in Folders : folders[f] = "enabled"}

Init ==
    /\ on = FALSE /\ exposed = FALSE /\ kept \in BOOLEAN
    /\ folders \in [Folders -> {"absent", "enabled", "disabled"}]
    /\ workers = {} /\ session = NoSession /\ pending = 0

StartDaemon ==
    /\ ~on /\ on' = TRUE
    /\ exposed' = FALSE
    /\ \/ session' = NoSession /\ workers' = {}
       \/ kept /\ session' = Restored /\ workers' = Enabled
    /\ UNCHANGED <<folders, kept, pending>>

StopDaemon ==
    /\ on /\ on' = FALSE
    /\ \/ UNCHANGED folders
       \/ exposed /\ folders' \in [Folders -> {"absent", "enabled", "disabled", "torn"}]
    /\ workers' = {} /\ session' = NoSession /\ pending' = 0
    /\ UNCHANGED <<exposed, kept>>

\* The save of a new folder list begins: nothing has changed yet.
Expose ==
    /\ on /\ exposed' = TRUE
    /\ UNCHANGED <<on, folders, workers, session, kept, pending>>

\* One folder is added, removed, enabled or disabled, and its worker with it.
Configure ==
    /\ on
    /\ \E f \in Folders, to \in {"absent", "enabled", "disabled"} :
          /\ folders' = [folders EXCEPT ![f] = to]
          /\ workers' = IF to = "enabled" THEN workers \cup {f} ELSE workers \ {f}
    /\ exposed' = FALSE
    /\ UNCHANGED <<on, session, kept, pending>>

WorkerFails ==
    /\ \E f \in workers : workers' = workers \ {f}
    /\ UNCHANGED <<on, folders, exposed, session, kept, pending>>

Open ==
    /\ on /\ pending = 0
    /\ pending' \in Attempts
    /\ UNCHANGED <<on, folders, exposed, workers, session, kept>>

\* The pending attempt opens the session and every enabled folder is started.
Complete ==
    /\ on /\ pending # 0 /\ pending' = 0
    /\ session' = pending /\ kept' = TRUE /\ workers' = Enabled
    /\ UNCHANGED <<on, folders, exposed>>

Abandon ==
    /\ pending # 0 /\ pending' = 0
    /\ UNCHANGED <<on, folders, exposed, workers, session, kept>>

\* The token of an account that signs out may prove impossible to delete.
SignOut ==
    /\ on
    /\ session' = NoSession /\ workers' = {} /\ pending' = 0
    /\ kept' \in {FALSE, kept}
    /\ UNCHANGED <<on, folders, exposed>>

Next ==
    \/ StartDaemon \/ StopDaemon \/ Expose \/ Configure \/ WorkerFails
    \/ Open \/ Complete \/ Abandon \/ SignOut

Spec == Init /\ [][Next]_vars
===============================================================================
