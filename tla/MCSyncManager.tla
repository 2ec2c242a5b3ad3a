---------------------------- MODULE MCSyncManager -----------------------------
(***************************************************************************)
(* The window with small bounds; the values are in SyncManager.cfg.        *)
(***************************************************************************)
EXTENDS SyncManager
===============================================================================
