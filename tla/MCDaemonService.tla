--------------------------- MODULE MCDaemonService ----------------------------
(***************************************************************************)
(* DaemonService for TLC; the values are in DaemonService.cfg.             *)
(***************************************************************************)
EXTENDS DaemonService
===============================================================================
