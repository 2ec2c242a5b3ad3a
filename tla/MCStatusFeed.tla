---------------------------- MODULE MCStatusFeed ------------------------------
(***************************************************************************)
(* StatusFeed for TLC; the values are in StatusFeed.cfg.                   *)
(***************************************************************************)
EXTENDS StatusFeed
===============================================================================
