-------------------------- MODULE MCRefreshSession --------------------------
(***************************************************************************)
(* RefreshSession with three requests: two of one token, one of its        *)
(* successor, each of which may be the straggler.                          *)
(***************************************************************************)
EXTENDS RefreshSession, TLC
=============================================================================
