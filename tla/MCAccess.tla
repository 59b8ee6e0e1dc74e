------------------------------ MODULE MCAccess ------------------------------
(***************************************************************************)
(* Access with one session at the start and three tasks, each of which may *)
(* be any operation: two in each other's way, and one that is hurt by it.  *)
(***************************************************************************)
EXTENDS Access, TLC
=============================================================================
