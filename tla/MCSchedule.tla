----------------------------- MODULE MCSchedule -----------------------------
(***************************************************************************)
(* Schedule for two tasks, so that one task's run persists the other's     *)
(* count, and a breaker that trips at the second failure, the least that   *)
(* also backs off.                                                         *)
(***************************************************************************)
EXTENDS Schedule
=============================================================================
