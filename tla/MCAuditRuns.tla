---------------------------- MODULE MCAuditRuns ----------------------------
(***************************************************************************)
(* AuditRuns for one user of one customer with two browser tabs: a stream  *)
(* that starts a run and one that watches or rivals it, a history load, a  *)
(* bulk audit of one customer and the scheduler; a user keeps one history  *)
(* selection, so the second tab's evicts the first's.  All of them meet at *)
(* the one flag, as the holders of OneCollector.                           *)
(***************************************************************************)
EXTENDS AuditRuns
=============================================================================
