--------------------------- MODULE MCFindingPush ---------------------------
(***************************************************************************)
(* FindingPush on small sets: enough clicks for a race on one finding and  *)
(* a bystander on another, and one retry.                                  *)
(***************************************************************************)
EXTENDS FindingPush, TLC

MCSymmetry == Permutations(Requests) \cup Permutations(Findings)
=============================================================================
