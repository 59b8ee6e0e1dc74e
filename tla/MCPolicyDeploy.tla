--------------------------- MODULE MCPolicyDeploy ---------------------------
(***************************************************************************)
(* PolicyDeploy with a standard of one policy, and a tenant that has it,   *)
(* or a policy of its own which the standard may adopt, or both.           *)
(***************************************************************************)
EXTENDS PolicyDeploy, TLC

CONSTANTS p1, p2, standard, own

MCFirst == [n \in Names |-> IF n = standard THEN p1 ELSE p2]

MCSymmetry == Permutations(Tasks)
=============================================================================
