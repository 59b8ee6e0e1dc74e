---------------------------- MODULE OneCollector ----------------------------
(***************************************************************************)
(* What the flag audit_running promises whoever collects                   *)
(* (src/app/core/job_state.py): at most one collection is held, it is      *)
(* taken only when the flag is down, only the one that holds it puts the   *)
(* flag down, and a holder may be lost, after which nobody collects again. *)
(***************************************************************************)
CONSTANT Collectors   \* whatever may hold the collection

VARIABLES flag,       \* the flag
          holders     \* who holds the collection

Init == flag = FALSE /\ holders = {}

Take == /\ ~flag
        /\ flag' = TRUE
        /\ \E x \in Collectors : holders' = {x}

GiveBack == /\ holders # {}
            /\ flag' = FALSE /\ holders' = {}

\* Its holder is gone and the flag stays up.
Strand == /\ holders # {}
          /\ holders' = {} /\ UNCHANGED flag

Next == Take \/ GiveBack \/ Strand

Spec == Init /\ [][Next]_<<flag, holders>>
=============================================================================
