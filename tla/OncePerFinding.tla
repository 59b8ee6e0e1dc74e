--------------------------- MODULE OncePerFinding ---------------------------
(***************************************************************************)
(* What pushing audit findings to a ticket system promises, apart from how *)
(* the hub does it: a remote object is created only for a finding somebody *)
(* holds a claim on, at most one is ever created per finding, a finding    *)
(* whose object exists is never given up, and the object on record is the  *)
(* one that exists.  FindingPush is checked and proved to implement this.  *)
(***************************************************************************)
CONSTANTS Findings,  \* the findings of the customers' audits
          Objects,   \* identities the ticket system may give an object
          None       \* no object

VARIABLES claimed,   \* findings whose push somebody has reserved
          filed,     \* finding -> the objects that exist for it remotely
          known      \* finding -> the object on record in the hub, or None

vars == <<claimed, filed, known>>

Init == /\ claimed = {}
        /\ filed = [f \in Findings |-> {}]
        /\ known = [f \in Findings |-> None]

Claim(f) == /\ f \notin claimed
            /\ claimed' = claimed \cup {f}
            /\ UNCHANGED <<filed, known>>

\* A claim is given up only when nothing came of it.
GiveUp(f) == /\ f \in claimed
             /\ filed[f] = {}
             /\ claimed' = claimed \ {f}
             /\ UNCHANGED <<filed, known>>

File(f, o) == /\ f \in claimed
              /\ filed[f] = {}
              /\ filed' = [filed EXCEPT ![f] = {o}]
              /\ UNCHANGED <<claimed, known>>

Record(f, o) == /\ o \in filed[f]
                /\ known[f] = None
                /\ known' = [known EXCEPT ![f] = o]
                /\ UNCHANGED <<claimed, filed>>

Next == \E f \in Findings :
          \/ Claim(f)
          \/ GiveUp(f)
          \/ \E o \in Objects : File(f, o) \/ Record(f, o)

Spec == Init /\ [][Next]_vars
=============================================================================
