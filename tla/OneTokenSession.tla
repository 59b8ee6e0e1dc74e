-------------------------- MODULE OneTokenSession --------------------------
(***************************************************************************)
(* What a session promises its holder, apart from how the hub keeps it: a  *)
(* live session has one current refresh token; only that one is traded,    *)
(* once, for the next; an older one never becomes current again and at     *)
(* most buys an access token; a session is revoked only over an older one; *)
(* and a session that has ended stays ended and serves nobody.             *)
(* RefreshSession is checked to implement this.                            *)
(***************************************************************************)
EXTENDS Naturals

CONSTANTS Requests   \* each presents a refresh token once

VARIABLES live,      \* has the session not ended?
          current,   \* tokens are numbered as they become current: the newest
          token,     \* request -> the token it presents
          told       \* request -> what it was told

vars == <<live, current, token, told>>

Init == /\ live = TRUE
        /\ current = 0
        /\ token = [r \in Requests |-> 0]
        /\ told = [r \in Requests |-> "unasked"]

\* A request presents any token the session has had.
Present(r) == /\ told[r] = "unasked"
              /\ told' = [told EXCEPT ![r] = "waits"]
              /\ \E t \in 0 .. current : token' = [token EXCEPT ![r] = t]
              /\ UNCHANGED <<live, current>>

Tell(r, what) == /\ told[r] = "waits"
                 /\ told' = [told EXCEPT ![r] = what]
                 /\ UNCHANGED token

Trade(r) == /\ live
            /\ token[r] = current
            /\ current' = current + 1
            /\ Tell(r, "rotated")
            /\ UNCHANGED live

Serve(r) == /\ live
            /\ token[r] < current
            /\ Tell(r, "grace")
            /\ UNCHANGED <<live, current>>

TurnAway(r) == /\ ~live
               /\ Tell(r, "invalid")
               /\ UNCHANGED <<live, current>>

\* The account is disabled, or the hub fails or stops.
Fail(R) == /\ \A r \in R : told[r] = "waits"
           /\ told' = [r \in Requests |-> IF r \in R THEN "error" ELSE told[r]]
           /\ UNCHANGED <<live, current, token>>

\* Revoked over an older token; over one already ended it changes nothing.
Revoke(r) == /\ live => token[r] < current
             /\ live' = FALSE
             /\ Tell(r, "reused")
             /\ UNCHANGED current

End == /\ live' = FALSE
       /\ UNCHANGED <<current, token, told>>

Next == \/ \E r \in Requests :
             Present(r) \/ Trade(r) \/ Serve(r) \/ TurnAway(r) \/ Revoke(r)
        \/ \E R \in SUBSET Requests : Fail(R)
        \/ End

Spec == Init /\ [][Next]_vars
=============================================================================
