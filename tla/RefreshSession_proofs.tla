----------------------- MODULE RefreshSession_proofs -----------------------
(***************************************************************************)
(* For any number of requests, any bound on the rotations and any grace:   *)
(* RefreshSession is type correct and implements OneTokenSession.          *)
(*                                                                         *)
(* The types do not carry the simulation by themselves.  What it needs is  *)
(* that a request which has left the straight path (its token was not the  *)
(* one it read, or its swap found another) holds, as long as the session   *)
(* lives, an older token than the session's: Behind below.  That in turn   *)
(* rests on what a request reads being no older than its token, Reads.     *)
(*                                                                         *)
(* That tabs with one token do not sign each other out is an action        *)
(* property.  Its invariant, Duplicates, is about the requests that alone  *)
(* names: the entry has their token from the first that is about to write  *)
(* it on, since whoever remembers another token drops them from alone.     *)
(***************************************************************************)
EXTENDS RefreshSession, TLAPS

\* The row holds the newest token or none at all.
RowIsNewest == row # None => row = newest

\* Tokens are only presented once the row has held them, up to the bound.
Sendable == \A r \in Requests : pc[r] # "unsent" => tok[r] <= newest /\ tok[r] < MaxToken

\* What a request compares was read after its token was current.
Reads == \A r \in Requests :
           pc[r] = "compare" => seen[r] \in Tokens /\ tok[r] <= seen[r] /\ seen[r] <= newest

\* Whoever has left the straight path holds an older token.
Behind == \A r \in Requests :
            pc[r] \in {"gracecheck", "validate", "revoke"} /\ row # None => tok[r] < newest

IInv == TypeOK /\ RowIsNewest /\ Sendable /\ Reads /\ Behind

-----------------------------------------------------------------------------
(* The invariant is inductive *)

LEMMA InitIInv == Init => IInv
BY MaxTokenAssumption, NoneAssumption
   DEF Init, IInv, TypeOK, RowIsNewest, Sendable, Reads, Behind, Tokens, Steps, Answers

\* Sending and reading touch one request only.
LEMMA ArrivalKeeps ==
  ASSUME IInv, NEW r \in Requests, Send(r) \/ Refuse(r) \/ Select(r)
  PROVE  IInv'
<1> USE MaxTokenAssumption, NoneAssumption
    DEF IInv, TypeOK, RowIsNewest, Sendable, Reads, Behind, Tokens, Steps, Answers, Goto,
        Session, Sent
<1>1. CASE Send(r)
  BY <1>1 DEF Send
<1>2. CASE Refuse(r)
  BY <1>2 DEF Refuse
<1>3. CASE Select(r)
  BY <1>3 DEF Select
<1> QED BY <1>1, <1>2, <1>3

\* A token that is not the one read is older than the newest; one whose swap
\* finds another row is older too, or the session is over.
LEMMA TradeKeeps ==
  ASSUME IInv, NEW r \in Requests,
         \/ CompareEqual(r) \/ CompareRetired(r)
         \/ SwapWon(r) \/ SwapLost(r) \/ SwapFails(r)
  PROVE  IInv'
<1> USE MaxTokenAssumption, NoneAssumption
    DEF IInv, TypeOK, RowIsNewest, Sendable, Reads, Behind, Tokens, Steps, Answers, Goto,
        Session, Sent
<1>1. CASE CompareEqual(r)
  BY <1>1, GraceAssumption DEF CompareEqual, Remember
<1>2. CASE CompareRetired(r)
  BY <1>2 DEF CompareRetired
<1>3. CASE SwapWon(r)
  BY <1>3 DEF SwapWon
<1>4. CASE SwapLost(r)
  BY <1>4 DEF SwapLost
<1>5. CASE SwapFails(r)
  BY <1>5 DEF SwapFails
<1> QED BY <1>1, <1>2, <1>3, <1>4, <1>5

\* The duplicate's path changes nothing but its own place, or ends the session.
LEMMA DuplicateKeeps ==
  ASSUME IInv, NEW r \in Requests, GraceCheck(r) \/ Validate(r) \/ Revoke(r)
  PROVE  IInv'
<1> USE NoneAssumption
    DEF IInv, TypeOK, RowIsNewest, Sendable, Reads, Behind, Tokens, Steps, Answers, Goto,
        Session, Sent
<1>1. CASE GraceCheck(r)
  BY <1>1 DEF GraceCheck
<1>2. CASE Validate(r)
  BY <1>2 DEF Validate
<1>3. CASE Revoke(r)
  BY <1>3 DEF Revoke
<1> QED BY <1>1, <1>2, <1>3

\* The session ends, time passes, the hub restarts.
LEMMA SurroundingsKeep ==
  ASSUME IInv, EndSession \/ Tick \/ Restart
  PROVE  IInv'
<1> USE NoneAssumption
    DEF IInv, TypeOK, RowIsNewest, Sendable, Reads, Behind, Tokens, Steps, Answers, Session, Sent
<1>1. CASE EndSession
  BY <1>1 DEF EndSession
<1>2. CASE Tick
  BY <1>2, GraceAssumption DEF Tick
<1>3. CASE Restart
  BY <1>3 DEF Restart
<1> QED BY <1>1, <1>2, <1>3

\* Every step keeps the invariant.
LEMMA NextKeeps == IInv /\ [Next]_vars => IInv'
<1> SUFFICES ASSUME IInv, [Next]_vars PROVE IInv'
  OBVIOUS
<1>1. ASSUME NEW r \in Requests, Send(r) \/ Step(r) PROVE IInv'
  BY <1>1, ArrivalKeeps, TradeKeeps, DuplicateKeeps DEF Step
<1>2. CASE EndSession \/ Tick \/ Restart
  BY <1>2, SurroundingsKeep
<1>3. CASE UNCHANGED vars
  BY <1>3 DEF vars, IInv, TypeOK, RowIsNewest, Sendable, Reads, Behind
<1> QED BY <1>1, <1>2, <1>3 DEF Next

\* The strengthened invariant holds in every reachable state, for any requests
\* and any interleaving of theirs (auth.py: rotate_refresh_token).
THEOREM InductiveInvariant == Spec => []IInv
  BY InitIInv, NextKeeps, PTL DEF Spec

\* Every variable of the session keeps its type (auth.py: user_sessions and
\* _replaced_refresh hold tokens the session has had, and nothing else).
THEOREM TypeCorrect == Spec => []TypeOK
<1>1. IInv => TypeOK
  BY DEF IInv
<1> QED BY <1>1, InductiveInvariant, PTL

-----------------------------------------------------------------------------
(* Every step is one of OneTokenSession, or none *)

\* What the abstract session is told changes where a request's place does.
LEMMA Unmoved ==
  ASSUME UNCHANGED <<row, newest, tok, pc>>
  PROVE  UNCHANGED Promise!vars
BY DEF Promise!vars

\* A request that moves among its awaits is not answered yet.
LEMMA StillWaits ==
  ASSUME TypeOK, NEW r \in Requests, NEW there \in Steps,
         pc[r] \in Steps, Goto(r, there), UNCHANGED <<row, newest, tok>>
  PROVE  UNCHANGED Promise!vars
<1>1. \A q \in Requests : pc'[q] = IF q = r THEN there ELSE pc[q]
  BY DEF TypeOK, Goto
<1> QED BY <1>1 DEF Promise!vars, Steps

\* A function changed at one point.
LEMMA ChangedAt ==
  ASSUME NEW S, NEW r \in S, NEW w, NEW f, NEW g,
         f = [q \in S |-> f[q]], g = [q \in S |-> g[q]],
         \A q \in S : g[q] = IF q = r THEN w ELSE f[q]
  PROVE  g = [f EXCEPT ![r] = w]
OBVIOUS

\* An answer is the one that Tell gives.
LEMMA Tells ==
  ASSUME TypeOK, NEW r \in Requests, NEW what \in Answers,
         pc[r] \in Steps, Goto(r, what), UNCHANGED tok
  PROVE  Promise!Tell(r, what)
<1>1. \A q \in Requests : pc'[q] = IF q = r THEN what ELSE pc[q]
  BY DEF TypeOK, Goto
<1>2. pc[r] # "unsent" /\ what # "unsent" /\ what \notin Steps
  BY DEF Steps, Answers
<1> DEFINE told == [q \in Requests |->
                      CASE pc[q] = "unsent" -> "unasked"
                        [] pc[q] \in Steps -> "waits"
                        [] OTHER -> pc[q]]
<1>3. told[r] = "waits"
  BY <1>2
<1>4. \A q \in Requests : told'[q] = IF q = r THEN what ELSE told[q]
  <2>1. told'[r] = what
    BY <1>1, <1>2
  <2>2. \A q \in Requests \ {r} : told'[q] = told[q]
    BY <1>1
  <2> QED BY <2>1, <2>2
<1>5. /\ told = [q \in Requests |-> told[q]]
      /\ told' = [q \in Requests |-> told'[q]]
  OBVIOUS
<1>6. told' = [told EXCEPT ![r] = what]
  <2> HIDE DEF told
  <2> QED BY <1>4, <1>5, ChangedAt
<1> QED BY <1>3, <1>6 DEF Promise!Tell

\* Every step is one of the abstract session, or a stutter of it.
LEMMA StepSimulation ==
  ASSUME IInv, [Next]_vars
  PROVE  [Promise!Next]_(Promise!vars)
<1> USE NoneAssumption
<1>1. ASSUME NEW r \in Requests, Send(r) PROVE Promise!Present(r)
  <2>1. PICK t \in 0 .. newest : tok' = [tok EXCEPT ![r] = t]
    BY <1>1 DEF Send
  <2>2. pc[r] = "unsent" /\ UNCHANGED <<row, newest>>
    BY <1>1 DEF Send, Session
  <2>3. \A q \in Requests : pc'[q] = IF q = r THEN "select" ELSE pc[q]
    BY <1>1 DEF Send, Goto, IInv, TypeOK
  <2> QED BY <2>1, <2>2, <2>3 DEF Promise!Present, Steps
<1>2. ASSUME NEW r \in Requests, Refuse(r) \/ SwapFails(r) PROVE Promise!Fail({r})
  <2>1. pc[r] \in Steps /\ UNCHANGED <<row, newest, tok>>
    BY <1>2 DEF Refuse, SwapFails, Steps, Session, Sent
  <2>2. \A q \in Requests : pc'[q] = IF q = r THEN "error" ELSE pc[q]
    BY <1>2 DEF Refuse, SwapFails, Goto, IInv, TypeOK
  <2> QED BY <2>1, <2>2 DEF Promise!Fail, Steps
<1>3. ASSUME NEW r \in Requests, Select(r)
      PROVE  UNCHANGED Promise!vars \/ Promise!TurnAway(r)
  <2>1. pc[r] \in Steps /\ UNCHANGED <<row, newest, tok>>
    BY <1>3 DEF Select, Steps, Session
  <2>2. CASE row = None
    BY <1>3, <2>1, <2>2, Tells DEF Select, IInv, Promise!TurnAway, Answers
  <2>3. CASE row # None
    BY <1>3, <2>1, <2>3, StillWaits DEF Select, IInv, Steps
  <2> QED BY <2>2, <2>3
<1>4. ASSUME NEW r \in Requests,
             CompareEqual(r) \/ CompareRetired(r) \/ SwapLost(r) \/ GraceCheck(r)
      PROVE  UNCHANGED Promise!vars
  <2>1. pc[r] \in Steps /\ UNCHANGED <<row, newest, tok>>
    BY <1>4 DEF CompareEqual, CompareRetired, SwapLost, GraceCheck, Steps, Session, Sent
  <2>2. \E there \in Steps : Goto(r, there)
    BY <1>4 DEF CompareEqual, CompareRetired, SwapLost, GraceCheck, Steps
  <2> QED BY <2>1, <2>2, StillWaits DEF IInv
<1>5. ASSUME NEW r \in Requests, SwapWon(r) PROVE Promise!Trade(r)
  <2>1. row = tok[r] /\ row # None /\ row = newest /\ tok[r] \in Nat
    BY <1>5, MaxTokenAssumption DEF SwapWon, IInv, TypeOK, RowIsNewest, Tokens
  <2>2. row' # None /\ newest' = newest + 1
    BY <1>5, <2>1 DEF SwapWon
  <2>3. Promise!Tell(r, "rotated")
    BY <1>5, Tells DEF SwapWon, IInv, Steps, Answers, Sent
  <2> QED BY <2>1, <2>2, <2>3 DEF Promise!Trade
<1>6. ASSUME NEW r \in Requests, Validate(r) PROVE Promise!Serve(r) \/ Promise!TurnAway(r)
  <2>1. pc[r] = "validate" /\ UNCHANGED <<row, newest, tok>>
    BY <1>6 DEF Validate, Session, Sent
  <2>2. CASE row = None
    BY <1>6, <2>1, <2>2, Tells DEF Validate, IInv, Promise!TurnAway, Steps, Answers
  <2>3. CASE row # None
    <3>1. tok[r] < newest
      BY <2>1, <2>3 DEF IInv, Behind
    <3>2. Promise!Tell(r, "grace")
      BY <1>6, <2>1, <2>3, Tells DEF Validate, IInv, Steps, Answers
    <3> QED BY <2>1, <2>3, <3>1, <3>2 DEF Promise!Serve
  <2> QED BY <2>2, <2>3
<1>7. ASSUME NEW r \in Requests, Revoke(r) PROVE Promise!Revoke(r)
  <2>1. row # None => tok[r] < newest
    BY <1>7 DEF Revoke, IInv, Behind
  <2>2. Promise!Tell(r, "reused")
    BY <1>7, Tells DEF Revoke, IInv, Steps, Answers, Sent
  <2> QED BY <1>7, <2>1, <2>2 DEF Promise!Revoke, Revoke
<1>8. ASSUME EndSession PROVE Promise!End
  BY <1>8 DEF EndSession, Promise!End, Sent
<1>9. ASSUME Tick PROVE UNCHANGED Promise!vars
  BY <1>9, Unmoved DEF Tick, Session, Sent
<1>10. ASSUME Restart PROVE \E R \in SUBSET Requests : Promise!Fail(R)
  <2>1. PICK R \in SUBSET Requests : R = {r \in Requests : pc[r] \in Steps}
    OBVIOUS
  <2>2. Promise!Fail(R)
    BY <1>10, <2>1 DEF Restart, Promise!Fail, Steps, Sent
  <2> QED BY <2>2
<1>11. ASSUME UNCHANGED vars PROVE UNCHANGED Promise!vars
  BY <1>11, Unmoved DEF vars
<1>12. ASSUME NEW r \in Requests, Send(r) \/ Step(r) PROVE [Promise!Next]_(Promise!vars)
  <2>1. \A q \in Requests : {q} \in SUBSET Requests
    OBVIOUS
  <2> QED BY <1>1, <1>2, <1>3, <1>4, <1>5, <1>6, <1>7, <1>12, <2>1 DEF Step, Promise!Next
<1>13. CASE EndSession \/ Tick \/ Restart
  BY <1>8, <1>9, <1>10, <1>13 DEF Promise!Next
<1> QED BY <1>11, <1>12, <1>13 DEF Next

\* A session accepts exactly one refresh token, trades each once and serves
\* nobody when it has ended (auth.py:537-542): the requests with all their
\* interleavings and restarts implement OneTokenSession.
THEOREM RotationKeepsThePromise == Spec => Refinement
<1>1. Init => Promise!Init
  <2> SUFFICES ASSUME Init PROVE Promise!Init
    OBVIOUS
  <2>1. (row # None) = TRUE /\ newest = 0 /\ tok = [r \in Requests |-> 0]
    BY NoneAssumption DEF Init
  <2>2. \A r \in Requests : pc[r] = "unsent"
    BY DEF Init
  <2>3. [r \in Requests |-> CASE pc[r] = "unsent" -> "unasked"
                               [] pc[r] \in Steps -> "waits"
                               [] OTHER -> pc[r]] = [r \in Requests |-> "unasked"]
    BY <2>2 DEF Steps
  <2> QED BY <2>1, <2>3 DEF Promise!Init
<1>2. IInv /\ [Next]_vars => [Promise!Next]_(Promise!vars)
  BY StepSimulation
<1> QED
  BY <1>1, <1>2, InductiveInvariant, PTL DEF Spec, Refinement, Promise!Spec

-----------------------------------------------------------------------------
(* Tabs with one token *)

\* Among duplicates of one token, whoever is about to write has its token in
\* the entry, and once the row has moved on the entry still names it.
Duplicates ==
  /\ \A r \in alone : pc[r] # "unsent"
  /\ \A r \in alone : pc[r] \in Steps =>
       /\ row \notin {tok[r], None} => entry # None /\ entry.tok = tok[r]
       /\ \A q \in Requests : pc[q] = "swap" /\ tok[q] = tok[r] =>
            entry # None /\ entry.tok = tok[r]

TabsInv == IInv /\ Duplicates

\* No step of one request, nor anything around them, breaks it: a remembered
\* token drops from alone whoever presents another.
LEMMA DuplicatesKept ==
  ASSUME TabsInv, [Next]_vars
  PROVE  Duplicates'
<1> USE NoneAssumption DEF TabsInv, Duplicates, IInv, TypeOK, Steps, Goto, Session, Sent
<1>1. ASSUME NEW r \in Requests, Send(r) PROVE Duplicates'
  <2>1. PICK t \in 0 .. newest :
          /\ tok' = [tok EXCEPT ![r] = t]
          /\ \/ alone' = alone
             \/ /\ alone' = alone \cup {r} /\ t = row
                /\ \A q \in Requests : pc[q] \in Steps => q \in alone /\ tok[q] = t
    BY <1>1 DEF Send
  <2>2. UNCHANGED <<row, entry>> /\ pc[r] = "unsent" /\ pc' = [pc EXCEPT ![r] = "select"]
    BY <1>1 DEF Send
  <2>3. ASSUME NEW q \in alone', pc'[q] \in Steps, q # r
        PROVE  /\ row' \notin {tok'[q], None} => entry' # None /\ entry'.tok = tok'[q]
               /\ \A o \in Requests : pc'[o] = "swap" /\ tok'[o] = tok'[q] =>
                    entry' # None /\ entry'.tok = tok'[q]
    BY <2>1, <2>2, <2>3
  <2>4. ASSUME r \in alone', t = row,
               \A q \in Requests : pc[q] \in Steps => q \in alone /\ tok[q] = t
        PROVE  /\ row' \notin {tok'[r], None} => entry' # None /\ entry'.tok = tok'[r]
               /\ \A o \in Requests : pc'[o] = "swap" /\ tok'[o] = tok'[r] =>
                    entry' # None /\ entry'.tok = tok'[r]
    BY <2>1, <2>2, <2>4
  <2>5. r \notin alone
    BY <2>2
  <2>6. \A q \in alone' : pc'[q] # "unsent"
    BY <2>1, <2>2
  <2> QED BY <2>1, <2>3, <2>4, <2>5, <2>6
<1>2. ASSUME NEW r \in Requests, CompareEqual(r) PROVE Duplicates'
  <2>1. /\ entry' = [tok |-> tok[r], age |-> 0] /\ tok' = tok
        /\ alone' = {q \in alone : tok[q] = tok[r]}
    BY <1>2 DEF CompareEqual, Remember
  <2>2. tok[r] \in Nat
    BY MaxTokenAssumption DEF Tokens
  <2>3. entry' # None /\ entry'.tok = tok[r]
    BY <2>1, <2>2
  <2>4. \A q \in Requests : pc'[q] = "unsent" => pc[q] = "unsent"
    BY <1>2 DEF CompareEqual
  <2> QED BY <2>1, <2>3, <2>4
<1>3. ASSUME NEW r \in Requests, SwapWon(r) PROVE Duplicates'
  BY <1>3 DEF SwapWon, Tokens
<1>4. ASSUME NEW r \in Requests,
             \/ Refuse(r) \/ Select(r) \/ CompareRetired(r) \/ SwapLost(r) \/ SwapFails(r)
             \/ GraceCheck(r) \/ Validate(r) \/ Revoke(r)
      PROVE  Duplicates'
  BY <1>4 DEF Refuse, Select, CompareRetired, SwapLost, SwapFails, GraceCheck, Validate, Revoke
<1>5. CASE EndSession \/ Restart
  BY <1>5 DEF EndSession, Restart
<1>6. CASE Tick
  <2>1. entry # None => entry' # None /\ entry'.tok = entry.tok
    BY <1>6, MaxTokenAssumption, GraceAssumption DEF Tick, Tokens
  <2> QED BY <1>6, <2>1 DEF Tick
<1>7. CASE UNCHANGED vars
  BY <1>7 DEF vars
<1> QED BY <1>1, <1>2, <1>3, <1>4, <1>5, <1>6, <1>7 DEF Next, Step

\* What is carried for the tabs holds in every reachable state.
THEOREM TabsInvariant == Spec => []TabsInv
<1>1. Init => Duplicates
  BY DEF Init, Duplicates
<1>2. TabsInv /\ [Next]_vars => TabsInv'
  BY DuplicatesKept, NextKeeps DEF TabsInv
<1> QED BY <1>1, <1>2, InitIInv, PTL DEF Spec, TabsInv

\* auth.py's grace: of two tabs with one token, whichever resumes first, none is
\* taken for a replay before the grace has run out.
THEOREM TabsSurvive == Spec => SameTokenTabsSurvive
<1> DEFINE Survives(r) == pc[r] = "gracecheck" /\ pc'[r] = "revoke" =>
                            \/ row = None
                            \/ entry # None /\ entry.tok = tok[r] /\ entry.age = Grace
<1>1. ASSUME TabsInv, [Next]_vars, NEW r \in alone PROVE Survives(r)
  <2> SUFFICES ASSUME pc[r] = "gracecheck", pc'[r] = "revoke", row # None
               PROVE  entry # None /\ entry.tok = tok[r] /\ entry.age = Grace
    OBVIOUS
  <2>1. r \in Requests /\ row \notin {tok[r], None}
    BY <1>1 DEF TabsInv, IInv, TypeOK, RowIsNewest, Behind, Tokens
  <2>2. entry # None /\ entry.tok = tok[r] /\ entry.age \in 0 .. Grace
    BY <1>1, <2>1 DEF TabsInv, Duplicates, Steps, IInv, TypeOK
  <2>3. GraceCheck(r)
    <3>1. ASSUME NEW q \in Requests, Send(q) \/ Step(q) PROVE GraceCheck(r)
      BY <1>1, <2>1, <3>1
         DEF TabsInv, IInv, TypeOK, Send, Step, Refuse, Select, CompareEqual, CompareRetired,
             SwapWon, SwapLost, SwapFails, GraceCheck, Validate, Revoke, Goto
    <3>2. CASE EndSession \/ Tick \/ Restart \/ UNCHANGED vars
      BY <1>1, <2>1, <3>2 DEF EndSession, Tick, Restart, Steps, vars, TabsInv, IInv, TypeOK
    <3> QED BY <1>1, <3>1, <3>2 DEF Next
  <2>4. ~WithinGrace(r)
    BY <1>1, <2>1, <2>3 DEF GraceCheck, Goto, TabsInv, IInv, TypeOK
  <2> QED BY <2>2, <2>4, GraceAssumption DEF WithinGrace
<1>2. TabsInv /\ [Next]_vars => [\A r \in alone : Survives(r)]_vars
  BY <1>1
<1> QED BY <1>2, TabsInvariant, PTL DEF Spec, SameTokenTabsSurvive
=============================================================================
