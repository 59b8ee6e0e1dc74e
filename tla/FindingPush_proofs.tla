------------------------ MODULE FindingPush_proofs ------------------------
(***************************************************************************)
(* The promises of FindingPush for any number of findings, clicks and      *)
(* attempts.                                                               *)
(*                                                                         *)
(* The argument: a reservation belongs to one click from the moment it is  *)
(* inserted until an operator removes it, and the operator removes it only *)
(* when nothing of that click is left at the ticket system.  Hence         *)
(* everything sent or created for a finding is the latest POST of the      *)
(* click that holds its reservation, which is one POST.                    *)
(***************************************************************************)
EXTENDS FindingPush, TLAPS

\* A click past its reservation and not yet answered.
Pushing(r) == pc[r] \in {"push", "await", "record", "finish", "settle"}

\* A click that has not sent anything (it may still be between attempts).
SentNothing(r) == pc[r] \in {"lookup", "reserve", "conflict", "push"}

\* Whoever is pushing holds the reservation, and nobody pushes while the hub
\* is down.
Holding ==
  /\ \A r \in Requests : Pushing(r) => Own(r)
  /\ hub = "down" => \A r \in Requests : pc[r] \in {"lookup", "over"}

\* What the ticket system holds or is about to hold is the latest POST of
\* the reservation's holder.
Footprint ==
  \A p \in wire \cup objects :
    /\ p = ThisPost(p[1])
    /\ Own(p[1])
    /\ ~SentNothing(p[1])

\* The POST whose answer is being recorded did create its object, and only
\* a finished click has an answer.
Recording ==
  /\ \A r \in Requests : pc[r] \in {"record", "finish"} => ThisPost(r) \in objects
  /\ \A r \in Requests : pc[r] = "finish" => ticket[finding[r]] # None
  /\ \A r \in Requests : answer[r] # "none" => pc[r] = "over"

IInv == TypeOK /\ Holding /\ Footprint /\ Recording /\ RecordsAreTrue /\ AnswersAreTrue

-----------------------------------------------------------------------------
(* One reservation has one holder, and one holder has one POST. *)
LEMMA OneHolder ==
  ASSUME NEW r \in Requests, NEW s \in Requests,
         Own(r), Own(s), finding[r] = finding[s]
  PROVE  r = s
BY DEF Own

(* Two POSTs at the ticket system for one finding are the same POST. *)
LEMMA OnePost ==
  ASSUME TypeOK, Footprint,
         NEW p \in wire \cup objects, NEW q \in wire \cup objects,
         finding[p[1]] = finding[q[1]]
  PROVE  p = q
<1>1. p[1] \in Requests /\ q[1] \in Requests
  BY DEF TypeOK, Posts
<1>2. Own(p[1]) /\ Own(q[1]) /\ p = ThisPost(p[1]) /\ q = ThisPost(q[1])
  BY DEF Footprint
<1>3. p[1] = q[1]
  BY <1>1, <1>2, OneHolder
<1> QED
  BY <1>2, <1>3

(* The strengthened invariant gives every promise of the specification. *)
LEMMA IInvImplies ==
  ASSUME IInv
  PROVE  /\ TypeOK
         /\ AtMostOneObject
         /\ NoObjectForgotten
         /\ RecordsAreTrue
         /\ AnswersAreTrue
<1> USE DEF IInv
<1>1. AtMostOneObject
  BY OnePost DEF AtMostOneObject
<1>2. NoObjectForgotten
  <2> SUFFICES ASSUME NEW p \in objects,
                      ~(op[finding[p[1]]] # None /\ op[finding[p[1]]].status # "succeeded")
               PROVE  ticket[finding[p[1]]] = p
    BY DEF NoObjectForgotten
  <2> DEFINE f == finding[p[1]]
  <2>1. p[1] \in Requests /\ f \in Findings
    BY DEF TypeOK, Posts
  <2>2. Own(p[1])
    BY DEF Footprint
  <2>3. op[f] # None /\ op[f].status = "succeeded"
    BY <2>2 DEF Own
  <2>4. ticket[f] \in objects /\ finding[ticket[f][1]] = f
    BY <2>1, <2>3 DEF RecordsAreTrue
  <2> QED
    BY <2>4, OnePost
<1> QED
  BY <1>1, <1>2

-----------------------------------------------------------------------------
\* The invariant holds at the start.
LEMMA InitIInv == Init => IInv
<1> SUFFICES ASSUME Init PROVE IInv
  OBVIOUS
<1> USE DEF Init
<1>1. TypeOK
  BY MaxAttemptsAssumption DEF TypeOK
<1>2. Holding
  BY DEF Holding, Pushing
<1>3. Footprint
  BY DEF Footprint
<1>4. Recording
  BY DEF Recording
<1>5. RecordsAreTrue
  BY DEF RecordsAreTrue
<1>6. AnswersAreTrue
  BY DEF AnswersAreTrue
<1> QED
  BY <1>1, <1>2, <1>3, <1>4, <1>5, <1>6 DEF IInv

(* Settling a reservation changes its status and nothing else: the row stays, *)
(* with the holder it had, and so do all other rows.                          *)
LEMMA StatusUpdate ==
  ASSUME TypeOK, NEW f \in Findings, NEW status \in Statuses, op[f] # None,
         op' = [op EXCEPT ![f].status = status], UNCHANGED finding
  PROVE  /\ op' \in [Findings -> Row \cup {None}]
         /\ \A r \in Requests : Own(r)' <=> Own(r)
         /\ \A g \in Findings : g # f => op'[g] = op[g]
         /\ op'[f].status = status
<1>1. op[f] \in Row
  BY DEF TypeOK
<1>2. op'[f] \in Row /\ op'[f].by = op[f].by /\ op'[f].status = status
  BY <1>1 DEF TypeOK, Row
<1>3. \A g \in Findings : g # f => op'[g] = op[g]
  BY DEF TypeOK
<1>4. op' \in [Findings -> Row \cup {None}]
  BY <1>2, <1>3 DEF TypeOK
<1>5. ASSUME NEW r \in Requests
      PROVE  Own(r)' <=> Own(r)
  BY <1>2, <1>3, NoneAssumption DEF TypeOK, Own
<1> QED
  BY <1>2, <1>3, <1>4, <1>5

(* The steps of a click that touch neither the tables nor the wire. *)
LEMMA LocalStepsKeep ==
  ASSUME IInv, NEW r \in Requests,
         \/ Lookup(r) \/ Conflict(r) \/ Dropped(r) \/ Unsent(r) \/ Accepted(r)
         \/ Throttled(r) \/ Ambiguous(r) \/ Interrupted(r)
  PROVE  IInv'
<1> USE DEF IInv, Lookup, Conflict, Dropped, Unsent, Accepted, Throttled, Ambiguous, Interrupted,
            RetryOrRaise, At, Goto, Reply, Tables, Remote
<1>1. TypeOK'
  BY MaxAttemptsAssumption DEF TypeOK
<1>2. Holding'
  BY DEF TypeOK, Holding, Pushing, Own
<1>3. Footprint'
  BY DEF TypeOK, Posts, Holding, Footprint, Pushing, SentNothing, Own, ThisPost
<1>4. Recording'
  BY DEF TypeOK, Recording, ThisPost
<1>5. RecordsAreTrue'
  BY DEF TypeOK, RecordsAreTrue
<1>6. AnswersAreTrue'
  BY DEF TypeOK, Recording, AnswersAreTrue, ThisPost
<1> QED
  BY <1>1, <1>2, <1>3, <1>4, <1>5, <1>6

\* A reservation is of a free row, which nothing has been sent for.
LEMMA ReserveKeeps ==
  ASSUME IInv, NEW r \in Requests, Reserve(r)
  PROVE  IInv'
<1> USE DEF IInv, Reserve, At, Goto, Reply, Tables, Remote
<1>1. TypeOK'
  BY DEF TypeOK, Posts, Row, Statuses
<1>2. Holding'
  BY NoneAssumption DEF TypeOK, Holding, Pushing, Own, Row, Statuses
<1>3. Footprint'
  BY DEF TypeOK, Posts, Holding, Footprint, Pushing, SentNothing, Own, ThisPost
<1>4. Recording'
  BY DEF TypeOK, Recording, ThisPost
<1>5. RecordsAreTrue'
  BY DEF TypeOK, Recording, RecordsAreTrue
<1>6. AnswersAreTrue'
  BY DEF TypeOK, Recording, AnswersAreTrue, ThisPost
<1> QED
  BY <1>1, <1>2, <1>3, <1>4, <1>5, <1>6

\* What is sent is the latest POST of the click that owns the row.
LEMMA SendKeeps ==
  ASSUME IInv, NEW r \in Requests, Send(r)
  PROVE  IInv'
<1> USE DEF IInv, Send, At, Goto, Tables, Remote
<1>1. TypeOK'
  BY DEF TypeOK, Posts, ThisPost
<1>2. Holding'
  BY DEF TypeOK, Holding, Pushing, Own
<1>3. Footprint'
  BY DEF TypeOK, Posts, Holding, Footprint, Pushing, SentNothing, Own, ThisPost
<1>4. Recording'
  BY DEF TypeOK, Recording, ThisPost
<1>5. RecordsAreTrue'
  BY DEF TypeOK, Recording, RecordsAreTrue
<1>6. AnswersAreTrue'
  BY DEF TypeOK, Recording, AnswersAreTrue, ThisPost
<1> QED
  BY <1>1, <1>2, <1>3, <1>4, <1>5, <1>6

\* What is recorded is an object of the finding.
LEMMA RecordTicketKeeps ==
  ASSUME IInv, NEW r \in Requests, RecordTicket(r)
  PROVE  IInv'
<1> USE DEF IInv, RecordTicket, At, Goto, Tables, Remote
<1> DEFINE f == finding[r]
<1>1. ThisPost(r) \in objects /\ ThisPost(r) \in Posts /\ finding[ThisPost(r)[1]] = f
  BY DEF TypeOK, Posts, Recording, ThisPost
<1>2. ticket'[f] = (IF ticket[f] = None THEN ThisPost(r) ELSE ticket[f])
  BY DEF TypeOK
<1>3. ticket'[f] # None /\ \A g \in Findings : ticket[g] # None => ticket'[g] = ticket[g]
  BY <1>1, <1>2, NoneAssumption DEF TypeOK
<1>4. TypeOK'
  BY <1>1 DEF TypeOK
<1>5. Holding'
  BY DEF TypeOK, Holding, Pushing, Own
<1>6. Footprint'
  BY DEF TypeOK, Posts, Footprint, SentNothing, Own, ThisPost
<1>7. Recording'
  BY <1>3 DEF TypeOK, Recording, ThisPost
<1>8. RecordsAreTrue'
  BY <1>1, <1>2, <1>3 DEF TypeOK, RecordsAreTrue
<1>9. ASSUME NEW s \in Requests
      PROVE  AnswersAreTrue!(s)'
  <2>1. answer[s] = "created" => ticket[finding[s]] # None
    BY NoneAssumption DEF TypeOK, AnswersAreTrue, ThisPost, Posts
  <2> QED
    BY <2>1, <1>3 DEF TypeOK, AnswersAreTrue, ThisPost
<1> QED
  BY <1>4, <1>5, <1>6, <1>7, <1>8, <1>9 DEF AnswersAreTrue

\* A click that has recorded its ticket settles its own row.
LEMMA FinishOperationKeeps ==
  ASSUME IInv, NEW r \in Requests, FinishOperation(r)
  PROVE  IInv'
<1> USE DEF IInv, FinishOperation, At, Goto, Reply, Tables, Remote
<1> DEFINE f == finding[r]
<1>1. f \in Findings /\ op[f] # None /\ op' = [op EXCEPT ![f].status = "succeeded"]
  BY DEF TypeOK, Holding, Pushing, Own, SetStatus
<1>2. /\ op' \in [Findings -> Row \cup {None}]
      /\ \A s \in Requests : Own(s)' <=> Own(s)
      /\ \A g \in Findings : g # f => op'[g] = op[g]
  BY <1>1, StatusUpdate DEF Statuses
<1>3. ticket[f] = ThisPost(r)
  <2>1. ticket[f] \in objects /\ finding[ticket[f][1]] = f
    BY <1>1 DEF Recording, RecordsAreTrue
  <2>2. ThisPost(r) \in objects /\ finding[ThisPost(r)[1]] = f
    BY DEF Recording, ThisPost
  <2> QED
    BY <2>1, <2>2, OnePost
<1>4. TypeOK'
  BY <1>2 DEF TypeOK
<1>5. Holding'
  BY <1>2 DEF TypeOK, Holding, Pushing
<1>6. Footprint'
  BY <1>2 DEF TypeOK, Posts, Footprint, SentNothing, ThisPost
<1>7. Recording'
  BY DEF TypeOK, Recording, ThisPost
<1>8. RecordsAreTrue'
  BY <1>2 DEF TypeOK, Recording, RecordsAreTrue
<1>9. AnswersAreTrue'
  BY <1>3 DEF TypeOK, AnswersAreTrue, ThisPost
<1> QED
  BY <1>4, <1>5, <1>6, <1>7, <1>8, <1>9

\* A click that failed marks its own row unknown, or leaves it.
LEMMA SettleKeeps ==
  ASSUME IInv, NEW r \in Requests, Settle(r)
  PROVE  IInv'
<1> USE DEF IInv, Settle, At, Reply, Tables, Remote
<1> DEFINE f == finding[r]
<1>1. f \in Findings /\ op[f] # None
  BY DEF TypeOK, Holding, Pushing, Own
<1>2. op' = [op EXCEPT ![f].status = "unknown"] \/ UNCHANGED op
  BY DEF SetStatus
<1>3. /\ op' \in [Findings -> Row \cup {None}]
      /\ \A s \in Requests : Own(s)' <=> Own(s)
      /\ \A g \in Findings : op'[g] = op[g] \/ op'[g].status = "unknown"
  <2>1. CASE op' = [op EXCEPT ![f].status = "unknown"]
    BY <1>1, <2>1, StatusUpdate DEF Statuses
  <2>2. CASE UNCHANGED op
    BY <2>2 DEF TypeOK, Own
  <2> QED
    BY <1>2, <2>1, <2>2
<1>4. TypeOK'
  BY <1>3 DEF TypeOK
<1>5. Holding'
  BY <1>3 DEF TypeOK, Holding, Pushing
<1>6. Footprint'
  BY <1>3 DEF TypeOK, Posts, Footprint, SentNothing, ThisPost
<1>7. Recording'
  BY DEF TypeOK, Recording, ThisPost
<1>8. RecordsAreTrue'
  BY <1>3 DEF TypeOK, RecordsAreTrue
<1>9. AnswersAreTrue'
  BY DEF TypeOK, AnswersAreTrue, ThisPost
<1> QED
  BY <1>4, <1>5, <1>6, <1>7, <1>8, <1>9

(* The ticket system deals with a POST, in either way. *)
LEMMA RemoteStepsKeep ==
  ASSUME IInv, NEW p \in wire, Apply(p) \/ Refuse(p)
  PROVE  IInv'
<1> USE DEF IInv, Apply, Refuse, Tables
<1>1. TypeOK'
  BY DEF TypeOK
<1>2. Holding'
  BY DEF TypeOK, Holding, Pushing, Own
<1>3. Footprint'
  BY DEF TypeOK, Posts, Holding, Footprint, Pushing, SentNothing, Own, ThisPost
<1>4. Recording'
  BY DEF TypeOK, Recording, ThisPost
<1>5. RecordsAreTrue'
  BY DEF TypeOK, RecordsAreTrue
<1>6. AnswersAreTrue'
  BY DEF TypeOK, Recording, AnswersAreTrue, ThisPost
<1> QED
  BY <1>1, <1>2, <1>3, <1>4, <1>5, <1>6

\* A stop drops the clicks and keeps the tables.
LEMMA StopAndStartKeep ==
  ASSUME IInv, Stop \/ Start
  PROVE  IInv'
<1> USE DEF IInv, Stop, Start, Tables, Remote
<1>1. TypeOK'
  BY DEF TypeOK
<1>2. Holding'
  BY DEF TypeOK, Holding, Pushing, Own
<1>3. Footprint'
  BY DEF TypeOK, Posts, Holding, Footprint, Pushing, SentNothing, Own, ThisPost
<1>4. Recording'
  BY DEF TypeOK, Recording, ThisPost
<1>5. RecordsAreTrue'
  BY DEF TypeOK, RecordsAreTrue
<1>6. AnswersAreTrue'
  BY DEF TypeOK, Recording, AnswersAreTrue, ThisPost
<1> QED
  BY <1>1, <1>2, <1>3, <1>4, <1>5, <1>6

\* The operator names an object of the finding while the hub is down.
LEMMA ReconcileCreatedKeeps ==
  ASSUME IInv, NEW f \in Findings, NEW p \in objects, ReconcileCreated(f, p)
  PROVE  IInv'
<1> USE DEF IInv, ReconcileCreated, Unresolved, Remote
<1>1. /\ op' \in [Findings -> Row \cup {None}]
      /\ \A s \in Requests : Own(s)' <=> Own(s)
      /\ \A g \in Findings : g # f => op'[g] = op[g]
  BY StatusUpdate DEF Statuses
<1>2. p \in Posts /\ p # None
  BY NoneAssumption DEF TypeOK
<1>3. \A g \in Findings : ticket'[g] = IF g = f THEN p ELSE ticket[g]
  BY DEF TypeOK
<1>4. TypeOK'
  BY <1>1, <1>2 DEF TypeOK
<1>5. Holding'
  BY <1>1 DEF TypeOK, Holding, Pushing
<1>6. Footprint'
  BY <1>1 DEF TypeOK, Posts, Footprint, SentNothing, ThisPost
<1>7. Recording'
  BY <1>2, <1>3 DEF TypeOK, Recording, ThisPost
<1>8. RecordsAreTrue'
  BY <1>1, <1>2, <1>3 DEF TypeOK, RecordsAreTrue
<1>9. ASSUME NEW s \in Requests
      PROVE  AnswersAreTrue!(s)'
  <2>1. answer[s] = "created" => ticket[finding[s]] # None
    BY NoneAssumption DEF TypeOK, AnswersAreTrue, ThisPost, Posts
  <2> QED
    BY <2>1, <1>2, <1>3 DEF TypeOK, AnswersAreTrue, ThisPost
<1> QED
  BY <1>4, <1>5, <1>6, <1>7, <1>8, <1>9 DEF AnswersAreTrue

\* The operator releases a row for which nothing was made.
LEMMA ReconcileNothingKeeps ==
  ASSUME IInv, NEW f \in Findings, ReconcileNothing(f)
  PROVE  IInv'
<1> USE DEF IInv, ReconcileNothing, Unresolved, Tables, Remote
<1>1. TypeOK'
  BY DEF TypeOK, Posts, Row, Statuses
<1>2. Holding'
  BY DEF TypeOK, Holding, Pushing, Own
<1>3. Footprint'
  BY DEF TypeOK, Posts, Holding, Footprint, Pushing, SentNothing, Own, ThisPost
<1>4. Recording'
  BY DEF TypeOK, Recording, ThisPost
<1>5. RecordsAreTrue'
  BY DEF TypeOK, Recording, RecordsAreTrue
<1>6. AnswersAreTrue'
  BY DEF TypeOK, Recording, AnswersAreTrue, ThisPost
<1> QED
  BY <1>1, <1>2, <1>3, <1>4, <1>5, <1>6

\* A stutter keeps the invariant.
LEMMA StutterKeeps ==
  ASSUME IInv, UNCHANGED vars
  PROVE  IInv'
BY DEF IInv, vars, TypeOK, Holding, Pushing, Own, Footprint, SentNothing, ThisPost,
       Recording, RecordsAreTrue, AnswersAreTrue

\* Every step keeps the invariant.
LEMMA NextIInv == IInv /\ [Next]_vars => IInv'
<1> SUFFICES ASSUME IInv, [Next]_vars PROVE IInv'
  OBVIOUS
<1>1. ASSUME NEW r \in Requests,
             \/ Lookup(r) \/ Reserve(r) \/ Conflict(r) \/ Dropped(r)
             \/ Send(r) \/ Unsent(r) \/ Accepted(r) \/ Throttled(r) \/ Ambiguous(r)
             \/ RecordTicket(r) \/ FinishOperation(r)
             \/ Interrupted(r) \/ Settle(r)
      PROVE  IInv'
  BY <1>1, LocalStepsKeep, ReserveKeeps, SendKeeps, RecordTicketKeeps,
     FinishOperationKeeps, SettleKeeps
<1>2. ASSUME NEW p \in wire, Apply(p) \/ Refuse(p)
      PROVE  IInv'
  BY <1>2, RemoteStepsKeep
<1>3. CASE Stop \/ Start
  BY <1>3, StopAndStartKeep
<1>4. ASSUME NEW f \in Findings,
             (\E p \in objects : ReconcileCreated(f, p)) \/ ReconcileNothing(f)
      PROVE  IInv'
  BY <1>4, ReconcileCreatedKeeps, ReconcileNothingKeeps
<1>5. CASE UNCHANGED vars
  BY <1>5, StutterKeeps
<1> QED
  BY <1>1, <1>2, <1>3, <1>4, <1>5 DEF Next

-----------------------------------------------------------------------------
(* The strengthened invariant holds in every reachable state. *)
THEOREM InductiveInvariant == Spec => []IInv
BY InitIInv, NextIInv, PTL DEF Spec

(* Every variable keeps its type. *)
THEOREM TypeCorrect == Spec => []TypeOK
BY InductiveInvariant, IInvImplies, PTL

(* However many technicians click, and however often the hub stops, retries *)
(* or loses an answer, a finding never has two objects in the ticket system *)
(* (_push_finding and send_with_retry).                                     *)
THEOREM ExactlyOnce == Spec => []AtMostOneObject
BY InductiveInvariant, IInvImplies, PTL

(* An object that exists is the ticket on record, or an unsettled           *)
(* reservation still shows it to the operator (reserve_operation,           *)
(* finish_operation and the reconciliation script).                         *)
THEOREM NothingForgotten == Spec => []NoObjectForgotten
BY InductiveInvariant, IInvImplies, PTL

(* The two tables never claim a ticket that is not there. *)
THEOREM RecordsStayTrue == Spec => []RecordsAreTrue
BY InductiveInvariant, IInvImplies, PTL

(* What _push_finding tells its caller is so, and its duplicate branch is   *)
(* dead code.                                                               *)
THEOREM AnswersStayTrue == Spec => []AnswersAreTrue
BY InductiveInvariant, IInvImplies, PTL

-----------------------------------------------------------------------------
(* The abstract state, for the refinement proof. *)
Claimed == {f \in Findings : op[f] # None}
Filed == [f \in Findings |-> {p \in objects : finding[p[1]] = f}]

(* A reservation, a remote creation, a recording and a reconciled "nothing  *)
(* happened" are the abstract steps; everything else is invisible.          *)
LEMMA StepSimulation ==
  ASSUME IInv, IInv', [Next]_vars
  PROVE  [Promise!Next]_(Promise!vars)
<1> DEFINE Seen == <<Claimed, Filed, ticket>>
<1>0. (UNCHANGED Seen) => UNCHANGED Promise!vars
  BY DEF Promise!vars, Claimed, Filed
<1>1. ASSUME UNCHANGED <<finding, op, ticket, objects>>
      PROVE  UNCHANGED Seen
  BY <1>1 DEF Claimed, Filed
<1>2. ASSUME NEW r \in Requests, Lookup(r) \/ Conflict(r) \/ Dropped(r) \/ Send(r) \/
             Unsent(r) \/ Accepted(r) \/ Throttled(r) \/ Ambiguous(r) \/ Interrupted(r)
      PROVE  UNCHANGED Seen
  BY <1>1, <1>2 DEF Lookup, Conflict, Dropped, Send, Unsent, Accepted, Throttled, Ambiguous,
                    Interrupted, Tables, Remote
<1>3. ASSUME NEW r \in Requests, Reserve(r)
      PROVE  (UNCHANGED Seen) \/ \E f \in Findings : Promise!Claim(f)
  <2>1. CASE op[finding[r]] # None
    BY <1>1, <1>3, <2>1 DEF Reserve, Remote
  <2>2. CASE op[finding[r]] = None
    <3>1. finding[r] \in Findings /\ finding[r] \notin Claimed
      BY <2>2 DEF Claimed, IInv, TypeOK
    <3>2. op'[finding[r]] # None /\ \A g \in Findings : g # finding[r] => op'[g] = op[g]
      BY <1>3, <2>2, NoneAssumption DEF Reserve, IInv, TypeOK, Row, Statuses
    <3>3. Claimed' = Claimed \cup {finding[r]}
      BY <3>1, <3>2 DEF Claimed
    <3>4. UNCHANGED <<Filed, ticket>>
      BY <1>3 DEF Reserve, Remote, Filed
    <3> QED
      BY <3>1, <3>3, <3>4 DEF Promise!Claim, Claimed, Filed
  <2> QED
    BY <2>1, <2>2
<1>4. ASSUME NEW r \in Requests, FinishOperation(r) \/ Settle(r)
      PROVE  UNCHANGED Seen
  <2>1. finding[r] \in Findings /\ Own(r)
    BY <1>4 DEF FinishOperation, Settle, At, IInv, TypeOK, Holding, Pushing
  <2>2. \A status \in Statuses : SetStatus(r, status) => \A g \in Findings : (op'[g] = None <=> op[g] = None)
    BY <2>1, NoneAssumption DEF SetStatus, Own, IInv, TypeOK, Row
  <2>3. \A g \in Findings : (op'[g] = None <=> op[g] = None)
    BY <1>4, <2>2 DEF FinishOperation, Settle, Statuses
  <2> QED
    BY <1>4, <2>3 DEF FinishOperation, Settle, Remote, Claimed, Filed
<1>5. ASSUME NEW r \in Requests, RecordTicket(r)
      PROVE  (UNCHANGED Seen) \/ \E f \in Findings, p \in Posts : Promise!Record(f, p)
  <2>1. finding[r] \in Findings /\ ThisPost(r) \in Posts /\ ThisPost(r) \in Filed[finding[r]]
    BY <1>5 DEF RecordTicket, At, IInv, TypeOK, Posts, Recording, ThisPost, Filed
  <2>2. UNCHANGED <<Claimed, Filed>>
    BY <1>5 DEF RecordTicket, Remote, Claimed, Filed
  <2>3. CASE ticket[finding[r]] = None
    BY <1>5, <2>1, <2>2, <2>3 DEF RecordTicket, Promise!Record, Claimed, Filed
  <2>4. CASE ticket[finding[r]] # None
    BY <1>5, <2>2, <2>4 DEF RecordTicket, IInv, TypeOK
  <2> QED
    BY <2>3, <2>4
<1>6. ASSUME NEW p \in wire, Apply(p)
      PROVE  (UNCHANGED Seen) \/ \E g \in Findings, q \in Posts : Promise!File(g, q)
  <2> DEFINE f == finding[p[1]]
  <2>1. p \in Posts /\ f \in Findings /\ f \in Claimed
    BY DEF IInv, TypeOK, Posts, Footprint, Own, Claimed
  <2>2. CASE p \in objects
    BY <1>1, <1>6, <2>2 DEF Apply, Tables
  <2>3. CASE p \notin objects
    <3>1. Filed[f] = {}
      BY <2>1, <2>3, OnePost DEF IInv, Filed
    <3>2. Filed' = [Filed EXCEPT ![f] = {p}]
      <4>1. ASSUME NEW g \in Findings
            PROVE  Filed'[g] = IF g = f THEN {p} ELSE Filed[g]
        BY <1>6, <3>1 DEF Apply, Filed
      <4> QED
        BY <2>1, <4>1 DEF Filed
    <3> QED
      BY <1>6, <2>1, <3>1, <3>2 DEF Apply, Tables, Promise!File, Claimed, Filed
  <2> QED
    BY <2>2, <2>3
<1>7. ASSUME (\E p \in wire : Refuse(p)) \/ Stop \/ Start \/ UNCHANGED vars
      PROVE  UNCHANGED Seen
  BY <1>1, <1>7 DEF Refuse, Stop, Start, vars, Tables, Remote
<1>8. ASSUME NEW f \in Findings, NEW p \in objects, ReconcileCreated(f, p)
      PROVE  (UNCHANGED Seen) \/ Promise!Record(f, p)
  <2>1. p \in Filed[f]
    BY <1>8 DEF ReconcileCreated, Filed
  <2>2. UNCHANGED Filed
    BY <1>8 DEF ReconcileCreated, Remote, Filed
  <2>3. UNCHANGED Claimed
    <3>1. \A g \in Findings : (op'[g] = None <=> op[g] = None)
      BY <1>8, NoneAssumption DEF ReconcileCreated, Unresolved, IInv, TypeOK, Row, Statuses
    <3> QED
      BY <3>1 DEF Claimed
  <2>4. CASE ticket[f] = None
    BY <1>8, <2>1, <2>2, <2>3, <2>4 DEF ReconcileCreated, Promise!Record, Claimed, Filed
  <2>5. CASE ticket[f] = p
    BY <1>8, <2>2, <2>3, <2>5 DEF ReconcileCreated, IInv, TypeOK
  <2> QED
    BY <1>8, <2>4, <2>5 DEF ReconcileCreated
<1>9. ASSUME NEW f \in Findings, ReconcileNothing(f)
      PROVE  Promise!GiveUp(f)
  <2>1. f \in Claimed /\ Filed[f] = {}
    BY <1>9 DEF ReconcileNothing, Unresolved, Claimed, Filed
  <2>2. Claimed' = Claimed \ {f}
    BY <1>9 DEF ReconcileNothing, IInv, TypeOK, Claimed
  <2>3. UNCHANGED <<Filed, ticket>>
    BY <1>9 DEF ReconcileNothing, Remote, Filed
  <2> QED
    BY <2>1, <2>2, <2>3 DEF Promise!GiveUp, Claimed, Filed
<1> DEFINE Simulated == [Promise!Next]_(Promise!vars)
<1>10. (UNCHANGED Seen) => Simulated
  BY <1>0
<1>11. ASSUME NEW f \in Findings,
              \/ Promise!Claim(f) \/ Promise!GiveUp(f)
              \/ \E p \in Posts : Promise!File(f, p) \/ Promise!Record(f, p)
       PROVE  Simulated
  BY <1>11 DEF Promise!Next
<1>13. \A p \in wire \cup objects : p \in Posts /\ finding[p[1]] \in Findings
  BY DEF IInv, TypeOK, Posts
<1>14. ASSUME NEW r \in Requests,
              \/ Lookup(r) \/ Reserve(r) \/ Conflict(r) \/ Dropped(r)
              \/ Send(r) \/ Unsent(r) \/ Accepted(r) \/ Throttled(r) \/ Ambiguous(r)
              \/ RecordTicket(r) \/ FinishOperation(r)
              \/ Interrupted(r) \/ Settle(r)
       PROVE  Simulated
  <2> HIDE DEF Seen, Simulated
  <2>1. CASE Reserve(r)
    BY <2>1, <1>3, <1>10, <1>11
  <2>2. CASE RecordTicket(r)
    BY <2>2, <1>5, <1>10, <1>11
  <2>3. CASE FinishOperation(r) \/ Settle(r)
    BY <2>3, <1>4, <1>10
  <2> QED
    BY <1>14, <2>1, <2>2, <2>3, <1>2, <1>10
<1>15. ASSUME NEW p \in wire, Apply(p)
       PROVE  Simulated
  <2> HIDE DEF Seen, Simulated
  <2> QED
    BY <1>15, <1>6, <1>10, <1>11
<1>16. ASSUME NEW f \in Findings,
              (\E p \in objects : ReconcileCreated(f, p)) \/ ReconcileNothing(f)
       PROVE  Simulated
  <2> HIDE DEF Seen, Simulated
  <2>1. CASE ReconcileNothing(f)
    BY <2>1, <1>9, <1>11
  <2>2. ASSUME NEW p \in objects, ReconcileCreated(f, p)
        PROVE  Simulated
    BY <2>2, <1>8, <1>10, <1>11, <1>13
  <2> QED
    BY <1>16, <2>1, <2>2
<1>17. CASE (\E p \in wire : Refuse(p)) \/ Stop \/ Start \/ UNCHANGED vars
  BY <1>17, <1>7, <1>10
<1> HIDE DEF Seen, Simulated
<1> QED
  BY <1>14, <1>15, <1>16, <1>17 DEF Next, Simulated

(* Pushing a finding implements OncePerFinding: every step of the hub, the  *)
(* ticket system or the operator is a step of the promise, or invisible.    *)
THEOREM PushingKeepsThePromise == Spec => Refinement
<1>1. Init => Promise!Init
  BY DEF Init, Promise!Init
<1>2. IInv /\ IInv' /\ [Next]_vars => [Promise!Next]_(Promise!vars)
  BY StepSimulation
<1> QED
  BY <1>1, <1>2, InductiveInvariant, PTL DEF Spec, Refinement, Promise!Spec
=============================================================================
