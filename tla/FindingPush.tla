---------------------------- MODULE FindingPush ----------------------------
(***************************************************************************)
(* Turning one audit finding into one remote ticket, exactly once          *)
(* (src/app/web/routes/hub.py, src/app/services/finding_tickets.py,        *)
(* src/app/integrations/http_retry.py, src/scripts/reconcile_finding.py).  *)
(*                                                                         *)
(* Each request is one click: it looks for a recorded ticket, reserves the *)
(* finding with a durable unique row, POSTs to the ticket system with      *)
(* retries, records the ticket and settles the reservation.  The hub may   *)
(* stop between any two of those steps; answers may be lost; an operator   *)
(* reconciles what is left while the hub is down.  The two SQLite tables   *)
(* survive a stop, the requests do not.                                    *)
(***************************************************************************)
EXTENDS Naturals

CONSTANTS Findings,      \* (customer, rec_id, system) triples
          Requests,      \* clicks; each runs once
          MaxAttempts,   \* http_retry._MAX_ATTEMPTS
          None           \* no row, no ticket

\* An object is named by the POST that made it.
Posts == Requests \X (1 .. MaxAttempts)

\* A row of finding_operations: who reserved the finding, how it went.
Statuses == {"pending", "succeeded", "unknown"}
Row == [by : Requests, status : Statuses]

ASSUME MaxAttemptsAssumption == MaxAttempts \in Nat \ {0}
ASSUME NoneAssumption == None \notin Posts \cup Row

VARIABLES hub,       \* "up" or "down"
          finding,   \* request -> the finding it was clicked for
          pc,        \* request -> where it is in _push_finding
          attempt,   \* request -> the POST attempt it is on
          op,        \* finding -> its finding_operations row, or None
          ticket,    \* finding -> external id in finding_tickets, or None
          wire,      \* POSTs sent and not yet processed by the ticket system
          objects,   \* POSTs the ticket system turned into an object
          answer     \* request -> what its caller was told

vars == <<hub, finding, pc, attempt, op, ticket, wire, objects, answer>>

ThisPost(r) == <<r, attempt[r]>>
Own(r) == op[finding[r]] # None /\ op[finding[r]].by = r

TypeOK ==
  /\ hub \in {"up", "down"}
  /\ finding \in [Requests -> Findings]
  /\ pc \in [Requests -> {"lookup", "reserve", "conflict", "push", "await",
                          "record", "finish", "settle", "over"}]
  /\ attempt \in [Requests -> 1 .. MaxAttempts]
  /\ op \in [Findings -> Row \cup {None}]
  /\ ticket \in [Findings -> Posts \cup {None}]
  /\ wire \subseteq Posts
  /\ objects \subseteq Posts
  /\ answer \in [Requests -> {"none", "created", "existing", "duplicate",
                              "refused", "failed"}]

Init ==
  /\ hub = "up"
  /\ finding \in [Requests -> Findings]
  /\ pc = [r \in Requests |-> "lookup"]
  /\ attempt = [r \in Requests |-> 1]
  /\ op = [f \in Findings |-> None]
  /\ ticket = [f \in Findings |-> None]
  /\ wire = {}
  /\ objects = {}
  /\ answer = [r \in Requests |-> "none"]

-----------------------------------------------------------------------------
(* Moving a request on *)

At(r, here) == hub = "up" /\ pc[r] = here

Goto(r, there) == pc' = [pc EXCEPT ![r] = there] /\ UNCHANGED answer

Reply(r, what) == /\ pc' = [pc EXCEPT ![r] = "over"]
                  /\ answer' = [answer EXCEPT ![r] = what]

\* (A mutation: one attempt too many.)
RetryOrRaiseOffByOne(r) ==
  IF attempt[r] <= MaxAttempts
  THEN /\ attempt' = [attempt EXCEPT ![r] = @ + 1]
       /\ Goto(r, "push")
  ELSE Goto(r, "settle") /\ UNCHANGED attempt

\* send_with_retry: what may be repeated is repeated, up to MaxAttempts.
RetryOrRaise(r) ==
  IF attempt[r] < MaxAttempts
  THEN /\ attempt' = [attempt EXCEPT ![r] = @ + 1]
       /\ Goto(r, "push")
  ELSE Goto(r, "settle") /\ UNCHANGED attempt

Tables == <<op, ticket>>
Remote == <<wire, objects>>

-----------------------------------------------------------------------------
(* Mutations: plausible mistakes in the code below, which a property must see *)

\* A 5xx or a read timeout repeated for a POST as it is for a GET.
AmbiguousRepeated(r) ==
  /\ At(r, "await")
  /\ RetryOrRaise(r)
  /\ UNCHANGED <<hub, finding, Tables, Remote>>

\* The reservation settled before the ticket is recorded.
AcceptedFinishesFirst(r) ==
  /\ At(r, "await")
  /\ ThisPost(r) \in objects
  /\ Goto(r, "finish")
  /\ UNCHANGED <<hub, finding, attempt, Tables, Remote>>

\* A lost reservation taken for a recorded ticket.
ConflictMeansDone(r) ==
  /\ At(r, "conflict")
  /\ Reply(r, "existing")
  /\ UNCHANGED <<hub, finding, attempt, Tables, Remote>>

\* A failed push releases its reservation.
SettleReleases(r) ==
  /\ At(r, "settle")
  /\ op' = [op EXCEPT ![finding[r]] = None]
  /\ Reply(r, "failed")
  /\ UNCHANGED <<hub, finding, attempt, ticket, Remote>>

\* A "not created" that does not look for the object.
ReconcileNothingUnchecked(f) ==
  /\ hub = "down" /\ op[f] # None /\ op[f].status # "succeeded"
  /\ ticket[f] = None
  /\ op' = [op EXCEPT ![f] = None]
  /\ UNCHANGED <<hub, finding, pc, attempt, ticket, Remote, answer>>

-----------------------------------------------------------------------------
(* One request *)

\* An unlinked customer is refused, and so is, later, a recommendation the
\* latest run does not carry; in between the code asks "already pushed?".
Lookup(r) ==
  /\ At(r, "lookup")
  /\ \/ Reply(r, "refused")
     \/ ticket[finding[r]] # None /\ Reply(r, "existing")
     \/ ticket[finding[r]] = None /\ Goto(r, "reserve")
  /\ UNCHANGED <<hub, finding, attempt, Tables, Remote>>

\* INSERT ... ON CONFLICT DO NOTHING: the row is there for one caller only.
Reserve(r) ==
  /\ At(r, "reserve")
  /\ IF op[finding[r]] = None
     THEN /\ op' = [op EXCEPT ![finding[r]] = [by |-> r, status |-> "pending"]]
          /\ \/ Goto(r, "push")
             \/ Reply(r, "failed")     \* cancelled after the commit landed
     ELSE Goto(r, "conflict") /\ UNCHANGED op
  /\ UNCHANGED <<hub, finding, attempt, ticket, Remote>>

\* The reservation was somebody else's: their ticket if it is recorded by
\* now, a ConflictError otherwise.
Conflict(r) ==
  /\ At(r, "conflict")
  /\ Reply(r, IF ticket[finding[r]] # None THEN "existing" ELSE "refused")
  /\ UNCHANGED <<hub, finding, attempt, Tables, Remote>>

\* Cancelled, or let down by the database, while it holds nothing yet.
Dropped(r) ==
  /\ hub = "up"
  /\ pc[r] \in {"lookup", "reserve", "conflict"}
  /\ Reply(r, "failed")
  /\ UNCHANGED <<hub, finding, attempt, Tables, Remote>>

Send(r) ==
  /\ At(r, "push")
  /\ wire' = wire \cup {ThisPost(r)}
  /\ Goto(r, "await")
  /\ UNCHANGED <<hub, finding, attempt, Tables, objects>>

\* ConnectError, ConnectTimeout, PoolTimeout: nothing left the host.
Unsent(r) ==
  /\ At(r, "push")
  /\ RetryOrRaise(r)
  /\ UNCHANGED <<hub, finding, Tables, Remote>>

\* The 2xx with the new object's id.
Accepted(r) ==
  /\ At(r, "await")
  /\ ThisPost(r) \in objects
  /\ Goto(r, "record")
  /\ UNCHANGED <<hub, finding, attempt, Tables, Remote>>

\* A 429: the request was refused before it was processed.
Throttled(r) ==
  /\ At(r, "await")
  /\ ThisPost(r) \notin wire \cup objects
  /\ RetryOrRaise(r)
  /\ UNCHANGED <<hub, finding, Tables, Remote>>

\* A 4xx, a 5xx, or no answer at all: whatever the ticket system did with
\* the POST, it is not sent again.
Ambiguous(r) ==
  /\ At(r, "await")
  /\ Goto(r, "settle")
  /\ UNCHANGED <<hub, finding, attempt, Tables, Remote>>

\* record_ticket: INSERT ... ON CONFLICT DO NOTHING, then read back.
RecordTicket(r) ==
  /\ At(r, "record")
  /\ ticket' = [ticket EXCEPT ![finding[r]] = IF @ = None THEN ThisPost(r) ELSE @]
  /\ Goto(r, "finish")
  /\ UNCHANGED <<hub, finding, attempt, op, Remote>>

SetStatus(r, status) ==
  op' = IF Own(r) THEN [op EXCEPT ![finding[r]].status = status] ELSE op

FinishOperation(r) ==
  /\ At(r, "finish")
  /\ SetStatus(r, "succeeded")
  /\ \/ Reply(r, IF ticket[finding[r]] = ThisPost(r) THEN "created" ELSE "duplicate")
     \/ Goto(r, "settle")              \* cancelled after the commit landed
  /\ UNCHANGED <<hub, finding, attempt, ticket, Remote>>

\* Cancellation or a database outage at any point of the try block.
Interrupted(r) ==
  /\ hub = "up"
  /\ pc[r] \in {"push", "await", "record", "finish"}
  /\ Goto(r, "settle")
  /\ UNCHANGED <<hub, finding, attempt, Tables, Remote>>

\* except BaseException: mark the reservation uncertain, if the database
\* lets it, and pass the error on.
Settle(r) ==
  /\ At(r, "settle")
  /\ SetStatus(r, "unknown") \/ UNCHANGED op
  /\ Reply(r, "failed")
  /\ UNCHANGED <<hub, finding, attempt, ticket, Remote>>

-----------------------------------------------------------------------------
(* The ticket system *)

Apply(p) ==
  /\ p \in wire
  /\ wire' = wire \ {p}
  /\ objects' = objects \cup {p}
  /\ UNCHANGED <<hub, finding, pc, attempt, Tables, answer>>

Refuse(p) ==
  /\ p \in wire
  /\ wire' = wire \ {p}
  /\ UNCHANGED <<hub, finding, pc, attempt, Tables, objects, answer>>

-----------------------------------------------------------------------------
(* Stops, and the operator's reconciliation while the hub is stopped *)

Stop ==
  /\ hub = "up"
  /\ hub' = "down"
  /\ pc' = [r \in Requests |-> IF pc[r] = "lookup" THEN "lookup" ELSE "over"]
  /\ UNCHANGED <<finding, attempt, Tables, Remote, answer>>

Start ==
  /\ hub = "down"
  /\ hub' = "up"
  /\ UNCHANGED <<finding, pc, attempt, Tables, Remote, answer>>

\* The operator looks at the provider after its last request has settled and
\* reports truly what is there; the script checks everything else.
Unresolved(f) ==
  /\ hub = "down"
  /\ op[f] # None
  /\ op[f].status # "succeeded"
  /\ \A p \in wire : finding[p[1]] # f

ReconcileCreated(f, p) ==
  /\ Unresolved(f)
  /\ p \in objects /\ finding[p[1]] = f
  /\ ticket[f] \in {None, p}
  /\ ticket' = [ticket EXCEPT ![f] = p]
  /\ op' = [op EXCEPT ![f].status = "succeeded"]
  /\ UNCHANGED <<hub, finding, pc, attempt, Remote, answer>>

ReconcileNothing(f) ==
  /\ Unresolved(f)
  /\ \A p \in objects : finding[p[1]] # f
  /\ ticket[f] = None
  /\ op' = [op EXCEPT ![f] = None]
  /\ UNCHANGED <<hub, finding, pc, attempt, ticket, Remote, answer>>

-----------------------------------------------------------------------------
Next ==
  \/ \E r \in Requests :
       \/ Lookup(r) \/ Reserve(r) \/ Conflict(r) \/ Dropped(r)
       \/ Send(r) \/ Unsent(r) \/ Accepted(r) \/ Throttled(r) \/ Ambiguous(r)
       \/ RecordTicket(r) \/ FinishOperation(r)
       \/ Interrupted(r) \/ Settle(r)
  \/ \E p \in wire : Apply(p) \/ Refuse(p)
  \/ Stop \/ Start
  \/ \E f \in Findings :
       \/ \E p \in objects : ReconcileCreated(f, p)
       \/ ReconcileNothing(f)

Spec == Init /\ [][Next]_vars

-----------------------------------------------------------------------------
(* What pushing a finding promises *)

\* "One audit finding into one ticket, exactly once" (finding_tickets.py:1):
\* however clicks, retries, lost answers, stops and reconciliations
\* interleave, the ticket system never holds two objects for one finding.
AtMostOneObject ==
  \A p, q \in objects : finding[p[1]] = finding[q[1]] => p = q

\* An object nobody recorded is never forgotten: as long as it is not the
\* ticket on record, an unsettled reservation keeps its finding blocked and
\* shows the operator there is something to reconcile.
NoObjectForgotten ==
  \A p \in objects :
    LET f == finding[p[1]]
    IN  ticket[f] = p \/ (op[f] # None /\ op[f].status # "succeeded")

\* A recorded ticket exists in the ticket system and is about its finding,
\* and an operation that counts as succeeded has its ticket on record.
RecordsAreTrue ==
  \A f \in Findings :
    /\ ticket[f] # None => ticket[f] \in objects /\ finding[ticket[f][1]] = f
    /\ (op[f] # None /\ op[f].status = "succeeded") => ticket[f] # None

\* What the technician is told holds: "created" names the caller's own
\* object, "existing" a recorded one, and the branch that reports a
\* duplicate (hub.py:592-603) is never reached.
AnswersAreTrue ==
  \A r \in Requests :
    /\ answer[r] = "created" => ticket[finding[r]] = ThisPost(r)
    /\ answer[r] = "existing" => ticket[finding[r]] # None
    /\ answer[r] # "duplicate"

\* The hub's tables and the ticket system together behave as OncePerFinding.
Promise == INSTANCE OncePerFinding WITH
             Objects <- Posts,
             claimed <- {f \in Findings : op[f] # None},
             filed <- [f \in Findings |-> {p \in objects : finding[p[1]] = f}],
             known <- ticket

Refinement == Promise!Spec
=============================================================================
