---------------------------- MODULE PolicyDeploy ----------------------------
(***************************************************************************)
(* Changing the Conditional Access policies of one tenant                  *)
(* (src/app/web/routes/policy_deploy.py, src/app/core/policy_restore.py,   *)
(* src/app/core/policy_adoption.py, apply_plan in                          *)
(* src/app/modules/m365_audit/policy_deploy.py).                           *)
(*                                                                         *)
(* A task is one operator's deployment or restore (a plan, read and        *)
(* approved, and later its application) or the enabling of one policy.     *)
(* Meanwhile other tasks write, the tenant's administrator edits, somebody *)
(* confirms an adoption, and writes fail.  Nothing obliges a task to go    *)
(* on, so that every behaviour in which the hub stops is one of these.     *)
(***************************************************************************)
EXTENDS PolicyPlan

CONSTANTS Tasks,      \* deployments, restores and enablings; each runs once
          Template,   \* the names of the standard's policies
          First,      \* name -> the id of the tenant's first policy so named
          MaxEdits,   \* bound on edits of the tenant and of the mapping
          MaxNow      \* bound on the seconds that pass

ASSUME TemplateAssumption == Template \subseteq Names
ASSUME BoundsAssumption == MaxEdits \in Nat /\ MaxNow \in Nat /\ None \notin Nat
ASSUME FirstAssumption == First \in [Names -> Ids] /\ \A m, n \in Names : First[m] = First[n] => m = n

VARIABLES tenant,     \* id -> the policy, or None
          used,       \* ids the tenant has given away
          edits,      \* edits made by hand, of the tenant or of the mapping
          adopt,      \* the adoption mapping: name -> id, or None
          points,     \* restore points: second -> captured policies, or None
          now,        \* the second
          pc,         \* task -> where it is
          source,     \* task -> second of its restore point, or None: template
          approved,   \* task -> the fingerprint its operator approved
          delete,     \* task -> ids its operator named for deletion
          planned,    \* history: task -> the policies its plan was made of
          shown,      \* history: task -> the plan its operator read
          want,       \* task -> the policies its request loaded
          read,       \* task -> the tenant as its request read it
          todo,       \* task -> changes not sent yet
          mine        \* history: task -> second of the point it wrote, or None

remote == <<tenant, used>>
disk == <<adopt, points>>
intent == <<source, approved, delete, planned, shown>>
work == <<want, read, todo, mine>>
vars == <<remote, edits, disk, now, pc, intent, work>>

NoTenant == [i \in Ids |-> None]
Adoptions == [Names -> Ids \cup {None}]
NoAdoption == [n \in Names |-> None]
Seconds == 0 .. MaxNow
Approval == [tenant : SUBSET (Ids \X Names \X States \X Nat),
             desired : SUBSET [name : Names, state : States, safe : BOOLEAN],
             adopt : Adoptions, delete : SUBSET Ids]

TypeOK ==
  /\ tenant \in [Ids -> Policy \cup {None}] /\ used \subseteq Ids
  /\ Present(tenant) \subseteq used
  /\ edits \in 0 .. MaxEdits /\ now \in Seconds
  /\ adopt \in Adoptions
  /\ points \in [Seconds -> {None} \cup SUBSET Want]
  /\ pc \in [Tasks -> {"idle", "planned", "check", "enable", "send", "over"}]
  /\ source \in [Tasks -> Seconds \cup {None}]
  /\ approved \in [Tasks -> Approval \cup {None}] /\ delete \in [Tasks -> SUBSET Ids]
  /\ planned \in [Tasks -> SUBSET Want] /\ want \in [Tasks -> SUBSET Want]
  /\ read \in [Tasks -> [Ids -> Policy \cup {None}]]
  /\ shown \in [Tasks -> SUBSET Change] /\ todo \in [Tasks -> SUBSET Change]
  /\ mine \in [Tasks -> Seconds \cup {None}]
  /\ \A t \in Tasks : pc[t] = "send" => mine[t] # None

\* Of each name one policy, report-only or enforced, or none.
Init ==
  /\ \E p \in [Names -> [state : {ReportOnly, Enabled}, safe : BOOLEAN] \cup {None}] :
       tenant = [i \in Ids |->
                   IF \E n \in Names : First[n] = i /\ p[n] # None
                   THEN LET n == CHOOSE n \in Names : First[n] = i
                        IN [name |-> n, state |-> p[n].state, safe |-> p[n].safe,
                            modified |-> 0]
                   ELSE None]
  /\ used = Present(tenant)
  /\ edits = 0 /\ now = 0
  /\ adopt = NoAdoption
  /\ points = [s \in Seconds |-> None]
  /\ pc = [t \in Tasks |-> "idle"]
  /\ source = [t \in Tasks |-> None]
  /\ approved = [t \in Tasks |-> None]
  /\ delete = [t \in Tasks |-> {}]
  /\ planned = [t \in Tasks |-> {}]
  /\ shown = [t \in Tasks |-> {}]
  /\ want = [t \in Tasks |-> {}]
  /\ read = [t \in Tasks |-> NoTenant]
  /\ todo = [t \in Tasks |-> {}]
  /\ mine = [t \in Tasks |-> None]

-----------------------------------------------------------------------------
(* What a task works with *)

Goto(t, there) == pc' = [pc EXCEPT ![t] = there]

\* The request is over; of its locals only the second of its point matters.
Finish(t) ==
  /\ pc' = [pc EXCEPT ![t] = "over"]
  /\ source' = [source EXCEPT ![t] = None]
  /\ approved' = [approved EXCEPT ![t] = None]
  /\ delete' = [delete EXCEPT ![t] = {}]
  /\ planned' = [planned EXCEPT ![t] = {}]
  /\ shown' = [shown EXCEPT ![t] = {}]
  /\ want' = [want EXCEPT ![t] = {}]
  /\ read' = [read EXCEPT ![t] = NoTenant]
  /\ UNCHANGED <<todo, mine>>

\* The policies of the template, or of a restore point; a restore adopts nothing.
Desired(s) == IF s = None THEN {FromTemplate(n) : n \in Template} ELSE points[s]
Adopting(s) == IF s = None THEN adopt ELSE NoAdoption

\* _store_restore_point: the file is named by the second.
StorePoint(t, policies) == /\ points' = [points EXCEPT ![now] = policies]
                           /\ mine' = [mine EXCEPT ![t] = now]

\* (A mutation: only what an update replaces is kept.)
SnapshotOfUpdates(t, plan) ==
  {Captured(c.id, read[t][c.id]) : c \in {d \in plan : d.action = "update"}}

\* What is kept before anything is sent.
Snapshot(t, plan) == Capture(read[t])

-----------------------------------------------------------------------------
(* Deploying and restoring *)

\* The plan, and its approval.  Nothing is written.
Plan(t) ==
  /\ pc[t] = "idle"
  /\ \E s \in {None} \cup {s \in Seconds : points[s] # None} :
       LET desired == Desired(s)
           mapping == Adopting(s)
       IN /\ ~AdoptionBroken(tenant, mapping, desired)
          /\ \E d \in {{}} \cup {{i} : i \in Unmanaged(tenant, mapping, desired)} :
               /\ source' = [source EXCEPT ![t] = s]
               /\ delete' = [delete EXCEPT ![t] = d]
               /\ planned' = [planned EXCEPT ![t] = desired]
               /\ shown' = [shown EXCEPT ![t] = BuildPlan(tenant, desired, mapping, d)]
               /\ approved' = [approved EXCEPT ![t] = Fingerprint(tenant, desired, mapping, d)]
  /\ Goto(t, "planned")
  /\ UNCHANGED <<remote, edits, disk, now, work>>

\* The application: the wanted policies are loaded and the tenant read again, ...
Read(t) ==
  /\ pc[t] = "planned"
  /\ want' = [want EXCEPT ![t] = Desired(source[t])]
  /\ read' = [read EXCEPT ![t] = tenant]
  /\ Goto(t, "check")
  /\ UNCHANGED <<remote, edits, disk, now, intent, todo, mine>>

\* ... and then the mapping; the plan is rebuilt and must be the approved one.
Approved(t) ==
  /\ ~AdoptionBroken(read[t], Adopting(source[t]), want[t])
  /\ delete[t] \subseteq Unmanaged(read[t], Adopting(source[t]), want[t])
  /\ approved[t] = Fingerprint(read[t], want[t], Adopting(source[t]), delete[t])

\* No consent, no break-glass group, or the plan is another: nothing is sent.
Refuse(t) ==
  /\ pc[t] \in {"check", "enable"}
  /\ Finish(t)
  /\ UNCHANGED <<remote, edits, disk, now>>

Check(t) ==
  LET plan == BuildPlan(read[t], want[t], Adopting(source[t]), delete[t])
  IN /\ pc[t] = "check" /\ Approved(t)
     /\ StorePoint(t, Snapshot(t, plan))
     /\ todo' = [todo EXCEPT ![t] = Applicable(plan)]
     /\ Goto(t, "send")
     /\ UNCHANGED <<remote, edits, adopt, now, intent, want, read>>

-----------------------------------------------------------------------------
(* Enabling *)

ReadToEnable(t) ==
  /\ pc[t] = "idle"
  /\ read' = [read EXCEPT ![t] = tenant]
  /\ Goto(t, "enable")
  /\ UNCHANGED <<remote, edits, disk, now, intent, want, todo, mine>>

\* One report-only policy the rail would accept as enforced.
Enable(t) ==
  /\ pc[t] = "enable"
  /\ \E i \in Present(read[t]) :
       LET current == read[t][i]
           enforced == [Content(current) EXCEPT !.state = Enabled]
       IN /\ current.state = ReportOnly
          /\ ~LockoutRisk(enforced)
          /\ StorePoint(t, {Captured(i, current)})
          /\ todo' = [todo EXCEPT ![t] = {[action |-> "enable", id |-> i,
                                           body |-> enforced, refused |-> FALSE]}]
  /\ Goto(t, "send")
  /\ UNCHANGED <<remote, edits, adopt, now, intent, want, read>>

-----------------------------------------------------------------------------
(* Writing *)

\* One change lands, whether or not its answer comes back.
Send(t) ==
  /\ pc[t] = "send"
  /\ \E c \in todo[t] :
       /\ todo' = [todo EXCEPT ![t] = @ \ {c}]
       /\ \E i \in IF c.action = "create" THEN Ids \ used ELSE {None} :
            /\ tenant' = Written(tenant, c, i)
            /\ used' = used \cup ({i} \ {None})
  /\ UNCHANGED <<edits, disk, now, pc, intent, want, read, mine>>

\* One change fails; the others are sent.
SendFails(t) ==
  /\ pc[t] = "send"
  /\ \E c \in todo[t] : todo' = [todo EXCEPT ![t] = @ \ {c}]
  /\ UNCHANGED <<remote, edits, disk, now, pc, intent, want, read, mine>>

Report(t) ==
  /\ pc[t] = "send" /\ todo[t] = {}
  /\ Finish(t)
  /\ UNCHANGED <<remote, edits, disk, now>>

Step(t) == \/ Plan(t) \/ Read(t) \/ Refuse(t) \/ Check(t)
           \/ ReadToEnable(t) \/ Enable(t)
           \/ Send(t) \/ SendFails(t) \/ Report(t)

-----------------------------------------------------------------------------
(* Everybody else *)

\* set_adoption: a policy the tenant has, adopted once.
SetAdoption(n) ==
  /\ edits < MaxEdits
  /\ n \in Template
  /\ \E i \in (Present(tenant) \ Adopted([adopt EXCEPT ![n] = None])) \cup {None} :
       i # adopt[n] /\ adopt' = [adopt EXCEPT ![n] = i]
  /\ edits' = edits + 1
  /\ UNCHANGED <<remote, points, now, pc, intent, work>>

\* The tenant's own administrator, in the portal.
Administrate(i) ==
  /\ edits < MaxEdits
  /\ tenant[i] # None
  /\ \E s \in States, safe \in BOOLEAN :
       \/ tenant' = [tenant EXCEPT ![i] = [name |-> @.name, state |-> s, safe |-> safe,
                                           modified |-> @.modified + 1]]
       \/ tenant' = [tenant EXCEPT ![i] = None]
  /\ edits' = edits + 1
  /\ UNCHANGED <<used, disk, now, pc, intent, work>>

Second ==
  /\ now < MaxNow
  /\ now' = now + 1
  /\ UNCHANGED <<remote, edits, disk, pc, intent, work>>

Next == \/ \E t \in Tasks : Step(t)
        \/ \E n \in Names : SetAdoption(n)
        \/ \E i \in Ids : Administrate(i)
        \/ Second

Spec == Init /\ [][Next]_vars

-----------------------------------------------------------------------------
(* Properties *)

\* The restore point was written again within its second, with policies that have
\* other ids and the same contents: the fingerprint leaves their ids out.
Exchanged(t) == /\ want[t] # planned[t]
                /\ {Content(w) : w \in want[t]} = {Content(w) : w \in planned[t]}

\* "The plan the operator approved is exactly the one that runs"
\* (routes/policy_deploy.py:165): whatever moved in the tenant or the mapping
\* since, no change is sent that was not on the plan the operator read; except
\* after a restore point was exchanged unnoticed.
ApprovedIsWhatRuns ==
  \A t \in Tasks : approved[t] # None /\ ~Exchanged(t) => todo[t] \subseteq shown[t]

\* "Every write is preceded by a snapshot of what it replaces"
\* (m365_audit/policy_deploy.py:29): while a request has changes to send, the
\* policies they replace are in the point it wrote, as it read them; except that
\* a point written within the same second may have taken its place.
Undoable ==
  \A t \in Tasks : \A c \in todo[t] :
    \/ c.id = None
    \/ Captured(c.id, read[t][c.id]) \in points[mine[t]]
    \/ \E u \in Tasks \ {t} : mine[u] = mine[t]

\* The hub does not make a policy that would lock everybody out: what it sends
\* either excludes somebody or enforces nothing, or was enforced when read.
RailHolds ==
  \A t \in Tasks : \A c \in todo[t] :
    c.action # "delete" /\ LockoutRisk(c.body) =>
      c.action = "update" /\ read[t][c.id].state = Enabled

\* The policies live has, after every change of the plan that is sent.
Applied(live, plan) ==
  [i \in Ids |-> LET C == {c \in Applicable(plan) : c.id = i}
                 IN IF C = {} THEN live[i] ELSE Written(live, CHOOSE c \in C : TRUE, None)[i]]

\* A deployment can be undone, an adoption too (m365_audit/policy_deploy.py
\* :349): restoring what was captured before it gives each policy back its name
\* and its exclusions, unless the rail refuses; only enforcement may stay higher.
RestoreUndoesDeployment ==
  LET desired == {FromTemplate(n) : n \in Template}
      deployed == Applied(tenant, BuildPlan(tenant, desired, adopt, {}))
      back == BuildPlan(deployed, Capture(tenant), NoAdoption, {})
      restored == Applied(deployed, back)
  IN ~AdoptionBroken(tenant, adopt, desired) =>
       \A i \in Present(tenant) :
         \/ \E c \in back : c.id = i /\ c.refused
         \/ /\ restored[i].name = tenant[i].name
            /\ restored[i].safe = tenant[i].safe
            /\ restored[i].state >= tenant[i].state

\* "The refusal is judged on what would actually be sent" (m365_audit/
\* policy_deploy.py:418): nothing is sent that the rail would refuse.
NothingSentLocksOut ==
  \A t \in Tasks : \A c \in todo[t] : c.action # "delete" => ~LockoutRisk(c.body)
=============================================================================
