----------------------------- MODULE PolicyPlan -----------------------------
(***************************************************************************)
(* What a Conditional Access plan would do to a tenant: merging, matching, *)
(* the lockout rail and the fingerprint of an approval                     *)
(* (src/app/modules/m365_audit/policy_deploy.py).  Pure functions; the     *)
(* requests that use them are in PolicyDeploy.                             *)
(*                                                                         *)
(* Of a policy's content the model keeps what the rails read: its state    *)
(* and whether anybody is excluded.  Every policy is one that would lock   *)
(* everybody out if it were enforced without an exclusion; on others the   *)
(* rail has nothing to say.                                                *)
(***************************************************************************)
EXTENDS Naturals, FiniteSets

CONSTANTS Ids,     \* ids the tenant gives to policies, none twice
          Names,   \* display names
          None     \* no policy, no id

ASSUME NoneIsNoId == None \notin Ids

Disabled == 0
ReportOnly == 1
Enabled == 2
States == {Disabled, ReportOnly, Enabled}

\* A policy in the tenant; modified, for modifiedDateTime, counts
\* its writes.
Policy == [name : Names, state : States, safe : BOOLEAN, modified : Nat]
ASSUME NoneIsNoPolicy == None \notin Policy
Content(p) == [name |-> p.name, state |-> p.state, safe |-> p.safe]

\* A policy somebody wants: from a template, which names a few fields and has
\* no id, or captured whole from a tenant.
Want == [id : Ids \cup {None}, name : Names, state : States, safe : BOOLEAN,
         whole : BOOLEAN]
FromTemplate(n) == [id |-> None, name |-> n, state |-> ReportOnly, safe |-> TRUE,
                    whole |-> FALSE]
Captured(i, p) == [id |-> i, name |-> p.name, state |-> p.state, safe |-> p.safe,
                   whole |-> TRUE]

Present(tenant) == {i \in Ids : tenant[i] # None}
Capture(tenant) == {Captured(i, tenant[i]) : i \in Present(tenant)}

-----------------------------------------------------------------------------
(* Rails and merging *)

LockoutRisk(body) == body.state = Enabled /\ ~body.safe

\* A field the wanted policy names wins, one it does not name survives.
MergeInto(current, want) ==
  [name |-> want.name,
   state |-> want.state,
   safe |-> want.safe \/ (~want.whole /\ current.safe)]

\* would_weaken, and the state it keeps.
KeepState(current, body) ==
  [body EXCEPT !.state = IF @ < current.state THEN current.state ELSE @]

-----------------------------------------------------------------------------
(* Matching *)

Adopted(adopt) == {adopt[n] : n \in Names} \ {None}

\* One policy of each name; of namesakes an arbitrary one stands for all.
ByName(live, n) ==
  LET same == {i \in Present(live) : live[i].name = n}
  IN IF same = {} THEN None ELSE CHOOSE i \in same : TRUE

\* (A mutation: by adoption and by name only.)
MatchByName(live, adopt, want) ==
  IF adopt[want.name] # None THEN adopt[want.name]
  ELSE IF ByName(live, want.name) \in Adopted(adopt) THEN None
  ELSE ByName(live, want.name)

\* By its own id, else by a confirmed adoption, else by name.
Match(live, adopt, want) ==
  IF adopt[want.name] # None THEN adopt[want.name]
  ELSE IF want.id \in Present(live) THEN want.id
  ELSE IF ByName(live, want.name) \in Adopted(adopt) THEN None
  ELSE ByName(live, want.name)

-----------------------------------------------------------------------------
(* The plan *)

Change == [action : {"create", "update", "delete", "enable"},
           id : Ids \cup {None}, body : [name : Names, state : States, safe : BOOLEAN],
           refused : BOOLEAN]

Create(want) ==
  [action |-> "create", id |-> None, body |-> Content(want),
   refused |-> LockoutRisk(want)]

\* The rail is asked of the merged body, the state is kept afterwards.
Update(i, current, want) ==
  LET merged == MergeInto(current, want)
  IN [action |-> "update", id |-> i, body |-> KeepState(current, merged),
      refused |-> LockoutRisk(merged) \/ LockoutRisk(want)]

Delete(i, p) ==
  [action |-> "delete", id |-> i, body |-> Content(p), refused |-> FALSE]

\* A mapping to a policy the tenant no longer has stops the plan.
AdoptionBroken(live, adopt, desired) ==
  \E want \in desired : adopt[want.name] # None /\ live[adopt[want.name]] = None

Unmanaged(live, adopt, desired) ==
  {i \in Present(live) :
     /\ i = ByName(live, live[i].name)
     /\ i \notin Adopted(adopt)
     /\ \A want \in desired : want.id # i /\ want.name # live[i].name}

BuildPlan(live, desired, adopt, delete) ==
  LET Matched(want) == Match(live, adopt, want)
      Changed(c) == c.action # "update" \/ c.body # Content(live[c.id])
      wanted == {IF Matched(want) = None
                 THEN Create(want)
                 ELSE Update(Matched(want), live[Matched(want)], want) : want \in desired}
  IN {c \in wanted : Changed(c)} \cup {Delete(i, live[i]) : i \in delete}

\* (A mutation: a refused change is sent with the others.)
ApplicableAll(plan) == plan

Applicable(plan) == {c \in plan : ~c.refused}

\* (A mutation: the tenant alone, which adoption and template do not move.)
FingerprintOfTenant(live, desired, adopt, delete) ==
  [tenant |-> {<<i, live[i].name, live[i].state, live[i].modified>> : i \in Present(live)}]

\* plan_fingerprint: the tenant's own, and the intent; the ids of the desired
\* policies and the exclusions of the live ones are not in it.
Fingerprint(live, desired, adopt, delete) ==
  [tenant |-> {<<i, live[i].name, live[i].state, live[i].modified>> : i \in Present(live)},
   desired |-> {Content(want) : want \in desired},
   adopt |-> adopt,
   delete |-> delete]

-----------------------------------------------------------------------------
(* What a tenant does with a change: external *)

\* The tenant after change c; a new policy gets id i.
Written(tenant, c, i) ==
  LET at(id, p) == [tenant EXCEPT ![id] = p]
      new(m) == [name |-> c.body.name, state |-> c.body.state, safe |-> c.body.safe,
                 modified |-> m]
  IN CASE c.action = "create" -> at(i, new(0))
       [] c.action = "delete" -> at(c.id, None)
       [] c.action # "create" /\ tenant[c.id] = None -> tenant
       [] c.action = "update" /\ tenant[c.id] # None -> at(c.id, new(tenant[c.id].modified + 1))
       [] c.action = "enable" /\ tenant[c.id] # None ->
            at(c.id, [tenant[c.id] EXCEPT !.state = Enabled, !.modified = @ + 1])
=============================================================================
