------------------------ MODULE PolicyDeploy_proofs ------------------------
(***************************************************************************)
(* For any operators, policies, edits and seconds: PolicyDeploy is type    *)
(* correct, sends only what an operator approved, after a restore point    *)
(* that undoes it, and never makes a policy that locks everybody out; and  *)
(* what was captured before a deployment restores it.                      *)
(*                                                                         *)
(* The approval is a fingerprint of a tenant that is gone when the plan is *)
(* applied.  That it singles out the plan takes the tenant's own books:    *)
(* every write moves modified on and no id is given away twice, so that a  *)
(* later tenant with the same fingerprint is the same tenant (Later,       *)
(* FingerprintTells), and the plan rebuilt from it is the plan shown.      *)
(***************************************************************************)
EXTENDS PolicyDeploy, TLAPS

Tenants == [Ids -> Policy \cup {None}]
Bodies == [name : Names, state : States, safe : BOOLEAN]

\* live is the tenant x some writes later; a policy of x whose count stands has
\* not been written.
Later(x, live) ==
  \A i \in Present(x) \cap Present(live) : live[i] = x[i] \/ live[i].modified > x[i].modified

\* What task t's operator read and approved was planned for an earlier tenant.
PlannedFor(t, live) ==
  \E x \in Tenants, m \in Adoptions :
    /\ Later(x, live) /\ Present(x) \subseteq used
    /\ approved[t] = Fingerprint(x, planned[t], m, delete[t])
    /\ shown[t] = BuildPlan(x, planned[t], m, delete[t])

ApprovalStands(t) ==
  /\ pc[t] \in {"idle", "enable"} => approved[t] = None
  /\ pc[t] = "planned" => PlannedFor(t, tenant)
  /\ pc[t] = "check" => PlannedFor(t, read[t])

\* A task has nothing to send, and no point, before it sends; the point it means
\* to restore stays.
Unsent(t) ==
  /\ pc[t] # "send" => todo[t] = {}
  /\ pc[t] \in {"idle", "planned", "check", "enable"} => mine[t] = None
  /\ pc[t] \in {"planned", "check"} => source[t] = None \/ points[source[t]] \in SUBSET Want

RunsAsApproved(t) == approved[t] # None /\ ~Exchanged(t) => todo[t] \subseteq shown[t]

WithinRail(t) ==
  \A c \in todo[t] : c.action # "delete" /\ LockoutRisk(c.body) =>
                       c.action = "update" /\ read[t][c.id].state = Enabled

Sound(t) == ApprovalStands(t) /\ Unsent(t) /\ RunsAsApproved(t) /\ WithinRail(t)

IInv == TypeOK /\ (\A t \in Tasks : Sound(t)) /\ Undoable

-----------------------------------------------------------------------------
(* Planning *)

LEMMA StatesAreNumbers == States = {0, 1, 2} /\ Enabled = 2
  BY DEF States, Disabled, ReportOnly, Enabled

\* What is found by name is there.
LEMMA ByNameIsPresent ==
  ASSUME NEW live, NEW n
  PROVE  ByName(live, n) \in Present(live) \cup {None}
BY DEF ByName

\* What a wanted policy is matched with is there.
LEMMA MatchIsPresent ==
  ASSUME NEW live, NEW m \in Adoptions, NEW w \in Want,
         m[w.name] # None => live[m[w.name]] # None
  PROVE  Match(live, m, w) \in Present(live) \cup {None}
<1>1. w.name \in Names
  BY DEF Want
<1>2. m[w.name] \in Ids \cup {None}
  BY <1>1 DEF Adoptions
<1> QED BY <1>2, ByNameIsPresent DEF Match, Present

\* What is updated has a state at least as strict, and only a policy that was
\* enforced may come out as one that locks everybody out.
LEMMA UpdateFacts ==
  ASSUME NEW current \in Policy, NEW w \in Want, NEW i \in Ids
  PROVE  LET c == Update(i, current, w)
         IN /\ c \in Change /\ c.action = "update" /\ c.id = i
            /\ ~c.refused /\ LockoutRisk(c.body) => current.state = Enabled
<1> DEFINE merged == MergeInto(current, w)
           body == KeepState(current, merged)
<1>1. merged \in Bodies
  BY DEF MergeInto, Bodies, Policy, Want
<1>2. body \in Bodies /\ body.safe = merged.safe /\ body.state \in {merged.state, current.state}
  <2>1. current.state \in States
    BY DEF Policy
  <2> HIDE DEF merged
  <2>2. body = [merged EXCEPT !.state = IF merged.state < current.state THEN current.state
                                                                         ELSE merged.state]
    BY DEF KeepState
  <2> QED BY <1>1, <2>1, <2>2 DEF Bodies
<1> DEFINE refused == LockoutRisk(merged) \/ LockoutRisk(w)
<1>3. refused \in BOOLEAN /\ (LockoutRisk(merged) => refused)
  BY DEF LockoutRisk
<1>4. Update(i, current, w) = [action |-> "update", id |-> i, body |-> body, refused |-> refused]
  BY DEF Update
<1>5. LockoutRisk(body) /\ current.state # Enabled => LockoutRisk(merged)
  BY <1>2 DEF LockoutRisk
<1> HIDE DEF body, merged, refused
<1> QED BY <1>2, <1>3, <1>4, <1>5 DEF Change, Bodies

\* A creation names no policy, and passes the rail or is refused.
LEMMA CreateFacts ==
  ASSUME NEW w \in Want
  PROVE  LET c == Create(w)
         IN /\ c \in Change /\ c.action = "create" /\ c.id = None
            /\ ~c.refused => ~LockoutRisk(c.body)
<1>1. Content(w) \in Bodies /\ (LockoutRisk(Content(w)) <=> LockoutRisk(w))
  BY DEF Content, Bodies, Want, LockoutRisk
<1>2. LockoutRisk(w) \in BOOLEAN
  BY DEF LockoutRisk
<1> QED BY <1>1, <1>2 DEF Create, Change, Bodies

\* A deletion names its policy.
LEMMA DeleteFacts ==
  ASSUME NEW p \in Policy, NEW i \in Ids
  PROVE  Delete(i, p) \in Change /\ Delete(i, p).action = "delete" /\ Delete(i, p).id = i
BY DEF Delete, Change, Content, Policy

\* A plan creates, updates what is there and deletes what was named.
LEMMA PlanFacts ==
  ASSUME NEW live \in Tenants, NEW desired \in SUBSET Want, NEW m \in Adoptions,
         NEW del \in SUBSET Present(live), ~AdoptionBroken(live, m, desired)
  PROVE  LET plan == BuildPlan(live, desired, m, del)
         IN /\ plan \subseteq Change
            /\ \A c \in plan :
                 \/ c.action = "create" /\ c.id = None /\ (~c.refused => ~LockoutRisk(c.body))
                 \/ /\ c.action = "update" /\ c.id \in Present(live)
                    /\ ~c.refused /\ LockoutRisk(c.body) => live[c.id].state = Enabled
                 \/ c.action = "delete" /\ c.id \in del
<1>1. SUFFICES ASSUME NEW c \in BuildPlan(live, desired, m, del)
               PROVE  /\ c \in Change
                      /\ \/ /\ c.action = "create" /\ c.id = None
                            /\ ~c.refused => ~LockoutRisk(c.body)
                         \/ /\ c.action = "update" /\ c.id \in Present(live)
                            /\ ~c.refused /\ LockoutRisk(c.body) => live[c.id].state = Enabled
                         \/ c.action = "delete" /\ c.id \in del
  OBVIOUS
<1>2. \/ \E w \in desired : Match(live, m, w) = None /\ c = Create(w)
      \/ \E w \in desired : /\ Match(live, m, w) # None
                               /\ c = Update(Match(live, m, w), live[Match(live, m, w)], w)
      \/ \E i \in del : c = Delete(i, live[i])
  BY DEF BuildPlan
<1>3. \A i \in Present(live) : i \in Ids /\ live[i] \in Policy
  BY DEF Present, Tenants
<1>4. CASE \E w \in desired : Match(live, m, w) = None /\ c = Create(w)
  BY <1>4, CreateFacts
<1>5. ASSUME NEW w \in desired, Match(live, m, w) # None,
             c = Update(Match(live, m, w), live[Match(live, m, w)], w)
      PROVE  /\ c \in Change /\ c.action = "update" /\ c.id \in Present(live)
             /\ ~c.refused /\ LockoutRisk(c.body) => live[c.id].state = Enabled
  <2>1. Match(live, m, w) \in Present(live)
    BY <1>5, MatchIsPresent DEF AdoptionBroken
  <2> QED BY <1>3, <1>5, <2>1, UpdateFacts
<1>6. CASE \E i \in del : c = Delete(i, live[i])
  BY <1>3, <1>6, DeleteFacts
<1> QED BY <1>2, <1>4, <1>5, <1>6

\* A later tenant with the same fingerprint is the same tenant, and the
\* approval was of the same contents, the same mapping and the same deletions.
LEMMA FingerprintTells ==
  ASSUME NEW x \in Tenants, NEW live \in Tenants, Later(x, live),
         NEW d, NEW e, NEW m, NEW n, NEW del, NEW kill,
         Fingerprint(x, d, m, del) = Fingerprint(live, e, n, kill)
  PROVE  /\ x = live /\ m = n /\ del = kill
         /\ {Content(w) : w \in d} = {Content(w) : w \in e}
<1> DEFINE Mark(y) == {<<i, y[i].name, y[i].state, y[i].modified>> : i \in Present(y)}
<1>1. /\ Mark(x) = Mark(live) /\ m = n /\ del = kill
      /\ {Content(w) : w \in d} = {Content(w) : w \in e}
  BY DEF Fingerprint
<1>2. ASSUME NEW i \in Present(x) PROVE i \in Present(live) /\ live[i].modified = x[i].modified
  <2>1. <<i, x[i].name, x[i].state, x[i].modified>> \in Mark(live)
    BY <1>1, <1>2
  <2>2. PICK j \in Present(live) : <<i, x[i].name, x[i].state, x[i].modified>>
                                   = <<j, live[j].name, live[j].state, live[j].modified>>
    BY <2>1
  <2> QED BY <2>2
<1>3. ASSUME NEW i \in Present(live) PROVE i \in Present(x)
  <2>1. <<i, live[i].name, live[i].state, live[i].modified>> \in Mark(x)
    BY <1>1, <1>3
  <2>2. PICK j \in Present(x) : <<i, live[i].name, live[i].state, live[i].modified>>
                                = <<j, x[j].name, x[j].state, x[j].modified>>
    BY <2>1
  <2> QED BY <2>2
<1>4. ASSUME NEW i \in Ids PROVE x[i] = live[i]
  <2>1. CASE i \in Present(x)
    <3>1. x[i].modified \in Nat
      BY <2>1 DEF Tenants, Policy, Present
    <3> QED BY <1>2, <2>1, <3>1 DEF Later
  <2>2. CASE i \notin Present(x)
    BY <1>3, <2>2 DEF Present
  <2> QED BY <2>1, <2>2
<1> QED BY <1>1, <1>4 DEF Tenants

-----------------------------------------------------------------------------
(* The tenant's books *)

\* Policy j of the tenant as a write may leave it.
Moves(old, new, j) == \/ new[j] = old[j] \/ new[j] = None
                      \/ old[j] # None /\ new[j].modified > old[j].modified

\* A write moves its own policy on, and leaves the others alone.
LEMMA WriteMovesOn ==
  ASSUME NEW old \in Tenants, NEW c \in Change, NEW i \in Ids \cup {None},
         c.action = "create" => i \in Ids
  PROVE  LET new == Written(old, c, i)
         IN /\ new \in Tenants
            /\ \A j \in Ids : Moves(old, new, j) \/ j = i
            /\ Present(new) \subseteq Present(old) \cup {i}
<1> DEFINE new == Written(old, c, i)
           body(n) == [name |-> c.body.name, state |-> c.body.state, safe |-> c.body.safe,
                       modified |-> n]
<1>1. /\ c.id \in Ids \cup {None} /\ c.body \in Bodies
      /\ c.action \in {"create", "update", "delete", "enable"}
  BY DEF Change, Bodies
<1>2. \A n \in Nat : body(n) \in Policy /\ body(n).modified = n
  BY <1>1 DEF Bodies, Policy
<1>3. \A j \in Ids : old[j] = None \/ (old[j] \in Policy /\ old[j].modified \in Nat)
  BY DEF Tenants, Policy
<1> HIDE DEF body
<1>4. CASE c.action = "create"
  <2>1. new = [old EXCEPT ![i] = body(0)]
    BY <1>4 DEF Written, body
  <2> HIDE DEF new
  <2>2. new \in Tenants /\ \A j \in Ids : j # i => new[j] = old[j]
    BY <1>2, <2>1 DEF Tenants
  <2> QED BY <2>2 DEF Moves, Present, new
<1>5. CASE c.action # "create"
  <2> DEFINE Newer(p) == c.id \in Ids => old[c.id] # None /\ p.modified > old[c.id].modified
  <2>1. \/ new = old \/ new = [old EXCEPT ![c.id] = None]
        \/ \E p \in Policy : new = [old EXCEPT ![c.id] = p] /\ Newer(p)
    <3>1. CASE c.action = "delete"
      BY <1>5, <3>1 DEF Written
    <3>2. CASE c.action # "delete" /\ old[c.id] = None
      BY <1>5, <1>1, <3>2 DEF Written
    <3>3. CASE c.action = "update" /\ old[c.id] # None /\ c.id \in Ids
      <4>1. new = [old EXCEPT ![c.id] = body(old[c.id].modified + 1)]
        BY <3>3 DEF Written, body
      <4>2. body(old[c.id].modified + 1) \in Policy /\ Newer(body(old[c.id].modified + 1))
        BY <1>2, <1>3, <3>3
      <4> HIDE DEF new, Newer
      <4> QED BY <4>1, <4>2
    <3>4. CASE c.action = "enable" /\ old[c.id] # None /\ c.id \in Ids
      <4> DEFINE q == old[c.id]
                 p == [q EXCEPT !.state = Enabled, !.modified = @ + 1]
      <4>1. new = [old EXCEPT ![c.id] = p]
        BY <3>4 DEF Written
      <4>2. q \in Policy /\ q.modified \in Nat
        BY <1>3, <3>4
      <4> HIDE DEF q
      <4>3. p = [name |-> q.name, state |-> Enabled, safe |-> q.safe, modified |-> q.modified + 1]
        <5>1. DOMAIN q = {"name", "state", "safe", "modified"}
          BY <4>2 DEF Policy
        <5>2. p = [f \in {"name", "state", "safe", "modified"} |->
                     IF f = "state" THEN Enabled ELSE IF f = "modified" THEN q.modified + 1 ELSE q[f]]
          BY <4>2, <5>1 DEF Policy
        <5> HIDE DEF p
        <5> QED BY <5>2
      <4>4. p \in Policy /\ p.modified > q.modified
        BY <4>2, <4>3, StatesAreNumbers DEF Policy
      <4> HIDE DEF new, p
      <4> QED BY <3>4, <4>1, <4>4 DEF q
    <3>5. CASE c.id \notin Ids
      <4>1. \A p : [old EXCEPT ![c.id] = p] = old
        BY <3>5 DEF Tenants
      <4>2. CASE c.action = "update" /\ old[c.id] # None
        BY <4>1, <4>2 DEF Written
      <4>3. CASE c.action = "enable" /\ old[c.id] # None
        BY <4>1, <4>3 DEF Written
      <4> QED BY <1>1, <1>5, <3>1, <3>2, <4>2, <4>3
    <3> QED BY <1>1, <1>5, <3>1, <3>2, <3>3, <3>4, <3>5
  <2> HIDE DEF new
  <2>2. new \in Tenants
    BY <2>1 DEF Tenants
  <2>3. \A j \in Ids : Moves(old, new, j)
    BY <2>1 DEF Tenants, Moves
  <2>4. Present(new) \subseteq Present(old)
    BY <2>3 DEF Present, Moves
  <2> QED BY <2>2, <2>3, <2>4 DEF new
<1> QED BY <1>4, <1>5

\* An operator's plan stays one for an earlier tenant.
LEMMA StaysPlanned ==
  ASSUME NEW t \in Tasks, NEW live \in Tenants, NEW new \in Tenants, PlannedFor(t, live),
         approved'[t] = approved[t], planned'[t] = planned[t], delete'[t] = delete[t],
         shown'[t] = shown[t], used \subseteq used',
         \A j \in Ids : Moves(live, new, j) \/ j \notin used
  PROVE  \E x \in Tenants, m \in Adoptions :
           /\ Later(x, new) /\ Present(x) \subseteq used'
           /\ approved'[t] = Fingerprint(x, planned'[t], m, delete'[t])
           /\ shown'[t] = BuildPlan(x, planned'[t], m, delete'[t])
<1>1. PICK x \in Tenants, m \in Adoptions :
        /\ Later(x, live) /\ Present(x) \subseteq used
        /\ approved[t] = Fingerprint(x, planned[t], m, delete[t])
        /\ shown[t] = BuildPlan(x, planned[t], m, delete[t])
  BY DEF PlannedFor
<1>2. Later(x, new)
  <2>1. SUFFICES ASSUME NEW i \in Present(x), i \in Present(new)
                 PROVE  new[i] = x[i] \/ new[i].modified > x[i].modified
    BY DEF Later
  <2>2. i \in Ids /\ i \in used /\ new[i] # None /\ x[i].modified \in Nat /\ new[i].modified \in Nat
    BY <1>1, <2>1 DEF Present, Tenants, Policy
  <2>3. CASE new[i] = live[i]
    BY <1>1, <2>2, <2>3 DEF Later, Present
  <2>4. CASE live[i] # None /\ new[i].modified > live[i].modified
    <3>1. live[i].modified \in Nat
      BY <2>2, <2>4 DEF Tenants, Policy
    <3>2. live[i] = x[i] \/ live[i].modified > x[i].modified
      BY <1>1, <2>2, <2>4 DEF Later, Present
    <3> QED BY <2>2, <2>4, <3>1, <3>2
  <2> QED BY <2>2, <2>3, <2>4 DEF Moves
<1> QED BY <1>1, <1>2

\* Whatever happens in the tenant and to other tasks, a task stays sound.
LEMMA OthersStaySound ==
  ASSUME TypeOK, TypeOK', NEW t \in Tasks, Sound(t),
         pc'[t] = pc[t], source'[t] = source[t], approved'[t] = approved[t],
         delete'[t] = delete[t], planned'[t] = planned[t], shown'[t] = shown[t],
         want'[t] = want[t], read'[t] = read[t], todo'[t] = todo[t], mine'[t] = mine[t],
         used \subseteq used',
         \A j \in Ids : Moves(tenant, tenant', j) \/ j \notin used,
         \A s \in Seconds : points[s] \in SUBSET Want => points'[s] \in SUBSET Want
  PROVE  Sound(t)'
<1>1. tenant \in Tenants /\ tenant' \in Tenants /\ read[t] \in Tenants
  BY DEF TypeOK, Tenants
<1>2. ApprovalStands(t)'
  <2>1. ASSUME pc[t] = "planned" PROVE PlannedFor(t, tenant)'
    BY <1>1, <2>1, StaysPlanned DEF Sound, ApprovalStands, PlannedFor
  <2>2. ASSUME pc[t] = "check" PROVE PlannedFor(t, read[t])'
    <3>1. \A j \in Ids : Moves(read[t], read[t], j)
      BY DEF Moves
    <3> QED BY <1>1, <2>2, <3>1, StaysPlanned DEF Sound, ApprovalStands, PlannedFor
  <2> QED BY <2>1, <2>2 DEF Sound, ApprovalStands
<1>3. Unsent(t)'
  BY DEF Sound, Unsent, TypeOK
<1>4. RunsAsApproved(t)' /\ WithinRail(t)'
  BY DEF Sound, RunsAsApproved, Exchanged, WithinRail
<1> QED BY <1>2, <1>3, <1>4 DEF Sound

-----------------------------------------------------------------------------
(* The invariant is inductive *)

LEMMA DesiredType ==
  ASSUME TypeOK, NEW s \in Seconds \cup {None}, s # None => points[s] \in SUBSET Want
  PROVE  Desired(s) \in SUBSET Want /\ Adopting(s) \in Adoptions
<1>1. \A n \in Template : FromTemplate(n) \in Want
  BY TemplateAssumption, StatesAreNumbers DEF FromTemplate, Want, ReportOnly
<1>2. NoAdoption \in Adoptions
  BY DEF NoAdoption, Adoptions
<1>3. CASE s = None
  BY <1>1, <1>3 DEF Desired, Adopting, TypeOK
<1>4. CASE s # None
  <2>1. points[s] \in SUBSET Want
    BY <1>4 DEF TypeOK
  <2> QED BY <1>2, <1>4, <2>1 DEF Desired, Adopting
<1> QED BY <1>3, <1>4

\* An approval is a fingerprint.
LEMMA FingerprintType ==
  ASSUME NEW live \in Tenants, NEW d \in SUBSET Want, NEW m \in Adoptions, NEW del \in SUBSET Ids
  PROVE  Fingerprint(live, d, m, del) \in Approval
<1>1. \A i \in Present(live) : <<i, live[i].name, live[i].state, live[i].modified>>
                                 \in Ids \X Names \X States \X Nat
  BY DEF Present, Tenants, Policy
<1>2. \A w \in d : Content(w) \in [name : Names, state : States, safe : BOOLEAN]
  BY DEF Content, Want
<1> DEFINE T == {<<i, live[i].name, live[i].state, live[i].modified>> : i \in Present(live)}
           D == {Content(w) : w \in d}
<1>3. T \subseteq Ids \X Names \X States \X Nat
  BY <1>1
<1>4. D \subseteq [name : Names, state : States, safe : BOOLEAN]
  BY <1>2
<1>5. Fingerprint(live, d, m, del) = [tenant |-> T, desired |-> D, adopt |-> m, delete |-> del]
  BY DEF Fingerprint
<1> HIDE DEF T, D
<1> QED BY <1>3, <1>4, <1>5 DEF Approval

\* What is captured can be wanted.
LEMMA CaptureType ==
  ASSUME NEW live \in Tenants, NEW i \in Present(live)
  PROVE  Captured(i, live[i]) \in Want /\ live[i] \in Policy /\ i \in Ids
BY DEF Captured, Want, Present, Tenants, Policy

\* The invariant holds at the start.
LEMMA InitIInv == Init => IInv
<1> SUFFICES ASSUME Init PROVE IInv
  OBVIOUS
<1>1. tenant \in Tenants
  <2>1. PICK p \in [Names -> [state : {ReportOnly, Enabled}, safe : BOOLEAN] \cup {None}] :
          tenant = [i \in Ids |->
                      IF \E n \in Names : First[n] = i /\ p[n] # None
                      THEN LET n == CHOOSE n \in Names : First[n] = i
                           IN [name |-> n, state |-> p[n].state, safe |-> p[n].safe,
                               modified |-> 0]
                      ELSE None]
    BY DEF Init
  <2>2. ASSUME NEW i \in Ids PROVE tenant[i] \in Policy \cup {None}
    <3>1. CASE \E n \in Names : First[n] = i /\ p[n] # None
      <4> DEFINE n == CHOOSE n \in Names : First[n] = i
      <4>1. n \in Names /\ p[n] # None
        BY <3>1, FirstAssumption
      <4> HIDE DEF n
      <4>2. p[n].state \in States /\ p[n].safe \in BOOLEAN
        BY <4>1, StatesAreNumbers DEF ReportOnly, Enabled
      <4>3. tenant[i] = [name |-> n, state |-> p[n].state, safe |-> p[n].safe, modified |-> 0]
        BY <2>1, <3>1 DEF n
      <4> QED BY <4>1, <4>2, <4>3 DEF Policy
    <3>2. CASE ~\E n \in Names : First[n] = i /\ p[n] # None
      BY <2>1, <3>2
    <3> QED BY <3>1, <3>2
  <2> QED BY <2>1, <2>2 DEF Tenants
<1>2. TypeOK
  <2>1. edits \in 0 .. MaxEdits /\ now \in Seconds /\ used \subseteq Ids /\ Present(tenant) \subseteq used
    BY BoundsAssumption DEF Init, Seconds, Present
  <2>2. adopt \in Adoptions /\ \A t \in Tasks : read[t] \in Tenants
    BY DEF Init, NoAdoption, Adoptions, NoTenant, Tenants
  <2>3. /\ pc \in [Tasks -> {"idle", "planned", "check", "enable", "send", "over"}]
        /\ \A t \in Tasks : pc[t] = "idle"
    BY DEF Init
  <2>4. /\ points \in [Seconds -> {None} \cup SUBSET Want]
        /\ source \in [Tasks -> Seconds \cup {None}] /\ mine \in [Tasks -> Seconds \cup {None}]
        /\ approved \in [Tasks -> Approval \cup {None}] /\ delete \in [Tasks -> SUBSET Ids]
    BY DEF Init
  <2>5. /\ planned \in [Tasks -> SUBSET Want] /\ want \in [Tasks -> SUBSET Want]
        /\ shown \in [Tasks -> SUBSET Change] /\ todo \in [Tasks -> SUBSET Change]
    BY DEF Init
  <2>6. read \in [Tasks -> Tenants]
    BY <2>2 DEF Init
  <2> QED BY <1>1, <2>1, <2>2, <2>3, <2>4, <2>5, <2>6 DEF TypeOK, Tenants
<1>3. \A t \in Tasks : pc[t] = "idle" /\ approved[t] = None /\ todo[t] = {} /\ mine[t] = None
  BY DEF Init
<1> QED BY <1>2, <1>3 DEF IInv, Sound, ApprovalStands, Unsent, RunsAsApproved, Exchanged,
                           WithinRail, Undoable

\* Points that stay undo what is still to be sent.
LEMMA PointsStay ==
  ASSUME Undoable, points' = points, mine' = mine,
         \A t \in Tasks : todo'[t] \subseteq todo[t] /\ (todo'[t] = {} \/ read'[t] = read[t])
  PROVE  Undoable'
BY DEF Undoable

\* A point that is written undoes what its task sends, and replaces another only
\* within its second.
LEMMA PointIsStored ==
  ASSUME IInv, NEW t \in Tasks, NEW policies, StorePoint(t, policies), mine[t] = None,
         read' = read, todo' = [todo EXCEPT ![t] = todo'[t]],
         \A c \in todo'[t] : c.id = None \/ Captured(c.id, read[t][c.id]) \in policies
  PROVE  Undoable'
<1>1. /\ now \in Seconds /\ points' = [points EXCEPT ![now] = policies]
      /\ mine' = [mine EXCEPT ![t] = now]
      /\ DOMAIN points = Seconds /\ DOMAIN mine = Tasks /\ DOMAIN todo = Tasks
  BY DEF StorePoint, IInv, TypeOK
<1>2. SUFFICES ASSUME NEW u \in Tasks, NEW c \in todo'[u]
               PROVE  \/ c.id = None
                      \/ Captured(c.id, read[u][c.id]) \in points'[mine'[u]]
                      \/ \E v \in Tasks \ {u} : mine'[v] = mine'[u]
  BY DEF Undoable
<1>3. CASE u = t
  BY <1>1, <1>2, <1>3
<1>4. CASE u # t
  <2>1. c \in todo[u] /\ mine'[u] = mine[u] /\ mine'[t] = now
    BY <1>1, <1>2, <1>4
  <2>2. mine[u] # None
    BY <2>1 DEF IInv, Sound, Unsent, TypeOK
  <2>3. CASE mine[u] = now
    BY <1>4, <2>1, <2>3
  <2>4. CASE mine[u] # now
    <3>1. points'[mine[u]] = points[mine[u]]
      BY <1>1, <2>2, <2>4 DEF IInv, TypeOK
    <3>2. ASSUME NEW v \in Tasks \ {u}, mine[v] = mine[u] PROVE mine'[v] = mine'[u]
      BY <1>1, <2>1, <2>2, <3>2
    <3> QED BY <2>1, <3>1, <3>2 DEF IInv, Undoable
  <2> QED BY <2>3, <2>4
<1> QED BY <1>3, <1>4

\* Reading the tenant, to enable or to apply a plan, and planning.
LEMMA PlanKeeps ==
  ASSUME IInv, NEW t \in Tasks, Plan(t)
  PROVE  IInv'
<1>1. PICK s \in {None} \cup {s \in Seconds : points[s] # None} :
        LET desired == Desired(s)
            mapping == Adopting(s)
        IN /\ ~AdoptionBroken(tenant, mapping, desired)
           /\ \E d \in {{}} \cup {{i} : i \in Unmanaged(tenant, mapping, desired)} :
                /\ source' = [source EXCEPT ![t] = s]
                /\ delete' = [delete EXCEPT ![t] = d]
                /\ planned' = [planned EXCEPT ![t] = desired]
                /\ shown' = [shown EXCEPT ![t] = BuildPlan(tenant, desired, mapping, d)]
                /\ approved' = [approved EXCEPT ![t] = Fingerprint(tenant, desired, mapping, d)]
  BY DEF Plan
<1> DEFINE D == Desired(s)
           M == Adopting(s)
<1>2. PICK d \in {{}} \cup {{i} : i \in Unmanaged(tenant, M, D)} :
        /\ source' = [source EXCEPT ![t] = s]
        /\ delete' = [delete EXCEPT ![t] = d]
        /\ planned' = [planned EXCEPT ![t] = D]
        /\ shown' = [shown EXCEPT ![t] = BuildPlan(tenant, D, M, d)]
        /\ approved' = [approved EXCEPT ![t] = Fingerprint(tenant, D, M, d)]
  BY <1>1
<1>3. /\ pc[t] = "idle" /\ pc' = [pc EXCEPT ![t] = "planned"]
      /\ UNCHANGED <<tenant, used, edits, adopt, points, now, want, read, todo, mine>>
  BY DEF Plan, Goto, remote, disk, work
<1>4. /\ D \in SUBSET Want /\ M \in Adoptions /\ tenant \in Tenants
      /\ Present(tenant) \subseteq used
      /\ s \in Seconds \cup {None} /\ (s # None => points[s] \in SUBSET Want)
  <2>1. s \in Seconds \cup {None} /\ (s # None => points[s] \in SUBSET Want)
    BY DEF IInv, TypeOK
  <2> QED BY <2>1, DesiredType DEF IInv, TypeOK, Tenants
<1>5. ~AdoptionBroken(tenant, M, D) /\ d \in SUBSET Present(tenant)
  BY <1>1, <1>2 DEF Unmanaged
<1> HIDE DEF D, M
<1>6. /\ BuildPlan(tenant, D, M, d) \in SUBSET Change
      /\ Fingerprint(tenant, D, M, d) \in Approval /\ d \in SUBSET Ids
  <2>1. d \in SUBSET Ids
    BY <1>5 DEF Present
  <2>2. BuildPlan(tenant, D, M, d) \in SUBSET Change
    BY <1>4, <1>5, PlanFacts
  <2> QED BY <1>4, <2>1, <2>2, FingerprintType
<1>7. TypeOK'
  <2> DEFINE B == BuildPlan(tenant, D, M, d)
             F == Fingerprint(tenant, D, M, d)
  <2> HIDE DEF B, F
  <2>1. /\ shown' = [shown EXCEPT ![t] = B] /\ approved' = [approved EXCEPT ![t] = F]
        /\ B \in SUBSET Change /\ F \in Approval
    BY <1>2, <1>6 DEF B, F
  <2> QED BY <1>2, <1>3, <1>4, <1>6, <2>1 DEF IInv, TypeOK, Present
<1>8. ASSUME NEW u \in Tasks PROVE Sound(u)'
  <2>1. CASE u # t
    <3>1. /\ pc'[u] = pc[u] /\ source'[u] = source[u] /\ approved'[u] = approved[u]
          /\ delete'[u] = delete[u] /\ planned'[u] = planned[u] /\ shown'[u] = shown[u]
      BY <1>2, <1>3, <2>1 DEF IInv, TypeOK
    <3>2. \A j \in Ids : Moves(tenant, tenant', j)
      BY <1>3 DEF Moves
    <3> QED BY <1>3, <1>7, <3>1, <3>2, OthersStaySound DEF IInv
  <2>2. CASE u = t
    <3>1. /\ pc'[t] = "planned" /\ source'[t] = s /\ approved'[t] = Fingerprint(tenant, D, M, d)
          /\ delete'[t] = d /\ planned'[t] = D /\ shown'[t] = BuildPlan(tenant, D, M, d)
      BY <1>2, <1>3 DEF IInv, TypeOK
    <3>2. Later(tenant, tenant)
      BY DEF Later
    <3>3. PlannedFor(t, tenant)'
      BY <1>3, <1>4, <3>1, <3>2 DEF PlannedFor
    <3>4. todo[t] = {} /\ mine[t] = None
      BY <1>3 DEF IInv, Sound, Unsent
    <3> QED BY <1>3, <1>4, <2>2, <3>1, <3>3, <3>4
            DEF Sound, ApprovalStands, Unsent, RunsAsApproved, Exchanged, WithinRail
  <2> QED BY <2>1, <2>2
<1>9. Undoable'
  BY <1>3, PointsStay DEF IInv
<1> QED BY <1>7, <1>8, <1>9 DEF IInv

\* Reading the tenant keeps the invariant: the plan approved is one for an earlier
\* tenant than the one read.
LEMMA ReadKeeps ==
  ASSUME IInv, NEW t \in Tasks, Read(t) \/ ReadToEnable(t)
  PROVE  IInv'
<1>1. /\ UNCHANGED <<tenant, used, edits, adopt, points, now, source, approved, delete, planned, shown,
                     todo, mine>>
      /\ read' = [read EXCEPT ![t] = tenant]
      /\ \/ /\ pc[t] = "planned" /\ pc' = [pc EXCEPT ![t] = "check"]
            /\ want' = [want EXCEPT ![t] = Desired(source[t])]
         \/ pc[t] = "idle" /\ pc' = [pc EXCEPT ![t] = "enable"] /\ want' = want
  BY DEF Read, ReadToEnable, Goto, remote, disk, intent
<1>2. pc[t] = "planned" => Desired(source[t]) \in SUBSET Want
  BY DesiredType DEF IInv, TypeOK, Sound, Unsent
<1>3. TypeOK'
  <2> DEFINE D == Desired(source[t])
  <2> HIDE DEF D
  <2>1. want' = want \/ (want' = [want EXCEPT ![t] = D] /\ D \in SUBSET Want)
    BY <1>1, <1>2 DEF D
  <2>2. want' \in [Tasks -> SUBSET Want]
    BY <2>1 DEF IInv, TypeOK
  <2>3. pc' \in [Tasks -> {"idle", "planned", "check", "enable", "send", "over"}]
    BY <1>1 DEF IInv, TypeOK
  <2>4. \A u \in Tasks : pc'[u] = "send" => pc[u] = "send"
    BY <1>1 DEF IInv, TypeOK
  <2> QED BY <1>1, <2>2, <2>3, <2>4 DEF IInv, TypeOK, Present
<1>4. ASSUME NEW u \in Tasks PROVE Sound(u)'
  <2>1. CASE u # t
    <3>1. pc'[u] = pc[u] /\ want'[u] = want[u] /\ read'[u] = read[u]
      BY <1>1, <2>1 DEF IInv, TypeOK
    <3>2. \A j \in Ids : Moves(tenant, tenant', j)
      BY <1>1 DEF Moves
    <3> QED BY <1>1, <1>3, <3>1, <3>2, OthersStaySound DEF IInv
  <2>2. CASE u = t
    <3>1. pc[t] \in {"planned", "idle"} /\ todo[t] = {} /\ read'[t] = tenant
      BY <1>1 DEF IInv, TypeOK, Sound, Unsent
    <3>2. pc'[t] = "check" => PlannedFor(t, read[t])'
      BY <1>1, <3>1 DEF IInv, TypeOK, Sound, ApprovalStands, PlannedFor
    <3> QED BY <1>1, <2>2, <3>1, <3>2
            DEF IInv, TypeOK, Sound, ApprovalStands, Unsent, RunsAsApproved, Exchanged, WithinRail
  <2> QED BY <2>1, <2>2
<1>5. Undoable'
  <2>1. \A u \in Tasks : todo'[u] = {} \/ read'[u] = read[u]
    BY <1>1 DEF IInv, TypeOK, Sound, Unsent
  <2> QED BY <1>1, <2>1, PointsStay DEF IInv
<1> QED BY <1>3, <1>4, <1>5 DEF IInv

\* A request that is over has nothing to send.
LEMMA FinishKeeps ==
  ASSUME IInv, NEW t \in Tasks, Refuse(t) \/ Report(t)
  PROVE  IInv'
<1>1. /\ UNCHANGED <<tenant, used, edits, adopt, points, now, todo, mine>>
      /\ Finish(t) /\ pc[t] \in {"check", "enable", "send"} /\ todo[t] = {}
  BY DEF Refuse, Report, Finish, remote, disk, IInv, Sound, Unsent
<1>2. /\ pc' = [pc EXCEPT ![t] = "over"] /\ source' = [source EXCEPT ![t] = None]
      /\ approved' = [approved EXCEPT ![t] = None] /\ delete' = [delete EXCEPT ![t] = {}]
      /\ planned' = [planned EXCEPT ![t] = {}] /\ shown' = [shown EXCEPT ![t] = {}]
      /\ want' = [want EXCEPT ![t] = {}] /\ read' = [read EXCEPT ![t] = NoTenant]
  BY <1>1 DEF Finish
<1>3. TypeOK'
  <2>1. NoTenant \in Tenants
    BY DEF NoTenant, Tenants
  <2>2. read' \in [Tasks -> Tenants]
    BY <1>2, <2>1 DEF IInv, TypeOK, Tenants
  <2>3. \A u \in Tasks : pc'[u] = "send" => pc[u] = "send"
    BY <1>2 DEF IInv, TypeOK
  <2>4. /\ pc' \in [Tasks -> {"idle", "planned", "check", "enable", "send", "over"}]
        /\ source' \in [Tasks -> Seconds \cup {None}]
        /\ approved' \in [Tasks -> Approval \cup {None}] /\ delete' \in [Tasks -> SUBSET Ids]
    BY <1>2 DEF IInv, TypeOK
  <2>5. /\ planned' \in [Tasks -> SUBSET Want] /\ want' \in [Tasks -> SUBSET Want]
        /\ shown' \in [Tasks -> SUBSET Change]
    BY <1>2 DEF IInv, TypeOK
  <2> QED BY <1>1, <2>2, <2>3, <2>4, <2>5 DEF IInv, TypeOK, Present, Tenants
<1>4. ASSUME NEW u \in Tasks PROVE Sound(u)'
  <2>1. CASE u # t
    <3>1. /\ pc'[u] = pc[u] /\ source'[u] = source[u] /\ approved'[u] = approved[u]
          /\ delete'[u] = delete[u] /\ planned'[u] = planned[u] /\ shown'[u] = shown[u]
          /\ want'[u] = want[u] /\ read'[u] = read[u]
      BY <1>2, <2>1 DEF IInv, TypeOK
    <3>2. \A j \in Ids : Moves(tenant, tenant', j)
      BY <1>1 DEF Moves
    <3> QED BY <1>1, <1>3, <3>1, <3>2, OthersStaySound DEF IInv
  <2>2. CASE u = t
    <3>1. pc'[t] = "over" /\ approved'[t] = None /\ todo'[t] = {}
      BY <1>1, <1>2 DEF IInv, TypeOK
    <3> QED BY <2>2, <3>1 DEF Sound, ApprovalStands, Unsent, RunsAsApproved, Exchanged, WithinRail
  <2> QED BY <2>1, <2>2
<1>5. Undoable'
  <2>1. \A u \in Tasks : todo'[u] = {} \/ read'[u] = read[u]
    BY <1>1, <1>2 DEF IInv, TypeOK
  <2> QED BY <1>1, <2>1, PointsStay DEF IInv
<1> QED BY <1>3, <1>4, <1>5 DEF IInv

\* A task that goes on to send changes it may send, after storing its point.
LEMMA SendingKeeps ==
  ASSUME IInv, NEW t \in Tasks, NEW policies \in SUBSET Want, NEW changes \in SUBSET Change,
         mine[t] = None,
         StorePoint(t, policies), todo' = [todo EXCEPT ![t] = changes],
         pc' = [pc EXCEPT ![t] = "send"],
         UNCHANGED <<tenant, used, edits, adopt, now, intent, want, read>>,
         \A c \in changes : c.id = None \/ Captured(c.id, read[t][c.id]) \in policies,
         \A c \in changes : c.action # "delete" /\ LockoutRisk(c.body) =>
                              c.action = "update" /\ read[t][c.id].state = Enabled,
         approved[t] # None /\ ~Exchanged(t) => changes \subseteq shown[t]
  PROVE  IInv'
<1>1. /\ now \in Seconds /\ now # None
      /\ points' = [points EXCEPT ![now] = policies] /\ mine' = [mine EXCEPT ![t] = now]
      /\ UNCHANGED <<source, approved, delete, planned, shown>>
  BY BoundsAssumption DEF StorePoint, IInv, TypeOK, Seconds, intent
<1>2. TypeOK'
  <2>1. /\ points' \in [Seconds -> {None} \cup SUBSET Want]
        /\ mine' \in [Tasks -> Seconds \cup {None}] /\ todo' \in [Tasks -> SUBSET Change]
        /\ pc' \in [Tasks -> {"idle", "planned", "check", "enable", "send", "over"}]
    BY <1>1 DEF IInv, TypeOK
  <2>2. \A u \in Tasks : pc'[u] = "send" => mine'[u] # None
    BY <1>1 DEF IInv, TypeOK
  <2> QED BY <1>1, <2>1, <2>2 DEF IInv, TypeOK, Present
<1>3. \A s \in Seconds : points[s] \in SUBSET Want => points'[s] \in SUBSET Want
  BY <1>1 DEF IInv, TypeOK
<1>4. ASSUME NEW u \in Tasks PROVE Sound(u)'
  <2>1. CASE u # t
    <3>1. pc'[u] = pc[u] /\ todo'[u] = todo[u] /\ mine'[u] = mine[u]
      BY <1>1, <2>1 DEF IInv, TypeOK
    <3>2. \A j \in Ids : Moves(tenant, tenant', j)
      BY DEF Moves
    <3> QED BY <1>1, <1>2, <1>3, <3>1, <3>2, OthersStaySound DEF IInv
  <2>2. CASE u = t
    <3>1. pc'[t] = "send" /\ todo'[t] = changes
      BY DEF IInv, TypeOK
    <3> QED BY <1>1, <2>2, <3>1 DEF Sound, ApprovalStands, Unsent, RunsAsApproved, Exchanged, WithinRail
  <2> QED BY <2>1, <2>2
<1>5. Undoable'
  <2>1. todo'[t] = changes
    BY DEF IInv, TypeOK
  <2> QED BY <2>1, PointIsStored
<1> QED BY <1>2, <1>4, <1>5 DEF IInv
\* The plan that is applied is the one that was approved, after its restore point.
LEMMA CheckKeeps ==
  ASSUME IInv, NEW t \in Tasks, Check(t)
  PROVE  IInv'
<1> DEFINE R == read[t]
           W == want[t]
           M == Adopting(source[t])
           D == delete[t]
           B == BuildPlan(R, W, M, D)
<1>1. /\ pc[t] = "check" /\ pc' = [pc EXCEPT ![t] = "send"]
      /\ ~AdoptionBroken(R, M, W) /\ D \subseteq Unmanaged(R, M, W)
      /\ approved[t] = Fingerprint(R, W, M, D)
      /\ StorePoint(t, Capture(R)) /\ todo' = [todo EXCEPT ![t] = Applicable(B)]
      /\ UNCHANGED <<tenant, used, edits, adopt, now, intent, want, read>>
  BY DEF Check, Approved, Snapshot, Goto, remote
<1>2. R \in Tenants /\ W \in SUBSET Want /\ M \in Adoptions /\ mine[t] = None
  <2>1. source[t] \in Seconds \cup {None} /\ (source[t] # None => points[source[t]] \in SUBSET Want)
    BY <1>1 DEF IInv, TypeOK, Sound, Unsent
  <2>2. M \in Adoptions
    BY <2>1, DesiredType DEF IInv
  <2> HIDE DEF M
  <2> QED BY <1>1, <2>2 DEF IInv, TypeOK, Sound, Unsent, Tenants
<1>3. PICK x \in Tenants, m \in Adoptions :
        /\ Later(x, R)
        /\ approved[t] = Fingerprint(x, planned[t], m, delete[t])
        /\ shown[t] = BuildPlan(x, planned[t], m, delete[t])
  BY <1>1 DEF IInv, Sound, ApprovalStands, PlannedFor
<1> HIDE DEF R, W, M
<1>4. x = R /\ m = M /\ {Content(w) : w \in planned[t]} = {Content(w) : w \in W}
  <2>1. Fingerprint(x, planned[t], m, delete[t]) = Fingerprint(R, W, M, D)
    BY <1>1, <1>3
  <2> HIDE DEF D
  <2> QED BY <1>2, <1>3, <2>1, FingerprintTells
<1>5. W = planned[t] => B = shown[t]
  BY <1>3, <1>4
<1>6. D \in SUBSET Present(R)
  BY <1>1 DEF Unmanaged
<1>7. /\ B \subseteq Change
      /\ \A c \in B :
           \/ c.action = "create" /\ c.id = None /\ (~c.refused => ~LockoutRisk(c.body))
           \/ /\ c.action = "update" /\ c.id \in Present(R)
              /\ ~c.refused /\ LockoutRisk(c.body) => R[c.id].state = Enabled
           \/ c.action = "delete" /\ c.id \in D
  <2> HIDE DEF D
  <2> QED BY <1>1, <1>2, <1>6, PlanFacts
<1> HIDE DEF B, D
<1>8. Applicable(B) \in SUBSET Change /\ Applicable(B) \subseteq B
  BY <1>7 DEF Applicable
<1>9. \A c \in Applicable(B) : c.id = None \/ Captured(c.id, R[c.id]) \in Capture(R)
  BY <1>6, <1>7 DEF Applicable, Capture
<1>10. Capture(R) \in SUBSET Want
  BY <1>2, CaptureType DEF Capture
<1>11. \A c \in Applicable(B) : c.action # "delete" /\ LockoutRisk(c.body) =>
                                  c.action = "update" /\ R[c.id].state = Enabled
  BY <1>7 DEF Applicable
<1>12. approved[t] # None /\ ~Exchanged(t) => Applicable(B) \subseteq shown[t]
  BY <1>4, <1>5, <1>8 DEF W, Exchanged
<1> DEFINE A == Applicable(B)
           P == Capture(R)
<1>13. /\ A \in SUBSET Change /\ P \in SUBSET Want
       /\ \A c \in A : c.id = None \/ Captured(c.id, read[t][c.id]) \in P
       /\ \A c \in A : c.action # "delete" /\ LockoutRisk(c.body) =>
                         c.action = "update" /\ read[t][c.id].state = Enabled
       /\ approved[t] # None /\ ~Exchanged(t) => A \subseteq shown[t]
       /\ StorePoint(t, P) /\ todo' = [todo EXCEPT ![t] = A]
  BY <1>1, <1>8, <1>9, <1>10, <1>11, <1>12 DEF R, W
<1> HIDE DEF A, P
<1> QED BY <1>1, <1>2, <1>13, SendingKeeps

\* An enabling sends its one change after writing its point.
LEMMA EnableKeeps ==
  ASSUME IInv, NEW t \in Tasks, Enable(t)
  PROVE  IInv'
<1>1. /\ pc[t] = "enable" /\ pc' = [pc EXCEPT ![t] = "send"]
      /\ UNCHANGED <<tenant, used, edits, adopt, now, intent, want, read>>
  BY DEF Enable, Goto, remote
<1> DEFINE body(i) == [Content(read[t][i]) EXCEPT !.state = Enabled]
           change(i) == [action |-> "enable", id |-> i, body |-> body(i), refused |-> FALSE]
<1>2. PICK i \in Present(read[t]) :
        /\ ~LockoutRisk(body(i))
        /\ StorePoint(t, {Captured(i, read[t][i])})
        /\ todo' = [todo EXCEPT ![t] = {change(i)}]
  BY DEF Enable
<1>3. /\ mine[t] = None /\ approved[t] = None /\ read[t] \in Tenants
  BY <1>1 DEF IInv, TypeOK, Sound, Unsent, ApprovalStands, Tenants
<1>4. Captured(i, read[t][i]) \in Want /\ read[t][i] \in Policy /\ i \in Ids
  BY <1>2, <1>3, CaptureType
<1>5. body(i) \in Bodies
  BY <1>4, StatesAreNumbers DEF Content, Policy, Bodies
<1> HIDE DEF body
<1>6. change(i) \in Change /\ change(i).id = i /\ change(i).body = body(i)
  BY <1>4, <1>5 DEF Change, Bodies
<1> DEFINE A == {change(i)}
           P == {Captured(i, read[t][i])}
<1> HIDE DEF change
<1>7. /\ A \in SUBSET Change /\ P \in SUBSET Want
      /\ \A c \in A : c.id = None \/ Captured(c.id, read[t][c.id]) \in P
      /\ \A c \in A : ~LockoutRisk(c.body)
      /\ StorePoint(t, P) /\ todo' = [todo EXCEPT ![t] = A]
  BY <1>2, <1>4, <1>6
<1> HIDE DEF A, P
<1> QED BY <1>1, <1>3, <1>7, SendingKeeps

\* A step that writes the tenant at most, and sends nothing more than before.
LEMMA WritingKeeps ==
  ASSUME IInv, TypeOK',
         UNCHANGED <<points, now, pc, intent, want, read, mine>>,
         used \subseteq used',
         \A t \in Tasks : todo'[t] \subseteq todo[t],
         \A j \in Ids : Moves(tenant, tenant', j) \/ j \notin used
  PROVE  IInv'
<1>1. UNCHANGED <<source, approved, delete, planned, shown>>
  BY DEF intent
<1>2. ASSUME NEW t \in Tasks PROVE Sound(t)'
  <2>1. tenant \in Tenants /\ tenant' \in Tenants /\ read[t] \in Tenants
    BY DEF IInv, TypeOK, Tenants
  <2>2. ApprovalStands(t)'
    <3>1. ASSUME pc[t] = "planned" PROVE PlannedFor(t, tenant)'
      BY <1>1, <2>1, <3>1, StaysPlanned DEF IInv, Sound, ApprovalStands, PlannedFor
    <3>2. ASSUME pc[t] = "check" PROVE PlannedFor(t, read[t])'
      <4>1. \A j \in Ids : Moves(read[t], read[t], j)
        BY DEF Moves
      <4> QED BY <1>1, <2>1, <3>2, <4>1, StaysPlanned DEF IInv, Sound, ApprovalStands, PlannedFor
    <3> QED BY <1>1, <3>1, <3>2 DEF IInv, Sound, ApprovalStands
  <2>3. Unsent(t)' /\ RunsAsApproved(t)' /\ WithinRail(t)'
    BY <1>1 DEF IInv, Sound, Unsent, RunsAsApproved, Exchanged, WithinRail
  <2> QED BY <2>2, <2>3 DEF Sound
<1>3. Undoable'
  BY PointsStay DEF IInv
<1> QED BY <1>2, <1>3 DEF IInv

\* A change that is sent, or fails, moves the tenant on.
LEMMA SendKeeps ==
  ASSUME IInv, NEW t \in Tasks, Send(t) \/ SendFails(t)
  PROVE  IInv'
<1>1. /\ UNCHANGED <<edits, adopt, points, now, pc, intent, want, read, mine>>
  BY DEF Send, SendFails, disk
<1>2. PICK c \in todo[t] : todo' = [todo EXCEPT ![t] = todo[t] \ {c}]
  BY DEF Send, SendFails, IInv, TypeOK
<1>3. /\ todo' \in [Tasks -> SUBSET Change] /\ \A u \in Tasks : todo'[u] \subseteq todo[u]
  BY <1>2 DEF IInv, TypeOK
<1>4. /\ tenant' \in Tenants /\ used' \subseteq Ids /\ Present(tenant') \subseteq used'
      /\ used \subseteq used' /\ \A j \in Ids : Moves(tenant, tenant', j) \/ j \notin used
  <2>1. CASE Send(t)
    <3>1. PICK d \in todo[t] : \E i \in IF d.action = "create" THEN Ids \ used ELSE {None} :
                                 /\ tenant' = Written(tenant, d, i)
                                 /\ used' = used \cup ({i} \ {None})
      BY <2>1 DEF Send
    <3>2. PICK i \in IF d.action = "create" THEN Ids \ used ELSE {None} :
                 /\ tenant' = Written(tenant, d, i)
                 /\ used' = used \cup ({i} \ {None})
      BY <3>1
    <3>3. d \in Change /\ i \in Ids \cup {None} /\ (d.action = "create" => i \in Ids)
          /\ tenant \in Tenants /\ i \notin used
      BY <3>1, <3>2, NoneIsNoId DEF IInv, TypeOK, Tenants
    <3>4. /\ tenant' \in Tenants
          /\ \A j \in Ids : Moves(tenant, tenant', j) \/ j = i
          /\ Present(tenant') \subseteq Present(tenant) \cup {i}
      BY <3>2, <3>3, WriteMovesOn
    <3>5. None \notin Present(tenant')
      BY NoneIsNoId DEF Present
    <3> QED BY <3>2, <3>3, <3>4, <3>5 DEF IInv, TypeOK
  <2>2. CASE SendFails(t)
    BY <2>2 DEF SendFails, remote, IInv, TypeOK, Tenants, Moves
  <2> QED BY <2>1, <2>2
<1>5. TypeOK'
  BY <1>1, <1>3, <1>4 DEF IInv, TypeOK, Tenants, intent
<1> QED BY <1>1, <1>3, <1>4, <1>5, WritingKeeps

\* What an administrator edits moves on, too.
LEMMA EditKeeps ==
  ASSUME IInv, (\E n \in Names : SetAdoption(n)) \/ (\E i \in Ids : Administrate(i))
  PROVE  IInv'
<1>1. /\ UNCHANGED <<used, points, now, pc, intent, want, read, todo, mine>>
      /\ edits < MaxEdits /\ edits' = edits + 1
  BY DEF SetAdoption, Administrate, remote, disk, work
<1>2. edits' \in 0 .. MaxEdits
  BY <1>1, BoundsAssumption DEF IInv, TypeOK
<1>3. adopt' \in Adoptions
  <2>1. CASE \E i \in Ids : Administrate(i)
    BY <2>1 DEF Administrate, disk, IInv, TypeOK
  <2>2. CASE \E n \in Names : SetAdoption(n)
    BY <2>2 DEF SetAdoption, Present, IInv, TypeOK, Adoptions
  <2> QED BY <2>1, <2>2
<1>4. /\ tenant' \in Tenants /\ Present(tenant') \subseteq Present(tenant)
      /\ \A j \in Ids : Moves(tenant, tenant', j)
  <2>1. CASE \E n \in Names : SetAdoption(n)
    <3>1. tenant' = tenant /\ tenant \in Tenants
      BY <2>1 DEF SetAdoption, remote, IInv, TypeOK, Tenants
    <3> QED BY <3>1 DEF Moves, Present
  <2>2. CASE \E i \in Ids : Administrate(i)
    <3>1. PICK i \in Ids : Administrate(i)
      BY <2>2
    <3> DEFINE q == tenant[i]
               p(s, safe) == [name |-> q.name, state |-> s, safe |-> safe,
                              modified |-> q.modified + 1]
    <3>2. PICK s \in States, safe \in BOOLEAN :
            tenant' = [tenant EXCEPT ![i] = p(s, safe)] \/ tenant' = [tenant EXCEPT ![i] = None]
      BY <3>1 DEF Administrate
    <3>3. q \in Policy /\ q.modified \in Nat /\ q # None
      BY <3>1 DEF Administrate, IInv, TypeOK, Policy
    <3> HIDE DEF q
    <3>5. p(s, safe) \in Policy /\ p(s, safe).modified > q.modified
      BY <3>3 DEF Policy
    <3> HIDE DEF p
    <3>6. tenant \in Tenants /\ tenant[i] = q
      BY DEF IInv, TypeOK, Tenants, q
    <3>7. tenant' \in Tenants
      BY <3>2, <3>5, <3>6 DEF Tenants
    <3>8. \A j \in Ids : Moves(tenant, tenant', j)
      BY <3>2, <3>3, <3>5, <3>6 DEF Tenants, Moves
    <3> QED BY <3>7, <3>8 DEF Moves, Present
  <2> QED BY <2>1, <2>2
<1>5. TypeOK'
  BY <1>1, <1>2, <1>3, <1>4 DEF IInv, TypeOK, Tenants, intent
<1> QED BY <1>1, <1>4, <1>5, WritingKeeps

\* The clock touches nothing else.
LEMMA SecondKeeps == ASSUME IInv, Second PROVE IInv'
<1>1. /\ UNCHANGED <<tenant, used, edits, adopt, points, pc, intent, want, read, todo, mine>>
      /\ now' \in Seconds
  BY BoundsAssumption DEF Second, remote, disk, work, IInv, TypeOK, Seconds
<1>2. UNCHANGED <<source, approved, delete, planned, shown>>
  BY <1>1 DEF intent
<1>3. TypeOK'
  BY <1>1, <1>2 DEF IInv, TypeOK, Present
<1>4. ASSUME NEW t \in Tasks PROVE Sound(t)'
  BY <1>1, <1>2 DEF IInv, Sound, ApprovalStands, PlannedFor, Later, Unsent, RunsAsApproved,
                    Exchanged, WithinRail
<1>5. Undoable'
  BY <1>1, PointsStay DEF IInv
<1> QED BY <1>3, <1>4, <1>5 DEF IInv

\* Every step keeps the invariant.
LEMMA StepKeeps == IInv /\ [Next]_vars => IInv'
<1> SUFFICES ASSUME IInv, [Next]_vars PROVE IInv'
  OBVIOUS
<1>1. ASSUME NEW t \in Tasks, Step(t) PROVE IInv'
  BY <1>1, PlanKeeps, ReadKeeps, FinishKeeps, CheckKeeps, EnableKeeps, SendKeeps DEF Step
<1>2. CASE Second
  BY <1>2, SecondKeeps
<1>3. CASE (\E n \in Names : SetAdoption(n)) \/ (\E i \in Ids : Administrate(i))
  BY <1>3, EditKeeps
<1>4. CASE UNCHANGED vars
  <2>1. /\ UNCHANGED <<tenant, used, edits, adopt, points, now, pc, intent, want, read, todo, mine>>
    BY <1>4 DEF vars, remote, disk, work
  <2>2. TypeOK'
    BY <2>1 DEF IInv, TypeOK, Present, intent
  <2>3. \A j \in Ids : Moves(tenant, tenant', j)
    BY <2>1 DEF Moves
  <2> QED BY <2>1, <2>2, <2>3, WritingKeeps
<1> QED BY <1>1, <1>2, <1>3, <1>4 DEF Next

\* The invariant all of the following rest on holds in every reachable state.
THEOREM InductiveInvariant == Spec => []IInv
BY InitIInv, StepKeeps, PTL DEF Spec

\* Every variable keeps its type, and a request that sends has written a point.
THEOREM TypeCorrect == Spec => []TypeOK
<1>1. IInv => TypeOK
  BY DEF IInv
<1> QED BY <1>1, InductiveInvariant, PTL

\* No change is sent that was not on the plan its operator read and approved
\* (plan_fingerprint is compared in deploy and in restore).
THEOREM OnlyTheApprovedRuns == Spec => []ApprovedIsWhatRuns
<1>1. IInv => ApprovedIsWhatRuns
  BY DEF IInv, Sound, RunsAsApproved, ApprovedIsWhatRuns
<1> QED BY <1>1, InductiveInvariant, PTL

\* What a request still has to replace is in the restore point it wrote.
THEOREM WritesAreUndoable == Spec => []Undoable
<1>1. IInv => Undoable
  BY DEF IInv
<1> QED BY <1>1, InductiveInvariant, PTL

\* Nothing is sent that locks everybody out and did not before.
THEOREM RailIsKept == Spec => []RailHolds
<1>1. IInv => RailHolds
  BY DEF IInv, Sound, WithinRail, RailHolds
<1> QED BY <1>1, InductiveInvariant, PTL

-----------------------------------------------------------------------------
(* Undoing a deployment *)

\* An update leaves its policy with the body it carries, and no other is touched.
LEMMA UpdateIsWritten ==
  ASSUME NEW live \in Tenants, NEW c \in Change, c.action = "update", c.id \in Present(live)
  PROVE  LET q == Written(live, c, None)[c.id]
         IN /\ q \in Policy /\ q.name = c.body.name
            /\ q.state = c.body.state /\ q.safe = c.body.safe
<1>1. c.id \in Ids /\ live[c.id] # None /\ live[c.id].modified \in Nat /\ c.body \in Bodies
  BY DEF Present, Tenants, Policy, Change, Bodies
<1>2. Written(live, c, None) =
        [live EXCEPT ![c.id] = [name |-> c.body.name, state |-> c.body.state,
                                safe |-> c.body.safe, modified |-> live[c.id].modified + 1]]
  BY <1>1 DEF Written
<1> HIDE DEF Written
<1>3. Written(live, c, None)[c.id] = [name |-> c.body.name, state |-> c.body.state,
                                      safe |-> c.body.safe, modified |-> live[c.id].modified + 1]
  BY <1>1, <1>2 DEF Tenants
<1> QED BY <1>1, <1>3 DEF Policy, Bodies

\* An update to a captured policy brings back its name and its exclusions, and a
\* state no weaker.
LEMMA CapturedComesBack ==
  ASSUME NEW current \in Policy, NEW p \in Policy, NEW i \in Ids
  PROVE  LET body == Update(i, current, Captured(i, p)).body
         IN body.name = p.name /\ body.safe = p.safe /\ body.state >= p.state
<1> DEFINE merged == [name |-> p.name, state |-> p.state, safe |-> p.safe]
<1>1. MergeInto(current, Captured(i, p)) = merged
  BY DEF MergeInto, Captured, Policy
<1>2. merged \in Bodies /\ p.state \in {0, 1, 2} /\ current.state \in {0, 1, 2}
  BY StatesAreNumbers DEF Bodies, Policy
<1>3. Update(i, current, Captured(i, p)).body = KeepState(current, merged)
  BY <1>1 DEF Update
<1> QED BY <1>2, <1>3 DEF KeepState, Bodies

\* A plan that deletes nothing leaves every policy in place.
LEMMA NothingDisappears ==
  ASSUME NEW live \in Tenants, NEW desired \in SUBSET Want, NEW m \in Adoptions,
         ~AdoptionBroken(live, m, desired)
  PROVE  LET after == Applied(live, BuildPlan(live, desired, m, {}))
         IN after \in Tenants /\ Present(after) = Present(live)
<1> DEFINE plan == BuildPlan(live, desired, m, {})
           after == Applied(live, plan)
<1>1. /\ plan \subseteq Change
      /\ \A c \in plan : \/ c.id = None
                         \/ c.action = "update" /\ c.id \in Present(live)
  BY PlanFacts
<1> HIDE DEF plan
<1>2. ASSUME NEW i \in Ids
      PROVE  after[i] \in Policy \cup {None} /\ (after[i] = None <=> live[i] = None)
  <2> DEFINE C == {c \in Applicable(plan) : c.id = i}
  <2>1. after[i] = IF C = {} THEN live[i] ELSE Written(live, CHOOSE c \in C : TRUE, None)[i]
    BY DEF Applied
  <2>2. CASE C = {}
    BY <2>1, <2>2 DEF Tenants
  <2>3. CASE C # {}
    <3> DEFINE c == CHOOSE c \in C : TRUE
    <3>1. c \in C
      BY <2>3
    <3> HIDE DEF c
    <3>2. c \in Change /\ c.id = i /\ c.action = "update" /\ i \in Present(live)
      BY <1>1, <3>1, NoneIsNoId DEF Applicable
    <3>3. Written(live, c, None)[i] \in Policy
      BY <3>2, UpdateIsWritten
    <3> QED BY <2>1, <2>3, <3>2, <3>3, NoneIsNoPolicy DEF c, Present
  <2> QED BY <2>2, <2>3
<1>3. after \in [Ids -> Policy \cup {None}]
  BY <1>2 DEF Applied
<1> HIDE DEF after
<1>4. after \in Tenants /\ Present(after) = Present(live)
  BY <1>2, <1>3 DEF Tenants, Present
<1> QED BY <1>4 DEF after, plan

\* Restoring what was captured before a deployment gives each policy back its
\* name and its exclusions, whichever policies the standard adopted.
THEOREM DeploymentsAreUndone == Spec => []RestoreUndoesDeployment
<1> DEFINE desired == {FromTemplate(n) : n \in Template}
           deployed == Applied(tenant, BuildPlan(tenant, desired, adopt, {}))
           captured == Capture(tenant)
           back == BuildPlan(deployed, captured, NoAdoption, {})
           restored == Applied(deployed, back)
<1>1. TypeOK => RestoreUndoesDeployment
  <2> SUFFICES ASSUME TypeOK, ~AdoptionBroken(tenant, adopt, desired), NEW i \in Present(tenant)
               PROVE  \/ \E c \in back : c.id = i /\ c.refused
                      \/ /\ restored[i].name = tenant[i].name
                         /\ restored[i].safe = tenant[i].safe
                         /\ restored[i].state >= tenant[i].state
    BY DEF RestoreUndoesDeployment
  <2>1. tenant \in Tenants /\ adopt \in Adoptions /\ i \in Ids /\ tenant[i] \in Policy
    BY DEF TypeOK, Tenants, Present
  <2>2. deployed \in Tenants /\ Present(deployed) = Present(tenant)
    <3>1. desired \in SUBSET Want
      BY DesiredType DEF Desired
    <3> HIDE DEF desired
    <3> QED BY <2>1, <3>1, NothingDisappears
  <2> HIDE DEF desired, deployed
  <2> DEFINE w(j) == Captured(j, tenant[j])
             up(j) == Update(j, deployed[j], w(j))
  <2>3. ASSUME NEW j \in Present(tenant)
        PROVE  Match(deployed, NoAdoption, w(j)) = j /\ j # None
    <3>1. j \in Ids /\ w(j).id = j /\ w(j).name \in Names
      BY <2>1 DEF Captured, Present, Tenants, Policy
    <3> HIDE DEF w
    <3> QED BY <2>2, <2>3, <3>1, NoneIsNoId DEF Match, NoAdoption
  <2>4. ASSUME NEW j \in Present(tenant)
        PROVE  w(j) \in Want /\ deployed[j] \in Policy /\ up(j) \in Change
               /\ up(j).action = "update" /\ up(j).id = j
    <3>1. w(j) \in Want /\ j \in Ids
      BY <2>1, <2>4, CaptureType
    <3>2. deployed[j] \in Policy
      BY <2>2, <2>4 DEF Tenants, Present
    <3> HIDE DEF w
    <3> QED BY <3>1, <3>2, UpdateFacts
  <2>5. back = {c \in {up(j) : j \in Present(tenant)} : c.body # Content(deployed[c.id])}
    <3>1. captured = {w(j) : j \in Present(tenant)}
      BY DEF Capture
    <3> HIDE DEF captured, w
    <3>2. {IF Match(deployed, NoAdoption, v) = None THEN Create(v)
           ELSE Update(Match(deployed, NoAdoption, v), deployed[Match(deployed, NoAdoption, v)], v)
             : v \in captured} = {up(j) : j \in Present(tenant)}
      BY <2>3, <3>1
    <3> HIDE DEF up
    <3> DEFINE U == {up(j) : j \in Present(tenant)}
    <3>3. \A c \in U : c.action = "update"
      BY <2>4
    <3>4. back = {c \in U : c.action # "update" \/ c.body # Content(deployed[c.id])}
      BY <3>2 DEF BuildPlan
    <3> QED BY <3>3, <3>4
  <2> HIDE DEF back
  <2>6. \A c \in back : c.id = i => c = up(i)
    <3> HIDE DEF up
    <3> QED BY <2>4, <2>5
  <2>7. /\ up(i).body.name = tenant[i].name /\ up(i).body.safe = tenant[i].safe
        /\ up(i).body.state >= tenant[i].state
    <3>1. deployed[i] \in Policy
      BY <2>1, <2>2 DEF Tenants, Present
    <3> QED BY <2>1, <3>1, CapturedComesBack
  <2> HIDE DEF up
  <2> DEFINE C == {c \in Applicable(back) : c.id = i}
  <2>8. restored[i] = IF C = {} THEN deployed[i]
                                ELSE Written(deployed, CHOOSE c \in C : TRUE, None)[i]
    BY <2>1 DEF Applied
  <2>9. CASE up(i) \notin back
    <3>1. C = {}
      BY <2>6, <2>9 DEF Applicable
    <3>2. up(i).body = Content(deployed[i])
      BY <2>4, <2>5, <2>9
    <3> HIDE DEF C, restored
    <3> QED BY <2>7, <2>8, <3>1, <3>2 DEF Content
  <2>10. CASE up(i) \in back /\ ~up(i).refused
    <3>1. C = {up(i)}
      BY <2>4, <2>6, <2>10 DEF Applicable
    <3> HIDE DEF C
    <3>2. (CHOOSE c \in C : TRUE) = up(i) /\ C # {}
      BY <3>1
    <3>3. restored[i] = Written(deployed, up(i), None)[i]
      BY <2>8, <3>2
    <3> HIDE DEF restored
    <3> QED BY <2>2, <2>4, <2>7, <3>3, UpdateIsWritten
  <2> QED BY <2>4, <2>9, <2>10
<1> QED BY <1>1, TypeCorrect, PTL
=============================================================================
