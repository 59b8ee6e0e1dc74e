-------------------------- MODULE AuditRuns_proofs --------------------------
(***************************************************************************)
(* For any users, customers, streams, history loads, bulk audits and tabs: *)
(* AuditRuns is type correct, one collection is held at a time, the flag   *)
(* is up exactly while it is held or its claim is stranded, and the whole  *)
(* implements the mutex of OneCollector.                                   *)
(*                                                                         *)
(* A claim outlives its holder when it is stranded, so the invariant is    *)
(* about claims: there is at most one (OneClaim), and the flags are up     *)
(* exactly while there is one (FlagsAreClaims).  A claim is made only with *)
(* the flag down, hence beside no other; who gives one back has the only   *)
(* one, hence may put the flags down for all.                              *)
(***************************************************************************)
EXTENDS AuditRuns, TLAPS

\* Has this job, or this bulk audit, taken the collection and not given it
\* back?
JobClaims(r) == Live(r) \/ IsLost(r)
BulkClaims(b) == HoldsBulk(b) \/ bulk[b] = "abandoned"

\* The registry's answer to "is it running" is about the job.
RunningJobs == \A r \in Streams : /\ running[r] <=> JobClaims(r)
                                  /\ stream[r] = "new" => job[r] = "none"

OneClaim ==
  /\ \A r, q \in Streams : JobClaims(r) /\ JobClaims(q) => r = q
  /\ \A b, d \in Bulks : BulkClaims(b) /\ BulkClaims(d) => b = d
  /\ \A r \in Streams, b \in Bulks : ~(JobClaims(r) /\ BulkClaims(b))
  /\ sched = "collecting" => /\ \A r \in Streams : ~JobClaims(r)
                             /\ \A b \in Bulks : ~BulkClaims(b)

FlagsAreClaims ==
  /\ audit_running = (\/ \E r \in Streams : JobClaims(r)
                      \/ \E b \in Bulks : BulkClaims(b)
                      \/ sched = "collecting")
  /\ bulk_audit_running = \E b \in Bulks : BulkClaims(b)

Claims == RunningJobs /\ OneClaim /\ FlagsAreClaims

\* A history load that has been checked knows what it selects for.
LoadsChosen == \A l \in Loads : loading[l] = "checked" =>
                 choosing[l] \in Users \X Customers \X TabNames

IInv == TypeOK /\ Claims /\ LoadsChosen

-----------------------------------------------------------------------------
(* The tab registry *)

\* Without one of its elements a sequence is no longer than before.
LEMMA RemoveAtType ==
  ASSUME NEW S, NEW s \in Seq(S), NEW i \in 1 .. Len(s)
  PROVE  RemoveAt(s, i) \in Seq(S) /\ Len(RemoveAt(s, i)) <= Len(s)
<1> DEFINE before == SubSeq(s, 1, i - 1)
           after == SubSeq(s, i + 1, Len(s))
<1>1. before \in Seq(S) /\ Len(before) = i - 1
  OBVIOUS
<1>2. after \in Seq(S) /\ Len(after) = Len(s) - i
  OBVIOUS
<1>3. RemoveAt(s, i) = before \o after
  BY DEF RemoveAt
<1> HIDE DEF before, after
<1>4. Len(before \o after) = Len(before) + Len(after) /\ before \o after \in Seq(S)
  BY <1>1, <1>2
<1> QED BY <1>1, <1>2, <1>3, <1>4

\* Selecting a run keeps the user's selections well formed and within the limit,
\* which evicts one at most.
LEMMA SelectTabType ==
  ASSUME TypeOK, NEW u \in Users, NEW c \in Customers, NEW t \in TabNames, NEW run \in Runs
  PROVE  /\ SelectTab(u, c, t, run) \in [Users -> Seq(Selections)]
         /\ \A v \in Users : Len(SelectTab(u, c, t, run)[v]) <= TabLimit
<1>1. CASE t = NoTab
  BY <1>1 DEF SelectTab, TypeOK
<1>2. CASE t # NoTab
  <2> DEFINE own == tab_runs[u]
             same == {i \in 1 .. Len(own) : own[i].customer = c /\ own[i].tab = t}
             others == IF same = {} THEN own ELSE RemoveAt(own, CHOOSE i \in same : TRUE)
             new == Append(others, [customer |-> c, tab |-> t, run |-> run])
  <2>1. own \in Seq(Selections) /\ Len(own) <= TabLimit /\ TabLimit \in Nat \ {0}
    BY BoundsAssumption DEF TypeOK
  <2>2. others \in Seq(Selections) /\ Len(others) <= TabLimit
    <3>1. CASE same = {}
      BY <2>1, <3>1
    <3>2. CASE same # {}
      <4>1. (CHOOSE j \in same : TRUE) \in 1 .. Len(own)
        BY <3>2
      <4> QED BY <2>1, <3>2, <4>1, RemoveAtType
    <3> QED BY <3>1, <3>2
  <2>3. [customer |-> c, tab |-> t, run |-> run] \in Selections
    BY <1>2 DEF Selections, TabNames
  <2> HIDE DEF others
  <2>4. new \in Seq(Selections) /\ Len(new) <= TabLimit + 1
    BY <2>1, <2>2, <2>3
  <2> HIDE DEF new
  <2>5. /\ (IF Len(new) > TabLimit THEN Tail(new) ELSE new) \in Seq(Selections)
        /\ Len(IF Len(new) > TabLimit THEN Tail(new) ELSE new) <= TabLimit
    BY <2>1, <2>4
  <2>6. SelectTab(u, c, t, run)
          = [tab_runs EXCEPT ![u] = IF Len(new) > TabLimit THEN Tail(new) ELSE new]
    BY <1>2 DEF SelectTab, Reselected, new, others
  <2> QED BY <2>5, <2>6 DEF TypeOK
<1> QED BY <1>1, <1>2

-----------------------------------------------------------------------------
(* The invariant is inductive *)

LEMMA InitIInv == Init => IInv
<1> SUFFICES ASSUME Init PROVE IInv
  OBVIOUS
<1>1. TypeOK
  <2>1. /\ tab_runs \in [Users -> Seq(Selections)]
        /\ \A u \in Users : Len(tab_runs[u]) <= TabLimit
    <3>1. <<>> \in Seq(Selections) /\ Len(<<>>) <= TabLimit
      BY BoundsAssumption
    <3> QED BY <3>1 DEF Init
  <2>2. task \in [Bulks -> [1 .. BulkSize -> {"none", "queued", "collecting", "over"}]]
    BY DEF Init
  <2> QED BY <2>1, <2>2 DEF Init, TypeOK
<1>2. Claims
  BY DEF Init, Claims, RunningJobs, OneClaim, FlagsAreClaims, JobClaims, BulkClaims,
         Live, IsLost, HoldsBulk
<1>3. LoadsChosen
  BY DEF Init, LoadsChosen
<1> QED BY <1>1, <1>2, <1>3 DEF IInv

\* Steps of others leave the history loads alone.
LEMMA ChosenKept == LoadsChosen /\ UNCHANGED loads => LoadsChosen'
  BY DEF LoadsChosen, loads

\* A response that ends is typed, and claims nothing.
LEMMA CloseType ==
  ASSUME TypeOK, NEW s \in Streams, Close(s)
  PROVE  /\ stream' \in [Streams -> {"new", "opened", "greeting", "following", "closed"}]
         /\ viewing' \in [Streams -> Runs \cup {None}]
         /\ mode' \in [Streams -> {"none", "start", "attach", "ended"}]
         /\ queue' \in [Streams -> Outcomes \cup {"none"}]
         /\ \A r \in Streams : stream'[r] = "new" => stream[r] = "new" /\ r # s
  BY DEF TypeOK, Close

\* A response that begins to view is typed.
LEMMA ViewType ==
  ASSUME TypeOK, NEW s \in Streams, NEW run \in Runs \cup {None},
         NEW why \in {"start", "attach", "ended"}, View(s, run, why)
  PROVE  /\ stream' \in [Streams -> {"new", "opened", "greeting", "following", "closed"}]
         /\ viewing' \in [Streams -> Runs \cup {None}]
         /\ mode' \in [Streams -> {"none", "start", "attach", "ended"}]
         /\ queue' \in [Streams -> Outcomes \cup {"none"}]
         /\ \A r \in Streams : stream'[r] = "new" => stream[r] = "new" /\ r # s
  BY DEF TypeOK, View

\* Nothing that only moves streams disturbs the claims.
LEMMA StreamsClaimNothing ==
  ASSUME Claims, UNCHANGED <<flags, jobs, bulks, sched>>,
         \A r \in Streams : stream'[r] = "new" => stream[r] = "new"
  PROVE  Claims'
  BY DEF Claims, RunningJobs, OneClaim, FlagsAreClaims, JobClaims, BulkClaims,
         Live, IsLost, HoldsBulk, flags, jobs, bulks

\* A stream decides: to watch, to end, or to start a run, with the flag down.
LEMMA OpenKeeps ==
  ASSUME IInv, NEW s \in Streams, NEW u \in Users, NEW c \in Customers, NEW t \in TabNames,
         NEW attachOnly \in BOOLEAN, Open(s, u, c, t, attachOnly)
  PROVE  IInv'
<1> DEFINE existing == Selected(u, c, t)
<1>0. LoadsChosen'
  BY ChosenKept DEF Open, IInv
<1>1. TypeOK /\ Claims /\ stream[s] = "new" /\ s \in Runs /\ UNCHANGED <<loads, bulks, sched>>
  BY DEF Open, IInv, Runs
<1>2. CASE View(s, existing, "attach") /\ IsRunning(existing) /\ UNCHANGED <<flags, runs, jobs>>
  <2>1. existing \in Runs
    BY <1>2 DEF IsRunning, Runs
  <2> HIDE DEF existing
  <2>2. Claims'
    BY <1>1, <1>2, <2>1, ViewType, StreamsClaimNothing
  <2>3. TypeOK'
    BY <1>1, <1>2, <2>1, ViewType DEF TypeOK, flags, runs, jobs, loads, bulks
  <2> QED BY <1>0, <2>2, <2>3 DEF IInv
<1>3. CASE View(s, None, "ended") /\ UNCHANGED <<flags, runs, jobs>>
  <2>1. Claims'
    BY <1>1, <1>3, ViewType, StreamsClaimNothing
  <2>2. TypeOK'
    BY <1>1, <1>3, ViewType DEF TypeOK, flags, runs, jobs, loads, bulks
  <2> QED BY <1>0, <2>1, <2>2 DEF IInv
<1>4. CASE Close(s) /\ UNCHANGED <<flags, runs, jobs>>
  <2>1. Claims'
    BY <1>1, <1>4, CloseType, StreamsClaimNothing
  <2>2. TypeOK'
    BY <1>1, <1>4, CloseType DEF TypeOK, flags, runs, jobs, loads, bulks
  <2> QED BY <1>0, <2>1, <2>2 DEF IInv
<1>5. CASE StartRun(s, u, c, t) /\ ~audit_running
  <2>1. /\ user_runs' \in [Keys -> Runs \cup {None}]
        /\ tab_runs' \in [Users -> Seq(Selections)]
        /\ \A v \in Users : Len(tab_runs'[v]) <= TabLimit
    BY <1>1, <1>5, SelectTabType DEF StartRun, TypeOK
  <2>2. CASE Close(s) /\ UNCHANGED <<audit_running, running, job>>
    <3>1. Claims'
      BY <1>1, <1>5, <2>2, CloseType, StreamsClaimNothing DEF StartRun, flags, jobs
    <3>2. TypeOK'
      BY <1>1, <1>5, <2>1, <2>2, CloseType DEF StartRun, TypeOK, loads, bulks
    <3> QED BY <1>0, <3>1, <3>2 DEF IInv
  <2>3. CASE /\ audit_running' = TRUE
             /\ running' = [running EXCEPT ![s] = TRUE]
             /\ job' = [job EXCEPT ![s] = "scheduled"]
             /\ View(s, s, "start")
    <3>1. TypeOK'
      BY <1>1, <1>5, <2>1, <2>3, ViewType DEF StartRun, TypeOK, loads, bulks
    <3>2. /\ \A r \in Streams : ~JobClaims(r)
          /\ \A b \in Bulks : ~BulkClaims(b)
          /\ sched # "collecting"
      BY <1>1, <1>5 DEF Claims, FlagsAreClaims
    <3>3. /\ \A r \in Streams : JobClaims(r)' <=> r = s
          /\ \A b \in Bulks : ~BulkClaims(b)'
      BY <1>1, <2>3, <3>2 DEF JobClaims, BulkClaims, Live, IsLost, HoldsBulk, bulks, TypeOK
    <3>4. RunningJobs'
      <4>1. ASSUME NEW r \in Streams
            PROVE  running'[r] <=> JobClaims(r)'
        <5>1. CASE r = s
          BY <1>1, <2>3, <3>3, <5>1 DEF TypeOK
        <5>2. CASE r # s
          <6>1. running'[r] = running[r] /\ job'[r] = job[r]
            BY <1>1, <2>3, <5>2 DEF TypeOK
          <6> QED BY <1>1, <6>1 DEF Claims, RunningJobs, JobClaims, Live, IsLost
        <5> QED BY <5>1, <5>2
      <4>2. ASSUME NEW r \in Streams, stream'[r] = "new"
            PROVE  job'[r] = "none"
        <5>1. stream[r] = "new" /\ r # s
          BY <1>1, <2>3, <4>2, ViewType
        <5> QED BY <1>1, <2>3, <5>1 DEF Claims, RunningJobs, TypeOK
      <4> QED BY <4>1, <4>2 DEF RunningJobs
    <3>5. OneClaim' /\ FlagsAreClaims'
      BY <1>1, <1>5, <2>3, <3>2, <3>3 DEF Claims, OneClaim, FlagsAreClaims, StartRun
    <3> QED BY <1>0, <3>1, <3>4, <3>5 DEF IInv, Claims
  <2> QED BY <1>5, <2>2, <2>3 DEF StartRun
<1> QED BY <1>2, <1>3, <1>4, <1>5 DEF Open

\* A stream takes a step of its own, or its client leaves.
LEMMA WatchKeeps ==
  ASSUME IInv, NEW s \in Streams, StreamStep(s) \/ Leave(s)
  PROVE  IInv'
<1>1. /\ UNCHANGED <<flags, runs, jobs, loads, bulks, sched>>
      /\ \/ Close(s)
         \/ /\ stream[s] # "new" /\ UNCHANGED <<viewing, mode, queue>>
            /\ \E here \in {"greeting", "following"} : stream' = [stream EXCEPT ![s] = here]
  BY DEF StreamStep, Begin, Greet, Receive, Leave, streams
<1>2. /\ stream' \in [Streams -> {"new", "opened", "greeting", "following", "closed"}]
      /\ viewing' \in [Streams -> Runs \cup {None}]
      /\ mode' \in [Streams -> {"none", "start", "attach", "ended"}]
      /\ queue' \in [Streams -> Outcomes \cup {"none"}]
      /\ \A r \in Streams : stream'[r] = "new" => stream[r] = "new"
  <2>1. CASE Close(s)
    BY <2>1, CloseType DEF IInv
  <2>2. CASE /\ stream[s] # "new" /\ UNCHANGED <<viewing, mode, queue>>
             /\ \E here \in {"greeting", "following"} : stream' = [stream EXCEPT ![s] = here]
    BY <2>2 DEF IInv, TypeOK
  <2> QED BY <1>1, <2>1, <2>2
<1>3. Claims'
  BY <1>1, <1>2, StreamsClaimNothing DEF IInv
<1>4. TypeOK'
  BY <1>1, <1>2 DEF IInv, TypeOK, flags, runs, jobs, loads, bulks
<1> QED BY <1>1, <1>3, <1>4, ChosenKept DEF IInv

\* A job comes on, or is cancelled, and keeps its claim.
LEMMA ClaimStays ==
  ASSUME IInv, NEW r \in Streams, NEW here \in {"collecting", "cancelling", "lost"},
         job[r] \in {"scheduled", "collecting"}, job' = [job EXCEPT ![r] = here],
         UNCHANGED <<flags, runs, running, terminal, streams, loads, bulks, sched>>
  PROVE  IInv'
<1>1. TypeOK'
  BY DEF IInv, TypeOK, flags, runs, streams, loads, bulks
<1>2. /\ \A q \in Streams : JobClaims(q)' = JobClaims(q) /\ (job'[q] = "none" <=> job[q] = "none")
      /\ \A b \in Bulks : BulkClaims(b)' = BulkClaims(b)
  BY DEF IInv, TypeOK, JobClaims, BulkClaims, Live, IsLost, HoldsBulk, bulks
<1>3. Claims'
  BY <1>2 DEF IInv, Claims, RunningJobs, OneClaim, FlagsAreClaims, flags, streams
<1> QED BY <1>1, <1>3, ChosenKept DEF IInv

\* A job that ends had the only claim: the flag goes down for all.
LEMMA EndJobKeeps ==
  ASSUME IInv, NEW r \in Streams, NEW outcome \in Outcomes,
         Live(r), EndJob(r, outcome)
  PROVE  IInv'
<1>1. TypeOK'
  BY DEF IInv, TypeOK, EndJob, Publish, Deliver, runs, loads, bulks
<1>2. /\ \A q \in Streams : ~JobClaims(q)' /\ (job'[q] = "none" <=> job[q] = "none")
      /\ \A b \in Bulks : ~BulkClaims(b)' /\ ~BulkClaims(b)
      /\ sched' # "collecting"
  <2>1. /\ job' = [job EXCEPT ![r] = "over"] /\ UNCHANGED <<bulks, sched>>
        /\ job \in [Streams -> {"none", "scheduled", "collecting", "cancelling", "over", "lost"}]
    BY DEF EndJob, IInv, TypeOK
  <2>2. \A q \in Streams \ {r} : ~JobClaims(q)
    BY DEF IInv, Claims, OneClaim, JobClaims
  <2>3. \A b \in Bulks : ~BulkClaims(b)
    BY DEF IInv, Claims, OneClaim, JobClaims
  <2>4. sched # "collecting"
    BY DEF IInv, Claims, OneClaim, JobClaims
  <2> QED BY <2>1, <2>2, <2>3, <2>4 DEF JobClaims, BulkClaims, Live, IsLost, HoldsBulk, bulks
<1>3. /\ ~audit_running' /\ running' = [running EXCEPT ![r] = FALSE]
      /\ UNCHANGED <<bulk_audit_running, stream>>
      /\ \A q \in Streams \ {r} : ~running[q]
  BY <1>2 DEF EndJob, Publish, Deliver, IInv, Claims, RunningJobs, OneClaim, JobClaims
<1>4. audit_running' = FALSE /\ \A q \in Streams : running'[q] = FALSE
  BY <1>3 DEF EndJob, IInv, TypeOK, Claims, RunningJobs
<1>5. OneClaim' /\ RunningJobs'
  <2>1. OneClaim'
    BY <1>2 DEF OneClaim
  <2>2. \A q \in Streams : running'[q] <=> JobClaims(q)'
    BY <1>2, <1>4
  <2>3. \A q \in Streams : stream'[q] = "new" => job'[q] = "none"
    BY <1>2, <1>3 DEF IInv, Claims, RunningJobs
  <2> QED BY <2>1, <2>2, <2>3 DEF RunningJobs
<1>6. bulk_audit_running' = \E b \in Bulks : BulkClaims(b)'
  <2>1. bulk_audit_running = FALSE
    BY <1>2 DEF IInv, Claims, FlagsAreClaims
  <2> QED BY <1>2, <1>3, <2>1
<1>7. FlagsAreClaims'
  BY <1>2, <1>4, <1>6 DEF FlagsAreClaims
<1> QED BY <1>1, <1>5, <1>7, ChosenKept DEF IInv, Claims, EndJob, loads

\* The job's own steps keep the invariant.
LEMMA JobKeeps ==
  ASSUME IInv, NEW r \in Streams, JobStep(r)
  PROVE  IInv'
<1>1. CASE job[r] = "scheduled" /\ EndJob(r, "error")
  BY <1>1, EndJobKeeps DEF Live, Outcomes
<1>2. CASE /\ job[r] = "scheduled" /\ job' = [job EXCEPT ![r] = "collecting"]
           /\ UNCHANGED <<flags, runs, running, terminal, streams, loads, bulks, sched>>
  BY <1>2, ClaimStays
<1>3. CASE JobEnds(r)
  BY <1>3, EndJobKeeps DEF JobEnds, Live, Outcomes
<1> QED BY <1>1, <1>2, <1>3 DEF JobStep, JobBegins

\* So does a cancellation, which ends the job or loses its claim.
LEMMA CancelKeeps ==
  ASSUME IInv, NEW u \in Users, CancelAudit(u)
  PROVE  IInv'
<1>1. PICK c \in Customers :
        LET r == user_runs[<<u, c>>]
        IN  /\ IsRunning(r)
            /\ job[r] \in {"scheduled", "collecting"}
            /\ job' = [job EXCEPT ![r] = IF @ = "scheduled" THEN "lost" ELSE "cancelling"]
  BY DEF CancelAudit
<1> DEFINE r == user_runs[<<u, c>>]
<1>2. r \in Streams /\ job[r] \in {"scheduled", "collecting"}
  BY <1>1 DEF IsRunning
<1>3. job' = [job EXCEPT ![r] = "lost"] \/ job' = [job EXCEPT ![r] = "cancelling"]
  BY <1>1
<1> QED BY <1>2, <1>3, ClaimStays DEF CancelAudit

\* A history load selects a run; no claim is touched.
LEMMA LoadKeeps ==
  ASSUME IInv, NEW l \in Loads,
         \/ \E u \in Users, c \in Customers, t \in TabNames : LoadHistory(l, u, c, t)
         \/ SelectHistory(l)
  PROVE  IInv'
<1>1. Claims'
  <2>1. UNCHANGED <<flags, jobs, bulks, sched>> /\ UNCHANGED stream
    BY DEF LoadHistory, SelectHistory, streams
  <2> QED BY <2>1, StreamsClaimNothing DEF IInv
<1>2. CASE \E u \in Users, c \in Customers, t \in TabNames : LoadHistory(l, u, c, t)
  <2>1. PICK u \in Users, c \in Customers, t \in TabNames : LoadHistory(l, u, c, t)
    BY <1>2
  <2> DEFINE what == <<u, c, t>>
             Targets == Users \X Customers \X TabNames
  <2>2. \/ UNCHANGED choosing /\ loading' = [loading EXCEPT ![l] = "over"]
        \/ choosing' = [choosing EXCEPT ![l] = what] /\ loading' = [loading EXCEPT ![l] = "checked"]
    BY <2>1 DEF LoadHistory
  <2>3. what \in Targets
    OBVIOUS
  <2>4. /\ choosing \in [Loads -> Targets \cup {None}]
        /\ loading \in [Loads -> {"new", "checked", "over"}]
        /\ \A m \in Loads : loading[m] = "checked" => choosing[m] \in Targets
    BY DEF IInv, TypeOK, LoadsChosen
  <2> HIDE DEF what, Targets
  <2>5. /\ loading' \in [Loads -> {"new", "checked", "over"}]
        /\ choosing' \in [Loads -> Targets \cup {None}]
        /\ \A m \in Loads : loading'[m] = "checked" => choosing'[m] \in Targets
    BY <2>2, <2>3, <2>4
  <2>6. /\ choosing' \in [Loads -> (Users \X Customers \X TabNames) \cup {None}]
        /\ LoadsChosen'
    BY <2>5 DEF Targets, LoadsChosen
  <2>7. UNCHANGED <<flags, runs, jobs, streams, bulks, sched>>
    BY <2>1 DEF LoadHistory
  <2> QED BY <1>1, <2>5, <2>6, <2>7 DEF IInv, TypeOK, flags, runs, jobs, streams, bulks
<1>3. CASE SelectHistory(l)
  <2> DEFINE u == choosing[l][1]
             c == choosing[l][2]
             t == choosing[l][3]
  <2>1. u \in Users /\ c \in Customers /\ t \in TabNames /\ l \in Runs
    BY <1>3 DEF SelectHistory, IInv, LoadsChosen, Runs
  <2>2. /\ UNCHANGED <<flags, jobs, streams, bulks, sched>>
        /\ loading' = [loading EXCEPT ![l] = "over"]
        /\ choosing' = [choosing EXCEPT ![l] = None]
        /\ tab_runs' = tab_runs \/ tab_runs' = SelectTab(u, c, t, l)
        /\ user_runs' = user_runs \/ user_runs' = [user_runs EXCEPT ![<<u, c>>] = l]
    BY <1>3 DEF SelectHistory
  <2> HIDE DEF u, c, t
  <2>3. /\ tab_runs' \in [Users -> Seq(Selections)]
        /\ \A v \in Users : Len(tab_runs'[v]) <= TabLimit
    BY <2>1, <2>2, SelectTabType DEF IInv, TypeOK
  <2>4. user_runs' \in [Keys -> Runs \cup {None}]
    BY <2>1, <2>2 DEF IInv, TypeOK
  <2>5. /\ loading' \in [Loads -> {"new", "checked", "over"}]
        /\ choosing' \in [Loads -> (Users \X Customers \X TabNames) \cup {None}]
        /\ LoadsChosen'
    BY <2>2 DEF IInv, TypeOK, LoadsChosen
  <2> QED BY <1>1, <2>2, <2>3, <2>4, <2>5 DEF IInv, TypeOK, flags, jobs, streams, bulks
<1> QED BY <1>2, <1>3

\* A bulk audit claims the collection, with the flag down.
LEMMA BulkClaimKeeps ==
  ASSUME IInv, NEW b \in Bulks, BulkClaim(b)
  PROVE  IInv'
<1>1. TypeOK'
  BY DEF BulkClaim, IInv, TypeOK, flags, runs, jobs, streams, loads
<1>2. LoadsChosen'
  BY ChosenKept DEF BulkClaim, IInv
<1>3. CASE bulk' = [bulk EXCEPT ![b] = "over"] /\ UNCHANGED flags
  <2>1. \A d \in Bulks : BulkClaims(d)' = BulkClaims(d)
    BY <1>3 DEF BulkClaim, IInv, TypeOK, BulkClaims, HoldsBulk
  <2>2. UNCHANGED <<audit_running, bulk_audit_running, running, job, stream, sched>>
    BY <1>3 DEF BulkClaim, flags, jobs, streams
  <2>3. Claims'
    BY <2>1, <2>2 DEF IInv, Claims, RunningJobs, OneClaim, FlagsAreClaims, JobClaims, Live, IsLost
  <2> QED BY <1>1, <1>2, <2>3 DEF IInv
<1>4. CASE /\ ~audit_running /\ bulk' = [bulk EXCEPT ![b] = "claimed"]
           /\ audit_running' = TRUE /\ bulk_audit_running' = TRUE
  <2>1. /\ \A r \in Streams : ~JobClaims(r)
        /\ \A d \in Bulks : ~BulkClaims(d)
        /\ sched # "collecting"
    BY <1>4 DEF IInv, Claims, FlagsAreClaims
  <2>2. UNCHANGED <<running, job, stream, sched>>
    BY DEF BulkClaim, jobs, streams
  <2>3. /\ \A r \in Streams : ~JobClaims(r)'
        /\ \A d \in Bulks : BulkClaims(d)' <=> d = b
    BY <1>4, <2>1, <2>2 DEF IInv, TypeOK, BulkClaims, HoldsBulk, JobClaims, Live, IsLost
  <2>4. RunningJobs'
    BY <2>1, <2>2, <2>3 DEF IInv, Claims, RunningJobs
  <2>5. OneClaim' /\ FlagsAreClaims'
    BY <1>4, <2>1, <2>2, <2>3 DEF OneClaim, FlagsAreClaims
  <2> QED BY <1>1, <1>2, <2>4, <2>5 DEF IInv, Claims
<1> QED BY <1>3, <1>4 DEF BulkClaim

\* It gives its claim back, the only one there is: both flags go down for all.
LEMMA BulkReleaseKeeps ==
  ASSUME IInv, NEW b \in Bulks, NEW there \in {"over", "left"}, HoldsBulk(b),
         bulk' = [bulk EXCEPT ![b] = there], Release,
         UNCHANGED <<runs, jobs, streams, loads, task, sched>>
  PROVE  IInv'
<1>1. TypeOK'
  BY DEF Release, IInv, TypeOK, runs, jobs, streams, loads
<1>2. /\ \A r \in Streams : ~JobClaims(r)
      /\ \A d \in Bulks \ {b} : ~BulkClaims(d)
      /\ sched # "collecting"
  BY DEF IInv, Claims, OneClaim, BulkClaims
<1>3. UNCHANGED <<running, job, stream, sched>>
  BY DEF jobs, streams
<1>4. /\ \A r \in Streams : ~JobClaims(r)'
      /\ \A d \in Bulks : ~BulkClaims(d)'
  BY <1>2, <1>3 DEF IInv, TypeOK, BulkClaims, HoldsBulk, JobClaims, Live, IsLost
<1>5. Claims'
  BY <1>2, <1>3, <1>4 DEF IInv, Claims, RunningJobs, OneClaim, FlagsAreClaims, Release
<1> QED BY <1>1, <1>5, ChosenKept DEF IInv

\* It goes on, or is abandoned, and keeps its claim; its tasks do what they do.
LEMMA BulkStays ==
  ASSUME IInv, UNCHANGED <<flags, runs, jobs, streams, loads, sched>>,
         bulk' \in [Bulks -> {"new", "claimed", "announced", "streaming",
                              "over", "left", "abandoned"}],
         task' \in [Bulks -> [1 .. BulkSize -> {"none", "queued", "collecting", "over"}]],
         \A b \in Bulks : BulkClaims(b)' <=> BulkClaims(b)
  PROVE  IInv'
<1>1. TypeOK'
  BY DEF IInv, TypeOK, flags, runs, jobs, streams, loads
<1>2. Claims'
  BY DEF IInv, Claims, RunningJobs, OneClaim, FlagsAreClaims, JobClaims, Live, IsLost,
         flags, jobs, streams
<1> QED BY <1>1, <1>2, ChosenKept DEF IInv

\* So do the bulk audits and their tasks.
LEMMA BulkKeeps ==
  ASSUME IInv, NEW b \in Bulks,
         \/ BulkClaim(b) \/ BulkStep(b) \/ BulkLeave(b) \/ BulkAbandoned(b)
         \/ \E i \in 1 .. BulkSize : TaskStep(b, i)
  PROVE  IInv'
<1>1. CASE BulkClaim(b)
  BY <1>1, BulkClaimKeeps
<1>2. CASE BulkBegin(b)
  <2>1. CASE bulk' = [bulk EXCEPT ![b] = "over"] /\ Release
    BY <1>2, <2>1, BulkReleaseKeeps DEF BulkBegin, HoldsBulk
  <2>2. CASE bulk' = [bulk EXCEPT ![b] = "announced"] /\ UNCHANGED flags
    BY <1>2, <2>2, BulkStays DEF BulkBegin, IInv, TypeOK, BulkClaims, HoldsBulk
  <2> QED BY <1>2, <2>1, <2>2 DEF BulkBegin
<1>3. CASE BulkLaunch(b)
  <2>1. task' \in [Bulks -> [1 .. BulkSize -> {"none", "queued", "collecting", "over"}]]
    BY <1>3 DEF BulkLaunch, IInv, TypeOK
  <2> QED BY <1>3, <2>1, BulkStays DEF BulkLaunch, IInv, TypeOK, BulkClaims, HoldsBulk
<1>4. CASE BulkEnds(b)
  BY <1>4, BulkReleaseKeeps DEF BulkEnds, HoldsBulk
<1>5. CASE BulkLeave(b)
  BY <1>5, BulkReleaseKeeps DEF BulkLeave, HoldsBulk
<1>6. CASE BulkAbandoned(b)
  BY <1>6, BulkStays DEF BulkAbandoned, IInv, TypeOK, BulkClaims, HoldsBulk
<1>7. CASE \E i \in 1 .. BulkSize : TaskStep(b, i)
  <2>1. PICK i \in 1 .. BulkSize : TaskStep(b, i)
    BY <1>7
  <2>2. PICK there \in {"collecting", "over"} : task' = [task EXCEPT ![b][i] = there]
    BY <2>1 DEF TaskStep, TaskBegins, TaskEnds
  <2>3. task' \in [Bulks -> [1 .. BulkSize -> {"none", "queued", "collecting", "over"}]]
    BY <2>2 DEF IInv, TypeOK
  <2>4. UNCHANGED <<flags, runs, jobs, streams, loads, bulk, sched>>
    BY <2>1 DEF TaskStep, TaskBegins, TaskEnds
  <2> QED BY <2>3, <2>4, BulkStays DEF IInv, TypeOK, BulkClaims, HoldsBulk
<1> QED BY <1>1, <1>2, <1>3, <1>4, <1>5, <1>6, <1>7 DEF BulkStep

\* The scheduler takes the collection with the flag down, and gives it back.
LEMMA SchedKeeps ==
  ASSUME IInv, SchedClaim \/ SchedEnds \/ SchedStop
  PROVE  IInv'
<1>1. /\ UNCHANGED <<bulk_audit_running, running, job, stream, bulk>>
      /\ UNCHANGED <<runs, jobs, streams, loads, bulks>>
  BY DEF SchedClaim, SchedEnds, SchedStop, jobs, streams, bulks
<1>2. \/ ~audit_running /\ audit_running' = TRUE /\ sched' = "collecting"
      \/ sched = "collecting" /\ audit_running' = FALSE /\ sched' = "idle"
  BY DEF SchedClaim, SchedEnds, SchedStop
<1>3. TypeOK'
  BY <1>1, <1>2 DEF IInv, TypeOK, runs, jobs, streams, loads, bulks
<1>4. /\ \A r \in Streams : ~JobClaims(r)
      /\ \A b \in Bulks : ~BulkClaims(b)
  BY <1>2 DEF IInv, Claims, OneClaim, FlagsAreClaims
<1>5. /\ \A r \in Streams : ~JobClaims(r)'
      /\ \A b \in Bulks : ~BulkClaims(b)'
  BY <1>1, <1>4 DEF JobClaims, BulkClaims, Live, IsLost, HoldsBulk
<1>6. Claims'
  BY <1>1, <1>2, <1>4, <1>5 DEF IInv, Claims, RunningJobs, OneClaim, FlagsAreClaims
<1> QED BY <1>1, <1>3, <1>6, ChosenKept DEF IInv

\* So does a stutter.
LEMMA StutterKeeps == IInv /\ UNCHANGED vars => IInv'
<1> SUFFICES ASSUME IInv, UNCHANGED vars PROVE IInv'
  OBVIOUS
<1>1. TypeOK'
  BY DEF vars, flags, runs, jobs, streams, loads, bulks, IInv, TypeOK
<1>2. Claims' /\ LoadsChosen'
  BY StreamsClaimNothing, ChosenKept DEF vars, streams, IInv
<1> QED BY <1>1, <1>2 DEF IInv

\* Every step keeps the invariant.
LEMMA NextKeeps == IInv /\ [Next]_vars => IInv'
<1> SUFFICES ASSUME IInv, [Next]_vars PROVE IInv'
  OBVIOUS
<1>1. ASSUME NEW s \in Streams,
             \/ \E u \in Users, c \in Customers, t \in TabNames, attachOnly \in BOOLEAN :
                  Open(s, u, c, t, attachOnly)
             \/ StreamStep(s) \/ Leave(s) \/ JobStep(s)
      PROVE  IInv'
  BY <1>1, OpenKeeps, WatchKeeps, JobKeeps
<1>2. ASSUME NEW u \in Users, CancelAudit(u) PROVE IInv'
  BY <1>2, CancelKeeps
<1>3. ASSUME NEW l \in Loads,
             \/ \E u \in Users, c \in Customers, t \in TabNames : LoadHistory(l, u, c, t)
             \/ SelectHistory(l)
      PROVE  IInv'
  BY <1>3, LoadKeeps
<1>4. ASSUME NEW b \in Bulks,
             \/ BulkClaim(b) \/ BulkStep(b) \/ BulkLeave(b) \/ BulkAbandoned(b)
             \/ \E i \in 1 .. BulkSize : TaskStep(b, i)
      PROVE  IInv'
  BY <1>4, BulkKeeps
<1>5. CASE SchedClaim \/ SchedEnds \/ SchedStop
  BY <1>5, SchedKeeps
<1>6. CASE UNCHANGED vars
  BY <1>6, StutterKeeps
<1> QED BY <1>1, <1>2, <1>3, <1>4, <1>5, <1>6 DEF Next

-----------------------------------------------------------------------------
(* What is promised *)

\* The strengthened invariant holds in every reachable state, for any requests
\* and tabs (job_state.py, routes/audit.py, routes/history.py,
\* audit_scheduler.py).
THEOREM InductiveInvariant == Spec => []IInv
  BY InitIInv, NextKeeps, PTL DEF Spec

\* Every variable keeps its type; nobody has more history selections than the
\* registry keeps (job_state.py: _select_tab).
THEOREM TypeCorrect == Spec => []TypeOK
<1>1. IInv => TypeOK
  BY DEF IInv
<1> QED BY <1>1, InductiveInvariant, PTL

\* Manual, bulk and scheduled collection exclude each other (routes/audit.py,
\* audit_scheduler.py: check and set of the flag in one critical section).
THEOREM OneAtATime == Spec => []OneHolder
<1>1. IInv => OneHolder
  BY DEF IInv, Claims, OneClaim, OneHolder, Holders, JobClaims, BulkClaims
<1> QED BY <1>1, InductiveInvariant, PTL

\* The flag is up exactly while the collection is held, but for a stranded claim
\* (job_state.py: audit_running, bulk_audit_running).
THEOREM FlagIsTruthful == Spec => []FlagMeansHeld
<1>1. IInv => FlagMeansHeld
  <2> SUFFICES ASSUME IInv PROVE FlagMeansHeld
    OBVIOUS
  <2>1. Holders # {} => audit_running
    BY DEF IInv, Claims, FlagsAreClaims, Holders, JobClaims, BulkClaims
  <2>2. audit_running => Holders # {} \/ Stranded
    BY DEF IInv, Claims, FlagsAreClaims, Holders, JobClaims, BulkClaims, Stranded
  <2>3. bulk_audit_running = \E b \in Bulks : HoldsBulk(b) \/ bulk[b] = "abandoned"
    BY DEF IInv, Claims, FlagsAreClaims, BulkClaims
  <2> QED BY <2>1, <2>2, <2>3 DEF FlagMeansHeld
<1> QED BY <1>1, InductiveInvariant, PTL

-----------------------------------------------------------------------------
(* The mutex is implemented *)

Collectors == Streams \cup Bulks \cup {"scheduler"}

\* With the invariant after the step, a step that raises the flag for x takes
\* the mutex, ...
LEMMA Takes ==
  ASSUME IInv', ~audit_running, audit_running' = TRUE, NEW x \in Collectors, x \in Holders'
  PROVE  Mutex!Next
<1>1. OneHolder'
  BY DEF IInv, Claims, OneClaim, OneHolder, Holders, JobClaims, BulkClaims
<1>2. Holders' = {x}
  BY <1>1 DEF OneHolder
<1> QED BY <1>2 DEF Mutex!Next, Mutex!Take, Collectors

\* ... one of its holder that lowers the flag gives it back, ...
LEMMA GivesBack ==
  ASSUME IInv', Holders # {}, audit_running' = FALSE
  PROVE  Mutex!Next
<1>1. Holders' = {}
  BY DEF IInv, Claims, FlagsAreClaims, Holders, JobClaims, BulkClaims
<1> QED BY <1>1 DEF Mutex!Next, Mutex!GiveBack

\* ... and one that keeps the holders and the flag is a stutter.
LEMMA KeepsHolders ==
  ASSUME UNCHANGED <<audit_running, sched>>,
         \A r \in Streams : Live(r)' <=> Live(r), \A b \in Bulks : HoldsBulk(b)' <=> HoldsBulk(b)
  PROVE  UNCHANGED <<audit_running, Holders>>
BY DEF Holders

\* A stream's step takes the mutex, or changes neither flag nor holders.
LEMMA StreamStepMaps ==
  ASSUME IInv, IInv', NEW s \in Streams,
         \/ \E u \in Users, c \in Customers, t \in TabNames, attachOnly \in BOOLEAN :
              Open(s, u, c, t, attachOnly)
         \/ StreamStep(s) \/ Leave(s)
  PROVE  [Mutex!Next]_<<audit_running, Holders>>
<1>1. UNCHANGED <<bulk, sched>>
  BY DEF Open, StreamStep, Begin, Greet, Receive, Leave, bulks
<1>2. \/ UNCHANGED <<audit_running, job>>
      \/ ~audit_running /\ audit_running' = TRUE /\ job' = [job EXCEPT ![s] = "scheduled"]
  <2>1. ASSUME NEW u \in Users, NEW c \in Customers, NEW t \in TabNames,
               NEW attachOnly \in BOOLEAN, Open(s, u, c, t, attachOnly)
        PROVE  UNCHANGED <<flags, jobs>> \/ (StartRun(s, u, c, t) /\ ~audit_running)
    BY <2>1 DEF Open
  <2>2. ASSUME NEW u \in Users, NEW c \in Customers, NEW t \in TabNames, StartRun(s, u, c, t)
        PROVE  \/ UNCHANGED <<audit_running, job>>
               \/ audit_running' = TRUE /\ job' = [job EXCEPT ![s] = "scheduled"]
    BY <2>2 DEF StartRun
  <2>3. CASE StreamStep(s) \/ Leave(s)
    BY <2>3 DEF StreamStep, Begin, Greet, Receive, Leave, flags, jobs
  <2> QED BY <2>1, <2>2, <2>3 DEF flags, jobs
<1>3. CASE UNCHANGED <<audit_running, job>>
  BY <1>1, <1>3, KeepsHolders DEF Live, HoldsBulk
<1>4. CASE ~audit_running /\ audit_running' = TRUE /\ job' = [job EXCEPT ![s] = "scheduled"]
  <2>1. s \in Holders'
    BY <1>4 DEF Holders, Live, IInv, TypeOK
  <2> QED BY <1>4, <2>1, Takes DEF Collectors
<1> QED BY <1>2, <1>3, <1>4

\* A job that ends gives the mutex back.
LEMMA JobStepMaps ==
  ASSUME IInv, IInv', NEW r \in Streams, JobStep(r)
  PROVE  [Mutex!Next]_<<audit_running, Holders>>
<1>1. CASE \E outcome \in Outcomes : Live(r) /\ EndJob(r, outcome)
  <2>1. r \in Holders /\ audit_running' = FALSE
    BY <1>1 DEF Holders, EndJob
  <2> QED BY <2>1, GivesBack
<1>2. CASE /\ job[r] = "scheduled" /\ job' = [job EXCEPT ![r] = "collecting"]
           /\ UNCHANGED <<flags, runs, running, terminal, streams, loads, bulks, sched>>
  BY <1>2, KeepsHolders DEF Live, HoldsBulk, IInv, TypeOK, flags, bulks
<1> QED BY <1>1, <1>2 DEF JobStep, JobBegins, JobEnds, Live, Outcomes

\* A job cancelled before its first step strands the claim.
LEMMA CancelMaps ==
  ASSUME IInv, IInv', NEW u \in Users, CancelAudit(u)
  PROVE  [Mutex!Next]_<<audit_running, Holders>>
<1>1. PICK c \in Customers :
        LET r == user_runs[<<u, c>>]
        IN  /\ IsRunning(r)
            /\ job[r] \in {"scheduled", "collecting"}
            /\ job' = [job EXCEPT ![r] = IF @ = "scheduled" THEN "lost" ELSE "cancelling"]
  BY DEF CancelAudit
<1> DEFINE r == user_runs[<<u, c>>]
<1>2. /\ r \in Streams /\ UNCHANGED <<audit_running, bulk, sched>>
      /\ job \in [Streams -> {"none", "scheduled", "collecting", "cancelling", "over", "lost"}]
  BY <1>1 DEF IsRunning, CancelAudit, flags, bulks, IInv, TypeOK
<1>3. CASE job[r] = "collecting"
  <2>1. job' = [job EXCEPT ![r] = "cancelling"]
    BY <1>1, <1>3
  <2> HIDE DEF r
  <2> QED BY <1>2, <1>3, <2>1, KeepsHolders DEF Live, HoldsBulk
<1>4. CASE job[r] = "scheduled"
  <2>1. job' = [job EXCEPT ![r] = "lost"]
    BY <1>1, <1>4
  <2> HIDE DEF r
  <2>2. Holders # {}
    BY <1>2, <1>4 DEF Holders, Live
  <2>3. /\ \A q \in Streams \ {r} : ~Live(q)
        /\ \A b \in Bulks : ~HoldsBulk(b)
        /\ sched # "collecting"
    BY <1>2, <1>4 DEF IInv, Claims, OneClaim, JobClaims, BulkClaims, Live
  <2>4. Holders' = {}
    BY <1>2, <2>1, <2>3 DEF Holders, Live, HoldsBulk
  <2> QED BY <1>2, <2>2, <2>4 DEF Mutex!Next, Mutex!Strand
<1> QED BY <1>1, <1>3, <1>4

\* A bulk audit whose client is gone before its first byte strands the claim.
LEMMA BulkStepMaps ==
  ASSUME IInv, IInv', NEW b \in Bulks,
         \/ BulkClaim(b) \/ BulkStep(b) \/ BulkLeave(b) \/ BulkAbandoned(b)
         \/ \E i \in 1 .. BulkSize : TaskStep(b, i)
  PROVE  [Mutex!Next]_<<audit_running, Holders>>
<1>0. UNCHANGED <<job, sched>>
  BY DEF BulkClaim, BulkStep, BulkBegin, BulkLaunch, BulkEnds, BulkLeave, BulkAbandoned,
         TaskStep, TaskBegins, TaskEnds, jobs
<1>1. CASE UNCHANGED audit_running /\ \A d \in Bulks : HoldsBulk(d)' <=> HoldsBulk(d)
  BY <1>0, <1>1, KeepsHolders DEF Live
<1>2. CASE ~audit_running /\ audit_running' = TRUE /\ bulk' = [bulk EXCEPT ![b] = "claimed"]
  <2>1. b \in Holders'
    BY <1>2 DEF Holders, HoldsBulk, IInv, TypeOK
  <2> QED BY <1>2, <2>1, Takes DEF Collectors
<1>3. CASE HoldsBulk(b) /\ Release
  BY <1>3, GivesBack DEF Holders, Release
<1>4. CASE BulkAbandoned(b)
  <2>1. Holders # {}
    BY <1>4 DEF BulkAbandoned, Holders, HoldsBulk
  <2>2. /\ \A r \in Streams : ~Live(r)
        /\ \A d \in Bulks \ {b} : ~HoldsBulk(d)
        /\ sched # "collecting"
    BY <1>4 DEF BulkAbandoned, IInv, Claims, OneClaim, JobClaims, BulkClaims, HoldsBulk
  <2>3. Holders' = {}
    BY <1>0, <1>4, <2>2 DEF BulkAbandoned, Holders, Live, HoldsBulk, IInv, TypeOK
  <2> QED BY <1>4, <2>1, <2>3 DEF BulkAbandoned, flags, Mutex!Next, Mutex!Strand
<1>5. CASE BulkClaim(b)
  <2>1. CASE bulk' = [bulk EXCEPT ![b] = "over"] /\ UNCHANGED flags
    BY <1>1, <1>5, <2>1 DEF BulkClaim, HoldsBulk, IInv, TypeOK, flags
  <2> QED BY <1>2, <1>5, <2>1 DEF BulkClaim
<1>6. CASE BulkStep(b) \/ BulkLeave(b)
  <2>1. CASE bulk[b] = "claimed" /\ bulk' = [bulk EXCEPT ![b] = "announced"] /\ UNCHANGED flags
    BY <1>1, <2>1 DEF HoldsBulk, IInv, TypeOK, flags
  <2>2. CASE bulk[b] = "announced" /\ bulk' = [bulk EXCEPT ![b] = "streaming"] /\ UNCHANGED flags
    BY <1>1, <2>2 DEF HoldsBulk, IInv, TypeOK, flags
  <2> QED BY <1>3, <1>6, <2>1, <2>2
          DEF BulkStep, BulkBegin, BulkLaunch, BulkEnds, BulkLeave, HoldsBulk
<1>7. CASE \E i \in 1 .. BulkSize : TaskStep(b, i)
  BY <1>1, <1>7 DEF TaskStep, TaskBegins, TaskEnds, HoldsBulk, flags
<1> QED BY <1>4, <1>5, <1>6, <1>7

\* Every step is one of the mutex, or a stutter of it.
LEMMA StepMaps ==
  ASSUME IInv, IInv', [Next]_vars
  PROVE  [Mutex!Next]_<<audit_running, Holders>>
<1>1. ASSUME NEW l \in Loads,
             \/ \E u \in Users, c \in Customers, t \in TabNames : LoadHistory(l, u, c, t)
             \/ SelectHistory(l)
      PROVE  UNCHANGED <<audit_running, Holders>>
  BY <1>1, KeepsHolders DEF LoadHistory, SelectHistory, Live, HoldsBulk, flags, jobs, bulks
<1>2. CASE SchedClaim
  <2>1. "scheduler" \in Holders'
    BY <1>2 DEF SchedClaim, Holders
  <2> QED BY <1>2, <2>1, Takes DEF SchedClaim, Collectors
<1>3. CASE SchedEnds \/ SchedStop
  <2>1. "scheduler" \in Holders /\ audit_running' = FALSE
    BY <1>3 DEF SchedEnds, SchedStop, Holders
  <2> QED BY <2>1, GivesBack
<1>4. CASE UNCHANGED vars
  BY <1>4, KeepsHolders DEF vars, Live, HoldsBulk, flags, jobs, bulks
<1> QED BY <1>1, <1>2, <1>3, <1>4, StreamStepMaps, JobStepMaps, CancelMaps, BulkStepMaps DEF Next

\* Streams, jobs, bulk audits and the scheduler implement a mutex whose claims
\* may be stranded: each claim is taken with the flag down, only its holder puts
\* the flag down, and a stranded claim is never taken over (job_state.py:18).
THEOREM FlagIsAMutex == Spec => Refinement
<1>1. Init => Mutex!Init
  BY DEF Init, Mutex!Init, Holders, Live, HoldsBulk
<1>2. IInv /\ IInv' /\ [Next]_vars => [Mutex!Next]_<<audit_running, Holders>>
  BY StepMaps
<1> QED BY <1>1, <1>2, InductiveInvariant, PTL DEF Spec, Refinement, Mutex!Spec
=============================================================================
