----------------------------- MODULE AuditRuns -----------------------------
(***************************************************************************)
(* Who may collect, and who learns the outcome                             *)
(* (src/app/core/job_state.py, src/app/web/routes/audit.py,                *)
(* src/app/web/routes/history.py, src/app/services/audit_scheduler.py).    *)
(*                                                                         *)
(* One process-wide flag serialises three kinds of collection: audits a    *)
(* user starts from a stream, the bulk audit, and the scheduler's audits.  *)
(* A started audit is a background job; streams only watch it.  The event  *)
(* loop runs one step at a time, so an action is what happens between two  *)
(* awaits, and a critical section under audit_lock (no await inside) is    *)
(* part of one action.  Progress events are left out: a job publishes only *)
(* its terminal event here.                                                *)
(***************************************************************************)
EXTENDS Naturals, SequencesExt, FiniteSets

CONSTANTS Users, Customers,
          Streams,        \* requests to /audit/stream; each may start one run
          Loads,          \* requests to /history/load; each may select one run
          Bulks,          \* requests to /audit/bulk
          BulkSize,       \* customers a bulk audit covers
          MaxConcurrent,  \* bulk audits that collect at once
          Tabs, NoTab,    \* X-Audit-Tab headers, and a request without one
          TabLimit,       \* history selections kept per user
          None

ASSUME BoundsAssumption == /\ BulkSize \in Nat
                           /\ MaxConcurrent \in Nat \ {0}
                           /\ TabLimit \in Nat \ {0}
ASSUME NamesAssumption ==
  /\ Streams \cap (Loads \cup Bulks) = {} /\ None \notin Streams \cup Loads
  /\ "scheduler" \notin Streams \cup Bulks /\ NoTab \notin Tabs

VARIABLES audit_running, bulk_audit_running,
          user_runs,  \* _user_audit_runs: <<user, customer>> -> run or None
          tab_runs,   \* _tab_audit_runs: user -> selections, oldest first
          running,    \* run -> AuditRunContext.running
          terminal,   \* run -> AuditRunContext.terminal
          job,        \* run -> where its collector task is
          stream,     \* stream -> where its response is
          viewing,    \* stream -> the run it decided on, or None
          mode,       \* stream -> why it views that run
          queue,      \* stream -> the terminal event on its subscriber queue
          loading,    \* history load -> where it is
          choosing,   \* history load -> its user, customer and tab, or None
          bulk,       \* bulk request -> where its response is
          task,       \* bulk request -> customer -> its audit_one task
          sched       \* the scheduler's _audit_customer

flags == <<audit_running, bulk_audit_running>>
runs == <<user_runs, tab_runs>>
jobs == <<running, terminal, job>>
streams == <<stream, viewing, mode, queue>>
bulks == <<bulk, task>>
loads == <<loading, choosing>>
vars == <<flags, runs, jobs, streams, loads, bulks, sched>>

\* A run is named by the request that made its context.
Runs == Streams \cup Loads
Keys == Users \X Customers
Outcomes == {"done", "error", "cancelled"}
TabNames == Tabs \cup {NoTab}

Selections == [customer : Customers, tab : Tabs, run : Runs]

TypeOK ==
  /\ audit_running \in BOOLEAN /\ bulk_audit_running \in BOOLEAN
  /\ user_runs \in [Keys -> Runs \cup {None}]
  /\ tab_runs \in [Users -> Seq(Selections)]
  /\ \A u \in Users : Len(tab_runs[u]) <= TabLimit
  /\ running \in [Streams -> BOOLEAN]
  /\ terminal \in [Streams -> Outcomes \cup {"none"}]
  /\ job \in [Streams -> {"none", "scheduled", "collecting", "cancelling", "over", "lost"}]
  /\ stream \in [Streams -> {"new", "opened", "greeting", "following", "closed"}]
  /\ viewing \in [Streams -> Runs \cup {None}]
  /\ mode \in [Streams -> {"none", "start", "attach", "ended"}]
  /\ queue \in [Streams -> Outcomes \cup {"none"}]
  /\ loading \in [Loads -> {"new", "checked", "over"}]
  /\ choosing \in [Loads -> (Users \X Customers \X TabNames) \cup {None}]
  /\ bulk \in [Bulks -> {"new", "claimed", "announced", "streaming",
                         "over", "left", "abandoned"}]
  /\ task \in [Bulks -> [1 .. BulkSize -> {"none", "queued", "collecting", "over"}]]
  /\ sched \in {"idle", "collecting"}

Init ==
  /\ audit_running = FALSE /\ bulk_audit_running = FALSE
  /\ user_runs = [k \in Keys |-> None]
  /\ tab_runs = [u \in Users |-> <<>>]
  /\ running = [s \in Streams |-> FALSE]
  /\ terminal = [s \in Streams |-> "none"]
  /\ job = [s \in Streams |-> "none"]
  /\ stream = [s \in Streams |-> "new"]
  /\ viewing = [s \in Streams |-> None]
  /\ mode = [s \in Streams |-> "none"]
  /\ queue = [s \in Streams |-> "none"]
  /\ loading = [l \in Loads |-> "new"]
  /\ choosing = [l \in Loads |-> None]
  /\ bulk = [b \in Bulks |-> "new"]
  /\ task = [b \in Bulks |-> [i \in 1 .. BulkSize |-> "none"]]
  /\ sched = "idle"

-----------------------------------------------------------------------------
(* The run registry *)

IsRunning(run) == run \in Streams /\ running[run]
TerminalOf(run) == IF run \in Streams THEN terminal[run] ELSE "none"

\* The user's selections, oldest first, with this customer's and tab's last.
Reselected(u, c, t, run) ==
  LET own == tab_runs[u]
      same == {i \in 1 .. Len(own) : own[i].customer = c /\ own[i].tab = t}
      others == IF same = {} THEN own ELSE RemoveAt(own, CHOOSE i \in same : TRUE)
  IN  Append(others, [customer |-> c, tab |-> t, run |-> run])

\* (A mutation: selections are never evicted.)
SelectTabUnbounded(u, c, t, run) ==
  IF t = NoTab THEN tab_runs
  ELSE [tab_runs EXCEPT ![u] = Reselected(u, c, t, run)]

\* _select_tab: the user's oldest selection is evicted over the limit.
SelectTab(u, c, t, run) ==
  LET new == Reselected(u, c, t, run)
  IN  IF t = NoTab THEN tab_runs
      ELSE [tab_runs EXCEPT ![u] = IF Len(new) > TabLimit THEN Tail(new) ELSE new]

\* get_user_audit: the collecting run, else the tab's selection, else the
\* latest run of the user and customer.
Selected(u, c, t) ==
  LET collecting == user_runs[<<u, c>>]
      own == tab_runs[u]
      chosen == {i \in 1 .. Len(own) : own[i].customer = c /\ own[i].tab = t}
  IN  IF IsRunning(collecting) \/ chosen = {}
      THEN collecting
      ELSE own[CHOOSE i \in chosen : TRUE].run

-----------------------------------------------------------------------------
(* /audit/stream: decide under the lock, launch, then stream *)

View(s, run, why) ==
  /\ stream' = [stream EXCEPT ![s] = "opened"]
  /\ viewing' = [viewing EXCEPT ![s] = run]
  /\ mode' = [mode EXCEPT ![s] = why]
  /\ UNCHANGED queue

\* The response ends: a subscriber is unsubscribed and its queue dropped.
Close(s) ==
  /\ stream' = [stream EXCEPT ![s] = "closed"]
  /\ viewing' = [viewing EXCEPT ![s] = None]
  /\ mode' = [mode EXCEPT ![s] = "none"]
  /\ queue' = [queue EXCEPT ![s] = "none"]

\* begin_user_audit, then create_task; when the launch itself fails both
\* flags are taken back and the context stays selected.
StartRun(s, u, c, t) ==
  /\ user_runs' = [user_runs EXCEPT ![<<u, c>>] = s]
  /\ tab_runs' = SelectTab(u, c, t, s)
  /\ \/ /\ audit_running' = TRUE
        /\ running' = [running EXCEPT ![s] = TRUE]
        /\ job' = [job EXCEPT ![s] = "scheduled"]
        /\ View(s, s, "start")
     \/ /\ UNCHANGED <<audit_running, running, job>>
        /\ Close(s)
  /\ UNCHANGED <<bulk_audit_running, terminal>>

Open(s, u, c, t, attachOnly) ==
  LET existing == Selected(u, c, t)
  IN  /\ stream[s] = "new"
      /\ \/ /\ IsRunning(existing)
            /\ View(s, existing, "attach")
            /\ UNCHANGED <<flags, runs, jobs>>
         \/ /\ ~IsRunning(existing) /\ attachOnly
            /\ View(s, None, "ended")
            /\ UNCHANGED <<flags, runs, jobs>>
         \/ /\ ~IsRunning(existing) /\ ~attachOnly
            /\ Close(s)         \* another collection, or not set up
            /\ UNCHANGED <<flags, runs, jobs>>
         \/ /\ ~IsRunning(existing) /\ ~attachOnly /\ ~audit_running
            /\ StartRun(s, u, c, t)
      /\ UNCHANGED <<loads, bulks, sched>>

\* generate() takes its first step: what is over is answered at once, from
\* the stored outcome if there is one; a live run is subscribed to.
Begin(s) ==
  /\ stream[s] = "opened"
  /\ \/ /\ mode[s] = "ended"
        /\ Close(s)
     \/ /\ mode[s] # "ended"
        /\ stream' = [stream EXCEPT ![s] = IF mode[s] = "attach" THEN "greeting" ELSE "following"]
        /\ UNCHANGED <<viewing, mode, queue>>
  /\ UNCHANGED <<flags, runs, jobs, loads, bulks, sched>>

\* (A mutation: the attaching stream subscribes after its snapshot, not before.)
GreetBlindly(s) ==
  /\ stream[s] = "greeting"
  /\ stream' = [stream EXCEPT ![s] = "following"]
  /\ queue' = [queue EXCEPT ![s] = "none"]
  /\ UNCHANGED <<flags, runs, jobs, viewing, mode, loads, bulks, sched>>

\* An attaching stream, subscribed, has sent its snapshot and looks whether
\* the run has ended meanwhile.
Greet(s) ==
  /\ stream[s] = "greeting"
  /\ IF TerminalOf(viewing[s]) # "none"
     THEN Close(s)
     ELSE /\ stream' = [stream EXCEPT ![s] = "following"]
          /\ UNCHANGED <<viewing, mode, queue>>
  /\ UNCHANGED <<flags, runs, jobs, loads, bulks, sched>>

Receive(s) ==
  /\ stream[s] = "following" /\ queue[s] # "none"
  /\ Close(s)
  /\ UNCHANGED <<flags, runs, jobs, loads, bulks, sched>>

\* The client is gone: a lost view, not a lost run.
Leave(s) ==
  /\ stream[s] \in {"opened", "greeting", "following"}
  /\ Close(s)
  /\ UNCHANGED <<flags, runs, jobs, loads, bulks, sched>>

-----------------------------------------------------------------------------
(* The job *)

Deliver(r, event) ==
  /\ queue' = [s \in Streams |->
                 IF viewing[s] = r /\ stream[s] \in {"greeting", "following"}
                 THEN event ELSE queue[s]]
  /\ UNCHANGED <<stream, viewing, mode>>

Publish(r, event) == Deliver(r, event) /\ terminal' = [terminal EXCEPT ![r] = event]

\* (A mutation: a failed job leaves before it lets go of the flag.)
EndJobHolding(r, outcome) ==
  /\ Publish(r, outcome)
  /\ job' = [job EXCEPT ![r] = "over"]
  /\ running' = [running EXCEPT ![r] = FALSE]
  /\ audit_running' = (audit_running /\ outcome = "error")
  /\ UNCHANGED <<bulk_audit_running, runs, loads, bulks, sched>>

\* The terminal event, then the finally: both flags, with no await between.
EndJob(r, outcome) ==
  /\ Publish(r, outcome)
  /\ job' = [job EXCEPT ![r] = "over"]
  /\ running' = [running EXCEPT ![r] = FALSE]
  /\ audit_running' = FALSE
  /\ UNCHANGED <<bulk_audit_running, runs, loads, bulks, sched>>

\* The task's first step, in which the sign-in may already be refused.
JobBegins(r) ==
  /\ job[r] = "scheduled"
  /\ \/ EndJob(r, "error")
     \/ /\ job' = [job EXCEPT ![r] = "collecting"]
        /\ UNCHANGED <<flags, runs, running, terminal, streams, loads, bulks, sched>>

JobEnds(r) ==
  \/ job[r] = "collecting" /\ \E outcome \in {"done", "error"} : EndJob(r, outcome)
  \/ job[r] = "cancelling" /\ \E outcome \in {"cancelled", "error"} : EndJob(r, outcome)

\* cancel_audit: a task cancelled before its first step never enters the try.
CancelAudit(u) ==
  /\ \E c \in Customers :
       LET r == user_runs[<<u, c>>]
       IN  /\ IsRunning(r)
           /\ job[r] \in {"scheduled", "collecting"}
           /\ job' = [job EXCEPT ![r] = IF @ = "scheduled" THEN "lost" ELSE "cancelling"]
  /\ UNCHANGED <<flags, runs, running, terminal, streams, loads, bulks, sched>>

-----------------------------------------------------------------------------
(* /history/load: checked, then selected after the access checks' awaits *)

LoadHistory(l, u, c, t) ==
  /\ loading[l] = "new"
  /\ IF IsRunning(Selected(u, c, t))
     THEN loading' = [loading EXCEPT ![l] = "over"] /\ UNCHANGED choosing
     ELSE /\ loading' = [loading EXCEPT ![l] = "checked"]
          /\ choosing' = [choosing EXCEPT ![l] = <<u, c, t>>]
  /\ UNCHANGED <<flags, runs, jobs, streams, bulks, sched>>

\* select_user_audit: in the tab's place if there is a tab, else in place of
\* the user's latest run, whatever that is by now.
SelectHistory(l) ==
  /\ loading[l] = "checked"
  /\ loading' = [loading EXCEPT ![l] = "over"]
  /\ choosing' = [choosing EXCEPT ![l] = None]
  /\ LET u == choosing[l][1]
         c == choosing[l][2]
         t == choosing[l][3]
     IN  \/ UNCHANGED <<user_runs, tab_runs>>      \* refused: path or access
         \/ /\ t # NoTab
            /\ tab_runs' = SelectTab(u, c, t, l)
            /\ UNCHANGED user_runs
         \/ /\ t = NoTab
            /\ user_runs' = [user_runs EXCEPT ![<<u, c>>] = l]
            /\ UNCHANGED tab_runs
  /\ UNCHANGED <<flags, jobs, streams, bulks, sched>>

-----------------------------------------------------------------------------
(* /audit/bulk *)

Release == audit_running' = FALSE /\ bulk_audit_running' = FALSE

\* (A mutation: a bulk audit looks only at its own kind.)
BulkClaimUnchecked(b) ==
  /\ bulk[b] = "new" /\ ~bulk_audit_running
  /\ bulk' = [bulk EXCEPT ![b] = "claimed"]
  /\ audit_running' = TRUE /\ bulk_audit_running' = TRUE
  /\ UNCHANGED <<runs, jobs, streams, loads, task, sched>>

BulkClaim(b) ==
  /\ bulk[b] = "new"
  /\ IF bulk_audit_running \/ audit_running
     THEN bulk' = [bulk EXCEPT ![b] = "over"] /\ UNCHANGED flags
     ELSE /\ bulk' = [bulk EXCEPT ![b] = "claimed"]
          /\ audit_running' = TRUE /\ bulk_audit_running' = TRUE
  /\ UNCHANGED <<runs, jobs, streams, loads, task, sched>>

\* The generator runs to its first yield: nobody to audit, or bulk_started.
BulkBegin(b) ==
  /\ bulk[b] = "claimed"
  /\ \/ bulk' = [bulk EXCEPT ![b] = "over"] /\ Release
     \/ bulk' = [bulk EXCEPT ![b] = "announced"] /\ UNCHANGED flags
  /\ UNCHANGED <<runs, jobs, streams, loads, task, sched>>

BulkLaunch(b) ==
  /\ bulk[b] = "announced"
  /\ bulk' = [bulk EXCEPT ![b] = "streaming"]
  /\ task' = [task EXCEPT ![b] = [i \in 1 .. BulkSize |-> "queued"]]
  /\ UNCHANGED <<flags, runs, jobs, streams, loads, sched>>

\* audit_one under the semaphore; a customer that cannot be signed in to is
\* over without collecting.
TaskBegins(b, i) ==
  /\ task[b][i] = "queued"
  /\ Cardinality({j \in 1 .. BulkSize : task[b][j] = "collecting"}) < MaxConcurrent
  /\ \E next \in {"collecting", "over"} : task' = [task EXCEPT ![b][i] = next]
  /\ UNCHANGED <<flags, runs, jobs, streams, loads, bulk, sched>>

TaskEnds(b, i) ==
  /\ task[b][i] = "collecting"
  /\ task' = [task EXCEPT ![b][i] = "over"]
  /\ UNCHANGED <<flags, runs, jobs, streams, loads, bulk, sched>>

BulkEnds(b) ==
  /\ bulk[b] = "streaming"
  /\ \A i \in 1 .. BulkSize : task[b][i] = "over"
  /\ bulk' = [bulk EXCEPT ![b] = "over"]
  /\ Release
  /\ UNCHANGED <<runs, jobs, streams, loads, task, sched>>

\* The client goes away: the generator's finally lets go of the flags and
\* nobody stops the tasks.
BulkLeave(b) ==
  /\ bulk[b] \in {"announced", "streaming"}
  /\ bulk' = [bulk EXCEPT ![b] = "left"]
  /\ Release
  /\ UNCHANGED <<runs, jobs, streams, loads, task, sched>>

\* Gone before the generator's first step: its finally is never entered.
BulkAbandoned(b) ==
  /\ bulk[b] = "claimed"
  /\ bulk' = [bulk EXCEPT ![b] = "abandoned"]
  /\ UNCHANGED <<flags, runs, jobs, streams, loads, task, sched>>

-----------------------------------------------------------------------------
(* The scheduler's _audit_customer *)

\* It polls the flag once a second and takes it when it finds it down.
SchedClaim == /\ sched = "idle"
              /\ ~audit_running
              /\ audit_running' = TRUE
              /\ sched' = "collecting"
              /\ UNCHANGED <<bulk_audit_running, runs, jobs, streams, loads, bulks>>

SchedEnds == /\ sched = "collecting"
             /\ audit_running' = FALSE
             /\ sched' = "idle"
             /\ UNCHANGED <<bulk_audit_running, runs, jobs, streams, loads, bulks>>

\* (A mutation: a cancelled cycle keeps its claim.)
SchedStopHolding == /\ sched = "collecting"
                    /\ sched' = "idle"
                    /\ UNCHANGED <<flags, runs, jobs, streams, loads, bulks>>

\* (A mutation: it releases whatever is claimed.)
SchedStopReleasing == /\ sched' = "idle"
                      /\ audit_running' = FALSE
                      /\ UNCHANGED <<bulk_audit_running, runs, jobs, streams, loads, bulks>>

\* stop(): the loop is cancelled, and a claim it has is released.
SchedStop == /\ sched = "collecting"
             /\ sched' = "idle"
             /\ audit_running' = FALSE
             /\ UNCHANGED <<bulk_audit_running, runs, jobs, streams, loads, bulks>>

-----------------------------------------------------------------------------
StreamStep(s) == Begin(s) \/ Greet(s) \/ Receive(s)
JobStep(r) == JobBegins(r) \/ JobEnds(r)
BulkStep(b) == BulkBegin(b) \/ BulkLaunch(b) \/ BulkEnds(b)
TaskStep(b, i) == TaskBegins(b, i) \/ TaskEnds(b, i)

Next ==
  \/ \E s \in Streams :
       \/ \E u \in Users, c \in Customers, t \in TabNames, attachOnly \in BOOLEAN :
            Open(s, u, c, t, attachOnly)
       \/ StreamStep(s) \/ Leave(s) \/ JobStep(s)
  \/ \E u \in Users : CancelAudit(u)
  \/ \E l \in Loads :
       \/ \E u \in Users, c \in Customers, t \in TabNames : LoadHistory(l, u, c, t)
       \/ SelectHistory(l)
  \/ \E b \in Bulks :
       \/ BulkClaim(b) \/ BulkStep(b) \/ BulkLeave(b) \/ BulkAbandoned(b)
       \/ \E i \in 1 .. BulkSize : TaskStep(b, i)
  \/ SchedClaim \/ SchedEnds \/ SchedStop

\* Every task and generator the event loop has started is run again, and a
\* collection ends: its requests time out.  No client has to come, stay or go.
Fairness ==
  /\ \A s \in Streams : WF_vars(StreamStep(s)) /\ WF_vars(JobStep(s))
  /\ \A b \in Bulks : /\ WF_vars(BulkStep(b))
                      /\ \A i \in 1 .. BulkSize : WF_vars(TaskStep(b, i))
  /\ WF_vars(SchedEnds)

Spec == Init /\ [][Next]_vars /\ Fairness

-----------------------------------------------------------------------------
(* Properties *)

Live(r) == job[r] \in {"scheduled", "collecting", "cancelling"}
HoldsBulk(b) == bulk[b] \in {"claimed", "announced", "streaming"}
Holders == {r \in Streams : Live(r)}
             \cup {b \in Bulks : HoldsBulk(b)}
             \cup (IF sched = "collecting" THEN {"scheduler"} ELSE {})

IsLost(run) == run \in Streams /\ job[run] = "lost"

\* A claim nobody is left to release: a job cancelled before its first step,
\* a bulk audit whose client left before the first byte.
Stranded == \/ \E r \in Streams : IsLost(r)
            \/ \E b \in Bulks : bulk[b] = "abandoned"

\* Manual, bulk and scheduled collection exclude each other as long as they
\* are held by a job, an open bulk stream or the scheduler (the three check
\* and set the flag in one critical section each).
OneHolder == \A x, y \in Holders : x = y

\* The flag is up exactly while somebody holds the collection, whoever
\* disconnects and however a job ends, except for the two ways a claim can be
\* stranded; and the bulk flag exactly while a bulk stream holds it.
FlagMeansHeld ==
  /\ Holders # {} => audit_running
  /\ audit_running => Holders # {} \/ Stranded
  /\ bulk_audit_running = \E b \in Bulks : HoldsBulk(b) \/ bulk[b] = "abandoned"

\* Whatever streams, clients, jobs and the scheduler do, the flag is the mutex
\* that OneCollector describes: no step puts it down for another, and a
\* stranded claim is never taken over.
Mutex == INSTANCE OneCollector WITH
           Collectors <- Streams \cup Bulks \cup {"scheduler"},
           flag <- audit_running,
           holders <- Holders
Refinement == Mutex!Spec

\* Whoever attaches to a running audit learns how it ended, unless the run
\* itself is lost; a drop of the connection ends the wait too.
AttachedViewersLearn ==
  \A s \in Streams :
    (mode[s] = "attach" /\ stream[s] # "closed") ~> (stream[s] = "closed" \/ IsLost(viewing[s]))

\* Every claim on the collection is given back, unless it is stranded.
ClaimsComeBackUnlessStranded == audit_running ~> (~audit_running \/ Stranded)

-----------------------------------------------------------------------------
(* What the code's comments say, and the code does not do *)

\* "This flag serialises manual and scheduled collection" (job_state.py:18).
Collecting == {r \in Streams : job[r] \in {"collecting", "cancelling"}}
                \cup {b \in Bulks : \E i \in 1 .. BulkSize : task[b][i] = "collecting"}
                \cup (IF sched = "collecting" THEN {"scheduler"} ELSE {})
CollectionSerialised == \A x, y \in Collecting : x = y

\* The client that started a run learns its outcome (job_state.py:53,
\* audit.py:652: "so a finish during setup is not missed").
StarterLearns ==
  \A s \in Streams : (mode[s] = "start" /\ job[s] = "over") ~> stream[s] = "closed"

\* The lock is not left "stranded True forever" (audit.py:628).
ClaimsComeBack == audit_running ~> ~audit_running

\* The owner of a running audit can find it to cancel or re-attach to it
\* (audit.py:738, job_state.py:36).
OwnerFindsRun == \A r \in Streams : Live(r) => \E k \in Keys : user_runs[k] = r
=============================================================================
