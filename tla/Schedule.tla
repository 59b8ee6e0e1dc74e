------------------------------ MODULE Schedule ------------------------------
(***************************************************************************)
(* Which process runs the scheduled tasks, and when a failing task is      *)
(* switched off (src/app/services/schedule_owner.py,                       *)
(* src/app/services/scheduler.py, src/scripts/run_scheduler.py,            *)
(* src/app/web/routes/settings.py).                                        *)
(*                                                                         *)
(* Two processes share a data directory: the web process, which takes an   *)
(* flock at startup if it is free, and a standby that polls for it.  The   *)
(* owner keeps one loop per enabled task.  Each process counts failures in *)
(* its own memory and writes all its counts to the shared settings file.   *)
(* In a process the event loop runs one step at a time: an action is what  *)
(* it does between two awaits, and the other process acts in between.      *)
(*                                                                         *)
(* One of the tasks is the site collection (Vpn).  What both modules would *)
(* name alike carries Sched here, so that another can extend both.         *)
(***************************************************************************)
EXTENDS Naturals, FiniteSets

CONSTANTS Tasks,
          Web, Standby,  \* the two processes
          MaxFailures,   \* _MAX_CONSECUTIVE_FAILURES
          Nil

ASSUME ProcessesAssumption == Web # Standby /\ Nil \notin {Web, Standby}
ASSUME FailuresAssumption == MaxFailures \in Nat \ {0} /\ Nil \notin Nat

Procs == {Web, Standby}
Counts == 0 .. MaxFailures

VARIABLES process,  \* process -> down, up, or stopping
          owner,    \* the process that holds scheduler.lock, or Nil
          enabled,  \* tasks the saved configuration enables
          saved,    \* task -> its count in task_scheduler_status, Nil if absent
          memory,   \* process -> task -> its count in _task_status
          loop,     \* process -> task -> where its _task_loop is
          manual,   \* task -> is a run_now of the web process under way?
          strays    \* history: tasks whose loop restart_task started in a web
                    \* process that does not own the schedule

schedVars == <<process, owner, enabled, saved, memory, loop, manual, strays>>

SchedTypeOK ==
  /\ process \in [Procs -> {"down", "up", "stopping"}]
  /\ owner \in Procs \cup {Nil}
  /\ enabled \subseteq Tasks
  /\ saved \in [Tasks -> Counts \cup {Nil}]
  /\ memory \in [Procs -> [Tasks -> Counts \cup {Nil}]]
  /\ loop \in [Procs -> [Tasks -> {"none", "sleeping", "running", "backoff"}]]
  /\ manual \in [Tasks -> BOOLEAN]
  /\ strays \subseteq Tasks

Nothing == [t \in Tasks |-> Nil]
NoLoops == [t \in Tasks |-> "none"]

SchedInit ==
  /\ process = [p \in Procs |-> "down"]
  /\ owner = Nil
  /\ enabled \in SUBSET Tasks
  /\ saved = Nothing
  /\ memory = [p \in Procs |-> Nothing]
  /\ loop = [p \in Procs |-> NoLoops]
  /\ manual = [t \in Tasks |-> FALSE]
  /\ strays = {}

-----------------------------------------------------------------------------
(* Counts, in memory and on disk *)

\* _load_task_status: what the file knows replaces what memory has.
Loaded(p) == [t \in Tasks |-> IF saved[t] = Nil THEN memory[p][t] ELSE saved[t]]

Tripped(counts, t) == counts[t] # Nil /\ counts[t] >= MaxFailures

\* Remember a count, and persist every count this process knows.
Persist(p, counts) ==
  /\ memory' = [memory EXCEPT ![p] = counts]
  /\ saved' = counts

Locked(p, t) == loop[p][t] = "running" \/ (p = Web /\ manual[t])

\* Top of _task_loop: a disabled task's loop returns, the others sleep.
Top(t) == IF t \in enabled THEN "sleeping" ELSE "none"
Turn(p, t, where) == loop' = [loop EXCEPT ![p][t] = where]

-----------------------------------------------------------------------------
(* Ownership *)

\* start_all: load the counts, start what is enabled, not tripped, not running.
Reconciled(p, counts) ==
  /\ memory' = [memory EXCEPT ![p] =
       [t \in Tasks |-> IF t \in enabled /\ counts[t] = Nil THEN 0 ELSE counts[t]]]
  /\ loop' = [loop EXCEPT ![p] =
       [t \in Tasks |-> IF t \in enabled /\ ~Tripped(counts, t) /\ loop[p][t] = "none"
                        THEN "sleeping" ELSE loop[p][t]]]

Acquire(p) == owner = Nil /\ owner' = p /\ Reconciled(p, Loaded(p))

\* The web process starts: it owns the schedule if nobody else does, and never
\* tries again.
WebBoots ==
  /\ process[Web] = "down"
  /\ process' = [process EXCEPT ![Web] = "up"]
  /\ IF owner = Nil THEN Acquire(Web) ELSE UNCHANGED <<owner, memory, loop>>
  /\ UNCHANGED <<enabled, saved, manual, strays>>

StandbyBoots ==
  /\ process[Standby] = "down"
  /\ process' = [process EXCEPT ![Standby] = "up"]
  /\ UNCHANGED <<owner, enabled, saved, memory, loop, manual, strays>>

\* (A mutation: the standby looks at the web process, not at the lock.)
TakeOverWhenWebIsDown ==
  /\ process[Standby] = "up" /\ process[Web] = "down" /\ Acquire(Standby)
  /\ UNCHANGED <<process, enabled, saved, manual, strays>>

\* wait_and_start: the standby polls every five seconds.
TakeOver ==
  /\ process[Standby] = "up" /\ Acquire(Standby)
  /\ UNCHANGED <<process, enabled, saved, manual, strays>>

\* (A mutation: the tick does not read what another process persisted.)
TickFromMemory(p) ==
  /\ process[p] = "up" /\ owner = p
  /\ Reconciled(p, memory[p])
  /\ UNCHANGED <<process, owner, enabled, saved, manual, strays>>

\* _tick_loop, every 30 seconds.
Tick(p) ==
  /\ process[p] = "up" /\ owner = p
  /\ Reconciled(p, Loaded(p))
  /\ UNCHANGED <<process, owner, enabled, saved, manual, strays>>

\* (A mutation: the lock is handed back before the loops are stopped.)
StopReleasesFirst(p) ==
  /\ process[p] = "up" /\ process' = [process EXCEPT ![p] = "stopping"]
  /\ owner' = IF owner = p THEN Nil ELSE owner
  /\ UNCHANGED <<enabled, saved, memory, loop, manual, strays>>

\* stop: the tick and every loop are cancelled and awaited, then the lock is
\* handed back.  A process without it leaves its loops to its exit.
Stop(p) ==
  /\ process[p] = "up" /\ process' = [process EXCEPT ![p] = "stopping"]
  /\ owner' = IF owner = p THEN Nil ELSE owner
  /\ loop' = IF owner = p THEN [loop EXCEPT ![p] = NoLoops] ELSE loop
  /\ UNCHANGED <<enabled, saved, memory, manual, strays>>

\* The process exits, after stop or because it was killed; the kernel drops a
\* lock it still has.
Exit(p) ==
  /\ process[p] # "down" /\ process' = [process EXCEPT ![p] = "down"]
  /\ owner' = IF owner = p THEN Nil ELSE owner
  /\ loop' = [loop EXCEPT ![p] = NoLoops]
  /\ memory' = [memory EXCEPT ![p] = Nothing]
  /\ manual' = IF p = Web THEN [t \in Tasks |-> FALSE] ELSE manual
  /\ strays' = IF p = Web THEN {} ELSE strays
  /\ UNCHANGED <<enabled, saved>>

-----------------------------------------------------------------------------
(* _task_loop *)

\* The sleep is over.  The configuration was read before it.  A task that is
\* running already keeps this tick.
Wake(p, t) ==
  /\ loop[p][t] = "sleeping"
  /\ Turn(p, t, IF Locked(p, t) THEN Top(t) ELSE "running")
  /\ UNCHANGED <<process, owner, enabled, saved, memory, manual, strays>>

Succeed(p, t) ==
  /\ loop[p][t] = "running"
  /\ Persist(p, [memory[p] EXCEPT ![t] = 0])
  /\ Turn(p, t, Top(t))
  /\ UNCHANGED <<process, owner, enabled, manual, strays>>

\* (A mutation: the breaker trips one failure too late.)
FailTripsLate(p, t) ==
  /\ loop[p][t] = "running"
  /\ LET failures == IF memory[p][t] \in Nat THEN memory[p][t] + 1 ELSE 1
         counts == [memory[p] EXCEPT ![t] = failures]
     IN /\ Persist(p, counts)
        /\ Turn(p, t, IF failures > MaxFailures THEN "none" ELSE "backoff")
  /\ UNCHANGED <<process, owner, enabled, manual, strays>>

\* One more failure; at the limit the loop ends, below it it backs off.  (What
\* lies beyond the limit is counted as the limit: only >= is ever asked.)
Fail(p, t) ==
  /\ loop[p][t] = "running"
  /\ LET failures == IF memory[p][t] \in Nat THEN memory[p][t] + 1 ELSE 1
         counts == [memory[p] EXCEPT ![t] = IF failures > MaxFailures
                                            THEN MaxFailures ELSE failures]
     IN /\ Persist(p, counts)
        /\ Turn(p, t, IF Tripped(counts, t) THEN "none" ELSE "backoff")
  /\ UNCHANGED <<process, owner, enabled, manual, strays>>

BackoffOver(p, t) ==
  /\ loop[p][t] = "backoff"
  /\ Turn(p, t, Top(t))
  /\ UNCHANGED <<process, owner, enabled, saved, memory, manual, strays>>

-----------------------------------------------------------------------------
(* What people do, in the web process *)

Present(count) == IF count = Nil THEN 0 ELSE count

\* update_task_scheduler_config writes the settings before it restarts the task.
Saved(t, on) == enabled' = IF on THEN enabled \cup {t} ELSE enabled \ {t}

\* restart_task: the operator retries, so the breaker is cleared.  If the standby
\* owns the schedule that is all; otherwise the loop is restarted here, whether
\* or not this process owns it.
SaveConfig(t, on) ==
  /\ process[Web] = "up"
  /\ Saved(t, on)
  /\ IF owner = Standby
     THEN /\ Persist(Web, [Loaded(Web) EXCEPT ![t] = 0])
          /\ UNCHANGED <<loop, strays>>
     ELSE /\ IF memory[Web][t] # Nil THEN Persist(Web, [memory[Web] EXCEPT ![t] = 0])
             ELSE memory' = [memory EXCEPT ![Web][t] = IF on THEN 0 ELSE Nil]
                  /\ UNCHANGED saved
          /\ Turn(Web, t, IF on THEN "sleeping" ELSE "none")
          /\ strays' = IF on /\ owner # Web THEN strays \cup {t} ELSE strays \ {t}
  /\ UNCHANGED <<process, owner, manual>>

\* (A mutation: the click does not look at the task's lock.)
RunNowUnlocked(t) ==
  /\ process[Web] = "up" /\ ~manual[t]
  /\ manual' = [manual EXCEPT ![t] = TRUE]
  /\ memory' = [memory EXCEPT ![Web][t] = Present(@)]
  /\ UNCHANGED <<process, owner, enabled, saved, loop, strays>>

\* run_now, which asks this process's lock for the task, not who owns the
\* schedule.
RunNow(t) ==
  /\ process[Web] = "up" /\ ~Locked(Web, t)
  /\ manual' = [manual EXCEPT ![t] = TRUE]
  /\ memory' = [memory EXCEPT ![Web][t] = Present(@)]
  /\ UNCHANGED <<process, owner, enabled, saved, loop, strays>>

\* Success clears the breaker; failure counts for nothing.
ManualSucceeds(t) ==
  /\ manual[t] /\ manual' = [manual EXCEPT ![t] = FALSE]
  /\ Persist(Web, [memory[Web] EXCEPT ![t] = 0])
  /\ UNCHANGED <<process, owner, enabled, loop, strays>>

ManualFails(t) ==
  /\ manual[t] /\ manual' = [manual EXCEPT ![t] = FALSE]
  /\ UNCHANGED <<process, owner, enabled, saved, memory, loop, strays>>

\* get_status, where another process owns the schedule.
ReadStatus ==
  /\ process[Web] = "up" /\ owner = Standby
  /\ memory' = [memory EXCEPT ![Web] = Loaded(Web)]
  /\ UNCHANGED <<process, owner, enabled, saved, loop, manual, strays>>

-----------------------------------------------------------------------------
Runs(p, t) == Wake(p, t) \/ Succeed(p, t) \/ Fail(p, t) \/ BackoffOver(p, t)

People(t) == \/ \E on \in BOOLEAN : SaveConfig(t, on)
             \/ RunNow(t) \/ ManualSucceeds(t) \/ ManualFails(t)

SchedNext == \/ WebBoots \/ StandbyBoots \/ TakeOver \/ ReadStatus
             \/ \E p \in Procs : Tick(p) \/ Stop(p) \/ Exit(p)
             \/ \E p \in Procs, t \in Tasks : Runs(p, t)
             \/ \E t \in Tasks : People(t)

\* The timers of a process that is up fire: the owner's tick, the standby's poll.
SchedFairness == WF_schedVars(TakeOver) /\ \A p \in Procs : WF_schedVars(Tick(p))

SchedSpec == SchedInit /\ [][SchedNext]_schedVars /\ SchedFairness

-----------------------------------------------------------------------------
(* What is promised *)

\* A task's loop runs only in the process that holds the lock, also while the
\* lock changes hands.  The exception: a loop that restart_task started in a
\* web process without the lock.
LoopsFollowTheLock ==
  \A p \in Procs, t \in Tasks :
    loop[p][t] # "none" => owner = p \/ (p = Web /\ t \in strays)

\* SR-004 within one process: a task's own loop and a "run now" of it never run
\* its runner at the same time.
SingleFlight == \A t \in Tasks : ~(loop[Web][t] = "running" /\ manual[t])

\* The standby, once it stays up, does not let the schedule lie: whenever the
\* lock is free it is taken.
ScheduleIsTaken == <>[](process[Standby] = "up") => []<>(owner # Nil)

\* A task that stays enabled, with a count in the file that stays below the
\* limit, under an owner that stays up, always gets its loop (back), whichever
\* process saved the setting or cleared the breaker.
EnabledTasksAreLooped ==
  \A p \in Procs, t \in Tasks :
    <>[](owner = p /\ process[p] = "up" /\ t \in enabled /\ ~Tripped(saved, t) /\ saved[t] # Nil)
      => []<>(loop[p][t] # "none")

\* "... so they never run twice whatever the deployment looks like"
\* (docs/ARCHITECTURE.md:14-15): no two loops run one task at the same time.
NeverTwice ==
  \A t \in Tasks : Cardinality({p \in Procs : loop[p][t] = "running"}) <= 1

\* "The count is persisted, so the tripped state survives a restart"
\* (scheduler.py:143): only an operator's save or a successful run of that task
\* clears a tripped count in the file.
TrippedStateSurvives ==
  [][\A t \in Tasks : Tripped(saved, t) /\ ~Tripped(saved', t) =>
       \/ \E on \in BOOLEAN : SaveConfig(t, on)
       \/ ManualSucceeds(t)
       \/ \E p \in Procs : Succeed(p, t)]_schedVars
=============================================================================
