# Verification of sybr-hub's concurrent core

sybr-hub is a server for IT service providers: it audits its customers'
Microsoft 365 tenants and networks, turns findings into tickets, opens VPN
tunnels into customer sites, and runs scheduled tasks.  Most of it is one
asyncio process with in-memory registries, SQLite tables and remote systems on
the other side of an unreliable network; a second process can stand by to run
the schedule, and threads do what must not block the loop.  This directory holds
TLA+ models of the parts where that matters, the TLC configurations that check
them, and TLAPS proofs.  Paths below are relative to `src/`.

The modules:

| module | component | abstract specification | proofs |
|---|---|---|---|
| `FindingPush` | finding push, hub to ticket system | `OncePerFinding` | `FindingPush_proofs` |
| `AuditRuns` | audit runs and the collection flag | `OneCollector` | `AuditRuns_proofs` |
| `Vpn` | tunnels, the people's routes, the site collector | | `VpnAndSchedule_proofs` |
| `Schedule` | schedule ownership, task loops, circuit breaker | | `VpnAndSchedule_proofs` |
| `RefreshSession` | refresh tokens of one session | `OneTokenSession` | `RefreshSession_proofs` |
| `Access` | one account: sign-in, second factor, revocation, sockets | | `Access_proofs` |
| `PolicyPlan`, `PolicyDeploy` | Conditional Access: the plan (pure), the requests | | `PolicyDeploy_proofs` |
| `KeyStore` | where the master key lives | | `KeyStore_proofs` |
| `Restore` | restoring a backup over a running hub | | `Restore_proofs` |

Each has a module `MC...` and a `.cfg` that instantiate it.  `PolicyDeploy`
extends `PolicyPlan`, whose operators are the plan's arithmetic.
`VpnAndSchedule_proofs` extends both `Vpn` and `Schedule`: one of the scheduler's
tasks is the collection that `Vpn` runs, and the two modules' theorems stand side
by side there.  So that they can, what both would name alike carries `Sched` in
`Schedule` (`SchedInit`, `SchedNext`, `SchedSpec`, `SchedTypeOK`).  The others do
not share state: the collection flag belongs to `AuditRuns`, the VPN registry to
`Vpn`, the lock file and the settings entry to `Schedule`, the two finding
tables to `FindingPush`, a session's token row to `RefreshSession` and the rest
of the account to `Access`.  Where one touches another it is one step there
whose insides are here: ending a session is `EndSession` in `RefreshSession` and
five operations in `Access`; adopting a key is part of `Finish` in `Restore` and
`Restore(k)` in `KeyStore`; the audit scheduler is a rival for the flag in
`AuditRuns`.

Run a model with `tlc -workers 2 -config MCVpn.cfg MCVpn`, a proof with
`tlapm Restore_proofs.tla`.

## 1. Inventory

### Finding push
*Code:* `app/web/routes/hub.py` (`_push_finding`), `app/services/finding_tickets.py`,
`app/integrations/http_retry.py`, `scripts/reconcile_finding.py`.
*State:* two SQLite tables, `finding_operations` (a durable reservation, one
row per finding) and `finding_tickets` (the recorded external id), and, across
the network, the ticket system's objects.
*Operations:* look up, reserve, POST with retries, record, settle; an operator's
reconciliation of what is left, which needs the hub to be stopped.
*Hard:* two clicks at once; a lost or late answer to a POST; a stop between any
two steps; a cancelled request whose database commit still lands.
*Correct when:* a finding has at most one remote object, no object is forgotten,
what is recorded and what the technician is told is true.

### Audit runs and the collection flag
*Code:* `app/core/job_state.py`, `app/web/routes/audit.py`,
`app/web/routes/history.py`, `app/services/audit_scheduler.py`.
*State:* `audit_running`, `bulk_audit_running`, the run registries
`_user_audit_runs` and `_tab_audit_runs`, and per run a context with `running`,
`terminal`, and subscriber queues.
*Operations:* open a stream (attach, refuse or start a run), the background job,
cancel, load a stored run, bulk audit with its tasks, the scheduler's audit.
*Interactions:* shared memory and one `asyncio.Lock`; jobs publish to the
subscribers' queues; clients disconnect at any await.
*Hard:* check-then-act over an await; a final event published before anyone
subscribes; claims whose holder is cancelled before its first step.
*Correct when:* collections exclude each other, the flag is set while and only
while somebody holds it, and viewers learn how a run ended.

### VPN tunnels and the site collector
*Code:* `app/services/vpn_manager.py`, `app/web/routes/vpn.py`,
`app/services/vpn_backends/wireguard.py`, `app/services/site_collector.py`.
*State:* `_connections` (profile to entry: owner, state, interface),
`_registry_lock`, the profile rows, and outside the hub the `wg-quick`
processes and the interfaces they make.
*Operations:* connect, disconnect, force-disconnect, delete, guarded by
`_refuse_if_system_holds_tunnels`; the collector's cycle over the sites as user
`sybr-system`, with a sweep in its `finally`.
*Hard:* only `connect` takes the lock, and lets go of it before it dials; every
other step reads and writes the registry between awaits; a 30-second limit that
does not kill the process; cancellation of the collector at any await.
*Correct when:* the system account lets go of its tunnels, a profile is not
stuck in "connecting", the collector takes no person's tunnel and leaves none up.

### Schedule ownership, task loops and the breaker
*Code:* `app/services/schedule_owner.py`, `app/services/scheduler.py`,
`scripts/run_scheduler.py`, `app/web/routes/settings.py`.
*State:* the `flock` on `scheduler.lock`; per process the task loops, the task
locks and the failure counts; in the shared settings the enabled tasks and the
persisted counts `task_scheduler_status`.
*Operations:* boot, take over, tick, stop, exit; a loop's sleep, run, success,
failure and backoff; save a task's configuration (`restart_task`), `run_now`,
`get_status`.
*Hard:* two processes with counts of their own and one file; the lock changing
hands; saving and running by hand in a process that does not own the schedule.
*Correct when:* loops run only under the lock, a task is in flight once per
process, a free lock is taken, an enabled task gets its loop back, and a tripped
task stays off.

### Sessions, login and the second factor
*Code:* `app/core/auth.py`, `app/core/mfa.py`, `app/core/access_events.py`,
`app/web/routes/auth.py`, `app/web/middleware/auth.py`,
`app/web/middleware/websocket_security.py`.
*State:* the tables `users`, `sessions`, `user_mfa`, `mfa_stepup`; in memory
`_replaced_refresh` (session to the token its last rotation replaced, and when)
and the watches of open WebSockets.
*Operations:* sign-in, refresh, logout, password change, enrolling, confirming,
stepping up, disabling; expiry; an administrator's disabling; the handshake and
the monitor of a socket.
*Interactions:* the middleware and the handshake read session, account and
second factor one await after the other; whoever deletes a session announces it
to the watches.
*Hard:* two tabs with one token; a retired token presented late; a sign-in or a
step-up that read "no second factor" before an enrolment and writes after it; a
password compared in a worker thread while it is changed; a socket that is
registered after its handshake.
*Correct when:* a session trades one token at a time and none after its end,
two tabs do not sign each other out, a confirmed second factor binds every
session, and a socket closes with its session and with no other.

### Policy deployment and restore points
*Code:* `app/modules/m365_audit/policy_deploy.py`, `app/web/routes/policy_deploy.py`,
`app/core/policy_adoption.py`, `app/core/policy_restore.py`.
*State:* the tenant's policies at Microsoft; on disk the adoption mapping and the
restore points, one file per second.
*Operations:* plan, apply, enable, restore (plan and apply), set the adoption.
*Interactions:* every request reads the tenant anew; plan and application are two
requests tied by a fingerprint.
*Hard:* what moves between plan and application; two operators at once; one
change of several failing; a rail that judges what is then changed.
*Correct when:* what is sent was on the plan that was read, a restore point holds
what is replaced and undoes it, and no policy is sent that locks everybody out.

### Backups, restore and the master key
*Code:* `app/services/backups.py`, `app/web/routes/backup.py`,
`app/core/database.py` (restore mode), `app/core/encryption.py`.
*State:* seven classes of data on the disk, what a commit moved aside, a staging
directory, `_BACKUP_LOCK`, `_RESTORE_LOCK`, `_restore_in_progress`; the key in the
operating system's keyring, in three files wrapped for this host, in copies an
import set aside, and in each process's memory.
*Operations:* make a backup, stage, commit, roll back; find, recover, mint,
import the key.
*Hard:* a thread that outlives its request; a failure or a stop half way, and a
failure of the rollback; other requests that open the database or make a directory
that is moved aside; two processes starting at once; a host whose
identity changes; stores that fail one by one.
*Correct when:* a restore is whole or nothing, a backup is of one moment, the
last copy of a key with data is never overwritten and no key is made over data.

### Parts that are not modelled

| part | why |
|---|---|
| Provisioning, remediation | long sequences of remote calls; a later module on partial failure |
| Alerts, webhooks | a small sequential pipeline with a deduplication history; a later module |
| Roles, capabilities, customer scopes, rate limits, write guard | decisions on one request from one row each; unit tests enumerate them |
| Remote access (SSH, Guacamole, terminal) | transport and third-party protocols |
| Vendor integrations, pollers | API clients and parsers (the retrying POST is modelled with the finding push) |
| Collectors, reports, baselines | parsers and templates without shared state; most of the repository's lines are here |
| Archive formats, wrapping, cryptography | correctness is in the data, which these models abstract from |
| Rest of the persistence layer | the tables the modelled parts use are variables of their modules |
| Front ends, AI console | display, and dispatch to the services above |

`PROJECT.json` lists the hazards found in the modelled parts and beside them,
each with its line and the properties that would catch it.

## 2. How the models correspond to the code

In one process the event loop runs one coroutine at a time, so **an action is
what a coroutine does from one await to the next**: reads, guards and writes in
between are atomic, and everything else may happen at the await.  A critical
section under an `asyncio.Lock` with no await inside is part of one action; one
with an await (`connect`'s, which reads the profile) keeps the lock in a
variable.  Operators that start with "(A mutation: ...)" in their comment are
plausible mistakes in the operator that follows them; no action uses them, they
show that the property they are meant for can fail.

### FindingPush
`pc[r]` is where a click is in `_push_finding`; `op` and `ticket` are the two
tables, which survive `Stop`, and the clicks do not.  `wire` holds POSTs sent
and not yet processed by the ticket system, `objects` what it made of them; a
POST is named by its click and attempt, so two attempts can make two objects.
`Apply` and `Refuse` may happen at any time, also after the hub gave up waiting
(`Ambiguous`) or stopped.  `Interrupted` and the second disjuncts of `Reserve`
and `FinishOperation` are cancellation and database errors (`Dropped` before
anything is reserved); a cancelled caller's commit may have landed.  `Throttled`
requires that the ticket system did not take the POST: that is what a 429 says,
and http_retry relies on it.  The operator of `reconcile_finding.py` is trusted
in what the script cannot check: that the provider's last request has settled
and that the object named is there.

### AuditRuns
A run is named by the request that made its context.  `Open` is the stream's
decision under `audit_lock` with the launch; `Begin`, `Greet`, `Receive` are the
response's generator, `Leave` a disconnect at any of its awaits.  `EndJob` is
the terminal event and the `finally` with both flags.  `LoadHistory` and
`SelectHistory` are the two sides of the awaits in `history.py`.  A bulk audit
is claimed by the request, begins when the response is first iterated, and
starts tasks that outlive it; a task is over when it has reported (the webhooks
it sends afterwards are left out).  `tab_runs[u]` is what `_tab_audit_runs`
holds of a user, oldest first, and `Reselected` what a selection makes of it.
Progress events are left out: they change no state a property reads.

### Vpn
A flow is one request of a person or the collector's cycle; `at[f]` is the await
it is at.  An entry of the registry is named by the flow that registered it,
because code that awaits keeps a reference to *its* entry (`ref`) while
`_connections[profile]` may have become another (`conn`).  `connect` is `Check`,
then one of `ConnectRefused`, `SecretsMissing`, `Register`, then `DialReturns`
or `DialTimeout`; `disconnect` is `CloseTo`, `Launch`, then `Forget` or
`DownTimeout`.  The `wg-quick` processes (`up`, `down`) and the interface (`link`)
are outside the event loop: a flow that times out or is cancelled leaves its
process running, and `WgQuickUp` or `WgQuickDown` may happen much later.
`between` marks stretches without an await, during which `MayRun` keeps others
out.  `Cancel` and `CancelReading` are the cancellation of the collector's task
at each await, also while it sweeps.

### Schedule
Two processes (`process` says whether each is down, up or stopping; `Nil` is the
owner when the lock is free, and a count that is absent), each with loops and
counts in memory; `saved` is the settings entry, which `Persist` replaces by all
the counts the process knows.  `Stop` cancels and awaits the loops and then
hands the lock back (while loops are awaited nobody else can do more than fail
to get the lock, so this is one action); `Exit` without it is a kill, which
drops the lock.  `Reconciled` is `start_all`, used by acquisition and by the
tick.  `SaveConfig` is the settings route with `restart_task`, which starts a
loop in a web process that does not own the schedule if no *other* process owns
it at that moment.  Times (backoff lengths, when a task is due) are left out; a
sleep may end at any time.  Failure counts beyond the limit are kept as the
limit, since the code asks only whether a count is at least the limit.

### RefreshSession
Tokens are numbered in the order the session's row held them, so "retired" is
"smaller".  `pc[r]` is where a POST of `/auth/refresh` is in
`rotate_refresh_token`: `Select` reads the row, `CompareEqual` remembers the token
in `_replaced_refresh` (`entry`), `SwapWon` and `SwapLost` are the two outcomes
of the UPDATE with its compare-and-swap, `GraceCheck` and `Validate` the duplicate's way,
`Revoke` the reuse's.  `Send` presents any token the session has had, late ones
included.  `Tick` ages the entry up to `Grace`; `Restart` empties it and drops the
requests.  An entry older than the grace is what the code deletes when it
next remembers one; `WithinGrace` cannot tell it from one that is gone.

### Access
`pc[t]` is the await a request or socket is at.  The session, account and
second-factor checks are separate actions because each awaits; then comes what
the operation does (`Body`).  A session made by task `t` is named `t`.
`stepup[s]` says how the session's row in `mfa_stepup` came about: the code
stores only a time, and "password" is a step-up made while no second factor was
on.  Deleting a session deletes that row (the foreign key cascades), and
`MarkRecent` for a session that is gone is refused.  `Expire` tells nobody;
`early` keeps the sockets whose end somebody must have announced.
Passwords are numbered; `typed` is the one a request carries.

### PolicyPlan and PolicyDeploy
A policy is its name, its state and whether it excludes anybody; all of them are
policies that would lock everybody out when enforced without an exclusion, since
on others the rail is silent.  `MergeInto`, `KeepState`, `Match`, `BuildPlan`,
`Applicable` and `Fingerprint` are `build_plan` and its helpers, in the code's
order (the rail before the state is kept).  `want.whole` tells a policy captured
from a tenant, whose empty exclusion list wins over the live one, from a
template's.  `Written` is Microsoft's side.
A task is one operator's work: `Plan` (the plan and its reading are one step),
`Read` (the wanted policies are loaded, the tenant read), `Check` (the mapping
is read, the plan rebuilt and compared, the restore point written), then one
`Send` or `SendFails` per change in any order; or `ReadToEnable` and `Enable`.
`points` is indexed by the second, as the files are: a second point in one
second replaces the first.  Nobody is obliged to go on, which is the hub's stop.

### KeyStore
`files[a]` is the backup at a place with the identity that can unwrap it; `Move`
changes the host's (hostname and machine-id, or the wrapping secret).  A start is
`Find`, `Recover` or `Mint`, then `Settle`; between them the other process may
do anything.  In `Settle` and `Adopt` any set of places may fail to be written,
and the keyring may fail.  `Restore(k)` is a restore as the keys see it: data
of the classes the archive has is under its key, the rest under those it had; the
backup inside the configuration directory is whatever the archive had, if it had
that directory.
`lapses` names what happened that may lose a key or mislead a start:
`twins` (a key minted while another process runs or starts), `again` (an import
over a readable backup beside an earlier `.prev`, which is kept), `blind` (over a
backup nobody here can unwrap), `partly` (not every place was written), `ring`
(the keyring was not), `overlap` (an import while a process starts).

### Restore
What is live of a class (`gen[c]`) and what a commit moved aside of it
(`aside[r][c]`) are sets of pieces: `{}` when nothing is there, else generations
(the original, a restore's, `Empty` for what was made because there was nothing),
`Part` while a move that is a copy is under way, `Torn` for the remnants of a
removal or a database without its own log.  More than one piece is a directory
inside a directory, which is what `shutil.move` makes when its target is one.
`log` says whose write-ahead log lies beside the database.

The request (`pc`) and its commit thread (`thread`) are two actors; `Cancel` runs
the request's `finally` clauses and leaves the thread.  `MoveAside`, `LandPart` and
`Land` are the moves of a class, `Skip` a class that is not in the staging
directory, `DropSidecars` the unlinking of the log, whoever's it is by then; `Fail`
is an exception at any of them or in the adoption of the key.  The rollback takes
the newest committed class: `Remove` is `_remove`, which swallows its errors and may
leave something, `PutBack` the move back, into what was left or over it, and
`PutBackFails` the exception there, which leaves this class and the older ones
aside.  A thread that ends (`End`) gives up its lock and its staging directory and
forgets what it moved.

Others act in between.  `OpenPool` is the pool's reopening, which restore mode
refuses; `OpenSession` the ORM's engine, which does not ask: it makes a database
where there is none, and replays a log it finds into whatever database is there.
`_commit_restore` accepts that a connection checked out *before* the quiesce loses
its writes (`routes/backup.py:322`); a session opened after it is another matter,
see section 3.  `Recreate` is `get_audit_dir` and its like, which make a missing
directory on every call.  `Crash` is a stop during a commit, after which nothing is
rolled back.

### History variables
Several variables record what the code does not.  In `RefreshSession`: `newest`,
`booted` and `alone`; in `Access`: `by`, `enrolled` and `early`; in
`PolicyDeploy`: `planned`, `shown` and `mine`; in `KeyStore`: `current`, `seen`
and `lapses`; in `Restore`: `due`, `mishaps`, `cancelled` and `crashed`.  No guard of an
action of the code reads them (`Send` presents tokens up to `newest`, `Mint`
makes a key not in `seen`: both say which values exist).

Three more name the exceptions that a property has, so that the property says
exactly how far the code keeps its promise; no guard reads them either.
`revived` in `Vpn` are the profiles whose entry is the collector's and was written
to by a person's late `connect`; `missed` those that the sweep had yet to close
when the collector's task was cancelled in it; `strays` in `Schedule` the tasks
whose loop `restart_task` started in a web process without the lock.  A profile
in `revived` or `missed` is worse than untidy: the system account appears to hold
it for ever, and the routes then refuse everybody.  It takes two people and a
collection to get the first, and a second profile and a cancellation for the
second: a person's late connect revives one entry, the collector is cancelled
while it dials the other, its sweep closes the revived one first and is cancelled
there.  The other stays "connecting", because `CancelledError` passes the sweep's
`except Exception` (`site_collector.py:193`).  In `PolicyDeploy`, `Exchanged`
plays the same part for `ApprovedIsWhatRuns`, by `planned`: the policies a task's
plan was made of.

## 3. What the runs check

Passing runs (times on two cores):

| run | instance | distinct states | shows |
|---|---|---|---|
| `push` | 2 findings, 3 clicks, 3 attempts, symmetric | 101,550 (8 s) | one object per finding, nothing forgotten, truthful tables and answers, refinement of `OncePerFinding` |
| `audit_runs` | 1 user and customer, 2 tabs, 2 streams, 1 history load, 1 bulk audit, the scheduler | 346,648 (2 to 3 min) | one holder, the flag means that somebody holds it, viewers learn how a run ended, claims come back, refinement of `OneCollector` |
| `vpn` | 1 profile, 2 people, the collector, 2 cancellations | 436,502 (2.5 to 3.5 min) | the system account lets go, no profile connects for nothing, every flow ends |
| `schedule` | 2 tasks, limit 2 | 979,951 (3 to 4 min) | loops keep to the lock, single flight, a free lock is taken, enabled tasks are looped |
| `refresh` | 3 requests, 2 rotations, grace of 2 ticks | 44,392 (15 s) | refinement of `OneTokenSession`, two tabs do not sign each other out, every request is answered |
| `access` | 1 session and 3 tasks of any kind, 1 password change | 599,946 (1 to 2 min) | a confirmed second factor binds every session, sockets close with their session and only then |
| `policy` | a template of 1 policy, a policy of the tenant's own, 2 operators, 1 edit, 2 seconds, symmetric | 1,327,812 (1.5 min) | the approved plan is what runs, a restore point undoes it, the rail holds |
| `key_store` | 2 processes, 3 keys, 2 places, 1 import, 1 move, symmetric | 1,595,898 (1 to 1.5 min) | no key with data is lost, starts find the key, none is minted over data |
| `restore` | a restore of a directory and the database with its own key, one of the database alone, 1 backup | 966,751 (2 to 2.5 min) | but for the mishaps all or nothing and whole backups, originals survive them too, no pool mid-swap, restore mode ends |

*Why the bounds are enough.*  `push`: three clicks let two race on one finding
while the third is on another, or a third come after the race; three attempts is
the code's own `_MAX_ATTEMPTS`.  `audit_runs`: the collection flag is contended
by all four kinds of collection; two streams are one that starts a run and one
that attaches or rivals it; `TabLimit` 1 makes the second tab's selection evict
the first's.  One bulk customer is enough for the passing properties, which do
not relate customers; the run about tasks that outlive the stream has two and a
semaphore of one.  `vpn`: registry entries of different profiles meet only in the
lock, the guard and force-disconnect; with two people every pair of calls, also
with the same entry, is concurrent with a collection.  Two cancellations reach
the collector's loop and then its sweep.  One profile is too few for `missed`: what
a cancelled sweep does not come to is another profile than the one it is closing.
(With two profiles and one person, 503,775 states, the same properties hold.
Proving them showed that with two people they did not hold without `missed`; an
instance that starts from that situation, 1,121,147 states, holds with it and
fails without.  The theorems have no bound.)  `schedule`: two tasks are the least with
which one task's run persists the other's count; limit 2 is the least at which
a failure backs off before the breaker trips.

`refresh`: three requests are two of one token and one of the next, each of
which may be the straggler; two rotations let the entry name a token that is
retired twice over.  `access`: two tasks interfere and the third is the socket,
or the sign-in, that is hurt; one password change makes an old one.  `policy`:
the template's policy may be missing, present or adopted, with a policy beside
it that it does not know; two tasks put a deployment between another's plan and
its application, or a restore after a deployment; two seconds let points replace
each other or not.  (`Exchanged` takes four tasks, two edits and two namesakes,
and was found by an attempt to prove `ApprovedIsWhatRuns` without it; the types
of `PolicyDeploy` are proved and no longer a part of the run.)  `key_store`: two
places are one that a restore replaces and one it does not (the code has one of
the first kind and two of the second, which differ only in their order); three
keys are the first, a twin and an imported one; with one move the host does not
return to its old identity, which the proofs cover.  `restore`: a
directory nests and is remade, the database has a log, other files are simpler
than either; one archive has every class and its key, the other neither, and
whichever comes second follows the first at once, after success or failure, or at
any point after a cancellation.  (With both archives full and no backup, 860,387
states, the same holds.)

*Bounds by name.*  `MaxAttempts`, `MaxFailures`, `TabLimit` and `MaxConcurrent`
are the code's limits at small values.  `MaxCancels` bounds the collector's
cancellations; clicks, streams, loads, bulk audits and calls happen at most once
each, the collector's cycle once.  `DownMayFail` says whether `wg-quick down`
may refuse.  `MaxToken` bounds the rotations, `Grace` is
`REFRESH_REUSE_GRACE_SECONDS` in ticks, `MaxPw` the password changes, `MaxEdits`
edits of tenant and mapping, `MaxNow` the seconds, `MaxMoves` and `MaxImports`
changes of the host and of the key, `MaxBackups` the backups.

*Deadlock* is checked for `push` and `schedule`, where stopping, starting and
ticking never end.  The other runs say `CHECK_DEADLOCK FALSE`: every
request happens once, and when all are over nothing is left to do.

*Fairness.*  `AuditRuns`: every task and generator the event loop has started is
run again, and a collection ends, since its requests have timeouts; no client
has to come, stay or leave.  `Vpn`: a flow that has something to run is run, and
asyncio's timers fire (so `DialTimeout` and `DownTimeout` are there when
`wg-quick` never returns); nothing is assumed of `wg-quick`, of clicks or of
when a collection starts.  `Schedule`: the owner's 30-second tick and the
standby's 5-second poll; nothing is assumed of the loops, of people or of
processes starting.  `RefreshSession`: a request the process has begun is driven on.
`Access`: the monitor of an open socket is a task with a 15-second timer; no
request has to go on.  `Restore`: threads and coroutines that can go on do, and a
backup in the making ends.  All of it is weak fairness.  `FindingPush`, `PolicyDeploy` and
`KeyStore` state none: their promises are safety, and after a stop only a human
goes on.

*The two liveness properties of `Schedule`.*  `ScheduleIsTaken` is about a
standby that stays up: the web process asks for the lock only at startup, so
without a standby a free lock can stay free.  `EnabledTasksAreLooped` requires a
count in the file that is below the limit.  A task that tripped in memory with no
entry in the file is the code's own exception: the tick reads the file over
memory and cannot clear what the file does not mention.

### Where the code does something else than it says
Three runs each check one statement of a comment, document or test, and TLC finds
a behaviour that breaks it.

| run | property | what happens |
|---|---|---|
| `vpn_takes` | `HumansKeepTheirTunnel` | the collector waits for the lock while a person connects, takes "already connected" for success and disconnects the person |
| `policy_locks_out` | `NothingSentLocksOut` | a restore of a policy captured report-only, without exclusions, over one that is enforced with one: the rail sees report-only, then the live state is put back, and it is sent enforced and without the exclusion |
| `restore_cancelled` | `AllOrNothing` | the request is cancelled, its staging directory removed; the thread skips what it no longer finds, adopts the key and drops the originals |

Further statements the code does not keep are stated in the modules.  To see one
fail, put it in the place of the properties in the module's `.cfg` (as `INVARIANT`
or, where it says so, as `PROPERTY`).

| module | property | what happens |
|---|---|---|
| `AuditRuns` | `CollectionSerialised` (two bulk customers) | the client of a bulk audit leaves; the flags are released, the tasks go on collecting beside the next audit (`routes/audit.py:1033`) |
| `AuditRuns` | `StarterLearns`, temporal | a run that ends before the stream that started it subscribes leaves that stream waiting (`routes/audit.py:661`): the attaching branch looks at `terminal`, the starting one does not |
| `AuditRuns` | `ClaimsComeBack`, temporal | a bulk response that is never iterated, or a job cancelled before its first step, keeps the flag (`routes/audit.py:782`) |
| `AuditRuns` | `OwnerFindsRun` | a history load that checked before a run started replaces it in the registry; its owner can no longer cancel it (`routes/history.py:196`) |
| `Vpn` | `TunnelComesDown` (no person, no cancellation, `DownMayFail = FALSE`) | `wg-quick up` outlives its 30 seconds; the interface appears after the collector has disconnected and forgotten it (`wireguard.py:63`) |
| `Schedule` | `NeverTwice` | a setting saved in a web process without the lock, while it is free, starts a loop; the standby takes over and runs the task too (`scheduler.py:1014`) |
| `Schedule` | `TrippedStateSurvives`, temporal | a manual run in the web process overwrites the file with the counts that process knows; another task's tripped count is lost (`scheduler.py:162`) |
| `RefreshSession` | `EntryNamesTheReplaced` | a loser of the swap leaves its token in the entry, over the one replaced since (`auth.py:568`) |
| `Access` | `OldPasswordIsOut` | a sign-in whose password was compared before the change issues its session after it (`auth.py:911`) |
| `Access` | `StepUpIsProof` | an enrolment whose request ends between `mfa.verify` and `delete_user_sessions` leaves sessions that count as verified by password (`routes/auth.py:193`) |
| `Restore` | `NothingReopens`, as `PROPERTY` | "nothing reopens the database mid-swap" (`core/database.py:1267`): the restore mode is asked by the pools; an ORM session (`core/orm.py:41`) opens the file while a thread swaps it |
| `Restore` | `FinishedIsInPlace`, as `PROPERTY` | "the swapped-in file is always whole" (`routes/backup.py:325`): a session opens the landed database before the old sidecars are unlinked and replays the old log into it; or `get_audit_dir` (`core/config.py:46`, `get_cert_dir` at 191) makes the directory that was moved aside, and `shutil.move` (`routes/backup.py:375`) puts the archive inside it.  Success is reported |
| `Restore` | `FailedLeavesAsItWas` | "a failed restore leaves the install exactly as it was" (`routes/backup.py:315`): what `_remove` could not remove stays (`routes/backup.py:96`), and the original is put inside it; or the move back (406) raises and the older classes stay aside |

What reading, modelling and proving showed besides, without a property: a
collection whose sweep is cancelled leaves the entries it has not come to
(`missed` above); an approved restore runs another plan than the one read when
its point was written again within its second, with policies of the same contents
and other ids, because `plan_fingerprint` leaves out the ids of what is wanted
(`policy_deploy.py:190`); two applications
of one approved plan that both read before either writes create a policy twice;
an application that read before an `/enable` puts the state back it read; no
restore lowers enforcement, so an enabling is not undone by its restore point;
a pending consent flow is removed by customer, also when a newer one took its
place; two first starts make two keys; a keyring that fails during an import
hands the old key to the next start; one place written counts as stored; the
standby keeps the old key and the old database file after a restore; a rollback
after the sidecars were dropped has lost what was only in the WAL, if the database
was not closed by then (a mishap in `Restore`); and the
advice to import the key "in Settings" cannot be followed, since the hub that
gives it has refused to start.

`FlagMeansHeld`, `ClaimsComeBackUnlessStranded`, `AttachedViewersLearn`,
`HoldReleased`, `NoIdleDial`, `LoopsFollowTheLock`, `SameTokenTabsSurvive`,
`EnrolmentHolds`, `ApprovedIsWhatRuns`, `Undoable`, `RailHolds` and
`RestoreIsWhole` are the same promises with exactly those
exceptions taken out, so that a further way to break them would be found.
`RestoreIsWhole` names them class by class: `mishaps` are the classes landed or put
back in a directory that was there, left by a removal or a move back that failed,
and the database when a log was replayed into it or it lost its own.  Within them
`OriginalsSurvive` still holds.

## 4. What is proved

Every safety property of a passing run, its type invariant included, is a
theorem, and so are the three refinements and the action properties; what is left
to TLC are the liveness properties.  The theorems hold for every value of the
constants.  The only assumptions are the named `ASSUME`s of the modules, which TLC
evaluates in every run: limits are positive (`BoundsAssumption`,
`FailuresAssumption` and their like), `None` is none of the values it stands
beside (`NoneAssumption`, `NoneIsNoId`, `NoneIsNoPolicy`), the actors differ
(`ProcessesAssumption`, `CollectorAssumption`, and `NamesAssumption`: a stream is
not also a load or a bulk audit), the generations of data differ
(`GenerationsAssumption`), the database is one of the classes and no directory, and
archives have some of the classes (`OrderAssumption`, `ArchivesAssumption` in
`Restore`), and each name of a template's policies has an id of its
own (`FirstAssumption`).

In each module `IInv` is what is inductive, one lemma per action or group of
actions (`...Keeps`) shows that it is kept, and each promise follows from it.

**FindingPush_proofs.**  `TypeCorrect`, `ExactlyOnce` (`AtMostOneObject`),
`NothingForgotten`, `RecordsStayTrue`, `AnswersStayTrue`, and
`PushingKeepsThePromise`: the push implements `OncePerFinding`.
None of the promises is inductive alone: a state with an object, a POST on the
wire for the same finding and one click about to send is ruled out only by who
holds the reservation.  The invariant adds `Holding` (whoever is past its
reservation owns the row, and nobody is pushing while the hub is down),
`Footprint` (whatever is on the wire or made is the *latest* POST of the click
that owns the row, and that click is not before its send) and `Recording` (an
answer being recorded is of an existing object; only a finished click has one).
From `Footprint`, two POSTs for one finding have one owner and one attempt, so
they are one.  The step that matters is the retry: `Unsent` and `Throttled`
advance the attempt, and preserve `Footprint` only because nothing of the
previous attempt is on the wire or made; an ambiguous answer, which could not
say so, is not retried.  The refinement maps the operation rows to `claimed`, the
objects by finding to `filed` and the ticket rows to `known`.

**AuditRuns_proofs.**  `TypeCorrect`, `OneAtATime` (`OneHolder`),
`FlagIsTruthful` (`FlagMeansHeld`) and `FlagIsAMutex`: the audits implement
`OneCollector`, a mutex whose holder may be lost.  `OneHolder` says nothing of a
claim whose holder is gone, and such a claim keeps the flag up, so the invariant is
about claims: a job that is live or lost and a bulk audit that is held or abandoned
have one (`JobClaims`, `BulkClaims`); there is at most one, the scheduler's
included (`OneClaim`), and the flags are up exactly while there is one
(`FlagsAreClaims`).  A claim is made with the flag down, hence beside no other;
who gives one back has the only one, hence may put both flags down.  The
refinement needs no more: with the invariant on both sides of a step, raising the
flag is `Take`, lowering it `GiveBack`, and losing a holder with the flag up
`Strand`.

**VpnAndSchedule_proofs.**  For `Vpn`: `TypeCorrect`, `TheHoldIsReleased`
(`HoldReleased`) and `NobodyDialsForNothing` (`NoIdleDial`), for any profiles,
requests and cancellations.  Neither promise is inductive.  A step has to know
which profile and whose entry its flow awaits (`Bound`), where the collection is in
its cycle (`InCycle`), that each tunnel the collector has not let go of is one its
sweep comes to, or missed (`Accounted`), and that whoever registered an entry
is dialing it (`Dialling`).  Every await of every flow moves one flow from a place
to a place, so `FlowStep` carries the invariant over such a step once, and each
action only says which entries it touches.
For `Schedule`: `ScheduleTypeCorrect`, `LoopsKeepToTheLock`
(`LoopsFollowTheLock`) and `OneFlight` (`SingleFlight`), by one invariant.  Loops
appear only in `Reconciled` under the lock and in `restart_task`; the lock is free
at an acquisition, hence no loop exists then except a stray one; `Stop` clears the
loops before it hands the lock back, and `Exit` takes lock and loops together.

**RefreshSession_proofs.**  `TypeCorrect` and `RotationKeepsThePromise`: the
rotation implements `OneTokenSession`, for any number of requests and rotations.
Most steps map to a stutter; `SwapWon` to `Trade`, the answers to theirs.
`OneTokenSession` lets a session be revoked only over an older token, and that
is the part that needs an invariant: a request that has left the straight path
holds an older token than the session's as long as the session lives (`Behind`),
because what it compared was read no earlier than its token was current
(`Reads`), and the row only moves forward.  `TabsSurvive` is the action property
`SameTokenTabsSurvive`: a request in `alone` whose swap was lost finds its token in
the entry, since the first that was about to write remembered it, and whoever
remembers another token drops it from `alone` (`Duplicates`).

**Access_proofs.**  `TypeCorrect` and `EnrolmentIsKept` (`EnrolmentHolds`).  What
could break it is a step-up that read "no second factor" before the enrolment and
marks its session after it.  The invariant says that such a step-up's session is
gone by then (`LateStepUps`), that a deleted session is never made again
(`IssuedOnce`, `SidsAreIssued`), and which operation can be at which await.
`TheRevokedAreTold` (`RevokedAreTold`) and `KeptSocketsStay` (the action property
`KeptSocketStays`): whoever deletes a session notes down what it deleted and
announces it one await later.  The announcement concerns the sockets of exactly
those sessions because they are still gone by then (`GoneForGood`), and no socket
can open on one of them unnoticed, because a socket opens once (`OpenedOnce`) and
reads its session when it does.

**PolicyDeploy_proofs.**  `TypeCorrect`, `OnlyTheApprovedRuns`
(`ApprovedIsWhatRuns`), `WritesAreUndoable` (`Undoable`), `RailIsKept`
(`RailHolds`) and `DeploymentsAreUndone` (`RestoreUndoesDeployment`).  The
approval is a fingerprint of a tenant that is gone when the plan is applied.  That
it singles out a plan rests on the tenant's books: every write moves `modified`
on, and no id is given away twice.  So the tenant read at the application is a
later one of the tenant planned for (`Later`, `PlannedFor`), a later tenant with
the same fingerprint is the same tenant (`FingerprintTells`), and the plan rebuilt
from it is the plan shown, up to `Exchanged`.  `Undoable` and `RailHolds` follow from
what a plan may contain (`PlanFacts`).  `RestoreUndoesDeployment` is about the
plan's arithmetic in any well-typed tenant: an update to a captured policy
brings its name and exclusions back and its state no lower
(`CapturedComesBack`), and a plan that deletes nothing leaves every policy in
place (`NothingDisappears`).

**KeyStore_proofs.**  `TypeCorrect`, `KeysAreKept` (`NoKeyIsLost`),
`RecoveryChain` (`StartsFindTheKey`) and `MintsOnlyOverNothing`
(`NeverMintsOverData`), for any number of processes, places, imports and moves.
While nothing that may mislead a start has happened, every file and the keyring
hold the current key or nothing, and every place outside the configuration
directory has it once there is one (`FilesAgree`); hence a start that mints finds no
data (`FirstUse`).  With no lapse at all, a key that is not the current one and
still has data, or is still in a process's memory, is set aside outside that
directory (`OldKept`).

**Restore_proofs.**  `TypeCorrect` (with the fact that a thread at work holds
`_BACKUP_LOCK`) and `PoolIsShutMidSwap` (`PoolStaysShut`): a request past
staging holds the turn, a waiting request keeps the database closed, and without
a cancellation a thread at work has its request waiting for it.
Over that invariant a second one, `DataInv`, says what the data is at each step of a
commit: a class is moved aside once (`MovedOnce`); outside the mishaps a thread at
work has put its generation, and nothing beside it, in the place of all it moved,
or is about to for the last, and nothing else of its is aside (`InPlace`); what it
has passed has left the staging directory (`Passed`); and what is due, the data as
the finished restores make it, is live for the classes not moved and aside for
those moved (`DueIsKept`).  So a thread that goes on makes the whole archive live,
and one that rolls back puts back what is due, unless a removal or a move fails,
which makes mishaps of the classes it concerns: `RestoresAreWhole`
(`RestoreIsWhole`).  Opening the database, making a directory and unlinking the log
keep all of it by one lemma (`ReopeningKeepsData`): each leaves what is live, makes
it where nothing was, or tears a database and says so.  `OriginalsAreKept`
(`OriginalsSurvive`) needs no exception, neither for mishaps nor for cancellations
and stops: its strengthening (`OriginalsKept`) is that an original is aside, or
live where no thread at work has moved it, so that no removal reaches it and
putting back only adds.  `BackupsAreOfOneMoment` (`BackupIsWhole`) follows since a
backup's copy and a swap exclude each other.

**Only model-checked.**  The liveness properties: `AttachedViewersLearn`,
`ClaimsComeBackUnlessStranded`, `EveryFlowEnds`, `ScheduleIsTaken`,
`EnabledTasksAreLooped`, `EveryRefreshAnswered`, `RevokedSocketCloses` and
`RestoreModeEnds`.  They need fairness, hence `ENABLED`, which TLAPS 1.4.5 does not
reason about.  The violations of section 3 are TLC's alone, as counterexamples
are.  No module declares a `RECURSIVE` operator, so none is closed to proof.

## 5. What is left out of the modelled parts

- *Finding push:* the ITGlue and myITprocess targets, which share reservation and
  recording but create in another way; what a ticket says; access checks before
  the push.
- *Audit runs:* progress events, reports and e-mails a job sends; the contents of
  the bulk summary; which customers are due in the scheduler.
- *VPN:* the OpenVPN, FortiGate IPsec and Azure backends; editing profiles and
  secrets; a restart of the hub, after which interfaces are up and in no
  registry; what a reading stores.  `wg-quick up` is allowed to fail for any
  reason; an interface that exists makes it fail.
- *Sessions and access:* the lockout counters (wrong passwords and codes only
  refuse), the token blacklist, mandatory enrolment (`required_for`), roles and
  scopes, recovery codes; deleting an account.
- *Policies:* the consent flow, drift reports, which part of a template is
  selected (the template stands for the selection), contents other than state
  and exclusion, namesakes in a tenant at first.
- *Keys and backups:* a key supplied in the environment, which is used as it is
  and never stored; formats; the third place; archives that fail verification
  (nothing is touched); what a log contains.  In a restore: a class directory that is
  itself a mount point, whose move aside is then a copy and not a rename; a staging
  directory removed by a cancelled request while it is being moved from, class by
  class; what was moved aside and could not be dropped after success, which is
  litter; writes of files into a class while it is swapped, other than making it.
- *Schedule:* when a task is due; module switches; what a runner does, including
  work it left in an executor thread; other writers of the settings file;
  failing writes of it.

## 6. Plan

Done: `FindingPush` with `OncePerFinding`, `AuditRuns` with `OneCollector`, `Vpn`,
`Schedule`, `RefreshSession` with `OneTokenSession`, `Access`, `PolicyPlan` and
`PolicyDeploy`, `KeyStore` and `Restore`, each with the proofs of its safety
properties.  Next, in this order:

1. *Proofs:* as theorems with an exact exception, the promises of the last table
   of section 3 (`NeverTwice` up to `strays`, `CollectionSerialised` up to bulk
   tasks whose stream is gone), where the exception says more than the
   counterexample does.
2. *Abstract specifications:* of the restore (a generation that changes as a
   whole) and of the key (an append-only set of keys with a current one), and the
   refinement to them.
3. *`Vpn`:* the OpenVPN backend's process table and a restart of the hub.
4. *`AuditRuns`:* the bulk summary and its counter of finished customers.
5. *Consent flows:* looked up, awaited and removed by customer.
6. *Provisioning and alerts*, if they turn out to hold more than sequential code.
