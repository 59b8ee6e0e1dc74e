------------------------------ MODULE Restore -------------------------------
(***************************************************************************)
(* Restoring a backup over a running hub (src/app/web/routes/backup.py,    *)
(* services/backups.py, the restore mode in core/database.py).             *)
(*                                                                         *)
(* A request stages and verifies an archive, closes the database to the    *)
(* others, and has a thread swap one class of data after the other; the    *)
(* thread rolls back when a step fails, which may fail too, and works on   *)
(* when its request is cancelled.  Other requests open the database and    *)
(* make directories that are missing, and a backup copies what is there.   *)
(* Adopting the archive's key is one step here; KeyStore has what it does. *)
(*                                                                         *)
(* What is at a path is a set of pieces, {} when there is nothing: moving  *)
(* something to a directory that is there moves it into the directory.     *)
(***************************************************************************)
EXTENDS Naturals, Sequences, FiniteSets

CONSTANTS Requests,   \* restores
          Original,   \* the generation of the data at first
          Empty,      \* that of what was made because there was none
          Part,       \* what a copy under way has brought
          Torn,       \* what a removal left, or a database without its own log
          None,
          Order,      \* the classes of data, in the order they are swapped
          Folders,    \* those that are directories
          Database,   \* one that is a file
          Archives,   \* what the requests' archives may have, and whether each
                      \* brings its own key
          MaxBackups  \* bound on backups made meanwhile

Classes == {Order[i] : i \in DOMAIN Order}

ASSUME OrderAssumption ==
  Order \in Seq(Classes) /\ Database \in Classes \ Folders /\ Folders \subseteq Classes
ASSUME ArchivesAssumption ==
  Archives \subseteq [has : [Requests -> SUBSET Classes], own : [Requests -> BOOLEAN]]
ASSUME BackupsAssumption == MaxBackups \in Nat
Generations == Requests \cup {Original, Empty}
Pieces == Generations \cup {Part, Torn}
Backup == "backup"     \* as the holder of _BACKUP_LOCK

ASSUME GenerationsAssumption ==
  /\ {Original, Empty, Part, Torn, None} \cap Requests = {}
  /\ Original # Empty /\ Part # Torn /\ {Original, Empty} \cap {Part, Torn} = {}
  /\ None \notin {Original, Empty, Part, Torn}
ASSUME NoneAssumption == None \notin Requests \cup {Backup} /\ Backup \notin Requests

VARIABLES gen,        \* class -> the live data
          aside,      \* request -> class -> what its commit moved aside
          log,        \* whose write-ahead log is beside the database, or None
          staged,     \* request -> classes in its staging directory
          archive,    \* request -> classes its archive has
          portable,   \* request -> whether its archive brings its own key
          key,        \* the generation whose key is adopted
          pc,         \* request -> its coroutine
          thread,     \* request -> its commit thread
          at,         \* request -> index of the class being swapped
          swapped,    \* request -> classes committed, oldest first
          turn,       \* _RESTORE_LOCK's holder, or None
          lock,       \* _BACKUP_LOCK's holder, or None
          quiet,      \* _restore_in_progress
          pool,       \* whether a pool has the database open
          copied,     \* class -> data in the backup being made; None: none is
          made,       \* backups made
          due,        \* history: what the finished restores make of the data
          mishaps,    \* history: classes a move or a removal went wrong with, or a log
          cancelled,  \* history: a request was cancelled during its commit
          crashed     \* history: the hub stopped during a commit

disk == <<gen, aside, log, key>>
job == <<staged, archive, portable>>
work == <<thread, at, swapped>>
base == <<turn, lock, quiet, pool>>
making == <<copied, made>>
history == <<due, mishaps, cancelled, crashed>>
vars == <<disk, job, pc, work, base, making, history>>

ThreadSteps == {"none", "wait", "swap", "land", "key", "rollback", "back", "done", "failed"}
Swapping(r) == thread[r] \in {"swap", "land", "key", "rollback", "back"}
Moved(r) == {swapped[r][i] : i \in 1 .. Len(swapped[r])}

TypeOK ==
  /\ gen \in [Classes -> SUBSET Pieces]
  /\ aside \in [Requests -> [Classes -> SUBSET Pieces]]
  /\ log \in Pieces \cup {None}
  /\ staged \in [Requests -> SUBSET Classes] /\ archive \in [Requests -> SUBSET Classes]
  /\ portable \in [Requests -> BOOLEAN] /\ key \in Requests \cup {Original}
  /\ pc \in [Requests -> {"idle", "staged", "commit", "over"}]
  /\ thread \in [Requests -> ThreadSteps] /\ at \in [Requests -> 1 .. Len(Order) + 1]
  /\ swapped \in [Requests -> Seq(Classes)]
  /\ turn \in Requests \cup {None} /\ lock \in Requests \cup {Backup, None}
  /\ quiet \in BOOLEAN /\ pool \in BOOLEAN
  /\ copied \in [Classes -> SUBSET Pieces] \cup {None} /\ made \in 0 .. MaxBackups
  /\ mishaps \subseteq Classes
  /\ \A r \in Requests : Swapping(r) => lock = r

Init ==
  /\ \E absent \in {{}, Classes \ {Database}} :
       gen = [c \in Classes |-> IF c \in absent THEN {} ELSE {Original}]
  /\ aside = [r \in Requests |-> [c \in Classes |-> {}]]
  /\ log = Original
  /\ staged = [r \in Requests |-> {}]
  /\ \E a \in Archives : archive = a.has /\ portable = a.own
  /\ key = Original
  /\ pc = [r \in Requests |-> "idle"]
  /\ thread = [r \in Requests |-> "none"]
  /\ at = [r \in Requests |-> 1]
  /\ swapped = [r \in Requests |-> <<>>]
  /\ turn = None /\ lock = None /\ quiet = FALSE /\ pool = TRUE
  /\ copied = None /\ made = 0
  /\ due = [data |-> gen, key |-> Original]
  /\ mishaps = {} /\ cancelled = FALSE /\ crashed = FALSE

-----------------------------------------------------------------------------
(* The request: restore_backup *)

\* (A mutation: restores overlap.)
StageTogether(r) ==
  /\ pc[r] = "idle"
  /\ turn' = r
  /\ staged' = [staged EXCEPT ![r] = archive[r]]
  /\ pc' = [pc EXCEPT ![r] = "staged"]
  /\ UNCHANGED <<disk, archive, portable, work, lock, quiet, pool, making, history>>

\* One at a time; nothing live is touched before the archive is proven whole.
Stage(r) ==
  /\ pc[r] = "idle" /\ turn = None
  /\ turn' = r
  /\ staged' = [staged EXCEPT ![r] = archive[r]]
  /\ pc' = [pc EXCEPT ![r] = "staged"]
  /\ UNCHANGED <<disk, archive, portable, work, lock, quiet, pool, making, history>>

\* enter_restore_mode, close_pool, and the thread is started.  The last to close
\* the database takes its log into it.
Quiesce(r) ==
  /\ pc[r] = "staged"
  /\ quiet' = TRUE /\ pool' = FALSE
  /\ log' = log \/ (pool /\ log' = None)
  /\ thread' = [thread EXCEPT ![r] = "wait"]
  /\ pc' = [pc EXCEPT ![r] = "commit"]
  /\ UNCHANGED <<gen, aside, key, job, at, swapped, turn, lock, making, history>>

\* exit_restore_mode, the staging directory removed, the lock given back.
Leave(r) ==
  /\ quiet' = FALSE
  /\ staged' = [staged EXCEPT ![r] = {}]
  /\ turn' = None
  /\ pc' = [pc EXCEPT ![r] = "over"]

\* (A mutation: a failed commit leaves the database closed.)
ReturnLatched(r) ==
  /\ pc[r] = "commit" /\ thread[r] \in {"done", "failed"}
  /\ quiet' = (thread[r] = "failed")
  /\ staged' = [staged EXCEPT ![r] = {}]
  /\ turn' = None
  /\ pc' = [pc EXCEPT ![r] = "over"]
  /\ UNCHANGED <<disk, archive, portable, work, lock, pool, making, history>>

Return(r) ==
  /\ pc[r] = "commit" /\ thread[r] \in {"done", "failed"}
  /\ Leave(r)
  /\ UNCHANGED <<disk, archive, portable, work, lock, pool, making, history>>

\* The request is cancelled: the finally clauses run, the thread goes on.
Cancel(r) ==
  /\ pc[r] \in {"staged", "commit"}
  /\ Leave(r)
  /\ cancelled' = (cancelled \/ pc[r] = "commit")
  /\ UNCHANGED <<disk, archive, portable, work, lock, pool, making, due, mishaps, crashed>>

-----------------------------------------------------------------------------
(* The thread: _commit_restore *)

Is(r) == Order[at[r]]
Thread(r, step) == thread' = [thread EXCEPT ![r] = step]

\* The thread ends, and what it knew with it: its staging directory goes, and the
\* lock.
End(r, step) ==
  /\ Thread(r, step)
  /\ at' = [at EXCEPT ![r] = 1]
  /\ swapped' = [swapped EXCEPT ![r] = <<>>]
  /\ staged' = [staged EXCEPT ![r] = {}]
  /\ lock' = None

\* (A mutation: the swap does not wait for a backup being made.)
TakeLockAnyway(r) ==
  /\ thread[r] = "wait"
  /\ lock' = r
  /\ Thread(r, "swap")
  /\ UNCHANGED <<disk, job, pc, at, swapped, turn, quiet, pool, making, history>>

\* (A mutation: the key is adopted before the data is swapped.)
TakeLockAndKey(r) ==
  /\ thread[r] = "wait" /\ lock = None
  /\ lock' = r
  /\ key' = IF portable[r] THEN r ELSE key
  /\ Thread(r, "swap")
  /\ UNCHANGED <<gen, aside, log, job, pc, at, swapped, turn, quiet, pool, making, history>>

TakeLock(r) ==
  /\ thread[r] = "wait" /\ lock = None
  /\ lock' = r
  /\ Thread(r, "swap")
  /\ UNCHANGED <<disk, job, pc, at, swapped, turn, quiet, pool, making, history>>

\* A class whose source is not there is left as it is.
Skip(r) ==
  /\ thread[r] = "swap" /\ at[r] <= Len(Order)
  /\ Is(r) \notin staged[r]
  /\ at' = [at EXCEPT ![r] = @ + 1]
  /\ UNCHANGED <<disk, job, pc, thread, swapped, base, making, history>>

MoveAside(r) ==
  /\ thread[r] = "swap" /\ at[r] <= Len(Order)
  /\ Is(r) \in staged[r]
  /\ aside' = [aside EXCEPT ![r][Is(r)] = gen[Is(r)]]
  /\ gen' = [gen EXCEPT ![Is(r)] = {}]
  /\ swapped' = [swapped EXCEPT ![r] = Append(@, Is(r))]
  /\ Thread(r, "land")
  /\ UNCHANGED <<log, key, job, pc, at, base, making, history>>

\* The staging directory may be on another file system: the move is a copy.
LandPart(r) ==
  /\ thread[r] = "land"
  /\ Is(r) \in staged[r] /\ gen[Is(r)] \cap {Part, Torn} = {}
  /\ gen' = [gen EXCEPT ![Is(r)] = IF Is(r) \in Folders THEN @ \cup {Part} ELSE {Part}]
  /\ UNCHANGED <<aside, log, key, job, pc, work, base, making, history>>

\* A directory made there meanwhile takes it in, a file is replaced; a database
\* torn while it was copied stays torn.
Land(r) ==
  /\ thread[r] = "land"
  /\ Is(r) \in staged[r]
  /\ LET there == gen[Is(r)] \ {Part}
     IN /\ gen' = [gen EXCEPT ![Is(r)] = IF Is(r) \in Folders THEN there \cup {r}
                                         ELSE IF Torn \in @ THEN {Torn} ELSE {r}]
        /\ mishaps' = mishaps \cup {c \in Folders : c = Is(r) /\ there # {}}
  /\ staged' = [staged EXCEPT ![r] = @ \ {Is(r)}]
  /\ at' = [at EXCEPT ![r] = @ + 1]
  /\ Thread(r, "swap")
  /\ UNCHANGED <<aside, log, key, archive, portable, pc, swapped, base, making,
                 due, cancelled, crashed>>

\* A database whose log is gone, when it was not closed first, is torn.
Unlogged(place) == IF place = {log} THEN {Torn} ELSE place
AsideUnlogged ==
  aside' = [r \in Requests |-> [aside[r] EXCEPT ![Database] = Unlogged(@)]]

\* (A mutation: what was moved aside is dropped before the key is adopted.)
DropSidecarsAndAside(r) ==
  /\ thread[r] = "swap" /\ at[r] > Len(Order)
  /\ log' = None
  /\ aside' = [aside EXCEPT ![r] = [c \in Classes |-> {}]]
  /\ Thread(r, "key")
  /\ UNCHANGED <<gen, key, job, pc, at, swapped, base, making, history>>

\* The sidecars beside the database are unlinked, whoever's they are; the key is
\* next.
DropSidecars(r) ==
  /\ thread[r] = "swap" /\ at[r] > Len(Order)
  /\ log' = None
  /\ gen' = [gen EXCEPT ![Database] = Unlogged(@)]
  /\ AsideUnlogged
  /\ mishaps' = mishaps \cup {c \in {Database} : gen[c] = {log}}
  /\ Thread(r, "key")
  /\ UNCHANGED <<key, job, pc, at, swapped, base, making, due, cancelled, crashed>>

\* A move, an unlink or the adoption of the key fails.
Fail(r) ==
  /\ thread[r] \in {"swap", "land", "key"}
  /\ Thread(r, "rollback")
  /\ UNCHANGED <<disk, job, pc, at, swapped, base, making, history>>

\* The last fallible step; then what was moved aside is dropped, and the
\* staging directory.
Finish(r) ==
  /\ thread[r] = "key"
  /\ key' = IF portable[r] THEN r ELSE key
  /\ aside' = [aside EXCEPT ![r] = [c \in Classes |-> {}]]
  /\ due' = [data |-> [c \in Classes |-> IF c \in archive[r] THEN {r} ELSE due.data[c]],
             key |-> IF portable[r] THEN r ELSE due.key]
  /\ End(r, "done")
  /\ UNCHANGED <<gen, log, archive, portable, pc, turn, quiet, pool, making,
                 mishaps, cancelled, crashed>>

Last(r) == swapped[r][Len(swapped[r])]

\* Newest first, what was landed is removed.  Errors are swallowed: a file may
\* stay, of a directory the remnants.
Remove(r) ==
  /\ thread[r] = "rollback" /\ swapped[r] # <<>>
  /\ \E left \in {{}, IF Last(r) \in Folders /\ gen[Last(r)] # {} THEN {Torn} ELSE gen[Last(r)]} :
       /\ gen' = [gen EXCEPT ![Last(r)] = left]
       /\ mishaps' = mishaps \cup {c \in {Last(r)} : left # {} /\ aside[r][c] = {}}
  /\ Thread(r, "back")
  /\ UNCHANGED <<aside, log, key, job, pc, at, swapped, base, making, due, cancelled, crashed>>

\* What was there is put back: into a directory that stayed or was made
\* meanwhile, over a file.
PutBack(r) ==
  /\ thread[r] = "back"
  /\ LET c == Last(r)
         was == aside[r][c]
     IN /\ gen' = [gen EXCEPT ![c] = IF c \in Folders \/ was = {} THEN @ \cup was ELSE was]
        /\ mishaps' = IF was # {} /\ ((c \in Folders /\ gen[c] # {}) \/ was = {Torn})
                      THEN mishaps \cup {c} ELSE mishaps
        /\ aside' = [aside EXCEPT ![r][c] = {}]
        /\ swapped' = [swapped EXCEPT ![r] = SubSeq(@, 1, Len(@) - 1)]
  /\ Thread(r, "rollback")
  /\ UNCHANGED <<log, key, job, pc, at, base, making, due, cancelled, crashed>>

\* The move back fails, and that ends the rollback: it and what was moved before
\* it stay aside.
PutBackFails(r) ==
  /\ thread[r] = "back" /\ aside[r][Last(r)] # {}
  /\ mishaps' = mishaps \cup Moved(r)
  /\ End(r, "failed")
  /\ UNCHANGED <<disk, archive, portable, pc, turn, quiet, pool, making, due, cancelled, crashed>>

RolledBack(r) ==
  /\ thread[r] = "rollback" /\ swapped[r] = <<>>
  /\ End(r, "failed")
  /\ UNCHANGED <<disk, archive, portable, pc, turn, quiet, pool, making, history>>

Commit(r) == \/ TakeLock(r) \/ Skip(r) \/ MoveAside(r) \/ LandPart(r) \/ Land(r)
             \/ DropSidecars(r) \/ Fail(r) \/ Finish(r)
             \/ Remove(r) \/ PutBack(r) \/ PutBackFails(r) \/ RolledBack(r)

-----------------------------------------------------------------------------
(* Everybody else *)

\* Opening the database.  One that is not there is made, and a log that lay there
\* deleted; a log that is not its own is replayed into it.
Opened ==
  \/ /\ gen[Database] = {}
     /\ gen' = [gen EXCEPT ![Database] = {Empty}] /\ log' = Empty
     /\ AsideUnlogged
     /\ UNCHANGED mishaps
  \/ /\ gen[Database] # {} /\ log \in gen[Database] \cup {None}
     /\ log' \in gen[Database]
     /\ UNCHANGED <<gen, aside, mishaps>>
  \/ /\ gen[Database] # {} /\ log \notin gen[Database] \cup {None}
     /\ gen' = [gen EXCEPT ![Database] = {Torn}] /\ log' = Torn
     /\ AsideUnlogged
     /\ mishaps' = mishaps \cup {Database}

\* get_db: a new pool, not in restore mode.
OpenPool ==
  /\ ~quiet /\ ~pool
  /\ pool' = TRUE
  /\ Opened
  /\ UNCHANGED <<key, job, pc, work, turn, lock, quiet, making, due, cancelled, crashed>>

\* get_session: restore mode is not asked.
OpenSession ==
  /\ Opened
  /\ UNCHANGED <<key, job, pc, work, base, making, due, cancelled, crashed>>

\* get_audit_dir, get_cert_dir and whoever writes a file make what is missing.
Recreate(c) ==
  /\ c # Database /\ gen[c] = {}
  /\ gen' = [gen EXCEPT ![c] = {Empty}]
  /\ UNCHANGED <<aside, log, key, job, pc, work, base, making, history>>

\* create_backup_sync, one class after the other.
BackupStart ==
  /\ made < MaxBackups /\ lock = None
  /\ lock' = Backup
  /\ copied' = [c \in Classes |-> {}]
  /\ made' = made + 1
  /\ UNCHANGED <<disk, job, pc, work, turn, quiet, pool, history>>

BackupCopy(c) ==
  /\ copied # None /\ copied[c] = {}
  /\ gen[c] # {}
  /\ copied' = [copied EXCEPT ![c] = gen[c]]
  /\ UNCHANGED <<disk, job, pc, work, base, made, history>>

\* It is published, or it failed; an archive may lack what was not there.
BackupEnd ==
  /\ copied # None
  /\ copied' = None
  /\ lock' = None
  /\ UNCHANGED <<disk, job, pc, work, turn, quiet, pool, made, history>>

\* The hub stops while data is swapped, and starts again.
Crash ==
  /\ \E r \in Requests : Swapping(r)
  /\ pc' = [r \in Requests |-> IF pc[r] = "idle" THEN "idle" ELSE "over"]
  /\ thread' = [r \in Requests |-> IF thread[r] \in {"done", "failed"} THEN thread[r]
                                                                       ELSE "none"]
  /\ at' = [r \in Requests |-> 1]
  /\ swapped' = [r \in Requests |-> <<>>]
  /\ staged' = [r \in Requests |-> {}]
  /\ turn' = None /\ lock' = None /\ quiet' = FALSE /\ pool' = FALSE
  /\ copied' = None
  /\ crashed' = TRUE
  /\ UNCHANGED <<disk, archive, portable, made, due, mishaps, cancelled>>

Backups == BackupStart \/ (\E c \in Classes : BackupCopy(c)) \/ BackupEnd

Next ==
  \/ \E r \in Requests : Stage(r) \/ Quiesce(r) \/ Return(r) \/ Cancel(r) \/ Commit(r)
  \/ OpenPool \/ OpenSession \/ (\E c \in Classes : Recreate(c)) \/ Backups \/ Crash

\* Threads and coroutines that can go on do; a backup in the making ends.
Fairness == /\ \A r \in Requests : WF_vars(Return(r)) /\ WF_vars(Commit(r))
            /\ WF_vars(BackupEnd)

Spec == Init /\ [][Next]_vars /\ Fairness

-----------------------------------------------------------------------------
(* Properties *)

AtRest == \A r \in Requests : ~Swapping(r)

\* Nothing at all, and what others made of it, are the same.
Same(place, wanted) == place = wanted \/ place \cup wanted \subseteq {Empty}

\* A restore is all or nothing (tests/test_backup_restore.py:1): once no thread
\* is at work, every class of data and the adopted key are those the finished
\* restores make of them, wherever a step failed.  Left out are the classes of
\* the mishaps (a move into a directory that was there, a removal or a move that
\* failed in the rollback, a log replayed or lost), a request cancelled meanwhile
\* and a hub that stopped.
RestoreIsWhole ==
  AtRest /\ ~cancelled /\ ~crashed =>
    /\ key = due.key
    /\ \A c \in Classes \ mishaps : Same(gen[c], due.data[c])

\* Even then, until a restore has finished nothing that was there is gone: it
\* is live, or beside what took its place; of the database perhaps without what
\* only its log had.
OriginalsSurvive ==
  (\A r \in Requests : thread[r] # "done") =>
    \A c \in Classes : due.data[c] = {Original} =>
      \E place \in {gen[c]} \cup {aside[r][c] : r \in Requests} :
        Original \in place \/ (c = Database /\ Torn \in place)

\* "a concurrent request cannot lazily rebuild the pool that close_pool() tears
\* down while the files are being swapped" (routes/backup.py:461): no pool has the
\* database open while it is swapped or put back, also when one restore follows
\* another at once; a cancelled request's thread is left out.
PoolStaysShut == ~cancelled /\ (\E r \in Requests : Swapping(r)) => ~pool

\* "nothing reopens the database mid-swap" (core/database.py:1267): the ORM's
\* sessions do.
NothingReopens == [][OpenSession => AtRest]_vars

\* "a failed restore leaves the install exactly as it was" (routes/backup.py:315):
\* not when the rollback itself goes wrong.
FailedLeavesAsItWas ==
  AtRest /\ ~cancelled /\ ~crashed /\ (\A r \in Requests : thread[r] # "done") =>
    \A c \in Classes : Same(gen[c], due.data[c])

\* "the swapped-in file is always whole" (routes/backup.py:325), and so is every
\* directory when the restore reports success: not when somebody made the
\* directory or opened the database meanwhile.
FinishedIsInPlace ==
  [][\A r \in Requests : Finish(r) /\ ~cancelled => \A c \in archive[r] : gen[c] = {r}]_vars

\* A backup is of one moment of the restores: what it has copied is what was
\* there when it began ("so a restore and a scheduled backup cannot move the
\* same trees at once", routes/backup.py:359), with the exceptions of
\* RestoreIsWhole.
BackupIsWhole ==
  copied # None /\ ~cancelled /\ ~crashed =>
    \A c \in Classes \ mishaps : copied[c] = {} \/ Same(copied[c], due.data[c])

\* The restore mode is lifted again, whatever becomes of the restore ("must not
\* leave the app bricked until a restart", routes/backup.py:466).
RestoreModeEnds == quiet ~> ~quiet

\* "A restore must be all-or-nothing" (tests/test_backup_restore.py:1), also a
\* cancelled one: either everything its archive has, and its key if it brings
\* one, is in place, or nothing of it.
AllOrNothing ==
  AtRest /\ ~crashed /\ mishaps = {} =>
    \A r \in Requests :
      (\A q \in Requests \ {r} : thread[q] = "none") =>
        \/ (\A c \in archive[r] : gen[c] = {r}) /\ (portable[r] => key = r)
        \/ (\A c \in Classes : r \notin gen[c]) /\ key # r
=============================================================================
