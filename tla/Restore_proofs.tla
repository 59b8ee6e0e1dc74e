--------------------------- MODULE Restore_proofs ---------------------------
(***************************************************************************)
(* For any restores, archives, classes of data in any order, directories   *)
(* among them, and any number of backups: Restore is type correct, and as  *)
(* long as no request has been cancelled no pool has the database open     *)
(* while a thread swaps it; but for the classes of the mishaps a restore   *)
(* is all or nothing and a backup of one moment, and nothing original is   *)
(* lost before a restore has finished, mishaps or not.                     *)
(*                                                                         *)
(* The latch is one flag for all requests, lifted by whichever returns.    *)
(* That it is not lifted over another's thread takes the order of the      *)
(* steps: a request that is past staging holds the turn (Turns), and a     *)
(* thread that is at work has its request waiting for it (Attended).       *)
(*                                                                         *)
(* What the data is takes a second invariant (DataInv), over the first: a  *)
(* thread moves each class once (MovedOnce) and puts its own in the place  *)
(* (InPlace), what it has passed has left the staging directory (Passed),  *)
(* and what is due is live or with what it moved aside (DueIsKept), so     *)
(* that it can finish or put everything back; an original is live only     *)
(* where no thread at work has moved it (OriginalsKept), so that no        *)
(* removal takes it.                                                       *)
(***************************************************************************)
EXTENDS Restore, SequenceTheorems, TLAPS

Working(r) == thread[r] = "wait" \/ Swapping(r)

\* A class is being landed or put back only while there is one.
MovesAClass == \A r \in Requests : /\ thread[r] = "land" => at[r] <= Len(Order)
                                   /\ thread[r] = "back" => swapped[r] # <<>>

\* A request that has started and not left holds the turn.
Turns == \A r \in Requests :
           /\ pc[r] \in {"staged", "commit"} => turn = r
           /\ pc[r] \in {"idle", "staged"} => thread[r] = "none"

\* While a request waits for its thread the database stays closed.
Closed == \A r \in Requests : pc[r] = "commit" => quiet /\ ~pool

\* A backup in the making holds _BACKUP_LOCK.
Copying == copied # None => lock = Backup

\* Without a cancelled request each thread at work is waited for.
Attended == ~cancelled => \A r \in Requests : Working(r) => pc[r] = "commit"

IInv == TypeOK /\ MovesAClass /\ Turns /\ Closed /\ Copying /\ Attended

Distinct(s) == \A i, j \in 1 .. Len(s) : s[i] = s[j] => i = j
Elements(s) == {s[i] : i \in 1 .. Len(s)}

\* Each class is moved once, and only by a thread that is at work.
MovedOnce ==
  \A r \in Requests :
    /\ Distinct(swapped[r])
    /\ ~Swapping(r) => swapped[r] = <<>> /\ at[r] = 1
    /\ pc[r] \in {"idle", "staged"} \/ thread[r] = "wait" => \A c \in Classes : aside[r][c] = {}

\* A thread at work has put its own generation in the place of what it moved, or
\* is about to, and nothing else is there but what others make where nothing is;
\* of what it has not moved nothing is aside.
InPlace ==
  \A r \in Requests : Swapping(r) =>
    /\ \A c \in Classes \ Moved(r) : aside[r][c] = {}
    /\ thread[r] \in {"swap", "key"} => /\ staged[r] \cap Moved(r) = {}
                                        /\ \A c \in Moved(r) \ mishaps : gen[c] = {r}
    /\ thread[r] = "land" =>
         /\ Is(r) \in Moved(r) /\ staged[r] \cap Moved(r) \subseteq {Is(r)}
         /\ Is(r) \notin mishaps => gen[Is(r)] \subseteq {Empty, Part}
         /\ \A c \in (Moved(r) \ {Is(r)}) \ mishaps : gen[c] = {r}
    /\ thread[r] = "back" /\ Last(r) \notin mishaps /\ aside[r][Last(r)] = {} =>
         gen[Last(r)] \subseteq {Empty}

\* Whatever the thread has passed has left the staging directory; unless the
\* request was cancelled, by being swapped.
Passed ==
  \A r \in Requests :
    /\ \A i \in 1 .. at[r] - 1 : Order[i] \notin staged[r]
    /\ thread[r] = "key" => at[r] > Len(Order)
    /\ ~cancelled /\ (pc[r] = "staged" \/ thread[r] = "wait") => staged[r] = archive[r]
    /\ ~cancelled /\ thread[r] \in {"swap", "land", "key"} => staged[r] \cup Moved(r) = archive[r]

\* What a thread has moved aside is what is due, or a database that lost its log.
AsideIsDue(r) == \A c \in Moved(r) \ mishaps :
  Same(aside[r][c], due.data[c]) \/ (c = Database /\ aside[r][c] = {Torn})

\* Until a request is cancelled or the hub stops, what is due is live, or set
\* aside by the thread at work.
DueIsKept ==
  ~cancelled /\ ~crashed =>
    /\ key = due.key
    /\ AtRest => \A c \in Classes \ mishaps : Same(gen[c], due.data[c])
    /\ \A r \in Requests : Swapping(r) =>
         /\ AsideIsDue(r)
         /\ \A c \in (Classes \ Moved(r)) \ mishaps : Same(gen[c], due.data[c])

\* An original is aside, or live where no thread at work has moved it.
Holds(place, c) == Original \in place \/ (c = Database /\ Torn \in place)
Kept(c) == \/ \E q \in Requests : Holds(aside[q][c], c)
           \/ Holds(gen[c], c) /\ \A r \in Requests : Swapping(r) => c \notin Moved(r)
OriginalsKept ==
  (\A r \in Requests : thread[r] # "done") =>
    \A c \in Classes : due.data[c] = {Original} => Kept(c)

DataInv == MovedOnce /\ InPlace /\ Passed /\ DueIsKept /\ OriginalsKept /\ BackupIsWhole

-----------------------------------------------------------------------------
(* Lemmas about the disk *)

\* The classes are swapped in a finite order.
LEMMA OrderFacts == Len(Order) \in Nat /\ (\A i \in 1 .. Len(Order) : Order[i] \in Classes)
  BY OrderAssumption

\* What is put back is a class.
LEMMA LastIsAClass ==
  ASSUME TypeOK, NEW r \in Requests, swapped[r] # <<>>
  PROVE  Last(r) \in Classes
<1>1. swapped[r] \in Seq(Classes)
  BY DEF TypeOK
<1>2. Len(swapped[r]) \in 1 .. Len(swapped[r])
  BY <1>1
<1> QED BY <1>1, <1>2 DEF Last

\* Only classes are moved.
LEMMA MovedAreClasses ==
  ASSUME TypeOK, NEW r \in Requests
  PROVE  Moved(r) \subseteq Classes
<1>1. swapped[r] \in Seq(Classes)
  BY DEF TypeOK
<1> QED BY <1>1 DEF Moved

\* What is aside stays as it is, but for a database that loses its log.
Unlogs == \A q \in Requests, c \in Classes :
            \/ aside'[q][c] = aside[q][c]
            \/ c = Database /\ aside[q][c] # {} /\ aside'[q][c] = {Torn}

\* What is live stays as it is, is made where nothing was, or is a database torn.
Reopens ==
  /\ mishaps \subseteq mishaps'
  /\ \A c \in Classes : \/ gen'[c] = gen[c]
                        \/ gen[c] = {} /\ gen'[c] = {Empty}
                        \/ c = Database /\ gen'[c] = {Torn} /\ c \in mishaps'

\* Only a database can lose its log.
LEMMA UnlogsAside ==
  ASSUME TypeOK, AsideUnlogged
  PROVE  Unlogs /\ aside' \in [Requests -> [Classes -> SUBSET Pieces]]
<1>1. \A q \in Requests :
        aside'[q] = [aside[q] EXCEPT ![Database] = Unlogged(aside[q][Database])]
  BY DEF AsideUnlogged
<1>2. \A q \in Requests : /\ aside[q] \in [Classes -> SUBSET Pieces]
                          /\ aside[q][Database] \subseteq Pieces
  BY OrderAssumption DEF TypeOK
<1>3. {Torn} \subseteq Pieces
  BY DEF Pieces
<1>4. \A q \in Requests : Unlogged(aside[q][Database]) \in SUBSET Pieces
  BY <1>2, <1>3 DEF Unlogged
<1>5. ASSUME NEW q \in Requests PROVE aside'[q] \in [Classes -> SUBSET Pieces]
  <2>1. PICK p \in SUBSET Pieces : aside'[q] = [aside[q] EXCEPT ![Database] = p]
    BY <1>1, <1>4
  <2>2. aside[q] \in [Classes -> SUBSET Pieces]
    BY <1>2
  <2> QED BY <2>1, <2>2
<1>6. aside' \in [Requests -> [Classes -> SUBSET Pieces]]
  <2>1. aside' = [q \in Requests |-> aside'[q]]
    BY DEF AsideUnlogged
  <2> QED BY <1>5, <2>1
<1>7. Unlogs
  <2>1. SUFFICES ASSUME NEW q \in Requests, NEW c \in Classes
                 PROVE  \/ aside'[q][c] = aside[q][c]
                        \/ c = Database /\ aside[q][c] # {} /\ aside'[q][c] = {Torn}
    BY DEF Unlogs
  <2>2. CASE c # Database
    BY <1>1, <1>2, <2>2
  <2>3. CASE c = Database
    <3>1. aside'[q][c] = Unlogged(aside[q][c])
      BY <1>1, <1>2, <2>3
    <3> QED BY <2>3, <3>1 DEF Unlogged
  <2> QED BY <2>2, <2>3
<1> QED BY <1>6, <1>7

\* Opening the database makes it, leaves it or tears it.
LEMMA OpeningFacts ==
  ASSUME TypeOK, Opened
  PROVE  /\ Reopens /\ Unlogs
         /\ gen' \in [Classes -> SUBSET Pieces]
         /\ aside' \in [Requests -> [Classes -> SUBSET Pieces]]
         /\ log' \in Pieces \cup {None} /\ mishaps' \subseteq Classes
<1>1. gen[Database] \subseteq Pieces /\ {Empty, Torn} \subseteq Pieces /\ Database \in Classes
  BY OrderAssumption DEF TypeOK, Pieces, Generations
<1>2. CASE gen[Database] = {} /\ gen' = [gen EXCEPT ![Database] = {Empty}] /\ log' = Empty
           /\ AsideUnlogged /\ UNCHANGED mishaps
  BY <1>1, <1>2, UnlogsAside DEF Reopens, TypeOK
<1>3. CASE gen[Database] # {} /\ log' \in gen[Database] /\ UNCHANGED <<gen, aside, mishaps>>
  BY <1>1, <1>3 DEF Reopens, Unlogs, TypeOK
<1>4. CASE gen[Database] # {} /\ gen' = [gen EXCEPT ![Database] = {Torn}] /\ log' = Torn
           /\ AsideUnlogged /\ mishaps' = mishaps \cup {Database}
  BY <1>1, <1>4, UnlogsAside DEF Reopens, TypeOK
<1> QED BY <1>2, <1>3, <1>4 DEF Opened

\* So does unlinking its log.
LEMMA UnlinkingFacts ==
  ASSUME TypeOK, NEW r \in Requests, DropSidecars(r)
  PROVE  /\ Reopens /\ Unlogs
         /\ gen' \in [Classes -> SUBSET Pieces]
         /\ aside' \in [Requests -> [Classes -> SUBSET Pieces]]
         /\ log' \in Pieces \cup {None} /\ mishaps' \subseteq Classes
<1>1. gen[Database] \subseteq Pieces /\ Torn \in Pieces /\ Database \in Classes
  BY OrderAssumption DEF TypeOK, Pieces, Generations
<1>2. /\ Unlogs /\ aside' \in [Requests -> [Classes -> SUBSET Pieces]]
      /\ log' = None
      /\ gen' = [gen EXCEPT ![Database] = Unlogged(gen[Database])]
      /\ mishaps' = mishaps \cup {c \in {Database} : gen[c] = {log}}
  BY UnlogsAside DEF DropSidecars
<1>3. CASE gen[Database] = {log}
  BY <1>1, <1>2, <1>3 DEF Reopens, Unlogged, TypeOK
<1>4. CASE gen[Database] # {log}
  BY <1>1, <1>2, <1>4 DEF Reopens, Unlogged, TypeOK
<1> QED BY <1>2, <1>3, <1>4

-----------------------------------------------------------------------------
(* The invariant is inductive *)

LEMMA InitIInv == Init => IInv
<1> SUFFICES ASSUME Init PROVE IInv
  OBVIOUS
<1>1. TypeOK
  <2>1. \A r \in Requests : swapped[r] \in Seq(Classes)
    BY DEF Init
  <2>2. /\ gen \in [Classes -> SUBSET Pieces]
        /\ aside \in [Requests -> [Classes -> SUBSET Pieces]]
        /\ log \in Pieces
    <3>1. PICK absent : gen = [c \in Classes |-> IF c \in absent THEN {} ELSE {Original}]
      BY DEF Init
    <3>2. {} \subseteq Pieces /\ {Original} \subseteq Pieces
      BY DEF Pieces, Generations
    <3> QED BY <3>1, <3>2 DEF Init
  <2>3. archive \in [Requests -> SUBSET Classes] /\ portable \in [Requests -> BOOLEAN]
    <3>1. PICK a \in Archives : archive = a.has /\ portable = a.own
      BY DEF Init
    <3> QED BY <3>1, ArchivesAssumption
  <2>4. at \in [Requests -> 1 .. Len(Order) + 1] /\ made \in 0 .. MaxBackups
    BY OrderFacts, BackupsAssumption DEF Init
  <2>5. quiet \in BOOLEAN /\ pool \in BOOLEAN
    <3>1. quiet = FALSE /\ pool = TRUE
      BY DEF Init
    <3> QED BY <3>1
  <2> QED BY <2>1, <2>2, <2>3, <2>4, <2>5 DEF Init, TypeOK, ThreadSteps, Swapping
<1>2. \A r \in Requests : thread[r] = "none" /\ pc[r] = "idle"
  BY DEF Init
<1>3. copied = None
  BY DEF Init
<1> QED BY <1>1, <1>2, <1>3 DEF IInv, MovesAClass, Turns, Closed, Copying, Attended, Working, Swapping

\* The coroutine: only the holder of the turn closes and opens the database.
LEMMA RequestKeeps ==
  ASSUME IInv, NEW r \in Requests, Stage(r) \/ Quiesce(r) \/ Return(r) \/ Cancel(r)
  PROVE  IInv'
<1> USE NoneAssumption
    DEF IInv, MovesAClass, Turns, Closed, Copying, Attended, Working, Swapping,
        disk, job, work, making, history
<1>1. CASE Stage(r)
  BY <1>1 DEF Stage, TypeOK
<1>2. CASE Quiesce(r)
  <2>1. log' \in Pieces \cup {None}
    BY <1>2 DEF Quiesce, TypeOK
  <2> QED BY <1>2, <2>1 DEF Quiesce, TypeOK, ThreadSteps
<1>3. CASE Return(r)
  BY <1>3 DEF Return, Leave, TypeOK
<1>4. CASE Cancel(r)
  BY <1>4 DEF Cancel, Leave, TypeOK
<1> QED BY <1>1, <1>2, <1>3, <1>4

\* The thread's steps up to the adoption of the key.
LEMMA SwapKeeps ==
  ASSUME IInv, NEW r \in Requests,
         \/ TakeLock(r) \/ Skip(r) \/ MoveAside(r) \/ LandPart(r) \/ Land(r)
         \/ DropSidecars(r) \/ Fail(r)
  PROVE  IInv'
<1> USE DEF IInv, MovesAClass, Turns, Closed, Copying, Attended, Working, Swapping, ThreadSteps,
            Thread, disk, job, work, base, making, history
<1>1. CASE TakeLock(r)
  BY <1>1, NoneAssumption DEF TakeLock, TypeOK
<1>2. CASE Skip(r)
  BY <1>2, OrderFacts DEF Skip, TypeOK
<1>3. CASE MoveAside(r)
  <2>1. Is(r) \in Classes /\ at[r] <= Len(Order)
    BY <1>3, OrderFacts DEF MoveAside, Is, TypeOK
  <2>2. swapped' = [swapped EXCEPT ![r] = Append(swapped[r], Is(r))]
    BY <1>3 DEF MoveAside
  <2>3. Append(swapped[r], Is(r)) \in Seq(Classes)
    BY <2>1 DEF TypeOK
  <2>4. swapped' \in [Requests -> Seq(Classes)]
    BY <2>2, <2>3 DEF TypeOK
  <2>5. /\ aside' \in [Requests -> [Classes -> SUBSET Pieces]]
        /\ gen' \in [Classes -> SUBSET Pieces]
    <3>1. gen[Is(r)] \in SUBSET Pieces /\ {} \in SUBSET Pieces
      BY <2>1 DEF TypeOK
    <3> QED BY <1>3, <2>1, <3>1 DEF MoveAside, TypeOK
  <2> QED BY <1>3, <2>1, <2>4, <2>5 DEF MoveAside, TypeOK
<1>4. CASE LandPart(r)
  <2>1. gen' \in [Classes -> SUBSET Pieces]
    <3>1. \E p \in SUBSET Pieces : gen' = [gen EXCEPT ![Is(r)] = p]
      <4>1. Part \in Pieces /\ gen[Is(r)] \subseteq Pieces
        BY <1>4, OrderFacts DEF LandPart, Is, TypeOK, Pieces
      <4> QED BY <1>4, <4>1 DEF LandPart
    <3> QED BY <3>1 DEF TypeOK
  <2> QED BY <1>4, <2>1 DEF LandPart, TypeOK
<1>5. CASE Land(r)
  <2>1. Is(r) \in Classes /\ gen[Is(r)] \subseteq Pieces /\ {r, Torn} \subseteq Pieces
    BY <1>5, OrderFacts DEF Land, Is, TypeOK, Pieces, Generations
  <2>2. gen' \in [Classes -> SUBSET Pieces]
    <3>1. \E p \in SUBSET Pieces : gen' = [gen EXCEPT ![Is(r)] = p]
      BY <1>5, <2>1 DEF Land
    <3> QED BY <3>1 DEF TypeOK
  <2>3. mishaps' \subseteq Classes
    BY <1>5, <2>1 DEF Land, TypeOK
  <2>4. at' \in [Requests -> 1 .. Len(Order) + 1]
    BY <1>5, OrderFacts DEF Land, TypeOK
  <2> QED BY <1>5, <2>2, <2>3, <2>4 DEF Land, TypeOK
<1>6. CASE DropSidecars(r)
  <2>1. TypeOK'
    BY <1>6, UnlinkingFacts DEF DropSidecars, TypeOK
  <2> QED BY <1>6, <2>1 DEF DropSidecars, TypeOK
<1>7. CASE Fail(r)
  BY <1>7 DEF Fail, TypeOK
<1> QED BY <1>1, <1>2, <1>3, <1>4, <1>5, <1>6, <1>7

\* The thread finishes, or puts back what it has swapped.
LEMMA EndKeeps ==
  ASSUME IInv, NEW r \in Requests,
         Finish(r) \/ Remove(r) \/ PutBack(r) \/ PutBackFails(r) \/ RolledBack(r)
  PROVE  IInv'
<1> USE DEF IInv, MovesAClass, Turns, Closed, Copying, Attended, Working, Swapping, ThreadSteps,
            Thread, disk, job, work, base, making, history
<1>0. 1 \in 1 .. Len(Order) + 1 /\ <<>> \in Seq(Classes)
  BY OrderFacts
<1>1. CASE Finish(r)
  <2>1. aside' \in [Requests -> [Classes -> SUBSET Pieces]]
    BY <1>1 DEF Finish, TypeOK
  <2>2. key' \in Requests \cup {Original}
    BY <1>1 DEF Finish, TypeOK
  <2> QED BY <1>0, <1>1, <2>1, <2>2, NoneAssumption DEF Finish, End, TypeOK
<1>2. CASE Remove(r)
  <2>1. Last(r) \in Classes
    BY <1>2, LastIsAClass DEF Remove
  <2>2. PICK left \in {{}, IF Last(r) \in Folders /\ gen[Last(r)] # {} THEN {Torn} ELSE gen[Last(r)]} :
          /\ gen' = [gen EXCEPT ![Last(r)] = left]
          /\ mishaps' = mishaps \cup {c \in {Last(r)} : left # {} /\ aside[r][c] = {}}
    BY <1>2 DEF Remove
  <2>3. left \in SUBSET Pieces
    <3>1. gen[Last(r)] \subseteq Pieces /\ Torn \in Pieces
      BY <2>1 DEF TypeOK, Pieces
    <3> QED BY <2>2, <3>1
  <2>4. gen' \in [Classes -> SUBSET Pieces] /\ mishaps' \subseteq Classes
    BY <2>1, <2>2, <2>3 DEF TypeOK
  <2> QED BY <1>2, <2>4 DEF Remove, TypeOK
<1>3. CASE PutBack(r)
  <2>1. Last(r) \in Classes
    BY <1>3, LastIsAClass DEF PutBack
  <2>2. gen[Last(r)] \subseteq Pieces /\ aside[r][Last(r)] \subseteq Pieces
    BY <2>1 DEF TypeOK
  <2>3. /\ gen' \in [Classes -> SUBSET Pieces] /\ mishaps' \subseteq Classes
        /\ aside' \in [Requests -> [Classes -> SUBSET Pieces]]
    <3>1. \E p \in SUBSET Pieces : gen' = [gen EXCEPT ![Last(r)] = p]
      BY <1>3, <2>2 DEF PutBack
    <3>2. aside' = [aside EXCEPT ![r][Last(r)] = {}]
      BY <1>3 DEF PutBack
    <3>3. mishaps' \in {mishaps, mishaps \cup {Last(r)}}
      BY <1>3 DEF PutBack
    <3> QED BY <2>1, <3>1, <3>2, <3>3 DEF TypeOK
  <2>4. swapped' \in [Requests -> Seq(Classes)]
    <3>1. swapped[r] \in Seq(Classes) /\ swapped[r] # <<>>
      BY <1>3 DEF PutBack, TypeOK
    <3>2. SubSeq(swapped[r], 1, Len(swapped[r]) - 1) \in Seq(Classes)
      BY <3>1
    <3>3. swapped' = [swapped EXCEPT ![r] = SubSeq(swapped[r], 1, Len(swapped[r]) - 1)]
      BY <1>3 DEF PutBack
    <3> QED BY <3>2, <3>3 DEF TypeOK
  <2> QED BY <1>3, <2>3, <2>4 DEF PutBack, TypeOK
<1>4. CASE PutBackFails(r)
  <2>1. mishaps' \subseteq Classes
    BY <1>4, MovedAreClasses DEF PutBackFails, TypeOK
  <2> QED BY <1>0, <1>4, <2>1, NoneAssumption DEF PutBackFails, End, TypeOK
<1>5. CASE RolledBack(r)
  BY <1>0, <1>5, NoneAssumption DEF RolledBack, End, TypeOK
<1> QED BY <1>1, <1>2, <1>3, <1>4, <1>5

\* Pools, sessions, directories, backups and a hub that stops.
LEMMA SurroundingsKeep ==
  ASSUME IInv, OpenPool \/ OpenSession \/ (\E c \in Classes : Recreate(c)) \/ Backups \/ Crash
  PROVE  IInv'
<1> USE DEF IInv, MovesAClass, Turns, Closed, Copying, Attended, Working, Swapping, ThreadSteps,
            disk, job, work, base, making, history
<1>1. CASE OpenPool
  BY <1>1, OpeningFacts DEF OpenPool, TypeOK
<1>2. CASE OpenSession
  BY <1>2, OpeningFacts DEF OpenSession, TypeOK
<1>3. ASSUME NEW c \in Classes, Recreate(c) PROVE IInv'
  <2>1. gen' \in [Classes -> SUBSET Pieces]
    <3>1. {Empty} \in SUBSET Pieces
      BY DEF Pieces, Generations
    <3> QED BY <1>3, <3>1 DEF Recreate, TypeOK
  <2> QED BY <1>3, <2>1 DEF Recreate, TypeOK
<1>4. CASE Backups
  <2>1. CASE BackupStart
    <3>1. \A r \in Requests : ~Swapping(r)
      BY <2>1, NoneAssumption DEF BackupStart, TypeOK
    <3>2. copied' \in [Classes -> SUBSET Pieces]
      BY <2>1 DEF BackupStart
    <3> QED BY <2>1, <3>1, <3>2, BackupsAssumption DEF BackupStart, TypeOK
  <2>2. ASSUME NEW c \in Classes, BackupCopy(c) PROVE IInv'
    <3>1. copied' \in [Classes -> SUBSET Pieces]
      BY <2>2 DEF BackupCopy, TypeOK
    <3> QED BY <2>2, <3>1 DEF BackupCopy, TypeOK
  <2>3. CASE BackupEnd
    <3>1. \A r \in Requests : ~Swapping(r)
      BY <2>3, NoneAssumption DEF BackupEnd, TypeOK
    <3> QED BY <2>3, <3>1 DEF BackupEnd, TypeOK
  <2> QED BY <1>4, <2>1, <2>2, <2>3 DEF Backups
<1>5. CASE Crash
  <2>1. 1 \in 1 .. Len(Order) + 1 /\ <<>> \in Seq(Classes)
    BY OrderFacts
  <2>2. /\ at' \in [Requests -> 1 .. Len(Order) + 1] /\ swapped' \in [Requests -> Seq(Classes)]
        /\ staged' \in [Requests -> SUBSET Classes]
    BY <1>5, <2>1 DEF Crash
  <2> QED BY <1>5, <2>2 DEF Crash, TypeOK
<1> QED BY <1>1, <1>2, <1>3, <1>4, <1>5

\* Every step keeps the invariant.
LEMMA NextKeeps == IInv /\ [Next]_vars => IInv'
<1> SUFFICES ASSUME IInv, [Next]_vars PROVE IInv'
  OBVIOUS
<1>1. ASSUME NEW r \in Requests,
             Stage(r) \/ Quiesce(r) \/ Return(r) \/ Cancel(r) \/ Commit(r)
      PROVE  IInv'
  BY <1>1, RequestKeeps, SwapKeeps, EndKeeps DEF Commit
<1>2. CASE OpenPool \/ OpenSession \/ (\E c \in Classes : Recreate(c)) \/ Backups \/ Crash
  BY <1>2, SurroundingsKeep
<1>3. CASE UNCHANGED vars
  BY <1>3 DEF vars, disk, job, work, base, making, history, IInv, TypeOK, MovesAClass, Turns,
              Closed, Copying, Attended, Working, Swapping
<1> QED BY <1>1, <1>2, <1>3 DEF Next

\* The strengthened invariant holds in every reachable state, for any restores
\* and backups (routes/backup.py: restore_backup, _commit_restore).
THEOREM InductiveInvariant == Spec => []IInv
  BY InitIInv, NextKeeps, PTL DEF Spec

\* Every variable keeps its type, and a thread that swaps holds _BACKUP_LOCK
\* (routes/backup.py: _commit_restore).
THEOREM TypeCorrect == Spec => []TypeOK
<1>1. IInv => TypeOK
  BY DEF IInv
<1> QED BY <1>1, InductiveInvariant, PTL

\* "a concurrent request cannot lazily rebuild the pool that close_pool() tears
\* down while the files are being swapped" (routes/backup.py:461): for any restores
\* that follow one another, and any failures.
THEOREM PoolIsShutMidSwap == Spec => []PoolStaysShut
<1>1. IInv => PoolStaysShut
  BY DEF IInv, PoolStaysShut, Attended, Closed, Working
<1> QED BY <1>1, InductiveInvariant, PTL

-----------------------------------------------------------------------------
(* The data *)

\* Moving a class aside adds it to the classes that are aside.
LEMMA MoveOneMore ==
  ASSUME NEW S, NEW s \in Seq(S), NEW x \in S
  PROVE  /\ Elements(Append(s, x)) = Elements(s) \cup {x}
         /\ Distinct(s) /\ x \notin Elements(s) => Distinct(Append(s, x))
<1> DEFINE t == Append(s, x)
<1>1. /\ Len(s) \in Nat /\ Len(t) = Len(s) + 1 /\ t[Len(s) + 1] = x
      /\ \A i \in 1 .. Len(s) : t[i] = s[i]
  OBVIOUS
<1> HIDE DEF t
<1>2. Elements(t) = Elements(s) \cup {x}
  BY <1>1 DEF Elements
<1>3. ASSUME Distinct(s), x \notin Elements(s) PROVE Distinct(t)
  BY <1>1, <1>3 DEF Distinct, Elements
<1> QED BY <1>2, <1>3 DEF t

\* Without its last element, a sequence has that element less.
LEMMA PutLastBack ==
  ASSUME NEW S, NEW s \in Seq(S), s # <<>>, Distinct(s)
  PROVE  LET n == Len(s)
             t == SubSeq(s, 1, n - 1)
         IN  Distinct(t) /\ s[n] \in Elements(s) /\ Elements(t) = Elements(s) \ {s[n]}
<1> DEFINE n == Len(s)
           t == SubSeq(s, 1, n - 1)
<1>1. /\ n \in Nat /\ n >= 1 /\ Len(t) = n - 1
      /\ \A i \in 1 .. n - 1 : t[i] = s[i]
  <2>1. n \in Nat /\ n >= 1 /\ \A i \in 1 .. n : s[i] \in S
    OBVIOUS
  <2>2. 1 \in Int /\ n - 1 \in Int /\ \A i \in 1 .. n - 1 : s[i] \in S
    BY <2>1
  <2> HIDE DEF n
  <2>3. /\ Len(t) = IF 1 <= n - 1 THEN (n - 1) - 1 + 1 ELSE 0
        /\ \A i \in 1 .. (n - 1) - 1 + 1 : t[i] = s[1 + i - 1]
    BY <2>2, SubSeqProperties
  <2> HIDE DEF t
  <2>4. \A i \in 1 .. n - 1 : i \in 1 .. (n - 1) - 1 + 1 /\ 1 + i - 1 = i
    BY <2>1
  <2>5. \A i \in 1 .. n - 1 : t[i] = s[i]
    BY <2>3, <2>4
  <2> QED BY <2>1, <2>3, <2>5
<1> HIDE DEF t
<1>2. Distinct(t) /\ s[n] \in Elements(s) /\ Elements(t) = Elements(s) \ {s[n]}
  BY <1>1 DEF Distinct, Elements
<1> QED BY <1>2 DEF t

\* A thread that has not begun, or has put everything back, has moved nothing.
LEMMA NothingMoved ==
  /\ Distinct(<<>>)
  /\ \A r \in Requests : swapped[r] = <<>> => Moved(r) = {}
  BY DEF Moved, Distinct

\* What somebody makes where there is nothing is as good as nothing.
LEMMA MadeIsSame == \A wanted : Same({}, wanted) => Same({Empty}, wanted)
  BY DEF Same

\* Only the holder of _BACKUP_LOCK is at work on the data.
LEMMA OneSwaps ==
  ASSUME TypeOK
  PROVE  /\ \A r, q \in Requests : Swapping(r) /\ Swapping(q) => r = q
         /\ lock \notin Requests => AtRest
  BY DEF TypeOK, AtRest

\* While a thread is at work no other is, and no backup is made.
LEMMA AtWork ==
  ASSUME IInv, NEW r \in Requests, Swapping(r)
  PROVE  /\ \A q \in Requests \ {r} : ~Swapping(q)
         /\ pc[r] \notin {"idle", "staged"} /\ copied = None /\ ~AtRest
<1>1. lock = r
  BY DEF IInv, TypeOK
<1> QED BY <1>1, OneSwaps, NoneAssumption DEF IInv, Turns, Copying, Swapping, AtRest

\* The data's invariant holds at the start.
LEMMA InitDataInv == Init => DataInv
<1> SUFFICES ASSUME Init PROVE DataInv
  OBVIOUS
<1>1. /\ due.data = gen /\ due.key = Original /\ key = Original /\ copied = None
      /\ mishaps = {}
      /\ \A r \in Requests : /\ swapped[r] = <<>> /\ at[r] = 1 /\ thread[r] = "none"
                             /\ pc[r] = "idle" /\ \A c \in Classes : aside[r][c] = {}
  BY DEF Init
<1>2. MovedOnce /\ InPlace /\ Passed
  BY <1>1, NothingMoved DEF MovedOnce, InPlace, Passed, Swapping
<1>3. DueIsKept
  BY <1>1 DEF DueIsKept, Swapping, Same
<1>4. OriginalsKept
  BY <1>1 DEF OriginalsKept, Kept, Holds, Swapping
<1>5. BackupIsWhole
  BY <1>1 DEF BackupIsWhole
<1> QED BY <1>2, <1>3, <1>4, <1>5 DEF DataInv

\* The coroutine touches no data and no thread that is at work, except that a
\* cancelled one takes the staging directory away.
LEMMA RequestKeepsData ==
  ASSUME IInv, DataInv, NEW r \in Requests, Stage(r) \/ Quiesce(r) \/ Return(r) \/ Cancel(r)
  PROVE  DataInv'
<1>1. UNCHANGED <<gen, aside, key, at, swapped, archive, due, mishaps, crashed, copied>>
  BY DEF Stage, Quiesce, Return, Cancel, disk, job, work, making, history
<1>2. cancelled => cancelled'
  BY DEF Stage, Quiesce, Return, Cancel, history
<1>3. \A q \in Requests : /\ thread'[q] = thread[q] \/ (thread[q] = "none" /\ thread'[q] = "wait")
                          /\ Swapping(q)' <=> Swapping(q)
  <2>1. UNCHANGED thread \/ Quiesce(r)
    BY DEF Stage, Quiesce, Return, Cancel, work
  <2> QED BY <2>1 DEF Quiesce, IInv, TypeOK, Turns, Swapping
<1>4. \A q \in Requests : Moved(q)' = Moved(q) /\ Is(q)' = Is(q) /\ Last(q)' = Last(q)
  BY <1>1 DEF Moved, Is, Last
<1>5. \A q \in Requests : staged'[q] = staged[q] \/ staged'[q] = {} \/ (q = r /\ Stage(r))
  BY DEF Stage, Quiesce, Return, Cancel, Leave, IInv, TypeOK, job
<1>6. MovedOnce'
  <2>1. \A q \in Requests : pc'[q] \in {"idle", "staged"} \/ thread'[q] = "wait" =>
                              pc[q] \in {"idle", "staged"} \/ thread[q] = "wait"
    BY DEF IInv, TypeOK, Stage, Quiesce, Return, Cancel, Leave, work
  <2> QED BY <1>1, <1>3, <2>1 DEF DataInv, MovedOnce
<1>7. InPlace'
  <2>1. \A q \in Requests : Swapping(q) => staged'[q] \subseteq staged[q]
    BY <1>5 DEF Stage, IInv, Turns, Swapping
  <2> QED BY <1>1, <1>3, <1>4, <2>1 DEF DataInv, InPlace, Swapping
<1>8. Passed'
  <2>1. \A q \in Requests : \A i \in 1 .. at'[q] - 1 : Order[i] \notin staged'[q]
    <3>1. Stage(r) => at[r] = 1
      BY DEF DataInv, MovedOnce, Stage, IInv, Turns, Swapping
    <3> QED BY <1>1, <1>5, <3>1 DEF DataInv, Passed
  <2>2. \A q \in Requests : thread'[q] = "key" => at'[q] > Len(Order)
    BY <1>1, <1>3 DEF DataInv, Passed
  <2>3. ASSUME NEW q \in Requests, ~cancelled', pc'[q] = "staged" \/ thread'[q] = "wait"
        PROVE  staged'[q] = archive'[q]
    <3>1. ~cancelled
      BY <1>2, <2>3
    <3>2. CASE Stage(r)
      BY <1>1, <2>3, <3>1, <3>2 DEF DataInv, Passed, IInv, TypeOK, Stage, work, job
    <3>3. CASE Quiesce(r)
      BY <1>1, <2>3, <3>1, <3>3 DEF DataInv, Passed, IInv, TypeOK, Quiesce, job
    <3>4. CASE Return(r)
      BY <1>1, <2>3, <3>1, <3>4 DEF DataInv, Passed, IInv, TypeOK, Return, Leave, work
    <3>5. CASE Cancel(r)
      <4>1. pc[r] = "staged" /\ thread[r] = "none"
        BY <2>3, <3>1, <3>5 DEF Cancel, IInv, Turns
      <4> QED BY <1>1, <2>3, <3>1, <3>5, <4>1 DEF DataInv, Passed, IInv, TypeOK, Cancel, Leave, work
    <3> QED BY <3>2, <3>3, <3>4, <3>5
  <2>4. ASSUME NEW q \in Requests, ~cancelled', thread'[q] \in {"swap", "land", "key"}
        PROVE  staged'[q] \cup Moved(q)' = archive'[q]
    <3>1. staged'[q] = staged[q]
      BY <1>3, <2>4 DEF IInv, TypeOK, Turns, Stage, Quiesce, Return, Cancel, Leave, job, work
    <3>2. ~cancelled /\ thread[q] \in {"swap", "land", "key"}
      BY <1>2, <1>3, <2>4
    <3> QED BY <1>1, <1>4, <3>1, <3>2 DEF DataInv, Passed
  <2> QED BY <2>1, <2>2, <2>3, <2>4 DEF Passed
<1>9. DueIsKept'
  BY <1>1, <1>2, <1>3, <1>4 DEF DataInv, DueIsKept, AsideIsDue, AtRest
<1>10. OriginalsKept'
  <2>1. \A c \in Classes : Kept(c) => Kept(c)'
    BY <1>1, <1>3, <1>4 DEF Kept
  <2> QED BY <1>1, <1>3, <2>1 DEF DataInv, OriginalsKept
<1>11. BackupIsWhole'
  BY <1>1, <1>2 DEF DataInv, BackupIsWhole
<1> QED BY <1>6, <1>7, <1>8, <1>9, <1>10, <1>11 DEF DataInv

\* Taking the lock, passing a class and giving up leave the data as it is.
LEMMA QuietStepKeepsData ==
  ASSUME IInv, DataInv, NEW r \in Requests, TakeLock(r) \/ Skip(r) \/ Fail(r)
  PROVE  DataInv'
<1> USE DEF disk, job, base, making, history
<1>1. /\ UNCHANGED <<gen, aside, key, staged, archive, pc, swapped, due, mishaps,
                     cancelled, crashed, copied>>
      /\ \A q \in Requests \ {r} : thread'[q] = thread[q] /\ at'[q] = at[q]
      /\ \A q \in Requests : Moved(q)' = Moved(q) /\ Last(q)' = Last(q)
      /\ \A q \in Requests \ {r} : Is(q)' = Is(q)
  BY DEF TakeLock, Skip, Fail, Thread, IInv, TypeOK, Moved, Last, Is
<1>2. /\ Swapping(r) \/ (thread[r] = "wait" /\ AtRest /\ at'[r] = at[r] /\ Moved(r) = {})
      /\ thread'[r] \in {"swap", "rollback"} /\ Swapping(r)'
      /\ thread'[r] = "swap" => thread[r] \in {"wait", "swap"}
  <2>1. /\ Swapping(r) \/ (thread[r] = "wait" /\ lock = None /\ at'[r] = at[r])
        /\ thread'[r] \in {"swap", "rollback"}
        /\ thread'[r] = "swap" => thread[r] \in {"wait", "swap"}
    BY DEF TakeLock, Skip, Fail, Thread, IInv, TypeOK, Swapping
  <2>2. lock = None => AtRest
    BY OneSwaps, NoneAssumption DEF IInv
  <2>3. thread[r] = "wait" => Moved(r) = {}
    BY NothingMoved DEF DataInv, MovedOnce, Swapping
  <2> QED BY <2>1, <2>2, <2>3 DEF Swapping
<1>3. /\ \A q \in Requests \ {r} : ~Swapping(q) /\ ~Swapping(q)'
      /\ copied = None /\ pc[r] \notin {"idle", "staged"}
  <2>1. CASE Swapping(r)
    BY <1>1, <2>1, AtWork DEF Swapping
  <2>2. CASE TakeLock(r)
    BY <1>1, <1>2, <2>2, AtWork, NoneAssumption DEF TakeLock, AtRest, IInv, Copying, Turns, Swapping
  <2> QED BY <2>1, <2>2 DEF Skip, Fail, Swapping
<1>4. MovedOnce'
  BY <1>1, <1>2, <1>3 DEF DataInv, MovedOnce, Swapping
<1>5. InPlace'
  <2>1. \A c \in Classes \ Moved(r) : aside[r][c] = {}
    BY <1>2 DEF DataInv, InPlace, MovedOnce
  <2>2. thread'[r] = "swap" => /\ staged[r] \cap Moved(r) = {}
                               /\ \A c \in Moved(r) \ mishaps : gen[c] = {r}
    BY <1>2 DEF DataInv, InPlace, Swapping
  <2> QED BY <1>1, <1>2, <1>3, <2>1, <2>2 DEF InPlace
<1>6. Passed'
  <2>1. \A i \in 1 .. at'[r] - 1 : Order[i] \notin staged[r]
    <3>1. CASE Skip(r)
      <4>1. at'[r] = at[r] + 1 /\ Order[at[r]] \notin staged[r] /\ at[r] \in Nat
        BY <3>1, OrderFacts DEF Skip, Is, IInv, TypeOK
      <4>2. at'[r] - 1 = at[r] /\ \A i \in 1 .. at[r] : i = at[r] \/ i \in 1 .. at[r] - 1
        BY <4>1
      <4> QED BY <4>1, <4>2 DEF DataInv, Passed
    <3>2. CASE at'[r] = at[r]
      BY <3>2 DEF DataInv, Passed
    <3> QED BY <3>1, <3>2 DEF TakeLock, Fail
  <2>2. ASSUME ~cancelled, thread'[r] = "swap" PROVE staged[r] \cup Moved(r) = archive[r]
    BY <1>2, <2>2 DEF DataInv, Passed, Swapping
  <2> QED BY <1>1, <1>2, <1>3, <2>1, <2>2 DEF DataInv, Passed
<1>7. DueIsKept'
  <2>1. ~AtRest'
    BY <1>2 DEF AtRest
  <2>2. ASSUME ~cancelled, ~crashed
        PROVE  /\ AsideIsDue(r)
               /\ \A c \in (Classes \ Moved(r)) \ mishaps : Same(gen[c], due.data[c])
    BY <1>2, <2>2 DEF DataInv, DueIsKept, AsideIsDue
  <2> QED BY <1>1, <1>3, <2>1, <2>2 DEF DataInv, DueIsKept, AsideIsDue
<1>8. OriginalsKept'
  <2>1. \A c \in Classes : Kept(c) => Kept(c)'
    BY <1>1, <1>2, <1>3 DEF Kept
  <2>2. \A q \in Requests : thread[q] = "done" => thread'[q] = "done"
    BY <1>1, <1>2 DEF Swapping
  <2> QED BY <1>1, <2>1, <2>2 DEF DataInv, OriginalsKept
<1>9. BackupIsWhole'
  BY <1>1, <1>3 DEF BackupIsWhole
<1> QED BY <1>4, <1>5, <1>6, <1>7, <1>8, <1>9 DEF DataInv

\* A database made, torn or put without its log, and a directory made where there
\* was nothing, keep what is due: a torn one is among the mishaps, and holds what
\* it held.
LEMMA ReopeningKeepsData ==
  ASSUME IInv, DataInv, Reopens, Unlogs,
         UNCHANGED <<key, staged, archive, pc, at, swapped, copied, due, cancelled, crashed>>,
         \A q \in Requests : \/ thread'[q] = thread[q]
                             \/ thread[q] = "swap" /\ thread'[q] = "key" /\ at[q] > Len(Order)
  PROVE  DataInv'
<1>1. \A q \in Requests : /\ Swapping(q)' <=> Swapping(q)
                          /\ Moved(q)' = Moved(q) /\ Is(q)' = Is(q) /\ Last(q)' = Last(q)
                          /\ Moved(q) \subseteq Classes
  BY MovedAreClasses DEF Swapping, Moved, Is, Last, IInv
<1>2. \A c \in Classes \ mishaps' :
        c \notin mishaps /\ (gen'[c] = gen[c] \/ (gen[c] = {} /\ gen'[c] = {Empty}))
  BY DEF Reopens
<1>3. \A c \in Classes : Holds(gen[c], c) => Holds(gen'[c], c)
  BY DEF Reopens, Holds
<1>4. \A q \in Requests, c \in Classes : /\ aside'[q][c] = {} <=> aside[q][c] = {}
                                         /\ Holds(aside[q][c], c) => Holds(aside'[q][c], c)
  BY DEF Unlogs, Holds
<1>5. MovedOnce'
  BY <1>1, <1>4 DEF DataInv, MovedOnce
<1>6. InPlace'
  <2>1. SUFFICES ASSUME NEW r \in Requests, Swapping(r)
                 PROVE  /\ \A c \in Classes \ Moved(r) : aside'[r][c] = {}
                        /\ thread'[r] \in {"swap", "key"} =>
                             /\ staged[r] \cap Moved(r) = {}
                             /\ \A c \in Moved(r) \ mishaps' : gen'[c] = {r}
                        /\ thread'[r] = "land" =>
                             /\ Is(r) \in Moved(r) /\ staged[r] \cap Moved(r) \subseteq {Is(r)}
                             /\ Is(r) \notin mishaps' => gen'[Is(r)] \subseteq {Empty, Part}
                             /\ \A c \in (Moved(r) \ {Is(r)}) \ mishaps' : gen'[c] = {r}
                        /\ thread'[r] = "back" /\ Last(r) \notin mishaps'
                             /\ aside'[r][Last(r)] = {} => gen'[Last(r)] \subseteq {Empty}
    BY <1>1 DEF InPlace
  <2>2. \A c \in Classes \ Moved(r) : aside'[r][c] = {}
    BY <1>4, <2>1 DEF DataInv, InPlace
  <2>3. \A c \in Moved(r) \ mishaps' : gen[c] = {r} => gen'[c] = {r}
    BY <1>1, <1>2
  <2>4. CASE thread'[r] \in {"swap", "key"}
    BY <1>1, <1>2, <2>1, <2>2, <2>3, <2>4 DEF DataInv, InPlace
  <2>5. CASE thread'[r] = "land"
    <3>1. /\ Is(r) \in Moved(r) /\ staged[r] \cap Moved(r) \subseteq {Is(r)}
          /\ Is(r) \notin mishaps => gen[Is(r)] \subseteq {Empty, Part}
          /\ \A c \in (Moved(r) \ {Is(r)}) \ mishaps : gen[c] = {r}
      BY <2>1, <2>5 DEF DataInv, InPlace
    <3>2. Is(r) \notin mishaps' => gen'[Is(r)] \subseteq {Empty, Part}
      BY <1>1, <1>2, <3>1
    <3> QED BY <1>1, <1>2, <2>2, <2>3, <2>5, <3>1, <3>2
  <2>6. CASE thread'[r] = "back"
    <3>1. Last(r) \in Classes
      BY <2>6, LastIsAClass DEF IInv, MovesAClass
    <3>2. Last(r) \notin mishaps' /\ aside'[r][Last(r)] = {} => gen'[Last(r)] \subseteq {Empty}
      BY <1>2, <1>4, <2>1, <2>6, <3>1 DEF DataInv, InPlace
    <3> QED BY <2>2, <2>6, <3>2
  <2> QED BY <2>2, <2>4, <2>5, <2>6
<1>7. Passed'
  BY <1>1 DEF DataInv, Passed
<1>8. DueIsKept'
  <2>1. AtRest' <=> AtRest
    BY <1>1 DEF AtRest
  <2>2. \A c \in Classes \ mishaps' : Same(gen[c], due.data[c]) => Same(gen'[c], due.data[c])
    BY <1>2, MadeIsSame
  <2>3. ASSUME NEW r \in Requests, AsideIsDue(r) PROVE AsideIsDue(r)'
    BY <1>1, <1>2, <2>3 DEF AsideIsDue, Unlogs, Same
  <2> QED BY <1>1, <1>2, <2>1, <2>2, <2>3 DEF DataInv, DueIsKept
<1>9. OriginalsKept'
  <2>1. \A c \in Classes : Kept(c) => Kept(c)'
    BY <1>1, <1>3, <1>4 DEF Kept, Holds
  <2> QED BY <2>1 DEF DataInv, OriginalsKept
<1>10. BackupIsWhole'
  BY <1>2 DEF DataInv, BackupIsWhole
<1> QED BY <1>5, <1>6, <1>7, <1>8, <1>9, <1>10 DEF DataInv

\* So do a new pool, an ORM session, a directory made anew and the removal of the
\* sidecars.
LEMMA OpeningKeepsData ==
  ASSUME IInv, DataInv,
         \/ OpenPool \/ OpenSession \/ (\E c \in Classes : Recreate(c))
         \/ \E r \in Requests : DropSidecars(r)
  PROVE  DataInv'
<1> USE DEF IInv, disk, job, work, base, making, history
<1>1. CASE OpenPool
  BY <1>1, OpeningFacts, ReopeningKeepsData DEF OpenPool
<1>2. CASE OpenSession
  BY <1>2, OpeningFacts, ReopeningKeepsData DEF OpenSession
<1>3. ASSUME NEW c \in Classes, Recreate(c) PROVE DataInv'
  <2>1. Reopens /\ Unlogs
    BY <1>3 DEF Recreate, Reopens, Unlogs, TypeOK
  <2> QED BY <1>3, <2>1, ReopeningKeepsData DEF Recreate
<1>4. ASSUME NEW r \in Requests, DropSidecars(r) PROVE DataInv'
  <2>1. \A q \in Requests : \/ thread'[q] = thread[q]
                            \/ thread[q] = "swap" /\ thread'[q] = "key" /\ at[q] > Len(Order)
    BY <1>4 DEF DropSidecars, Thread, TypeOK
  <2> QED BY <1>4, <2>1, UnlinkingFacts, ReopeningKeepsData DEF DropSidecars
<1> QED BY <1>1, <1>2, <1>3, <1>4

\* A class is moved aside: it has not been moved before.
LEMMA MoveAsideKeepsData ==
  ASSUME IInv, DataInv, NEW r \in Requests, MoveAside(r)
  PROVE  DataInv'
<1> DEFINE k == Is(r)
<1> USE DEF disk, job, base, making, history
<1>1. /\ k \in Classes /\ k \in staged[r] /\ thread[r] = "swap" /\ thread'[r] = "land"
      /\ UNCHANGED <<key, job, pc, at, history, copied>>
      /\ \A q \in Requests : Is(q)' = Is(q)
      /\ Swapping(r) /\ Swapping(r)'
  BY OrderFacts DEF MoveAside, Is, Thread, IInv, TypeOK, Swapping
<1>2. \A q \in Requests \ {r} : /\ ~Swapping(q) /\ ~Swapping(q)' /\ thread'[q] = thread[q]
                                /\ swapped'[q] = swapped[q] /\ Moved(q)' = Moved(q)
                                /\ aside'[q] = aside[q]
  <2>1. \A q \in Requests \ {r} : ~Swapping(q)
    BY <1>1, AtWork
  <2>2. \A q \in Requests \ {r} : /\ thread'[q] = thread[q] /\ aside'[q] = aside[q]
                                  /\ swapped'[q] = swapped[q]
    BY DEF MoveAside, Thread, IInv, TypeOK
  <2> QED BY <2>1, <2>2 DEF Swapping, Moved
<1>3. /\ copied = None /\ pc[r] \notin {"idle", "staged"}
      /\ k \notin Moved(r) /\ aside[r][k] = {} /\ Moved(r) \subseteq Classes
  BY <1>1, AtWork, MovedAreClasses DEF DataInv, InPlace, IInv
<1> HIDE DEF k
<1>4. /\ gen'[k] = {} /\ \A c \in Classes \ {k} : gen'[c] = gen[c]
      /\ aside'[r][k] = gen[k] /\ \A c \in Classes \ {k} : aside'[r][c] = aside[r][c]
  BY <1>1 DEF MoveAside, IInv, TypeOK, k
<1>5. Moved(r)' = Moved(r) \cup {k} /\ Distinct(swapped'[r])
  <2>1. swapped'[r] = Append(swapped[r], k) /\ swapped[r] \in Seq(Classes)
    BY DEF MoveAside, k, IInv, TypeOK
  <2>2. Distinct(swapped[r]) /\ k \notin Elements(swapped[r])
    BY <1>3 DEF DataInv, MovedOnce, Moved, Elements
  <2>3. /\ Elements(Append(swapped[r], k)) = Elements(swapped[r]) \cup {k}
        /\ Distinct(Append(swapped[r], k))
    BY <1>1, <2>1, <2>2, MoveOneMore
  <2> QED BY <2>1, <2>3 DEF Moved, Elements
<1>6. MovedOnce'
  BY <1>1, <1>2, <1>3, <1>5 DEF DataInv, MovedOnce
<1>7. InPlace'
  <2>1. /\ \A c \in Classes \ Moved(r)' : aside'[r][c] = {}
        /\ \A c \in Moved(r) \ mishaps : gen[c] = {r} /\ gen'[c] = gen[c]
        /\ staged[r] \cap Moved(r) = {}
    BY <1>1, <1>3, <1>4, <1>5 DEF DataInv, InPlace
  <2>2. Is(r)' = k
    BY <1>1 DEF k
  <2> QED BY <1>1, <1>2, <1>4, <1>5, <2>1, <2>2 DEF InPlace
<1>8. Passed'
  BY <1>1, <1>2, <1>5 DEF DataInv, Passed
<1>9. DueIsKept'
  <2>1. ~AtRest'
    BY <1>1 DEF AtRest
  <2>2. ASSUME ~cancelled, ~crashed
        PROVE  /\ AsideIsDue(r)'
               /\ \A c \in (Classes \ Moved(r)') \ mishaps : Same(gen'[c], due.data[c])
    <3>1. /\ AsideIsDue(r)
          /\ \A c \in (Classes \ Moved(r)) \ mishaps : Same(gen[c], due.data[c])
      BY <1>1, <2>2 DEF DataInv, DueIsKept
    <3> QED BY <1>1, <1>3, <1>4, <1>5, <3>1 DEF AsideIsDue, Same
  <2> QED BY <1>1, <1>2, <2>1, <2>2 DEF DataInv, DueIsKept
<1>10. OriginalsKept'
  <2>1. ASSUME NEW c \in Classes, Kept(c) PROVE Kept(c)'
    <3>1. ASSUME NEW q \in Requests, Holds(aside[q][c], c) PROVE Holds(aside'[q][c], c)
      BY <1>2, <1>3, <1>4, <3>1 DEF Holds
    <3>2. CASE c = k /\ Holds(gen[c], c)
      BY <1>4, <3>2 DEF Kept, Holds
    <3>3. CASE /\ c # k /\ Holds(gen[c], c)
               /\ \A q \in Requests : Swapping(q) => c \notin Moved(q)
      BY <1>1, <1>2, <1>4, <1>5, <3>3 DEF Kept, Holds
    <3> QED BY <2>1, <3>1, <3>2, <3>3 DEF Kept, Holds
  <2> QED BY <1>1, <1>2, <2>1 DEF DataInv, OriginalsKept
<1>11. BackupIsWhole'
  BY <1>1, <1>3 DEF BackupIsWhole
<1> QED BY <1>6, <1>7, <1>8, <1>9, <1>10, <1>11 DEF DataInv

\* Whatever a thread puts where it moved something away, what is due stays aside.
LEMMA PlacingKeepsDue ==
  ASSUME IInv, DataInv, NEW r \in Requests, Swapping(r), Swapping(r)', NEW k \in Moved(r),
         \A c \in Classes \ {k} : gen'[c] = gen[c], mishaps \subseteq mishaps',
         \A q \in Requests \ {r} : thread'[q] = thread[q] /\ at'[q] = at[q],
         UNCHANGED <<aside, key, pc, swapped, copied, due, cancelled, crashed>>
  PROVE  /\ MovedOnce' /\ DueIsKept' /\ OriginalsKept' /\ BackupIsWhole'
         /\ \A q \in Requests \ {r} : ~Swapping(q)'
         /\ \A q \in Requests : Moved(q)' = Moved(q) /\ Last(q)' = Last(q)
         /\ pc[r] \notin {"idle", "staged"}
<1>1. /\ \A q \in Requests : Moved(q)' = Moved(q) /\ Last(q)' = Last(q)
      /\ \A q \in Requests \ {r} : ~Swapping(q) /\ ~Swapping(q)'
      /\ pc[r] \notin {"idle", "staged"} /\ copied = None
  <2>1. \A q \in Requests : Moved(q)' = Moved(q) /\ Last(q)' = Last(q)
    BY DEF Moved, Last
  <2>2. \A q \in Requests \ {r} : ~Swapping(q)'
    BY AtWork DEF Swapping
  <2> QED BY <2>1, <2>2, AtWork
<1>2. MovedOnce'
  BY <1>1 DEF DataInv, MovedOnce, Swapping
<1>3. DueIsKept'
  <2>1. ~AtRest'
    BY DEF AtRest
  <2>2. ASSUME ~cancelled, ~crashed
        PROVE  /\ AsideIsDue(r)'
               /\ \A c \in (Classes \ Moved(r)) \ mishaps' : Same(gen'[c], due.data[c])
    <3>1. /\ AsideIsDue(r)
          /\ \A c \in (Classes \ Moved(r)) \ mishaps : Same(gen[c], due.data[c])
      BY <2>2 DEF DataInv, DueIsKept
    <3> QED BY <1>1, <3>1 DEF AsideIsDue, Same
  <2> QED BY <1>1, <2>1, <2>2 DEF DataInv, DueIsKept
<1>4. OriginalsKept'
  <2>1. ASSUME NEW c \in Classes, Kept(c) PROVE Kept(c)'
    BY <1>1, <2>1 DEF Kept, Holds
  <2>2. \A q \in Requests : thread[q] = "done" => thread'[q] = "done"
    BY DEF Swapping
  <2> QED BY <2>1, <2>2 DEF DataInv, OriginalsKept
<1>5. BackupIsWhole'
  BY <1>1 DEF BackupIsWhole
<1> QED BY <1>1, <1>2, <1>3, <1>4, <1>5

\* The archive's class is on its way to where the live one was.
LEMMA LandPartKeepsData ==
  ASSUME IInv, DataInv, NEW r \in Requests, LandPart(r)
  PROVE  DataInv'
<1> DEFINE k == Is(r)
<1> USE DEF disk, job, work, base, making, history
<1>1. /\ k \in Classes /\ thread[r] = "land" /\ Swapping(r) /\ Swapping(r)'
      /\ UNCHANGED <<aside, key, job, pc, thread, at, swapped, copied, history>>
      /\ Is(r)' = k
      /\ gen' = [gen EXCEPT ![k] = IF k \in Folders THEN gen[k] \cup {Part} ELSE {Part}]
  BY OrderFacts DEF LandPart, Is, IInv, TypeOK, MovesAClass, Swapping
<1>2. k \in Moved(r) /\ k \notin mishaps => gen[k] \subseteq {Empty, Part}
  BY <1>1 DEF DataInv, InPlace
<1>3. k \in Moved(r)
  BY <1>1 DEF DataInv, InPlace
<1> HIDE DEF k
<1>4. gen'[k] \subseteq gen[k] \cup {Part} /\ \A c \in Classes \ {k} : gen'[c] = gen[c]
  BY <1>1 DEF IInv, TypeOK
<1>5. /\ MovedOnce' /\ DueIsKept' /\ OriginalsKept' /\ BackupIsWhole'
      /\ \A q \in Requests \ {r} : ~Swapping(q)'
      /\ \A q \in Requests : Moved(q)' = Moved(q) /\ Last(q)' = Last(q)
  BY <1>1, <1>3, <1>4, PlacingKeepsDue
<1>6. InPlace'
  <2>1. /\ \A c \in Classes \ Moved(r) : aside[r][c] = {}
        /\ staged[r] \cap Moved(r) \subseteq {k}
        /\ \A c \in (Moved(r) \ {k}) \ mishaps : gen[c] = {r}
    BY <1>1 DEF DataInv, InPlace, k
  <2>2. \A c \in (Moved(r) \ {k}) \ mishaps : gen'[c] = {r}
    BY <1>4, <2>1, MovedAreClasses DEF IInv
  <2> QED BY <1>1, <1>2, <1>3, <1>4, <1>5, <2>1, <2>2 DEF InPlace
<1>7. Passed'
  BY <1>1, <1>5 DEF DataInv, Passed
<1> QED BY <1>5, <1>6, <1>7 DEF DataInv

\* The archive's class lands where the live one was, and alone there or among the
\* mishaps.
LEMMA LandKeepsData ==
  ASSUME IInv, DataInv, NEW r \in Requests, Land(r)
  PROVE  DataInv'
<1> DEFINE k == Is(r)
           there == gen[k] \ {Part}
<1> USE DEF disk, job, base, making
<1>1. /\ k \in Classes /\ k \in staged[r] /\ thread[r] = "land" /\ thread'[r] = "swap"
      /\ Swapping(r) /\ Swapping(r)'
      /\ UNCHANGED <<key, aside, archive, pc, swapped, copied, due, cancelled, crashed>>
      /\ at[r] \in 1 .. Len(Order) /\ k = Order[at[r]] /\ at'[r] = at[r] + 1
      /\ staged'[r] = staged[r] \ {k}
      /\ \A q \in Requests \ {r} : /\ thread'[q] = thread[q] /\ at'[q] = at[q]
                                   /\ staged'[q] = staged[q]
  BY OrderFacts DEF Land, Is, Thread, IInv, TypeOK, MovesAClass, Swapping
<1>2. /\ gen' = [gen EXCEPT ![k] = IF k \in Folders THEN there \cup {r}
                                   ELSE IF Torn \in gen[k] THEN {Torn} ELSE {r}]
      /\ mishaps' = mishaps \cup {c \in Folders : c = k /\ there # {}}
  BY DEF Land
<1>3. k \in Moved(r) /\ (k \notin mishaps => gen[k] \subseteq {Empty, Part})
  BY <1>1 DEF DataInv, InPlace
<1>4. /\ k \notin mishaps' => gen'[k] = {r}
      /\ \A c \in Classes \ {k} : gen'[c] = gen[c]
      /\ mishaps \subseteq mishaps'
  <2>1. /\ gen'[k] = IF k \in Folders THEN there \cup {r}
                     ELSE IF Torn \in gen[k] THEN {Torn} ELSE {r}
        /\ \A c \in Classes \ {k} : gen'[c] = gen[c]
    BY <1>1, <1>2 DEF IInv, TypeOK
  <2>2. k \notin mishaps' => k \notin mishaps /\ (k \in Folders => there = {})
    BY <1>2
  <2>3. gen[k] \subseteq {Empty, Part} => Torn \notin gen[k]
    BY GenerationsAssumption
  <2> QED BY <1>2, <1>3, <2>1, <2>2, <2>3
<1> HIDE DEF k, there
<1>5. /\ MovedOnce' /\ DueIsKept' /\ OriginalsKept' /\ BackupIsWhole'
      /\ \A q \in Requests \ {r} : ~Swapping(q)'
      /\ \A q \in Requests : Moved(q)' = Moved(q) /\ Last(q)' = Last(q)
      /\ pc[r] \notin {"idle", "staged"}
  BY <1>1, <1>3, <1>4, PlacingKeepsDue
<1>6. InPlace'
  <2>1. /\ \A c \in Classes \ Moved(r) : aside[r][c] = {}
        /\ staged[r] \cap Moved(r) \subseteq {k}
        /\ \A c \in (Moved(r) \ {k}) \ mishaps : gen[c] = {r}
    BY <1>1 DEF DataInv, InPlace, k
  <2>2. \A c \in Moved(r) \ mishaps' : gen'[c] = {r}
    BY <1>4, <2>1, MovedAreClasses DEF IInv
  <2> QED BY <1>1, <1>5, <2>1, <2>2 DEF InPlace
<1>7. Passed'
  <2>1. \A i \in 1 .. at'[r] - 1 : Order[i] \notin staged'[r]
    <3>1. \A i \in 1 .. at'[r] - 1 : i = at[r] \/ i \in 1 .. at[r] - 1
      BY <1>1, OrderFacts
    <3> QED BY <1>1, <3>1 DEF DataInv, Passed
  <2>2. ~cancelled => staged'[r] \cup Moved(r) = archive[r]
    BY <1>1, <1>3 DEF DataInv, Passed
  <2> QED BY <1>1, <1>5, <2>1, <2>2 DEF DataInv, Passed
<1> QED BY <1>5, <1>6, <1>7 DEF DataInv

\* What was landed is removed; a mishap if it was not and nothing was there before.
LEMMA RemoveKeepsData ==
  ASSUME IInv, DataInv, NEW r \in Requests, Remove(r)
  PROVE  DataInv'
<1> DEFINE k == Last(r)
<1> USE DEF disk, job, base, making
<1>1. /\ k \in Classes /\ k \in Moved(r) /\ thread[r] = "rollback" /\ thread'[r] = "back"
      /\ Swapping(r) /\ Swapping(r)'
      /\ UNCHANGED <<key, aside, staged, archive, pc, at, swapped, copied, due, cancelled, crashed>>
      /\ \A q \in Requests \ {r} : thread'[q] = thread[q]
  <2>1. k \in Classes
    BY LastIsAClass DEF Remove, IInv
  <2>2. k \in Moved(r)
    <3>1. swapped[r] \in Seq(Classes) /\ swapped[r] # <<>>
      BY DEF Remove, IInv, TypeOK
    <3>2. Len(swapped[r]) \in 1 .. Len(swapped[r])
      BY <3>1
    <3> QED BY <3>2 DEF Moved, Last
  <2> QED BY <2>1, <2>2 DEF Remove, Thread, IInv, TypeOK, Swapping
<1>2. PICK left : /\ gen' = [gen EXCEPT ![k] = left]
                  /\ mishaps' = mishaps \cup {c \in {k} : left # {} /\ aside[r][c] = {}}
  BY DEF Remove
<1>3. /\ \A c \in Classes \ {k} : gen'[c] = gen[c]
      /\ mishaps \subseteq mishaps'
      /\ k \notin mishaps' /\ aside[r][k] = {} => gen'[k] \subseteq {Empty}
  BY <1>1, <1>2 DEF IInv, TypeOK
<1> HIDE DEF k
<1>4. /\ MovedOnce' /\ DueIsKept' /\ OriginalsKept' /\ BackupIsWhole'
      /\ \A q \in Requests \ {r} : ~Swapping(q)'
      /\ \A q \in Requests : Moved(q)' = Moved(q) /\ Last(q)' = Last(q)
      /\ pc[r] \notin {"idle", "staged"}
  BY <1>1, <1>3, PlacingKeepsDue
<1>5. InPlace'
  <2>1. \A c \in Classes \ Moved(r) : aside[r][c] = {}
    BY <1>1 DEF DataInv, InPlace
  <2> QED BY <1>1, <1>3, <1>4, <2>1 DEF InPlace, k
<1>6. Passed'
  BY <1>1, <1>4 DEF DataInv, Passed
<1> QED BY <1>4, <1>5, <1>6 DEF DataInv

\* A thread that ends leaves nothing to swap or to pass.
LEMMA EndLeavesNothing ==
  ASSUME IInv, DataInv, NEW r \in Requests, NEW step \in {"done", "failed"},
         Swapping(r), End(r, step), UNCHANGED <<pc, archive>>,
         cancelled' = cancelled,
         \A q \in Requests \ {r} : aside'[q] = aside[q]
  PROVE  /\ MovedOnce' /\ InPlace' /\ Passed' /\ AtRest'
         /\ \A q \in Requests \ {r} : ~Swapping(q) /\ thread'[q] = thread[q]
         /\ thread'[r] = step /\ copied = None
<1>1. /\ thread'[r] = step /\ at'[r] = 1 /\ swapped'[r] = <<>> /\ staged'[r] = {}
      /\ \A q \in Requests \ {r} : /\ thread'[q] = thread[q] /\ at'[q] = at[q]
                                   /\ swapped'[q] = swapped[q] /\ staged'[q] = staged[q]
                                   /\ Moved(q)' = Moved(q)
  <2>1. /\ thread'[r] = step /\ at'[r] = 1 /\ staged'[r] = {}
        /\ \A q \in Requests \ {r} : thread'[q] = thread[q] /\ at'[q] = at[q] /\ staged'[q] = staged[q]
    BY DEF End, Thread, IInv, TypeOK
  <2>2. swapped'[r] = <<>> /\ \A q \in Requests \ {r} : swapped'[q] = swapped[q]
    BY DEF End, IInv, TypeOK
  <2> QED BY <2>1, <2>2 DEF Moved
<1>2. /\ \A q \in Requests \ {r} : ~Swapping(q)
      /\ pc[r] \notin {"idle", "staged"} /\ copied = None
  BY AtWork
<1>3. AtRest'
  BY <1>1, <1>2 DEF AtRest, Swapping
<1>4. MovedOnce'
  BY <1>1, <1>2, NothingMoved DEF DataInv, MovedOnce, Swapping
<1>5. InPlace'
  BY <1>3 DEF InPlace, AtRest
<1>6. Passed'
  BY <1>1, <1>2 DEF DataInv, Passed
<1> QED BY <1>1, <1>2, <1>3, <1>4, <1>5, <1>6

\* Everything is swapped and the key adopted: the restore counts.
LEMMA FinishKeepsData ==
  ASSUME IInv, DataInv, NEW r \in Requests, Finish(r)
  PROVE  DataInv'
<1>1. /\ thread[r] = "key" /\ Swapping(r) /\ End(r, "done")
      /\ UNCHANGED <<gen, archive, portable, pc, copied, mishaps, cancelled, crashed>>
      /\ \A q \in Requests \ {r} : aside'[q] = aside[q]
      /\ key' = (IF portable[r] THEN r ELSE key)
      /\ due'.key = (IF portable[r] THEN r ELSE due.key)
      /\ \A c \in Classes : due'.data[c] = IF c \in archive[r] THEN {r} ELSE due.data[c]
  BY DEF Finish, Swapping, IInv, TypeOK, making
<1>2. /\ MovedOnce' /\ InPlace' /\ Passed' /\ AtRest' /\ thread'[r] = "done" /\ copied' = None
  BY <1>1, EndLeavesNothing
<1>3. DueIsKept'
  <2>1. SUFFICES ASSUME ~cancelled, ~crashed
                 PROVE  /\ key' = due'.key
                        /\ \A c \in Classes \ mishaps : Same(gen[c], due'.data[c])
    BY <1>1, <1>2 DEF DueIsKept, AtRest
  <2>2. key' = due'.key
    BY <1>1, <2>1 DEF DataInv, DueIsKept
  <2>3. staged[r] = {}
    <3>1. \A c \in Classes : \E i \in 1 .. at[r] - 1 : c = Order[i]
      <4>1. at[r] > Len(Order) /\ at[r] \in Nat /\ DOMAIN Order = 1 .. Len(Order)
        BY <1>1, OrderAssumption, OrderFacts DEF DataInv, Passed, IInv, TypeOK
      <4> QED BY <4>1, OrderFacts DEF Classes
    <3>2. \A i \in 1 .. at[r] - 1 : Order[i] \notin staged[r]
      BY DEF DataInv, Passed
    <3>3. staged[r] \subseteq Classes
      BY DEF IInv, TypeOK
    <3> QED BY <3>1, <3>2, <3>3
  <2>4. Moved(r) = archive[r]
    BY <1>1, <2>1, <2>3 DEF DataInv, Passed
  <2>5. ASSUME NEW c \in Classes \ mishaps PROVE Same(gen[c], due'.data[c])
    <3>1. CASE c \in archive[r]
      <4>1. gen[c] = {r}
        BY <1>1, <2>4, <3>1 DEF DataInv, InPlace
      <4> QED BY <1>1, <3>1, <4>1 DEF Same
    <3>2. CASE c \notin archive[r]
      BY <1>1, <2>1, <2>4, <3>2 DEF DataInv, DueIsKept
    <3> QED BY <3>1, <3>2
  <2> QED BY <2>2, <2>5
<1>4. OriginalsKept'
  BY <1>2 DEF OriginalsKept
<1>5. BackupIsWhole'
  BY <1>2 DEF BackupIsWhole
<1> QED BY <1>2, <1>3, <1>4, <1>5 DEF DataInv

\* The rollback ends: nothing is left to put back, or what is stays aside, and
\* its classes are mishaps.
LEMMA RollbackEndsKeepData ==
  ASSUME IInv, DataInv, NEW r \in Requests, PutBackFails(r) \/ RolledBack(r)
  PROVE  DataInv'
<1>1. /\ Swapping(r) /\ End(r, "failed")
      /\ UNCHANGED <<gen, aside, key, archive, pc, copied, due, cancelled, crashed>>
      /\ mishaps \cup Moved(r) \subseteq mishaps'
  BY NothingMoved DEF PutBackFails, RolledBack, Swapping, disk, making, history
<1>2. /\ MovedOnce' /\ InPlace' /\ Passed' /\ AtRest' /\ thread'[r] = "failed" /\ copied' = None
      /\ \A q \in Requests \ {r} : thread'[q] = thread[q]
  BY <1>1, EndLeavesNothing
<1>3. DueIsKept'
  <2>1. ASSUME ~cancelled, ~crashed, NEW c \in Classes \ mishaps' PROVE Same(gen[c], due.data[c])
    BY <1>1, <2>1 DEF DataInv, DueIsKept
  <2> QED BY <1>1, <1>2, <2>1 DEF DataInv, DueIsKept, AtRest
<1>4. OriginalsKept'
  <2>1. ASSUME NEW c \in Classes, Kept(c) PROVE Kept(c)'
    BY <1>1, <1>2, <2>1 DEF Kept, Holds, AtRest
  <2> QED BY <1>1, <1>2, <2>1 DEF DataInv, OriginalsKept, Swapping
<1>5. BackupIsWhole'
  BY <1>2 DEF BackupIsWhole
<1> QED BY <1>2, <1>3, <1>4, <1>5 DEF DataInv

\* What was moved last is put back: as it was, or among the mishaps.
LEMMA PutBackKeepsData ==
  ASSUME IInv, DataInv, NEW r \in Requests, PutBack(r)
  PROVE  DataInv'
<1> DEFINE n == Len(swapped[r])
           k == swapped[r][n]
           was == aside[r][k]
           rest == SubSeq(swapped[r], 1, n - 1)
<1> USE DEF disk, job, base, making
<1>1. /\ thread[r] = "back" /\ thread'[r] = "rollback" /\ Swapping(r) /\ Swapping(r)'
      /\ UNCHANGED <<key, staged, archive, pc, at, copied, due, cancelled, crashed>>
      /\ k = Last(r) /\ k \in Classes
      /\ swapped[r] # <<>> /\ swapped[r] \in Seq(Classes)
  BY LastIsAClass DEF PutBack, Thread, IInv, TypeOK, MovesAClass, Swapping, Last
<1>2. /\ gen' = [gen EXCEPT ![k] = IF k \in Folders \/ was = {} THEN gen[k] \cup was ELSE was]
      /\ mishaps' = IF was # {} /\ ((k \in Folders /\ gen[k] # {}) \/ was = {Torn})
                    THEN mishaps \cup {k} ELSE mishaps
      /\ aside' = [aside EXCEPT ![r][k] = {}]
      /\ swapped' = [swapped EXCEPT ![r] = rest]
      /\ \A q \in Requests \ {r} : thread'[q] = thread[q]
  BY DEF PutBack, Last, Thread, IInv, TypeOK
<1>3. Distinct(rest) /\ k \in Moved(r) /\ Elements(rest) = Moved(r) \ {k} /\ Moved(r) \subseteq Classes
  <2>1. Distinct(swapped[r])
    BY DEF DataInv, MovedOnce
  <2> QED BY <1>1, <2>1, PutLastBack, MovedAreClasses DEF Moved, Elements, IInv
<1>4. /\ \A q \in Requests \ {r} : ~Swapping(q) /\ ~Swapping(q)'
      /\ pc[r] \notin {"idle", "staged"} /\ copied = None
  BY <1>1, <1>2, AtWork DEF Swapping
<1>5. k \notin mishaps /\ was = {} => gen[k] \subseteq {Empty}
  BY <1>1 DEF DataInv, InPlace
<1> HIDE DEF k, rest, was
<1>6. /\ gen'[k] = (IF k \in Folders \/ was = {} THEN gen[k] \cup was ELSE was)
      /\ \A c \in Classes \ {k} : gen'[c] = gen[c]
      /\ aside'[r][k] = {} /\ \A c \in Classes \ {k} : aside'[r][c] = aside[r][c]
      /\ \A q \in Requests \ {r} : aside'[q] = aside[q] /\ swapped'[q] = swapped[q]
                                   /\ Moved(q)' = Moved(q)
      /\ swapped'[r] = rest /\ Moved(r)' = Moved(r) \ {k}
      /\ mishaps \subseteq mishaps'
  <2>1. swapped'[r] = rest /\ \A q \in Requests \ {r} : swapped'[q] = swapped[q]
    BY <1>2 DEF IInv, TypeOK
  <2>2. /\ Moved(r)' = Moved(r) \ {k}
        /\ \A q \in Requests \ {r} : Moved(q)' = Moved(q)
    <3>1. Moved(r)' = Elements(rest)
      BY <2>1 DEF Moved, Elements
    <3>2. \A q \in Requests \ {r} : Moved(q)' = Moved(q)
      BY <2>1 DEF Moved
    <3> QED BY <1>3, <3>1, <3>2
  <2> QED BY <1>1, <1>2, <2>1, <2>2 DEF IInv, TypeOK
<1>7. was = aside[r][k]
  BY DEF was
<1>8. MovedOnce'
  BY <1>1, <1>2, <1>3, <1>4, <1>6 DEF DataInv, MovedOnce, Swapping
<1>9. InPlace'
  <2>1. \A c \in Classes \ Moved(r)' : aside'[r][c] = {}
    BY <1>1, <1>3, <1>6 DEF DataInv, InPlace
  <2> QED BY <1>1, <1>4, <2>1 DEF InPlace
<1>10. Passed'
  BY <1>1, <1>2, <1>4, <1>6 DEF DataInv, Passed
<1>11. DueIsKept'
  <2>1. SUFFICES ASSUME ~cancelled, ~crashed
                 PROVE  /\ AsideIsDue(r)'
                        /\ \A c \in (Classes \ Moved(r)') \ mishaps' : Same(gen'[c], due.data[c])
    <3>1. ~AtRest'
      BY <1>1 DEF AtRest
    <3> QED BY <1>1, <1>4, <2>1, <3>1 DEF DataInv, DueIsKept
  <2>2. /\ AsideIsDue(r)
        /\ \A c \in (Classes \ Moved(r)) \ mishaps : Same(gen[c], due.data[c])
    BY <1>1, <2>1 DEF DataInv, DueIsKept
  <2>3. AsideIsDue(r)'
    BY <1>1, <1>3, <1>6, <2>2 DEF AsideIsDue, Same
  <2>4. k \notin mishaps' => Same(gen'[k], due.data[k])
    <3>1. SUFFICES ASSUME k \notin mishaps' PROVE Same(gen'[k], due.data[k])
      OBVIOUS
    <3>2. k \notin mishaps /\ (Same(was, due.data[k]) \/ was = {Torn})
      BY <1>3, <1>6, <1>7, <2>2, <3>1 DEF AsideIsDue
    <3>3. CASE was = {}
      BY <1>5, <1>6, <3>2, <3>3 DEF Same
    <3>4. CASE was # {}
      <4>1. was # {Torn} /\ (k \in Folders => gen[k] = {})
        BY <1>2, <3>1, <3>4
      <4> QED BY <1>6, <3>2, <3>4, <4>1 DEF Same
    <3> QED BY <3>3, <3>4
  <2> QED BY <1>3, <1>6, <2>2, <2>3, <2>4
<1>12. OriginalsKept'
  <2>1. ASSUME NEW c \in Classes, Kept(c) PROVE Kept(c)'
    <3>1. ASSUME NEW q \in Requests \ {r}, Holds(aside[q][c], c) PROVE Kept(c)'
      BY <1>6, <3>1 DEF Kept, Holds
    <3>2. CASE Holds(aside[r][c], c) /\ c # k
      BY <1>6, <3>2 DEF Kept, Holds
    <3>3. CASE Holds(aside[r][c], c) /\ c = k
      <4>1. Holds(gen'[c], c)
        BY <1>6, <1>7, <3>3 DEF Holds
      <4> QED BY <1>4, <1>6, <3>3, <4>1 DEF Kept, Holds
    <3>4. CASE Holds(gen[c], c) /\ \A q \in Requests : Swapping(q) => c \notin Moved(q)
      <4>1. c # k
        BY <1>1, <1>3, <3>4
      <4>2. Holds(gen'[c], c)
        BY <1>6, <3>4, <4>1 DEF Holds
      <4> QED BY <1>1, <1>4, <1>6, <3>4, <4>2 DEF Kept, Holds
    <3> QED BY <2>1, <3>1, <3>2, <3>3, <3>4 DEF Kept
  <2> QED BY <1>1, <1>2, <2>1 DEF DataInv, OriginalsKept
<1>13. BackupIsWhole'
  BY <1>1, <1>4 DEF BackupIsWhole
<1> QED BY <1>8, <1>9, <1>10, <1>11, <1>12, <1>13 DEF DataInv

\* A backup copies what no thread is swapping.
LEMMA BackupsKeepData ==
  ASSUME IInv, DataInv, Backups
  PROVE  DataInv'
<1> USE DEF disk, job, work, base, making, history
<1>1. UNCHANGED <<disk, job, pc, work, history>>
  BY DEF Backups, BackupStart, BackupCopy, BackupEnd
<1>2. \A q \in Requests : /\ Moved(q)' = Moved(q) /\ Is(q)' = Is(q) /\ Last(q)' = Last(q)
                          /\ Swapping(q)' = Swapping(q)
  BY <1>1 DEF Moved, Is, Last, Swapping
<1>3. MovedOnce' /\ Passed' /\ InPlace'
  BY <1>1, <1>2 DEF DataInv, MovedOnce, Passed, InPlace
<1>4. DueIsKept' /\ OriginalsKept'
  <2>1. AtRest' <=> AtRest
    BY <1>2 DEF AtRest
  <2>2. \A c \in Classes : Kept(c) => Kept(c)'
    BY <1>1, <1>2 DEF Kept
  <2> QED BY <1>1, <1>2, <2>1, <2>2 DEF DataInv, DueIsKept, AsideIsDue, OriginalsKept
<1>5. BackupIsWhole'
  <2>1. CASE BackupStart
    BY <2>1 DEF BackupStart, BackupIsWhole
  <2>2. ASSUME NEW c \in Classes, BackupCopy(c) PROVE BackupIsWhole'
    <3>1. copied # None /\ copied' = [copied EXCEPT ![c] = gen[c]]
      BY <2>2 DEF BackupCopy
    <3>2. AtRest
      BY <3>1, NoneAssumption, OneSwaps DEF IInv, Copying
    <3>3. ASSUME ~cancelled, ~crashed, NEW d \in Classes \ mishaps
          PROVE  copied'[d] = {} \/ Same(copied'[d], due.data[d])
      <4>1. Same(gen[d], due.data[d])
        BY <3>2, <3>3 DEF DataInv, DueIsKept
      <4>2. copied[d] = {} \/ Same(copied[d], due.data[d])
        BY <3>1, <3>3 DEF DataInv, BackupIsWhole
      <4>3. copied \in [Classes -> SUBSET Pieces]
        BY <3>1 DEF IInv, TypeOK
      <4> QED BY <3>1, <4>1, <4>2, <4>3
    <3> QED BY <1>1, <3>3 DEF BackupIsWhole
  <2>3. CASE BackupEnd
    BY <2>3 DEF BackupEnd, BackupIsWhole
  <2> QED BY <2>1, <2>2, <2>3 DEF Backups
<1> QED BY <1>3, <1>4, <1>5 DEF DataInv

\* After a crash no thread is at work, and what was aside is where it was.
LEMMA CrashKeepsData ==
  ASSUME IInv, DataInv, Crash
  PROVE  DataInv'
<1> USE DEF disk, job, work, base, making, history
<1>1. /\ UNCHANGED <<gen, aside, key, archive, due>> /\ crashed' /\ copied' = None
      /\ \A q \in Requests : /\ ~Swapping(q)' /\ staged'[q] = {}
                             /\ swapped'[q] = <<>> /\ at'[q] = 1
                             /\ thread'[q] \in {"done", "failed", "none"}
                             /\ thread[q] = "done" => thread'[q] = "done"
                             /\ pc'[q] # "staged" /\ (pc'[q] = "idle" => pc[q] = "idle")
  BY DEF Crash, Swapping, IInv, TypeOK
<1>2. MovedOnce' /\ InPlace' /\ Passed'
  BY <1>1, NothingMoved DEF DataInv, MovedOnce, InPlace, Passed
<1>3. DueIsKept' /\ BackupIsWhole'
  BY <1>1 DEF DueIsKept, BackupIsWhole
<1>4. OriginalsKept'
  <2>1. \A c \in Classes : Kept(c) => Kept(c)'
    BY <1>1 DEF Kept
  <2> QED BY <1>1, <2>1 DEF DataInv, OriginalsKept
<1> QED BY <1>2, <1>3, <1>4 DEF DataInv

\* Every step keeps the data's invariant.
LEMMA NextKeepsData == IInv /\ DataInv /\ [Next]_vars => DataInv'
<1> SUFFICES ASSUME IInv, DataInv, [Next]_vars PROVE DataInv'
  OBVIOUS
<1>1. ASSUME NEW r \in Requests, Stage(r) \/ Quiesce(r) \/ Return(r) \/ Cancel(r)
      PROVE  DataInv'
  BY <1>1, RequestKeepsData
<1>2. ASSUME NEW r \in Requests, Commit(r) PROVE DataInv'
  BY <1>2, QuietStepKeepsData, MoveAsideKeepsData, LandPartKeepsData, LandKeepsData,
     OpeningKeepsData, FinishKeepsData, RemoveKeepsData, PutBackKeepsData,
     RollbackEndsKeepData DEF Commit
<1>3. CASE OpenPool \/ OpenSession \/ (\E c \in Classes : Recreate(c)) \/ Backups \/ Crash
  BY <1>3, OpeningKeepsData, BackupsKeepData, CrashKeepsData
<1>4. CASE UNCHANGED vars
  <2>1. \A c \in Classes : Kept(c) => Kept(c)'
    BY <1>4 DEF vars, disk, work, Kept, Swapping, Moved
  <2> QED BY <1>4, <2>1 DEF vars, disk, job, work, base, making, history, DataInv, MovedOnce,
                            InPlace, Passed, DueIsKept, AsideIsDue, OriginalsKept, BackupIsWhole,
                            AtRest, Swapping, Moved, Is, Last
<1> QED BY <1>1, <1>2, <1>3, <1>4 DEF Next

\* In every reachable state, whatever steps of a swap or of its rollback fail and
\* whoever opens the database or makes a directory meanwhile: outside the mishaps
\* what is due is live or aside with the thread at work, and also within them an
\* original is where no removal takes it (routes/backup.py: _commit_restore).
THEOREM DataIsKept == Spec => []DataInv
<1>1. Init => DataInv
  BY InitDataInv
<1>2. IInv /\ DataInv /\ [Next]_vars => DataInv'
  BY NextKeepsData
<1> QED BY <1>1, <1>2, InductiveInvariant, PTL DEF Spec

\* A restore is all or nothing, for any archives and any order of the classes: once
\* no thread is at work, whichever step of the swap failed, each class outside the
\* mishaps is what the finished restores make of it and the adopted key is theirs;
\* unless a request was cancelled or the hub stopped.  The mishaps are the classes
\* moved into a directory that was there, those whose removal or move back failed
\* in the rollback with all that were still to be put back, and a database that met
\* another's log or lost its own (routes/backup.py: _commit_restore, its rollback).
THEOREM RestoresAreWhole == Spec => []RestoreIsWhole
<1>1. DataInv => RestoreIsWhole
  BY DEF DataInv, DueIsKept, RestoreIsWhole
<1> QED BY <1>1, DataIsKept, PTL

\* Also when a request is cancelled, the hub stops or the rollback itself fails,
\* nothing that was there before is gone until a restore has finished: it is live,
\* perhaps beside what took its place, or aside; the database perhaps without what
\* only its log had (routes/backup.py: the moves of _commit_restore).
THEOREM OriginalsAreKept == Spec => []OriginalsSurvive
<1>1. DataInv => OriginalsSurvive
  BY DEF DataInv, OriginalsKept, Kept, Holds, OriginalsSurvive
<1> QED BY <1>1, DataIsKept, PTL

\* What a backup has copied outside the mishaps is what the restores finished
\* before it began made of the data (routes/backup.py:359, services/backups.py:
\* create_backup_sync).
THEOREM BackupsAreOfOneMoment == Spec => []BackupIsWhole
<1>1. DataInv => BackupIsWhole
  BY DEF DataInv
<1> QED BY <1>1, DataIsKept, PTL
=============================================================================
