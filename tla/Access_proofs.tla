---------------------------- MODULE Access_proofs ----------------------------
(***************************************************************************)
(* For any number of requests, sessions and password changes: Access is    *)
(* type correct, an enrolment holds, and a socket is told when its session *)
(* is deleted under it and only then.                                      *)
(*                                                                         *)
(* An enrolment ends by evicting every session, and a step-up that had     *)
(* found the second factor off may still be about to mark its session as   *)
(* verified by password alone.  It marks nothing, because its session is   *)
(* gone (LateStepUps) and no session is ever made again (IssuedOnce,       *)
(* SidsAreIssued).  That is also why what a deletion has noted down can be *)
(* announced awaits later: the sessions are still gone (GoneForGood).      *)
(***************************************************************************)
EXTENDS Access, TLAPS

\* Which operations are found at which await.
OpAt ==
  \A t \in Tasks :
    /\ pc[t] \in {"session", "user", "enabled", "verified"} => op[t] \notin {"login", "toggle"}
    /\ pc[t] = "ask" => op[t] \in {"login", "stepup"}
    /\ pc[t] = "otp" => op[t] \in {"login", "stepup", "confirm", "disable"}
    /\ pc[t] = "otp" /\ op[t] = "stepup" => factor[t]
    /\ pc[t] = "issue" => op[t] \in {"login", "confirm"}
    /\ pc[t] = "mark" => op[t] \in {"login", "confirm", "stepup"}
    /\ pc[t] = "mark" /\ op[t] = "login" => factor[t]

\* A task's session exists only once the task has made it.
IssuedOnce == \A t \in Tasks : t \in sessions => pc[t] \in {"mark", "over"}

\* A token names a session that was made before it was presented.
SidsAreIssued ==
  \A t \in Tasks : pc[t] # "unsent" /\ sid[t] \in Tasks => pc[sid[t]] \in {"mark", "over"}

\* A step-up without a code that outlives an enrolment has lost its session.
LateStepUps ==
  enrolled => \A t \in Tasks :
                pc[t] = "mark" /\ op[t] = "stepup" /\ ~factor[t] => sid[t] \notin sessions

\* A socket is opened once.
OpenedOnce == \A w \in early : pc[w] \in {"open", "over"}

\* A deleted session is not made again, and its maker has made it.
GoneForGood ==
  \A t \in Tasks : /\ gone[t] \cap sessions = {}
                   /\ \A u \in gone[t] \cap Tasks : pc[u] \in {"mark", "over"}

TellInv == OpenedOnce /\ GoneForGood /\ RevokedAreTold

IInv == TypeOK /\ OpAt /\ IssuedOnce /\ SidsAreIssued /\ LateStepUps /\ EnrolmentHolds

-----------------------------------------------------------------------------
(* The invariant is inductive *)

LEMMA InitIInv == Init => IInv
<1> SUFFICES ASSUME Init PROVE IInv
  OBVIOUS
<1>1. TypeOK
  <2>1. pw \in 0 .. MaxPw /\ by \in [Sids -> 0 .. MaxPw] /\ typed \in [Tasks -> 0 .. MaxPw]
    BY MaxPwAssumption DEF Init
  <2>2. /\ active \in BOOLEAN /\ enrolled \in BOOLEAN
        /\ factor \in [Tasks -> BOOLEAN] /\ gone \in [Tasks -> SUBSET Sids]
        /\ sessions \subseteq Sids /\ sid \in [Tasks -> Sids \cup {None}]
    BY DEF Init, Sids
  <2> QED BY <2>1, <2>2 DEF Init, TypeOK, Ops
<1>2. \A t \in Tasks : pc[t] = "unsent" /\ t \notin sessions
  BY DisjointAssumption DEF Init
<1>3. enrolled = FALSE
  BY DEF Init
<1> QED BY <1>1, <1>2, <1>3 DEF IInv, OpAt, IssuedOnce, SidsAreIssued, LateStepUps, EnrolmentHolds

\* A task that only moves on, to an await its operation has.
LEMMA MovingKeeps ==
  ASSUME IInv, NEW t \in Tasks,
         NEW there \in {"session", "user", "enabled", "verified", "hash", "ask", "otp",
                        "write", "delete", "announce", "issue", "mark", "open", "over"},
         pc[t] \notin {"unsent", "mark"}, pc[t] = "over" => there = "over",
         Goto(t, there), UNCHANGED db, revoked' \subseteq Tasks, early' \subseteq Tasks,
         there \in {"session", "user", "enabled", "verified"} => op[t] \notin {"login", "toggle"},
         there = "ask" => op[t] \in {"login", "stepup"},
         there = "otp" => op[t] \in {"login", "confirm", "disable"},
         there = "issue" => op[t] \in {"login", "confirm"},
         there = "mark" => op[t] = "stepup" /\ factor[t]
  PROVE  IInv'
BY DEF IInv, TypeOK, OpAt, IssuedOnce, SidsAreIssued, LateStepUps, EnrolmentHolds,
       Goto, db

\* The checks of an authenticated request, and sockets.
LEMMA ChecksKeep ==
  ASSUME IInv, NEW t \in Tasks,
         \/ CheckSession(t) \/ CheckUser(t) \/ CheckEnabled(t) \/ CheckVerified(t)
         \/ CheckPassword(t) \/ WrongCode(t) \/ RightCode(t) \/ Announce(t)
         \/ Watch(t) \/ Monitor(t) \/ Hangup(t)
  PROVE  IInv'
<1> USE DEF At, watches
<1>0. /\ op[t] \in Ops /\ revoked \subseteq Tasks /\ early \subseteq Tasks
      /\ OpAt
  BY DEF IInv, TypeOK
<1>1. pc[t] \in {"session", "user", "enabled", "verified"} =>
        Body(t) \in {"hash", "delete", "write"}
  BY <1>0 DEF OpAt, Body, AsksPassword, Ops
<1>2. CASE CheckSession(t)
  BY <1>0, <1>2, MovingKeeps DEF CheckSession, OpAt
<1>3. CASE CheckUser(t)
  BY <1>0, <1>3, MovingKeeps DEF CheckUser, OpAt
<1>4. CASE CheckEnabled(t)
  BY <1>0, <1>1, <1>4, MovingKeeps DEF CheckEnabled, OpAt
<1>5. CASE CheckVerified(t)
  BY <1>0, <1>1, <1>5, MovingKeeps DEF CheckVerified, OpAt
<1>6. CASE CheckPassword(t)
  BY <1>0, <1>6, MovingKeeps DEF CheckPassword, Ops
<1>7. CASE WrongCode(t)
  BY <1>0, <1>7, MovingKeeps DEF WrongCode
<1>8. CASE RightCode(t)
  BY <1>0, <1>8, MovingKeeps DEF RightCode, OpAt
<1>9. CASE Announce(t)
  BY <1>0, <1>9, MovingKeeps DEF Announce
<1>10. CASE Watch(t)
  BY <1>0, <1>10, MovingKeeps DEF Watch
<1>11. CASE Monitor(t)
  BY <1>0, <1>11, MovingKeeps DEF Monitor, MonitorTold, MonitorPolls
<1>12. CASE Hangup(t)
  BY <1>0, <1>12, MovingKeeps DEF Hangup
<1> QED BY <1>2, <1>3, <1>4, <1>5, <1>6, <1>7, <1>8, <1>9, <1>10, <1>11, <1>12

\* A session that is presented has been made.
LEMMA ArriveKeeps ==
  ASSUME IInv, NEW t \in Tasks, Arrive(t)
  PROVE  IInv'
<1>1. PICK o \in Ops, p \in 0 .. pw, s \in sessions \cup {None} :
        /\ (s = None) <=> o \in {"login", "toggle"}
        /\ op' = [op EXCEPT ![t] = o]
        /\ typed' = [typed EXCEPT ![t] = p]
        /\ sid' = [sid EXCEPT ![t] = s]
        /\ pc' = [pc EXCEPT ![t] = CASE o = "login" -> "hash"
                                     [] o = "toggle" -> "write"
                                     [] OTHER -> "session"]
  BY DEF Arrive
<1>2. /\ pc[t] = "unsent"
      /\ UNCHANGED <<db, factor, gone, watches>>
  BY DEF Arrive, At
<1>3. PICK here \in {"hash", "write", "session"} :
        /\ pc' = [pc EXCEPT ![t] = here]
        /\ here = "session" => o \notin {"login", "toggle"}
  BY <1>1
<1>4. s \in Tasks => s \in sessions
  BY DisjointAssumption
<1>5. s \in Sids \cup {None} /\ p \in 0 .. MaxPw
  BY <1>2, MaxPwAssumption DEF IInv, TypeOK
<1>6. TypeOK'
  BY <1>1, <1>2, <1>3, <1>5 DEF IInv, TypeOK, db, watches
<1>7. \A u \in Tasks : u # t => /\ pc'[u] = pc[u] /\ op'[u] = op[u] /\ sid'[u] = sid[u]
                                /\ factor'[u] = factor[u]
  BY <1>1, <1>2
<1>8. pc'[t] = here /\ op'[t] = o /\ sid'[t] = s
  BY <1>1, <1>3 DEF IInv, TypeOK
<1>9. OpAt' /\ IssuedOnce' /\ LateStepUps' /\ EnrolmentHolds'
  BY <1>2, <1>3, <1>7, <1>8 DEF IInv, OpAt, IssuedOnce, LateStepUps, EnrolmentHolds, db
<1>10. SidsAreIssued'
  BY <1>2, <1>3, <1>4, <1>7, <1>8 DEF IInv, IssuedOnce, SidsAreIssued
<1> QED BY <1>6, <1>9, <1>10 DEF IInv

\* The second factor is looked up, switched on, begun and dropped: it never goes
\* off and stays enrolled.
LEMMA FactorKeeps ==
  ASSUME IInv, NEW t \in Tasks,
         Ask(t) \/ EnrolCode(t) \/ BeginEnrollment(t) \/ DropFactor(t) \/ ToggleActive(t)
  PROVE  IInv'
<1> USE DEF IInv, TypeOK, OpAt, IssuedOnce, SidsAreIssued, LateStepUps, EnrolmentHolds,
            At, Goto, db, watches
<1>1. CASE Ask(t)
  BY <1>1 DEF Ask
<1>2. CASE EnrolCode(t)
  BY <1>2 DEF EnrolCode
<1>3. CASE BeginEnrollment(t)
  BY <1>3 DEF BeginEnrollment
<1>4. CASE DropFactor(t)
  BY <1>4 DEF DropFactor
<1>5. CASE ToggleActive(t)
  BY <1>5 DEF ToggleActive
<1> QED BY <1>1, <1>2, <1>3, <1>4, <1>5

\* Sessions are deleted, with their rows of mfa_stepup.
LEMMA DeletionKeeps ==
  ASSUME IInv, NEW t \in Tasks, ChangePassword(t) \/ Logout(t) \/ EvictAll(t)
  PROVE  IInv'
<1> USE DEF IInv, TypeOK, OpAt, IssuedOnce, SidsAreIssued, LateStepUps, EnrolmentHolds,
            At, DeleteAndGoto, Delete, watches
<1>1. CASE ChangePassword(t)
  <2>1. /\ pw' = pw + 1 /\ pw < MaxPw
        /\ by' = [by EXCEPT ![sid[t]] = pw + 1]
        /\ pc[t] = "write" /\ pc' = [pc EXCEPT ![t] = "announce"]
        /\ sessions' \subseteq sessions
        /\ stepup' = [s \in Sids |-> IF s \in sessions \ {sid[t]} THEN "none" ELSE stepup[s]]
        /\ gone' = [gone EXCEPT ![t] = (sessions \ {sid[t]}) \cap sessions]
        /\ sessions' = sessions \ (sessions \ {sid[t]})
        /\ UNCHANGED <<op, sid, typed, factor, active, mfa, enrolled, watches>>
    BY <1>1 DEF ChangePassword
  <2>2. by' \in [Sids -> 0 .. MaxPw] /\ pw' \in 0 .. MaxPw /\ typed' \in [Tasks -> 0 .. MaxPw]
    <3>1. pw + 1 \in 0 .. MaxPw
      BY <2>1, MaxPwAssumption
    <3> QED BY <2>1, <3>1
  <2>3. TypeOK'
    <3>1. sessions' \subseteq Sids /\ gone' \in [Tasks -> SUBSET Sids]
      BY <2>1
    <3>2. /\ stepup' \in [Sids -> {"none", "password", "otp"}]
          /\ \A s \in Sids \ sessions' : stepup'[s] = "none"
      BY <2>1
    <3> QED BY <2>1, <2>2, <3>1, <3>2
  <2>4. OpAt' /\ IssuedOnce' /\ SidsAreIssued'
    BY <2>1
  <2>5. LateStepUps' /\ EnrolmentHolds'
    BY <2>1
  <2> QED BY <2>3, <2>4, <2>5
<1>2. CASE Logout(t)
  BY <1>2 DEF Logout
<1>3. CASE EvictAll(t)
  BY <1>3 DEF EvictAll
<1> QED BY <1>1, <1>2, <1>3

\* A session is made, once, and one is marked as verified.
LEMMA IssueKeeps ==
  ASSUME IInv, NEW t \in Tasks, Issue(t) \/ MarkRecent(t)
  PROVE  IInv'
<1> USE DEF IInv, TypeOK, OpAt, IssuedOnce, SidsAreIssued, LateStepUps, EnrolmentHolds,
            At, Goto, watches
<1>1. CASE Issue(t)
  BY <1>1 DEF Issue, Sids
<1>2. CASE MarkRecent(t)
  BY <1>2 DEF MarkRecent
<1> QED BY <1>1, <1>2

\* A session expires; the hub restarts.
LEMMA SurroundingsKeep ==
  ASSUME IInv, Restart \/ \E s \in Sids : Expire(s)
  PROVE  IInv'
<1> USE DEF IInv, TypeOK, OpAt, IssuedOnce, SidsAreIssued, LateStepUps, EnrolmentHolds, db
<1>1. CASE Restart
  BY <1>1 DEF Restart
<1>2. CASE \E s \in Sids : Expire(s)
  BY <1>2 DEF Expire, Delete, local
<1> QED BY <1>1, <1>2

\* Every step keeps the invariant.
LEMMA NextKeeps == IInv /\ [Next]_vars => IInv'
<1> SUFFICES ASSUME IInv, [Next]_vars PROVE IInv'
  OBVIOUS
<1>1. ASSUME NEW t \in Tasks, Arrive(t) \/ Step(t) \/ Monitor(t) \/ Hangup(t) PROVE IInv'
  BY <1>1, ArriveKeeps, ChecksKeep, FactorKeeps, DeletionKeeps, IssueKeeps DEF Step
<1>2. CASE Restart \/ \E s \in Sids : Expire(s)
  BY <1>2, SurroundingsKeep
<1>3. CASE UNCHANGED vars
  BY <1>3 DEF vars, db, local, watches, IInv, TypeOK, OpAt, IssuedOnce, SidsAreIssued,
              LateStepUps, EnrolmentHolds
<1> QED BY <1>1, <1>2, <1>3 DEF Next

\* The strengthened invariant holds in every reachable state, for any requests
\* and sessions (auth.py, mfa.py, routes/auth.py).
THEOREM InductiveInvariant == Spec => []IInv
  BY InitIInv, NextKeeps, PTL DEF Spec

\* Every variable keeps its type, and a row of mfa_stepup goes with its session
\* (the tables' foreign key).
THEOREM TypeCorrect == Spec => []TypeOK
<1>1. IInv => TypeOK
  BY DEF IInv
<1> QED BY <1>1, InductiveInvariant, PTL

\* "Require proof on the particular session, including after enrollment races"
\* (mfa.py:168): no session counts as verified without a code once an enrolment
\* has run to its eviction.
THEOREM EnrolmentIsKept == Spec => []EnrolmentHolds
<1>1. IInv => EnrolmentHolds
  BY DEF IInv
<1> QED BY <1>1, InductiveInvariant, PTL

-----------------------------------------------------------------------------
(* Who is told *)

LEMMA InitTellInv == Init => TellInv
  BY DEF Init, TellInv, OpenedOnce, GoneForGood, RevokedAreTold

\* No session is deleted or made, no announcement left and no socket opened.
LEMMA OrdinaryStepTells ==
  ASSUME IInv, TellInv, NEW t \in Tasks,
         \/ Arrive(t) \/ CheckSession(t) \/ CheckUser(t) \/ CheckEnabled(t) \/ CheckVerified(t)
         \/ CheckPassword(t) \/ Ask(t) \/ WrongCode(t) \/ RightCode(t) \/ EnrolCode(t)
         \/ BeginEnrollment(t) \/ DropFactor(t) \/ ToggleActive(t) \/ MarkRecent(t)
  PROVE  TellInv'
<1>1. /\ UNCHANGED <<sessions, gone, watches>>
      /\ pc[t] \notin {"announce", "open", "over"}
      /\ pc[t] = "mark" => pc'[t] = "over"
      /\ \A u \in Tasks \ {t} : pc'[u] = pc[u] /\ op'[u] = op[u] /\ sid'[u] = sid[u]
  BY DEF Arrive, CheckSession, CheckUser, CheckEnabled, CheckVerified, CheckPassword, Ask, WrongCode,
         RightCode, EnrolCode, BeginEnrollment, DropFactor, ToggleActive, MarkRecent, At, Goto,
         db, local, watches, IInv, TypeOK
<1>2. OpenedOnce' /\ GoneForGood'
  BY <1>1 DEF TellInv, OpenedOnce, GoneForGood, watches, IInv, TypeOK
<1>3. RevokedAreTold'
  <2>1. \A w \in early : w # t
    BY <1>1 DEF TellInv, OpenedOnce
  <2> QED BY <1>1, <2>1 DEF TellInv, RevokedAreTold, Concerns, watches, IInv, TypeOK
<1> QED BY <1>2, <1>3 DEF TellInv

\* Whoever deletes a session is about to announce it.
LEMMA DeletionTells ==
  ASSUME IInv, TellInv, NEW t \in Tasks, ChangePassword(t) \/ Logout(t) \/ EvictAll(t)
  PROVE  TellInv'
<1>1. PICK S \in SUBSET (Sids \cup {None}) :
        /\ sessions' = sessions \ S
        /\ gone' = [gone EXCEPT ![t] = S \cap sessions]
  BY DEF ChangePassword, Logout, EvictAll, DeleteAndGoto, Delete, IInv, TypeOK
<1>2. /\ pc' = [pc EXCEPT ![t] = "announce"] /\ pc[t] \in {"write", "delete"}
      /\ UNCHANGED <<op, sid, watches>>
  BY DEF ChangePassword, Logout, EvictAll, DeleteAndGoto, At
<1>3. OpenedOnce'
  BY <1>2 DEF TellInv, OpenedOnce, watches, IInv, TypeOK
<1>4. GoneForGood'
  BY <1>1, <1>2 DEF TellInv, GoneForGood, IInv, TypeOK, IssuedOnce
<1>5. RevokedAreTold'
  <2>1. SUFFICES ASSUME NEW w \in early, pc[w] = "open", sid[w] \notin sessions', w \notin revoked
                 PROVE  \E u \in Tasks : pc'[u] = "announce" /\ Concerns(u, w)'
    BY <1>2 DEF RevokedAreTold, watches, IInv, TypeOK
  <2>2. CASE sid[w] \in sessions
    BY <1>1, <1>2, <2>1, <2>2 DEF Concerns, IInv, TypeOK
  <2>3. CASE sid[w] \notin sessions
    BY <1>1, <1>2, <2>1, <2>3 DEF TellInv, RevokedAreTold, Concerns, IInv, TypeOK
  <2> QED BY <2>2, <2>3
<1> QED BY <1>3, <1>4, <1>5 DEF TellInv

\* The announcement, and what sockets do.
LEMMA SocketsTell ==
  ASSUME IInv, TellInv, NEW t \in Tasks,
         Announce(t) \/ Watch(t) \/ Monitor(t) \/ Hangup(t)
  PROVE  TellInv'
<1> USE DEF At, Goto, db, watches
<1>1. /\ UNCHANGED <<sessions, gone, op, sid>>
      /\ pc[t] \in {"announce", "write", "open"}
  BY DEF Announce, Watch, Monitor, MonitorTold, MonitorPolls, Hangup
<1>2. \A u \in Tasks \ {t} : pc'[u] = pc[u]
  BY DEF Announce, Watch, Monitor, MonitorTold, MonitorPolls, Hangup, IInv, TypeOK
<1>3. GoneForGood'
  BY <1>1, <1>2 DEF TellInv, GoneForGood
<1>4. CASE Announce(t)
  <2>1. /\ pc'[t] # "open" /\ pc[t] = "announce" /\ early' = early
        /\ revoked' = revoked \cup {w \in Tasks : pc[w] = "open" /\ Concerns(t, w)}
    BY <1>4 DEF Announce, IInv, TypeOK
  <2>2. OpenedOnce'
    BY <1>2, <2>1 DEF TellInv, OpenedOnce, IInv, TypeOK
  <2>3. RevokedAreTold'
    BY <1>1, <1>2, <2>1 DEF TellInv, RevokedAreTold, Concerns, IInv, TypeOK
  <2> QED BY <1>3, <2>2, <2>3 DEF TellInv
<1>5. CASE Watch(t)
  <2>1. early' \subseteq early \cup {t} /\ revoked' = revoked /\ pc'[t] = "open" /\ pc[t] = "write"
    BY <1>5 DEF Watch, IInv, TypeOK
  <2>2. t \in early' => sid[t] \in sessions
    BY <1>5 DEF Watch, TellInv, OpenedOnce
  <2>3. OpenedOnce'
    BY <1>2, <2>1 DEF TellInv, OpenedOnce, IInv, TypeOK
  <2>4. RevokedAreTold'
    BY <1>1, <1>2, <2>1, <2>2 DEF TellInv, RevokedAreTold, Concerns, IInv, TypeOK
  <2> QED BY <1>3, <2>3, <2>4 DEF TellInv
<1>6. CASE Monitor(t) \/ Hangup(t)
  <2>1. pc'[t] = "over" /\ pc[t] = "open" /\ UNCHANGED <<revoked, early>>
    BY <1>6 DEF Monitor, MonitorTold, MonitorPolls, Hangup, IInv, TypeOK
  <2>2. OpenedOnce'
    BY <1>2, <2>1 DEF TellInv, OpenedOnce, IInv, TypeOK
  <2>3. RevokedAreTold'
    BY <1>1, <1>2, <2>1 DEF TellInv, RevokedAreTold, Concerns, IInv, TypeOK
  <2> QED BY <1>3, <2>2, <2>3 DEF TellInv
<1> QED BY <1>4, <1>5, <1>6

\* A new session has a name of its own.
LEMMA IssueTells ==
  ASSUME IInv, TellInv, NEW t \in Tasks, Issue(t)
  PROVE  TellInv'
<1>1. /\ sessions' = sessions \cup {t} /\ pc[t] = "issue"
      /\ pc'[t] \in {"mark", "over"}
      /\ UNCHANGED <<gone, op, sid, watches>>
      /\ \A u \in Tasks \ {t} : pc'[u] = pc[u]
  BY DEF Issue, At, Goto, IInv, TypeOK
<1>2. GoneForGood'
  BY <1>1 DEF TellInv, GoneForGood
<1>3. OpenedOnce' /\ RevokedAreTold'
  BY <1>1 DEF TellInv, OpenedOnce, RevokedAreTold, Concerns, watches, IInv, TypeOK
<1> QED BY <1>2, <1>3 DEF TellInv

\* A restart drops the tasks; a session that expires is deleted under nobody.
LEMMA SurroundingsTell ==
  ASSUME IInv, TellInv, Restart \/ \E s \in Sids : Expire(s)
  PROVE  TellInv'
<1>1. CASE Restart
  BY <1>1 DEF Restart, TellInv, OpenedOnce, GoneForGood, RevokedAreTold, IInv, TypeOK, db
<1>2. CASE \E s \in Sids : Expire(s)
  BY <1>2 DEF Expire, Delete, TellInv, OpenedOnce, GoneForGood, RevokedAreTold, Concerns, local
<1> QED BY <1>1, <1>2

\* Every step keeps who is told.
LEMMA NextTells == IInv /\ TellInv /\ [Next]_vars => TellInv'
<1> SUFFICES ASSUME IInv, TellInv, [Next]_vars PROVE TellInv'
  OBVIOUS
<1>1. ASSUME NEW t \in Tasks, Arrive(t) \/ Step(t) \/ Monitor(t) \/ Hangup(t) PROVE TellInv'
  BY <1>1, OrdinaryStepTells, DeletionTells, SocketsTell, IssueTells DEF Step
<1>2. CASE Restart \/ \E s \in Sids : Expire(s)
  BY <1>2, SurroundingsTell
<1>3. CASE UNCHANGED vars
  BY <1>3 DEF vars, db, local, watches, TellInv, OpenedOnce, GoneForGood, RevokedAreTold, Concerns
<1> QED BY <1>1, <1>2, <1>3 DEF Next

\* Who is told, and that what was deleted stays deleted until it is announced, holds
\* in every reachable state (auth.py: delete_user_sessions; access_events.py).
THEOREM TellingInvariant == Spec => []TellInv
<1>1. Init => TellInv
  BY InitTellInv
<1>2. IInv /\ TellInv /\ [Next]_vars => TellInv'
  BY NextTells
<1> QED BY <1>1, <1>2, InductiveInvariant, PTL DEF Spec

\* "Stop subscribers before their next operation" (access_events.py:44): an open
\* socket whose session was deleted under it is told, or is about to be.
THEOREM TheRevokedAreTold == Spec => []RevokedAreTold
<1>1. TellInv => RevokedAreTold
  BY DEF TellInv
<1> QED BY <1>1, TellingInvariant, PTL

\* Only an announcement tells a socket, and it never tells one whose session is
\* kept, unless it is about the account ("or the sockets of the session being
\* kept would close too", auth.py:474).
THEOREM KeptSocketsStay == Spec => KeptSocketStays
<1> DEFINE Kept == \A w \in revoked' \ revoked :
                     \/ sid[w] \notin sessions
                     \/ \E t \in Tasks : pc[t] = "announce" /\ op[t] \in Wide
<1>1. ASSUME TellInv, [Next]_vars PROVE [Kept]_vars
  <2>1. CASE \E t \in Tasks : Announce(t)
    BY <1>1, <2>1 DEF Announce, At, Concerns, TellInv, GoneForGood
  <2>2. CASE revoked' \subseteq revoked
    BY <2>2
  <2>3. ASSUME NEW t \in Tasks, Arrive(t) \/ Step(t) \/ Monitor(t) \/ Hangup(t), ~Announce(t)
        PROVE  revoked' = revoked
    BY <2>3 DEF Step, Monitor, MonitorTold, MonitorPolls, Hangup, Arrive, CheckSession, CheckUser,
                CheckEnabled, CheckVerified, CheckPassword, Ask, WrongCode, RightCode, EnrolCode,
                ChangePassword, BeginEnrollment, DropFactor, ToggleActive, Logout, EvictAll, Issue,
                MarkRecent, Watch, watches
  <2>4. CASE Restart \/ \E s \in Sids : Expire(s)
    BY <2>2, <2>4 DEF Restart, Expire
  <2> QED BY <1>1, <2>1, <2>2, <2>3, <2>4 DEF Next, vars, watches
<1>2. Spec => [][Kept]_vars
  BY <1>1, TellingInvariant, PTL DEF Spec
<1> QED BY <1>2 DEF KeptSocketStays
=============================================================================
