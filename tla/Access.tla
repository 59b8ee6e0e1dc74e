------------------------------- MODULE Access -------------------------------
(***************************************************************************)
(* One account and its sessions: signing in, changing the password,        *)
(* enrolling a second factor, and what a request or an open WebSocket is   *)
(* still allowed when one of those happens meanwhile (src/app/core/auth.py,*)
(* src/app/core/mfa.py, src/app/core/access_events.py,                     *)
(* src/app/web/routes/auth.py, src/app/web/middleware/auth.py,             *)
(* src/app/web/middleware/websocket_security.py).                          *)
(*                                                                         *)
(* A task is one request or one socket.  Each await lets the others in, so *)
(* what a task has read may be old when it writes.  The database survives  *)
(* a restart; tasks and watches do not.  A session made by a task has the  *)
(* task's name.  Wrong passwords and wrong codes only refuse: the lockout  *)
(* counters are left out.                                                  *)
(***************************************************************************)
EXTENDS Naturals

CONSTANTS Tasks,       \* requests and sockets
          Sessions0,   \* the account's sessions at the start
          MaxPw,       \* bound on the password changes
          None         \* no session

ASSUME MaxPwAssumption == MaxPw \in Nat
ASSUME DisjointAssumption == Tasks \cap Sessions0 = {} /\ None \notin Tasks \cup Sessions0

Sids == Sessions0 \cup Tasks

VARIABLES pw,        \* users.password_hash: passwords are numbered
          active,    \* users.is_active
          mfa,       \* the user_mfa row: "none", "pending", "on"
          sessions,  \* the sessions table
          stepup,    \* mfa_stepup: session -> how it was verified, or "none"
          by,        \* history: session -> newest password it was held with
          enrolled,  \* history: has a confirmed enrolment run to its eviction?
          op,        \* task -> what it is
          sid,       \* task -> the session its token names
          typed,     \* task -> the password it carries
          pc,        \* task -> the await it is at
          factor,    \* task -> did it read that the second factor is on?
          gone,      \* task -> the sessions it deleted and must announce
          revoked,   \* Watch.revoked of the open sockets
          early      \* history: open sockets whose session was live, and has
                     \* not expired, since their watch was registered

db == <<pw, active, mfa, sessions, stepup, by, enrolled>>
local == <<op, sid, typed, pc, factor, gone>>
watches == <<revoked, early>>
vars == <<db, local, watches>>

Ops == {"login", "password", "begin", "confirm", "stepup", "disable",
        "logout", "toggle", "socket"}
\* Operations that ask for the current password before anything else.
AsksPassword == {"password", "begin", "confirm", "stepup", "disable"}
\* Operations that end by announcing the user, not the session.
Wide == {"confirm", "disable", "toggle"}

TypeOK ==
  /\ pw \in 0 .. MaxPw /\ active \in BOOLEAN /\ mfa \in {"none", "pending", "on"}
  /\ sessions \subseteq Sids
  /\ stepup \in [Sids -> {"none", "password", "otp"}]
  /\ \A s \in Sids \ sessions : stepup[s] = "none"
  /\ by \in [Sids -> 0 .. MaxPw] /\ enrolled \in BOOLEAN
  /\ op \in [Tasks -> Ops] /\ sid \in [Tasks -> Sids \cup {None}]
  /\ typed \in [Tasks -> 0 .. MaxPw]
  /\ pc \in [Tasks -> {"unsent", "session", "user", "enabled", "verified", "hash",
                       "ask", "otp", "write", "delete", "announce", "issue",
                       "mark", "open", "over"}]
  /\ factor \in [Tasks -> BOOLEAN] /\ gone \in [Tasks -> SUBSET Sids]
  /\ revoked \subseteq Tasks /\ early \subseteq Tasks

Init ==
  /\ pw = 0 /\ active = TRUE /\ mfa = "none"
  /\ sessions = Sessions0
  /\ stepup = [s \in Sids |-> "none"]
  /\ by = [s \in Sids |-> 0]
  /\ enrolled = FALSE
  /\ op = [t \in Tasks |-> "login"]
  /\ sid = [t \in Tasks |-> None]
  /\ typed = [t \in Tasks |-> 0]
  /\ pc = [t \in Tasks |-> "unsent"]
  /\ factor = [t \in Tasks |-> FALSE]
  /\ gone = [t \in Tasks |-> {}]
  /\ revoked = {} /\ early = {}

-----------------------------------------------------------------------------
(* The tables *)

At(t, here) == pc[t] = here
Goto(t, there) == /\ pc' = [pc EXCEPT ![t] = there]
                  /\ UNCHANGED <<op, sid, typed, factor, gone>>
\* A row of mfa_stepup goes with its session (ON DELETE CASCADE).
Delete(S) == /\ sessions' = sessions \ S
             /\ stepup' = [s \in Sids |-> IF s \in S THEN "none" ELSE stepup[s]]
\* Deletes S and remembers which of it was there.
DeleteAndGoto(t, S, there) ==
  /\ Delete(S)
  /\ gone' = [gone EXCEPT ![t] = S \cap sessions]
  /\ pc' = [pc EXCEPT ![t] = there]
  /\ UNCHANGED <<op, sid, typed, factor>>

\* Is w's watch one that t announces?
Concerns(t, w) == op[t] \in Wide \/ sid[w] \in gone[t]

\* What a request does once its token, session and user have passed.
Body(t) == CASE op[t] \in AsksPassword -> "hash"
             [] op[t] = "logout" -> "delete"
             [] op[t] = "socket" -> "write"

-----------------------------------------------------------------------------
(* Mutations: plausible mistakes in the code below, which a property must see *)

\* The handshake's answer relied upon: only the account is polled.
PollUserOnly(t) ==
  /\ At(t, "open") /\ ~active
  /\ Goto(t, "over")
  /\ UNCHANGED <<db, watches>>

\* A sign-out that deletes the session and tells no socket.
LogoutUnannounced(t) ==
  /\ At(t, "delete") /\ op[t] = "logout"
  /\ DeleteAndGoto(t, {sid[t]}, "over")
  /\ UNCHANGED <<pw, active, mfa, by, enrolled, watches>>

\* Watches are always told of the user: it is the same account.
AnnounceWide(t) ==
  /\ At(t, "announce")
  /\ revoked' = revoked \cup {w \in Tasks : pc[w] = "open"}
  /\ Goto(t, IF op[t] = "confirm" THEN "issue" ELSE "over")
  /\ UNCHANGED <<db, early>>

\* The enrolment leaves the other sessions alone.
EvictNobody(t) ==
  /\ At(t, "delete") /\ op[t] \in {"confirm", "disable"}
  /\ DeleteAndGoto(t, {}, "announce")
  /\ enrolled' = (enrolled \/ (op[t] = "confirm" /\ mfa = "on"))
  /\ UNCHANGED <<pw, active, mfa, by, watches>>

-----------------------------------------------------------------------------
(* Arrivals, and the checks every authenticated request and handshake makes *)

\* A sign-in, a request with the token of a session, or an administrator's.
Arrive(t) ==
  /\ At(t, "unsent")
  /\ \E o \in Ops, p \in 0 .. pw, s \in sessions \cup {None} :
       /\ (s = None) <=> o \in {"login", "toggle"}
       /\ p = pw \/ o \in {"login"} \cup AsksPassword
       /\ op' = [op EXCEPT ![t] = o]
       /\ typed' = [typed EXCEPT ![t] = p]
       /\ sid' = [sid EXCEPT ![t] = s]
       /\ pc' = [pc EXCEPT ![t] = CASE o = "login" -> "hash"
                                    [] o = "toggle" -> "write"
                                    [] OTHER -> "session"]
  /\ UNCHANGED <<db, factor, gone, watches>>

\* validate_session, get_user_by_id
CheckSession(t) ==
  /\ At(t, "session")
  /\ Goto(t, IF sid[t] \in sessions THEN "user" ELSE "over")
  /\ UNCHANGED <<db, watches>>

CheckUser(t) ==
  /\ At(t, "user")
  /\ Goto(t, IF active THEN "enabled" ELSE "over")
  /\ UNCHANGED <<db, watches>>

\* mfa.enabled, then mfa.session_verified
CheckEnabled(t) ==
  /\ At(t, "enabled")
  /\ Goto(t, IF mfa = "on" THEN "verified" ELSE Body(t))
  /\ UNCHANGED <<db, watches>>

CheckVerified(t) ==
  /\ At(t, "verified")
  /\ Goto(t, IF stepup[sid[t]] # "none" THEN Body(t) ELSE "over")
  /\ UNCHANGED <<db, watches>>

-----------------------------------------------------------------------------
(* The password and the second factor *)

\* The hash is read here; comparing it takes a worker thread a long time.
CheckPassword(t) ==
  /\ At(t, "hash")
  /\ Goto(t, IF typed[t] # pw \/ (~active /\ op[t] # "password")
             THEN "over"
             ELSE CASE op[t] \in {"login", "stepup"} -> "ask"
                    [] op[t] \in {"confirm", "disable"} -> "otp"
                    [] OTHER -> "write")
  /\ UNCHANGED <<db, watches>>

\* Is a code needed?
Ask(t) ==
  /\ At(t, "ask")
  /\ factor' = [factor EXCEPT ![t] = mfa = "on"]
  /\ pc' = [pc EXCEPT ![t] = CASE mfa = "on" -> "otp"
                               [] op[t] = "login" -> "issue"
                               [] OTHER -> "mark"]
  /\ UNCHANGED <<db, op, sid, typed, gone, watches>>

\* mfa.verify, one transaction: no row, a wrong code or one used before
\* refuses.
WrongCode(t) ==
  /\ At(t, "otp")
  /\ Goto(t, "over")
  /\ UNCHANGED <<db, watches>>

RightCode(t) ==
  /\ At(t, "otp") /\ op[t] # "confirm" /\ mfa = "on"
  /\ Goto(t, CASE op[t] = "login" -> "issue"
               [] op[t] = "stepup" -> "mark"
               [] op[t] = "disable" -> "write")
  /\ UNCHANGED <<db, watches>>

\* The same with enroll=True: the pending row is switched on.
EnrolCode(t) ==
  /\ At(t, "otp") /\ op[t] = "confirm" /\ mfa = "pending"
  /\ mfa' = "on"
  /\ Goto(t, "delete")
  /\ UNCHANGED <<pw, active, sessions, stepup, by, enrolled, watches>>

-----------------------------------------------------------------------------
(* Writing *)

\* The new hash and the other sessions' deletion are one transaction.
ChangePassword(t) ==
  /\ At(t, "write") /\ op[t] = "password" /\ pw < MaxPw
  /\ pw' = pw + 1
  /\ by' = [by EXCEPT ![sid[t]] = pw + 1]
  /\ DeleteAndGoto(t, sessions \ {sid[t]}, "announce")
  /\ UNCHANGED <<active, mfa, enrolled, watches>>

BeginEnrollment(t) ==
  /\ At(t, "write") /\ op[t] = "begin"
  /\ mfa' = IF mfa = "on" THEN "on" ELSE "pending"
  /\ Goto(t, "over")
  /\ UNCHANGED <<pw, active, sessions, stepup, by, enrolled, watches>>

DropFactor(t) ==
  /\ At(t, "write") /\ op[t] = "disable"
  /\ mfa' = "none" /\ enrolled' = FALSE
  /\ Goto(t, "delete")
  /\ UNCHANGED <<pw, active, sessions, stepup, by, watches>>

\* update_user with is_active.
ToggleActive(t) ==
  /\ At(t, "write") /\ op[t] = "toggle"
  /\ active' = ~active
  /\ Goto(t, "announce")
  /\ UNCHANGED <<pw, mfa, sessions, stepup, by, enrolled, watches>>

\* delete_session
Logout(t) ==
  /\ At(t, "delete") /\ op[t] = "logout"
  /\ DeleteAndGoto(t, {sid[t]}, "announce")
  /\ UNCHANGED <<pw, active, mfa, by, enrolled, watches>>

\* delete_user_sessions
EvictAll(t) ==
  /\ At(t, "delete") /\ op[t] \in {"confirm", "disable"}
  /\ DeleteAndGoto(t, sessions, "announce")
  /\ enrolled' = (enrolled \/ (op[t] = "confirm" /\ mfa = "on"))
  /\ UNCHANGED <<pw, active, mfa, by, watches>>

\* access_events.invalidate, of the user or session by session.
Announce(t) ==
  /\ At(t, "announce")
  /\ revoked' = revoked \cup {w \in Tasks : pc[w] = "open" /\ Concerns(t, w)}
  /\ Goto(t, IF op[t] = "confirm" THEN "issue" ELSE "over")
  /\ UNCHANGED <<db, early>>

\* _issue_tokens: the new session.
Issue(t) ==
  /\ At(t, "issue")
  /\ sessions' = sessions \cup {t}
  /\ by' = [by EXCEPT ![t] = typed[t]]
  /\ Goto(t, IF op[t] = "confirm" \/ factor[t] THEN "mark" ELSE "over")
  /\ UNCHANGED <<pw, active, mfa, stepup, enrolled, watches>>

\* mark_recent; for a session that is gone the foreign key refuses the row.
MarkRecent(t) ==
  LET s == IF op[t] = "stepup" THEN sid[t] ELSE t
      how == IF op[t] = "confirm" \/ factor[t] THEN "otp" ELSE "password"
  IN /\ At(t, "mark")
     /\ stepup' = IF s \in sessions THEN [stepup EXCEPT ![s] = how] ELSE stepup
     /\ Goto(t, "over")
     /\ UNCHANGED <<pw, active, mfa, sessions, by, enrolled, watches>>

-----------------------------------------------------------------------------
(* Sockets *)

\* The handshake has passed; only now is the watch registered.
Watch(t) ==
  /\ At(t, "write") /\ op[t] = "socket"
  /\ early' = IF sid[t] \in sessions THEN early \cup {t} ELSE early
  /\ Goto(t, "open")
  /\ UNCHANGED <<db, revoked>>

\* The monitor wakes: told of a revocation, ...
MonitorTold(t) ==
  /\ At(t, "open") /\ t \in revoked
  /\ Goto(t, "over")
  /\ UNCHANGED <<db, watches>>

\* ... or after at most 15 seconds, to look for itself.
MonitorPolls(t) ==
  /\ At(t, "open") /\ (~active \/ sid[t] \notin sessions)
  /\ Goto(t, "over")
  /\ UNCHANGED <<db, watches>>

\* The browser leaves, or the handler ends.
Hangup(t) ==
  /\ At(t, "open")
  /\ Goto(t, "over")
  /\ UNCHANGED <<db, watches>>

Monitor(t) == MonitorTold(t) \/ MonitorPolls(t)

-----------------------------------------------------------------------------
(* The whole *)

Step(t) == \/ CheckSession(t) \/ CheckUser(t) \/ CheckEnabled(t) \/ CheckVerified(t)
           \/ CheckPassword(t) \/ Ask(t)
           \/ WrongCode(t) \/ RightCode(t) \/ EnrolCode(t)
           \/ ChangePassword(t) \/ BeginEnrollment(t) \/ DropFactor(t)
           \/ ToggleActive(t) \/ Logout(t) \/ EvictAll(t) \/ Announce(t)
           \/ Issue(t) \/ MarkRecent(t) \/ Watch(t)

\* cleanup_expired_sessions: announced to nobody.
Expire(s) ==
  /\ s \in sessions
  /\ Delete({s})
  /\ early' = {w \in early : sid[w] # s}
  /\ UNCHANGED <<pw, active, mfa, by, enrolled, local, revoked>>

Restart ==
  /\ pc' = [t \in Tasks |-> IF pc[t] = "unsent" THEN "unsent" ELSE "over"]
  /\ pc' # pc
  /\ revoked' = {} /\ early' = {}
  /\ UNCHANGED <<db, op, sid, typed, factor, gone>>

Next == \/ \E t \in Tasks : Arrive(t) \/ Step(t) \/ Monitor(t) \/ Hangup(t)
        \/ \E s \in Sids : Expire(s)
        \/ Restart

\* The monitor is a task of the event loop with a timer.
Fairness == \A t \in Tasks : WF_vars(Monitor(t))

Spec == Init /\ [][Next]_vars /\ Fairness

-----------------------------------------------------------------------------
(* Properties *)

\* "Require proof on the particular session, including after enrollment
\* races" (mfa.py:168): once an enrolment has run its course, and as long as
\* the second factor stays on, no session counts as verified that was not
\* verified with a code, whoever was signing in or stepping up meanwhile.
EnrolmentHolds ==
  enrolled => /\ mfa = "on"
              /\ \A s \in sessions : stepup[s] # "password"

\* An open socket whose session was deleted under it is told, unless whoever
\* deleted it is still about to ("stop subscribers before their next
\* operation", access_events.py:44).
RevokedAreTold ==
  \A w \in early : pc[w] = "open" /\ sid[w] \notin sessions =>
    \/ w \in revoked
    \/ \E t \in Tasks : pc[t] = "announce" /\ Concerns(t, w)

\* "Or the sockets of the session being kept would close too" (auth.py:474):
\* a socket is told only when its own session is gone or the whole account
\* was changed.
KeptSocketStays ==
  [][\A w \in revoked' \ revoked :
       \/ sid[w] \notin sessions
       \/ \E t \in Tasks : pc[t] = "announce" /\ op[t] \in Wide]_vars

\* A socket does not outlive its session for ever, however its handshake and
\* the deletion interleaved, and whether or not the deletion was announced.
RevokedSocketCloses ==
  \A t \in Tasks : pc[t] = "open" /\ sid[t] \notin sessions ~> pc[t] = "over"

\* "Changing a password is how somebody evicts whoever else knows the old
\* one" (auth.py:911): every live session has been held with the current
\* password.
OldPasswordIsOut == \A s \in sessions : by[s] = pw

\* The same docstring of session_verified, of any enrolment that is no
\* longer under way.
StepUpIsProof ==
  /\ mfa = "on"
  /\ \A t \in Tasks : op[t] = "confirm" => pc[t] \in {"unsent", "over"}
  => \A s \in sessions : stepup[s] # "password"
=============================================================================
