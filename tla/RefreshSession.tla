--------------------------- MODULE RefreshSession ---------------------------
(***************************************************************************)
(* Trading a refresh token for the next, one session                       *)
(* (src/app/core/auth.py: rotate_refresh_token; src/app/web/routes/auth.py:*)
(* auth_refresh).                                                          *)
(*                                                                         *)
(* Two tabs of one browser may present the same token, and the tokens of   *)
(* one session may be presented late or twice.  A request reads the        *)
(* session row, compares, remembers the token it is about to replace in    *)
(* this process's memory, and writes with a compare-and-swap; every await  *)
(* between them lets another request in.  The hub may restart: the row     *)
(* survives, the memory and the requests do not.                           *)
(*                                                                         *)
(* Tokens are numbered in the order the row held them.                     *)
(***************************************************************************)
EXTENDS Naturals

CONSTANTS Requests,   \* POSTs of /auth/refresh; each is sent once
          MaxToken,   \* bound on the rotations of the session
          Grace,      \* REFRESH_REUSE_GRACE_SECONDS, in ticks
          None        \* no row, no entry

ASSUME MaxTokenAssumption == MaxToken \in Nat
ASSUME GraceAssumption == Grace \in Nat \ {0}
ASSUME NoneAssumption == None \notin Nat /\ None \notin [tok : Nat, age : Nat]

Tokens == 0 .. MaxToken

VARIABLES row,      \* user_sessions: the token whose hash it stores, or None
          newest,   \* history: the last token the row held
          booted,   \* history: the token the row held when the process began
          entry,    \* _replaced_refresh: [tok, age], age up to Grace, or None
          pc,       \* request -> where it is in rotate_refresh_token
          tok,      \* request -> the token it presents
          seen,     \* request -> the row as it read it
          alone     \* history: requests sent with the current token, with no
                    \* request of another in their way before or since

vars == <<row, newest, booted, entry, pc, tok, seen, alone>>

Answers == {"rotated", "grace", "invalid", "reused", "error"}
Steps == {"select", "compare", "swap", "gracecheck", "validate", "revoke"}

TypeOK ==
  /\ row \in Tokens \cup {None}
  /\ newest \in Tokens /\ booted \in Tokens
  /\ entry \in [tok : Tokens, age : 0 .. Grace] \cup {None}
  /\ pc \in [Requests -> {"unsent"} \cup Steps \cup Answers]
  /\ tok \in [Requests -> Tokens]
  /\ seen \in [Requests -> Tokens \cup {None}]
  /\ alone \subseteq Requests

Init ==
  /\ row = 0 /\ newest = 0 /\ booted = 0
  /\ entry = None
  /\ pc = [r \in Requests |-> "unsent"]
  /\ tok = [r \in Requests |-> 0]
  /\ seen = [r \in Requests |-> None]
  /\ alone = {}

Goto(r, there) == pc' = [pc EXCEPT ![r] = there]
Session == <<row, newest, booted>>
Sent == <<tok, seen>>

\* _remember_replaced, with what it does to the history of the others.
Remember(r) == /\ entry' = [tok |-> tok[r], age |-> 0]
               /\ alone' = {q \in alone : tok[q] = tok[r]}

\* _within_grace
WithinGrace(r) == /\ entry # None
                  /\ entry.age < Grace
                  /\ entry.tok = tok[r]

-----------------------------------------------------------------------------
(* Mutations: plausible mistakes in the code below, which a property must see *)

\* The token remembered once it has been replaced, not before.
CompareForgets(r) ==
  /\ pc[r] = "compare" /\ seen[r] = tok[r]
  /\ Goto(r, "swap")
  /\ UNCHANGED <<Session, entry, Sent, alone>>

\* The duplicate answered without asking whether the session still exists.
ValidateTrusts(r) ==
  /\ pc[r] = "validate"
  /\ Goto(r, "grace")
  /\ UNCHANGED <<Session, entry, Sent, alone>>

\* A loser of the swap that tries again with what it had read.
SwapLostRetries(r) ==
  /\ pc[r] = "swap" /\ row # tok[r]
  /\ Goto(r, "compare")
  /\ UNCHANGED <<Session, entry, Sent, alone>>

-----------------------------------------------------------------------------
(* One request *)

\* Any token of the session, as far as MaxToken allows the row to go.
Send(r) ==
  /\ pc[r] = "unsent"
  /\ \E t \in 0 .. newest :
       /\ t < MaxToken
       /\ tok' = [tok EXCEPT ![r] = t]
       /\ alone' = IF t = row /\ \A q \in Requests :
                        pc[q] \in Steps => q \in alone /\ tok[q] = t
                   THEN alone \cup {r}
                   ELSE alone
  /\ Goto(r, "select")
  /\ UNCHANGED <<Session, entry, seen>>

\* The account is gone, disabled, or its second factor is not verified.
Refuse(r) ==
  /\ pc[r] = "select"
  /\ Goto(r, "error")
  /\ UNCHANGED <<Session, entry, Sent, alone>>

\* The row is read: gone or expired, the request is over.
Select(r) ==
  /\ pc[r] = "select"
  /\ seen' = [seen EXCEPT ![r] = row]
  /\ Goto(r, IF row = None THEN "invalid" ELSE "compare")
  /\ UNCHANGED <<Session, entry, tok, alone>>

\* The token matches what was read: remember it, then write.
CompareEqual(r) ==
  /\ pc[r] = "compare" /\ seen[r] = tok[r]
  /\ Remember(r)
  /\ Goto(r, "swap")
  /\ UNCHANGED <<Session, Sent>>

CompareRetired(r) ==
  /\ pc[r] = "compare" /\ seen[r] # tok[r]
  /\ Goto(r, "gracecheck")
  /\ UNCHANGED <<Session, entry, Sent, alone>>

\* UPDATE ... WHERE id AND refresh_token_hash = presented, one row.
SwapWon(r) ==
  /\ pc[r] = "swap" /\ row = tok[r]
  /\ row' = tok[r] + 1 /\ newest' = tok[r] + 1
  /\ Goto(r, "rotated")
  /\ UNCHANGED <<booted, entry, Sent, alone>>

\* ... no row: another request was faster, or the session has ended.
SwapLost(r) ==
  /\ pc[r] = "swap" /\ row # tok[r]
  /\ Goto(r, "gracecheck")
  /\ UNCHANGED <<Session, entry, Sent, alone>>

\* The write fails (the database is locked): the entry stays.
SwapFails(r) ==
  /\ pc[r] = "swap"
  /\ Goto(r, "error")
  /\ UNCHANGED <<Session, entry, Sent, alone>>

GraceCheck(r) ==
  /\ pc[r] = "gracecheck"
  /\ Goto(r, IF WithinGrace(r) THEN "validate" ELSE "revoke")
  /\ UNCHANGED <<Session, entry, Sent, alone>>

Validate(r) ==
  /\ pc[r] = "validate"
  /\ Goto(r, IF row # None THEN "grace" ELSE "invalid")
  /\ UNCHANGED <<Session, entry, Sent, alone>>

\* delete_session
Revoke(r) ==
  /\ pc[r] = "revoke"
  /\ row' = None
  /\ Goto(r, "reused")
  /\ UNCHANGED <<newest, booted, entry, Sent, alone>>

Step(r) == \/ Refuse(r) \/ Select(r)
           \/ CompareEqual(r) \/ CompareRetired(r)
           \/ SwapWon(r) \/ SwapLost(r) \/ SwapFails(r)
           \/ GraceCheck(r) \/ Validate(r) \/ Revoke(r)

-----------------------------------------------------------------------------
(* Around the requests *)

\* Logout, a password change, an administrator, expiry.
EndSession ==
  /\ row # None
  /\ row' = None
  /\ UNCHANGED <<newest, booted, entry, pc, Sent, alone>>

Tick ==
  /\ entry # None /\ entry.age < Grace
  /\ entry' = [entry EXCEPT !.age = @ + 1]
  /\ UNCHANGED <<Session, pc, Sent, alone>>

Restart ==
  /\ booted' = newest
  /\ entry' = None
  /\ pc' = [r \in Requests |-> IF pc[r] \in Steps THEN "error" ELSE pc[r]]
  /\ alone' = {}
  /\ UNCHANGED <<row, newest, Sent>>

Next == \/ \E r \in Requests : Send(r) \/ Step(r)
        \/ EndSession \/ Tick \/ Restart

\* A request the process has begun is driven on by the event loop.
Fairness == \A r \in Requests : WF_vars(Step(r))

Spec == Init /\ [][Next]_vars /\ Fairness

-----------------------------------------------------------------------------
(* Properties *)

\* The detailed session keeps what OneTokenSession promises, whatever the
\* requests' interleaving: only the current token is traded, each once, and
\* an ended session serves nobody ("A session accepts exactly one
\* refresh token", auth.py:544).
Promise == INSTANCE OneTokenSession WITH
             live <- row # None,
             current <- newest,
             token <- tok,
             told <- [r \in Requests |->
                        CASE pc[r] = "unsent" -> "unasked"
                          [] pc[r] \in Steps -> "waits"
                          [] OTHER -> pc[r]]
Refinement == Promise!Spec

\* "Two requests from one browser can carry the same cookie": when nothing
\* but duplicates of one token is in play, a request that was sent while its
\* token was current is taken for a replay only when the grace has run out,
\* whichever of them resumes first (auth.py:503, 565).
SameTokenTabsSurvive ==
  [][\A r \in alone : pc[r] = "gracecheck" /\ pc'[r] = "revoke" =>
       \/ row = None
       \/ entry # None /\ entry.tok = tok[r] /\ entry.age = Grace]_vars

\* Every refresh is answered.
EveryRefreshAnswered ==
  \A r \in Requests : pc[r] = "select" ~> pc[r] \in Answers

\* "session id -> (hash of the refresh token the latest rotation replaced,
\* when)" (auth.py:510): with no write under way and none that failed, the
\* entry names the token the latest rotation of this process replaced.
EntryNamesTheReplaced ==
  /\ row # None /\ row > booted
  /\ \A r \in Requests : pc[r] \notin {"swap", "error"}
  => entry # None /\ entry.tok = row - 1
=============================================================================
