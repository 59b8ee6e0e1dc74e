-------------------------------- MODULE Vpn --------------------------------
(***************************************************************************)
(* Tunnels into customer networks: the connection registry, the routes     *)
(* people use, and the site collector                                      *)
(* (src/app/services/vpn_manager.py, src/app/web/routes/vpn.py,            *)
(* src/app/services/site_collector.py,                                     *)
(* src/app/services/vpn_backends/wireguard.py).                            *)
(*                                                                         *)
(* A flow is a coroutine: one request of a person, or one collection       *)
(* cycle.  Only connect takes the registry lock; everything else reads and *)
(* writes the registry between awaits.  wg-quick runs in a process of its  *)
(* own: a flow that times out or is cancelled leaves it running.  Profiles *)
(* are WireGuard profiles bound to a customer.                             *)
(***************************************************************************)
EXTENDS Naturals, FiniteSets

CONSTANTS Profiles,
          Requests,     \* people's calls; each runs once
          Collector,    \* the collection cycle, as sybr-system
          MaxCancels,   \* how often its task is cancelled (stop, restart)
          DownMayFail,  \* may "wg-quick down" refuse?
          None

Flows == Requests \cup {Collector}

ASSUME CollectorAssumption == Collector \notin Requests /\ None \notin Flows
ASSUME CancelsAssumption == MaxCancels \in Nat /\ DownMayFail \in BOOLEAN

\* A registry entry is named by the flow that registered it and its profile.
Entries == Flows \X Profiles

VARIABLES exists,   \* profiles that have a row
          conn,     \* _connections: profile -> flow whose entry is there, or None
          state,    \* profile -> VpnState of the entry that is there
          iface,    \* entry -> has "interface" been recorded?
          lock,     \* _registry_lock: its holder, or None
          up, down, \* entry's flow and profile -> that wg-quick process
          link,     \* profile -> flow whose wg-quick made the interface, or None
          at,       \* flow -> the await it is at
          kind, on, \* flow -> what it does, and to which profile
          ref,      \* flow -> owner of the entry its disconnect looked up, or None
          left,     \* flow -> entries its loop has still to visit
          sweep,    \* is the collector in collect_all's finally?
          cancels,  \* cancellations so far
          revived,  \* history: profiles whose entry is the collector's and was
                    \* written by a person's connect
          missed    \* history: profiles the sweep had yet to close when its task
                    \* was cancelled once more

registry == <<conn, state, iface>>
processes == <<up, down, link>>
place == <<at, kind, on>>
history == <<revived, missed>>
vars == <<exists, registry, lock, processes, place, ref, left, sweep, cancels, history>>

States == {"none", "connecting", "connected", "disconnecting", "error"}

TypeOK ==
  /\ exists \subseteq Profiles
  /\ conn \in [Profiles -> Flows \cup {None}]
  /\ state \in [Profiles -> States]
  /\ \A p \in Profiles : conn[p] = None <=> state[p] = "none"
  /\ iface \in [Entries -> BOOLEAN]
  /\ lock \in Flows \cup {None}
  /\ up \in [Entries -> {"none", "running", "up", "failed"}]
  /\ down \in [Entries -> {"none", "running", "astray", "done"}]
  /\ link \in [Profiles -> Flows \cup {None}]
  /\ at \in [Flows -> {"idle", "guarded", "locking", "dialing", "reading", "closing",
                       "downing", "closed", "deleting", "between", "over"}]
  /\ kind \in [Flows -> {"none", "connect", "disconnect", "force", "delete", "collect"}]
  /\ on \in [Flows -> Profiles \cup {None}]
  /\ ref \in [Flows -> Flows \cup {None}]
  /\ left \in [Flows -> SUBSET Entries]
  /\ sweep \in BOOLEAN
  /\ cancels \in 0 .. MaxCancels
  /\ revived \subseteq Profiles /\ missed \subseteq Profiles

Init ==
  /\ exists = Profiles
  /\ conn = [p \in Profiles |-> None]
  /\ state = [p \in Profiles |-> "none"]
  /\ iface = [e \in Entries |-> FALSE]
  /\ lock = None
  /\ up = [e \in Entries |-> "none"]
  /\ down = [e \in Entries |-> "none"]
  /\ link = [p \in Profiles |-> None]
  /\ at = [f \in Flows |-> "idle"]
  /\ kind = [f \in Flows |-> "none"]
  /\ on = [f \in Flows |-> None]
  /\ ref = [f \in Flows |-> None]
  /\ left = [f \in Flows |-> {}]
  /\ sweep = FALSE
  /\ cancels = 0
  /\ revived = {} /\ missed = {}

-----------------------------------------------------------------------------
(* Reading the registry *)

Listed(p) == conn[p] # None
EntryOf(p) == <<conn[p], p>>

\* _is_connected
IsConnected(p) == Listed(p) /\ state[p] \in {"connected", "connecting"}

\* system_held: what makes the routes refuse.
SystemHeld == {p \in Profiles : conn[p] = Collector /\ IsConnected(p)}

\* At "between" a flow awaits nothing (the collector from one site to the next,
\* a forced disconnect before it lists the entries): the event loop runs nobody
\* else.
MayRun(f) == \A g \in Flows \ {f} : at[g] # "between"

Mine(f) == <<f, on[f]>>

\* The next await of f; what it does, and to which profile, ends with it.
Turns(f, where, what, p) ==
  /\ at' = [at EXCEPT ![f] = where]
  /\ kind' = [kind EXCEPT ![f] = IF where = "over" THEN "none" ELSE what]
  /\ on' = [on EXCEPT ![f] = IF where = "over" THEN None ELSE p]
Goes(f, where) == Turns(f, where, kind[f], on[f])

\* Where connect returns to: the route answers; collect_site takes any dict it
\* gets for an open tunnel (its "state" is never "error") and reads the site.
AfterConnect(f) == IF f = Collector THEN "reading" ELSE "over"
\* ... and where an exception out of connect leads.
AfterRaise(f) == IF f = Collector THEN "between" ELSE "over"
\* Where disconnect returns to.
AfterDisconnect(f) == CASE kind[f] \in {"collect", "force"} -> "between"
                        [] kind[f] = "delete" -> "closed"
                        [] OTHER -> "over"

-----------------------------------------------------------------------------
(* connect *)

\* Under the lock: refuse a live profile, else await get_profile.
Check(f) ==
  /\ at[f] = "guarded" /\ kind[f] \in {"connect", "collect"}
  /\ lock = None
  /\ IF IsConnected(on[f]) THEN Goes(f, AfterConnect(f)) /\ UNCHANGED lock
     ELSE Goes(f, "locking") /\ lock' = f
  /\ UNCHANGED <<exists, registry, processes, ref, left, sweep, cancels, history>>

\* No such profile, or no privilege to control VPNs: nothing is registered.
ConnectRefused(f) ==
  /\ at[f] = "locking"
  /\ Goes(f, AfterConnect(f)) /\ lock' = None
  /\ UNCHANGED <<exists, registry, processes, ref, left, sweep, cancels, history>>

\* (A mutation: the entry is forgotten in the registry when secrets miss.)
SecretsMissingKeepsEntry(f) ==
  /\ at[f] = "locking" /\ on[f] \in exists
  /\ conn' = [conn EXCEPT ![on[f]] = f]
  /\ state' = [state EXCEPT ![on[f]] = "connecting"]
  /\ Goes(f, AfterConnect(f)) /\ lock' = None
  /\ UNCHANGED <<exists, iface, processes, ref, left, sweep, cancels, history>>

\* Stored secrets are missing: the entry is registered and deleted at once.
SecretsMissing(f) ==
  /\ at[f] = "locking" /\ on[f] \in exists
  /\ conn' = [conn EXCEPT ![on[f]] = None]
  /\ state' = [state EXCEPT ![on[f]] = "none"]
  /\ Goes(f, AfterConnect(f)) /\ lock' = None
  /\ UNCHANGED <<exists, iface, processes, ref, left, sweep, cancels, history>>

\* The entry is registered, the lock released and wg-quick started.
Register(f) ==
  /\ at[f] = "locking" /\ on[f] \in exists
  /\ conn' = [conn EXCEPT ![on[f]] = f]
  /\ state' = [state EXCEPT ![on[f]] = "connecting"]
  /\ up' = [up EXCEPT ![Mine(f)] = "running"]
  /\ Goes(f, "dialing") /\ lock' = None
  /\ UNCHANGED <<exists, iface, down, link, ref, left, sweep, cancels, history>>

\* (A mutation: the result is written even if the entry is gone.)
DialedBlindly(f, connected) ==
  LET p == on[f] IN
  /\ state' = [state EXCEPT ![p] = IF connected THEN "connected" ELSE "error"]
  /\ Goes(f, AfterConnect(f))
  /\ UNCHANGED <<exists, conn, iface, lock, down, link, ref, left, sweep, cancels, history>>

\* connect writes its result to whatever entry the profile has now; if there is
\* none, the KeyError in its handler leaves connect as an exception.
Dialed(f, connected) ==
  LET p == on[f] IN
  /\ IF Listed(p)
     THEN /\ state' = [state EXCEPT ![p] = IF connected THEN "connected" ELSE "error"]
          /\ iface' = [iface EXCEPT ![EntryOf(p)] = @ \/ connected]
          /\ revived' = IF conn[p] = Collector /\ f # Collector
                        THEN revived \cup {p} ELSE revived
          /\ Goes(f, AfterConnect(f))
     ELSE Goes(f, AfterRaise(f)) /\ UNCHANGED <<state, iface, revived>>
  /\ UNCHANGED <<exists, conn, lock, down, link, ref, left, sweep, cancels, missed>>

DialReturns(f) ==
  /\ at[f] = "dialing" /\ up[Mine(f)] \in {"up", "failed"}
  /\ up' = [up EXCEPT ![Mine(f)] = "none"]
  /\ Dialed(f, up[Mine(f)] = "up")

\* _run's 30 seconds pass; the process is not killed.
DialTimeout(f) ==
  /\ at[f] = "dialing" /\ up[Mine(f)] = "running"
  /\ UNCHANGED up
  /\ Dialed(f, FALSE)

-----------------------------------------------------------------------------
(* wg-quick, outside the event loop *)

Awaited(f, p) == at[f] = "dialing" /\ on[f] = p

\* "wg-quick up" makes the interface unless there is one already.
WgQuickUp(f, p) ==
  /\ up[<<f, p>>] = "running"
  /\ \E made \in BOOLEAN :
       /\ made => link[p] = None
       /\ link' = IF made THEN [link EXCEPT ![p] = f] ELSE link
       /\ up' = [up EXCEPT ![<<f, p>>] = IF ~Awaited(f, p) THEN "none"
                                     ELSE IF made THEN "up" ELSE "failed"]
  /\ UNCHANGED <<exists, registry, lock, down, place, ref, left, sweep, cancels, history>>

\* "wg-quick down" removes the profile's interface, whoever made it, or refuses
\* (disconnect does not look); one run on the default name, because no interface
\* was recorded, removes nothing.
WgQuickDown(f, p) ==
  /\ down[<<f, p>>] \in {"running", "astray"}
  /\ \E refuses \in {FALSE, DownMayFail} :
       link' = [link EXCEPT ![p] = IF refuses \/ down[<<f, p>>] = "astray" THEN @ ELSE None]
  /\ down' = [down EXCEPT ![<<f, p>>] = IF at[f] = "downing" /\ on[f] = p THEN "done" ELSE "none"]
  /\ UNCHANGED <<exists, registry, lock, up, place, ref, left, sweep, cancels, history>>

-----------------------------------------------------------------------------
(* disconnect *)

\* Find the entry and mark it; what is not listed needs no closing.
CloseTo(f, p) ==
  IF Listed(p)
  THEN /\ state' = [state EXCEPT ![p] = "disconnecting"]
       /\ ref' = [ref EXCEPT ![f] = conn[p]]
       /\ Turns(f, "closing", kind[f], p)
  ELSE Goes(f, AfterDisconnect(f)) /\ UNCHANGED <<state, ref>>

\* The profile was read: run wg-quick down on the recorded interface.  A
\* deleted profile has no protocol, and nothing is run.
Launch(f) ==
  /\ at[f] = "closing"
  /\ down' = [down EXCEPT ![Mine(f)] =
                CASE on[f] \notin exists -> "done"
                  [] on[f] \in exists /\ iface[<<ref[f], on[f]>>] -> "running"
                  [] OTHER -> "astray"]
  /\ Goes(f, "downing")
  /\ UNCHANGED <<exists, registry, lock, up, link, ref, left, sweep, cancels, history>>

\* del _connections[target], whichever entry that is by now; if it is gone the
\* KeyError marks the entry that was looked up, where nobody sees it.
Forget(f) ==
  /\ at[f] = "downing" /\ down[Mine(f)] = "done"
  /\ conn' = [conn EXCEPT ![on[f]] = None]
  /\ state' = [state EXCEPT ![on[f]] = "none"]
  /\ down' = [down EXCEPT ![Mine(f)] = "none"]
  /\ ref' = [ref EXCEPT ![f] = None]
  /\ Goes(f, AfterDisconnect(f))
  /\ UNCHANGED <<exists, iface, lock, up, link, left, sweep, cancels, history>>

\* _run's 30 seconds pass: the entry is marked and stays.
DownTimeout(f) ==
  /\ at[f] = "downing" /\ down[Mine(f)] \in {"running", "astray"}
  /\ state' = IF conn[on[f]] = ref[f] THEN [state EXCEPT ![on[f]] = "error"] ELSE state
  /\ ref' = [ref EXCEPT ![f] = None]
  /\ Goes(f, AfterDisconnect(f))
  /\ UNCHANGED <<exists, conn, iface, lock, processes, left, sweep, cancels, history>>

-----------------------------------------------------------------------------
(* People: the routes *)

\* _refuse_if_system_holds_tunnels, looked at once, before the profile is read.
Guard(r, p, what) ==
  /\ MayRun(r)
  /\ at[r] = "idle"
  /\ Turns(r, IF SystemHeld # {} THEN "over" ELSE "guarded", what, p)
  /\ UNCHANGED <<exists, registry, lock, processes, ref, left, sweep, cancels, history>>

\* vpn_disconnect: the named profile, or the caller's first live one; it must
\* still have a row.
PersonDisconnects(r) ==
  /\ at[r] = "guarded" /\ kind[r] = "disconnect"
  /\ IF on[r] \in exists THEN CloseTo(r, on[r])
     ELSE Goes(r, "over") /\ UNCHANGED <<state, ref>>
  /\ UNCHANGED <<exists, conn, iface, lock, processes, left, sweep, cancels, history>>

\* delete_profile: a live tunnel is disconnected first.
PersonDeletes(r) ==
  /\ at[r] = "guarded" /\ kind[r] = "delete"
  /\ IF on[r] \notin exists THEN Goes(r, "over") /\ UNCHANGED <<state, ref>>
     ELSE IF IsConnected(on[r]) THEN CloseTo(r, on[r])
     ELSE Goes(r, "closed") /\ UNCHANGED <<state, ref>>
  /\ UNCHANGED <<exists, conn, iface, lock, processes, left, sweep, cancels, history>>

\* ... and then the row goes, whatever disconnect answered.
DeleteRow(r) ==
  /\ at[r] = "closed" /\ kind[r] = "delete"
  /\ exists' = exists \ {on[r]}
  /\ Goes(r, "over")
  /\ UNCHANGED <<registry, lock, processes, ref, left, sweep, cancels, history>>

\* vpn_force_disconnect: first the graceful way, for the first connected profile.
ForceBegins(r) ==
  /\ at[r] = "guarded" /\ kind[r] = "force"
  /\ LET active == {p \in Profiles : Listed(p) /\ state[p] = "connected"} IN
     IF active = {} THEN Goes(r, "between") /\ UNCHANGED <<state, ref>>
     ELSE \E p \in active : CloseTo(r, p)
  /\ UNCHANGED <<exists, conn, iface, lock, processes, left, sweep, cancels, history>>

\* Then every entry that is listed at this moment ...
ForceLists(r) ==
  /\ at[r] = "between" /\ kind[r] = "force"
  /\ left' = [left EXCEPT ![r] = {EntryOf(p) : p \in {q \in Profiles : Listed(q)}}]
  /\ Goes(r, "deleting")
  /\ UNCHANGED <<exists, registry, lock, processes, ref, sweep, cancels, history>>

\* ... has its interface deleted, in a thread ...
ForceDeletes(r) ==
  /\ at[r] = "deleting"
  /\ \E e \in left[r] :
       /\ left' = [left EXCEPT ![r] = @ \ {e}]
       /\ link' = [link EXCEPT ![e[2]] = IF iface[e] THEN None ELSE @]
  /\ UNCHANGED <<exists, registry, lock, up, down, place, ref, sweep, cancels, history>>

\* ... and the whole registry is cleared.
ForceClears(r) ==
  /\ at[r] = "deleting" /\ left[r] = {}
  /\ conn' = [p \in Profiles |-> None]
  /\ state' = [p \in Profiles |-> "none"]
  /\ Goes(r, "over")
  /\ UNCHANGED <<exists, iface, lock, processes, ref, left, sweep, cancels, history>>

-----------------------------------------------------------------------------
(* The site collector *)

CollectorStarts ==
  /\ MayRun(Collector)
  /\ at[Collector] = "idle"
  /\ left' = [left EXCEPT ![Collector] = {Collector} \X exists]
  /\ Turns(Collector, "between", "collect", None)
  /\ UNCHANGED <<exists, registry, lock, processes, ref, sweep, cancels, history>>

\* collect_site up to its first await: a person's live tunnel is skipped;
\* connect goes straight on if the registry lock is free.
Visit(p) ==
  /\ at[Collector] = "between" /\ ~sweep
  /\ <<Collector, p>> \in left[Collector]
  /\ left' = [left EXCEPT ![Collector] = @ \ {<<Collector, p>>}]
  /\ LET goes == CASE IsConnected(p) /\ conn[p] # Collector -> "between"
                   [] lock # None -> "guarded"
                   [] lock = None /\ IsConnected(p) -> "reading"
                   [] OTHER -> "locking"
     IN /\ Turns(Collector, goes, "collect", p)
        /\ lock' = IF goes = "locking" THEN Collector ELSE lock
  /\ UNCHANGED <<exists, registry, processes, ref, sweep, cancels, history>>

\* The audit answers, fails or runs into the site's timeout: disconnect.
Read ==
  /\ at[Collector] = "reading"
  /\ CloseTo(Collector, on[Collector])
  /\ UNCHANGED <<exists, conn, iface, lock, processes, left, sweep, cancels, history>>

\* (A mutation: the sweep believes the loop closed everything.)
SweepNothing ==
  /\ at[Collector] = "between" /\ ~sweep /\ left[Collector] = {}
  /\ sweep' = TRUE /\ UNCHANGED left
  /\ UNCHANGED <<exists, registry, lock, processes, place, ref, cancels, history>>

\* collect_all's finally: what the system account still holds at this moment.
SweepBegins ==
  /\ at[Collector] = "between" /\ ~sweep /\ left[Collector] = {}
  /\ sweep' = TRUE
  /\ left' = [left EXCEPT ![Collector] = {Collector} \X SystemHeld]
  /\ UNCHANGED <<exists, registry, lock, processes, place, ref, cancels, history>>

SweepCloses(p) ==
  /\ at[Collector] = "between" /\ sweep
  /\ <<Collector, p>> \in left[Collector]
  /\ left' = [left EXCEPT ![Collector] = @ \ {<<Collector, p>>}]
  /\ CloseTo(Collector, p)
  /\ UNCHANGED <<exists, conn, iface, lock, processes, sweep, cancels, history>>

CollectorEnds ==
  /\ at[Collector] = "between" /\ sweep /\ left[Collector] = {}
  /\ Goes(Collector, "over")
  /\ UNCHANGED <<exists, registry, lock, processes, ref, left, sweep, cancels, history>>

\* What a sweep that is cancelled does not come to.
Unswept == {p \in Profiles : sweep /\ <<Collector, p>> \in left[Collector]}

\* (A mutation: a cancelled waiter leaves with the registry lock.)
CancelKeepsLock ==
  /\ MayRun(Collector)
  /\ cancels < MaxCancels /\ cancels' = cancels + 1
  /\ at[Collector] \in {"guarded", "locking", "dialing", "closing", "downing"}
  /\ Goes(Collector, IF sweep THEN "over" ELSE "between")
  /\ left' = [left EXCEPT ![Collector] = {}]
  /\ ref' = [ref EXCEPT ![Collector] = None]
  /\ missed' = missed \cup Unswept
  /\ UNCHANGED <<exists, registry, lock, processes, sweep, revived>>

\* The task is cancelled: CancelledError passes every "except Exception".  The
\* loop goes to the sweep, the sweep to its end; the lock is released.
Cancel ==
  /\ MayRun(Collector)
  /\ cancels < MaxCancels /\ cancels' = cancels + 1
  /\ at[Collector] \in {"guarded", "locking", "dialing", "closing", "downing"}
  /\ Goes(Collector, IF sweep THEN "over" ELSE "between")
  /\ left' = [left EXCEPT ![Collector] = {}]
  /\ ref' = [ref EXCEPT ![Collector] = None]
  /\ lock' = IF lock = Collector THEN None ELSE lock
  /\ missed' = missed \cup Unswept
  /\ UNCHANGED <<exists, registry, processes, sweep, revived>>

\* While a site is read, collect_site's finally still disconnects first.
CancelReading ==
  /\ MayRun(Collector)
  /\ cancels < MaxCancels /\ cancels' = cancels + 1
  /\ at[Collector] = "reading"
  /\ CloseTo(Collector, on[Collector])
  /\ left' = [left EXCEPT ![Collector] = {}]
  /\ UNCHANGED <<exists, conn, iface, lock, processes, sweep, history>>

-----------------------------------------------------------------------------
ConnectStep(f) == Check(f) \/ ConnectRefused(f) \/ SecretsMissing(f) \/ Register(f)
                  \/ DialReturns(f) \/ DialTimeout(f)
DisconnectStep(f) == Launch(f) \/ Forget(f) \/ DownTimeout(f)

PersonStep(r) == MayRun(r) /\ \/ ConnectStep(r) \/ DisconnectStep(r)
                               \/ PersonDisconnects(r) \/ PersonDeletes(r) \/ DeleteRow(r)
                               \/ ForceBegins(r) \/ ForceLists(r)
                               \/ ForceDeletes(r) \/ ForceClears(r)

CollectorStep == MayRun(Collector) /\
                 \/ ConnectStep(Collector) \/ DisconnectStep(Collector)
                 \/ Read \/ SweepBegins \/ CollectorEnds
                 \/ \E p \in Profiles : Visit(p) \/ SweepCloses(p)

Processes == \E f \in Flows, p \in Profiles :
               WgQuickUp(f, p) \/ WgQuickDown(f, p)

Next ==
  \/ \E r \in Requests, p \in Profiles, what \in {"connect", "disconnect", "force", "delete"} :
       Guard(r, p, what)
  \/ \E r \in Requests : PersonStep(r)
  \/ CollectorStarts
  \/ CollectorStep
  \/ Cancel \/ CancelReading
  \/ Processes

\* A flow that has something to run is run, and asyncio's timers fire; nothing
\* is assumed of wg-quick, of the clicks or of the schedule.
Fairness == /\ \A r \in Requests : WF_vars(PersonStep(r))
            /\ WF_vars(CollectorStep)

Spec == Init /\ [][Next]_vars /\ Fairness

-----------------------------------------------------------------------------
(* What is promised *)

\* Once the collection cycle is over, however it ended and whatever people did
\* meanwhile, the system account holds no tunnel and the routes let people
\* through again.  The exceptions are a profile whose entry a person's late
\* connect wrote to after the collector had given it up, and what a sweep that
\* is itself cancelled has not come to: nobody lets go of those.
HoldReleased == at[Collector] = "over" => SystemHeld \subseteq revived \cup missed

\* An entry that says "connecting" has a connect at work on it, or a collector
\* that has yet to sweep, unless its sweep was cancelled before it: no profile
\* stays "already connected" for nothing.
NoIdleDial ==
  \A p \in Profiles : Listed(p) /\ state[p] = "connecting" =>
    \/ at[conn[p]] = "dialing" /\ on[conn[p]] = p
    \/ conn[p] = Collector /\ (at[Collector] # "over" \/ p \in missed)

\* Whatever hangs, fails or is cancelled, every call and the collection itself
\* come to an end: nobody keeps the registry lock others wait for.
EveryFlowEnds == \A f \in Flows : at[f] # "idle" ~> at[f] = "over"

\* "The tunnel always comes down" (site_collector.py:13): when the collection
\* is over, no interface its connects made is up.
TunnelComesDown == at[Collector] = "over" => \A p \in Profiles : link[p] # Collector

\* "It never takes a tunnel from a person" (site_collector.py:18): the collector
\* never starts to disconnect a live entry that a person registered.
HumansKeepTheirTunnel ==
  [][\A p \in Profiles :
       conn[p] \in Requests /\ IsConnected(p) =>
         ~(at[Collector] # "closing" /\ at'[Collector] = "closing" /\ on'[Collector] = p)]_vars
=============================================================================
