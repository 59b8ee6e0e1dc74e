------------------------ MODULE VpnAndSchedule_proofs ------------------------
(***************************************************************************)
(* The scheduled collection: the tunnels it and people open, and the       *)
(* scheduler whose loop runs it.                                           *)
(*                                                                         *)
(* Vpn, for any profiles, requests and cancellations.  That the collector  *)
(* leaves no tunnel and that nobody dials for a call that is over are not  *)
(* inductive: beside the types, a step must know which profile a flow      *)
(* awaits, where the collection is in its cycle, that every tunnel the     *)
(* collector has not closed is on the list of its sweep (or was when the   *)
(* sweep was cancelled), and that whoever registered an entry is dialing.  *)
(* Every await of every flow is one Turn, so one lemma (FlowStep) carries  *)
(* the invariant over a step of a flow, and each action only has to say    *)
(* which entries it touches.                                               *)
(*                                                                         *)
(* Schedule, for any tasks and any breaker limit: loops follow the lock,   *)
(* and a web process never runs a task twice at once.  Each is inductive   *)
(* given the types: the loops a process has can only come from the lock it *)
(* holds or from restart_task, and each runner starts only where the       *)
(* task's own lock was free.                                               *)
(***************************************************************************)
EXTENDS Vpn, Schedule, TLAPS

-----------------------------------------------------------------------------
(* Vpn: what is carried from step to step *)

Places == {"idle", "guarded", "locking", "dialing", "reading", "closing",
           "downing", "closed", "deleting", "between", "over"}
Kinds == {"none", "connect", "disconnect", "force", "delete", "collect"}

\* A flow that awaits something of a profile knows which, and a disconnect knows
\* whose entry it marked.
Bound(f) ==
  /\ at[f] \in {"guarded", "locking", "dialing", "reading", "closing", "downing"} =>
       on[f] \in Profiles
  /\ at[f] \in {"closing", "downing"} => ref[f] \in Flows

\* Where the collection is in its cycle.
InCycle ==
  /\ at[Collector] \notin {"idle", "over"} => kind[Collector] = "collect"
  /\ at[Collector] = "over" => sweep /\ left[Collector] = {}
  /\ sweep => at[Collector] \in {"between", "closing", "downing", "over"}

\* A tunnel the collector has not let go of is one its sweep comes to.
Awaits(p) == ~sweep \/ <<Collector, p>> \in left[Collector] \/ p \in missed
Accounted ==
  \A p \in Profiles :
    conn[p] = Collector /\ (state[p] = "connecting" \/ (state[p] = "connected" /\ p \notin revived))
      => Awaits(p)

\* Who registered an entry dials it, unless it is a collector that was cancelled.
Dialling ==
  \A p \in Profiles : state[p] = "connecting" =>
    (at[conn[p]] = "dialing" /\ on[conn[p]] = p) \/ conn[p] = Collector

\* The inductive invariant.
IInv == TypeOK /\ (\A f \in Flows : Bound(f)) /\ InCycle /\ Accounted /\ Dialling

-----------------------------------------------------------------------------
(* Flows and their steps *)

\* The collector is a flow beside the requests, and no flow is None.
LEMMA FlowsAreNotNone ==
  /\ Collector \in Flows /\ None \notin Flows
  /\ \A r \in Requests : r # Collector /\ r \in Flows
BY CollectorAssumption DEF Flows

\* At the start no flow is under way and no entry is registered.
LEMMA InitIInv == Init => IInv
<1> SUFFICES ASSUME Init PROVE IInv
  OBVIOUS
<1>1. TypeOK
  <2>1. /\ lock \in Flows \cup {None} /\ exists \subseteq Profiles
        /\ revived \subseteq Profiles /\ missed \subseteq Profiles /\ sweep \in BOOLEAN
    BY DEF Init
  <2>2. /\ conn \in [Profiles -> Flows \cup {None}] /\ state \in [Profiles -> States]
        /\ \A p \in Profiles : conn[p] = None <=> state[p] = "none"
        /\ link \in [Profiles -> Flows \cup {None}]
    BY DEF Init, States
  <2>3. /\ iface \in [Entries -> BOOLEAN]
        /\ up \in [Entries -> {"none", "running", "up", "failed"}]
        /\ down \in [Entries -> {"none", "running", "astray", "done"}]
    BY DEF Init
  <2>4. /\ at \in [Flows -> Places] /\ kind \in [Flows -> Kinds]
        /\ on \in [Flows -> Profiles \cup {None}] /\ ref \in [Flows -> Flows \cup {None}]
        /\ left \in [Flows -> SUBSET Entries]
    BY DEF Init, Places, Kinds
  <2>5. cancels \in 0 .. MaxCancels
    BY CancelsAssumption DEF Init
  <2> QED BY <2>1, <2>2, <2>3, <2>4, <2>5 DEF TypeOK, Places, Kinds
<1>2. /\ \A f \in Flows : at[f] = "idle"
      /\ \A p \in Profiles : state[p] = "none"
      /\ sweep = FALSE /\ Collector \in Flows
  BY FlowsAreNotNone DEF Init
<1> QED BY <1>1, <1>2 DEF IInv, Bound, InCycle, Accounted, Dialling

\* A step of flow f from one await to another.
LEMMA TurnFacts ==
  ASSUME TypeOK, NEW f \in Flows, NEW where \in Places, NEW what \in Kinds,
         NEW p \in Profiles \cup {None}, Turns(f, where, what, p)
  PROVE  /\ at' \in [Flows -> Places] /\ kind' \in [Flows -> Kinds]
         /\ on' \in [Flows -> Profiles \cup {None}]
         /\ at'[f] = where
         /\ where # "over" => kind'[f] = what /\ on'[f] = p
         /\ \A g \in Flows \ {f} : at'[g] = at[g] /\ kind'[g] = kind[g] /\ on'[g] = on[g]
BY DEF TypeOK, Turns, Places, Kinds

\* What a step of flow f may do to the rest.
LEMMA FlowStep ==
  ASSUME IInv, TypeOK', NEW f \in Flows, NEW where \in Places, NEW what \in Kinds,
         NEW p \in Profiles \cup {None}, Turns(f, where, what, p),
         where \in {"guarded", "locking", "dialing", "reading", "closing", "downing"} => p \in Profiles,
         where \in {"closing", "downing"} => ref'[f] \in Flows,
         \A g \in Flows \ {f} : ref'[g] = ref[g],
         f = Collector =>
            /\ what = "collect"
            /\ where = "over" => sweep' /\ left'[Collector] = {}
            /\ sweep' => where \in {"between", "closing", "downing", "over"},
         f # Collector => sweep' = sweep /\ left'[Collector] = left[Collector],
         \A q \in Profiles :
           \/ state'[q] \notin {"connecting", "connected"}
           \/ /\ conn'[q] = conn[q] /\ state'[q] = state[q]
              /\ ~(at[f] = "dialing" /\ on[f] = q /\ f # Collector)
           \/ conn'[q] = conn[q] /\ state'[q] = "connected"
              /\ (conn[q] = Collector => q \in revived' \/ ~sweep')
           \/ conn'[q] = f /\ where = "dialing" /\ p = q /\ ~(f = Collector /\ sweep'),
         revived \subseteq revived',
         \A q \in Profiles : Awaits(q) => Awaits(q)' \/ state'[q] \notin {"connecting", "connected"}
  PROVE  IInv'
<1>1. /\ at'[f] = where /\ (where # "over" => kind'[f] = what /\ on'[f] = p)
      /\ \A g \in Flows \ {f} : at'[g] = at[g] /\ kind'[g] = kind[g] /\ on'[g] = on[g]
  BY TurnFacts DEF IInv
<1>2. \A g \in Flows : Bound(g)'
  BY <1>1 DEF IInv, Bound
<1>3. InCycle'
  BY <1>1, FlowsAreNotNone DEF IInv, InCycle
<1>4. Accounted'
  <2> SUFFICES ASSUME NEW q \in Profiles, conn'[q] = Collector,
                      state'[q] = "connecting" \/ (state'[q] = "connected" /\ q \notin revived')
               PROVE  Awaits(q)'
    BY DEF Accounted
  <2>1. CASE conn'[q] = conn[q] /\ state'[q] = state[q]
    BY <2>1 DEF IInv, Accounted
  <2>2. CASE ~sweep'
    BY <2>2 DEF Awaits
  <2>3. CASE conn'[q] = f /\ ~(f = Collector /\ sweep')
    BY <2>2, <2>3
  <2> QED BY <2>1, <2>2, <2>3
<1>5. Dialling'
  <2> SUFFICES ASSUME NEW q \in Profiles, state'[q] = "connecting"
               PROVE  (at'[conn'[q]] = "dialing" /\ on'[conn'[q]] = q) \/ conn'[q] = Collector
    BY DEF Dialling
  <2>1. CASE conn'[q] = f /\ where = "dialing" /\ p = q
    BY <1>1, <2>1
  <2>2. CASE conn'[q] = conn[q] /\ state'[q] = state[q]
             /\ ~(at[f] = "dialing" /\ on[f] = q /\ f # Collector)
    <3>1. conn[q] \in Flows
      BY <2>2 DEF IInv, TypeOK
    <3>2. (at[conn[q]] = "dialing" /\ on[conn[q]] = q) \/ conn[q] = Collector
      BY <2>2 DEF IInv, Dialling
    <3> QED BY <1>1, <2>2, <3>1, <3>2
  <2> QED BY <2>1, <2>2
<1> QED BY <1>2, <1>3, <1>4, <1>5 DEF IInv

-----------------------------------------------------------------------------
(* The steps keep the invariant *)

\* connect: the check, the refusals, the entry and wg-quick's answer.
LEMMA ConnectKeeps ==
  ASSUME IInv, NEW f \in Flows, ConnectStep(f)
  PROVE  IInv'
<1> USE FlowsAreNotNone
<1>1. TypeOK /\ Bound(f) /\ InCycle
  BY DEF IInv
<1>2. at[f] \in {"guarded", "locking", "dialing"} /\ on[f] \in Profiles /\ kind[f] \in Kinds
  BY <1>1 DEF ConnectStep, Check, ConnectRefused, SecretsMissing, Register, DialReturns,
     DialTimeout,
              Bound, TypeOK, Kinds
<1>3. f = Collector => kind[f] = "collect" /\ ~sweep
  BY <1>1, <1>2 DEF InCycle
<1>4. /\ AfterConnect(f) \in {"reading", "over"} /\ AfterRaise(f) \in {"between", "over"}
      /\ f = Collector => AfterConnect(f) = "reading" /\ AfterRaise(f) = "between"
  BY DEF AfterConnect, AfterRaise
<1>5. UNCHANGED <<exists, down, link, ref, left, sweep, cancels, missed>>
  BY DEF ConnectStep, Check, ConnectRefused, SecretsMissing, Register, DialReturns, DialTimeout,
         Dialed, processes, history
<1>6. CASE Check(f) \/ ConnectRefused(f)
  <2>1. PICK where \in {"locking", "reading", "over"} :
          Goes(f, where) /\ (f = Collector => where # "over") /\ lock' \in {lock, f, None}
    BY <1>4, <1>6 DEF Check, ConnectRefused
  <2>2. UNCHANGED <<conn, state, iface, up, revived>>
    BY <1>6 DEF Check, ConnectRefused, registry, processes, history
  <2>3. TypeOK'
    BY <1>1, <1>2, <1>5, <2>1, <2>2, TurnFacts DEF Goes, TypeOK, Places, Kinds
  <2> QED BY <1>2, <1>3, <1>5, <1>6, <2>1, <2>2, <2>3, FlowStep
          DEF Goes, Places, Check, ConnectRefused, Awaits
<1>7. CASE SecretsMissing(f)
  <2>1. PICK where \in {"reading", "over"} :
          Goes(f, where) /\ (f = Collector => where # "over") /\ lock' = None
    BY <1>4, <1>7 DEF SecretsMissing
  <2>2. /\ UNCHANGED <<iface, up, revived>> /\ at[f] = "locking"
        /\ conn' = [conn EXCEPT ![on[f]] = None] /\ state' = [state EXCEPT ![on[f]] = "none"]
    BY <1>7 DEF SecretsMissing, processes, history
  <2>3. TypeOK'
    BY <1>1, <1>2, <1>5, <2>1, <2>2, TurnFacts DEF Goes, TypeOK, Places, Kinds, States
  <2>4. \A q \in Profiles : state'[q] = "none" \/ (conn'[q] = conn[q] /\ state'[q] = state[q])
    BY <1>1, <1>2, <2>2 DEF TypeOK
  <2> QED BY <1>2, <1>3, <1>5, <2>1, <2>2, <2>3, <2>4, FlowStep DEF Goes, Places, Awaits
<1>8. CASE Register(f)
  <2>1. /\ Goes(f, "dialing") /\ lock' = None /\ UNCHANGED <<iface, revived>> /\ at[f] = "locking"
        /\ conn' = [conn EXCEPT ![on[f]] = f] /\ state' = [state EXCEPT ![on[f]] = "connecting"]
        /\ up' = [up EXCEPT ![<<f, on[f]>>] = "running"]
    BY <1>8 DEF Register, Mine, history
  <2>2. TypeOK'
    BY <1>1, <1>2, <1>5, <2>1, TurnFacts DEF Goes, TypeOK, Places, Kinds, States, Entries
  <2>3. \A q \in Profiles : \/ conn'[q] = f /\ q = on[f]
                            \/ conn'[q] = conn[q] /\ state'[q] = state[q]
    BY <1>1, <1>2, <2>1 DEF TypeOK
  <2> QED BY <1>2, <1>3, <1>5, <2>1, <2>2, <2>3, FlowStep DEF Goes, Places, Awaits
<1>9. CASE DialReturns(f) \/ DialTimeout(f)
  <2>1. PICK connected \in BOOLEAN : Dialed(f, connected)
    BY <1>9 DEF DialReturns, DialTimeout
  <2>2. /\ UNCHANGED <<conn, lock>> /\ at[f] = "dialing"
        /\ up' \in [Entries -> {"none", "running", "up", "failed"}]
    BY <1>1, <1>2, <1>9, <2>1 DEF DialReturns, DialTimeout, Dialed, TypeOK
  <2>3. PICK where \in {"reading", "over", "between"} :
          Goes(f, where) /\ (f = Collector => where # "over")
    BY <1>4, <2>1 DEF Dialed
  <2>4. /\ iface' \in [Entries -> BOOLEAN]
        /\ \A q \in Profiles \ {on[f]} : state'[q] = state[q]
        /\ state' \in [Profiles -> States] /\ (Listed(on[f]) => state'[on[f]] \in {"connected", "error"})
        /\ ~Listed(on[f]) => state' = state
    BY <1>1, <1>2, <2>1 DEF Dialed, TypeOK, States
  <2>5. /\ revived \subseteq revived' /\ revived' \subseteq Profiles
        /\ Listed(on[f]) /\ conn[on[f]] = Collector /\ f # Collector => on[f] \in revived'
    BY <1>1, <1>2, <2>1 DEF Dialed, TypeOK
  <2>6. \A q \in Profiles : conn[q] = None <=> state'[q] = "none"
    BY <1>1, <1>2, <2>4 DEF TypeOK, Listed
  <2>7. TypeOK'
    BY <1>1, <1>2, <1>5, <2>2, <2>3, <2>4, <2>5, <2>6, TurnFacts DEF Goes, TypeOK, Places, Kinds
  <2>8. \A q \in Profiles :
          \/ state'[q] \notin {"connecting", "connected"}
          \/ q # on[f] /\ state'[q] = state[q]
          \/ state'[q] = "connected" /\ (conn[q] = Collector => q \in revived' \/ ~sweep)
    BY <1>1, <1>2, <1>3, <2>4, <2>5, <2>6 DEF Listed
  <2> QED BY <1>2, <1>3, <1>5, <2>2, <2>3, <2>5, <2>7, <2>8, FlowStep DEF Goes, Places, Awaits
<1> QED BY <1>6, <1>7, <1>8, <1>9 DEF ConnectStep

\* What disconnect does up to its first await.
LEMMA ClosingFacts ==
  ASSUME IInv, NEW f \in Flows, NEW p \in Profiles, CloseTo(f, p),
         f = Collector => kind[f] = "collect"
  PROVE  \E where \in {"closing", "between", "closed", "over"}, q \in {p, on[f]} :
           /\ Turns(f, where, kind[f], q) /\ (where = "closing" => q \in Profiles)
           /\ f = Collector => where \in {"closing", "between"}
           /\ where = "closing" => ref'[f] \in Flows
           /\ ref' \in [Flows -> Flows \cup {None}] /\ \A g \in Flows \ {f} : ref'[g] = ref[g]
           /\ state' \in [Profiles -> States] /\ state'[p] \notin {"connecting", "connected"}
           /\ \A i \in Profiles : i # p => state'[i] = state[i]
           /\ \A i \in Profiles : conn[i] = None <=> state'[i] = "none"
<1> USE FlowsAreNotNone
<1>1. TypeOK
  BY DEF IInv
<1>2. CASE Listed(p)
  <2>1. /\ Turns(f, "closing", kind[f], p) /\ conn[p] \in Flows
        /\ state' = [state EXCEPT ![p] = "disconnecting"] /\ ref' = [ref EXCEPT ![f] = conn[p]]
    BY <1>1, <1>2 DEF CloseTo, Listed, TypeOK
  <2> QED BY <1>1, <2>1 DEF TypeOK, States
<1>3. CASE ~Listed(p)
  <2>1. Goes(f, AfterDisconnect(f)) /\ UNCHANGED <<state, ref>> /\ state[p] = "none"
    BY <1>1, <1>3 DEF CloseTo, Listed, TypeOK
  <2>2. AfterDisconnect(f) \in {"between", "closed", "over"}
        /\ (f = Collector => AfterDisconnect(f) = "between")
    BY DEF AfterDisconnect
  <2> QED BY <1>1, <2>1, <2>2 DEF Goes, TypeOK, States
<1> QED BY <1>2, <1>3

\* disconnect, from wg-quick's launch to the forgotten entry.
LEMMA DisconnectKeeps ==
  ASSUME IInv, NEW f \in Flows, DisconnectStep(f)
  PROVE  IInv'
<1> USE FlowsAreNotNone
<1>1. TypeOK /\ Bound(f) /\ InCycle
  BY DEF IInv
<1>2. /\ at[f] \in {"closing", "downing"} /\ on[f] \in Profiles /\ kind[f] \in Kinds
      /\ ref[f] \in Flows /\ (f = Collector => kind[f] = "collect")
      /\ UNCHANGED <<exists, iface, lock, up, link, left, sweep, cancels, revived, missed>>
  BY <1>1 DEF DisconnectStep, Launch, Forget, DownTimeout, Bound, InCycle, TypeOK, Kinds,
              registry, processes, history
<1>3. AfterDisconnect(f) \in {"between", "closed", "over"}
      /\ (f = Collector => AfterDisconnect(f) = "between")
  BY <1>2 DEF AfterDisconnect
<1>4. CASE Launch(f)
  <2>1. /\ Goes(f, "downing") /\ UNCHANGED <<conn, state, ref>>
        /\ down' \in [Entries -> {"none", "running", "astray", "done"}]
    BY <1>1, <1>4 DEF Launch, registry, TypeOK
  <2>2. TypeOK'
    BY <1>1, <1>2, <2>1, TurnFacts DEF Goes, TypeOK, Places, Kinds
  <2> QED BY <1>2, <2>1, <2>2, FlowStep DEF Goes, Places, Awaits
<1>5. CASE Forget(f)
  <2>1. PICK where \in {"between", "closed", "over"} :
          Goes(f, where) /\ (f = Collector => where = "between")
    BY <1>3, <1>5 DEF Forget
  <2>2. /\ conn' = [conn EXCEPT ![on[f]] = None] /\ state' = [state EXCEPT ![on[f]] = "none"]
        /\ down' = [down EXCEPT ![<<f, on[f]>>] = "none"] /\ ref' = [ref EXCEPT ![f] = None]
    BY <1>5 DEF Forget, Mine
  <2>3. TypeOK'
    <3>1. /\ conn' \in [Profiles -> Flows \cup {None}] /\ state' \in [Profiles -> States]
          /\ \A q \in Profiles : conn'[q] = None <=> state'[q] = "none"
      BY <1>1, <1>2, <2>2 DEF TypeOK, States
    <3>2. /\ down' \in [Entries -> {"none", "running", "astray", "done"}]
          /\ ref' \in [Flows -> Flows \cup {None}]
      BY <1>1, <2>2 DEF TypeOK
    <3> QED BY <1>1, <1>2, <2>1, <3>1, <3>2, TurnFacts DEF Goes, TypeOK, Places, Kinds
  <2>4. \A q \in Profiles : state'[q] = "none" \/ (conn'[q] = conn[q] /\ state'[q] = state[q])
    BY <1>1, <1>2, <2>2 DEF TypeOK
  <2>5. \A g \in Flows \ {f} : ref'[g] = ref[g]
    BY <1>1, <2>2 DEF TypeOK
  <2> QED BY <1>2, <2>1, <2>3, <2>4, <2>5, FlowStep DEF Goes, Places, Awaits
<1>6. CASE DownTimeout(f)
  <2>1. PICK where \in {"between", "closed", "over"} :
          Goes(f, where) /\ (f = Collector => where = "between")
    BY <1>3, <1>6 DEF DownTimeout
  <2>2. /\ UNCHANGED <<conn, down>> /\ ref' = [ref EXCEPT ![f] = None]
        /\ state' = IF conn[on[f]] = ref[f] THEN [state EXCEPT ![on[f]] = "error"] ELSE state
    BY <1>6 DEF DownTimeout, processes
  <2>3. /\ state' \in [Profiles -> States]
        /\ \A q \in Profiles : state'[q] = "error" \/ state'[q] = state[q]
        /\ \A q \in Profiles : conn[q] = None <=> state'[q] = "none"
    BY <1>1, <1>2, <2>2 DEF TypeOK, States
  <2>4. TypeOK'
    BY <1>1, <1>2, <2>1, <2>2, <2>3, TurnFacts DEF Goes, TypeOK, Places, Kinds
  <2>5. \A g \in Flows \ {f} : ref'[g] = ref[g]
    BY <1>1, <2>2 DEF TypeOK
  <2>6. at[f] = "downing"
    BY <1>6 DEF DownTimeout
  <2> QED BY <1>2, <2>1, <2>2, <2>3, <2>4, <2>5, <2>6, FlowStep DEF Goes, Places, Awaits
<1> QED BY <1>4, <1>5, <1>6 DEF DisconnectStep

\* What a person's call does beside connecting and disconnecting.
RouteStep(r) == \/ PersonDisconnects(r) \/ PersonDeletes(r) \/ DeleteRow(r)
                \/ ForceBegins(r) \/ ForceLists(r) \/ ForceDeletes(r) \/ ForceClears(r)

\* The routes' own steps: a force lists, deletes and clears without the lock.
LEMMA RouteKeeps ==
  ASSUME IInv, NEW r \in Requests, RouteStep(r)
  PROVE  IInv'
<1> USE FlowsAreNotNone
<1>1. TypeOK /\ Bound(r) /\ r \in Flows /\ r # Collector
  BY DEF IInv
<1>2. /\ UNCHANGED <<lock, up, down, sweep, cancels, revived, missed, iface>>
      /\ kind[r] \in Kinds
      /\ at[r] # "dialing"
  BY <1>1 DEF RouteStep, PersonDisconnects, PersonDeletes, DeleteRow, ForceBegins, ForceLists,
              ForceDeletes, ForceClears, registry, processes, history, TypeOK, Kinds
<1>3. ASSUME NEW p \in Profiles, CloseTo(r, p), UNCHANGED <<exists, conn, link, left>>
      PROVE  IInv'
  <2>1. PICK where \in {"closing", "between", "closed", "over"}, q \in {p, on[r]} :
          /\ Turns(r, where, kind[r], q) /\ (where = "closing" => q \in Profiles)
          /\ where = "closing" => ref'[r] \in Flows
          /\ ref' \in [Flows -> Flows \cup {None}] /\ \A g \in Flows \ {r} : ref'[g] = ref[g]
          /\ state' \in [Profiles -> States] /\ state'[p] \notin {"connecting", "connected"}
          /\ \A i \in Profiles : i # p => state'[i] = state[i]
          /\ \A i \in Profiles : conn[i] = None <=> state'[i] = "none"
    BY <1>1, <1>3, ClosingFacts
  <2>2. q \in Profiles \cup {None}
    BY <1>1, <2>1 DEF TypeOK
  <2>3. TypeOK'
    BY <1>1, <1>2, <1>3, <2>1, <2>2, TurnFacts DEF TypeOK, Places, Kinds
  <2> QED BY <1>1, <1>2, <1>3, <2>1, <2>2, <2>3, FlowStep DEF Places, Awaits
<1>4. ASSUME NEW where \in {"over", "closed", "between", "deleting"}, Goes(r, where),
             UNCHANGED <<conn, state, link, ref>>, exists' \subseteq exists,
             left' \in [Flows -> SUBSET Entries], left'[Collector] = left[Collector]
      PROVE  IInv'
  <2>1. TypeOK'
    BY <1>1, <1>2, <1>4, TurnFacts DEF Goes, TypeOK, Places, Kinds
  <2>2. on[r] \in Profiles \cup {None}
    BY <1>1 DEF TypeOK
  <2> QED BY <1>1, <1>2, <1>4, <2>1, <2>2, FlowStep DEF Goes, Places, Awaits
<1>5. left \in [Flows -> SUBSET Entries] /\ \A p \in Profiles : Listed(p) => EntryOf(p) \in Entries
  BY <1>1 DEF TypeOK, Listed, EntryOf, Entries
<1>6. CASE PersonDisconnects(r) \/ PersonDeletes(r)
  <2>1. UNCHANGED <<conn, link, left>> /\ on[r] \in Profiles
    BY <1>1, <1>6 DEF PersonDisconnects, PersonDeletes, Bound, processes
  <2>2. \/ CloseTo(r, on[r]) /\ exists' = exists
        \/ Goes(r, "over") /\ UNCHANGED <<state, ref, exists>>
        \/ Goes(r, "closed") /\ UNCHANGED <<state, ref, exists>>
    BY <1>6 DEF PersonDisconnects, PersonDeletes
  <2> QED BY <1>3, <1>4, <1>5, <2>1, <2>2
<1>7. CASE DeleteRow(r)
  BY <1>4, <1>5, <1>7 DEF DeleteRow, registry, processes
<1>8. CASE ForceBegins(r)
  <2>1. UNCHANGED <<exists, conn, link, left>>
    BY <1>8 DEF ForceBegins, processes
  <2>2. \/ Goes(r, "between") /\ UNCHANGED <<state, ref>>
        \/ \E p \in Profiles : CloseTo(r, p)
    BY <1>8 DEF ForceBegins
  <2> QED BY <1>3, <1>4, <1>5, <2>1, <2>2
<1>9. CASE ForceLists(r)
  <2> DEFINE listed == {EntryOf(p) : p \in {q \in Profiles : Listed(q)}}
  <2>1. listed \subseteq Entries
    BY <1>5
  <2> HIDE DEF listed
  <2>2. left' = [left EXCEPT ![r] = listed] /\ Goes(r, "deleting")
        /\ UNCHANGED <<exists, conn, state, link, ref>>
    BY <1>9 DEF ForceLists, listed, registry, processes
  <2>3. left' \in [Flows -> SUBSET Entries] /\ left'[Collector] = left[Collector]
    BY <1>1, <1>5, <2>1, <2>2
  <2> QED BY <1>4, <2>2, <2>3
<1>10. CASE ForceDeletes(r)
  <2>1. PICK e \in left[r] :
          /\ left' = [left EXCEPT ![r] = left[r] \ {e}]
          /\ link' = [link EXCEPT ![e[2]] = IF iface[e] THEN None ELSE link[e[2]]]
    BY <1>1, <1>10 DEF ForceDeletes, TypeOK
  <2>2. UNCHANGED <<exists, conn, state, at, kind, on, ref>>
    BY <1>10 DEF ForceDeletes, registry, place
  <2>3. link' \in [Profiles -> Flows \cup {None}]
    BY <1>1, <2>1 DEF TypeOK, Entries
  <2>4. left' \in [Flows -> SUBSET Entries] /\ left'[Collector] = left[Collector]
    BY <1>1, <1>5, <2>1
  <2>5. TypeOK'
    BY <1>1, <1>2, <2>2, <2>3, <2>4 DEF TypeOK
  <2> QED BY <1>2, <2>2, <2>4, <2>5 DEF IInv, Bound, InCycle, Accounted, Dialling, Awaits
<1>11. CASE ForceClears(r)
  <2>1. /\ conn' = [p \in Profiles |-> None] /\ state' = [p \in Profiles |-> "none"]
        /\ Goes(r, "over") /\ UNCHANGED <<exists, link, ref, left>>
    BY <1>11 DEF ForceClears, processes
  <2>2. /\ kind[r] \in Kinds /\ on[r] \in Profiles \cup {None}
        /\ at' \in [Flows -> Places] /\ kind' \in [Flows -> Kinds]
        /\ on' \in [Flows -> Profiles \cup {None}]
    <3>1. kind[r] \in Kinds /\ on[r] \in Profiles \cup {None}
      BY <1>1 DEF TypeOK, Kinds
    <3> QED BY <1>1, <2>1, <3>1, TurnFacts DEF Goes, Places
  <2>3. /\ conn' \in [Profiles -> Flows \cup {None}]
        /\ state' \in [Profiles -> States]
        /\ \A p \in Profiles : conn'[p] = None <=> state'[p] = "none"
    BY <2>1 DEF States
  <2>4. TypeOK'
    BY <1>1, <1>2, <2>1, <2>2, <2>3 DEF TypeOK, Places, Kinds
  <2>5. on[r] \in Profiles \cup {None} /\ \A q \in Profiles : state'[q] = "none"
    BY <1>1, <2>1 DEF TypeOK
  <2> QED BY <1>1, <1>2, <2>1, <2>4, <2>5, FlowStep DEF Goes, Places, Awaits
<1> QED BY <1>6, <1>7, <1>8, <1>9, <1>10, <1>11 DEF RouteStep

\* A call arrives and is let through to its await, or refused.
LEMMA GuardKeeps ==
  ASSUME IInv, NEW r \in Requests, NEW p \in Profiles,
         NEW what \in {"connect", "disconnect", "force", "delete"}, Guard(r, p, what)
  PROVE  IInv'
<1> USE FlowsAreNotNone
<1>1. /\ UNCHANGED <<exists, conn, state, iface, lock, up, down, link, ref, left, sweep, cancels,
                     revived, missed>>
      /\ at[r] = "idle"
  BY DEF Guard, registry, processes, history
<1>2. PICK where \in {"over", "guarded"} : Turns(r, where, what, p)
  BY DEF Guard
<1>3. TypeOK'
  BY <1>1, <1>2, TurnFacts DEF IInv, TypeOK, Places, Kinds
<1>4. what \in Kinds /\ where \in Places /\ p \in Profiles \cup {None} /\ r \in Flows /\ r # Collector
  BY DEF Kinds, Places
<1>5. \A q \in Profiles : Awaits(q) => Awaits(q)'
  BY <1>1 DEF Awaits
<1>6. ~(at[r] = "dialing")
  BY <1>1
<1> QED BY <1>1, <1>2, <1>3, <1>4, <1>5, <1>6, FlowStep

\* What the collection does beside connecting and disconnecting.
CycleStep == \/ CollectorStarts \/ Read \/ SweepBegins \/ CollectorEnds
             \/ \E p \in Profiles : Visit(p) \/ SweepCloses(p)

\* The collection's visits, reads and sweep.
LEMMA CycleKeeps ==
  ASSUME IInv, CycleStep
  PROVE  IInv'
<1> USE FlowsAreNotNone
<1>1. TypeOK /\ Bound(Collector) /\ InCycle
  BY DEF IInv
<1>2. /\ UNCHANGED <<exists, conn, iface, up, down, link, cancels, revived, missed>>
      /\ at[Collector] \notin {"dialing"}
  BY DEF CycleStep, CollectorStarts, Read, SweepBegins, CollectorEnds, Visit, SweepCloses,
         registry, processes, history
<1>3. \A S \in SUBSET Profiles : {Collector} \X S \subseteq Entries
  BY DEF Entries
<1>4. ASSUME NEW p \in Profiles, CloseTo(Collector, p), kind[Collector] = "collect",
             lock' = lock, sweep' = sweep,
             left' \in [Flows -> SUBSET Entries],
             \A q \in Profiles \ {p} : <<Collector, q>> \in left[Collector] =>
                                         <<Collector, q>> \in left'[Collector]
      PROVE  IInv'
  <2>1. PICK where \in {"closing", "between", "closed", "over"}, q \in {p, on[Collector]} :
          /\ Turns(Collector, where, kind[Collector], q) /\ (where = "closing" => q \in Profiles)
          /\ where \in {"closing", "between"}
          /\ where = "closing" => ref'[Collector] \in Flows
          /\ ref' \in [Flows -> Flows \cup {None}] /\ \A g \in Flows \ {Collector} : ref'[g] = ref[g]
          /\ state' \in [Profiles -> States] /\ state'[p] \notin {"connecting", "connected"}
          /\ \A i \in Profiles : i # p => state'[i] = state[i]
          /\ \A i \in Profiles : conn[i] = None <=> state'[i] = "none"
    BY <1>4, ClosingFacts
  <2>2. q \in Profiles \cup {None} /\ kind[Collector] \in Kinds
    BY <1>1, <1>4, <2>1 DEF TypeOK, Kinds
  <2>3. TypeOK'
    BY <1>1, <1>2, <1>4, <2>1, <2>2, TurnFacts DEF TypeOK, Places, Kinds
  <2>4. \A i \in Profiles : Awaits(i) => Awaits(i)' \/ state'[i] \notin {"connecting", "connected"}
    BY <1>2, <1>4, <2>1 DEF Awaits
  <2> QED BY <1>1, <1>2, <1>4, <2>1, <2>2, <2>3, <2>4, FlowStep DEF Places
<1>5. ASSUME NEW where \in Places, NEW q \in Profiles \cup {None},
             Turns(Collector, where, "collect", q),
             where \in {"guarded", "reading", "locking"} => q \in Profiles,
             where \in {"guarded", "reading", "locking", "between"}
               \/ (where = "over" /\ sweep /\ left'[Collector] = {}),
             sweep => where \in {"between", "over"},
             lock' \in {lock, Collector}, UNCHANGED <<state, ref, sweep>>,
             left' \in [Flows -> SUBSET Entries], sweep => left' = left
      PROVE  IInv'
  <2>1. TypeOK'
    BY <1>1, <1>2, <1>5, TurnFacts DEF TypeOK, Places, Kinds
  <2>2. "collect" \in Kinds
    BY DEF Kinds
  <2>3. \A i \in Profiles : Awaits(i) => Awaits(i)'
    BY <1>2, <1>5 DEF Awaits
  <2> QED BY <1>2, <1>5, <2>1, <2>2, <2>3, FlowStep
<1>6. CASE CollectorStarts
  <2>1. ~sweep /\ left' = [left EXCEPT ![Collector] = {Collector} \X exists]
        /\ Turns(Collector, "between", "collect", None) /\ UNCHANGED <<state, lock, ref, sweep>>
    BY <1>1, <1>6 DEF CollectorStarts, InCycle, registry
  <2>2. left' \in [Flows -> SUBSET Entries]
    BY <1>1, <1>3, <2>1 DEF TypeOK
  <2> QED BY <1>5, <2>1, <2>2 DEF Places
<1>7. ASSUME NEW p \in Profiles, Visit(p) PROVE IInv'
  <2>1. PICK where \in {"between", "guarded", "reading", "locking"} :
          Turns(Collector, where, "collect", p) /\ lock' \in {lock, Collector}
    BY <1>7 DEF Visit
  <2>2. ~sweep /\ left' = [left EXCEPT ![Collector] = left[Collector] \ {<<Collector, p>>}]
        /\ UNCHANGED <<state, ref, sweep>>
    BY <1>1, <1>7 DEF Visit, TypeOK, registry
  <2>3. left' \in [Flows -> SUBSET Entries]
    BY <1>1, <2>2 DEF TypeOK
  <2> QED BY <1>5, <2>1, <2>2, <2>3 DEF Places
<1>8. CASE Read
  BY <1>1, <1>4, <1>8 DEF Read, InCycle, Bound, TypeOK
<1>9. CASE SweepBegins
  <2>1. /\ at[Collector] = "between" /\ left[Collector] = {} /\ sweep' = TRUE
        /\ left' = [left EXCEPT ![Collector] = {Collector} \X SystemHeld]
        /\ UNCHANGED <<state, lock, at, kind, on, ref>>
    BY <1>9 DEF SweepBegins, registry, place
  <2>2. left' \in [Flows -> SUBSET Entries] /\ left'[Collector] = {Collector} \X SystemHeld
    BY <1>1, <1>3, <2>1 DEF TypeOK, SystemHeld
  <2>3. TypeOK'
    BY <1>1, <1>2, <2>1, <2>2 DEF TypeOK
  <2>4. (\A f \in Flows : Bound(f)') /\ InCycle' /\ Dialling'
    BY <1>2, <2>1, <2>2 DEF IInv, Bound, InCycle, Dialling
  <2>5. Accounted'
    BY <1>2, <2>1, <2>2 DEF Accounted, Awaits, SystemHeld, IsConnected, Listed
  <2> QED BY <2>3, <2>4, <2>5 DEF IInv
<1>10. ASSUME NEW p \in Profiles, SweepCloses(p) PROVE IInv'
  <2>1. /\ CloseTo(Collector, p) /\ UNCHANGED <<lock, sweep>> /\ at[Collector] = "between"
        /\ left' = [left EXCEPT ![Collector] = left[Collector] \ {<<Collector, p>>}]
    BY <1>1, <1>10 DEF SweepCloses, TypeOK
  <2>2. left' \in [Flows -> SUBSET Entries] /\ left'[Collector] = left[Collector] \ {<<Collector, p>>}
    BY <1>1, <2>1 DEF TypeOK
  <2> QED BY <1>1, <1>4, <2>1, <2>2 DEF InCycle
<1>11. CASE CollectorEnds
  BY <1>1, <1>5, <1>11 DEF CollectorEnds, Goes, InCycle, TypeOK, Places, registry
<1> QED BY <1>6, <1>7, <1>8, <1>9, <1>10, <1>11 DEF CycleStep

\* The collector's task is cancelled at an await: its finally begins, or ends.
LEMMA CancelKeeps ==
  ASSUME IInv, Cancel \/ CancelReading
  PROVE  IInv'
<1> USE FlowsAreNotNone
<1>1. TypeOK /\ Bound(Collector) /\ InCycle
  BY DEF IInv
<1>2. /\ UNCHANGED <<exists, conn, iface, up, down, link, sweep, revived>>
      /\ left' = [left EXCEPT ![Collector] = {}]
      /\ cancels < MaxCancels /\ cancels' = cancels + 1
      /\ at[Collector] \in {"guarded", "locking", "dialing", "reading", "closing", "downing"}
  BY DEF Cancel, CancelReading, registry, processes, history
<1>3. left' \in [Flows -> SUBSET Entries] /\ left'[Collector] = {}
  BY <1>1, <1>2 DEF TypeOK
<1>4. cancels' \in 0 .. MaxCancels
  BY <1>1, <1>2, CancelsAssumption DEF TypeOK
<1>5. kind[Collector] = "collect" /\ on[Collector] \in Profiles /\ "collect" \in Kinds
  BY <1>1, <1>2 DEF InCycle, Bound, Kinds
<1>6. CASE Cancel
  <2>1. PICK where \in {"over", "between"} :
          Turns(Collector, where, "collect", on[Collector]) /\ (sweep <=> where = "over")
    BY <1>1, <1>5, <1>6 DEF Cancel, Goes, TypeOK
  <2>2. /\ UNCHANGED state /\ ref' = [ref EXCEPT ![Collector] = None] /\ lock' \in {lock, None}
        /\ missed' = missed \cup Unswept
    BY <1>6 DEF Cancel, registry
  <2>3. ref' \in [Flows -> Flows \cup {None}] /\ \A g \in Flows \ {Collector} : ref'[g] = ref[g]
    BY <1>1, <2>2 DEF TypeOK
  <2>4. missed' \subseteq Profiles
    BY <1>1, <2>2 DEF TypeOK, Unswept
  <2>5. TypeOK'
    BY <1>1, <1>2, <1>3, <1>4, <1>5, <2>1, <2>2, <2>3, <2>4, TurnFacts DEF TypeOK, Places, Kinds
  <2>6. \A i \in Profiles : Awaits(i) => Awaits(i)'
    BY <1>2, <2>2 DEF Awaits, Unswept
  <2> QED BY <1>2, <1>3, <1>5, <2>1, <2>2, <2>3, <2>5, <2>6, FlowStep DEF Places
<1>7. CASE CancelReading
  <2> DEFINE p == on[Collector]
  <2>1. CloseTo(Collector, p) /\ UNCHANGED <<lock, missed>> /\ ~sweep
    BY <1>1, <1>7 DEF CancelReading, InCycle, history
  <2>2. PICK where \in {"closing", "between", "closed", "over"}, q \in {p, on[Collector]} :
          /\ Turns(Collector, where, kind[Collector], q) /\ (where = "closing" => q \in Profiles)
          /\ where \in {"closing", "between"}
          /\ where = "closing" => ref'[Collector] \in Flows
          /\ ref' \in [Flows -> Flows \cup {None}] /\ \A g \in Flows \ {Collector} : ref'[g] = ref[g]
          /\ state' \in [Profiles -> States] /\ state'[p] \notin {"connecting", "connected"}
          /\ \A i \in Profiles : i # p => state'[i] = state[i]
          /\ \A i \in Profiles : conn[i] = None <=> state'[i] = "none"
    BY <1>5, <2>1, ClosingFacts
  <2>3. TypeOK'
    BY <1>1, <1>2, <1>3, <1>4, <1>5, <2>1, <2>2, TurnFacts DEF TypeOK, Places, Kinds
  <2>4. \A i \in Profiles : Awaits(i)'
    BY <1>2, <2>1 DEF Awaits
  <2> QED BY <1>2, <1>5, <2>1, <2>2, <2>3, <2>4, FlowStep DEF Places
<1> QED BY <1>6, <1>7

\* A wg-quick process ends, awaited or not.
LEMMA ProcessKeeps ==
  ASSUME IInv, NEW f \in Flows, NEW p \in Profiles, WgQuickUp(f, p) \/ WgQuickDown(f, p)
  PROVE  IInv'
<1>1. UNCHANGED <<exists, conn, state, iface, lock, at, kind, on, ref, left, sweep, cancels, revived, missed>>
  BY DEF WgQuickUp, WgQuickDown, registry, place, history
<1>2. /\ up' \in [Entries -> {"none", "running", "up", "failed"}]
      /\ down' \in [Entries -> {"none", "running", "astray", "done"}]
      /\ link' \in [Profiles -> Flows \cup {None}]
  <2>1. /\ up \in [Entries -> {"none", "running", "up", "failed"}]
        /\ down \in [Entries -> {"none", "running", "astray", "done"}]
        /\ link \in [Profiles -> Flows \cup {None}]
    BY DEF IInv, TypeOK
  <2>2. CASE WgQuickUp(f, p)
    <3>1. PICK made \in BOOLEAN :
            /\ link' = IF made THEN [link EXCEPT ![p] = f] ELSE link
            /\ up' = [up EXCEPT ![<<f, p>>] = IF ~Awaited(f, p) THEN "none"
                                             ELSE IF made THEN "up" ELSE "failed"]
            /\ down' = down
      BY <2>2 DEF WgQuickUp
    <3> QED BY <2>1, <3>1
  <2>3. CASE WgQuickDown(f, p)
    <3>1. PICK stays \in BOOLEAN :
            link' = [link EXCEPT ![p] = IF stays THEN link[p] ELSE None]
      BY <2>1, <2>3 DEF WgQuickDown
    <3>2. PICK end \in {"done", "none"} :
            up' = up /\ down' = [down EXCEPT ![<<f, p>>] = end]
      BY <2>3 DEF WgQuickDown
    <3> QED BY <2>1, <3>1, <3>2
  <2> QED BY <2>2, <2>3
<1>3. TypeOK'
  BY <1>1, <1>2 DEF IInv, TypeOK
<1> QED BY <1>1, <1>3 DEF IInv, Bound, InCycle, Accounted, Dialling, Awaits

\* Every step keeps it.
LEMMA StepKeeps == IInv /\ [Next]_vars => IInv'
<1> SUFFICES ASSUME IInv, [Next]_vars PROVE IInv'
  OBVIOUS
<1>1. ASSUME NEW r \in Requests, PersonStep(r) PROVE IInv'
  BY <1>1, FlowsAreNotNone, ConnectKeeps, DisconnectKeeps, RouteKeeps DEF PersonStep, RouteStep
<1>2. CASE CollectorStarts \/ CollectorStep
  BY <1>2, FlowsAreNotNone, ConnectKeeps, DisconnectKeeps, CycleKeeps DEF CollectorStep, CycleStep
<1>3. CASE Cancel \/ CancelReading
  BY <1>3, CancelKeeps
<1>4. CASE Processes
  BY <1>4, ProcessKeeps DEF Processes
<1>5. CASE UNCHANGED vars
  BY <1>5 DEF vars, registry, processes, place, history, IInv, TypeOK, Bound, InCycle, Accounted,
              Dialling, Awaits
<1> QED BY <1>1, <1>2, <1>3, <1>4, <1>5, GuardKeeps DEF Next

-----------------------------------------------------------------------------
(* The theorems about Vpn *)

\* What is carried from step to step holds in every reachable state.
THEOREM InductiveInvariant == Spec => []IInv
BY InitIInv, StepKeeps, PTL DEF Spec

\* Every variable keeps its type; an entry has a state exactly while it is there.
THEOREM TypeCorrect == Spec => []TypeOK
<1>1. IInv => TypeOK
  BY DEF IInv
<1> QED BY <1>1, InductiveInvariant, PTL

\* site_collector.py's collect_all: when the collection is over, sybr-system holds
\* no tunnel, but for an entry a person's connect wrote on its own and one the
\* sweep did not reach because its task was cancelled there again.
THEOREM TheHoldIsReleased == Spec => []HoldReleased
<1>1. IInv => HoldReleased
  BY FlowsAreNotNone DEF IInv, InCycle, Accounted, Awaits, HoldReleased, SystemHeld, IsConnected
<1> QED BY <1>1, InductiveInvariant, PTL

\* vpn_manager.py's connect: an entry that says "connecting" has somebody dialing
\* for it, but where the collector was cancelled in its sweep.
THEOREM NobodyDialsForNothing == Spec => []NoIdleDial
<1>1. IInv => NoIdleDial
  BY FlowsAreNotNone DEF IInv, InCycle, Accounted, Dialling, Awaits, NoIdleDial
<1> QED BY <1>1, InductiveInvariant, PTL

-----------------------------------------------------------------------------
(* Schedule: what is carried from step to step *)

\* The types, the lock and the task locks, under the assumptions.
Scheduling == SchedTypeOK /\ LoopsFollowTheLock /\ SingleFlight

-----------------------------------------------------------------------------
(* What a reconcile does to counts and loops *)

\* Reading the file into memory keeps counts counts.
LEMMA LoadedIsCounts ==
  ASSUME SchedTypeOK, NEW p \in Procs
  PROVE  Loaded(p) \in [Tasks -> Counts \cup {Nil}]
BY DEF Loaded, SchedTypeOK

\* Reconciling keeps the types, touches one process and starts no runner.
LEMMA ReconciledKeeps ==
  ASSUME SchedTypeOK, NEW p \in Procs,
         NEW counts \in [Tasks -> Counts \cup {Nil}],
         Reconciled(p, counts)
  PROVE  /\ memory' \in [Procs -> [Tasks -> Counts \cup {Nil}]]
         /\ loop' \in [Procs -> [Tasks -> {"none", "sleeping", "running", "backoff"}]]
         /\ \A q \in Procs \ {p} : loop'[q] = loop[q]
         /\ \A t \in Tasks : loop'[p][t] = "running" <=> loop[p][t] = "running"
BY FailuresAssumption DEF Reconciled, SchedTypeOK, Counts, Tripped

\* Turning a loop touches that loop only.
LEMMA TurnKeeps ==
  ASSUME SchedTypeOK, NEW p \in Procs, NEW t \in Tasks,
         NEW where \in {"none", "sleeping", "running", "backoff"}, Turn(p, t, where)
  PROVE  /\ loop' \in [Procs -> [Tasks -> {"none", "sleeping", "running", "backoff"}]]
         /\ loop'[p][t] = where
         /\ \A q \in Procs, u \in Tasks : <<q, u>> # <<p, t>> => loop'[q][u] = loop[q][u]
BY DEF Turn, SchedTypeOK

\* A task's loop goes on to sleep or ends.
LEMMA TopIsALoopState ==
  ASSUME NEW t
  PROVE  Top(t) \in {"none", "sleeping"}
BY DEF Top

-----------------------------------------------------------------------------
(* The three facts hold at the start and are kept *)

\* At the start nobody runs and nobody holds the lock.
LEMMA InitScheduling == SchedInit => Scheduling
BY FailuresAssumption DEF SchedInit, Scheduling, SchedTypeOK, LoopsFollowTheLock,
   SingleFlight,
     Nothing, NoLoops

\* The processes come, take over, tick, stop and go.
LEMMA OwnershipKeeps ==
  ASSUME Scheduling,
         \/ WebBoots \/ StandbyBoots \/ TakeOver
         \/ \E p \in Procs : Tick(p) \/ Stop(p) \/ Exit(p)
  PROVE  Scheduling'
<1> USE DEF Scheduling
<1>1. CASE WebBoots
  <2>1. CASE owner = Nil
    <3>1. owner' = Web /\ Reconciled(Web, Loaded(Web))
      BY <1>1, <2>1 DEF WebBoots, Acquire
    <3>2. UNCHANGED <<enabled, saved, manual, strays>> /\ process' = [process EXCEPT ![Web] = "up"]
      BY <1>1 DEF WebBoots
    <3>3. Loaded(Web) \in [Tasks -> Counts \cup {Nil}]
      BY LoadedIsCounts DEF Procs
    <3>4. /\ memory' \in [Procs -> [Tasks -> Counts \cup {Nil}]]
          /\ loop' \in [Procs -> [Tasks -> {"none", "sleeping", "running", "backoff"}]]
          /\ \A q \in Procs \ {Web} : loop'[q] = loop[q]
          /\ \A t \in Tasks : loop'[Web][t] = "running" <=> loop[Web][t] = "running"
      BY <3>1, <3>3, ReconciledKeeps DEF Procs
    <3>5. SchedTypeOK'
      BY <3>1, <3>2, <3>4 DEF SchedTypeOK, Procs
    <3>6. LoopsFollowTheLock'
      BY <2>1, <3>1, <3>2, <3>4, ProcessesAssumption DEF LoopsFollowTheLock, Procs
    <3>7. SingleFlight'
      BY <3>2, <3>4 DEF SingleFlight
    <3> QED BY <3>5, <3>6, <3>7
  <2>2. CASE owner # Nil
    BY <1>1, <2>2 DEF WebBoots, SchedTypeOK, LoopsFollowTheLock,
       SingleFlight, Procs
  <2> QED BY <2>1, <2>2
<1>2. CASE StandbyBoots
  BY <1>2 DEF StandbyBoots, SchedTypeOK, LoopsFollowTheLock, SingleFlight,
     Procs
<1>3. CASE TakeOver
  <2>1. owner = Nil /\ owner' = Standby /\ Reconciled(Standby, Loaded(Standby))
    BY <1>3 DEF TakeOver, Acquire
  <2>2. UNCHANGED <<process, enabled, saved, manual, strays>>
    BY <1>3 DEF TakeOver
  <2>3. Loaded(Standby) \in [Tasks -> Counts \cup {Nil}]
    BY LoadedIsCounts DEF Procs
  <2>4. /\ memory' \in [Procs -> [Tasks -> Counts \cup {Nil}]]
        /\ loop' \in [Procs -> [Tasks -> {"none", "sleeping", "running", "backoff"}]]
        /\ \A q \in Procs \ {Standby} : loop'[q] = loop[q]
    BY <2>1, <2>3, ReconciledKeeps DEF Procs
  <2>5. loop'[Web] = loop[Web]
    BY <2>4, ProcessesAssumption DEF Procs
  <2>6. SchedTypeOK'
    BY <2>1, <2>2, <2>4 DEF SchedTypeOK, Procs
  <2>7. LoopsFollowTheLock'
    BY <2>1, <2>2, <2>5, ProcessesAssumption DEF LoopsFollowTheLock, Procs
  <2>8. SingleFlight'
    BY <2>2, <2>5 DEF SingleFlight
  <2> QED BY <2>6, <2>7, <2>8
<1>4. ASSUME NEW p \in Procs, Tick(p) PROVE Scheduling'
  <2>1. owner = p /\ Reconciled(p, Loaded(p))
        /\ UNCHANGED <<process, owner, enabled, saved, manual, strays>>
    BY <1>4 DEF Tick
  <2>2. Loaded(p) \in [Tasks -> Counts \cup {Nil}]
    BY LoadedIsCounts
  <2>3. /\ memory' \in [Procs -> [Tasks -> Counts \cup {Nil}]]
        /\ loop' \in [Procs -> [Tasks -> {"none", "sleeping", "running", "backoff"}]]
        /\ \A q \in Procs \ {p} : loop'[q] = loop[q]
        /\ \A t \in Tasks : loop'[p][t] = "running" <=> loop[p][t] = "running"
    BY <2>1, <2>2, ReconciledKeeps
  <2>4. SchedTypeOK'
    BY <2>1, <2>3 DEF SchedTypeOK
  <2>5. LoopsFollowTheLock'
    BY <2>1, <2>3 DEF LoopsFollowTheLock
  <2>6. SingleFlight'
    BY <2>1, <2>3 DEF SingleFlight, Procs
  <2> QED BY <2>4, <2>5, <2>6
<1>5. ASSUME NEW p \in Procs, Stop(p) PROVE Scheduling'
  BY <1>5 DEF Stop, NoLoops, SchedTypeOK, LoopsFollowTheLock,
     SingleFlight, Procs
<1>6. ASSUME NEW p \in Procs, Exit(p) PROVE Scheduling'
  <2>1. SchedTypeOK'
    BY <1>6, FailuresAssumption DEF Exit, NoLoops, Nothing, SchedTypeOK,
       Procs
  <2>2. LoopsFollowTheLock'
    BY <1>6, ProcessesAssumption DEF Exit, NoLoops, SchedTypeOK,
       LoopsFollowTheLock, Procs
  <2>3. SingleFlight'
    BY <1>6, ProcessesAssumption DEF Exit, NoLoops, SchedTypeOK,
       SingleFlight, Procs
  <2> QED BY <2>1, <2>2, <2>3
<1> QED BY <1>1, <1>2, <1>3, <1>4, <1>5, <1>6

\* A loop wakes, succeeds, fails or ends its backoff.
LEMMA RunsKeep ==
  ASSUME Scheduling, NEW p \in Procs, NEW t \in Tasks, Runs(p, t)
  PROVE  Scheduling'
<1> USE DEF Scheduling
<1> Top(t) \in {"none", "sleeping"}
  BY TopIsALoopState
<1>1. /\ loop[p][t] # "none"
      /\ UNCHANGED <<process, owner, enabled, manual, strays>>
      /\ \E where \in {"none", "sleeping", "running", "backoff"} :
           /\ Turn(p, t, where)
           /\ where = "running" => ~Locked(p, t)
  BY DEF Runs, Wake, Succeed, Fail, BackoffOver
<1>2. /\ saved' \in [Tasks -> Counts \cup {Nil}]
      /\ memory' \in [Procs -> [Tasks -> Counts \cup {Nil}]]
  <2>1. CASE UNCHANGED <<saved, memory>>
    BY <2>1 DEF SchedTypeOK
  <2>2. CASE Succeed(p, t)
    BY <2>2, FailuresAssumption DEF Succeed, Persist, SchedTypeOK, Counts
  <2>3. CASE Fail(p, t)
    <3> DEFINE failures == IF memory[p][t] \in Nat THEN memory[p][t] + 1 ELSE 1
               n == IF failures > MaxFailures THEN MaxFailures ELSE failures
    <3>1. Persist(p, [memory[p] EXCEPT ![t] = n])
      BY <2>3 DEF Fail
    <3>2. failures \in Nat
      OBVIOUS
    <3>3. n \in Counts
      BY <3>2, FailuresAssumption DEF Counts
    <3> HIDE DEF n
    <3> QED BY <3>1, <3>3 DEF Persist, SchedTypeOK
  <2> QED BY <2>1, <2>2, <2>3 DEF Runs, Wake, BackoffOver
<1>3. PICK where \in {"none", "sleeping", "running", "backoff"} :
        Turn(p, t, where) /\ (where = "running" => ~Locked(p, t))
  BY <1>1
<1>4. /\ loop' \in [Procs -> [Tasks -> {"none", "sleeping", "running", "backoff"}]]
      /\ loop'[p][t] = where
      /\ \A q \in Procs, u \in Tasks : <<q, u>> # <<p, t>> => loop'[q][u] = loop[q][u]
  BY <1>3, TurnKeeps
<1>5. SchedTypeOK'
  BY <1>1, <1>2, <1>4 DEF SchedTypeOK
<1>6. LoopsFollowTheLock'
  BY <1>1, <1>4 DEF LoopsFollowTheLock
<1>7. SingleFlight'
  BY <1>1, <1>3, <1>4 DEF SingleFlight, Locked, Procs
<1> QED BY <1>5, <1>6, <1>7

\* Operators save settings and click "run now".
LEMMA PeopleKeep ==
  ASSUME Scheduling, NEW t \in Tasks, People(t)
  PROVE  Scheduling'
<1> USE DEF Scheduling
<1>1. ASSUME NEW enable \in BOOLEAN, SaveConfig(t, enable) PROVE Scheduling'
  <2>1. UNCHANGED <<process, owner, manual>> /\ enabled' \subseteq Tasks
    BY <1>1 DEF SaveConfig, Saved, SchedTypeOK
  <2>2. /\ saved' \in [Tasks -> Counts \cup {Nil}]
        /\ memory' \in [Procs -> [Tasks -> Counts \cup {Nil}]]
    <3>1. Loaded(Web) \in [Tasks -> Counts \cup {Nil}]
      BY LoadedIsCounts DEF Procs
    <3>2. 0 \in Counts
      BY FailuresAssumption DEF Counts
    <3> QED BY <1>1, <3>1, <3>2 DEF SaveConfig, Persist, SchedTypeOK, Procs
  <2>3. CASE owner = Standby
    <3>1. UNCHANGED <<loop, strays>>
      BY <1>1, <2>3 DEF SaveConfig
    <3> QED BY <2>1, <2>2, <3>1 DEF SchedTypeOK, LoopsFollowTheLock, SingleFlight
  <2>4. CASE owner # Standby
    <3>1. /\ Turn(Web, t, IF enable THEN "sleeping" ELSE "none")
          /\ strays' = IF enable /\ owner # Web THEN strays \cup {t} ELSE strays \ {t}
      BY <1>1, <2>4 DEF SaveConfig
    <3>2. /\ loop' \in [Procs -> [Tasks -> {"none", "sleeping", "running", "backoff"}]]
          /\ loop'[Web][t] = IF enable THEN "sleeping" ELSE "none"
          /\ \A q \in Procs, u \in Tasks : <<q, u>> # <<Web, t>> => loop'[q][u] = loop[q][u]
      BY <3>1, TurnKeeps DEF Procs
    <3>3. SchedTypeOK'
      BY <2>1, <2>2, <3>1, <3>2 DEF SchedTypeOK
    <3>4. LoopsFollowTheLock'
      BY <2>1, <3>1, <3>2 DEF LoopsFollowTheLock
    <3>5. SingleFlight'
      BY <2>1, <3>2 DEF SingleFlight, Procs
    <3> QED BY <3>3, <3>4, <3>5
  <2> QED BY <2>3, <2>4
<1>2. CASE RunNow(t)
  <2>1. SchedTypeOK'
    BY <1>2, FailuresAssumption DEF RunNow, Present, SchedTypeOK, Counts,
       Procs
  <2>2. LoopsFollowTheLock' /\ SingleFlight'
    BY <1>2 DEF RunNow, Locked, SchedTypeOK, LoopsFollowTheLock,
       SingleFlight
  <2> QED BY <2>1, <2>2
<1>3. CASE ManualSucceeds(t)
  <2>1. SchedTypeOK'
    BY <1>3, FailuresAssumption DEF ManualSucceeds, Persist, SchedTypeOK,
       Counts, Procs
  <2>2. LoopsFollowTheLock' /\ SingleFlight'
    BY <1>3 DEF ManualSucceeds, SchedTypeOK, LoopsFollowTheLock, SingleFlight
  <2> QED BY <2>1, <2>2
<1>4. CASE ManualFails(t)
  BY <1>4 DEF ManualFails, SchedTypeOK, LoopsFollowTheLock, SingleFlight
<1> QED BY <1>1, <1>2, <1>3, <1>4 DEF People

\* Every step keeps them.
LEMMA StepScheduling == Scheduling /\ [SchedNext]_schedVars => Scheduling'
<1> SUFFICES ASSUME Scheduling, [SchedNext]_schedVars PROVE Scheduling'
  OBVIOUS
<1>1. CASE \/ WebBoots \/ StandbyBoots \/ TakeOver
           \/ \E p \in Procs : Tick(p) \/ Stop(p) \/ Exit(p)
  BY <1>1, OwnershipKeeps
<1>2. CASE \E p \in Procs, t \in Tasks : Runs(p, t)
  BY <1>2, RunsKeep
<1>3. CASE \E t \in Tasks : People(t)
  BY <1>3, PeopleKeep
<1>4. CASE ReadStatus
  <2>1. Loaded(Web) \in [Tasks -> Counts \cup {Nil}]
    BY LoadedIsCounts DEF Scheduling, Procs
  <2> QED BY <1>4, <2>1 DEF ReadStatus, Scheduling, SchedTypeOK,
                         LoopsFollowTheLock, SingleFlight
<1>5. CASE UNCHANGED schedVars
  BY <1>5 DEF schedVars, Scheduling, SchedTypeOK, LoopsFollowTheLock, SingleFlight
<1> QED BY <1>1, <1>2, <1>3, <1>4, <1>5 DEF SchedNext

-----------------------------------------------------------------------------
(* The theorems about Schedule *)

\* The three facts are an invariant of the specification.
THEOREM SchedulingInvariant == SchedSpec => []Scheduling
BY InitScheduling, StepScheduling, PTL DEF SchedSpec

\* Every variable keeps its type (the state of both processes and of the file).
THEOREM ScheduleTypeCorrect == SchedSpec => []SchedTypeOK
<1>1. Scheduling => SchedTypeOK
  BY DEF Scheduling
<1> QED BY <1>1, SchedulingInvariant, PTL

\* schedule_owner: a loop runs only where the lock is, also while it changes
\* hands, but for the loops restart_task starts without it.
THEOREM LoopsKeepToTheLock == SchedSpec => []LoopsFollowTheLock
<1>1. Scheduling => LoopsFollowTheLock
  BY DEF Scheduling
<1> QED BY <1>1, SchedulingInvariant, PTL

\* scheduler.py's _task_locks: in the web process a task's loop and a "run now"
\* of it are never at work together.
THEOREM OneFlight == SchedSpec => []SingleFlight
<1>1. Scheduling => SingleFlight
  BY DEF Scheduling
<1> QED BY <1>1, SchedulingInvariant, PTL
=============================================================================
