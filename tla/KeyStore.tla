------------------------------ MODULE KeyStore ------------------------------
(***************************************************************************)
(* Where the master key lives (src/app/core/encryption.py): the operating  *)
(* system's keyring, file backups wrapped for this host, copies an import  *)
(* set aside, and the memory of each process.  The web process and the     *)
(* schedule's standby both find or make the key when they start; the web   *)
(* process may import another, in the settings (routes/settings.py) or at  *)
(* the end of a restore (routes/backup.py).                                *)
(*                                                                         *)
(* A file is written whole or not at all (_atomic_private_write).  A key   *)
(* the operator supplies in the environment is not modelled: it is used as *)
(* it is and nothing is stored.                                            *)
(***************************************************************************)
EXTENDS Naturals, FiniteSets

CONSTANTS Procs,      \* processes of one installation
          Web,        \* the one that imports
          Keys, None,
          Places,     \* where backups are written
          Before,     \* Before[a]: the places that are read before place a
          ConfigPlace,\* the place inside a directory that a restore replaces
          MaxMoves,   \* bound on changes of the host's identity
          MaxImports  \* bound on imports and restores

ASSUME WebAssumption == Web \in Procs
ASSUME PlaceAssumption == ConfigPlace \in Places /\ Places # {ConfigPlace}
ASSUME OrderAssumption ==
  /\ Before \in [Places -> SUBSET Places]
  /\ \A P \in (SUBSET Places) \ {{}} : \E a \in P : Before[a] \cap P = {}
ASSUME BoundsAssumption == MaxMoves \in Nat /\ MaxImports \in Nat

VARIABLES ringed,   \* whether this host has a keyring
          keyring,  \* the key in it, or None
          files,    \* place -> the backup there: a key and who can unwrap it
          prev,     \* place -> the backup an import set aside
          host,     \* the host's identity: its wrapping secret
          moves,    \* changes of it
          pc,       \* process -> "down", found/recovered/minted a key, or "up"
          chosen,   \* process -> the key it is about to store and use
          cached,   \* process -> the key it uses
          data,     \* keys that data on the disk is encrypted with
          imports,  \* imports and restores made
          current,  \* history: the key adopted last
          seen,     \* history: keys ever made or imported
          lapses    \* history: what happened that may lose a key

store == <<keyring, files, prev>>
procs == <<pc, chosen, cached>>
identity == <<ringed, host, moves>>
vars == <<identity, store, procs, data, imports, current, seen, lapses>>

Hosts == 0 .. MaxMoves
Blob == [key : Keys, host : Hosts]

ASSUME NoneAssumption == None \notin Keys \cup Blob \cup Places

Wrapped(k) == [key |-> k, host |-> host]
Lapses == {"twins", "again", "blind", "partly", "ring", "overlap"}

TypeOK ==
  /\ ringed \in BOOLEAN /\ keyring \in Keys \cup {None} /\ (ringed \/ keyring = None)
  /\ files \in [Places -> Blob \cup {None}] /\ prev \in [Places -> Blob \cup {None}]
  /\ host \in Hosts /\ moves \in Hosts
  /\ pc \in [Procs -> {"down", "found", "recovered", "minted", "up"}]
  /\ chosen \in [Procs -> Keys \cup {None}] /\ cached \in [Procs -> Keys \cup {None}]
  /\ \A p \in Procs : cached[p] # None <=> pc[p] = "up"
  /\ data \subseteq seen /\ seen \subseteq Keys
  /\ imports \in 0 .. MaxImports
  /\ current \in seen \cup {None} /\ lapses \subseteq Lapses

Init ==
  /\ ringed \in BOOLEAN
  /\ keyring = None
  /\ files = [a \in Places |-> None] /\ prev = [a \in Places |-> None]
  /\ host = 0 /\ moves = 0
  /\ pc = [p \in Procs |-> "down"]
  /\ chosen = [p \in Procs |-> None] /\ cached = [p \in Procs |-> None]
  /\ data = {} /\ imports = 0
  /\ current = None /\ seen = {} /\ lapses = {}

-----------------------------------------------------------------------------
(* Reading and writing the backups *)

\* _backup_is_readable: it unwraps with this host's secret.
Readable(a) == files[a] # None /\ files[a].host = host

\* _unreadable_backups.
Stale == {a \in Places : files[a] # None /\ ~Readable(a)}

\* _try_restore_from_backup: the first place that unwraps.
FirstReadable ==
  LET R == {a \in Places : Readable(a)}
  IN IF R = {} THEN None ELSE CHOOSE a \in R : Before[a] \cap R = {}

\* _save_key_backups: key k at the places W whose write succeeds.  What cannot
\* be unwrapped is left alone, unless force.
Saved(k, W, force) == {a \in W : force \/ files[a] = None \/ Readable(a)}
SaveAt(k, S) == files' = [a \in Places |-> IF a \in S THEN Wrapped(k) ELSE files[a]]

\* keyring.set_password, which a host without a keyring and one whose keyring
\* misbehaves both survive.
SetRing(k) == keyring' \in {keyring} \cup (IF ringed THEN {k} ELSE {})

-----------------------------------------------------------------------------
(* Starting: _get_or_create_master_key *)

\* (A mutation: backups that cannot be unwrapped are no reason to refuse.)
MayMintAnyway == TRUE

\* A new key only when there is no backup at all.
MayMint == Stale = {}

Looks(p, found, k) ==
  /\ pc' = [pc EXCEPT ![p] = found]
  /\ chosen' = [chosen EXCEPT ![p] = k]
  /\ UNCHANGED <<identity, store, cached, data, imports, current>>

\* The keyring first, or ...
Find(p) ==
  /\ pc[p] = "down"
  /\ ringed /\ keyring # None
  /\ Looks(p, "found", keyring)
  /\ UNCHANGED <<seen, lapses>>

\* ... when it has nothing, is not there or misbehaves, a file, or ...
Recover(p) ==
  /\ pc[p] = "down"
  /\ FirstReadable # None
  /\ Looks(p, "recovered", files[FirstReadable].key)
  /\ UNCHANGED <<seen, lapses>>

\* ... a new key.
Mint(p) ==
  /\ pc[p] = "down"
  /\ FirstReadable = None /\ MayMint
  /\ \E k \in Keys \ seen : /\ Looks(p, "minted", k)
                            /\ seen' = seen \cup {k}
  /\ lapses' = lapses \cup {l \in {"twins"} : \E q \in Procs : pc[q] # "down"}

\* The key is stored where it can be, and then used.
Settle(p) ==
  /\ pc[p] \in {"found", "recovered", "minted"}
  /\ \E W \in SUBSET Places :
       LET S == Saved(chosen[p], W, FALSE)
       IN /\ SaveAt(chosen[p], S)
          /\ IF pc[p] = "found" \/ (pc[p] = "minted" /\ S = {})
             THEN UNCHANGED keyring ELSE SetRing(chosen[p])
          /\ IF S = {}
             THEN /\ pc' = [pc EXCEPT ![p] = "down"]
                  /\ UNCHANGED <<cached, current>>
             ELSE /\ pc' = [pc EXCEPT ![p] = "up"]
                  /\ cached' = [cached EXCEPT ![p] = chosen[p]]
                  /\ current' = chosen[p]
          /\ lapses' = lapses \cup {l \in {"partly"} : W # Places}
  /\ chosen' = [chosen EXCEPT ![p] = None]
  /\ UNCHANGED <<identity, prev, data, imports, seen>>

\* Something is encrypted: settings, credentials, an audit's archive.
Encrypt(p) ==
  /\ pc[p] = "up"
  /\ data' = data \cup {cached[p]}
  /\ UNCHANGED <<identity, store, procs, imports, current, seen, lapses>>

Stop(p) ==
  /\ pc[p] # "down"
  /\ pc' = [pc EXCEPT ![p] = "down"]
  /\ chosen' = [chosen EXCEPT ![p] = None]
  /\ cached' = [cached EXCEPT ![p] = None]
  /\ UNCHANGED <<identity, store, data, imports, current, seen, lapses>>

-----------------------------------------------------------------------------
(* Importing: import_master_key *)

\* (A mutation: nothing is set aside.)
SetAsideNothing(f, v) == v

\* What unwraps is set aside before it is overwritten, where nothing was before.
SetAside(f, v) ==
  [a \in Places |-> IF f[a] # None /\ f[a].host = host /\ v[a] = None THEN f[a] ELSE v[a]]

\* What such an import could lose: f and v are the files and what is set aside.
Risks(k, f, v, W) ==
  LET loses(l) ==
        CASE l = "again" -> \E a \in Places : /\ f[a] # None /\ f[a].host = host
                                              /\ v[a] # None /\ v[a].key # f[a].key
          [] l = "blind" -> \E a \in Places : /\ f[a] # None /\ f[a].host # host
                                              /\ f[a].key # k
          [] l = "partly" -> W # Places
          [] l = "ring" -> ringed /\ keyring' # k
          [] l = "overlap" -> \E p \in Procs : pc[p] \in {"found", "recovered", "minted"}
          [] OTHER -> FALSE
  IN {l \in Lapses : loses(l)}

\* (A mutation: the keyring and the process have the key, the files do not.)
AdoptForNow(k, f, v) ==
  /\ prev' = v /\ files' = f /\ SetRing(k)
  /\ lapses' = lapses \cup Risks(k, f, v, Places)
  /\ cached' = [cached EXCEPT ![Web] = k]
  /\ current' = k /\ seen' = seen \cup {k}

Adopt(k, f, v) ==
  /\ \E W \in (SUBSET Places) \ {{}} :
       /\ prev' = SetAside(f, v)
       /\ files' = [a \in Places |-> IF a \in W THEN Wrapped(k) ELSE f[a]]
       /\ SetRing(k)
       /\ lapses' = lapses \cup Risks(k, f, v, W)
  /\ cached' = [cached EXCEPT ![Web] = k]
  /\ current' = k /\ seen' = seen \cup {k}

Importing == pc[Web] = "up" /\ imports < MaxImports /\ imports' = imports + 1

\* A key given in the settings.
Import(k) ==
  /\ Importing
  /\ Adopt(k, files, prev)
  /\ UNCHANGED <<identity, pc, chosen, data>>

\* It cannot be set aside or stored everywhere it has to be: refused, or rolled
\* back with the restore it belongs to.  Some of it may have been set aside.
ImportFails ==
  /\ Importing
  /\ \E A \in SUBSET Places :
       prev' = [a \in Places |-> IF a \in A THEN SetAside(files, prev)[a] ELSE prev[a]]
  /\ UNCHANGED <<identity, keyring, files, procs, data, current, seen, lapses>>

\* A restore replaced the classes of data its archive has, the others stay under
\* the keys they had; with the configuration a backup and what was set aside
\* beside it.  An archive made with a password brings its key, another is of the
\* key in use.
Restore(k) ==
  /\ Importing
  /\ \E config \in BOOLEAN, b \in {None} \cup {[key |-> k, host |-> h] : h \in Hosts} :
       LET f == IF config THEN [files EXCEPT ![ConfigPlace] = b] ELSE files
           v == IF config THEN [prev EXCEPT ![ConfigPlace] = None] ELSE prev
       IN \/ Adopt(k, f, v)
          \/ /\ k = cached[Web]
             /\ files' = f /\ prev' = v
             /\ UNCHANGED <<keyring, cached, current, seen, lapses>>
  /\ data' \in {{k}, data \cup {k}}
  /\ UNCHANGED <<identity, pc, chosen>>

-----------------------------------------------------------------------------
(* The host *)

\* A clone, a reimage, another wrapping secret; or back to the old one.
Move(h) ==
  /\ moves < MaxMoves /\ h # host
  /\ host' = h /\ moves' = moves + 1
  /\ UNCHANGED <<ringed, store, procs, data, imports, current, seen, lapses>>

Next ==
  \/ \E p \in Procs : Find(p) \/ Recover(p) \/ Mint(p) \/ Settle(p) \/ Encrypt(p) \/ Stop(p)
  \/ \E k \in Keys : Import(k) \/ Restore(k)
  \/ ImportFails
  \/ \E h \in Hosts : Move(h)

Spec == Init /\ [][Next]_vars

-----------------------------------------------------------------------------
(* Properties *)

HeldIn(f) == {f[a].key : a \in {b \in Places : f[b] # None}}
Held == ({keyring} \ {None}) \cup HeldIn(files) \cup HeldIn(prev)

\* A key that data on the disk is encrypted with can be found somewhere, by
\* this host or by the one it was: it is never the last copy that is
\* overwritten (encryption.py:156, 602), except in the ways lapses names.
NoKeyIsLost == lapses = {} => data \subseteq Held

\* "Recovery chain" (encryption.py:341): a start comes to the key that was
\* adopted last, whatever the keyring and the files hold by then, with those
\* exceptions that are not about what an import replaces.
StartsFindTheKey ==
  lapses \subseteq {"again", "blind"} => \A p \in Procs : pc[p] \in {"found", "recovered"} => chosen[p] = current

\* "Create new key ONLY if no backups exist" (encryption.py:344): no new key is
\* made where data is encrypted already.
NeverMintsOverData == [][seen' # seen /\ imports' = imports /\ lapses' = {} => data = {}]_vars
=============================================================================
