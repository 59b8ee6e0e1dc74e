--------------------------- MODULE KeyStore_proofs ---------------------------
(***************************************************************************)
(* For any processes, keys and places, and any number of imports and of    *)
(* changes of the host: KeyStore is type correct, and apart from the       *)
(* lapses that are named there no key in use is lost, a start comes to the *)
(* key adopted last, and none is made over encrypted data.                 *)
(*                                                                         *)
(* The argument: every copy a start reads, keyring and files, is of the    *)
(* key adopted last, and there is one outside the directory a restore      *)
(* replaces (FilesAgree); a start that has made a key is alone, at a time  *)
(* when no key was adopted (StartsAgree, FirstUse); and what an import     *)
(* replaces is set aside outside that directory too (OldKept).             *)
(***************************************************************************)
EXTENDS KeyStore, TLAPS

Starting == {"found", "recovered", "minted"}

\* A process that has found a key knows it.
Knows == \A p \in Procs : pc[p] \in Starting => chosen[p] # None

\* Every copy is of a key that was made or imported.
CopiesAreSeen ==
  /\ keyring \in seen \cup {None}
  /\ \A a \in Places : /\ files[a] # None => files[a].key \in seen
                       /\ prev[a] # None => prev[a].key \in seen
  /\ \A p \in Procs : chosen[p] \in seen \cup {None} /\ cached[p] \in seen \cup {None}

Typed == TypeOK /\ Knows /\ CopiesAreSeen

-----------------------------------------------------------------------------
(* Reading and writing *)

LEMMA FirstIsReadable ==
  ASSUME FirstReadable # None
  PROVE  FirstReadable \in Places /\ Readable(FirstReadable)
<1> DEFINE R == {a \in Places : Readable(a)}
<1>1. R # {}
  BY DEF FirstReadable
<1>2. \E a \in R : Before[a] \cap R = {}
  BY <1>1, OrderAssumption
<1> QED BY <1>1, <1>2 DEF FirstReadable

\* A wrapped key is a backup, of the key.
LEMMA WrappedIsBlob ==
  ASSUME TypeOK, NEW k \in Keys
  PROVE  Wrapped(k) \in Blob /\ Wrapped(k) # None /\ Wrapped(k).key = k /\ Wrapped(k).host = host
BY NoneAssumption DEF Wrapped, Blob, TypeOK

\* What a place has is a backup of some key for some host.
LEMMA BackupOf ==
  ASSUME TypeOK, NEW a \in Places, files[a] # None
  PROVE  files[a] \in Blob /\ files[a].key \in Keys /\ files[a].host \in Hosts
BY DEF TypeOK, Blob

\* Saving leaves the files files of seen keys.
LEMMA SavedFiles ==
  ASSUME Typed, NEW k \in seen, NEW S \in SUBSET Places, SaveAt(k, S)
  PROVE  /\ files' \in [Places -> Blob \cup {None}]
         /\ \A a \in Places : files'[a] # None => files'[a].key \in seen
<1>1. k \in Keys
  BY DEF Typed, TypeOK
<1> QED BY <1>1, WrappedIsBlob DEF Typed, TypeOK, CopiesAreSeen, SaveAt

\* The keyring holds what was saved, or what it held.
LEMMA SetRingTypes ==
  ASSUME Typed, NEW k \in Keys, SetRing(k)
  PROVE  /\ keyring' \in {keyring, k} /\ keyring' \in Keys \cup {None}
         /\ ringed \/ keyring' = keyring
BY DEF SetRing, Typed, TypeOK

-----------------------------------------------------------------------------
(* The types are kept *)

LEMMA InitTyped == Init => Typed
BY BoundsAssumption DEF Init, Typed, TypeOK, Knows, CopiesAreSeen, Starting, Hosts, Lapses

\* A process that looks finds a key.
LEMMA LookKeeps ==
  ASSUME Typed, NEW p \in Procs, Find(p) \/ Recover(p) \/ Mint(p)
  PROVE  Typed'
<1>1. CASE Find(p)
  <2>1. keyring \in seen /\ keyring \in Keys
    BY <1>1 DEF Find, Typed, TypeOK, CopiesAreSeen
  <2> QED BY <1>1, <2>1, NoneAssumption
          DEF Find, Looks, Typed, TypeOK, Knows, CopiesAreSeen, Starting, identity, store
<1>2. CASE Recover(p)
  <2>1. files[FirstReadable].key \in seen /\ files[FirstReadable].key \in Keys
    BY <1>2, FirstIsReadable DEF Recover, Readable, Typed, TypeOK, CopiesAreSeen, Blob
  <2> QED BY <1>2, <2>1, NoneAssumption
          DEF Recover, Looks, Typed, TypeOK, Knows, CopiesAreSeen, Starting, identity, store
<1>3. CASE Mint(p)
  <2>1. PICK k \in Keys \ seen : Looks(p, "minted", k) /\ seen' = seen \cup {k}
    BY <1>3 DEF Mint
  <2>2. lapses' \subseteq Lapses
    BY <1>3 DEF Mint, Typed, TypeOK, Lapses
  <2>3. /\ pc' = [pc EXCEPT ![p] = "minted"] /\ chosen' = [chosen EXCEPT ![p] = k]
        /\ UNCHANGED <<identity, store, cached, data, imports, current>>
        /\ pc[p] = "down"
    BY <1>3, <2>1 DEF Looks, Mint
  <2>4. TypeOK'
    BY <2>1, <2>2, <2>3 DEF Typed, TypeOK, identity, store
  <2>5. Knows' /\ CopiesAreSeen'
    BY <2>1, <2>3, NoneAssumption DEF Typed, TypeOK, Knows, CopiesAreSeen, Starting, store
  <2> QED BY <2>4, <2>5 DEF Typed
<1> QED BY <1>1, <1>2, <1>3

\* It stores the key and uses it.
LEMMA SettleKeeps ==
  ASSUME Typed, NEW p \in Procs, Settle(p)
  PROVE  Typed'
<1>1. chosen[p] \in seen /\ chosen[p] \in Keys
  BY DEF Settle, Typed, TypeOK, Knows, CopiesAreSeen, Starting
<1>2. PICK W \in SUBSET Places :
        LET S == Saved(chosen[p], W, FALSE)
        IN /\ SaveAt(chosen[p], S)
           /\ keyring' = keyring \/ SetRing(chosen[p])
           /\ IF S = {}
              THEN /\ pc' = [pc EXCEPT ![p] = "down"]
                   /\ UNCHANGED <<cached, current>>
              ELSE /\ pc' = [pc EXCEPT ![p] = "up"]
                   /\ cached' = [cached EXCEPT ![p] = chosen[p]]
                   /\ current' = chosen[p]
           /\ lapses' = lapses \cup {l \in {"partly"} : W # Places}
  BY DEF Settle
<1> DEFINE S == Saved(chosen[p], W, FALSE)
<1>3. S \in SUBSET Places
  BY DEF Saved
<1>4. /\ files' \in [Places -> Blob \cup {None}]
      /\ \A a \in Places : files'[a] # None => files'[a].key \in seen
  BY <1>1, <1>2, <1>3, SavedFiles
<1>5. /\ keyring' \in {keyring, chosen[p]} /\ keyring' \in Keys \cup {None}
      /\ ringed \/ keyring' = keyring
  BY <1>1, <1>2, SetRingTypes DEF Typed, TypeOK
<1>6. /\ chosen' = [chosen EXCEPT ![p] = None] /\ pc[p] \in Starting
      /\ UNCHANGED <<identity, prev, data, imports, seen>>
  BY DEF Settle, Starting
<1>7. lapses' \subseteq Lapses
  BY <1>2 DEF Typed, TypeOK, Lapses
<1>8. cached[p] = None
  BY <1>6 DEF Typed, TypeOK, Starting
<1>9. CASE S = {}
  BY <1>1, <1>2, <1>4, <1>5, <1>6, <1>7, <1>8, <1>9, NoneAssumption
     DEF Typed, TypeOK, Knows, CopiesAreSeen, Starting, identity
<1>10. CASE S # {}
  BY <1>1, <1>2, <1>4, <1>5, <1>6, <1>7, <1>10, NoneAssumption
     DEF Typed, TypeOK, Knows, CopiesAreSeen, Starting, identity
<1> QED BY <1>9, <1>10

\* Setting aside moves backups, and makes none.
LEMMA SetAsideKeeps ==
  ASSUME NEW f \in [Places -> Blob \cup {None}], NEW v \in [Places -> Blob \cup {None}]
  PROVE  /\ SetAside(f, v) \in [Places -> Blob \cup {None}]
         /\ \A a \in Places : SetAside(f, v)[a] \in {f[a], v[a]}
BY DEF SetAside

\* An adoption, whatever the files were replaced by.
LEMMA AdoptKeeps ==
  ASSUME Typed, NEW k \in Keys,
         NEW f \in [Places -> Blob \cup {None}], NEW v \in [Places -> Blob \cup {None}],
         \A a \in Places : /\ f[a] # None => f[a].key \in seen \cup {k}
                           /\ v[a] # None => v[a].key \in seen \cup {k},
         pc[Web] = "up", Adopt(k, f, v), data' \subseteq seen \cup {k},
         imports' \in 0 .. MaxImports, UNCHANGED <<identity, pc, chosen>>
  PROVE  Typed'
<1>1. PICK W \in (SUBSET Places) \ {{}} :
        /\ prev' = SetAside(f, v)
        /\ files' = [a \in Places |-> IF a \in W THEN Wrapped(k) ELSE f[a]]
        /\ SetRing(k)
        /\ lapses' = lapses \cup Risks(k, f, v, W)
  BY DEF Adopt
<1>2. cached' = [cached EXCEPT ![Web] = k] /\ current' = k /\ seen' = seen \cup {k}
  BY DEF Adopt
<1>3. lapses' \subseteq Lapses
  BY <1>1 DEF Risks, Typed, TypeOK
<1>4. /\ files' \in [Places -> Blob \cup {None}] /\ prev' \in [Places -> Blob \cup {None}]
      /\ \A a \in Places : /\ files'[a] # None => files'[a].key \in seen'
                           /\ prev'[a] # None => prev'[a].key \in seen'
  <2>1. /\ Wrapped(k) \in Blob /\ Wrapped(k).key = k
        /\ prev' \in [Places -> Blob \cup {None}]
        /\ \A a \in Places : prev'[a] \in {f[a], v[a]}
    BY <1>1, WrappedIsBlob, SetAsideKeeps DEF Typed
  <2>2. /\ files' \in [Places -> Blob \cup {None}]
        /\ \A a \in Places : files'[a] \in {f[a], Wrapped(k)}
    BY <1>1, <2>1
  <2> QED BY <1>2, <2>1, <2>2
<1>5. /\ keyring' \in {keyring, k} /\ keyring' \in Keys \cup {None}
      /\ ringed \/ keyring' = keyring
  BY <1>1, SetRingTypes
<1>6. TypeOK'
  BY <1>2, <1>3, <1>4, <1>5, NoneAssumption DEF Typed, TypeOK, identity
<1>7. Knows' /\ CopiesAreSeen'
  <2>1. \A p \in Procs : chosen'[p] \in seen' \cup {None} /\ cached'[p] \in seen' \cup {None}
    BY <1>2 DEF Typed, TypeOK, CopiesAreSeen
  <2>2. keyring' \in seen' \cup {None}
    BY <1>2, <1>5 DEF Typed, CopiesAreSeen
  <2> QED BY <1>4, <2>1, <2>2 DEF Typed, Knows, CopiesAreSeen
<1> QED BY <1>6, <1>7 DEF Typed

\* An import and a restore keep the types.
LEMMA ImportKeeps ==
  ASSUME Typed, ImportFails \/ \E k \in Keys : Import(k) \/ Restore(k)
  PROVE  Typed'
<1>0. /\ files \in [Places -> Blob \cup {None}] /\ prev \in [Places -> Blob \cup {None}]
      /\ \A a \in Places : /\ files[a] # None => files[a].key \in seen
                           /\ prev[a] # None => prev[a].key \in seen
  BY DEF Typed, TypeOK, CopiesAreSeen
<1>1. Importing => pc[Web] = "up" /\ imports' \in 0 .. MaxImports
  BY BoundsAssumption DEF Importing, Typed, TypeOK
<1>2. ASSUME NEW k \in Keys, Import(k) PROVE Typed'
  <2>1. Adopt(k, files, prev) /\ UNCHANGED <<identity, pc, chosen, data>>
    BY <1>2 DEF Import
  <2>2. data' \subseteq seen \cup {k}
    BY <2>1 DEF Typed, TypeOK
  <2>3. Importing
    BY <1>2 DEF Import
  <2> QED BY <1>0, <1>1, <2>1, <2>2, <2>3, AdoptKeeps
<1>3. ASSUME NEW k \in Keys, Restore(k) PROVE Typed'
  <2>1. PICK config \in BOOLEAN, b \in {None} \cup {[key |-> k, host |-> h] : h \in Hosts} :
          LET f == IF config THEN [files EXCEPT ![ConfigPlace] = b] ELSE files
              v == IF config THEN [prev EXCEPT ![ConfigPlace] = None] ELSE prev
          IN \/ Adopt(k, f, v)
             \/ /\ k = cached[Web]
                /\ files' = f /\ prev' = v
                /\ UNCHANGED <<keyring, cached, current, seen, lapses>>
    BY <1>3 DEF Restore
  <2> DEFINE f == IF config THEN [files EXCEPT ![ConfigPlace] = b] ELSE files
             v == IF config THEN [prev EXCEPT ![ConfigPlace] = None] ELSE prev
  <2>2. Importing /\ data' \in {{k}, data \cup {k}} /\ UNCHANGED <<identity, pc, chosen>>
    BY <1>3 DEF Restore
  <2>3. b # None => b \in Blob /\ b.key = k
    BY <2>1 DEF Blob
  <2>4. /\ f \in [Places -> Blob \cup {None}] /\ v \in [Places -> Blob \cup {None}]
        /\ \A a \in Places : /\ f[a] # None => f[a].key \in seen \cup {k}
                             /\ v[a] # None => v[a].key \in seen \cup {k}
    BY <1>0, <2>3, PlaceAssumption
  <2>5. CASE Adopt(k, f, v)
    <3>1. data' \subseteq seen \cup {k}
      BY <2>2 DEF Typed, TypeOK
    <3> HIDE DEF f, v
    <3> QED BY <1>1, <2>2, <2>4, <2>5, <3>1, AdoptKeeps
  <2>6. CASE /\ k = cached[Web] /\ files' = f /\ prev' = v
             /\ UNCHANGED <<keyring, cached, current, seen, lapses>>
    <3>1. k \in seen
      BY <2>6, WebAssumption, NoneAssumption DEF Typed, CopiesAreSeen
    <3> HIDE DEF f, v
    <3>2. TypeOK'
      BY <1>1, <2>2, <2>4, <2>6, <3>1 DEF Typed, TypeOK, identity
    <3>3. Knows' /\ CopiesAreSeen'
      BY <2>2, <2>4, <2>6, <3>1 DEF Typed, Knows, CopiesAreSeen
    <3> QED BY <3>2, <3>3 DEF Typed
  <2> QED BY <2>1, <2>5, <2>6
<1>4. CASE ImportFails
  <2>1. PICK A \in SUBSET Places :
          prev' = [a \in Places |-> IF a \in A THEN SetAside(files, prev)[a] ELSE prev[a]]
    BY <1>4 DEF ImportFails
  <2>2. /\ prev' \in [Places -> Blob \cup {None}]
        /\ \A a \in Places : prev'[a] # None => prev'[a].key \in seen
    BY <1>0, <2>1, SetAsideKeeps
  <2>3. /\ Importing
        /\ UNCHANGED <<identity, keyring, files, procs, data, current, seen, lapses>>
    BY <1>4 DEF ImportFails
  <2>4. TypeOK'
    BY <1>1, <2>2, <2>3 DEF Typed, TypeOK, identity, procs
  <2>5. Knows' /\ CopiesAreSeen'
    BY <2>2, <2>3 DEF Typed, Knows, CopiesAreSeen, procs
  <2> QED BY <2>4, <2>5 DEF Typed
<1> QED BY <1>2, <1>3, <1>4

\* Encrypting, stopping and moving touch no copy.
LEMMA RestKeeps ==
  ASSUME Typed, (\E p \in Procs : Encrypt(p) \/ Stop(p)) \/ \E h \in Hosts : Move(h)
  PROVE  Typed'
<1> USE DEF Typed, TypeOK, Knows, CopiesAreSeen, Starting, identity, store, procs
<1>1. ASSUME NEW p \in Procs, Encrypt(p) PROVE Typed'
  BY <1>1 DEF Encrypt
<1>2. ASSUME NEW p \in Procs, Stop(p) PROVE Typed'
  BY <1>2 DEF Stop
<1>3. ASSUME NEW h \in Hosts, Move(h) PROVE Typed'
  BY <1>3, BoundsAssumption DEF Move, Hosts
<1> QED BY <1>1, <1>2, <1>3

\* Every step keeps the types.
LEMMA NextTyped == Typed /\ [Next]_vars => Typed'
<1> SUFFICES ASSUME Typed, [Next]_vars PROVE Typed'
  OBVIOUS
<1>1. CASE UNCHANGED vars
  BY <1>1 DEF vars, identity, store, procs, Typed, TypeOK, Knows, CopiesAreSeen
<1>2. CASE Next
  BY <1>2, LookKeeps, SettleKeeps, ImportKeeps, RestKeeps DEF Next
<1> QED BY <1>1, <1>2

\* The types hold in every reachable state.
LEMMA AlwaysTyped == Spec => []Typed
  BY InitTyped, NextTyped, PTL DEF Spec

\* Every variable keeps its type, and a process uses a key exactly while it is
\* up (encryption.py).
THEOREM TypeCorrect == Spec => []TypeOK
<1>1. Typed => TypeOK
  BY DEF Typed
<1> QED BY <1>1, AlwaysTyped, PTL

-----------------------------------------------------------------------------
(* What the copies agree on *)

\* Nothing has happened that can mislead a start.
Tame == lapses \subseteq {"again", "blind"}

\* Where no restore replaces anything.
Elsewhere == Places \ {ConfigPlace}

FilesAgree ==
  /\ \A a \in Places : files[a] # None => files[a].key = current
  /\ keyring \in {None, current}
  /\ current # None => \A a \in Elsewhere : files[a] # None

FirstUse == current = None => data = {} /\ \A p \in Procs : cached[p] = None

StartsAgree ==
  /\ \A p \in Procs :
       /\ pc[p] \in {"found", "recovered"} => chosen[p] = current
       /\ pc[p] = "minted" => current = None /\ \A q \in Procs \ {p} : pc[q] = "down"
  /\ pc[Web] = "up" => cached[Web] = current

SetAsideSafely(k) == \E a \in Elsewhere : prev[a] # None /\ prev[a].key = k

OldKept ==
  /\ \A k \in data : k = current \/ SetAsideSafely(k)
  /\ \A p \in Procs : cached[p] = None \/ cached[p] = current \/ SetAsideSafely(cached[p])

Agreement == Tame => FilesAgree /\ FirstUse /\ StartsAgree

IInv == Typed /\ Agreement /\ (lapses = {} => OldKept)

\* The invariant holds at the start.
LEMMA InitIInv == Init => IInv
<1> SUFFICES ASSUME Init PROVE IInv
  OBVIOUS
<1>1. /\ current = None /\ keyring = None /\ data = {}
      /\ \A a \in Places : files[a] = None
      /\ \A p \in Procs : pc[p] = "down" /\ cached[p] = None
  BY DEF Init
<1>2. FilesAgree /\ FirstUse /\ StartsAgree /\ OldKept
  BY <1>1, WebAssumption DEF FilesAgree, FirstUse, StartsAgree, OldKept
<1> QED BY <1>2, InitTyped DEF IInv, Agreement

\* With no key adopted there is none anywhere.
LEMMA NothingYet ==
  ASSUME Typed, FilesAgree, current = None
  PROVE  keyring = None /\ \A a \in Places : files[a] = None
BY NoneAssumption, BackupOf DEF FilesAgree, Typed

\* No backup anywhere: no key was adopted.
LEMMA NoBackupNoKey ==
  ASSUME FilesAgree, FirstReadable = None, MayMint
  PROVE  current = None
<1>1. \A a \in Places : files[a] = None
  <2> SUFFICES ASSUME NEW a \in Places, files[a] # None PROVE FALSE
    OBVIOUS
  <2> DEFINE R == {b \in Places : Readable(b)}
  <2>1. a \in R
    BY DEF MayMint, Stale
  <2>2. PICK b \in R : b = FirstReadable
    <3>1. \E b \in R : Before[b] \cap R = {}
      BY <2>1, OrderAssumption
    <3>2. R # {} /\ FirstReadable = CHOOSE b \in R : Before[b] \cap R = {}
      BY <2>1 DEF FirstReadable
    <3> QED BY <3>1, <3>2
  <2> QED BY <2>2, NoneAssumption
<1>2. Elsewhere # {}
  BY PlaceAssumption DEF Elsewhere
<1> QED BY <1>1, <1>2 DEF FilesAgree, Elsewhere

\* A start comes to the key adopted last; it makes one only alone.
LEMMA LookAgrees ==
  ASSUME IInv, NEW p \in Procs, Find(p) \/ Recover(p) \/ Mint(p)
  PROVE  IInv'
<1>0. Typed'
  BY LookKeeps DEF IInv
<1> SUFFICES ASSUME Tame' PROVE FilesAgree' /\ FirstUse' /\ StartsAgree' /\ (lapses' = {} => OldKept')
  BY <1>0 DEF IInv, Agreement, Tame
<1>1. lapses \subseteq lapses' /\ UNCHANGED <<identity, store, cached, data, imports, current>>
  BY DEF Find, Recover, Mint, Looks
<1>2. FilesAgree /\ FirstUse /\ StartsAgree /\ (lapses = {} => OldKept)
  BY <1>1 DEF IInv, Agreement, Tame
<1>3. FilesAgree' /\ FirstUse' /\ (lapses' = {} => OldKept')
  BY <1>1, <1>2 DEF FilesAgree, FirstUse, OldKept, SetAsideSafely, store
<1>4. CASE Find(p)
  <2>1. keyring = current /\ current # None
    BY <1>2, <1>4 DEF Find, FilesAgree
  <2> QED BY <1>1, <1>2, <1>3, <1>4, <2>1 DEF Find, Looks, StartsAgree, IInv, Typed, TypeOK
<1>5. CASE Recover(p)
  <2>1. files[FirstReadable].key = current /\ current # None
    BY <1>2, <1>5, FirstIsReadable, NothingYet
       DEF Recover, Readable, FilesAgree, IInv
  <2> QED BY <1>1, <1>2, <1>3, <1>5, <2>1 DEF Recover, Looks, StartsAgree, IInv, Typed, TypeOK
<1>6. CASE Mint(p)
  <2>1. current = None
    BY <1>2, <1>6, NoBackupNoKey DEF Mint
  <2>2. \A q \in Procs : pc[q] = "down"
    BY <1>6 DEF Mint, Tame
  <2>3. pc' = [pc EXCEPT ![p] = "minted"]
    BY <1>6 DEF Mint, Looks
  <2> QED BY <1>1, <1>3, <2>1, <2>2, <2>3, WebAssumption DEF StartsAgree, IInv, Typed, TypeOK
<1> QED BY <1>4, <1>5, <1>6

\* Storing a key that was found changes no copy's key; a key just made is the
\* first there is.
LEMMA SettleAgrees ==
  ASSUME IInv, NEW p \in Procs, Settle(p)
  PROVE  IInv'
<1>0. Typed'
  BY SettleKeeps DEF IInv
<1> SUFFICES ASSUME Tame' PROVE FilesAgree' /\ FirstUse' /\ StartsAgree' /\ (lapses' = {} => OldKept')
  BY <1>0 DEF IInv, Agreement, Tame
<1> DEFINE k == chosen[p]
           S == Saved(k, Places, FALSE)
<1>1. /\ SaveAt(k, S)
      /\ keyring' = keyring \/ SetRing(k)
      /\ IF S = {}
         THEN /\ pc' = [pc EXCEPT ![p] = "down"]
              /\ UNCHANGED <<cached, current>>
         ELSE /\ pc' = [pc EXCEPT ![p] = "up"]
              /\ cached' = [cached EXCEPT ![p] = k]
              /\ current' = k
      /\ lapses' = lapses
  BY DEF Settle, Tame
<1>2. /\ chosen' = [chosen EXCEPT ![p] = None] /\ pc[p] \in Starting
      /\ UNCHANGED <<identity, prev, data, imports, seen>>
  BY DEF Settle, Starting
<1>3. FilesAgree /\ FirstUse /\ StartsAgree /\ (lapses = {} => OldKept)
  BY <1>1 DEF IInv, Agreement, Tame
<1>4. k \in Keys /\ k # None
  BY <1>2 DEF IInv, Typed, TypeOK, Knows
<1>5. Wrapped(k).key = k /\ Wrapped(k) # None
  BY <1>4, WrappedIsBlob DEF IInv, Typed
<1>6. keyring' \in {keyring, k}
  BY <1>1 DEF SetRing
<1>7. /\ \A a \in Places : files'[a] \in {files[a], Wrapped(k)}
      /\ \A a \in S : files'[a] = Wrapped(k)
      /\ \A a \in Places : files[a] = None => a \in S
  BY <1>1 DEF SaveAt, Saved
<1>8. /\ pc \in [Procs -> {"down", "found", "recovered", "minted", "up"}]
      /\ cached \in [Procs -> Keys \cup {None}] /\ chosen \in [Procs -> Keys \cup {None}]
  BY DEF IInv, Typed, TypeOK
<1>9. CASE pc[p] # "minted"
  <2>1. k = current
    BY <1>2, <1>3, <1>9 DEF StartsAgree, Starting
  <2>2. current' = current
    BY <1>1, <2>1
  <2>3. FilesAgree'
    <3>1. ASSUME NEW a \in Places, files'[a] # None PROVE files'[a].key = current'
      BY <1>3, <1>5, <1>7, <2>1, <2>2, <3>1 DEF FilesAgree
    <3>2. keyring' \in {None, current'}
      BY <1>3, <1>6, <2>1, <2>2 DEF FilesAgree
    <3>3. ASSUME NEW a \in Elsewhere PROVE files'[a] # None
      BY <1>3, <1>4, <1>5, <1>7, <2>1 DEF FilesAgree, Elsewhere
    <3> QED BY <3>1, <3>2, <3>3 DEF FilesAgree
  <2>4. FirstUse'
    BY <1>4, <2>1, <2>2 DEF FirstUse
  <2>5. StartsAgree'
    BY <1>1, <1>2, <1>3, <1>4, <1>8, <2>1, <2>2, WebAssumption DEF StartsAgree
  <2>6. lapses' = {} => OldKept'
    BY <1>1, <1>2, <1>3, <1>8, <2>1, <2>2 DEF OldKept, SetAsideSafely
  <2> QED BY <2>3, <2>4, <2>5, <2>6
<1>10. CASE pc[p] = "minted"
  <2>1. /\ current = None /\ data = {}
        /\ \A q \in Procs : cached[q] = None /\ (q # p => pc[q] = "down")
        /\ keyring = None /\ \A a \in Places : files[a] = None
    BY <1>3, <1>10, NothingYet DEF StartsAgree, FirstUse, IInv
  <2>2. S = Places
    BY <2>1 DEF Saved
  <2>3. current' = k /\ cached' = [cached EXCEPT ![p] = k] /\ pc' = [pc EXCEPT ![p] = "up"]
    BY <1>1, <2>2, PlaceAssumption
  <2>4. FilesAgree'
    BY <1>5, <1>6, <1>7, <2>1, <2>2, <2>3 DEF FilesAgree, Elsewhere
  <2>5. FirstUse'
    BY <1>4, <2>3 DEF FirstUse
  <2>6. StartsAgree'
    BY <1>8, <2>1, <2>3, WebAssumption DEF StartsAgree
  <2>7. OldKept'
    BY <1>2, <1>8, <2>1, <2>3 DEF OldKept
  <2> QED BY <2>4, <2>5, <2>6, <2>7
<1> QED BY <1>9, <1>10

\* An adoption that goes well everywhere leaves the new key everywhere, and
\* what it replaced beside it; f and v are the files and what is set aside.
LEMMA AdoptAgrees ==
  ASSUME IInv, Typed', Tame', NEW k \in Keys, pc[Web] = "up",
         NEW f \in [Places -> Blob \cup {None}], NEW v \in [Places -> Blob \cup {None}],
         \A a \in Elsewhere : f[a] = files[a] /\ v[a] = prev[a],
         Adopt(k, f, v), data' \subseteq data \cup {k}, UNCHANGED <<identity, pc, chosen>>
  PROVE  FilesAgree' /\ FirstUse' /\ StartsAgree' /\ (lapses' = {} => OldKept')
<1>1. PICK W \in (SUBSET Places) \ {{}} :
        /\ prev' = SetAside(f, v)
        /\ files' = [a \in Places |-> IF a \in W THEN Wrapped(k) ELSE f[a]]
        /\ SetRing(k)
        /\ lapses' = lapses \cup Risks(k, f, v, W)
  BY DEF Adopt
<1>2. cached' = [cached EXCEPT ![Web] = k] /\ current' = k
  BY DEF Adopt
<1>3. FilesAgree /\ FirstUse /\ StartsAgree /\ (lapses = {} => OldKept)
  BY <1>1 DEF IInv, Agreement, Tame
<1>4. /\ W = Places
      /\ ringed => keyring' = k
      /\ \A p \in Procs : pc[p] \notin Starting
  BY <1>1 DEF Tame, Risks, Lapses, Starting
<1>5. Wrapped(k).key = k /\ Wrapped(k) # None /\ k # None
  BY WrappedIsBlob, NoneAssumption DEF IInv, Typed
<1>6. \A a \in Places : files'[a] = Wrapped(k)
  BY <1>1, <1>4
<1>7. cached[Web] = current /\ current # None
  BY <1>3, WebAssumption DEF StartsAgree, IInv, Typed, TypeOK
<1>8. FilesAgree'
  <2>1. keyring' \in {None, k}
    BY <1>1, <1>4 DEF SetRing, IInv, Typed, TypeOK
  <2> QED BY <1>2, <1>5, <1>6, <2>1 DEF FilesAgree, Elsewhere
<1>9. FirstUse'
  BY <1>2, <1>5 DEF FirstUse
<1>10. StartsAgree'
  BY <1>2, <1>4, WebAssumption DEF StartsAgree, Starting, IInv, Typed, TypeOK
<1>11. ASSUME lapses' = {} PROVE OldKept'
  <2>1. OldKept /\ lapses = {} /\ Risks(k, f, v, W) = {}
    BY <1>1, <1>3, <1>11
  <2>2. /\ \A a \in Places : f[a] # None /\ f[a].host = host /\ v[a] # None => v[a].key = f[a].key
        /\ \A a \in Places : f[a] # None /\ f[a].host # host => f[a].key = k
    BY <2>1 DEF Risks, Lapses
  <2>3. \A a \in Elsewhere : prev'[a] # None \/ v[a] = None
    BY <1>1 DEF SetAside, Elsewhere
  <2>4. \A a \in Elsewhere : v[a] # None => prev'[a] = v[a]
    BY <1>1 DEF SetAside, Elsewhere
  <2>5. ASSUME NEW j, j = current, j # k PROVE SetAsideSafely(j)'
    <3>1. PICK a \in Elsewhere : TRUE
      BY PlaceAssumption DEF Elsewhere
    <3>2. f[a] # None /\ f[a].key = j
      BY <1>3, <1>7, <2>5, <3>1 DEF FilesAgree, Elsewhere
    <3>3. f[a].host = host
      BY <2>2, <2>5, <3>2 DEF Elsewhere
    <3>4. prev'[a] # None /\ prev'[a].key = j
      BY <1>1, <2>2, <3>2, <3>3 DEF SetAside, Elsewhere
    <3> QED BY <3>4 DEF SetAsideSafely
  <2>6. ASSUME NEW j, SetAsideSafely(j) PROVE SetAsideSafely(j)'
    BY <2>4, <2>6 DEF SetAsideSafely
  <2>7. ASSUME NEW j, j = current \/ SetAsideSafely(j) PROVE j = k \/ SetAsideSafely(j)'
    BY <2>5, <2>6, <2>7
  <2>8. \A j \in data' : j = k \/ SetAsideSafely(j)'
    BY <2>1, <2>7 DEF OldKept
  <2>9. ASSUME NEW p \in Procs
        PROVE  cached'[p] = None \/ cached'[p] = current' \/ SetAsideSafely(cached[p])'
    <3>1. CASE p = Web
      BY <1>2, <3>1 DEF IInv, Typed, TypeOK
    <3>2. CASE p # Web
      <4>1. PICK j : j = cached[p]
        OBVIOUS
      <4>2. cached'[p] = j
        BY <1>2, <3>2, <4>1 DEF IInv, Typed, TypeOK
      <4>3. j = None \/ j = k \/ SetAsideSafely(j)'
        BY <2>1, <2>7, <4>1 DEF OldKept
      <4> QED BY <1>2, <4>2, <4>3 DEF SetAsideSafely
    <3> QED BY <3>1, <3>2
  <2> QED BY <1>2, <2>8, <2>9 DEF OldKept, SetAsideSafely
<1> QED BY <1>8, <1>9, <1>10, <1>11

\* An import leaves every store in agreement, or is a lapse.
LEMMA ImportAgrees ==
  ASSUME IInv, ImportFails \/ \E k \in Keys : Import(k) \/ Restore(k)
  PROVE  IInv'
<1>0. Typed'
  BY ImportKeeps DEF IInv
<1> SUFFICES ASSUME Tame' PROVE FilesAgree' /\ FirstUse' /\ StartsAgree' /\ (lapses' = {} => OldKept')
  BY <1>0 DEF IInv, Agreement, Tame
<1>1. files \in [Places -> Blob \cup {None}] /\ prev \in [Places -> Blob \cup {None}]
  BY DEF IInv, Typed, TypeOK
<1>2. ASSUME NEW k \in Keys, Import(k)
      PROVE  FilesAgree' /\ FirstUse' /\ StartsAgree' /\ (lapses' = {} => OldKept')
  <2>1. /\ Adopt(k, files, prev) /\ UNCHANGED <<identity, pc, chosen, data>>
        /\ pc[Web] = "up"
    BY <1>2 DEF Import, Importing
  <2> QED BY <1>0, <1>1, <2>1, AdoptAgrees
<1>3. ASSUME NEW k \in Keys, Restore(k)
      PROVE  FilesAgree' /\ FirstUse' /\ StartsAgree' /\ (lapses' = {} => OldKept')
  <2>1. PICK config \in BOOLEAN, b \in {None} \cup {[key |-> k, host |-> h] : h \in Hosts} :
          LET f == IF config THEN [files EXCEPT ![ConfigPlace] = b] ELSE files
              v == IF config THEN [prev EXCEPT ![ConfigPlace] = None] ELSE prev
          IN \/ Adopt(k, f, v)
             \/ /\ k = cached[Web]
                /\ files' = f /\ prev' = v
                /\ UNCHANGED <<keyring, cached, current, seen, lapses>>
    BY <1>3 DEF Restore
  <2> DEFINE f == IF config THEN [files EXCEPT ![ConfigPlace] = b] ELSE files
             v == IF config THEN [prev EXCEPT ![ConfigPlace] = None] ELSE prev
  <2>2. pc[Web] = "up" /\ data' \in {{k}, data \cup {k}} /\ UNCHANGED <<identity, pc, chosen>>
    BY <1>3 DEF Restore, Importing
  <2>3. b # None => b \in Blob /\ b.key = k
    BY <2>1 DEF Blob
  <2>4. /\ f \in [Places -> Blob \cup {None}] /\ v \in [Places -> Blob \cup {None}]
        /\ \A a \in Elsewhere : f[a] = files[a] /\ v[a] = prev[a]
        /\ f[ConfigPlace] \in {b, files[ConfigPlace]}
    BY <1>1, <2>3, PlaceAssumption DEF Elsewhere
  <2> HIDE DEF f, v
  <2>5. CASE Adopt(k, f, v)
    BY <1>0, <2>2, <2>4, <2>5, AdoptAgrees
  <2>6. CASE /\ k = cached[Web] /\ files' = f /\ prev' = v
             /\ UNCHANGED <<keyring, cached, current, seen, lapses>>
    <3>1. FilesAgree /\ FirstUse /\ StartsAgree /\ (lapses = {} => OldKept)
      BY <2>6 DEF IInv, Agreement, Tame
    <3>2. k = current /\ k # None
      BY <2>2, <2>6, <3>1, NoneAssumption DEF StartsAgree
    <3>3. FilesAgree'
      BY <2>3, <2>4, <2>6, <3>1, <3>2 DEF FilesAgree, Elsewhere
    <3>4. FirstUse' /\ StartsAgree'
      BY <2>2, <2>6, <3>1, <3>2 DEF FirstUse, StartsAgree
    <3>5. ASSUME lapses' = {} PROVE OldKept'
      <4>1. ASSUME NEW j, SetAsideSafely(j) PROVE SetAsideSafely(j)'
        BY <2>4, <2>6, <4>1 DEF SetAsideSafely
      <4>2. ASSUME NEW p \in Procs
            PROVE  cached'[p] = None \/ cached'[p] = current' \/ SetAsideSafely(cached[p])'
        <5>1. PICK j : j = cached[p]
          OBVIOUS
        <5>2. j = None \/ j = current \/ SetAsideSafely(j)'
          BY <2>6, <3>1, <3>5, <4>1, <5>1 DEF OldKept
        <5> QED BY <2>6, <5>1, <5>2 DEF SetAsideSafely
      <4>3. \A j \in data' : j = current \/ SetAsideSafely(j)'
        BY <2>2, <2>6, <3>1, <3>2, <3>5, <4>1 DEF OldKept
      <4> QED BY <2>6, <4>2, <4>3 DEF OldKept, SetAsideSafely
    <3> QED BY <3>3, <3>4, <3>5
  <2> QED BY <2>1, <2>5, <2>6 DEF f, v
<1>4. CASE ImportFails
  <2>1. /\ UNCHANGED <<identity, keyring, files, procs, data, current, seen, lapses>>
        /\ \E A \in SUBSET Places :
             prev' = [a \in Places |-> IF a \in A THEN SetAside(files, prev)[a] ELSE prev[a]]
    BY <1>4 DEF ImportFails
  <2>2. FilesAgree /\ FirstUse /\ StartsAgree /\ (lapses = {} => OldKept)
    BY <2>1 DEF IInv, Agreement, Tame
  <2>3. \A a \in Places : prev[a] # None => prev'[a] = prev[a]
    BY <2>1 DEF SetAside
  <2>4. FilesAgree' /\ FirstUse' /\ StartsAgree'
    BY <2>1, <2>2 DEF FilesAgree, FirstUse, StartsAgree, procs
  <2>5. ASSUME lapses' = {} PROVE OldKept'
    <3>1. ASSUME NEW j, SetAsideSafely(j) PROVE SetAsideSafely(j)'
      BY <2>3, <3>1 DEF SetAsideSafely, Elsewhere
    <3>2. ASSUME NEW p \in Procs
          PROVE  cached'[p] = None \/ cached'[p] = current' \/ SetAsideSafely(cached[p])'
      <4>1. PICK j : j = cached[p]
        OBVIOUS
      <4>2. j = None \/ j = current \/ SetAsideSafely(j)'
        BY <2>1, <2>2, <2>5, <3>1, <4>1 DEF OldKept
      <4> QED BY <2>1, <4>1, <4>2 DEF SetAsideSafely, procs
    <3>3. \A j \in data' : j = current \/ SetAsideSafely(j)'
      BY <2>1, <2>2, <2>5, <3>1 DEF OldKept
    <3> QED BY <2>1, <3>2, <3>3 DEF OldKept, SetAsideSafely
  <2> QED BY <2>4, <2>5
<1> QED BY <1>2, <1>3, <1>4

\* Encrypting uses a key that is current or set aside; stopping and moving
\* touch no copy.
LEMMA RestAgrees ==
  ASSUME IInv, (\E p \in Procs : Encrypt(p) \/ Stop(p)) \/ \E h \in Hosts : Move(h)
  PROVE  IInv'
<1>0. Typed'
  BY RestKeeps DEF IInv
<1>1. ASSUME NEW p \in Procs, Encrypt(p) PROVE IInv'
  <2>1. /\ UNCHANGED <<identity, store, procs, current, lapses>> /\ data' = data \cup {cached[p]}
        /\ cached[p] # None
    BY <1>1 DEF Encrypt, IInv, Typed, TypeOK
  <2>2. ASSUME Tame PROVE (FilesAgree /\ FirstUse /\ StartsAgree)'
    BY <2>1, <2>2 DEF IInv, Agreement, FilesAgree, FirstUse, StartsAgree, store, procs
  <2>3. ASSUME lapses = {} PROVE OldKept'
    BY <2>1, <2>3 DEF IInv, OldKept, SetAsideSafely, store, procs
  <2> QED BY <1>0, <2>1, <2>2, <2>3 DEF IInv, Agreement, Tame
<1>2. ASSUME NEW p \in Procs, Stop(p) PROVE IInv'
  <2>1. /\ UNCHANGED <<identity, store, data, current, lapses>>
        /\ \A q \in Procs : /\ pc'[q] = IF q = p THEN "down" ELSE pc[q]
                            /\ chosen'[q] = IF q = p THEN None ELSE chosen[q]
                            /\ cached'[q] = IF q = p THEN None ELSE cached[q]
    BY <1>2 DEF Stop, IInv, Typed, TypeOK
  <2>2. ASSUME Tame PROVE (FilesAgree /\ FirstUse /\ StartsAgree)'
    BY <2>1, <2>2, WebAssumption DEF IInv, Agreement, FilesAgree, FirstUse, StartsAgree, store
  <2>3. ASSUME lapses = {} PROVE OldKept'
    BY <2>1, <2>3 DEF IInv, OldKept, SetAsideSafely, store
  <2> QED BY <1>0, <2>1, <2>2, <2>3 DEF IInv, Agreement, Tame
<1>3. ASSUME NEW h \in Hosts, Move(h) PROVE IInv'
  <2>1. UNCHANGED <<ringed, store, procs, data, current, lapses>>
    BY <1>3 DEF Move
  <2> QED BY <1>0, <2>1 DEF IInv, Agreement, Tame, FilesAgree, FirstUse, StartsAgree, OldKept,
             SetAsideSafely, store, procs
<1> QED BY <1>1, <1>2, <1>3

\* Every step keeps the invariant.
LEMMA NextIInv == IInv /\ [Next]_vars => IInv'
<1> SUFFICES ASSUME IInv, [Next]_vars PROVE IInv'
  OBVIOUS
<1>1. CASE UNCHANGED vars
  <2>1. Typed'
    BY <1>1, NextTyped DEF IInv
  <2> QED BY <1>1, <2>1 DEF vars, identity, store, procs, IInv, Agreement, Tame, FilesAgree,
             FirstUse, StartsAgree, OldKept, SetAsideSafely
<1>2. CASE Next
  BY <1>2, LookAgrees, SettleAgrees, ImportAgrees, RestAgrees DEF Next
<1> QED BY <1>1, <1>2

-----------------------------------------------------------------------------
(* The theorems *)

\* The strengthened invariant holds in every reachable state.
THEOREM InductiveInvariant == Spec => []IInv
  BY InitIInv, NextIInv, PTL DEF Spec

\* A key that data is encrypted with can be found somewhere (encryption.py:156,
\* 602), apart from the named lapses.
THEOREM KeysAreKept == Spec => []NoKeyIsLost
<1>1. IInv => NoKeyIsLost
  <2> SUFFICES ASSUME IInv, lapses = {}, NEW k \in data PROVE k \in Held
    BY DEF NoKeyIsLost
  <2>1. FilesAgree /\ FirstUse /\ OldKept /\ current # None
    BY DEF IInv, Agreement, Tame, FirstUse
  <2>2. PICK a \in Elsewhere : TRUE
    BY PlaceAssumption DEF Elsewhere
  <2>3. files[a] # None /\ files[a].key = current /\ a \in Places
    BY <2>1, <2>2 DEF FilesAgree, Elsewhere
  <2>4. current \in Held
    BY <2>3 DEF Held, HeldIn
  <2>5. ASSUME SetAsideSafely(k) PROVE k \in Held
    BY <2>5 DEF SetAsideSafely, Held, HeldIn, Elsewhere
  <2> QED BY <2>1, <2>4, <2>5 DEF OldKept
<1> QED BY <1>1, InductiveInvariant, PTL

\* A start comes to the key adopted last ("Recovery chain", encryption.py:341),
\* apart from the named lapses.
THEOREM RecoveryChain == Spec => []StartsFindTheKey
<1>1. IInv => StartsFindTheKey
  BY DEF IInv, Agreement, Tame, StartsAgree, StartsFindTheKey
<1> QED BY <1>1, InductiveInvariant, PTL

\* "Create new key ONLY if no backups exist" (encryption.py:344): no key is made
\* where data is encrypted already.
THEOREM MintsOnlyOverNothing == Spec => NeverMintsOverData
<1>1. IInv /\ [Next]_vars => [seen' # seen /\ imports' = imports /\ lapses' = {} => data = {}]_vars
  <2> SUFFICES ASSUME IInv, Next, seen' # seen, imports' = imports, lapses' = {} PROVE data = {}
    BY DEF vars
  <2>1. PICK p \in Procs : Mint(p)
    <3>1. imports \in Nat
      BY BoundsAssumption DEF IInv, Typed, TypeOK
    <3>2. imports' # imports + 1
      BY <3>1
    <3>3. \A k \in Keys : ~Import(k) /\ ~Restore(k)
      BY <3>2 DEF Import, Restore, Importing
    <3>4. ~ImportFails
      BY <3>2 DEF ImportFails, Importing
    <3>5. \A h \in Hosts : ~Move(h)
      BY DEF Move
    <3>6. \A p \in Procs : ~Find(p) /\ ~Recover(p) /\ ~Settle(p) /\ ~Encrypt(p) /\ ~Stop(p)
      BY DEF Find, Recover, Settle, Encrypt, Stop
    <3> QED BY <3>3, <3>4, <3>5, <3>6 DEF Next
  <2>2. lapses = {}
    BY <2>1 DEF Mint
  <2>3. FilesAgree /\ FirstUse
    BY <2>2 DEF IInv, Agreement, Tame
  <2>4. current = None
    BY <2>1, <2>3, NoBackupNoKey DEF Mint
  <2> QED BY <2>3, <2>4 DEF FirstUse
<1> QED BY <1>1, InductiveInvariant, PTL DEF Spec, NeverMintsOverData
=============================================================================
