------------------------------ MODULE KeyAdmin ------------------------------
(***************************************************************************)
(* Management writes to the policy (internal/policy/admin.go,              *)
(* price_admin.go): concurrent administrators create, patch, rotate and    *)
(* delete keys and write prices. A write is saved to the state file under  *)
(* updateMu and only then published to the calls that authenticate; patch  *)
(* and rotate read the key they change before they take that lock.         *)
(*                                                                         *)
(* A key is its secret and whether it is enabled; the price table is one   *)
(* value. Validation other than of the secret, the audit log and answers   *)
(* are left out. Usage and quota periods are in UsageLedger.               *)
(***************************************************************************)
EXTENDS Naturals, FiniteSets

CONSTANTS
  Admins,      \* management calls under way at once
  KeyIds,
  Secrets,     \* stands for their hashes
  Prices,      \* price tables
  None,
  MaxWrites,   \* bound: management calls
  MaxCrashes,  \* bound: crashes
  Failures     \* what may fail: the state write ("state"), or the directory sync
               \* after its rename has replaced the file ("state.sync")

ASSUME KeyAdminAssumption ==
  /\ None \notin Admins
  /\ MaxWrites \in Nat /\ MaxCrashes \in Nat
  /\ Failures \subseteq {"state", "state.sync"}

VARIABLES
  up,        \* the process runs
  keys,      \* the published keys
  prices,    \* the published price table
  periods,   \* the keys whose quota periods are open
  file,      \* the state file
  pc,        \* where each administrator's call is
  call,      \* the call
  updateMu,  \* the administrator that holds it
  strayed,   \* a write failed after its rename, and none has succeeded since
  retired,   \* history: secrets an answered rotation replaced, and no call names again
  deleted,   \* history: keys an answered delete removed, and no call creates again
  overtaken, \* history: those of both that a call under way at the answer had read before
  writes, crashes  \* bounds

Past == <<retired, deleted, overtaken>>
Bounds == <<writes, crashes>>
vars == <<up, keys, prices, periods, file, pc, call, updateMu, strayed, Past, Bounds>>

Key == [secret : Secrets, enabled : BOOLEAN]
Keyring == [KeyIds -> Key \cup {None}]

ASSUME NoneAssumption == None \notin Key

NoKeys == [k \in KeyIds |-> None]

NoCall == [op |-> "none"]

\* named: the caller chose the secret.
KeyCall == [op : {"create", "patch", "rotate"}, id : KeyIds, key : Key, named : BOOLEAN]
Call == {NoCall} \cup KeyCall \cup [op : {"delete"}, id : KeyIds] \cup [op : {"price"}, table : Prices]

TypeOK ==
  /\ up \in BOOLEAN /\ strayed \in BOOLEAN
  /\ keys \in Keyring /\ prices \in Prices /\ periods \subseteq KeyIds
  /\ file \in [keys : Keyring, prices : Prices]
  /\ pc \in [Admins -> {"idle", "waiting", "locked", "saved", "opened", "unpublished"}]
  /\ call \in [Admins -> Call]
  /\ updateMu \in Admins \cup {None}
  /\ retired \subseteq Secrets /\ deleted \subseteq KeyIds /\ overtaken \subseteq Secrets \cup KeyIds
  /\ \A a \in Admins : updateMu = a <=> pc[a] \notin {"idle", "waiting"}
  /\ writes \in 0..MaxWrites /\ crashes \in 0..MaxCrashes

----------------------------------------------------------------------------
\* A call arrives

NamedBy(calls) == {c.key.secret : c \in {d \in calls \cap KeyCall : d.named}}
CreatedBy(calls) == {c.id : c \in {d \in calls \cap KeyCall : d.op = "create"}}
UnderWay == {call[a] : a \in Admins}

Begin(a, c) ==
  /\ up /\ pc[a] = "idle" /\ writes < MaxWrites
  /\ pc' = [pc EXCEPT ![a] = "waiting"] /\ call' = [call EXCEPT ![a] = c]
  /\ retired' = retired \ NamedBy({c}) /\ deleted' = deleted \ CreatedBy({c})
  /\ writes' = writes + 1
  /\ UNCHANGED <<up, keys, prices, periods, file, updateMu, strayed, overtaken, crashes>>

\* POST /keys: the secret is the caller's or generated; an existing id is replaced.
BeginCreate(a) ==
  \E id \in KeyIds, s \in Secrets :
    Begin(a, [op |-> "create", id |-> id, key |-> [secret |-> s, enabled |-> TRUE], named |-> TRUE])

\* PATCH /keys changes a copy of the key, without a lock.
BeginPatch(a) ==
  \E id \in KeyIds, s \in Secrets, on \in BOOLEAN, named \in BOOLEAN :
    /\ keys[id] # None
    /\ ~named => s = keys[id].secret
    /\ Begin(a, [op |-> "patch", id |-> id, key |-> [secret |-> s, enabled |-> on], named |-> named])

\* A generated secret is one nobody ever had.
Known == {keys[id].secret : id \in {k \in KeyIds : keys[k] # None}}
         \cup retired
         \cup {c.key.secret : c \in UnderWay \cap KeyCall}

BeginRotate(a) ==
  \E id \in KeyIds, s \in Secrets \ Known :
    /\ keys[id] # None
    /\ Begin(a, [op |-> "rotate", id |-> id, key |-> [secret |-> s, enabled |-> keys[id].enabled], named |-> FALSE])

BeginDelete(a) == \E id \in KeyIds : Begin(a, [op |-> "delete", id |-> id])

BeginPrice(a) == \E p \in Prices : Begin(a, [op |-> "price", table |-> p])

----------------------------------------------------------------------------
\* Under updateMu

UsedByAnother(c) == \E id \in KeyIds \ {c.id} : keys[id] # None /\ keys[id].secret = c.key.secret

\* secretUnique, and ErrUnknownKey for a delete.
Refused_NamedOnly(c) == IF c.op = "delete" THEN keys[c.id] = None ELSE c \in KeyCall /\ c.named /\ UsedByAnother(c)
Refused(c) == IF c.op = "delete" THEN keys[c.id] = None ELSE c \in KeyCall /\ UsedByAnother(c)

Lock(a) ==
  /\ pc[a] = "waiting" /\ updateMu = None
  /\ IF Refused(call[a])
     THEN pc' = [pc EXCEPT ![a] = "idle"] /\ call' = [call EXCEPT ![a] = NoCall] /\ UNCHANGED updateMu
     ELSE pc' = [pc EXCEPT ![a] = "locked"] /\ updateMu' = a /\ UNCHANGED call
  /\ UNCHANGED <<up, keys, prices, periods, file, strayed, Past, Bounds>>

\* The rows a call writes: the published ones with its change.
KeysAfter(c) ==
  CASE c.op = "delete" -> [keys EXCEPT ![c.id] = None]
    [] c.op = "price" -> keys
    [] OTHER -> [keys EXCEPT ![c.id] = c.key]
PricesAfter(c) == IF c.op = "price" THEN c.table ELSE prices

Written_KeysOnly(c) == [keys |-> KeysAfter(c), prices |-> file.prices]
Written_Before(c) == [keys |-> keys, prices |-> PricesAfter(c)]
Written(c) == [keys |-> KeysAfter(c), prices |-> PricesAfter(c)]

Save(a) ==
  /\ pc[a] = "locked"
  /\ file' = Written(call[a]) /\ strayed' = FALSE
  /\ pc' = [pc EXCEPT ![a] = "saved"]
  /\ UNCHANGED <<up, keys, prices, periods, call, updateMu, Past, Bounds>>

\* The call returns and nothing is published, whatever became of the file.
Done(a) ==
  /\ pc' = [pc EXCEPT ![a] = "idle"] /\ call' = [call EXCEPT ![a] = NoCall] /\ updateMu' = None

SaveFails(a) ==
  /\ pc[a] = "locked"
  /\ \/ "state" \in Failures /\ UNCHANGED <<file, strayed>>
     \/ "state.sync" \in Failures /\ file' = Written(call[a]) /\ strayed' = TRUE
  /\ Done(a)
  /\ UNCHANGED <<up, keys, prices, periods, Past, Bounds>>

\* openCycles, before the key is published.
MayPublish_Unopened(a) == pc[a] \in {"saved", "opened"}
MayPublish(a) == pc[a] = IF call[a] \in KeyCall THEN "opened" ELSE "saved"

OpenPeriods(a) ==
  /\ pc[a] = "saved" /\ call[a] \in KeyCall
  /\ periods' = periods \cup {call[a].id}
  /\ pc' = [pc EXCEPT ![a] = "opened"]
  /\ UNCHANGED <<up, keys, prices, file, call, updateMu, strayed, Past, Bounds>>

\* The secret that no longer authenticates once the rotation c is published.
Replaced(c) == IF c.op = "rotate" /\ keys[c.id] # None THEN {keys[c.id].secret} \ {c.key.secret} ELSE {}

\* The key is in the maps that authenticate; the call is answered.
PublishKey(a) ==
  /\ call[a] \in KeyCall /\ MayPublish(a)
  /\ keys' = KeysAfter(call[a])
  /\ retired' = retired \cup (Replaced(call[a]) \ NamedBy(UnderWay))
  /\ overtaken' = overtaken \cup (Replaced(call[a]) \cap {c.key.secret : c \in UnderWay \cap KeyCall})
  /\ Done(a)
  /\ UNCHANGED <<up, prices, periods, file, strayed, deleted, Bounds>>

PublishPrices(a) ==
  /\ pc[a] = "saved" /\ call[a].op = "price"
  /\ prices' = call[a].table
  /\ Done(a)
  /\ UNCHANGED <<up, keys, periods, file, strayed, Past, Bounds>>

\* DeleteKey: the key stops authenticating, then forgetKey takes its periods.
Unpublish(a) ==
  /\ pc[a] = "saved" /\ call[a].op = "delete"
  /\ keys' = KeysAfter(call[a])
  /\ pc' = [pc EXCEPT ![a] = "unpublished"]
  /\ UNCHANGED <<up, prices, periods, file, call, updateMu, strayed, Past, Bounds>>

Forgotten(a) == {call[a].id}

Forget(a) ==
  /\ pc[a] = "unpublished"
  /\ periods' = periods \ Forgotten(a)
  /\ deleted' = deleted \cup ({call[a].id} \ CreatedBy(UnderWay))
  /\ overtaken' = overtaken \cup ({call[a].id} \cap {c.id : c \in UnderWay \cap KeyCall})
  /\ Done(a)
  /\ UNCHANGED <<up, keys, prices, file, strayed, retired, Bounds>>

----------------------------------------------------------------------------
\* Crash and restart

Crash ==
  /\ up /\ crashes < MaxCrashes
  /\ up' = FALSE /\ keys' = NoKeys /\ periods' = {}
  /\ pc' = [a \in Admins |-> "idle"] /\ call' = [a \in Admins |-> NoCall] /\ updateMu' = None
  /\ crashes' = crashes + 1
  /\ UNCHANGED <<prices, file, strayed, Past, writes>>

\* configure: every key in the file gets its periods (syncCycles).
Restart ==
  /\ ~up
  /\ up' = TRUE /\ keys' = file.keys /\ prices' = file.prices /\ strayed' = FALSE
  /\ periods' = {id \in KeyIds : file.keys[id] # None}
  /\ UNCHANGED <<file, pc, call, updateMu, Past, Bounds>>

\* No call is under way.
AtRest == up /\ (\A a \in Admins : pc[a] = "idle") /\ UNCHANGED vars

\* A process that has just started on an empty data directory.
Fresh ==
  /\ up = TRUE /\ keys = NoKeys /\ periods = {}
  /\ prices \in Prices /\ file = [keys |-> NoKeys, prices |-> prices]
  /\ pc = [a \in Admins |-> "idle"] /\ call = [a \in Admins |-> NoCall] /\ updateMu = None
  /\ strayed = FALSE /\ retired = {} /\ deleted = {} /\ overtaken = {}
  /\ crashes = 0

Init == Fresh /\ writes = 0

KeyCalls(a) ==
  \/ BeginCreate(a) \/ BeginPatch(a) \/ BeginRotate(a) \/ BeginDelete(a) \/ BeginPrice(a)
  \/ Lock(a) \/ Save(a) \/ SaveFails(a) \/ OpenPeriods(a)
  \/ PublishKey(a) \/ PublishPrices(a) \/ Unpublish(a) \/ Forget(a)

Next == (\E a \in Admins : KeyCalls(a)) \/ Crash \/ Restart \/ AtRest

Spec == Init /\ [][Next]_vars

----------------------------------------------------------------------------
\* Properties

Same(ring) == \A i, j \in KeyIds : ring[i] # None /\ ring[j] # None /\ ring[i].secret = ring[j].secret => i = j

(* A secret belongs to one key, in memory and in the file, whatever calls
   run at once (README.md:148 "A secret already used by another key is
   refused"): the check runs under updateMu, so a patch that writes back a
   secret it read before another key took it is refused too. *)
SecretsAreUnique == Same(keys) /\ Same(file.keys)

(* The file holds what is published or what the call under way is about to
   publish: keys and prices written by concurrent calls do not undo each
   other. Only a write that failed after its rename leaves the file ahead. *)
FileFollowsMemory ==
  up /\ ~strayed =>
    \/ file = [keys |-> keys, prices |-> prices]
    \/ (updateMu # None /\ pc[updateMu] \in {"saved", "opened"} /\ file = Written(call[updateMu]))

(* A published key has its quota periods, so that a record that arrives right
   after publication counts against its quota (admin.go:65), and no other key
   keeps periods that a key created later under its id would inherit. *)
PeriodsFollowKeys ==
  \A id \in KeyIds :
    /\ keys[id] # None => id \in periods
    /\ id \in periods => keys[id] # None \/ (updateMu # None /\ call[updateMu].id = id)

(* A secret that a rotation replaced authenticates no more (admin_test.go:44
   "rotated secret still resolves") and a deleted key exists no more
   (app_test.go:441 patching one answers 404), through failed writes and
   crashes, until a call names them again; but a patch or a rotation that had
   read the key before that was answered may write it back. *)
GoneStaysGone ==
  /\ \A id \in KeyIds : keys[id] # None => keys[id].secret \notin retired \ overtaken
  /\ \A id \in deleted \ overtaken : keys[id] = None

(* A rotated-out secret authenticates no more, without the exception. *)
RotationIsFinal == \A id \in KeyIds : keys[id] # None => keys[id].secret \notin retired

=============================================================================
