-------------------------- MODULE ManagementProofs --------------------------
(***************************************************************************)
(* Theorems about Management, for any administrators, keys, secrets, price *)
(* tables, operators, drafts, channels, attempts, bounds and failures.     *)
(*                                                                         *)
(* Of KeyAdmin, alone and with the adapter rules beside it: every state is *)
(* well typed, no two keys have the same secret, the file and the quota    *)
(* periods follow the keys, and what is rotated out or deleted stays gone. *)
(* Of Adapters: the file of the rules holds what was answered, and every   *)
(* rule has a counter that tells the attempts it changed.                  *)
(***************************************************************************)
EXTENDS Management, WellFoundedInduction, TLAPS

(* Where the writes of keys start, alone or with a share of a run, and what
   they do from there on. *)
Starts == Fresh /\ writes \in 0..MaxWrites
Running == Starts /\ [][Next]_vars

LEMMA Runs == Spec \/ ManagementSpec => Running
<1>1. Init => Starts
  BY KeyAdminAssumption DEF Init, Starts
<1>2. ManagementInit => Starts
  <2> SUFFICES ASSUME ManagementInit PROVE writes \in 0..MaxWrites
    BY DEF ManagementInit, Starts
  <2>1. PICK share \in Shares : writes = MaxWrites - share.keys
    BY DEF ManagementInit
  <2> QED BY <2>1, KeyAdminAssumption, ManagementAssumption
<1>3. [ManagementNext]_AllVars => [Next]_vars
  BY DEF ManagementNext, Next, AllVars
<1> QED BY <1>1, <1>2, <1>3, PTL DEF Spec, ManagementSpec, Running


\* Where a call is, beyond its type.
Steps ==
  /\ \A a \in Admins : pc[a] # "idle" => call[a].op # "none"
  /\ \A a \in Admins : pc[a] = "unpublished" => call[a].op = "delete"
  /\ ~up => \A a \in Admins : pc[a] = "idle"

Typed == TypeOK /\ Steps

\* What the check under updateMu found stays true until the key is published.
Checked ==
  \A a \in Admins : pc[a] \in {"locked", "saved", "opened"} /\ call[a] \in KeyCall => ~UsedByAnother(call[a])

SecretsInv == SecretsAreUnique /\ Checked

----------------------------------------------------------------------------
\* The operators keep the types

LEMMA CallFields ==
  ASSUME NEW c \in Call, c.op # "none"
  PROVE  /\ c.op = "delete" => c.id \in KeyIds
         /\ c.op = "price" => c.table \in Prices
         /\ c.op \notin {"delete", "price"} => c \in KeyCall
         /\ c \in KeyCall => /\ c.op \in {"create", "patch", "rotate"}
                             /\ c.id \in KeyIds /\ c.key \in Key
<1>1. CASE c \in KeyCall
  BY <1>1 DEF KeyCall
<1>2. CASE c \in [op : {"delete"}, id : KeyIds]
  BY <1>2 DEF KeyCall
<1>3. CASE c \in [op : {"price"}, table : Prices]
  BY <1>3 DEF KeyCall
<1> QED BY <1>1, <1>2, <1>3 DEF Call, NoCall

LEMMA WrittenType ==
  ASSUME TypeOK, NEW c \in Call, c.op # "none"
  PROVE  KeysAfter(c) \in Keyring /\ Written(c) \in [keys : Keyring, prices : Prices]
<1>1. KeysAfter(c) \in Keyring
  <2>1. CASE c.op = "delete"
    BY <2>1, CallFields DEF TypeOK, KeysAfter, Keyring
  <2>2. CASE c.op = "price"
    BY <2>2 DEF TypeOK, KeysAfter
  <2>3. CASE c.op \notin {"delete", "price"}
    BY <2>3, CallFields DEF TypeOK, KeysAfter, Keyring
  <2> QED BY <2>1, <2>2, <2>3
<1>2. PricesAfter(c) \in Prices
  BY CallFields DEF TypeOK, PricesAfter
<1> QED BY <1>1, <1>2 DEF Written

\* updateMu has one holder, and a call that returns leaves it free.
LEMMA DoneType ==
  ASSUME Typed, NEW a \in Admins, updateMu = a, Done(a)
  PROVE  /\ pc' \in [Admins -> {"idle", "waiting", "locked", "saved", "opened", "unpublished"}]
         /\ call' \in [Admins -> Call] /\ updateMu' \in Admins \cup {None}
         /\ \A b \in Admins : updateMu' = b <=> pc'[b] \notin {"idle", "waiting"}
         /\ \A b \in Admins : pc'[b] # "idle" => call'[b].op # "none"
         /\ \A b \in Admins : pc'[b] # "unpublished" /\ pc'[b] \notin {"locked", "saved", "opened"}
         /\ pc'[a] = "idle"
  BY KeyAdminAssumption DEF Typed, Steps, TypeOK, Done, Call

----------------------------------------------------------------------------
\* Type correctness

LEMMA InitTyped == Starts => Typed
<1> SUFFICES ASSUME Starts PROVE Typed
  OBVIOUS
<1>1. NoKeys \in Keyring /\ NoCall \in Call
  BY DEF NoKeys, Keyring, Call
<1>2. /\ pc \in [Admins -> {"idle", "waiting", "locked", "saved", "opened", "unpublished"}]
      /\ call \in [Admins -> Call]
  BY <1>1 DEF Starts, Fresh
<1>3. \A a \in Admins : updateMu = a <=> pc[a] \notin {"idle", "waiting"}
  BY KeyAdminAssumption DEF Starts, Fresh
<1>4. file \in [keys : Keyring, prices : Prices]
  BY <1>1 DEF Starts, Fresh
<1>5. writes \in 0..MaxWrites /\ crashes \in 0..MaxCrashes
  BY KeyAdminAssumption DEF Starts, Fresh
<1>6. TypeOK
  BY <1>1, <1>2, <1>3, <1>4, <1>5 DEF Starts, Fresh, TypeOK
<1>7. Steps
  BY DEF Starts, Fresh, Steps
<1> QED BY <1>6, <1>7 DEF Typed

LEMMA BeginTyped ==
  ASSUME Typed, NEW a \in Admins, NEW c \in Call, c.op # "none", Begin(a, c) PROVE Typed'
<1>1. TypeOK'
  BY KeyAdminAssumption DEF Typed, TypeOK, Begin
<1>2. Steps'
  BY DEF Typed, TypeOK, Steps, Begin
<1> QED BY <1>1, <1>2 DEF Typed

LEMMA ArrivalTyped ==
  ASSUME Typed, NEW a \in Admins,
         BeginCreate(a) \/ BeginPatch(a) \/ BeginRotate(a) \/ BeginDelete(a) \/ BeginPrice(a)
  PROVE  Typed'
<1> USE DEF Call
<1>1. CASE BeginCreate(a)
  <2> PICK id \in KeyIds, s \in Secrets :
        Begin(a, [op |-> "create", id |-> id, key |-> [secret |-> s, enabled |-> TRUE], named |-> TRUE])
    BY <1>1 DEF BeginCreate
  <2> QED BY BeginTyped DEF KeyCall, Key
<1>2. CASE BeginPatch(a)
  <2> PICK id \in KeyIds, s \in Secrets, on \in BOOLEAN, chosen \in BOOLEAN :
        Begin(a, [op |-> "patch", id |-> id, key |-> [secret |-> s, enabled |-> on], named |-> chosen])
    BY <1>2 DEF BeginPatch
  <2> QED BY BeginTyped DEF KeyCall, Key
<1>3. CASE BeginRotate(a)
  <2> PICK id \in KeyIds, s \in Secrets \ Known :
        /\ keys[id] # None
        /\ Begin(a, [op |-> "rotate", id |-> id, key |-> [secret |-> s, enabled |-> keys[id].enabled], named |-> FALSE])
    BY <1>3 DEF BeginRotate
  <2>1. keys[id] \in Key
    BY DEF Typed, TypeOK, Keyring
  <2> QED BY <2>1, BeginTyped DEF KeyCall, Key
<1>4. CASE BeginDelete(a)
  BY <1>4, BeginTyped DEF BeginDelete
<1>5. CASE BeginPrice(a)
  BY <1>5, BeginTyped DEF BeginPrice
<1> QED BY <1>1, <1>2, <1>3, <1>4, <1>5

LEMMA StepTyped ==
  ASSUME Typed, NEW a \in Admins,
         \/ Lock(a) \/ Save(a) \/ SaveFails(a) \/ OpenPeriods(a)
         \/ PublishKey(a) \/ PublishPrices(a) \/ Unpublish(a) \/ Forget(a)
  PROVE  Typed'
<1> USE DEF Typed
<1>1. call[a] \in Call
  BY DEF TypeOK
<1>2. CASE Lock(a)
  <2>1. TypeOK'
    BY <1>2, KeyAdminAssumption DEF TypeOK, Lock, Call, Bounds, Past
  <2>2. Steps'
    BY <1>2 DEF TypeOK, Steps, Lock
  <2> QED BY <2>1, <2>2
<1>3. CASE Save(a)
  <2>1. Written(call[a]) \in [keys : Keyring, prices : Prices]
    BY <1>1, <1>3, WrittenType DEF Save, Steps
  <2>2. TypeOK'
    BY <1>3, <2>1 DEF TypeOK, Save, Past, Bounds
  <2>3. Steps'
    BY <1>3 DEF TypeOK, Steps, Save
  <2> QED BY <2>2, <2>3
<1>4. CASE SaveFails(a)
  <2>1. Written(call[a]) \in [keys : Keyring, prices : Prices]
    BY <1>1, <1>4, WrittenType DEF SaveFails, Steps
  <2>2. updateMu = a /\ Done(a)
    BY <1>4 DEF TypeOK, SaveFails
  <2>3. file' \in [keys : Keyring, prices : Prices] /\ strayed' \in BOOLEAN
    BY <1>4, <2>1 DEF TypeOK, SaveFails
  <2>4. TypeOK'
    BY <1>4, <2>2, <2>3, DoneType DEF TypeOK, SaveFails, Past, Bounds
  <2>5. Steps'
    BY <1>4, <2>2, DoneType DEF TypeOK, Steps, SaveFails, Done
  <2> QED BY <2>4, <2>5
<1>5. CASE OpenPeriods(a)
  <2>1. call[a].id \in KeyIds
    BY <1>1, <1>5, CallFields DEF OpenPeriods, Steps
  <2>2. TypeOK'
    BY <1>5, <2>1 DEF TypeOK, OpenPeriods, Past, Bounds
  <2>3. Steps'
    BY <1>5 DEF TypeOK, Steps, OpenPeriods
  <2> QED BY <2>2, <2>3
<1>6. CASE PublishKey(a)
  <2>1. pc[a] = "opened" /\ updateMu = a /\ Done(a) /\ call[a] \in KeyCall
    BY <1>6 DEF TypeOK, PublishKey, MayPublish
  <2>2. KeysAfter(call[a]) \in Keyring
    BY <1>1, <2>1, WrittenType DEF Steps
  <2>3. Replaced(call[a]) \subseteq Secrets
    BY <1>1, <2>1, CallFields DEF TypeOK, Keyring, Key, Replaced
  <2>4. retired' \subseteq Secrets /\ overtaken' \subseteq Secrets \cup KeyIds
    BY <1>6, <2>3 DEF TypeOK, PublishKey
  <2>5. TypeOK'
    BY <1>6, <2>1, <2>2, <2>4, DoneType DEF TypeOK, PublishKey, Past, Bounds
  <2>6. Steps'
    BY <1>6, <2>1, DoneType DEF TypeOK, Steps, PublishKey, Done
  <2> QED BY <2>5, <2>6
<1>7. CASE PublishPrices(a)
  <2>1. pc[a] = "saved" /\ updateMu = a /\ Done(a)
    BY <1>7 DEF TypeOK, PublishPrices
  <2>2. call[a].table \in Prices
    BY <1>1, <1>7, CallFields DEF PublishPrices
  <2>3. TypeOK'
    BY <1>7, <2>1, <2>2, DoneType DEF TypeOK, PublishPrices, Past, Bounds
  <2>4. Steps'
    BY <1>7, <2>1, DoneType DEF TypeOK, Steps, PublishPrices, Done
  <2> QED BY <2>3, <2>4
<1>8. CASE Unpublish(a)
  <2>1. KeysAfter(call[a]) \in Keyring
    BY <1>1, <1>8, WrittenType DEF Unpublish
  <2>2. TypeOK'
    BY <1>8, <2>1 DEF TypeOK, Unpublish, Past, Bounds
  <2>3. Steps'
    BY <1>8 DEF TypeOK, Steps, Unpublish
  <2> QED BY <2>2, <2>3
<1>9. CASE Forget(a)
  <2>1. updateMu = a /\ Done(a) /\ call[a].id \in KeyIds
    BY <1>1, <1>9, CallFields DEF TypeOK, Forget, Steps
  <2>2. TypeOK'
    BY <1>9, <2>1, DoneType DEF TypeOK, Forget, Past, Bounds
  <2>3. Steps'
    BY <1>9, <2>1, DoneType DEF TypeOK, Steps, Forget, Done
  <2> QED BY <2>2, <2>3
<1> QED BY <1>2, <1>3, <1>4, <1>5, <1>6, <1>7, <1>8, <1>9

LEMMA ProcessTyped == ASSUME Typed, Crash \/ Restart \/ UNCHANGED vars PROVE Typed'
<1>1. CASE Crash
  <2>1. NoKeys \in Keyring /\ NoCall \in Call
    BY DEF NoKeys, Keyring, Call
  <2>2. pc' = [a \in Admins |-> "idle"] /\ call' = [a \in Admins |-> NoCall] /\ updateMu' = None
    BY <1>1 DEF Crash
  <2>3. /\ pc' \in [Admins -> {"idle", "waiting", "locked", "saved", "opened", "unpublished"}]
        /\ call' \in [Admins -> Call]
        /\ \A a \in Admins : updateMu' = a <=> pc'[a] \notin {"idle", "waiting"}
    BY <2>1, <2>2, KeyAdminAssumption
  <2>4. crashes' \in 0..MaxCrashes
    BY <1>1, KeyAdminAssumption DEF Typed, TypeOK, Crash
  <2>5. TypeOK'
    BY <1>1, <2>1, <2>2, <2>3, <2>4 DEF Typed, TypeOK, Crash, Past
  <2>6. Steps'
    BY <2>2 DEF Steps
  <2> QED BY <2>5, <2>6 DEF Typed
<1>2. CASE Restart
  <2>1. TypeOK'
    BY <1>2 DEF Typed, TypeOK, Restart, Past, Bounds
  <2>2. Steps'
    BY <1>2 DEF Typed, Steps, Restart
  <2> QED BY <2>1, <2>2 DEF Typed
<1>3. CASE UNCHANGED vars
  BY <1>3 DEF Typed, TypeOK, Steps, vars, Past, Bounds
<1> QED BY <1>1, <1>2, <1>3

LEMMA NextTyped == Typed /\ [Next]_vars => Typed'
  BY ArrivalTyped, StepTyped, ProcessTyped DEF Next, KeyCalls, AtRest

(* Every state is well typed: updateMu in particular has one holder, the call
   that is between the check of its request and its answer. *)
THEOREM TypeCorrect == Spec \/ ManagementSpec => []TypeOK
<1>1. Running => []Typed
  BY InitTyped, NextTyped, PTL DEF Running
<1> QED BY Runs, <1>1, PTL DEF Typed
----------------------------------------------------------------------------
\* Secrets

LEMMA InitSecrets == Starts => SecretsInv
  BY DEF Starts, Fresh, SecretsInv, SecretsAreUnique, Same, NoKeys, Checked

\* The rows a checked call writes have unique secrets.
LEMMA WrittenUnique ==
  ASSUME Typed, Same(keys), NEW c \in Call, c.op # "none", c \in KeyCall => ~UsedByAnother(c)
  PROVE  Same(KeysAfter(c))
<1>1. CASE c.op = "delete"
  <2>1. \A id \in KeyIds : KeysAfter(c)[id] # None => KeysAfter(c)[id] = keys[id]
    BY <1>1, CallFields DEF Typed, TypeOK, Keyring, KeysAfter
  <2> QED BY <2>1 DEF Same
<1>2. CASE c.op = "price"
  BY <1>2 DEF KeysAfter
<1>3. CASE c.op \notin {"delete", "price"}
  <2>1. c \in KeyCall /\ c.id \in KeyIds /\ ~UsedByAnother(c)
    BY <1>3, CallFields
  <2>2. KeysAfter(c)[c.id] = c.key /\ \A id \in KeyIds \ {c.id} : KeysAfter(c)[id] = keys[id]
    BY <1>3, <2>1 DEF Typed, TypeOK, Keyring, KeysAfter
  <2> QED BY <2>1, <2>2 DEF Same, UsedByAnother
<1> QED BY <1>1, <1>2, <1>3

LEMMA ArrivalSecrets ==
  ASSUME Typed, SecretsInv, NEW a \in Admins,
         BeginCreate(a) \/ BeginPatch(a) \/ BeginRotate(a) \/ BeginDelete(a) \/ BeginPrice(a)
  PROVE  SecretsInv'
<1>1. PICK c : Begin(a, c)
  BY DEF BeginCreate, BeginPatch, BeginRotate, BeginDelete, BeginPrice
<1> QED BY <1>1 DEF Typed, TypeOK, SecretsInv, SecretsAreUnique, Same, Checked, UsedByAnother, Begin

LEMMA StepSecrets ==
  ASSUME Typed, SecretsInv, NEW a \in Admins,
         \/ Lock(a) \/ Save(a) \/ SaveFails(a) \/ OpenPeriods(a)
         \/ PublishKey(a) \/ PublishPrices(a) \/ Unpublish(a) \/ Forget(a)
  PROVE  SecretsInv'
<1> USE DEF SecretsInv
<1>1. call[a] \in Call
  BY DEF Typed, TypeOK
<1>2. CASE Lock(a)
  <2>1. SecretsAreUnique'
    BY <1>2 DEF SecretsAreUnique, Same, Lock
  <2>2. Checked'
    BY <1>1, <1>2, CallFields DEF Typed, TypeOK, Checked, UsedByAnother, Lock, Refused
  <2> QED BY <2>1, <2>2
<1>3. CASE Save(a)
  <2>1. Same(KeysAfter(call[a]))
    BY <1>1, <1>3, WrittenUnique DEF Typed, Steps, Save, Checked, SecretsAreUnique
  <2>2. keys' = keys /\ file'.keys = KeysAfter(call[a])
    BY <1>3 DEF Save, Written
  <2>3. SecretsAreUnique'
    BY <2>1, <2>2 DEF SecretsAreUnique, Same
  <2>4. Checked'
    BY <1>3 DEF Typed, TypeOK, Checked, UsedByAnother, Save
  <2> QED BY <2>3, <2>4
<1>4. CASE SaveFails(a)
  <2>1. Same(KeysAfter(call[a]))
    BY <1>1, <1>4, WrittenUnique DEF Typed, Steps, SaveFails, Checked, SecretsAreUnique
  <2>2. keys' = keys /\ (file' = file \/ file'.keys = KeysAfter(call[a]))
    BY <1>4 DEF SaveFails, Written
  <2>3. SecretsAreUnique'
    BY <2>1, <2>2 DEF SecretsAreUnique, Same
  <2>4. Checked'
    BY <1>4 DEF Typed, TypeOK, Checked, UsedByAnother, SaveFails, Done
  <2> QED BY <2>3, <2>4
<1>5. CASE OpenPeriods(a)
  BY <1>5 DEF Typed, TypeOK, SecretsAreUnique, Same, Checked, UsedByAnother, OpenPeriods
<1>6. CASE PublishKey(a)
  <2>1. pc[a] = "opened" /\ updateMu = a /\ Done(a) /\ call[a] \in KeyCall
    BY <1>6 DEF Typed, TypeOK, PublishKey, MayPublish
  <2>2. Same(KeysAfter(call[a]))
    BY <1>1, <2>1, WrittenUnique DEF Typed, Steps, Checked, SecretsAreUnique
  <2>3. SecretsAreUnique'
    BY <1>6, <2>2 DEF SecretsAreUnique, Same, PublishKey
  <2>4. Checked'
    BY <2>1, DoneType DEF Checked
  <2> QED BY <2>3, <2>4
<1>7. CASE PublishPrices(a)
  <2>1. updateMu = a /\ Done(a)
    BY <1>7 DEF Typed, TypeOK, PublishPrices
  <2>2. Checked'
    BY <2>1, DoneType DEF Checked
  <2> QED BY <1>7, <2>2 DEF SecretsAreUnique, Same, PublishPrices
<1>8. CASE Unpublish(a)
  <2>1. Same(KeysAfter(call[a]))
    BY <1>1, <1>8, WrittenUnique DEF Typed, Steps, Unpublish, Checked, SecretsAreUnique
  <2>2. SecretsAreUnique'
    BY <1>8, <2>1 DEF SecretsAreUnique, Same, Unpublish
  <2>3. \A b \in Admins : pc'[b] \notin {"locked", "saved", "opened"}
    BY <1>8 DEF Typed, TypeOK, Unpublish
  <2> QED BY <2>2, <2>3 DEF Checked
<1>9. CASE Forget(a)
  <2>1. updateMu = a /\ Done(a)
    BY <1>9 DEF Typed, TypeOK, Forget
  <2>2. Checked'
    BY <2>1, DoneType DEF Checked
  <2> QED BY <1>9, <2>2 DEF SecretsAreUnique, Same, Forget
<1> QED BY <1>2, <1>3, <1>4, <1>5, <1>6, <1>7, <1>8, <1>9

LEMMA ProcessSecrets ==
  ASSUME Typed, SecretsInv, Crash \/ Restart \/ UNCHANGED vars PROVE SecretsInv'
<1>1. CASE Crash
  BY <1>1 DEF SecretsInv, SecretsAreUnique, Same, Checked, Crash, NoKeys
<1>2. CASE Restart
  BY <1>2 DEF Typed, Steps, SecretsInv, SecretsAreUnique, Same, Checked, Restart
<1>3. CASE UNCHANGED vars
  BY <1>3 DEF SecretsInv, SecretsAreUnique, Same, Checked, UsedByAnother, vars, Past, Bounds
<1> QED BY <1>1, <1>2, <1>3

LEMMA NextSecrets == Typed /\ SecretsInv /\ [Next]_vars => SecretsInv'
  BY ArrivalSecrets, StepSecrets, ProcessSecrets DEF Next, KeyCalls, AtRest

(* No two keys have the same secret, in memory or in the file, whatever calls
   run at once, fail or are cut off by a crash: updateMu keeps what the check
   found true until the key is published. *)
THEOREM SecretsUnique == Spec \/ ManagementSpec => []SecretsAreUnique
<1>1. Starts => Typed /\ SecretsInv
  BY InitTyped, InitSecrets
<1>2. Typed /\ SecretsInv /\ [Next]_vars => (Typed /\ SecretsInv)'
  BY NextTyped, NextSecrets
<1>3. SecretsInv => SecretsAreUnique
  BY DEF SecretsInv
<1> QED BY Runs, <1>1, <1>2, <1>3, PTL DEF Running
----------------------------------------------------------------------------
\* The state file

\* One call at a time is past the check.
LEMMA OneHolder ==
  ASSUME Typed, NEW a \in Admins, pc[a] \notin {"idle", "waiting"}
  PROVE  updateMu = a /\ \A b \in Admins \ {a} : pc[b] \in {"idle", "waiting"}
  BY DEF Typed, TypeOK

\* A call that returns leaves the others where they are.
LEMMA DoneCalls ==
  ASSUME Typed, NEW a \in Admins, pc[a] \notin {"idle", "waiting"}, Done(a)
  PROVE  /\ \A b \in Admins : pc'[b] \in {"idle", "waiting"}
         /\ \A b \in Admins : call'[b] \in {call[b], NoCall} /\ (b # a => call'[b] = call[b])
<1>1. \A b \in Admins \ {a} : pc[b] \in {"idle", "waiting"}
  BY OneHolder
<1> QED BY <1>1 DEF Typed, TypeOK, Done

\* While a call is between its write and its publication the file holds what
\* it publishes; otherwise, and unless a write failed after its rename, the
\* file holds what is published.
FileHolds ==
  up =>
    /\ \A a \in Admins : pc[a] \in {"saved", "opened", "unpublished"} => ~strayed
    /\ \A a \in Admins : pc[a] \in {"saved", "opened"} => file = Written(call[a])
    /\ ~strayed /\ (\A a \in Admins : pc[a] \notin {"saved", "opened"}) => file = [keys |-> keys, prices |-> prices]

LEMMA InitFile == Starts => FileHolds
  BY DEF Starts, Fresh, FileHolds

\* Steps that change neither the file nor what is published.
LEMMA QuietFile ==
  ASSUME Typed, FileHolds, UNCHANGED <<up, keys, prices, file, strayed>>,
         \A a \in Admins : \/ pc'[a] = pc[a] /\ call'[a] = call[a]
                           \/ pc'[a] = "opened" /\ pc[a] = "saved" /\ call'[a] = call[a]
                           \/ {pc[a], pc'[a]} \subseteq {"idle", "waiting", "locked"}
  PROVE  FileHolds'
<1>1. \A a \in Admins : pc'[a] \in {"saved", "opened"} => /\ pc[a] \in {"saved", "opened"}
                                                          /\ call'[a] = call[a]
  OBVIOUS
<1>2. \A a \in Admins : pc'[a] = "unpublished" => pc[a] = "unpublished"
  OBVIOUS
<1>3. (\A a \in Admins : pc'[a] \notin {"saved", "opened"}) => \A a \in Admins : pc[a] \notin {"saved", "opened"}
  OBVIOUS
<1> QED BY <1>1, <1>2, <1>3 DEF FileHolds, Written, KeysAfter, PricesAfter

\* The call is answered and the file holds what is published now.
LEMMA PublishFile ==
  ASSUME Typed, FileHolds, NEW a \in Admins, pc[a] \in {"saved", "opened"}, up,
         UNCHANGED <<up, file, strayed>>, keys' = KeysAfter(call[a]), prices' = PricesAfter(call[a]),
         \A b \in Admins : pc'[b] \notin {"saved", "opened"}
  PROVE  FileHolds'
  BY DEF FileHolds, Written

LEMMA StepFile ==
  ASSUME Typed, FileHolds, NEW a \in Admins,
         \/ Lock(a) \/ Save(a) \/ SaveFails(a) \/ OpenPeriods(a)
         \/ PublishKey(a) \/ PublishPrices(a) \/ Unpublish(a) \/ Forget(a)
  PROVE  FileHolds'
<1>1. call[a] \in Call /\ up
  BY DEF Typed, TypeOK, Steps, Lock, Save, SaveFails, OpenPeriods, PublishKey, MayPublish, PublishPrices, Unpublish, Forget
<1>2. CASE Lock(a) \/ OpenPeriods(a)
  BY <1>2, QuietFile DEF Typed, TypeOK, Lock, OpenPeriods, Past, Bounds
<1>3. CASE Save(a)
  <2>1. pc'[a] = "saved" /\ \A b \in Admins \ {a} : pc'[b] \in {"idle", "waiting"}
    BY <1>3, OneHolder DEF Typed, TypeOK, Save
  <2> QED BY <1>3, <2>1 DEF FileHolds, Save, Written, KeysAfter, PricesAfter
<1>4. CASE SaveFails(a)
  <2>1. \A b \in Admins : pc'[b] \in {"idle", "waiting"}
    BY <1>4, DoneCalls DEF SaveFails
  <2>2. \A b \in Admins : pc[b] \notin {"saved", "opened"}
    BY <1>4, OneHolder DEF SaveFails
  <2> QED BY <1>1, <1>4, <2>1, <2>2 DEF FileHolds, SaveFails
<1>5. CASE PublishKey(a)
  <2>1. call[a] \in KeyCall /\ pc[a] = "opened" /\ call[a].op # "price"
    BY <1>5 DEF PublishKey, MayPublish, KeyCall
  <2>2. \A b \in Admins : pc'[b] \in {"idle", "waiting"}
    BY <1>5, <2>1, DoneCalls DEF PublishKey
  <2>3. PricesAfter(call[a]) = prices
    BY <2>1 DEF PricesAfter
  <2> QED BY <1>1, <1>5, <2>1, <2>2, <2>3, PublishFile DEF PublishKey
<1>6. CASE PublishPrices(a)
  <2>1. \A b \in Admins : pc'[b] \in {"idle", "waiting"}
    BY <1>6, DoneCalls DEF PublishPrices
  <2>2. KeysAfter(call[a]) = keys /\ PricesAfter(call[a]) = call[a].table
    BY <1>6 DEF PublishPrices, KeysAfter, PricesAfter
  <2> QED BY <1>1, <1>6, <2>1, <2>2, PublishFile DEF PublishPrices
<1>7. CASE Unpublish(a)
  <2>1. \A b \in Admins : pc'[b] \notin {"saved", "opened"}
    BY <1>7, OneHolder DEF Typed, TypeOK, Unpublish
  <2>2. PricesAfter(call[a]) = prices
    BY <1>7 DEF Unpublish, PricesAfter
  <2> QED BY <1>1, <1>7, <2>1, <2>2, PublishFile DEF Unpublish
<1>8. CASE Forget(a)
  <2>1. \A b \in Admins : pc'[b] \in {"idle", "waiting"}
    BY <1>8, DoneCalls DEF Forget
  <2>2. \A b \in Admins : pc[b] \notin {"saved", "opened"}
    BY <1>8, OneHolder DEF Forget
  <2> QED BY <1>8, <2>1, <2>2 DEF FileHolds, Forget
<1> QED BY <1>2, <1>3, <1>4, <1>5, <1>6, <1>7, <1>8

LEMMA ArrivalFile ==
  ASSUME Typed, FileHolds, NEW a \in Admins,
         BeginCreate(a) \/ BeginPatch(a) \/ BeginRotate(a) \/ BeginDelete(a) \/ BeginPrice(a)
  PROVE  FileHolds'
<1>1. PICK c : Begin(a, c)
  BY DEF BeginCreate, BeginPatch, BeginRotate, BeginDelete, BeginPrice
<1> QED BY <1>1, QuietFile DEF Typed, TypeOK, Begin

LEMMA ProcessFile == ASSUME Typed, FileHolds, Crash \/ Restart \/ UNCHANGED vars PROVE FileHolds'
<1>1. CASE Crash
  BY <1>1 DEF FileHolds, Crash
<1>2. CASE Restart
  <2>1. \A a \in Admins : pc'[a] = "idle"
    BY <1>2 DEF Typed, Steps, Restart
  <2>2. file = [keys |-> file.keys, prices |-> file.prices]
    BY DEF Typed, TypeOK
  <2> QED BY <1>2, <2>1, <2>2 DEF FileHolds, Restart
<1>3. CASE UNCHANGED vars
  BY <1>3, QuietFile DEF vars
<1> QED BY <1>1, <1>2, <1>3

LEMMA NextFile == Typed /\ FileHolds /\ [Next]_vars => FileHolds'
  BY ArrivalFile, StepFile, ProcessFile DEF Next, KeyCalls, AtRest

(* The file holds what is published, or what the call past its write is about
   to publish: no two writes undo each other, and only a write that failed
   after its rename leaves the file ahead. *)
THEOREM FileFollows == Spec \/ ManagementSpec => []FileFollowsMemory
<1>1. Typed /\ FileHolds => FileFollowsMemory
  <2> SUFFICES ASSUME Typed, FileHolds, up, ~strayed,
                      ~(updateMu # None /\ pc[updateMu] \in {"saved", "opened"} /\ file = Written(call[updateMu]))
               PROVE  file = [keys |-> keys, prices |-> prices]
    BY DEF FileFollowsMemory
  <2>1. \A a \in Admins : pc[a] \in {"saved", "opened"} => a # None /\ updateMu = a
    BY OneHolder, KeyAdminAssumption
  <2> QED BY <2>1 DEF FileHolds
<1> QED BY Runs, InitTyped, NextTyped, InitFile, NextFile, <1>1, PTL DEF Running
----------------------------------------------------------------------------
\* Quota periods

\* Periods are those of the published keys, and of the key a call is about to
\* publish or has just unpublished.
PeriodsHold ==
  /\ \A id \in KeyIds : keys[id] # None => id \in periods
  /\ \A id \in periods : keys[id] # None \/ \E a \in Admins : pc[a] \in {"opened", "unpublished"} /\ call[a].id = id
  /\ \A a \in Admins : pc[a] = "opened" => call[a] \in KeyCall /\ call[a].id \in periods
  /\ \A a \in Admins : pc[a] = "unpublished" => keys[call[a].id] = None

LEMMA InitPeriods == Starts => PeriodsHold
  BY DEF Starts, Fresh, PeriodsHold, NoKeys

\* Steps that change neither the keys nor their periods.
LEMMA QuietPeriods ==
  ASSUME PeriodsHold, UNCHANGED <<keys, periods>>,
         \A a \in Admins : {pc[a], pc'[a]} \cap {"opened", "unpublished"} # {} => pc'[a] = pc[a] /\ call'[a] = call[a]
  PROVE  PeriodsHold'
  BY DEF PeriodsHold

\* A call that is answered has left the periods as the keys are.
LEMMA AnsweredPeriods ==
  ASSUME Typed, PeriodsHold, NEW a \in Admins, pc[a] \notin {"idle", "waiting"}, Done(a),
         \A id \in KeyIds : keys'[id] # None <=> id \in periods', periods' \subseteq KeyIds
  PROVE  PeriodsHold'
<1>1. \A b \in Admins : pc'[b] \in {"idle", "waiting"}
  BY DoneCalls
<1> QED BY <1>1 DEF PeriodsHold

LEMMA StepPeriods ==
  ASSUME Typed, PeriodsHold, NEW a \in Admins,
         \/ Lock(a) \/ Save(a) \/ SaveFails(a) \/ OpenPeriods(a)
         \/ PublishKey(a) \/ PublishPrices(a) \/ Unpublish(a) \/ Forget(a)
  PROVE  PeriodsHold'
<1>1. call[a] \in Call /\ periods \subseteq KeyIds
  BY DEF Typed, TypeOK
<1>2. CASE Lock(a) \/ Save(a)
  BY <1>2, QuietPeriods DEF Typed, TypeOK, Lock, Save
<1>3. ASSUME pc[a] \in {"locked", "saved"}
      PROVE  \A id \in KeyIds : keys[id] # None <=> id \in periods
  <2>1. \A b \in Admins : pc[b] \notin {"opened", "unpublished"}
    BY <1>3, OneHolder
  <2> QED BY <2>1 DEF PeriodsHold
<1>4. CASE SaveFails(a) \/ PublishPrices(a)
  BY <1>1, <1>3, <1>4, AnsweredPeriods DEF SaveFails, PublishPrices
<1>5. CASE OpenPeriods(a)
  <2>1. pc'[a] = "opened" /\ call' = call /\ \A b \in Admins \ {a} : pc'[b] = pc[b]
    BY <1>5 DEF Typed, TypeOK, OpenPeriods
  <2>2. call[a].id \in KeyIds /\ call[a] \in KeyCall
    BY <1>5 DEF OpenPeriods, KeyCall
  <2> QED BY <1>3, <1>5, <2>1, <2>2, OneHolder DEF PeriodsHold, OpenPeriods
<1>6. CASE PublishKey(a)
  <2>1. pc[a] = "opened" /\ call[a] \in KeyCall /\ Done(a) /\ periods' = periods /\ keys' = KeysAfter(call[a])
    BY <1>6 DEF PublishKey, MayPublish
  <2>2. call[a].id \in KeyIds /\ call[a].key # None /\ call[a].id \in periods
    BY <2>1, NoneAssumption DEF KeyCall, PeriodsHold
  <2>3. \A id \in KeyIds : keys'[id] = IF id = call[a].id THEN call[a].key ELSE keys[id]
    BY <2>1, <2>2 DEF Typed, TypeOK, Keyring, KeysAfter, KeyCall
  <2>4. \A b \in Admins : pc[b] \in {"opened", "unpublished"} => b = a
    BY <2>1, OneHolder
  <2> QED BY <1>1, <2>1, <2>2, <2>3, <2>4, AnsweredPeriods DEF PeriodsHold
<1>7. CASE Unpublish(a)
  <2>1. pc'[a] = "unpublished" /\ call' = call /\ \A b \in Admins \ {a} : pc'[b] = pc[b]
    BY <1>7 DEF Typed, TypeOK, Unpublish
  <2>2. call[a].id \in KeyIds
    BY <1>1, <1>7, CallFields DEF Unpublish
  <2>3. \A id \in KeyIds : keys'[id] = IF id = call[a].id THEN None ELSE keys[id]
    BY <1>7, <2>2 DEF Typed, TypeOK, Keyring, KeysAfter, Unpublish
  <2> QED BY <1>1, <1>3, <1>7, <2>1, <2>2, <2>3, OneHolder DEF PeriodsHold, Unpublish
<1>8. CASE Forget(a)
  <2>1. \A b \in Admins : pc[b] \in {"opened", "unpublished"} => b = a
    BY <1>8, OneHolder DEF Forget
  <2>2. keys[call[a].id] = None
    BY <1>8 DEF PeriodsHold, Forget
  <2> QED BY <1>1, <1>8, <2>1, <2>2, AnsweredPeriods DEF PeriodsHold, Forget, Forgotten
<1> QED BY <1>2, <1>4, <1>5, <1>6, <1>7, <1>8

LEMMA ArrivalPeriods ==
  ASSUME Typed, PeriodsHold, NEW a \in Admins,
         BeginCreate(a) \/ BeginPatch(a) \/ BeginRotate(a) \/ BeginDelete(a) \/ BeginPrice(a)
  PROVE  PeriodsHold'
<1>1. PICK c : Begin(a, c)
  BY DEF BeginCreate, BeginPatch, BeginRotate, BeginDelete, BeginPrice
<1> QED BY <1>1, QuietPeriods DEF Typed, TypeOK, Begin

LEMMA ProcessPeriods == ASSUME Typed, PeriodsHold, Crash \/ Restart \/ UNCHANGED vars PROVE PeriodsHold'
<1>1. CASE Crash
  BY <1>1 DEF PeriodsHold, Crash, NoKeys
<1>2. CASE Restart
  BY <1>2 DEF Typed, Steps, PeriodsHold, Restart
<1>3. CASE UNCHANGED vars
  BY <1>3, QuietPeriods DEF vars
<1> QED BY <1>1, <1>2, <1>3

LEMMA NextPeriods == Typed /\ PeriodsHold /\ [Next]_vars => PeriodsHold'
  BY ArrivalPeriods, StepPeriods, ProcessPeriods DEF Next, KeyCalls, AtRest

(* A published key has its quota periods, and no other key keeps periods that
   a key created later under its id would inherit, but the one a call is about
   to publish or has just unpublished. *)
THEOREM PeriodsFollow == Spec \/ ManagementSpec => []PeriodsFollowKeys
<1>1. Typed /\ PeriodsHold => PeriodsFollowKeys
  <2>1. ASSUME Typed, NEW a \in Admins, pc[a] \in {"opened", "unpublished"} PROVE updateMu = a /\ updateMu # None
    BY <2>1, OneHolder, KeyAdminAssumption
  <2> QED BY <2>1 DEF PeriodsHold, PeriodsFollowKeys
<1> QED BY Runs, InitTyped, NextTyped, InitPeriods, NextPeriods, <1>1, PTL DEF Running
----------------------------------------------------------------------------
\* What is gone stays gone

\* A ring holds no secret and no key that is gone, but for those a call that
\* was under way had read before.
StaysGone(ring) ==
  /\ \A id \in KeyIds : ring[id] # None => ring[id].secret \notin retired \ overtaken
  /\ \A id \in deleted \ overtaken : ring[id] = None

GoneHolds ==
  /\ StaysGone(keys) /\ StaysGone(file.keys)
  /\ \A a \in Admins : call[a] \in KeyCall =>
       call[a].key.secret \notin retired \ overtaken /\ call[a].id \notin deleted \ overtaken

GoneInv == SecretsInv /\ FileHolds /\ PeriodsHold /\ GoneHolds

LEMMA InitGone == Starts => GoneHolds
  BY DEF Starts, Fresh, GoneHolds, StaysGone

\* Steps after which no more is gone than before, and no ring or call is new.
LEMMA QuietGone ==
  ASSUME Typed, GoneHolds, UNCHANGED <<retired, deleted, overtaken>>,
         \A a \in Admins : call'[a] \in {call[a], NoCall},
         keys' \in {keys, file.keys, NoKeys}, file'.keys = file.keys
  PROVE  GoneHolds'
<1>1. StaysGone(NoKeys) /\ NoCall \notin KeyCall
  BY DEF Typed, TypeOK, StaysGone, NoKeys, NoCall, KeyCall
<1> QED BY <1>1 DEF GoneHolds, StaysGone

\* What a call writes brings nothing back.
LEMMA WrittenGone ==
  ASSUME Typed, GoneHolds, NEW a \in Admins, pc[a] # "idle" PROVE StaysGone(KeysAfter(call[a]))
<1> DEFINE c == call[a]
<1>1. c \in Call /\ c.op # "none" /\ deleted \subseteq KeyIds
  BY DEF Typed, TypeOK, Steps
<1>2. CASE c.op = "price"
  BY <1>2 DEF KeysAfter, GoneHolds
<1>3. CASE c.op = "delete"
  <2>1. \A id \in KeyIds : KeysAfter(c)[id] \in {keys[id], None}
    BY <1>1, <1>3, CallFields DEF Typed, TypeOK, Keyring, KeysAfter
  <2> QED BY <1>1, <2>1 DEF GoneHolds, StaysGone
<1>4. CASE c.op \notin {"delete", "price"}
  <2>1. c \in KeyCall /\ c.id \in KeyIds
    BY <1>1, <1>4, CallFields
  <2>2. \A id \in KeyIds : KeysAfter(c)[id] = IF id = c.id THEN c.key ELSE keys[id]
    BY <1>4, <2>1 DEF Typed, TypeOK, Keyring, KeysAfter
  <2> QED BY <1>1, <2>1, <2>2 DEF GoneHolds, StaysGone
<1> QED BY <1>2, <1>3, <1>4

\* A call that arrives names a secret and a key again, or has read them.
LEMMA BeginGone ==
  ASSUME Typed, GoneHolds, NEW a \in Admins, NEW c \in Call, Begin(a, c),
         c \in KeyCall => /\ c.named \/ c.key.secret \notin retired \ overtaken
                          /\ c.op = "create" \/ c.id \notin deleted \ overtaken
  PROVE  GoneHolds'
<1>1. /\ UNCHANGED <<keys, file, overtaken>> /\ retired' \subseteq retired /\ deleted' \subseteq deleted
      /\ c \in KeyCall /\ c.named => c.key.secret \notin retired'
      /\ c \in KeyCall /\ c.op = "create" => c.id \notin deleted'
  BY DEF Begin, NamedBy, CreatedBy
<1>2. \A b \in Admins : call'[b] = IF b = a THEN c ELSE call[b]
  BY DEF Typed, TypeOK, Begin
<1>3. StaysGone(keys)' /\ StaysGone(file.keys)'
  BY <1>1 DEF GoneHolds, StaysGone
<1> QED BY <1>1, <1>2, <1>3 DEF GoneHolds

LEMMA ArrivalGone ==
  ASSUME Typed, GoneHolds, NEW a \in Admins,
         BeginCreate(a) \/ BeginPatch(a) \/ BeginRotate(a) \/ BeginDelete(a) \/ BeginPrice(a)
  PROVE  GoneHolds'
<1> USE DEF Call
<1>0. \A id \in KeyIds : keys[id] # None => /\ keys[id] \in Key
                                            /\ keys[id].secret \notin retired \ overtaken
                                            /\ id \notin deleted \ overtaken
  BY DEF Typed, TypeOK, Keyring, GoneHolds, StaysGone
<1>1. CASE BeginCreate(a)
  <2> PICK id \in KeyIds, s \in Secrets :
        Begin(a, [op |-> "create", id |-> id, key |-> [secret |-> s, enabled |-> TRUE], named |-> TRUE])
    BY <1>1 DEF BeginCreate
  <2> QED BY BeginGone DEF KeyCall, Key
<1>2. CASE BeginPatch(a)
  <2> PICK id \in KeyIds, s \in Secrets, on \in BOOLEAN, chosen \in BOOLEAN :
        /\ keys[id] # None
        /\ ~chosen => s = keys[id].secret
        /\ Begin(a, [op |-> "patch", id |-> id, key |-> [secret |-> s, enabled |-> on], named |-> chosen])
    BY <1>2 DEF BeginPatch
  <2> QED BY <1>0, BeginGone DEF KeyCall, Key
<1>3. CASE BeginRotate(a)
  <2> PICK id \in KeyIds, s \in Secrets \ Known :
        /\ keys[id] # None
        /\ Begin(a, [op |-> "rotate", id |-> id, key |-> [secret |-> s, enabled |-> keys[id].enabled], named |-> FALSE])
    BY <1>3 DEF BeginRotate
  <2>1. keys[id].enabled \in BOOLEAN /\ s \notin retired
    BY <1>0 DEF Key, Known
  <2> QED BY <1>0, <2>1, BeginGone DEF KeyCall, Key
<1>4. CASE BeginDelete(a)
  <2> PICK id \in KeyIds : Begin(a, [op |-> "delete", id |-> id])
    BY <1>4 DEF BeginDelete
  <2>1. [op |-> "delete", id |-> id] \notin KeyCall
    BY DEF KeyCall
  <2> QED BY <2>1, BeginGone
<1>5. CASE BeginPrice(a)
  <2> PICK p \in Prices : Begin(a, [op |-> "price", table |-> p])
    BY <1>5 DEF BeginPrice
  <2>1. [op |-> "price", table |-> p] \notin KeyCall
    BY DEF KeyCall
  <2> QED BY <2>1, BeginGone
<1> QED BY <1>1, <1>2, <1>3, <1>4, <1>5

\* A rotation retires the secret it replaces: no other key has it, and a call
\* that has read it has overtaken the rotation or names it.
LEMMA PublishGone ==
  ASSUME Typed, GoneInv, NEW a \in Admins, PublishKey(a) PROVE GoneHolds'
<1> DEFINE c == call[a]
<1> USE DEF GoneInv
<1>1. /\ c \in KeyCall /\ pc[a] = "opened" /\ up /\ Done(a)
      /\ keys' = KeysAfter(c) /\ file' = file /\ deleted' = deleted
      /\ retired' = retired \cup (Replaced(c) \ NamedBy(UnderWay))
      /\ overtaken' = overtaken \cup (Replaced(c) \cap {d.key.secret : d \in UnderWay \cap KeyCall})
  BY DEF PublishKey, MayPublish, Typed, Steps
<1>2. /\ c.id \in KeyIds /\ c.key \in Key /\ c.op \notin {"delete", "price"}
      /\ \A id \in KeyIds : keys'[id] = IF id = c.id THEN c.key ELSE keys[id]
  BY <1>1 DEF KeyCall, Typed, TypeOK, Keyring, KeysAfter
<1>3. file.keys = keys'
  BY <1>1 DEF FileHolds, Written
<1>4. \A id \in KeyIds : keys'[id] # None => keys'[id].secret \notin Replaced(c)
  BY <1>2 DEF Replaced, SecretsInv, SecretsAreUnique, Same
<1>5. StaysGone(KeysAfter(c))
  BY <1>1, WrittenGone
<1>6. StaysGone(keys)'
  BY <1>1, <1>4, <1>5 DEF StaysGone
<1>7. \A b \in Admins : call'[b] \in KeyCall => call'[b] = call[b] /\ call[b] \in UnderWay \cap KeyCall
  <2>1. NoCall \notin KeyCall
    BY DEF NoCall, KeyCall
  <2> QED BY <1>1, <2>1, DoneCalls DEF UnderWay
<1>8. ASSUME NEW b \in Admins, call'[b] \in KeyCall
      PROVE  call'[b].key.secret \notin retired' \ overtaken' /\ call'[b].id \notin deleted' \ overtaken'
  BY <1>1, <1>7, <1>8 DEF GoneHolds
<1> QED BY <1>3, <1>1, <1>6, <1>8 DEF GoneHolds

\* The answered delete: no ring has the key, and a call that has read it has
\* overtaken the delete or creates it.
LEMMA ForgetGone ==
  ASSUME Typed, GoneInv, NEW a \in Admins, Forget(a) PROVE GoneHolds'
<1> DEFINE c == call[a]
<1> USE DEF GoneInv
<1>1. /\ pc[a] = "unpublished" /\ up /\ Done(a) /\ UNCHANGED <<keys, file, retired>>
      /\ deleted' = deleted \cup ({c.id} \ CreatedBy(UnderWay))
      /\ overtaken' = overtaken \cup ({c.id} \cap {d.id : d \in UnderWay \cap KeyCall})
  BY DEF Forget, Typed, Steps
<1>2. keys[c.id] = None /\ ~strayed /\ \A b \in Admins : pc[b] \notin {"saved", "opened"}
  BY <1>1, OneHolder DEF PeriodsHold, FileHolds
<1>3. file.keys = keys
  BY <1>1, <1>2 DEF FileHolds
<1>4. StaysGone(keys)'
  BY <1>1, <1>2 DEF StaysGone, GoneHolds
<1>5. \A b \in Admins : call'[b] \in KeyCall => call'[b] = call[b] /\ call[b] \in UnderWay \cap KeyCall
  <2>1. NoCall \notin KeyCall
    BY DEF NoCall, KeyCall
  <2> QED BY <1>1, <2>1, DoneCalls DEF UnderWay
<1>6. ASSUME NEW b \in Admins, call'[b] \in KeyCall
      PROVE  call'[b].key.secret \notin retired' \ overtaken' /\ call'[b].id \notin deleted' \ overtaken'
  BY <1>1, <1>5, <1>6 DEF GoneHolds
<1> QED BY <1>1, <1>3, <1>4, <1>6 DEF GoneHolds

LEMMA StepGone ==
  ASSUME Typed, GoneInv, NEW a \in Admins,
         \/ Lock(a) \/ Save(a) \/ SaveFails(a) \/ OpenPeriods(a)
         \/ PublishKey(a) \/ PublishPrices(a) \/ Unpublish(a) \/ Forget(a)
  PROVE  GoneHolds'
<1> USE DEF GoneInv
<1>1. CASE Lock(a) \/ OpenPeriods(a) \/ PublishPrices(a)
  BY <1>1, QuietGone DEF Typed, TypeOK, Lock, OpenPeriods, PublishPrices, Done, Past
<1>2. ASSUME pc[a] # "idle", UNCHANGED <<retired, deleted, overtaken>>,
             \A b \in Admins : call'[b] \in {call[b], NoCall},
             keys' \in {keys, KeysAfter(call[a])}, file'.keys \in {file.keys, KeysAfter(call[a])}
      PROVE  GoneHolds'
  <2>1. StaysGone(KeysAfter(call[a])) /\ NoCall \notin KeyCall
    BY <1>2, WrittenGone DEF NoCall, KeyCall
  <2> QED BY <1>2, <2>1 DEF GoneHolds, StaysGone
<1>3. CASE Save(a)
  BY <1>2, <1>3 DEF Save, Written, Past
<1>4. CASE SaveFails(a)
  BY <1>2, <1>4 DEF SaveFails, Written, Done, Past, Typed, TypeOK
<1>5. CASE Unpublish(a)
  BY <1>2, <1>5 DEF Unpublish, Past
<1> QED BY <1>1, <1>3, <1>4, <1>5, PublishGone, ForgetGone

LEMMA ProcessGone == ASSUME Typed, GoneHolds, Crash \/ Restart \/ UNCHANGED vars PROVE GoneHolds'
<1>1. CASE Crash
  BY <1>1, QuietGone DEF Crash, Past
<1>2. CASE Restart
  BY <1>2, QuietGone DEF Restart, Past
<1>3. CASE UNCHANGED vars
  BY <1>3, QuietGone DEF vars, Past
<1> QED BY <1>1, <1>2, <1>3

LEMMA NextGone == Typed /\ GoneInv /\ [Next]_vars => GoneHolds'
  BY ArrivalGone, StepGone, ProcessGone DEF Next, KeyCalls, AtRest, GoneInv

(* A secret that a rotation replaced authenticates no more and a deleted key
   exists no more, through failed writes and crashes, until a call names them
   again: only a patch or a rotation that had read the key before that was
   answered may write it back. *)
THEOREM GoneIsGone == Spec \/ ManagementSpec => []GoneStaysGone
<1>1. Starts => Typed /\ GoneInv
  BY InitTyped, InitSecrets, InitFile, InitPeriods, InitGone DEF GoneInv
<1>2. Typed /\ GoneInv /\ [Next]_vars => (Typed /\ GoneInv)'
  BY NextTyped, NextSecrets, NextFile, NextPeriods, NextGone DEF GoneInv
<1>3. GoneInv => GoneStaysGone
  BY DEF GoneInv, GoneHolds, StaysGone, GoneStaysGone
<1> QED BY Runs, <1>1, <1>2, <1>3, PTL DEF Running
----------------------------------------------------------------------------
\* A set of natural numbers has a least one.
LEMMA LeastNat ==
  ASSUME NEW S, S \subseteq Nat, S # {}
  PROVE  \E n \in S : \A m \in S : n <= m
<1>1. PICK n \in S : \A m \in S : ~(<<m, n>> \in OpToRel(<, Nat))
  BY NatLessThanWellFounded, WFMin
<1>2. \A m \in S : ~(m < n) /\ m \in Nat /\ n \in Nat
  BY <1>1 DEF OpToRel
<1> QED BY <1>2

----------------------------------------------------------------------------
\* The invariant of the adapter rules

\* What is kept: a draft that was accepted, under an id.
Given == {Normalized(draft) : draft \in {d \in Drafts : Accepted(d)}}
Kept == {[rule EXCEPT !.id = id] : rule \in Given, id \in RuleIds}
Single(list) == \A m, n \in DOMAIN list : list[m].id = list[n].id => m = n
RuleList == {list \in Seq(Kept) : Single(list)}

Step == [at : {"idle", "read", "waits", "saved"}, op : {"none", "create", "edit", "delete"},
         rule : Given \cup {NoId}, id : RuleIds \cup {NoId}, next : RuleList,
         todo : {<<>>, <<"book">>, <<"hits">>, <<"book", "hits">>, <<"hits", "book">>},
         channel : Channels \cup {NoId}, left : Seq(Kept), touched : SUBSET RuleIds]

RulesTyped ==
  /\ rules \in RuleList /\ Len(rules) <= MaxRules /\ book = rules
  /\ ruleFile \in RuleList /\ Len(ruleFile) <= MaxRules
  /\ hits \in [DOMAIN hits -> Nat] /\ DOMAIN hits \subseteq RuleIds
  /\ steps \in [Operators -> Step] /\ mu \in Operators \cup {NoId}
  /\ attempts \in [Attempts -> SUBSET RuleIds]
  /\ named \subseteq RuleIds /\ unsure \subseteq RuleIds
  /\ counted \in [RuleIds -> Nat] /\ answered \in [RuleIds -> Kept \cup {NoId}]
  /\ Ids(rules) \cup Ids(ruleFile) \subseteq named
  /\ ruleCalls \in Nat /\ ruleAttempts \in Nat

\* Where each call is, and what it holds there; a channel's deletion deletes.
Positions ==
  \A o \in Operators :
    /\ steps[o].at = "idle" <=> steps[o] = Rest
    /\ steps[o].at = "read" => steps[o].channel # NoId
    /\ steps[o].at \in {"waits", "saved"} =>
         /\ steps[o].op # "none"
         /\ steps[o].op # "delete" => steps[o].rule \in Given /\ steps[o].channel = NoId
    /\ mu = o <=> steps[o].at = "saved"

(* The call that holds mu: the list it saved is in the file, and differs from
   the rules of the moment in the rule it changes. *)
Pending == IF mu = NoId THEN {} ELSE {steps[mu].id}
Changing(step) ==
  /\ step.next = ruleFile /\ unsure = {step.id} /\ step.id \in named
  /\ \/ /\ step.op = "create" /\ step.todo \in {<<"hits", "book">>, <<"book">>}
        /\ step.id \notin Ids(rules) /\ Ids(step.next) = Ids(rules) \cup {step.id}
     \/ /\ step.op = "edit" /\ step.todo = <<"book">>
        /\ Ids(step.next) = Ids(rules)
     \/ /\ step.op = "delete" /\ step.todo = <<"book", "hits">>
        /\ step.id \in Ids(rules) /\ Ids(step.next) = Ids(rules) \ {step.id}
     \/ /\ step.op = "delete" /\ step.todo = <<"hits">>
        /\ step.next = rules /\ step.id \notin Ids(rules)
OneChanges == mu # NoId => Changing(steps[mu])

\* The last answers are about the rules of the moment and about the file.
Answers ==
  /\ up => \A id \in RuleIds \ Pending : Find(rules, id) = answered[id]
  /\ \A id \in RuleIds \ unsure : Find(ruleFile, id) = answered[id]

(* Of a rule that is being created no attempt knows before its counter is
   there; of one that is deleted the counter is the last to go. *)
Coming(step) == step.op = "create" /\ step.todo = <<"hits", "book">>
Spare(step) ==
  \/ step.op = "create" /\ step.todo = <<"book">>
  \/ step.op = "delete" /\ step.todo = <<"hits">>
Seen == named \ {id \in Pending : Coming(steps[mu])}
Counts ==
  up => /\ DOMAIN hits = Ids(rules) \cup {id \in Pending : Spare(steps[mu])}
        /\ \A id \in DOMAIN hits : hits[id] = counted[id]
        /\ \A t \in Attempts : attempts[t] \subseteq Seen
        /\ \A id \in RuleIds \ Seen : counted[id] = 0

\* What a channel's deletion has still to delete, and nothing was left.
Ahead(step) == {step.id} \cup {step.left[n].id : n \in Of(step.channel, step.left)}
Deletions ==
  /\ \A o \in Operators : steps[o].at \in {"waits", "saved"} /\ steps[o].channel # NoId =>
       \A n \in Of(steps[o].channel, rules) : rules[n].id \in Ahead(steps[o]) \cup steps[o].touched
  /\ wrong = {}

Stopped ==
  ~up => /\ rules = <<>> /\ hits = <<>> /\ mu = NoId
         /\ \A o \in Operators : steps[o] = Rest
         /\ \A t \in Attempts : attempts[t] = {}

RulesInv == RulesTyped /\ Positions /\ OneChanges /\ Answers /\ Counts /\ Deletions /\ Stopped

----------------------------------------------------------------------------
\* Lists of rules

\* A draft that was accepted stays as it is under an id, and passes again.
LEMMA GivenFields ==
  ASSUME NEW rule \in Given, NEW id \in RuleIds, NEW r, r = [rule EXCEPT !.id = id]
  PROVE  /\ r.id = id /\ r.channel \in Channels
         /\ Normalized(r) = r /\ Accepted(r) /\ r \in Kept
<1>1. PICK draft \in Drafts : Accepted(draft) /\ rule = Normalized(draft)
  BY DEF Given
<1> DEFINE paths == IF draft.paths = {} THEN DefaultPaths(draft.kind) ELSE draft.paths
           value == IF draft.value = Null THEN NoValue ELSE draft.value
           overwrite == draft.overwrite /\ draft.kind = "set_field"
<1>2. DOMAIN draft = {"id", "channel", "kind", "paths", "field", "value", "overwrite", "enabled"}
      /\ draft.overwrite \in BOOLEAN
  BY AdaptersAssumption
<1>3. /\ DOMAIN rule = DOMAIN draft
      /\ rule.channel = draft.channel /\ rule.kind = draft.kind /\ rule.field = draft.field
      /\ rule.paths = paths /\ rule.value = value /\ rule.overwrite = overwrite
  BY <1>1, <1>2 DEF Normalized
<1>4. /\ DOMAIN r = DOMAIN draft /\ r.id = id
      /\ r.channel = draft.channel /\ r.kind = draft.kind /\ r.field = draft.field
      /\ r.paths = paths /\ r.value = value /\ r.overwrite = overwrite
  BY <1>2, <1>3
<1> DEFINE n == Normalized(r)
<1>5. n = r
  <2>0. r = [x \in DOMAIN r |-> r[x]]
    OBVIOUS
  <2>1. (IF paths = {} THEN DefaultPaths(draft.kind) ELSE paths) = paths
    OBVIOUS
  <2>2. (IF value = Null THEN NoValue ELSE value) = value
    OBVIOUS
  <2>3. (overwrite /\ draft.kind = "set_field") = overwrite
    BY <1>2
  <2> DEFINE a == [r EXCEPT !.paths = IF @ = {} THEN DefaultPaths(r.kind) ELSE @]
             b == [a EXCEPT !.value = IF @ = Null THEN NoValue ELSE @]
  <2>4. a = r
    BY <2>0, <2>1, <1>4
  <2>5. b = r
    BY <2>0, <2>2, <2>4, <1>4
  <2>6. n = [b EXCEPT !.overwrite = @ /\ r.kind = "set_field"]
    BY DEF Normalized
  <2> HIDE DEF b, n
  <2> QED BY <2>0, <2>3, <2>5, <2>6, <1>4
<1>6. Accepted(r)
  <2>1. Accepted(draft)
    BY <1>1
  <2>2. rule = Normalized(draft)
    BY <1>1
  <2> HIDE DEF paths, value, overwrite
  <2> QED BY <2>1, <2>2, <1>3, <1>4, <1>5 DEF Accepted
<1> QED BY <1>1, <1>4, <1>5, <1>6, <1>3 DEF Kept, Accepted

LEMMA KeptFields ==
  ASSUME NEW r \in Kept
  PROVE  r.id \in RuleIds /\ r.channel \in Channels /\ Normalized(r) = r /\ Accepted(r)
<1>1. PICK rule \in Given, id \in RuleIds : r = [rule EXCEPT !.id = id]
  BY DEF Kept
<1> QED BY <1>1, GivenFields

LEMMA InList ==
  ASSUME NEW list \in RuleList
  PROVE  /\ Len(list) \in Nat /\ DOMAIN list = 1..Len(list)
         /\ \A n \in DOMAIN list : list[n] \in Kept /\ list[n].id \in RuleIds /\ list[n].channel \in Channels
         /\ Ids(list) \subseteq RuleIds
<1>1. \A n \in DOMAIN list : list[n] \in Kept
  BY DEF RuleList
<1>2. \A n \in DOMAIN list : list[n].id \in RuleIds /\ list[n].channel \in Channels
  BY <1>1, KeptFields
<1> QED BY <1>1, <1>2 DEF RuleList, Ids

\* The rule of an id is found, and only it.
LEMMA FindIs ==
  ASSUME NEW list \in RuleList
  PROVE  /\ \A n \in DOMAIN list : list[n].id \in Ids(list) /\ At(list, list[n].id) = n /\ Find(list, list[n].id) = list[n]
         /\ \A id \in Ids(list) : /\ At(list, id) \in DOMAIN list /\ list[At(list, id)].id = id
                                  /\ Find(list, id) = list[At(list, id)]
         /\ \A id : id \notin Ids(list) => Find(list, id) = NoId
<1>1. \A id \in Ids(list) : At(list, id) \in DOMAIN list /\ list[At(list, id)].id = id
  BY DEF Ids, At
<1>2. \A n \in DOMAIN list : list[n].id \in Ids(list)
  BY DEF Ids
<1>3. \A n \in DOMAIN list : At(list, list[n].id) = n
  BY <1>1, <1>2 DEF RuleList, Single
<1> QED BY <1>1, <1>2, <1>3 DEF Find

LEMMA NoRules == <<>> \in RuleList /\ Ids(<<>>) = {} /\ \A id : Find(<<>>, id) = NoId
  BY DEF RuleList, Single, Ids, Find

\* What is found of two lists that agree on where the rules of the other ids are.
LEMMA FindSame ==
  ASSUME NEW list \in RuleList, NEW next \in RuleList, NEW id,
         \A n \in DOMAIN next : next[n].id # id => \E m \in DOMAIN list : list[m] = next[n],
         \A m \in DOMAIN list : list[m].id # id => \E n \in DOMAIN next : list[m] = next[n]
  PROVE  /\ \A i : i # id => Find(next, i) = Find(list, i)
         /\ Ids(next) \ {id} = Ids(list) \ {id}
<1>1. Ids(next) \ {id} = Ids(list) \ {id}
  BY DEF Ids
<1>2. ASSUME NEW i, i # id PROVE Find(next, i) = Find(list, i)
  <2>1. CASE i \in Ids(list)
    <3>1. At(list, i) \in DOMAIN list /\ list[At(list, i)].id = i /\ Find(list, i) = list[At(list, i)]
      BY <2>1, FindIs
    <3>2. PICK n \in DOMAIN next : list[At(list, i)] = next[n]
      BY <3>1, <1>2
    <3> QED BY <3>1, <3>2, FindIs
  <2>2. CASE i \notin Ids(list)
    BY <2>2, <1>1, <1>2, FindIs
  <2> QED BY <2>1, <2>2
<1> QED BY <1>1, <1>2

LEMMA Appending ==
  ASSUME NEW list \in RuleList, NEW rule \in Kept, rule.id \notin Ids(list)
  PROVE  LET next == Append(list, rule)
         IN  /\ next \in RuleList /\ Len(next) = Len(list) + 1
             /\ Ids(next) = Ids(list) \cup {rule.id}
             /\ \A id : id # rule.id => Find(next, id) = Find(list, id)
<1> DEFINE next == Append(list, rule)
<1>1. list \in Seq(Kept)
  BY DEF RuleList
<1>2. /\ next \in Seq(Kept) /\ Len(next) = Len(list) + 1 /\ Len(list) \in Nat
      /\ DOMAIN next = 1..(Len(list) + 1) /\ DOMAIN list = 1..Len(list)
      /\ \A n \in DOMAIN list : next[n] = list[n]
      /\ next[Len(list) + 1] = rule
  BY <1>1
<1> HIDE DEF next
<1>3. \A n \in DOMAIN next : n \in DOMAIN list \/ n = Len(list) + 1
  BY <1>2
<1>4. DOMAIN list \subseteq DOMAIN next /\ Len(list) + 1 \in DOMAIN next
  BY <1>2
<1>5. next \in RuleList
  BY <1>2, <1>3 DEF RuleList, Single, Ids
<1>6. Ids(next) = Ids(list) \cup {rule.id}
  BY <1>2, <1>3, <1>4 DEF Ids
<1>7. \A id : id # rule.id => Find(next, id) = Find(list, id)
  <2>1. \A n \in DOMAIN next : next[n].id # rule.id => \E m \in DOMAIN list : list[m] = next[n]
    BY <1>2, <1>3
  <2>2. \A m \in DOMAIN list : list[m].id # rule.id => \E n \in DOMAIN next : list[m] = next[n]
    BY <1>2, <1>4
  <2> QED BY <1>5, <2>1, <2>2, FindSame
<1> QED BY <1>2, <1>5, <1>6, <1>7 DEF next

LEMMA Replacing ==
  ASSUME NEW list \in RuleList, NEW rule \in Kept, rule.id \in Ids(list)
  PROVE  LET next == [list EXCEPT ![At(list, rule.id)] = rule]
         IN  /\ next \in RuleList /\ Len(next) = Len(list)
             /\ Ids(next) = Ids(list)
             /\ \A id : id # rule.id => Find(next, id) = Find(list, id)
<1> DEFINE k == At(list, rule.id)
           next == [list EXCEPT ![k] = rule]
<1>1. list \in Seq(Kept) /\ k \in DOMAIN list /\ list[k].id = rule.id
  BY FindIs DEF RuleList
<1>2. \A n \in DOMAIN list : list[n].id = rule.id => n = k
  BY <1>1 DEF RuleList, Single
<1> HIDE DEF k
<1>3. /\ next \in Seq(Kept) /\ Len(next) = Len(list) /\ DOMAIN next = DOMAIN list
      /\ next[k] = rule /\ \A n \in DOMAIN list : n # k => next[n] = list[n]
  BY <1>1
<1> HIDE DEF next
<1>4. \A n \in DOMAIN list : next[n].id = list[n].id
  BY <1>1, <1>3
<1>5. next \in RuleList
  BY <1>3, <1>4 DEF RuleList, Single
<1>6. Ids(next) = Ids(list)
  BY <1>3, <1>4 DEF Ids
<1>7. \A id : id # rule.id => Find(next, id) = Find(list, id)
  <2>1. \A n \in DOMAIN next : next[n].id # rule.id => \E m \in DOMAIN list : list[m] = next[n]
    BY <1>3
  <2>2. \A m \in DOMAIN list : list[m].id # rule.id => \E n \in DOMAIN next : list[m] = next[n]
    BY <1>1, <1>3
  <2> QED BY <1>5, <2>1, <2>2, FindSame
<1> QED BY <1>3, <1>5, <1>6, <1>7 DEF next, k

LEMMA Removing ==
  ASSUME NEW list \in RuleList, NEW id \in Ids(list)
  PROVE  LET next == RemoveAt(list, At(list, id))
         IN  /\ next \in RuleList /\ Len(next) = Len(list) - 1
             /\ Ids(next) = Ids(list) \ {id}
             /\ \A i : i # id => Find(next, i) = Find(list, i)
<1> DEFINE k == At(list, id)
           next == RemoveAt(list, k)
           front == SubSeq(list, 1, k - 1)
           back == SubSeq(list, k + 1, Len(list))
<1>1. /\ list \in Seq(Kept) /\ k \in DOMAIN list /\ list[k].id = id
      /\ Len(list) \in Nat /\ DOMAIN list = 1..Len(list)
  BY FindIs, InList DEF RuleList
<1>2. \A n \in DOMAIN list : list[n].id = id => n = k
  BY <1>1 DEF RuleList, Single
<1> HIDE DEF k
<1>3. k \in 1..Len(list)
  BY <1>1
<1>4. /\ front \in Seq(Kept) /\ Len(front) = k - 1
      /\ \A n \in 1..(k - 1) : front[n] = list[n]
  BY <1>1, <1>3
<1>5. /\ back \in Seq(Kept) /\ Len(back) = Len(list) - k
      /\ \A n \in 1..(Len(list) - k) : back[n] = list[k + n]
  BY <1>1, <1>3
<1> HIDE DEF front, back
<1>6. next = front \o back
  BY DEF RemoveAt, front, back
<1>7. /\ next \in Seq(Kept) /\ Len(next) = Len(list) - 1 /\ DOMAIN next = 1..(Len(list) - 1)
      /\ \A n \in 1..(k - 1) : next[n] = list[n]
      /\ \A n \in k..(Len(list) - 1) : next[n] = list[n + 1]
  <2> HIDE DEF Kept
  <2>1. front \in Seq(Kept) /\ back \in Seq(Kept)
    BY <1>4, <1>5
  <2>2. next \in Seq(Kept)
    BY <2>1, <1>6
  <2>3. Len(next) = Len(front) + Len(back)
    BY <2>1, <1>6
  <2>4. next \in Seq(Kept) /\ Len(next) = Len(front) + Len(back)
    BY <2>2, <2>3
  <2>5. next \in Seq(Kept) /\ Len(next) = (k - 1) + (Len(list) - k)
    BY <2>4, <1>4, <1>5
  <2>6. Len(next) = Len(list) - 1 /\ DOMAIN next = 1..(Len(list) - 1)
    BY <2>5, <1>1, <1>3
  <2>7. \A n \in 1..(k - 1) : next[n] = list[n]
    BY <1>1, <1>3, <1>4, <1>5, <1>6
  <2>8. ASSUME NEW n \in k..(Len(list) - 1) PROVE next[n] = list[n + 1]
    <3>1. n - (k - 1) \in 1..(Len(list) - k) /\ k + (n - (k - 1)) = n + 1
      BY <1>1, <1>3
    <3>2. n \in (Len(front) + 1)..(Len(front) + Len(back)) /\ n - Len(front) = n - (k - 1)
      BY <1>1, <1>3, <1>4, <1>5
    <3>3. (front \o back)[n] = back[n - Len(front)]
      BY <2>1, <3>2
    <3>4. next[n] = back[n - (k - 1)]
      BY <1>6, <3>2, <3>3
    <3> QED BY <3>1, <3>4, <1>5
  <2> QED BY <2>5, <2>6, <2>7, <2>8
<1> HIDE DEF next
<1> DEFINE from(n) == IF n < k THEN n ELSE n + 1
           to(m) == IF m < k THEN m ELSE m - 1
<1>8. \A n \in DOMAIN next : /\ from(n) \in DOMAIN list /\ from(n) # k /\ next[n] = list[from(n)]
  BY <1>1, <1>3, <1>7
<1>9. \A m \in DOMAIN list : m # k => to(m) \in DOMAIN next /\ from(to(m)) = m
  BY <1>1, <1>3, <1>7
<1>10. \A n, m \in DOMAIN next : from(n) = from(m) => n = m
  BY <1>3, <1>7
<1> HIDE DEF from, to
<1>11. next \in RuleList
  BY <1>7, <1>8, <1>10 DEF RuleList, Single
<1>12. \A n \in DOMAIN next : next[n].id # id
  BY <1>2, <1>8
<1>13. \A m \in DOMAIN list : list[m].id # id => \E n \in DOMAIN next : list[m] = next[n]
  <2> SUFFICES ASSUME NEW m \in DOMAIN list, list[m].id # id PROVE \E n \in DOMAIN next : list[m] = next[n]
    OBVIOUS
  <2>1. to(m) \in DOMAIN next /\ from(to(m)) = m
    BY <1>1, <1>9
  <2> QED BY <2>1, <1>8
<1>14. \A n \in DOMAIN next : next[n].id # id => \E m \in DOMAIN list : list[m] = next[n]
  BY <1>8
<1>15. /\ \A i : i # id => Find(next, i) = Find(list, i)
       /\ Ids(next) \ {id} = Ids(list) \ {id}
  BY <1>11, <1>13, <1>14, FindSame
<1>16. Ids(next) = Ids(list) \ {id}
  BY <1>12, <1>15 DEF Ids
<1> QED BY <1>7, <1>11, <1>15, <1>16 DEF next, k

\* The list a call writes differs from the rules in the rule it changes.
LEMMA WithIs ==
  ASSUME RulesTyped, NEW step \in Step, step.op # "none", step.op # "delete" => step.rule \in Given,
         ~Refuses(step), NEW id \in IF step.op = "create" THEN RuleIds \ named ELSE {step.id}
  PROVE  /\ id \in RuleIds /\ With(step, id) \in RuleList /\ Len(With(step, id)) <= MaxRules
         /\ \A i : i # id => Find(With(step, id), i) = Find(rules, i)
         /\ \/ step.op = "create" /\ id \notin Ids(rules) /\ Ids(With(step, id)) = Ids(rules) \cup {id}
            \/ step.op = "edit" /\ Ids(With(step, id)) = Ids(rules)
            \/ step.op = "delete" /\ Ids(With(step, id)) = Ids(rules) \ {id}
<1>1. /\ rules \in RuleList /\ Len(rules) \in Nat /\ MaxRules \in Nat /\ Len(rules) <= MaxRules
      /\ Ids(rules) \subseteq RuleIds /\ Ids(rules) \subseteq named
  BY InList, RewritesAssumption DEF RulesTyped
<1>2. step.op \in {"create", "edit", "delete"}
  BY DEF Step
<1>3. id \in RuleIds /\ (step.op # "create" => id = step.id /\ id \in Ids(rules))
  BY <1>1 DEF Refuses
<1> DEFINE rule == [step.rule EXCEPT !.id = id]
<1>4. step.op # "delete" => rule \in Kept /\ rule.id = id
  BY <1>3, GivenFields
<1> HIDE DEF rule
<1>5. CASE step.op = "create"
  <2>1. With(step, id) = Append(rules, rule)
    BY <1>5 DEF With, rule
  <2>2. id \notin Ids(rules) /\ Len(rules) < MaxRules
    BY <1>1, <1>5 DEF Refuses, Full
  <2> QED BY <1>1, <1>3, <1>4, <1>5, <2>1, <2>2, Appending
<1>6. CASE step.op = "edit"
  <2>1. With(step, id) = [rules EXCEPT ![At(rules, id)] = rule]
    BY <1>6 DEF With, rule
  <2>2. rule \in Kept /\ rule.id = id /\ rule.id \in Ids(rules)
    BY <1>3, <1>4, <1>6
  <2> DEFINE next == [rules EXCEPT ![At(rules, rule.id)] = rule]
  <2>3. /\ next \in RuleList /\ Len(next) = Len(rules) /\ Ids(next) = Ids(rules)
        /\ \A i : i # rule.id => Find(next, i) = Find(rules, i)
    BY <1>1, <2>2, Replacing
  <2>4. With(step, id) = next
    BY <2>1, <2>2
  <2> HIDE DEF next
  <2> QED BY <1>1, <1>3, <1>6, <2>2, <2>3, <2>4
<1>7. CASE step.op = "delete"
  <2>1. With(step, id) = RemoveAt(rules, At(rules, id))
    BY <1>7 DEF With
  <2> QED BY <1>1, <1>3, <1>7, <2>1, Removing
<1> QED BY <1>2, <1>5, <1>6, <1>7

----------------------------------------------------------------------------
\* The steps keep the invariant

(* The order of the changes to memory. *)
LEMMA Todos ==
  /\ \A op \in {"create", "edit", "delete"} :
       Order(op) \in {<<"book">>, <<"book", "hits">>, <<"hits", "book">>}
  /\ Head(<<"book">>) = "book" /\ Head(<<"hits">>) = "hits"
  /\ Head(<<"book", "hits">>) = "book" /\ Head(<<"hits", "book">>) = "hits"
  /\ Tail(<<"book", "hits">>) = <<"hits">> /\ Tail(<<"hits", "book">>) = <<"book">>
  /\ Len(<<"book">>) = 1 /\ Len(<<"hits">>) = 1
  /\ Len(<<"book", "hits">>) = 2 /\ Len(<<"hits", "book">>) = 2
  /\ <<"book">> # <<"hits">> /\ <<"book", "hits">> # <<"hits", "book">>
  /\ <<"hits", "book">> # <<"book">> /\ <<"book", "hits">> # <<"hits">>
<1>1. \A op \in {"create", "edit", "delete"} :
       Order(op) \in {<<"book">>, <<"book", "hits">>, <<"hits", "book">>}
  BY DEF Order
<1>2. /\ Head(<<"book">>) = "book" /\ Head(<<"hits">>) = "hits"
      /\ Head(<<"book", "hits">>) = "book" /\ Head(<<"hits", "book">>) = "hits"
  OBVIOUS
<1>3. Tail(<<"book", "hits">>) = <<"hits">> /\ Tail(<<"hits", "book">>) = <<"book">>
  OBVIOUS
<1>4. /\ Len(<<"book">>) = 1 /\ Len(<<"hits">>) = 1
      /\ Len(<<"book", "hits">>) = 2 /\ Len(<<"hits", "book">>) = 2
  OBVIOUS
<1> QED BY <1>1, <1>2, <1>3, <1>4

LEMMA RestIs ==
  /\ Rest \in Step /\ Rest.at = "idle" /\ Rest.channel = NoId /\ Rest.touched = {} /\ Rest.op = "none"
  BY NoRules DEF Rest, Step, RuleList

LEMMA InitRules == ManagementInit => RulesInv
<1> SUFFICES ASSUME ManagementInit PROVE RulesInv
  OBVIOUS
<1> USE DEF ManagementInit, AdaptersInit
<1>1. RulesTyped
  <2>1. PICK share \in Shares : ruleCalls = share.rules /\ ruleAttempts = share.attempts
    OBVIOUS
  <2>2. ruleCalls \in Nat /\ ruleAttempts \in Nat
    BY <2>1, ManagementAssumption
  <2>3. Len(<<>>) <= MaxRules
    BY RewritesAssumption
  <2> QED BY <2>2, <2>3, RestIs, NoRules DEF RulesTyped
<1>2. Positions
  BY RestIs, AdaptersAssumption DEF Positions
<1>3. OneChanges
  BY DEF OneChanges
<1>4. Answers
  BY NoRules DEF Answers
<1>5. Counts
  BY NoRules DEF Counts, Pending
<1>6. Deletions
  BY RestIs DEF Deletions
<1>7. Stopped
  BY DEF Stopped, Fresh
<1> QED BY <1>1, <1>2, <1>3, <1>4, <1>5, <1>6, <1>7 DEF RulesInv

\* A call that is not about mu: only its step changes.
LEMMA StepChanges ==
  ASSUME RulesInv, up, up' = up, NEW o \in Operators, NEW step \in Step,
         steps[o].at # "saved", step.at # "saved", steps' = [steps EXCEPT ![o] = step],
         step.at = "idle" <=> step = Rest, step.at = "read" => step.channel # NoId,
         step.at = "waits" => /\ step.op # "none"
                              /\ step.op # "delete" => step.rule \in Given /\ step.channel = NoId,
         step.at = "waits" /\ step.channel # NoId =>
           \A n \in Of(step.channel, rules) : rules[n].id \in Ahead(step) \cup step.touched,
         ruleCalls' \in Nat,
         UNCHANGED <<rules, book, hits, ruleFile, mu, attempts, ruleHistory, ruleAttempts>>
  PROVE  RulesInv'
<1>0. steps \in [Operators -> Step] /\ mu \in Operators \cup {NoId} /\ (mu # NoId => mu # o)
  BY DEF RulesInv, RulesTyped, Positions
<1>1. steps' \in [Operators -> Step] /\ steps'[o] = step /\ \A p \in Operators \ {o} : steps'[p] = steps[p]
  BY <1>0
<1>2. RulesTyped'
  BY <1>1 DEF RulesInv, RulesTyped, ruleHistory
<1>3. Positions'
  BY <1>0, <1>1 DEF RulesInv, Positions
<1>4. mu # NoId => steps'[mu] = steps[mu]
  BY <1>0, <1>1
<1>5. Pending' = Pending
  BY <1>4 DEF Pending
<1>6. OneChanges'
  BY <1>4 DEF RulesInv, OneChanges, Changing, ruleHistory
<1>7. Answers'
  BY <1>5 DEF RulesInv, Answers, ruleHistory
<1>8. Seen' = Seen /\ {id \in Pending : Spare(steps[mu])}' = {id \in Pending : Spare(steps[mu])}
  BY <1>4, <1>5 DEF Seen, Pending, ruleHistory
<1>9. Counts'
  BY <1>8 DEF RulesInv, Counts, ruleHistory
<1>10. Deletions'
  <2>1. wrong' = {}
    BY DEF RulesInv, Deletions, ruleHistory
  <2>2. ASSUME NEW p \in Operators, steps'[p].at \in {"waits", "saved"}, steps'[p].channel # NoId,
               NEW n \in Of(steps'[p].channel, rules')
        PROVE  rules'[n].id \in Ahead(steps'[p]) \cup steps'[p].touched
    <3>1. CASE p = o
      BY <3>1, <2>2, <1>1
    <3>2. CASE p # o
      BY <3>2, <2>2, <1>1 DEF RulesInv, Deletions
    <3> QED BY <3>1, <3>2
  <2> QED BY <2>1, <2>2 DEF Deletions
<1>11. Stopped'
  BY DEF Stopped
<1> QED BY <1>2, <1>3, <1>6, <1>7, <1>9, <1>10, <1>11 DEF RulesInv

\* A channel's deletion goes on with all the rules that are left, or has none.
LEMMA ContinuesIs ==
  ASSUME NEW step \in Step
  PROVE  LET next == Continues(step)
         IN  /\ next \in Step /\ next.at \in {"idle", "waits"} /\ (next.at = "idle" <=> next = Rest)
             /\ next.at = "idle" => Of(step.channel, step.left) = {}
             /\ next.at = "waits" => /\ next.op = "delete" /\ next.channel = step.channel /\ next.channel # NoId
                                     /\ next.touched = step.touched
                                     /\ {step.left[n].id : n \in Of(step.channel, step.left)} \subseteq Ahead(next)
<1> DEFINE next == Continues(step)
           found == Of(step.channel, step.left)
           k == Min(found)
           left == SubSeq(step.left, k + 1, Len(step.left))
<1>1. /\ step.left \in Seq(Kept) /\ Len(step.left) \in Nat /\ DOMAIN step.left = 1..Len(step.left)
      /\ \A n \in DOMAIN step.left : step.left[n].id \in RuleIds /\ step.left[n].channel \in Channels
  BY KeptFields DEF Step
<1>2. CASE found = {}
  <2>1. next = Rest
    BY <1>2 DEF Continues
  <2> QED BY <1>2, <2>1, RestIs
<1>3. CASE found # {}
  <2>1. k \in found /\ \A n \in found : k <= n
    <3>1. found \subseteq Nat
      BY <1>1 DEF Of
    <3> QED BY <3>1, <1>3, LeastNat DEF Min
  <2>2. k \in 1..Len(step.left) /\ step.left[k].channel = step.channel /\ step.channel \in Channels
    BY <1>1, <2>1 DEF Of
  <2>3. step.channel # NoId /\ step.left[k].id \in RuleIds
    BY <1>1, <2>2, RewritesAssumption
  <2> HIDE DEF k
  <2>4. /\ left \in Seq(Kept) /\ Len(left) = Len(step.left) - k
        /\ \A n \in 1..(Len(step.left) - k) : left[n] = step.left[k + n]
    BY <1>1, <2>2
  <2> HIDE DEF left
  <2>5. next = [Rest EXCEPT !.at = "waits", !.op = "delete", !.id = step.left[k].id, !.channel = step.channel,
                            !.left = left, !.touched = step.touched]
    BY <1>3 DEF Continues, k, left
  <2>6. /\ next.at = "waits" /\ next.op = "delete" /\ next.channel = step.channel /\ next.touched = step.touched
        /\ next.id = step.left[k].id /\ next.left = left
    BY <2>5 DEF Rest
  <2>7. next \in Step
    BY <2>3, <2>4, <2>5, NoRules DEF Step, Rest
  <2>8. ASSUME NEW n \in found PROVE step.left[n].id \in Ahead(next)
    <3>1. CASE n = k
      BY <3>1, <2>6 DEF Ahead
    <3>2. CASE n # k
      <4>1. n \in 1..Len(step.left) /\ step.left[n].channel = step.channel /\ k < n
        BY <3>2, <1>1, <2>1, <2>2 DEF Of
      <4>2. n - k \in 1..(Len(step.left) - k) /\ k + (n - k) = n
        BY <4>1, <1>1, <2>2
      <4>3. n - k \in DOMAIN left /\ left[n - k] = step.left[n]
        BY <4>2, <2>4
      <4>4. n - k \in Of(next.channel, next.left)
        BY <4>1, <4>3, <2>6 DEF Of
      <4> QED BY <4>3, <4>4, <2>6 DEF Ahead
    <3> QED BY <3>1, <3>2
  <2>9. next # Rest
    BY <2>6, RestIs
  <2> QED BY <2>3, <2>6, <2>7, <2>8, <2>9
<1> QED BY <1>2, <1>3

LEMMA ArrivalKeeps ==
  ASSUME RulesInv, up, up' = up, NEW o \in Operators,
         UpsertArrives(o) \/ DeleteArrives(o) \/ ChannelDeleteArrives(o) \/ ChannelDeleteReads(o)
  PROVE  RulesInv'
<1>0. ruleCalls \in Nat /\ steps \in [Operators -> Step] /\ named \subseteq RuleIds /\ rules \in RuleList
  BY DEF RulesInv, RulesTyped
<1>1. ASSUME NEW step \in Step, Arrives(o, step), step.at \in {"read", "waits"}, step.at = "read" => step.channel # NoId,
             step.at = "waits" => /\ step.op # "none" /\ step.channel = NoId
                                  /\ step.op # "delete" => step.rule \in Given
      PROVE  RulesInv'
  <2>1. steps[o].at # "saved" /\ ruleCalls' \in Nat
    BY <1>0, <1>1, RestIs DEF Arrives
  <2>2. /\ steps' = [steps EXCEPT ![o] = step]
        /\ UNCHANGED <<rules, book, hits, ruleFile, mu, attempts, ruleHistory, ruleAttempts>>
    BY <1>1 DEF Arrives
  <2>3. step # Rest
    BY <1>1, RestIs
  <2> QED BY <1>1, <2>1, <2>2, <2>3, StepChanges
<1>2. CASE UpsertArrives(o)
  <2>1. PICK draft \in Drafts, id \in named \cup {NoId} :
          /\ Accepted(draft)
          /\ Arrives(o, [Rest EXCEPT !.at = "waits", !.op = IF id = NoId THEN "create" ELSE "edit",
                                     !.rule = Normalized(draft), !.id = id])
    BY <1>2 DEF UpsertArrives
  <2> DEFINE rule == Normalized(draft)
             step == [Rest EXCEPT !.at = "waits", !.op = IF id = NoId THEN "create" ELSE "edit", !.rule = rule, !.id = id]
  <2>2. rule \in Given
    BY <2>1 DEF Given
  <2> HIDE DEF rule
  <2>3. /\ step \in Step /\ step.at = "waits" /\ step.op \in {"create", "edit"} /\ step.channel = NoId /\ step.rule = rule
    BY <1>0, <2>2, NoRules DEF Rest, Step, RuleList
  <2>4. Arrives(o, step)
    BY <2>1 DEF rule
  <2> HIDE DEF step
  <2> QED BY <2>2, <2>3, <2>4, <1>1
<1>3. CASE DeleteArrives(o)
  <2>1. PICK id \in named : Arrives(o, [Rest EXCEPT !.at = "waits", !.op = "delete", !.id = id])
    BY <1>3 DEF DeleteArrives
  <2> DEFINE step == [Rest EXCEPT !.at = "waits", !.op = "delete", !.id = id]
  <2>2. step \in Step /\ step.at = "waits" /\ step.op = "delete" /\ step.channel = NoId
    BY <1>0, NoRules DEF Rest, Step, RuleList
  <2> QED BY <2>1, <2>2, <1>1
<1>4. CASE ChannelDeleteArrives(o)
  <2>1. PICK c \in Channels : Arrives(o, [Rest EXCEPT !.at = "read", !.channel = c])
    BY <1>4 DEF ChannelDeleteArrives
  <2> DEFINE step == [Rest EXCEPT !.at = "read", !.channel = c]
  <2>2. step \in Step /\ step.at = "read" /\ step.channel # NoId
    BY <1>0, NoRules, RewritesAssumption DEF Rest, Step, RuleList
  <2> QED BY <2>1, <2>2, <1>1
<1>5. CASE ChannelDeleteReads(o)
  <2> DEFINE read == [steps[o] EXCEPT !.left = rules, !.touched = {}]
             step == Continues(read)
  <2>1. steps[o].at = "read" /\ steps' = [steps EXCEPT ![o] = Continues([steps[o] EXCEPT !.left = rules, !.touched = {}])]
        /\ UNCHANGED <<rules, book, hits, ruleFile, mu, attempts, ruleHistory, ruleCalls, ruleAttempts>>
    BY <1>0, <1>5 DEF ChannelDeleteReads
  <2>2. read \in Step /\ read.left = rules /\ read.touched = {}
    BY <1>0 DEF Step, RuleList
  <2> HIDE DEF read
  <2>3. /\ step \in Step /\ step.at \in {"idle", "waits"} /\ (step.at = "idle" <=> step = Rest)
        /\ step.at = "waits" => /\ step.op = "delete" /\ step.channel = read.channel
                                /\ {rules[n].id : n \in Of(read.channel, rules)} \subseteq Ahead(step)
    BY <2>2, ContinuesIs
  <2>4. steps' = [steps EXCEPT ![o] = step]
    BY <2>1 DEF read
  <2> HIDE DEF step
  <2>5. step.at = "waits" => \A n \in Of(step.channel, rules) : rules[n].id \in Ahead(step)
    BY <2>3
  <2> QED BY <1>0, <2>1, <2>3, <2>4, <2>5, StepChanges
<1> QED BY <1>2, <1>3, <1>4, <1>5

LEMMA SaveKeeps ==
  ASSUME RulesInv, up, up' = up, NEW o \in Operators, SaveRules(o) PROVE RulesInv'
<1> DEFINE step == steps[o]
<1>0. /\ steps \in [Operators -> Step] /\ step \in Step /\ step.at = "waits" /\ mu = NoId /\ ~Refuses(step)
      /\ step.op # "none" /\ step.op \in {"create", "edit", "delete"}
      /\ (step.op # "delete" => step.rule \in Given /\ step.channel = NoId)
      /\ Ids(rules) \subseteq named /\ named \subseteq RuleIds /\ RulesTyped
  BY DEF SaveRules, RulesInv, RulesTyped, Positions, Step
<1>1. PICK id \in IF step.op = "create" THEN RuleIds \ named ELSE {step.id} :
        /\ ruleFile' = With(step, id) /\ unsure' = {id}
        /\ steps' = [steps EXCEPT ![o] = [steps[o] EXCEPT !.at = "saved", !.id = id, !.next = With(step, id), !.todo = Order(step.op)]]
        /\ named' = named \cup {id}
  BY DEF SaveRules
<1> DEFINE next == With(step, id)
           new == [step EXCEPT !.at = "saved", !.id = id, !.next = next, !.todo = Order(step.op)]
<1>2. mu' = o /\ UNCHANGED <<rules, book, hits, attempts, counted, answered, wrong, ruleCalls, ruleAttempts>>
  BY DEF SaveRules
<1>3. /\ id \in RuleIds /\ next \in RuleList /\ Len(next) <= MaxRules
      /\ \A i : i # id => Find(next, i) = Find(rules, i)
      /\ \/ step.op = "create" /\ id \notin Ids(rules) /\ Ids(next) = Ids(rules) \cup {id}
         \/ step.op = "edit" /\ Ids(next) = Ids(rules)
         \/ step.op = "delete" /\ Ids(next) = Ids(rules) \ {id}
  BY <1>0, WithIs
<1>4. step.op # "create" => id = step.id /\ id \in Ids(rules)
  BY <1>0 DEF Refuses
<1>5. ruleFile' = next
  BY <1>1
<1> HIDE DEF next, step
<1>6. /\ new.at = "saved" /\ new.op = step.op /\ new.rule = step.rule /\ new.id = id /\ new.next = next
      /\ new.todo = Order(step.op) /\ new.channel = step.channel /\ new.left = step.left /\ new.touched = step.touched
      /\ new \in Step
  BY <1>0, <1>3, Todos DEF Step
<1>7. steps' = [steps EXCEPT ![o] = new]
  BY <1>1 DEF next, step
<1> HIDE DEF new
<1>8. steps'[o] = new /\ steps' \in [Operators -> Step] /\ \A p \in Operators \ {o} : steps'[p] = steps[p]
  BY <1>0, <1>6, <1>7
<1>9. RulesTyped'
  <2>1. Ids(next) \subseteq named' /\ Ids(rules) \subseteq named' /\ named' \subseteq RuleIds /\ unsure' \subseteq RuleIds
    BY <1>0, <1>1, <1>3
  <2> QED BY <2>1, <1>0, <1>2, <1>3, <1>5, <1>8 DEF RulesTyped
<1>10. Positions'
  <2>1. \A p \in Operators \ {o} : steps[p].at # "saved"
    BY <1>0, AdaptersAssumption DEF RulesInv, Positions
  <2>2. new # Rest
    BY <1>6, RestIs
  <2> QED BY <2>1, <2>2, <1>0, <1>2, <1>6, <1>8 DEF RulesInv, Positions
<1>11. OneChanges'
  <2>1. Ids(rules)' = Ids(rules)
    BY <1>2
  <2>2. step.op = "create" => new.todo = <<"hits", "book">>
    BY <1>6 DEF Order
  <2>3. step.op = "edit" => new.todo = <<"book">>
    BY <1>6 DEF Order
  <2>4. step.op = "delete" => new.todo = <<"book", "hits">>
    BY <1>6 DEF Order
  <2>5. steps'[mu'] = new
    BY <1>2, <1>8
  <2>6. new.next = ruleFile' /\ unsure' = {new.id} /\ new.id \in named'
    BY <1>1, <1>5, <1>6
  <2>7. \/ /\ new.op = "create" /\ new.todo = <<"hits", "book">>
           /\ new.id \notin Ids(rules) /\ Ids(new.next) = Ids(rules) \cup {new.id}
        \/ /\ new.op = "edit" /\ new.todo = <<"book">>
           /\ Ids(new.next) = Ids(rules)
        \/ /\ new.op = "delete" /\ new.todo = <<"book", "hits">>
           /\ new.id \in Ids(rules) /\ Ids(new.next) = Ids(rules) \ {new.id}
    BY <2>2, <2>3, <2>4, <1>3, <1>4, <1>6
  <2> QED BY <2>1, <2>5, <2>6, <2>7 DEF OneChanges, Changing
<1>12. Pending' = {id} /\ Pending = {}
  BY <1>0, <1>2, <1>6, <1>8, AdaptersAssumption DEF Pending
<1>13. Answers'
  BY <1>0, <1>1, <1>2, <1>3, <1>5, <1>12 DEF RulesInv, Answers
<1>14. Counts'
  <2>1. ~Spare(new) /\ (Coming(new) => step.op = "create") /\ (step.op = "create" => Coming(new))
    BY <1>6, Todos DEF Spare, Coming, Order
  <2>2. Seen' = Seen
    <3>1. Seen = named
      BY <1>12 DEF Seen
    <3>2. Seen' = named' \ {i \in {id} : Coming(new)}
      BY <1>2, <1>8, <1>12 DEF Seen
    <3>3. CASE step.op = "create"
      BY <3>1, <3>2, <3>3, <2>1, <1>1
    <3>4. CASE step.op # "create"
      BY <3>1, <3>2, <3>4, <2>1, <1>0, <1>1, <1>4
    <3> QED BY <3>3, <3>4
  <2>3. {i \in Pending : Spare(steps[mu])} = {} /\ {i \in Pending : Spare(steps[mu])}' = {}
    BY <2>1, <1>2, <1>8, <1>12
  <2> QED BY <2>2, <2>3, <1>2 DEF RulesInv, Counts
<1>15. Deletions'
  <2>1. wrong' = {}
    BY <1>2 DEF RulesInv, Deletions
  <2>2. ASSUME NEW p \in Operators, steps'[p].at \in {"waits", "saved"}, steps'[p].channel # NoId,
               NEW n \in Of(steps'[p].channel, rules')
        PROVE  rules'[n].id \in Ahead(steps'[p]) \cup steps'[p].touched
    <3>1. CASE p = o
      <4>1. Ahead(new) = Ahead(step)
        BY <3>1, <2>2, <1>0, <1>4, <1>6, <1>8 DEF Ahead
      <4> QED BY <4>1, <3>1, <2>2, <1>0, <1>2, <1>6, <1>8 DEF RulesInv, Deletions, step
    <3>2. CASE p # o
      BY <3>2, <2>2, <1>2, <1>8 DEF RulesInv, Deletions
    <3> QED BY <3>1, <3>2
  <2> QED BY <2>1, <2>2 DEF Deletions
<1>16. Stopped'
  BY DEF Stopped
<1> QED BY <1>9, <1>10, <1>11, <1>13, <1>14, <1>15, <1>16 DEF RulesInv

\* A write that fails after its rename leaves a file that the next one replaces.
LEMMA FailKeeps ==
  ASSUME RulesInv, up, up' = up, NEW o \in Operators, RuleFails(o) PROVE RulesInv'
<1> DEFINE step == steps[o]
<1>0. /\ steps \in [Operators -> Step] /\ step \in Step /\ step.at = "waits" /\ mu = NoId
      /\ step.op # "none" /\ step.op \in {"create", "edit", "delete"}
      /\ (step.op # "delete" => step.rule \in Given)
      /\ Ids(rules) \subseteq named /\ named \subseteq RuleIds /\ RulesTyped
  BY DEF RuleFails, RulesInv, RulesTyped, Positions, Step
<1>1. /\ steps' = [steps EXCEPT ![o] = Rest]
      /\ UNCHANGED <<rules, book, hits, mu, attempts, counted, answered, wrong, ruleCalls, ruleAttempts>>
  BY DEF RuleFails
<1>2. CASE UNCHANGED <<ruleFile, unsure, named>>
  <2>1. UNCHANGED <<rules, book, hits, ruleFile, mu, attempts, ruleHistory, ruleAttempts>> /\ ruleCalls' \in Nat
    BY <1>0, <1>1, <1>2 DEF ruleHistory, RulesTyped
  <2> QED BY <2>1, <1>0, <1>1, RestIs, StepChanges
<1>3. CASE /\ ~Refuses(step)
           /\ \E id \in IF step.op = "create" THEN RuleIds \ named ELSE {step.id} :
                ruleFile' = With(step, id) /\ unsure' = {id} /\ named' = named \cup {id}
  <2>1. PICK id \in IF step.op = "create" THEN RuleIds \ named ELSE {step.id} :
          ruleFile' = With(step, id) /\ unsure' = {id} /\ named' = named \cup {id}
    BY <1>3
  <2> DEFINE next == With(step, id)
  <2>2. /\ id \in RuleIds /\ next \in RuleList /\ Len(next) <= MaxRules
        /\ \A i : i # id => Find(next, i) = Find(rules, i)
        /\ Ids(next) \subseteq Ids(rules) \cup {id}
    BY <1>0, <1>3, WithIs
  <2>3. step.op # "create" => id \in Ids(rules)
    BY <1>0, <1>3 DEF Refuses
  <2>4. ruleFile' = next
    BY <2>1
  <2> HIDE DEF next, step
  <2>5. steps'[o] = Rest /\ steps' \in [Operators -> Step] /\ \A p \in Operators \ {o} : steps'[p] = steps[p]
    BY <1>0, <1>1, RestIs
  <2>6. RulesTyped'
    <3>1. Ids(next) \subseteq named' /\ Ids(rules) \subseteq named' /\ named' \subseteq RuleIds /\ unsure' \subseteq RuleIds
      BY <1>0, <2>1, <2>2
    <3> QED BY <3>1, <1>0, <1>1, <2>2, <2>4, <2>5 DEF RulesTyped
  <2>7. Positions'
    BY <1>0, <1>1, <2>5, RestIs, AdaptersAssumption DEF RulesInv, Positions
  <2>8. OneChanges'
    BY <1>0, <1>1 DEF OneChanges
  <2>9. Pending' = {} /\ Pending = {}
    BY <1>0, <1>1 DEF Pending
  <2>10. Answers'
    BY <1>0, <1>1, <2>1, <2>2, <2>4, <2>9 DEF RulesInv, Answers
  <2>11. Counts'
    <3>1. Seen = named /\ Seen' = named \cup {id}
      BY <2>1, <2>9 DEF Seen
    <3>2. {i \in Pending : Spare(steps[mu])} = {} /\ {i \in Pending : Spare(steps[mu])}' = {}
      BY <2>9
    <3> QED BY <3>1, <3>2, <1>1 DEF RulesInv, Counts
  <2>12. Deletions'
    <3>1. wrong' = {}
      BY <1>1 DEF RulesInv, Deletions
    <3>2. ASSUME NEW p \in Operators, steps'[p].at \in {"waits", "saved"}, steps'[p].channel # NoId,
                 NEW n \in Of(steps'[p].channel, rules')
          PROVE  rules'[n].id \in Ahead(steps'[p]) \cup steps'[p].touched
      <4>1. p # o
        BY <3>2, <2>5, RestIs
      <4> QED BY <4>1, <3>2, <1>1, <2>5 DEF RulesInv, Deletions
    <3> QED BY <3>1, <3>2 DEF Deletions
  <2>13. Stopped'
    BY DEF Stopped
  <2> QED BY <2>6, <2>7, <2>8, <2>10, <2>11, <2>12, <2>13 DEF RulesInv
<1> QED BY <1>2, <1>3 DEF RuleFails

\* What the call under mu has written besides its rule is what the rules are.
LEMMA WrittenAlike ==
  ASSUME RulesInv, up, NEW o \in Operators, steps[o].at = "saved"
  PROVE  /\ mu = o /\ Changing(steps[o]) /\ steps[o].next \in RuleList /\ Pending = {steps[o].id}
         /\ steps[o].id \in RuleIds
         /\ \A id \in RuleIds \ {steps[o].id} : /\ Find(steps[o].next, id) = Find(rules, id)
                                                /\ Find(steps[o].next, id) = answered[id]
         /\ \A n \in DOMAIN steps[o].next : steps[o].next[n].id # steps[o].id =>
              \E m \in DOMAIN rules : rules[m] = steps[o].next[n]
<1>1. /\ mu = o /\ mu # NoId /\ Changing(steps[o]) /\ steps[o] \in Step /\ rules \in RuleList /\ named \subseteq RuleIds
      /\ Pending = {steps[o].id}
  BY AdaptersAssumption DEF RulesInv, Positions, OneChanges, RulesTyped, Pending
<1> DEFINE next == steps[o].next
           id == steps[o].id
<1>2. next \in RuleList
  BY <1>1 DEF Step
<1>3. id \in RuleIds
  BY <1>1 DEF Changing
<1>4. \A i \in RuleIds \ {id} : Find(next, i) = answered[i] /\ Find(rules, i) = answered[i]
  BY <1>1 DEF RulesInv, Answers, Changing
<1>5. Ids(next) \subseteq Ids(rules) \cup {id}
  BY <1>1 DEF Changing
<1>6. ASSUME NEW n \in DOMAIN next, next[n].id # id PROVE \E m \in DOMAIN rules : rules[m] = next[n]
  <2>1. next[n].id \in Ids(next) /\ next[n].id \in RuleIds /\ Find(next, next[n].id) = next[n]
    BY <1>2, InList, FindIs
  <2>2. next[n].id \in Ids(rules) /\ Find(rules, next[n].id) = next[n]
    BY <2>1, <1>4, <1>5, <1>6
  <2> QED BY <2>2, <1>1, FindIs
<1> QED BY <1>1, <1>2, <1>3, <1>4, <1>6

\* The last change to memory: the rules are now the list written.
LEMMA LastKeeps ==
  ASSUME RulesInv, up, up' = up, NEW o \in Operators, steps[o].at = "saved",
         Goes(o, steps[o].next), Len(steps[o].todo) = 1,
         rules' = steps[o].next, book' = rules',
         steps[o].op = "delete" => rules = steps[o].next,
         DOMAIN hits' = Ids(rules'), \A id \in DOMAIN hits' : hits'[id] = counted[id],
         hits' \in [DOMAIN hits' -> Nat]
  PROVE  RulesInv'
<1> DEFINE step == steps[o]
           next == steps[o].next
           id == steps[o].id
           then == Continues(steps[o])
<1>0. /\ steps \in [Operators -> Step] /\ step \in Step /\ named \subseteq RuleIds
      /\ answered \in [RuleIds -> Kept \cup {NoId}] /\ ruleFile \in RuleList /\ Len(ruleFile) <= MaxRules
      /\ Ids(ruleFile) \subseteq named
  BY DEF RulesInv, RulesTyped
<1>1. /\ mu = o /\ Changing(step) /\ next \in RuleList /\ Pending = {id} /\ id \in RuleIds /\ next = ruleFile
      /\ \A i \in RuleIds \ {id} : Find(next, i) = answered[i]
      /\ \A n \in DOMAIN next : next[n].id # id => \E m \in DOMAIN rules : rules[m] = next[n]
  BY WrittenAlike DEF Changing
<1>2. /\ then \in Step /\ then.at \in {"idle", "waits"} /\ (then.at = "idle" <=> then = Rest)
      /\ then.at = "idle" => Of(step.channel, step.left) = {}
      /\ then.at = "waits" => /\ then.op = "delete" /\ then.channel = step.channel /\ then.channel # NoId
                              /\ then.touched = step.touched
                              /\ {step.left[n].id : n \in Of(step.channel, step.left)} \subseteq Ahead(then)
  BY <1>0, ContinuesIs
<1>3. /\ steps' = [p \in Operators |-> IF p = o THEN then ELSE IF steps[p] = Rest THEN Rest
                                       ELSE [steps[p] EXCEPT !.touched = @ \cup {id}]]
      /\ mu' = NoId /\ unsure' = {}
      /\ answered' = [answered EXCEPT ![id] = Find(next, id)]
      /\ wrong' = wrong \cup Left(step, next)
      /\ UNCHANGED <<ruleFile, attempts, named, counted, ruleCalls, ruleAttempts>>
  BY DEF Goes
<1>4. step.channel # NoId => step.op = "delete"
  BY DEF RulesInv, Positions
<1>5. rules' = next /\ (step.op = "delete" => rules = next /\ id \notin Ids(rules))
  <2>1. step.op = "delete" /\ rules = next => id \notin Ids(rules)
    BY <1>1 DEF Changing
  <2> QED BY <2>1
<1> HIDE DEF then, id, next, step
<1>6. /\ steps' \in [Operators -> Step] /\ steps'[o] = then
      /\ \A p \in Operators \ {o} :
           /\ steps[p] = Rest => steps'[p] = Rest
           /\ steps[p] # Rest =>
                /\ steps'[p].at = steps[p].at /\ steps'[p].op = steps[p].op /\ steps'[p].rule = steps[p].rule
                /\ steps'[p].channel = steps[p].channel /\ steps'[p].touched = steps[p].touched \cup {id}
                /\ Ahead(steps'[p]) = Ahead(steps[p])
  <2>1. ASSUME NEW p \in Operators \ {o}, steps[p] # Rest
        PROVE  LET s == [steps[p] EXCEPT !.touched = @ \cup {id}]
               IN  /\ s \in Step /\ s.at = steps[p].at /\ s.op = steps[p].op /\ s.rule = steps[p].rule
                   /\ s.channel = steps[p].channel /\ s.touched = steps[p].touched \cup {id}
                   /\ Ahead(s) = Ahead(steps[p])
    <3>1. steps[p] \in Step
      BY <1>0
    <3> QED BY <3>1, <1>1 DEF Step, Ahead
  <2> QED BY <2>1, <1>2, <1>3, RestIs
<1>7. RulesTyped'
  <2>1. Find(next, id) \in Kept \cup {NoId}
    BY <1>1, InList, FindIs
  <2>2. answered' \in [RuleIds -> Kept \cup {NoId}]
    BY <2>1, <1>0, <1>1, <1>3
  <2>3. /\ rules' \in RuleList /\ Len(rules') <= MaxRules /\ Ids(rules') \subseteq named' /\ DOMAIN hits' \subseteq RuleIds
    BY <1>0, <1>1, <1>3, <1>5, InList
  <2> QED BY <2>2, <2>3, <1>0, <1>3, <1>6 DEF RulesInv, RulesTyped
<1>8. Positions'
  <2>1. \A p \in Operators \ {o} : steps[p].at # "saved"
    BY <1>1, AdaptersAssumption DEF RulesInv, Positions
  <2>2. ASSUME NEW p \in Operators
        PROVE  /\ steps'[p].at = "idle" <=> steps'[p] = Rest
               /\ steps'[p].at = "read" => steps'[p].channel # NoId
               /\ steps'[p].at \in {"waits", "saved"} =>
                    /\ steps'[p].op # "none"
                    /\ steps'[p].op # "delete" => steps'[p].rule \in Given /\ steps'[p].channel = NoId
               /\ mu' = p <=> steps'[p].at = "saved"
    <3>1. mu' # p
      BY <1>3, AdaptersAssumption
    <3>2. CASE p = o
      BY <3>1, <3>2, <1>2, <1>6
    <3>3. CASE p # o /\ steps[p] = Rest
      BY <3>1, <3>3, <1>6, RestIs
    <3>4. CASE p # o /\ steps[p] # Rest
      <4>1. steps'[p].at # "idle" /\ steps'[p] # Rest
        BY <3>4, <1>6, RestIs DEF RulesInv, Positions
      <4> QED BY <3>1, <3>4, <4>1, <2>1, <1>6 DEF RulesInv, Positions
    <3> QED BY <3>2, <3>3, <3>4
  <2> QED BY <2>2 DEF Positions
<1>9. OneChanges' /\ Pending' = {}
  BY <1>3 DEF OneChanges, Pending
<1>10. Answers'
  <2>1. \A i \in RuleIds : Find(next, i) = answered'[i]
    BY <1>0, <1>1, <1>3
  <2> QED BY <2>1, <1>1, <1>3, <1>5 DEF Answers
<1>11. Counts'
  <2>1. Seen \subseteq named /\ Seen' = named
    BY <1>3, <1>9 DEF Seen
  <2>2. {i \in Pending : Spare(steps[mu])}' = {}
    BY <1>9
  <2> QED BY <2>1, <2>2, <1>3 DEF RulesInv, Counts
<1>12. Deletions'
  <2>1. Left(step, next) = {}
    <3> SUFFICES ASSUME step.channel # NoId, Of(step.channel, step.left) = {}, NEW n \in Of(step.channel, next)
                 PROVE  next[n].id \in step.touched
      BY DEF Left
    <3>1. step.op = "delete" /\ rules = next /\ id \notin Ids(rules)
      BY <1>4, <1>5
    <3>2. next[n].id \in Ahead(step) \cup step.touched
      BY <3>1 DEF RulesInv, Deletions, step
    <3>3. Ahead(step) = {id}
      BY DEF Ahead, step, id
    <3>4. next[n].id # id
      BY <3>1 DEF Of, Ids
    <3> QED BY <3>2, <3>3, <3>4
  <2>2. wrong' = {}
    BY <2>1, <1>3 DEF RulesInv, Deletions
  <2>3. ASSUME NEW p \in Operators, steps'[p].at \in {"waits", "saved"}, steps'[p].channel # NoId,
               NEW n \in Of(steps'[p].channel, rules')
        PROVE  rules'[n].id \in Ahead(steps'[p]) \cup steps'[p].touched
    <3>0. n \in DOMAIN next /\ next[n].channel = steps'[p].channel
      BY <2>3, <1>5 DEF Of
    <3>1. CASE p = o
      <4>1. then.channel = step.channel /\ step.op = "delete" /\ then.touched = step.touched /\ step.channel # NoId
            /\ {step.left[k].id : k \in Of(step.channel, step.left)} \subseteq Ahead(then)
        BY <3>1, <2>3, <1>2, <1>4, <1>6
      <4>2. rules = next /\ id \notin Ids(rules) /\ n \in Of(step.channel, rules)
        BY <4>1, <3>0, <3>1, <1>5, <1>6 DEF Of
      <4>3. rules[n].id \in Ahead(step) \cup step.touched /\ rules[n].id # id
        BY <4>1, <4>2 DEF RulesInv, Deletions, Of, Ids, step
      <4>4. Ahead(step) \subseteq {id} \cup Ahead(then)
        BY <4>1 DEF Ahead, id, step
      <4> QED BY <4>1, <4>2, <4>3, <4>4, <3>1, <1>5, <1>6
    <3>2. CASE p # o
      <4>1. steps[p] # Rest
        BY <3>2, <2>3, <1>6, RestIs
      <4>2. /\ steps[p].at \in {"waits", "saved"} /\ steps[p].channel = steps'[p].channel
            /\ steps'[p].touched = steps[p].touched \cup {id} /\ Ahead(steps'[p]) = Ahead(steps[p])
        BY <4>1, <3>2, <2>3, <1>6
      <4>3. CASE next[n].id = id
        BY <4>2, <4>3, <1>5
      <4>4. CASE next[n].id # id
        <5>1. PICK m \in DOMAIN rules : rules[m] = next[n]
          BY <4>4, <3>0, <1>1
        <5>2. m \in Of(steps[p].channel, rules)
          BY <5>1, <4>2, <3>0 DEF Of
        <5>3. rules[m].id \in Ahead(steps[p]) \cup steps[p].touched
          BY <5>2, <4>2, <2>3 DEF RulesInv, Deletions
        <5> QED BY <5>1, <5>3, <4>2, <1>5
      <4> QED BY <4>3, <4>4
    <3> QED BY <3>1, <3>2
  <2> QED BY <2>2, <2>3 DEF Deletions
<1>13. Stopped'
  BY DEF Stopped
<1> QED BY <1>7, <1>8, <1>9, <1>10, <1>11, <1>12, <1>13 DEF RulesInv

\* The first of two changes to memory: the rules without the one deleted, or
\* the counter of one that is coming.
LEMMA FirstKeeps ==
  ASSUME RulesInv, up, up' = up, NEW o \in Operators, steps[o].at = "saved", NEW list,
         Goes(o, list), Len(steps[o].todo) = 2, book' = rules',
         \/ /\ steps[o].op = "delete" /\ steps[o].todo = <<"book", "hits">>
            /\ rules' = steps[o].next /\ hits' = hits
         \/ /\ steps[o].op = "create" /\ steps[o].todo = <<"hits", "book">>
            /\ rules' = rules
            /\ hits' = [id \in DOMAIN hits \cup {steps[o].id} |-> IF id = steps[o].id THEN 0 ELSE hits[id]]
  PROVE  RulesInv'
<1> DEFINE step == steps[o]
           next == steps[o].next
           id == steps[o].id
           new == [steps[o] EXCEPT !.todo = Tail(@)]
<1>0. /\ steps \in [Operators -> Step] /\ step \in Step /\ named \subseteq RuleIds /\ ruleFile \in RuleList
      /\ Len(ruleFile) <= MaxRules /\ Ids(ruleFile) \subseteq named /\ rules \in RuleList
      /\ hits \in [DOMAIN hits -> Nat] /\ DOMAIN hits \subseteq RuleIds
  BY DEF RulesInv, RulesTyped
<1>1. /\ mu = o /\ mu # NoId /\ Changing(step) /\ next \in RuleList /\ Pending = {id} /\ id \in RuleIds /\ next = ruleFile
      /\ id \in named
      /\ \A i \in RuleIds \ {id} : Find(next, i) = answered[i] /\ Find(next, i) = Find(rules, i)
      /\ \A n \in DOMAIN next : next[n].id # id => \E m \in DOMAIN rules : rules[m] = next[n]
  BY WrittenAlike, AdaptersAssumption DEF Changing
<1>2. /\ steps' = [steps EXCEPT ![o] = new]
      /\ UNCHANGED <<mu, unsure, answered, wrong, ruleFile, attempts, named, counted, ruleCalls, ruleAttempts>>
  BY DEF Goes
<1>3. /\ new \in Step /\ new.at = "saved" /\ new.op = step.op /\ new.rule = step.rule /\ new.id = id /\ new.next = next
      /\ new.todo = Tail(step.todo) /\ new.channel = step.channel /\ new.touched = step.touched /\ Ahead(new) = Ahead(step)
  <2>1. Tail(step.todo) \in {<<"hits">>, <<"book">>}
    BY Todos
  <2> HIDE DEF step
  <2>2. new = [step EXCEPT !.todo = Tail(@)]
    BY DEF step
  <2> QED BY <2>1, <2>2, <1>0 DEF Step, Ahead, id, next, step
<1>4. \/ /\ step.op = "delete" /\ step.todo = <<"book", "hits">> /\ new.todo = <<"hits">>
         /\ rules' = next /\ hits' = hits
         /\ id \in Ids(rules) /\ Ids(next) = Ids(rules) \ {id}
      \/ /\ step.op = "create" /\ step.todo = <<"hits", "book">> /\ new.todo = <<"book">>
         /\ rules' = rules /\ hits' = [i \in DOMAIN hits \cup {id} |-> IF i = id THEN 0 ELSE hits[i]]
         /\ id \notin Ids(rules) /\ Ids(next) = Ids(rules) \cup {id}
  BY <1>1, <1>3, Todos DEF Changing
<1> HIDE DEF new, id, next, step
<1>5. steps' \in [Operators -> Step] /\ steps'[o] = new /\ \A p \in Operators \ {o} : steps'[p] = steps[p]
  BY <1>0, <1>2, <1>3
<1>6. RulesTyped'
  <2>1. rules' \in RuleList /\ Len(rules') <= MaxRules /\ Ids(rules') \subseteq named
    BY <1>0, <1>1, <1>4 DEF RulesInv, RulesTyped
  <2>2. hits' \in [DOMAIN hits' -> Nat] /\ DOMAIN hits' \subseteq RuleIds
    BY <1>0, <1>1, <1>4
  <2> QED BY <2>1, <2>2, <1>2, <1>5 DEF RulesInv, RulesTyped
<1>7. Positions'
  <2>1. new # Rest /\ step.at = "saved"
    BY <1>3, RestIs DEF step
  <2> QED BY <2>1, <1>1, <1>2, <1>3, <1>5 DEF RulesInv, Positions, step
<1>8. OneChanges'
  <2>1. steps'[mu'] = new /\ new.next = ruleFile' /\ unsure' = {new.id} /\ new.id \in named'
    BY <1>1, <1>2, <1>3, <1>5 DEF Changing, step, id
  <2>2. CASE step.op = "delete"
    <3>1. new.op = "delete" /\ new.todo = <<"hits">> /\ new.next = rules' /\ new.id \notin Ids(rules')
      BY <2>2, <1>3, <1>4
    <3> QED BY <3>1, <2>1 DEF OneChanges, Changing
  <2>3. CASE step.op = "create"
    <3>1. /\ new.op = "create" /\ new.todo = <<"book">> /\ new.id \notin Ids(rules')
          /\ Ids(new.next) = Ids(rules') \cup {new.id}
      BY <2>3, <1>3, <1>4
    <3> QED BY <3>1, <2>1 DEF OneChanges, Changing
  <2> QED BY <2>2, <2>3, <1>4
<1>9. Pending' = {id}
  BY <1>1, <1>2, <1>3, <1>5 DEF Pending
<1>10. Answers'
  BY <1>1, <1>2, <1>4, <1>9 DEF RulesInv, Answers
<1>11. Counts'
  <2>1. ~Spare(step) /\ (Coming(step) <=> step.op = "create") /\ Spare(new) /\ ~Coming(new)
    BY <1>3, <1>4, Todos DEF Spare, Coming
  <2>2. Seen = (IF step.op = "create" THEN named \ {id} ELSE named) /\ Seen' = named
    <3>1. Seen = named \ {i \in {id} : Coming(step)}
      BY <1>1 DEF Seen, step
    <3>2. Seen' = named \ {i \in {id} : Coming(new)}
      BY <1>1, <1>2, <1>5, <1>9 DEF Seen
    <3> QED BY <3>1, <3>2, <2>1
  <2>3. {i \in Pending : Spare(steps[mu])} = {} /\ {i \in Pending : Spare(steps[mu])}' = {id}
    BY <2>1, <1>1, <1>2, <1>5, <1>9 DEF step
  <2>4. DOMAIN hits = Ids(rules) /\ (\A i \in DOMAIN hits : hits[i] = counted[i])
        /\ (\A t \in Attempts : attempts[t] \subseteq Seen) /\ \A i \in RuleIds \ Seen : counted[i] = 0
    BY <2>3 DEF RulesInv, Counts
  <2>5. DOMAIN hits' = Ids(rules') \cup {id}
    BY <2>4, <1>4
  <2>6. \A i \in DOMAIN hits' : hits'[i] = counted'[i]
    <3>1. CASE step.op = "delete"
      BY <3>1, <2>4, <1>2, <1>4
    <3>2. CASE step.op = "create"
      <4>1. counted[id] = 0
        BY <3>2, <2>2, <2>4, <1>1
      <4> QED BY <4>1, <3>2, <2>4, <1>2, <1>4
    <3> QED BY <3>1, <3>2, <1>4
  <2>7. (\A t \in Attempts : attempts'[t] \subseteq Seen') /\ \A i \in RuleIds \ Seen' : counted'[i] = 0
    BY <2>2, <2>4, <1>2
  <2> QED BY <2>3, <2>5, <2>6, <2>7 DEF Counts
<1>12. Deletions'
  <2>1. wrong' = {}
    BY <1>2 DEF RulesInv, Deletions
  <2>2. ASSUME NEW p \in Operators, steps'[p].at \in {"waits", "saved"}, steps'[p].channel # NoId,
               NEW n \in Of(steps'[p].channel, rules')
        PROVE  rules'[n].id \in Ahead(steps'[p]) \cup steps'[p].touched
    <3>1. /\ steps[p].at \in {"waits", "saved"} /\ steps[p].channel = steps'[p].channel
          /\ steps'[p].touched = steps[p].touched /\ Ahead(steps'[p]) = Ahead(steps[p])
      BY <2>2, <1>3, <1>5 DEF step
    <3>2. \E m \in DOMAIN rules : rules[m] = rules'[n]
      BY <2>2, <1>1, <1>4 DEF Of, Ids
    <3>3. PICK m \in DOMAIN rules : rules[m] = rules'[n]
      BY <3>2
    <3>4. m \in Of(steps[p].channel, rules)
      BY <3>1, <3>3, <2>2 DEF Of
    <3> QED BY <3>1, <3>3, <3>4, <2>2 DEF RulesInv, Deletions
  <2> QED BY <2>1, <2>2 DEF Deletions
<1>13. Stopped'
  BY DEF Stopped
<1> QED BY <1>6, <1>7, <1>8, <1>10, <1>11, <1>12, <1>13 DEF RulesInv

LEMMA MemoryKeeps ==
  ASSUME RulesInv, up, up' = up, NEW o \in Operators, Publishes(o) \/ Counter(o) PROVE RulesInv'
<1> DEFINE step == steps[o]
<1>1. step.at = "saved" /\ step \in Step /\ book = rules /\ hits \in [DOMAIN hits -> Nat]
  BY DEF Publishes, Counter, RulesInv, RulesTyped
<1>2. mu = o /\ Changing(step) /\ Pending = {step.id} /\ step.next \in RuleList
  BY <1>1, WrittenAlike
<1>3. DOMAIN hits = Ids(rules) \cup {id \in {step.id} : Spare(step)} /\ \A id \in DOMAIN hits : hits[id] = counted[id]
  BY <1>2 DEF RulesInv, Counts
<1>4. CASE step.op = "create" /\ step.todo = <<"hits", "book">>
  <2>1. Counter(o) /\ Goes(o, rules) /\ Len(step.todo) = 2 /\ rules' = rules /\ book' = book
        /\ hits' = [id \in DOMAIN hits \cup {steps[o].id} |-> IF id = steps[o].id THEN 0 ELSE hits[id]]
    BY <1>4, Todos DEF Publishes, Counter
  <2> QED BY <2>1, <1>1, <1>4, FirstKeeps
<1>5. CASE step.op = "create" /\ step.todo = <<"book">>
  <2>1. Goes(o, step.next) /\ Len(step.todo) = 1 /\ rules' = step.next /\ book' = rules' /\ hits' = hits
    BY <1>5, Todos DEF Publishes, Counter
  <2>2. DOMAIN hits = Ids(step.next)
    BY <1>2, <1>3, <1>5, Todos DEF Changing, Spare
  <2> QED BY <2>1, <2>2, <1>1, <1>3, <1>5, LastKeeps
<1>6. CASE step.op = "edit"
  <2>1. step.todo = <<"book">>
    BY <1>2, <1>6 DEF Changing
  <2>2. Goes(o, step.next) /\ Len(step.todo) = 1 /\ rules' = step.next /\ book' = rules' /\ hits' = hits
    BY <2>1, Todos DEF Publishes, Counter
  <2>3. DOMAIN hits = Ids(step.next)
    BY <1>2, <1>3, <1>6 DEF Changing, Spare
  <2> QED BY <2>2, <2>3, <1>1, <1>3, <1>6, LastKeeps
<1>7. CASE step.op = "delete" /\ step.todo = <<"book", "hits">>
  <2>1. Goes(o, step.next) /\ Len(step.todo) = 2 /\ rules' = step.next /\ book' = rules' /\ hits' = hits
    BY <1>7, Todos DEF Publishes, Counter
  <2> QED BY <2>1, <1>1, <1>7, FirstKeeps
<1>8. CASE step.op = "delete" /\ step.todo = <<"hits">>
  <2>1. Goes(o, rules) /\ Len(step.todo) = 1 /\ rules' = rules /\ book' = book
        /\ hits' = [id \in DOMAIN hits \ {step.id} |-> hits[id]]
    BY <1>8, Todos DEF Publishes, Counter
  <2>2. rules = step.next /\ step.id \notin Ids(rules)
    BY <1>2, <1>8, Todos DEF Changing
  <2>3. DOMAIN hits' = Ids(rules) /\ \A id \in DOMAIN hits' : hits'[id] = counted[id]
    BY <2>1, <2>2, <1>3, <1>8 DEF Spare
  <2>4. hits' \in [DOMAIN hits' -> Nat]
    BY <2>1, <1>1
  <2> QED BY <2>1, <2>2, <2>3, <2>4, <1>1, <1>8, LastKeeps
<1> QED BY <1>2, <1>4, <1>5, <1>6, <1>7, <1>8 DEF Changing

\* Of a book, only its rules are applied.
LEMMA AppliedIds == ASSUME NEW list, NEW c, NEW path, NEW body
                    PROVE  Rewritten(list, c, path, body).applied \subseteq Ids(list)
  BY DEF Rewritten, Ids

LEMMA AttemptKeeps ==
  ASSUME RulesInv, up, up' = up, NEW t \in Attempts, AttemptMatches(t) \/ AttemptCounts(t) PROVE RulesInv'
<1>1. /\ UNCHANGED <<rules, book, ruleFile, steps, mu, named, answered, unsure, wrong, ruleCalls>>
      /\ attempts \in [Attempts -> SUBSET RuleIds] /\ ruleAttempts \in Nat /\ counted \in [RuleIds -> Nat]
      /\ hits \in [DOMAIN hits -> Nat] /\ DOMAIN hits \subseteq RuleIds /\ named \subseteq RuleIds
  BY DEF AttemptMatches, AttemptCounts, ruleHistory, RulesInv, RulesTyped
<1>2. Seen' = Seen /\ Pending' = Pending /\ {id \in Pending : Spare(steps[mu])}' = {id \in Pending : Spare(steps[mu])}
  BY <1>1 DEF Seen, Pending
<1>3. /\ DOMAIN hits = Ids(rules) \cup {id \in Pending : Spare(steps[mu])}
      /\ \A id \in DOMAIN hits : hits[id] = counted[id]
      /\ \A u \in Attempts : attempts[u] \subseteq Seen
      /\ \A id \in RuleIds \ Seen : counted[id] = 0
  BY DEF RulesInv, Counts
<1>4. /\ attempts' \in [Attempts -> SUBSET RuleIds] /\ (\A u \in Attempts : attempts'[u] \subseteq Seen)
      /\ ruleAttempts' \in Nat /\ counted' \in [RuleIds -> Nat] /\ hits' \in [DOMAIN hits -> Nat] /\ DOMAIN hits' = DOMAIN hits
      /\ (\A id \in DOMAIN hits : hits'[id] = counted'[id])
      /\ \A id \in RuleIds \ Seen : counted'[id] = 0
  <2>1. CASE AttemptMatches(t)
    <3>1. PICK r \in Requests : attempts' = [attempts EXCEPT ![t] = Rewritten(book, r.channel, r.path, r.body).applied]
      BY <2>1 DEF AttemptMatches
    <3> DEFINE ids == Rewritten(book, r.channel, r.path, r.body).applied
    <3>2. ids \subseteq Ids(rules)
      BY AppliedIds DEF RulesInv, RulesTyped
    <3>3. Ids(rules) \subseteq Seen
      <4>1. Ids(rules) \subseteq named
        BY DEF RulesInv, RulesTyped
      <4>2. \A id \in Pending : Coming(steps[mu]) => id \notin Ids(rules)
        BY DEF RulesInv, OneChanges, Changing, Pending, Coming
      <4> QED BY <4>1, <4>2 DEF Seen
    <3>4. Seen \subseteq RuleIds
      BY <1>1 DEF Seen
    <3> HIDE DEF ids
    <3>5. attempts' = [attempts EXCEPT ![t] = ids]
      BY <3>1 DEF ids
    <3>6. UNCHANGED <<hits, counted>> /\ ruleAttempts' \in Nat
      BY <2>1, <1>1 DEF AttemptMatches, ruleHistory
    <3> QED BY <3>2, <3>3, <3>4, <3>5, <3>6, <1>1, <1>3
  <2>2. CASE AttemptCounts(t)
    <3>1. /\ hits' = [id \in DOMAIN hits |-> IF id \in attempts[t] THEN hits[id] + 1 ELSE hits[id]]
          /\ counted' = [id \in RuleIds |-> IF id \in attempts[t] THEN counted[id] + 1 ELSE counted[id]]
          /\ attempts' = [attempts EXCEPT ![t] = {}] /\ ruleAttempts' = ruleAttempts
      BY <2>2 DEF AttemptCounts, Recorded
    <3> QED BY <3>1, <1>1, <1>3
  <2> QED BY <2>1, <2>2
<1>5. RulesTyped'
  BY <1>1, <1>4 DEF RulesInv, RulesTyped
<1>6. Positions' /\ OneChanges' /\ Deletions'
  BY <1>1 DEF RulesInv, Positions, OneChanges, Changing, Deletions
<1>7. Answers'
  BY <1>1, <1>2 DEF RulesInv, Answers
<1>8. Counts'
  BY <1>1, <1>2, <1>3, <1>4 DEF Counts
<1>9. Stopped'
  BY DEF Stopped
<1> QED BY <1>5, <1>6, <1>7, <1>8, <1>9 DEF RulesInv

LEMMA StartStopKeeps ==
  ASSUME RulesInv, (Crash /\ AdaptersCrash) \/ (Restart /\ AdaptersRestart) PROVE RulesInv'
<1>1. CASE Crash /\ AdaptersCrash
  <2>0. up' = FALSE
    BY <1>1 DEF Crash
  <2>1. /\ rules' = <<>> /\ book' = <<>> /\ hits' = <<>> /\ mu' = NoId
        /\ steps' = [o \in Operators |-> Rest] /\ attempts' = [t \in Attempts |-> {}]
        /\ UNCHANGED <<ruleFile, named, counted, answered, unsure, wrong, ruleCalls, ruleAttempts>>
    BY <1>1 DEF AdaptersCrash, ruleHistory
  <2>2. RulesTyped'
    <3>1. Len(<<>>) <= MaxRules /\ <<>> \in RuleList /\ Ids(<<>>) = {} /\ <<>> \in [DOMAIN <<>> -> Nat] /\ DOMAIN <<>> = {}
      BY RewritesAssumption, NoRules
    <3> QED BY <3>1, <2>1, RestIs DEF RulesInv, RulesTyped
  <2>3. Positions'
    BY <2>1, RestIs, AdaptersAssumption DEF Positions
  <2>4. OneChanges'
    BY <2>1 DEF OneChanges
  <2>5. Answers'
    BY <2>0, <2>1 DEF RulesInv, Answers
  <2>6. Deletions'
    BY <2>1, RestIs DEF RulesInv, Deletions
  <2> QED BY <2>0, <2>1, <2>2, <2>3, <2>4, <2>5, <2>6 DEF RulesInv, Counts, Stopped
<1>2. CASE Restart /\ AdaptersRestart
  <2>0. up' = TRUE /\ ~up
    BY <1>2 DEF Restart
  <2>1. Loaded(ruleFile) = ruleFile
    <3>1. ruleFile \in RuleList /\ ruleFile \in Seq(Kept)
      BY DEF RulesInv, RulesTyped, RuleList
    <3>2. \A n \in DOMAIN ruleFile : Normalized(ruleFile[n]) = ruleFile[n]
      BY <3>1, InList, KeptFields
    <3>3. ruleFile = [n \in DOMAIN ruleFile |-> ruleFile[n]]
      BY <3>1
    <3>4. [n \in DOMAIN ruleFile |-> Normalized(ruleFile[n])] = [n \in DOMAIN ruleFile |-> ruleFile[n]]
      BY <3>2
    <3> QED BY <3>3, <3>4 DEF Loaded
  <2>2. /\ rules' = ruleFile /\ book' = ruleFile
        /\ hits' = [id \in Ids(ruleFile) |-> 0] /\ counted' = [id \in RuleIds |-> 0]
        /\ answered' = [id \in RuleIds |-> Find(ruleFile, id)] /\ unsure' = {}
        /\ UNCHANGED <<ruleFile, steps, mu, attempts, named, wrong, ruleCalls, ruleAttempts>>
    BY <1>2, <2>1 DEF AdaptersRestart
  <2>3. /\ mu = NoId /\ (\A o \in Operators : steps[o] = Rest) /\ \A t \in Attempts : attempts[t] = {}
    BY <2>0 DEF RulesInv, Stopped
  <2>4. RulesTyped'
    <3>1. ruleFile \in RuleList /\ Ids(ruleFile) \subseteq RuleIds
      BY InList DEF RulesInv, RulesTyped
    <3>2. \A id \in RuleIds : Find(ruleFile, id) \in Kept \cup {NoId}
      BY <3>1, InList, FindIs
    <3> QED BY <3>1, <3>2, <2>2 DEF RulesInv, RulesTyped
  <2>5. Positions'
    BY <2>2 DEF RulesInv, Positions
  <2>6. OneChanges' /\ Pending' = {}
    BY <2>2, <2>3 DEF OneChanges, Pending
  <2>7. Answers'
    BY <2>2, <2>6 DEF Answers
  <2>8. Counts'
    <3>1. Ids(ruleFile) \subseteq RuleIds
      BY InList DEF RulesInv, RulesTyped
    <3> QED BY <3>1, <2>2, <2>3, <2>6 DEF Counts
  <2>9. Deletions'
    BY <2>2, <2>3, RestIs DEF RulesInv, Deletions
  <2>10. Stopped'
    BY <2>0 DEF Stopped
  <2> QED BY <2>4, <2>5, <2>6, <2>7, <2>8, <2>9, <2>10 DEF RulesInv
<1> QED BY <1>1, <1>2

LEMMA IdleKeeps == ASSUME RulesInv, UNCHANGED <<up, adapterVars>> PROVE RulesInv'
<1> USE DEF adapterVars, ruleHistory
<1>1. Pending' = Pending /\ Seen' = Seen
  BY DEF Pending, Seen
<1>2. RulesTyped' /\ Positions' /\ OneChanges'
  BY DEF RulesInv, RulesTyped, Positions, OneChanges, Changing
<1>3. Answers' /\ Deletions' /\ Stopped'
  BY <1>1 DEF RulesInv, Answers, Deletions, Stopped
<1>4. Counts'
  BY <1>1 DEF RulesInv, Counts
<1> QED BY <1>2, <1>3, <1>4 DEF RulesInv

LEMMA NextRules == RulesInv /\ [ManagementNext]_AllVars => RulesInv'
<1> SUFFICES ASSUME RulesInv, [ManagementNext]_AllVars PROVE RulesInv'
  OBVIOUS
<1>1. CASE (\E a \in Admins : KeyCalls(a)) /\ UNCHANGED adapterVars
  <2>1. PICK a \in Admins : KeyCalls(a)
    BY <1>1
  <2>2. CASE BeginCreate(a) \/ BeginPatch(a) \/ BeginRotate(a) \/ BeginDelete(a) \/ BeginPrice(a)
    <3>1. PICK c : Begin(a, c)
      BY <2>2 DEF BeginCreate, BeginPatch, BeginRotate, BeginDelete, BeginPrice
    <3> QED BY <3>1, <1>1, IdleKeeps DEF Begin
  <2>3. CASE \/ Lock(a) \/ Save(a) \/ SaveFails(a) \/ OpenPeriods(a)
             \/ PublishKey(a) \/ PublishPrices(a) \/ Unpublish(a) \/ Forget(a)
    <3>1. up' = up
      BY <2>3 DEF Lock, Save, SaveFails, OpenPeriods, PublishKey, PublishPrices, Unpublish, Forget
    <3> QED BY <3>1, <1>1, IdleKeeps
  <2> QED BY <2>1, <2>2, <2>3 DEF KeyCalls
<1>2. CASE up /\ AdaptersNext /\ UNCHANGED vars
  <2>1. up' = up
    BY <1>2 DEF vars
  <2> QED BY <2>1, <1>2, ArrivalKeeps, SaveKeeps, FailKeeps, MemoryKeeps, AttemptKeeps DEF AdaptersNext
<1>3. CASE (Crash /\ AdaptersCrash) \/ (Restart /\ AdaptersRestart)
  BY <1>3, StartStopKeeps
<1>4. CASE (AtRest /\ Resting) \/ UNCHANGED AllVars
  <2>1. UNCHANGED <<up, adapterVars>>
    BY <1>4 DEF AtRest, Resting, AllVars, vars
  <2> QED BY <2>1, IdleKeeps
<1> QED BY <1>1, <1>2, <1>3, <1>4 DEF ManagementNext

(* Whatever operators and channel deletions do at once, through failed writes
   and crashes, the file holds what was answered of every rule no change is
   under way of, it passes the checks it is loaded with, and a deletion of a
   channel leaves none of its rules that no other call changed meanwhile. *)
THEOREM RulesKept == ManagementSpec => []RulesAreKept
<1>1. RulesInv => RulesAreKept
  <2> SUFFICES ASSUME RulesInv PROVE RulesAreKept
    OBVIOUS
  <2>1. ruleFile \in RuleList /\ Len(ruleFile) <= MaxRules
    BY DEF RulesInv, RulesTyped
  <2>2. \A n \in DOMAIN ruleFile : Accepted(ruleFile[n]) /\ ruleFile[n].id \in RuleIds
    BY <2>1, InList, KeptFields
  <2>3. Loads(ruleFile)
    BY <2>1, <2>2 DEF Loads, RuleList, Single
  <2> QED BY <2>3 DEF RulesInv, Answers, Deletions, RulesAreKept
<1> QED BY InitRules, NextRules, <1>1, PTL DEF ManagementSpec

(* Every rule attempts are rewritten by has a counter, which tells how many
   attempts the rule changed since the start; besides them only the rule that
   is being created or deleted has one. *)
THEOREM HitsCounted == ManagementSpec => []HitsAreCounted
<1>1. RulesInv => HitsAreCounted
  <2> SUFFICES ASSUME RulesInv PROVE HitsAreCounted
    OBVIOUS
  <2>1. CASE up
    <3>1. book = rules /\ DOMAIN hits = Ids(rules) \cup {id \in Pending : Spare(steps[mu])}
          /\ \A id \in DOMAIN hits : hits[id] = counted[id]
      BY <2>1 DEF RulesInv, RulesTyped, Counts
    <3> QED BY <3>1 DEF HitsAreCounted, Pending
  <2>2. CASE ~up
    BY <2>2, NoRules DEF RulesInv, RulesTyped, Stopped, HitsAreCounted
  <2> QED BY <2>1, <2>2
<1> QED BY InitRules, NextRules, <1>1, PTL DEF ManagementSpec
=============================================================================
