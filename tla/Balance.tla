------------------------------- MODULE Balance -------------------------------
(***************************************************************************)
(* The prepaid balance of one key (internal/policy/balance.go): an         *)
(* administrator's adjustment is written to the live file before it is     *)
(* answered, and a retry that carries its request id again is answered     *)
(* with the first result, across failed writes, flushes and crashes.       *)
(* Calls admits calls against the balance and deducts them.                *)
(*                                                                         *)
(* The rest of the ledger is left out: a balance and the file that holds   *)
(* it are its amount and the remembered requests.                          *)
(***************************************************************************)
EXTENDS Integers, Sequences, FiniteSets, SequencesExt

CONSTANTS
  Ids,             \* request ids
  NoId,            \* an adjustment without one
  Amounts,         \* what an adjustment adds; negative: it deducts
  Kept,            \* balanceRequestsKept
  Budgets,         \* bounds: how many of which events a run may see
  None

Events ==
  {"adjust",           \* adjustments attempted that are not duplicates
   "fails", "strays",  \* of which the write fails, before or after its rename
   "flush fails", "flush strays",
   "call", "generation", "again", "hand over", "tick", "reset", "crash",
   "price"}             \* a price row is written

ASSUME BalanceAssumption ==
  /\ NoId \notin Ids
  /\ Amounts \subseteq Int \ {0}
  /\ Kept \in Nat \ {0}
  /\ Budgets \subseteq [Events -> Nat]

VARIABLES
  up,        \* the process runs
  mem,       \* the balance in memory
  dirty,     \* it is not in the live file yet
  revised,   \* it changed since the flush under way was planned
  plan,      \* the balance that flush writes, None when none is under way
  disk,      \* the balance in the live file
  answers,   \* adjustments answered with a result
  left       \* how many of each event may still come

balanceVars == <<up, mem, dirty, revised, plan, disk, answers>>

Comes(event) == left[event] > 0 /\ left' = [left EXCEPT ![event] = @ - 1]

Adjustment == [id : Ids, amount : Amounts, result : Int]

(* A balance; order and debited are history variables: the request ids
   applied to it, and what adjustments took from it. *)
BalanceType == [nano : Int, requests : Seq(Adjustment), order : Seq(Ids), debited : Nat]
Empty == [nano |-> 0, requests |-> <<>>, order |-> <<>>, debited |-> 0]

BalanceTypeOK ==
  /\ up \in BOOLEAN /\ dirty \in BOOLEAN /\ revised \in BOOLEAN
  /\ mem \in BalanceType /\ disk \in BalanceType /\ plan \in BalanceType \cup {None}
  /\ Len(mem.requests) <= Kept
  /\ answers \subseteq [id : Ids, result : Int]
  /\ left \in [Events -> Nat]

----------------------------------------------------------------------------
\* One adjustment (adjustBalanceAndPersist)

\* Only the latest Kept requests are remembered.
Latest_All(s) == s
Latest_OneShort(s) == SubSeq(s, Len(s) - Kept + 2, Len(s))
Latest(s) == IF Len(s) > Kept THEN SubSeq(s, Len(s) - Kept + 1, Len(s)) ELSE s

Applied(b, id) == \E n \in DOMAIN b.requests : b.requests[n].id = id
Entry(b, id) == b.requests[CHOOSE n \in DOMAIN b.requests : b.requests[n].id = id]

Result_Before(b, amount) == b.nano
Result(b, amount) == b.nano + amount

Adjusted(b, id, amount) ==
  [nano |-> b.nano + amount,
   requests |-> IF id = NoId THEN b.requests
                ELSE Latest(Append(b.requests, [id |-> id, amount |-> amount, result |-> Result(b, amount)])),
   order |-> IF id = NoId THEN b.order ELSE Append(b.order, id),
   debited |-> IF amount < 0 THEN b.debited - amount ELSE b.debited]

\* AdjustBalance holds persistMu, so no flush is under way.
NoFlush == plan = None
MayAdjust(id) == up /\ NoFlush /\ (id # NoId => ~Applied(mem, id))

\* The live file is written under the ledger lock, and then it is answered.
Adjust(id, amount) ==
  /\ MayAdjust(id) /\ Comes("adjust")
  /\ mem' = Adjusted(mem, id, amount)
  /\ disk' = mem' /\ dirty' = FALSE /\ revised' = TRUE
  /\ answers' = IF id = NoId THEN answers ELSE answers \cup {[id |-> id, result |-> mem'.nano]}
  /\ UNCHANGED <<up, plan>>

\* The write fails: memory is restored, whatever became of the file.
AfterFailure(id, amount) == mem

AdjustFails(id, amount) ==
  /\ MayAdjust(id)
  /\ \/ Comes("fails") /\ disk' = disk
     \/ Comes("strays") /\ disk' = Adjusted(mem, id, amount)
  /\ mem' = AfterFailure(id, amount)
  /\ UNCHANGED <<up, dirty, revised, plan, answers>>

\* A remembered request id with its amount is answered with its first result,
\* with another amount it is refused.
Duplicate(id) ==
  /\ up /\ NoFlush /\ id # NoId /\ Applied(mem, id)
  /\ answers' = answers \cup {[id |-> id, result |-> Entry(mem, id).result]}
  /\ UNCHANGED <<up, mem, dirty, revised, plan, disk, left>>

----------------------------------------------------------------------------
\* Charges, flush, crash and restart

\* balanceDenial: the balance must be positive.
Positive_OrZero(nano) == nano >= 0
Positive(nano) == nano > 0

\* record: a call is deducted when its usage arrives.
Deduct(amount) ==
  /\ mem' = [mem EXCEPT !.nano = @ - amount]
  /\ dirty' = TRUE /\ revised' = TRUE
  /\ UNCHANGED <<up, plan, disk, answers>>

\* The flusher ticks; a clean ledger is not written.
PlanFlush ==
  /\ up /\ plan = None
  /\ IF dirty THEN plan' = mem /\ revised' = FALSE ELSE UNCHANGED <<plan, revised>>
  /\ UNCHANGED <<up, mem, dirty, disk, answers, left>>

\* The write and markFlushed: dirty stays when the balance changed meanwhile.
StillDirty == revised

FlushWrites ==
  /\ up /\ plan # None
  /\ disk' = plan /\ plan' = None
  /\ dirty' = StillDirty
  /\ UNCHANGED <<up, mem, revised, answers, left>>

FlushFails ==
  /\ up /\ plan # None
  /\ \/ Comes("flush fails") /\ disk' = disk
     \/ Comes("flush strays") /\ disk' = plan
  /\ plan' = None
  /\ UNCHANGED <<up, mem, dirty, revised, answers>>

\* Also between an adjustment's write and its answer.
Crash ==
  /\ up /\ Comes("crash")
  /\ \/ disk' = disk
     \/ \E id \in Ids \cup {NoId}, amount \in Amounts : left["adjust"] > 0 /\ MayAdjust(id) /\ disk' = Adjusted(mem, id, amount)
     \/ plan # None /\ disk' = plan
  /\ up' = FALSE /\ mem' = Empty /\ dirty' = FALSE /\ revised' = FALSE /\ plan' = None
  /\ UNCHANGED answers

Restart ==
  /\ ~up
  /\ up' = TRUE /\ mem' = disk
  /\ UNCHANGED <<dirty, revised, plan, disk, answers, left>>

BalanceInit(credit) ==
  /\ up = TRUE /\ mem = [Empty EXCEPT !.nano = credit] /\ disk = mem
  /\ dirty = FALSE /\ revised = FALSE /\ plan = None /\ answers = {}
  /\ left \in Budgets

----------------------------------------------------------------------------
\* Properties

(* A retried adjustment is not applied again while its request id is among
   the latest Kept (README.md:67), whatever failed, crashed or was flushed in
   between: two applications of one id are more than Kept apart. *)
AdjustedOnce ==
  \A b \in {mem, disk} : \A m, n \in DOMAIN b.order : m < n /\ b.order[m] = b.order[n] => n - m > Kept

(* A credit is answered only once it is on disk (balance.go:146) and no flush,
   failed write or crash takes it away again; every application of a request
   id has one result, whichever attempt, of whichever process, was answered. *)
OneResult ==
  \A id \in Ids : Cardinality({a \in answers : a.id = id}) <= Cardinality({n \in DOMAIN disk.order : disk.order[n] = id})
=============================================================================
