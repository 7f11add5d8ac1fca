------------------------------ MODULE BillOnce ------------------------------
(***************************************************************************)
(* What the plugin promises of billing as a whole, whichever instance does *)
(* it: a usage record CPA delivers is billed once, and from then on stays  *)
(* billed unless the process crashes or hands over to an instance that did *)
(* not receive it.                                                         *)
(***************************************************************************)
EXTENDS Naturals

CONSTANT Records

VARIABLES
  delivered,  \* records CPA has delivered
  losable,    \* records a crash or a missed line of the journal may lose
  billed      \* how often the ledger CPA would end up with bills each record

Init == delivered = {} /\ losable = {} /\ billed = [r \in Records |-> 0]

Deliver(r) ==
  /\ r \notin delivered
  /\ delivered' = delivered \cup {r}
  /\ losable' \in {losable, losable \cup {r}}
  /\ \/ billed' = [billed EXCEPT ![r] = 1]
     \/ r \in losable' /\ billed' = billed

(* What may be lost is settled by a crash or by switching instances; no other
   record is touched, and nothing is billed twice. *)
Settle ==
  /\ delivered' = delivered
  /\ losable \subseteq losable' /\ losable' \subseteq delivered
  /\ \E kept \in SUBSET losable' :
       billed' = [r \in Records |-> IF r \in kept THEN 1 ELSE IF r \in losable' THEN 0 ELSE billed[r]]

Next == Settle \/ \E r \in Records : Deliver(r)

Spec == Init /\ [][Next]_<<delivered, losable, billed>>
=============================================================================
