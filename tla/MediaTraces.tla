------------------------------ MODULE MediaTraces ------------------------------
(***************************************************************************)
(* The media generations that still await their usage record               *)
(* (mediaTraceSet in internal/policy/billing.go): an index from a trace id *)
(* to the time it was admitted, and the order they came in, which keeps    *)
(* ids already taken until it is trimmed.                                  *)
(***************************************************************************)
EXTENDS Naturals, Sequences, FiniteSets, Functions

CONSTANTS
  Generations, \* trace ids
  Capacity,    \* mediaTraceCapacity
  TTL          \* mediaTraceTTL

ASSUME TracesAssumption == Capacity \in Nat \ {0} /\ TTL \in Nat

Trace == [id : Generations, at : Nat]
IsTraces(m) ==
  /\ m = [order |-> m.order, index |-> m.index]
  /\ m.order \in Seq(Trace) /\ DOMAIN m.index \subseteq Generations /\ m.index \in [DOMAIN m.index -> Nat]
NoTraces == [order |-> <<>>, index |-> <<>>]

Known(m) == DOMAIN m.index
Awaited(m, trace) == trace.id \in Known(m) /\ m.index[trace.id] = trace.at

Without(index, ids) == [id \in DOMAIN index \ ids |-> index[id]]
With(index, id, at) == [i \in DOMAIN index \cup {id} |-> IF i = id THEN at ELSE index[i]]

\* The n oldest are forgotten, but not an id that was admitted anew.
Popped(m, n) ==
  [order |-> SubSeq(m.order, n + 1, Len(m.order)),
   index |-> Without(m.index, {m.order[k].id : k \in {j \in 1..n : Awaited(m, m.order[j])}})]

Expired(at, now) == at + TTL < now

\* trimLocked stops at the first that is fresh.
Trimmed(m, now) ==
  Popped(m, CHOOSE n \in 0..Len(m.order) :
              /\ \A k \in 1..n : Expired(m.order[k].at, now)
              /\ n < Len(m.order) => ~Expired(m.order[n + 1].at, now))

Full(m) == Cardinality(Known(m)) >= Capacity

\* Makes room for one more.
Room(m) ==
  Popped(m, CHOOSE n \in 0..Len(m.order) :
              /\ Full(Popped(m, n)) => n = Len(m.order)
              /\ \A k \in 0..(n - 1) : Full(Popped(m, k)))

Remembered(m, id, now) ==
  LET kept == Trimmed(m, now)
      room == Room(kept)
  IN  IF id \in Known(kept) THEN kept
      ELSE [order |-> Append(room.order, [id |-> id, at |-> now]), index |-> With(room.index, id, now)]

\* A stable sort by time of an order to which one trace was added.
Sorted_Appended(order, trace) == Append(order, trace)
Sorted(order, trace) ==
  LET before == Cardinality({k \in DOMAIN order : order[k].at <= trace.at})
  IN  SubSeq(order, 1, before) \o <<trace>> \o SubSeq(order, before + 1, Len(order))

\* A generation another instance admitted; the capacity is not enforced.
RememberedAt(m, id, at, now) ==
  LET kept == Trimmed(m, now)
  IN  IF id \in Known(kept) \/ Expired(at, now) THEN kept
      ELSE [order |-> Sorted(kept.order, [id |-> id, at |-> at]), index |-> With(kept.index, id, at)]

\* live: what a quiesce journals, where it is in the order.
Live(m, now) == LET kept == Trimmed(m, now) IN {n \in DOMAIN kept.order : Awaited(kept, kept.order[n])}

Contained(m, id, now) == id \in Known(Trimmed(m, now))

\* take: a stale entry stays in the order.
Taken(m, id, now) ==
  LET kept == Trimmed(m, now) IN [kept EXCEPT !.index = Without(kept.index, {id})]
===============================================================================
