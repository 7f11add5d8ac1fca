----------------------------- MODULE CallsProofs -----------------------------
(***************************************************************************)
(* Theorems about Calls and the Balance in it, for any ids, amounts,       *)
(* generations, limits and events.  Each rests on an inductive invariant:  *)
(*                                                                         *)
(*   AdjustmentsHold  what the live file, the flush under way and memory   *)
(*                    remember of the adjustments agrees, and every answer *)
(*                    is the first result of an application;               *)
(*   Instances        no window of an instance counts more than it may,    *)
(*                    and what passed before it lies a minute back;        *)
(*   BillsHold        a generation has a billing left for every instance   *)
(*                    that knows it and for the journal that brings it;    *)
(*   Remembers        the serving instance keeps the generations in the    *)
(*                    order they came, and knows every one that is fresh   *)
(*                    or follows the line that brings it;                  *)
(*   CreditHolds      what is left of the balance covers the calls under   *)
(*                    way and the records due, but for the slack.          *)
(***************************************************************************)
EXTENDS Calls, FiniteSetTheorems, SequenceTheorems, WellFoundedInduction, TLAPS

----------------------------------------------------------------------------
\* Induction over the natural numbers

LEMMA SetInduction ==
  ASSUME NEW S, 0 \in S, \A n \in Nat : n \in S => n + 1 \in S
  PROVE  Nat \subseteq S
<1> SUFFICES ASSUME Nat \ S # {} PROVE FALSE
  OBVIOUS
<1>1. PICK x \in Nat \ S : \A y \in Nat \ S : ~(<<y, x>> \in OpToRel(<, Nat))
  BY NatLessThanWellFounded, WFMin
<1>2. \A y \in Nat \ S : ~(y < x)
  BY <1>1 DEF OpToRel
<1>3. x # 0 /\ x - 1 \in Nat /\ x - 1 < x
  OBVIOUS
<1>4. x - 1 \in S /\ (x - 1) + 1 = x
  BY <1>2, <1>3
<1> QED BY <1>3, <1>4

LEMMA LeastNat ==
  ASSUME NEW S, S \subseteq Nat, S # {}
  PROVE  \E n \in S : \A m \in S : n <= m
<1>1. PICK n \in S : \A m \in S : ~(<<m, n>> \in OpToRel(<, Nat))
  BY NatLessThanWellFounded, WFMin
<1>2. \A m \in S : ~(m < n) /\ m \in Nat /\ n \in Nat
  BY <1>1 DEF OpToRel
<1> QED BY <1>2

----------------------------------------------------------------------------
\* What is known

LEMMA PoppedKnown == ASSUME NEW m, NEW n PROVE Known(Popped(m, n)) \subseteq Known(m)
BY DEF Known, Popped, Without

LEMMA TrimmedKnown == ASSUME NEW m, NEW now PROVE Known(Trimmed(m, now)) \subseteq Known(m)
BY PoppedKnown DEF Trimmed

LEMMA RememberedKnown ==
  ASSUME NEW m, NEW id, NEW at, NEW now
  PROVE  /\ Known(Remembered(m, id, now)) \subseteq Known(m) \cup {id}
         /\ Known(RememberedAt(m, id, at, now)) \subseteq Known(m) \cup {id}
<1> DEFINE kept == Trimmed(m, now)
<1>1. Known(kept) \subseteq Known(m)
  BY TrimmedKnown
<1> HIDE DEF kept
<1>2. Known(Room(kept)) \subseteq Known(kept)
  BY PoppedKnown DEF Room
<1>3. \A i, o : Known([order |-> o, index |-> With(i, id, now)]) = DOMAIN i \cup {id}
                /\ Known([order |-> o, index |-> With(i, id, at)]) = DOMAIN i \cup {id}
  BY DEF Known, With
<1>4. Known(Remembered(m, id, now)) \subseteq Known(kept) \cup {id}
  BY <1>2, <1>3 DEF Remembered, Known, kept
<1>5. Known(RememberedAt(m, id, at, now)) \subseteq Known(kept) \cup {id}
  BY <1>3 DEF RememberedAt, Known, kept
<1> QED BY <1>1, <1>4, <1>5

LEMMA TakenKnown == ASSUME NEW m, NEW id, NEW now PROVE Known(Taken(m, id, now)) \subseteq Known(m) \ {id}
<1> DEFINE kept == Trimmed(m, now)
<1>1. Known(kept) \subseteq Known(m)
  BY TrimmedKnown
<1> HIDE DEF kept
<1>2. Taken(m, id, now) = [kept EXCEPT !.index = Without(kept.index, {id})]
  BY DEF Taken, kept
<1>3. kept = [order |-> kept.order, index |-> kept.index]
  BY DEF kept, Trimmed, Popped
<1>4. Known(Taken(m, id, now)) = DOMAIN kept.index \ {id}
  <2>1. PICK o, i : kept = [order |-> o, index |-> i]
    BY <1>3
  <2> QED BY <1>2, <2>1 DEF Known, Without
<1> QED BY <1>1, <1>4 DEF Known

----------------------------------------------------------------------------
\* Types

LEMMA PoppedTyped ==
  ASSUME NEW m, IsTraces(m), NEW n \in 0..Len(m.order)
  PROVE  /\ IsTraces(Popped(m, n)) /\ Len(Popped(m, n).order) = Len(m.order) - n
         /\ \A k \in 1..Len(m.order) - n : Popped(m, n).order[k] = m.order[n + k]
<1> DEFINE ids == {m.order[k].id : k \in {j \in 1..n : Awaited(m, m.order[j])}}
           o == SubSeq(m.order, n + 1, Len(m.order))
           i == Without(m.index, ids)
<1>1. m.order \in Seq(Trace) /\ Len(m.order) \in Nat
  BY DEF IsTraces
<1>2. o \in Seq(Trace) /\ Len(o) = Len(m.order) - n /\ \A k \in 1..Len(m.order) - n : o[k] = m.order[n + k]
  BY <1>1
<1>3. i \in [DOMAIN i -> Nat] /\ DOMAIN i \subseteq Generations
  BY DEF IsTraces, Without
<1>4. Popped(m, n) = [order |-> o, index |-> i]
  BY DEF Popped
<1> HIDE DEF o, i
<1> QED BY <1>2, <1>3, <1>4 DEF IsTraces

\* The n that trimming and making room choose exist: the least will do.
TrimmedAt(m, now, n) ==
  /\ \A k \in 1..n : Expired(m.order[k].at, now)
  /\ n < Len(m.order) => ~Expired(m.order[n + 1].at, now)

LEMMA TrimmedPops ==
  ASSUME NEW m, IsTraces(m), NEW now \in Nat
  PROVE  \E n \in 0..Len(m.order) : TrimmedAt(m, now, n) /\ Trimmed(m, now) = Popped(m, n)
<1> DEFINE L == Len(m.order)
           S == {n \in 0..L : n < L => ~Expired(m.order[n + 1].at, now)}
           Stops(n) == /\ \A k \in 1..n : Expired(m.order[k].at, now)
                       /\ n < L => ~Expired(m.order[n + 1].at, now)
<1>1. L \in Nat
  BY DEF IsTraces
<1>2. PICK n \in S : \A k \in S : n <= k
  <2>1. L \in S /\ S \subseteq Nat
    BY <1>1
  <2> HIDE DEF S
  <2> QED BY <2>1, LeastNat
<1>3. Stops(n)
  <2> SUFFICES ASSUME NEW k \in 1..n PROVE Expired(m.order[k].at, now)
    BY <1>2
  <2>1. n \in 0..L /\ k - 1 \in 0..L /\ (k - 1) + 1 = k /\ ~(n <= k - 1)
    BY <1>1
  <2>2. k - 1 \notin S
    BY <1>2, <2>1
  <2> QED BY <2>1, <2>2
<1>4. n \in 0..L
  OBVIOUS
<1> DEFINE c == CHOOSE x \in 0..L : Stops(x)
<1>5. c \in 0..L /\ Stops(c)
  <2> HIDE DEF Stops
  <2> QED BY <1>3, <1>4
<1>6. Trimmed(m, now) = Popped(m, c)
  BY DEF Trimmed
<1> HIDE DEF c
<1> QED BY <1>5, <1>6 DEF TrimmedAt

LEMMA TrimmedTyped ==
  ASSUME NEW m, IsTraces(m), NEW now \in Nat
  PROVE  IsTraces(Trimmed(m, now))
BY TrimmedPops, PoppedTyped

LEMMA RoomPops ==
  ASSUME NEW m, IsTraces(m)
  PROVE  \E n \in 0..Len(m.order) :
           /\ Room(m) = Popped(m, n)
           /\ Full(Popped(m, n)) => n = Len(m.order)
           /\ \A k \in 0..(n - 1) : Full(Popped(m, k))
<1> DEFINE L == Len(m.order)
           S == {n \in 0..L : Full(Popped(m, n)) => n = L}
           Stops(n) == /\ Full(Popped(m, n)) => n = L
                       /\ \A k \in 0..(n - 1) : Full(Popped(m, k))
<1>1. L \in Nat
  BY DEF IsTraces
<1>2. PICK n \in S : \A k \in S : n <= k
  <2>1. L \in S /\ S \subseteq Nat
    BY <1>1
  <2> HIDE DEF S
  <2> QED BY <2>1, LeastNat
<1>3. Stops(n)
  <2> SUFFICES ASSUME NEW k \in 0..(n - 1) PROVE Full(Popped(m, k))
    BY <1>2
  <2>1. k \notin S /\ k \in 0..L
    BY <1>1, <1>2
  <2> QED BY <2>1
<1>4. n \in 0..L
  OBVIOUS
<1> DEFINE c == CHOOSE x \in 0..L : Stops(x)
<1>5. c \in 0..L /\ Stops(c)
  <2> HIDE DEF Stops
  <2> QED BY <1>3, <1>4
<1>6. Room(m) = Popped(m, c)
  BY DEF Room
<1> HIDE DEF c
<1> QED BY <1>5, <1>6

LEMMA WithTyped ==
  ASSUME NEW m, IsTraces(m), NEW id \in Generations, NEW at \in Nat, NEW o \in Seq(Trace)
  PROVE  IsTraces([order |-> o, index |-> With(m.index, id, at)])
<1> DEFINE i == With(m.index, id, at)
<1>1. i \in [DOMAIN i -> Nat] /\ DOMAIN i \subseteq Generations
  BY DEF IsTraces, With
<1> HIDE DEF i
<1> QED BY <1>1 DEF IsTraces, i

LEMMA RememberedTyped ==
  ASSUME NEW m, IsTraces(m), NEW id \in Generations, NEW now \in Nat
  PROVE  IsTraces(Remembered(m, id, now))
<1> DEFINE kept == Trimmed(m, now)
           room == Room(kept)
<1>1. IsTraces(kept)
  BY TrimmedTyped
<1> HIDE DEF kept
<1>2. IsTraces(room)
  BY <1>1, RoomPops, PoppedTyped
<1> HIDE DEF room
<1>3. [id |-> id, at |-> now] \in Trace /\ room.order \in Seq(Trace)
  BY <1>2 DEF IsTraces, Trace
<1>4. Append(room.order, [id |-> id, at |-> now]) \in Seq(Trace)
  BY <1>3
<1>5. IsTraces([order |-> Append(room.order, [id |-> id, at |-> now]), index |-> With(room.index, id, now)])
  BY <1>2, <1>4, WithTyped
<1> QED BY <1>1, <1>5 DEF Remembered, kept, room

\* How many stay before a trace that is sorted in.
Before(order, trace) == Cardinality({k \in DOMAIN order : order[k].at <= trace.at})

LEMMA SortedTyped ==
  ASSUME NEW order \in Seq(Trace), NEW trace \in Trace
  PROVE  /\ Sorted(order, trace) \in Seq(Trace)
         /\ Len(Sorted(order, trace)) = Len(order) + 1
         /\ Before(order, trace) \in 0..Len(order)
         /\ \A n \in 1..Len(order) + 1 :
              Sorted(order, trace)[n] = IF n <= Before(order, trace) THEN order[n]
                                        ELSE IF n = Before(order, trace) + 1 THEN trace ELSE order[n - 1]
<1> DEFINE S == {k \in DOMAIN order : order[k].at <= trace.at}
           before == Cardinality(S)
           L == Len(order)
           a == SubSeq(order, 1, before)
           b == SubSeq(order, before + 1, L)
<1>1. L \in Nat /\ DOMAIN order = 1..L
  OBVIOUS
<1>2. before \in 0..L
  <2>1. S \subseteq 1..L /\ IsFiniteSet(1..L) /\ Cardinality(1..L) = L
    BY <1>1, FS_Interval
  <2> HIDE DEF S
  <2>2. IsFiniteSet(S) /\ Cardinality(S) <= L /\ Cardinality(S) \in Nat
    BY <2>1, FS_Subset, FS_CardinalityType
  <2> QED BY <1>1, <2>2
<1>3. Sorted(order, trace) = a \o <<trace>> \o b /\ Before(order, trace) = before
  BY DEF Sorted, Before
<1> HIDE DEF before
<1>4. a \in Seq(Trace) /\ Len(a) = before /\ \A n \in 1..before : a[n] = order[n]
  <2>1. before <= L /\ before \in Nat /\ 1 \in 1..L + 1 /\ (IF 1 <= before THEN before - 1 + 1 ELSE 0) = before
    BY <1>1, <1>2
  <2>2. a \in Seq(Trace) /\ Len(a) = before
    BY <1>1, <2>1
  <2>3. \A n \in 1..before : a[n] = order[n]
    BY <1>1, <2>1
  <2> QED BY <2>2, <2>3
<1>5. b \in Seq(Trace) /\ Len(b) = L - before /\ \A n \in 1..L - before : b[n] = order[before + n]
  <2>1. before <= L /\ before \in Nat /\ L \in Nat /\ before + 1 \in 1..L + 1
    BY <1>1, <1>2
  <2>2. b \in Seq(Trace) /\ Len(b) = IF before + 1 <= L THEN L - (before + 1) + 1 ELSE 0
    BY <1>1, <2>1, SubSeqProperties
  <2>3. \A n \in 1..L - (before + 1) + 1 : b[n] = order[(before + 1) + n - 1]
    BY <1>1, <2>1, SubSeqProperties
  <2>4. L - (before + 1) + 1 = L - before /\ \A n \in 1..L - before : (before + 1) + n - 1 = before + n
    BY <2>1
  <2> HIDE DEF b
  <2>5. Len(b) = L - before
    BY <2>1, <2>2
  <2>6. \A n \in 1..L - before : b[n] = order[before + n]
    BY <2>3, <2>4
  <2> QED BY <2>2, <2>5, <2>6
<1> HIDE DEF a, b, L
<1>6. /\ a \o <<trace>> \in Seq(Trace) /\ Len(a \o <<trace>>) = before + 1
      /\ \A n \in 1..before + 1 : (a \o <<trace>>)[n] = IF n <= before THEN order[n] ELSE trace
  BY <1>2, <1>4
<1>7. /\ a \o <<trace>> \o b \in Seq(Trace) /\ Len(a \o <<trace>> \o b) = L + 1
      /\ \A n \in 1..L + 1 : (a \o <<trace>> \o b)[n] =
           IF n <= before THEN order[n] ELSE IF n = before + 1 THEN trace ELSE order[n - 1]
  <2> DEFINE c == a \o <<trace>>
  <2>1. c \in Seq(Trace) /\ Len(c) = before + 1 /\ before \in Nat /\ L \in Nat
    BY <1>1, <1>2, <1>6
  <2> HIDE DEF c
  <2>2. c \o b \in Seq(Trace) /\ Len(c \o b) = L + 1
    BY <1>5, <2>1
  <2>3. \A n \in 1..L + 1 : (c \o b)[n] = IF n <= before + 1 THEN c[n] ELSE b[n - (before + 1)]
    BY <1>5, <2>1
  <2>4. \A n \in 1..L + 1 : n > before + 1 => n - (before + 1) \in 1..L - before /\ before + (n - (before + 1)) = n - 1
    BY <1>2, <2>1
  <2>5. \A n \in 1..L + 1 : n > before + 1 => b[n - (before + 1)] = order[n - 1]
    BY <1>5, <2>4
  <2>6. \A n \in 1..before + 1 : c[n] = IF n <= before THEN order[n] ELSE trace
    BY <1>6 DEF c
  <2>7. ASSUME NEW n \in 1..L + 1
        PROVE  (c \o b)[n] = IF n <= before THEN order[n] ELSE IF n = before + 1 THEN trace ELSE order[n - 1]
    <3>1. CASE n <= before + 1
      <4>1. n \in 1..before + 1
        BY <1>2, <2>1, <3>1
      <4>2. (c \o b)[n] = c[n]
        BY <2>3, <3>1
      <4>3. n > before => n = before + 1
        BY <2>1, <3>1
      <4> QED BY <2>1, <2>6, <4>1, <4>2, <4>3
    <3>2. CASE ~(n <= before + 1)
      <4>0. (c \o b)[n] = b[n - (before + 1)]
        BY <2>3, <3>2
      <4>1. n > before + 1 /\ ~(n <= before) /\ n # before + 1
        BY <1>1, <1>2, <3>2
      <4> QED BY <2>5, <4>0, <4>1
    <3> QED BY <3>1, <3>2
  <2> QED BY <2>2, <2>7 DEF c
<1> DEFINE s == a \o <<trace>> \o b
<1>8. /\ s \in Seq(Trace) /\ Len(s) = Len(order) + 1 /\ Sorted(order, trace) = s
      /\ \A n \in 1..Len(order) + 1 :
           s[n] = IF n <= before THEN order[n] ELSE IF n = before + 1 THEN trace ELSE order[n - 1]
  BY <1>3, <1>7 DEF L
<1> HIDE DEF s
<1> QED BY <1>2, <1>3, <1>8 DEF L

LEMMA RememberedAtTyped ==
  ASSUME NEW m, IsTraces(m), NEW id \in Generations, NEW at \in Nat, NEW now \in Nat
  PROVE  IsTraces(RememberedAt(m, id, at, now))
<1> DEFINE kept == Trimmed(m, now)
<1>1. IsTraces(kept)
  BY TrimmedTyped
<1> HIDE DEF kept
<1>2. [id |-> id, at |-> at] \in Trace /\ kept.order \in Seq(Trace)
  BY <1>1 DEF IsTraces, Trace
<1>3. Sorted(kept.order, [id |-> id, at |-> at]) \in Seq(Trace)
  BY <1>2, SortedTyped
<1>4. IsTraces([order |-> Sorted(kept.order, [id |-> id, at |-> at]), index |-> With(kept.index, id, at)])
  BY <1>1, <1>3, WithTyped
<1> QED BY <1>1, <1>4 DEF RememberedAt, kept

LEMMA TakenTyped ==
  ASSUME NEW m, IsTraces(m), NEW id, NEW now \in Nat
  PROVE  IsTraces(Taken(m, id, now))
<1> DEFINE kept == Trimmed(m, now)
           i == Without(kept.index, {id})
<1>1. IsTraces(kept)
  BY TrimmedTyped
<1>2. Taken(m, id, now) = [kept EXCEPT !.index = i]
  BY DEF Taken
<1> HIDE DEF kept
<1>3. i \in [DOMAIN i -> Nat] /\ DOMAIN i \subseteq Generations
  BY <1>1 DEF IsTraces, Without
<1> HIDE DEF i
<1>4. PICK o, x : kept = [order |-> o, index |-> x]
  BY <1>1 DEF IsTraces
<1>5. Taken(m, id, now) = [order |-> kept.order, index |-> i]
  BY <1>2, <1>4
<1> QED BY <1>1, <1>3, <1>5 DEF IsTraces

LEMMA NoTracesTyped == IsTraces(NoTraces)
BY DEF IsTraces, NoTraces

----------------------------------------------------------------------------
\* The balance is well typed

LEMMA LatestElements ==
  ASSUME NEW T, NEW s \in Seq(T)
  PROVE  /\ Latest(s) \in Seq(T)
         /\ Len(Latest(s)) = IF Len(s) > Kept THEN Kept ELSE Len(s)
         /\ \A n \in 1..Len(Latest(s)) : Latest(s)[n] = s[Len(s) - Len(Latest(s)) + n]
<1>1. Kept \in Nat \ {0} /\ Len(s) \in Nat
  BY BalanceAssumption
<1>2. CASE Len(s) > Kept
  <2>1. Len(s) - Kept + 1 \in 1..Len(s) + 1
    BY <1>1, <1>2
  <2>2. SubSeq(s, Len(s) - Kept + 1, Len(s)) \in Seq(T) /\ Len(SubSeq(s, Len(s) - Kept + 1, Len(s))) = Kept
    BY <1>1, <1>2, <2>1
  <2>3. \A n \in 1..Kept : SubSeq(s, Len(s) - Kept + 1, Len(s))[n] = s[Len(s) - Kept + n]
    BY <1>1, <1>2, <2>1
  <2> QED BY <1>2, <2>2, <2>3 DEF Latest
<1>3. CASE ~(Len(s) > Kept)
  BY <1>1, <1>3 DEF Latest
<1> QED BY <1>2, <1>3

LEMMA AdjustedType ==
  ASSUME NEW b \in BalanceType, Len(b.requests) <= Kept, NEW id \in Ids \cup {NoId}, NEW amount \in Amounts
  PROVE  Adjusted(b, id, amount) \in BalanceType /\ Len(Adjusted(b, id, amount).requests) <= Kept
<1>1. amount \in Int /\ b.nano \in Int /\ b.debited \in Nat /\ b.requests \in Seq(Adjustment) /\ b.order \in Seq(Ids)
  BY BalanceAssumption DEF BalanceType
<1>2. CASE id = NoId
  BY <1>1, <1>2 DEF Adjusted, BalanceType
<1>3. CASE id # NoId
  <2> DEFINE e == [id |-> id, amount |-> amount, result |-> Result(b, amount)]
  <2>1. id \in Ids /\ e \in Adjustment
    BY <1>1, <1>3 DEF Adjustment, Result
  <2>2. Append(b.requests, e) \in Seq(Adjustment) /\ Append(b.order, id) \in Seq(Ids)
    BY <1>1, <2>1
  <2>3. Latest(Append(b.requests, e)) \in Seq(Adjustment) /\ Len(Latest(Append(b.requests, e))) <= Kept
    <3> HIDE DEF e
    <3>1. Kept \in Nat /\ Len(Append(b.requests, e)) \in Nat
      BY <2>2, BalanceAssumption
    <3>2. /\ Latest(Append(b.requests, e)) \in Seq(Adjustment)
          /\ Len(Latest(Append(b.requests, e))) =
               IF Len(Append(b.requests, e)) > Kept THEN Kept ELSE Len(Append(b.requests, e))
      BY <2>2, LatestElements
    <3> QED BY <3>1, <3>2
  <2> HIDE DEF e
  <2>4. Adjusted(b, id, amount) =
          [nano |-> b.nano + amount, requests |-> Latest(Append(b.requests, e)), order |-> Append(b.order, id),
           debited |-> IF amount < 0 THEN b.debited - amount ELSE b.debited]
    BY <1>3 DEF Adjusted, e
  <2> QED BY <1>1, <2>2, <2>3, <2>4 DEF BalanceType
<1> QED BY <1>2, <1>3

LEMMA EmptyType == Empty \in BalanceType /\ Len(Empty.requests) <= Kept
  BY BalanceAssumption DEF Empty, BalanceType

\* What a step does to the balance of one key, beyond adjustments, a crash and a start.
Carries ==
  /\ UNCHANGED <<up, answers>>
  /\ mem' = mem \/ (up /\ \E amount \in Int : mem' = [mem EXCEPT !.nano = @ - amount])
  /\ disk' \in {disk, mem} \/ (plan # None /\ disk' = plan)
  /\ plan' \in {plan, None} \/ (up /\ plan' = mem)
  /\ up \/ UNCHANGED <<mem, disk, plan>>

\* The generations CPA has started, of which there are finitely many.
Begun == {g \in Generations : generations[g].at # None}

\* The types, but for the instances.
CallTypes ==
  /\ clock \in Nat /\ behind \in Int /\ journal \in Seq(Line) /\ calls \in Nat /\ astray \in Nat
  /\ generations \in [Generations -> Generation] /\ IsFiniteSet(Begun)

BalanceTyped == BalanceTypeOK /\ (plan # None => Len(plan.requests) <= Kept) /\ Len(disk.requests) <= Kept

LEMMA BilledLines == ASSUME CallTypes PROVE Cardinality({n \in DOMAIN journal : journal[n].trace = None}) \in Nat
<1>1. IsFiniteSet(1..Len(journal))
  BY FS_Interval DEF CallTypes
<1>2. {n \in DOMAIN journal : journal[n].trace = None} \subseteq 1..Len(journal)
  BY DEF CallTypes
<1> QED BY <1>1, <1>2, FS_Subset, FS_CardinalityType

LEMMA BalanceKinds ==
  ASSUME CallTypes, [Next]_vars
  PROVE  \/ \E id \in Ids \cup {NoId}, amount \in Amounts : Adjust(id, amount) \/ AdjustFails(id, amount)
         \/ \E id \in Ids \cup {NoId} : Duplicate(id)
         \/ Crash \/ Restart \/ Carries
<1> USE DEF Carries
<1>0. Cost \in Int /\ Cost * Cardinality({n \in DOMAIN journal : journal[n].trace = None}) \in Int
  BY BilledLines, CallsAssumption
<1>1. ASSUME Balances
      PROVE  \/ \E id \in Ids \cup {NoId}, amount \in Amounts : Adjust(id, amount) \/ AdjustFails(id, amount)
             \/ \E id \in Ids \cup {NoId} : Duplicate(id)
             \/ Restart \/ Carries
  BY <1>1 DEF Balances, PlanFlush, FlushWrites, FlushFails
<1>2. UNCHANGED balanceVars => Carries
  BY DEF balanceVars
<1>3. ASSUME NEW n \in Int, Deduct(n), up PROVE Carries
  BY <1>3 DEF Deduct
<1>4. ASSUME NEW where \in Places, NEW request \in AllRequests, Requests(where, request) PROVE Carries
  BY <1>2, <1>4 DEF Requests
<1>5. ASSUME NEW where \in Places, NEW g \in Generations, GenerationStarts(where, g) PROVE Carries
  BY <1>2, <1>5 DEF GenerationStarts
<1>6. ASSUME NEW where \in Places, Called(where), Charge(where) \/ NoCharge PROVE Carries
  <2>1. where = "late" \/ up
    BY <1>6 DEF Called
  <2> QED BY <1>0, <1>2, <1>3, <1>6, <2>1 DEF Charge, NoCharge
<1>7. ASSUME NEW where \in Places, NEW g \in Generations, NEW failed \in BOOLEAN, GenerationRecord(where, g, failed)
      PROVE  Carries
  BY <1>6, <1>7 DEF GenerationRecord
<1>8. ASSUME NEW where \in Places, CallEnds(where) PROVE Carries
  BY <1>6, <1>8 DEF CallEnds
<1>9. CASE ResetRPM \/ FollowEnds \/ Tick
  BY <1>2, <1>9 DEF ResetRPM, FollowEnds, Tick
<1>10. CASE HandOver
  BY <1>10 DEF HandOver
<1>11. CASE Follow
  BY <1>0, <1>2, <1>3, <1>11 DEF Follow
<1>12. CASE Dies
  BY <1>12 DEF Dies
<1>13. CASE UNCHANGED vars
  BY <1>2, <1>13 DEF vars
<1> QED BY <1>1, <1>4, <1>5, <1>7, <1>8, <1>9, <1>10, <1>11, <1>12, <1>13 DEF Next

LEMMA LeftType == ASSUME NEW event \in Events, left \in [Events -> Nat], Comes(event) PROVE left' \in [Events -> Nat]
<1>1. left[event] \in Nat /\ left[event] > 0
  BY DEF Comes
<1> QED BY <1>1 DEF Comes

LEMMA LeftStep == ASSUME left \in [Events -> Nat], [Next]_vars PROVE left' \in [Events -> Nat]
<1>1. CASE Balances
  <2>1. ASSUME NEW id \in Ids \cup {NoId}, NEW amount \in Amounts, Adjust(id, amount) \/ AdjustFails(id, amount)
        PROVE  left' \in [Events -> Nat]
    <3>1. Comes("adjust") \/ Comes("fails") \/ Comes("strays")
      BY <2>1 DEF Adjust, AdjustFails
    <3> QED BY <3>1, LeftType DEF Events
  <2>2. FlushFails => Comes("flush fails") \/ Comes("flush strays")
    BY DEF FlushFails
  <2>3. FlushFails => left' \in [Events -> Nat]
    BY <2>2, LeftType DEF Events
  <2> QED BY <1>1, <2>1, <2>3 DEF Balances, Duplicate, PlanFlush, FlushWrites, Restart
<1>2. ASSUME NEW where \in Places, NEW request \in AllRequests, Requests(where, request) PROVE left' \in [Events -> Nat]
  BY <1>2, LeftType DEF Requests, Events
<1>3. ASSUME NEW where \in Places, NEW g \in Generations, GenerationStarts(where, g) PROVE left' \in [Events -> Nat]
  BY <1>3, LeftType DEF GenerationStarts, Events
<1>4. ASSUME NEW where \in Places, NEW g \in Generations, NEW failed \in BOOLEAN, GenerationRecord(where, g, failed)
      PROVE  left' \in [Events -> Nat]
  BY <1>4, LeftType DEF GenerationRecord, Events
<1>5. ASSUME NEW where \in Places, CallEnds(where) PROVE left' \in [Events -> Nat]
  BY <1>5 DEF CallEnds
<1>6. CASE ResetRPM \/ FollowEnds \/ Tick \/ HandOver \/ Follow \/ Dies
  BY <1>6, LeftType DEF ResetRPM, FollowEnds, Tick, HandOver, Follow, Dies, Crash, Events
<1>7. CASE UNCHANGED vars
  BY <1>7 DEF vars
<1> QED BY <1>1, <1>2, <1>3, <1>4, <1>5, <1>6, <1>7 DEF Next

\* A step that keeps dirty and revised, or sets them.
LEMMA MarksStep ==
  ASSUME dirty \in BOOLEAN, revised \in BOOLEAN, up \in BOOLEAN, [Next]_vars
  PROVE  dirty' \in BOOLEAN /\ revised' \in BOOLEAN /\ up' \in BOOLEAN
<1>1. CASE Balances
  BY <1>1 DEF Balances, Adjust, AdjustFails, Duplicate, PlanFlush, FlushWrites, FlushFails, StillDirty, Restart
<1>2. ASSUME NEW where \in Places, NEW request \in AllRequests, Requests(where, request)
      PROVE  UNCHANGED <<dirty, revised, up>>
  BY <1>2 DEF Requests, balanceVars
<1>3. ASSUME NEW where \in Places, NEW g \in Generations, GenerationStarts(where, g) PROVE UNCHANGED <<dirty, revised, up>>
  BY <1>3 DEF GenerationStarts, balanceVars
<1>4. ASSUME NEW where \in Places, Charge(where) \/ NoCharge PROVE dirty' \in BOOLEAN /\ revised' \in BOOLEAN /\ up' \in BOOLEAN
  BY <1>4 DEF Charge, NoCharge, Deduct, balanceVars
<1>5. CASE ResetRPM \/ FollowEnds \/ Tick \/ UNCHANGED vars
  BY <1>5 DEF ResetRPM, FollowEnds, Tick, vars, balanceVars
<1>6. CASE HandOver \/ Follow \/ Dies
  BY <1>6 DEF HandOver, Follow, Deduct, balanceVars, Dies, Crash
<1> QED BY <1>1, <1>2, <1>3, <1>4, <1>5, <1>6 DEF Next, GenerationRecord, CallEnds

\* The remembered adjustment of a request id.
LEMMA EntryOf ==
  ASSUME NEW b, b.requests \in Seq(Adjustment), NEW id, Applied(b, id)
  PROVE  /\ \E n \in DOMAIN b.requests : b.requests[n].id = id /\ Entry(b, id) = b.requests[n]
         /\ Entry(b, id).id = id /\ Entry(b, id).result \in Int
<1> DEFINE n == CHOOSE m \in DOMAIN b.requests : b.requests[m].id = id
<1>1. n \in DOMAIN b.requests /\ b.requests[n].id = id
  BY DEF Applied
<1>2. Entry(b, id) = b.requests[n]
  BY DEF Entry
<1>3. b.requests[n] \in Adjustment
  <2> HIDE DEF n
  <2> QED BY <1>1, ElementOfSeq
<1> HIDE DEF n
<1> QED BY <1>1, <1>2, <1>3 DEF Adjustment

LEMMA BalanceTypedStep == ASSUME BalanceTyped, CallTypes, [Next]_vars PROVE BalanceTyped'
<1> DEFINE B == {b \in BalanceType : Len(b.requests) <= Kept}
<1>1. mem \in B /\ disk \in B /\ (plan # None => plan \in B) /\ answers \subseteq [id : Ids, result : Int] /\ Empty \in B
  BY EmptyType DEF BalanceTyped, BalanceTypeOK
<1>2. left' \in [Events -> Nat] /\ dirty' \in BOOLEAN /\ revised' \in BOOLEAN /\ up' \in BOOLEAN
  BY LeftStep, MarksStep DEF BalanceTyped, BalanceTypeOK
<1>3. SUFFICES /\ mem' \in B /\ disk' \in B /\ (plan' # None => plan' \in B)
               /\ answers' \subseteq [id : Ids, result : Int]
  BY <1>2 DEF BalanceTyped, BalanceTypeOK
<1>4. \A id \in Ids \cup {NoId}, amount \in Amounts : Adjusted(mem, id, amount) \in B
  BY <1>1, AdjustedType
<1>5. \A amount \in Int : [mem EXCEPT !.nano = @ - amount] \in B
  <2> TAKE amount \in Int
  <2> DEFINE c == [mem EXCEPT !.nano = @ - amount]
  <2>1. mem \in BalanceType /\ mem.nano - amount \in Int
    BY <1>1 DEF BalanceType
  <2>2. c = [nano |-> mem.nano - amount, requests |-> mem.requests, order |-> mem.order, debited |-> mem.debited]
    BY <2>1 DEF BalanceType
  <2>3. c \in BalanceType /\ c.requests = mem.requests
    BY <2>1, <2>2 DEF BalanceType
  <2> QED BY <1>1, <2>3
<1> HIDE DEF B
<1>6. ASSUME NEW id \in Ids \cup {NoId}, NEW amount \in Amounts, Adjust(id, amount)
      PROVE  /\ mem' \in B /\ disk' \in B /\ plan' = plan
             /\ answers' \subseteq [id : Ids, result : Int]
  <2>1. mem' \in B /\ disk' = mem' /\ plan' = plan
    BY <1>4, <1>6 DEF Adjust
  <2>2. mem'.nano \in Int
    BY <2>1 DEF B, BalanceType
  <2> QED BY <1>1, <1>6, <2>1, <2>2 DEF Adjust
<1>7. ASSUME NEW id \in Ids \cup {NoId}, NEW amount \in Amounts, AdjustFails(id, amount)
      PROVE  /\ mem' \in B /\ disk' \in B /\ plan' = plan /\ answers' = answers
  BY <1>1, <1>4, <1>7 DEF AdjustFails, AfterFailure
<1>8. ASSUME NEW id \in Ids \cup {NoId}, Duplicate(id)
      PROVE  /\ UNCHANGED <<mem, disk, plan>>
             /\ answers' \subseteq [id : Ids, result : Int]
  <2>1. Entry(mem, id).result \in Int
    <3>1. mem.requests \in Seq(Adjustment) /\ Applied(mem, id)
      BY <1>1, <1>8 DEF Duplicate, B, BalanceType
    <3> QED BY <3>1, EntryOf
  <2> QED BY <1>1, <1>8, <2>1 DEF Duplicate
<1>9. CASE Crash
  BY <1>1, <1>4, <1>9 DEF Crash
<1>10. CASE Restart
  BY <1>1, <1>10 DEF Restart
<1>11. CASE Carries
  BY <1>1, <1>5, <1>11 DEF Carries
<1> QED BY <1>1, <1>6, <1>7, <1>8, <1>9, <1>10, <1>11, BalanceKinds

LEMMA BalanceTypedInit == ASSUME Init PROVE BalanceTyped
<1>1. [Empty EXCEPT !.nano = Credit] \in BalanceType /\ Len([Empty EXCEPT !.nano = Credit].requests) <= Kept
  <2> DEFINE c == [Empty EXCEPT !.nano = Credit]
  <2>1. c.requests = Empty.requests /\ c \in BalanceType
    BY EmptyType, CallsAssumption DEF BalanceType
  <2> QED BY <2>1, EmptyType
<1>2. left \in [Events -> Nat]
  BY BalanceAssumption DEF Init, BalanceInit
<1> QED BY <1>1, <1>2 DEF Init, BalanceInit, BalanceTyped, BalanceTypeOK

\* A generation that was begun stays begun, and at most one more begins.
LEMMA CallTypesStep ==
  ASSUME CallTypes, UNCHANGED <<clock, generations>> \/ (clock' = clock + 1 /\ UNCHANGED generations),
         behind' \in Int, journal' \in Seq(Line), calls' \in Nat, astray' \in Nat
  PROVE  CallTypes'
<1>1. Begun' = Begun
  BY DEF Begun
<1> QED BY <1>1 DEF CallTypes

LEMMA ChargeTypes ==
  ASSUME CallTypes, NEW where \in Places, Charge(where) \/ NoCharge
  PROVE  behind' \in Int /\ journal' \in Seq(Line) /\ astray' \in Nat
<1>1. [at |-> clock, trace |-> None] \in Line
  BY DEF CallTypes, Line
<1>2. Append(journal, [at |-> clock, trace |-> None]) \in Seq(Line)
  BY <1>1 DEF CallTypes
<1>3. Cost \in Nat
  BY CallsAssumption
<1>4. behind \in Int /\ astray \in Nat /\ journal \in Seq(Line)
  BY DEF CallTypes
<1>5. UNCHANGED <<behind, astray, journal>>
      \/ (behind' = behind - Cost /\ astray' = astray + 1 /\ journal' = Append(journal, [at |-> clock, trace |-> None]))
  BY DEF Charge, NoCharge
<1> QED BY <1>2, <1>3, <1>4, <1>5

\* What becomes of the generations when one starts,
LEMMA GenerationStarted ==
  ASSUME CallTypes, NEW where \in Places, NEW g \in Generations, GenerationStarts(where, g)
  PROVE  /\ generations' \in [Generations -> Generation]
         /\ \A h \in Generations \ {g} : generations'[h] = generations[h]
         /\ \/ generations' = generations
            \/ /\ generations'[g].at = clock /\ generations'[g].billed = generations[g].billed
               /\ generations'[g].shared = IF where = "late" THEN 1 ELSE 0
<1> DEFINE n == IF where = "late" THEN 1 ELSE 0
<1>1. generations \in [Generations -> Generation] /\ generations[g] \in Generation /\ n \in Nat /\ clock \in Nat
  BY DEF CallTypes
<1>2. \/ generations' = generations
      \/ generations' = [generations EXCEPT ![g] = [[generations[g] EXCEPT !.at = clock] EXCEPT !.shared = n]]
  BY <1>1 DEF GenerationStarts
<1> HIDE DEF n
<1>3. CASE generations' = [generations EXCEPT ![g] = [[generations[g] EXCEPT !.at = clock] EXCEPT !.shared = n]]
  <2>1. generations'[g] = [[generations[g] EXCEPT !.at = clock] EXCEPT !.shared = n]
        /\ \A h \in Generations \ {g} : generations'[h] = generations[h]
    BY <1>1, <1>3
  <2>2. generations'[g] \in Generation /\ generations'[g].at = clock /\ generations'[g].shared = n
        /\ generations'[g].billed = generations[g].billed
    BY <1>1, <2>1 DEF Generation
  <2>3. generations' \in [Generations -> Generation]
    BY <1>1, <1>3, <2>1, <2>2
  <2> QED BY <2>1, <2>2, <2>3 DEF n
<1> QED BY <1>1, <1>2, <1>3

\* when a record comes,
LEMMA GenerationRecorded ==
  ASSUME CallTypes, NEW where \in Places, NEW g \in Generations, NEW failed \in BOOLEAN, GenerationRecord(where, g, failed)
  PROVE  /\ generations' \in [Generations -> Generation]
         /\ \A h \in Generations \ {g} : generations'[h] = generations[h]
         /\ generations'[g].at = generations[g].at /\ generations'[g].shared = generations[g].shared
         /\ generations'[g].lost = generations[g].lost /\ generations'[g].records = generations[g].records + 1
         /\ generations'[g].billed = IF ~failed /\ Contained(running[where].traces, g, clock)
                                     THEN generations[g].billed + 1 ELSE generations[g].billed
<1> DEFINE r == generations[g]
           billed == ~failed /\ Contained(running[where].traces, g, clock)
           n == IF billed THEN r.billed + 1 ELSE r.billed
<1>1. generations \in [Generations -> Generation] /\ r \in Generation
  BY DEF CallTypes
<1>2. r = [at |-> r.at, billed |-> r.billed, records |-> r.records, shared |-> r.shared, lost |-> r.lost]
      /\ r.at \in Nat \cup {None} /\ r.shared \in Nat /\ r.lost \in BOOLEAN /\ r.billed \in Nat /\ r.records \in Nat
  BY <1>1 DEF Generation
<1>3. n \in Nat
  BY <1>2
<1>4. generations' = [generations EXCEPT ![g].records = r.records + 1, ![g].billed = n]
  BY DEF GenerationRecord
<1> HIDE DEF n
<1>5. generations'[g] = [r EXCEPT !.records = r.records + 1, !.billed = n]
      /\ \A h \in Generations \ {g} : generations'[h] = generations[h]
  BY <1>1, <1>4
<1>6. generations'[g] = [at |-> r.at, billed |-> n, records |-> r.records + 1, shared |-> r.shared, lost |-> r.lost]
  <2> HIDE DEF r
  <2> QED BY <1>2, <1>5
<1>7. generations'[g] \in Generation
  <2> HIDE DEF r
  <2> QED BY <1>2, <1>3, <1>6 DEF Generation
<1>8. generations' = [h \in Generations |-> generations'[h]]
  BY <1>1, <1>4
<1>9. generations' \in [Generations -> Generation]
  BY <1>1, <1>5, <1>7, <1>8
<1> QED BY <1>5, <1>6, <1>9 DEF n

\* and when a newer instance takes over.
LEMMA GenerationsShared ==
  ASSUME CallTypes, HandOver
  PROVE  /\ generations' \in [Generations -> Generation]
         /\ \A g \in Generations :
              /\ generations'[g].at = generations[g].at /\ generations'[g].billed = generations[g].billed
              /\ generations'[g].lost = generations[g].lost /\ generations'[g].records = generations[g].records
              /\ generations'[g].shared = IF Contained(running["serving"].traces, g, clock)
                                          THEN generations[g].shared + 1 ELSE generations[g].shared
<1>1. generations' = [g \in Generations |-> [generations[g] EXCEPT !.shared =
                        IF Contained(running["serving"].traces, g, clock) THEN @ + 1 ELSE @]]
  BY DEF HandOver
<1>2. ASSUME NEW g \in Generations
      PROVE  /\ generations'[g] \in Generation
             /\ generations'[g].at = generations[g].at /\ generations'[g].billed = generations[g].billed
             /\ generations'[g].lost = generations[g].lost /\ generations'[g].records = generations[g].records
             /\ generations'[g].shared = IF Contained(running["serving"].traces, g, clock)
                                          THEN generations[g].shared + 1 ELSE generations[g].shared
  <2> DEFINE n == IF Contained(running["serving"].traces, g, clock) THEN generations[g].shared + 1 ELSE generations[g].shared
  <2>1. generations[g] \in Generation
    BY DEF CallTypes
  <2>2. n \in Nat
    BY <2>1 DEF Generation
  <2>3. generations'[g] = [generations[g] EXCEPT !.shared = n]
    BY <1>1
  <2> HIDE DEF n
  <2>4. generations'[g] \in Generation /\ generations'[g].shared = n
        /\ generations'[g].at = generations[g].at /\ generations'[g].billed = generations[g].billed
        /\ generations'[g].lost = generations[g].lost /\ generations'[g].records = generations[g].records
    BY <2>1, <2>2, <2>3 DEF Generation
  <2> QED BY <2>4 DEF n
<1>3. generations' \in [Generations -> Generation]
  BY <1>1, <1>2
<1> QED BY <1>2, <1>3

LEMMA CallTypesHold == ASSUME BalanceTyped, CallTypes, [Next]_vars PROVE CallTypes'
<1>0. behind \in Int /\ journal \in Seq(Line) /\ calls \in Nat /\ astray \in Nat /\ clock \in Nat
      /\ generations \in [Generations -> Generation] /\ IsFiniteSet(Begun)
  BY DEF CallTypes
<1>1. CASE Balances \/ ResetRPM \/ Tick \/ UNCHANGED vars
  BY <1>0, <1>1, CallTypesStep DEF Balances, ResetRPM, Tick, vars, callVars
<1>2. ASSUME NEW where \in Places, NEW request \in AllRequests, Requests(where, request) PROVE CallTypes'
  <2>1. UNCHANGED <<clock, generations, behind, journal>> /\ calls' \in Nat /\ astray' \in Nat
    BY <1>0, <1>2 DEF Requests
  <2> QED BY <1>0, <2>1, CallTypesStep
<1>3. ASSUME NEW where \in Places, NEW g \in Generations, GenerationStarts(where, g) PROVE CallTypes'
  <2>1. UNCHANGED <<clock, behind, calls>> /\ astray' \in Nat
    BY <1>0, <1>3 DEF GenerationStarts
  <2>2. journal' \in Seq(Line)
    <3>1. [at |-> clock, trace |-> g] \in Line
      BY <1>0 DEF Line
    <3>2. Append(journal, [at |-> clock, trace |-> g]) \in Seq(Line)
      BY <1>0, <3>1
    <3> QED BY <1>0, <1>3, <3>2 DEF GenerationStarts
  <2>3. /\ generations' \in [Generations -> Generation]
        /\ \A h \in Generations \ {g} : generations'[h] = generations[h]
    BY <1>3, GenerationStarted
  <2>4. Begun' \subseteq Begun \cup {g}
    BY <2>3 DEF Begun
  <2>5. IsFiniteSet(Begun')
    BY <1>0, <2>4, FS_AddElement, FS_Subset
  <2> QED BY <1>0, <2>1, <2>2, <2>3, <2>5 DEF CallTypes
<1>4. ASSUME NEW where \in Places, NEW g \in Generations, NEW failed \in BOOLEAN, GenerationRecord(where, g, failed)
      PROVE  CallTypes'
  <2>1. UNCHANGED <<clock, calls>> /\ behind' \in Int /\ journal' \in Seq(Line) /\ astray' \in Nat
    BY <1>4, ChargeTypes DEF GenerationRecord
  <2>3. generations' \in [Generations -> Generation] /\ \A h \in Generations : generations'[h].at = generations[h].at
    BY <1>4, GenerationRecorded
  <2>4. Begun' = Begun
    BY <2>3 DEF Begun
  <2> QED BY <1>0, <2>1, <2>3, <2>4 DEF CallTypes
<1>5. ASSUME NEW where \in Places, CallEnds(where) PROVE CallTypes'
  <2>1. calls' \in Nat /\ UNCHANGED <<clock, generations>>
    BY <1>0, <1>5 DEF CallEnds
  <2>2. behind' \in Int /\ journal' \in Seq(Line) /\ astray' \in Nat
    BY <1>5, ChargeTypes DEF CallEnds
  <2> QED BY <2>1, <2>2, CallTypesStep
<1>6. CASE HandOver
  <2>1. UNCHANGED <<clock, journal, calls, astray>> /\ behind' = mem.nano
    BY <1>6 DEF HandOver
  <2>2. mem.nano \in Int
    BY DEF BalanceTyped, BalanceTypeOK, BalanceType
  <2>3. generations' \in [Generations -> Generation] /\ \A g \in Generations : generations'[g].at = generations[g].at
    BY <1>6, GenerationsShared
  <2>4. Begun' = Begun
    BY <2>3 DEF Begun
  <2> QED BY <1>0, <2>1, <2>2, <2>3, <2>4 DEF CallTypes
<1>7. CASE Follow \/ FollowEnds
  <2>1. <<>> \in Seq(Line) /\ 0 \in Int
    OBVIOUS
  <2> QED BY <1>0, <1>7, <2>1, CallTypesStep DEF Follow, FollowEnds
<1>8. CASE Dies
  <2>1. UNCHANGED <<clock, astray>> /\ behind' = 0 /\ journal' = <<>> /\ calls' = 0
        /\ generations' = [g \in Generations |-> [generations[g] EXCEPT !.lost = @ \/ generations[g].at # None]]
    BY <1>8 DEF Dies
  <2>2. generations' \in [Generations -> Generation] /\ \A g \in Generations : generations'[g].at = generations[g].at
    BY <1>0, <2>1 DEF Generation
  <2>3. Begun' = Begun
    BY <2>2 DEF Begun
  <2> QED BY <1>0, <2>1, <2>2, <2>3 DEF CallTypes
<1> QED BY <1>1, <1>2, <1>3, <1>4, <1>5, <1>6, <1>7, <1>8 DEF Next

LEMMA CallTypesInit == ASSUME Init PROVE CallTypes
<1>1. Begun = {} /\ NewGeneration \in Generation
  BY DEF Init, Begun, NewGeneration, Generation
<1> QED BY <1>1, FS_EmptySet DEF Init, CallTypes

CallsTyped == BalanceTyped /\ CallTypes

LEMMA CallsTypedInvariant == Spec => []CallsTyped
<1>1. Init => CallsTyped
  BY BalanceTypedInit, CallTypesInit DEF CallsTyped
<1>2. CallsTyped /\ [Next]_vars => CallsTyped'
  BY BalanceTypedStep, CallTypesHold DEF CallsTyped
<1> QED BY <1>1, <1>2, PTL DEF Spec

----------------------------------------------------------------------------
\* Adjustments are applied once

(* The remembered requests are the latest ones applied, of which no two have
   one id within Kept. *)
Sound(b) ==
  /\ Len(b.requests) = IF Len(b.order) > Kept THEN Kept ELSE Len(b.order)
  /\ \A n \in 1..Len(b.requests) : b.requests[n].id = b.order[Len(b.order) - Len(b.requests) + n]
  /\ \A m, n \in 1..Len(b.order) : m < n /\ b.order[m] = b.order[n] => n - m > Kept

\* One balance is another, or that with one more request applied to it.
Same(b, c) == c.requests = b.requests /\ c.order = b.order
Follows(b, c, e) ==
  /\ e \in Adjustment /\ ~Applied(b, e.id)
  /\ c.requests = Latest(Append(b.requests, e)) /\ c.order = Append(b.order, e.id)
Near(b, c) == Same(b, c) \/ \E e \in Adjustment : Follows(b, c, e)

LEMMA AdjustedNear ==
  ASSUME NEW b \in BalanceType, NEW id \in Ids \cup {NoId}, NEW amount \in Amounts, id # NoId => ~Applied(b, id)
  PROVE  /\ Near(b, Adjusted(b, id, amount))
         /\ id # NoId => Follows(b, Adjusted(b, id, amount), [id |-> id, amount |-> amount, result |-> b.nano + amount])
<1>1. CASE id = NoId
  BY <1>1 DEF Adjusted, Near, Same
<1>2. CASE id # NoId
  <2> DEFINE e == [id |-> id, amount |-> amount, result |-> b.nano + amount]
  <2>1. e \in Adjustment /\ e.id = id
    BY <1>2, BalanceAssumption DEF Adjustment, BalanceType
  <2>2. Follows(b, Adjusted(b, id, amount), e)
    BY <1>2, <2>1 DEF Follows, Adjusted, Result
  <2> QED BY <2>1, <2>2 DEF Near
<1> QED BY <1>1, <1>2

\* The requests after one more.
OneMoreRequest(b, c, e) ==
  LET lb == Len(b.requests)
      lc == Len(c.requests)
  IN  /\ lb \in Nat /\ lc = (IF lb + 1 > Kept THEN Kept ELSE lb + 1)
      /\ c.requests \in Seq(Adjustment) /\ c.requests[lc] = e
      /\ \A n \in 1..lc - 1 : lb + 1 - lc + n \in 1..lb /\ c.requests[n] = b.requests[lb + 1 - lc + n]

LEMMA FollowsRequests ==
  ASSUME NEW b \in BalanceType, NEW c, NEW e, Follows(b, c, e)
  PROVE  OneMoreRequest(b, c, e)
<1> DEFINE lb == Len(b.requests)
           lc == Len(c.requests)
           s == Append(b.requests, e)
<1>1. b.requests \in Seq(Adjustment) /\ lb \in Nat /\ Kept \in Nat \ {0} /\ e \in Adjustment
  BY BalanceAssumption DEF BalanceType, Follows
<1>2. s \in Seq(Adjustment) /\ Len(s) = lb + 1 /\ s[lb + 1] = e /\ \A n \in 1..lb : s[n] = b.requests[n]
  BY <1>1
<1>3. c.requests = Latest(s)
  BY DEF Follows
<1> HIDE DEF s
<1>4. /\ c.requests \in Seq(Adjustment)
      /\ lc = IF lb + 1 > Kept THEN Kept ELSE lb + 1
      /\ \A n \in 1..lc : c.requests[n] = s[lb + 1 - lc + n]
  BY <1>2, <1>3, LatestElements
<1> HIDE DEF lb, lc
<1>5. lc \in 1..lb + 1 /\ c.requests[lc] = e
  <2>1. lc \in 1..lb + 1 /\ lc \in 1..lc /\ lb + 1 - lc + lc = lb + 1
    BY <1>1, <1>4
  <2> QED BY <1>2, <1>4, <2>1
<1>6. ASSUME NEW n \in 1..lc - 1 PROVE lb + 1 - lc + n \in 1..lb /\ c.requests[n] = b.requests[lb + 1 - lc + n]
  <2>1. lb + 1 - lc + n \in 1..lb /\ n \in 1..lc
    BY <1>1, <1>5
  <2> QED BY <1>2, <1>4, <2>1
<1> QED BY <1>1, <1>4, <1>5, <1>6 DEF OneMoreRequest, lb, lc

\* A request that is not remembered is applied soundly.
LEMMA FollowsSound ==
  ASSUME NEW b \in BalanceType, Sound(b), NEW c, NEW e, Follows(b, c, e)
  PROVE  Sound(c)
<1> DEFINE lb == Len(b.requests)
           lc == Len(c.requests)
           ob == Len(b.order)
<1>1. b.order \in Seq(Ids) /\ ob \in Nat /\ Kept \in Nat \ {0} /\ e.id \in Ids
  BY BalanceAssumption DEF BalanceType, Follows, Adjustment
<1>2. /\ c.order = Append(b.order, e.id) /\ Len(c.order) = ob + 1 /\ c.order[ob + 1] = e.id
      /\ \A n \in 1..ob : c.order[n] = b.order[n]
  BY <1>1 DEF Follows
<1>3. /\ lb \in Nat /\ lc = (IF lb + 1 > Kept THEN Kept ELSE lb + 1) /\ c.requests[lc] = e
      /\ \A n \in 1..lc - 1 : lb + 1 - lc + n \in 1..lb /\ c.requests[n] = b.requests[lb + 1 - lc + n]
  <2>1. OneMoreRequest(b, c, e)
    BY FollowsRequests
  <2> QED BY <2>1 DEF OneMoreRequest
<1>4. /\ lb = IF ob > Kept THEN Kept ELSE ob
      /\ \A n \in 1..lb : b.requests[n].id = b.order[ob - lb + n]
      /\ \A m, n \in 1..ob : m < n /\ b.order[m] = b.order[n] => n - m > Kept
  BY DEF Sound
<1> HIDE DEF lb, lc, ob
<1>5. lc = IF ob + 1 > Kept THEN Kept ELSE ob + 1
  BY <1>1, <1>3, <1>4
<1>6. ASSUME NEW n \in 1..lc PROVE c.requests[n].id = c.order[ob + 1 - lc + n]
  <2>1. CASE n = lc
    <3>1. ob + 1 - lc + lc = ob + 1
      BY <1>1, <1>5
    <3> QED BY <1>2, <1>3, <2>1, <3>1
  <2>2. CASE n # lc
    <3>1. n \in 1..lc - 1 /\ ob - lb + (lb + 1 - lc + n) = ob + 1 - lc + n /\ ob + 1 - lc + n \in 1..ob
      BY <1>1, <1>3, <1>5, <2>2, SMTT(30)
    <3>2. lb + 1 - lc + n \in 1..lb /\ c.requests[n] = b.requests[lb + 1 - lc + n]
      BY <1>3, <3>1
    <3> QED BY <1>2, <1>4, <3>1, <3>2
  <2> QED BY <2>1, <2>2
<1>7. ASSUME NEW m \in 1..ob + 1, NEW n \in 1..ob + 1, m < n, c.order[m] = c.order[n] PROVE n - m > Kept
  <2>1. CASE n # ob + 1
    <3>1. m \in 1..ob /\ n \in 1..ob
      BY <1>1, <1>7, <2>1
    <3> QED BY <1>2, <1>4, <1>7, <3>1
  <2>2. CASE n = ob + 1
    <3>1. m \in 1..ob /\ b.order[m] = e.id
      BY <1>1, <1>2, <1>7, <2>2
    <3>2. SUFFICES ASSUME n - m <= Kept PROVE FALSE
      BY <1>1
    <3>3. m - (ob - lb) \in 1..lb
      BY <1>1, <1>4, <2>2, <3>1, <3>2
    <3>4. b.requests[m - (ob - lb)].id = e.id
      <4>1. ob - lb + (m - (ob - lb)) = m
        BY <1>1, <1>3, <3>1
      <4> QED BY <1>4, <3>1, <3>3, <4>1
    <3>5. Applied(b, e.id)
      <4>1. DOMAIN b.requests = 1..lb
        BY DEF BalanceType, lb
      <4> QED BY <3>3, <3>4, <4>1 DEF Applied
    <3> QED BY <3>5 DEF Follows
  <2> QED BY <2>1, <2>2
<1>8. Len(c.order) = ob + 1 /\ Len(c.requests) = lc
  BY <1>2 DEF lc
<1>9. Len(c.requests) = IF Len(c.order) > Kept THEN Kept ELSE Len(c.order)
  BY <1>5, <1>8
<1>10. \A n \in 1..Len(c.requests) : c.requests[n].id = c.order[Len(c.order) - Len(c.requests) + n]
  <2> TAKE n \in 1..Len(c.requests)
  <2>0. n \in 1..lc
    BY <1>8
  <2>1. Len(c.order) - Len(c.requests) + n = ob + 1 - lc + n
    BY <1>1, <1>5, <1>8, <2>0
  <2>2. c.requests[n].id = c.order[ob + 1 - lc + n]
    BY <1>6, <2>0
  <2> QED BY <2>1, <2>2
<1>11. \A m, n \in 1..Len(c.order) : m < n /\ c.order[m] = c.order[n] => n - m > Kept
  BY <1>7, <1>8
<1> QED BY <1>9, <1>10, <1>11 DEF Sound

\* A remembered id is remembered once.
LEMMA SoundEntry ==
  ASSUME NEW b \in BalanceType, Sound(b), NEW n \in 1..Len(b.requests)
  PROVE  Applied(b, b.requests[n].id) /\ Entry(b, b.requests[n].id) = b.requests[n]
<1> DEFINE lb == Len(b.requests)
           ob == Len(b.order)
<1>1. ob \in Nat /\ lb \in Nat /\ n \in 1..lb /\ Kept \in Nat /\ DOMAIN b.requests = 1..lb /\ b.requests \in Seq(Adjustment)
  BY BalanceAssumption DEF BalanceType
<1>2. Applied(b, b.requests[n].id)
  BY <1>1 DEF Applied
<1>3. PICK m \in 1..lb : b.requests[m].id = b.requests[n].id /\ Entry(b, b.requests[n].id) = b.requests[m]
  BY <1>1, <1>2, EntryOf
<1>4. /\ lb = IF ob > Kept THEN Kept ELSE ob
      /\ \A k \in 1..lb : b.requests[k].id = b.order[ob - lb + k]
      /\ \A k, l \in 1..ob : k < l /\ b.order[k] = b.order[l] => l - k > Kept
  BY <1>1 DEF Sound
<1> HIDE DEF lb, ob
<1>5. b.order[ob - lb + m] = b.order[ob - lb + n]
  BY <1>1, <1>3, <1>4
<1>6. ob - lb + m \in 1..ob /\ ob - lb + n \in 1..ob /\ n - m <= Kept /\ m - n <= Kept
  BY <1>1, <1>4
<1>7. m = n
  <2>1. ~(ob - lb + m < ob - lb + n) /\ ~(ob - lb + n < ob - lb + m)
    <3>1. (ob - lb + n) - (ob - lb + m) = n - m /\ (ob - lb + m) - (ob - lb + n) = m - n
      BY <1>1
    <3> QED BY <1>1, <1>4, <1>5, <1>6, <3>1
  <2> QED BY <1>1, <2>1
<1> QED BY <1>2, <1>3, <1>7

----------------------------------------------------------------------------
\* Every application has one result

Answered(results, id) == {a \in results : a.id = id}
AppliedAs(b, id) == {n \in 1..Len(b.order) : b.order[n] = id}
FirstAnswer(b, id) == [id |-> id, result |-> Entry(b, id).result]

(* There are no more answers than applications, and while the request is
   remembered there is room for its answer. *)
Accounts(b, results) ==
  \A id \in Ids :
    /\ Cardinality(Answered(results, id)) <= Cardinality(AppliedAs(b, id))
    /\ Applied(b, id) => Cardinality(Answered(results, id) \ {FirstAnswer(b, id)}) < Cardinality(AppliedAs(b, id))

LEMMA AppliedAsFinite ==
  ASSUME NEW b \in BalanceType, NEW id
  PROVE  IsFiniteSet(AppliedAs(b, id)) /\ Cardinality(AppliedAs(b, id)) \in Nat
<1>1. IsFiniteSet(1..Len(b.order)) /\ AppliedAs(b, id) \subseteq 1..Len(b.order)
  BY FS_Interval DEF BalanceType, AppliedAs
<1> QED BY <1>1, FS_Subset, FS_CardinalityType

\* A retry is answered with the remembered result.
LEMMA AnswerEntry ==
  ASSUME NEW b \in BalanceType, NEW results, IsFiniteSet(results), Accounts(b, results), NEW id \in Ids, Applied(b, id)
  PROVE  Accounts(b, results \cup {FirstAnswer(b, id)}) /\ IsFiniteSet(results \cup {FirstAnswer(b, id)})
<1> DEFINE x == FirstAnswer(b, id)
           more == results \cup {x}
           A == Answered(results, id)
<1>1. x.id = id
  BY DEF FirstAnswer
<1>2. IsFiniteSet(more)
  BY FS_AddElement
<1>3. Answered(more, id) = (A \ {x}) \cup {x} /\ Answered(more, id) \ {x} = A \ {x} /\ x \notin A \ {x}
  BY <1>1 DEF Answered
<1>4. IsFiniteSet(A \ {x}) /\ Cardinality(A \ {x}) \in Nat
  <2>1. A \ {x} \subseteq results
    BY DEF Answered
  <2> QED BY <2>1, FS_Subset, FS_CardinalityType
<1>5. Cardinality(Answered(more, id)) = Cardinality(A \ {x}) + 1
  BY <1>3, <1>4, FS_AddElement
<1>6. Cardinality(A \ {x}) < Cardinality(AppliedAs(b, id)) /\ Cardinality(AppliedAs(b, id)) \in Nat
  BY AppliedAsFinite DEF Accounts
<1>7. ASSUME NEW j \in Ids, j # id PROVE Answered(more, j) = Answered(results, j)
  BY <1>1, <1>7 DEF Answered
<1> HIDE DEF x, more, A
<1>8. /\ Cardinality(Answered(more, id)) <= Cardinality(AppliedAs(b, id))
      /\ Cardinality(Answered(more, id) \ {x}) < Cardinality(AppliedAs(b, id))
  <2>1. Cardinality(Answered(more, id) \ {x}) = Cardinality(A \ {x})
    BY <1>3, Zenon
  <2>2. Cardinality(Answered(more, id)) <= Cardinality(AppliedAs(b, id))
    BY <1>4, <1>5, <1>6
  <2> QED BY <1>6, <2>1, <2>2
<1>9. Accounts(b, more)
  <2> SUFFICES ASSUME NEW j \in Ids
               PROVE  /\ Cardinality(Answered(more, j)) <= Cardinality(AppliedAs(b, j))
                      /\ Applied(b, j) => Cardinality(Answered(more, j) \ {FirstAnswer(b, j)}) < Cardinality(AppliedAs(b, j))
    BY DEF Accounts
  <2>1. CASE j = id
    BY <1>8, <2>1 DEF x
  <2>2. CASE j # id
    BY <1>7, <2>2 DEF Accounts
  <2> QED BY <2>1, <2>2
<1> QED BY <1>2, <1>9 DEF more, x

LEMMA FollowsAccounts ==
  ASSUME NEW b \in BalanceType, Sound(b), NEW c, NEW e, Follows(b, c, e),
         NEW results, IsFiniteSet(results), Accounts(b, results)
  PROVE  Accounts(c, results)
<1> DEFINE lb == Len(b.requests)
           lc == Len(c.requests)
           ob == Len(b.order)
<1>1. /\ b.order \in Seq(Ids) /\ ob \in Nat /\ Kept \in Nat \ {0} /\ e.id \in Ids
      /\ b.requests \in Seq(Adjustment) /\ DOMAIN b.requests = 1..lb
  BY BalanceAssumption DEF BalanceType, Follows, Adjustment
<1>2. /\ c.order = Append(b.order, e.id) /\ Len(c.order) = ob + 1 /\ c.order[ob + 1] = e.id
      /\ \A n \in 1..ob : c.order[n] = b.order[n]
  BY <1>1 DEF Follows
<1>3. /\ lb \in Nat /\ lc = (IF lb + 1 > Kept THEN Kept ELSE lb + 1) /\ c.requests[lc] = e
      /\ c.requests \in Seq(Adjustment) /\ DOMAIN c.requests = 1..lc
      /\ \A n \in 1..lc - 1 : lb + 1 - lc + n \in 1..lb /\ c.requests[n] = b.requests[lb + 1 - lc + n]
  <2>1. OneMoreRequest(b, c, e)
    BY FollowsRequests
  <2>2. c.requests \in Seq(Adjustment)
    BY <2>1 DEF OneMoreRequest
  <2>3. DOMAIN c.requests = 1..Len(c.requests)
    BY <2>2
  <2> QED BY <2>1, <2>2, <2>3 DEF OneMoreRequest
<1> HIDE DEF lb, lc, ob
<1>4. AppliedAs(c, e.id) = AppliedAs(b, e.id) \cup {ob + 1} /\ ob + 1 \notin AppliedAs(b, e.id)
  <2>1. AppliedAs(b, e.id) = {n \in 1..ob : b.order[n] = e.id} /\ AppliedAs(c, e.id) = {n \in 1..ob + 1 : c.order[n] = e.id}
    BY <1>2 DEF AppliedAs, ob
  <2>2. 1..ob + 1 = (1..ob) \cup {ob + 1} /\ ob + 1 \notin 1..ob
    BY <1>1
  <2> QED BY <1>2, <2>1, <2>2
<1>5. Cardinality(AppliedAs(c, e.id)) = Cardinality(AppliedAs(b, e.id)) + 1 /\ Cardinality(AppliedAs(b, e.id)) \in Nat
  BY <1>4, AppliedAsFinite, FS_AddElement
<1>6. ASSUME NEW id \in Ids, id # e.id PROVE AppliedAs(c, id) = AppliedAs(b, id)
  <2>1. AppliedAs(b, id) = {n \in 1..ob : b.order[n] = id} /\ AppliedAs(c, id) = {n \in 1..ob + 1 : c.order[n] = id}
    BY <1>2 DEF AppliedAs, ob
  <2>2. 1..ob + 1 = (1..ob) \cup {ob + 1}
    BY <1>1
  <2> QED BY <1>2, <1>6, <2>1, <2>2
<1>7. ASSUME NEW id \in Ids, id # e.id, Applied(c, id) PROVE Applied(b, id) /\ Entry(c, id) = Entry(b, id)
  <2>1. PICK n \in 1..lc : c.requests[n].id = id /\ Entry(c, id) = c.requests[n]
    <3>1. c.requests \in Seq(Adjustment)
      BY <1>3
    <3>2. Applied(c, id)
      BY <1>7
    <3>3. \E n \in DOMAIN c.requests : c.requests[n].id = id /\ Entry(c, id) = c.requests[n]
      BY <3>1, <3>2, EntryOf
    <3> QED BY <1>3, <3>3
  <2>2. n # lc
    BY <1>3, <1>7, <2>1
  <2>3. n \in 1..lc - 1
    BY <1>1, <1>3, <2>1, <2>2
  <2>4. lb + 1 - lc + n \in 1..lb /\ c.requests[n] = b.requests[lb + 1 - lc + n]
    BY <1>3, <2>3
  <2>5. /\ Applied(b, b.requests[lb + 1 - lc + n].id)
        /\ Entry(b, b.requests[lb + 1 - lc + n].id) = b.requests[lb + 1 - lc + n]
    BY <2>4, SoundEntry DEF lb
  <2> QED BY <2>1, <2>4, <2>5
<1>8. ASSUME NEW id \in Ids
      PROVE  /\ Cardinality(Answered(results, id)) <= Cardinality(AppliedAs(c, id))
             /\ Applied(c, id) => Cardinality(Answered(results, id) \ {FirstAnswer(c, id)}) < Cardinality(AppliedAs(c, id))
  <2>1. CASE id = e.id
    <3> DEFINE A == Answered(results, id)
               x == FirstAnswer(c, id)
    <3>1. IsFiniteSet(A) /\ Cardinality(A) \in Nat
      <4>1. A \subseteq results
        BY DEF Answered
      <4> QED BY <4>1, FS_Subset, FS_CardinalityType
    <3>2. Cardinality(A \ {x}) \in Nat /\ Cardinality(A \ {x}) <= Cardinality(A)
      BY <3>1, FS_Subset, FS_CardinalityType
    <3>3. Cardinality(A) <= Cardinality(AppliedAs(b, id))
      BY DEF Accounts
    <3> HIDE DEF A, x
    <3>4. Cardinality(A) <= Cardinality(AppliedAs(c, id)) /\ Cardinality(A \ {x}) < Cardinality(AppliedAs(c, id))
      BY <1>5, <2>1, <3>1, <3>2, <3>3
    <3> QED BY <3>4 DEF A, x
  <2>2. CASE id # e.id
    <3>1. AppliedAs(c, id) = AppliedAs(b, id) /\ (Applied(c, id) => Applied(b, id) /\ FirstAnswer(c, id) = FirstAnswer(b, id))
      BY <1>6, <1>7, <2>2 DEF FirstAnswer
    <3> QED BY <3>1 DEF Accounts
  <2> QED BY <2>1, <2>2
<1> QED BY <1>8 DEF Accounts

LEMMA SameAccounts ==
  ASSUME NEW b, NEW c, Same(b, c)
  PROVE  /\ Sound(b) => Sound(c)
         /\ \A results : Accounts(b, results) => Accounts(c, results)
         /\ \A d, e : Follows(b, d, e) => Follows(c, d, e)
         /\ \A d : Same(b, d) => Same(c, d)
<1>1. c.requests = b.requests /\ c.order = b.order
  BY DEF Same
<1>2. \A id : (Applied(c, id) <=> Applied(b, id)) /\ Entry(c, id) = Entry(b, id)
  BY <1>1 DEF Applied, Entry
<1>3. \A id : AppliedAs(c, id) = AppliedAs(b, id) /\ FirstAnswer(c, id) = FirstAnswer(b, id)
  BY <1>1, <1>2 DEF AppliedAs, FirstAnswer
<1>4. Sound(b) => Sound(c)
  BY <1>1 DEF Sound
<1>5. \A results : Accounts(b, results) => Accounts(c, results)
  BY <1>2, <1>3 DEF Accounts
<1>6. \A d, e : Follows(b, d, e) => Follows(c, d, e)
  BY <1>1, <1>2 DEF Follows
<1> QED BY <1>1, <1>4, <1>5, <1>6 DEF Same

LEMMA NearAccounts ==
  ASSUME NEW b \in BalanceType, Sound(b), NEW c, Near(b, c), NEW results, IsFiniteSet(results), Accounts(b, results)
  PROVE  Sound(c) /\ Accounts(c, results)
<1>1. CASE Same(b, c)
  BY <1>1, SameAccounts
<1>2. CASE \E e \in Adjustment : Follows(b, c, e)
  BY <1>2, FollowsSound, FollowsAccounts
<1> QED BY <1>1, <1>2 DEF Near

----------------------------------------------------------------------------
\* Across failed writes, flushes and crashes

(* The file holds what is in memory, but for the amount and for one request
   whose write failed; a flush writes what is in memory, but for the amount. *)
AdjustmentsHold ==
  /\ IsFiniteSet(answers)
  /\ up => Sound(mem) /\ Accounts(mem, answers) /\ Near(mem, disk) /\ (plan # None => Same(mem, plan))
  /\ ~up => mem = Empty /\ Sound(disk) /\ Accounts(disk, answers) /\ plan = None

LEMMA EmptySound == \A credit \in Int : Sound([Empty EXCEPT !.nano = credit]) /\ Accounts([Empty EXCEPT !.nano = credit], {})
<1> SUFFICES ASSUME NEW credit \in Int
             PROVE  Sound([Empty EXCEPT !.nano = credit]) /\ Accounts([Empty EXCEPT !.nano = credit], {})
  OBVIOUS
<1> DEFINE b == [Empty EXCEPT !.nano = credit]
<1>1. b.requests = <<>> /\ b.order = <<>>
  BY DEF Empty
<1> HIDE DEF b
<1>2. Sound(b) /\ \A id : ~Applied(b, id) /\ AppliedAs(b, id) = {} /\ Answered({}, id) = {}
  BY <1>1, BalanceAssumption DEF Sound, Applied, AppliedAs, Answered
<1>3. Cardinality({}) = 0
  BY FS_EmptySet
<1>4. Accounts(b, {})
  BY <1>2, <1>3 DEF Accounts
<1> QED BY <1>2, <1>4 DEF b

LEMMA AdjustmentsHoldInit == ASSUME Init PROVE AdjustmentsHold
<1>1. Sound(mem) /\ Accounts(mem, {})
  BY EmptySound, CallsAssumption DEF Init, BalanceInit
<1>2. Same(mem, disk) /\ answers = {} /\ up /\ plan = None
  BY DEF Init, BalanceInit, Same
<1> QED BY <1>1, <1>2, FS_EmptySet DEF AdjustmentsHold, Near

\* A step with which the file, the plan and the memory stay near each other.
LEMMA NearStep ==
  ASSUME NEW b, NEW c, NEW d, Same(b, c), Near(b, d)
  PROVE  Near(c, d)
BY SameAccounts DEF Near

LEMMA AdjustmentsHoldStep == ASSUME CallsTyped, AdjustmentsHold, [Next]_vars PROVE AdjustmentsHold'
<1>1. mem \in BalanceType /\ disk \in BalanceType /\ IsFiniteSet(answers) /\ up \in BOOLEAN
  BY DEF CallsTyped, BalanceTyped, BalanceTypeOK, AdjustmentsHold
<1>2. ASSUME NEW id \in Ids \cup {NoId}, NEW amount \in Amounts, Adjust(id, amount) PROVE AdjustmentsHold'
  <2>1. up /\ Sound(mem) /\ Accounts(mem, answers) /\ up' /\ plan = None /\ plan' = None
        /\ mem' = Adjusted(mem, id, amount) /\ disk' = mem' /\ (id # NoId => ~Applied(mem, id))
    BY <1>2 DEF Adjust, MayAdjust, NoFlush, AdjustmentsHold
  <2>2. Near(mem, mem') /\ mem' \in BalanceType
    <3>1. Near(mem, mem')
      BY <1>1, <2>1, AdjustedNear
    <3> QED BY <2>1, <3>1, AdjustedType DEF CallsTyped, BalanceTyped, BalanceTypeOK
  <2>3. Sound(mem') /\ Accounts(mem', answers)
    BY <1>1, <2>1, <2>2, NearAccounts
  <2>4. Accounts(mem', answers') /\ IsFiniteSet(answers')
    <3>1. CASE id = NoId
      BY <1>1, <1>2, <2>3, <3>1 DEF Adjust
    <3>2. CASE id # NoId
      <4> DEFINE e == [id |-> id, amount |-> amount, result |-> mem.nano + amount]
      <4>1. Follows(mem, mem', e)
        BY <1>1, <2>1, <3>2, AdjustedNear
      <4>2. Len(mem'.requests) \in 1..Len(mem'.requests) /\ mem'.requests[Len(mem'.requests)] = e
        <5>1. /\ Len(mem.requests) \in Nat /\ mem'.requests[Len(mem'.requests)] = e
              /\ Len(mem'.requests) = IF Len(mem.requests) + 1 > Kept THEN Kept ELSE Len(mem.requests) + 1
          <6>1. OneMoreRequest(mem, mem', e)
            BY <1>1, <4>1, FollowsRequests
          <6> QED BY <6>1 DEF OneMoreRequest
        <5> QED BY <5>1, BalanceAssumption
      <4>3. Applied(mem', id) /\ Entry(mem', id) = e
        BY <2>2, <2>3, <4>2, SoundEntry
      <4>4. mem'.nano = mem.nano + amount
        BY <2>1 DEF Adjusted
      <4>5. answers' = answers \cup {FirstAnswer(mem', id)}
        BY <1>2, <3>2, <4>3, <4>4 DEF Adjust, FirstAnswer
      <4> QED BY <1>1, <2>2, <2>3, <3>2, <4>3, <4>5, AnswerEntry
    <3> QED BY <3>1, <3>2
  <2>5. Near(mem', disk')
    BY <2>1 DEF Near, Same
  <2> QED BY <2>1, <2>3, <2>4, <2>5 DEF AdjustmentsHold
<1>3. ASSUME NEW id \in Ids \cup {NoId}, NEW amount \in Amounts, AdjustFails(id, amount) PROVE AdjustmentsHold'
  <2>1. up /\ UNCHANGED <<up, mem, plan, answers>> /\ disk' \in {disk, Adjusted(mem, id, amount)} /\ (id # NoId => ~Applied(mem, id))
    BY <1>3 DEF AdjustFails, MayAdjust, AfterFailure
  <2>2. Near(mem, disk')
    BY <1>1, <2>1, AdjustedNear DEF AdjustmentsHold
  <2> QED BY <2>1, <2>2 DEF AdjustmentsHold
<1>4. ASSUME NEW id \in Ids \cup {NoId}, Duplicate(id) PROVE AdjustmentsHold'
  <2>1. up /\ UNCHANGED <<up, mem, plan, disk>> /\ id \in Ids /\ Applied(mem, id) /\ answers' = answers \cup {FirstAnswer(mem, id)}
    BY <1>4 DEF Duplicate, FirstAnswer
  <2>2. Accounts(mem, answers') /\ IsFiniteSet(answers')
    BY <1>1, <2>1, AnswerEntry DEF AdjustmentsHold
  <2> QED BY <2>1, <2>2 DEF AdjustmentsHold
<1>5. CASE Crash
  <2>1. up /\ ~up' /\ mem' = Empty /\ plan' = None /\ answers' = answers
    BY <1>5 DEF Crash
  <2>2. Near(mem, disk')
    <3>1. disk' = disk \/ (plan # None /\ disk' = plan)
          \/ \E id \in Ids \cup {NoId}, amount \in Amounts : MayAdjust(id) /\ disk' = Adjusted(mem, id, amount)
      BY <1>5 DEF Crash
    <3>2. \A id \in Ids \cup {NoId}, amount \in Amounts : MayAdjust(id) => Near(mem, Adjusted(mem, id, amount))
      BY <1>1, AdjustedNear DEF MayAdjust
    <3> QED BY <2>1, <3>1, <3>2 DEF AdjustmentsHold, Near
  <2>3. Sound(disk') /\ Accounts(disk', answers)
    BY <1>1, <2>1, <2>2, NearAccounts DEF AdjustmentsHold
  <2> QED BY <1>1, <2>1, <2>3 DEF AdjustmentsHold
<1>6. CASE Restart
  BY <1>1, <1>6 DEF Restart, AdjustmentsHold, Near, Same
<1>7. CASE Carries
  <2>1. UNCHANGED <<up, answers>>
    BY <1>7 DEF Carries
  <2>2. CASE ~up
    BY <1>7, <2>2 DEF Carries, AdjustmentsHold
  <2>3. CASE up
    <3>1. Same(mem, mem')
      BY <1>1, <1>7 DEF Carries, Same, BalanceType
    <3>2. Near(mem, disk') /\ (plan' # None => Same(mem, plan'))
      BY <1>7, <2>3 DEF Carries, AdjustmentsHold, Near, Same
    <3>3. Near(mem', disk') /\ (plan' # None => Same(mem', plan')) /\ Sound(mem') /\ Accounts(mem', answers)
      BY <2>3, <3>1, <3>2, SameAccounts, NearStep DEF AdjustmentsHold
    <3> QED BY <1>1, <2>1, <2>3, <3>3 DEF AdjustmentsHold
  <2> QED BY <1>1, <2>2, <2>3
<1> QED BY <1>2, <1>3, <1>4, <1>5, <1>6, <1>7, BalanceKinds DEF CallsTyped

LEMMA AdjustmentsInvariant == Spec => [](CallsTyped /\ AdjustmentsHold)
<1>1. Init => CallsTyped /\ AdjustmentsHold
  BY BalanceTypedInit, CallTypesInit, AdjustmentsHoldInit DEF CallsTyped
<1>2. CallsTyped /\ AdjustmentsHold /\ [Next]_vars => (CallsTyped /\ AdjustmentsHold)'
  BY BalanceTypedStep, CallTypesHold, AdjustmentsHoldStep DEF CallsTyped
<1> QED BY <1>1, <1>2, PTL DEF Spec

(* A retried adjustment is not applied again while its request id is among
   the latest Kept (adjustBalanceAndPersist, balance.go), whatever failed,
   crashed or was flushed in between. *)
THEOREM RetriesApplyOnce == Spec => []AdjustedOnce
<1>1. ASSUME CallsTyped, AdjustmentsHold PROVE AdjustedOnce
  <2>1. mem \in BalanceType /\ disk \in BalanceType /\ up \in BOOLEAN
    BY <1>1 DEF CallsTyped, BalanceTyped, BalanceTypeOK
  <2>2. Sound(Empty)
    BY BalanceAssumption DEF Empty, Sound
  <2>3. Sound(mem) /\ Sound(disk)
    BY <1>1, <2>1, <2>2, NearAccounts DEF AdjustmentsHold
  <2>4. DOMAIN mem.order = 1..Len(mem.order) /\ DOMAIN disk.order = 1..Len(disk.order)
    BY <2>1 DEF BalanceType
  <2> QED BY <2>3, <2>4 DEF AdjustedOnce, Sound
<1> QED BY <1>1, AdjustmentsInvariant, PTL

(* An answered adjustment is on disk and stays there, and every application of
   a request id has one result, whichever attempt, of whichever process, was
   answered. *)
THEOREM AnswersAreOnDisk == Spec => []OneResult
<1>1. ASSUME CallsTyped, AdjustmentsHold PROVE OneResult
  <2>1. mem \in BalanceType /\ disk \in BalanceType /\ up \in BOOLEAN
    BY <1>1 DEF CallsTyped, BalanceTyped, BalanceTypeOK
  <2>2. Accounts(disk, answers)
    BY <1>1, <2>1, NearAccounts DEF AdjustmentsHold
  <2>3. DOMAIN disk.order = 1..Len(disk.order)
    BY <2>1 DEF BalanceType
  <2> QED BY <2>2, <2>3 DEF OneResult, Accounts, Answered, AppliedAs
<1> QED BY <1>1, AdjustmentsInvariant, PTL

----------------------------------------------------------------------------
\* What a newer instance learns of the media generations

\* Adopting goes line by line.
LEMMA AdoptedSteps ==
  ASSUME NEW traces, NEW lines, Len(lines) \in Nat
  PROVE  \E f : /\ f[0] = traces /\ Adopted(traces, lines) = f[Len(lines)]
               /\ \A n \in 1..Len(lines) :
                    f[n] = IF lines[n].trace = None THEN f[n - 1]
                           ELSE RememberedAt(f[n - 1], lines[n].trace, lines[n].at, clock)
<1> DEFINE L == Len(lines)
           after(m, n) == IF lines[n].trace = None THEN m ELSE RememberedAt(m, lines[n].trace, lines[n].at, clock)
           Adopts(f, k) == f = [n \in 0..k |-> IF n = 0 THEN traces ELSE after(f[n - 1], n)]
           adopt[n \in 0..L] ==
             IF n = 0 THEN traces
             ELSE IF lines[n].trace = None THEN adopt[n - 1]
             ELSE RememberedAt(adopt[n - 1], lines[n].trace, lines[n].at, clock)
<1>1. Adopted(traces, lines) = adopt[L]
  BY DEF Adopted
<1>2. ASSUME NEW f, Adopts(f, L) PROVE Adopts(adopt, L)
  BY <1>2
<1> HIDE DEF adopt
<1>3. \A k \in Nat : \E f : Adopts(f, k)
  <2> DEFINE S == {k \in Nat : \E f : Adopts(f, k)}
  <2> HIDE DEF after
  <2>1. 0 \in S
    <3>1. Adopts([n \in 0..0 |-> traces], 0)
      OBVIOUS
    <3> QED BY <3>1
  <2>2. ASSUME NEW k \in Nat, k \in S PROVE k + 1 \in S
    <3>1. PICK f : Adopts(f, k)
      BY <2>2
    <3> DEFINE h == [n \in 0..k + 1 |-> IF n = k + 1 THEN after(f[k], k + 1) ELSE f[n]]
    <3>2. \A n \in 0..k : h[n] = f[n]
      OBVIOUS
    <3>3. ASSUME NEW n \in 0..k + 1 PROVE h[n] = IF n = 0 THEN traces ELSE after(h[n - 1], n)
      <4>1. CASE n = k + 1
        BY <3>2, <4>1
      <4>2. CASE n = 0
        BY <3>1, <4>2
      <4>3. CASE n # k + 1 /\ n # 0
        <5>1. n \in 0..k /\ n - 1 \in 0..k
          BY <4>3
        <5>2. f[n] = after(f[n - 1], n)
          BY <3>1, <4>3, <5>1
        <5> QED BY <3>2, <5>1, <5>2, <4>3
      <4> QED BY <4>1, <4>2, <4>3
    <3>4. Adopts(h, k + 1)
      <4> HIDE DEF h
      <4>1. h = [n \in 0..k + 1 |-> h[n]]
        BY DEF h
      <4> QED BY <3>3, <4>1
    <3> HIDE DEF Adopts, h
    <3> QED BY <3>4
  <2> HIDE DEF S
  <2>3. Nat \subseteq S
    BY <2>1, <2>2, SetInduction
  <2> QED BY <2>3 DEF S
<1>4. Adopts(adopt, L)
  BY <1>2, <1>3
<1>5. adopt[0] = traces /\ \A n \in 1..L : adopt[n] = after(adopt[n - 1], n)
  <2> HIDE DEF after
  <2>1. 0 \in 0..L /\ \A n \in 1..L : n \in 0..L /\ n # 0
    OBVIOUS
  <2> QED BY <1>4, <2>1
<1> QED BY <1>1, <1>5

(* The newer instance knows nothing but what it knew and what the lines bring,
   and its index and order stay well formed. *)
LEMMA AdoptedKnown ==
  ASSUME NEW traces, NEW lines, Len(lines) \in Nat
  PROVE  Known(Adopted(traces, lines)) \subseteq Known(traces) \cup {lines[n].trace : n \in 1..Len(lines)}
<1> DEFINE L == Len(lines)
           all == Known(traces) \cup {lines[n].trace : n \in 1..L}
<1>1. PICK f : /\ f[0] = traces /\ Adopted(traces, lines) = f[L]
               /\ \A n \in 1..L : f[n] = IF lines[n].trace = None THEN f[n - 1]
                                        ELSE RememberedAt(f[n - 1], lines[n].trace, lines[n].at, clock)
  BY AdoptedSteps
<1>2. \A n \in 1..L : Known(f[n]) \subseteq Known(f[n - 1]) \cup {lines[n].trace}
  BY <1>1, RememberedKnown
<1> DEFINE S == {k \in Nat : k <= L => Known(f[k]) \subseteq all}
<1>3. 0 \in S
  BY <1>1
<1>4. ASSUME NEW k \in Nat, k \in S PROVE k + 1 \in S
  <2> SUFFICES ASSUME k + 1 <= L PROVE Known(f[k + 1]) \subseteq all
    OBVIOUS
  <2>1. k + 1 \in 1..L /\ (k + 1) - 1 = k /\ k <= L
    OBVIOUS
  <2>2. Known(f[k + 1]) \subseteq Known(f[k]) \cup {lines[k + 1].trace} /\ Known(f[k]) \subseteq all
    BY <1>2, <1>4, <2>1
  <2> QED BY <2>1, <2>2
<1> HIDE DEF S
<1>5. Nat \subseteq S
  BY <1>3, <1>4, SetInduction
<1> QED BY <1>1, <1>5 DEF S

LEMMA AdoptedTyped ==
  ASSUME CallTypes, NEW traces, IsTraces(traces), NEW lines, Len(lines) \in Nat,
         \A n \in 1..Len(lines) : lines[n].at \in Nat /\ lines[n].trace \in Generations \cup {None}
  PROVE  IsTraces(Adopted(traces, lines))
<1> DEFINE L == Len(lines)
<1>1. PICK f : /\ f[0] = traces /\ Adopted(traces, lines) = f[L]
               /\ \A n \in 1..L : f[n] = IF lines[n].trace = None THEN f[n - 1]
                                        ELSE RememberedAt(f[n - 1], lines[n].trace, lines[n].at, clock)
  BY AdoptedSteps
<1> DEFINE S == {k \in Nat : k <= L => IsTraces(f[k])}
<1>3. 0 \in S
  BY <1>1
<1>4. ASSUME NEW k \in Nat, k \in S PROVE k + 1 \in S
  <2> SUFFICES ASSUME k + 1 <= L PROVE IsTraces(f[k + 1])
    OBVIOUS
  <2>1. k + 1 \in 1..L /\ (k + 1) - 1 = k /\ k <= L
    OBVIOUS
  <2>2. IsTraces(f[k]) /\ f[k + 1] = IF lines[k + 1].trace = None THEN f[k]
                                      ELSE RememberedAt(f[k], lines[k + 1].trace, lines[k + 1].at, clock)
    BY <1>1, <1>4, <2>1
  <2>3. lines[k + 1].at \in Nat /\ lines[k + 1].trace \in Generations \cup {None} /\ clock \in Nat
    BY <2>1 DEF CallTypes
  <2> HIDE DEF S
  <2> QED BY <2>2, <2>3, RememberedAtTyped
<1> HIDE DEF S
<1>5. Nat \subseteq S
  BY <1>3, <1>4, SetInduction
<1> QED BY <1>1, <1>5 DEF S

----------------------------------------------------------------------------
\* The requests per minute

(* What passed before the window under way began, passed by its start; what
   passed before the one before it, a minute earlier. *)
WindowRates(window, passed, now) ==
  LET L == Len(passed)
  IN  /\ window \in [start : Nat, count : Nat]
      /\ window.start <= now /\ window.count <= RPM /\ window.count <= L
      /\ \A n \in 1..L : passed[n] <= now
      /\ \A n \in 1..L - window.count : passed[n] <= window.start
      /\ \A n \in 1..L - window.count - RPM : passed[n] + Minute <= window.start

Spaced(passed) == \A n \in 1..Len(passed) - 2 * RPM : passed[n] + Minute <= passed[n + 2 * RPM]

Rated(i, now) ==
  /\ i = [called |-> i.called, window |-> i.window, traces |-> i.traces, passed |-> i.passed]
  /\ i.called \in BOOLEAN /\ IsTraces(i.traces) /\ i.passed \in Seq(Nat) /\ Spaced(i.passed)
  /\ IF i.window = None THEN i.passed = <<>> ELSE WindowRates(i.window, i.passed, now)

LEMMA RatedLater ==
  ASSUME NEW now \in Nat, NEW i, Rated(i, now)
  PROVE  Rated(i, now + 1)
<1>1. CASE i.window = None
  BY <1>1 DEF Rated
<1>2. CASE i.window # None
  <2>1. i.passed \in Seq(Nat) /\ WindowRates(i.window, i.passed, now)
    BY <1>2 DEF Rated
  <2>2. \A n \in 1..Len(i.passed) : i.passed[n] \in Nat
    BY <2>1
  <2>3. WindowRates(i.window, i.passed, now + 1)
    BY <2>1, <2>2 DEF WindowRates
  <2> QED BY <1>2, <2>3 DEF Rated
<1> QED BY <1>1, <1>2

\* A new window is the first, or comes a minute after the one before it.
LEMMA WindowRestarts ==
  ASSUME clock \in Nat, NEW i, Rated(i, clock)
  PROVE  /\ Window(i.window).count = 0 \/ (Window(i.window) = i.window /\ i.window # None)
         /\ WindowRates(Window(i.window), i.passed, clock)
<1> DEFINE w == i.window
           p == i.passed
           L == Len(p)
           new == [start |-> clock, count |-> 0]
<1>1. p \in Seq(Nat) /\ L \in Nat /\ RPM \in Nat \ {0} /\ Minute \in Nat \ {0}
  BY CallsAssumption DEF Rated
<1>2. new \in [start : Nat, count : Nat] /\ new.start = clock /\ new.count = 0
  OBVIOUS
<1>3. CASE w = None
  <2>1. p = <<>> /\ L = 0
    BY <1>3 DEF Rated
  <2>2. Window(w) = new
    BY <1>3 DEF Window
  <2> HIDE DEF w, p, L, new
  <2>3. WindowRates(new, p, clock)
    <3>1. 1..0 = {} /\ 1..0 - 0 = {} /\ 1..0 - 0 - RPM = {}
      BY <1>1
    <3> QED BY <1>1, <1>2, <2>1, <3>1 DEF WindowRates
  <2> QED BY <1>2, <2>2, <2>3 DEF w, p
<1>4. CASE w # None
  <2>1. /\ w \in [start : Nat, count : Nat] /\ w.start \in Nat /\ w.count \in Nat
        /\ w.start <= clock /\ w.count <= RPM /\ w.count <= L
        /\ \A n \in 1..L : p[n] <= clock
        /\ \A n \in 1..L - w.count : p[n] <= w.start
    BY <1>4 DEF Rated, WindowRates
  <2>2. WindowRates(w, p, clock)
    BY <1>4 DEF Rated
  <2> HIDE DEF w, p, L, new
  <2>3. CASE clock - w.start >= Minute
    <3>1. Window(w) = new
      BY <1>4, <2>3 DEF Window, new
    <3>2. \A n \in 1..L - 0 - RPM : p[n] + Minute <= clock
      <4> TAKE n \in 1..L - 0 - RPM
      <4>1. n \in 1..L - w.count /\ n \in 1..L
        BY <1>1, <2>1
      <4>2. p[n] \in Nat /\ p[n] <= w.start
        BY <1>1, <2>1, <4>1 DEF L
      <4> QED BY <1>1, <2>1, <2>3, <4>2
    <3>3. WindowRates(new, p, clock)
      <4>1. 1..L - 0 = 1..L
        BY <1>1
      <4> QED BY <1>1, <1>2, <2>1, <3>2, <4>1 DEF WindowRates, L
    <3> QED BY <1>2, <3>1, <3>3 DEF w, p
  <2>4. CASE ~(clock - w.start >= Minute)
    <3>1. Window(w) = w
      BY <1>4, <2>1, <2>4 DEF Window
    <3> QED BY <1>4, <2>2, <3>1 DEF w, p
  <2> QED BY <2>3, <2>4
<1> QED BY <1>3, <1>4

LEMMA LimitedRated ==
  ASSUME clock \in Nat, NEW i, Rated(i, clock), NEW request
  PROVE  Rated(Limited(i, request), clock)
<1> DEFINE w == Window(i.window)
           p == i.passed
           L == Len(p)
           more == [start |-> w.start, count |-> w.count + 1]
           q == Append(p, clock)
<1>1. /\ p \in Seq(Nat) /\ L \in Nat /\ RPM \in Nat \ {0} /\ Minute \in Nat \ {0} /\ Spaced(p)
      /\ i = [called |-> i.called, window |-> i.window, traces |-> i.traces, passed |-> p]
      /\ i.called \in BOOLEAN /\ IsTraces(i.traces)
  BY CallsAssumption DEF Rated
<1>2. /\ w.count = 0 \/ (w = i.window /\ i.window # None)
      /\ WindowRates(w, p, clock)
  BY WindowRestarts
<1>3. /\ w = [start |-> w.start, count |-> w.count] /\ w.start \in Nat /\ w.count \in Nat
      /\ w.start <= clock /\ w.count <= RPM /\ w.count <= L
      /\ \A n \in 1..L : p[n] <= clock
      /\ \A n \in 1..L - w.count : p[n] <= w.start
      /\ \A n \in 1..L - w.count - RPM : p[n] + Minute <= w.start
  BY <1>2 DEF WindowRates
<1>4. w \in [start : Nat, count : Nat] /\ more \in [start : Nat, count : Nat] /\ w # None
  <2>1. w \in RateWindow
    BY <1>1, <1>3 DEF RateWindow
  <2> QED BY <1>3, <2>1, CallsAssumption
<1> HIDE DEF w
<1>5. CASE ~CountsRate(request)
  BY <1>5 DEF Limited
<1>6. CASE CountsRate(request) /\ ~Allows(i.window)
  <2>1. Limited(i, request) = [called |-> i.called, window |-> w, traces |-> i.traces, passed |-> p]
    <3>1. Limited(i, request) = [i EXCEPT !.window = w, !.passed = p]
      BY <1>6 DEF Limited, Counted, w
    <3> QED BY <1>1, <3>1
  <2> QED BY <1>1, <1>2, <1>4, <2>1 DEF Rated
<1>7. CASE CountsRate(request) /\ Allows(i.window)
  <2>1. Limited(i, request) = [called |-> i.called, window |-> more, traces |-> i.traces, passed |-> q]
    <3>1. Counted(i.window) = more
      <4>1. Counted(i.window) = [w EXCEPT !.count = @ + 1]
        BY <1>7 DEF Counted, w
      <4> QED BY <1>3, <4>1
    <3>2. Limited(i, request) = [i EXCEPT !.window = more, !.passed = q]
      BY <1>7, <3>1 DEF Limited
    <3> QED BY <1>1, <3>2
  <2>2. w.count + 1 <= RPM /\ more # None
    <3>1. w.count + 1 <= RPM
      BY <1>1, <1>3, <1>7 DEF Allows, w
    <3>2. more \in RateWindow
      BY <1>1, <1>3, <3>1 DEF RateWindow
    <3> QED BY <3>1, <3>2, CallsAssumption
  <2>3. /\ q \in Seq(Nat) /\ Len(q) = L + 1 /\ q[L + 1] = clock
        /\ \A n \in 1..L : q[n] = p[n] /\ p[n] \in Nat
    BY <1>1
  <2>4. more.start = w.start /\ more.count = w.count + 1
    OBVIOUS
  <2> HIDE DEF more, q, p, L
  <2>0. L \in Nat /\ RPM \in Nat \ {0} /\ w.count \in Nat /\ w.count + 1 <= RPM /\ Len(q) = L + 1 /\ w.count <= L
        /\ Minute \in Nat /\ w.start \in Nat
    BY <1>1, <1>3, <2>2, <2>3
  <2>5. Spaced(q)
    <3> SUFFICES ASSUME NEW n \in 1..Len(q) - 2 * RPM PROVE q[n] + Minute <= q[n + 2 * RPM]
      BY DEF Spaced
    <3>1. CASE n + 2 * RPM = L + 1
      <4>1. n \in 1..L - w.count - RPM /\ n \in 1..L
        BY <2>0, <3>1
      <4>2. p[n] \in Nat /\ p[n] + Minute <= w.start /\ q[n] = p[n] /\ q[n + 2 * RPM] = clock
        BY <1>3, <2>3, <3>1, <4>1
      <4>3. w.start <= clock /\ clock \in Nat
        BY <1>1, <1>3
      <4> QED BY <2>0, <4>2, <4>3
    <3>2. CASE n + 2 * RPM # L + 1
      <4>1. n \in 1..L - 2 * RPM /\ n \in 1..L /\ n + 2 * RPM \in 1..L
        BY <2>0, <3>2
      <4> QED BY <1>1, <2>3, <4>1 DEF Spaced, L
    <3> QED BY <3>1, <3>2
  <2>6. WindowRates(more, q, clock)
    <3>1. Len(q) - more.count = L - w.count /\ more.count <= Len(q)
      BY <1>1, <1>3, <2>3, <2>4
    <3>2. \A n \in 1..Len(q) : q[n] <= clock
      <4> TAKE n \in 1..Len(q)
      <4>1. n \in 1..L \/ n = L + 1
        BY <2>0
      <4> QED BY <1>3, <2>3, <4>1
    <3>3. \A n \in 1..Len(q) - more.count : q[n] <= more.start
      <4> TAKE n \in 1..Len(q) - more.count
      <4>1. n \in 1..L - w.count /\ n \in 1..L
        BY <2>0, <3>1
      <4> QED BY <1>3, <2>3, <2>4, <4>1
    <3>4. \A n \in 1..Len(q) - more.count - RPM : q[n] + Minute <= more.start
      <4> TAKE n \in 1..Len(q) - more.count - RPM
      <4>1. n \in 1..L - w.count - RPM /\ n \in 1..L
        BY <2>0, <3>1
      <4> QED BY <1>3, <2>3, <2>4, <4>1
    <3> QED BY <1>3, <1>4, <2>2, <2>4, <3>1, <3>2, <3>3, <3>4 DEF WindowRates
  <2> QED BY <1>1, <2>1, <2>2, <2>3, <2>5, <2>6 DEF Rated
<1> QED BY <1>5, <1>6, <1>7

LEMMA NewRated ==
  /\ \A traces : IsTraces(traces) => Rated(NewInstance(traces), clock)
  /\ Rated(Gone, clock)
<1>1. Spaced(<<>>)
  BY CallsAssumption DEF Spaced
<1>2. ASSUME NEW traces, IsTraces(traces), NEW b \in BOOLEAN
      PROVE  Rated([called |-> b, window |-> None, traces |-> traces, passed |-> <<>>], clock)
  <2> DEFINE i == [called |-> b, window |-> None, traces |-> traces, passed |-> <<>>]
  <2>1. /\ i = [called |-> i.called, window |-> i.window, traces |-> i.traces, passed |-> i.passed]
        /\ i.called = b /\ i.window = None /\ i.traces = traces /\ i.passed = <<>>
    OBVIOUS
  <2> HIDE DEF i
  <2> QED BY <1>1, <1>2, <2>1 DEF Rated
<1> QED BY <1>2, NoTracesTyped DEF NewInstance, Gone

\* The instances, and what the quiesced one leaves behind.
Instances ==
  /\ running = [where \in Places |-> running[where]]
  /\ \A where \in Places : Rated(running[where], clock)

\* The newer instance learns of the generations the older one still awaits.
LEMMA HandedOver ==
  ASSUME CallTypes, Instances, HandOver
  PROVE  \E traces :
           /\ IsTraces(traces) /\ running' = [late |-> running["serving"], serving |-> NewInstance(traces)]
           /\ \A g \in Generations : g \in Known(traces) => Contained(running["serving"].traces, g, clock)
<1> DEFINE old == running["serving"]
           kept == Trimmed(old.traces, clock)
           lines == [n \in DOMAIN kept.order |->
                      [at |-> kept.order[n].at, trace |-> IF n \in Live(old.traces, clock) THEN kept.order[n].id ELSE None]]
           traces == Adopted(NoTraces, lines)
<1>1. running' = [late |-> old, serving |-> NewInstance(traces)]
  BY DEF HandOver
<1>2. IsTraces(kept)
  BY TrimmedTyped DEF Instances, Rated, Places, CallTypes
<1>3. Live(old.traces, clock) = {n \in DOMAIN kept.order : Awaited(kept, kept.order[n])}
  BY DEF Live
<1> HIDE DEF kept
<1>4. kept.order \in Seq(Trace) /\ DOMAIN kept.order = 1..Len(kept.order) /\ Len(kept.order) \in Nat
  BY <1>2 DEF IsTraces
<1>5. Len(lines) = Len(kept.order) /\ Len(lines) \in Nat
  BY <1>4
<1>6. ASSUME NEW n \in 1..Len(lines)
      PROVE  /\ lines[n].at \in Nat /\ lines[n].trace \in Generations \cup {None}
             /\ lines[n].trace # None => lines[n].trace \in Known(kept)
  <2>1. n \in DOMAIN kept.order /\ kept.order[n] \in Trace
    BY <1>4, <1>5
  <2>2. lines[n] = [at |-> kept.order[n].at, trace |-> IF n \in Live(old.traces, clock) THEN kept.order[n].id ELSE None]
    BY <2>1
  <2> QED BY <1>3, <2>1, <2>2 DEF Trace, Awaited
<1> HIDE DEF lines
<1>7. IsTraces(traces)
  BY <1>5, <1>6, AdoptedTyped, NoTracesTyped
<1>8. ASSUME NEW g \in Generations, g \in Known(traces) PROVE Contained(old.traces, g, clock)
  <2>1. Known(NoTraces) = {}
    BY DEF Known, NoTraces
  <2>2. PICK n \in 1..Len(lines) : g = lines[n].trace
    BY <1>5, <1>8, <2>1, AdoptedKnown
  <2>3. g # None
    BY CallsAssumption
  <2> QED BY <1>6, <2>2, <2>3 DEF Contained, kept
<1> QED BY <1>1, <1>7, <1>8

LEMMA InstancesHold == ASSUME CallTypes, Instances, [Next]_vars PROVE Instances'
<1>1. clock \in Nat
  BY DEF CallTypes
<1>2. \A where \in Places : Rated(running[where], clock)
  BY DEF Instances
<1>3. CASE Balances \/ UNCHANGED vars
  BY <1>3 DEF Balances, vars, callVars, Instances
<1>4. ASSUME NEW where \in Places, NEW i, Rated(i, clock), UNCHANGED clock, running' = [running EXCEPT ![where] = i]
      PROVE  Instances'
  BY <1>4 DEF Instances, Places
<1>5. ASSUME NEW where \in Places, NEW request \in AllRequests, Requests(where, request) PROVE Instances'
  <2>1. Rated(running[where], clock) /\ Rated(Limited(running[where], request), clock) /\ UNCHANGED clock
    BY <1>1, <1>2, <1>5, LimitedRated DEF Requests
  <2> QED BY <1>4, <1>5, <2>1 DEF Requests
<1>6. ASSUME NEW where \in Places, NEW g \in Generations, GenerationStarts(where, g) PROVE Instances'
  <2> DEFINE i == Limited(running[where], Generates)
  <2>1. Rated(i, clock) /\ UNCHANGED clock
    BY <1>1, <1>2, <1>6, LimitedRated DEF GenerationStarts
  <2>2. Rated([i EXCEPT !.traces = Remembered(i.traces, g, clock)], clock)
    <3>1. IsTraces(Remembered(i.traces, g, clock))
      BY <1>1, <2>1, RememberedTyped DEF Rated
    <3> HIDE DEF i
    <3> QED BY <2>1, <3>1 DEF Rated
  <2> HIDE DEF i
  <2>3. running' = [running EXCEPT ![where] = i]
        \/ running' = [running EXCEPT ![where] = [i EXCEPT !.traces = Remembered(i.traces, g, clock)]]
    <3>1. CASE Admits(where, Generates)
      BY <1>6, <3>1 DEF GenerationStarts, i
    <3>2. CASE ~Admits(where, Generates)
      BY <1>6, <3>2 DEF GenerationStarts, i
    <3> QED BY <3>1, <3>2
  <2> QED BY <1>4, <2>1, <2>2, <2>3
<1>7. ASSUME NEW where \in Places, NEW g \in Generations, NEW failed \in BOOLEAN, GenerationRecord(where, g, failed)
      PROVE  Instances'
  <2> DEFINE traces == IF failed THEN running[where].traces ELSE Spent(running[where].traces, g)
  <2>1. Rated(running[where], clock) /\ UNCHANGED clock /\ running' = [running EXCEPT ![where].traces = traces]
    BY <1>2, <1>7 DEF GenerationRecord
  <2>2. IsTraces(traces)
    BY <1>1, <2>1, TakenTyped DEF Rated, Spent
  <2> HIDE DEF traces
  <2>3. Rated([running[where] EXCEPT !.traces = traces], clock)
    BY <2>1, <2>2 DEF Rated
  <2> QED BY <1>4, <2>1, <2>3
<1>8. ASSUME NEW where \in Places, CallEnds(where) PROVE Instances'
  BY <1>8 DEF CallEnds, Instances
<1>9. CASE ResetRPM
  <2> DEFINE i == [running["serving"] EXCEPT !.window = None, !.passed = <<>>]
  <2>1. running' = [running EXCEPT !["serving"] = i] /\ UNCHANGED clock
    BY <1>9 DEF ResetRPM
  <2>2. Rated(i, clock)
    <3> DEFINE s == running["serving"]
    <3>1. s = [called |-> s.called, window |-> s.window, traces |-> s.traces, passed |-> s.passed] /\ s.called \in BOOLEAN
      BY DEF Instances, Rated, Places
    <3>2. i = [called |-> s.called, window |-> None, traces |-> s.traces, passed |-> <<>>]
      <4>1. PICK c, w, t, p : s = [called |-> c, window |-> w, traces |-> t, passed |-> p]
        BY <3>1
      <4>2. i = [s EXCEPT !.window = None, !.passed = <<>>]
        OBVIOUS
      <4> HIDE DEF s, i
      <4> QED BY <4>1, <4>2
    <3> HIDE DEF i
    <3>3. Spaced(<<>>)
      BY CallsAssumption DEF Spaced
    <3>4. s.called \in BOOLEAN /\ IsTraces(s.traces)
      BY DEF Instances, Rated, Places
    <3> HIDE DEF s
    <3> QED BY <3>2, <3>3, <3>4 DEF Rated
  <2> QED BY <1>4, <2>1, <2>2 DEF Places
<1>10. CASE HandOver
  <2>1. PICK traces : IsTraces(traces) /\ running' = [late |-> running["serving"], serving |-> NewInstance(traces)]
    BY <1>10, HandedOver
  <2>2. Rated(running["serving"], clock) /\ UNCHANGED clock
    BY <1>10 DEF HandOver, Instances, Places
  <2> QED BY <2>1, <2>2, NewRated DEF Instances, Places
<1>11. CASE Follow
  <2>1. UNCHANGED clock /\ running' = [running EXCEPT !["serving"].traces = Adopted(@, journal)]
    BY <1>11 DEF Follow
  <2> DEFINE traces == Adopted(running["serving"].traces, journal)
  <2>2. Rated(running["serving"], clock)
    BY DEF Instances, Places
  <2>3. IsTraces(traces)
    <3>1. Len(journal) \in Nat /\ \A n \in 1..Len(journal) : journal[n] \in Line
      BY DEF CallTypes
    <3> QED BY <2>2, <3>1, AdoptedTyped DEF Rated, Line
  <2> HIDE DEF traces
  <2>4. Rated([running["serving"] EXCEPT !.traces = traces], clock)
    BY <2>2, <2>3 DEF Rated
  <2> QED BY <1>4, <2>1, <2>4 DEF Places, traces
<1>12. CASE FollowEnds
  BY <1>4, <1>12, NewRated DEF FollowEnds, Places
<1>13. CASE Tick
  BY <1>1, <1>13, RatedLater DEF Tick, Instances
<1>14. CASE Dies
  BY <1>14, NewRated, NoTracesTyped DEF Dies, Instances, Places
<1> QED BY <1>3, <1>5, <1>6, <1>7, <1>8, <1>9, <1>10, <1>11, <1>12, <1>13, <1>14 DEF Next

LEMMA InstancesInit == ASSUME Init PROVE Instances
BY NewRated, NoTracesTyped DEF Init, Instances, Places

(* In no minute does an instance let more than twice the requests per minute
   pass (limiter.go), across windows, restarts of them and replacements. *)
THEOREM RateIsHeld == Spec => []RateHolds
<1>1. Init => CallsTyped /\ Instances
  BY BalanceTypedInit, CallTypesInit, InstancesInit DEF CallsTyped
<1>2. CallsTyped /\ Instances /\ [Next]_vars => (CallsTyped /\ Instances)'
  BY BalanceTypedStep, CallTypesHold, InstancesHold DEF CallsTyped
<1>3. ASSUME Instances PROVE RateHolds
  <2>1. ASSUME NEW i, Rated(i, clock), NEW n \in DOMAIN i.passed, n + 2 * RPM \in DOMAIN i.passed
        PROVE  i.passed[n + 2 * RPM] - i.passed[n] >= Minute
    <3>1. i.passed \in Seq(Nat) /\ Spaced(i.passed) /\ RPM \in Nat /\ Minute \in Nat
      BY <2>1, CallsAssumption DEF Rated
    <3> DEFINE L == Len(i.passed)
    <3>0. DOMAIN i.passed = 1..L /\ L \in Nat /\ RPM \in Nat
      BY <3>1
    <3>2. n \in 1..Len(i.passed) - 2 * RPM /\ i.passed[n] \in Nat /\ i.passed[n + 2 * RPM] \in Nat
      <4>1. n \in 1..L /\ n + 2 * RPM \in 1..L
        BY <2>1, <3>0
      <4>2. n \in 1..L - 2 * RPM
        <5> HIDE DEF L
        <5> QED BY <3>0, <4>1
      <4> QED BY <3>1, <4>1, <4>2, ElementOfSeq
    <3>3. i.passed[n] + Minute <= i.passed[n + 2 * RPM]
      BY <3>1, <3>2 DEF Spaced
    <3> QED BY <3>1, <3>2, <3>3
  <2>2. ASSUME NEW where \in Places PROVE Rated(running[where], clock)
    BY <1>3 DEF Instances
  <2> QED BY <2>1, <2>2 DEF RateHolds
<1> QED BY <1>1, <1>2, <1>3, PTL DEF Spec

----------------------------------------------------------------------------
\* A generation is billed once for every instance that knew it

\* Who may still bill it: the two instances, and who follows the journal.
Here == Known(running["serving"].traces)
There == Known(running["late"].traces)
Between == {journal[n].trace : n \in 1..Len(journal)}

One(is) == IF is THEN 1 ELSE 0
Bills(g, here, there, between) == One(g \in here) + One(g \in there) + One(g \in between)

(* Every one that may still bill a generation has a billing left, and none
   knows one that was not admitted.  What the journal brings is new. *)
BillsHold ==
  /\ Here \cap Between \subseteq {None}
  /\ running["serving"].called
  /\ ~running["late"].called => journal = <<>> /\ There = {}
  /\ \A g \in Generations :
       /\ generations[g].at = None => generations[g].billed = 0 /\ g \notin Here \cup There \cup Between
       /\ generations[g].billed + Bills(g, Here, There, Between) <= 1 + generations[g].shared

\* The traces after an instance changed.
LEMMA InstanceChanges ==
  ASSUME Instances, NEW where \in Places, NEW i, running' = [running EXCEPT ![where] = i]
  PROVE  /\ where = "serving" => Here' = Known(i.traces) /\ There' = There
         /\ where = "late" => Here' = Here /\ There' = Known(i.traces)
  BY DEF Instances, Places, Here, There

\* An instance that only counts requests knows what it knew.
LEMMA LimitedTraces ==
  ASSUME NEW i, NEW request, Rated(i, clock)
  PROVE  Limited(i, request).traces = i.traces /\ Limited(i, request).called = i.called
<1>1. PICK c, w, t, p : i = [called |-> c, window |-> w, traces |-> t, passed |-> p]
  BY DEF Rated
<1> QED BY <1>1 DEF Limited

\* A line more in the journal.
LEMMA LineMore ==
  ASSUME CallTypes, NEW line, line \in Line, journal' = Append(journal, line)
  PROVE  Between' = Between \cup {line.trace}
<1>1. journal \in Seq(Line) /\ Len(journal) \in Nat
  BY DEF CallTypes
<1>2. /\ Len(journal') = Len(journal) + 1 /\ journal'[Len(journal) + 1] = line
      /\ \A n \in 1..Len(journal) : journal'[n] = journal[n]
  BY <1>1
<1>3. 1..Len(journal) + 1 = (1..Len(journal)) \cup {Len(journal) + 1}
  BY <1>1
<1> QED BY <1>2, <1>3 DEF Between

LEMMA ChargeBetween ==
  ASSUME CallTypes, NEW where \in Places, Charge(where) \/ NoCharge
  PROVE  Between' \subseteq Between \cup {None} /\ (where # "late" => journal' = journal)
<1>1. CASE journal' = journal
  BY <1>1 DEF Between
<1>2. CASE where = "late" /\ journal' = Append(journal, [at |-> clock, trace |-> None])
  <2>1. [at |-> clock, trace |-> None] \in Line
    BY DEF CallTypes, Line
  <2>2. Between' = Between \cup {[at |-> clock, trace |-> None].trace}
    BY <1>2, <2>1, LineMore
  <2> QED BY <1>2, <2>2
<1> QED BY <1>1, <1>2 DEF Charge, NoCharge

\* What an action does to what one generation may still be billed for.
BillsOf(g) ==
  /\ generations[g].at = None => generations[g].billed = 0 /\ g \notin Here \cup There \cup Between
  /\ generations[g].billed + Bills(g, Here, There, Between) <= 1 + generations[g].shared

LEMMA BillsOthers ==
  ASSUME CallTypes, BillsHold, NEW g \in Generations, UNCHANGED generations[g],
         g \in Here' => g \in Here, g \in There' => g \in There, g \in Between' => g \in Between
  PROVE  BillsOf(g)'
<1>1. /\ generations[g].at = None => generations[g].billed = 0 /\ g \notin Here \cup There \cup Between
      /\ generations[g].billed + Bills(g, Here, There, Between) <= 1 + generations[g].shared
      /\ generations[g].billed \in Nat /\ generations[g].shared \in Nat
  BY DEF BillsHold, CallTypes, Generation
<1> QED BY <1>1 DEF BillsOf, Bills, One

\* What comes after a step in which nobody learns of a generation.
LEMMA BillsStay ==
  ASSUME CallTypes, BillsHold, generations' = generations,
         Here' \subseteq Here, There' \subseteq There, Between' \subseteq Between \cup {None},
         running'["serving"].called, ~running'["late"].called => journal' = <<>> /\ There' = {}
  PROVE  BillsHold'
<1>1. None \notin Generations
  BY CallsAssumption
<1>2. \A g \in Generations : BillsOf(g)'
  BY <1>1, BillsOthers
<1>3. (Here \cap Between)' \subseteq {None}
  BY DEF BillsHold
<1> QED BY <1>2, <1>3 DEF BillsHold, BillsOf

LEMMA BillsHoldInit == ASSUME Init PROVE BillsHold
<1>1. Here = {} /\ There = {} /\ Between = {} /\ journal = <<>>
  BY DEF Init, Here, There, Between, NewInstance, Gone, NoTraces, Known
<1>2. \A g \in Generations : generations[g].billed = 0 /\ generations[g].shared = 0
  BY DEF Init, NewGeneration
<1>3. running["serving"].called
  BY DEF Init, NewInstance
<1> QED BY <1>1, <1>2, <1>3 DEF BillsHold, Bills, One

LEMMA StartBills ==
  ASSUME CallTypes, Instances, BillsHold, NEW where \in Places, NEW g \in Generations, GenerationStarts(where, g)
  PROVE  BillsHold'
<1> DEFINE limited == Limited(running[where], Generates)
           i == [limited EXCEPT !.traces = Remembered(limited.traces, g, clock)]
<1>1. None \notin Generations /\ generations[g].at = None /\ clock \in Nat /\ clock # None
  BY CallsAssumption DEF GenerationStarts, CallTypes
<1>2. Rated(running[where], clock) /\ (where = "late" => running["late"].called)
  BY DEF GenerationStarts, Called, Instances
<1>3. limited.traces = running[where].traces /\ limited.called = running[where].called /\ Rated(limited, clock)
  BY <1>1, <1>2, LimitedTraces, LimitedRated
<1>4. i.traces = Remembered(running[where].traces, g, clock) /\ i.called = running[where].called
  BY <1>3 DEF Rated
<1>5. Known(i.traces) \subseteq Known(running[where].traces) \cup {g}
  BY <1>4, RememberedKnown
<1> HIDE DEF i, limited
<1>6. CASE UNCHANGED <<generations, journal>> /\ running' = [running EXCEPT ![where] = limited]
  <2>1. Here' = Here /\ There' = There /\ Between' = Between
    BY <1>3, <1>6, InstanceChanges DEF Places, Here, There, Between
  <2>2. running'["late"].called = running["late"].called /\ running'["serving"].called = running["serving"].called
    BY <1>3, <1>6 DEF Instances, Places
  <2> QED BY <1>6, <2>1, <2>2, BillsStay DEF BillsHold
<1>7. CASE /\ running' = [running EXCEPT ![where] = i]
           /\ generations' = [generations EXCEPT ![g].at = clock, ![g].shared = IF where = "late" THEN 1 ELSE 0]
           /\ IF where = "late" THEN journal' = Append(journal, [at |-> clock, trace |-> g]) ELSE UNCHANGED journal
  <2>1. /\ generations'[g].at = clock /\ generations'[g].billed = 0
        /\ generations'[g].shared = IF where = "late" THEN 1 ELSE 0
        /\ g \notin Here \cup There \cup Between
    <3>1. generations[g] \in Generation
      BY DEF CallTypes
    <3>2. generations[g].billed = 0 /\ g \notin Here \cup There \cup Between
      BY <1>1 DEF BillsHold
    <3>3. generations' # generations
      BY <1>1, <1>7, <3>1 DEF CallTypes, Generation
    <3> QED BY <3>2, <3>3, GenerationStarted
  <2>2. \A h \in Generations \ {g} : generations'[h] = generations[h]
    BY GenerationStarted
  <2>3. running'["late"].called = running["late"].called /\ running'["serving"].called = running["serving"].called
    BY <1>4, <1>7 DEF Instances, Places
  <2>4. CASE where = "serving"
    <3>1. Here' \subseteq Here \cup {g} /\ There' = There /\ Between' = Between /\ journal' = journal
      BY <1>5, <1>7, <2>4, InstanceChanges DEF Here, Between
    <3>2. BillsOf(g)'
      BY <1>1, <2>1, <2>4, <3>1 DEF BillsOf, Bills, One
    <3>3. \A h \in Generations \ {g} : BillsOf(h)'
      BY <2>2, <3>1, BillsOthers
    <3>4. (Here \cap Between)' \subseteq {None}
      BY <2>1, <3>1 DEF BillsHold
    <3> QED BY <2>3, <3>1, <3>2, <3>3, <3>4 DEF BillsHold, BillsOf
  <2>5. CASE where = "late"
    <3>1. [at |-> clock, trace |-> g] \in Line /\ journal' = Append(journal, [at |-> clock, trace |-> g])
      BY <1>1, <1>7, <2>5 DEF Line
    <3>2. Between' = Between \cup {g}
      BY <3>1, LineMore
    <3>3. Here' = Here /\ There' \subseteq There \cup {g}
      BY <1>5, <1>7, <2>5, InstanceChanges DEF There
    <3>4. BillsOf(g)'
      BY <1>1, <2>1, <2>5, <3>2, <3>3 DEF BillsOf, Bills, One
    <3>5. \A h \in Generations \ {g} : BillsOf(h)'
      BY <2>2, <3>2, <3>3, BillsOthers
    <3>6. (Here \cap Between)' \subseteq {None}
      BY <2>1, <3>2, <3>3 DEF BillsHold
    <3>7. running'["late"].called /\ running'["serving"].called
      BY <1>2, <2>3, <2>5 DEF BillsHold
    <3> QED BY <3>4, <3>5, <3>6, <3>7 DEF BillsHold, BillsOf
  <2> QED BY <2>4, <2>5 DEF Places
<1> QED BY <1>6, <1>7 DEF GenerationStarts, i, limited

LEMMA RecordBills ==
  ASSUME CallTypes, Instances, BillsHold, NEW where \in Places, NEW g \in Generations, NEW failed \in BOOLEAN,
         GenerationRecord(where, g, failed)
  PROVE  BillsHold'
<1> DEFINE traces == running[where].traces
           new == IF failed THEN traces ELSE Spent(traces, g)
           i == [running[where] EXCEPT !.traces = new]
<1>1. None \notin Generations /\ generations[g].at # None
  BY CallsAssumption DEF GenerationRecord
<1>2. Rated(running[where], clock) /\ (where = "late" => running["late"].called)
  BY DEF GenerationRecord, Called, Instances
<1>3. i.traces = new /\ i.called = running[where].called
  BY <1>2 DEF Rated
<1>4. running' = [running EXCEPT ![where] = i]
  BY DEF GenerationRecord
<1>5. IF failed THEN Known(new) = Known(traces) ELSE Known(new) \subseteq Known(traces) \ {g}
  BY TakenKnown DEF Spent
<1>6. Known(traces) = IF where = "serving" THEN Here ELSE There
  BY DEF Here, There, Places
<1> HIDE DEF i, new, traces
<1>7. /\ Here' \subseteq Here /\ There' \subseteq There
      /\ ~failed => IF where = "serving" THEN g \notin Here' ELSE g \notin There'
  BY <1>3, <1>4, <1>5, <1>6, InstanceChanges DEF Places
<1>8. Between' \subseteq Between \cup {None} /\ (where # "late" => journal' = journal)
  BY ChargeBetween DEF GenerationRecord
<1>9. running'["late"].called = running["late"].called /\ running'["serving"].called = running["serving"].called
  BY <1>3, <1>4 DEF Instances, Places
<1>10. BillsOf(g)'
  <2>1. /\ generations'[g].at = generations[g].at /\ generations'[g].shared = generations[g].shared
        /\ generations'[g].billed = (IF ~failed /\ Contained(traces, g, clock)
                                     THEN generations[g].billed + 1 ELSE generations[g].billed)
        /\ generations[g].billed \in Nat /\ generations[g].shared \in Nat
    BY GenerationRecorded DEF CallTypes, Generation, traces
  <2>2. generations[g].billed + Bills(g, Here, There, Between) <= 1 + generations[g].shared
    BY DEF BillsHold
  <2>3. Contained(traces, g, clock) => IF where = "serving" THEN g \in Here ELSE g \in There
    BY <1>6, TrimmedKnown DEF Contained
  <2>4. g \in Between' => g \in Between
    BY <1>1, <1>8
  <2>5. generations'[g].billed + Bills(g, Here', There', Between') <= 1 + generations'[g].shared
    BY <1>7, <2>1, <2>2, <2>3, <2>4 DEF Bills, One
  <2> QED BY <1>1, <2>1, <2>5 DEF BillsOf
<1>11. \A h \in Generations \ {g} : BillsOf(h)'
  BY <1>1, <1>7, <1>8, GenerationRecorded, BillsOthers
<1>12. (Here \cap Between)' \subseteq {None}
  BY <1>7, <1>8 DEF BillsHold
<1>13. running'["serving"].called /\ (~running'["late"].called => journal' = <<>> /\ There' = {})
  BY <1>2, <1>7, <1>8, <1>9 DEF BillsHold
<1> QED BY <1>10, <1>11, <1>12, <1>13 DEF BillsHold, BillsOf

LEMMA HandOverBills == ASSUME CallTypes, Instances, BillsHold, HandOver PROVE BillsHold'
<1>1. PICK traces : /\ running' = [late |-> running["serving"], serving |-> NewInstance(traces)]
                    /\ \A g \in Generations : g \in Known(traces) => Contained(running["serving"].traces, g, clock)
  BY HandedOver
<1>2. journal = <<>> /\ journal' = <<>> /\ There = {} /\ Between = {} /\ Between' = {}
  <2>1. journal = <<>> /\ There = {} /\ journal' = journal
    BY DEF HandOver, BillsHold
  <2> QED BY <2>1 DEF Between
<1>3. Here' = Known(traces) /\ There' = Here /\ (running'["late"].called <=> running["serving"].called)
  BY <1>1 DEF There, Here, NewInstance
<1>4. \A g \in Generations : Contained(running["serving"].traces, g, clock) => g \in Here
  BY TrimmedKnown DEF Contained, Here
<1>5. ASSUME NEW g \in Generations PROVE BillsOf(g)'
  <2>1. /\ generations'[g].at = generations[g].at /\ generations'[g].billed = generations[g].billed
        /\ generations'[g].shared = (IF Contained(running["serving"].traces, g, clock)
                                     THEN generations[g].shared + 1 ELSE generations[g].shared)
        /\ generations[g].billed \in Nat /\ generations[g].shared \in Nat
    BY GenerationsShared DEF CallTypes, Generation
  <2>2. /\ generations[g].at = None => generations[g].billed = 0 /\ g \notin Here
        /\ generations[g].billed + One(g \in Here) <= 1 + generations[g].shared
    BY <1>2, <2>1 DEF BillsHold, Bills, One
  <2>3. /\ g \in Here' => Contained(running["serving"].traces, g, clock)
        /\ Contained(running["serving"].traces, g, clock) => g \in Here
        /\ (g \in There' <=> g \in Here) /\ g \notin Between'
    BY <1>1, <1>2, <1>3, <1>4
  <2>4. generations'[g].billed + Bills(g, Here', There', Between') <= 1 + generations'[g].shared
    BY <2>1, <2>2, <2>3 DEF Bills, One
  <2> QED BY <2>1, <2>2, <2>3, <2>4 DEF BillsOf
<1>6. running'["serving"].called /\ (~running'["late"].called => There' = {})
  <2>1. running["serving"].called
    BY DEF BillsHold
  <2> QED BY <1>1, <1>3, <2>1 DEF NewInstance
<1> QED BY <1>2, <1>5, <1>6 DEF BillsHold, BillsOf

LEMMA BillsHoldStep == ASSUME CallTypes, Instances, BillsHold, [Next]_vars PROVE BillsHold'
<1>1. CASE Balances \/ Tick \/ UNCHANGED vars
  <2>1. UNCHANGED <<running, journal, generations>>
    BY <1>1 DEF Balances, Tick, vars, callVars
  <2> QED BY <2>1, BillsStay DEF Here, There, Between, BillsHold
<1>2. ASSUME NEW where \in Places, NEW i, i.traces = running[where].traces, i.called = running[where].called,
             running' = [running EXCEPT ![where] = i], UNCHANGED <<journal, generations>>
      PROVE  BillsHold'
  <2>1. Here' = Here /\ There' = There /\ Between' = Between
    BY <1>2, InstanceChanges DEF Places, Here, There, Between
  <2>2. running'["late"].called = running["late"].called /\ running'["serving"].called = running["serving"].called
    BY <1>2 DEF Instances, Places
  <2> QED BY <1>2, <2>1, <2>2, BillsStay DEF BillsHold
<1>3. ASSUME NEW where \in Places, NEW request \in AllRequests, Requests(where, request) PROVE BillsHold'
  <2>1. Rated(running[where], clock)
    BY DEF Instances
  <2>2. \E i : /\ i.traces = running[where].traces /\ i.called = running[where].called
               /\ running' = [running EXCEPT ![where] = i]
    BY <1>3, <2>1, LimitedTraces DEF Requests
  <2> QED BY <1>2, <1>3, <2>2 DEF Requests
<1>4. ASSUME NEW where \in Places, CallEnds(where) PROVE BillsHold'
  <2>1. UNCHANGED <<running, generations>> /\ Called(where) /\ (Charge(where) \/ NoCharge)
    BY <1>4 DEF CallEnds
  <2>2. Between' \subseteq Between \cup {None} /\ (where # "late" => journal' = journal)
    BY <2>1, ChargeBetween
  <2>3. ~running'["late"].called => journal' = <<>> /\ There' = {}
    BY <2>1, <2>2 DEF BillsHold, There, Called
  <2>4. Here' = Here /\ There' = There
    BY <2>1 DEF Here, There
  <2> QED BY <2>1, <2>2, <2>3, <2>4, BillsStay DEF BillsHold
<1>5. CASE ResetRPM
  <2>1. Rated(running["serving"], clock)
    BY DEF Instances, Places
  <2>2. \E i : /\ i.traces = running["serving"].traces /\ i.called = running["serving"].called
               /\ running' = [running EXCEPT !["serving"] = i]
    <3>1. PICK c, w, t, p : running["serving"] = [called |-> c, window |-> w, traces |-> t, passed |-> p]
      BY <2>1 DEF Rated
    <3>2. running' = [running EXCEPT !["serving"] = [running["serving"] EXCEPT !.window = None, !.passed = <<>>]]
      BY <1>5 DEF ResetRPM
    <3> QED BY <3>1, <3>2
  <2> QED BY <1>2, <1>5, <2>2 DEF ResetRPM, Places
<1>6. CASE Follow
  <2> DEFINE traces == Adopted(running["serving"].traces, journal)
             i == [running["serving"] EXCEPT !.traces = traces]
  <2>1. running' = [running EXCEPT !["serving"] = i] /\ journal' = <<>> /\ generations' = generations
    BY <1>6 DEF Follow
  <2>2. i.traces = traces /\ i.called = running["serving"].called
    BY DEF Instances, Places, Rated
  <2>3. Known(traces) \subseteq Here \cup Between
    BY AdoptedKnown DEF CallTypes, Here, Between
  <2> HIDE DEF i, traces
  <2>4. Here' \subseteq Here \cup Between /\ There' = There /\ Between' = {}
    <3>1. Here' = Known(traces) /\ There' = There
      BY <2>1, <2>2, InstanceChanges DEF Places
    <3>2. Between' = {}
      BY <2>1 DEF Between
    <3> QED BY <2>3, <3>1, <3>2
  <2>5. running'["late"].called = running["late"].called /\ running'["serving"].called = running["serving"].called
    BY <2>1, <2>2 DEF Instances, Places
  <2>6. ASSUME NEW g \in Generations PROVE BillsOf(g)'
    <3>1. /\ generations[g].at = None => generations[g].billed = 0 /\ g \notin Here \cup There \cup Between
          /\ generations[g].billed + Bills(g, Here, There, Between) <= 1 + generations[g].shared
          /\ generations[g].billed \in Nat /\ generations[g].shared \in Nat
      BY DEF BillsHold, CallTypes, Generation
    <3>2. (g \in Here' => g \in Here \/ g \in Between) /\ (g \in There' <=> g \in There) /\ g \notin Between'
      BY <2>4
    <3> QED BY <2>1, <3>1, <3>2, SMTT(30) DEF BillsOf, Bills, One
  <2> QED BY <2>1, <2>4, <2>5, <2>6 DEF BillsHold, BillsOf
<1>7. CASE FollowEnds
  <2>1. running' = [running EXCEPT !["late"] = Gone] /\ journal = <<>> /\ UNCHANGED <<journal, generations>>
    BY <1>7 DEF FollowEnds
  <2>2. Here' = Here /\ There' = {} /\ Between' = Between /\ running'["serving"].called = running["serving"].called
    BY <2>1 DEF Here, There, Between, Gone, NoTraces, Known, Instances, Places
  <2> QED BY <2>1, <2>2, BillsStay DEF BillsHold
<1>8. CASE Dies
  <2>1. /\ running' = [serving |-> NewInstance(NoTraces), late |-> Gone] /\ journal' = <<>>
        /\ generations' = [g \in Generations |-> [generations[g] EXCEPT !.lost = @ \/ generations[g].at # None]]
    BY <1>8 DEF Dies
  <2>2. Here' = {} /\ There' = {} /\ Between' = {} /\ running'["serving"].called
    BY <2>1 DEF Here, There, Between, NewInstance, Gone, NoTraces, Known
  <2>3. ASSUME NEW g \in Generations PROVE BillsOf(g)'
    <3>1. generations'[g].at = generations[g].at /\ generations'[g].billed = generations[g].billed
          /\ generations'[g].shared = generations[g].shared
          /\ generations[g].billed \in Nat /\ generations[g].shared \in Nat
      BY <2>1 DEF CallTypes, Generation
    <3>2. /\ generations[g].at = None => generations[g].billed = 0
          /\ generations[g].billed + Bills(g, Here, There, Between) <= 1 + generations[g].shared
      BY DEF BillsHold
    <3> QED BY <2>2, <3>1, <3>2 DEF BillsOf, Bills, One
  <2> QED BY <2>1, <2>2, <2>3 DEF BillsHold, BillsOf
<1> QED BY <1>1, <1>3, <1>4, <1>5, <1>6, <1>7, <1>8, StartBills, RecordBills, HandOverBills DEF Next

LEMMA BillsInvariant == Spec => [](CallsTyped /\ Instances /\ BillsHold)
<1>1. Init => CallsTyped /\ Instances /\ BillsHold
  BY BalanceTypedInit, CallTypesInit, InstancesInit, BillsHoldInit DEF CallsTyped
<1>2. CallsTyped /\ Instances /\ BillsHold /\ [Next]_vars => (CallsTyped /\ Instances /\ BillsHold)'
  BY BalanceTypedStep, CallTypesHold, InstancesHold, BillsHoldStep DEF CallsTyped
<1> QED BY <1>1, <1>2, PTL DEF Spec

(* However many records carry its trace id, a generation is billed once for
   the instance that admitted it and once for every replacement that left it
   with both instances (mediaTraceSet.take and the hand-over of the traces). *)
THEOREM BilledOnce == Spec => []GenerationBilledOnce
<1>1. ASSUME CallsTyped, BillsHold PROVE GenerationBilledOnce
  <2> SUFFICES ASSUME NEW g \in Generations PROVE generations[g].billed <= 1 + generations[g].shared
    BY DEF GenerationBilledOnce
  <2>1. generations[g].billed \in Nat /\ generations[g].shared \in Nat
    BY <1>1 DEF CallsTyped, CallTypes, Generation
  <2>2. generations[g].billed + Bills(g, Here, There, Between) <= 1 + generations[g].shared
    BY <1>1 DEF BillsHold
  <2> QED BY <2>1, <2>2 DEF Bills, One
<1> QED BY <1>1, BillsInvariant, PTL

----------------------------------------------------------------------------
\* Generations are remembered in the order they came

(* The order is by time and ends by now; a known generation is in it, with the
   time it was admitted, at[g]. *)
Orderly(m, at, now) ==
  /\ IsTraces(m)
  /\ \A j, k \in 1..Len(m.order) : j <= k => m.order[j].at <= m.order[k].at
  /\ \A k \in 1..Len(m.order) : m.order[k].at <= now
  /\ \A g \in Known(m) : /\ m.index[g] = at[g]
                         /\ \E k \in 1..Len(m.order) : m.order[k].id = g /\ m.order[k].at = at[g]

LEMMA NoTracesOrderly == ASSUME NEW at, NEW now PROVE Orderly(NoTraces, at, now)
<1>1. Len(NoTraces.order) = 0 /\ Known(NoTraces) = {}
  BY DEF NoTraces, Known
<1> QED BY <1>1, NoTracesTyped DEF Orderly

\* The n oldest go, and no others.
LEMMA PoppedOrderly ==
  ASSUME NEW m, NEW at, NEW now \in Nat, Orderly(m, at, now), NEW n \in 0..Len(m.order)
  PROVE  /\ Orderly(Popped(m, n), at, now)
         /\ \A g \in Known(Popped(m, n)) : g \in Known(m) /\ \E k \in n + 1..Len(m.order) : m.order[k].id = g /\ m.order[k].at = at[g]
         /\ \A g \in Known(m) \ Known(Popped(m, n)) : \E k \in 1..n : m.order[k].id = g /\ m.order[k].at = at[g]
<1> DEFINE L == Len(m.order)
           p == Popped(m, n)
           ids == {m.order[k].id : k \in {j \in 1..n : Awaited(m, m.order[j])}}
<1>1. L \in Nat /\ n \in Nat /\ n <= L /\ m.order \in Seq(Trace)
  BY DEF Orderly, IsTraces
<1>2. IsTraces(p) /\ Len(p.order) = L - n /\ \A k \in 1..L - n : p.order[k] = m.order[n + k]
  <2>1. IsTraces(m)
    BY DEF Orderly
  <2> QED BY <2>1, PoppedTyped
<1>3. p.index = [g \in DOMAIN m.index \ ids |-> m.index[g]]
  BY DEF Popped, Without
<1> HIDE DEF p
<1>4. Known(p) = Known(m) \ ids /\ \A g \in Known(p) : p.index[g] = m.index[g]
  BY <1>3 DEF Known
<1>5. ASSUME NEW g \in Known(p)
      PROVE  \E k \in n + 1..L : m.order[k].id = g /\ m.order[k].at = at[g]
  <2>1. g \in Known(m) /\ g \notin ids /\ m.index[g] = at[g]
    BY <1>4 DEF Orderly
  <2>2. PICK k \in 1..L : m.order[k].id = g /\ m.order[k].at = at[g]
    BY <2>1 DEF Orderly
  <2>3. Awaited(m, m.order[k])
    BY <2>1, <2>2 DEF Awaited
  <2>4. k \notin 1..n
    BY <2>1, <2>2, <2>3
  <2> QED BY <1>1, <2>2, <2>4
<1>6. ASSUME NEW g \in Known(m) \ Known(p)
      PROVE  \E k \in 1..n : m.order[k].id = g /\ m.order[k].at = at[g]
  <2>1. PICK k \in 1..n : Awaited(m, m.order[k]) /\ g = m.order[k].id
    BY <1>4
  <2> QED BY <2>1 DEF Awaited, Orderly
<1>7. Orderly(p, at, now)
  <2>1. \A j, k \in 1..Len(p.order) : j <= k => p.order[j].at <= p.order[k].at
    <3>1. ASSUME NEW j \in 1..L - n, NEW k \in 1..L - n, j <= k PROVE m.order[n + j].at <= m.order[n + k].at
      BY <1>1, <3>1 DEF Orderly
    <3> QED BY <1>2, <3>1
  <2>2. \A k \in 1..Len(p.order) : p.order[k].at <= now
    <3>1. ASSUME NEW k \in 1..L - n PROVE m.order[n + k].at <= now
      BY <1>1 DEF Orderly
    <3> QED BY <1>2, <3>1
  <2>3. ASSUME NEW g \in Known(p)
        PROVE  p.index[g] = at[g] /\ \E k \in 1..Len(p.order) : p.order[k].id = g /\ p.order[k].at = at[g]
    <3>1. PICK k \in n + 1..L : m.order[k].id = g /\ m.order[k].at = at[g]
      BY <1>5
    <3>2. k - n \in 1..L - n /\ n + (k - n) = k
      BY <1>1
    <3>3. p.order[k - n].id = g /\ p.order[k - n].at = at[g] /\ k - n \in 1..Len(p.order)
      BY <1>2, <3>1, <3>2
    <3>4. p.index[g] = at[g]
      BY <1>4 DEF Orderly
    <3> QED BY <3>3, <3>4
  <2> QED BY <1>2, <2>1, <2>2, <2>3 DEF Orderly
<1> QED BY <1>4, <1>5, <1>6, <1>7 DEF p

\* Trimming forgets none that is fresh.
LEMMA TrimmedOrderly ==
  ASSUME NEW m, NEW at, NEW now \in Nat, Orderly(m, at, now)
  PROVE  /\ Orderly(Trimmed(m, now), at, now)
         /\ \A g \in Known(m) : ~Expired(at[g], now) => g \in Known(Trimmed(m, now))
<1>1. PICK n \in 0..Len(m.order) : TrimmedAt(m, now, n) /\ Trimmed(m, now) = Popped(m, n)
  BY TrimmedPops DEF Orderly
<1>2. ASSUME NEW g \in Known(m), ~Expired(at[g], now) PROVE g \in Known(Popped(m, n))
  <2> SUFFICES ASSUME g \notin Known(Popped(m, n)) PROVE FALSE
    OBVIOUS
  <2>1. PICK k \in 1..n : m.order[k].id = g /\ m.order[k].at = at[g]
    BY PoppedOrderly
  <2> QED BY <1>1, <1>2, <2>1 DEF TrimmedAt
<1> QED BY <1>1, <1>2, PoppedOrderly

\* Making room forgets one only for as many that came with it or after it.
LEMMA RoomOrderly ==
  ASSUME NEW m, NEW at, NEW now \in Nat, Orderly(m, at, now), IsFiniteSet(Known(m))
  PROVE  /\ Orderly(Room(m), at, now) /\ Known(Room(m)) \subseteq Known(m)
         /\ \A g \in Known(m) \ Known(Room(m)) : Cardinality({h \in Known(m) : at[h] >= at[g]}) >= Capacity
<1>1. PICK n \in 0..Len(m.order) : Room(m) = Popped(m, n) /\ \A k \in 0..(n - 1) : Full(Popped(m, k))
  BY RoomPops DEF Orderly
<1>2. ASSUME NEW g \in Known(m) \ Known(Popped(m, n))
      PROVE  Cardinality({h \in Known(m) : at[h] >= at[g]}) >= Capacity
  <2> DEFINE later == {h \in Known(m) : at[h] >= at[g]}
  <2>0. Len(m.order) \in Nat /\ n <= Len(m.order) /\ n \in Nat
    BY DEF Orderly, IsTraces
  <2>1. PICK k \in 1..n : m.order[k].id = g /\ m.order[k].at = at[g]
    BY PoppedOrderly
  <2>2. k - 1 \in 0..(n - 1) /\ k - 1 \in 0..Len(m.order) /\ (k - 1) + 1 = k /\ k \in 1..Len(m.order)
    BY <2>0
  <2>3. ASSUME NEW h \in Known(Popped(m, k - 1)) PROVE h \in later
    <3>1. h \in Known(m) /\ \E j \in k..Len(m.order) : m.order[j].id = h /\ m.order[j].at = at[h]
      BY <2>2, PoppedOrderly
    <3>2. PICK j \in k..Len(m.order) : m.order[j].at = at[h]
      BY <3>1
    <3>3. m.order[k].at <= m.order[j].at /\ m.order[k].at \in Nat /\ m.order[j].at \in Nat
      <4>1. j \in 1..Len(m.order) /\ k <= j /\ m.order[j] \in Trace /\ m.order[k] \in Trace
        BY <2>0, <2>2, <3>2 DEF Orderly, IsTraces
      <4> QED BY <2>2, <4>1 DEF Orderly, Trace
    <3> QED BY <2>1, <3>1, <3>2, <3>3
  <2>4. Cardinality(Known(Popped(m, k - 1))) >= Capacity
    BY <1>1, <2>2 DEF Full
  <2>5. IsFiniteSet(later) /\ Known(Popped(m, k - 1)) \subseteq later
    BY <2>3, FS_Subset
  <2>6. Cardinality(Known(Popped(m, k - 1))) <= Cardinality(later)
        /\ Cardinality(Known(Popped(m, k - 1))) \in Nat /\ Cardinality(later) \in Nat
    BY <2>5, FS_Subset, FS_CardinalityType
  <2> QED BY <2>4, <2>6, TracesAssumption
<1> QED BY <1>1, <1>2, PoppedOrderly, PoppedKnown

\* One more at the end.
LEMMA AppendedOrderly ==
  ASSUME NEW m, NEW at, NEW now \in Nat, Orderly(m, at, now), NEW g \in Generations, at[g] = now
  PROVE  Orderly([order |-> Append(m.order, [id |-> g, at |-> now]), index |-> With(m.index, g, now)], at, now)
<1> DEFINE trace == [id |-> g, at |-> now]
           o == Append(m.order, trace)
           i == With(m.index, g, now)
           L == Len(m.order)
<1>1. m.order \in Seq(Trace) /\ L \in Nat /\ trace \in Trace
  BY DEF Orderly, IsTraces, Trace
<1>2. o \in Seq(Trace) /\ Len(o) = L + 1 /\ o[L + 1] = trace /\ \A k \in 1..L : o[k] = m.order[k]
  BY <1>1
<1>3. IsTraces([order |-> o, index |-> i])
  BY <1>2, WithTyped DEF Orderly
<1>4. DOMAIN i = Known(m) \cup {g} /\ \A h \in DOMAIN i : i[h] = IF h = g THEN now ELSE m.index[h]
  BY DEF With, Known
<1> HIDE DEF o, i
<1>5. \A k \in 1..L : m.order[k].at <= now
  BY DEF Orderly
<1>6. \A k \in 1..L + 1 : k \in 1..L \/ k = L + 1
  BY <1>1
<1>7. \A j, k \in 1..L + 1 : j <= k => o[j].at <= o[k].at
  <2> SUFFICES ASSUME NEW j \in 1..L + 1, NEW k \in 1..L + 1, j <= k PROVE o[j].at <= o[k].at
    OBVIOUS
  <2>1. CASE k \in 1..L
    <3>1. j \in 1..L
      BY <1>1, <2>1
    <3> QED BY <1>2, <2>1, <3>1 DEF Orderly
  <2>2. CASE k = L + 1 /\ j \in 1..L
    BY <1>2, <1>5, <2>2
  <2>3. CASE k = L + 1 /\ j = L + 1
    BY <1>2, <2>3
  <2> QED BY <1>6, <2>1, <2>2, <2>3
<1>8. \A k \in 1..L + 1 : o[k].at <= now
  BY <1>2, <1>5, <1>6
<1>9. ASSUME NEW h \in DOMAIN i PROVE i[h] = at[h] /\ \E k \in 1..L + 1 : o[k].id = h /\ o[k].at = at[h]
  <2>1. CASE h = g
    BY <1>1, <1>2, <1>4, <2>1
  <2>2. CASE h # g
    <3>1. h \in Known(m)
      BY <1>4, <2>2
    <3>2. m.index[h] = at[h] /\ \E k \in 1..L : m.order[k].id = h /\ m.order[k].at = at[h]
      BY <3>1 DEF Orderly
    <3> QED BY <1>1, <1>2, <1>4, <2>2, <3>2
  <2> QED BY <2>1, <2>2
<1> QED BY <1>2, <1>3, <1>7, <1>8, <1>9 DEF Orderly, Known, o, i

\* One more in its place: those before it came no later, those after it did.
LEMMA SortedOrderly ==
  ASSUME NEW m, NEW at, NEW now \in Nat, Orderly(m, at, now), NEW g \in Generations, at[g] \in Nat, at[g] <= now
  PROVE  Orderly([order |-> Sorted(m.order, [id |-> g, at |-> at[g]]), index |-> With(m.index, g, at[g])], at, now)
<1> DEFINE trace == [id |-> g, at |-> at[g]]
           o == Sorted(m.order, trace)
           i == With(m.index, g, at[g])
           L == Len(m.order)
           b == Before(m.order, trace)
           S == {k \in 1..L : m.order[k].at <= at[g]}
<1>1. m.order \in Seq(Trace) /\ L \in Nat /\ trace \in Trace /\ trace.id = g /\ trace.at = at[g]
  BY DEF Orderly, IsTraces, Trace
<1>2. /\ o \in Seq(Trace) /\ Len(o) = L + 1 /\ b \in 0..L
      /\ \A n \in 1..L + 1 : o[n] = IF n <= b THEN m.order[n] ELSE IF n = b + 1 THEN trace ELSE m.order[n - 1]
  BY <1>1, SortedTyped
<1>3. IsTraces([order |-> o, index |-> i])
  BY <1>2, WithTyped DEF Orderly
<1>4. DOMAIN i = Known(m) \cup {g} /\ \A h \in DOMAIN i : i[h] = IF h = g THEN at[g] ELSE m.index[h]
  BY DEF With, Known
<1>5. \A k \in 1..L : m.order[k].at <= now /\ m.order[k].at \in Nat
  <2>1. \A k \in 1..L : m.order[k] \in Trace
    BY <1>1
  <2>2. \A k \in 1..L : m.order[k].at <= now
    BY DEF Orderly
  <2> QED BY <2>1, <2>2 DEF Trace
<1>6. b = Cardinality(S)
  <2>1. DOMAIN m.order = 1..L
    BY <1>1
  <2>2. b = Cardinality({k \in DOMAIN m.order : m.order[k].at <= at[g]})
    BY DEF Before
  <2> QED BY <2>1, <2>2
<1> HIDE DEF b
<1>7. S = 1..b
  <2> HIDE DEF S
  <2>1. \A k \in S : \A j \in 1..k : j \in S /\ k \in 1..L
    <3> SUFFICES ASSUME NEW k \in S, NEW j \in 1..k PROVE j \in S /\ k \in 1..L
      OBVIOUS
    <3>1. k \in 1..L /\ j \in 1..L /\ j <= k /\ m.order[k].at <= at[g]
      BY <1>1 DEF S
    <3>2. m.order[j].at <= m.order[k].at
      BY <3>1 DEF Orderly
    <3> QED BY <1>5, <3>1, <3>2 DEF S
  <2> DEFINE T == {k \in Nat : k + 1 \notin S}
  <2>2. L \in T /\ T \subseteq Nat
    BY <1>1 DEF S
  <2>3. PICK k \in T : \A j \in T : k <= j
    <3> HIDE DEF T
    <3> QED BY <2>2, LeastNat
  <2>4. S = 1..k
    <3>1. ASSUME NEW j \in 1..k PROVE j \in S
      <4>1. j - 1 \in Nat /\ ~(k <= j - 1) /\ (j - 1) + 1 = j
        OBVIOUS
      <4>2. j - 1 \notin T
        BY <2>3, <4>1
      <4> QED BY <4>1, <4>2
    <3>2. ASSUME NEW j \in S PROVE j \in 1..k
      <4>1. j \in 1..L /\ k + 1 \notin S
        BY <2>3 DEF S
      <4>2. ~(k + 1 \in 1..j)
        BY <2>1, <4>1
      <4> QED BY <4>1, <4>2
    <3> QED BY <3>1, <3>2
  <2>5. Cardinality(1..k) = k
    BY FS_Interval
  <2> QED BY <1>6, <2>4, <2>5
<1>8. /\ \A n \in 1..L : n <= b => m.order[n].at <= at[g]
      /\ \A n \in 1..L : n > b => at[g] <= m.order[n].at
  <2>1. ASSUME NEW n \in 1..L PROVE (n <= b => m.order[n].at <= at[g]) /\ (n > b => at[g] <= m.order[n].at)
    <3>1. n \in S <=> n <= b
      BY <1>2, <1>7
    <3>2. b \in Nat /\ m.order[n].at \in Nat
      BY <1>2, <1>5
    <3>3. m.order[n].at <= at[g] <=> n <= b
      BY <3>1
    <3> QED BY <3>2, <3>3
  <2> QED BY <2>1
<1> HIDE DEF o, i, S, trace
<1>9. ASSUME NEW n \in 1..L + 1
      PROVE  /\ o[n].at <= now
             /\ n <= b => o[n] = m.order[n] /\ n \in 1..L
             /\ n = b + 1 => o[n].at = at[g]
             /\ n > b + 1 => o[n] = m.order[n - 1] /\ n - 1 \in 1..L
  <2>1. n <= b => n \in 1..L
    BY <1>1, <1>2
  <2>2. n > b + 1 => n - 1 \in 1..L /\ ~(n <= b) /\ n # b + 1
    BY <1>1, <1>2
  <2>3. n = b + 1 => ~(n <= b)
    BY <1>2
  <2>4. n <= b \/ n = b + 1 \/ n > b + 1
    BY <1>2
  <2> QED BY <1>1, <1>2, <1>5, <2>1, <2>2, <2>3, <2>4
<1>10. ASSUME NEW j \in 1..L + 1, NEW k \in 1..L + 1, j <= k PROVE o[j].at <= o[k].at
  <2>0. b \in Nat /\ L \in Nat
    BY <1>1, <1>2
  <2>1. CASE k <= b
    <3>1. j <= b
      BY <1>10, <2>0, <2>1
    <3> QED BY <1>9, <1>10, <2>1, <3>1 DEF Orderly
  <2>2. CASE k = b + 1
    <3>1. CASE j <= b
      BY <1>8, <1>9, <2>2, <3>1
    <3>2. CASE j = b + 1
      BY <1>9, <2>2, <3>2
    <3> QED BY <1>10, <2>0, <2>2, <3>1, <3>2
  <2>3. CASE k > b + 1
    <3>0. o[k] = m.order[k - 1] /\ k - 1 \in 1..L /\ k - 1 > b
      BY <1>9, <2>0, <2>3
    <3>1. CASE j <= b
      <4>1. o[j] = m.order[j] /\ j \in 1..L /\ j <= k - 1
        BY <1>9, <2>0, <2>3, <3>1
      <4> QED BY <3>0, <4>1 DEF Orderly
    <3>2. CASE j = b + 1
      BY <1>8, <1>9, <3>0, <3>2
    <3>3. CASE j > b + 1
      <4>1. o[j] = m.order[j - 1] /\ j - 1 \in 1..L /\ j - 1 <= k - 1
        BY <1>9, <1>10, <3>3
      <4> QED BY <3>0, <4>1 DEF Orderly
    <3> QED BY <2>0, <3>1, <3>2, <3>3
  <2> QED BY <2>0, <2>1, <2>2, <2>3
<1>11. ASSUME NEW h \in DOMAIN i PROVE i[h] = at[h] /\ \E k \in 1..L + 1 : o[k].id = h /\ o[k].at = at[h]
  <2>1. CASE h = g
    <3>1. b + 1 \in 1..L + 1 /\ ~(b + 1 <= b)
      BY <1>1, <1>2
    <3>2. o[b + 1] = trace
      BY <1>2, <3>1
    <3> QED BY <1>1, <1>4, <2>1, <3>1, <3>2
  <2>2. CASE h # g
    <3>1. h \in Known(m)
      BY <1>4, <2>2
    <3>2. m.index[h] = at[h]
      BY <3>1 DEF Orderly
    <3>3. PICK k \in 1..L : m.order[k].id = h /\ m.order[k].at = at[h]
      BY <3>1 DEF Orderly
    <3>4. CASE k <= b
      <4>1. k \in 1..L + 1 /\ o[k] = m.order[k]
        BY <1>1, <1>2, <3>4
      <4> QED BY <1>4, <2>2, <3>2, <3>3, <4>1
    <3>5. CASE ~(k <= b)
      <4>1. k + 1 \in 1..L + 1 /\ ~(k + 1 <= b) /\ k + 1 # b + 1 /\ (k + 1) - 1 = k
        BY <1>1, <1>2, <3>5
      <4>2. o[k + 1] = m.order[k]
        BY <1>2, <4>1
      <4> QED BY <1>4, <2>2, <3>2, <3>3, <4>1, <4>2
    <3> QED BY <3>4, <3>5
  <2> QED BY <2>1, <2>2
<1>12. \A n \in 1..L + 1 : o[n].at <= now
  BY <1>9
<1> QED BY <1>2, <1>3, <1>10, <1>11, <1>12 DEF Orderly, Known, o, i, trace

\* What stays so when others are admitted, and when time goes by.
LEMMA OrderlyStays ==
  ASSUME NEW m, NEW at, NEW now \in Nat, Orderly(m, at, now),
         NEW then, \A g \in Known(m) : then[g] = at[g], NEW later \in Nat, now <= later
  PROVE  Orderly(m, then, later)
<1>1. \A k \in 1..Len(m.order) : m.order[k].at <= later
  <2> SUFFICES ASSUME NEW k \in 1..Len(m.order) PROVE m.order[k].at <= later
    OBVIOUS
  <2>1. m.order[k] \in Trace /\ m.order[k].at <= now
    BY DEF Orderly, IsTraces
  <2> QED BY <2>1 DEF Trace
<1> QED BY <1>1 DEF Orderly

(* Remembering forgets a fresh generation only for as many that came with it
   or after it. *)
LEMMA RememberedOrderly ==
  ASSUME NEW m, NEW at, NEW now \in Nat, Orderly(m, at, now), IsFiniteSet(Known(m)),
         NEW g \in Generations, g \notin Known(m), at[g] = now
  PROVE  /\ Orderly(Remembered(m, g, now), at, now) /\ g \in Known(Remembered(m, g, now))
         /\ \A h \in Known(m) :
              \/ h \in Known(Remembered(m, g, now)) \/ Expired(at[h], now)
              \/ Cardinality({i \in Known(m) : at[i] >= at[h]}) >= Capacity
<1> DEFINE kept == Trimmed(m, now)
           room == Room(kept)
           new == [order |-> Append(room.order, [id |-> g, at |-> now]), index |-> With(room.index, g, now)]
<1>1. /\ Orderly(kept, at, now) /\ Known(kept) \subseteq Known(m)
      /\ \A h \in Known(m) : ~Expired(at[h], now) => h \in Known(kept)
  BY TrimmedOrderly, TrimmedKnown
<1>2. IsFiniteSet(Known(kept))
  BY <1>1, FS_Subset
<1>3. Remembered(m, g, now) = new
  <2>1. g \notin Known(kept)
    BY <1>1
  <2> QED BY <2>1 DEF Remembered
<1> HIDE DEF kept
<1>4. /\ Orderly(room, at, now) /\ Known(room) \subseteq Known(kept)
      /\ \A h \in Known(kept) \ Known(room) : Cardinality({i \in Known(kept) : at[i] >= at[h]}) >= Capacity
  BY <1>1, <1>2, RoomOrderly
<1> HIDE DEF room
<1>5. Orderly(new, at, now)
  BY <1>4, AppendedOrderly
<1>6. Known(new) = Known(room) \cup {g}
  BY DEF Known, With
<1>7. ASSUME NEW h \in Known(m), h \notin Known(new), ~Expired(at[h], now)
      PROVE  Cardinality({i \in Known(m) : at[i] >= at[h]}) >= Capacity
  <2> DEFINE few == {i \in Known(kept) : at[i] >= at[h]}
             many == {i \in Known(m) : at[i] >= at[h]}
  <2>1. h \in Known(kept) \ Known(room)
    BY <1>1, <1>6, <1>7
  <2>2. Cardinality(few) >= Capacity
    BY <1>4, <2>1
  <2>3. few \subseteq many /\ IsFiniteSet(many)
    BY <1>1, FS_Subset
  <2>4. Cardinality(few) <= Cardinality(many) /\ Cardinality(few) \in Nat /\ Cardinality(many) \in Nat
    BY <2>3, FS_Subset, FS_CardinalityType
  <2> QED BY <2>2, <2>4, TracesAssumption
<1> QED BY <1>3, <1>5, <1>6, <1>7

\* What another instance admitted is sorted in, and none that is fresh forgotten.
LEMMA RememberedAtOrderly ==
  ASSUME NEW m, NEW at, NEW now \in Nat, Orderly(m, at, now), NEW g \in Generations, at[g] \in Nat, at[g] <= now
  PROVE  /\ Orderly(RememberedAt(m, g, at[g], now), at, now)
         /\ \A h \in Known(m) \cup {g} : ~Expired(at[h], now) => h \in Known(RememberedAt(m, g, at[g], now))
<1> DEFINE kept == Trimmed(m, now)
           new == [order |-> Sorted(kept.order, [id |-> g, at |-> at[g]]), index |-> With(kept.index, g, at[g])]
<1>1. Orderly(kept, at, now) /\ \A h \in Known(m) : ~Expired(at[h], now) => h \in Known(kept)
  BY TrimmedOrderly
<1>2. RememberedAt(m, g, at[g], now) = IF g \in Known(kept) \/ Expired(at[g], now) THEN kept ELSE new
  BY DEF RememberedAt
<1> HIDE DEF kept
<1>3. Orderly(new, at, now)
  BY <1>1, SortedOrderly
<1>4. Known(new) = Known(kept) \cup {g}
  BY DEF Known, With
<1> HIDE DEF new
<1> QED BY <1>1, <1>2, <1>3, <1>4

\* A record takes its generation, and none that is fresh.
LEMMA TakenOrderly ==
  ASSUME NEW m, NEW at, NEW now \in Nat, Orderly(m, at, now), NEW g
  PROVE  /\ Orderly(Taken(m, g, now), at, now)
         /\ \A h \in Known(m) \ {g} : ~Expired(at[h], now) => h \in Known(Taken(m, g, now))
<1> DEFINE kept == Trimmed(m, now)
           i == Without(kept.index, {g})
<1>1. Orderly(kept, at, now) /\ \A h \in Known(m) : ~Expired(at[h], now) => h \in Known(kept)
  BY TrimmedOrderly
<1>2. Taken(m, g, now) = [order |-> kept.order, index |-> i]
  <2>1. Taken(m, g, now) = [kept EXCEPT !.index = i]
    BY DEF Taken
  <2> HIDE DEF kept, i
  <2>2. PICK o, x : kept = [order |-> o, index |-> x]
    BY <1>1 DEF Orderly, IsTraces
  <2> QED BY <2>1, <2>2
<1>3. IsTraces(Taken(m, g, now))
  BY TakenTyped DEF Orderly
<1>4. DOMAIN i = Known(kept) \ {g} /\ \A h \in DOMAIN i : i[h] = kept.index[h]
  BY DEF Known, Without
<1> HIDE DEF kept, i
<1>5. Known([order |-> kept.order, index |-> i]) = Known(kept) \ {g}
  BY <1>4 DEF Known
<1> QED BY <1>1, <1>2, <1>3, <1>4, <1>5 DEF Orderly

\* A newer instance forgets none that is fresh, and learns of all the lines bring.
LEMMA AdoptedOrderly ==
  ASSUME NEW traces, NEW at, clock \in Nat, Orderly(traces, at, clock), NEW lines, Len(lines) \in Nat,
         \A n \in 1..Len(lines) : lines[n].trace # None =>
           /\ lines[n].trace \in Generations /\ lines[n].at = at[lines[n].trace]
           /\ lines[n].at \in Nat /\ lines[n].at <= clock
  PROVE  /\ Orderly(Adopted(traces, lines), at, clock)
         /\ \A g \in Known(traces) : ~Expired(at[g], clock) => g \in Known(Adopted(traces, lines))
         /\ \A n \in 1..Len(lines) : lines[n].trace # None /\ ~Expired(lines[n].at, clock)
                                     => lines[n].trace \in Known(Adopted(traces, lines))
<1> DEFINE L == Len(lines)
           Brought(k) == {lines[n].trace : n \in {j \in 1..k : lines[j].trace # None}}
<1>1. PICK f : /\ f[0] = traces /\ Adopted(traces, lines) = f[L]
               /\ \A n \in 1..L : f[n] = IF lines[n].trace = None THEN f[n - 1]
                                        ELSE RememberedAt(f[n - 1], lines[n].trace, lines[n].at, clock)
  BY AdoptedSteps
<1> DEFINE Learned(k) == /\ Orderly(f[k], at, clock)
                         /\ \A g \in Known(traces) \cup Brought(k) : ~Expired(at[g], clock) => g \in Known(f[k])
           S == {k \in Nat : k <= L => Learned(k)}
<1>2. 0 \in S
  <2>1. Brought(0) = {}
    OBVIOUS
  <2> QED BY <1>1, <2>1
<1>3. ASSUME NEW k \in Nat, k \in S PROVE k + 1 \in S
  <2> SUFFICES ASSUME k + 1 <= L PROVE Learned(k + 1)
    OBVIOUS
  <2>1. k + 1 \in 1..L /\ (k + 1) - 1 = k /\ k <= L
    OBVIOUS
  <2> DEFINE line == lines[k + 1]
  <2>2. Learned(k)
    BY <1>3, <2>1
  <2>3. f[k + 1] = IF line.trace = None THEN f[k] ELSE RememberedAt(f[k], line.trace, line.at, clock)
    BY <1>1, <2>1
  <2>4. Brought(k + 1) = IF line.trace = None THEN Brought(k) ELSE Brought(k) \cup {line.trace}
    <3>1. 1..k + 1 = (1..k) \cup {k + 1}
      OBVIOUS
    <3> QED BY <3>1
  <2>5. line.trace # None => /\ line.trace \in Generations /\ line.at = at[line.trace]
                             /\ line.at \in Nat /\ line.at <= clock
    BY <2>1
  <2> HIDE DEF Brought, line, S
  <2>6. CASE line.trace = None
    BY <2>2, <2>3, <2>4, <2>6
  <2>7. CASE line.trace # None
    <3>1. /\ Orderly(f[k + 1], at, clock)
          /\ \A h \in Known(f[k]) \cup {line.trace} : ~Expired(at[h], clock) => h \in Known(f[k + 1])
      BY <2>2, <2>3, <2>5, <2>7, RememberedAtOrderly
    <3> QED BY <2>2, <2>4, <2>7, <3>1
  <2> QED BY <2>6, <2>7
<1>4. Learned(L)
  <2> HIDE DEF S, Learned
  <2>1. Nat \subseteq S
    BY <1>2, <1>3, SetInduction
  <2> QED BY <2>1 DEF S
<1>5. \A n \in 1..L : lines[n].trace # None => lines[n].trace \in Brought(L) /\ lines[n].at = at[lines[n].trace]
  OBVIOUS
<1> HIDE DEF Brought
<1> QED BY <1>1, <1>4, <1>5

\* When the generations were admitted, and those that came with one or after it.
Admission == [g \in Generations |-> generations[g].at]
Since(g) == {h \in Generations \ {g} : generations[h].at # None /\ generations[h].at >= generations[g].at}

\* A generation an instance has to know, or to be told of.
Awaits(g) ==
  /\ generations[g].at # None /\ ~generations[g].lost /\ generations[g].billed = 0
  /\ ~Expired(generations[g].at, clock) /\ Cardinality(Since(g)) < Capacity

\* The lines bring the time of admission with them.
LinesTell ==
  \A n \in 1..Len(journal) : journal[n].trace # None => journal[n].at = generations[journal[n].trace].at

Remembers ==
  /\ Orderly(running["serving"].traces, Admission, clock)
  /\ LinesTell
  /\ \A g \in Begun : generations[g].at <= clock
  /\ \A g \in Generations : Awaits(g) => g \in Here \cup Between

\* What no step takes back.
Older ==
  /\ clock <= clock'
  /\ \A g \in Begun : /\ generations'[g].at = generations[g].at
                      /\ generations[g].lost => generations'[g].lost
                      /\ generations[g].billed <= generations'[g].billed

\* So what is awaited after a step was awaited before it.
LEMMA AwaitsBack ==
  ASSUME CallTypes, CallTypes', Older, NEW g \in Begun, Awaits(g)'
  PROVE  Awaits(g)
<1>1. /\ g \in Generations /\ generations[g].at \in Nat /\ generations'[g].at = generations[g].at
      /\ generations[g].billed \in Nat /\ generations'[g].billed \in Nat /\ clock \in Nat /\ clock' \in Nat
  BY DEF Begun, CallTypes, Generation, Older
<1>2. ~generations[g].lost /\ generations[g].billed = 0
  BY <1>1 DEF Awaits, Older
<1>3. ~Expired(generations[g].at, clock)
  BY <1>1, TracesAssumption DEF Awaits, Older, Expired
<1>4. Since(g) \subseteq Since(g)' /\ Since(g)' \subseteq Begun' /\ IsFiniteSet(Begun')
  BY <1>1 DEF Since, Begun, Older, CallTypes
<1>5. IsFiniteSet(Since(g)')
  BY <1>4, FS_Subset
<1>6. Cardinality(Since(g)) <= Cardinality(Since(g)')
      /\ Cardinality(Since(g)) \in Nat /\ Cardinality(Since(g)') \in Nat
  BY <1>4, <1>5, FS_Subset, FS_CardinalityType
<1>7. Cardinality(Since(g)) < Capacity
  BY <1>6, TracesAssumption DEF Awaits
<1> QED BY <1>1, <1>2, <1>3, <1>7 DEF Awaits, Begun

\* What is left to show of a step.
LEMMA RemembersNext ==
  ASSUME CallTypes, CallTypes', Remembers, Older,
         Orderly(running'["serving"].traces, Admission', clock'), LinesTell',
         \A g \in Begun' \ Begun : generations'[g].at <= clock' /\ g \in Here' \cup Between',
         \A g \in Begun : Awaits(g) /\ Awaits(g)' /\ g \in Here \cup Between => g \in Here' \cup Between'
  PROVE  Remembers'
<1>1. ASSUME NEW g \in Begun' PROVE generations'[g].at <= clock'
  <2>1. CASE g \in Begun
    <3>1. generations'[g].at = generations[g].at /\ generations[g].at <= clock /\ clock <= clock'
      BY <2>1 DEF Remembers, Older
    <3>2. generations[g].at \in Nat /\ clock \in Nat /\ clock' \in Nat
      BY <2>1 DEF CallTypes, Begun, Generation
    <3> QED BY <3>1, <3>2
  <2> QED BY <2>1
<1>2. ASSUME NEW g \in Generations, Awaits(g)' PROVE g \in Here' \cup Between'
  <2>1. g \in Begun'
    BY <1>2 DEF Awaits, Begun
  <2>2. CASE g \in Begun
    <3>1. Awaits(g)
      BY <1>2, <2>2, AwaitsBack
    <3>2. g \in Here \cup Between
      BY <3>1 DEF Remembers
    <3> QED BY <1>2, <2>2, <3>1, <3>2
  <2> QED BY <2>1, <2>2
<1> QED BY <1>1, <1>2 DEF Remembers

\* Who is known was admitted.
LEMMA HereBegun == ASSUME BillsHold, Remembers PROVE Here \subseteq Begun
BY DEF BillsHold, Remembers, Orderly, IsTraces, Here, Known, Begun

\* No line that brings a generation is new.
LinesStay == \A n \in 1..Len(journal') : journal'[n].trace # None => \E k \in 1..Len(journal) : journal'[n] = journal[k]

LEMMA LinesStillTell ==
  ASSUME CallTypes, LinesTell, LinesStay, Older
  PROVE  LinesTell'
<1> SUFFICES ASSUME NEW n \in 1..Len(journal'), journal'[n].trace # None
             PROVE  journal'[n].at = generations'[journal'[n].trace].at
  BY DEF LinesTell
<1>1. PICK k \in 1..Len(journal) : journal'[n] = journal[k]
  BY DEF LinesStay
<1>2. journal[k].trace \in Generations /\ journal[k].at \in Nat /\ journal[k].at = generations[journal[k].trace].at
  <2>1. journal[k] \in Line /\ journal[k].trace # None
    BY <1>1 DEF CallTypes
  <2>2. journal[k].at = generations[journal[k].trace].at
    BY <2>1 DEF LinesTell
  <2> QED BY <2>1, <2>2 DEF Line
<1>3. journal[k].trace \in Begun
  BY <1>2, CallsAssumption DEF Begun
<1> QED BY <1>1, <1>2, <1>3 DEF Older

\* A step in which the instance learns of none and forgets none.
LEMMA RemembersStay ==
  ASSUME CallTypes, CallTypes', BillsHold, Remembers, Older, Begun' = Begun,
         running'["serving"].traces = running["serving"].traces, LinesStay, Between \subseteq Between'
  PROVE  Remembers'
<1>1. \A g \in Known(running["serving"].traces) : Admission'[g] = Admission[g]
  BY HereBegun DEF Here, Begun, Admission, Older
<1>2. clock \in Nat /\ clock' \in Nat /\ clock <= clock'
  BY DEF CallTypes, Older
<1>3. Orderly(running'["serving"].traces, Admission', clock')
  BY <1>1, <1>2, OrderlyStays DEF Remembers
<1>4. LinesTell'
  BY LinesStillTell DEF Remembers
<1>5. Here' = Here
  BY DEF Here
<1> QED BY <1>3, <1>4, <1>5, RemembersNext

LEMMA ChargeLines ==
  ASSUME CallTypes, NEW where \in Places, Charge(where) \/ NoCharge
  PROVE  LinesStay /\ Between \subseteq Between'
<1>1. CASE journal' = journal
  BY <1>1 DEF Between, LinesStay
<1>2. CASE journal' = Append(journal, [at |-> clock, trace |-> None])
  <2>1. [at |-> clock, trace |-> None] \in Line
    BY DEF CallTypes, Line
  <2>2. Between' = Between \cup {[at |-> clock, trace |-> None].trace}
    BY <1>2, <2>1, LineMore
  <2>3. Len(journal) \in Nat /\ journal \in Seq(Line)
    BY DEF CallTypes
  <2>4. Len(journal') = Len(journal) + 1 /\ journal'[Len(journal) + 1] = [at |-> clock, trace |-> None]
        /\ \A n \in 1..Len(journal) : journal'[n] = journal[n]
    BY <1>2, <2>3
  <2>5. LinesStay
    BY <2>3, <2>4 DEF LinesStay
  <2> QED BY <2>2, <2>5
<1> QED BY <1>1, <1>2 DEF Charge, NoCharge

\* A generation starts at the instance that has the ledger,
LEMMA RemembersStart ==
  ASSUME CallTypes, CallTypes', Instances, BillsHold, Remembers, Older, NEW g \in Generations, g \notin Begun,
         generations'[g].at = clock, \A h \in Generations \ {g} : generations'[h] = generations[h],
         UNCHANGED <<clock, journal>>,
         running'["serving"].traces = Remembered(running["serving"].traces, g, clock)
  PROVE  Remembers'
<1> DEFINE m == running["serving"].traces
           at == Admission'
<1>1. clock \in Nat /\ clock' = clock /\ Here \subseteq Begun /\ Known(m) = Here /\ g \notin Here /\ None \notin Nat
  BY HereBegun, CallsAssumption DEF CallTypes, Here
<1>2. at[g] = clock /\ \A h \in Begun : at[h] = Admission[h] /\ at[h] = generations[h].at
  BY DEF Admission, Begun
<1>3. Orderly(m, at, clock)
  BY <1>1, <1>2, OrderlyStays DEF Remembers
<1>4. IsFiniteSet(Here)
  BY <1>1, FS_Subset DEF CallTypes
<1>5. /\ Orderly(running'["serving"].traces, at, clock) /\ g \in Here'
      /\ \A h \in Here : \/ h \in Here' \/ Expired(at[h], clock)
                         \/ Cardinality({i \in Here : at[i] >= at[h]}) >= Capacity
  <2> HIDE DEF at, m
  <2>1. /\ Orderly(Remembered(m, g, clock), at, clock) /\ g \in Known(Remembered(m, g, clock))
        /\ \A h \in Known(m) : \/ h \in Known(Remembered(m, g, clock)) \/ Expired(at[h], clock)
                               \/ Cardinality({i \in Known(m) : at[i] >= at[h]}) >= Capacity
    BY <1>1, <1>2, <1>3, <1>4, RememberedOrderly
  <2>2. Here' = Known(Remembered(m, g, clock))
    BY DEF Here, m
  <2> QED BY <1>1, <2>1, <2>2 DEF m
<1>6. Between' = Between
  BY DEF Between
<1>7. Begun' \ Begun \subseteq {g}
  BY DEF Begun
<1>8. ASSUME NEW h \in Here, Awaits(h)' PROVE h \in Here'
  <2> SUFFICES ASSUME h \notin Here' PROVE FALSE
    OBVIOUS
  <2> DEFINE K == {i \in Here : at[i] >= at[h]}
  <2>1. h \in Begun /\ h # g /\ at[h] = generations'[h].at /\ at[h] = generations[h].at /\ at[h] \in Nat
    BY <1>1, <1>2 DEF Begun, CallTypes, Generation, Admission
  <2>2. ~Expired(at[h], clock) /\ Cardinality(Since(h)') < Capacity
    BY <1>1, <1>8, <2>1 DEF Awaits
  <2>3. Cardinality(K) >= Capacity
    BY <1>5, <2>2
  <2>4. IsFiniteSet(K) /\ h \in K /\ g \notin K
    BY <1>1, <1>4, <2>1, FS_Subset
  <2>5. Cardinality(K \ {h}) = Cardinality(K) - 1 /\ IsFiniteSet(K \ {h}) /\ Cardinality(K) \in Nat
    BY <2>4, FS_RemoveElement, FS_CardinalityType
  <2>6. Cardinality((K \ {h}) \cup {g}) = Cardinality(K \ {h}) + 1
    BY <2>4, <2>5, FS_AddElement
  <2>7. (K \ {h}) \cup {g} \subseteq Since(h)'
    <3>1. ASSUME NEW i \in K \ {h} PROVE i \in Since(h)'
      <4>1. i \in Begun /\ i # g /\ generations'[i] = generations[i] /\ at[i] = generations[i].at /\ at[i] >= at[h]
        BY <1>1, <1>2 DEF Begun
      <4> QED BY <2>1, <4>1 DEF Since, Begun
    <3>2. g \in Since(h)'
      <4>1. generations[h].at <= clock
        BY <2>1 DEF Remembers
      <4> QED BY <1>1, <2>1, <4>1 DEF Since
    <3> QED BY <3>1, <3>2
  <2>8. IsFiniteSet(Since(h)')
    <3>1. Since(h)' \subseteq Begun'
      BY DEF Since, Begun
    <3> QED BY <3>1, FS_Subset DEF CallTypes
  <2>9. Cardinality((K \ {h}) \cup {g}) <= Cardinality(Since(h)') /\ Cardinality(Since(h)') \in Nat
    BY <2>7, <2>8, FS_Subset, FS_CardinalityType
  <2> QED BY <2>2, <2>3, <2>5, <2>6, <2>9, TracesAssumption
<1>9. LinesTell'
  <2>1. LinesStay
    BY DEF LinesStay
  <2> QED BY <2>1, LinesStillTell DEF Remembers
<1>10. \A h \in Begun' \ Begun : generations'[h].at <= clock' /\ h \in Here' \cup Between'
  BY <1>1, <1>5, <1>7
<1> HIDE DEF at
<1> QED BY <1>1, <1>5, <1>6, <1>8, <1>9, <1>10, RemembersNext DEF at

\* or at the quiesced one, which tells the newer one with a line.
LEMMA RemembersTold ==
  ASSUME CallTypes, CallTypes', BillsHold, Remembers, Older, NEW g \in Generations, g \notin Begun,
         generations'[g].at = clock, \A h \in Generations \ {g} : generations'[h] = generations[h],
         UNCHANGED clock, journal' = Append(journal, [at |-> clock, trace |-> g]),
         running'["serving"].traces = running["serving"].traces
  PROVE  Remembers'
<1>1. clock \in Nat /\ clock' = clock /\ Here \subseteq Begun
  BY HereBegun DEF CallTypes
<1>2. \A h \in Known(running["serving"].traces) : Admission'[h] = Admission[h]
  BY <1>1 DEF Admission, Begun, Here
<1>3. Orderly(running'["serving"].traces, Admission', clock')
  BY <1>1, <1>2, OrderlyStays DEF Remembers
<1>4. [at |-> clock, trace |-> g] \in Line /\ journal \in Seq(Line) /\ Len(journal) \in Nat
  BY <1>1 DEF Line, CallTypes
<1>5. Between' = Between \cup {g} /\ Here' = Here
  <2>1. Between' = Between \cup {[at |-> clock, trace |-> g].trace}
    BY <1>4, LineMore
  <2> QED BY <2>1 DEF Here
<1>6. Len(journal') = Len(journal) + 1 /\ journal'[Len(journal) + 1] = [at |-> clock, trace |-> g]
      /\ \A n \in 1..Len(journal) : journal'[n] = journal[n]
  BY <1>4
<1>7. LinesTell'
  <2> SUFFICES ASSUME NEW n \in 1..Len(journal'), journal'[n].trace # None
               PROVE  journal'[n].at = generations'[journal'[n].trace].at
    BY DEF LinesTell
  <2>1. CASE n = Len(journal) + 1
    BY <1>6, <2>1
  <2>2. CASE n # Len(journal) + 1
    <3>1. n \in 1..Len(journal) /\ journal'[n] = journal[n]
      BY <1>4, <1>6, <2>2
    <3>2. journal[n].trace \in Generations /\ journal[n].at \in Nat
      <4>1. journal[n] \in Line
        BY <1>4, <3>1
      <4> QED BY <3>1, <4>1 DEF Line
    <3>3. journal[n].at = generations[journal[n].trace].at
      BY <3>1 DEF Remembers, LinesTell
    <3>4. journal[n].trace \in Begun
      BY <3>2, <3>3, CallsAssumption DEF Begun
    <3> QED BY <3>1, <3>2, <3>3, <3>4 DEF Begun
  <2> QED BY <2>1, <2>2
<1>8. \A h \in Begun' \ Begun : generations'[h].at <= clock' /\ h \in Here' \cup Between'
  BY <1>1, <1>5 DEF Begun
<1> QED BY <1>3, <1>5, <1>7, <1>8, RemembersNext

\* A record comes for one: it is billed then, unless it failed.
LEMMA RemembersRecord ==
  ASSUME CallTypes, CallTypes', Instances, BillsHold, Remembers, Older, NEW where \in Places, NEW g \in Generations,
         NEW failed \in BOOLEAN, GenerationRecord(where, g, failed)
  PROVE  Remembers'
<1> DEFINE m == running["serving"].traces
<1>1. clock' = clock /\ clock \in Nat
  BY DEF GenerationRecord, CallTypes
<1>2. LinesStay /\ Between \subseteq Between'
  BY ChargeLines DEF GenerationRecord
<1>3. \A h \in Generations : generations'[h].at = generations[h].at
  BY GenerationRecorded
<1>4. Begun' = Begun /\ Admission' = Admission
  BY <1>3 DEF Begun, Admission
<1>5. CASE where = "late" \/ failed
  <2>1. running'["serving"].traces = m
    <3>1. running["serving"] = [running["serving"] EXCEPT !.traces = m]
      BY DEF Instances, Rated, Places
    <3> QED BY <1>5, <3>1 DEF GenerationRecord, Instances, Places
  <2> QED BY <1>2, <1>4, <2>1, RemembersStay
<1>6. CASE where = "serving" /\ ~failed
  <2>1. running'["serving"].traces = Taken(m, g, clock)
    BY <1>6 DEF GenerationRecord, Spent, Instances, Rated, Places
  <2>2. Orderly(m, Admission, clock)
    BY DEF Remembers
  <2>3. /\ Orderly(Taken(m, g, clock), Admission, clock)
        /\ \A h \in Known(m) \ {g} : ~Expired(Admission[h], clock) => h \in Known(Taken(m, g, clock))
    BY <1>1, <2>2, TakenOrderly
  <2>4. ASSUME NEW h \in Begun, Awaits(h)', h \in Here PROVE h \in Here'
    <3>1. ~Expired(Admission[h], clock) /\ generations'[h].billed = 0
      BY <1>1, <1>3, <2>4 DEF Awaits, Begun, Admission
    <3>2. h # g
      <4> SUFFICES ASSUME h = g PROVE FALSE
        OBVIOUS
      <4>1. Contained(m, g, clock)
        BY <1>1, <2>2, <2>4, <3>1, TrimmedOrderly DEF Contained, Here
      <4>2. generations'[g].billed = generations[g].billed + 1 /\ generations[g].billed \in Nat
        BY <1>6, <4>1, GenerationRecorded DEF CallTypes, Generation
      <4> QED BY <3>1, <4>2
    <3> QED BY <2>1, <2>3, <2>4, <3>1, <3>2 DEF Here
  <2>5. LinesTell'
    BY <1>2, LinesStillTell DEF Remembers
  <2>6. Orderly(running'["serving"].traces, Admission', clock')
    BY <1>1, <1>4, <2>1, <2>3
  <2> QED BY <1>2, <1>4, <2>4, <2>5, <2>6, RemembersNext
<1> QED BY <1>5, <1>6 DEF Places

\* A newer instance takes over: the lines it is given bring all that is fresh.
LEMMA RemembersHandOver ==
  ASSUME CallTypes, CallTypes', Instances, BillsHold, Remembers, Older, HandOver
  PROVE  Remembers'
<1> DEFINE m == running["serving"].traces
           kept == Trimmed(m, clock)
           lines == [n \in DOMAIN kept.order |->
                      [at |-> kept.order[n].at, trace |-> IF n \in Live(m, clock) THEN kept.order[n].id ELSE None]]
           traces == Adopted(NoTraces, lines)
<1>1. clock' = clock /\ clock \in Nat /\ journal' = journal
  BY DEF HandOver, CallTypes
<1>2. \A g \in Generations : generations'[g].at = generations[g].at
  BY GenerationsShared
<1>3. Begun' = Begun /\ Admission' = Admission
  BY <1>2 DEF Begun, Admission
<1>4. /\ Orderly(kept, Admission, clock)
      /\ \A g \in Known(m) : ~Expired(Admission[g], clock) => g \in Known(kept)
  BY <1>1, TrimmedOrderly DEF Remembers
<1>5. running'["serving"].traces = traces
  BY DEF HandOver, NewInstance
<1>6. Live(m, clock) = {n \in DOMAIN kept.order : Awaited(kept, kept.order[n])}
  BY DEF Live
<1>7. Known(kept) \subseteq Known(m)
  BY TrimmedKnown
<1> HIDE DEF kept, m
<1>8. kept.order \in Seq(Trace) /\ DOMAIN kept.order = 1..Len(kept.order) /\ Len(kept.order) \in Nat
  BY <1>4 DEF Orderly, IsTraces
<1>9. Len(lines) = Len(kept.order) /\ Len(lines) \in Nat
  BY <1>8
<1>10. ASSUME NEW n \in 1..Len(lines)
       PROVE  /\ lines[n].at = kept.order[n].at
              /\ Awaited(kept, kept.order[n]) => lines[n].trace = kept.order[n].id
              /\ ~Awaited(kept, kept.order[n]) => lines[n].trace = None
  <2>1. n \in DOMAIN kept.order
    BY <1>8, <1>9
  <2>2. lines[n] = [at |-> kept.order[n].at, trace |-> IF n \in Live(m, clock) THEN kept.order[n].id ELSE None]
    BY <2>1
  <2>3. n \in Live(m, clock) <=> Awaited(kept, kept.order[n])
    BY <1>6, <2>1
  <2> QED BY <2>2, <2>3
<1> HIDE DEF lines
<1>11. ASSUME NEW n \in 1..Len(lines), lines[n].trace # None
       PROVE  /\ lines[n].trace \in Generations /\ lines[n].at = Admission[lines[n].trace]
              /\ lines[n].at \in Nat /\ lines[n].at <= clock
  <2>1. kept.order[n] \in Trace /\ kept.order[n].at <= clock
    BY <1>4, <1>8, <1>9 DEF Orderly
  <2>2. Awaited(kept, kept.order[n]) /\ lines[n].trace = kept.order[n].id /\ lines[n].at = kept.order[n].at
    BY <1>10, <1>11
  <2>3. kept.index[kept.order[n].id] = Admission[kept.order[n].id]
    BY <1>4, <2>2 DEF Orderly, Awaited
  <2> QED BY <2>1, <2>2, <2>3 DEF Awaited, Trace
<1>12. /\ Orderly(traces, Admission, clock)
       /\ \A n \in 1..Len(lines) : lines[n].trace # None /\ ~Expired(lines[n].at, clock)
                                   => lines[n].trace \in Known(traces)
  <2>1. Orderly(NoTraces, Admission, clock)
    BY NoTracesOrderly
  <2> HIDE DEF traces
  <2>2. /\ Orderly(Adopted(NoTraces, lines), Admission, clock)
        /\ \A n \in 1..Len(lines) : lines[n].trace # None /\ ~Expired(lines[n].at, clock)
                                    => lines[n].trace \in Known(Adopted(NoTraces, lines))
    BY <1>1, <1>9, <1>11, <2>1, AdoptedOrderly
  <2> QED BY <2>2 DEF traces
<1> HIDE DEF traces
<1>13. ASSUME NEW g \in Begun, Awaits(g), g \in Here PROVE g \in Here'
  <2>1. g \in Known(m) /\ ~Expired(Admission[g], clock) /\ g # None
    BY <1>13, CallsAssumption DEF Here, m, Awaits, Begun, Admission
  <2>2. g \in Known(kept)
    BY <1>4, <2>1
  <2>3. kept.index[g] = Admission[g] /\ \E k \in 1..Len(kept.order) : kept.order[k].id = g /\ kept.order[k].at = Admission[g]
    BY <1>4, <2>2 DEF Orderly
  <2>4. PICK k \in 1..Len(kept.order) : kept.order[k].id = g /\ kept.order[k].at = Admission[g]
    BY <2>3
  <2>5. Awaited(kept, kept.order[k])
    BY <2>2, <2>3, <2>4 DEF Awaited
  <2>6. k \in 1..Len(lines) /\ lines[k].trace = g /\ lines[k].at = Admission[g]
    BY <1>9, <1>10, <2>4, <2>5
  <2> QED BY <1>5, <1>12, <2>1, <2>6 DEF Here
<1>14. LinesTell' /\ Between' = Between
  <2>1. LinesStay
    BY <1>1 DEF LinesStay
  <2> QED BY <1>1, <2>1, LinesStillTell DEF Remembers, Between
<1>15. Orderly(running'["serving"].traces, Admission', clock')
  BY <1>1, <1>3, <1>5, <1>12
<1> QED BY <1>3, <1>13, <1>14, <1>15, RemembersNext

\* The newer instance follows the journal.
LEMMA RemembersFollow ==
  ASSUME CallTypes, CallTypes', Instances, BillsHold, Remembers, Older, Follow
  PROVE  Remembers'
<1> DEFINE m == running["serving"].traces
<1>1. clock' = clock /\ clock \in Nat /\ journal' = <<>> /\ generations' = generations
  BY DEF Follow, CallTypes
<1>2. Begun' = Begun /\ Admission' = Admission
  BY <1>1 DEF Begun, Admission
<1>3. running'["serving"].traces = Adopted(m, journal)
  BY DEF Follow, Instances, Rated, Places
<1>4. Len(journal) \in Nat /\ \A n \in 1..Len(journal) : journal[n] \in Line
  BY DEF CallTypes
<1>5. ASSUME NEW n \in 1..Len(journal), journal[n].trace # None
      PROVE  /\ journal[n].trace \in Generations /\ journal[n].at = Admission[journal[n].trace]
             /\ journal[n].at \in Nat /\ journal[n].at <= clock /\ journal[n].trace \in Begun
  <2>1. journal[n].trace \in Generations /\ journal[n].at \in Nat
    BY <1>4, <1>5 DEF Line
  <2>2. journal[n].at = generations[journal[n].trace].at
    BY <1>5 DEF Remembers, LinesTell
  <2>3. journal[n].trace \in Begun
    BY <2>1, <2>2, CallsAssumption DEF Begun
  <2> QED BY <2>1, <2>2, <2>3 DEF Admission, Remembers
<1>6. Orderly(m, Admission, clock)
  BY DEF Remembers
<1>7. /\ Orderly(Adopted(m, journal), Admission, clock)
      /\ \A g \in Known(m) : ~Expired(Admission[g], clock) => g \in Known(Adopted(m, journal))
      /\ \A n \in 1..Len(journal) : journal[n].trace # None /\ ~Expired(journal[n].at, clock)
                                    => journal[n].trace \in Known(Adopted(m, journal))
  BY <1>1, <1>4, <1>5, <1>6, AdoptedOrderly
<1>8. ASSUME NEW g \in Begun, Awaits(g), g \in Here \cup Between PROVE g \in Here'
  <2>1. ~Expired(Admission[g], clock) /\ g # None
    BY <1>8, CallsAssumption DEF Awaits, Begun, Admission
  <2>2. CASE g \in Here
    BY <1>3, <1>7, <2>1, <2>2 DEF Here
  <2>3. CASE g \in Between
    <3>1. PICK n \in 1..Len(journal) : g = journal[n].trace
      BY <2>3 DEF Between
    <3> QED BY <1>3, <1>5, <1>7, <2>1, <3>1 DEF Here
  <2> QED BY <1>8, <2>2, <2>3
<1>9. LinesTell'
  BY <1>1 DEF LinesTell
<1>10. Orderly(running'["serving"].traces, Admission', clock')
  BY <1>1, <1>2, <1>3, <1>7
<1> QED BY <1>2, <1>8, <1>9, <1>10, RemembersNext

\* What no step takes back, step by step.
LEMMA OlderStep == ASSUME CallTypes, [Next]_vars PROVE Older
<1>1. clock \in Nat /\ generations \in [Generations -> Generation] /\ \A g \in Generations : generations[g].billed \in Nat
  BY DEF CallTypes, Generation
<1>2. CASE UNCHANGED <<clock, generations>>
  BY <1>1, <1>2 DEF Older, Begun
<1>3. CASE Tick
  BY <1>1, <1>3 DEF Tick, Older, Begun
<1>4. ASSUME NEW where \in Places, NEW g \in Generations, GenerationStarts(where, g) PROVE Older
  <2>1. clock' = clock /\ generations[g].at = None /\ \A h \in Generations \ {g} : generations'[h] = generations[h]
    BY <1>4, GenerationStarted DEF GenerationStarts
  <2> QED BY <1>1, <2>1 DEF Older, Begun
<1>5. ASSUME NEW where \in Places, NEW g \in Generations, NEW failed \in BOOLEAN, GenerationRecord(where, g, failed)
      PROVE  Older
  <2>1. clock' = clock
    BY <1>5 DEF GenerationRecord
  <2>2. /\ \A h \in Generations \ {g} : generations'[h] = generations[h]
        /\ generations'[g].at = generations[g].at /\ generations'[g].lost = generations[g].lost
        /\ generations'[g].billed \in {generations[g].billed, generations[g].billed + 1}
    BY <1>5, GenerationRecorded
  <2> QED BY <1>1, <2>1, <2>2 DEF Older, Begun
<1>6. CASE HandOver
  <2>1. clock' = clock
    BY <1>6 DEF HandOver
  <2>2. \A g \in Generations : /\ generations'[g].at = generations[g].at /\ generations'[g].lost = generations[g].lost
                               /\ generations'[g].billed = generations[g].billed
    BY <1>6, GenerationsShared
  <2> QED BY <1>1, <2>1, <2>2 DEF Older, Begun
<1>7. CASE Dies
  <2>1. clock' = clock
        /\ generations' = [g \in Generations |-> [generations[g] EXCEPT !.lost = @ \/ generations[g].at # None]]
    BY <1>7 DEF Dies
  <2>2. \A g \in Generations : /\ generations'[g].at = generations[g].at /\ (generations[g].lost => generations'[g].lost)
                               /\ generations'[g].billed = generations[g].billed
    BY <1>1, <2>1 DEF Generation
  <2>3. \A g \in Generations : generations[g].billed <= generations'[g].billed
    BY <1>1, <2>2
  <2>4. clock <= clock'
    BY <1>1, <2>1
  <2> QED BY <2>2, <2>3, <2>4, Zenon DEF Older, Begun
<1>8. CASE Balances \/ ResetRPM \/ Follow \/ FollowEnds
  BY <1>2, <1>8 DEF Balances, callVars, ResetRPM, Follow, FollowEnds
<1>9. ASSUME NEW where \in Places, (\E request \in AllRequests : Requests(where, request)) \/ CallEnds(where) PROVE Older
  BY <1>2, <1>9 DEF Requests, CallEnds
<1> QED BY <1>2, <1>3, <1>4, <1>5, <1>6, <1>7, <1>8, <1>9 DEF Next, vars, callVars

LEMMA RemembersInit == ASSUME Init PROVE Remembers
<1>1. running["serving"].traces = NoTraces /\ Begun = {} /\ journal = <<>> /\ clock = 0
  BY DEF Init, NewInstance, Begun, NewGeneration
<1>2. Len(journal) = 0
  BY <1>1
<1>3. Orderly(NoTraces, Admission, clock)
  BY NoTracesOrderly
<1>4. LinesTell
  BY <1>2 DEF LinesTell
<1>5. \A g \in Generations : ~Awaits(g)
  BY <1>1 DEF Awaits, Begun
<1> QED BY <1>1, <1>3, <1>4, <1>5 DEF Remembers

LEMMA RemembersStep ==
  ASSUME BalanceTyped, CallTypes, Instances, BillsHold, Remembers, [Next]_vars
  PROVE  Remembers'
<1> DEFINE m == running["serving"].traces
<1>1. CallTypes' /\ Older
  BY CallTypesHold, OlderStep
<1>2. ASSUME UNCHANGED <<journal, generations>>, running'["serving"].traces = m PROVE Remembers'
  <2>1. LinesStay /\ Between \subseteq Between' /\ Begun' = Begun
    BY <1>2 DEF LinesStay, Between, Begun
  <2> QED BY <1>1, <1>2, <2>1, RemembersStay
<1>3. CASE Balances \/ Tick \/ UNCHANGED vars
  BY <1>2, <1>3 DEF Balances, Tick, vars, callVars
<1>4. ASSUME NEW where \in Places, NEW request \in AllRequests, Requests(where, request) PROVE Remembers'
  <2>1. Rated(running[where], clock)
    BY DEF Instances
  <2>2. \E i : i.traces = running[where].traces /\ running' = [running EXCEPT ![where] = i]
    BY <1>4, <2>1, LimitedTraces DEF Requests
  <2>3. running'["serving"].traces = m
    BY <2>2 DEF Instances, Places
  <2> QED BY <1>2, <1>4, <2>3 DEF Requests
<1>5. ASSUME NEW where \in Places, CallEnds(where) PROVE Remembers'
  <2>1. UNCHANGED <<running, generations>> /\ LinesStay /\ Between \subseteq Between'
    BY <1>5, ChargeLines DEF CallEnds
  <2>2. Begun' = Begun
    BY <2>1 DEF Begun
  <2> QED BY <1>1, <2>1, <2>2, RemembersStay
<1>6. CASE ResetRPM
  <2>1. running'["serving"].traces = m
    BY <1>6 DEF ResetRPM, Instances, Rated, Places
  <2> QED BY <1>2, <1>6, <2>1 DEF ResetRPM
<1>7. CASE FollowEnds
  <2>1. running'["serving"].traces = m
    BY <1>7 DEF FollowEnds, Instances, Places
  <2> QED BY <1>2, <1>7, <2>1 DEF FollowEnds
<1>8. CASE Dies
  <2>1. /\ running'["serving"].traces = NoTraces /\ journal' = <<>>
        /\ generations' = [g \in Generations |-> [generations[g] EXCEPT !.lost = @ \/ generations[g].at # None]]
    BY <1>8 DEF Dies, NewInstance
  <2>2. \A g \in Generations : generations'[g].at = generations[g].at /\ (generations[g].at # None => generations'[g].lost)
    BY <2>1 DEF CallTypes, Generation
  <2>3. Begun' = Begun /\ \A g \in Begun : ~Awaits(g)'
    BY <2>2 DEF Begun, Awaits
  <2>4. Orderly(running'["serving"].traces, Admission', clock') /\ LinesTell'
    <3>1. Len(journal') = 0
      BY <2>1
    <3> QED BY <2>1, <3>1, NoTracesOrderly DEF LinesTell
  <2> QED BY <1>1, <2>3, <2>4, RemembersNext
<1>9. ASSUME NEW where \in Places, NEW g \in Generations, GenerationStarts(where, g) PROVE Remembers'
  <2> DEFINE limited == Limited(running[where], Generates)
             i == [limited EXCEPT !.traces = Remembered(limited.traces, g, clock)]
  <2>1. Rated(running[where], clock) /\ clock \in Nat
    BY DEF Instances, CallTypes
  <2>2. limited.traces = running[where].traces /\ Rated(limited, clock)
    BY <2>1, LimitedTraces, LimitedRated
  <2>3. i.traces = Remembered(running[where].traces, g, clock)
    BY <2>2 DEF Rated
  <2> HIDE DEF i, limited
  <2>4. CASE ~Admits(where, Generates)
    <3>1. running' = [running EXCEPT ![where] = limited] /\ UNCHANGED <<journal, generations>>
      BY <1>9, <2>4 DEF GenerationStarts, limited
    <3>2. running'["serving"].traces = m
      BY <2>2, <3>1 DEF Instances, Places
    <3> QED BY <1>2, <3>1, <3>2
  <2>5. CASE Admits(where, Generates)
    <3>1. /\ running' = [running EXCEPT ![where] = i] /\ UNCHANGED clock
          /\ generations' = [generations EXCEPT ![g].at = clock, ![g].shared = IF where = "late" THEN 1 ELSE 0]
          /\ IF where = "late" THEN journal' = Append(journal, [at |-> clock, trace |-> g]) ELSE UNCHANGED journal
      BY <1>9, <2>5 DEF GenerationStarts, i, limited
    <3>2. generations[g].at = None /\ g \notin Begun
      BY <1>9 DEF GenerationStarts, Begun
    <3>3. generations'[g].at = clock /\ \A h \in Generations \ {g} : generations'[h] = generations[h]
      <4>1. generations' # generations
        <5>1. generations'[g].at = clock
          <6>1. generations[g] \in Generation /\ generations \in [Generations -> Generation]
            BY DEF CallTypes
          <6> QED BY <3>1, <6>1 DEF Generation
        <5> QED BY <2>1, <3>2, <5>1, CallsAssumption
      <4> QED BY <1>9, <4>1, GenerationStarted
    <3>4. CASE where = "serving"
      <4>1. running'["serving"].traces = Remembered(m, g, clock)
        BY <2>3, <3>1, <3>4 DEF Instances, Places
      <4>2. UNCHANGED journal
        BY <3>1, <3>4
      <4> QED BY <1>1, <3>1, <3>2, <3>3, <4>1, <4>2, RemembersStart
    <3>5. CASE where = "late"
      <4>1. running'["serving"].traces = m
        BY <3>1, <3>5 DEF Instances, Places
      <4> QED BY <1>1, <3>1, <3>2, <3>3, <3>5, <4>1, RemembersTold
    <3> QED BY <3>4, <3>5 DEF Places
  <2> QED BY <2>4, <2>5
<1>10. ASSUME NEW where \in Places, NEW g \in Generations, NEW failed \in BOOLEAN, GenerationRecord(where, g, failed)
       PROVE  Remembers'
  BY <1>1, <1>10, RemembersRecord
<1> QED BY <1>1, <1>3, <1>4, <1>5, <1>6, <1>7, <1>8, <1>9, <1>10, RemembersHandOver, RemembersFollow DEF Next

LEMMA RemembersInvariant == Spec => [](CallsTyped /\ Instances /\ BillsHold /\ Remembers)
<1>1. Init => CallsTyped /\ Instances /\ BillsHold /\ Remembers
  BY BalanceTypedInit, CallTypesInit, InstancesInit, BillsHoldInit, RemembersInit DEF CallsTyped
<1>2. CallsTyped /\ Instances /\ BillsHold /\ Remembers /\ [Next]_vars
      => (CallsTyped /\ Instances /\ BillsHold /\ Remembers)'
  BY BalanceTypedStep, CallTypesHold, InstancesHold, BillsHoldStep, RemembersStep DEF CallsTyped
<1> QED BY <1>1, <1>2, PTL DEF Spec

(* A generation that awaits its record is known, or on its way: none is
   forgotten for the time others came, for a record that failed, or by a
   replacement (mediaTraceSet: the order is by time, so trimLocked may stop at
   the first that is fresh, and makeRoom takes the oldest first). *)
THEOREM FreshAreRemembered == Spec => []GenerationsAreRemembered
<1>1. ASSUME CallsTyped, Remembers PROVE GenerationsAreRemembered
  <2> SUFFICES ASSUME NEW g \in Generations, Awaits(g)
               PROVE  Contained(running["serving"].traces, g, clock) \/ \E n \in DOMAIN journal : journal[n].trace = g
    BY DEF GenerationsAreRemembered, Awaits, Since
  <2>1. g \in Here \cup Between
    BY <1>1 DEF Remembers
  <2>2. CASE g \in Here
    <3>1. ~Expired(Admission[g], clock)
      BY DEF Awaits, Admission
    <3>2. Orderly(running["serving"].traces, Admission, clock) /\ clock \in Nat
      BY <1>1 DEF Remembers, CallsTyped, CallTypes
    <3> QED BY <2>2, <3>1, <3>2, TrimmedOrderly DEF Contained, Here
  <2>3. CASE g \in Between
    <3>1. journal \in Seq(Line)
      BY <1>1 DEF CallsTyped, CallTypes
    <3> QED BY <2>3, <3>1 DEF Between
  <2> QED BY <2>1, <2>2, <2>3
<1> QED BY <1>1, RemembersInvariant, PTL

----------------------------------------------------------------------------
\* What calls may overdraw

\* Records that are billed but not deducted yet.
Due == {n \in 1..Len(journal) : journal[n].trace = None}

\* Generations that were billed more than once, the last time for good.
Settled == {g \in Generations : generations[g].billed > 1 /\ g \notin Here \cup Between}

Value(b) == b.nano + b.debited
Slack == MaxInflight + astray + Cardinality(Settled)
Above(value, n) == value > Cost * n

(* What is left of the balance covers every call under way and every record
   due, but for the slack: as many as CPA has under way at once, the calls
   that the quiesced instance lets through and the records it bills, and the
   generations billed again. *)
CreditHolds ==
  /\ Cardinality(Due) <= astray /\ Inflight <= MaxInflight
  /\ up => Above(Value(mem), Inflight + Cardinality(Due) - Slack)
  /\ Above(Value(disk), -Slack) /\ (plan # None => Above(Value(plan), -Slack))
  /\ ~up => calls = 0 /\ journal = <<>> /\ ~running["late"].called /\ Pending = {}

LEMMA AboveLess ==
  ASSUME NEW v \in Int, NEW w \in Int, v <= w, NEW m \in Int, NEW n \in Int, m <= n, Above(v, n)
  PROVE  Above(w, m)
<1>1. Cost \in Nat /\ Cost * n \in Int /\ Cost * m \in Int
  BY CallsAssumption
<1>2. Cost * (n - m) >= 0 /\ Cost * (n - m) = Cost * n - Cost * m
  <2>1. n - m \in Nat
    OBVIOUS
  <2> QED BY <1>1, <2>1
<1> QED BY <1>1, <1>2 DEF Above

LEMMA AboveCharge ==
  ASSUME NEW v \in Int, NEW k \in Nat, NEW m \in Int, NEW n \in Int, m <= n - k, Above(v, n)
  PROVE  v - Cost * k \in Int /\ Above(v - Cost * k, m)
<1>1. Cost \in Nat /\ Cost * n \in Int /\ Cost * k \in Int /\ n - k \in Int
  BY CallsAssumption
<1>2. Cost * (n - k) = Cost * n - Cost * k
  BY <1>1
<1>3. Above(v - Cost * k, n - k)
  BY <1>1, <1>2 DEF Above
<1> QED BY <1>1, <1>3, AboveLess

LEMMA Numbers ==
  ASSUME CallTypes, BillsHold
  PROVE  /\ Pending \subseteq Begun /\ Settled \subseteq Begun /\ BilledAgain \subseteq Begun
         /\ IsFiniteSet(Pending) /\ IsFiniteSet(Settled) /\ IsFiniteSet(BilledAgain) /\ IsFiniteSet(Due)
         /\ Cardinality(Pending) \in Nat /\ Cardinality(Settled) \in Nat /\ Cardinality(Due) \in Nat
         /\ Slack \in Nat /\ Inflight \in Nat
<1>1. Pending \subseteq Begun /\ Settled \subseteq Begun /\ BilledAgain \subseteq Begun /\ IsFiniteSet(Begun)
  BY DEF Pending, Settled, BilledAgain, Begun, BillsHold, CallTypes
<1>2. IsFiniteSet(Pending) /\ IsFiniteSet(Settled) /\ IsFiniteSet(BilledAgain)
  BY <1>1, FS_Subset
<1>3. IsFiniteSet(Due)
  <2>1. Due \subseteq 1..Len(journal) /\ IsFiniteSet(1..Len(journal))
    BY FS_Interval DEF Due, CallTypes
  <2> QED BY <2>1, FS_Subset
<1>4. Cardinality(Pending) \in Nat /\ Cardinality(Settled) \in Nat /\ Cardinality(Due) \in Nat
  BY <1>2, <1>3, FS_CardinalityType
<1>5. Slack \in Nat /\ Inflight \in Nat
  BY <1>4, CallsAssumption DEF Slack, Inflight, CallTypes
<1> QED BY <1>1, <1>2, <1>3, <1>4, <1>5

\* The same after a step.
LEMMA NumbersNext ==
  ASSUME CallTypes', BillsHold'
  PROVE  /\ IsFiniteSet(Pending') /\ IsFiniteSet(Settled') /\ IsFiniteSet(Due')
         /\ Cardinality(Pending') \in Nat /\ Cardinality(Settled') \in Nat /\ Cardinality(Due') \in Nat
         /\ Slack' = MaxInflight + astray' + Cardinality(Settled') /\ Slack' \in Nat
         /\ Inflight' = calls' + Cardinality(Pending') /\ Inflight' \in Nat
<1>1. Pending' \subseteq Begun' /\ Settled' \subseteq Begun' /\ IsFiniteSet(Begun')
  BY DEF Pending, Settled, Begun, BillsHold, CallTypes
<1>2. IsFiniteSet(Pending') /\ IsFiniteSet(Settled')
  BY <1>1, FS_Subset
<1>3. IsFiniteSet(Due')
  <2>1. Due' \subseteq 1..Len(journal') /\ IsFiniteSet(1..Len(journal'))
    BY FS_Interval DEF Due, CallTypes
  <2> QED BY <2>1, FS_Subset
<1>4. Cardinality(Pending') \in Nat /\ Cardinality(Settled') \in Nat /\ Cardinality(Due') \in Nat
  BY <1>2, <1>3, FS_CardinalityType
<1>5. Slack' = MaxInflight + astray' + Cardinality(Settled') /\ Slack' \in Nat
      /\ Inflight' = calls' + Cardinality(Pending') /\ Inflight' \in Nat
  BY <1>4, CallsAssumption DEF Slack, Inflight, CallTypes
<1> QED BY <1>2, <1>3, <1>4, <1>5

\* A settled generation stays settled, unless somebody learns of it.
LEMMA SettledGrows ==
  ASSUME CallTypes, BillsHold, CallTypes', BillsHold',
         \A g \in Settled : generations'[g].billed >= generations[g].billed /\ g \notin Here' \cup Between'
  PROVE  Settled \subseteq Settled' /\ Cardinality(Settled) <= Cardinality(Settled')
<1>1. \A g \in Generations : generations[g].billed \in Nat /\ generations'[g].billed \in Nat
  BY DEF CallTypes, Generation
<1>2. Settled \subseteq Settled'
  BY <1>1 DEF Settled
<1> QED BY <1>2, NumbersNext, FS_Subset

\* The records due after a line more.
LEMMA DueMore ==
  ASSUME CallTypes, NEW line, line \in Line, journal' = Append(journal, line)
  PROVE  Cardinality(Due') = IF line.trace = None THEN Cardinality(Due) + 1 ELSE Cardinality(Due)
<1>1. journal \in Seq(Line) /\ Len(journal) \in Nat
  BY DEF CallTypes
<1>2. /\ Len(journal') = Len(journal) + 1 /\ journal'[Len(journal) + 1] = line
      /\ \A n \in 1..Len(journal) : journal'[n] = journal[n]
  BY <1>1
<1>3. 1..Len(journal) + 1 = (1..Len(journal)) \cup {Len(journal) + 1} /\ Len(journal) + 1 \notin 1..Len(journal)
  BY <1>1
<1>4. Due' = (IF line.trace = None THEN Due \cup {Len(journal) + 1} ELSE Due) /\ Len(journal) + 1 \notin Due
  BY <1>2, <1>3 DEF Due
<1>5. IsFiniteSet(Due)
  <2>1. Due \subseteq 1..Len(journal) /\ IsFiniteSet(1..Len(journal))
    BY <1>1, FS_Interval DEF Due
  <2> QED BY <2>1, FS_Subset
<1> QED BY <1>4, <1>5, FS_AddElement

LEMMA CreditInit == ASSUME Init PROVE CreditHolds
<1>1. Pending = {} /\ Due = {} /\ Settled = {} /\ calls = 0 /\ astray = 0 /\ journal = <<>> /\ up /\ plan = None
  BY DEF Init, BalanceInit, Pending, Due, Settled, NewGeneration
<1>2. Cardinality({}) = 0 /\ MaxInflight \in Nat \ {0} /\ Cost \in Nat \ {0}
  BY FS_EmptySet, CallsAssumption
<1>3. Value(mem) = Credit /\ Value(disk) = Credit /\ Credit \in Nat
  BY CallsAssumption DEF Init, BalanceInit, Value, Empty
<1>4. Inflight = 0 /\ Slack = MaxInflight /\ Cardinality(Due) = 0
  BY <1>1, <1>2 DEF Inflight, Slack
<1>5. Above(Credit, -MaxInflight)
  <2>1. Cost * MaxInflight > 0 /\ Cost * (-MaxInflight) = -(Cost * MaxInflight) /\ Cost * MaxInflight \in Int
    BY <1>2
  <2> QED BY <1>3, <2>1 DEF Above
<1>6. 0 + 0 - MaxInflight = -MaxInflight
  BY <1>2
<1> QED BY <1>1, <1>2, <1>3, <1>4, <1>5, <1>6 DEF CreditHolds

\* Nobody learns again of a generation that is settled.
LEMMA SettledStep ==
  ASSUME CallTypes, Instances, BillsHold, [Next]_vars
  PROVE  \A g \in Settled : generations'[g].billed >= generations[g].billed /\ g \notin Here' \cup Between'
<1> SUFFICES ASSUME NEW g \in Settled
             PROVE  generations'[g].billed >= generations[g].billed /\ g \notin Here' \cup Between'
  OBVIOUS
<1>1. /\ g \in Generations /\ g # None /\ g \notin Here /\ g \notin Between
      /\ generations[g].billed \in Nat /\ generations[g].at # None
  BY CallsAssumption DEF Settled, BillsHold, CallTypes, Generation
<1>2. ASSUME NEW where \in Places, NEW i, i.traces = running[where].traces, running' = [running EXCEPT ![where] = i]
      PROVE  Here' = Here
  BY <1>2, InstanceChanges DEF Places, Here, There
<1>3. CASE Balances \/ Tick \/ UNCHANGED vars
  BY <1>1, <1>3 DEF Balances, Tick, vars, callVars, Here, Between
<1>4. ASSUME NEW where \in Places, NEW request \in AllRequests, Requests(where, request)
      PROVE  Here' = Here /\ Between' = Between /\ generations' = generations
  <2>1. Rated(running[where], clock)
    BY DEF Instances
  <2>2. \E i : i.traces = running[where].traces /\ running' = [running EXCEPT ![where] = i]
    BY <1>4, <2>1, LimitedTraces DEF Requests
  <2> QED BY <1>2, <1>4, <2>2 DEF Requests, Between
<1>5. ASSUME NEW where \in Places, NEW h \in Generations, GenerationStarts(where, h)
      PROVE  generations'[g].billed >= generations[g].billed /\ g \notin Here' \cup Between'
  <2> DEFINE limited == Limited(running[where], Generates)
             i == [limited EXCEPT !.traces = Remembered(limited.traces, h, clock)]
  <2>1. Rated(running[where], clock) /\ h # g /\ clock \in Nat
    BY <1>1, <1>5 DEF Instances, GenerationStarts, CallTypes
  <2>2. limited.traces = running[where].traces /\ Rated(limited, clock)
    BY <2>1, LimitedTraces, LimitedRated
  <2>3. Known(i.traces) \subseteq Known(running[where].traces) \cup {h}
    <3>1. i.traces = Remembered(running[where].traces, h, clock)
      BY <2>2 DEF Rated
    <3> QED BY <3>1, RememberedKnown
  <2> HIDE DEF limited, i
  <2>4. g \notin Here'
    <3>1. CASE running' = [running EXCEPT ![where] = limited]
      BY <1>1, <1>2, <2>2, <3>1
    <3>2. CASE running' = [running EXCEPT ![where] = i]
      BY <1>1, <2>1, <2>3, <3>2, InstanceChanges DEF Places, Here
    <3> QED BY <1>5, <3>1, <3>2 DEF GenerationStarts, limited, i
  <2>5. Between' \subseteq Between \cup {h}
    <3>1. [at |-> clock, trace |-> h] \in Line
      BY <2>1 DEF Line
    <3>2. journal' = journal \/ journal' = Append(journal, [at |-> clock, trace |-> h])
      BY <1>5 DEF GenerationStarts
    <3> QED BY <3>1, <3>2, LineMore DEF Between
  <2>6. generations'[g] = generations[g]
    BY <1>1, <1>5, <2>1, GenerationStarted
  <2> QED BY <1>1, <2>1, <2>4, <2>5, <2>6
<1>6. ASSUME NEW where \in Places, NEW h \in Generations, NEW failed \in BOOLEAN, GenerationRecord(where, h, failed)
      PROVE  generations'[g].billed >= generations[g].billed /\ g \notin Here' \cup Between'
  <2> DEFINE traces == running[where].traces
             new == IF failed THEN traces ELSE Spent(traces, h)
             i == [running[where] EXCEPT !.traces = new]
  <2>1. i.traces = new /\ running' = [running EXCEPT ![where] = i]
    BY <1>6 DEF Instances, Rated, GenerationRecord
  <2>2. Known(new) \subseteq Known(traces)
    BY TakenKnown DEF Spent
  <2> HIDE DEF i, new
  <2>3. Here' \subseteq Here
    BY <2>1, <2>2, InstanceChanges DEF Places, Here
  <2>4. Between' \subseteq Between \cup {None}
    BY <1>6, ChargeBetween DEF GenerationRecord
  <2>5. generations'[g].billed >= generations[g].billed
    BY <1>1, <1>6, GenerationRecorded
  <2> QED BY <1>1, <2>3, <2>4, <2>5
<1>7. ASSUME NEW where \in Places, CallEnds(where)
      PROVE  Here' = Here /\ Between' \subseteq Between \cup {None} /\ generations' = generations
  BY <1>7, ChargeBetween DEF CallEnds, Here
<1>8. CASE ResetRPM
  <2>1. Rated(running["serving"], clock)
    BY DEF Instances, Places
  <2>2. \E i : i.traces = running["serving"].traces /\ running' = [running EXCEPT !["serving"] = i]
    <3>1. PICK c, w, t, p : running["serving"] = [called |-> c, window |-> w, traces |-> t, passed |-> p]
      BY <2>1 DEF Rated
    <3>2. running' = [running EXCEPT !["serving"] = [running["serving"] EXCEPT !.window = None, !.passed = <<>>]]
      BY <1>8 DEF ResetRPM
    <3> QED BY <3>1, <3>2
  <2>3. Here' = Here
    BY <1>2, <2>2 DEF Places
  <2> QED BY <1>1, <1>8, <2>3 DEF ResetRPM, Between
<1>9. CASE HandOver
  <2>1. PICK traces : /\ running' = [late |-> running["serving"], serving |-> NewInstance(traces)]
                      /\ \A h \in Generations : h \in Known(traces) => Contained(running["serving"].traces, h, clock)
    BY <1>9, HandedOver
  <2>2. g \notin Here'
    BY <1>1, <2>1, TrimmedKnown DEF Here, NewInstance, Contained
  <2>3. Between' = Between /\ generations'[g].billed = generations[g].billed
    BY <1>1, <1>9, GenerationsShared DEF HandOver, Between
  <2> QED BY <1>1, <2>2, <2>3
<1>10. CASE Follow
  <2> DEFINE traces == Adopted(running["serving"].traces, journal)
             i == [running["serving"] EXCEPT !.traces = traces]
  <2>1. running' = [running EXCEPT !["serving"] = i] /\ journal' = <<>> /\ generations' = generations
    BY <1>10 DEF Follow
  <2>2. i.traces = traces
    BY DEF Instances, Places, Rated
  <2>3. Known(traces) \subseteq Here \cup Between
    BY AdoptedKnown DEF CallTypes, Here, Between
  <2> HIDE DEF i, traces
  <2>4. Here' \subseteq Here \cup Between /\ Between' = {}
    <3>1. Here' = Known(traces)
      BY <2>1, <2>2, InstanceChanges DEF Places
    <3>2. Between' = {}
      BY <2>1 DEF Between
    <3> QED BY <2>3, <3>1, <3>2
  <2> QED BY <1>1, <2>1, <2>4
<1>11. CASE FollowEnds
  <2>1. running' = [running EXCEPT !["late"] = Gone] /\ journal' = journal /\ generations' = generations
    BY <1>11 DEF FollowEnds
  <2>2. Here' = Here /\ Between' = Between
    BY <2>1 DEF Here, Between
  <2> QED BY <1>1, <2>1, <2>2
<1>12. CASE Dies
  <2>1. Here' = {} /\ Between' = {}
    BY <1>12 DEF Dies, Here, Between, NewInstance, NoTraces, Known
  <2>2. generations'[g].billed = generations[g].billed
    BY <1>1, <1>12 DEF Dies, CallTypes, Generation
  <2> QED BY <1>1, <2>1, <2>2
<1> QED BY <1>1, <1>3, <1>4, <1>5, <1>6, <1>7, <1>8, <1>9, <1>10, <1>11, <1>12 DEF Next

\* All but one of the generations that await a record await it still.
LEMMA PendingStep ==
  ASSUME CallTypes, BillsHold, CallTypes', BillsHold', NEW g \in Generations,
         \A h \in Generations \ {g} : generations'[h] = generations[h]
  PROVE  Cardinality(Pending') + One(g \in Pending) = Cardinality(Pending) + One(g \in Pending')
<1> DEFINE others == Pending \ {g}
<1>1. IsFiniteSet(Pending) /\ IsFiniteSet(Pending')
  BY Numbers, NumbersNext
<1>2. IsFiniteSet(others) /\ Cardinality(others) \in Nat
  BY <1>1, FS_Subset, FS_CardinalityType
<1>3. others = Pending' \ {g}
  BY DEF Pending
<1>4. Pending = IF g \in Pending THEN others \cup {g} ELSE others
  OBVIOUS
<1>5. Pending' = IF g \in Pending' THEN others \cup {g} ELSE others
  BY <1>3
<1>6. g \notin others
  OBVIOUS
<1> HIDE DEF others
<1>7. Cardinality(others \cup {g}) = Cardinality(others) + 1
  BY <1>2, <1>6, FS_AddElement
<1>8. Cardinality(Pending) = Cardinality(others) + One(g \in Pending)
  <2>1. CASE g \in Pending
    BY <1>4, <1>7, <2>1 DEF One
  <2>2. CASE g \notin Pending
    BY <1>2, <1>4, <2>2 DEF One
  <2> QED BY <2>1, <2>2
<1>9. Cardinality(Pending') = Cardinality(others) + One(g \in Pending')
  <2>1. CASE g \in Pending'
    BY <1>5, <1>7, <2>1 DEF One
  <2>2. CASE g \notin Pending'
    BY <1>2, <1>5, <2>2 DEF One
  <2> QED BY <2>1, <2>2
<1> QED BY <1>2, <1>8, <1>9 DEF One

\* What a record does that is billed, at the instance that has the ledger and at the other.
LEMMA ChargeCredit ==
  ASSUME BalanceTyped, CallTypes, NEW where \in Places, Charge(where)
  PROVE  /\ UNCHANGED <<up, disk, plan>>
         /\ where = "late" => mem' = mem /\ astray' = astray + 1 /\ Cardinality(Due') = Cardinality(Due) + 1
         /\ where = "serving" => Value(mem') = Value(mem) - Cost * 1 /\ astray' = astray /\ Due' = Due
<1>1. CASE where = "late"
  <2>1. UNCHANGED balanceVars /\ astray' = astray + 1 /\ journal' = Append(journal, [at |-> clock, trace |-> None])
    BY <1>1 DEF Charge
  <2>2. [at |-> clock, trace |-> None] \in Line
    BY DEF CallTypes, Line
  <2>3. Cardinality(Due') = Cardinality(Due) + 1
    BY <2>1, <2>2, DueMore
  <2> QED BY <1>1, <2>1, <2>3 DEF balanceVars
<1>2. CASE where = "serving"
  <2>1. mem' = [mem EXCEPT !.nano = @ - Cost] /\ UNCHANGED <<up, plan, disk, astray, journal>>
    BY <1>2 DEF Charge, Deduct
  <2>2. mem.nano \in Int /\ mem.debited \in Nat /\ mem \in BalanceType
    BY DEF BalanceTyped, BalanceTypeOK, BalanceType
  <2>3. mem'.nano = mem.nano - Cost /\ mem'.debited = mem.debited
    BY <2>1, <2>2 DEF BalanceType
  <2>4. Value(mem') = Value(mem) - Cost * 1
    BY <2>2, <2>3, CallsAssumption DEF Value
  <2> QED BY <1>2, <2>1, <2>4 DEF Due
<1> QED BY <1>1, <1>2 DEF Places

LEMMA NoChargeCredit ==
  ASSUME NoCharge
  PROVE  UNCHANGED <<up, disk, plan, mem, astray>> /\ Due' = Due
BY DEF NoCharge, balanceVars, Due

\* Adjustments count what they debit.
LEMMA AdjustedValue ==
  ASSUME NEW b \in BalanceType, NEW id, NEW amount \in Amounts
  PROVE  Value(Adjusted(b, id, amount)) \in Int /\ Value(b) \in Int /\ Value(b) <= Value(Adjusted(b, id, amount))
<1>1. amount \in Int /\ b.nano \in Int /\ b.debited \in Nat
  BY BalanceAssumption DEF BalanceType
<1>2. Adjusted(b, id, amount).nano = b.nano + amount
      /\ Adjusted(b, id, amount).debited = IF amount < 0 THEN b.debited - amount ELSE b.debited
  BY DEF Adjusted
<1> QED BY <1>1, <1>2 DEF Value

LEMMA Values ==
  ASSUME BalanceTyped
  PROVE  Value(mem) \in Int /\ Value(disk) \in Int /\ (plan # None => Value(plan) \in Int)
BY DEF BalanceTyped, BalanceTypeOK, BalanceType, Value

(* A step of the process that neither writes the balance nor reads it: what is
   left has to cover the calls under way and the records due. *)
LEMMA CreditCalls ==
  ASSUME BalanceTyped, CallTypes, BillsHold, BalanceTyped', CallTypes', BillsHold', CreditHolds,
         up, UNCHANGED <<up, disk, plan>>, astray <= astray', Cardinality(Settled) <= Cardinality(Settled'),
         Cardinality(Due') <= astray', Inflight' <= MaxInflight,
         Above(Value(mem'), Inflight' + Cardinality(Due') - Slack')
  PROVE  CreditHolds'
<1>1. Slack \in Nat /\ Slack' \in Nat /\ Slack <= Slack'
  <2>1. Cardinality(Settled) \in Nat /\ Cardinality(Settled') \in Nat /\ astray \in Nat /\ astray' \in Nat /\ MaxInflight \in Nat
    BY Numbers, NumbersNext, CallsAssumption DEF CallTypes
  <2> QED BY <2>1, Numbers, NumbersNext DEF Slack
<1>2. -Slack' \in Int /\ -Slack \in Int /\ -Slack' <= -Slack
  <2>1. \A m, n \in Nat : m <= n => -n \in Int /\ -m \in Int /\ -n <= -m
    OBVIOUS
  <2> QED BY <1>1, <2>1
<1>3. Above(Value(disk), -Slack')
  BY <1>2, Values, AboveLess DEF CreditHolds
<1>4. plan # None => Above(Value(plan), -Slack')
  BY <1>2, Values, AboveLess DEF CreditHolds
<1> QED BY <1>3, <1>4 DEF CreditHolds, Value, Above

\* Nothing is charged, and no call begins.
LEMMA CreditStays ==
  ASSUME BalanceTyped, CallTypes, BillsHold, BalanceTyped', CallTypes', BillsHold', CreditHolds,
         up, UNCHANGED <<up, disk, plan, mem, astray>>, Cardinality(Settled) <= Cardinality(Settled'),
         Due' = Due, Inflight' <= Inflight
  PROVE  CreditHolds'
<1>1. /\ Cardinality(Settled) \in Nat /\ Cardinality(Settled') \in Nat /\ astray \in Nat /\ MaxInflight \in Nat
      /\ Inflight \in Nat /\ Inflight' \in Nat /\ Cardinality(Due) \in Nat
      /\ Slack' = MaxInflight + astray' + Cardinality(Settled') /\ Slack = MaxInflight + astray + Cardinality(Settled)
  BY Numbers, NumbersNext, CallsAssumption DEF CallTypes, Slack
<1> DEFINE n == Inflight + Cardinality(Due) - Slack
           m == Inflight' + Cardinality(Due') - Slack'
<1>2. n \in Int /\ m \in Int /\ m <= n
  BY <1>1
<1>3. Above(Value(mem), n) /\ Cardinality(Due') <= astray' /\ Inflight' <= MaxInflight
  BY <1>1 DEF CreditHolds
<1> HIDE DEF n, m
<1>4. Above(Value(mem), m)
  BY <1>2, <1>3, Values, AboveLess
<1>5. Above(Value(mem'), Inflight' + Cardinality(Due') - Slack')
  BY <1>4 DEF m
<1>6. astray <= astray'
  BY <1>1
<1> QED BY <1>3, <1>5, <1>6, CreditCalls

LEMMA CreditNumbers ==
  ASSUME CallTypes, BillsHold, CallTypes', BillsHold'
  PROVE  /\ Cardinality(Settled) \in Nat /\ Cardinality(Settled') \in Nat /\ Cardinality(Due) \in Nat
         /\ Cardinality(Due') \in Nat /\ Inflight \in Nat /\ Inflight' \in Nat
         /\ astray \in Nat /\ astray' \in Nat /\ MaxInflight \in Nat \ {0} /\ calls \in Nat /\ calls' \in Nat
         /\ Cardinality(Pending) \in Nat /\ Cardinality(Pending') \in Nat
         /\ Slack = MaxInflight + astray + Cardinality(Settled)
         /\ Slack' = MaxInflight + astray' + Cardinality(Settled')
         /\ Inflight = calls + Cardinality(Pending) /\ Inflight' = calls' + Cardinality(Pending')
BY Numbers, NumbersNext, CallsAssumption DEF CallTypes, Slack, Inflight

\* A call begins: the balance is still positive, or the quiesced instance lets it through.
LEMMA CreditAdmitted ==
  ASSUME BalanceTyped, CallTypes, BillsHold, BalanceTyped', CallTypes', BillsHold', CreditHolds,
         up, UNCHANGED <<up, disk, plan, mem>>, Cardinality(Settled) <= Cardinality(Settled'),
         Cardinality(Due') = Cardinality(Due), Inflight < MaxInflight, Inflight' <= Inflight + 1,
         \/ astray' = astray /\ Positive(mem.nano)
         \/ astray' = astray + 1
  PROVE  CreditHolds'
<1>1. /\ Cardinality(Settled) \in Nat /\ Cardinality(Settled') \in Nat /\ astray \in Nat /\ astray' \in Nat
      /\ MaxInflight \in Nat /\ Inflight \in Nat /\ Inflight' \in Nat /\ Cardinality(Due) \in Nat
      /\ Slack' = MaxInflight + astray' + Cardinality(Settled') /\ Slack = MaxInflight + astray + Cardinality(Settled)
  BY CreditNumbers
<1> DEFINE n == Inflight + Cardinality(Due) - Slack
           m == Inflight' + Cardinality(Due') - Slack'
<1>2. Cardinality(Due') <= astray' /\ Inflight' <= MaxInflight /\ astray <= astray'
  BY <1>1 DEF CreditHolds
<1>3. n \in Int /\ m \in Int /\ Above(Value(mem), n)
  BY <1>1 DEF CreditHolds
<1>4. CASE astray' = astray /\ Positive(mem.nano)
  <2>1. m <= 0
    BY <1>1, <1>2, <1>4
  <2>2. mem.nano \in Int /\ mem.debited \in Nat /\ Value(mem) > 0 /\ Cost * 0 = 0
    BY <1>4, CallsAssumption DEF BalanceTyped, BalanceTypeOK, BalanceType, Positive, Value
  <2>3. Above(Value(mem), 0)
    BY <2>2 DEF Above
  <2> HIDE DEF m, n
  <2>4. Above(Value(mem), m)
    BY <1>3, <2>1, <2>3, Values, AboveLess
  <2>5. Above(Value(mem'), Inflight' + Cardinality(Due') - Slack')
    BY <2>4 DEF m
  <2> QED BY <1>2, <2>5, CreditCalls
<1>5. CASE astray' = astray + 1
  <2>1. m <= n
    BY <1>1, <1>5
  <2> HIDE DEF m, n
  <2>2. Above(Value(mem), m)
    BY <1>3, <2>1, Values, AboveLess
  <2>3. Above(Value(mem'), Inflight' + Cardinality(Due') - Slack')
    BY <2>2 DEF m
  <2> QED BY <1>2, <2>3, CreditCalls
<1> QED BY <1>4, <1>5

\* A record is billed: a call ends, a generation is settled, or the quiesced instance bills it.
LEMMA CreditCharged ==
  ASSUME BalanceTyped, CallTypes, BillsHold, BalanceTyped', CallTypes', BillsHold', CreditHolds,
         up, NEW where \in Places, Charge(where), Cardinality(Settled) <= Cardinality(Settled'), Inflight' <= Inflight,
         where = "serving" => Inflight' < Inflight \/ Cardinality(Settled) < Cardinality(Settled')
  PROVE  CreditHolds'
<1>1. /\ Cardinality(Settled) \in Nat /\ Cardinality(Settled') \in Nat /\ astray \in Nat /\ astray' \in Nat
      /\ MaxInflight \in Nat /\ Inflight \in Nat /\ Inflight' \in Nat
      /\ Cardinality(Due) \in Nat /\ Cardinality(Due') \in Nat
      /\ Slack' = MaxInflight + astray' + Cardinality(Settled') /\ Slack = MaxInflight + astray + Cardinality(Settled)
  BY CreditNumbers
<1> DEFINE n == Inflight + Cardinality(Due) - Slack
           m == Inflight' + Cardinality(Due') - Slack'
<1>2. n \in Int /\ m \in Int /\ Above(Value(mem), n) /\ Cardinality(Due) <= astray /\ Inflight' <= MaxInflight
  BY <1>1 DEF CreditHolds
<1>3. UNCHANGED <<up, disk, plan>>
  BY ChargeCredit
<1>4. CASE where = "late"
  <2>1. mem' = mem /\ astray' = astray + 1 /\ Cardinality(Due') = Cardinality(Due) + 1
    BY <1>4, ChargeCredit
  <2>2. m <= n /\ Cardinality(Due') <= astray' /\ astray <= astray'
    BY <1>1, <1>2, <2>1
  <2> HIDE DEF m, n
  <2>3. Above(Value(mem), m)
    BY <1>2, <2>2, Values, AboveLess
  <2>4. Above(Value(mem'), Inflight' + Cardinality(Due') - Slack')
    BY <2>1, <2>3 DEF m
  <2> QED BY <1>2, <1>3, <2>2, <2>4, CreditCalls
<1>5. CASE where = "serving"
  <2>1. Value(mem') = Value(mem) - Cost * 1 /\ astray' = astray /\ Cardinality(Due') = Cardinality(Due)
    BY <1>5, ChargeCredit
  <2>2. m <= n - 1 /\ Cardinality(Due') <= astray' /\ astray <= astray'
    BY <1>1, <1>2, <1>5, <2>1
  <2> HIDE DEF m, n
  <2>3. Above(Value(mem) - Cost * 1, m)
    BY <1>2, <2>2, Values, AboveCharge
  <2>4. Above(Value(mem'), Inflight' + Cardinality(Due') - Slack')
    BY <2>1, <2>3 DEF m
  <2> QED BY <1>2, <1>3, <2>2, <2>4, CreditCalls
<1> QED BY <1>4, <1>5 DEF Places

\* An instance CPA calls is there only while the process runs.
LEMMA CalledUp == ASSUME CreditHolds, NEW where \in Places, Called(where) PROVE up
BY DEF CreditHolds, Called

LEMMA CreditRequests ==
  ASSUME BalanceTyped, CallTypes, BillsHold, BalanceTyped', CallTypes', BillsHold', CreditHolds,
         Cardinality(Settled) <= Cardinality(Settled'),
         NEW where \in Places, NEW request \in AllRequests, Requests(where, request)
  PROVE  CreditHolds'
<1>1. up /\ UNCHANGED <<up, disk, plan, mem, journal, generations>>
  BY CalledUp DEF Requests, balanceVars
<1>2. Due' = Due /\ Pending' = Pending
  BY <1>1 DEF Due, Pending
<1>3. CASE Admits(where, request) /\ ReachesModel(request)
  <2>1. calls' = calls + 1 /\ Inflight < MaxInflight /\ astray' = IF where = "late" THEN astray + 1 ELSE astray
    BY <1>3 DEF Requests
  <2>2. Inflight' <= Inflight + 1
    BY <1>2, <2>1, CreditNumbers
  <2>3. where # "late" => Positive(mem.nano)
    BY <1>3 DEF Admits, ReachesModel, ChecksQuota, Nano
  <2> QED BY <1>1, <1>2, <2>1, <2>2, <2>3, CreditAdmitted
<1>4. CASE ~(Admits(where, request) /\ ReachesModel(request))
  <2>1. calls' = calls /\ astray' = astray
    BY <1>4 DEF Requests
  <2>2. Inflight' <= Inflight
    BY <1>2, <2>1, CreditNumbers
  <2> QED BY <1>1, <1>2, <2>1, <2>2, CreditStays
<1> QED BY <1>3, <1>4

LEMMA CreditStarts ==
  ASSUME BalanceTyped, CallTypes, BillsHold, BalanceTyped', CallTypes', BillsHold', CreditHolds,
         Cardinality(Settled) <= Cardinality(Settled'),
         NEW where \in Places, NEW g \in Generations, GenerationStarts(where, g)
  PROVE  CreditHolds'
<1>1. up /\ UNCHANGED <<up, disk, plan, mem, calls>> /\ Inflight < MaxInflight
  BY CalledUp DEF GenerationStarts, balanceVars
<1>2. CASE Admits(where, Generates)
  <2>1. astray' = IF where = "late" THEN astray + 1 ELSE astray
    BY <1>2 DEF GenerationStarts
  <2>2. Inflight' <= Inflight + 1
    <3>1. \A h \in Generations \ {g} : generations'[h] = generations[h]
      BY GenerationStarted
    <3>2. Cardinality(Pending') + One(g \in Pending) = Cardinality(Pending) + One(g \in Pending')
      BY <3>1, PendingStep
    <3>3. One(g \in Pending) \in {0, 1} /\ One(g \in Pending') \in {0, 1}
      BY DEF One
    <3> QED BY <1>1, <3>2, <3>3, CreditNumbers
  <2>3. Cardinality(Due') = Cardinality(Due)
    <3>1. CASE where = "late"
      <4>1. journal' = Append(journal, [at |-> clock, trace |-> g])
        BY <1>2, <3>1 DEF GenerationStarts
      <4>2. [at |-> clock, trace |-> g] \in Line /\ g # None
        BY CallsAssumption DEF CallTypes, Line
      <4> QED BY <4>1, <4>2, DueMore
    <3>2. CASE where # "late"
      BY <1>2, <3>2 DEF GenerationStarts, Due
    <3> QED BY <3>1, <3>2
  <2>4. where # "late" => Positive(mem.nano)
    BY <1>2 DEF Admits, ChecksQuota, Generates, Request, Nano
  <2> QED BY <1>1, <2>1, <2>2, <2>3, <2>4, CreditAdmitted
<1>3. CASE ~Admits(where, Generates)
  <2>1. UNCHANGED <<generations, journal, astray>>
    BY <1>3 DEF GenerationStarts
  <2>2. Due' = Due /\ Pending' = Pending
    BY <2>1 DEF Due, Pending
  <2>3. Inflight' <= Inflight
    BY <1>1, <2>2, CreditNumbers
  <2> QED BY <1>1, <2>1, <2>2, <2>3, CreditStays
<1> QED BY <1>2, <1>3

LEMMA CreditEnds ==
  ASSUME BalanceTyped, CallTypes, BillsHold, BalanceTyped', CallTypes', BillsHold', CreditHolds,
         Cardinality(Settled) <= Cardinality(Settled'), NEW where \in Places, CallEnds(where)
  PROVE  CreditHolds'
<1>1. up /\ calls > 0 /\ calls' = calls - 1 /\ UNCHANGED generations
  BY CalledUp DEF CallEnds
<1>2. Pending' = Pending
  BY <1>1 DEF Pending
<1>3. Inflight' < Inflight /\ Inflight' <= Inflight
  BY <1>1, <1>2, CreditNumbers
<1>4. CASE Charge(where)
  BY <1>1, <1>3, <1>4, CreditCharged
<1>5. CASE NoCharge
  BY <1>1, <1>3, <1>5, NoChargeCredit, CreditStays
<1> QED BY <1>4, <1>5 DEF CallEnds

LEMMA CreditRecord ==
  ASSUME BalanceTyped, CallTypes, Instances, BillsHold, BalanceTyped', CallTypes', BillsHold', CreditHolds,
         Settled \subseteq Settled', Cardinality(Settled) <= Cardinality(Settled'),
         NEW where \in Places, NEW g \in Generations, NEW failed \in BOOLEAN, GenerationRecord(where, g, failed)
  PROVE  CreditHolds'
<1> DEFINE r == generations[g]
           traces == running[where].traces
           billed == ~failed /\ Contained(traces, g, clock)
<1>1. up /\ UNCHANGED calls /\ r.at # None /\ ~r.lost /\ r.records < MaxRecords /\ g # None
  BY CalledUp, CallsAssumption DEF GenerationRecord
<1>2. /\ \A h \in Generations \ {g} : generations'[h] = generations[h]
      /\ generations'[g].at = r.at /\ generations'[g].lost = r.lost
      /\ generations'[g].records = r.records + 1 /\ generations'[g].billed = IF billed THEN r.billed + 1 ELSE r.billed
      /\ r.billed \in Nat /\ r.records \in Nat
  BY GenerationRecorded DEF CallTypes, Generation
<1>3. Cardinality(Pending') + One(g \in Pending) = Cardinality(Pending) + One(g \in Pending')
  BY <1>2, PendingStep
<1>4. /\ g \in Pending <=> r.billed = 0
      /\ g \in Pending' => g \in Pending /\ ~billed
  <2> HIDE DEF billed
  <2> QED BY <1>1, <1>2, CallsAssumption DEF Pending
<1>5. Inflight' <= Inflight /\ (r.billed = 0 /\ billed => Inflight' < Inflight)
  <2>1. One(g \in Pending') <= One(g \in Pending) /\ (r.billed = 0 /\ billed => One(g \in Pending) = 1 /\ One(g \in Pending') = 0)
        /\ One(g \in Pending) \in Nat /\ One(g \in Pending') \in Nat
    BY <1>4 DEF One
  <2> HIDE DEF billed
  <2> QED BY <1>1, <1>3, <2>1, CreditNumbers
<1>6. CASE ~billed
  <2>1. NoCharge
    BY <1>6 DEF GenerationRecord
  <2> QED BY <1>1, <1>5, <2>1, NoChargeCredit, CreditStays
<1>7. CASE billed
  <2>1. Charge(where)
    BY <1>7 DEF GenerationRecord
  <2>2. CASE r.billed = 0
    BY <1>1, <1>5, <1>7, <2>1, <2>2, CreditCharged
  <2>3. CASE where = "late"
    BY <1>1, <1>5, <2>1, <2>3, CreditCharged
  <2>4. CASE r.billed # 0 /\ where = "serving"
    <3>1. g \in Here
      BY <1>7, <2>4, TrimmedKnown DEF Contained, Here
    <3>2. g \notin Settled /\ g \notin Between
      BY <1>1, <3>1 DEF Settled, BillsHold
    <3>3. g \notin Between'
      <4>1. journal' = journal
        BY <2>1, <2>4 DEF Charge
      <4> QED BY <3>2, <4>1 DEF Between
    <3>4. g \notin Here'
      <4> DEFINE new == Spent(traces, g)
                 i == [running[where] EXCEPT !.traces = new]
      <4>1. i.traces = new /\ running' = [running EXCEPT ![where] = i]
        BY <1>7 DEF Instances, Rated, GenerationRecord
      <4>2. g \notin Known(new)
        BY TakenKnown DEF Spent
      <4> HIDE DEF i, new
      <4> QED BY <2>4, <4>1, <4>2, InstanceChanges
    <3>5. g \in Settled'
      <4>1. generations'[g].billed > 1
        BY <1>2, <1>7, <2>4
      <4> QED BY <3>3, <3>4, <4>1 DEF Settled
    <3>6. Cardinality(Settled) < Cardinality(Settled')
      <4>1. IsFiniteSet(Settled) /\ IsFiniteSet(Settled') /\ Settled \cup {g} \subseteq Settled'
        BY <3>5, Numbers, NumbersNext
      <4>2. Cardinality(Settled \cup {g}) = Cardinality(Settled) + 1 /\ IsFiniteSet(Settled \cup {g})
        BY <3>2, <4>1, FS_AddElement
      <4>3. Cardinality(Settled \cup {g}) <= Cardinality(Settled')
        BY <4>1, FS_Subset
      <4> QED BY <4>2, <4>3, CreditNumbers
    <3> QED BY <1>1, <1>5, <2>1, <3>6, CreditCharged
  <2> QED BY <2>2, <2>3, <2>4 DEF Places
<1> QED BY <1>6, <1>7

\* Nothing but the balance changes.
LEMMA SlackStays ==
  ASSUME UNCHANGED callVars
  PROVE  Inflight' = Inflight /\ Due' = Due /\ Slack' = Slack /\ Settled' = Settled /\ Pending' = Pending
BY DEF callVars, Inflight, Due, Slack, Settled, Pending, Here, Between

LEMMA CreditBalances ==
  ASSUME BalanceTyped, CallTypes, BillsHold, BalanceTyped', CallTypes', BillsHold', CreditHolds, Balances
  PROVE  CreditHolds'
<1>0. UNCHANGED callVars
  BY DEF Balances
<1>1. /\ Inflight' = Inflight /\ Due' = Due /\ Slack' = Slack /\ Pending' = Pending
      /\ UNCHANGED <<astray, calls, journal, running>>
  BY <1>0, SlackStays DEF callVars
<1> DEFINE n == Inflight + Cardinality(Due) - Slack
<1>2. /\ n \in Int /\ -Slack \in Int /\ -Slack <= n
      /\ (Inflight = 0 /\ Cardinality(Due) = 0 => n = -Slack)
  <2>1. \A i, d, s \in Nat : /\ i + d - s \in Int /\ -s \in Int /\ -s <= i + d - s
                             /\ (i = 0 /\ d = 0 => i + d - s = -s)
    OBVIOUS
  <2> QED BY <2>1, Numbers
<1>3. /\ Cardinality(Due) <= astray /\ Inflight <= MaxInflight
      /\ up => Above(Value(mem), n)
      /\ Above(Value(disk), -Slack) /\ (plan # None => Above(Value(plan), -Slack))
      /\ ~up => calls = 0 /\ journal = <<>> /\ ~running["late"].called /\ Pending = {}
  BY DEF CreditHolds
<1> HIDE DEF n
<1>4. up => Above(Value(mem), -Slack)
  BY <1>2, <1>3, Values, AboveLess
<1>5. SUFFICES /\ up' => Above(Value(mem'), n)
               /\ Above(Value(disk'), -Slack) /\ (plan' # None => Above(Value(plan'), -Slack))
               /\ up' = up \/ up'
  <2>1. Cardinality(Due') = Cardinality(Due) /\ n = Inflight' + Cardinality(Due') - Slack'
    BY <1>1 DEF n
  <2>2. -Slack' = -Slack
    BY <1>1
  <2> QED BY <1>1, <1>3, <1>5, <2>1, <2>2 DEF CreditHolds, Value, Above
<1>6. ASSUME NEW id \in Ids \cup {NoId}, NEW amount \in Amounts, up
      PROVE  Above(Value(Adjusted(mem, id, amount)), n) /\ Above(Value(Adjusted(mem, id, amount)), -Slack)
  <2>1. mem \in BalanceType
    BY DEF BalanceTyped, BalanceTypeOK
  <2>2. /\ Value(Adjusted(mem, id, amount)) \in Int /\ Value(mem) \in Int
        /\ Value(mem) <= Value(Adjusted(mem, id, amount))
    BY <2>1, AdjustedValue
  <2> QED BY <1>2, <1>3, <1>6, <2>2, AboveLess
<1>7. ASSUME NEW id \in Ids \cup {NoId}, NEW amount \in Amounts, Adjust(id, amount)
      PROVE  up /\ up' /\ mem' = Adjusted(mem, id, amount) /\ disk' = mem' /\ plan' = plan
  BY <1>7 DEF Adjust, MayAdjust
<1>8. ASSUME NEW id \in Ids \cup {NoId}, NEW amount \in Amounts, AdjustFails(id, amount)
      PROVE  up /\ up' /\ mem' = mem /\ disk' \in {disk, Adjusted(mem, id, amount)} /\ plan' = plan
  BY <1>8 DEF AdjustFails, MayAdjust, AfterFailure
<1>9. CASE \/ \E id \in Ids \cup {NoId} : Duplicate(id)
           \/ PlanFlush \/ FlushWrites \/ FlushFails
  <2>1. up /\ up' /\ mem' = mem /\ disk' \in {disk, plan} /\ (disk' = disk \/ plan # None) /\ plan' \in {plan, None, mem}
    <3>1. CASE \E id \in Ids \cup {NoId} : Duplicate(id)
      BY <3>1 DEF Duplicate
    <3>2. CASE PlanFlush
      BY <3>2 DEF PlanFlush
    <3>3. CASE FlushWrites
      BY <3>3 DEF FlushWrites
    <3>4. CASE FlushFails
      BY <3>4 DEF FlushFails
    <3> QED BY <1>9, <3>1, <3>2, <3>3, <3>4
  <2> QED BY <1>3, <1>4, <2>1
<1>10. CASE Restart
  <2>1. ~up /\ up' /\ mem' = disk /\ disk' = disk /\ plan' = plan
    BY <1>10 DEF Restart
  <2>2. n = -Slack
    <3>1. Pending = {} /\ calls = 0 /\ Due = {}
      BY <1>3, <2>1 DEF Due
    <3>2. Inflight = 0 /\ Cardinality(Due) = 0
      BY <3>1, FS_EmptySet DEF Inflight
    <3> QED BY <1>2, <3>2
  <2> QED BY <1>3, <2>1, <2>2
<1> QED BY <1>3, <1>6, <1>7, <1>8, <1>9, <1>10 DEF Balances

LEMMA CreditHandOver ==
  ASSUME BalanceTyped, CallTypes, BillsHold, BalanceTyped', CallTypes', BillsHold', CreditHolds,
         Cardinality(Settled) <= Cardinality(Settled'), HandOver
  PROVE  CreditHolds'
<1>1. up /\ up' /\ plan' = None /\ mem' = mem /\ disk' = mem /\ UNCHANGED <<journal, calls, astray>>
  BY DEF HandOver
<1>2. Due' = Due
  BY <1>1 DEF Due
<1>3. Pending' = Pending
  BY GenerationsShared DEF Pending
<1>4. /\ Cardinality(Settled) \in Nat /\ Cardinality(Settled') \in Nat /\ astray \in Nat /\ MaxInflight \in Nat
      /\ Inflight \in Nat /\ Inflight' = Inflight /\ Cardinality(Due) \in Nat
      /\ Slack' = MaxInflight + astray' + Cardinality(Settled') /\ Slack = MaxInflight + astray + Cardinality(Settled)
  BY <1>1, <1>3, CreditNumbers
<1> DEFINE n == Inflight + Cardinality(Due) - Slack
           m == Inflight' + Cardinality(Due') - Slack'
           k == -Slack'
<1>5. n \in Int /\ m \in Int /\ k \in Int /\ m <= n /\ k <= n
  <2>1. \A i, d, x, a, s, t \in Nat :
          s <= t => LET o == x + a + s
                        p == x + a + t
                    IN  /\ i + d - o \in Int /\ i + d - p \in Int /\ -p \in Int
                        /\ i + d - p <= i + d - o /\ -p <= i + d - o
    OBVIOUS
  <2> QED BY <1>1, <1>2, <1>4, <2>1
<1>6. Above(Value(mem), n) /\ Cardinality(Due') <= astray' /\ Inflight' <= MaxInflight
  BY <1>1, <1>2, <1>4 DEF CreditHolds
<1> HIDE DEF n, m, k
<1>7. Above(Value(mem), m) /\ Above(Value(mem), k)
  BY <1>5, <1>6, Values, AboveLess
<1>8. Above(Value(mem'), Inflight' + Cardinality(Due') - Slack') /\ Above(Value(disk'), -Slack')
  BY <1>1, <1>7 DEF m, k
<1> QED BY <1>1, <1>6, <1>8 DEF CreditHolds, Value, Above

LEMMA CreditFollow ==
  ASSUME BalanceTyped, CallTypes, BillsHold, BalanceTyped', CallTypes', BillsHold', CreditHolds,
         Cardinality(Settled) <= Cardinality(Settled'), Follow
  PROVE  CreditHolds'
<1>1. up /\ journal' = <<>> /\ UNCHANGED <<generations, calls, astray>>
  BY DEF Follow
<1>2. Due' = {} /\ Pending' = Pending
  BY <1>1 DEF Due, Pending
<1>3. Cardinality(Due') = 0
  BY <1>2, FS_EmptySet
<1>4. Due = {n \in DOMAIN journal : journal[n].trace = None}
  BY DEF Due, CallTypes
<1>5. /\ UNCHANGED <<up, disk, plan>>
      /\ Value(mem') = Value(mem) - Cost * Cardinality(Due)
  <2>1. mem.nano \in Int /\ mem.debited \in Nat /\ mem \in BalanceType
        /\ Cost * Cardinality(Due) \in Int /\ Cost * 0 = 0
    <3>1. Cost \in Nat /\ Cardinality(Due) \in Nat
      BY CreditNumbers, CallsAssumption
    <3>2. Cost * Cardinality(Due) \in Int /\ Cost * 0 = 0
      BY <3>1
    <3> QED BY <3>2 DEF BalanceTyped, BalanceTypeOK, BalanceType
  <2>2. CASE Due = {}
    <3>1. UNCHANGED balanceVars /\ Cardinality(Due) = 0
      BY <1>4, <2>2, FS_EmptySet DEF Follow
    <3> QED BY <2>1, <3>1 DEF balanceVars, Value
  <2>3. CASE Due # {}
    <3>1. Deduct(Cost * Cardinality(Due))
      BY <1>4, <2>3 DEF Follow
    <3> DEFINE c == Cost * Cardinality(Due)
    <3>2. mem' = [mem EXCEPT !.nano = @ - c] /\ UNCHANGED <<up, plan, disk>>
      BY <3>1 DEF Deduct
    <3>3. c \in Int
      BY <2>1
    <3> HIDE DEF c
    <3>4. mem'.nano = mem.nano - c /\ mem'.debited = mem.debited
      BY <2>1, <3>2, <3>3 DEF BalanceType
    <3>5. Value(mem') = Value(mem) - c
      BY <2>1, <3>3, <3>4 DEF Value
    <3> QED BY <3>2, <3>5 DEF c
  <2> QED BY <2>2, <2>3
<1>6. /\ Cardinality(Settled) \in Nat /\ Cardinality(Settled') \in Nat /\ astray \in Nat /\ MaxInflight \in Nat
      /\ Inflight \in Nat /\ Inflight' = Inflight /\ Cardinality(Due) \in Nat
      /\ Slack' = MaxInflight + astray' + Cardinality(Settled') /\ Slack = MaxInflight + astray + Cardinality(Settled)
  BY <1>1, <1>2, CreditNumbers
<1> DEFINE n == Inflight + Cardinality(Due) - Slack
           m == Inflight' + Cardinality(Due') - Slack'
<1>7. n \in Int /\ m \in Int /\ m <= n - Cardinality(Due)
  BY <1>1, <1>3, <1>6, SMTT(30)
<1>8. Above(Value(mem), n) /\ Inflight' <= MaxInflight /\ Cardinality(Due') <= astray' /\ astray <= astray'
  BY <1>1, <1>3, <1>6 DEF CreditHolds
<1> HIDE DEF n, m
<1>9. Above(Value(mem) - Cost * Cardinality(Due), m)
  BY <1>6, <1>7, <1>8, Values, AboveCharge
<1>10. Above(Value(mem'), Inflight' + Cardinality(Due') - Slack')
  BY <1>5, <1>9 DEF m
<1> QED BY <1>1, <1>5, <1>8, <1>10, CreditCalls

LEMMA CreditDies ==
  ASSUME BalanceTyped, CallTypes, BillsHold, BalanceTyped', CallTypes', BillsHold', CreditHolds,
         Cardinality(Settled) <= Cardinality(Settled'), Dies
  PROVE  CreditHolds'
<1>1. /\ up /\ ~up' /\ plan' = None /\ calls' = 0 /\ journal' = <<>> /\ astray' = astray
      /\ running' = [serving |-> NewInstance(NoTraces), late |-> Gone]
      /\ generations' = [g \in Generations |-> [generations[g] EXCEPT !.lost = @ \/ generations[g].at # None]]
  BY DEF Dies, Crash
<1>2. Pending' = {} /\ Due' = {} /\ ~running'["late"].called
  <2>1. \A g \in Generations : generations'[g].at # None => generations'[g].lost
    BY <1>1 DEF CallTypes, Generation
  <2>2. Pending' = {}
    BY <2>1 DEF Pending
  <2>3. Due' = {} /\ ~running'["late"].called
    BY <1>1 DEF Due, Gone
  <2> QED BY <2>2, <2>3
<1>3. Cardinality(Pending') = 0 /\ Cardinality(Due') = 0
  BY <1>2, FS_EmptySet
<1>4. /\ Cardinality(Settled) \in Nat /\ Cardinality(Settled') \in Nat /\ astray \in Nat /\ MaxInflight \in Nat
      /\ Inflight \in Nat /\ Inflight' = 0 /\ Cardinality(Due) \in Nat
      /\ Slack' = MaxInflight + astray' + Cardinality(Settled') /\ Slack = MaxInflight + astray + Cardinality(Settled)
  BY <1>1, <1>3, CreditNumbers
<1> DEFINE n == Inflight + Cardinality(Due) - Slack
           l == -Slack
           k == -Slack'
<1>5. n \in Int /\ l \in Int /\ k \in Int /\ k <= n /\ k <= l
  <2>1. \A i, d, x, a, s, t \in Nat :
          s <= t => LET o == x + a + s
                        p == x + a + t
                    IN  i + d - o \in Int /\ -o \in Int /\ -p \in Int /\ -p <= i + d - o /\ -p <= -o
    OBVIOUS
  <2> QED BY <1>1, <1>4, <2>1
<1>6. Above(Value(mem), n) /\ Above(Value(disk), l) /\ (plan # None => Above(Value(plan), l))
  BY <1>1 DEF CreditHolds
<1> HIDE DEF n, l, k
<1>7. Above(Value(mem), k) /\ Above(Value(disk), k) /\ (plan # None => Above(Value(plan), k))
  BY <1>5, <1>6, Values, AboveLess
<1>8. Above(Value(disk'), k)
  <2>1. ASSUME NEW id \in Ids \cup {NoId}, NEW amount \in Amounts PROVE Above(Value(Adjusted(mem, id, amount)), k)
    <3>1. mem \in BalanceType
      BY DEF BalanceTyped, BalanceTypeOK
    <3>2. /\ Value(Adjusted(mem, id, amount)) \in Int /\ Value(mem) \in Int
          /\ Value(mem) <= Value(Adjusted(mem, id, amount))
      BY <3>1, AdjustedValue
    <3> QED BY <1>5, <1>7, <3>2, AboveLess
  <2> QED BY <1>7, <2>1 DEF Dies, Crash
<1>9. Above(Value(disk'), -Slack')
  BY <1>8 DEF k
<1>10. Cardinality(Due') <= astray' /\ Inflight' <= MaxInflight
  BY <1>1, <1>3, <1>4
<1> QED BY <1>1, <1>2, <1>9, <1>10 DEF CreditHolds, Value, Above

LEMMA CreditStep ==
  ASSUME BalanceTyped, CallTypes, Instances, BillsHold, BalanceTyped', CallTypes', BillsHold', CreditHolds, [Next]_vars
  PROVE  CreditHolds'
<1>1. Settled \subseteq Settled' /\ Cardinality(Settled) <= Cardinality(Settled')
  BY SettledStep, SettledGrows
<1>2. CASE ResetRPM \/ FollowEnds \/ Tick \/ UNCHANGED vars
  <2>1. UNCHANGED <<up, mem, disk, plan, astray, calls, generations, journal>> /\ (running["late"].called \/ ~running'["late"].called)
    BY <1>2 DEF ResetRPM, FollowEnds, Tick, vars, balanceVars, callVars, Instances, Places, Gone
  <2>2. Due' = Due /\ Pending' = Pending
    BY <2>1 DEF Due, Pending
  <2>3. Inflight' <= Inflight
    BY <2>1, <2>2, CreditNumbers
  <2>4. CASE up
    BY <1>1, <2>1, <2>2, <2>3, <2>4, CreditStays
  <2>5. CASE ~up
    <3>1. UNCHANGED <<running, journal, generations>>
      BY <1>2, <2>5 DEF ResetRPM, FollowEnds, Tick, vars, callVars, CreditHolds
    <3>2. Slack' = Slack /\ Inflight' = Inflight
      BY <2>1, <3>1 DEF Slack, Settled, Here, Between, Inflight, Pending
    <3> QED BY <2>1, <2>2, <2>5, <3>1, <3>2 DEF CreditHolds, Value, Above
  <2> QED BY <2>4, <2>5
<1> QED BY <1>1, <1>2, CreditBalances, CreditRequests, CreditStarts, CreditRecord, CreditEnds,
           CreditHandOver, CreditFollow, CreditDies DEF Next

LEMMA CreditInvariant == Spec => [](CallsTyped /\ Instances /\ BillsHold /\ CreditHolds)
<1>1. Init => CallsTyped /\ Instances /\ BillsHold /\ CreditHolds
  BY BalanceTypedInit, CallTypesInit, InstancesInit, BillsHoldInit, CreditInit DEF CallsTyped
<1>2. CallsTyped /\ Instances /\ BillsHold /\ CreditHolds /\ [Next]_vars
        => (CallsTyped /\ Instances /\ BillsHold /\ CreditHolds)'
  <2> SUFFICES ASSUME CallsTyped, Instances, BillsHold, CreditHolds, [Next]_vars
               PROVE  (CallsTyped /\ Instances /\ BillsHold /\ CreditHolds)'
    OBVIOUS
  <2>1. BalanceTyped /\ CallTypes /\ BalanceTyped' /\ CallTypes'
    BY BalanceTypedStep, CallTypesHold DEF CallsTyped
  <2>2. Instances' /\ BillsHold'
    BY <2>1, InstancesHold, BillsHoldStep
  <2> QED BY <2>1, <2>2, CreditStep DEF CallsTyped
<1> QED BY <1>1, <1>2, PTL DEF Spec

(* Calls take a balance below zero only by what was under way when it ran out,
   by what the quiesced instance of a replacement lets through and bills, and
   by the generations that are billed again: whatever order usage records,
   adjustments, flushes, crashes and replacements come in. *)
THEOREM OverdraftIsBounded == Spec => []OverdrawnByInflight
<1>1. ASSUME CallsTyped, BillsHold, CreditHolds PROVE OverdrawnByInflight
  <2> SUFFICES ASSUME up
               PROVE  mem.nano + mem.debited > -Cost * (MaxInflight + astray + Cardinality(BilledAgain))
    BY DEF OverdrawnByInflight
  <2>0. BalanceTyped /\ CallTypes
    BY <1>1 DEF CallsTyped
  <2>1. Settled \subseteq BilledAgain
    BY DEF Settled, BilledAgain
  <2>2. Cardinality(Settled) <= Cardinality(BilledAgain) /\ Cardinality(BilledAgain) \in Nat
    BY <1>1, <2>0, <2>1, Numbers, FS_Subset, FS_CardinalityType
  <2> DEFINE n == Inflight + Cardinality(Due) - Slack
             k == MaxInflight + astray + Cardinality(BilledAgain)
  <2>3. n \in Int /\ k \in Nat /\ -k \in Int /\ -k <= n
    <3>1. \A i, d, x, a, s, t \in Nat :
            s <= t => LET o == x + a + s
                          p == x + a + t
                      IN  i + d - o \in Int /\ p \in Nat /\ -p \in Int /\ -p <= i + d - o
      OBVIOUS
    <3>2. /\ Inflight \in Nat /\ Cardinality(Due) \in Nat /\ Cardinality(Settled) \in Nat
          /\ MaxInflight \in Nat /\ astray \in Nat
      BY <1>1, <2>0, Numbers, CallsAssumption DEF CallTypes
    <3> QED BY <2>2, <3>1, <3>2 DEF Slack
  <2>4. Above(Value(mem), n)
    BY <1>1 DEF CreditHolds
  <2> HIDE DEF n, k
  <2>5. Above(Value(mem), -k)
    BY <2>0, <2>3, <2>4, Values, AboveLess
  <2>6. Cost * (-k) = -Cost * k
    BY <2>3, CallsAssumption
  <2> QED BY <2>5, <2>6 DEF Above, Value, k
<1> QED BY <1>1, CreditInvariant, PTL

\* Types, that no more calls are under way than CPA sends at once among them.
THEOREM CallsTypeOK == Spec => []TypeOK
<1>1. ASSUME CallsTyped, Instances, BillsHold, CreditHolds PROVE TypeOK
  <2>1. BalanceTyped /\ CallTypes
    BY <1>1 DEF CallsTyped
  <2>2. \A where \in Places : IsInstance(running[where])
    <3>1. SUFFICES ASSUME NEW i, Rated(i, clock) PROVE IsInstance(i)
      BY <1>1 DEF Instances
    <3>2. i.window \in RateWindow \cup {None}
      <4>1. CASE i.window = None
        BY <4>1
      <4>2. CASE i.window # None
        <5>1. WindowRates(i.window, i.passed, clock) /\ RPM \in Nat
          BY <3>1, <4>2, CallsAssumption DEF Rated
        <5>2. i.window \in [start : Nat, count : Nat] /\ i.window.count <= RPM
          BY <5>1 DEF WindowRates
        <5> QED BY <5>1, <5>2 DEF RateWindow
      <4> QED BY <4>1, <4>2
    <3> QED BY <3>1, <3>2 DEF Rated, IsInstance
  <2>3. calls \in 0..MaxInflight
    <3>1. Inflight <= MaxInflight /\ calls \in Nat /\ Cardinality(Pending) \in Nat /\ MaxInflight \in Nat
      BY <1>1, <2>1, Numbers, CallsAssumption DEF CreditHolds, CallTypes
    <3> QED BY <3>1 DEF Inflight
  <2> QED BY <2>1, <2>2, <2>3 DEF TypeOK, BalanceTyped, CallTypes
<1> QED BY <1>1, CreditInvariant, PTL
=============================================================================
