----------------------------- MODULE HandoffProofs -----------------------------
(***************************************************************************)
(* Theorems about Handoff, for any instances, records, bounds and          *)
(* failures.                                                               *)
(*                                                                         *)
(* Safe holds whatever fails: which instance owns the directory, follows   *)
(* and flushes in every phase (Control); nothing holds a record that was   *)
(* not delivered (Known); the owner's ledger has what the files have       *)
(* (Kept); the ledger CPA ends up with has every record that is not given  *)
(* up (Missed).  SafeBilled adds, where no cut fails, that a journal is    *)
(* closed before the next cut (Closing) and that every ledger, with the    *)
(* lines it has yet to read, bills a record once (BilledOne); with it      *)
(* every step is a step of BillOnce.                                       *)
(***************************************************************************)
EXTENDS Handoff, FiniteSetTheorems, SequenceTheorems, TLAPS

----------------------------------------------------------------------------
\* Lines

In(s, r) == \E n \in 1..Len(s) : s[n] = r

LEMMA CountIn ==
  ASSUME NEW s \in Seq(Records), NEW r
  PROVE  Count(s, r) \in Nat /\ (Count(s, r) = 0 <=> ~In(s, r)) /\ (In(s, r) => r \in Records)
<1> DEFINE C == {n \in DOMAIN s : s[n] = r}
<1>1. DOMAIN s = 1..Len(s) /\ Len(s) \in Nat /\ \A n \in 1..Len(s) : s[n] \in Records
  OBVIOUS
<1>2. IsFiniteSet(1..Len(s)) /\ C \subseteq 1..Len(s)
  BY <1>1, FS_Interval
<1>3. IsFiniteSet(C) /\ Cardinality(C) \in Nat /\ (Cardinality(C) = 0 <=> C = {})
  BY <1>2, FS_Subset, FS_CardinalityType, FS_EmptySet
<1>4. C = {} <=> ~In(s, r)
  BY <1>1 DEF In
<1> QED BY <1>1, <1>3, <1>4 DEF Count, In

LEMMA CountNone == \A r : Count(<<>>, r) = 0 /\ ~In(<<>>, r)
<1> TAKE r
<1>1. {n \in DOMAIN <<>> : <<>>[n] = r} = {}
  OBVIOUS
<1> QED BY <1>1, FS_EmptySet DEF Count, In

LEMMA CountAppend ==
  ASSUME NEW s \in Seq(Records), NEW x \in Records, NEW r
  PROVE  /\ Append(s, x) \in Seq(Records) /\ Len(Append(s, x)) = Len(s) + 1
         /\ Count(Append(s, x), r) = IF r = x THEN Count(s, r) + 1 ELSE Count(s, r)
<1> DEFINE C == {n \in DOMAIN s : s[n] = r}
           t == Append(s, x)
           l == Len(s) + 1
<1>1. Len(s) \in Nat /\ DOMAIN s = 1..Len(s)
  OBVIOUS
<1>2. t \in Seq(Records) /\ Len(t) = l /\ t[l] = x /\ DOMAIN t = 1..l /\ \A n \in 1..Len(s) : t[n] = s[n]
  OBVIOUS
<1>3. IsFiniteSet(1..Len(s)) /\ C \subseteq 1..Len(s) /\ l \notin 1..Len(s)
  BY <1>1, FS_Interval
<1>3a. IsFiniteSet(C) /\ l \notin C
  BY <1>3, FS_Subset
<1>4. 1..l = 1..Len(s) \cup {l}
  BY <1>1
<1>5. {n \in DOMAIN t : t[n] = r} = IF r = x THEN C \cup {l} ELSE C
  BY <1>1, <1>2, <1>4
<1> HIDE DEF C, t, l
<1>6. Cardinality(C \cup {l}) = Cardinality(C) + 1
  BY <1>3a, FS_AddElement
<1>7. Count(s, r) = Cardinality(C)
  BY DEF Count, C
<1>8. Count(t, r) = IF r = x THEN Cardinality(C) + 1 ELSE Cardinality(C)
  BY <1>5, <1>6 DEF Count
<1> QED BY <1>2, <1>7, <1>8 DEF t, l

\* What is left to read after a line more.
LEMMA FromAppend ==
  ASSUME NEW s \in Seq(Records), NEW x \in Records, NEW pos \in Nat, pos <= Len(s)
  PROVE  From(s, pos) \in Seq(Records) /\ From(Append(s, x), pos) = Append(From(s, pos), x)
<1>1. Len(s) \in Nat /\ pos + 1 \in 1..Len(s) + 1
  OBVIOUS
<1>2. From(s, pos) \in Seq(Records) /\ Len(From(s, pos)) = Len(s) - pos
      /\ \A n \in 1..Len(s) - pos : From(s, pos)[n] = s[pos + n]
  BY <1>1 DEF From
<1> DEFINE t == Append(s, x)
<1>3. t \in Seq(Records) /\ Len(t) = Len(s) + 1 /\ t[Len(s) + 1] = x /\ \A n \in 1..Len(s) : t[n] = s[n]
  OBVIOUS
<1> HIDE DEF t
<1>4. From(t, pos) \in Seq(Records) /\ Len(From(t, pos)) = Len(s) + 1 - pos
      /\ \A n \in 1..Len(s) + 1 - pos : From(t, pos)[n] = t[pos + n]
  BY <1>1, <1>3 DEF From
<1> DEFINE u == Append(From(s, pos), x)
<1>5. u \in Seq(Records) /\ Len(u) = Len(s) - pos + 1 /\ u[Len(s) - pos + 1] = x
      /\ \A n \in 1..Len(s) - pos : u[n] = s[pos + n]
  BY <1>2
<1> HIDE DEF u
<1>6. Len(From(t, pos)) = Len(u)
  BY <1>1, <1>4, <1>5
<1>7. ASSUME NEW n \in 1..Len(u) PROVE From(t, pos)[n] = u[n]
  <2>1. CASE n = Len(s) - pos + 1
    BY <1>1, <1>3, <1>4, <1>5, <2>1
  <2>2. CASE n # Len(s) - pos + 1
    <3>1. n \in 1..Len(s) - pos /\ pos + n \in 1..Len(s) /\ n \in 1..Len(s) + 1 - pos
      BY <1>1, <1>5, <2>2
    <3> QED BY <1>3, <1>4, <1>5, <3>1
  <2> QED BY <2>1, <2>2
<1>8. From(t, pos) = u
  BY <1>4, <1>5, <1>6, <1>7, SeqEqual
<1> QED BY <1>2, <1>8 DEF t, u

LEMMA FromEnd == ASSUME NEW s \in Seq(Records) PROVE From(s, Len(s)) = <<>>
<1>1. Len(s) \in Nat
  OBVIOUS
<1> QED BY <1>1 DEF From

LEMMA Applied ==
  ASSUME NEW bills \in Bills, NEW lines \in Seq(Records)
  PROVE  /\ Apply(bills, lines) \in Bills
         /\ \A r \in Records :
              /\ Apply(bills, lines)[r] = AtMostTwo(bills[r] + Count(lines, r))
              /\ Apply(bills, lines)[r] >= 1 <=> bills[r] >= 1 \/ In(lines, r)
<1>1. ASSUME NEW r \in Records
      PROVE  /\ AtMostTwo(bills[r] + Count(lines, r)) \in 0..2
             /\ AtMostTwo(bills[r] + Count(lines, r)) >= 1 <=> bills[r] >= 1 \/ In(lines, r)
  <2>1. bills[r] \in 0..2 /\ Count(lines, r) \in Nat /\ (Count(lines, r) = 0 <=> ~In(lines, r))
    BY CountIn DEF Bills
  <2> QED BY <2>1 DEF AtMostTwo
<1>2. Apply(bills, lines) = [r \in Records |-> AtMostTwo(bills[r] + Count(lines, r))]
  BY DEF Apply
<1> HIDE DEF Apply
<1> QED BY <1>1, <1>2 DEF Bills

----------------------------------------------------------------------------
\* The parts of the inductive invariant

\* Which instance owns the directory in every phase.
Owned ==
  /\ phase \in {"run", "quiesce", "exit"} => owner = active /\ active \in Instances
  /\ phase \in {"load", "rollback", "down"} => owner = None
  /\ phase \in {"adopt", "loaded", "discard"} => owner = target /\ target \in Instances
  /\ phase \in {"discard", "rollback"} => active \in Instances
  /\ phase \in {"quiesce", "load"} => target \in Instances
  /\ phase = "down" => active = None

\* Only the owner follows and flushes, it has no writer, and a journal it has yet to
\* close is the one at the path.
Held ==
  \A i \in Instances :
    /\ follower[i].pc # "off" => owner = i /\ follower[i].file \in Journal
    /\ flushing[i] => owner = i
    /\ owner = i => writer[i] = NoFile /\ ~open[i]
    /\ open[i] => writer[i] \in Journal
    /\ follower[i].pc # "off" /\ ~follower[i].closed => follower[i].file = path
    /\ follower[i].pc = "rename" => ~follower[i].closed

\* A journal that was not created is empty.
Files ==
  /\ path <= created /\ \A i \in Instances : writer[i] <= created
  /\ \A f \in Journal : f > created => journal[f] = <<>>
  /\ phase = "quiesce" => created < MaxJournals

Control == Owned /\ Held /\ Files

\* Nothing holds a record that was not delivered.
Known ==
  /\ losable \subseteq delivered /\ torn \subseteq delivered
  /\ \A r \in Records \ delivered :
       /\ disk[r] = 0 /\ \A i \in Instances : mem[i][r] = 0
       /\ \A f \in Journal : Count(journal[f], r) = 0

\* The owner's ledger has what the files have, but for what is given up.
Kept == owner # None => \A r \in Records \ losable : disk[r] > 0 => mem[owner][r] > 0

NotTwice(n, r) == n <= 1 \/ Twice(r)

\* While CPA has a serving instance, the journal at the path is being closed, or could not be renamed.
Following ==
  owner # None /\ path # NoFile /\ path \notin stuck =>
    follower[owner].pc # "off" /\ follower[owner].file = path /\ ~follower[owner].closed

\* The instance CPA may roll back to has a writer, unless it is the one being
\* loaded, which closes the journal before it is shut down.
Returning ==
  phase \in {"load", "adopt", "loaded", "discard", "rollback"} /\ active # None /\ writer[active] = NoFile =>
    /\ phase # "load"
    /\ phase = "rollback" => path = NoFile \/ path \in stuck
    /\ phase # "rollback" => owner = active

Closing == Following /\ Returning

LEMMA ReadsInside ==
  ASSUME TypeOK, Held, NEW i \in Instances
  PROVE  /\ Unread(i) \in Seq(Records)
         /\ Reads(i, follower[i].file) =>
              /\ follower[i].file \in Journal /\ journal[follower[i].file] \in Seq(Records)
              /\ follower[i].pos \in Nat /\ follower[i].pos <= Len(journal[follower[i].file])
              /\ Unread(i) = From(journal[follower[i].file], follower[i].pos)
         /\ ~Reads(i, follower[i].file) => Unread(i) = <<>>
<1> DEFINE f == follower[i].file
<1>1. CASE Reads(i, f)
  <2>1. f \in Journal /\ journal[f] \in Seq(Records) /\ follower[i].pos \in Nat /\ follower[i].pos <= Len(journal[f])
    BY <1>1 DEF Reads, Held, TypeOK, Journal, NoFile
  <2>2. Len(journal[f]) \in Nat
    BY <2>1
  <2>3. From(journal[f], follower[i].pos) \in Seq(Records)
    BY <2>1, <2>2 DEF From
  <2> QED BY <1>1, <2>1, <2>3 DEF Unread
<1>2. CASE ~Reads(i, f)
  BY <1>2 DEF Unread
<1> QED BY <1>1, <1>2

LEMMA AtPathTyped == ASSUME TypeOK PROVE AtPath \in Seq(Records)
BY DEF TypeOK, AtPath

LEMMA FlushKeepsTypes ==
  ASSUME TypeOK, NEW i \in Instances, NEW ok \in BOOLEAN, FlushResult(i, ok)
  PROVE  /\ disk' \in Bills /\ dirty' \in [Instances -> BOOLEAN]
         /\ disk' = disk \/ disk' = mem[i]
<1>1. mem[i] \in Bills /\ disk \in Bills /\ dirty \in [Instances -> BOOLEAN]
  BY DEF TypeOK
<1> HIDE DEF Bills
<1>2. (disk' = mem[i] /\ dirty' = [dirty EXCEPT ![i] = FALSE]) \/ UNCHANGED <<disk, dirty>>
      \/ (disk' = mem[i] /\ dirty' = dirty)
  BY DEF FlushResult
<1> QED BY <1>1, <1>2

FollowerType ==
  [pc : {"off", "wait", "flush", "rename"}, file : Journal \cup {NoFile}, pos : Nat,
   closed : BOOLEAN, stopping : BOOLEAN, last : BOOLEAN]

LEMMA TypeStep ==
  ASSUME TypeOK, Control, [Next]_vars
  PROVE  TypeOK'
<1> USE HandoffAssumption
<1> USE DEF store, dir, cpa, ghosts, Phases, NoFile
<1>0. mem \in [Instances -> Bills] /\ disk \in Bills /\ follower \in [Instances -> FollowerType] /\ Nothing \in Bills
  BY DEF TypeOK, FollowerType, Nothing, Bills
<1>1. ASSUME NEW i \in Instances, NEW r \in Records, Deliver(i, r) PROVE TypeOK'
  <2>1. <<r>> \in Seq(Records)
    OBVIOUS
  <2>2. mem' \in [Instances -> Bills]
    BY <1>0, <1>1, <2>1, Applied DEF Deliver
  <2>3. journal' \in [Journal -> Seq(Records)] /\ \A f \in Journal : Len(journal'[f]) >= Len(journal[f])
    <3>1. CASE journal' = journal
      <4>1. \A f \in Journal : Len(journal[f]) \in Nat
        BY DEF TypeOK
      <4> QED BY <3>1, <4>1 DEF TypeOK
    <3>2. CASE writer[i] # NoFile /\ open[i] /\ journal' = [journal EXCEPT ![writer[i]] = Append(@, r)]
      <4>1. writer[i] \in Journal
        BY <3>2 DEF TypeOK
      <4>2. \A f \in Journal : journal[f] \in Seq(Records) /\ journal'[f] = IF f = writer[i] THEN Append(journal[f], r) ELSE journal[f]
        BY <3>2, <4>1 DEF TypeOK
      <4>3. \A f \in Journal : journal'[f] \in Seq(Records) /\ Len(journal'[f]) >= Len(journal[f])
        <5> TAKE f \in Journal
        <5>1. journal[f] \in Seq(Records) /\ Len(journal[f]) \in Nat
          BY <4>2
        <5>2. Append(journal[f], r) \in Seq(Records) /\ Len(Append(journal[f], r)) = Len(journal[f]) + 1
          BY <5>1
        <5>3. CASE f = writer[i]
          <6>1. journal'[f] = Append(journal[f], r)
            BY <4>2, <5>3
          <6> QED BY <5>1, <5>2, <6>1
        <5>4. CASE f # writer[i]
          <6>1. journal'[f] = journal[f]
            BY <4>2, <5>4
          <6> QED BY <5>1, <6>1
        <5> QED BY <5>3, <5>4
      <4> QED BY <3>2, <4>3 DEF TypeOK
    <3> QED BY <1>1, <3>1, <3>2 DEF Deliver
  <2>4. \A j \in Instances : follower'[j].file # NoFile => follower'[j].pos <= Len(journal'[follower'[j].file])
    <3> SUFFICES ASSUME NEW j \in Instances, follower[j].file # NoFile
                 PROVE  follower[j].pos <= Len(journal'[follower[j].file])
      BY <1>1 DEF Deliver
    <3>1. follower[j].file \in Journal /\ follower[j].pos \in Nat
          /\ follower[j].pos <= Len(journal[follower[j].file])
      BY DEF TypeOK
    <3>2. journal[follower[j].file] \in Seq(Records) /\ journal'[follower[j].file] \in Seq(Records)
      BY <2>3, <3>1 DEF TypeOK
    <3>3. Len(journal[follower[j].file]) \in Nat /\ Len(journal'[follower[j].file]) \in Nat
      BY <3>2
    <3> QED BY <2>3, <3>1, <3>3
  <2> QED BY <1>1, <2>2, <2>3, <2>4 DEF Deliver, TypeOK
<1>2. ASSUME NEW i \in Instances, FlushTick(i) PROVE TypeOK'
  BY <1>2, FlushKeepsTypes DEF FlushTick, TypeOK
<1>3. ASSUME NEW i \in Instances, FollowRead(i) PROVE TypeOK'
  <2> DEFINE f == follower[i]
  <2>1. f \in FollowerType /\ f.file \in Journal /\ journal[f.file] \in Seq(Records)
    BY <1>0, <1>3 DEF FollowRead, Control, Held, TypeOK
  <2>2. Len(journal[f.file]) \in Nat /\ Unread(i) \in Seq(Records)
    BY <2>1, ReadsInside DEF Control
  <2>3. mem' \in [Instances -> Bills] /\ dirty' \in [Instances -> BOOLEAN]
    BY <1>0, <1>3, <2>2, Applied DEF FollowRead, TypeOK
  <2>4. AfterRead(f, Unread(i) # <<>>) \in {"flush", "wait", "off"}
    BY DEF AfterRead
  <2> HIDE DEF f
  <2>5. follower' = [follower EXCEPT ![i] =
          [f EXCEPT !.pos = Len(journal[f.file]), !.last = f.stopping, !.pc = AfterRead(f, Unread(i) # <<>>)]]
    BY <1>3 DEF FollowRead, f
  <2>6. follower' \in [Instances -> FollowerType]
    BY <1>0, <2>1, <2>2, <2>4, <2>5 DEF FollowerType
  <2>7. follower'[i].file = f.file /\ follower'[i].pos = Len(journal[f.file])
        /\ \A j \in Instances \ {i} : follower'[j] = follower[j]
    BY <1>0, <2>1, <2>5 DEF FollowerType
  <2>8. \A j \in Instances : follower'[j].file # NoFile => follower'[j].pos <= Len(journal'[follower'[j].file])
    BY <1>3, <2>2, <2>7 DEF FollowRead, TypeOK
  <2> QED BY <1>3, <2>3, <2>6, <2>8 DEF FollowRead, TypeOK, FollowerType
<1>4. ASSUME NEW i \in Instances, FollowFlush(i) PROVE TypeOK'
  <2>1. PICK ok \in BOOLEAN : FlushResult(i, ok) /\ follower' = [follower EXCEPT ![i] = AfterFlush(@, ok)]
    BY <1>4 DEF FollowFlush
  <2>2. /\ follower' \in [Instances -> FollowerType]
        /\ \A j \in Instances : follower'[j].file = follower[j].file /\ follower'[j].pos = follower[j].pos
    BY <1>0, <2>1 DEF AfterFlush, FollowerType
  <2> QED BY <1>4, <2>1, <2>2, FlushKeepsTypes DEF FollowFlush, TypeOK, FollowerType
<1>5. ASSUME NEW i \in Instances, FollowRename(i) PROVE TypeOK'
  <2>1. path \in Journal
    BY <1>5 DEF FollowRename, Control, Held, TypeOK
  <2>2. /\ follower' \in [Instances -> FollowerType]
        /\ \A j \in Instances : follower'[j].file = follower[j].file /\ follower'[j].pos = follower[j].pos
    BY <1>0, <1>5 DEF FollowRename, FollowerType
  <2> QED BY <1>5, <2>1, <2>2 DEF FollowRename, TypeOK, FollowerType
<1>6. ASSUME NEW i \in Instances, FollowQuiet(i) PROVE TypeOK'
  BY <1>6 DEF FollowQuiet, TypeOK, NoFollower
<1>7. ASSUME NEW i \in Instances, RetireOld(i) PROVE TypeOK'
  BY <1>7 DEF RetireOld, TypeOK
<1>8. ASSUME NEW i \in Instances, StopFollowing(i)
      PROVE  /\ follower' \in [Instances -> FollowerType]
             /\ \A j \in Instances : follower'[j].file = follower[j].file /\ follower'[j].pos = follower[j].pos
  BY <1>0, <1>8 DEF StopFollowing, FollowerType
<1>9. ASSUME NEW n \in Instances, BeginReplacement(n) PROVE TypeOK'
  <2>1. active \in Instances /\ StopFollowing(active)
    BY <1>9 DEF BeginReplacement, TypeOK
  <2> QED BY <1>8, <1>9, <2>1 DEF BeginReplacement, TypeOK, FollowerType
<1>10. ASSUME NEW n \in Instances, Start(n) PROVE TypeOK'
  BY <1>10 DEF Start, TypeOK
<1>11. CASE Quiesce
  <2>1. active \in Instances /\ FlushResult(active, TRUE) /\ JournalToOpen \in Journal
        /\ created' \in 0..MaxJournals
    <3>1. active \in Instances /\ FlushResult(active, TRUE) /\ created < MaxJournals
          /\ created' = IF path = NoFile THEN created + 1 ELSE created
      BY <1>11 DEF Quiesce, Control, Owned, Files
    <3>2. created \in 0..MaxJournals /\ path \in Journal \cup {NoFile}
      BY DEF TypeOK
    <3>3. created + 1 \in 1..MaxJournals /\ created + 1 \in 0..MaxJournals
      BY <3>1, <3>2
    <3> QED BY <3>1, <3>2, <3>3 DEF JournalToOpen, Journal
  <2> QED BY <1>11, <2>1, FlushKeepsTypes DEF Quiesce, TypeOK, FlusherStopped
<1>12. CASE QuiesceFails
  <2>1. active \in Instances
    BY <1>12 DEF QuiesceFails, Control, Owned
  <2> QED BY <1>12, <2>1, FlushKeepsTypes DEF QuiesceFails, TypeOK
<1>13. CASE Register
  <2>1. target \in Instances /\ Loaded(target) \in Bills
    BY <1>0, <1>13, AtPathTyped, Applied DEF Register, Control, Owned, Loaded
  <2>2. path # NoFile => Len(AtPath) \in Nat /\ AtPath = journal[path] /\ path \in Journal
    BY AtPathTyped DEF AtPath, TypeOK
  <2> DEFINE g == IF path = NoFile THEN NoFollower ELSE Replayed
  <2>3. g \in FollowerType /\ g.file = path /\ (path # NoFile => g.pos = Len(AtPath))
    BY <2>2 DEF Replayed, NoFollower, FollowerType
  <2> HIDE DEF g
  <2>4. follower' = [follower EXCEPT ![target] = g]
    BY <1>13 DEF Register, g
  <2>5. follower' \in [Instances -> FollowerType]
        /\ \A j \in Instances : follower'[j].file # NoFile => follower'[j].pos <= Len(journal[follower'[j].file])
    BY <1>0, <2>1, <2>2, <2>3, <2>4 DEF TypeOK
  <2> QED BY <1>13, <2>1, <2>5 DEF Register, TypeOK, FollowerType
<1>14. CASE Adopted
  BY <1>14 DEF Adopted, TypeOK
<1>15. CASE RegisterFails
  BY <1>15 DEF RegisterFails, TypeOK, Behind, Stopped
<1>16. CASE Switch
  BY <1>16 DEF Switch, TypeOK
<1>17. CASE Discard
  <2>1. target \in Instances /\ StopFollowing(target) /\ Behind \subseteq Records
    BY <1>17 DEF Discard, Control, Owned, Behind, TypeOK
  <2> QED BY <1>8, <1>17, <2>1 DEF Discard, TypeOK, FollowerType
<1>18. CASE Discarded
  <2>1. target \in Instances
    BY <1>18 DEF Discarded, Control, Owned
  <2> QED BY <1>18, <2>1, FlushKeepsTypes DEF Discarded, ShutdownOwner, FlusherStopped, TypeOK
<1>19. CASE Rollback
  BY <1>19 DEF Rollback, TypeOK, Control, Owned
<1>20. ASSUME NEW bills, Gone(bills), disk' \in Bills, crashes' \in Nat, torn' \subseteq Records
       PROVE  TypeOK'
  <2>1. follower' \in [Instances -> FollowerType] /\ \A i \in Instances : follower'[i].file = NoFile
    BY <1>20 DEF Gone, NoFollower, FollowerType
  <2> QED BY <1>0, <1>20, <2>1 DEF Gone, TypeOK, FollowerType
<1>21. CASE Crash
  BY <1>20, <1>21 DEF Crash, TypeOK
<1>22. CASE BeginExit
  <2>1. active \in Instances /\ StopFollowing(active)
    BY <1>22 DEF BeginExit, Control, Owned
  <2> QED BY <1>8, <1>22, <2>1 DEF BeginExit, TypeOK, FollowerType
<1>23. CASE Exit
  BY <1>20, <1>23 DEF Exit, Control, Owned, TypeOK
<1>24. CASE UNCHANGED vars
  BY <1>24 DEF vars, TypeOK
<1> QED BY <1>1, <1>2, <1>3, <1>4, <1>5, <1>6, <1>7, <1>9, <1>10, <1>11, <1>12, <1>13, <1>14, <1>15,
           <1>16, <1>17, <1>18, <1>19, <1>21, <1>22, <1>23, <1>24 DEF Next, Follow

\* Which instance owns the directory in every phase of a replacement.
LEMMA OwnedStep ==
  ASSUME TypeOK, Control, [Next]_vars
  PROVE  Owned'
<1> USE HandoffAssumption DEF store, dir, cpa, ghosts
<1>0. Owned /\ phase \in Phases /\ owner \in Instances \cup {None} /\ active \in Instances \cup {None}
      /\ target \in Instances \cup {None}
  BY DEF Control, TypeOK
<1>1. CASE UNCHANGED <<phase, owner, active, target>>
  BY <1>0, <1>1 DEF Owned
<1>2. ASSUME NEW i \in Instances,
             (\E r \in Records : Deliver(i, r)) \/ FlushTick(i) \/ Follow(i) \/ FollowQuiet(i) \/ RetireOld(i)
      PROVE  UNCHANGED <<phase, owner, active, target>>
  BY <1>2 DEF Deliver, FlushTick, Follow, FollowRead, FollowFlush, FollowRename, FollowQuiet, RetireOld
<1>3. ASSUME NEW n \in Instances, BeginReplacement(n) PROVE Owned'
  BY <1>0, <1>3 DEF BeginReplacement, Owned
<1>4. ASSUME NEW n \in Instances, Start(n) PROVE Owned'
  BY <1>0, <1>4 DEF Start, Owned
<1>5. CASE Quiesce
  BY <1>0, <1>5 DEF Quiesce, Owned
<1>6. CASE QuiesceFails
  BY <1>0, <1>6 DEF QuiesceFails, Owned
<1>7. CASE Register
  BY <1>0, <1>7 DEF Register, Owned
<1>8. CASE Adopted
  BY <1>0, <1>8 DEF Adopted, Owned
<1>9. CASE RegisterFails
  BY <1>0, <1>9 DEF RegisterFails, Owned
<1>10. CASE Switch
  BY <1>0, <1>10 DEF Switch, Owned
<1>11. CASE Discard
  BY <1>0, <1>11 DEF Discard, Owned
<1>12. CASE Discarded
  BY <1>0, <1>12 DEF Discarded, ShutdownOwner, Owned
<1>13. CASE Rollback
  BY <1>0, <1>13 DEF Rollback, Owned
<1>14. CASE Crash
  BY <1>14 DEF Crash, Gone, Owned
<1>15. CASE BeginExit
  BY <1>0, <1>15 DEF BeginExit, Owned
<1>16. CASE Exit
  BY <1>16 DEF Exit, Gone, Owned
<1>17. CASE UNCHANGED vars
  BY <1>1, <1>17 DEF vars
<1> QED BY <1>1, <1>2, <1>3, <1>4, <1>5, <1>6, <1>7, <1>8, <1>9, <1>10, <1>11, <1>12, <1>13, <1>14,
           <1>15, <1>16, <1>17 DEF Next

\* What a step does to a follower: it stays, or stops reading at the end, or goes on.
LEMMA HeldStep ==
  ASSUME TypeOK, Control, [Next]_vars
  PROVE  Held'
<1> USE HandoffAssumption DEF store, dir, cpa, ghosts, NoFile
<1>0. /\ follower \in [Instances -> FollowerType] /\ owner \in Instances \cup {None}
      /\ writer \in [Instances -> Journal \cup {NoFile}] /\ open \in [Instances -> BOOLEAN]
      /\ flushing \in [Instances -> BOOLEAN] /\ active \in Instances \cup {None}
      /\ path \in Journal \cup {NoFile} /\ Held /\ Owned
  BY DEF TypeOK, FollowerType, Control
<1>1. ASSUME UNCHANGED <<flushing, writer, open, owner, path, follower>> PROVE Held'
  BY <1>0, <1>1 DEF Held
<1>2. ASSUME NEW i \in Instances, NEW g \in FollowerType, follower' = [follower EXCEPT ![i] = g],
             UNCHANGED <<flushing, writer, open, owner, path>>,
             g.pc # "off" => follower[i].pc # "off" /\ g.file = follower[i].file,
             g.pc # "off" => g.closed = follower[i].closed,
             g.pc = "rename" => ~g.closed
      PROVE  Held'
  <2>1. follower'[i] = g /\ \A j \in Instances \ {i} : follower'[j] = follower[j]
    BY <1>0, <1>2
  <2> QED BY <1>0, <1>2, <2>1 DEF Held
<1>3. ASSUME NEW i \in Instances,
             (\E r \in Records : Deliver(i, r)) \/ FlushTick(i)
      PROVE  Held'
  BY <1>1, <1>3 DEF Deliver, FlushTick
<1>4. ASSUME NEW i \in Instances, FollowRead(i) PROVE Held'
  <2> DEFINE f == follower[i]
             g == [f EXCEPT !.pos = Len(journal[f.file]), !.last = f.stopping, !.pc = AfterRead(f, Unread(i) # <<>>)]
  <2>1. f.pc = "wait" /\ f \in FollowerType /\ f.file \in Journal
    BY <1>0, <1>4 DEF FollowRead, Held
  <2>2. Len(journal[f.file]) \in Nat
    BY <2>1 DEF TypeOK
  <2>3. AfterRead(f, Unread(i) # <<>>) \in {"flush", "wait", "off"}
    BY DEF AfterRead
  <2> HIDE DEF f
  <2>4. g \in FollowerType /\ g.file = f.file /\ g.closed = f.closed /\ g.pc # "rename"
    BY <2>1, <2>2, <2>3 DEF FollowerType
  <2>5. follower' = [follower EXCEPT ![i] = g] /\ UNCHANGED <<flushing, writer, open, owner, path>>
    BY <1>4 DEF FollowRead, f
  <2> HIDE DEF g
  <2> QED BY <1>2, <2>1, <2>4, <2>5 DEF f
<1>5. ASSUME NEW i \in Instances, FollowFlush(i) PROVE Held'
  <2>1. PICK ok \in BOOLEAN : FlushResult(i, ok) /\ follower' = [follower EXCEPT ![i] = AfterFlush(@, ok)]
    BY <1>5 DEF FollowFlush
  <2> DEFINE f == follower[i]
             g == AfterFlush(f, ok)
  <2>2. f \in FollowerType /\ f.pc = "flush"
    BY <1>0, <1>5 DEF FollowFlush
  <2> HIDE DEF f
  <2>3. g \in FollowerType /\ g.file = f.file /\ g.closed = f.closed /\ (g.pc = "rename" => ~g.closed)
    BY <2>2 DEF FollowerType, AfterFlush
  <2>4. follower' = [follower EXCEPT ![i] = g] /\ UNCHANGED <<flushing, writer, open, owner, path>>
    BY <1>5, <2>1 DEF FollowFlush, f
  <2> HIDE DEF g
  <2> QED BY <1>2, <2>2, <2>3, <2>4 DEF f
<1>6. ASSUME NEW i \in Instances, FollowRename(i) PROVE Held'
  <2>1. follower[i].pc = "rename" /\ owner = i
    BY <1>0, <1>6 DEF FollowRename, Held
  <2>2. follower'[i].closed = TRUE /\ follower'[i].file = follower[i].file /\ follower'[i].pc # "rename"
        /\ \A j \in Instances \ {i} : follower'[j] = follower[j]
    BY <1>0, <1>6 DEF FollowRename, FollowerType
  <2>3. \A j \in Instances \ {i} : follower[j].pc = "off"
    BY <1>0, <2>1 DEF Held
  <2>4. UNCHANGED <<flushing, writer, open, owner>>
    BY <1>6 DEF FollowRename
  <2> QED BY <1>0, <2>1, <2>2, <2>3, <2>4 DEF Held
<1>7. ASSUME NEW i \in Instances, FollowQuiet(i) PROVE Held'
  <2>1. NoFollower \in FollowerType /\ NoFollower.pc = "off"
    BY DEF NoFollower, FollowerType
  <2> QED BY <1>2, <1>7, <2>1 DEF FollowQuiet
<1>8. ASSUME NEW i \in Instances, RetireOld(i) PROVE Held'
  BY <1>0, <1>8 DEF RetireOld, Held
<1>9. ASSUME NEW i \in Instances, StopFollowing(i), UNCHANGED <<flushing, writer, open, owner, path>> PROVE Held'
  <2> DEFINE g == IF follower[i].pc = "off" THEN follower[i] ELSE [follower[i] EXCEPT !.stopping = TRUE]
  <2>1. follower[i] \in FollowerType
    BY <1>0
  <2>2. follower' = [follower EXCEPT ![i] = g]
    BY <1>9 DEF StopFollowing
  <2>3. g \in FollowerType /\ g.pc = follower[i].pc /\ g.file = follower[i].file /\ g.closed = follower[i].closed
    BY <2>1 DEF FollowerType
  <2> HIDE DEF g
  <2> QED BY <1>0, <1>2, <1>9, <2>2, <2>3 DEF Held
<1>10. ASSUME NEW n \in Instances, BeginReplacement(n) PROVE Held'
  BY <1>0, <1>9, <1>10 DEF BeginReplacement
<1>11. ASSUME NEW n \in Instances, Start(n) PROVE Held'
  BY <1>1, <1>11 DEF Start
<1>12. CASE Quiesce
  <2>1. active \in Instances /\ owner = active /\ JournalToOpen \in Journal
    <3>1. active \in Instances /\ owner = active /\ writer' = [writer EXCEPT ![active] = JournalToOpen]
      BY <1>0, <1>12 DEF Quiesce, Owned
    <3>2. path' = JournalToOpen /\ path' \in Journal \cup {NoFile}
      BY <1>12, TypeStep DEF Quiesce, TypeOK
    <3>3. JournalToOpen # NoFile
      BY <1>0 DEF JournalToOpen, TypeOK
    <3> QED BY <3>1, <3>2, <3>3
  <2>2. \A i \in Instances : follower[i].pc = "off" /\ ~flushing'[i]
    BY <1>0, <1>12, <2>1 DEF Quiesce, FlusherStopped, Held
  <2>3. \A i \in Instances : open'[i] => writer'[i] \in Journal
    BY <1>0, <1>12, <2>1 DEF Quiesce, Held
  <2>4. owner' = None /\ follower' = follower
    BY <1>12 DEF Quiesce
  <2> QED BY <2>2, <2>3, <2>4 DEF Held
<1>13. CASE QuiesceFails
  <2>1. active \in Instances /\ owner = active
    BY <1>0, <1>13 DEF QuiesceFails, Owned
  <2>2. \A i \in Instances : follower[i].pc = "off"
    BY <1>0, <1>13, <2>1 DEF QuiesceFails, Held
  <2> QED BY <1>0, <1>13, <2>2 DEF QuiesceFails, Held
<1>14. CASE Register
  <2>1. target \in Instances /\ owner = None /\ owner' = target /\ UNCHANGED <<flushing, path>>
    BY <1>0, <1>14 DEF Register, Owned
  <2>2. \A i \in Instances : follower[i].pc = "off" /\ ~flushing[i]
    BY <1>0, <2>1 DEF Held
  <2>3. /\ follower'[target] = IF path = NoFile THEN NoFollower ELSE Replayed
        /\ \A i \in Instances \ {target} : follower'[i] = follower[i] /\ writer'[i] = writer[i] /\ open'[i] = open[i]
        /\ writer'[target] = NoFile /\ open'[target] = FALSE
    BY <1>0, <1>14, <2>1 DEF Register
  <2>4. (follower'[target].pc # "off" => follower'[target].file = path /\ path \in Journal)
        /\ follower'[target].pc # "rename"
    BY <1>0, <2>3 DEF NoFollower, Replayed
  <2> QED BY <1>0, <2>1, <2>2, <2>3, <2>4 DEF Held
<1>15. CASE Adopted
  <2>1. target \in Instances /\ owner = target
    BY <1>0, <1>15 DEF Adopted, Owned
  <2> QED BY <1>0, <1>15, <2>1 DEF Adopted, Held
<1>16. CASE RegisterFails
  BY <1>0, <1>16 DEF RegisterFails, Held, Stopped
<1>17. CASE Switch
  BY <1>1, <1>17 DEF Switch
<1>18. CASE Discard
  <2>1. target \in Instances
    BY <1>0, <1>18 DEF Discard, Owned
  <2> QED BY <1>9, <1>18, <2>1 DEF Discard
<1>19. CASE Discarded
  <2>1. target \in Instances /\ owner = target
    BY <1>0, <1>19 DEF Discarded, Owned
  <2>2. \A i \in Instances : follower[i].pc = "off" /\ ~flushing'[i]
    BY <1>0, <1>19, <2>1 DEF Discarded, ShutdownOwner, FlusherStopped, Held
  <2> QED BY <1>0, <1>19, <2>2 DEF Discarded, ShutdownOwner, Held
<1>20. CASE Rollback
  <2>1. active \in Instances /\ owner = None /\ owner' = active
    BY <1>0, <1>20 DEF Rollback, Owned
  <2>2. \A i \in Instances : follower[i].pc = "off" /\ (flushing'[i] => i = active)
    BY <1>0, <1>20, <2>1 DEF Rollback, Held
  <2>3. follower' = follower /\ writer'[active] = NoFile /\ open'[active] = FALSE
        /\ \A i \in Instances \ {active} : writer'[i] = writer[i] /\ open'[i] = open[i]
    BY <1>0, <1>20, <2>1 DEF Rollback
  <2> QED BY <1>0, <2>1, <2>2, <2>3 DEF Held
<1>21. ASSUME NEW bills, Gone(bills) PROVE Held'
  BY <1>21 DEF Gone, Held, NoFollower
<1>22. CASE Crash
  BY <1>21, <1>22 DEF Crash
<1>23. CASE Exit
  BY <1>21, <1>23 DEF Exit
<1>24. CASE BeginExit
  BY <1>0, <1>9, <1>24 DEF BeginExit, Owned
<1>25. CASE UNCHANGED vars
  BY <1>1, <1>25 DEF vars
<1> QED BY <1>3, <1>4, <1>5, <1>6, <1>7, <1>8, <1>10, <1>11, <1>12, <1>13, <1>14, <1>15, <1>16, <1>17,
           <1>18, <1>19, <1>20, <1>22, <1>23, <1>24, <1>25 DEF Next, Follow

\* Which files exist.
LEMMA FilesStep ==
  ASSUME TypeOK, Control, [Next]_vars
  PROVE  Files'
<1> USE HandoffAssumption DEF store, dir, cpa, ghosts, NoFile
<1>0. /\ writer \in [Instances -> Journal \cup {NoFile}] /\ created \in 0..MaxJournals /\ path \in Journal \cup {NoFile}
      /\ journal \in [Journal -> Seq(Records)] /\ active \in Instances \cup {None} /\ target \in Instances \cup {None}
      /\ Files
  BY DEF TypeOK, Control
<1>1. ASSUME UNCHANGED <<journal, created>>, path' = path \/ path' = NoFile,
             \A i \in Instances : writer'[i] = writer[i] \/ writer'[i] = NoFile,
             phase' = "quiesce" => phase = "quiesce"
      PROVE  Files'
  BY <1>0, <1>1 DEF Files
<1>2. ASSUME NEW i \in Instances, NEW r \in Records, Deliver(i, r) PROVE Files'
  <2>1. UNCHANGED <<created, path, writer, phase>>
    BY <1>2 DEF Deliver
  <2>2. CASE journal' = journal
    BY <1>1, <2>1, <2>2
  <2>3. CASE writer[i] # NoFile /\ journal' = [journal EXCEPT ![writer[i]] = Append(@, r)]
    <3>1. writer[i] \in Journal /\ writer[i] <= created
      BY <1>0, <2>3 DEF Files
    <3>2. \A f \in Journal : f > created => f # writer[i]
      BY <1>0, <3>1 DEF Journal
    <3>3. \A f \in Journal : f > created => journal'[f] = <<>>
      BY <1>0, <2>3, <3>2 DEF Files
    <3> QED BY <1>0, <2>1, <3>3 DEF Files
  <2> QED BY <1>2, <2>2, <2>3 DEF Deliver
<1>3. ASSUME NEW i \in Instances, FlushTick(i) \/ Follow(i) \/ FollowQuiet(i) \/ RetireOld(i) PROVE Files'
  <2>1. UNCHANGED <<journal, created, writer, phase>> /\ (path' = path \/ path' = NoFile)
    BY <1>3 DEF FlushTick, Follow, FollowRead, FollowFlush, FollowRename, FollowQuiet, RetireOld
  <2> QED BY <1>1, <2>1
<1>4. ASSUME NEW n \in Instances, BeginReplacement(n) PROVE Files'
  BY <1>0, <1>4 DEF BeginReplacement, Files
<1>5. ASSUME NEW n \in Instances, Start(n) PROVE Files'
  BY <1>1, <1>5 DEF Start
<1>6. CASE Quiesce
  <2>1. active \in Instances /\ phase' = "load" /\ journal' = journal
        /\ writer' = [writer EXCEPT ![active] = JournalToOpen]
        /\ path' = JournalToOpen /\ created' = IF path = NoFile THEN created + 1 ELSE created
    BY <1>6 DEF Quiesce, Control, Owned
  <2>2. created' \in Nat /\ JournalToOpen <= created' /\ created <= created' /\ created \in Nat
    BY <1>0, <2>1 DEF JournalToOpen, Files
  <2>3. \A i \in Instances : writer'[i] <= created'
    <3> TAKE i \in Instances
    <3>1. CASE i = active
      BY <1>0, <2>1, <2>2, <3>1
    <3>2. CASE i # active
      <4>1. writer'[i] = writer[i] /\ writer[i] \in Nat /\ writer[i] <= created
        BY <1>0, <2>1, <3>2 DEF Files, Journal
      <4> QED BY <2>2, <4>1
    <3> QED BY <3>1, <3>2
  <2>4. \A f \in Journal : f > created' => f > created
    BY <2>2 DEF Journal
  <2> QED BY <1>0, <2>1, <2>2, <2>3, <2>4 DEF Files
<1>7. CASE QuiesceFails
  BY <1>1, <1>7 DEF QuiesceFails
<1>8. CASE Register
  BY <1>0, <1>1, <1>8 DEF Register
<1>9. CASE Adopted \/ Switch \/ Discard \/ Discarded \/ BeginExit
  BY <1>1, <1>9 DEF Adopted, Switch, Discard, Discarded, ShutdownOwner, BeginExit
<1>10. CASE RegisterFails
  BY <1>0, <1>1, <1>10 DEF RegisterFails, Stopped
<1>11. CASE Rollback
  BY <1>0, <1>1, <1>11 DEF Rollback
<1>12. CASE Crash \/ Exit
  BY <1>1, <1>12 DEF Crash, Exit, Gone
<1>13. CASE UNCHANGED vars
  BY <1>1, <1>13 DEF vars
<1> QED BY <1>2, <1>3, <1>4, <1>5, <1>6, <1>7, <1>8, <1>9, <1>10, <1>11, <1>12, <1>13 DEF Next

LEMMA InitTyped == Init => TypeOK /\ Control
<1> SUFFICES ASSUME Init PROVE TypeOK /\ Control
  OBVIOUS
<1> USE HandoffAssumption DEF Init, NoFile, Nothing, Bills, NoFollower
<1>1. follower \in [Instances -> FollowerType] /\ \A i \in Instances : follower[i].file = NoFile
  BY DEF FollowerType
<1>2. TypeOK
  BY <1>1 DEF TypeOK, FollowerType, Phases
<1> QED BY <1>2 DEF Control, Owned, Held, Files

(* However replacements, rollbacks, exits and crashes follow each other, in
   every phase exactly the expected instance owns the directory, follows and
   flushes. *)
THEOREM HandoffTyped == Spec => [](TypeOK /\ Control)
<1>1. (TypeOK /\ Control) /\ [Next]_vars => (TypeOK /\ Control)'
  <2> SUFFICES ASSUME TypeOK, Control, [Next]_vars PROVE (TypeOK /\ Control)'
    OBVIOUS
  <2> QED BY TypeStep, OwnedStep, HeldStep, FilesStep DEF Control
<1> QED BY InitTyped, <1>1, PTL DEF Spec

(* Every variable of the handoff keeps its type, whatever fails. *)
THEOREM HandoffTypeOK == Spec => []TypeOK
BY HandoffTyped, PTL

----------------------------------------------------------------------------
\* What a delivery does to the lines

LEMMA CountOne == ASSUME NEW x \in Records, NEW r PROVE <<x>> \in Seq(Records) /\ Count(<<x>>, r) = IF r = x THEN 1 ELSE 0
<1>1. <<>> \in Seq(Records) /\ Append(<<>>, x) = <<x>>
  OBVIOUS
<1>2. Count(<<>>, r) = 0
  BY CountNone
<1>3. Count(Append(<<>>, x), r) = IF r = x THEN Count(<<>>, r) + 1 ELSE Count(<<>>, r)
  BY <1>1, CountAppend
<1>4. Count(<<x>>, r) = IF r = x THEN 0 + 1 ELSE 0
  BY <1>1, <1>2, <1>3
<1>5. <<x>> \in Seq(Records)
  OBVIOUS
<1> QED BY <1>4, <1>5

LEMMA FromIn ==
  ASSUME NEW s \in Seq(Records), NEW pos \in Nat, pos <= Len(s), NEW r, In(From(s, pos), r)
  PROVE  In(s, r)
<1>1. Len(s) \in Nat
  OBVIOUS
<1>2. Len(From(s, pos)) = Len(s) - pos /\ \A n \in 1..Len(s) - pos : From(s, pos)[n] = s[pos + n]
  BY <1>1 DEF From
<1>3. PICK n \in 1..Len(s) - pos : From(s, pos)[n] = r
  BY <1>2 DEF In
<1>4. pos + n \in 1..Len(s) /\ s[pos + n] = r
  BY <1>1, <1>2, <1>3
<1> QED BY <1>4 DEF In

Grown(t, s, r) == t = s \/ t = Append(s, r)

LEMMA GrownCounts ==
  ASSUME NEW s \in Seq(Records), NEW r \in Records, NEW t, Grown(t, s, r)
  PROVE  /\ t \in Seq(Records)
         /\ \A x : x # r => Count(t, x) = Count(s, x)
         /\ Count(t, r) <= Count(s, r) + 1
         /\ \A x : In(s, x) => In(t, x)
         /\ t = Append(s, r) => In(t, r)
<1>1. t \in Seq(Records)
  BY CountAppend DEF Grown
<1>2. \A x : Count(t, x) \in Nat /\ Count(s, x) \in Nat
  BY <1>1, CountIn
<1>3. \A x : Count(t, x) = Count(s, x) \/ (x = r /\ Count(t, x) = Count(s, x) + 1)
  <2> TAKE x
  <2>1. Count(Append(s, r), x) = IF x = r THEN Count(s, x) + 1 ELSE Count(s, x)
    BY CountAppend
  <2> QED BY <2>1 DEF Grown
<1>4. \A x : In(s, x) => In(t, x)
  <2> SUFFICES ASSUME NEW x, In(s, x) PROVE In(t, x)
    OBVIOUS
  <2>1. Count(s, x) # 0
    BY CountIn
  <2>2. Count(t, x) # 0
    BY <1>2, <1>3, <2>1
  <2> QED BY <1>1, <2>2, CountIn
<1>5. t = Append(s, r) => In(t, r)
  <2> SUFFICES ASSUME t = Append(s, r) PROVE In(t, r)
    OBVIOUS
  <2>1. Count(t, r) = Count(s, r) + 1
    BY CountAppend
  <2>2. Count(t, r) # 0
    BY <1>2, <2>1
  <2> QED BY <1>1, <2>2, CountIn
<1>6. Count(t, r) <= Count(s, r) + 1
  BY <1>2, <1>3
<1> QED BY <1>1, <1>3, <1>4, <1>5, <1>6

\* Nobody reads its own lines: who follows a journal owns the directory, and the
\* owner has no writer.
LEMMA DeliverLines ==
  ASSUME TypeOK, Control, NEW i \in Instances, NEW r \in Records, Deliver(i, r)
  PROVE  /\ \A f \in Journal : Grown(journal'[f], journal[f], r)
         /\ \A j \in Instances : Grown(Unread(j)', Unread(j), r)
         /\ Unread(i)' = Unread(i)
         /\ Grown(AtPath', AtPath, r)
         /\ journal' # journal =>
              /\ AtPath' = Append(AtPath, r) \/ path # writer[i]
              /\ \A j \in Instances : Reads(j, writer[i]) => Unread(j)' = Append(Unread(j), r)
         /\ \A j \in Instances \ {i} : mem'[j] = mem[j]
         /\ \A s \in Records : mem'[i][s] = IF s = r THEN AtMostTwo(mem[i][s] + 1) ELSE mem[i][s]
<1> USE DEF NoFile
<1>1. journal \in [Journal -> Seq(Records)] /\ mem \in [Instances -> Bills] /\ path \in Journal \cup {NoFile}
      /\ writer \in [Instances -> Journal \cup {NoFile}]
      /\ UNCHANGED <<follower, path>>
  BY DEF TypeOK, Deliver
<1>2. \/ journal' = journal
      \/ writer[i] \in Journal /\ open[i] /\ journal' = [journal EXCEPT ![writer[i]] = Append(@, r)]
  BY <1>1 DEF Deliver
<1>3. \A f \in Journal : journal'[f] = journal[f] \/ (f = writer[i] /\ journal'[f] = Append(journal[f], r))
  BY <1>1, <1>2
<1>4. journal' # journal => writer[i] \in Journal /\ journal'[writer[i]] = Append(journal[writer[i]], r)
  BY <1>1, <1>2
<1>5. ASSUME NEW j \in Instances, Reads(j, follower[j].file)
      PROVE  /\ Unread(j)' = From(journal'[follower[j].file], follower[j].pos)
             /\ follower[j].file \in Journal
             /\ journal'[follower[j].file] = Append(journal[follower[j].file], r) =>
                  Unread(j)' = Append(Unread(j), r)
             /\ journal'[follower[j].file] = journal[follower[j].file] => Unread(j)' = Unread(j)
  <2>1. follower[j].file \in Journal /\ journal[follower[j].file] \in Seq(Records)
        /\ follower[j].pos \in Nat /\ follower[j].pos <= Len(journal[follower[j].file])
        /\ Unread(j) = From(journal[follower[j].file], follower[j].pos)
    BY <1>5, ReadsInside DEF Control
  <2>2. Unread(j)' = From(journal'[follower[j].file], follower[j].pos)
    BY <1>1, <1>5 DEF Unread, Reads
  <2> QED BY <2>1, <2>2, FromAppend
<1>6. ASSUME NEW j \in Instances, ~Reads(j, follower[j].file) PROVE Unread(j)' = <<>> /\ Unread(j) = <<>>
  BY <1>1, <1>6 DEF Unread, Reads
<1>7. \A j \in Instances : Grown(Unread(j)', Unread(j), r)
  <2> TAKE j \in Instances
  <2>1. CASE Reads(j, follower[j].file)
    BY <1>3, <1>5, <2>1 DEF Grown
  <2>2. CASE ~Reads(j, follower[j].file)
    BY <1>6, <2>2 DEF Grown
  <2> QED BY <2>1, <2>2
<1>8. Unread(i)' = Unread(i)
  <2>1. CASE Reads(i, follower[i].file)
    <3>1. owner = i
      BY <2>1 DEF Reads, Control, Held
    <3>2. writer[i] = NoFile
      BY <3>1 DEF Control, Held
    <3>3. journal' = journal
      BY <1>1, <1>2, <3>2 DEF Journal
    <3> QED BY <1>5, <2>1, <3>3
  <2>2. CASE ~Reads(i, follower[i].file)
    BY <1>6, <2>2
  <2> QED BY <2>1, <2>2
<1>9. AtPath' = (IF path = NoFile THEN <<>> ELSE journal'[path])
  BY <1>1 DEF AtPath
<1>10. Grown(AtPath', AtPath, r)
  BY <1>1, <1>3, <1>9 DEF AtPath, Grown
<1>11. ASSUME journal' # journal, path = writer[i] PROVE AtPath' = Append(AtPath, r)
  BY <1>1, <1>4, <1>9, <1>11 DEF AtPath, Journal
<1>12. ASSUME journal' # journal, NEW j \in Instances, Reads(j, writer[i]) PROVE Unread(j)' = Append(Unread(j), r)
  <2>1. follower[j].file = writer[i] /\ Reads(j, follower[j].file)
    BY <1>12 DEF Reads
  <2> QED BY <1>4, <1>5, <1>12, <2>1
<1>13. /\ \A j \in Instances \ {i} : mem'[j] = mem[j]
       /\ \A s \in Records : mem'[i][s] = IF s = r THEN AtMostTwo(mem[i][s] + 1) ELSE mem[i][s]
  <2>1. mem' = [mem EXCEPT ![i] = Apply(@, <<r>>)]
    BY DEF Deliver
  <2>2. mem'[i] = Apply(mem[i], <<r>>) /\ \A j \in Instances \ {i} : mem'[j] = mem[j]
    BY <1>1, <2>1
  <2>3. ASSUME NEW s \in Records PROVE mem'[i][s] = IF s = r THEN AtMostTwo(mem[i][s] + 1) ELSE mem[i][s]
    <3>1. mem[i] \in Bills /\ mem[i][s] \in 0..2
      BY <1>1 DEF Bills
    <3>2. <<r>> \in Seq(Records)
      BY CountOne
    <3>3. mem'[i][s] = AtMostTwo(mem[i][s] + Count(<<r>>, s))
      BY <2>2, <3>1, <3>2, Applied
    <3> QED BY <3>1, <3>3, CountOne DEF AtMostTwo
  <2> QED BY <2>2, <2>3
<1> QED BY <1>3, <1>7, <1>8, <1>10, <1>11, <1>12, <1>13 DEF Grown

\* No step but these changes what an instance has yet to read.
Reading(f) == f.pc # "off" /\ ~f.last

LEMMA UnreadSame ==
  ASSUME NEW j, UNCHANGED journal, Reading(follower[j])' = Reading(follower[j]),
         follower'[j].file = follower[j].file, follower'[j].pos = follower[j].pos
  PROVE  Unread(j)' = Unread(j)
BY DEF Unread, Reads, Reading

LEMMA UnreadStays ==
  ASSUME TypeOK, NEW i \in Instances, UNCHANGED journal,
         follower' = follower \/ FollowFlush(i) \/ FollowRename(i) \/ FollowQuiet(i) \/ StopFollowing(i)
  PROVE  \A j \in Instances : Unread(j)' = Unread(j)
<1>0. follower \in [Instances -> FollowerType]
  BY DEF TypeOK, FollowerType
<1>1. CASE follower' = follower
  BY <1>1, UnreadSame DEF Reading
<1>2. ASSUME NEW g \in FollowerType, follower' = [follower EXCEPT ![i] = g],
             Reading(g) = Reading(follower[i]), g.file = follower[i].file, g.pos = follower[i].pos
      PROVE  \A j \in Instances : Unread(j)' = Unread(j)
  <2> TAKE j \in Instances
  <2>1. follower'[j] = IF j = i THEN g ELSE follower[j]
    BY <1>0, <1>2
  <2> QED BY <1>2, <2>1, UnreadSame DEF Reading
<1>3. CASE FollowFlush(i)
  <2>1. PICK ok \in BOOLEAN : follower' = [follower EXCEPT ![i] = AfterFlush(@, ok)]
    BY <1>3 DEF FollowFlush
  <2> DEFINE f == follower[i]
             g == AfterFlush(f, ok)
  <2>2. f \in FollowerType /\ f.pc = "flush"
    BY <1>0, <1>3 DEF FollowFlush
  <2> HIDE DEF f
  <2>3. g \in FollowerType /\ g.file = f.file /\ g.pos = f.pos /\ Reading(g) = Reading(f)
    BY <2>2 DEF AfterFlush, FollowerType, Reading
  <2>4. follower' = [follower EXCEPT ![i] = g]
    BY <2>1 DEF f
  <2> HIDE DEF g
  <2> QED BY <1>2, <2>3, <2>4 DEF f
<1>4. CASE FollowRename(i)
  <2> DEFINE f == follower[i]
             g == [f EXCEPT !.closed = TRUE, !.pc = IF f.last THEN "off" ELSE "wait"]
  <2>1. f \in FollowerType /\ f.pc = "rename" /\ follower' = [follower EXCEPT ![i] = g]
    BY <1>0, <1>4 DEF FollowRename
  <2>2. follower' = [follower EXCEPT ![i] = g]
    BY <2>1
  <2> HIDE DEF f
  <2>3. g \in FollowerType /\ g.file = f.file /\ g.pos = f.pos /\ Reading(g) = Reading(f)
    BY <2>1 DEF FollowerType, Reading
  <2> HIDE DEF g
  <2> QED BY <1>2, <2>2, <2>3 DEF f
<1>5. CASE FollowQuiet(i)
  <2>1. Unread(i) = <<>> /\ follower' = [follower EXCEPT ![i] = NoFollower]
    BY <1>5 DEF FollowQuiet
  <2>2. follower'[i] = NoFollower /\ \A j \in Instances \ {i} : follower'[j] = follower[j]
    BY <1>0, <2>1
  <2>3. Unread(i)' = <<>>
    BY <2>2 DEF Unread, Reads, NoFollower
  <2> QED BY <2>1, <2>2, <2>3, UnreadSame DEF Reading
<1>6. CASE StopFollowing(i)
  <2> DEFINE f == follower[i]
             g == IF f.pc = "off" THEN f ELSE [f EXCEPT !.stopping = TRUE]
  <2>1. f \in FollowerType /\ follower' = [follower EXCEPT ![i] = g]
    BY <1>0, <1>6 DEF StopFollowing
  <2>2. follower' = [follower EXCEPT ![i] = g]
    BY <2>1
  <2> HIDE DEF f
  <2>3. g \in FollowerType /\ g.file = f.file /\ g.pos = f.pos /\ Reading(g) = Reading(f)
    BY <2>1 DEF FollowerType, Reading
  <2> HIDE DEF g
  <2> QED BY <1>2, <2>2, <2>3 DEF f
<1> QED BY <1>1, <1>3, <1>4, <1>5, <1>6

\* A round of the follower applies what it had yet to read, and then has nothing left.
LEMMA ReadLines ==
  ASSUME TypeOK, Control, NEW i \in Instances, FollowRead(i)
  PROVE  /\ mem'[i] = Apply(mem[i], Unread(i)) /\ Unread(i)' = <<>>
         /\ \A j \in Instances \ {i} : mem'[j] = mem[j] /\ Unread(j)' = Unread(j)
<1>0. follower \in [Instances -> FollowerType] /\ mem \in [Instances -> Bills]
  BY DEF TypeOK, FollowerType
<1> DEFINE f == follower[i]
           g == [f EXCEPT !.pos = Len(journal[f.file]), !.last = f.stopping, !.pc = AfterRead(f, Unread(i) # <<>>)]
<1>1. follower' = [follower EXCEPT ![i] = g] /\ f \in FollowerType /\ f.file \in Journal /\ journal' = journal
  BY <1>0 DEF FollowRead, Control, Held, dir
<1>2. journal[f.file] \in Seq(Records)
  BY <1>1 DEF TypeOK
<1>3. follower' = [follower EXCEPT ![i] = g]
  BY <1>1
<1> HIDE DEF f
<1>4. g.file = f.file /\ g.pos = Len(journal[f.file])
  BY <1>1 DEF FollowerType
<1> HIDE DEF g
<1>5. follower'[i] = g /\ \A j \in Instances \ {i} : follower'[j] = follower[j]
  BY <1>0, <1>3
<1>6. Unread(i)' = <<>>
  <2>1. From(journal[f.file], Len(journal[f.file])) = <<>>
    BY <1>2, FromEnd
  <2> QED BY <1>1, <1>4, <1>5, <2>1 DEF Unread
<1>7. \A j \in Instances \ {i} : Unread(j)' = Unread(j)
  BY <1>1, <1>5, UnreadSame DEF Reading
<1>8. mem' = [mem EXCEPT ![i] = Apply(@, Unread(i))]
  BY DEF FollowRead
<1>9. mem'[i] = Apply(mem[i], Unread(i)) /\ \A j \in Instances \ {i} : mem'[j] = mem[j]
  BY <1>0, <1>8
<1> QED BY <1>6, <1>7, <1>9

\* What a registration has replayed it does not read again.
LEMMA RegisterLines ==
  ASSUME TypeOK, Control, Register
  PROVE  /\ target \in Instances /\ mem'[target] = Apply(disk, AtPath) /\ Unread(target)' = <<>>
         /\ \A j \in Instances \ {target} : mem'[j] = mem[j] /\ Unread(j)' = Unread(j)
<1> USE DEF NoFile
<1>0. follower \in [Instances -> FollowerType] /\ mem \in [Instances -> Bills] /\ path \in Journal \cup {NoFile}
      /\ target \in Instances /\ UNCHANGED <<journal, target>>
  BY DEF TypeOK, FollowerType, Register, Control, Owned
<1> DEFINE g == IF path = NoFile THEN NoFollower ELSE Replayed
<1>1. follower'[target] = g /\ \A j \in Instances \ {target} : follower'[j] = follower[j]
  BY <1>0 DEF Register
<1>2. path # NoFile => journal[path] \in Seq(Records) /\ AtPath = journal[path]
  BY <1>0 DEF TypeOK, AtPath
<1>3. Unread(target)' = <<>>
  <2>1. CASE path = NoFile
    <3>1. follower'[target].pc = "off"
      BY <1>1, <2>1 DEF NoFollower
    <3> QED BY <1>0, <3>1 DEF Unread, Reads
  <2>2. CASE path # NoFile
    <3>1. g.file = path /\ g.pos = Len(journal[path])
      BY <1>2, <2>2 DEF Replayed, NoFollower
    <3>2. From(journal[path], Len(journal[path])) = <<>>
      BY <1>2, <2>2, FromEnd
    <3> HIDE DEF g
    <3>3. follower'[target].file = path /\ follower'[target].pos = Len(journal[path]) /\ journal' = journal
      BY <1>0, <1>1, <3>1
    <3> QED BY <1>0, <3>2, <3>3 DEF Unread
  <2> QED BY <2>1, <2>2
<1>4. \A j \in Instances \ {target} : Unread(j)' = Unread(j)
  BY <1>0, <1>1, UnreadSame DEF Reading
<1> QED BY <1>0, <1>3, <1>4 DEF Register, Loaded

----------------------------------------------------------------------------
\* What a step does to the files and to what may be lost

\* Only the owner writes the files, and it writes its ledger.
LEMMA OwnerWrites ==
  ASSUME TypeOK, Control, [Next]_vars
  PROVE  /\ disk' = disk \/ (owner \in Instances /\ disk' = mem[owner])
         /\ losable \subseteq losable' /\ delivered \subseteq delivered' /\ stuck \subseteq stuck'
         /\ torn \subseteq torn'
<1> USE DEF store, dir, cpa, ghosts, Control
<1>1. ASSUME NEW i \in Instances, NEW r \in Records, Deliver(i, r)
      PROVE  UNCHANGED <<disk, stuck, torn>> /\ losable \subseteq losable' /\ delivered \subseteq delivered'
  BY <1>1 DEF Deliver
<1>2. ASSUME NEW i \in Instances, NEW ok \in BOOLEAN, FlushResult(i, ok) PROVE disk' = disk \/ disk' = mem[i]
  BY <1>2 DEF FlushResult
<1>3. ASSUME NEW i \in Instances, FlushTick(i) \/ Follow(i) \/ FollowQuiet(i) \/ RetireOld(i)
      PROVE  /\ disk' = disk \/ (owner = i /\ disk' = mem[i])
             /\ UNCHANGED <<losable, delivered, torn>> /\ stuck \subseteq stuck'
  <2>1. CASE FlushTick(i)
    BY <1>2, <2>1 DEF FlushTick, Held
  <2>2. CASE FollowFlush(i)
    BY <1>2, <2>2 DEF FollowFlush, Held
  <2>3. CASE FollowRead(i) \/ FollowRename(i) \/ FollowQuiet(i) \/ RetireOld(i)
    BY <2>3 DEF FollowRead, FollowRename, FollowQuiet, RetireOld
  <2> QED BY <1>3, <2>1, <2>2, <2>3 DEF Follow
<1>4. ASSUME NEW n \in Instances, BeginReplacement(n) \/ Start(n) PROVE UNCHANGED <<disk, losable, delivered, stuck, torn>>
  BY <1>4 DEF BeginReplacement, Start
<1>5. CASE Quiesce
  BY <1>2, <1>5 DEF Quiesce, Owned
<1>6. CASE QuiesceFails
  BY <1>2, <1>6 DEF QuiesceFails, Owned
<1>7. CASE Register \/ Adopted \/ RegisterFails \/ Switch \/ Discard \/ Rollback \/ BeginExit
  BY <1>7 DEF Register, Adopted, RegisterFails, Switch, Discard, Rollback, BeginExit
<1>8. CASE Discarded
  BY <1>2, <1>8 DEF Discarded, ShutdownOwner, Owned
<1>9. CASE Crash
  BY <1>9 DEF Crash, Gone
<1>10. CASE Exit
  BY <1>10 DEF Exit, Gone, Owned
<1>11. CASE UNCHANGED vars
  BY <1>11 DEF vars
<1> QED BY <1>1, <1>3, <1>4, <1>5, <1>6, <1>7, <1>8, <1>9, <1>10, <1>11 DEF Next

----------------------------------------------------------------------------
\* Nothing holds a record that was not delivered

LEMMA KnownStep ==
  ASSUME TypeOK, Control, Known, [Next]_vars
  PROVE  Known'
<1> USE DEF store, dir, cpa, ghosts, NoFile
<1>0. mem \in [Instances -> Bills] /\ disk \in Bills /\ journal \in [Journal -> Seq(Records)] /\ path \in Journal \cup {NoFile}
      /\ AtPath \in Seq(Records) /\ active \in Instances \cup {None} /\ delivered \subseteq Records
  BY AtPathTyped DEF TypeOK
<1>1. ASSUME UNCHANGED <<delivered, torn, journal>>, losable' \subseteq delivered,
             \A r \in Records \ delivered : disk'[r] = 0 /\ \A i \in Instances : mem'[i][r] = 0
      PROVE  Known'
  BY <1>1 DEF Known
<1>2. \A r \in Records \ delivered :
        /\ ~In(AtPath, r) /\ \A i \in Instances : ~In(Unread(i), r)
        /\ disk[r] = 0 /\ \A i \in Instances : mem[i][r] = 0
  <2> TAKE r \in Records \ delivered
  <2>1. \A f \in Journal : ~In(journal[f], r)
    BY <1>0, CountIn DEF Known
  <2>2. ~In(AtPath, r)
    BY <1>0, <2>1, CountNone DEF AtPath
  <2>3. \A i \in Instances : ~In(Unread(i), r)
    BY <2>1, ReadsInside, FromIn, CountNone DEF Control
  <2> QED BY <2>2, <2>3 DEF Known
<1>3. ASSUME NEW bills \in Bills, NEW lines \in Seq(Records), NEW r \in Records, bills[r] = 0, ~In(lines, r)
      PROVE  Apply(bills, lines)[r] = 0
  <2>1. bills[r] \in 0..2 /\ Apply(bills, lines)[r] \in 0..2
    BY Applied DEF Bills
  <2> QED BY <1>3, <2>1, Applied
<1>4. ASSUME NEW i \in Instances, NEW r \in Records, Deliver(i, r) PROVE Known'
  <2>1. delivered' = delivered \cup {r} /\ disk' = disk /\ torn' = torn /\ losable' \subseteq losable \cup {r}
    BY <1>4 DEF Deliver
  <2>2. \A s \in Records \ delivered' : s # r /\ s \in Records \ delivered
    BY <2>1
  <2>3. \A s \in Records \ delivered' : disk'[s] = 0
    BY <2>1, <2>2 DEF Known
  <2>4. \A s \in Records \ delivered', j \in Instances : mem'[j][s] = 0
    BY <1>4, <2>2, DeliverLines DEF Known
  <2>5. \A s \in Records \ delivered', f \in Journal : Count(journal'[f], s) = 0
    <3>1. \A f \in Journal : Grown(journal'[f], journal[f], r) /\ journal[f] \in Seq(Records)
      BY <1>0, <1>4, DeliverLines
    <3>2. \A f \in Journal, s \in Records \ delivered' : Count(journal'[f], s) = Count(journal[f], s)
      BY <2>2, <3>1, GrownCounts
    <3> QED BY <2>2, <3>2 DEF Known
  <2> QED BY <2>1, <2>3, <2>4, <2>5 DEF Known
<1>5. ASSUME NEW i \in Instances, FollowRead(i) PROVE Known'
  <2>1. \A r \in Records \ delivered : mem'[i][r] = 0
    BY <1>0, <1>2, <1>3, <1>5, ReadLines, ReadsInside DEF Control
  <2>2. UNCHANGED <<delivered, torn, journal, losable, disk>> /\ \A j \in Instances \ {i} : mem'[j] = mem[j]
    BY <1>5, ReadLines DEF FollowRead
  <2> QED BY <1>1, <1>2, <2>1, <2>2 DEF Known
<1>6. CASE Register
  <2>1. \A r \in Records \ delivered : mem'[target][r] = 0
    BY <1>0, <1>2, <1>3, <1>6, RegisterLines
  <2>2. UNCHANGED <<delivered, torn, journal, losable, disk>> /\ \A j \in Instances \ {target} : mem'[j] = mem[j]
    BY <1>6, RegisterLines DEF Register
  <2> QED BY <1>1, <1>2, <2>1, <2>2 DEF Known
<1>7. ASSUME UNCHANGED <<mem, delivered, torn, journal>>, losable' \subseteq delivered PROVE Known'
  <2>1. [Next]_vars => \A r \in Records \ delivered : disk'[r] = 0
    BY <1>2, OwnerWrites
  <2> QED BY <1>1, <1>2, <1>7, <2>1
<1>8. losable \subseteq delivered /\ Behind \subseteq delivered
  BY DEF Known, Behind
<1>9. ASSUME NEW i \in Instances, FlushTick(i) \/ FollowFlush(i) \/ FollowRename(i) \/ FollowQuiet(i) \/ RetireOld(i)
      PROVE  Known'
  BY <1>7, <1>8, <1>9 DEF FlushTick, FollowFlush, FollowRename, FollowQuiet, RetireOld
<1>10. ASSUME NEW n \in Instances, BeginReplacement(n) \/ Start(n) PROVE Known'
  BY <1>7, <1>8, <1>10 DEF BeginReplacement, Start
<1>11. CASE Quiesce \/ QuiesceFails \/ Adopted \/ Switch \/ Discarded \/ Rollback \/ BeginExit
  BY <1>7, <1>8, <1>11 DEF Quiesce, QuiesceFails, Adopted, Switch, Discarded, Rollback, BeginExit
<1>12. CASE RegisterFails \/ Discard
  BY <1>7, <1>8, <1>12 DEF RegisterFails, Discard
<1>13. ASSUME NEW bills, Gone(bills), torn' \subseteq delivered,
              \A r \in Records \ delivered : disk'[r] = 0
       PROVE  Known'
  BY <1>8, <1>13 DEF Gone, Known, Nothing
<1>14. CASE Crash
  <2>1. PICK b : Gone(b) /\ disk' = disk /\ torn' = torn \cup {r \in Records : disk[r] > 0 /\ Count(AtPath, r) > 0}
    BY <1>14 DEF Crash
  <2>2. torn' \subseteq delivered
    BY <2>1 DEF Known
  <2> QED BY <1>2, <1>13, <2>1, <2>2
<1>15. CASE Exit
  BY <1>0, <1>2, <1>13, <1>15 DEF Exit, Known, Control, Owned
<1>16. CASE UNCHANGED vars
  BY <1>7, <1>8, <1>16 DEF vars
<1> QED BY <1>4, <1>5, <1>6, <1>9, <1>10, <1>11, <1>12, <1>14, <1>15, <1>16 DEF Next, Follow

----------------------------------------------------------------------------
\* Nothing goes missing

Billed1(bills, lines, r) == bills[r] >= 1 \/ In(lines, r)

\* The ledger CPA ends up with bills r.
Ends(r) ==
  IF Keeper # None THEN Billed1(mem[Keeper], Unread(Keeper), r) ELSE Billed1(disk, AtPath, r)

LEMMA KeeperIs ==
  ASSUME TypeOK, Control
  PROVE  /\ Keeper \in Instances \cup {None}
         /\ Keeper = None <=> phase \in {"load", "down"}
         /\ phase \in {"discard", "rollback"} => Keeper = active
         /\ phase \notin {"discard", "rollback"} => Keeper = owner
BY HandoffAssumption DEF TypeOK, Control, Owned, Keeper, Phases

LEMMA EndsOutcome ==
  ASSUME TypeOK, Control, NEW r \in Records
  PROVE  Outcome[r] >= 1 <=> Ends(r)
<1>1. CASE Keeper # None
  <2>1. Keeper \in Instances
    BY <1>1, KeeperIs
  <2>2. mem[Keeper] \in Bills /\ Unread(Keeper) \in Seq(Records)
    BY <2>1, ReadsInside DEF TypeOK, Control
  <2> QED BY <1>1, <2>2, Applied DEF Outcome, Ends, Billed1
<1>2. CASE Keeper = None
  <2>1. disk \in Bills /\ AtPath \in Seq(Records)
    BY AtPathTyped DEF TypeOK
  <2> QED BY <1>2, <2>1, Applied DEF Outcome, Ends, Billed1
<1> QED BY <1>1, <1>2

Missed(r) == r \in delivered \ losable => Ends(r)

LEMMA MissingStep ==
  ASSUME TypeOK, Control, NEW r \in Records, Missed(r), [Next]_vars
  PROVE  Missed(r)'
<1> USE HandoffAssumption DEF store, dir, cpa, ghosts, NoFile
<1>0. /\ mem \in [Instances -> Bills] /\ disk \in Bills /\ journal \in [Journal -> Seq(Records)]
      /\ AtPath \in Seq(Records) /\ active \in Instances \cup {None} /\ target \in Instances \cup {None}
      /\ \A i \in Instances : mem[i] \in Bills /\ Unread(i) \in Seq(Records)
      /\ TypeOK' /\ Control'
  BY AtPathTyped, ReadsInside, TypeStep, OwnedStep, HeldStep, FilesStep DEF TypeOK, Control
<1>1. ASSUME Ends(r) => Ends(r)', delivered' = delivered PROVE Missed(r)'
  BY <1>1, OwnerWrites DEF Missed
<1>2. ASSUME Keeper \in Instances, Keeper' = Keeper, mem'[Keeper] = mem[Keeper], Unread(Keeper)' = Unread(Keeper)
      PROVE  Ends(r) => Ends(r)'
  BY <1>2 DEF Ends
<1>3. ASSUME Keeper = None, Keeper' = None, disk' = disk, AtPath' = AtPath PROVE Ends(r) => Ends(r)'
  BY <1>3 DEF Ends
<1>4. ASSUME UNCHANGED <<mem, disk, journal, path, phase, owner, active>>,
             \A j \in Instances : Unread(j)' = Unread(j)
      PROVE  Ends(r) => Ends(r)'
  <2>1. Keeper' = Keeper /\ AtPath' = AtPath
    BY <1>4 DEF Keeper, AtPath
  <2> QED BY <1>2, <1>3, <1>4, <2>1, KeeperIs
<1>5. \A j \in Instances : r \in delivered \ Behind /\ active = j => Billed1(mem[j], Unread(j), r)
  <2> SUFFICES ASSUME NEW j \in Instances, r \in delivered \ Behind, active = j
               PROVE  Billed1(mem[j], Unread(j), r)
    OBVIOUS
  <2>1. Apply(mem[j], Unread(j)) \in Bills /\ Apply(mem[j], Unread(j))[r] # 0
    BY <1>0, Applied DEF Behind
  <2>2. Apply(mem[j], Unread(j))[r] >= 1
    BY <2>1 DEF Bills
  <2> QED BY <1>0, <2>2, Applied DEF Billed1
<1>6. ASSUME NEW i \in Instances, NEW s \in Records, Deliver(i, s) PROVE Missed(r)'
  <2>1. Keeper' = Keeper /\ disk' = disk
    BY <1>6 DEF Deliver, Keeper
  <2>2. /\ \A x : In(AtPath, x) => In(AtPath', x)
        /\ AtPath' = Append(AtPath, s) => In(AtPath', s)
    BY <1>0, <1>6, DeliverLines, GrownCounts
  <2>3. \A j \in Instances :
          /\ \A x : In(Unread(j), x) => In(Unread(j)', x)
          /\ Unread(j)' = Append(Unread(j), s) => In(Unread(j)', s)
    BY <1>0, <1>6, DeliverLines, GrownCounts
  <2>4. \A j \in Instances : mem[j][r] >= 1 => mem'[j][r] >= 1
    <3> TAKE j \in Instances
    <3>1. mem[j][r] \in 0..2
      BY <1>0 DEF Bills
    <3> QED BY <1>6, <3>1, DeliverLines DEF AtMostTwo
  <2>5. Ends(r) => Ends(r)'
    BY <2>1, <2>2, <2>3, <2>4, KeeperIs DEF Ends, Billed1
  <2>6. CASE r # s
    BY <1>6, <2>5, <2>6, OwnerWrites DEF Missed, Deliver
  <2>7. CASE r = s /\ i = Keeper
    <3>1. mem'[i][s] = AtMostTwo(mem[i][s] + 1) /\ mem[i][s] \in 0..2
      BY <1>0, <1>6, DeliverLines DEF Bills
    <3>2. mem'[i][s] >= 1
      BY <3>1 DEF AtMostTwo
    <3>3. Keeper # None
      BY <2>7
    <3> QED BY <2>1, <2>7, <3>2, <3>3 DEF Missed, Ends, Billed1
  <2>8. CASE r = s /\ i # Keeper
    <3> SUFFICES ASSUME r \notin losable' PROVE Ends(r)'
      BY DEF Missed
    <3>1. writer[i] # NoFile /\ journal' = [journal EXCEPT ![writer[i]] = Append(@, s)] /\ ~Unseen(writer[i])
      BY <1>6, <2>8 DEF Deliver
    <3>2. journal' # journal
      <4>1. writer[i] \in Journal
        BY <3>1 DEF TypeOK
      <4>2. journal'[writer[i]] = Append(journal[writer[i]], s) /\ journal[writer[i]] \in Seq(Records)
        BY <1>0, <3>1, <4>1
      <4>3. Len(Append(journal[writer[i]], s)) # Len(journal[writer[i]])
        BY <4>2
      <4> QED BY <4>2, <4>3
    <3>3. CASE Keeper = None
      BY <1>6, <2>1, <2>2, <2>8, <3>1, <3>2, <3>3, DeliverLines DEF Unseen, Ends, Billed1
    <3>4. CASE Keeper # None
      <4>1. Keeper \in Instances /\ Reads(Keeper, writer[i])
        BY <3>1, <3>4, KeeperIs DEF Unseen
      <4>2. Unread(Keeper)' = Append(Unread(Keeper), s)
        BY <1>6, <2>1, <3>2, <4>1, DeliverLines
      <4> QED BY <2>1, <2>3, <2>8, <3>4, <4>1, <4>2 DEF Ends, Billed1
    <3> QED BY <3>3, <3>4
  <2> QED BY <2>6, <2>7, <2>8
<1>7. ASSUME NEW i \in Instances, owner = i, UNCHANGED <<phase, owner, active, delivered>>,
             mem'[Keeper] = mem[Keeper], Unread(Keeper)' = Unread(Keeper)
      PROVE  Missed(r)'
  <2>1. Keeper' = Keeper /\ Keeper \in Instances
    BY <1>7, KeeperIs DEF Keeper, Control, Owned
  <2> QED BY <1>1, <1>2, <1>7, <2>1
<1>8. ASSUME NEW i \in Instances, FollowRead(i) PROVE Missed(r)'
  <2>1. owner = i /\ UNCHANGED <<phase, owner, active, delivered>>
    BY <1>8 DEF FollowRead, Control, Held
  <2>2. Keeper' = Keeper /\ Keeper \in Instances
    BY <2>1, KeeperIs DEF Keeper, Control, Owned
  <2>3. CASE Keeper # i
    BY <1>1, <1>2, <1>8, <2>1, <2>2, <2>3, ReadLines
  <2>4. CASE Keeper = i
    <3>1. Ends(r) => mem'[i][r] >= 1
      BY <1>0, <1>8, <2>2, <2>4, ReadLines, Applied DEF Ends, Billed1
    <3>2. Keeper' = i /\ i # None
      BY <2>2, <2>4
    <3> QED BY <1>1, <2>1, <3>1, <3>2 DEF Ends, Billed1
  <2> QED BY <2>3, <2>4
<1>9. ASSUME NEW i \in Instances, FlushTick(i) \/ FollowFlush(i) \/ FollowRename(i) \/ FollowQuiet(i) PROVE Missed(r)'
  <2>1. owner = i /\ UNCHANGED <<phase, owner, active, delivered, mem, journal>>
    BY <1>9 DEF FlushTick, FollowFlush, FollowRename, FollowQuiet, Control, Held
  <2>2. \A j \in Instances : Unread(j)' = Unread(j)
    BY <1>9, <2>1, UnreadStays DEF FlushTick
  <2>3. Keeper \in Instances /\ Keeper' = Keeper
    BY <2>1, KeeperIs DEF Keeper, Control, Owned
  <2>4. mem'[Keeper] = mem[Keeper] /\ Unread(Keeper)' = Unread(Keeper)
    BY <2>1, <2>2, <2>3
  <2> QED BY <1>1, <1>2, <2>1, <2>3, <2>4
<1>10. ASSUME NEW i \in Instances, RetireOld(i) PROVE Missed(r)'
  BY <1>1, <1>4, <1>10, UnreadStays DEF RetireOld
<1>11. ASSUME NEW n \in Instances, Start(n) PROVE Missed(r)'
  <2>1. Keeper = None /\ Keeper' = None /\ UNCHANGED <<disk, delivered, path, journal>>
    BY <1>0, <1>11, KeeperIs DEF Start, Keeper, Control, Owned
  <2>2. AtPath' = AtPath
    BY <2>1 DEF AtPath
  <2> QED BY <1>1, <1>3, <2>1, <2>2
\* The instance that owns the directory, or the one CPA rolls back to, keeps its ledger.
<1>12. ASSUME Keeper \in Instances, Keeper' = Keeper, UNCHANGED <<mem, journal, delivered>>,
              follower' = follower \/ \E i \in Instances : StopFollowing(i)
       PROVE  Missed(r)'
  <2>1. \A j \in Instances : Unread(j)' = Unread(j)
    BY <1>0, <1>12, UnreadStays
  <2>2. mem'[Keeper] = mem[Keeper] /\ Unread(Keeper)' = Unread(Keeper)
    BY <1>12, <2>1
  <2> QED BY <1>1, <1>2, <1>12, <2>2
<1>13. ASSUME NEW n \in Instances, BeginReplacement(n) PROVE Missed(r)'
  <2>1. active \in Instances /\ Keeper = active /\ Keeper' = active
    BY <1>0, <1>13, KeeperIs DEF BeginReplacement, Keeper
  <2> QED BY <1>12, <1>13, <2>1 DEF BeginReplacement
<1>14. CASE BeginExit
  <2>1. active \in Instances /\ Keeper = active /\ Keeper' = active
    BY <1>0, <1>14, KeeperIs DEF BeginExit, Keeper, Control, Owned
  <2> QED BY <1>12, <1>14, <2>1 DEF BeginExit
<1>15. CASE QuiesceFails
  <2>1. active \in Instances /\ Keeper = active /\ Keeper' = active
    BY <1>0, <1>15, KeeperIs DEF QuiesceFails, Keeper, Control, Owned
  <2> QED BY <1>12, <1>15, <2>1 DEF QuiesceFails
<1>16. CASE Adopted \/ Switch
  <2>1. target \in Instances /\ Keeper = target /\ Keeper' = target
    BY <1>0, <1>16, KeeperIs DEF Adopted, Switch, Keeper, Control, Owned
  <2> QED BY <1>12, <1>16, <2>1 DEF Adopted, Switch
<1>17. CASE Discarded \/ Rollback
  <2>1. active \in Instances /\ Keeper = active /\ Keeper' = active
    BY <1>0, <1>17, KeeperIs DEF Discarded, Rollback, Keeper, Control, Owned
  <2> QED BY <1>12, <1>17, <2>1 DEF Discarded, Rollback
<1>18. CASE Quiesce
  <2>1. active \in Instances /\ Keeper = active /\ Keeper' = None /\ follower[active].pc = "off"
        /\ disk' = mem[active] /\ delivered' = delivered
    BY <1>0, <1>18, KeeperIs DEF Quiesce, FlushResult, Keeper, Control, Owned
  <2>2. ~In(Unread(active), r)
    BY <2>1, CountNone DEF Unread, Reads
  <2> QED BY <1>1, <2>1, <2>2 DEF Ends, Billed1
<1>19. CASE Register
  <2>1. target \in Instances /\ Keeper = None /\ Keeper' = target /\ delivered' = delivered
    BY <1>0, <1>19, KeeperIs DEF Register, Keeper, Control, Owned
  <2>2. Ends(r) => mem'[target][r] >= 1
    BY <1>0, <1>19, <2>1, RegisterLines, Applied DEF Ends, Billed1
  <2> QED BY <1>1, <2>1, <2>2 DEF Ends, Billed1
<1>20. CASE RegisterFails
  <2>1. Keeper = None /\ UNCHANGED <<mem, disk, journal, path, follower, active, delivered>>
        /\ \A j \in Instances : Unread(j)' = Unread(j)
    BY <1>0, <1>20, KeeperIs, UnreadStays DEF RegisterFails
  <2>2. CASE active = None
    <3>1. Keeper' = None
      BY <1>0, <1>20, <2>2, KeeperIs DEF RegisterFails, Keeper, Control, Owned
    <3>2. AtPath' = AtPath
      BY <2>1 DEF AtPath
    <3> QED BY <1>1, <1>3, <2>1, <3>1, <3>2
  <2>3. CASE active # None
    <3>1. active \in Instances /\ Keeper' = active
      BY <1>0, <1>20, <2>3 DEF RegisterFails, Keeper
    <3>2. losable' = losable \cup Behind
      BY <1>20, <2>3 DEF RegisterFails
    <3> QED BY <1>5, <2>1, <3>1, <3>2 DEF Missed, Ends
  <2> QED BY <2>2, <2>3
<1>21. CASE Discard
  <2>1. active \in Instances /\ target \in Instances /\ Keeper' = active
    BY <1>0, <1>21 DEF Discard, Keeper, Control, Owned
  <2>2. UNCHANGED <<mem, journal, delivered, active>> /\ losable' = losable \cup Behind /\ StopFollowing(target)
    BY <1>21 DEF Discard
  <2>3. Unread(active)' = Unread(active)
    BY <2>1, <2>2, UnreadStays
  <2> QED BY <1>5, <2>1, <2>2, <2>3 DEF Missed, Ends
<1>22. ASSUME Gone(disk'), disk' \in Bills PROVE Missed(r)'
  <2>1. Keeper' = None /\ UNCHANGED <<journal, path, delivered>>
        /\ losable' = losable \cup {s \in delivered : Apply(disk', AtPath)[s] = 0}
    BY <1>22 DEF Gone, Keeper
  <2>2. AtPath' = AtPath
    BY <2>1 DEF AtPath
  <2>3. r \in delivered' \ losable' => Apply(disk', AtPath)[r] >= 1
    <3>1. Apply(disk', AtPath)[r] \in 0..2
      BY <1>0, <1>22, Applied DEF Bills
    <3> QED BY <2>1, <3>1
  <2> QED BY <1>0, <1>22, <2>1, <2>2, <2>3, Applied DEF Missed, Ends, Billed1
<1>23. CASE Crash
  BY <1>0, <1>22, <1>23 DEF Crash, TypeOK
<1>24. CASE Exit
  BY <1>0, <1>22, <1>24 DEF Exit, TypeOK
<1>25. CASE UNCHANGED vars
  BY <1>1, <1>4, <1>25, UnreadSame DEF vars, Reading
<1> QED BY <1>6, <1>8, <1>9, <1>10, <1>11, <1>13, <1>14, <1>15, <1>16, <1>17, <1>18, <1>19, <1>20, <1>21,
           <1>23, <1>24, <1>25 DEF Next, Follow

(* No delivered record goes missing, for any number of instances and whatever
   fails, unless only a crashed memory held it or the ledger CPA ends up with
   never got to read the line of an older instance. *)
THEOREM HandoffKeeps == Spec => []NothingGoesMissing
<1> DEFINE Missing == \A r \in Records : Missed(r)
<1>1. Init => Missing
  BY DEF Init, Missed
<1>2. TypeOK /\ Control /\ Missing /\ [Next]_vars => Missing'
  BY MissingStep
<1>3. TypeOK /\ Control /\ Missing => NothingGoesMissing
  BY EndsOutcome DEF NothingGoesMissing, Missed, TypeOK
<1> QED BY HandoffTyped, <1>1, <1>2, <1>3, PTL DEF Spec

----------------------------------------------------------------------------
\* What is saved stays saved

LEMMA KeptStep ==
  ASSUME TypeOK, Control, Known, Kept, \A r \in Records : Missed(r), [Next]_vars
  PROVE  Kept'
<1> USE HandoffAssumption DEF store, dir, cpa, ghosts
<1>0. /\ mem \in [Instances -> Bills] /\ disk \in Bills /\ active \in Instances \cup {None}
      /\ owner \in Instances \cup {None}
      /\ \A i \in Instances : mem[i] \in Bills /\ Unread(i) \in Seq(Records)
      /\ \A i \in Instances, r \in Records : mem[i][r] \in 0..2
  BY ReadsInside DEF TypeOK, Control, Bills
\* The owner's ledger only grows, and what is written is the owner's ledger.
<1>1. ASSUME owner' = owner,
             owner # None => \A r \in Records : mem[owner][r] > 0 => mem'[owner][r] > 0
      PROVE  Kept'
  <2> SUFFICES ASSUME owner' # None, NEW r \in Records \ losable', disk'[r] > 0
               PROVE  mem'[owner][r] > 0
    BY <1>1 DEF Kept
  <2>1. r \notin losable /\ (disk' = disk \/ disk' = mem[owner])
    BY OwnerWrites
  <2> QED BY <1>1, <2>1 DEF Kept
<1>2. ASSUME UNCHANGED <<mem, owner>> PROVE Kept'
  BY <1>1, <1>2
<1>3. ASSUME owner' = None PROVE Kept'
  BY <1>3 DEF Kept
<1>4. ASSUME NEW i \in Instances, NEW r \in Records, Deliver(i, r) PROVE Kept'
  <2>1. \A j \in Instances, s \in Records : mem[j][s] > 0 => mem'[j][s] > 0
    <3> TAKE j \in Instances, s \in Records
    <3>1. mem[j][s] \in 0..2
      BY <1>0
    <3>2. mem'[j][s] = mem[j][s] \/ mem'[j][s] = AtMostTwo(mem[j][s] + 1)
      BY <1>4, DeliverLines
    <3> QED BY <3>1, <3>2 DEF AtMostTwo
  <2> QED BY <1>0, <1>1, <1>4, <2>1 DEF Deliver
<1>5. ASSUME NEW i \in Instances, FollowRead(i) PROVE Kept'
  <2>1. \A j \in Instances, s \in Records : mem[j][s] > 0 => mem'[j][s] > 0
    <3> TAKE j \in Instances, s \in Records
    <3>1. CASE j = i
      <4>1. Apply(mem[i], Unread(i))[s] >= 1 <=> mem[i][s] >= 1 \/ In(Unread(i), s)
        BY <1>0, Applied
      <4>2. Apply(mem[i], Unread(i))[s] \in 0..2
        BY <1>0, Applied DEF Bills
      <4> QED BY <1>0, <1>5, <3>1, <4>1, <4>2, ReadLines
    <3>2. CASE j # i
      BY <1>5, <3>2, ReadLines
    <3> QED BY <3>1, <3>2
  <2> QED BY <1>0, <1>1, <1>5, <2>1 DEF FollowRead
<1>6. ASSUME NEW i \in Instances, FlushTick(i) \/ FollowFlush(i) \/ FollowRename(i) \/ FollowQuiet(i) \/ RetireOld(i)
      PROVE  Kept'
  BY <1>2, <1>6 DEF FlushTick, FollowFlush, FollowRename, FollowQuiet, RetireOld
<1>7. ASSUME NEW n \in Instances, BeginReplacement(n) \/ Start(n) PROVE Kept'
  BY <1>2, <1>7 DEF BeginReplacement, Start
<1>8. CASE QuiesceFails \/ Adopted \/ RegisterFails \/ Switch \/ Discard \/ BeginExit
  BY <1>2, <1>8 DEF QuiesceFails, Adopted, RegisterFails, Switch, Discard, BeginExit
<1>9. CASE Quiesce \/ Discarded \/ Crash \/ Exit
  BY <1>3, <1>9 DEF Quiesce, Discarded, ShutdownOwner, Crash, Exit, Gone
<1>10. CASE Register
  <2>1. owner' = target /\ disk' = disk /\ target \in Instances /\ mem'[target] = Apply(disk, AtPath)
    BY <1>10, RegisterLines DEF Register
  <2>2. \A r \in Records : disk[r] > 0 => mem'[target][r] > 0
    <3> TAKE r \in Records
    <3>1. Apply(disk, AtPath)[r] >= 1 <=> disk[r] >= 1 \/ In(AtPath, r)
      BY <1>0, AtPathTyped, Applied
    <3>2. Apply(disk, AtPath)[r] \in 0..2 /\ disk[r] \in 0..2
      BY <1>0, AtPathTyped, Applied DEF Bills
    <3> QED BY <2>1, <3>1, <3>2
  <2> QED BY <2>1, <2>2 DEF Kept
\* The instance CPA rolls back to has what was delivered and is not given up.
<1>11. CASE Rollback
  <2>1. phase = "rollback" /\ owner = None /\ owner' = active /\ active \in Instances
        /\ UNCHANGED <<mem, disk, losable, active>>
    BY <1>0, <1>11 DEF Rollback, Control, Owned
  <2>2. Keeper = active /\ Keeper # None /\ Unread(active) = <<>>
    BY <2>1 DEF Keeper, Unread, Reads, Control, Held
  <2>3. ASSUME NEW r \in Records \ losable, disk[r] > 0 PROVE mem[active][r] > 0
    <3>1. r \in delivered
      BY <2>3 DEF Known
    <3>2. Billed1(mem[active], Unread(active), r)
      BY <2>2, <2>3, <3>1 DEF Missed, Ends
    <3>3. mem[active][r] >= 1
      BY <2>2, <3>2, CountNone DEF Billed1
    <3> QED BY <1>0, <2>1, <3>3
  <2> QED BY <2>1, <2>3 DEF Kept
<1>12. CASE UNCHANGED vars
  BY <1>2, <1>12 DEF vars
<1> QED BY <1>4, <1>5, <1>6, <1>7, <1>8, <1>9, <1>10, <1>11, <1>12 DEF Next, Follow

\* What holds whatever fails.
Safe == TypeOK /\ Control /\ Known /\ Kept /\ \A r \in Records : Missed(r)

LEMMA SafeStep == Safe /\ [Next]_vars => Safe'
<1> SUFFICES ASSUME Safe, [Next]_vars PROVE Safe'
  OBVIOUS
<1>1. TypeOK /\ Control /\ Known /\ Kept /\ \A r \in Records : Missed(r)
  BY DEF Safe
<1>2. TypeOK' /\ Control'
  BY <1>1, TypeStep, OwnedStep, HeldStep, FilesStep DEF Control
<1>3. Known' /\ Kept'
  BY <1>1, KnownStep, KeptStep
<1>4. (\A r \in Records : Missed(r))'
  BY <1>1, MissingStep
<1> QED BY <1>2, <1>3, <1>4 DEF Safe

LEMMA InitSafe == Init => Safe
<1> SUFFICES ASSUME Init PROVE Safe
  OBVIOUS
<1>1. TypeOK /\ Control
  BY InitTyped
<1>2. Known
  BY CountNone DEF Init, Known, Nothing
<1>3. Kept /\ \A r \in Records : Missed(r)
  BY DEF Init, Kept, Missed
<1> QED BY <1>1, <1>2, <1>3 DEF Safe

LEMMA HandoffSafe == Spec => []Safe
BY InitSafe, SafeStep, PTL DEF Spec

(* Only the owner of the directory writes the files, and it writes its ledger;
   what the files hold they never lose again, but for what is given up. *)
THEOREM HandoffStaysSaved == Spec => SavedStaysSaved
<1> DEFINE Stays == /\ disk' # disk => owner # None /\ disk' = mem[owner]
                    /\ \A r \in Records \ losable' : disk[r] > 0 => disk'[r] > 0
<1>1. Safe /\ [Next]_vars => Stays
  <2> SUFFICES ASSUME Safe, [Next]_vars PROVE Stays
    OBVIOUS
  <2>1. TypeOK /\ Control /\ Kept
    BY DEF Safe
  <2>2. (disk' = disk \/ (owner \in Instances /\ disk' = mem[owner])) /\ losable \subseteq losable'
    BY <2>1, OwnerWrites
  <2> QED BY <2>1, <2>2, HandoffAssumption DEF Kept
<1>2. Safe /\ [Next]_vars => [Stays]_vars
  BY <1>1
<1> QED BY <1>2, HandoffSafe, PTL DEF Spec, SavedStaysSaved

----------------------------------------------------------------------------
\* Nothing is billed twice while cuts succeed

CutsSucceed == "flush" \notin Failures /\ "partial" \notin Failures

LEMMA ClosingStep ==
  ASSUME CutsSucceed, TypeOK, Control, Closing, [Next]_vars
  PROVE  Closing'
<1> USE HandoffAssumption DEF store, dir, cpa, ghosts, NoFile
<1>0. /\ follower \in [Instances -> FollowerType] /\ owner \in Instances \cup {None}
      /\ active \in Instances \cup {None} /\ target \in Instances \cup {None} /\ path \in Journal \cup {NoFile}
      /\ writer \in [Instances -> Journal \cup {NoFile}]
      /\ Held /\ Owned /\ Following /\ Returning
  BY DEF TypeOK, FollowerType, Control, Closing
<1>1. stuck \subseteq stuck'
  BY OwnerWrites
<1>2. ASSUME UNCHANGED <<owner, path, follower>> PROVE Following'
  BY <1>0, <1>1, <1>2 DEF Following
<1>3. ASSUME UNCHANGED <<phase, active, writer, owner>>, path' = path \/ path' = NoFile PROVE Returning'
  BY <1>0, <1>1, <1>3 DEF Returning
<1>4. ASSUME NEW i \in Instances, (\E r \in Records : Deliver(i, r)) \/ FlushTick(i) \/ RetireOld(i) PROVE Closing'
  BY <1>2, <1>3, <1>4 DEF Deliver, FlushTick, RetireOld, Closing
<1>5. ASSUME NEW i \in Instances, owner = i, UNCHANGED <<owner, path>>,
             \/ follower'[i].pc # "off" /\ follower'[i].file = follower[i].file /\ follower'[i].closed = follower[i].closed
             \/ follower[i].pc = "off" \/ follower[i].closed
      PROVE  Following'
  BY <1>0, <1>1, <1>5 DEF Following
<1>6. ASSUME NEW i \in Instances, FollowRead(i) PROVE Closing'
  <2> DEFINE f == follower[i]
             g == [f EXCEPT !.pos = Len(journal[f.file]), !.last = f.stopping, !.pc = AfterRead(f, Unread(i) # <<>>)]
  <2>1. f.pc = "wait" /\ f \in FollowerType /\ UNCHANGED <<owner, path, phase, active, writer>>
    BY <1>0, <1>6 DEF FollowRead
  <2>2. owner = i
    BY <1>0, <2>1 DEF Held
  <2>3. follower'[i] = g
    BY <1>0, <1>6 DEF FollowRead
  <2> HIDE DEF f
  <2>4. g.file = f.file /\ g.closed = f.closed /\ (~f.closed => g.pc = "flush")
    BY <2>1 DEF FollowerType, AfterRead
  <2> HIDE DEF g
  <2> QED BY <1>3, <1>5, <2>1, <2>2, <2>3, <2>4 DEF f, Closing
<1>7. ASSUME NEW i \in Instances, FollowFlush(i) PROVE Closing'
  <2>1. PICK ok \in BOOLEAN : FlushResult(i, ok) /\ follower' = [follower EXCEPT ![i] = AfterFlush(@, ok)]
    BY <1>7 DEF FollowFlush
  <2>2. ok
    BY <2>1 DEF FlushResult, CutsSucceed
  <2>3. follower[i].pc = "flush" /\ follower[i] \in FollowerType /\ UNCHANGED <<owner, path, phase, active, writer>>
    BY <1>0, <1>7 DEF FollowFlush
  <2>4. follower'[i] = AfterFlush(follower[i], TRUE)
    BY <1>0, <2>1, <2>2
  <2>5. follower'[i].pc # "off" /\ follower'[i].file = follower[i].file /\ follower'[i].closed = follower[i].closed
    BY <2>3, <2>4 DEF AfterFlush, FollowerType
  <2> QED BY <1>0, <1>3, <1>5, <2>3, <2>5 DEF Held, Closing
<1>8. ASSUME NEW i \in Instances, FollowRename(i) PROVE Closing'
  <2>1. path' = NoFile \/ (path' = path /\ path \in stuck')
    BY <1>8 DEF FollowRename
  <2> QED BY <1>3, <1>8, <2>1 DEF FollowRename, Following, Closing
<1>9. ASSUME NEW i \in Instances, FollowQuiet(i) PROVE Closing'
  <2>1. follower[i].closed /\ follower[i].pc = "wait" /\ UNCHANGED <<owner, path, phase, active, writer>>
    BY <1>9 DEF FollowQuiet
  <2> QED BY <1>0, <1>3, <1>5, <2>1 DEF Held, Closing
<1>10. ASSUME NEW i \in Instances, StopFollowing(i), owner = i, UNCHANGED <<owner, path>> PROVE Following'
  <2>1. follower[i].pc # "off" =>
          follower'[i].pc = follower[i].pc /\ follower'[i].file = follower[i].file /\ follower'[i].closed = follower[i].closed
    BY <1>0, <1>10 DEF StopFollowing, FollowerType
  <2> QED BY <1>5, <1>10, <2>1
<1>11. ASSUME NEW n \in Instances, BeginReplacement(n) PROVE Closing'
  <2>1. Following'
    BY <1>0, <1>10, <1>11 DEF BeginReplacement
  <2> QED BY <1>11, <2>1 DEF BeginReplacement, Closing, Returning
<1>12. ASSUME NEW n \in Instances, Start(n) PROVE Closing'
  BY <1>0, <1>2, <1>12 DEF Start, Closing, Returning, Owned
<1>13. CASE Quiesce
  <2>1. writer'[active] = JournalToOpen /\ JournalToOpen # NoFile /\ owner' = None /\ active' = active
    <3>1. active \in Instances
      BY <1>0, <1>13 DEF Quiesce, Owned
    <3>2. JournalToOpen # NoFile
      BY DEF JournalToOpen, TypeOK
    <3> QED BY <1>0, <1>13, <3>1, <3>2 DEF Quiesce
  <2> QED BY <2>1 DEF Closing, Following, Returning
<1>14. CASE QuiesceFails
  <2>1. path' = path \/ path' = NoFile
    BY <1>14 DEF QuiesceFails
  <2>2. UNCHANGED <<owner, follower>> /\ phase' = "run"
    BY <1>14 DEF QuiesceFails
  <2> QED BY <1>0, <1>1, <2>1, <2>2 DEF Closing, Following, Returning
<1>15. CASE Register
  <2>1. target \in Instances /\ owner' = target /\ phase = "load" /\ phase' = "adopt" /\ UNCHANGED <<active, path>>
        /\ follower'[target] = (IF path = NoFile THEN NoFollower ELSE Replayed)
        /\ writer' = [writer EXCEPT ![target] = NoFile]
    BY <1>0, <1>15 DEF Register, Owned
  <2>2. Following'
    BY <2>1 DEF Following, Replayed, NoFollower
  <2>3. Returning'
    BY <1>0, <2>1 DEF Returning
  <2> QED BY <2>2, <2>3 DEF Closing
<1>16. CASE Adopted
  BY <1>0, <1>2, <1>16 DEF Adopted, Closing, Returning
<1>17. CASE RegisterFails
  <2>1. UNCHANGED <<owner, path, follower, active>> /\ phase = "load" /\ phase' \in {"down", "rollback"}
        /\ (active = None => phase' = "down")
    BY <1>17 DEF RegisterFails
  <2>2. active # None => writer'[active] = writer[active]
    BY <1>0, <1>17 DEF RegisterFails, Stopped
  <2> QED BY <1>0, <1>2, <2>1, <2>2 DEF Closing, Returning
<1>18. CASE Switch
  BY <1>2, <1>18 DEF Switch, Closing, Returning
<1>19. CASE Discard
  <2>1. target \in Instances /\ owner = target
    BY <1>0, <1>19 DEF Discard, Owned
  <2>2. Following'
    BY <1>10, <1>19, <2>1 DEF Discard
  <2>3. Returning'
    BY <1>0, <1>19 DEF Discard, Returning
  <2> QED BY <2>2, <2>3 DEF Closing
<1>20. CASE Discarded
  <2>1. owner = target /\ target # None /\ follower[target].pc = "off" /\ owner' = None /\ phase = "discard"
        /\ UNCHANGED <<path, active, writer>>
    BY <1>0, <1>20 DEF Discarded, ShutdownOwner, Owned
  <2>2. path = NoFile \/ path \in stuck'
    BY <1>0, <1>1, <2>1 DEF Following
  <2>3. phase' = "rollback"
    BY <1>20 DEF Discarded
  <2> QED BY <1>0, <2>1, <2>2, <2>3 DEF Closing, Following, Returning
<1>21. CASE Rollback
  <2>1. phase = "rollback" /\ active \in Instances /\ owner' = active /\ phase' = "run" /\ stuck' = stuck
        /\ path' = IF writer[active] = NoFile THEN path ELSE NoFile
    BY <1>0, <1>21 DEF Rollback, Owned
  <2> QED BY <1>0, <2>1 DEF Closing, Following, Returning
<1>22. CASE Crash \/ Exit
  BY <1>22 DEF Crash, Exit, Gone, Closing, Following, Returning
<1>23. CASE BeginExit
  <2>1. Following'
    BY <1>0, <1>10, <1>23 DEF BeginExit, Owned
  <2> QED BY <1>23, <2>1 DEF BeginExit, Closing, Returning
<1>24. CASE UNCHANGED vars
  BY <1>2, <1>3, <1>24 DEF vars, Closing
<1> QED BY <1>4, <1>6, <1>7, <1>8, <1>9, <1>11, <1>12, <1>13, <1>14, <1>15, <1>16, <1>17, <1>18, <1>19,
           <1>20, <1>21, <1>22, <1>23, <1>24 DEF Next, Follow

\* Lines stay in their file, and only a delivery adds one.
LEMMA LinesStay ==
  ASSUME TypeOK, Control, [Next]_vars
  PROVE  UNCHANGED <<journal, delivered>> \/ \E i \in Instances, r \in Records : Deliver(i, r)
<1> USE DEF store, dir, cpa, ghosts
<1>1. ASSUME NEW i \in Instances, FlushTick(i) \/ Follow(i) \/ FollowQuiet(i) \/ RetireOld(i) PROVE UNCHANGED <<journal, delivered>>
  BY <1>1 DEF FlushTick, Follow, FollowRead, FollowFlush, FollowRename, FollowQuiet, RetireOld
<1>2. ASSUME NEW n \in Instances, BeginReplacement(n) \/ Start(n) PROVE UNCHANGED <<journal, delivered>>
  BY <1>2 DEF BeginReplacement, Start
<1>3. CASE Quiesce \/ QuiesceFails \/ Register \/ Adopted \/ RegisterFails
  BY <1>3 DEF Quiesce, QuiesceFails, Register, Adopted, RegisterFails
<1>4. CASE Switch \/ Discard \/ Discarded \/ Rollback \/ Crash \/ BeginExit \/ Exit
  BY <1>4 DEF Switch, Discard, Discarded, Rollback, Crash, BeginExit, Exit, Gone
<1>5. CASE UNCHANGED vars
  BY <1>5 DEF vars
<1> QED BY <1>1, <1>2, <1>3, <1>4, <1>5 DEF Next

LEMMA TwiceStays ==
  ASSUME TypeOK, Control, [Next]_vars, NEW r, Twice(r)
  PROVE  Twice(r)'
<1>1. stuck \subseteq stuck' /\ torn \subseteq torn' /\ stuck \subseteq Journal
  BY OwnerWrites DEF TypeOK
<1>2. ASSUME NEW f \in Journal, Count(journal[f], r) > 0 PROVE Count(journal'[f], r) > 0
  <2>1. CASE journal' = journal
    BY <1>2, <2>1
  <2>2. ASSUME NEW i \in Instances, NEW s \in Records, Deliver(i, s) PROVE Count(journal'[f], r) > 0
    <3>1. journal[f] \in Seq(Records) /\ Grown(journal'[f], journal[f], s)
      BY <2>2, DeliverLines DEF TypeOK
    <3>2. journal'[f] \in Seq(Records) /\ In(journal[f], r) => In(journal'[f], r)
      BY <3>1, GrownCounts
    <3>3. Count(journal[f], r) # 0
      BY <1>2, <3>1, CountIn
    <3>4. journal'[f] \in Seq(Records)
      BY <3>1, GrownCounts
    <3>5. Count(journal'[f], r) \in Nat /\ Count(journal'[f], r) # 0
      BY <3>1, <3>2, <3>3, <3>4, CountIn
    <3> QED BY <3>5
  <2> QED BY <2>1, <2>2, LinesStay
<1> QED BY <1>1, <1>2 DEF Twice

\* The parts of Billed for one record.
OnceInJournals(r) == \A f \in Journal : Count(journal[f], r) <= 1
OnceOnDisk(r) == NotTwice(disk[r], r)
OnceInMemory(r) == \A i \in Instances : NotTwice(mem[i][r] + Count(Unread(i), r), r)
OnceAtLoad(r) == phase \in {"load", "down"} => NotTwice(disk[r] + Count(AtPath, r), r)
BilledOne(r) == OnceInJournals(r) /\ OnceOnDisk(r) /\ OnceInMemory(r) /\ OnceAtLoad(r)

LEMMA BilledStep ==
  ASSUME CutsSucceed, Safe, Closing, NEW r \in Records, BilledOne(r), [Next]_vars
  PROVE  BilledOne(r)'
<1> USE HandoffAssumption DEF store, dir, cpa, ghosts, NoFile
<1>0. TypeOK /\ Control /\ Known /\ Held /\ Owned /\ OnceInJournals(r) /\ OnceOnDisk(r) /\ OnceInMemory(r) /\ OnceAtLoad(r)
  BY DEF Safe, Control, BilledOne
<1>1. /\ mem \in [Instances -> Bills] /\ disk \in Bills /\ journal \in [Journal -> Seq(Records)]
      /\ path \in Journal \cup {NoFile} /\ AtPath \in Seq(Records) /\ active \in Instances \cup {None}
      /\ owner \in Instances \cup {None} /\ disk[r] \in 0..2 /\ Count(AtPath, r) \in Nat
  BY <1>0, AtPathTyped, CountIn DEF TypeOK, Bills
<1>2. \A i \in Instances : mem[i] \in Bills /\ mem[i][r] \in 0..2 /\ Unread(i) \in Seq(Records) /\ Count(Unread(i), r) \in Nat
  BY <1>0, <1>1, ReadsInside, CountIn DEF Bills
<1>3. \A f \in Journal : journal[f] \in Seq(Records) /\ Count(journal[f], r) \in Nat
  BY <1>1, CountIn
<1>4. Twice(r) => Twice(r)'
  BY <1>0, TwiceStays
\* The journals.
<1>5. OnceInJournals(r)'
  <2>1. CASE journal' = journal
    BY <1>0, <2>1 DEF OnceInJournals
  <2>2. ASSUME NEW i \in Instances, NEW s \in Records, Deliver(i, s) PROVE OnceInJournals(r)'
    <3> SUFFICES ASSUME NEW f \in Journal PROVE Count(journal'[f], r) <= 1
      BY DEF OnceInJournals
    <3>1. Grown(journal'[f], journal[f], s)
      BY <1>0, <2>2, DeliverLines
    <3>2. CASE r # s
      BY <1>0, <1>3, <3>1, <3>2, GrownCounts DEF OnceInJournals
    <3>3. CASE r = s
      <4>1. Count(journal[f], r) = 0
        BY <1>0, <2>2, <3>3 DEF Known, Deliver
      <4>2. Count(journal'[f], r) <= Count(journal[f], r) + 1
        BY <1>3, <3>1, <3>3, GrownCounts
      <4> QED BY <4>1, <4>2
    <3> QED BY <3>2, <3>3
  <2> QED BY <1>0, <2>1, <2>2, LinesStay
\* The files.
<1>6. OnceOnDisk(r)'
  <2>1. disk' = disk \/ (owner \in Instances /\ disk' = mem[owner])
    BY <1>0, OwnerWrites
  <2>2. ASSUME NEW i \in Instances PROVE mem[i][r] <= 1 \/ Twice(r)
    BY <1>0, <1>2 DEF OnceInMemory, NotTwice
  <2> QED BY <1>0, <1>4, <2>1, <2>2 DEF OnceOnDisk, NotTwice
\* What an instance bills and has yet to bill.
<1>7. ASSUME UNCHANGED mem, \A i \in Instances : Unread(i)' = Unread(i) PROVE OnceInMemory(r)'
  BY <1>0, <1>4, <1>7 DEF OnceInMemory, NotTwice
<1>8. ASSUME NEW bills \in Bills, NEW lines \in Seq(Records), NotTwice(bills[r] + Count(lines, r), r)
      PROVE  Apply(bills, lines)[r] \in 0..2 /\ NotTwice(Apply(bills, lines)[r], r)
  <2>1. Apply(bills, lines)[r] = AtMostTwo(bills[r] + Count(lines, r)) /\ bills[r] \in 0..2 /\ Count(lines, r) \in Nat
    BY Applied, CountIn DEF Bills
  <2> QED BY <1>8, <2>1 DEF NotTwice, AtMostTwo
<1>9. ASSUME NEW i \in Instances, Unread(i)' = <<>>, mem'[i][r] \in 0..2, NotTwice(mem'[i][r], r),
             \A j \in Instances \ {i} : mem'[j] = mem[j] /\ Unread(j)' = Unread(j)
      PROVE  OnceInMemory(r)'
  <2>1. mem'[i][r] + Count(Unread(i)', r) = mem'[i][r]
    BY <1>9, CountNone
  <2>2. mem'[i][r] + Count(Unread(i)', r) <= 1 \/ Twice(r)'
    BY <1>4, <1>9, <2>1 DEF NotTwice
  <2>3. \A j \in Instances \ {i} : mem'[j][r] + Count(Unread(j)', r) <= 1 \/ Twice(r)'
    BY <1>0, <1>4, <1>9 DEF OnceInMemory, NotTwice
  <2> QED BY <2>2, <2>3 DEF OnceInMemory, NotTwice
<1>10. ASSUME NEW i \in Instances, NEW s \in Records, Deliver(i, s) PROVE OnceInMemory(r)'
  <2> SUFFICES ASSUME NEW j \in Instances PROVE mem'[j][r] + Count(Unread(j)', r) <= 1 \/ Twice(r)'
    BY DEF OnceInMemory, NotTwice
  <2>1. Grown(Unread(j)', Unread(j), s)
    BY <1>0, <1>10, DeliverLines
  <2>2. mem[j][r] + Count(Unread(j), r) <= 1 \/ Twice(r)
    BY <1>0 DEF OnceInMemory, NotTwice
  <2>3. CASE r # s
    <3>1. mem'[j][r] = mem[j][r] /\ Count(Unread(j)', r) = Count(Unread(j), r)
      BY <1>0, <1>2, <1>10, <2>1, <2>3, DeliverLines, GrownCounts
    <3> QED BY <1>4, <2>2, <3>1
  <2>4. CASE r = s
    <3>1. mem[j][r] = 0 /\ Count(Unread(j), r) = 0
      <4>1. r \notin delivered
        BY <1>10, <2>4 DEF Deliver
      <4>2. mem[j][r] = 0 /\ \A f \in Journal : ~In(journal[f], r)
        BY <1>0, <1>3, <4>1, CountIn DEF Known
      <4>3. ~In(Unread(j), r)
        BY <1>0, <4>2, ReadsInside, FromIn, CountNone
      <4> QED BY <1>2, <4>2, <4>3, CountIn
    <3>2. CASE j = i
      <4>1. Unread(j)' = Unread(j) /\ mem'[j][r] = AtMostTwo(0 + 1)
        BY <1>0, <1>10, <2>4, <3>1, <3>2, DeliverLines
      <4> QED BY <3>1, <4>1 DEF AtMostTwo
    <3>3. CASE j # i
      <4>1. mem'[j][r] = 0
        BY <1>0, <1>10, <3>1, <3>3, DeliverLines
      <4>2. Count(Unread(j)', r) <= Count(Unread(j), r) + 1 /\ Unread(j)' \in Seq(Records)
        BY <1>2, <2>1, <2>4, GrownCounts
      <4>3. Count(Unread(j)', r) \in Nat
        BY <4>2, CountIn
      <4> QED BY <3>1, <4>1, <4>2, <4>3
    <3> QED BY <3>2, <3>3
  <2> QED BY <2>3, <2>4
<1>11. ASSUME NEW i \in Instances, FollowRead(i) PROVE OnceInMemory(r)'
  <2>1. NotTwice(mem[i][r] + Count(Unread(i), r), r)
    BY <1>0 DEF OnceInMemory
  <2> QED BY <1>0, <1>2, <1>8, <1>9, <1>11, <2>1, ReadLines
<1>12. ASSUME Register PROVE OnceInMemory(r)'
  <2>1. NotTwice(disk[r] + Count(AtPath, r), r)
    BY <1>0, <1>12 DEF Register, OnceAtLoad
  <2>2. PICK t \in Instances : t = target /\ t = target'
    BY <1>0, <1>12, RegisterLines DEF Register
  <2>3. mem'[t][r] \in 0..2 /\ NotTwice(mem'[t][r], r)
    BY <1>0, <1>1, <1>8, <1>12, <2>1, <2>2, RegisterLines
  <2>4. Unread(t)' = <<>> /\ \A j \in Instances \ {t} : mem'[j] = mem[j] /\ Unread(j)' = Unread(j)
    BY <1>0, <1>12, <2>2, RegisterLines
  <2> QED BY <1>9, <2>3, <2>4
<1>13. ASSUME Crash \/ Exit PROVE OnceInMemory(r)'
  <2>1. \A i \in Instances : mem'[i] = Nothing /\ follower'[i] = NoFollower
    BY <1>13 DEF Crash, Exit, Gone
  <2>2. ASSUME NEW i \in Instances PROVE mem'[i][r] + Count(Unread(i)', r) <= 1
    <3>1. mem'[i][r] = 0 /\ Unread(i)' = <<>>
      BY <2>1 DEF Nothing, Unread, Reads, NoFollower
    <3> QED BY <3>1, CountNone
  <2> QED BY <2>2 DEF OnceInMemory, NotTwice
<1>14. OnceInMemory(r)'
  <2>1. ASSUME NEW i \in Instances, FlushTick(i) \/ FollowFlush(i) \/ FollowRename(i) \/ FollowQuiet(i) \/ RetireOld(i)
        PROVE  OnceInMemory(r)'
    BY <1>0, <1>7, <2>1, UnreadStays DEF FlushTick, FollowFlush, FollowRename, FollowQuiet, RetireOld
  <2>2. ASSUME NEW n \in Instances, BeginReplacement(n) PROVE OnceInMemory(r)'
    BY <1>0, <1>1, <1>7, <2>2, UnreadStays DEF BeginReplacement
  <2>2a. ASSUME NEW n \in Instances, Start(n) PROVE OnceInMemory(r)'
    BY <1>7, <2>2a, UnreadSame DEF Start, Reading
  <2>3. CASE Quiesce
    BY <1>0, <1>7, <2>3, UnreadStays DEF Quiesce, Owned
  <2>4. CASE QuiesceFails
    BY <1>0, <1>7, <2>4, UnreadStays DEF QuiesceFails, Owned
  <2>5. CASE Adopted \/ Switch
    BY <1>0, <1>7, <2>5, UnreadSame DEF Adopted, Switch, Reading
  <2>6. CASE RegisterFails
    BY <1>0, <1>7, <2>6, UnreadSame DEF RegisterFails, Reading
  <2>7. CASE Discard
    BY <1>0, <1>7, <2>7, UnreadStays DEF Discard, Owned
  <2>8. CASE BeginExit
    BY <1>0, <1>7, <2>8, UnreadStays DEF BeginExit, Owned
  <2>9. CASE Discarded
    BY <1>7, <2>9, UnreadSame DEF Discarded, ShutdownOwner, Reading
  <2>10. CASE Rollback
    BY <1>7, <2>10, UnreadSame DEF Rollback, Reading
  <2>11. CASE UNCHANGED vars
    BY <1>7, <2>11, UnreadSame DEF vars, Reading
  <2>12. CASE Next
    BY <1>10, <1>11, <1>12, <1>13, <2>1, <2>2, <2>2a, <2>3, <2>4, <2>5, <2>6, <2>7, <2>8, <2>9, <2>10, <2>12
       DEF Next, Follow
  <2> QED BY <2>11, <2>12
\* What a registration would load.
<1>15. ASSUME disk' = disk, UNCHANGED <<path, journal>>, phase' \in {"load", "down"} => phase \in {"load", "down"}
       PROVE  OnceAtLoad(r)'
  <2>1. AtPath' = AtPath
    BY <1>15 DEF AtPath
  <2> QED BY <1>0, <1>4, <1>15, <2>1 DEF OnceAtLoad, NotTwice
<1>16. ASSUME phase' \notin {"load", "down"} PROVE OnceAtLoad(r)'
  BY <1>16 DEF OnceAtLoad
<1>16a. ASSUME disk'[r] + Count(AtPath', r) <= 1 \/ Twice(r)' PROVE OnceAtLoad(r)'
  BY <1>16a DEF OnceAtLoad, NotTwice
<1>17. ASSUME NEW i \in Instances, NEW s \in Records, Deliver(i, s) PROVE OnceAtLoad(r)'
  <2> SUFFICES ASSUME phase \in {"load", "down"} PROVE disk'[r] + Count(AtPath', r) <= 1 \/ Twice(r)'
    BY <1>17 DEF OnceAtLoad, NotTwice, Deliver
  <2>1. disk' = disk /\ Grown(AtPath', AtPath, s)
    BY <1>0, <1>17, DeliverLines DEF Deliver
  <2>2. disk[r] + Count(AtPath, r) <= 1 \/ Twice(r)
    BY <1>0 DEF OnceAtLoad, NotTwice
  <2>3. CASE r # s
    <3>1. Count(AtPath', r) = Count(AtPath, r)
      BY <1>1, <2>1, <2>3, GrownCounts
    <3> QED BY <1>4, <2>1, <2>2, <3>1
  <2>4. CASE r = s
    <3>1. r \notin delivered
      BY <1>17, <2>4 DEF Deliver
    <3>2. disk[r] = 0 /\ Count(AtPath, r) = 0
      BY <1>0, <1>1, <3>1, CountNone DEF Known, AtPath
    <3>3. Count(AtPath', r) <= Count(AtPath, r) + 1 /\ AtPath' \in Seq(Records)
      BY <1>1, <2>1, <2>4, GrownCounts
    <3>4. Count(AtPath', r) \in Nat
      BY <3>3, CountIn
    <3> QED BY <2>1, <3>2, <3>3, <3>4
  <2> QED BY <2>3, <2>4
\* Without a failing cut the journal at the path is closed by now, could not be renamed, or is empty.
<1>18. ASSUME active \in Instances, owner = active, follower[active].pc = "off"
       PROVE  NotTwice(mem[active][r] + Count(AtPath, r), r)
  <2>1. path = NoFile \/ path \in stuck
    BY <1>1, <1>18 DEF Closing, Following
  <2>2. mem[active][r] <= 1 \/ Twice(r)
    BY <1>0, <1>2, <1>18 DEF OnceInMemory, NotTwice
  <2>3. Count(AtPath, r) = 0 \/ Twice(r)
    <3>1. CASE path = NoFile
      BY <3>1, CountNone DEF AtPath
    <3>2. CASE path # NoFile /\ path \in stuck
      BY <1>1, <3>2 DEF AtPath, Twice
    <3> QED BY <2>1, <3>1, <3>2
  <2>4. mem[active][r] \in 0..2 /\ mem[active][r] + 0 = mem[active][r]
    BY <1>2, <1>18
  <2> QED BY <2>2, <2>3, <2>4 DEF NotTwice
<1>19. ASSUME Quiesce PROVE OnceAtLoad(r)'
  <2>1. active \in Instances /\ owner = active /\ follower[active].pc = "off" /\ disk' = mem[active]
        /\ journal' = journal /\ path' = JournalToOpen
    BY <1>0, <1>19 DEF Quiesce, FlushResult, Owned
  <2>2. NotTwice(mem[active][r] + Count(AtPath, r), r)
    BY <1>18, <2>1
  <2>3. AtPath' = AtPath
    <3>1. CASE path # NoFile
      BY <2>1, <3>1 DEF JournalToOpen, AtPath
    <3>2. CASE path = NoFile
      <4>1. created + 1 \in Journal /\ created + 1 > created /\ created + 1 # 0
        BY <1>0, <1>19 DEF Quiesce, Control, Files, TypeOK, Journal
      <4>2. journal[created + 1] = <<>>
        BY <1>0, <4>1 DEF Control, Files
      <4> QED BY <2>1, <3>2, <4>1, <4>2 DEF JournalToOpen, AtPath
    <3> QED BY <3>1, <3>2
  <2> QED BY <1>4, <1>16a, <2>1, <2>2, <2>3 DEF NotTwice
<1>20. ASSUME Exit PROVE OnceAtLoad(r)'
  <2>1. active \in Instances /\ owner = active /\ follower[active].pc = "off" /\ disk' = mem[active]
        /\ UNCHANGED <<path, journal>>
    BY <1>0, <1>20 DEF Exit, Gone, CutsSucceed, Owned
  <2>2. NotTwice(mem[active][r] + Count(AtPath, r), r)
    BY <1>18, <2>1
  <2>3. AtPath' = AtPath
    BY <2>1 DEF AtPath
  <2> QED BY <1>4, <1>16a, <2>1, <2>2, <2>3 DEF NotTwice
<1>21. ASSUME Crash PROVE OnceAtLoad(r)'
  <2>1. disk' = disk /\ UNCHANGED <<path, journal>> /\ torn' = torn \cup {s \in Records : disk[s] > 0 /\ Count(AtPath, s) > 0}
    BY <1>21 DEF Crash, Gone
  <2>2. AtPath' = AtPath
    BY <2>1 DEF AtPath
  <2>3. Count(AtPath, r) <= 1 /\ (disk[r] <= 1 \/ Twice(r))
    BY <1>0, <1>1, CountNone DEF OnceInJournals, OnceOnDisk, NotTwice, AtPath
  <2>4. disk[r] > 0 /\ Count(AtPath, r) > 0 => Twice(r)'
    BY <2>1 DEF Twice
  <2>5. disk[r] + Count(AtPath, r) <= 1 \/ Twice(r)'
    BY <1>1, <1>4, <2>3, <2>4
  <2> QED BY <1>16a, <2>1, <2>2, <2>5
<1>22. OnceAtLoad(r)'
  <2>1. ASSUME NEW i \in Instances, FlushTick(i) \/ FollowRead(i) \/ FollowFlush(i) \/ FollowRename(i) \/ FollowQuiet(i)
        PROVE  OnceAtLoad(r)'
    <3>1. owner = i /\ phase' = phase
      BY <1>0, <2>1 DEF FlushTick, FollowRead, FollowFlush, FollowRename, FollowQuiet, Held
    <3> QED BY <1>0, <1>16, <3>1 DEF Owned
  <2>2. ASSUME NEW i \in Instances, RetireOld(i) PROVE OnceAtLoad(r)'
    BY <1>15, <2>2 DEF RetireOld
  <2>3. ASSUME NEW n \in Instances, BeginReplacement(n) PROVE OnceAtLoad(r)'
    BY <1>16, <2>3 DEF BeginReplacement
  <2>4. ASSUME NEW n \in Instances, Start(n) PROVE OnceAtLoad(r)'
    BY <1>15, <2>4 DEF Start
  <2>5. CASE QuiesceFails \/ Register \/ Adopted \/ Switch \/ Discard \/ Discarded \/ Rollback \/ BeginExit
    BY <1>16, <2>5 DEF QuiesceFails, Register, Adopted, Switch, Discard, Discarded, Rollback, BeginExit
  <2>6. CASE RegisterFails
    BY <1>15, <2>6 DEF RegisterFails
  <2>7. CASE UNCHANGED vars
    BY <1>15, <2>7 DEF vars
  <2>8. CASE Next
    BY <1>17, <1>19, <1>20, <1>21, <2>1, <2>2, <2>3, <2>4, <2>5, <2>6, <2>8 DEF Next, Follow
  <2> QED BY <2>7, <2>8
<1> QED BY <1>5, <1>6, <1>14, <1>22 DEF BilledOne

\* What holds while cuts succeed.
SafeBilled == Safe /\ Closing /\ \A r \in Records : BilledOne(r)

LEMMA OutcomeIs ==
  ASSUME SafeBilled, NEW r \in Records
  PROVE  /\ Outcome[r] \in 0..2
         /\ Outcome[r] <= 1 \/ Twice(r)
         /\ r \in delivered \ losable => Outcome[r] >= 1
         /\ r \notin delivered => Outcome[r] = 0 /\ ~Twice(r)
<1>0. TypeOK /\ Control /\ Known /\ Missed(r) /\ BilledOne(r)
  BY DEF SafeBilled, Safe
<1>1. CASE Keeper # None
  <2>1. Keeper \in Instances /\ mem[Keeper] \in Bills /\ Unread(Keeper) \in Seq(Records)
    BY <1>0, <1>1, KeeperIs, ReadsInside DEF TypeOK, Control
  <2>2. Outcome = Apply(mem[Keeper], Unread(Keeper))
    BY <1>1 DEF Outcome
  <2>3. NotTwice(mem[Keeper][r] + Count(Unread(Keeper), r), r)
    BY <1>0, <2>1 DEF BilledOne, OnceInMemory
  <2>4. /\ Outcome[r] = AtMostTwo(mem[Keeper][r] + Count(Unread(Keeper), r))
        /\ mem[Keeper][r] \in 0..2 /\ Count(Unread(Keeper), r) \in Nat
    BY <2>1, <2>2, Applied, CountIn DEF Bills
  <2>5. Outcome[r] \in 0..2 /\ (Outcome[r] <= 1 \/ Twice(r))
    BY <2>3, <2>4 DEF NotTwice, AtMostTwo
  <2>6. r \notin delivered => mem[Keeper][r] = 0 /\ Count(Unread(Keeper), r) = 0
    <3> SUFFICES ASSUME r \notin delivered PROVE mem[Keeper][r] = 0 /\ Count(Unread(Keeper), r) = 0
      OBVIOUS
    <3>1. mem[Keeper][r] = 0 /\ \A f \in Journal : ~In(journal[f], r)
      BY <1>0, <2>1, CountIn DEF Known, TypeOK
    <3>2. ~In(Unread(Keeper), r)
      BY <1>0, <2>1, <3>1, ReadsInside, FromIn, CountNone DEF Control
    <3> QED BY <2>1, <3>1, <3>2, CountIn
  <2>7. r \notin delivered => Outcome[r] = 0
    BY <2>4, <2>6 DEF AtMostTwo
  <2> QED BY <1>0, <2>5, <2>7, EndsOutcome DEF Missed, Known, Twice, TypeOK
<1>2. CASE Keeper = None
  <2>1. disk \in Bills /\ AtPath \in Seq(Records) /\ phase \in {"load", "down"}
    BY <1>0, <1>2, KeeperIs, AtPathTyped DEF TypeOK
  <2>2. Outcome = Apply(disk, AtPath)
    BY <1>2 DEF Outcome
  <2>3. NotTwice(disk[r] + Count(AtPath, r), r)
    BY <1>0, <2>1 DEF BilledOne, OnceAtLoad
  <2>4. Outcome[r] = AtMostTwo(disk[r] + Count(AtPath, r)) /\ disk[r] \in 0..2 /\ Count(AtPath, r) \in Nat
    BY <2>1, <2>2, Applied, CountIn DEF Bills
  <2>5. Outcome[r] \in 0..2 /\ (Outcome[r] <= 1 \/ Twice(r))
    BY <2>3, <2>4 DEF NotTwice, AtMostTwo
  <2>6. r \notin delivered => disk[r] = 0 /\ Count(AtPath, r) = 0
    BY <1>0, CountNone DEF Known, AtPath, TypeOK
  <2>7. r \notin delivered => Outcome[r] = 0
    BY <2>4, <2>6 DEF AtMostTwo
  <2> QED BY <1>0, <2>5, <2>7, EndsOutcome DEF Missed, Known, Twice, TypeOK
<1> QED BY <1>1, <1>2

LEMMA SafeBilledStep == CutsSucceed /\ SafeBilled /\ [Next]_vars => SafeBilled'
<1> SUFFICES ASSUME CutsSucceed, SafeBilled, [Next]_vars PROVE SafeBilled'
  OBVIOUS
<1>1. Safe /\ Closing /\ TypeOK /\ Control /\ \A r \in Records : BilledOne(r)
  BY DEF SafeBilled, Safe
<1>2. Safe'
  BY <1>1, SafeStep
<1>3. Closing'
  BY <1>1, ClosingStep
<1>4. (\A r \in Records : BilledOne(r))'
  BY <1>1, BilledStep
<1> QED BY <1>2, <1>3, <1>4 DEF SafeBilled

LEMMA InitSafeBilled == Init => SafeBilled
<1> SUFFICES ASSUME Init PROVE SafeBilled
  OBVIOUS
<1>1. Closing
  BY DEF Init, Closing, Following, Returning
<1>2. ASSUME NEW r \in Records PROVE BilledOne(r)
  <2>1. \A f \in Journal : Count(journal[f], r) = 0
    BY CountNone DEF Init
  <2>2. disk[r] = 0 /\ AtPath = <<>> /\ \A i \in Instances : mem[i][r] = 0 /\ Unread(i) = <<>>
    BY DEF Init, Nothing, AtPath, NoFile, Unread, Reads, NoFollower
  <2>3. Count(AtPath, r) = 0 /\ \A i \in Instances : Count(Unread(i), r) = 0
    BY <2>2, CountNone
  <2> QED BY <2>1, <2>2, <2>3 DEF BilledOne, OnceInJournals, OnceOnDisk, OnceInMemory, OnceAtLoad, NotTwice
<1> QED BY <1>1, <1>2, InitSafe DEF SafeBilled

LEMMA HandoffSafeBilled == ASSUME CutsSucceed PROVE Spec => []SafeBilled
<1>1. SafeBilled /\ [Next]_vars => SafeBilled'
  BY SafeBilledStep
<1> QED BY <1>1, InitSafeBilled, PTL DEF Spec

(* Where no cut fails, no record is billed twice, for any number of instances
   and however replacements, rollbacks, exits and crashes follow each other,
   but for what a crash or a failed rename replays. *)
THEOREM HandoffBillsAtMostOnce ==
  ASSUME "flush" \notin Failures, "partial" \notin Failures
  PROVE  Spec => []BilledAtMostOnce
<1>1. CutsSucceed
  BY DEF CutsSucceed
<1>2. SafeBilled => BilledAtMostOnce
  BY OutcomeIs DEF BilledAtMostOnce
<1> QED BY <1>1, <1>2, HandoffSafeBilled, PTL

----------------------------------------------------------------------------
\* Handoff implements BillOnce

Billed(r) == IF Twice(r) THEN 1 ELSE Outcome[r]
billed == [r \in Records |-> Billed(r)]

BilledWell ==
  \A r \in Records :
    /\ Billed(r) \in {0, 1}
    /\ r \in delivered \ losable => Billed(r) = 1
    /\ r \notin delivered => Billed(r) = 0

LEMMA BilledIs == SafeBilled => BilledWell
BY OutcomeIs DEF Billed, BilledWell

LEMMA BilledIsNext == SafeBilled' => BilledWell'
BY BilledIs, PTL

\* A delivery changes what is billed of its own record only.
LEMMA DeliverBills ==
  ASSUME TypeOK, Control, NEW i \in Instances, NEW r \in Records, Deliver(i, r), [Next]_vars,
         NEW s \in Records, s # r
  PROVE  Billed(s)' = Billed(s)
<1>0. TypeOK' /\ Control'
  BY TypeStep, OwnedStep, HeldStep, FilesStep DEF Control
<1>1. UNCHANGED <<disk, torn, stuck>> /\ Keeper' = Keeper
  BY DEF Deliver, Keeper, cpa
<1>2. Twice(s)' <=> Twice(s)
  <2>1. ASSUME NEW f \in Journal PROVE Count(journal'[f], s) = Count(journal[f], s)
    <3>1. journal[f] \in Seq(Records) /\ Grown(journal'[f], journal[f], r)
      BY DeliverLines DEF TypeOK
    <3> QED BY <3>1, GrownCounts
  <2> QED BY <1>1, <2>1 DEF Twice, TypeOK
<1>3. CASE Keeper # None
  <2>1. Keeper \in Instances /\ mem[Keeper] \in Bills /\ Unread(Keeper) \in Seq(Records)
    BY <1>3, KeeperIs, ReadsInside DEF TypeOK, Control
  <2>2. mem'[Keeper][s] = mem[Keeper][s] /\ Grown(Unread(Keeper)', Unread(Keeper), r)
    BY <1>1, <2>1, DeliverLines
  <2>3. Count(Unread(Keeper)', s) = Count(Unread(Keeper), s)
    BY <2>1, <2>2, GrownCounts
  <2>4. mem'[Keeper] \in Bills /\ Unread(Keeper)' \in Seq(Records)
    BY <1>0, <2>1, <2>2, GrownCounts DEF TypeOK
  <2>5. Outcome = Apply(mem[Keeper], Unread(Keeper)) /\ Outcome' = Apply(mem'[Keeper], Unread(Keeper)')
    BY <1>1, <1>3 DEF Outcome
  <2>6. Outcome'[s] = Outcome[s]
    BY <2>1, <2>2, <2>3, <2>4, <2>5, Applied
  <2> QED BY <1>2, <2>6 DEF Billed
<1>4. CASE Keeper = None
  <2>1. disk \in Bills /\ AtPath \in Seq(Records) /\ Grown(AtPath', AtPath, r)
    BY AtPathTyped, DeliverLines DEF TypeOK
  <2>2. Count(AtPath', s) = Count(AtPath, s) /\ AtPath' \in Seq(Records)
    BY <2>1, GrownCounts
  <2>3. Outcome = Apply(disk, AtPath) /\ Outcome' = Apply(disk, AtPath')
    BY <1>1, <1>4 DEF Outcome
  <2>4. Outcome'[s] = Outcome[s]
    BY <2>1, <2>2, <2>3, Applied
  <2> QED BY <1>2, <2>4 DEF Billed
<1> QED BY <1>3, <1>4

LEMMA StepBills ==
  ASSUME SafeBilled, SafeBilled', [Next]_vars
  PROVE  Once!Next
<1>0. TypeOK /\ Control /\ losable \subseteq losable'
  BY OwnerWrites DEF SafeBilled, Safe
<1>1. losable' \subseteq delivered' /\ delivered \subseteq Records
  BY DEF SafeBilled, Safe, Known, TypeOK
<1>2. \A r \in Records :
        /\ Billed(r)' \in {0, 1}
        /\ r \in delivered' \ losable' => Billed(r)' = 1
        /\ r \notin delivered' => Billed(r)' = 0
  BY BilledIsNext DEF BilledWell
<1>3. \A r \in Records :
        /\ Billed(r) \in {0, 1}
        /\ r \in delivered \ losable => Billed(r) = 1
        /\ r \notin delivered => Billed(r) = 0
  BY BilledIs DEF BilledWell
<1>4. CASE delivered' = delivered
  <2> DEFINE kept == {r \in losable' : Billed(r)' = 1}
  <2>1. ASSUME NEW r \in Records
        PROVE  Billed(r)' = IF r \in kept THEN 1 ELSE IF r \in losable' THEN 0 ELSE Billed(r)
    BY <1>0, <1>2, <1>3, <1>4
  <2>2. kept \in SUBSET losable'
    OBVIOUS
  <2> HIDE DEF kept
  <2>3. billed' = [r \in Records |-> IF r \in kept THEN 1 ELSE IF r \in losable' THEN 0 ELSE billed[r]]
    BY <2>1 DEF billed
  <2>4. Once!Settle
    BY <1>0, <1>1, <1>4, <2>2, <2>3 DEF Once!Settle, billed, Billed
  <2> QED BY <2>4 DEF Once!Next
<1>5. ASSUME NEW i \in Instances, NEW r \in Records, Deliver(i, r) PROVE Once!Next
  <2>1. r \notin delivered /\ delivered' = delivered \cup {r} /\ losable' \in {losable, losable \cup {r}}
    BY <1>5 DEF Deliver
  <2>2. \A s \in Records \ {r} : Billed(s)' = Billed(s)
    BY <1>0, <1>5, DeliverBills
  <2>3. Billed(r) = 0 /\ (Billed(r)' = 1 \/ (r \in losable' /\ Billed(r)' = 0))
    BY <1>2, <1>3, <2>1
  <2>4. billed' = [billed EXCEPT ![r] = 1] \/ (r \in losable' /\ billed' = billed)
    <3>1. billed = [s \in Records |-> Billed(s)] /\ billed' = [s \in Records |-> Billed(s)']
      BY DEF billed
    <3> QED BY <2>2, <2>3, <3>1
  <2>5. Once!Deliver(r)
    BY <2>1, <2>4 DEF Once!Deliver, billed, Billed
  <2> QED BY <2>5 DEF Once!Next
<1> QED BY <1>0, <1>4, <1>5, LinesStay

(* Where no cut fails, the handoff bills as a whole as one ledger does: every
   record once, and a billed one stays billed unless a crash or a switch to an
   instance that never read its line takes it. *)
THEOREM HandoffImplementsBillOnce ==
  ASSUME "flush" \notin Failures, "partial" \notin Failures
  PROVE  Spec => BillsOnce
<1>1. CutsSucceed
  BY DEF CutsSucceed
<1>2. Init => Once!Init
  <2> SUFFICES ASSUME Init PROVE Once!Init
    OBVIOUS
  <2>1. delivered = {} /\ losable = {}
    BY DEF Init
  <2>2. \A r \in Records : Billed(r) = 0
    BY <2>1, InitSafeBilled, BilledIs DEF BilledWell
  <2> QED BY <2>1, <2>2 DEF Once!Init, Billed
<1>3. SafeBilled /\ SafeBilled' /\ [Next]_vars => Once!Next
  BY StepBills
<1>4. Spec => []SafeBilled
  BY <1>1, HandoffSafeBilled
<1>5. Spec => Once!Spec
  BY <1>2, <1>3, <1>4, PTL DEF Spec, Once!Spec
<1> QED BY <1>5 DEF BillsOnce
=============================================================================
