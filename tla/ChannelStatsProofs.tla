-------------------------- MODULE ChannelStatsProofs --------------------------
(***************************************************************************)
(* Theorems about ChannelStats, for any channels, attempts, threads,       *)
(* instances and hours.                                                    *)
(*                                                                         *)
(* While the clock is not turned back and nothing crashes, seen of a       *)
(* channel and an hour is what the serving instance counted (Counted), and *)
(* during a replacement what the newer one counted and has yet to replay   *)
(* (HandedOver); an instance without changes to flush has in memory what   *)
(* the file has, but for what is being counted (InFile).                   *)
(*                                                                         *)
(* With crashes and clocks turned back, the attempts held of a channel are *)
(* those of a set that counted and of a set that counted twice (Claimed):  *)
(* an attempt is in neither set more often than it has already used up of  *)
(* what was to come of it (ToCome), and in the second only if a registry   *)
(* forgot it. The records another instance has still to count are taken    *)
(* off what was seen (Owed).                                               *)
(***************************************************************************)
EXTENDS ChannelStats, FiniteSetTheorems, SequenceTheorems, WellFoundedInduction, TLAPS

----------------------------------------------------------------------------
\* The invariant

Calm == rollbacks = 0 /\ restarts = 0

BusyBy(t, i) == thread[t] # Idle /\ thread[t].by = i
IsOf(o, c, h) == ChannelOf[o.attempt] = c /\ o.hour = h

\* The flush, deletion or handoff under way, and who is where in a replacement.
Control ==
  /\ phase = "loaded" <=> newer \notin {None, serving}
  /\ phase = "quiesced" => newer = None /\ job = NoJob
  /\ job.step = "none" => job = NoJob
  /\ job.op = "handoff" => job.step = "write" /\ phase = "serving" /\ newer = None /\ job.idle = {}
  /\ job.step = "drop" => phase = "serving" /\ job.channel \in Channels /\ job.op = "delete"
  /\ (job.op = "handoff" \/ phase \in {"quiesced", "loaded"}) <=> registry[serving].handoff
  /\ newer # None => ~registry[newer].handoff
  /\ phase = "serving" /\ newer = None /\ job.op # "handoff" => journal = NoJournal
  /\ journal.applied # 0 => newer # None

\* Who an observation is counted by, and where.
Observing ==
  /\ \A t \in Callers : thread[t] # Idle =>
       thread[t].by = serving \/ (newer = serving /\ registry[thread[t].by].handoff)
  /\ thread[Follower] # Idle => thread[Follower].by = IF newer = None THEN serving ELSE newer
  /\ job.op = "handoff" \/ phase = "quiesced" => thread[Follower] = Idle
  /\ \A t \in Threads : thread[t] # Idle /\ thread[t].step = "found" =>
       registry[thread[t].by].channels[ChannelOf[thread[t].o.attempt]] # None

\* Nothing is of an hour to come, and what is being counted is in the window.
Past(h) == h <= now
Timely ==
  /\ \A i \in Instances, c \in Channels, h \in Hours : ~Past(h) => Of(registry[i].channels[c], h) = Zero
  /\ \A c \in Channels, h \in Hours : ~Past(h) => stats[c][h] = Zero /\ job.file[c][h] = Zero /\ seen[c][h] = 0
  /\ \A n \in DOMAIN journal.lines : Past(journal.lines[n].hour)
  /\ \A t \in Threads : thread[t] # Idle => thread[t].o.hour \in Window

\* An hour without tokens has no attempts.
Full(total) == total.tokens = 0 => total.attempts = 0
AllFull ==
  /\ \A i \in Instances, c \in Channels, h \in Hours : Full(Of(registry[i].channels[c], h))
  /\ \A c \in Channels, h \in Hours : Full(stats[c][h]) /\ Full(job.file[c][h])

Tokens(i, c, h) == Of(registry[i].channels[c], h).tokens
\* The follower has taken a line and not counted it yet.
Taken(i, c, h) ==
  IF thread[Follower] # Idle /\ thread[Follower].step = "found" /\ thread[Follower].by = i /\ IsOf(thread[Follower].o, c, h)
  THEN 1 ELSE 0
Lines(c, h) == {n \in journal.applied + 1 .. Len(journal.lines) : IsOf(journal.lines[n], c, h)}
Unannounced(i, c, h) ==
  {t \in Callers : thread[t] # Idle /\ thread[t].step = "counted" /\ thread[t].by # i /\ IsOf(thread[t].o, c, h)}

Counted == newer # serving => \A c \in Channels, h \in Window : Tokens(serving, c, h) + Taken(serving, c, h) = seen[c][h]
Handed(c, h) ==
  IF job.op = "handoff" THEN job.file[c][h].tokens
  ELSE IF newer = None THEN stats[c][h].tokens ELSE Tokens(newer, c, h) + Taken(newer, c, h)
HandedOver ==
  (job.op = "handoff" \/ phase = "quiesced" \/ newer # None) =>
    \A c \in Channels, h \in Window :
      seen[c][h] = Handed(c, h) + Cardinality(Lines(c, h)) + Cardinality(Unannounced(newer, c, h))

\* Counted by i and not announced yet.
Fresh(i, c, h) == \E t \in Threads : thread[t] # Idle /\ thread[t].step = "counted" /\ thread[t].by = i /\ IsOf(thread[t].o, c, h)
Same(i, c, h, total) == Of(registry[i].channels[c], h) = total \/ Fresh(i, c, h)
FileHeld ==
  \A i \in {serving, newer} \ {None} :
    /\ registry[i].flushed <= registry[i].generation
    /\ registry[i].flushed = registry[i].generation => \A c \in Channels, h \in Window : Same(i, c, h, stats[c][h])
JobHeld ==
  /\ job.step \in {"snapshot", "write"} => registry[Owner].flushed <= job.seen /\ job.seen <= registry[Owner].generation
  /\ job.step = "write" /\ job.seen = registry[Owner].generation =>
       \A c \in Channels, h \in Window : Same(Owner, c, h, job.file[c][h])
  /\ job.op = "handoff" /\ job.seen = registry[serving].flushed =>
       \A c \in Channels, h \in Window : stats[c][h] = job.file[c][h]
\* An observation in the journal makes the older instance one to flush.
LinesHeld ==
  /\ job.op = "handoff" /\ journal.lines # <<>> => job.seen < registry[serving].generation
  /\ phase \in {"quiesced", "loaded"} /\ journal.lines # <<>> => registry[serving].flushed < registry[serving].generation
  /\ phase = "loaded" /\ (registry[newer].generation > 0 \/ BusyBy(Follower, newer)) => journal.lines # <<>>
InFile == FileHeld /\ JobHeld /\ LinesHeld

Numbered == rollbacks \in Nat /\ restarts \in Nat
Safe == TypeOK /\ Numbered /\ Control /\ Observing /\ AllFull /\ (Calm => Timely /\ Counted /\ HandedOver /\ InFile)

----------------------------------------------------------------------------
\* Hours

\* What the constants are.
LEMMA ConstantsAre ==
  /\ HoursKept \in Nat /\ HoursKept > 0 /\ LastHour \in Nat /\ LastHour > 0 /\ StartsKept \in Nat
  /\ Hours \subseteq Nat /\ 0 \notin Hours /\ None \notin Instances /\ Follower \notin Callers /\ Follower \in Threads
  /\ Callers \subseteq Threads /\ \A a \in Attempts : ChannelOf[a] \in Channels
BY ChannelStatsAssumption DEF Hours, Threads

\* The hours of a window have slots of their own.
LEMMA RemainderIs ==
  ASSUME NEW h \in Nat
  PROVE  h % HoursKept \in Slots /\ \E q \in Int : h = HoursKept * q + (h % HoursKept)
BY ConstantsAre DEF Slots

LEMMA MultiplesApart ==
  ASSUME NEW p \in Int, NEW q \in Int, p > q
  PROVE  HoursKept * p >= HoursKept * q + HoursKept
<1>1. p = q + 1 + (p - q - 1) /\ p - q - 1 \in Nat
  OBVIOUS
<1>2. HoursKept * (p - q - 1) >= 0
  BY <1>1, ConstantsAre
<1>3. HoursKept * p = HoursKept * q + HoursKept + HoursKept * (p - q - 1)
  BY <1>1, ConstantsAre
<1> QED BY <1>2, <1>3, ConstantsAre

LEMMA SlotsApart ==
  ASSUME now \in Hours, NEW g \in Window, NEW h \in Window, g % HoursKept = h % HoursKept
  PROVE  g = h
<1>1. g \in Nat /\ h \in Nat /\ g - h < HoursKept /\ h - g < HoursKept
  BY ConstantsAre DEF Window
<1>2. PICK p \in Int : g = HoursKept * p + (g % HoursKept)
  BY <1>1, RemainderIs
<1>3. PICK q \in Int : h = HoursKept * q + (h % HoursKept)
  BY <1>1, RemainderIs
<1>4. g % HoursKept \in Nat /\ HoursKept * p \in Int /\ HoursKept * q \in Int
  BY <1>1, RemainderIs, ConstantsAre DEF Slots
<1>5. g - h = HoursKept * p - HoursKept * q
  BY <1>2, <1>3, <1>4
<1>6. ~(p > q)
  BY <1>1, <1>4, <1>5, MultiplesApart, ConstantsAre
<1>7. ~(q > p)
  BY <1>1, <1>4, <1>5, MultiplesApart, ConstantsAre
<1>8. p = q
  BY <1>6, <1>7
<1> QED BY <1>2, <1>3, <1>8

----------------------------------------------------------------------------
\* What a channel holds of an hour

LEMMA SlotTyped ==
  ASSUME NEW c \in Channel, NEW h \in Hours
  PROVE  /\ c.ring \in [Slots -> HourStats] /\ c.starts \in Seq(Attempts) /\ h % HoursKept \in Slots
         /\ c.ring[h % HoursKept] \in HourStats /\ SlotFor(c, h) \in HourStats /\ SlotFor(c, h).hour = h
<1>1. h % HoursKept \in Slots /\ h \in 0..LastHour
  BY RemainderIs, ConstantsAre DEF Hours
<1>2. Empty(h) \in HourStats /\ Empty(h).hour = h
  BY <1>1 DEF Empty, HourStats
<1>3. c.ring \in [Slots -> HourStats] /\ c.starts \in Seq(Attempts)
  BY DEF Channel
<1> QED BY <1>1, <1>2, <1>3 DEF SlotFor

LEMMA OfTyped ==
  ASSUME NEW c \in Channel \cup {None}, NEW h \in Hours
  PROVE  Of(c, h) \in Total /\ Of(c, h).tokens \in Nat /\ Of(c, h).attempts \in Nat
<1>1. Zero \in Total
  BY DEF Zero, Total
<1>2. c # None => [attempts |-> SlotFor(c, h).attempts, tokens |-> SlotFor(c, h).tokens] \in Total
  BY SlotTyped DEF HourStats, Total
<1>3. Of(c, h) \in Total
  BY <1>1, <1>2 DEF Of
<1> QED BY <1>3 DEF Total

\* A channel without statistics, or a new one, holds nothing.
LEMMA OfNothing ==
  ASSUME NEW h \in Hours
  PROVE  Of(None, h) = Zero /\ Of(NewChannel, h) = Zero /\ NewChannel \in Channel
<1>1. h % HoursKept \in Slots
  BY RemainderIs, ConstantsAre
<1>2. ~Holds(NewChannel, h)
  BY <1>1, ConstantsAre DEF Holds, NewChannel, Empty
<1>3. NewChannel \in Channel
  BY ConstantsAre DEF NewChannel, Channel, Empty, HourStats
<1> QED BY <1>2, <1>3 DEF Of

LEMMA HourStatsKept ==
  ASSUME NEW b \in HourStats, NEW k \in Nat, NEW m \in Nat
  PROVE  /\ [b EXCEPT !.attempts = k, !.tokens = m] = [hour |-> b.hour, attempts |-> k, tokens |-> m]
         /\ [b EXCEPT !.attempts = k, !.tokens = m] \in HourStats
<1>1. [b EXCEPT !.attempts = k, !.tokens = m] = [hour |-> b.hour, attempts |-> k, tokens |-> m]
  <2> DEFINE d == [b EXCEPT !.attempts = k]
  <2>1. d = [hour |-> b.hour, attempts |-> k, tokens |-> b.tokens]
    BY DEF HourStats
  <2> HIDE DEF d
  <2>2. [d EXCEPT !.tokens = m] = [hour |-> b.hour, attempts |-> k, tokens |-> m]
    BY <2>1
  <2> QED BY <2>2 DEF d
<1>2. b.hour \in 0..LastHour
  BY DEF HourStats
<1> QED BY <1>1, <1>2 DEF HourStats

\* Counting changes the slot of its hour: an older hour's is given up.
LEMMA AddedTyped ==
  ASSUME NEW c \in Channel, NEW o \in Observation
  PROVE  Added(c, o) \in Channel /\ (Len(c.starts) <= StartsKept => Len(Added(c, o).starts) <= StartsKept)
<1> DEFINE s == Append(c.starts, o.attempt)
           b == SlotFor(c, o.hour)
           again == Knows(c, o.attempt)
           n == [b EXCEPT !.attempts = IF again THEN @ ELSE @ + 1, !.tokens = @ + 1]
<1>1. o.attempt \in Attempts /\ o.hour \in Hours
  BY DEF Observation
<1>2. /\ c.ring \in [Slots -> HourStats] /\ c.starts \in Seq(Attempts) /\ o.hour % HoursKept \in Slots /\ b \in HourStats
  BY <1>1, SlotTyped
<1>3. s \in Seq(Attempts) /\ Len(s) = Len(c.starts) + 1
  BY <1>1, <1>2
<1>4. Len(s) > StartsKept => SubSeq(s, 2, Len(s)) \in Seq(Attempts) /\ Len(SubSeq(s, 2, Len(s))) = Len(c.starts)
  BY <1>2, <1>3
<1>5. /\ Remember(c.starts, o.attempt) \in Seq(Attempts)
      /\ Len(c.starts) <= StartsKept => Len(Remember(c.starts, o.attempt)) <= StartsKept
  BY <1>2, <1>3, <1>4, ConstantsAre DEF Remember
<1>6. n \in HourStats
  <2> HIDE DEF b, again
  <2> DEFINE k == IF again THEN b.attempts ELSE b.attempts + 1
  <2>1. k \in Nat /\ b.tokens \in Nat
    BY <1>2 DEF HourStats
  <2> HIDE DEF k
  <2>2. n = [b EXCEPT !.attempts = k, !.tokens = b.tokens + 1]
    BY DEF k
  <2>3. b.tokens + 1 \in Nat
    BY <2>1
  <2>4. [b EXCEPT !.attempts = k, !.tokens = b.tokens + 1] \in HourStats
    BY <1>2, <2>1, <2>3, HourStatsKept
  <2> HIDE DEF n
  <2> QED BY <2>2, <2>4
<1>7. Added(c, o) = [ring |-> [c.ring EXCEPT ![o.hour % HoursKept] = n],
                     starts |-> IF again THEN c.starts ELSE Remember(c.starts, o.attempt)]
  <2>1. Added(c, o) = [c EXCEPT !.ring = [@ EXCEPT ![o.hour % HoursKept] = n],
                                !.starts = IF again THEN @ ELSE Remember(@, o.attempt)]
    BY DEF Added
  <2> HIDE DEF n, b, again, s
  <2> QED BY <2>1 DEF Channel
<1>8. [c.ring EXCEPT ![o.hour % HoursKept] = n] \in [Slots -> HourStats]
  BY <1>2, <1>6
<1> HIDE DEF n, b, s, again
<1> QED BY <1>2, <1>5, <1>7, <1>8 DEF Channel

\* Counting adds to its hour, and takes from an hour outside the window only.
LEMMA OfAdded ==
  ASSUME NEW c \in Channel, NEW o \in Observation, NEW h \in Hours
  PROVE  /\ h = o.hour => Of(Added(c, o), h).tokens = Of(c, h).tokens + 1
         /\ h # o.hour => Of(Added(c, o), h) \in {Of(c, h), Zero}
         /\ h # o.hour /\ now \in Hours /\ h \in Window /\ o.hour \in Window => Of(Added(c, o), h) = Of(c, h)
<1> DEFINE b == SlotFor(c, o.hour)
           n == [b EXCEPT !.attempts = IF Knows(c, o.attempt) THEN @ ELSE @ + 1, !.tokens = @ + 1]
           d == Added(c, o)
<1>1. o.hour \in Hours
  BY DEF Observation
<1>2. /\ c.ring \in [Slots -> HourStats] /\ o.hour % HoursKept \in Slots /\ b \in HourStats /\ b.hour = o.hour
      /\ h % HoursKept \in Slots
  BY <1>1, SlotTyped
<1>3. n.hour = o.hour /\ n.tokens = b.tokens + 1
  BY <1>2 DEF HourStats
<1>4. d.ring = [c.ring EXCEPT ![o.hour % HoursKept] = n]
  BY <1>2 DEF Added, Channel
<1>5. c # None /\ d # None
  BY <1>4, NoneAssumption, AddedTyped
<1>6. b.tokens = Of(c, o.hour).tokens
  BY <1>1, <1>5 DEF Of, SlotFor, Holds, Empty, Zero
<1> HIDE DEF b, n, d
<1>7. CASE h = o.hour
  <2>1. d.ring[h % HoursKept] = n
    BY <1>2, <1>4, <1>7
  <2> QED BY <1>3, <1>5, <1>6, <1>7, <2>1 DEF Of, Holds, SlotFor, d
<1>8. CASE h # o.hour
  <2>1. CASE h % HoursKept = o.hour % HoursKept
    <3>1. d.ring[h % HoursKept].hour = o.hour
      BY <1>2, <1>3, <1>4, <2>1
    <3>2. Of(d, h) = Zero
      BY <1>8, <3>1 DEF Of, Holds
    <3> QED BY <1>8, <2>1, <3>2, SlotsApart DEF d
  <2>2. CASE h % HoursKept # o.hour % HoursKept
    <3>1. d.ring[h % HoursKept] = c.ring[h % HoursKept]
      BY <1>2, <1>4, <2>2
    <3> QED BY <1>5, <1>8, <3>1 DEF Of, Holds, SlotFor, d
  <2> QED BY <2>1, <2>2
<1> QED BY <1>7, <1>8

\* A snapshot has the hours in the window, and a registry opened from the
\* file has what the file has of them.
LEMMA SnapshotIs ==
  ASSUME NEW table \in Table
  PROVE  /\ Snapshot(table) \in StatsFile
         /\ \A c \in Channels, h \in Hours :
              Snapshot(table)[c][h] = IF h \in Window THEN Of(table[c], h) ELSE Zero
<1>1. \A c \in Channels, h \in Hours : Of(table[c], h) \in Total
  BY OfTyped DEF Table
<1>2. Zero \in Total
  BY DEF Zero, Total
<1> QED BY <1>1, <1>2 DEF Snapshot, StatsFile

LEMMA LoadedIs ==
  ASSUME now \in Hours, stats \in StatsFile, \A c \in Channels, h \in Hours : Full(stats[c][h])
  PROVE  /\ Loaded \in Table
         /\ \A c \in Channels : Loaded[c] # None => Loaded[c].starts = <<>>
         /\ \A c \in Channels, h \in Hours : Of(Loaded[c], h) = IF h \in Window THEN stats[c][h] ELSE Zero
<1> SUFFICES ASSUME NEW c \in Channels
             PROVE  /\ Loaded[c] \in Channel \cup {None}
                    /\ Loaded[c] # None => Loaded[c].starts = <<>>
                    /\ \A h \in Hours : Of(Loaded[c], h) = IF h \in Window THEN stats[c][h] ELSE Zero
  BY DEF Loaded, Table
<1> DEFINE hs(s) == {h \in Window : h % HoursKept = s /\ stats[c][h].tokens > 0}
           of(h) == [hour |-> h, attempts |-> stats[c][h].attempts, tokens |-> stats[c][h].tokens]
           at(s) == IF hs(s) = {} THEN Empty(0) ELSE LET h == CHOOSE x \in hs(s) : TRUE IN of(h)
           none == \A h \in Window : stats[c][h].tokens = 0
           d == [ring |-> [s \in Slots |-> at(s)], starts |-> <<>>]
<1>1. Loaded[c] = IF none THEN None ELSE d
  <2>1. Loaded[c] = IF none THEN None ELSE [NewChannel EXCEPT !.ring = [s \in Slots |-> at(s)]]
    BY Zenon DEF Loaded
  <2> HIDE DEF hs, at, of
  <2> QED BY <2>1 DEF NewChannel
<1>2. \A h \in Hours : stats[c][h] \in Total /\ stats[c][h].tokens \in Nat /\ stats[c][h].attempts \in Nat
  BY DEF StatsFile, Total
<1>3. \A s \in Slots : at(s) \in HourStats /\ (at(s).hour = 0 \/ at(s).hour \in hs(s))
  <2> SUFFICES ASSUME NEW s \in Slots PROVE at(s) \in HourStats /\ (at(s).hour = 0 \/ at(s).hour \in hs(s))
    OBVIOUS
  <2>1. CASE hs(s) = {}
    BY <2>1, ConstantsAre DEF Empty, HourStats
  <2>2. CASE hs(s) # {}
    <3>1. PICK h : h = CHOOSE x \in hs(s) : TRUE
      OBVIOUS
    <3>2. h \in hs(s) /\ at(s) = of(h)
      BY <2>2, <3>1
    <3>3. h \in Hours /\ h \in 0..LastHour
      BY <3>2 DEF Window, Hours
    <3> QED BY <1>2, <3>2, <3>3 DEF HourStats
  <2> QED BY <2>1, <2>2
<1>4. \A h \in Window : stats[c][h].tokens > 0 => at(h % HoursKept) = of(h)
  <2> SUFFICES ASSUME NEW h \in Window, stats[c][h].tokens > 0 PROVE at(h % HoursKept) = of(h)
    OBVIOUS
  <2>1. h \in hs(h % HoursKept)
    OBVIOUS
  <2>2. PICK x : x = CHOOSE y \in hs(h % HoursKept) : TRUE
    OBVIOUS
  <2>3. x \in Window /\ x % HoursKept = h % HoursKept /\ at(h % HoursKept) = of(x)
    BY <2>1, <2>2
  <2>4. x = h
    BY <2>3, SlotsApart
  <2> QED BY <2>3, <2>4
<1> HIDE DEF hs, at, of
<1>5. d \in Channel
  BY <1>3 DEF Channel
<1>6. ASSUME NEW h \in Hours
      PROVE  Of(Loaded[c], h) = IF h \in Window THEN stats[c][h] ELSE Zero
  <2>1. h % HoursKept \in Slots
    BY RemainderIs, ConstantsAre
  <2>2. h \in Window /\ stats[c][h].tokens = 0 => stats[c][h] = Zero
    BY <1>2 DEF Full, Zero, Total
  <2>3. CASE none
    BY <1>1, <2>2, <2>3 DEF Of
  <2>4. CASE ~none
    <3>1. Loaded[c] = d /\ d # None /\ d.ring[h % HoursKept] = at(h % HoursKept)
      BY <1>1, <1>5, <2>1, <2>4, NoneAssumption
    <3>2. CASE h \in Window /\ stats[c][h].tokens > 0
      <4>1. d.ring[h % HoursKept] = of(h)
        BY <1>4, <3>1, <3>2
      <4>2. Of(Loaded[c], h) = [attempts |-> stats[c][h].attempts, tokens |-> stats[c][h].tokens]
        BY <3>1, <4>1 DEF Of, Holds, SlotFor, of
      <4> QED BY <1>2, <3>2, <4>2 DEF Total
    <3>3. CASE ~(h \in Window /\ stats[c][h].tokens > 0)
      <4>1. at(h % HoursKept).hour # h
        BY <1>3, <2>1, <3>3, ConstantsAre DEF hs
      <4>2. Of(Loaded[c], h) = Zero
        BY <3>1, <4>1 DEF Of, Holds
      <4> QED BY <1>2, <2>2, <3>3, <4>2
    <3> QED BY <3>2, <3>3
  <2> QED BY <2>3, <2>4
<1> QED BY <1>1, <1>5, <1>6

----------------------------------------------------------------------------
\* Types

LEMMA Typed ==
  ASSUME TypeOK
  PROVE  /\ now \in Hours /\ now \in Nat /\ Window \subseteq Hours
         /\ \A i \in Instances :
              /\ registry[i] \in Registry /\ registry[i].channels \in Table /\ registry[i].generation \in Nat
              /\ registry[i].flushed \in Nat /\ registry[i].handoff \in BOOLEAN
              /\ \A c \in Channels : registry[i].channels[c] \in Channel \cup {None}
              /\ \A c \in Channels, h \in Hours :
                   Of(registry[i].channels[c], h) \in Total /\ Of(registry[i].channels[c], h).tokens \in Nat
         /\ \A c \in Channels, h \in Hours :
              /\ stats[c][h] \in Total /\ stats[c][h].tokens \in Nat /\ seen[c][h] \in Nat
              /\ job.file[c][h] \in Total /\ job.file[c][h].tokens \in Nat
<1>1. now \in Hours /\ now \in Nat /\ Window \subseteq Hours
  BY ConstantsAre DEF TypeOK, Window
<1>2. ASSUME NEW i \in Instances
      PROVE  /\ registry[i] \in Registry /\ registry[i].channels \in Table /\ registry[i].generation \in Nat
             /\ registry[i].flushed \in Nat /\ registry[i].handoff \in BOOLEAN
             /\ \A c \in Channels : registry[i].channels[c] \in Channel \cup {None}
  <2>1. registry[i] \in Registry
    BY DEF TypeOK
  <2>2. registry[i].channels \in Table
    BY <2>1 DEF Registry
  <2> QED BY <2>1, <2>2 DEF Registry, Table
<1>3. job.file \in StatsFile /\ stats \in StatsFile /\ seen \in [Channels -> [Hours -> Nat]]
  BY DEF TypeOK, Job
<1>4. \A f \in StatsFile : \A c \in Channels, h \in Hours : f[c][h] \in Total /\ f[c][h].tokens \in Nat
  BY DEF StatsFile, Total
<1> QED BY <1>1, <1>2, <1>3, <1>4, OfTyped

LEMMA ThreadTyped ==
  ASSUME TypeOK, NEW t \in Threads
  PROVE  /\ thread[t] = Idle \/ thread[t] \in Busy
         /\ thread[t] # Idle =>
              /\ thread[t] \in Busy /\ thread[t].step \in {"found", "counted"} /\ thread[t].by \in Instances
              /\ thread[t].o \in Observation /\ thread[t].o.hour \in Hours /\ thread[t].o.attempt \in Attempts
              /\ ChannelOf[thread[t].o.attempt] \in Channels
<1>1. thread[t] \in Busy \cup {Idle}
  BY DEF TypeOK
<1> QED BY <1>1, ConstantsAre DEF Busy, Observation

LEMMA JobTyped ==
  ASSUME TypeOK
  PROVE  /\ job.step \in {"none", "snapshot", "write", "evict?", "evict", "drop"}
         /\ job.op \in {"none", "flush", "delete", "handoff"} /\ job.channel \in Channels \cup {None}
         /\ job.seen \in Nat /\ job.file \in StatsFile /\ job.idle \subseteq Channels
         /\ NoJob \in Job /\ NoJob.step = "none" /\ NoJob.op = "none" /\ NoJob.idle = {} /\ NoJob.file = NoStats
         /\ NoStats \in StatsFile
<1>1. job \in Job
  BY DEF TypeOK
<1>2. NoStats \in StatsFile
  BY DEF NoStats, StatsFile, Zero, Total
<1>3. NoJob \in Job
  BY <1>2 DEF NoJob, Job
<1> HIDE DEF StatsFile
<1> QED BY <1>1, <1>2, <1>3 DEF Job, NoJob

LEMMA JournalTyped ==
  ASSUME TypeOK
  PROVE  /\ journal.lines \in Seq(Observation) /\ journal.applied \in Nat /\ journal.due \in Nat
         /\ journal.applied <= Len(journal.lines) /\ Len(journal.lines) \in Nat
         /\ \A n \in 1..Len(journal.lines) :
              /\ journal.lines[n] \in Observation /\ journal.lines[n].hour \in Hours
              /\ journal.lines[n].attempt \in Attempts /\ ChannelOf[journal.lines[n].attempt] \in Channels
         /\ DOMAIN journal.lines = 1..Len(journal.lines)
         /\ NoJournal \in Journal /\ NoJournal.lines = <<>> /\ NoJournal.applied = 0 /\ Len(NoJournal.lines) = 0
<1>1. journal \in Journal /\ journal.applied <= Len(journal.lines)
  BY DEF TypeOK
<1>2. journal.lines \in Seq(Observation) /\ journal.applied \in Nat /\ journal.due \in Nat
  BY <1>1 DEF Journal
<1>3. \A n \in 1..Len(journal.lines) : journal.lines[n] \in Observation
  BY <1>2
<1>4. NoJournal \in Journal /\ NoJournal.lines = <<>> /\ NoJournal.applied = 0 /\ Len(NoJournal.lines) = 0
  BY DEF NoJournal, Journal
<1> QED BY <1>1, <1>2, <1>3, <1>4, ConstantsAre DEF Observation

----------------------------------------------------------------------------
\* What an action leaves of the registries

Sound(r) == r \in Registry /\ \A c \in Channels : r.channels[c] # None => Len(r.channels[c].starts) <= StartsKept
AllSound == registry \in [Instances -> Registry] /\ \A i \in Instances : Sound(registry[i])

LEMMA SoundIs == TypeOK => AllSound
BY DEF TypeOK, AllSound, Sound

LEMMA TableSet ==
  ASSUME NEW r, Sound(r), NEW table \in Table, \A c \in Channels : table[c] # None => Len(table[c].starts) <= StartsKept
  PROVE  /\ Sound([r EXCEPT !.channels = table]) /\ [r EXCEPT !.channels = table].channels = table
         /\ [r EXCEPT !.channels = table].generation = r.generation /\ [r EXCEPT !.channels = table].flushed = r.flushed
         /\ [r EXCEPT !.channels = table].handoff = r.handoff
<1> DEFINE n == [r EXCEPT !.channels = table]
<1>1. n = [channels |-> table, generation |-> r.generation, flushed |-> r.flushed, handoff |-> r.handoff]
  BY DEF Sound, Registry
<1>2. r.generation \in Nat /\ r.flushed \in Nat /\ r.handoff \in BOOLEAN
  BY DEF Sound, Registry
<1>3. n \in Registry
  BY <1>1, <1>2 DEF Registry
<1> QED BY <1>1, <1>3 DEF Sound

LEMMA ChannelSet ==
  ASSUME NEW r, Sound(r), NEW c \in Channels, NEW x \in Channel \cup {None}, x # None => Len(x.starts) <= StartsKept,
         NEW n, n = [r EXCEPT !.channels = [@ EXCEPT ![c] = x]]
  PROVE  /\ Sound(n) /\ n.generation = r.generation /\ n.flushed = r.flushed /\ n.handoff = r.handoff
         /\ \A d \in Channels : n.channels[d] = IF d = c THEN x ELSE r.channels[d]
<1> DEFINE table == [r.channels EXCEPT ![c] = x]
<1>1. r.channels \in Table
  BY DEF Sound, Registry
<1>2. table \in Table /\ \A d \in Channels : table[d] = IF d = c THEN x ELSE r.channels[d]
  BY <1>1 DEF Table
<1>3. \A d \in Channels : table[d] # None => Len(table[d].starts) <= StartsKept
  BY <1>2 DEF Sound
<1>4. n = [r EXCEPT !.channels = table]
  OBVIOUS
<1> HIDE DEF table
<1>5. /\ Sound([r EXCEPT !.channels = table]) /\ [r EXCEPT !.channels = table].channels = table
      /\ [r EXCEPT !.channels = table].generation = r.generation
      /\ [r EXCEPT !.channels = table].flushed = r.flushed /\ [r EXCEPT !.channels = table].handoff = r.handoff
  BY <1>2, <1>3, TableSet
<1> QED BY <1>2, <1>4, <1>5

LEMMA GenerationSet ==
  ASSUME NEW r, Sound(r), NEW g \in Nat, NEW n, n = [r EXCEPT !.generation = g]
  PROVE  /\ Sound(n) /\ n.channels = r.channels /\ n.generation = g /\ n.flushed = r.flushed
         /\ n.handoff = r.handoff
<1>1. r.channels \in Table /\ r.generation \in Nat /\ r.flushed \in Nat /\ r.handoff \in BOOLEAN
  BY DEF Sound, Registry
<1>2. n = [channels |-> r.channels, generation |-> g, flushed |-> r.flushed, handoff |-> r.handoff]
  BY DEF Sound, Registry
<1>3. n \in Registry
  BY <1>1, <1>2 DEF Registry
<1> QED BY <1>2, <1>3 DEF Sound

LEMMA FlushedSet ==
  ASSUME NEW r, Sound(r), NEW g \in Nat, NEW n, n = [r EXCEPT !.flushed = g]
  PROVE  /\ Sound(n) /\ n.channels = r.channels /\ n.generation = r.generation /\ n.flushed = g
         /\ n.handoff = r.handoff
<1>1. r.channels \in Table /\ r.generation \in Nat /\ r.flushed \in Nat /\ r.handoff \in BOOLEAN
  BY DEF Sound, Registry
<1>2. n = [channels |-> r.channels, generation |-> r.generation, flushed |-> g, handoff |-> r.handoff]
  BY DEF Sound, Registry
<1>3. n \in Registry
  BY <1>1, <1>2 DEF Registry
<1> QED BY <1>2, <1>3 DEF Sound

LEMMA HandoffSet ==
  ASSUME NEW r, Sound(r), NEW g \in BOOLEAN, NEW n, n = [r EXCEPT !.handoff = g]
  PROVE  /\ Sound(n) /\ n.channels = r.channels /\ n.generation = r.generation /\ n.flushed = r.flushed
         /\ n.handoff = g
<1>1. r.channels \in Table /\ r.generation \in Nat /\ r.flushed \in Nat /\ r.handoff \in BOOLEAN
  BY DEF Sound, Registry
<1>2. n = [channels |-> r.channels, generation |-> r.generation, flushed |-> r.flushed, handoff |-> g]
  BY DEF Sound, Registry
<1>3. n \in Registry
  BY <1>1, <1>2 DEF Registry
<1> QED BY <1>2, <1>3 DEF Sound

LEMMA NewIs ==
  ASSUME NEW table \in Table, \A c \in Channels : table[c] # None => table[c].starts = <<>>
  PROVE  /\ Sound(NewRegistry(table)) /\ NewRegistry(table).channels = table /\ NewRegistry(table).generation = 0
         /\ NewRegistry(table).flushed = 0 /\ NewRegistry(table).handoff = FALSE
<1>1. NewRegistry(table) \in Registry
  BY DEF NewRegistry, Registry
<1>2. Len(<<>>) = 0
  OBVIOUS
<1> QED BY <1>1, <1>2, ConstantsAre DEF NewRegistry, Sound

LEMMA NoChannelsIs ==
  /\ NoChannels \in Table /\ \A c \in Channels : NoChannels[c] = None /\ \A h \in Hours : Of(NoChannels[c], h) = Zero
  /\ Sound(NewRegistry(NoChannels)) /\ NewRegistry(NoChannels).channels = NoChannels
  /\ NewRegistry(NoChannels).generation = 0 /\ NewRegistry(NoChannels).flushed = 0
  /\ NewRegistry(NoChannels).handoff = FALSE
<1>1. NoChannels \in Table /\ \A c \in Channels : NoChannels[c] = None
  BY DEF NoChannels, Table
<1>2. \A h \in Hours : Of(None, h) = Zero
  BY OfNothing
<1> QED BY <1>1, <1>2, NewIs

\* The registries of all but one instance stay.
LEMMA OneSet ==
  ASSUME AllSound, NEW i \in Instances, NEW n, Sound(n), registry' = [registry EXCEPT ![i] = n]
  PROVE  AllSound' /\ \A j \in Instances : registry'[j] = IF j = i THEN n ELSE registry[j]
<1>1. \A j \in Instances : registry'[j] = IF j = i THEN n ELSE registry[j]
  BY DEF AllSound
<1>2. registry' \in [Instances -> Registry]
  BY DEF AllSound, Sound
<1> QED BY <1>1, <1>2 DEF AllSound, Sound

\* The numbers of every instance stay, and what it holds of every hour.
SameNumbers ==
  \A j \in Instances : registry'[j].generation = registry[j].generation /\ registry'[j].flushed = registry[j].flushed
                         /\ registry'[j].handoff = registry[j].handoff
SameHeld == \A j \in Instances, c \in Channels, h \in Hours : Of(registry'[j].channels[c], h) = Of(registry[j].channels[c], h)
StillThere == \A j \in Instances, c \in Channels : registry[j].channels[c] # None => registry'[j].channels[c] # None
OneThread(t) == \A u \in Threads : u # t => thread'[u] = thread[u]

LEMMA FoundIs ==
  ASSUME TypeOK, NEW t \in Threads, NEW i \in Instances, NEW o \in Observation, Found(t, i, o)
  PROVE  /\ AllSound' /\ SameNumbers /\ SameHeld /\ StillThere
         /\ registry'[i].channels[ChannelOf[o.attempt]] # None
         /\ thread' \in [Threads -> Busy \cup {Idle}] /\ OneThread(t)
         /\ thread'[t] = [step |-> "found", by |-> i, o |-> o] /\ thread'[t] # Idle
<1> DEFINE c == ChannelOf[o.attempt]
           old == registry[i].channels[c]
           x == IF old = None THEN NewChannel ELSE old
           n == [registry[i] EXCEPT !.channels = [@ EXCEPT ![c] = x]]
<1>1. c \in Channels
  BY ConstantsAre DEF Observation
<1>2. AllSound /\ Sound(registry[i]) /\ old \in Channel \cup {None}
  BY <1>1, SoundIs, Typed DEF AllSound
<1>3. x \in Channel /\ x # None /\ Len(x.starts) <= StartsKept
  <2>1. NewChannel \in Channel /\ Len(NewChannel.starts) = 0
    BY ConstantsAre DEF NewChannel, Channel, Empty, HourStats
  <2> QED BY <1>1, <1>2, <2>1, NoneAssumption, ConstantsAre DEF Sound
<1>4. \A h \in Hours : Of(x, h) = Of(old, h)
  BY OfNothing
<1>5. registry' = [registry EXCEPT ![i] = n]
  BY <1>2 DEF Found, AllSound
<1> HIDE DEF n, x, c, old
<1>6. /\ Sound(n) /\ n.generation = registry[i].generation /\ n.flushed = registry[i].flushed
      /\ n.handoff = registry[i].handoff
      /\ \A d \in Channels : n.channels[d] = IF d = c THEN x ELSE registry[i].channels[d]
  BY <1>1, <1>2, <1>3, ChannelSet DEF n
<1>7. AllSound' /\ \A j \in Instances : registry'[j] = IF j = i THEN n ELSE registry[j]
  <2>1. AllSound /\ Sound(n)
    BY <1>2, <1>6
  <2> QED BY <1>5, <2>1, OneSet
<1>8. SameNumbers /\ SameHeld /\ StillThere /\ registry'[i].channels[c] # None
  BY <1>1, <1>3, <1>4, <1>6, <1>7 DEF SameNumbers, SameHeld, StillThere, old
<1>9. [step |-> "found", by |-> i, o |-> o] \in Busy /\ [step |-> "found", by |-> i, o |-> o] # Idle
  BY DEF Busy, Idle
<1>10. /\ thread' \in [Threads -> Busy \cup {Idle}] /\ OneThread(t)
       /\ thread'[t] = [step |-> "found", by |-> i, o |-> o]
  BY <1>9 DEF Found, TypeOK, OneThread
<1> QED BY <1>7, <1>8, <1>9, <1>10 DEF c

\* What Count changes: one hour of one channel of one instance, and the hours
\* that shared its slot.
LEMMA CountIs ==
  ASSUME TypeOK, NEW t \in Threads, Count(t),
         registry[thread[t].by].channels[ChannelOf[thread[t].o.attempt]] # None
  PROVE  LET i == thread[t].by
             o == thread[t].o
             held(j, c, h) == Of(registry[j].channels[c], h) IN
         /\ AllSound' /\ SameNumbers /\ StillThere
         /\ thread' \in [Threads -> Busy \cup {Idle}] /\ OneThread(t)
         /\ thread'[t] # Idle /\ thread'[t].step = "counted" /\ thread'[t].by = i /\ thread'[t].o = o
         /\ \A j \in Instances, c \in Channels, h \in Hours :
              /\ j = i /\ IsOf(o, c, h) => Tokens(j, c, h)' = Tokens(j, c, h) + 1
              /\ ~(j = i /\ IsOf(o, c, h)) =>
                   /\ held(j, c, h)' \in {held(j, c, h), Zero}
                   /\ h \in Window /\ o.hour \in Window => held(j, c, h)' = held(j, c, h)
<1> DEFINE i == thread[t].by
           o == thread[t].o
           c == ChannelOf[o.attempt]
           old == registry[i].channels[c]
           x == Added(old, o)
           n == [registry[i] EXCEPT !.channels = [@ EXCEPT ![c] = x]]
<1>1. thread[t] # Idle /\ thread[t] \in Busy /\ i \in Instances /\ o \in Observation /\ c \in Channels
  BY ThreadTyped DEF Count
<1>2. AllSound /\ Sound(registry[i]) /\ old \in Channel /\ old # None
  BY <1>1, SoundIs, Typed DEF AllSound
<1>3. x \in Channel /\ x # None /\ Len(x.starts) <= StartsKept
  BY <1>1, <1>2, AddedTyped, NoneAssumption DEF Sound
<1>4. registry' = [registry EXCEPT ![i] = n]
  BY <1>2 DEF Count, AllSound
<1>5. thread' = [thread EXCEPT ![t].step = "counted"]
  BY DEF Count
<1>6. /\ \A h \in Hours : h = o.hour => Of(x, h).tokens = Of(old, h).tokens + 1
      /\ \A h \in Hours : h # o.hour => Of(x, h) \in {Of(old, h), Zero}
      /\ \A h \in Hours : h # o.hour /\ now \in Hours /\ h \in Window /\ o.hour \in Window => Of(x, h) = Of(old, h)
  BY <1>1, <1>2, OfAdded
<1> HIDE DEF n, x, c, o, i, old
<1>7. /\ Sound(n) /\ n.generation = registry[i].generation /\ n.flushed = registry[i].flushed
      /\ n.handoff = registry[i].handoff
      /\ \A d \in Channels : n.channels[d] = IF d = c THEN x ELSE registry[i].channels[d]
  BY <1>1, <1>2, <1>3, ChannelSet DEF n
<1>8. AllSound' /\ \A j \in Instances : registry'[j] = IF j = i THEN n ELSE registry[j]
  BY <1>1, <1>2, <1>4, <1>7, OneSet
<1>9. SameNumbers /\ StillThere
  BY <1>3, <1>7, <1>8 DEF SameNumbers, StillThere
<1>10. /\ thread' \in [Threads -> Busy \cup {Idle}] /\ OneThread(t)
       /\ thread'[t] # Idle /\ thread'[t].step = "counted" /\ thread'[t].by = i /\ thread'[t].o = o
  <2> DEFINE b == thread[t]
  <2>0. b \in Busy /\ b.by = i /\ b.o = o
    BY <1>1 DEF i, o
  <2> HIDE DEF b
  <2>1. [b EXCEPT !.step = "counted"] = [step |-> "counted", by |-> i, o |-> o]
    BY <2>0 DEF Busy
  <2>3. thread \in [Threads -> Busy \cup {Idle}] /\ thread' = [thread EXCEPT ![t] = [b EXCEPT !.step = "counted"]]
    BY <1>5 DEF TypeOK, b
  <2>2. [step |-> "counted", by |-> i, o |-> o] \in Busy /\ [step |-> "counted", by |-> i, o |-> o] # Idle
    BY <1>1 DEF Busy, Idle
  <2> QED BY <2>1, <2>2, <2>3 DEF OneThread
<1>11. ASSUME NEW j \in Instances, NEW d \in Channels, NEW h \in Hours
       PROVE  /\ j = i /\ IsOf(o, d, h) => Tokens(j, d, h)' = Tokens(j, d, h) + 1
              /\ ~(j = i /\ IsOf(o, d, h)) =>
                   /\ Of(registry[j].channels[d], h)' \in {Of(registry[j].channels[d], h), Zero}
                   /\ h \in Window /\ o.hour \in Window =>
                        Of(registry[j].channels[d], h)' = Of(registry[j].channels[d], h)
  <2>1. j = i /\ d = c => registry'[j].channels[d] = x /\ registry[j].channels[d] = old
    BY <1>7, <1>8 DEF old
  <2>2. ~(j = i /\ d = c) => registry'[j].channels[d] = registry[j].channels[d]
    BY <1>7, <1>8
  <2>3. IsOf(o, d, h) <=> d = c /\ h = o.hour
    BY DEF IsOf, c
  <2> QED BY <1>6, <2>1, <2>2, <2>3, Typed DEF Tokens
<1> QED BY <1>8, <1>9, <1>10, <1>11 DEF i, o

\* The tables of every instance stay; but for i its numbers do too.
SameTables == \A j \in Instances : registry'[j].channels = registry[j].channels
OneNumbers(i) ==
  \A j \in Instances : j # i => registry'[j].generation = registry[j].generation /\ registry'[j].flushed = registry[j].flushed
                                  /\ registry'[j].handoff = registry[j].handoff

LEMMA TablesStay == SameTables => SameHeld /\ StillThere
BY DEF SameTables, SameHeld, StillThere

LEMMA AnnounceIs ==
  ASSUME TypeOK, NEW t \in Threads, Announce(t)
  PROVE  LET i == thread[t].by IN
         /\ i \in Instances /\ AllSound' /\ SameTables /\ OneNumbers(i)
         /\ registry'[i].generation = registry[i].generation + 1 /\ registry'[i].flushed = registry[i].flushed
         /\ registry'[i].handoff = registry[i].handoff
         /\ thread' \in [Threads -> Busy \cup {Idle}] /\ OneThread(t) /\ thread'[t] = Idle
<1> DEFINE i == thread[t].by
           n == [registry[i] EXCEPT !.generation = registry[i].generation + 1]
<1>1. i \in Instances /\ AllSound /\ Sound(registry[i]) /\ registry[i].generation + 1 \in Nat
  BY SoundIs, ThreadTyped, Typed DEF Announce, AllSound
<1>2. registry' = [registry EXCEPT ![i] = n]
  BY <1>1 DEF Announce, Bumped, AllSound
<1> HIDE DEF n, i
<1>3. /\ Sound(n) /\ n.generation = registry[i].generation + 1 /\ n.flushed = registry[i].flushed
      /\ n.handoff = registry[i].handoff /\ n.channels = registry[i].channels
  BY <1>1, GenerationSet DEF n
<1>4. AllSound' /\ \A j \in Instances : registry'[j] = IF j = i THEN n ELSE registry[j]
  BY <1>1, <1>2, <1>3, OneSet
<1>5. thread' \in [Threads -> Busy \cup {Idle}] /\ OneThread(t) /\ thread'[t] = Idle
  BY DEF Announce, TypeOK, OneThread
<1> QED BY <1>1, <1>3, <1>4, <1>5 DEF SameTables, OneNumbers, i

LEMMA FlushedIs ==
  ASSUME AllSound, NEW i \in Instances, NEW g \in Nat, registry' = [registry EXCEPT ![i].flushed = g]
  PROVE  /\ AllSound' /\ SameTables /\ OneNumbers(i) /\ registry'[i].flushed = g
         /\ registry'[i].generation = registry[i].generation /\ registry'[i].handoff = registry[i].handoff
<1> DEFINE n == [registry[i] EXCEPT !.flushed = g]
<1>1. Sound(registry[i]) /\ registry' = [registry EXCEPT ![i] = n]
  BY DEF AllSound
<1> HIDE DEF n
<1>2. /\ Sound(n) /\ n.generation = registry[i].generation /\ n.flushed = g
      /\ n.handoff = registry[i].handoff /\ n.channels = registry[i].channels
  BY <1>1, FlushedSet DEF n
<1>3. AllSound' /\ \A j \in Instances : registry'[j] = IF j = i THEN n ELSE registry[j]
  BY <1>1, <1>2, OneSet
<1> QED BY <1>2, <1>3 DEF SameTables, OneNumbers

LEMMA HandoffIs ==
  ASSUME AllSound, NEW i \in Instances, NEW b \in BOOLEAN, registry' = [registry EXCEPT ![i].handoff = b]
  PROVE  /\ AllSound' /\ SameTables /\ OneNumbers(i) /\ registry'[i].handoff = b
         /\ registry'[i].generation = registry[i].generation /\ registry'[i].flushed = registry[i].flushed
<1> DEFINE n == [registry[i] EXCEPT !.handoff = b]
<1>1. Sound(registry[i]) /\ registry' = [registry EXCEPT ![i] = n]
  BY DEF AllSound
<1> HIDE DEF n
<1>2. /\ Sound(n) /\ n.generation = registry[i].generation /\ n.flushed = registry[i].flushed
      /\ n.handoff = b /\ n.channels = registry[i].channels
  BY <1>1, HandoffSet DEF n
<1>3. AllSound' /\ \A j \in Instances : registry'[j] = IF j = i THEN n ELSE registry[j]
  BY <1>1, <1>2, OneSet
<1> QED BY <1>2, <1>3 DEF SameTables, OneNumbers

\* What is idle has no hour of the window.
LEMMA IdleHasNone ==
  ASSUME NEW c \in Channel \cup {None}, ~Active(c) \/ c = None, NEW h \in Window
  PROVE  Of(c, h) = Zero
BY DEF Active, Of

LEMMA EvictIs ==
  ASSUME TypeOK, Evict, Owner \in Instances
  PROVE  /\ AllSound' /\ SameNumbers
         /\ \A j \in Instances, c \in Channels :
              /\ j # Owner => registry'[j].channels[c] = registry[j].channels[c]
              /\ registry'[j].channels[c] \in {registry[j].channels[c], None}
              /\ \A h \in Hours : Of(registry'[j].channels[c], h) \in {Of(registry[j].channels[c], h), Zero}
              /\ \A h \in Window : Of(registry'[j].channels[c], h) = Of(registry[j].channels[c], h)
<1> DEFINE gone == StillIdle(registry[Owner].channels)
           table == [c \in Channels |-> IF c \in gone THEN None ELSE registry[Owner].channels[c]]
           n == [registry[Owner] EXCEPT !.channels = table]
<1>1. AllSound /\ Sound(registry[Owner]) /\ registry[Owner].channels \in Table
  BY SoundIs, Typed DEF AllSound
<1>2. table \in Table /\ \A c \in Channels : table[c] # None => Len(table[c].starts) <= StartsKept
  BY <1>1 DEF Table, Sound
<1>3. registry' = [registry EXCEPT ![Owner] = n]
  BY <1>1 DEF Evict, AllSound
<1>4. \A c \in Channels : table[c] \in {registry[Owner].channels[c], None}
  OBVIOUS
<1>5. \A c \in Channels, h \in Window : Of(table[c], h) = Of(registry[Owner].channels[c], h)
  <2> SUFFICES ASSUME NEW c \in Channels, NEW h \in Window, c \in gone
               PROVE  Of(None, h) = Of(registry[Owner].channels[c], h)
    OBVIOUS
  <2>1. ~Active(registry[Owner].channels[c])
    BY DEF StillIdle
  <2> QED BY <2>1, <1>1, Typed, IdleHasNone
<1> HIDE DEF gone, table, n
<1>6. /\ Sound(n) /\ n.channels = table /\ n.generation = registry[Owner].generation
      /\ n.flushed = registry[Owner].flushed /\ n.handoff = registry[Owner].handoff
  BY <1>1, <1>2, TableSet DEF n
<1>7. AllSound' /\ \A j \in Instances : registry'[j] = IF j = Owner THEN n ELSE registry[j]
  BY <1>1, <1>3, <1>6, OneSet
<1>8. \A h \in Hours : Of(None, h) = Zero
  BY OfNothing
<1>9. \A j \in Instances, c \in Channels : registry'[j].channels[c] = IF j = Owner THEN table[c] ELSE registry[j].channels[c]
  BY <1>6, <1>7
<1>10. SameNumbers
  BY <1>6, <1>7 DEF SameNumbers
<1> QED BY <1>4, <1>5, <1>7, <1>8, <1>9, <1>10

LEMMA DropIs ==
  ASSUME TypeOK, DropChannel, NEW c \in Channels, c = job.channel, registry[serving].channels[c] # None
  PROVE  /\ AllSound' /\ OneNumbers(serving)
         /\ registry'[serving].generation = registry[serving].generation + 1
         /\ registry'[serving].flushed = registry[serving].flushed /\ registry'[serving].handoff = registry[serving].handoff
         /\ \A j \in Instances, d \in Channels :
              registry'[j].channels[d] = IF j = serving /\ d = c THEN None ELSE registry[j].channels[d]
<1> DEFINE table == [registry[serving].channels EXCEPT ![c] = None]
           m == [registry[serving] EXCEPT !.channels = table]
           n == [m EXCEPT !.generation = registry[serving].generation + 1]
<1>1. serving \in Instances /\ AllSound /\ Sound(registry[serving]) /\ registry[serving].generation + 1 \in Nat
  BY SoundIs, Typed DEF AllSound, TypeOK
<1>2. registry' = [registry EXCEPT ![serving] = n]
  BY <1>1 DEF AllSound, DropChannel
<1>3. /\ table \in Table /\ \A d \in Channels : table[d] = IF d = c THEN None ELSE registry[serving].channels[d]
      /\ \A d \in Channels : table[d] # None => Len(table[d].starts) <= StartsKept
  <2>1. registry[serving].channels \in Table
    BY <1>1, Typed
  <2> QED BY <1>1, <2>1 DEF Table, Sound
<1> HIDE DEF m, n, table
<1>4. /\ Sound(m) /\ m.generation = registry[serving].generation /\ m.flushed = registry[serving].flushed
      /\ m.handoff = registry[serving].handoff /\ m.channels = table
  BY <1>1, <1>3, TableSet DEF m
<1>5. /\ Sound(n) /\ n.generation = registry[serving].generation + 1 /\ n.flushed = m.flushed
      /\ n.handoff = m.handoff /\ n.channels = m.channels
  BY <1>1, <1>4, GenerationSet DEF n
<1>6. AllSound' /\ \A j \in Instances : registry'[j] = IF j = serving THEN n ELSE registry[j]
  BY <1>1, <1>2, <1>5, OneSet
<1>7. \A j \in Instances, d \in Channels :
        registry'[j].channels[d] = IF j = serving /\ d = c THEN None ELSE registry[j].channels[d]
  <2> SUFFICES ASSUME NEW j \in Instances, NEW d \in Channels
               PROVE  registry'[j].channels[d] = IF j = serving /\ d = c THEN None ELSE registry[j].channels[d]
    OBVIOUS
  <2>1. CASE j = serving
    BY <1>4, <1>5, <1>6, <1>3, <2>1
  <2>2. CASE j # serving
    BY <1>6, <2>2
  <2> QED BY <2>1, <2>2
<1> QED BY <1>1, <1>4, <1>5, <1>6, <1>7 DEF OneNumbers

----------------------------------------------------------------------------
\* Observe

LEMMA SoundTyped ==
  ASSUME TypeOK, AllSound', now' \in Hours, thread' \in [Threads -> Busy \cup {Idle}], job' \in Job,
         phase' \in {"serving", "quiesced", "loaded"}, serving' \in Instances, newer' \in Instances \cup {None},
         journal' \in Journal, journal'.applied <= Len(journal'.lines), stats' \in StatsFile, metadata' \subseteq Channels,
         told' \in [Attempts -> 0..2], counted' \subseteq Attempts, seen' \in [Channels -> [Hours -> Nat]],
         forgotten' \subseteq Attempts, unwritten' \subseteq Channels
  PROVE  TypeOK'
BY DEF TypeOK, AllSound, Sound

\* Who owns the files in each phase.
LEMMA OwnerIs ==
  ASSUME TypeOK, Control
  PROVE  /\ serving \in Instances /\ Owner \in Instances \cup {None} /\ (job.step # "none" => Owner \in Instances)
         /\ phase = "serving" => Owner = serving /\ newer \in {None, serving}
         /\ phase = "quiesced" => Owner = None /\ newer = None /\ job = NoJob
         /\ phase = "loaded" => Owner = newer /\ newer \in Instances /\ newer # serving
<1>1. serving \in Instances /\ newer \in Instances \cup {None} /\ phase \in {"serving", "quiesced", "loaded"}
  BY DEF TypeOK
<1>2. phase = "quiesced" => job.step = "none"
  BY JobTyped DEF Control
<1> QED BY <1>1, <1>2 DEF Owner, Control

LEMMA SafeIs == Safe => TypeOK /\ Numbered /\ Control /\ Observing /\ AllFull
BY DEF Safe

\* While the hour, the files and the replacement stay, what a step leaves of
\* an instance decides.
LEMMA HeldFrame ==
  ASSUME Safe, SameHeld, UNCHANGED <<stats, job>>
  PROVE  AllFull'
BY DEF Safe, AllFull, SameHeld

LEMMA HeldTimely ==
  ASSUME Timely, SameHeld, UNCHANGED <<now, stats, job, seen, journal>>,
         \A t \in Threads : thread'[t] # Idle => thread'[t].o.hour \in Window
  PROVE  Timely'
BY DEF Timely, SameHeld, Past, Window

\* What the counts are made of stays.
SameCounts ==
  \A j \in Instances, c \in Channels, h \in Window : Tokens(j, c, h)' + Taken(j, c, h)' = Tokens(j, c, h) + Taken(j, c, h)

LEMMA HeldTokens ==
  ASSUME SameHeld
  PROVE  \A j \in Instances, c \in Channels, h \in Hours : Tokens(j, c, h)' = Tokens(j, c, h)
BY DEF SameHeld, Tokens

\* The counts are numbers.
LEMMA CountsAre ==
  ASSUME TypeOK, NEW c \in Channels, NEW h \in Hours
  PROVE  /\ IsFiniteSet(Lines(c, h)) /\ Cardinality(Lines(c, h)) \in Nat
         /\ \A e : IsFiniteSet(Unannounced(e, c, h)) /\ Cardinality(Unannounced(e, c, h)) \in Nat
         /\ (\A e : Taken(e, c, h) \in Nat) /\ Handed(c, h) \in Nat
<1>1. IsFiniteSet(journal.applied + 1 .. Len(journal.lines))
  <2>1. journal.applied + 1 \in Int /\ Len(journal.lines) \in Int
    BY JournalTyped
  <2> QED BY <2>1, FS_Interval
<1>2. IsFiniteSet(Lines(c, h))
  BY <1>1, FS_Subset DEF Lines
<1>3. \A e : Unannounced(e, c, h) \subseteq Callers
  BY DEF Unannounced
<1>4. \A e : IsFiniteSet(Unannounced(e, c, h))
  BY <1>3, FS_Subset, ChannelStatsAssumption
<1>5. \A e : Taken(e, c, h) \in Nat
  BY DEF Taken
<1>6. Handed(c, h) \in Nat
  <2>1. newer # None => Tokens(newer, c, h) \in Nat
    BY Typed DEF Tokens, TypeOK
  <2>2. stats[c][h].tokens \in Nat /\ job.file[c][h].tokens \in Nat
    BY Typed
  <2> QED BY <1>5, <2>1, <2>2 DEF Handed
<1> QED BY <1>2, <1>4, <1>5, <1>6, FS_CardinalityType

LEMMA InFileFrame ==
  ASSUME TypeOK, Control, InFile, SameNumbers, UNCHANGED <<now, phase, serving, newer, job, stats>>,
         journal'.lines = journal.lines, BusyBy(Follower, newer)' => BusyBy(Follower, newer) \/ journal.lines # <<>>,
         \A j \in Instances, c \in Channels, h \in Window : \A total : Same(j, c, h, total) => Same(j, c, h, total)'
  PROVE  InFile'
<1>1. Window' = Window /\ Owner' = Owner
  BY DEF Window, Owner
<1>2. FileHeld'
  BY <1>1, OwnerIs DEF InFile, FileHeld, SameNumbers, TypeOK
<1>3. JobHeld'
  BY <1>1, OwnerIs DEF InFile, JobHeld, SameNumbers
<1>4. LinesHeld'
  BY OwnerIs DEF InFile, LinesHeld, SameNumbers
<1> QED BY <1>2, <1>3, <1>4 DEF InFile

LEMMA ReportSafe ==
  ASSUME Safe, NEW t \in Callers, NEW a \in Attempts, Report(t, a)
  PROVE  Safe'
<1> DEFINE o == [attempt |-> a, hour |-> now]
<1>1. TypeOK /\ Numbered /\ Control /\ Observing /\ AllFull
  BY SafeIs
<1>2. /\ thread[t] = Idle /\ told[a] < 2 /\ Found(t, serving, o) /\ told' = [told EXCEPT ![a] = @ + 1]
      /\ UNCHANGED <<now, job, cpa, journal, files, counted, seen, forgotten, unwritten, bounds>>
  BY DEF Report
<1>3. serving \in Instances /\ o \in Observation /\ t \in Threads /\ t # Follower
  BY <1>1, ConstantsAre DEF TypeOK, Observation
<1>4. /\ AllSound' /\ SameNumbers /\ SameHeld /\ StillThere
      /\ registry'[serving].channels[ChannelOf[o.attempt]] # None
      /\ thread' \in [Threads -> Busy \cup {Idle}] /\ OneThread(t)
      /\ thread'[t] = [step |-> "found", by |-> serving, o |-> o] /\ thread'[t] # Idle
  BY <1>1, <1>2, <1>3, FoundIs
<1> HIDE DEF o
<1>5. TypeOK'
  <2>1. told' \in [Attempts -> 0..2]
    BY <1>1, <1>2 DEF TypeOK
  <2> QED BY <1>1, <1>2, <1>4, <2>1, SoundTyped DEF TypeOK, cpa, files
<1>6. Numbered' /\ (Calm' <=> Calm)
  BY <1>1, <1>2 DEF Numbered, Calm, bounds
<1>7. Control'
  BY <1>1, <1>2, <1>3, <1>4 DEF Control, SameNumbers, cpa, TypeOK
<1>8. Observing'
  BY <1>1, <1>2, <1>3, <1>4, ThreadTyped, ConstantsAre DEF Observing, SameNumbers, StillThere, OneThread, cpa
<1>9. AllFull'
  BY <1>2, <1>4, HeldFrame DEF files
<1>10. ASSUME Calm PROVE Timely' /\ Counted' /\ HandedOver' /\ InFile'
  <2>1. Timely /\ Counted /\ HandedOver /\ InFile
    BY <1>10 DEF Safe
  <2>2. Timely'
    <3>1. now \in Window
      BY <1>1, Typed, ConstantsAre DEF Window
    <3>2. \A u \in Threads : thread'[u] # Idle => thread'[u].o.hour \in Window
      BY <1>3, <1>4, <2>1, <3>1 DEF Timely, OneThread, o
    <3> QED BY <1>2, <1>4, <2>1, <3>2, HeldTimely DEF files
  <2>3. \A j \in Instances, c \in Channels, h \in Hours :
          /\ Tokens(j, c, h)' = Tokens(j, c, h) /\ Taken(j, c, h)' = Taken(j, c, h)
          /\ Lines(c, h)' = Lines(c, h)
          /\ \A e : Unannounced(e, c, h)' = Unannounced(e, c, h)
          /\ Fresh(j, c, h) => Fresh(j, c, h)'
    <3>1. \A j \in Instances, c \in Channels, h \in Hours : Taken(j, c, h)' = Taken(j, c, h) /\ Lines(c, h)' = Lines(c, h)
      BY <1>2, <1>3, <1>4, ConstantsAre DEF Taken, Lines, OneThread
    <3>2. \A e, c, h : Unannounced(e, c, h)' = Unannounced(e, c, h)
      BY <1>2, <1>3, <1>4, ConstantsAre DEF Unannounced, OneThread
    <3>3. \A j \in Instances, c \in Channels, h \in Hours : Fresh(j, c, h) => Fresh(j, c, h)'
      BY <1>2, <1>4 DEF Fresh, OneThread
    <3> QED BY <1>4, <3>1, <3>2, <3>3, HeldTokens
  <2>4. Window' = Window /\ Window \subseteq Hours /\ newer \in Instances \cup {None}
    BY <1>1, <1>2, Typed DEF Window, TypeOK
  <2>5. Counted'
    BY <1>2, <1>3, <2>1, <2>3, <2>4 DEF Counted, cpa
  <2>6. HandedOver'
    BY <1>2, <1>3, <2>1, <2>3, <2>4 DEF HandedOver, Handed, cpa, files
  <2>7. InFile'
    <3>1. BusyBy(Follower, newer)' <=> BusyBy(Follower, newer)
      BY <1>2, <1>3, <1>4, ConstantsAre DEF BusyBy, OneThread, cpa
    <3>2. \A j \in Instances, c \in Channels, h \in Window : \A total : Same(j, c, h, total) => Same(j, c, h, total)'
      BY <1>4, <2>3, <2>4 DEF Same, SameHeld
    <3> QED BY <1>1, <1>2, <1>4, <2>1, <3>1, <3>2, InFileFrame DEF cpa, files
  <2> QED BY <2>1, <2>2, <2>5, <2>6, <2>7
<1> QED BY <1>5, <1>6, <1>7, <1>8, <1>9, <1>10 DEF Safe

\* A line is replayed in its own hour while the clock is not turned back.
LEMMA ReplaySafe ==
  ASSUME Safe, Replay
  PROVE  Safe'
<1> DEFINE next == journal.applied + 1
           line == journal.lines[next]
           hour == IF line.hour > now THEN now ELSE line.hour
           o == [line EXCEPT !.hour = hour]
<1>1. TypeOK /\ Numbered /\ Control /\ Observing /\ AllFull
  BY SafeIs
<1>2. /\ newer # None /\ thread[Follower] = Idle /\ journal.applied < Len(journal.lines)
      /\ journal' = [journal EXCEPT !.applied = @ + 1]
      /\ IF hour \in Window THEN Found(Follower, newer, o) ELSE UNCHANGED <<registry, thread>>
      /\ UNCHANGED <<now, job, cpa, files, past, bounds>>
  BY DEF Replay
<1>3. newer \in Instances /\ Follower \in Threads /\ next \in 1..Len(journal.lines) /\ line \in Observation /\ hour \in Hours
  <2>1. newer \in Instances /\ Follower \in Threads
    BY <1>1, <1>2, ConstantsAre DEF TypeOK
  <2>2. next \in 1..Len(journal.lines)
    BY <1>1, <1>2, JournalTyped
  <2>3. line \in Observation /\ line.hour \in Hours
    BY <1>1, <2>2, JournalTyped
  <2>4. hour \in Hours
    BY <1>1, <2>3, Typed
  <2> QED BY <2>1, <2>2, <2>3, <2>4
<1>4. o = [attempt |-> line.attempt, hour |-> hour] /\ o \in Observation /\ line.hour \in Hours
  BY <1>3 DEF Observation
<1>5. /\ journal' \in Journal /\ journal'.applied = next /\ journal'.lines = journal.lines /\ next <= Len(journal'.lines)
  BY <1>1, <1>2, <1>3, JournalTyped DEF TypeOK, Journal
<1> HIDE DEF o, line, next
<1>6. /\ AllSound' /\ SameNumbers /\ SameHeld /\ StillThere /\ thread' \in [Threads -> Busy \cup {Idle}] /\ OneThread(Follower)
      /\ hour \in Window =>
           /\ registry'[newer].channels[ChannelOf[o.attempt]] # None
           /\ thread'[Follower] = [step |-> "found", by |-> newer, o |-> o] /\ thread'[Follower] # Idle
      /\ hour \notin Window => thread'[Follower] = Idle
  <2>1. CASE hour \in Window
    BY <1>1, <1>2, <1>3, <1>4, <2>1, FoundIs
  <2>2. CASE hour \notin Window
    <3>1. AllSound /\ UNCHANGED <<registry, thread>>
      BY <1>1, <1>2, <2>2, SoundIs
    <3> QED BY <1>1, <1>2, <2>2, <3>1 DEF AllSound, SameNumbers, SameHeld, StillThere, OneThread, TypeOK
  <2> QED BY <2>1, <2>2
<1>7. TypeOK'
  BY <1>1, <1>2, <1>5, <1>6, SoundTyped DEF TypeOK, cpa, files, past
<1>8. Numbered' /\ (Calm' <=> Calm)
  BY <1>1, <1>2 DEF Numbered, Calm, bounds
<1>9. Control'
  BY <1>1, <1>2, <1>3, <1>6, OwnerIs DEF Control, SameNumbers, cpa
<1>10. Observing'
  BY <1>1, <1>2, <1>3, <1>6, ThreadTyped, ConstantsAre, OwnerIs DEF Observing, SameNumbers, StillThere, OneThread, cpa, Control
<1>11. AllFull'
  BY <1>2, <1>6, HeldFrame DEF files
<1>12. ASSUME Calm PROVE Timely' /\ Counted' /\ HandedOver' /\ InFile'
  <2>1. Timely /\ Counted /\ HandedOver /\ InFile
    BY <1>12 DEF Safe
  <2>2. hour = line.hour
    <3>1. line.hour <= now
      <4>1. \A n \in DOMAIN journal.lines : journal.lines[n].hour <= now
        BY <2>1 DEF Timely, Past
      <4> QED BY <1>1, <1>3, <4>1, JournalTyped DEF line
    <3>2. line.hour \in Nat /\ now \in Nat
      BY <1>1, <1>4, Typed, ConstantsAre
    <3> QED BY <3>1, <3>2
  <2>3. Window' = Window /\ Window \subseteq Hours
    BY <1>1, <1>2, Typed DEF Window
  <2>4. Timely'
    <3>1. \A u \in Threads : thread'[u] # Idle => thread'[u].o.hour \in Window
      BY <1>3, <1>4, <1>6, <2>1 DEF Timely, OneThread
    <3> QED BY <1>2, <1>5, <1>6, <2>1, <3>1 DEF Timely, SameHeld, Past, Window, files, past
  <2>5. \A j \in Instances, c \in Channels, h \in Hours :
          /\ Tokens(j, c, h)' = Tokens(j, c, h)
          /\ \A e : Unannounced(e, c, h)' = Unannounced(e, c, h)
          /\ Fresh(j, c, h) => Fresh(j, c, h)'
          /\ j # newer => Taken(j, c, h)' = Taken(j, c, h)
    <3>1. \A j \in Instances, c \in Channels, h \in Hours : j # newer => Taken(j, c, h)' = Taken(j, c, h)
      BY <1>2, <1>3, <1>6 DEF Taken
    <3>2. \A e, c, h : Unannounced(e, c, h)' = Unannounced(e, c, h)
      BY <1>3, <1>6, ConstantsAre DEF Unannounced, OneThread
    <3>3. \A j \in Instances, c \in Channels, h \in Hours : Fresh(j, c, h) => Fresh(j, c, h)'
      BY <1>2, <1>6 DEF Fresh, OneThread
    <3> QED BY <1>6, <3>1, <3>2, <3>3, HeldTokens
  <2>6. \A c \in Channels, h \in Window :
          /\ Taken(newer, c, h) = 0 /\ Taken(newer, c, h)' \in Nat
          /\ Cardinality(Lines(c, h)) \in Nat /\ Cardinality(Lines(c, h)') \in Nat
          /\ Cardinality(Lines(c, h)) = Cardinality(Lines(c, h)') + Taken(newer, c, h)'
    <3> SUFFICES ASSUME NEW c \in Channels, NEW h \in Window
                 PROVE  /\ Taken(newer, c, h) = 0 /\ Taken(newer, c, h)' \in Nat
                        /\ Cardinality(Lines(c, h)) \in Nat /\ Cardinality(Lines(c, h)') \in Nat
                        /\ Cardinality(Lines(c, h)) = Cardinality(Lines(c, h)') + Taken(newer, c, h)'
      OBVIOUS
    <3>1. Taken(newer, c, h) = 0
      BY <1>2 DEF Taken
    <3>2. IsFiniteSet(Lines(c, h)) /\ Cardinality(Lines(c, h)) \in Nat
      BY <1>1, <2>3, CountsAre
    <3>3. Lines(c, h)' = Lines(c, h) \ {next}
      BY <1>1, <1>3, <1>5, JournalTyped DEF Lines, next
    <3>4. next \in Lines(c, h) <=> IsOf(line, c, h)
      BY <1>1, <1>3, JournalTyped DEF Lines, line, next
    <3>5. Taken(newer, c, h)' = IF IsOf(line, c, h) THEN 1 ELSE 0
      BY <1>2, <1>4, <1>6, <2>2 DEF Taken, IsOf, cpa
    <3>6. /\ Cardinality(Lines(c, h) \ {next}) \in Nat
          /\ Cardinality(Lines(c, h) \ {next}) =
               IF next \in Lines(c, h) THEN Cardinality(Lines(c, h)) - 1 ELSE Cardinality(Lines(c, h))
      <4>1. IsFiniteSet(Lines(c, h))
        BY <1>1, <2>3, CountsAre
      <4> QED BY <4>1, FS_RemoveElement, FS_CardinalityType
    <3> QED BY <3>1, <3>2, <3>3, <3>4, <3>5, <3>6
  <2>7. Counted'
    BY <1>1, <1>2, <2>1, <2>3, <2>5, OwnerIs DEF Counted, cpa, past
  <2>8. HandedOver'
    <3>1. job.op # "handoff" /\ job'.op = job.op /\ newer' = newer /\ seen' = seen
      BY <1>1, <1>2 DEF Control, cpa, past
    <3>2. \A c \in Channels, h \in Window : Handed(c, h) = Tokens(newer, c, h)
      BY <1>1, <1>2, <1>3, <2>3, <2>6, <3>1, Typed DEF Handed, Tokens
    <3>3. \A c \in Channels, h \in Window : Handed(c, h)' = Tokens(newer, c, h) + Taken(newer, c, h)'
      BY <1>2, <1>3, <2>3, <2>5, <3>1 DEF Handed
    <3>4. \A c \in Channels, h \in Window : Tokens(newer, c, h) \in Nat
      BY <1>1, <1>3, <2>3, Typed DEF Tokens
    <3> SUFFICES ASSUME NEW c \in Channels, NEW h \in Window
                 PROVE  seen[c][h] = Handed(c, h)' + Cardinality(Lines(c, h)') + Cardinality(Unannounced(newer, c, h)')
      BY <1>2, <2>3, <3>1 DEF HandedOver, cpa
    <3>5. seen[c][h] = Handed(c, h) + Cardinality(Lines(c, h)) + Cardinality(Unannounced(newer, c, h))
      BY <1>2, <2>1 DEF HandedOver
    <3>6. Unannounced(newer, c, h)' = Unannounced(newer, c, h) /\ Cardinality(Unannounced(newer, c, h)) \in Nat
      <4>1. \A e : Unannounced(e, c, h)' = Unannounced(e, c, h)
        BY <2>3, <2>5, <1>3
      <4>2. h \in Hours
        BY <2>3
      <4> QED BY <1>1, <3>1, <4>1, <4>2, CountsAre
    <3>7. Taken(newer, c, h)' \in Nat /\ Tokens(newer, c, h) \in Nat /\ Cardinality(Lines(c, h)') \in Nat
      BY <2>6, <3>4
    <3>8. Cardinality(Lines(c, h)) = Cardinality(Lines(c, h)') + Taken(newer, c, h)'
      BY <2>6
    <3>9. Handed(c, h) = Tokens(newer, c, h) /\ Handed(c, h)' = Tokens(newer, c, h) + Taken(newer, c, h)'
      BY <3>2, <3>3
    <3>10. Cardinality(Unannounced(newer, c, h)') = Cardinality(Unannounced(newer, c, h))
      BY <3>6
    <3> QED BY <3>5, <3>6, <3>7, <3>8, <3>9, <3>10
  <2>9. InFile'
    <3>1. journal.lines # <<>>
      BY <1>1, <1>2, JournalTyped
    <3>2. \A j \in Instances, c \in Channels, h \in Window : \A total : Same(j, c, h, total) => Same(j, c, h, total)'
      BY <1>6, <2>3, <2>5 DEF Same, SameHeld
    <3> QED BY <1>1, <1>2, <1>5, <1>6, <2>1, <3>1, <3>2, InFileFrame DEF cpa, files
  <2> QED BY <2>4, <2>7, <2>8, <2>9
<1> QED BY <1>7, <1>8, <1>9, <1>10, <1>11, <1>12 DEF Safe

\* An observation counted is Fresh until it is announced; the follower's was
\* Taken.
LEMMA CountSafe ==
  ASSUME Safe, NEW t \in Threads, Count(t)
  PROVE  Safe'
<1> DEFINE i == thread[t].by
           o == thread[t].o
           c == ChannelOf[o.attempt]
           held(j, d, h) == Of(registry[j].channels[d], h)
<1>1. TypeOK /\ Numbered /\ Control /\ Observing /\ AllFull
  BY SafeIs
<1>2. /\ thread[t] # Idle /\ thread[t].step = "found"
      /\ forgotten' = IF registry[i].channels[c] = None THEN forgotten
                      ELSE forgotten \cup PushedOut(registry[i].channels[c], o.attempt)
      /\ IF t = Follower THEN UNCHANGED <<counted, seen>>
         ELSE counted' = counted \cup {o.attempt} /\ seen' = [seen EXCEPT ![c][o.hour] = @ + 1]
      /\ UNCHANGED <<now, job, cpa, journal, files, told, unwritten, bounds>>
  BY DEF Count, Counts
<1>3. i \in Instances /\ o \in Observation /\ o.hour \in Hours /\ o.attempt \in Attempts /\ c \in Channels
  BY <1>1, <1>2, ThreadTyped
<1>4. registry[i].channels[c] # None
  BY <1>1, <1>2 DEF Observing
<1>5. /\ AllSound' /\ SameNumbers /\ StillThere
      /\ thread' \in [Threads -> Busy \cup {Idle}] /\ OneThread(t)
      /\ thread'[t] # Idle /\ thread'[t].step = "counted" /\ thread'[t].by = i /\ thread'[t].o = o
      /\ \A j \in Instances, d \in Channels, h \in Hours :
           /\ j = i /\ IsOf(o, d, h) => Tokens(j, d, h)' = Tokens(j, d, h) + 1
           /\ ~(j = i /\ IsOf(o, d, h)) =>
                /\ held(j, d, h)' \in {held(j, d, h), Zero}
                /\ h \in Window /\ o.hour \in Window => held(j, d, h)' = held(j, d, h)
  BY <1>1, <1>4, CountIs
<1> HIDE DEF i, o, c
<1>6. TypeOK'
  <2>1. seen' \in [Channels -> [Hours -> Nat]] /\ counted' \subseteq Attempts
    <3>1. seen \in [Channels -> [Hours -> Nat]] /\ counted \subseteq Attempts
      BY <1>1 DEF TypeOK
    <3>2. CASE t = Follower
      BY <1>2, <3>1, <3>2
    <3>3. CASE t # Follower
      <4> DEFINE n == seen[c][o.hour] + 1
                 row == [seen[c] EXCEPT ![o.hour] = n]
      <4>1. counted' = counted \cup {o.attempt} /\ seen' = [seen EXCEPT ![c] = row]
        BY <1>2, <3>3
      <4>2. seen[c] \in [Hours -> Nat] /\ n \in Nat
        BY <1>3, <3>1
      <4> HIDE DEF n
      <4>3. row \in [Hours -> Nat]
        BY <4>2
      <4> HIDE DEF row
      <4> QED BY <1>3, <3>1, <4>1, <4>3
    <3> QED BY <3>2, <3>3
  <2>2. PushedOut(registry[i].channels[c], o.attempt) \subseteq Attempts
    <3>1. registry[i].channels[c].starts \in Seq(Attempts)
      BY <1>1, <1>3, <1>4, Typed DEF Channel
    <3> QED BY <1>3, <3>1 DEF PushedOut
  <2>3. forgotten' \subseteq Attempts
    BY <1>1, <1>2, <2>2 DEF TypeOK
  <2> QED BY <1>1, <1>2, <1>5, <2>1, <2>3, SoundTyped DEF TypeOK, cpa, files
<1>7. Numbered' /\ (Calm' <=> Calm)
  BY <1>1, <1>2 DEF Numbered, Calm, bounds
<1>8. Control'
  BY <1>1, <1>2, <1>5, OwnerIs DEF Control, SameNumbers, cpa
<1>9. Observing'
  BY <1>1, <1>2, <1>3, <1>5, ThreadTyped, ConstantsAre, OwnerIs DEF Observing, SameNumbers, StillThere, OneThread, cpa, Control, i, o
<1>10. AllFull'
  <2> SUFFICES ASSUME NEW j \in Instances, NEW d \in Channels, NEW h \in Hours PROVE Full(held(j, d, h)')
    BY <1>1, <1>2 DEF AllFull, files
  <2>1. Tokens(j, d, h) \in Nat /\ Full(held(j, d, h))
    BY <1>1, Typed DEF Tokens, AllFull
  <2>2. CASE j = i /\ IsOf(o, d, h)
    <3>1. Tokens(j, d, h)' # 0
      BY <1>5, <2>1, <2>2
    <3> QED BY <3>1 DEF Full, Tokens
  <2>3. CASE ~(j = i /\ IsOf(o, d, h))
    BY <1>5, <2>1, <2>3 DEF Full, Zero
  <2> QED BY <2>2, <2>3
<1>11. ASSUME Calm PROVE Timely' /\ Counted' /\ HandedOver' /\ InFile'
  <2>1. Timely /\ Counted /\ HandedOver /\ InFile
    BY <1>11 DEF Safe
  <2>2. o.hour \in Window /\ Past(o.hour)
    BY <1>2, <2>1 DEF Timely, Past, Window, o
  <2>3. Window' = Window /\ Window \subseteq Hours
    BY <1>1, <1>2, Typed DEF Window
  <2>4. \A d \in Channels, h \in Hours : seen'[d][h] = IF t # Follower /\ IsOf(o, d, h) THEN seen[d][h] + 1 ELSE seen[d][h]
    <3>1. seen \in [Channels -> [Hours -> Nat]]
      BY <1>1 DEF TypeOK
    <3>2. \A d \in Channels, h \in Hours : IsOf(o, d, h) <=> d = c /\ h = o.hour
      BY DEF IsOf, c
    <3>3. CASE t = Follower
      BY <1>2, <3>3
    <3>4. CASE t # Follower
      <4> DEFINE row == [seen[c] EXCEPT ![o.hour] = seen[c][o.hour] + 1]
      <4>1. seen' = [seen EXCEPT ![c] = row]
        BY <1>2, <3>4
      <4>2. \A h \in Hours : row[h] = IF h = o.hour THEN seen[c][h] + 1 ELSE seen[c][h]
        BY <1>3, <3>1
      <4> HIDE DEF row
      <4>3. \A d \in Channels : seen'[d] = IF d = c THEN row ELSE seen[d]
        BY <3>1, <4>1
      <4> QED BY <3>2, <3>4, <4>2, <4>3
    <3> QED BY <3>3, <3>4
  <2>5. \A j \in Instances, d \in Channels, h \in Window :
          Tokens(j, d, h)' = IF j = i /\ IsOf(o, d, h) THEN Tokens(j, d, h) + 1 ELSE Tokens(j, d, h)
    BY <1>5, <2>2, <2>3 DEF Tokens
  <2>6. \A j \in Instances, d \in Channels, h \in Hours :
          /\ Taken(j, d, h)' = IF t = Follower THEN 0 ELSE Taken(j, d, h)
          /\ Taken(j, d, h) = IF t = Follower THEN (IF j = i /\ IsOf(o, d, h) THEN 1 ELSE 0) ELSE Taken(j, d, h)
          /\ Lines(d, h)' = Lines(d, h)
    BY <1>2, <1>5, ConstantsAre DEF Taken, Lines, OneThread, i, o
  <2>7. \A e, d, h : Unannounced(e, d, h)' =
          IF t # Follower /\ i # e /\ IsOf(o, d, h) THEN Unannounced(e, d, h) \cup {t} ELSE Unannounced(e, d, h)
    BY <1>2, <1>5, ConstantsAre DEF Unannounced, OneThread, Threads, i, o
  <2>8. \A e, d, h : t \notin Unannounced(e, d, h)
    BY <1>2 DEF Unannounced
  <2>9. Timely'
    <3>1. \A j \in Instances, d \in Channels, h \in Hours : ~Past(h) => held(j, d, h)' = Zero
      BY <1>5, <2>1, <2>2 DEF Timely, IsOf
    <3>2. \A d \in Channels, h \in Hours : ~Past(h) => seen'[d][h] = 0
      BY <2>1, <2>2, <2>4 DEF Timely, IsOf
    <3>3. \A u \in Threads : thread'[u] # Idle => thread'[u].o.hour \in Window
      BY <1>5, <2>1, <2>2 DEF Timely, OneThread
    <3> QED BY <1>2, <2>1, <2>3, <3>1, <3>2, <3>3 DEF Timely, Past, files
  <2>10. Counted'
    <3> SUFFICES ASSUME newer # serving, NEW d \in Channels, NEW h \in Window
                 PROVE  Tokens(serving, d, h)' + Taken(serving, d, h)' = seen'[d][h]
      BY <1>2, <2>3 DEF Counted, cpa
    <3>1. Tokens(serving, d, h) + Taken(serving, d, h) = seen[d][h] /\ Tokens(serving, d, h) \in Nat /\ serving \in Instances
      BY <1>1, <2>1, <2>3, Typed, OwnerIs DEF Counted, Tokens
    <3>2. t # Follower => i = serving
      BY <1>1, <1>2 DEF Observing, Threads, i
    <3>3. CASE t = Follower
      BY <1>2, <2>3, <2>4, <2>5, <2>6, <3>1, <3>3 DEF cpa
    <3>4. CASE t # Follower
      <4>1. Taken(serving, d, h) \in Nat
        BY <1>1, <2>3, CountsAre
      <4> QED BY <1>2, <2>3, <2>4, <2>5, <2>6, <3>1, <3>2, <3>4, <4>1 DEF cpa
    <3> QED BY <3>3, <3>4
  <2>11. HandedOver'
    <3> SUFFICES ASSUME job.op = "handoff" \/ phase = "quiesced" \/ newer # None, NEW d \in Channels, NEW h \in Window
                 PROVE  seen'[d][h] = Handed(d, h)' + Cardinality(Lines(d, h)') + Cardinality(Unannounced(newer, d, h)')
      BY <1>2, <2>3 DEF HandedOver, cpa
    <3>1. seen[d][h] = Handed(d, h) + Cardinality(Lines(d, h)) + Cardinality(Unannounced(newer, d, h))
      BY <2>1 DEF HandedOver
    <3>2. /\ Cardinality(Lines(d, h)') = Cardinality(Lines(d, h)) /\ Cardinality(Lines(d, h)) \in Nat
          /\ seen[d][h] \in Nat
      BY <1>1, <1>3, <2>3, <2>6, CountsAre, Typed
    <3>3. /\ Cardinality(Unannounced(newer, d, h)) \in Nat
          /\ Cardinality(Unannounced(newer, d, h)') =
               IF t # Follower /\ i # newer /\ IsOf(o, d, h) THEN Cardinality(Unannounced(newer, d, h)) + 1
               ELSE Cardinality(Unannounced(newer, d, h))
      <4>1. IsFiniteSet(Unannounced(newer, d, h)) /\ Cardinality(Unannounced(newer, d, h)) \in Nat
        BY <1>1, <2>3, CountsAre
      <4>2. Cardinality(Unannounced(newer, d, h) \cup {t}) = Cardinality(Unannounced(newer, d, h)) + 1
        BY <4>1, <2>8, FS_AddElement
      <4> QED BY <1>2, <2>7, <4>1, <4>2 DEF cpa
    <3>4. Handed(d, h) \in Nat
      BY <1>1, <2>3, CountsAre
    <3>5. Handed(d, h)' = IF t # Follower /\ i = newer /\ IsOf(o, d, h) THEN Handed(d, h) + 1 ELSE Handed(d, h)
      <4>1. CASE job.op = "handoff" \/ newer = None
        <5>1. i # newer
          BY <1>1, <1>3, <4>1, OwnerIs, ConstantsAre DEF Control
        <5> QED BY <1>2, <4>1, <5>1 DEF Handed, cpa, files
      <4>2. CASE job.op # "handoff" /\ newer # None
        <5>1. newer \in Instances /\ Tokens(newer, d, h) \in Nat /\ Taken(newer, d, h) \in Nat
          BY <1>1, <4>2, <2>3, Typed, CountsAre DEF Tokens, TypeOK
        <5>2. t = Follower => i = newer
          BY <1>1, <1>2, <4>2 DEF Observing, i
        <5>3. Handed(d, h) = Tokens(newer, d, h) + Taken(newer, d, h) /\ Handed(d, h)' = Tokens(newer, d, h)' + Taken(newer, d, h)'
          BY <1>2, <4>2 DEF Handed, cpa
        <5>4. /\ Tokens(newer, d, h)' = IF newer = i /\ IsOf(o, d, h) THEN Tokens(newer, d, h) + 1 ELSE Tokens(newer, d, h)
              /\ Taken(newer, d, h)' = IF t = Follower THEN 0 ELSE Taken(newer, d, h)
              /\ t = Follower => Taken(newer, d, h) = IF newer = i /\ IsOf(o, d, h) THEN 1 ELSE 0
          BY <1>2, <2>3, <2>5, <2>6, <5>1 DEF cpa
        <5> QED BY <5>1, <5>2, <5>3, <5>4
      <4> QED BY <4>1, <4>2
    <3>6. seen'[d][h] = IF t # Follower /\ IsOf(o, d, h) THEN seen[d][h] + 1 ELSE seen[d][h]
      BY <2>3, <2>4
    <3> QED BY <3>1, <3>2, <3>3, <3>4, <3>5, <3>6
  <2>12. InFile'
    <3>1. \A j \in Instances, d \in Channels, h \in Window : Fresh(j, d, h) => Fresh(j, d, h)'
      BY <1>2, <1>5 DEF Fresh, OneThread
    <3>2. \A j \in Instances, d \in Channels, h \in Window : j = i /\ IsOf(o, d, h) => Fresh(j, d, h)'
      BY <1>5 DEF Fresh
    <3>3. \A j \in Instances, d \in Channels, h \in Window : \A total : Same(j, d, h, total) => Same(j, d, h, total)'
      BY <1>5, <2>2, <2>3, <3>1, <3>2 DEF Same
    <3>4. BusyBy(Follower, newer)' => BusyBy(Follower, newer)
      BY <1>2, <1>5, ConstantsAre DEF BusyBy, OneThread, cpa, i
    <3> QED BY <1>1, <1>2, <1>5, <2>1, <3>3, <3>4, InFileFrame DEF cpa, files
  <2> QED BY <2>9, <2>10, <2>11, <2>12
<1> QED BY <1>6, <1>7, <1>8, <1>9, <1>10, <1>11 DEF Safe

\* An announcement ends Fresh as it raises the generation, and hands over its
\* line when the instance journals.
LEMMA AnnounceSafe ==
  ASSUME Safe, NEW t \in Threads, Announce(t)
  PROVE  Safe'
<1> DEFINE i == thread[t].by
           o == thread[t].o
<1>1. TypeOK /\ Numbered /\ Control /\ Observing /\ AllFull
  BY SafeIs
<1>2. /\ thread[t] # Idle /\ thread[t].step = "counted"
      /\ journal' = IF registry[i].handoff THEN [journal EXCEPT !.lines = Append(@, o)] ELSE journal
      /\ UNCHANGED <<now, job, cpa, files, past, bounds>>
  BY DEF Announce
<1>3. i \in Instances /\ o \in Observation
  BY <1>1, <1>2, ThreadTyped
<1>4. /\ AllSound' /\ SameTables /\ OneNumbers(i)
      /\ registry'[i].generation = registry[i].generation + 1 /\ registry'[i].flushed = registry[i].flushed
      /\ registry'[i].handoff = registry[i].handoff
      /\ thread' \in [Threads -> Busy \cup {Idle}] /\ OneThread(t) /\ thread'[t] = Idle
  BY <1>1, AnnounceIs
<1> HIDE DEF i, o
<1>5. SameHeld /\ StillThere /\ \A j \in Instances : registry'[j].handoff = registry[j].handoff
  BY <1>4, TablesStay DEF OneNumbers
<1>6. /\ journal' \in Journal /\ journal'.applied = journal.applied /\ journal'.applied <= Len(journal'.lines)
      /\ registry[i].handoff => journal'.lines = Append(journal.lines, o)
      /\ ~registry[i].handoff => journal' = journal
  <2>1. journal \in Journal /\ journal.lines \in Seq(Observation) /\ journal.applied <= Len(journal.lines)
    BY <1>1, JournalTyped DEF TypeOK
  <2>2. Append(journal.lines, o) \in Seq(Observation) /\ Len(Append(journal.lines, o)) = Len(journal.lines) + 1
    BY <1>3, <2>1
  <2>3. CASE registry[i].handoff
    <3>1. journal' = [lines |-> Append(journal.lines, o), applied |-> journal.applied, due |-> journal.due]
      BY <1>2, <2>1, <2>3 DEF Journal
    <3> QED BY <2>1, <2>2, <2>3, <3>1 DEF Journal
  <2>4. CASE ~registry[i].handoff
    BY <1>2, <2>1, <2>4
  <2> QED BY <2>3, <2>4
<1>7. TypeOK'
  BY <1>1, <1>2, <1>4, <1>6, SoundTyped DEF TypeOK, cpa, files, past
<1>8. Numbered' /\ (Calm' <=> Calm)
  BY <1>1, <1>2 DEF Numbered, Calm, bounds
<1>9. registry[i].handoff => job.op = "handoff" \/ phase \in {"quiesced", "loaded"} \/ newer = serving
  BY <1>1, <1>2, ConstantsAre DEF Control, Observing, Threads, i
<1>10. Control'
  <2>1. phase = "serving" /\ newer = None /\ job.op # "handoff" => ~registry[i].handoff
    BY <1>1, <1>9, OwnerIs, ConstantsAre
  <2> QED BY <1>1, <1>2, <1>5, <1>6, <2>1, OwnerIs DEF Control, cpa
<1>11. Observing'
  BY <1>1, <1>2, <1>4, <1>5, ThreadTyped, ConstantsAre DEF Observing, StillThere, OneThread, cpa
<1>12. AllFull'
  BY <1>2, <1>5, HeldFrame DEF files
<1>13. ASSUME Calm PROVE Timely' /\ Counted' /\ HandedOver' /\ InFile'
  <2>1. Timely /\ Counted /\ HandedOver /\ InFile
    BY <1>13 DEF Safe
  <2>2. Window' = Window /\ Window \subseteq Hours /\ o.hour \in Window /\ Past(o.hour)
    BY <1>1, <1>2, <2>1, Typed DEF Window, Timely, Past, o
  <2>3. \A j \in Instances, c \in Channels, h \in Hours :
          Tokens(j, c, h)' = Tokens(j, c, h) /\ Taken(j, c, h)' = Taken(j, c, h)
    <3>1. \A j \in Instances, c \in Channels, h \in Hours : Taken(j, c, h)' = Taken(j, c, h)
      BY <1>2, <1>4, ConstantsAre DEF Taken, OneThread
    <3> QED BY <1>5, <3>1, HeldTokens
  <2>4. \A e, c, h : Unannounced(e, c, h)' = Unannounced(e, c, h) \ {t}
    BY <1>2, <1>4, ConstantsAre DEF Unannounced, OneThread, Threads
  <2>5. \A e, c, h : t \in Unannounced(e, c, h) <=> t # Follower /\ i # e /\ IsOf(o, c, h)
    BY <1>2, ConstantsAre DEF Unannounced, Threads, i, o
  <2>6. Timely'
    <3>1. \A n \in DOMAIN journal'.lines : Past(journal'.lines[n].hour)
      <4>1. journal.lines \in Seq(Observation) /\ \A n \in DOMAIN journal.lines : Past(journal.lines[n].hour)
        BY <1>1, <2>1, JournalTyped DEF Timely
      <4>2. CASE registry[i].handoff
        <5>1. journal'.lines = Append(journal.lines, o) /\ journal.lines \in Seq(Observation)
          BY <1>6, <4>1, <4>2
        <5>2. \A n \in DOMAIN journal'.lines :
                journal'.lines[n] = o \/ (n \in DOMAIN journal.lines /\ journal'.lines[n] = journal.lines[n])
          BY <5>1
        <5> QED BY <2>2, <4>1, <5>2
      <4> QED BY <1>6, <4>1, <4>2
    <3>2. \A u \in Threads : thread'[u] # Idle => thread'[u].o.hour \in Window
      BY <1>4, <2>1 DEF Timely, OneThread
    <3> QED BY <1>2, <1>5, <2>1, <2>2, <3>1, <3>2 DEF Timely, SameHeld, Past, files, past
  <2>7. Counted'
    BY <1>1, <1>2, <2>1, <2>2, <2>3, OwnerIs DEF Counted, cpa, past
  <2>8. HandedOver'
    <3> SUFFICES ASSUME job.op = "handoff" \/ phase = "quiesced" \/ newer # None, NEW c \in Channels, NEW h \in Window
                 PROVE  seen[c][h] = Handed(c, h)' + Cardinality(Lines(c, h)') + Cardinality(Unannounced(newer, c, h)')
      BY <1>2, <2>2 DEF HandedOver, cpa, past
    <3>1. seen[c][h] = Handed(c, h) + Cardinality(Lines(c, h)) + Cardinality(Unannounced(newer, c, h))
      BY <2>1 DEF HandedOver
    <3>2. Handed(c, h)' = Handed(c, h) /\ newer' = newer
      BY <1>1, <1>2, <2>2, <2>3 DEF Handed, cpa, files, TypeOK
    <3>3. /\ IsFiniteSet(Lines(c, h)) /\ Cardinality(Lines(c, h)) \in Nat
          /\ IsFiniteSet(Unannounced(newer, c, h)) /\ Cardinality(Unannounced(newer, c, h)) \in Nat
          /\ Handed(c, h) \in Nat
      BY <1>1, <2>2, CountsAre
    <3>4. registry[i].handoff <=> t # Follower /\ i # newer
      <4>1. newer # None => ~registry[newer].handoff
        BY <1>1 DEF Control
      <4>2. t = Follower => newer # None /\ i = newer
        BY <1>1, <1>2, OwnerIs DEF Observing, i
      <4>3. t # Follower /\ i # newer => registry[i].handoff
        <5>1. t # Follower => i = serving \/ (newer = serving /\ registry[i].handoff)
          BY <1>1, <1>2 DEF Observing, Threads, i
        <5>2. i = serving /\ i # newer => registry[serving].handoff
          BY <1>1, OwnerIs DEF Control
        <5> QED BY <5>1, <5>2
      <4> QED BY <1>3, <4>1, <4>2, <4>3, ConstantsAre
    <3>5. CASE registry[i].handoff
      <4> DEFINE last == Len(journal.lines) + 1
      <4>1. last \notin Lines(c, h) /\ Lines(c, h)' = IF IsOf(o, c, h) THEN Lines(c, h) \cup {last} ELSE Lines(c, h)
        <5>1. /\ journal.lines \in Seq(Observation) /\ journal.applied \in Nat /\ journal.applied <= Len(journal.lines)
              /\ Len(journal.lines) \in Nat
          BY <1>1, JournalTyped
        <5>2. /\ Len(journal'.lines) = last /\ journal'.lines[last] = o /\ journal'.applied = journal.applied
              /\ \A n \in 1..Len(journal.lines) : journal'.lines[n] = journal.lines[n]
          BY <1>3, <1>6, <3>5, <5>1
        <5>3. journal.applied + 1 .. last = (journal.applied + 1 .. Len(journal.lines)) \cup {last}
          BY <5>1
        <5>4. \A n \in journal.applied + 1 .. Len(journal.lines) : n \in 1..Len(journal.lines) /\ n # last
          BY <5>1
        <5> HIDE DEF last
        <5> QED BY <5>2, <5>3, <5>4 DEF Lines
      <4>2. Cardinality(Lines(c, h)') = IF IsOf(o, c, h) THEN Cardinality(Lines(c, h)) + 1 ELSE Cardinality(Lines(c, h))
        BY <3>3, <4>1, FS_AddElement
      <4>3. Cardinality(Unannounced(newer, c, h) \ {t}) =
              IF IsOf(o, c, h) THEN Cardinality(Unannounced(newer, c, h)) - 1 ELSE Cardinality(Unannounced(newer, c, h))
        BY <2>5, <3>3, <3>4, <3>5, FS_RemoveElement
      <4>4. Unannounced(newer, c, h)' = Unannounced(newer, c, h) \ {t}
        BY <2>4, <3>2
      <4> QED BY <3>1, <3>2, <3>3, <4>2, <4>3, <4>4
    <3>6. CASE ~registry[i].handoff
      <4>1. Lines(c, h)' = Lines(c, h)
        BY <1>6, <3>6 DEF Lines
      <4>2. Unannounced(newer, c, h)' = Unannounced(newer, c, h)
        BY <2>4, <2>5, <3>2, <3>4, <3>6
      <4> QED BY <3>1, <3>2, <4>1, <4>2
    <3> QED BY <3>5, <3>6
  <2>9. InFile'
    <3>1. \A j \in Instances, c \in Channels, h \in Window : j # i /\ Fresh(j, c, h) => Fresh(j, c, h)'
      BY <1>4 DEF Fresh, OneThread, i
    <3>2. \A j \in Instances, c \in Channels, h \in Window : \A total : j # i /\ Same(j, c, h, total) => Same(j, c, h, total)'
      BY <1>5, <2>2, <3>1 DEF Same, SameHeld
    <3>3. Owner' = Owner /\ (job.step \in {"snapshot", "write"} => Owner \in Instances)
      BY <1>1, <1>2, OwnerIs DEF Owner, cpa
    <3>4. \A j \in Instances : registry[j].generation \in Nat /\ registry[j].flushed \in Nat /\ job.seen \in Nat
      BY <1>1, Typed, JobTyped
    <3>5. \A j \in Instances \ {i} : registry'[j].generation = registry[j].generation /\ registry'[j].flushed = registry[j].flushed
      BY <1>4 DEF OneNumbers
    <3>6. FileHeld'
      <4> SUFFICES ASSUME NEW j \in {serving, newer} \ {None}
                   PROVE  /\ registry'[j].flushed <= registry'[j].generation
                          /\ registry'[j].flushed = registry'[j].generation =>
                               \A c \in Channels, h \in Window : Same(j, c, h, stats[c][h])'
        BY <1>2, <2>2 DEF FileHeld, cpa, files
      <4>1. /\ j \in Instances /\ registry[j].flushed <= registry[j].generation
            /\ registry[j].flushed = registry[j].generation => \A c \in Channels, h \in Window : Same(j, c, h, stats[c][h])
        BY <1>1, <2>1, OwnerIs DEF InFile, FileHeld, TypeOK
      <4>2. CASE j = i
        BY <1>4, <3>4, <4>1, <4>2
      <4>3. CASE j # i
        <5>1. \A c \in Channels, h \in Window : Same(j, c, h, stats[c][h]) => Same(j, c, h, stats[c][h])'
          BY <1>2, <3>2, <4>1, <4>3 DEF files
        <5> QED BY <3>5, <4>1, <4>3, <5>1
      <4> QED BY <4>2, <4>3
    <3>7. JobHeld'
      <4>1. job.step \in {"snapshot", "write"} => registry'[Owner].flushed <= job.seen /\ job.seen <= registry'[Owner].generation
        BY <1>4, <2>1, <3>3, <3>4, <3>5 DEF InFile, JobHeld
      <4>2. job.step = "write" /\ job.seen = registry'[Owner].generation =>
              Owner # i /\ \A c \in Channels, h \in Window : Same(Owner, c, h, job.file[c][h])
        BY <1>4, <2>1, <3>3, <3>4, <3>5 DEF InFile, JobHeld
      <4>3. job.step = "write" /\ job.seen = registry'[Owner].generation =>
              \A c \in Channels, h \in Window : Same(Owner, c, h, job.file[c][h])'
        BY <1>2, <3>2, <3>3, <4>2
      <4>4. registry'[serving].flushed = registry[serving].flushed
        BY <1>1, <1>4, <3>5, OwnerIs
      <4> QED BY <1>2, <2>1, <2>2, <3>3, <4>1, <4>3, <4>4 DEF InFile, JobHeld, cpa, files
    <3>8. LinesHeld'
      <4>1. journal'.lines = journal.lines \/ registry[i].handoff
        BY <1>6
      <4>2. registry[i].handoff /\ newer # serving => i = serving
        BY <1>1, <1>2, OwnerIs DEF Observing, Control, Threads, i
      <4>3. registry'[serving].flushed = registry[serving].flushed /\ registry'[serving].generation >= registry[serving].generation
        BY <1>1, <1>4, <3>4, <3>5, OwnerIs
      <4>4. job.op = "handoff" /\ journal'.lines # <<>> => job.seen < registry'[serving].generation
        <5>1. job.op = "handoff" => newer # serving /\ Owner = serving /\ job.step = "write" /\ serving \in Instances
          BY <1>1, OwnerIs, ConstantsAre DEF Control
        <5>2. job.op = "handoff" => job.seen <= registry[serving].generation
          BY <2>1, <5>1 DEF InFile, JobHeld
        <5>3. job.op = "handoff" /\ journal.lines # <<>> => job.seen < registry[serving].generation
          BY <2>1 DEF InFile, LinesHeld
        <5>4. job.op = "handoff" /\ registry[i].handoff => registry'[serving].generation = registry[serving].generation + 1
          BY <1>4, <4>2, <5>1
        <5>5. serving \in Instances /\ registry'[serving].generation >= registry[serving].generation
          BY <1>1, <4>3, OwnerIs
        <5>6. registry[serving].generation \in Nat /\ registry'[serving].generation \in Nat /\ job.seen \in Nat
          BY <1>4, <3>4, <3>5, <5>5
        <5> QED BY <4>1, <5>2, <5>3, <5>4, <5>5, <5>6
      <4>5. phase \in {"quiesced", "loaded"} => newer # serving /\ serving \in Instances /\ serving # None
        BY <1>1, OwnerIs, ConstantsAre
      <4>6. phase \in {"quiesced", "loaded"} /\ journal'.lines # <<>> => registry'[serving].flushed < registry'[serving].generation
        <5>1. phase \in {"quiesced", "loaded"} => registry[serving].flushed <= registry[serving].generation
          BY <2>1, <4>5 DEF InFile, FileHeld
        <5>2. phase \in {"quiesced", "loaded"} /\ journal.lines # <<>> => registry[serving].flushed < registry[serving].generation
          BY <2>1 DEF InFile, LinesHeld
        <5>3. phase \in {"quiesced", "loaded"} /\ registry[i].handoff => registry'[serving].generation = registry[serving].generation + 1
          BY <1>4, <4>2, <4>5
        <5>4. /\ registry[serving].generation \in Nat /\ registry'[serving].generation \in Nat
              /\ registry[serving].flushed \in Nat /\ registry'[serving].flushed = registry[serving].flushed
              /\ registry'[serving].generation >= registry[serving].generation
          BY <1>1, <1>4, <3>4, <3>5, <4>3, OwnerIs
        <5> QED BY <4>1, <5>1, <5>2, <5>3, <5>4
      <4>7. phase = "loaded" /\ (registry'[newer].generation > 0 \/ BusyBy(Follower, newer)') => journal'.lines # <<>>
        <5>1. journal.lines # <<>> => journal'.lines # <<>>
          BY <1>1, <1>3, <1>6, JournalTyped
        <5>2. BusyBy(Follower, newer)' => BusyBy(Follower, newer)
          BY <1>2, <1>4, ConstantsAre DEF BusyBy, OneThread, cpa
        <5>3. phase = "loaded" => newer \in Instances /\ (i = newer => BusyBy(Follower, newer))
          BY <1>1, <1>2, OwnerIs DEF Observing, Threads, BusyBy, i
        <5> QED BY <2>1, <3>4, <3>5, <5>1, <5>2, <5>3 DEF InFile, LinesHeld
      <4> QED BY <1>2, <4>4, <4>6, <4>7 DEF LinesHeld, cpa
    <3> QED BY <3>6, <3>7, <3>8 DEF InFile
  <2> QED BY <2>6, <2>7, <2>8, <2>9
<1> QED BY <1>7, <1>8, <1>10, <1>11, <1>12, <1>13 DEF Safe

----------------------------------------------------------------------------
\* FlushStats and Delete

\* A step of a flush or a deletion, or an update of the metadata, that leaves
\* what the instances and the file hold.
LEMMA JobSafe ==
  ASSUME Safe, job.op # "handoff", phase # "quiesced",
         UNCHANGED <<now, registry, thread, cpa, journal, stats, past, rollbacks, restarts>>, metadata' \subseteq Channels,
         job' \in Job, job'.op # "handoff", job'.step = "none" => job' = NoJob,
         job'.step = "drop" => phase = "serving" /\ job'.channel \in Channels /\ job'.op = "delete",
         \A c \in Channels, h \in Hours : Full(job'.file[c][h]),
         Calm => (\A c \in Channels, h \in Hours : ~Past(h) => job'.file[c][h] = Zero) /\ JobHeld'
  PROVE  Safe'
<1>1. TypeOK /\ Numbered /\ Control /\ Observing /\ AllFull
  BY SafeIs
<1>2. TypeOK'
  BY <1>1 DEF TypeOK, cpa, past
<1>3. Numbered' /\ (Calm' <=> Calm)
  BY <1>1 DEF Numbered, Calm
<1>4. Control'
  BY <1>1 DEF Control, cpa
<1>5. Observing'
  BY <1>1 DEF Observing, cpa
<1>6. AllFull'
  BY <1>1 DEF AllFull
<1>7. ASSUME Calm PROVE Timely' /\ Counted' /\ HandedOver' /\ InFile'
  <2>1. Timely /\ Counted /\ HandedOver /\ InFile
    BY <1>7 DEF Safe
  <2>2. Window' = Window
    BY DEF Window
  <2>3. Timely'
    BY <1>7, <2>1, <2>2 DEF Timely, Past, past
  <2>4. \A j, c, h : /\ Tokens(j, c, h)' = Tokens(j, c, h) /\ Taken(j, c, h)' = Taken(j, c, h)
                     /\ Fresh(j, c, h)' = Fresh(j, c, h) /\ BusyBy(h, j)' = BusyBy(h, j)
                     /\ Lines(c, h)' = Lines(c, h) /\ Unannounced(j, c, h)' = Unannounced(j, c, h)
    BY DEF Tokens, Taken, Fresh, Lines, Unannounced, BusyBy
  <2>5. Counted'
    BY <2>1, <2>2, <2>4 DEF Counted, cpa, past
  <2>6. HandedOver'
    BY <2>1, <2>2, <2>4 DEF HandedOver, Handed, cpa, past
  <2>7. FileHeld'
    BY <2>1, <2>2, <2>4 DEF InFile, FileHeld, Same, cpa
  <2>8. LinesHeld'
    BY <2>1, <2>4 DEF InFile, LinesHeld, cpa
  <2> QED BY <1>7, <2>3, <2>5, <2>6, <2>7, <2>8 DEF InFile
<1> QED BY <1>2, <1>3, <1>4, <1>5, <1>6, <1>7 DEF Safe

LEMMA NoFile ==
  /\ \A c \in Channels, h \in Hours : NoStats[c][h] = Zero /\ Full(NoStats[c][h])
  /\ NoJob.file = NoStats /\ NoJob.step = "none" /\ NoJob.op = "none" /\ NoJob.idle = {}
BY DEF NoStats, Full, Zero, NoJob

\* A step after which no snapshot is to be written.
LEMMA NoWriteSafe ==
  ASSUME Safe, job.op # "handoff", phase # "quiesced",
         UNCHANGED <<now, registry, thread, cpa, journal, stats, past, rollbacks, restarts>>, metadata' \subseteq Channels,
         job' \in Job, job'.op # "handoff", job'.step = "none" => job' = NoJob, job'.file \in {NoStats, job.file},
         job'.step \notin {"snapshot", "write"},
         job'.step = "drop" => phase = "serving" /\ job'.channel \in Channels /\ job'.op = "delete"
  PROVE  Safe'
<1>1. JobHeld'
  BY DEF JobHeld
<1>2. \A c \in Channels, h \in Hours : Full(job'.file[c][h])
  BY NoFile DEF Safe, AllFull
<1>3. Calm => \A c \in Channels, h \in Hours : ~Past(h) => job'.file[c][h] = Zero
  BY NoFile DEF Safe, Timely
<1> QED BY <1>1, <1>2, <1>3, JobSafe

LEMMA BeginFlushSafe == ASSUME Safe, BeginFlush PROVE Safe'
<1>1. TypeOK /\ Control
  BY SafeIs
<1>2. /\ Owner # None /\ job = NoJob /\ job' = [NoJob EXCEPT !.step = "snapshot", !.op = "flush", !.seen = registry[Owner].generation]
      /\ UNCHANGED <<now, registry, thread, cpa, journal, stats, metadata, past, bounds>>
  BY DEF BeginFlush, files
<1>3. Owner \in Instances /\ registry[Owner].generation \in Nat
  BY <1>1, <1>2, OwnerIs, Typed
<1>4. /\ job'.step = "snapshot" /\ job'.op = "flush" /\ job'.seen = registry[Owner].generation /\ job'.file = NoStats
      /\ job' \in Job
  BY <1>1, <1>2, <1>3, JobTyped DEF NoJob, Job
<1>5. job.op # "handoff" /\ phase # "quiesced" /\ metadata' \subseteq Channels
  BY <1>1, <1>2, NoFile, OwnerIs DEF TypeOK
<1>6. Calm => JobHeld'
  <2> SUFFICES ASSUME Calm PROVE JobHeld'
    OBVIOUS
  <2>1. FileHeld
    BY DEF Safe, InFile
  <2>2. Owner \in {serving, newer} \ {None} /\ Owner' = Owner
    BY <1>1, <1>2, <1>3, OwnerIs, ConstantsAre DEF Owner, cpa
  <2> QED BY <1>2, <1>3, <1>4, <2>1, <2>2, Typed, <1>1 DEF JobHeld, FileHeld, cpa
<1> QED BY <1>2, <1>4, <1>5, <1>6, NoFile, JobSafe DEF bounds

\* What was announced before the generation was read is in the snapshot.
LEMMA TakeSnapshotSafe == ASSUME Safe, TakeSnapshot PROVE Safe'
<1> DEFINE table == registry[Owner].channels
           file == Snapshot(table)
           idle == IF job.op = "flush" THEN IdleChannels(table) ELSE {}
<1>1. TypeOK /\ Control /\ AllFull
  BY SafeIs
<1>2. /\ job.step = "snapshot" /\ job' = [job EXCEPT !.step = "write", !.file = file, !.idle = idle]
      /\ UNCHANGED <<now, registry, thread, cpa, journal, stats, metadata, past, bounds>>
  BY DEF TakeSnapshot, files
<1>3. Owner \in Instances /\ table \in Table /\ job.op # "handoff" /\ phase # "quiesced" /\ metadata' \subseteq Channels
  BY <1>1, <1>2, OwnerIs, JobTyped, Typed, NoFile DEF TypeOK, Control
<1>4. file \in StatsFile /\ \A c \in Channels, h \in Hours : file[c][h] = IF h \in Window THEN Of(table[c], h) ELSE Zero
  BY <1>3, SnapshotIs
<1>5. idle \subseteq Channels
  BY DEF IdleChannels
<1> HIDE DEF file, idle
<1>6. job' \in Job /\ job'.step = "write" /\ job'.op = job.op /\ job'.seen = job.seen /\ job'.file = file
  <2>1. job \in Job
    BY <1>1 DEF TypeOK
  <2> HIDE DEF StatsFile
  <2> QED BY <1>2, <1>4, <1>5, <2>1 DEF Job
<1>7. \A c \in Channels, h \in Hours : Full(file[c][h])
  BY <1>1, <1>3, <1>4 DEF AllFull, Full, Zero
<1>8. \A c \in Channels, h \in Hours : ~Past(h) => file[c][h] = Zero
  BY <1>4 DEF Past, Window
<1>9. Calm => JobHeld'
  <2> SUFFICES ASSUME Calm PROVE JobHeld'
    OBVIOUS
  <2>1. JobHeld
    BY DEF Safe, InFile
  <2>2. Owner' = Owner /\ Window' = Window /\ Window \subseteq Hours
    BY <1>1, <1>2, Typed DEF Owner, Window, cpa
  <2>3. \A c \in Channels, h \in Window : Same(Owner, c, h, job.file[c][h])'
    BY <1>2, <1>4, <1>6, <2>2 DEF Same
  <2>4. job.seen <= registry[Owner].generation /\ registry[Owner].flushed <= job.seen
    BY <1>2, <2>1 DEF JobHeld
  <2> QED BY <1>2, <1>3, <1>6, <2>2, <2>3, <2>4 DEF JobHeld, cpa
<1> QED BY <1>2, <1>3, <1>6, <1>7, <1>8, <1>9, JobSafe DEF bounds

LEMMA LockMetaSafe == ASSUME Safe, LockMeta PROVE Safe'
<1>1. TypeOK /\ Control
  BY SafeIs
<1>2. /\ job.step = "evict?" /\ UNCHANGED <<now, registry, thread, cpa, journal, stats, metadata, past, bounds>>
  BY DEF LockMeta, files
<1>3. job.op # "handoff" /\ phase # "quiesced" /\ metadata' \subseteq Channels
  BY <1>1, <1>2, NoFile DEF TypeOK, Control
<1>4. job' = NoJob \/ job' = [job EXCEPT !.step = "evict", !.idle = job.idle \ metadata]
  BY DEF LockMeta
<1>5. /\ job' \in Job /\ job'.op # "handoff" /\ job'.file \in {NoStats, job.file}
      /\ job' = NoJob \/ job'.step = "evict"
  <2>1. CASE job' = NoJob
    BY <1>1, <2>1, JobTyped
  <2>2. CASE job' = [job EXCEPT !.step = "evict", !.idle = job.idle \ metadata]
    <3> DEFINE idle == job.idle \ metadata
    <3>1. job \in Job /\ idle \subseteq Channels
      BY <1>1, JobTyped DEF TypeOK
    <3>2. job' = [step |-> "evict", op |-> job.op, channel |-> job.channel, seen |-> job.seen, file |-> job.file, idle |-> idle]
      BY <2>2, <3>1 DEF Job
    <3> HIDE DEF idle
    <3> QED BY <1>1, <1>3, <3>1, <3>2, JobTyped DEF Job
  <2> QED BY <1>4, <2>1, <2>2
<1> QED BY <1>2, <1>3, <1>5, NoFile, NoWriteSafe DEF bounds

LEMMA BeginDeleteSafe == ASSUME Safe, NEW c \in Channels, BeginDelete(c) PROVE Safe'
<1>1. TypeOK /\ Control
  BY SafeIs
<1>2. /\ phase = "serving" /\ job = NoJob /\ metadata' = metadata \ {c}
      /\ job' = [NoJob EXCEPT !.step = "drop", !.op = "delete", !.channel = c]
      /\ UNCHANGED <<now, registry, thread, cpa, journal, stats, past, rollbacks, restarts>>
  BY DEF BeginDelete
<1>3. job'.step = "drop" /\ job'.op = "delete" /\ job'.channel = c /\ job'.file = NoStats /\ job' \in Job
  BY <1>1, <1>2, JobTyped DEF NoJob, Job
<1>4. metadata' \subseteq Channels /\ job.op # "handoff"
  BY <1>1, <1>2, NoFile DEF TypeOK
<1> QED BY <1>2, <1>3, <1>4, NoWriteSafe

LEMMA UpdateMetaSafe == ASSUME Safe, NEW c \in Channels, UpdateMeta(c) PROVE Safe'
<1>1. TypeOK /\ Control
  BY SafeIs
<1>2. /\ phase = "serving" /\ job.op # "handoff" /\ metadata' \subseteq metadata \cup {c}
      /\ UNCHANGED <<now, registry, thread, job, cpa, journal, stats, past, rollbacks, restarts>>
  BY DEF UpdateMeta
<1>3. metadata' \subseteq Channels /\ job' \in Job
  BY <1>1, <1>2 DEF TypeOK
<1>4. \A d \in Channels, h \in Hours : Full(job'.file[d][h])
  BY <1>2 DEF Safe, AllFull
<1>5. ASSUME Calm PROVE (\A d \in Channels, h \in Hours : ~Past(h) => job'.file[d][h] = Zero) /\ JobHeld'
  <2>1. Timely /\ JobHeld
    BY <1>5 DEF Safe, InFile
  <2>2. Window' = Window /\ Owner' = Owner
    BY <1>2 DEF Window, Owner, cpa
  <2>3. JobHeld'
    BY <1>2, <2>1, <2>2 DEF JobHeld, Same, Fresh, cpa
  <2> QED BY <1>2, <2>1, <2>3 DEF Timely
<1> QED BY <1>1, <1>2, <1>3, <1>4, <1>5, JobSafe DEF Control

LEMMA AfterWriteIs ==
  ASSUME TypeOK
  PROVE  /\ AfterWrite \in Job /\ AfterWrite.op # "handoff" /\ AfterWrite.file = NoStats
         /\ AfterWrite = NoJob \/ AfterWrite.step = "evict?"
         /\ job.idle = {} => AfterWrite = NoJob
<1> DEFINE idle == job.idle
           next == [NoJob EXCEPT !.step = "evict?", !.op = "flush", !.idle = idle]
<1>1. idle \subseteq Channels /\ NoJob \in Job /\ NoStats \in StatsFile
  BY JobTyped
<1> HIDE DEF idle
<1>2. next = [step |-> "evict?", op |-> "flush", channel |-> None, seen |-> 0, file |-> NoStats, idle |-> idle]
  <2> DEFINE evicting == [NoJob EXCEPT !.step = "evict?"]
             begun == [evicting EXCEPT !.op = "flush"]
  <2>1. evicting = [step |-> "evict?", op |-> "none", channel |-> None, seen |-> 0, file |-> NoStats, idle |-> {}]
    BY DEF NoJob
  <2> HIDE DEF evicting
  <2>2. begun = [step |-> "evict?", op |-> "flush", channel |-> None, seen |-> 0, file |-> NoStats, idle |-> {}]
    BY <2>1
  <2> HIDE DEF begun
  <2>3. [begun EXCEPT !.idle = idle] =
          [step |-> "evict?", op |-> "flush", channel |-> None, seen |-> 0, file |-> NoStats, idle |-> idle]
    BY <2>2
  <2> QED BY <2>3 DEF begun, evicting
<1>3. next \in Job /\ next.op # "handoff" /\ next.file = NoStats /\ next.step = "evict?"
  BY <1>1, <1>2 DEF Job
<1> HIDE DEF next
<1>4. AfterWrite = IF job.idle # {} THEN next ELSE NoJob
  BY DEF AfterWrite, next, idle
<1> QED BY <1>1, <1>3, <1>4, NoFile

\* During a replacement the older instance has something to flush, or the
\* newer one has nothing.
LEMMA OneToFlush ==
  ASSUME TypeOK, Control, InFile, phase = "loaded", registry[serving].flushed = registry[serving].generation
  PROVE  registry[newer].generation = 0 /\ registry[newer].flushed = 0
<1>1. newer \in Instances /\ newer \in {serving, newer} \ {None}
  BY OwnerIs, ConstantsAre
<1>2. journal.lines = <<>>
  BY OwnerIs, Typed DEF InFile, LinesHeld
<1>3. ~(registry[newer].generation > 0)
  BY <1>2 DEF InFile, LinesHeld
<1>4. registry[newer].flushed <= registry[newer].generation
  BY <1>1 DEF InFile, FileHeld
<1> QED BY <1>1, <1>3, <1>4, Typed

\* What a write leaves: the file may have been replaced, the generation may
\* not have been noted.
LEMMA WrittenIs ==
  ASSUME Safe, job.step = "write", UNCHANGED <<now, thread, serving, newer>>, SameTables, stats' \in {stats, job.file},
         job' = AfterWrite
  PROVE  /\ AllFull' /\ (Calm => \A j \in Instances, c \in Channels, h \in Hours : ~Past(h) => Of(registry[j].channels[c], h)' = Zero)
         /\ (Calm => \A c \in Channels, h \in Hours : ~Past(h) => stats'[c][h] = Zero /\ job'.file[c][h] = Zero)
         /\ \A j, c, h : Taken(j, c, h)' = Taken(j, c, h) /\ Fresh(j, c, h)' = Fresh(j, c, h) /\ Unannounced(j, c, h)' = Unannounced(j, c, h)
         /\ \A j, k : BusyBy(j, k)' = BusyBy(j, k)
         /\ \A j \in Instances, c \in Channels, h \in Hours :
              Tokens(j, c, h)' = Tokens(j, c, h) /\ Of(registry[j].channels[c], h)' = Of(registry[j].channels[c], h)
         /\ Window' = Window /\ job'.file = NoStats
<1>1. TypeOK /\ AllFull
  BY SafeIs
<1>2. job'.file = NoStats
  BY <1>1, AfterWriteIs
<1>3. \A j \in Instances, c \in Channels, h \in Hours :
        Tokens(j, c, h)' = Tokens(j, c, h) /\ Of(registry[j].channels[c], h)' = Of(registry[j].channels[c], h)
  BY DEF SameTables, Tokens
<1>4. AllFull'
  <2>1. \A c \in Channels, h \in Hours : Full(stats'[c][h]) /\ Full(job'.file[c][h])
    BY <1>1, <1>2, NoFile DEF AllFull
  <2> QED BY <1>1, <1>3, <2>1 DEF AllFull
<1>5. Calm => \A c \in Channels, h \in Hours : ~Past(h) => stats'[c][h] = Zero /\ job'.file[c][h] = Zero
  BY <1>2, NoFile DEF Safe, Timely
<1>6. Calm => \A j \in Instances, c \in Channels, h \in Hours : ~Past(h) => Of(registry[j].channels[c], h)' = Zero
  BY <1>3 DEF Safe, Timely
<1>7. /\ \A j, c, h : Taken(j, c, h)' = Taken(j, c, h) /\ Fresh(j, c, h)' = Fresh(j, c, h) /\ Unannounced(j, c, h)' = Unannounced(j, c, h)
      /\ \A j, k : BusyBy(j, k)' = BusyBy(j, k)
      /\ Window' = Window
  BY DEF Taken, Fresh, Unannounced, BusyBy, Window
<1> QED BY <1>2, <1>3, <1>4, <1>5, <1>6, <1>7

\* The file becomes the snapshot, which is what the owner holds if its
\* generation is the one read before the snapshot.
LEMMA WriteSafe == ASSUME Safe, Write PROVE Safe'
<1>1. TypeOK /\ Numbered /\ Control /\ Observing /\ AllFull
  BY SafeIs
<1>2. /\ job.step = "write" /\ unwritten' = {} /\ job' = AfterWrite
      /\ phase' = IF job.op = "handoff" THEN "quiesced" ELSE phase
      /\ UNCHANGED <<now, thread, serving, newer, journal, metadata, told, counted, seen, forgotten, bounds>>
      /\ IF job.seen = registry[Owner].flushed THEN UNCHANGED <<registry, stats>>
         ELSE stats' = job.file /\ registry' = [registry EXCEPT ![Owner].flushed = job.seen]
  BY DEF Write, Flushed
<1>3. Owner \in Instances /\ job.seen \in Nat /\ AllSound /\ job.file \in StatsFile /\ phase # "quiesced"
  BY <1>1, <1>2, OwnerIs, JobTyped, SoundIs, NoFile
<1>4. /\ AllSound' /\ SameTables /\ OneNumbers(Owner) /\ registry'[Owner].flushed = job.seen
      /\ registry'[Owner].generation = registry[Owner].generation /\ registry'[Owner].handoff = registry[Owner].handoff
  <2>1. CASE job.seen = registry[Owner].flushed
    <3>1. registry' = registry
      BY <1>2, <2>1
    <3> QED BY <1>3, <2>1, <3>1 DEF AllSound, SameTables, OneNumbers, Sound
  <2>2. CASE job.seen # registry[Owner].flushed
    <3>1. registry' = [registry EXCEPT ![Owner].flushed = job.seen]
      BY <1>2, <2>2
    <3> QED BY <1>3, <3>1, FlushedIs
  <2> QED BY <2>1, <2>2
<1>5. \A j \in Instances : registry'[j].handoff = registry[j].handoff /\ registry'[j].generation = registry[j].generation
  BY <1>4 DEF OneNumbers
<1>6. /\ job' \in Job /\ job'.op # "handoff" /\ (job' = NoJob \/ job'.step = "evict?") /\ (job.op = "handoff" => job' = NoJob)
      /\ stats' \in {stats, job.file}
  BY <1>1, <1>2, AfterWriteIs DEF Control
<1>7. TypeOK'
  BY <1>1, <1>2, <1>3, <1>4, <1>6, SoundTyped DEF TypeOK
<1>8. Numbered' /\ (Calm' <=> Calm)
  BY <1>1, <1>2 DEF Numbered, Calm, bounds
<1>9. Control'
  BY <1>1, <1>2, <1>3, <1>5, <1>6, NoFile, OwnerIs DEF Control, TypeOK
<1>10. Observing'
  <2>1. phase' = "quiesced" => job.op = "handoff"
    BY <1>2, <1>3
  <2> QED BY <1>1, <1>2, <1>4, <1>5, <1>6, <2>1, TablesStay, ThreadTyped, ConstantsAre DEF Observing, StillThere
<1>11. /\ AllFull' /\ (Calm => \A j \in Instances, c \in Channels, h \in Hours : ~Past(h) => Of(registry[j].channels[c], h)' = Zero)
       /\ (Calm => \A c \in Channels, h \in Hours : ~Past(h) => stats'[c][h] = Zero /\ job'.file[c][h] = Zero)
       /\ \A j, c, h : Taken(j, c, h)' = Taken(j, c, h) /\ Fresh(j, c, h)' = Fresh(j, c, h) /\ Unannounced(j, c, h)' = Unannounced(j, c, h)
       /\ \A j, k : BusyBy(j, k)' = BusyBy(j, k)
       /\ \A j \in Instances, c \in Channels, h \in Hours :
            Tokens(j, c, h)' = Tokens(j, c, h) /\ Of(registry[j].channels[c], h)' = Of(registry[j].channels[c], h)
       /\ Window' = Window /\ job'.file = NoStats
  BY <1>2, <1>4, <1>6, WrittenIs
<1>12. ASSUME Calm PROVE Timely' /\ Counted' /\ HandedOver' /\ InFile'
  <2>1. Timely /\ Counted /\ HandedOver /\ InFile
    BY <1>12 DEF Safe
  <2>2. Window \subseteq Hours
    BY <1>1, Typed
  <2>3. Timely'
    BY <1>2, <1>11, <1>12, <2>1 DEF Timely, Past
  <2>4. Counted'
    BY <1>1, <1>2, <1>11, <2>1, <2>2, OwnerIs DEF Counted
  <2>5. HandedOver'
    <3> SUFFICES ASSUME phase' = "quiesced" \/ newer # None, NEW c \in Channels, NEW h \in Window
                 PROVE  seen[c][h] = Handed(c, h)' + Cardinality(Lines(c, h)') + Cardinality(Unannounced(newer, c, h)')
      BY <1>2, <1>6, <1>11 DEF HandedOver
    <3>1. job.op = "handoff" \/ newer # None
      BY <1>2, <1>3
    <3>2. seen[c][h] = Handed(c, h) + Cardinality(Lines(c, h)) + Cardinality(Unannounced(newer, c, h))
      BY <2>1, <3>1 DEF HandedOver
    <3>3. Lines(c, h)' = Lines(c, h) /\ Unannounced(newer, c, h)' = Unannounced(newer, c, h)
      BY <1>2, <1>11 DEF Lines
    <3>4. Handed(c, h)' = Handed(c, h)
      <4>1. CASE job.op = "handoff"
        <5>1. newer = None /\ Owner = serving
          BY <1>1, <4>1, OwnerIs DEF Control
        <5>2. stats'[c][h] = job.file[c][h]
          BY <1>2, <2>1, <4>1, <5>1 DEF InFile, JobHeld
        <5> QED BY <1>2, <1>6, <4>1, <5>1, <5>2 DEF Handed
      <4>2. CASE job.op # "handoff"
        <5>1. newer # None /\ newer \in Instances
          BY <1>1, <3>1, <4>2 DEF TypeOK
        <5> QED BY <1>2, <1>6, <1>11, <2>2, <4>2, <5>1 DEF Handed
      <4> QED BY <4>1, <4>2
    <3> QED BY <3>2, <3>3, <3>4
  <2>6. FileHeld'
    <3> SUFFICES ASSUME NEW j \in {serving, newer} \ {None}
                 PROVE  /\ registry'[j].flushed <= registry'[j].generation
                        /\ registry'[j].flushed = registry'[j].generation =>
                             \A c \in Channels, h \in Window : Same(j, c, h, stats[c][h])'
      BY <1>2, <1>11 DEF FileHeld
    <3>1. /\ j \in Instances /\ registry[j].flushed <= registry[j].generation
          /\ registry[j].flushed = registry[j].generation => \A c \in Channels, h \in Window : Same(j, c, h, stats[c][h])
      BY <1>1, <2>1, OwnerIs DEF InFile, FileHeld, TypeOK
    <3>2. \A c \in Channels, h \in Window : \A total : Same(j, c, h, total) => Same(j, c, h, total)'
      BY <1>11, <2>2, <3>1 DEF Same
    <3>3. CASE job.seen = registry[Owner].flushed
      <4>1. registry'[j].flushed = registry[j].flushed /\ registry'[j].generation = registry[j].generation /\ stats' = stats
        BY <1>2, <1>4, <1>5, <3>1, <3>3 DEF OneNumbers
      <4>2. \A c \in Channels, h \in Window : Same(j, c, h, stats[c][h]) => Same(j, c, h, stats[c][h])'
        BY <3>2, <4>1
      <4> QED BY <3>1, <4>1, <4>2
    <3>4. CASE job.seen # registry[Owner].flushed /\ j = Owner
      <4>1. job.seen <= registry[j].generation /\ stats' = job.file
        BY <1>2, <2>1, <3>4 DEF InFile, JobHeld
      <4>2. job.seen = registry[j].generation => \A c \in Channels, h \in Window : Same(j, c, h, job.file[c][h])
        BY <1>2, <2>1, <3>4 DEF InFile, JobHeld
      <4>3. \A c \in Channels, h \in Window : Same(j, c, h, job.file[c][h]) => Same(j, c, h, stats[c][h])'
        BY <1>11, <2>2, <3>1, <4>1 DEF Same
      <4> QED BY <1>4, <3>4, <4>1, <4>2, <4>3
    <3>5. CASE job.seen # registry[Owner].flushed /\ j # Owner
      <4>1. phase = "loaded" /\ j = serving /\ Owner = newer
        BY <1>1, <1>3, <3>5, OwnerIs DEF TypeOK
      <4>2. registry[newer].flushed <= job.seen /\ job.seen <= registry[newer].generation
        BY <1>2, <2>1, <4>1 DEF InFile, JobHeld
      <4>3. registry[j].flushed # registry[j].generation
        BY <1>1, <1>3, <2>1, <3>5, <4>1, <4>2, OneToFlush
      <4>4. registry'[j].flushed = registry[j].flushed /\ registry'[j].generation = registry[j].generation
        BY <1>4, <3>1, <3>5 DEF OneNumbers
      <4> QED BY <3>1, <4>3, <4>4
    <3> QED BY <3>3, <3>4, <3>5
  <2>7. JobHeld'
    BY <1>6, NoFile DEF JobHeld
  <2>8. LinesHeld'
    <3>1. serving \in Instances /\ registry'[serving].generation = registry[serving].generation
      BY <1>1, <1>5, OwnerIs
    <3>2. phase' = "quiesced" /\ journal.lines # <<>> => registry'[serving].flushed < registry'[serving].generation
      <4>1. phase' = "quiesced" => job.op = "handoff" /\ Owner = serving
        BY <1>1, <1>2, <1>3, OwnerIs DEF Control
      <4> QED BY <1>4, <2>1, <3>1, <4>1 DEF InFile, LinesHeld
    <3>3. phase' = "loaded" => phase = "loaded" /\ Owner # serving /\ newer \in Instances
      BY <1>1, <1>2, <1>3, OwnerIs
    <3>4. phase' = "loaded" => /\ registry'[serving].flushed = registry[serving].flushed
                               /\ registry'[newer].generation = registry[newer].generation
      BY <1>4, <1>5, <3>1, <3>3 DEF OneNumbers
    <3> QED BY <1>2, <1>6, <1>11, <2>1, <3>1, <3>2, <3>3, <3>4 DEF InFile, LinesHeld
  <2> QED BY <2>3, <2>4, <2>5, <2>6, <2>7, <2>8 DEF InFile
<1> QED BY <1>7, <1>8, <1>9, <1>10, <1>11, <1>12 DEF Safe

\* A write that fails leaves the owner with a change to flush.
LEMMA WriteFailsSafe == ASSUME Safe, WriteFails PROVE Safe'
<1>1. TypeOK /\ Numbered /\ Control /\ Observing /\ AllFull
  BY SafeIs
<1>2. /\ job.step = "write" /\ job.seen # registry[Owner].flushed /\ job' = AfterWrite
      /\ stats' \in {stats, job.file} /\ unwritten' \in {unwritten, {}}
      /\ IF job.op = "handoff" THEN registry' = [registry EXCEPT ![serving].handoff = FALSE] /\ journal' = NoJournal
         ELSE UNCHANGED <<registry, journal>>
      /\ UNCHANGED <<now, thread, phase, serving, newer, metadata, told, counted, seen, forgotten, bounds>>
  BY DEF WriteFails, cpa
<1>3. /\ Owner \in Instances /\ serving \in Instances /\ job.seen \in Nat /\ AllSound /\ job.file \in StatsFile
      /\ phase # "quiesced"
  BY <1>1, <1>2, OwnerIs, JobTyped, SoundIs, NoFile
<1>4. /\ AllSound' /\ SameTables
      /\ \A j \in Instances : registry'[j].flushed = registry[j].flushed /\ registry'[j].generation = registry[j].generation
      /\ \A j \in Instances : registry'[j].handoff = IF job.op = "handoff" /\ j = serving THEN FALSE ELSE registry[j].handoff
  <2>1. CASE job.op = "handoff"
    <3>1. registry' = [registry EXCEPT ![serving].handoff = FALSE]
      BY <1>2, <2>1
    <3>2. /\ AllSound' /\ SameTables /\ OneNumbers(serving) /\ registry'[serving].handoff = FALSE
          /\ registry'[serving].generation = registry[serving].generation
          /\ registry'[serving].flushed = registry[serving].flushed
      BY <1>3, <3>1, HandoffIs
    <3> QED BY <2>1, <3>2 DEF OneNumbers
  <2>2. CASE job.op # "handoff"
    <3>1. registry' = registry
      BY <1>2, <2>2
    <3> QED BY <1>3, <2>2, <3>1 DEF AllSound, SameTables, Sound
  <2> QED BY <2>1, <2>2
<1>5. /\ job' \in Job /\ job'.op # "handoff" /\ (job' = NoJob \/ job'.step = "evict?") /\ (job.op = "handoff" => job' = NoJob)
  BY <1>1, <1>2, AfterWriteIs DEF Control
<1>6. journal' \in Journal /\ journal'.applied <= Len(journal'.lines) /\ (journal' = journal \/ (job.op = "handoff" /\ journal' = NoJournal))
  BY <1>1, <1>2, JournalTyped DEF TypeOK
<1>7. TypeOK'
  BY <1>1, <1>2, <1>3, <1>4, <1>5, <1>6, SoundTyped DEF TypeOK
<1>8. Numbered' /\ (Calm' <=> Calm)
  BY <1>1, <1>2 DEF Numbered, Calm, bounds
<1>9. job.op = "handoff" => phase = "serving" /\ newer = None /\ Owner = serving
  BY <1>1, OwnerIs DEF Control
<1>10. Control'
  BY <1>1, <1>2, <1>3, <1>4, <1>5, <1>6, <1>9, NoFile, JournalTyped, OwnerIs DEF Control, TypeOK
<1>11. Observing'
  BY <1>1, <1>2, <1>3, <1>4, <1>5, <1>9, TablesStay, ThreadTyped, ConstantsAre DEF Observing, StillThere
<1>12. /\ AllFull' /\ (Calm => \A j \in Instances, c \in Channels, h \in Hours : ~Past(h) => Of(registry[j].channels[c], h)' = Zero)
       /\ (Calm => \A c \in Channels, h \in Hours : ~Past(h) => stats'[c][h] = Zero /\ job'.file[c][h] = Zero)
       /\ \A j, c, h : Taken(j, c, h)' = Taken(j, c, h) /\ Fresh(j, c, h)' = Fresh(j, c, h) /\ Unannounced(j, c, h)' = Unannounced(j, c, h)
       /\ \A j, k : BusyBy(j, k)' = BusyBy(j, k)
       /\ \A j \in Instances, c \in Channels, h \in Hours :
            Tokens(j, c, h)' = Tokens(j, c, h) /\ Of(registry[j].channels[c], h)' = Of(registry[j].channels[c], h)
       /\ Window' = Window /\ job'.file = NoStats
  BY <1>2, <1>4, WrittenIs
<1>13. ASSUME Calm PROVE Timely' /\ Counted' /\ HandedOver' /\ InFile'
  <2>1. Timely /\ Counted /\ HandedOver /\ InFile
    BY <1>13 DEF Safe
  <2>2. Window \subseteq Hours
    BY <1>1, Typed
  <2>3. Timely'
    <3>1. \A n \in DOMAIN journal'.lines : Past(journal'.lines[n].hour)
      BY <1>1, <1>6, <2>1, JournalTyped DEF Timely
    <3> QED BY <1>2, <1>12, <1>13, <2>1, <3>1 DEF Timely, Past
  <2>4. Counted'
    BY <1>1, <1>2, <1>12, <2>1, <2>2, OwnerIs DEF Counted
  <2>5. HandedOver'
    <3> SUFFICES ASSUME phase = "quiesced" \/ newer # None, NEW c \in Channels, NEW h \in Window
                 PROVE  seen[c][h] = Handed(c, h)' + Cardinality(Lines(c, h)') + Cardinality(Unannounced(newer, c, h)')
      BY <1>2, <1>5, <1>12 DEF HandedOver
    <3>1. newer # None /\ job.op # "handoff" /\ journal' = journal /\ newer \in Instances
      BY <1>1, <1>3, <1>6, <1>9 DEF TypeOK
    <3>2. seen[c][h] = Handed(c, h) + Cardinality(Lines(c, h)) + Cardinality(Unannounced(newer, c, h))
      BY <2>1, <3>1 DEF HandedOver
    <3>3. Lines(c, h)' = Lines(c, h) /\ Unannounced(newer, c, h)' = Unannounced(newer, c, h)
      BY <1>2, <1>12, <3>1 DEF Lines
    <3>4. Handed(c, h)' = Handed(c, h)
      BY <1>2, <1>5, <1>12, <2>2, <3>1 DEF Handed
    <3> QED BY <3>2, <3>3, <3>4
  <2>6. FileHeld'
    <3> SUFFICES ASSUME NEW j \in {serving, newer} \ {None}
                 PROVE  /\ registry'[j].flushed <= registry'[j].generation
                        /\ registry'[j].flushed = registry'[j].generation =>
                             \A c \in Channels, h \in Window : Same(j, c, h, stats[c][h])'
      BY <1>2, <1>12 DEF FileHeld
    <3>1. /\ j \in Instances /\ registry[j].flushed <= registry[j].generation
          /\ registry'[j].flushed = registry[j].flushed /\ registry'[j].generation = registry[j].generation
      BY <1>1, <1>4, <2>1, OwnerIs DEF InFile, FileHeld, TypeOK
    <3>2. registry[Owner].flushed <= job.seen /\ job.seen <= registry[Owner].generation
      BY <1>2, <2>1 DEF InFile, JobHeld
    <3>3. registry[j].flushed # registry[j].generation
      <4>1. CASE j = Owner
        BY <1>1, <1>2, <1>3, <3>2, <4>1, Typed
      <4>2. CASE j # Owner
        <5>1. phase = "loaded" /\ j = serving /\ Owner = newer
          BY <1>1, <1>3, <4>2, OwnerIs DEF TypeOK
        <5> QED BY <1>1, <1>2, <1>3, <2>1, <3>2, <5>1, OneToFlush
      <4> QED BY <4>1, <4>2
    <3> QED BY <3>1, <3>3
  <2>7. JobHeld'
    BY <1>5, NoFile DEF JobHeld
  <2>8. LinesHeld'
    <3>1. serving \in Instances /\ (phase = "loaded" => newer \in Instances)
      BY <1>1, OwnerIs
    <3>2. phase = "loaded" => journal' = journal
      BY <1>6, <1>9
    <3> QED BY <1>2, <1>3, <1>4, <1>5, <1>12, <2>1, <3>1, <3>2 DEF InFile, LinesHeld
  <2> QED BY <2>3, <2>4, <2>5, <2>6, <2>7, <2>8 DEF InFile
<1> QED BY <1>7, <1>8, <1>10, <1>11, <1>12, <1>13 DEF Safe

\* An evicted channel has no hour in the window.
LEMMA EvictSafe == ASSUME Safe, Evict PROVE Safe'
<1>1. TypeOK /\ Numbered /\ Control /\ Observing /\ AllFull
  BY SafeIs
<1>2. /\ job.step = "evict" /\ Exclusive(Owner) /\ job' = NoJob
      /\ forgotten' = forgotten \cup {a \in counted : ChannelOf[a] \in StillIdle(registry[Owner].channels)}
      /\ UNCHANGED <<now, thread, cpa, journal, files, told, counted, seen, unwritten, bounds>>
  BY DEF Evict
<1>3. Owner \in Instances /\ job.op # "handoff" /\ phase # "quiesced"
  BY <1>1, <1>2, OwnerIs, NoFile DEF Control
<1>4. /\ AllSound' /\ SameNumbers
      /\ \A j \in Instances, c \in Channels :
           /\ j # Owner => registry'[j].channels[c] = registry[j].channels[c]
           /\ \A h \in Hours : Of(registry'[j].channels[c], h) \in {Of(registry[j].channels[c], h), Zero}
           /\ \A h \in Window : Of(registry'[j].channels[c], h) = Of(registry[j].channels[c], h)
  BY <1>1, <1>3, EvictIs
<1>5. TypeOK'
  <2>1. job' \in Job /\ forgotten' \subseteq Attempts
    BY <1>1, <1>2, JobTyped DEF TypeOK
  <2> QED BY <1>1, <1>2, <1>4, <2>1, SoundTyped DEF TypeOK, cpa, files
<1>6. Numbered' /\ (Calm' <=> Calm)
  BY <1>1, <1>2 DEF Numbered, Calm, bounds
<1>7. Control'
  BY <1>1, <1>2, <1>3, <1>4, NoFile, OwnerIs DEF Control, SameNumbers, cpa
<1>8. Observing'
  <2>1. \A t \in Threads : thread[t] # Idle => thread[t].by \in Instances \ {Owner} /\ ChannelOf[thread[t].o.attempt] \in Channels
    BY <1>1, <1>2, ThreadTyped DEF Exclusive
  <2> QED BY <1>1, <1>2, <1>3, <1>4, <2>1, NoFile, ConstantsAre DEF Observing, SameNumbers, cpa, Threads
<1>9. AllFull'
  BY <1>1, <1>2, <1>4, NoFile DEF AllFull, Full, Zero, files
<1>10. ASSUME Calm PROVE Timely' /\ Counted' /\ HandedOver' /\ InFile'
  <2>1. Timely /\ Counted /\ HandedOver /\ InFile
    BY <1>10 DEF Safe
  <2>2. Window' = Window /\ Window \subseteq Hours
    BY <1>1, <1>2, Typed DEF Window
  <2>3. Timely'
    <3>1. \A j \in Instances, c \in Channels, h \in Hours : ~Past(h) => Of(registry[j].channels[c], h)' = Zero
      BY <1>4, <2>1 DEF Timely
    <3> QED BY <1>2, <2>1, <2>2, <3>1, NoFile DEF Timely, Past, files
  <2>4. \A j \in Instances, c \in Channels, h \in Window :
          Tokens(j, c, h)' = Tokens(j, c, h) /\ Of(registry[j].channels[c], h)' = Of(registry[j].channels[c], h)
    BY <1>4 DEF Tokens
  <2>5. /\ \A j, c, h : /\ Taken(j, c, h)' = Taken(j, c, h) /\ Fresh(j, c, h)' = Fresh(j, c, h)
                        /\ Unannounced(j, c, h)' = Unannounced(j, c, h) /\ Lines(c, h)' = Lines(c, h)
        /\ \A j, k : BusyBy(j, k)' = BusyBy(j, k)
    BY <1>2 DEF Taken, Fresh, Unannounced, BusyBy, Lines
  <2>6. Counted'
    BY <1>1, <1>2, <2>1, <2>2, <2>4, <2>5, OwnerIs DEF Counted, cpa
  <2>7. HandedOver'
    <3>1. newer # None => newer \in Instances
      BY <1>1 DEF TypeOK
    <3> QED BY <1>2, <1>3, <2>1, <2>2, <2>4, <2>5, <3>1, NoFile DEF HandedOver, Handed, cpa, files
  <2>8. FileHeld'
    <3>1. {serving, newer} \ {None} \subseteq Instances
      BY <1>1 DEF TypeOK
    <3>2. \A j \in Instances, c \in Channels, h \in Window : \A total : Same(j, c, h, total) => Same(j, c, h, total)'
      BY <2>4, <2>5 DEF Same
    <3> QED BY <1>2, <1>4, <2>1, <2>2, <3>1, <3>2 DEF InFile, FileHeld, SameNumbers, cpa, files
  <2>9. JobHeld'
    BY <1>2, NoFile DEF JobHeld
  <2>10. LinesHeld'
    BY <1>1, <1>2, <1>4, <2>1, <2>5, NoFile, OwnerIs DEF InFile, LinesHeld, SameNumbers, cpa
  <2> QED BY <2>3, <2>6, <2>7, <2>8, <2>9, <2>10 DEF InFile
<1> QED BY <1>5, <1>6, <1>7, <1>8, <1>9, <1>10 DEF Safe

\* What an instance being replaced has counted and this one has still to
\* replay is what the journal and the threads have of it.
LEMMA PendingIs ==
  ASSUME TypeOK, newer = serving, NEW c \in Channels, NEW h \in Hours
  PROVE  PendingIn(c, h) = Cardinality(Lines(c, h)) + Cardinality(Unannounced(newer, c, h))
<1>1. {n \in PendingLines : ChannelOf[journal.lines[n].attempt] = c /\ journal.lines[n].hour = h} = Lines(c, h)
  BY DEF PendingLines, Lines, IsOf
<1>2. {t \in PendingCallers : ChannelOf[thread[t].o.attempt] = c /\ thread[t].o.hour = h} = Unannounced(newer, c, h)
  BY DEF PendingCallers, Unannounced, IsOf
<1> QED BY <1>1, <1>2 DEF PendingIn

\* After a deletion seen is what is yet to be replayed.
LEMMA DropChannelSafe == ASSUME Safe, DropChannel PROVE Safe'
<1> DEFINE c == job.channel
<1>1. TypeOK /\ Numbered /\ Control /\ Observing /\ AllFull
  BY SafeIs
<1>2. /\ job.step = "drop" /\ Exclusive(serving) /\ UNCHANGED <<now, thread, cpa, journal, files, told, forgotten, bounds>>
      /\ phase = "serving" /\ c \in Channels /\ job.op = "delete" /\ serving \in Instances /\ Owner = serving
      /\ newer \in {None, serving}
  BY <1>1, OwnerIs DEF DropChannel, Control
<1>3. CASE registry[serving].channels[c] = None
  <2>1. job' = NoJob /\ UNCHANGED <<registry, counted, seen, unwritten>>
    BY <1>3 DEF DropChannel
  <2>2. job' \in Job /\ metadata' \subseteq Channels
    BY <1>1, <1>2, <2>1, JobTyped DEF TypeOK, files
  <2> QED BY <1>2, <2>1, <2>2, NoFile, NoWriteSafe DEF files, past, bounds
<1>4. CASE registry[serving].channels[c] # None
  <2>1. /\ job' = [job EXCEPT !.step = "snapshot", !.channel = None, !.seen = registry[serving].generation + 1]
        /\ counted' = {a \in counted : ChannelOf[a] # c \/ a \in PendingAttempts}
        /\ seen' = [seen EXCEPT ![c] = [h \in Hours |-> PendingIn(c, h)]]
        /\ unwritten' = unwritten \cup {c}
    BY <1>4 DEF DropChannel
  <2>2. /\ AllSound' /\ OneNumbers(serving)
        /\ registry'[serving].generation = registry[serving].generation + 1
        /\ registry'[serving].flushed = registry[serving].flushed /\ registry'[serving].handoff = registry[serving].handoff
        /\ \A j \in Instances, d \in Channels :
             registry'[j].channels[d] = IF j = serving /\ d = c THEN None ELSE registry[j].channels[d]
    BY <1>1, <1>2, <1>4, DropIs
  <2>3. newer = serving =>
          \A h \in Hours : PendingIn(c, h) = Cardinality(Lines(c, h)) + Cardinality(Unannounced(newer, c, h))
    BY <1>1, <1>2, PendingIs
  <2>4. \A t \in Threads : thread[t] # Idle => thread[t].by \in Instances /\ thread[t].by # serving
    BY <1>1, <1>2, ThreadTyped DEF Exclusive
  <2>5. newer = None => PendingLines = {} /\ PendingCallers = {}
    <3>1. newer = None => journal = NoJournal
      BY <1>1, <1>2 DEF Control
    <3>2. newer = None => PendingLines = {}
      BY <3>1, <1>1, JournalTyped DEF PendingLines
    <3>3. newer = None => PendingCallers = {}
      BY <1>1, <1>2, <2>4, ConstantsAre DEF PendingCallers, Observing
    <3> QED BY <3>2, <3>3
  <2>6. newer = None => \A h \in Hours : PendingIn(c, h) = 0
    BY <2>5, FS_EmptySet DEF PendingIn
  <2>7. \A h \in Hours : PendingIn(c, h) \in Nat
    BY <1>1, <1>2, <2>3, <2>6, CountsAre
  <2>8. /\ seen' \in [Channels -> [Hours -> Nat]]
        /\ \A d \in Channels, h \in Hours : seen'[d][h] = IF d = c THEN PendingIn(c, h) ELSE seen[d][h]
    <3> DEFINE row == [h \in Hours |-> PendingIn(c, h)]
    <3>1. row \in [Hours -> Nat] /\ \A h \in Hours : row[h] = PendingIn(c, h)
      BY <2>7
    <3>2. seen' = [seen EXCEPT ![c] = row]
      BY <2>1
    <3> HIDE DEF row
    <3> QED BY <1>1, <1>2, <3>1, <3>2 DEF TypeOK
  <2>9. /\ job' \in Job /\ job'.step = "snapshot" /\ job'.op = "delete" /\ job'.seen = registry[serving].generation + 1
        /\ job'.file = job.file
    <3> DEFINE g == registry[serving].generation + 1
    <3>1. g \in Nat /\ job \in Job
      BY <1>1, <1>2, Typed DEF TypeOK
    <3> HIDE DEF g
    <3>2. job' = [step |-> "snapshot", op |-> job.op, channel |-> None, seen |-> g, file |-> job.file, idle |-> job.idle]
      <4> DEFINE begun == [job EXCEPT !.step = "snapshot"]
                 named == [begun EXCEPT !.channel = None]
      <4>1. begun = [step |-> "snapshot", op |-> job.op, channel |-> job.channel, seen |-> job.seen, file |-> job.file, idle |-> job.idle]
        BY <3>1 DEF Job
      <4> HIDE DEF begun
      <4>2. named = [step |-> "snapshot", op |-> job.op, channel |-> None, seen |-> job.seen, file |-> job.file, idle |-> job.idle]
        BY <4>1
      <4> HIDE DEF named
      <4>3. [named EXCEPT !.seen = g] =
              [step |-> "snapshot", op |-> job.op, channel |-> None, seen |-> g, file |-> job.file, idle |-> job.idle]
        BY <4>2
      <4> QED BY <2>1, <4>3 DEF begun, named, g
    <3> QED BY <1>1, <1>2, <3>1, <3>2, JobTyped DEF Job, g
  <2>10. TypeOK'
    <3>1. counted' \subseteq Attempts /\ unwritten' \subseteq Channels
      BY <1>1, <1>2, <2>1 DEF TypeOK
    <3> QED BY <1>1, <1>2, <2>2, <2>8, <2>9, <3>1, SoundTyped DEF TypeOK, cpa, files
  <2>11. Numbered' /\ (Calm' <=> Calm)
    BY <1>1, <1>2 DEF Numbered, Calm, bounds
  <2>12. \A j \in Instances : registry'[j].handoff = registry[j].handoff
    BY <2>2 DEF OneNumbers
  <2>13. Control'
    BY <1>1, <1>2, <2>9, <2>12, ConstantsAre DEF Control, cpa
  <2>14. Observing'
    BY <1>1, <1>2, <2>2, <2>4, <2>9, <2>12, ThreadTyped, ConstantsAre DEF Observing, cpa, Threads
  <2>15. \A h \in Hours : Of(None, h) = Zero
    BY OfNothing
  <2>16. AllFull'
    BY <1>1, <1>2, <2>2, <2>9, <2>15 DEF AllFull, Full, Zero, files
  <2>17. ASSUME Calm PROVE Timely' /\ Counted' /\ HandedOver' /\ InFile'
    <3>1. Timely /\ Counted /\ HandedOver /\ InFile
      BY <2>17 DEF Safe
    <3>2. Window' = Window /\ Window \subseteq Hours
      BY <1>1, <1>2, Typed DEF Window
    <3>3. \A h \in Hours : ~Past(h) => Lines(c, h) = {} /\ \A e : Unannounced(e, c, h) = {}
      <4>1. \A n \in journal.applied + 1 .. Len(journal.lines) : Past(journal.lines[n].hour)
        BY <1>1, <3>1, JournalTyped DEF Timely
      <4>2. \A t \in Callers : thread[t] # Idle => Past(thread[t].o.hour)
        BY <3>1, ConstantsAre DEF Timely, Past, Window
      <4> QED BY <4>1, <4>2 DEF Lines, Unannounced, IsOf
    <3>4. Timely'
      <4>1. \A h \in Hours : ~Past(h) => PendingIn(c, h) = 0
        BY <1>2, <2>3, <2>6, <3>3, FS_EmptySet
      <4>2. \A d \in Channels, h \in Hours : ~Past(h) => seen'[d][h] = 0
        BY <2>8, <3>1, <4>1 DEF Timely
      <4>3. \A j \in Instances, d \in Channels, h \in Hours : ~Past(h) => Of(registry[j].channels[d], h)' = Zero
        BY <2>2, <2>15, <3>1 DEF Timely
      <4> QED BY <1>2, <2>9, <3>1, <3>2, <4>2, <4>3 DEF Timely, Past, files
    <3>5. \A j \in Instances, d \in Channels, h \in Hours :
            Of(registry[j].channels[d], h)' = IF j = serving /\ d = c THEN Zero ELSE Of(registry[j].channels[d], h)
      BY <2>2, <2>15
    <3>6. \A j \in Instances, d \in Channels, h \in Hours :
            Tokens(j, d, h)' = IF j = serving /\ d = c THEN 0 ELSE Tokens(j, d, h)
      BY <3>5 DEF Tokens, Zero
    <3>7. /\ \A j, d, h : /\ Taken(j, d, h)' = Taken(j, d, h) /\ Fresh(j, d, h)' = Fresh(j, d, h)
                          /\ Unannounced(j, d, h)' = Unannounced(j, d, h) /\ Lines(d, h)' = Lines(d, h)
          /\ \A j, k : BusyBy(j, k)' = BusyBy(j, k)
      BY <1>2 DEF Taken, Fresh, Unannounced, BusyBy, Lines
    <3>8. \A d, h : Taken(serving, d, h) = 0
      BY <2>4, ConstantsAre DEF Taken
    <3>9. Counted'
      <4> SUFFICES ASSUME newer # serving, NEW d \in Channels, NEW h \in Window
                   PROVE  Tokens(serving, d, h)' + Taken(serving, d, h)' = seen'[d][h]
        BY <1>2, <3>2 DEF Counted, cpa
      <4>1. newer = None /\ Tokens(serving, d, h) + Taken(serving, d, h) = seen[d][h] /\ h \in Hours
        BY <1>2, <3>1, <3>2 DEF Counted
      <4> QED BY <1>2, <2>6, <2>8, <3>6, <3>7, <3>8, <4>1 DEF cpa
    <3>10. HandedOver'
      <4> SUFFICES ASSUME newer # None, NEW d \in Channels, NEW h \in Window
                   PROVE  seen'[d][h] = Handed(d, h)' + Cardinality(Lines(d, h)') + Cardinality(Unannounced(newer, d, h)')
        BY <1>2, <2>9, <3>2 DEF HandedOver, cpa
      <4>1. newer = serving /\ h \in Hours
        BY <1>2, <3>2
      <4>2. seen[d][h] = Handed(d, h) + Cardinality(Lines(d, h)) + Cardinality(Unannounced(newer, d, h))
        BY <3>1 DEF HandedOver
      <4>3. Handed(d, h)' = IF d = c THEN 0 ELSE Handed(d, h)
        <5>1. Handed(d, h) = Tokens(serving, d, h) + Taken(serving, d, h)
          BY <1>2, <4>1 DEF Handed
        <5>2. Handed(d, h)' = Tokens(serving, d, h)' + Taken(serving, d, h)'
          BY <1>2, <2>9, <4>1 DEF Handed, cpa
        <5> QED BY <1>2, <3>6, <3>7, <3>8, <4>1, <5>1, <5>2 DEF cpa
      <4>4. /\ Cardinality(Lines(d, h)') = Cardinality(Lines(d, h))
            /\ Cardinality(Unannounced(newer, d, h)') = Cardinality(Unannounced(newer, d, h))
            /\ Cardinality(Lines(d, h)) \in Nat /\ Cardinality(Unannounced(newer, d, h)) \in Nat
        BY <1>1, <1>2, <3>7, <4>1, CountsAre DEF cpa
      <4> QED BY <2>3, <2>8, <4>1, <4>2, <4>3, <4>4
    <3>11. FileHeld'
      <4>1. registry[serving].flushed <= registry[serving].generation
        BY <1>2, <3>1, ConstantsAre DEF InFile, FileHeld
      <4>2. registry[serving].flushed \in Nat /\ registry[serving].generation \in Nat
        BY <1>1, <1>2, Typed
      <4> QED BY <1>2, <2>2, <4>1, <4>2 DEF FileHeld, cpa
    <3>12. JobHeld'
      <4>1. registry[serving].flushed <= registry[serving].generation
        BY <1>2, <3>1, ConstantsAre DEF InFile, FileHeld
      <4>2. Owner' = serving
        BY <1>2 DEF Owner, cpa
      <4>3. registry[serving].flushed \in Nat /\ registry[serving].generation \in Nat
        BY <1>1, <1>2, Typed
      <4> QED BY <2>2, <2>9, <4>1, <4>2, <4>3 DEF JobHeld
    <3>13. LinesHeld'
      BY <1>2, <2>9 DEF LinesHeld, cpa
    <3> QED BY <3>4, <3>9, <3>10, <3>11, <3>12, <3>13 DEF InFile
  <2> QED BY <2>10, <2>11, <2>13, <2>14, <2>16, <2>17 DEF Safe
<1> QED BY <1>3, <1>4

----------------------------------------------------------------------------
\* Hot replacement

\* Nothing is being counted, so the snapshot has everything seen.
LEMMA HandOffSafe == ASSUME Safe, HandOff PROVE Safe'
<1> DEFINE r == registry[serving]
           file == Snapshot(r.channels)
           g == r.generation
<1>1. TypeOK /\ Numbered /\ Control /\ Observing /\ AllFull
  BY SafeIs
<1>2. /\ phase = "serving" /\ job = NoJob /\ newer = None /\ Exclusive(serving)
      /\ job' = [NoJob EXCEPT !.step = "write", !.op = "handoff", !.seen = g, !.file = file]
      /\ registry' = [registry EXCEPT ![serving].handoff = TRUE]
      /\ UNCHANGED <<now, thread, cpa, journal, files, past, rollbacks, restarts>>
  BY DEF HandOff
<1>3. serving \in Instances /\ Owner = serving /\ AllSound /\ r.channels \in Table /\ g \in Nat /\ r.flushed \in Nat
  BY <1>1, <1>2, OwnerIs, SoundIs, Typed
<1>4. /\ AllSound' /\ SameTables /\ OneNumbers(serving) /\ registry'[serving].handoff = TRUE
      /\ registry'[serving].generation = registry[serving].generation
      /\ registry'[serving].flushed = registry[serving].flushed
  BY <1>2, <1>3, HandoffIs
<1>5. file \in StatsFile /\ \A c \in Channels, h \in Hours : file[c][h] = IF h \in Window THEN Of(r.channels[c], h) ELSE Zero
  BY <1>3, SnapshotIs
<1>6. /\ job' \in Job /\ job'.step = "write" /\ job'.op = "handoff" /\ job'.seen = g /\ job'.file = file /\ job'.idle = {}
  <2> HIDE DEF file, g
  <2>1. job' = [step |-> "write", op |-> "handoff", channel |-> None, seen |-> g, file |-> file, idle |-> {}]
    <3> DEFINE begun == [NoJob EXCEPT !.step = "write"]
               named == [begun EXCEPT !.op = "handoff"]
               noted == [named EXCEPT !.seen = g]
    <3>1. begun = [step |-> "write", op |-> "none", channel |-> None, seen |-> 0, file |-> NoStats, idle |-> {}]
      BY DEF NoJob
    <3> HIDE DEF begun
    <3>2. named = [step |-> "write", op |-> "handoff", channel |-> None, seen |-> 0, file |-> NoStats, idle |-> {}]
      BY <3>1
    <3> HIDE DEF named
    <3>3. noted = [step |-> "write", op |-> "handoff", channel |-> None, seen |-> g, file |-> NoStats, idle |-> {}]
      BY <3>2
    <3> HIDE DEF noted
    <3>4. [noted EXCEPT !.file = file] =
            [step |-> "write", op |-> "handoff", channel |-> None, seen |-> g, file |-> file, idle |-> {}]
      BY <3>3
    <3> QED BY <1>2, <3>4 DEF begun, named, noted
  <2> QED BY <1>3, <1>5, <2>1 DEF Job, g
<1>7. SameHeld /\ StillThere /\ \A j \in Instances : registry'[j].generation = registry[j].generation /\ registry'[j].flushed = registry[j].flushed
  BY <1>4, TablesStay DEF OneNumbers
<1>8. \A t \in Threads : thread[t] # Idle => thread[t].by \in Instances /\ thread[t].by # serving
  BY <1>1, <1>2, ThreadTyped DEF Exclusive
<1>9. \A t \in Threads : thread[t] = Idle
  BY <1>1, <1>2, <1>3, <1>8, ConstantsAre DEF Observing, Threads
<1> HIDE DEF file, g
<1>10. TypeOK'
  BY <1>1, <1>2, <1>4, <1>6, SoundTyped DEF TypeOK, cpa, files, past
<1>11. Numbered' /\ (Calm' <=> Calm)
  BY <1>1, <1>2 DEF Numbered, Calm
<1>12. Control'
  BY <1>1, <1>2, <1>3, <1>4, <1>6, JournalTyped DEF Control, cpa
<1>13. Observing'
  BY <1>1, <1>2, <1>9, ConstantsAre DEF Observing, cpa, Threads
<1>14. AllFull'
  <2>1. \A c \in Channels, h \in Hours : Full(file[c][h])
    BY <1>1, <1>3, <1>5 DEF AllFull, Full, Zero
  <2> QED BY <1>1, <1>2, <1>6, <1>7, <2>1 DEF AllFull, SameHeld, files
<1>15. ASSUME Calm PROVE Timely' /\ Counted' /\ HandedOver' /\ InFile'
  <2>1. Timely /\ Counted /\ HandedOver /\ InFile
    BY <1>15 DEF Safe
  <2>2. Window' = Window /\ Window \subseteq Hours
    BY <1>1, <1>2, Typed DEF Window
  <2>3. \A c \in Channels, h \in Hours : ~Past(h) => file[c][h] = Zero
    BY <1>5 DEF Past, Window
  <2>4. Timely'
    BY <1>2, <1>6, <1>7, <2>1, <2>2, <2>3 DEF Timely, SameHeld, Past, files, past
  <2>5. \A c \in Channels, h \in Hours : Tokens(serving, c, h)' = Tokens(serving, c, h)
    BY <1>2, <1>3, <1>7, HeldTokens DEF cpa
  <2>6. \A c \in Channels, h \in Hours : Taken(serving, c, h) = 0 /\ Taken(serving, c, h)' = 0
    BY <1>2, <1>9, ConstantsAre DEF Taken
  <2>7. Counted'
    BY <1>2, <2>1, <2>2, <2>5, <2>6 DEF Counted, cpa, past
  <2>8. HandedOver'
    <3> SUFFICES ASSUME NEW c \in Channels, NEW h \in Window
                 PROVE  seen[c][h] = Handed(c, h)' + Cardinality(Lines(c, h)') + Cardinality(Unannounced(newer, c, h)')
      BY <1>2, <2>2 DEF HandedOver, past
    <3>1. Tokens(serving, c, h) = seen[c][h] /\ seen[c][h] \in Nat /\ Tokens(serving, c, h) \in Nat
      <4>1. newer # serving /\ h \in Hours
        BY <1>2, <1>3, <2>2, ConstantsAre
      <4>2. Tokens(serving, c, h) + 0 = seen[c][h] /\ Tokens(serving, c, h) \in Nat /\ seen[c][h] \in Nat
        BY <1>1, <1>3, <2>1, <2>6, <4>1, Typed DEF Counted, Tokens
      <4> QED BY <4>2
    <3>2. Handed(c, h)' = Tokens(serving, c, h)
      BY <1>5, <1>6, <2>2 DEF Handed, Tokens
    <3>3. Lines(c, h)' = {} /\ Unannounced(newer, c, h)' = {}
      <4>1. journal = NoJournal
        BY <1>1, <1>2, NoFile DEF Control
      <4> QED BY <1>1, <1>2, <1>9, <4>1, JournalTyped, ConstantsAre DEF Lines, Unannounced
    <3> QED BY <3>1, <3>2, <3>3, FS_EmptySet
  <2>9. \A j, c, h : ~Fresh(j, c, h)
    BY <1>9 DEF Fresh
  <2>10. FileHeld'
    <3> SUFFICES /\ registry'[serving].flushed <= registry'[serving].generation
                 /\ registry'[serving].flushed = registry'[serving].generation =>
                      \A c \in Channels, h \in Window : Same(serving, c, h, stats[c][h])'
      BY <1>2, <2>2 DEF FileHeld, cpa
    <3>1. /\ registry[serving].flushed <= registry[serving].generation
          /\ registry[serving].flushed = registry[serving].generation =>
               \A c \in Channels, h \in Window : Same(serving, c, h, stats[c][h])
      BY <1>3, <2>1, ConstantsAre DEF InFile, FileHeld
    <3>2. \A c \in Channels, h \in Window : Same(serving, c, h, stats[c][h]) => Same(serving, c, h, stats[c][h])'
      BY <1>2, <1>3, <1>7, <2>2, <2>9 DEF Same, SameHeld, cpa, files
    <3> QED BY <1>3, <1>7, <3>1, <3>2
  <2>11. JobHeld'
    <3>1. registry[serving].flushed <= g /\ Owner' = serving
      BY <1>2, <1>3, <2>1, ConstantsAre DEF InFile, FileHeld, Owner, cpa, g
    <3>2. \A c \in Channels, h \in Window : file[c][h] = Of(registry'[serving].channels[c], h) /\ file[c][h] = Of(registry[serving].channels[c], h)
      BY <1>3, <1>4, <1>5, <2>2 DEF SameTables
    <3>3. g = registry[serving].flushed => \A c \in Channels, h \in Window : stats[c][h] = file[c][h]
      <4>1. g = registry[serving].flushed => \A c \in Channels, h \in Window : Same(serving, c, h, stats[c][h])
        BY <1>3, <2>1, ConstantsAre DEF InFile, FileHeld, g
      <4> QED BY <2>9, <3>2, <4>1 DEF Same
    <3>4. \A c \in Channels, h \in Window : Same(serving, c, h, job.file[c][h])'
      BY <1>2, <1>6, <3>2 DEF Same, cpa
    <3> QED BY <1>2, <1>3, <1>4, <1>6, <2>2, <3>1, <3>3, <3>4 DEF JobHeld, cpa, files, g
  <2>12. LinesHeld'
    <3>1. journal'.lines = <<>>
      BY <1>1, <1>2, NoFile, JournalTyped DEF Control
    <3> QED BY <1>2, <3>1 DEF LinesHeld, cpa
  <2> QED BY <2>4, <2>7, <2>8, <2>10, <2>11, <2>12 DEF InFile
<1> QED BY <1>10, <1>11, <1>12, <1>13, <1>14, <1>15 DEF Safe

\* The newer instance holds the file's hours and has the lines to replay.
LEMMA TakeOverSafe == ASSUME Safe, NEW i \in Instances, TakeOver(i) PROVE Safe'
<1>1. TypeOK /\ Numbered /\ Control /\ Observing /\ AllFull
  BY SafeIs
<1>2. /\ phase = "quiesced" /\ i # serving /\ phase' = "loaded" /\ newer' = i
      /\ registry' = [registry EXCEPT ![i] = NewRegistry(Loaded)]
      /\ journal' = [journal EXCEPT !.due = Len(journal.lines)]
      /\ forgotten' = forgotten \cup {a \in Attempts : told[a] > 0}
      /\ UNCHANGED <<now, serving, thread, job, files, told, counted, seen, unwritten, bounds>>
  BY DEF TakeOver
<1>3. \A t \in Threads : thread[t] # Idle => thread[t].by # i
  BY DEF TakeOver
<1>4. newer = None /\ job = NoJob /\ serving \in Instances /\ AllSound
  BY <1>1, <1>2, OwnerIs, SoundIs
<1>5. /\ Loaded \in Table /\ \A c \in Channels : Loaded[c] # None => Loaded[c].starts = <<>>
      /\ \A c \in Channels, h \in Hours : Of(Loaded[c], h) = IF h \in Window THEN stats[c][h] ELSE Zero
  BY <1>1, LoadedIs DEF TypeOK, AllFull
<1>6. /\ Sound(NewRegistry(Loaded)) /\ NewRegistry(Loaded).channels = Loaded /\ NewRegistry(Loaded).generation = 0
      /\ NewRegistry(Loaded).flushed = 0 /\ NewRegistry(Loaded).handoff = FALSE
  BY <1>5, NewIs
<1>7. AllSound' /\ \A j \in Instances : registry'[j] = IF j = i THEN NewRegistry(Loaded) ELSE registry[j]
  BY <1>2, <1>4, <1>6, OneSet
<1>8. /\ journal' \in Journal /\ journal'.applied = journal.applied /\ journal'.lines = journal.lines
      /\ journal.applied <= Len(journal.lines)
  BY <1>1, <1>2, JournalTyped DEF TypeOK, Journal
<1>9. TypeOK'
  <2>1. forgotten' \subseteq Attempts
    BY <1>1, <1>2 DEF TypeOK
  <2> QED BY <1>1, <1>2, <1>7, <1>8, <2>1, SoundTyped DEF TypeOK, files
<1>10. Numbered' /\ (Calm' <=> Calm)
  BY <1>1, <1>2 DEF Numbered, Calm, bounds
<1>11. Control'
  BY <1>1, <1>2, <1>4, <1>6, <1>7, <1>8, NoFile, ConstantsAre DEF Control
<1>12. Observing'
  BY <1>1, <1>2, <1>3, <1>4, <1>6, <1>7, NoFile, ThreadTyped, ConstantsAre DEF Observing, Threads
<1>13. \A j \in Instances, c \in Channels, h \in Hours :
         Of(registry[j].channels[c], h)' = IF j = i THEN (IF h \in Window THEN stats[c][h] ELSE Zero)
                                           ELSE Of(registry[j].channels[c], h)
  BY <1>5, <1>6, <1>7
<1>14. AllFull'
  BY <1>1, <1>2, <1>13 DEF AllFull, Full, Zero, files
<1>15. ASSUME Calm PROVE Timely' /\ Counted' /\ HandedOver' /\ InFile'
  <2>1. Timely /\ Counted /\ HandedOver /\ InFile
    BY <1>15 DEF Safe
  <2>2. Window' = Window /\ Window \subseteq Hours
    BY <1>1, <1>2, Typed DEF Window
  <2>3. Timely'
    <3>1. \A j \in Instances, c \in Channels, h \in Hours : ~Past(h) => Of(registry[j].channels[c], h)' = Zero
      BY <1>13, <2>1 DEF Timely
    <3> QED BY <1>2, <1>8, <2>1, <2>2, <3>1 DEF Timely, Past, files
  <2>4. \A j \in Instances, c \in Channels, h \in Window :
          Tokens(j, c, h)' = IF j = i THEN stats[c][h].tokens ELSE Tokens(j, c, h)
    BY <1>13, <2>2 DEF Tokens
  <2>5. thread[Follower] = Idle
    BY <1>1, <1>2 DEF Observing
  <2>6. \A j, c, h : Taken(j, c, h) = 0 /\ Taken(j, c, h)' = 0 /\ Fresh(j, c, h)' = Fresh(j, c, h)
    BY <1>2, <2>5 DEF Taken, Fresh
  <2>7. Counted'
    BY <1>2, <1>4, <2>1, <2>2, <2>4, <2>6, ConstantsAre DEF Counted
  <2>8. HandedOver'
    <3> SUFFICES ASSUME NEW c \in Channels, NEW h \in Window
                 PROVE  seen[c][h] = Handed(c, h)' + Cardinality(Lines(c, h)') + Cardinality(Unannounced(newer, c, h)')
      BY <1>2, <2>2 DEF HandedOver
    <3>1. seen[c][h] = Handed(c, h) + Cardinality(Lines(c, h)) + Cardinality(Unannounced(newer, c, h))
      BY <1>2, <2>1 DEF HandedOver
    <3>2. Lines(c, h)' = Lines(c, h)
      BY <1>8 DEF Lines
    <3>3. Unannounced(newer, c, h)' = Unannounced(newer, c, h)
      <4>1. \A t \in Callers : thread[t] # Idle => thread[t].by # None
        BY <1>1, <1>4, ThreadTyped, ConstantsAre
      <4> QED BY <1>2, <1>3, <1>4, <4>1, ConstantsAre DEF Unannounced
    <3>4. Handed(c, h)' = Handed(c, h)
      <4>1. Handed(c, h) = stats[c][h].tokens /\ stats[c][h].tokens \in Nat
        BY <1>1, <1>4, <2>2, NoFile, Typed DEF Handed
      <4>2. Handed(c, h)' = stats[c][h].tokens + 0
        BY <1>2, <1>4, <2>4, <2>6, NoFile, ConstantsAre DEF Handed
      <4> QED BY <4>1, <4>2
    <3> QED BY <3>1, <3>2, <3>3, <3>4
  <2>9. FileHeld'
    <3> SUFFICES ASSUME NEW j \in {serving, i}
                 PROVE  /\ registry'[j].flushed <= registry'[j].generation
                        /\ registry'[j].flushed = registry'[j].generation =>
                             \A c \in Channels, h \in Window : Same(j, c, h, stats[c][h])'
      BY <1>2, <2>2 DEF FileHeld
    <3>1. CASE j = i
      BY <1>2, <1>6, <1>7, <1>13, <2>2, <3>1 DEF Same, files
    <3>2. CASE j # i
      <4>1. /\ j = serving /\ registry'[j] = registry[j] /\ registry[j].flushed <= registry[j].generation
            /\ registry[j].flushed = registry[j].generation => \A c \in Channels, h \in Window : Same(j, c, h, stats[c][h])
        BY <1>4, <1>7, <2>1, <3>2, ConstantsAre DEF InFile, FileHeld
      <4>2. \A c \in Channels, h \in Window : Same(j, c, h, stats[c][h]) => Same(j, c, h, stats[c][h])'
        BY <1>2, <2>6, <4>1 DEF Same, files
      <4> QED BY <4>1, <4>2
    <3> QED BY <3>1, <3>2
  <2>10. JobHeld'
    BY <1>2, <1>4, NoFile DEF JobHeld
  <2>11. LinesHeld'
    BY <1>2, <1>4, <1>6, <1>7, <1>8, <2>1, <2>5, NoFile DEF InFile, LinesHeld, BusyBy
  <2> QED BY <2>3, <2>7, <2>8, <2>9, <2>10, <2>11 DEF InFile
<1> QED BY <1>9, <1>10, <1>11, <1>12, <1>14, <1>15 DEF Safe

\* What CPA reports from now on is the newer instance's.
LEMMA SwitchSafe == ASSUME Safe, Switch PROVE Safe'
<1>1. TypeOK /\ Numbered /\ Control /\ Observing /\ AllFull
  BY SafeIs
<1>2. /\ phase = "loaded" /\ phase' = "serving" /\ serving' = newer
      /\ UNCHANGED <<now, newer, registry, thread, job, journal, files, past, bounds>>
  BY DEF Switch
<1>3. newer \in Instances /\ newer # serving /\ serving \in Instances /\ Owner = newer /\ job.op # "handoff"
  BY <1>1, <1>2, OwnerIs DEF Control
<1>4. TypeOK'
  BY <1>1, <1>2, <1>3 DEF TypeOK, files, past
<1>5. Numbered' /\ (Calm' <=> Calm)
  BY <1>1, <1>2 DEF Numbered, Calm, bounds
<1>6. Control'
  BY <1>1, <1>2, <1>3, ConstantsAre, Typed DEF Control
<1>7. Observing'
  BY <1>1, <1>2, <1>3, ConstantsAre DEF Observing, Control
<1>8. AllFull'
  BY <1>1, <1>2 DEF AllFull, files
<1>9. ASSUME Calm PROVE Timely' /\ Counted' /\ HandedOver' /\ InFile'
  <2>1. Timely /\ Counted /\ HandedOver /\ InFile
    BY <1>9 DEF Safe
  <2>2. Window' = Window
    BY <1>2 DEF Window
  <2>3. Timely'
    BY <1>2, <2>1, <2>2 DEF Timely, Past, files, past
  <2>4. \A j, c, h : /\ Tokens(j, c, h)' = Tokens(j, c, h) /\ Taken(j, c, h)' = Taken(j, c, h)
                     /\ Fresh(j, c, h)' = Fresh(j, c, h)
                     /\ Lines(c, h)' = Lines(c, h) /\ Unannounced(j, c, h)' = Unannounced(j, c, h)
    BY <1>2 DEF Tokens, Taken, Fresh, Lines, Unannounced
  <2>5. Counted'
    BY <1>2 DEF Counted
  <2>6. HandedOver'
    BY <1>2, <1>3, <2>1, <2>2, <2>4 DEF HandedOver, Handed, files, past
  <2>7. FileHeld'
    <3>1. \A j, c, h : Same(j, c, h, stats[c][h])' <=> Same(j, c, h, stats[c][h])
      BY <1>2, <2>4 DEF Same, files
    <3> QED BY <1>2, <2>1, <2>2, <3>1 DEF InFile, FileHeld
  <2>8. JobHeld'
    <3>1. Owner' = newer
      BY <1>2 DEF Owner
    <3>2. \A c, h : Same(newer, c, h, job.file[c][h])' <=> Same(newer, c, h, job.file[c][h])
      BY <1>2, <2>4 DEF Same
    <3> QED BY <1>2, <1>3, <2>1, <2>2, <3>1, <3>2 DEF InFile, JobHeld, files
  <2>9. LinesHeld'
    BY <1>2, <1>3 DEF LinesHeld
  <2> QED BY <2>3, <2>5, <2>6, <2>7, <2>8, <2>9 DEF InFile
<1> QED BY <1>4, <1>5, <1>6, <1>7, <1>8, <1>9 DEF Safe

\* The instances but the one that serves are gone.
LEMMA ClearedIs ==
  ASSUME AllSound, serving \in Instances, NEW n, Sound(n),
         registry' = [i \in Instances |-> IF i = serving THEN n ELSE NewRegistry(NoChannels)]
  PROVE  /\ AllSound' /\ registry'[serving] = n
         /\ \A j \in Instances : j # serving =>
              /\ registry'[j].generation = 0 /\ registry'[j].flushed = 0 /\ registry'[j].handoff = FALSE
              /\ \A c \in Channels, h \in Hours : Of(registry'[j].channels[c], h) = Zero
<1>1. \A j \in Instances : registry'[j] = IF j = serving THEN n ELSE NewRegistry(NoChannels)
  OBVIOUS
<1>2. registry' \in [Instances -> Registry]
  BY NoChannelsIs DEF Sound
<1>3. AllSound'
  BY <1>1, <1>2, NoChannelsIs DEF AllSound, Sound
<1> QED BY <1>1, <1>3, NoChannelsIs

\* With every line replayed the newer instance has counted everything seen.
LEMMA FollowEndsSafe == ASSUME Safe, FollowEnds PROVE Safe'
<1>1. TypeOK /\ Numbered /\ Control /\ Observing /\ AllFull
  BY SafeIs
<1>2. /\ phase = "serving" /\ newer = serving /\ Followed
      /\ registry' = [i \in Instances |-> IF i = serving THEN registry[serving] ELSE NewRegistry(NoChannels)]
      /\ journal' = NoJournal /\ newer' = None
      /\ UNCHANGED <<now, phase, serving, thread, job, files, past, bounds>>
  BY DEF FollowEnds
<1>3. serving \in Instances /\ serving # None /\ AllSound /\ Sound(registry[serving]) /\ job.op # "handoff"
  BY <1>1, <1>2, OwnerIs, SoundIs, ConstantsAre DEF AllSound, Control
<1>4. /\ AllSound' /\ registry'[serving] = registry[serving]
      /\ \A j \in Instances : j # serving => \A c \in Channels, h \in Hours : Of(registry'[j].channels[c], h) = Zero
  BY <1>2, <1>3, ClearedIs
<1>5. \A t \in Threads : thread[t] # Idle => thread[t].by = serving
  BY <1>2 DEF Followed
<1>6. journal.applied = Len(journal.lines)
  BY <1>2 DEF Followed
<1>7. journal' \in Journal /\ journal'.lines = <<>> /\ journal'.applied = 0 /\ journal'.applied <= Len(journal'.lines)
  BY <1>1, <1>2, JournalTyped
<1>8. TypeOK'
  BY <1>1, <1>2, <1>4, <1>7, SoundTyped DEF TypeOK, files, past
<1>9. Numbered' /\ (Calm' <=> Calm)
  BY <1>1, <1>2 DEF Numbered, Calm, bounds
<1>10. Control'
  BY <1>1, <1>2, <1>3, <1>4, <1>7 DEF Control
<1>11. Observing'
  BY <1>1, <1>2, <1>3, <1>4, <1>5, ConstantsAre DEF Observing, Threads
<1>12. \A j \in Instances, c \in Channels, h \in Hours :
         Of(registry[j].channels[c], h)' = IF j = serving THEN Of(registry[j].channels[c], h) ELSE Zero
  BY <1>4
<1>13. AllFull'
  BY <1>1, <1>2, <1>12 DEF AllFull, Full, Zero, files
<1>14. ASSUME Calm PROVE Timely' /\ Counted' /\ HandedOver' /\ InFile'
  <2>1. Timely /\ Counted /\ HandedOver /\ InFile
    BY <1>14 DEF Safe
  <2>2. Window' = Window /\ Window \subseteq Hours
    BY <1>1, <1>2, Typed DEF Window
  <2>3. Timely'
    <3>1. \A j \in Instances, c \in Channels, h \in Hours : ~Past(h) => Of(registry[j].channels[c], h)' = Zero
      BY <1>12, <2>1 DEF Timely
    <3>2. \A n \in DOMAIN journal'.lines : Past(journal'.lines[n].hour)
      BY <1>7
    <3> QED BY <1>2, <2>1, <2>2, <3>1, <3>2 DEF Timely, Past, files, past
  <2>4. \A c \in Channels, h \in Hours : Tokens(serving, c, h)' = Tokens(serving, c, h)
    BY <1>2, <1>3, <1>12 DEF Tokens
  <2>5. \A j, c, h : Taken(j, c, h)' = Taken(j, c, h) /\ Fresh(j, c, h)' = Fresh(j, c, h)
    BY <1>2 DEF Taken, Fresh
  <2>6. Counted'
    <3> SUFFICES ASSUME NEW c \in Channels, NEW h \in Window
                 PROVE  Tokens(serving, c, h)' + Taken(serving, c, h)' = seen[c][h]
      BY <1>2, <2>2 DEF Counted, past
    <3>1. seen[c][h] = Handed(c, h) + Cardinality(Lines(c, h)) + Cardinality(Unannounced(newer, c, h))
      BY <1>2, <1>3, <2>1 DEF HandedOver
    <3>2. Lines(c, h) = {}
      <4>1. journal.applied \in Nat
        BY <1>1, JournalTyped
      <4> QED BY <1>6, <4>1 DEF Lines
    <3>3. Unannounced(newer, c, h) = {}
      BY <1>2, <1>5, ConstantsAre DEF Unannounced
    <3>4. Handed(c, h) = Tokens(serving, c, h) + Taken(serving, c, h) /\ Handed(c, h) \in Nat
      BY <1>1, <1>2, <1>3, <2>2, CountsAre DEF Handed
    <3>5. seen[c][h] = Tokens(serving, c, h) + Taken(serving, c, h)
      BY <3>1, <3>2, <3>3, <3>4, FS_EmptySet
    <3> QED BY <1>2, <2>2, <2>4, <2>5, <3>5
  <2>7. HandedOver'
    BY <1>2, <1>3 DEF HandedOver
  <2>8. FileHeld'
    <3>1. /\ registry[serving].flushed <= registry[serving].generation
          /\ registry[serving].flushed = registry[serving].generation =>
               \A c \in Channels, h \in Window : Same(serving, c, h, stats[c][h])
      BY <1>3, <2>1 DEF InFile, FileHeld
    <3>2. \A c \in Channels, h \in Window : Same(serving, c, h, stats[c][h]) => Same(serving, c, h, stats[c][h])'
      BY <1>2, <1>3, <1>12, <2>2, <2>5 DEF Same, files
    <3> QED BY <1>2, <1>4, <2>2, <3>1, <3>2 DEF FileHeld
  <2>9. JobHeld'
    <3>1. Owner' = serving /\ Owner = serving
      BY <1>2 DEF Owner
    <3>2. \A c \in Channels, h \in Window : Same(serving, c, h, job.file[c][h]) => Same(serving, c, h, job.file[c][h])'
      BY <1>2, <1>3, <1>12, <2>2, <2>5 DEF Same
    <3> QED BY <1>2, <1>3, <1>4, <2>1, <2>2, <3>1, <3>2 DEF InFile, JobHeld, files
  <2>10. LinesHeld'
    BY <1>2, <1>7 DEF LinesHeld
  <2> QED BY <2>3, <2>6, <2>7, <2>8, <2>9, <2>10 DEF InFile
<1> QED BY <1>8, <1>9, <1>10, <1>11, <1>13, <1>14 DEF Safe

\* The older instance never stopped counting. The file may be the newer one's
\* then; a line in the journal made the older one an instance to flush.
LEMMA RollbackSafe == ASSUME Safe, Rollback PROVE Safe'
<1> DEFINE n == [registry[serving] EXCEPT !.handoff = FALSE]
<1>1. TypeOK /\ Numbered /\ Control /\ Observing /\ AllFull
  BY SafeIs
<1>2. /\ registry' = [i \in Instances |-> IF i = serving THEN n ELSE NewRegistry(NoChannels)]
      /\ phase' = "serving" /\ newer' = None /\ journal' = NoJournal
      /\ UNCHANGED <<now, thread, job, serving, metadata, past, bounds>>
  <2>1. \A i : i = serving => [registry[i] EXCEPT !.handoff = FALSE] = n
    OBVIOUS
  <2> HIDE DEF n
  <2> QED BY <2>1 DEF Rollback
<1>3. \/ phase = "quiesced" /\ UNCHANGED stats
      \/ /\ phase = "loaded" /\ job = NoJob /\ thread[Follower] = Idle
         /\ stats' \in {stats, Snapshot(registry[newer].channels)}
         /\ registry[newer].generation = registry[newer].flushed => stats' = stats
  BY DEF Rollback
<1>4. serving \in Instances /\ AllSound /\ Sound(registry[serving]) /\ newer # serving /\ serving # None
  BY <1>1, <1>3, OwnerIs, SoundIs, ConstantsAre DEF AllSound
<1>5. job = NoJob /\ thread[Follower] = Idle /\ (phase = "loaded" => newer \in Instances)
  BY <1>1, <1>3, OwnerIs DEF Observing
<1>6. /\ Sound(n) /\ n.channels = registry[serving].channels /\ n.generation = registry[serving].generation
      /\ n.flushed = registry[serving].flushed /\ n.handoff = FALSE
  <2> DEFINE r == registry[serving]
  <2>1. n = [r EXCEPT !.handoff = FALSE] /\ FALSE \in BOOLEAN
    OBVIOUS
  <2> HIDE DEF n, r
  <2>2. Sound(r)
    BY <1>4 DEF r
  <2>3. /\ Sound(n) /\ n.channels = r.channels /\ n.generation = r.generation /\ n.flushed = r.flushed
        /\ n.handoff = FALSE
    BY <2>1, <2>2, HandoffSet
  <2> QED BY <2>3 DEF r
<1> HIDE DEF n
<1>7. /\ AllSound' /\ registry'[serving] = n
      /\ \A j \in Instances : j # serving => \A c \in Channels, h \in Hours : Of(registry'[j].channels[c], h) = Zero
  BY <1>2, <1>4, <1>6, ClearedIs
<1>8. journal' \in Journal /\ journal'.lines = <<>> /\ journal'.applied = 0 /\ journal'.applied <= Len(journal'.lines)
  BY <1>1, <1>2, JournalTyped
<1>9. phase = "loaded" =>
        LET file == Snapshot(registry[newer].channels) IN
        /\ file \in StatsFile
        /\ \A c \in Channels, h \in Hours : file[c][h] = IF h \in Window THEN Of(registry[newer].channels[c], h) ELSE Zero
  BY <1>1, <1>5, SnapshotIs, Typed
<1>10. TypeOK'
  <2>1. stats' \in StatsFile
    BY <1>1, <1>3, <1>9 DEF TypeOK
  <2> QED BY <1>1, <1>2, <1>7, <1>8, <2>1, SoundTyped DEF TypeOK, past
<1>11. Numbered' /\ (Calm' <=> Calm)
  BY <1>1, <1>2 DEF Numbered, Calm, bounds
<1>12. Control'
  BY <1>2, <1>4, <1>5, <1>6, <1>7, <1>8, NoFile DEF Control
<1>13. Observing'
  BY <1>1, <1>2, <1>4, <1>5, <1>6, <1>7, NoFile, ConstantsAre DEF Observing, Threads
<1>14. \A j \in Instances, c \in Channels, h \in Hours :
         Of(registry[j].channels[c], h)' = IF j = serving THEN Of(registry[j].channels[c], h) ELSE Zero
  BY <1>6, <1>7
<1>15. AllFull'
  <2>1. \A c \in Channels, h \in Hours : Full(stats'[c][h])
    BY <1>1, <1>3, <1>5, <1>9 DEF AllFull, Full, Zero
  <2> QED BY <1>1, <1>2, <1>14, <2>1 DEF AllFull, Full, Zero
<1>16. ASSUME Calm PROVE Timely' /\ Counted' /\ HandedOver' /\ InFile'
  <2>1. Timely /\ Counted /\ HandedOver /\ InFile
    BY <1>16 DEF Safe
  <2>2. Window' = Window /\ Window \subseteq Hours
    BY <1>1, <1>2, Typed DEF Window
  <2>3. Timely'
    <3>1. \A j \in Instances, c \in Channels, h \in Hours : ~Past(h) => Of(registry[j].channels[c], h)' = Zero
      BY <1>14, <2>1 DEF Timely
    <3>2. \A c \in Channels, h \in Hours : ~Past(h) => stats'[c][h] = Zero
      BY <1>3, <1>9, <2>1 DEF Timely, Past, Window
    <3> QED BY <1>2, <1>8, <2>1, <2>2, <3>1, <3>2 DEF Timely, Past, past
  <2>4. \A c \in Channels, h \in Hours : Tokens(serving, c, h)' = Tokens(serving, c, h)
    BY <1>2, <1>4, <1>14 DEF Tokens
  <2>5. \A j, c, h : Taken(j, c, h)' = Taken(j, c, h) /\ Fresh(j, c, h)' = Fresh(j, c, h)
    BY <1>2 DEF Taken, Fresh
  <2>6. Counted'
    BY <1>2, <1>4, <2>1, <2>2, <2>4, <2>5 DEF Counted, past
  <2>7. HandedOver'
    BY <1>2, <1>5, NoFile DEF HandedOver
  <2>8. FileHeld'
    <3>1. /\ registry[serving].flushed <= registry[serving].generation
          /\ registry[serving].flushed = registry[serving].generation =>
               \A c \in Channels, h \in Window : Same(serving, c, h, stats[c][h])
      BY <1>4, <2>1 DEF InFile, FileHeld
    <3>2. registry[serving].flushed = registry[serving].generation => stats' = stats
      BY <1>1, <1>3, <2>1, OneToFlush
    <3>3. stats' = stats => \A c \in Channels, h \in Window : Same(serving, c, h, stats[c][h]) => Same(serving, c, h, stats[c][h])'
      BY <1>2, <1>4, <1>14, <2>2, <2>5 DEF Same
    <3> QED BY <1>2, <1>6, <1>7, <2>2, <3>1, <3>2, <3>3 DEF FileHeld
  <2>9. JobHeld'
    BY <1>2, <1>5, NoFile DEF JobHeld
  <2>10. LinesHeld'
    BY <1>2, <1>8 DEF LinesHeld
  <2> QED BY <2>3, <2>6, <2>7, <2>8, <2>9, <2>10 DEF InFile
<1> QED BY <1>10, <1>11, <1>12, <1>13, <1>15, <1>16 DEF Safe

----------------------------------------------------------------------------
\* The environment

\* Calm ends with a restart or a clock turned back: types and control are
\* left.
LEMMA RestartSafe == ASSUME Safe, Restart PROVE Safe'
<1> DEFINE n == NewRegistry(Loaded)
<1>1. TypeOK /\ Numbered /\ Control /\ Observing /\ AllFull
  BY SafeIs
<1>2. /\ phase = "serving" /\ newer = None /\ job.op # "handoff"
      /\ registry' = [registry EXCEPT ![serving] = n]
      /\ thread' = [t \in Threads |-> Idle] /\ job' = NoJob
      /\ forgotten' = forgotten \cup {a \in Attempts : told[a] > 0}
      /\ seen' = [c \in Channels |-> IF c \in unwritten THEN [h \in Hours |-> stats[c][h].tokens] ELSE seen[c]]
      /\ counted' = counted \cup {a \in Attempts : told[a] > 0 /\ ChannelOf[a] \in unwritten}
      /\ unwritten' = {} /\ restarts' = restarts + 1
      /\ UNCHANGED <<now, cpa, journal, files, told, rollbacks, edits, handoffs>>
  BY DEF Restart
<1>3. serving \in Instances /\ AllSound
  BY <1>1, OwnerIs, SoundIs
<1>4. /\ Loaded \in Table /\ \A c \in Channels : Loaded[c] # None => Loaded[c].starts = <<>>
      /\ \A c \in Channels, h \in Hours : Of(Loaded[c], h) = IF h \in Window THEN stats[c][h] ELSE Zero
  BY <1>1, LoadedIs DEF TypeOK, AllFull
<1>5. Sound(n) /\ n.channels = Loaded /\ n.handoff = FALSE
  BY <1>4, NewIs
<1> HIDE DEF n
<1>6. AllSound' /\ \A j \in Instances : registry'[j] = IF j = serving THEN n ELSE registry[j]
  BY <1>2, <1>3, <1>5, OneSet
<1>7. TypeOK'
  <2>1. seen' \in [Channels -> [Hours -> Nat]]
    <3> SUFFICES ASSUME NEW c \in Channels
                 PROVE  (IF c \in unwritten THEN [h \in Hours |-> stats[c][h].tokens] ELSE seen[c]) \in [Hours -> Nat]
      BY <1>2
    <3>1. \A h \in Hours : stats[c][h].tokens \in Nat
      BY <1>1, Typed
    <3>2. seen[c] \in [Hours -> Nat]
      BY <1>1 DEF TypeOK
    <3> QED BY <3>1, <3>2
  <2>2. counted' \subseteq Attempts /\ forgotten' \subseteq Attempts
    BY <1>1, <1>2 DEF TypeOK
  <2>3. thread' \in [Threads -> Busy \cup {Idle}] /\ job' \in Job
    BY <1>1, <1>2, JobTyped
  <2> QED BY <1>1, <1>2, <1>6, <2>1, <2>2, <2>3, SoundTyped DEF TypeOK, cpa, files
<1>8. Numbered' /\ ~Calm'
  BY <1>1, <1>2 DEF Numbered, Calm
<1>9. Control'
  <2>1. ~registry[serving].handoff
    BY <1>1, <1>2 DEF Control
  <2> QED BY <1>1, <1>2, <1>3, <1>5, <1>6, <2>1, NoFile DEF Control, cpa
<1>10. Observing'
  <2>1. \A t \in Threads : thread'[t] = Idle
    BY <1>2
  <2> QED BY <2>1, ConstantsAre DEF Observing, Threads
<1>11. AllFull'
  <2>1. \A j \in Instances, c \in Channels, h \in Hours :
           Of(registry'[j].channels[c], h) = IF j = serving THEN (IF h \in Window THEN stats[c][h] ELSE Zero)
                                             ELSE Of(registry[j].channels[c], h)
    BY <1>4, <1>5, <1>6
  <2> QED BY <1>1, <1>2, <2>1, NoFile DEF AllFull, Full, Zero, files
<1> QED BY <1>7, <1>8, <1>9, <1>10, <1>11 DEF Safe

\* Of the parts that hold without Calm, the clock is only in the types.
LEMMA ClockIs ==
  ASSUME TypeOK, Control, Observing, AllFull, now' \in Hours,
         UNCHANGED <<registry, thread, job, cpa, journal, files, past>>
  PROVE  TypeOK' /\ Control' /\ Observing' /\ AllFull'
<1>1. TypeOK'
  BY DEF TypeOK, cpa, files, past
<1>2. Control' /\ Observing'
  BY DEF Control, Observing, cpa
<1>3. AllFull'
  BY DEF AllFull, files
<1> QED BY <1>1, <1>2, <1>3

LEMMA TurnClockBackSafe == ASSUME Safe, TurnClockBack PROVE Safe'
<1>1. TypeOK /\ Numbered /\ Control /\ Observing /\ AllFull
  BY SafeIs
<1>2. /\ now > 1 /\ now' = now - 1 /\ rollbacks' = rollbacks + 1
      /\ UNCHANGED <<registry, thread, job, cpa, journal, files, past, restarts, edits, handoffs>>
  BY DEF TurnClockBack
<1>3. now' \in Hours
  BY <1>1, <1>2, Typed, ConstantsAre DEF Hours
<1>4. TypeOK' /\ Control' /\ Observing' /\ AllFull'
  BY <1>1, <1>2, <1>3, ClockIs
<1>5. Numbered' /\ ~Calm'
  BY <1>1, <1>2 DEF Numbered, Calm
<1> QED BY <1>4, <1>5 DEF Safe

\* The hour that begins holds nothing yet, in memory or in a file.
LEMMA NextHourSafe == ASSUME Safe, NextHour PROVE Safe'
<1>1. TypeOK /\ Numbered /\ Control /\ Observing /\ AllFull
  BY SafeIs
<1>2. /\ now < LastHour /\ now' = now + 1
      /\ \A t \in Threads : thread[t] # Idle => thread[t].o.hour > now' - HoursKept
      /\ UNCHANGED <<registry, thread, job, cpa, journal, files, past, bounds>>
  BY DEF NextHour
<1>3. now \in Nat /\ now' \in Hours /\ Window \subseteq Hours
  BY <1>1, <1>2, Typed, ConstantsAre DEF Hours
<1>4. TypeOK' /\ Control' /\ Observing' /\ AllFull'
  BY <1>1, <1>2, <1>3, ClockIs
<1>5. Numbered' /\ (Calm' <=> Calm)
  BY <1>1, <1>2 DEF Numbered, Calm, bounds
<1>6. Window' \subseteq Window \cup {now'} /\ Window' \subseteq Hours
  <2> SUFFICES ASSUME NEW h \in Window' PROVE h \in Hours /\ (h \in Window \/ h = now')
    OBVIOUS
  <2>1. h \in Hours /\ h > now' - HoursKept /\ h <= now'
    BY DEF Window
  <2>2. h \in Nat /\ HoursKept \in Nat
    BY <2>1, ConstantsAre
  <2>3. h > now - HoursKept /\ (h <= now \/ h = now')
    BY <1>2, <1>3, <2>1, <2>2
  <2> QED BY <2>1, <2>3 DEF Window
<1>7. ~Past(now') /\ \A h \in Hours : ~Past(h)' => ~Past(h)
  BY <1>2, <1>3, ConstantsAre DEF Past
<1>8. ASSUME Calm PROVE Timely' /\ Counted' /\ HandedOver' /\ InFile'
  <2>1. Timely /\ Counted /\ HandedOver /\ InFile
    BY <1>8 DEF Safe
  <2>2. /\ \A i \in Instances, c \in Channels : Of(registry[i].channels[c], now') = Zero
        /\ \A c \in Channels : stats[c][now'] = Zero /\ job.file[c][now'] = Zero /\ seen[c][now'] = 0
    BY <1>3, <1>7, <2>1 DEF Timely
  <2>3. \A t \in Threads : thread[t] # Idle => thread[t].o.hour \in Window /\ thread[t].o.hour # now'
    BY <1>2, <1>3, <2>1, ConstantsAre DEF Timely, Window
  <2>4. Timely'
    <3>1. \A t \in Threads : thread[t] # Idle => thread[t].o.hour \in Window'
      BY <1>2, <1>3, <2>3, ConstantsAre DEF Window
    <3>2. \A n \in DOMAIN journal.lines : Past(journal.lines[n].hour)'
      <4>1. \A n \in DOMAIN journal.lines : journal.lines[n].hour \in Nat /\ Past(journal.lines[n].hour)
        BY <1>1, <2>1, JournalTyped, ConstantsAre DEF Timely
      <4> QED BY <1>2, <1>3, <4>1 DEF Past
    <3> QED BY <1>2, <1>7, <2>1, <3>1, <3>2 DEF Timely, files, past
  <2>5. \A e, c : Taken(e, c, now') = 0 /\ Unannounced(e, c, now') = {}
    BY <2>3, ConstantsAre DEF Taken, Unannounced, IsOf
  <2>6. \A c : Lines(c, now') = {}
    <3>1. \A n \in journal.applied + 1 .. Len(journal.lines) : n \in DOMAIN journal.lines
      BY <1>1, JournalTyped
    <3> QED BY <1>7, <2>1, <3>1 DEF Lines, IsOf, Timely
  <2>7. \A e, c, h : Taken(e, c, h)' = Taken(e, c, h) /\ Unannounced(e, c, h)' = Unannounced(e, c, h)
    BY <1>2 DEF Taken, Unannounced
  <2>8. \A c, h : Lines(c, h)' = Lines(c, h) /\ Handed(c, h)' = Handed(c, h)
    BY <1>2 DEF Lines, Handed, Tokens, Taken, cpa, files
  <2>9. \A i, c, h : Tokens(i, c, h)' = Tokens(i, c, h) /\ Fresh(i, c, h)' = Fresh(i, c, h)
    BY <1>2 DEF Tokens, Fresh
  <2>10. Counted'
    <3> SUFFICES ASSUME newer # serving, NEW c \in Channels, NEW h \in Window'
                 PROVE  Tokens(serving, c, h) + Taken(serving, c, h) = seen[c][h]
      BY <1>2, <2>7, <2>9 DEF Counted, cpa, past
    <3>1. CASE h \in Window
      BY <2>1, <3>1 DEF Counted
    <3>2. CASE h = now'
      BY <1>1, <2>2, <2>5, <3>2, OwnerIs DEF Tokens, Zero
    <3> QED BY <1>6, <3>1, <3>2
  <2>11. HandedOver'
    <3> SUFFICES ASSUME job.op = "handoff" \/ phase = "quiesced" \/ newer # None, NEW c \in Channels, NEW h \in Window'
                 PROVE  seen[c][h] = Handed(c, h) + Cardinality(Lines(c, h)) + Cardinality(Unannounced(newer, c, h))
      BY <1>2, <2>7, <2>8 DEF HandedOver, cpa, past
    <3>1. CASE h \in Window
      BY <2>1, <3>1 DEF HandedOver
    <3>2. CASE h = now'
      <4>1. newer = None \/ newer \in Instances
        BY <1>1 DEF TypeOK
      <4>2. Handed(c, h) = 0
        BY <2>2, <2>5, <3>2, <4>1 DEF Handed, Tokens, Zero
      <4> QED BY <2>2, <2>5, <2>6, <3>2, <4>2, FS_EmptySet
    <3> QED BY <1>6, <3>1, <3>2
  <2>12. \A i \in Instances, c \in Channels : Same(i, c, now', stats[c][now']) /\ Same(i, c, now', job.file[c][now'])
    BY <2>2 DEF Same
  <2>13. \A i, c, h : \A total : Same(i, c, h, total)' <=> Same(i, c, h, total)
    BY <1>2, <2>9 DEF Same
  <2>14. Owner' = Owner
    BY <1>2 DEF Owner, cpa
  <2>15. FileHeld'
    <3> SUFFICES ASSUME NEW i \in {serving, newer} \ {None}
                 PROVE  /\ registry[i].flushed <= registry[i].generation
                        /\ registry[i].flushed = registry[i].generation =>
                             \A c \in Channels, h \in Window' : Same(i, c, h, stats[c][h])
      BY <1>2, <2>13 DEF FileHeld, cpa, files
    <3>1. i \in Instances
      BY <1>1 DEF TypeOK
    <3> QED BY <1>6, <2>1, <2>12, <3>1 DEF InFile, FileHeld
  <2>16. JobHeld'
    <3>1. job.step = "write" => Owner \in Instances
      BY <1>1, OwnerIs
    <3>2. job.step = "write" /\ job.seen = registry[Owner].generation =>
            \A c \in Channels, h \in Window' : Same(Owner, c, h, job.file[c][h])
      BY <1>6, <2>1, <2>12, <3>1 DEF InFile, JobHeld
    <3>3. job.op = "handoff" /\ job.seen = registry[serving].flushed =>
            \A c \in Channels, h \in Window' : stats[c][h] = job.file[c][h]
      BY <1>6, <2>1, <2>2 DEF InFile, JobHeld
    <3>4. job.step \in {"snapshot", "write"} => registry[Owner].flushed <= job.seen /\ job.seen <= registry[Owner].generation
      BY <2>1 DEF InFile, JobHeld
    <3> QED BY <1>2, <2>13, <2>14, <3>2, <3>3, <3>4 DEF JobHeld, cpa, files
  <2>17. LinesHeld'
    BY <1>2, <2>1 DEF InFile, LinesHeld, BusyBy, cpa
  <2> QED BY <2>4, <2>10, <2>11, <2>15, <2>16, <2>17 DEF InFile
<1> QED BY <1>4, <1>5, <1>8 DEF Safe

----------------------------------------------------------------------------
\* The theorems

LEMMA InitSafe == ASSUME Init PROVE Safe
<1>1. /\ registry = [i \in Instances |-> NewRegistry(NoChannels)]
      /\ thread = [t \in Threads |-> Idle] /\ job = NoJob
      /\ phase = "serving" /\ serving = (CHOOSE i \in Instances : TRUE) /\ newer = None
      /\ journal = NoJournal /\ stats = NoStats /\ metadata = {}
      /\ told = [a \in Attempts |-> 0] /\ counted = {} /\ seen = NoneSeen
      /\ forgotten = {} /\ unwritten = {}
  BY DEF Init
<1>2. now \in Hours /\ rollbacks \in Nat /\ restarts \in Nat
  BY ChannelStatsAssumption DEF Init, Hours
<1>3. serving \in Instances
  BY <1>1, ChannelStatsAssumption
<1>4. AllSound /\ \A i \in Instances : registry[i] = NewRegistry(NoChannels)
  BY <1>1, NoChannelsIs DEF AllSound, Sound
<1>5. /\ NoJob \in Job /\ NoStats \in StatsFile /\ NoJob.step = "none" /\ NoJob.op = "none" /\ NoJob.file = NoStats
  <2>1. NoStats \in StatsFile
    BY DEF NoStats, StatsFile, Zero, Total
  <2> QED BY <2>1 DEF NoJob, Job
<1>6. NoJournal \in Journal /\ NoJournal.lines = <<>> /\ NoJournal.applied = 0 /\ Len(NoJournal.lines) = 0
  BY DEF NoJournal, Journal
<1>7. NoneSeen \in [Channels -> [Hours -> Nat]] /\ \A c \in Channels, h \in Hours : NoneSeen[c][h] = 0
  BY DEF NoneSeen
<1>8. TypeOK
  BY <1>1, <1>2, <1>3, <1>4, <1>5, <1>6, <1>7 DEF TypeOK, AllSound, Sound
<1>9. \A t \in Threads : thread[t] = Idle
  BY <1>1
<1>10. Control
  BY <1>1, <1>3, <1>4, <1>6, NoFile, NoChannelsIs, ConstantsAre DEF Control
<1>11. Observing
  BY <1>9, ConstantsAre DEF Observing, Threads
<1>12. \A i \in Instances, c \in Channels, h \in Hours : Of(registry[i].channels[c], h) = Zero
  BY <1>4, NoChannelsIs
<1>13. AllFull
  BY <1>1, <1>12, NoFile DEF AllFull, Full, Zero
<1>14. Window \subseteq Hours
  BY DEF Window
<1>15. Timely
  BY <1>1, <1>6, <1>7, <1>9, <1>12, NoFile DEF Timely
<1>16. Counted
  <2>1. \A c, h : Taken(serving, c, h) = 0
    BY <1>9, ConstantsAre DEF Taken
  <2> QED BY <1>1, <1>3, <1>7, <1>12, <1>14, <2>1 DEF Counted, Tokens, Zero
<1>17. HandedOver
  BY <1>1, NoFile DEF HandedOver
<1>18. InFile
  <2>1. FileHeld
    BY <1>1, <1>3, <1>4, <1>12, <1>14, NoChannelsIs, NoFile DEF FileHeld, Same
  <2>2. JobHeld
    BY <1>1, NoFile DEF JobHeld
  <2>3. LinesHeld
    BY <1>1, <1>6, NoFile DEF LinesHeld
  <2> QED BY <2>1, <2>2, <2>3 DEF InFile
<1> QED BY <1>2, <1>8, <1>10, <1>11, <1>13, <1>15, <1>16, <1>17, <1>18 DEF Safe, Numbered

LEMMA StepSafe == Safe /\ [Next]_vars => Safe'
<1> SUFFICES ASSUME Safe, [Next]_vars PROVE Safe'
  OBVIOUS
<1>1. CASE UNCHANGED vars
  <2>1. UNCHANGED <<now, registry, thread, job, phase, serving, newer, journal, stats, metadata,
                    told, counted, seen, forgotten, unwritten, rollbacks, restarts>>
    BY <1>1 DEF vars, cpa, files, past, bounds
  <2>2. TypeOK' <=> TypeOK
    BY <2>1 DEF TypeOK
  <2>3. (Numbered' <=> Numbered) /\ (Calm' <=> Calm) /\ (Control' <=> Control) /\ (Observing' <=> Observing)
        /\ (AllFull' <=> AllFull)
    BY <2>1 DEF Numbered, Calm, Control, Observing, AllFull
  <2>4. Window' = Window /\ Owner' = Owner /\ \A h : Past(h)' = Past(h)
    BY <2>1 DEF Window, Owner, Past
  <2>5. \A i, c, h : /\ Tokens(i, c, h)' = Tokens(i, c, h) /\ Taken(i, c, h)' = Taken(i, c, h)
                     /\ Lines(c, h)' = Lines(c, h) /\ Unannounced(i, c, h)' = Unannounced(i, c, h)
                     /\ Handed(c, h)' = Handed(c, h) /\ Fresh(i, c, h)' = Fresh(i, c, h)
    BY <2>1 DEF Tokens, Taken, Lines, Unannounced, Handed, Fresh
  <2>6. Timely' <=> Timely
    BY <2>1, <2>4 DEF Timely
  <2>7. (Counted' <=> Counted) /\ (HandedOver' <=> HandedOver)
    BY <2>1, <2>4, <2>5 DEF Counted, HandedOver
  <2>8. InFile' <=> InFile
    BY <2>1, <2>4, <2>5 DEF InFile, FileHeld, JobHeld, LinesHeld, Same, BusyBy
  <2> QED BY <2>2, <2>3, <2>6, <2>7, <2>8 DEF Safe
<1>2. ASSUME NEW t \in Callers, NEW a \in Attempts, Report(t, a) PROVE Safe'
  BY <1>2, ReportSafe
<1>3. CASE Replay
  BY <1>3, ReplaySafe
<1>4. ASSUME NEW t \in Threads, Count(t) \/ Announce(t) PROVE Safe'
  BY <1>4, CountSafe, AnnounceSafe
<1>5. CASE BeginFlush \/ TakeSnapshot \/ Write \/ WriteFails \/ LockMeta \/ Evict
  BY <1>5, BeginFlushSafe, TakeSnapshotSafe, WriteSafe, WriteFailsSafe, LockMetaSafe, EvictSafe
<1>6. ASSUME NEW c \in Channels, BeginDelete(c) \/ UpdateMeta(c) PROVE Safe'
  BY <1>6, BeginDeleteSafe, UpdateMetaSafe
<1>7. CASE DropChannel \/ HandOff
  BY <1>7, DropChannelSafe, HandOffSafe
<1>8. ASSUME NEW i \in Instances, TakeOver(i) PROVE Safe'
  BY <1>8, TakeOverSafe
<1>9. CASE Switch \/ FollowEnds \/ Rollback
  BY <1>9, SwitchSafe, FollowEndsSafe, RollbackSafe
<1>10. CASE Restart \/ NextHour \/ TurnClockBack
  BY <1>10, RestartSafe, NextHourSafe, TurnClockBackSafe
<1> QED BY <1>1, <1>2, <1>3, <1>4, <1>5, <1>6, <1>7, <1>8, <1>9, <1>10 DEF Next

\* The invariant holds of every instance, through evictions, deletions,
\* replacements and writes that fail (stats.go, plugin/modules.go).
THEOREM ChannelsAreSafe == Spec => []Safe
<1>1. Init => Safe
  BY InitSafe
<1> QED BY <1>1, StepSafe, PTL DEF Spec

\* The registries, the flush under way, the journal and the file keep their
\* shape, and a channel recognizes recentStartsKept attempts at most
\* (stats.go:542).
THEOREM ChannelStatsTypeOK == Spec => []TypeOK
<1>1. Safe => TypeOK
  BY DEF Safe
<1> QED BY <1>1, ChannelsAreSafe, PTL

LEMMA SafeForgetsNothing == ASSUME Safe PROVE NothingForgotten
<1> SUFFICES ASSUME Steady, rollbacks = 0, restarts = 0, NEW c \in Channels, NEW h \in Window
             PROVE  /\ Of(registry[serving].channels[c], h).tokens = seen[c][h]
                    /\ registry[serving].generation = registry[serving].flushed =>
                         Of(registry[serving].channels[c], h) = stats[c][h]
  BY DEF NothingForgotten
<1>1. TypeOK /\ Counted /\ InFile
  BY DEF Safe, Calm
<1>2. newer = None /\ \A t \in Threads : thread[t] = Idle
  BY DEF Steady
<1>3. serving \in Instances /\ serving # None /\ h \in Hours
  BY <1>1, ConstantsAre, Typed DEF TypeOK
<1>4. Taken(serving, c, h) = 0 /\ ~Fresh(serving, c, h)
  BY <1>2, ConstantsAre DEF Taken, Fresh
<1>5. Tokens(serving, c, h) \in Nat
  BY <1>1, <1>3, Typed DEF Tokens
<1>6. Tokens(serving, c, h) = seen[c][h]
  BY <1>1, <1>2, <1>3, <1>4, <1>5 DEF Counted
<1>7. registry[serving].generation = registry[serving].flushed => Same(serving, c, h, stats[c][h])
  BY <1>1, <1>3 DEF InFile, FileHeld
<1> QED BY <1>4, <1>6, <1>7 DEF Tokens, Same

\* FlushStats reads the generation before the snapshot and an observation
\* raises it after it is counted, so a registry with no change to flush is
\* what its file says; and no eviction, deletion or replacement, completed or
\* rolled back, loses an observation or keeps one of a deleted channel
\* (stats.go:542, 805 and 823).
THEOREM NothingIsForgotten == Spec => []NothingForgotten
BY ChannelsAreSafe, SafeForgetsNothing, PTL

----------------------------------------------------------------------------
\* Sums

\* A set closed under successor, by the least number outside it.
LEMMA FromZeroOn ==
  ASSUME NEW S, 0 \in S, \A n \in Nat : n \in S => n + 1 \in S
  PROVE  Nat \subseteq S
<1> SUFFICES ASSUME Nat \ S # {} PROVE FALSE
  OBVIOUS
<1>1. PICK x \in Nat \ S : \A y \in Nat \ S : ~(<<y, x>> \in OpToRel(<, Nat))
  BY NatLessThanWellFounded, WFMin
<1>2. \A y \in Nat \ S : ~(y < x)
  BY <1>1 DEF OpToRel
<1>3. x # 0 /\ x - 1 \in Nat /\ x - 1 < x
  OBVIOUS
<1>4. x - 1 \in S /\ (x - 1) + 1 = x
  BY <1>2, <1>3
<1> QED BY <1>3, <1>4

\* Subsets by their size, for induction.
LEMMA Sizes ==
  ASSUME NEW S, IsFiniteSet(S)
  PROVE  \A s \in SUBSET S :
           /\ IsFiniteSet(s) /\ Cardinality(s) \in Nat /\ (Cardinality(s) = 0 <=> s = {})
           /\ \A x \in s : Cardinality(s \ {x}) = Cardinality(s) - 1 /\ s \ {x} \in SUBSET S
<1>1. \A s \in SUBSET S : IsFiniteSet(s)
  BY FS_Subset
<1>2. \A s \in SUBSET S : Cardinality(s) \in Nat /\ (Cardinality(s) = 0 <=> s = {})
  BY <1>1, FS_CardinalityType, FS_EmptySet
<1>3. \A s \in SUBSET S : \A x \in s : Cardinality(s \ {x}) = Cardinality(s) - 1
  BY <1>1, FS_RemoveElement
<1> QED BY <1>1, <1>2, <1>3

\* A property of the subsets, as the set P of those that have it.
LEMMA SubsetInduction ==
  ASSUME NEW S, IsFiniteSet(S), NEW P, {} \in P,
         \A s \in SUBSET S : s # {} /\ (\A x \in s : s \ {x} \in P) => s \in P
  PROVE  \A s \in SUBSET S : s \in P
<1> DEFINE N == {n \in Nat : \A s \in SUBSET S : Cardinality(s) = n => s \in P}
<1>1. 0 \in N
  BY Sizes
<1>2. ASSUME NEW n \in Nat, n \in N PROVE n + 1 \in N
  <2> SUFFICES ASSUME NEW s \in SUBSET S, Cardinality(s) = n + 1 PROVE s \in P
    OBVIOUS
  <2>1. s # {} /\ \A x \in s : s \ {x} \in SUBSET S /\ Cardinality(s \ {x}) = n
    BY Sizes
  <2>2. \A x \in s : s \ {x} \in P
    BY <1>2, <2>1
  <2> QED BY <2>1, <2>2
<1> HIDE DEF N
<1>3. Nat \subseteq N
  BY <1>1, <1>2, FromZeroOn
<1> QED BY <1>3, Sizes DEF N

\* What folding a set gives, element by element.
Folding(S, pick, base, step, fold) ==
  \A s \in SUBSET S : fold[s] = IF s = {} THEN base ELSE step[<<pick[s], fold[s \ {pick[s]}]>>]

LEMMA FoldExists ==
  ASSUME NEW S, IsFiniteSet(S), NEW pick, \A s \in SUBSET S : s # {} => pick[s] \in s,
         NEW A, NEW base \in A, NEW step \in [S \X A -> A]
  PROVE  \E fold \in [SUBSET S -> A] : Folding(S, pick, base, step, fold)
<1> DEFINE Small(n) == {s \in SUBSET S : Cardinality(s) <= n}
           After(s, fold) == IF s = {} THEN base ELSE step[<<pick[s], fold[s \ {pick[s]}]>>]
           N == {n \in Nat : \E fold \in [Small(n) -> A] : \A s \in Small(n) : fold[s] = After(s, fold)}
<1>1. 0 \in N
  <2> DEFINE fold == [s \in Small(0) |-> base]
  <2>1. \A s \in Small(0) : s = {}
    BY Sizes
  <2>2. fold \in [Small(0) -> A] /\ \A s \in Small(0) : fold[s] = After(s, fold)
    BY <2>1
  <2> HIDE DEF fold
  <2> QED BY <2>2
<1>2. ASSUME NEW n \in Nat, n \in N PROVE n + 1 \in N
  <2>1. PICK before \in [Small(n) -> A] : \A s \in Small(n) : before[s] = After(s, before)
    BY <1>2
  <2> DEFINE fold == [s \in Small(n + 1) |-> After(s, before)]
  <2>2. \A s \in Small(n + 1) : s # {} => pick[s] \in S /\ s \ {pick[s]} \in Small(n)
    <3> SUFFICES ASSUME NEW s \in Small(n + 1), s # {} PROVE pick[s] \in S /\ s \ {pick[s]} \in Small(n)
      OBVIOUS
    <3>1. pick[s] \in s
      OBVIOUS
    <3> QED BY <3>1, Sizes
  <2>3. \A s \in Small(n + 1) : After(s, before) \in A
    <3> HIDE DEF Small
    <3> QED BY <2>2
  <2>4. \A s \in Small(n) : s \in Small(n + 1)
    BY Sizes
  <2> HIDE DEF Small
  <2>5. \A s \in Small(n) : fold[s] = before[s]
    BY <2>1, <2>4
  <2>6. fold \in [Small(n + 1) -> A] /\ \A s \in Small(n + 1) : fold[s] = After(s, before)
    BY <2>3
  <2> HIDE DEF fold
  <2>7. \A s \in Small(n + 1) : After(s, before) = After(s, fold)
    BY <2>2, <2>5
  <2> HIDE DEF After
  <2>8. \E g \in [Small(n + 1) -> A] : \A s \in Small(n + 1) : g[s] = After(s, g)
    BY <2>6, <2>7
  <2> QED BY <2>8
<1> HIDE DEF N
<1>3. Nat \subseteq N
  BY <1>1, <1>2, FromZeroOn
<1>4. Cardinality(S) \in N
  BY <1>3, Sizes
<1>5. Small(Cardinality(S)) = SUBSET S
  BY FS_Subset, Sizes
<1> HIDE DEF Small
<1> QED BY <1>4, <1>5 DEF N, Folding

Pick(s) == CHOOSE x \in s : TRUE
Summing(v, S, sum) == \A s \in SUBSET S : sum[s] = IF s = {} THEN 0 ELSE v[Pick(s)] + sum[s \ {Pick(s)}]

LEMMA SumExists ==
  ASSUME NEW S, IsFiniteSet(S), NEW v \in [S -> Nat]
  PROVE  \E sum \in [SUBSET S -> Nat] : Summing(v, S, sum)
<1> DEFINE pick == [s \in SUBSET S |-> Pick(s)]
           step == [p \in S \X Nat |-> v[p[1]] + p[2]]
<1>1. \A s \in SUBSET S : s # {} => Pick(s) \in s
  BY DEF Pick
<1>2. step \in [S \X Nat -> Nat] /\ \A x \in S, n \in Nat : step[<<x, n>>] = v[x] + n
  OBVIOUS
<1>3. \A s \in SUBSET S : pick[s] = Pick(s)
  OBVIOUS
<1> HIDE DEF pick, step
<1>4. PICK sum \in [SUBSET S -> Nat] : Folding(S, pick, 0, step, sum)
  <2>1. \A s \in SUBSET S : s # {} => pick[s] \in s
    BY <1>1, <1>3
  <2>2. 0 \in Nat
    OBVIOUS
  <2> QED BY <1>2, <2>1, <2>2, FoldExists
<1>5. ASSUME NEW s \in SUBSET S PROVE sum[s] = IF s = {} THEN 0 ELSE v[Pick(s)] + sum[s \ {Pick(s)}]
  <2>1. CASE s = {}
    BY <1>4, <2>1 DEF Folding
  <2>2. CASE s # {}
    <3>1. Pick(s) \in S /\ sum[s \ {Pick(s)}] \in Nat
      BY <1>1, <2>2
    <3> QED BY <1>2, <1>3, <1>4, <2>2, <3>1 DEF Folding
  <2> QED BY <2>1, <2>2
<1> QED BY <1>5 DEF Summing

LEMMA SumType ==
  ASSUME NEW S, IsFiniteSet(S), NEW v \in [S -> Nat], NEW sum, Summing(v, S, sum)
  PROVE  \A s \in SUBSET S : sum[s] \in Nat
<1> DEFINE P == {s \in SUBSET S : sum[s] \in Nat}
<1>1. {} \in P
  BY DEF Summing
<1>2. ASSUME NEW s \in SUBSET S, s # {}, \A x \in s : s \ {x} \in P PROVE s \in P
  <2>1. Pick(s) \in s
    BY <1>2 DEF Pick
  <2>2. sum[s] = v[Pick(s)] + sum[s \ {Pick(s)}]
    BY <1>2 DEF Summing
  <2> QED BY <1>2, <2>1, <2>2
<1> HIDE DEF P
<1>3. \A s \in SUBSET S : s \in P
  BY <1>1, <1>2, SubsetInduction
<1> QED BY <1>3 DEF P

\* A sum does not depend on the order.
Removing(v, S, sum) ==
  sum[{}] = 0 /\ \A s \in SUBSET S : sum[s] \in Nat /\ \A x \in s : sum[s] = v[x] + sum[s \ {x}]

\* By induction over sizes: any element may be taken out first.
LEMMA SumRemoves ==
  ASSUME NEW S, IsFiniteSet(S), NEW v \in [S -> Nat], NEW sum, Summing(v, S, sum)
  PROVE  Removing(v, S, sum)
<1> DEFINE P == {s \in SUBSET S : sum[s] \in Nat /\ \A x \in s : sum[s] = v[x] + sum[s \ {x}]}
<1>1. {} \in P
  BY DEF Summing
<1>2. ASSUME NEW s \in SUBSET S, s # {}, \A x \in s : s \ {x} \in P PROVE s \in P
  <2> DEFINE c == Pick(s)
  <2>1. c \in s /\ v[c] \in Nat
    BY <1>2 DEF Pick
  <2>2. sum[s] = v[c] + sum[s \ {c}]
    BY <1>2 DEF Summing
  <2>3. sum[s \ {c}] \in Nat /\ \A x \in s \ {c} : sum[s \ {c}] = v[x] + sum[(s \ {c}) \ {x}]
    BY <1>2, <2>1
  <2> HIDE DEF c
  <2>4. ASSUME NEW x \in s PROVE sum[s] = v[x] + sum[s \ {x}]
    <3>1. CASE x = c
      BY <2>2, <3>1
    <3>2. CASE x # c
      <4>1. sum[s \ {c}] = v[x] + sum[(s \ {c}) \ {x}]
        BY <2>3, <3>2
      <4>2. s \ {x} \in P /\ c \in s \ {x}
        BY <1>2, <2>1, <3>2
      <4>3. sum[s \ {x}] = v[c] + sum[(s \ {x}) \ {c}]
        BY <4>2
      <4>4. (s \ {x}) \ {c} = (s \ {c}) \ {x}
        OBVIOUS
      <4>5. sum[(s \ {c}) \ {x}] \in Nat /\ v[x] \in Nat
        BY SumType
      <4> QED BY <2>1, <2>2, <4>1, <4>3, <4>4, <4>5
    <3> QED BY <3>1, <3>2
  <2>5. sum[s] \in Nat
    BY <2>1, <2>2, <2>3
  <2> QED BY <2>4, <2>5
<1> HIDE DEF P
<1>3. \A s \in SUBSET S : s \in P
  BY <1>1, <1>2, SubsetInduction
<1>4. sum[{}] = 0
  BY DEF Summing
<1> QED BY <1>3, <1>4 DEF P, Removing

\* SumOver is such a sum.
LEMMA SumIs ==
  ASSUME NEW S, IsFiniteSet(S), NEW f \in [S -> Nat]
  PROVE  \E sum : Removing(f, S, sum) /\ SumOver(f, S) = sum[S]
<1> DEFINE After(s, sum) == IF s = {} THEN 0 ELSE f[Pick(s)] + sum[s \ {Pick(s)}]
<1>1. PICK sum \in [SUBSET S -> Nat] : Summing(f, S, sum)
  BY SumExists
<1>2. sum = [s \in SUBSET S |-> After(s, sum)]
  BY <1>1 DEF Summing
<1>3. SumOver(f, S) = (CHOOSE iter : iter = [s \in SUBSET S |-> After(s, iter)])[S]
  BY DEF SumOver, MapThenSumSet, MapThenFoldSet, Pick
<1>4. PICK iter : iter = [s \in SUBSET S |-> After(s, iter)] /\ SumOver(f, S) = iter[S]
  <2> HIDE DEF After
  <2> QED BY <1>2, <1>3
<1>5. Summing(f, S, iter)
  BY <1>4 DEF Summing
<1> QED BY <1>4, <1>5, SumRemoves

LEMMA SumNat ==
  ASSUME NEW S, IsFiniteSet(S), NEW f \in [S -> Nat]
  PROVE  SumOver(f, S) \in Nat
<1>1. PICK p : Removing(f, S, p) /\ SumOver(f, S) = p[S]
  BY SumIs
<1> QED BY <1>1 DEF Removing

\* Sums compare as what is added does.
LEMMA SumsOrdered ==
  ASSUME NEW S, IsFiniteSet(S), NEW f \in [S -> Nat], NEW g \in [S -> Nat], NEW p, Removing(f, S, p), NEW q, Removing(g, S, q),
         NEW T \in SUBSET S, \A x \in T : f[x] <= g[x]
  PROVE  p[T] <= q[T]
<1> DEFINE P == {s \in SUBSET S : (\A x \in s : f[x] <= g[x]) => p[s] <= q[s]}
<1>1. {} \in P
  <2>1. p[{}] = 0 /\ q[{}] = 0
    BY DEF Removing
  <2> QED BY <2>1
<1>2. ASSUME NEW s \in SUBSET S, s # {}, \A x \in s : s \ {x} \in P PROVE s \in P
  <2> SUFFICES ASSUME \A x \in s : f[x] <= g[x] PROVE p[s] <= q[s]
    OBVIOUS
  <2>1. PICK c \in s : TRUE
    BY <1>2
  <2>2. p[s] = f[c] + p[s \ {c}] /\ q[s] = g[c] + q[s \ {c}]
    BY <2>1 DEF Removing
  <2>3. p[s \ {c}] <= q[s \ {c}] /\ f[c] <= g[c]
    BY <1>2, <2>1
  <2>4. p[s \ {c}] \in Nat /\ q[s \ {c}] \in Nat /\ f[c] \in Nat /\ g[c] \in Nat
    BY <2>1 DEF Removing
  <2> QED BY <2>2, <2>3, <2>4
<1> HIDE DEF P
<1>3. \A s \in SUBSET S : s \in P
  BY <1>1, <1>2, SubsetInduction
<1> QED BY <1>3 DEF P

LEMMA SumLess ==
  ASSUME NEW S, IsFiniteSet(S), NEW f \in [S -> Nat], NEW g \in [S -> Nat], \A x \in S : f[x] <= g[x]
  PROVE  SumOver(f, S) <= SumOver(g, S)
<1>1. PICK p : Removing(f, S, p) /\ SumOver(f, S) = p[S]
  BY SumIs
<1>2. PICK q : Removing(g, S, q) /\ SumOver(g, S) = q[S]
  BY SumIs
<1> QED BY <1>1, <1>2, SumsOrdered

LEMMA SumOneMore ==
  ASSUME NEW S, IsFiniteSet(S), NEW f \in [S -> Nat], NEW g \in [S -> Nat], NEW c \in S, g[c] = f[c] + 1
  PROVE  /\ (\A x \in S \ {c} : g[x] <= f[x]) => SumOver(g, S) <= SumOver(f, S) + 1
         /\ (\A x \in S \ {c} : f[x] <= g[x]) => SumOver(f, S) + 1 <= SumOver(g, S)
<1>1. PICK p : Removing(f, S, p) /\ SumOver(f, S) = p[S]
  BY SumIs
<1>2. PICK q : Removing(g, S, q) /\ SumOver(g, S) = q[S]
  BY SumIs
<1>3. /\ p[S] = f[c] + p[S \ {c}] /\ q[S] = g[c] + q[S \ {c}]
      /\ p[S \ {c}] \in Nat /\ q[S \ {c}] \in Nat /\ f[c] \in Nat
  BY <1>1, <1>2 DEF Removing
<1>4. (\A x \in S \ {c} : g[x] <= f[x]) => q[S \ {c}] <= p[S \ {c}]
  BY <1>1, <1>2, SumsOrdered
<1>5. (\A x \in S \ {c} : f[x] <= g[x]) => p[S \ {c}] <= q[S \ {c}]
  BY <1>1, <1>2, SumsOrdered
<1> QED BY <1>1, <1>2, <1>3, <1>4, <1>5

LEMMA SumNothing ==
  ASSUME NEW S, IsFiniteSet(S), NEW f \in [S -> Nat], \A x \in S : f[x] = 0
  PROVE  SumOver(f, S) = 0
<1>1. PICK p : Removing(f, S, p) /\ SumOver(f, S) = p[S]
  BY SumIs
<1> DEFINE P == {s \in SUBSET S : p[s] = 0}
<1>2. {} \in P
  BY <1>1 DEF Removing
<1>3. ASSUME NEW s \in SUBSET S, s # {}, \A x \in s : s \ {x} \in P PROVE s \in P
  <2>1. PICK c \in s : TRUE
    BY <1>3
  <2>2. p[s] = f[c] + p[s \ {c}] /\ f[c] = 0 /\ p[s \ {c}] = 0
    BY <1>1, <1>3, <2>1 DEF Removing
  <2> QED BY <2>2
<1> HIDE DEF P
<1>4. S \in P
  BY <1>2, <1>3, SubsetInduction
<1> QED BY <1>1, <1>4 DEF P

LEMMA SumsAdd ==
  ASSUME NEW S, IsFiniteSet(S), NEW f \in [S -> Nat], NEW g \in [S -> Nat], NEW s \in [S -> Nat], \A x \in S : s[x] = f[x] + g[x]
  PROVE  SumOver(s, S) = SumOver(f, S) + SumOver(g, S)
<1>1. PICK p : Removing(f, S, p) /\ SumOver(f, S) = p[S]
  BY SumIs
<1>2. PICK q : Removing(g, S, q) /\ SumOver(g, S) = q[S]
  BY SumIs
<1>3. PICK r : Removing(s, S, r) /\ SumOver(s, S) = r[S]
  BY SumIs
<1> DEFINE P == {t \in SUBSET S : r[t] = p[t] + q[t]}
<1>4. {} \in P
  BY <1>1, <1>2, <1>3 DEF Removing
<1>5. ASSUME NEW t \in SUBSET S, t # {}, \A x \in t : t \ {x} \in P PROVE t \in P
  <2>1. PICK c \in t : TRUE
    BY <1>5
  <2>2. p[t] = f[c] + p[t \ {c}] /\ q[t] = g[c] + q[t \ {c}] /\ r[t] = s[c] + r[t \ {c}]
    BY <1>1, <1>2, <1>3, <2>1 DEF Removing
  <2>3. p[t \ {c}] \in Nat /\ q[t \ {c}] \in Nat /\ f[c] \in Nat /\ g[c] \in Nat
    BY <1>1, <1>2, <2>1 DEF Removing
  <2>4. r[t \ {c}] = p[t \ {c}] + q[t \ {c}] /\ s[c] = f[c] + g[c]
    BY <1>5, <2>1
  <2> QED BY <2>2, <2>3, <2>4
<1> HIDE DEF P
<1>6. S \in P
  BY <1>4, <1>5, SubsetInduction
<1> QED BY <1>1, <1>2, <1>3, <1>6 DEF P

\* The parts of a set add up to it.
LEMMA SumOfParts ==
  ASSUME NEW S, IsFiniteSet(S), NEW R, IsFiniteSet(R), NEW part \in [R -> S]
  PROVE  SumOver([x \in S |-> Cardinality({n \in R : part[n] = x})], S) = Cardinality(R)
<1> DEFINE size(r) == [x \in S |-> Cardinality({n \in r : part[n] = x})]
           P == {r \in SUBSET R : SumOver(size(r), S) = Cardinality(r)}
<1>1. ASSUME NEW r \in SUBSET R PROVE size(r) \in [S -> Nat]
  <2>1. \A x \in S : {n \in r : part[n] = x} \in SUBSET R
    OBVIOUS
  <2>2. \A x \in S : Cardinality({n \in r : part[n] = x}) \in Nat
    BY <2>1, FS_Subset, FS_CardinalityType
  <2> QED BY <2>2
<1>2. {} \in P
  <2>1. \A x \in S : {n \in {} : part[n] = x} = {}
    OBVIOUS
  <2>2. \A x \in S : size({})[x] = 0
    BY <2>1, FS_EmptySet
  <2>3. SumOver(size({}), S) = 0
    <3> HIDE DEF size
    <3> QED BY <1>1, <2>2, SumNothing
  <2> QED BY <2>3, FS_EmptySet
<1>3. ASSUME NEW r \in SUBSET R, r # {}, \A n \in r : r \ {n} \in P PROVE r \in P
  <2>1. PICK c \in r : TRUE
    BY <1>3
  <2> DEFINE before == r \ {c}
  <2>2. part[c] \in S /\ before \in SUBSET R /\ IsFiniteSet(before) /\ IsFiniteSet(r)
    BY <2>1, FS_Subset
  <2>3. size(r)[part[c]] = size(before)[part[c]] + 1
    <3> DEFINE u == {n \in before : part[n] = part[c]}
    <3>1. {n \in r : part[n] = part[c]} = u \cup {c} /\ c \notin u /\ IsFiniteSet(u)
      BY <2>1, <2>2, FS_Subset
    <3>2. Cardinality(u \cup {c}) = Cardinality(u) + 1
      <4> HIDE DEF u
      <4> QED BY <3>1, FS_AddElement
    <3> QED BY <2>2, <3>1, <3>2
  <2>4. \A x \in S \ {part[c]} : size(r)[x] = size(before)[x]
    <3> SUFFICES ASSUME NEW x \in S \ {part[c]} PROVE {n \in r : part[n] = x} = {n \in before : part[n] = x}
      OBVIOUS
    <3> QED OBVIOUS
  <2>5. size(r) \in [S -> Nat] /\ size(before) \in [S -> Nat]
    BY <1>1, <2>2
  <2>6. SumOver(size(r), S) = SumOver(size(before), S) + 1
    <3> HIDE DEF size, before
    <3>1. /\ \A x \in S \ {part[c]} : size(r)[x] <= size(before)[x] /\ size(before)[x] <= size(r)[x]
      BY <2>4, <2>5
    <3>2. SumOver(size(r), S) \in Nat /\ SumOver(size(before), S) \in Nat
      BY <2>5, SumNat
    <3> QED BY <2>2, <2>3, <2>5, <3>1, <3>2, SumOneMore
  <2>7. Cardinality(r) = Cardinality(before) + 1
    <3>1. r = before \cup {c} /\ c \notin before
      BY <2>1
    <3> HIDE DEF before
    <3> QED BY <2>2, <3>1, FS_AddElement
  <2>8. SumOver(size(before), S) = Cardinality(before)
    BY <1>3, <2>1
  <2> QED BY <2>6, <2>7, <2>8
<1> HIDE DEF P
<1>4. R \in P
  BY <1>2, <1>3, SubsetInduction
<1> QED BY <1>4 DEF P

----------------------------------------------------------------------------
\* What has been claimed of the counted attempts

Mine(c) == {a \in Attempts : ChannelOf[a] = c}
TokensOf(totals) == SumOver([h \in Hours |-> totals[h].tokens], Hours)
AttemptsOf(totals) == SumOver([h \in Hours |-> totals[h].attempts], Hours)
HeldOf(i, c) == [h \in Hours |-> Of(registry[i].channels[c], h)]

\* Observations on their way: lines to be replayed, observations the older
\* instance has counted and not journaled, and those a thread is to count.
Pending == journal.applied + 1 .. Len(journal.lines)
LinesOf(some) == {n \in Pending : journal.lines[n].attempt \in some}
Handing(t) == thread[t] # Idle /\ thread[t].step = "counted" /\ registry[thread[t].by].handoff
HandedBy(some) == {t \in Callers : Handing(t) /\ thread[t].o.attempt \in some}
Finding(who, some) == {t \in who : thread[t] # Idle /\ thread[t].step = "found" /\ thread[t].o.attempt \in some}
Left(some) == Cardinality(LinesOf(some)) + Cardinality(HandedBy(some))

\* How often an attempt may still be counted, by the instance that hands over
\* or by another one; and the records of a channel that were seen and are to
\* be counted by another one.
ToCome(older, a) ==
  2 - told[a] + IF older THEN Cardinality(Finding(Callers, {a})) ELSE Cardinality(Finding(Threads, {a})) + Left({a})
Owed(older, c) == IF older THEN 0 ELSE Left(Mine(c)) + Cardinality(Finding({Follower}, Mine(c)))

\* Each attempt of once has counted, each of twice two times; both are
\* accounted for, and what is to come does not make it three.
Claimed(totals, c, rem, allowed, again, known) ==
  \E once \in SUBSET (Mine(c) \cap allowed), twice \in SUBSET again :
    /\ twice \subseteq once
    /\ AttemptsOf(totals) <= Cardinality(once) + Cardinality(twice)
    /\ \A a \in once : rem[a] <= 1 /\ a \in again \cup known
    /\ \A a \in twice : rem[a] <= 0
Rem(older) == [a \in Attempts |-> ToCome(older, a)]
KnownTo(i, c) == {a \in Attempts : registry[i].channels[c] # None /\ Knows(registry[i].channels[c], a)}

Holding(totals, c, older, known) ==
  /\ Claimed(totals, c, Rem(older), counted, forgotten, known)
  /\ TokensOf(totals) + Owed(older, c) <= SumOver(seen[c], Hours)
MemoryClaimed(i, c) == Holding(HeldOf(i, c), c, registry[i].handoff, KnownTo(i, c))
FileClaimed(file, c) == Holding(file[c], c, FALSE, Attempts)
\* A deletion that is not written yet leaves the file to a restart.
StatsClaimed(c) ==
  /\ c \notin unwritten => FileClaimed(stats, c)
  /\ c \in unwritten => Claimed(stats[c], c, Rem(FALSE), Attempts, Attempts, Attempts)

\* What another instance is to count was counted.
HandedOn ==
  /\ \A n \in Pending : journal.lines[n].attempt \in counted
  /\ \A t \in Callers : Handing(t) => thread[t].o.attempt \in counted
  /\ thread[Follower] # Idle => thread[Follower].o.attempt \in counted
\* A deletion that is not written yet is a change to flush.
Unflushed ==
  /\ \A i \in {serving, newer} \ {None} : registry[i].flushed <= registry[i].generation
  /\ job.step \in {"snapshot", "write"} => registry[Owner].flushed <= job.seen /\ job.seen <= registry[Owner].generation
  /\ unwritten # {} =>
       /\ phase = "serving" /\ registry[serving].flushed < registry[serving].generation
       /\ job.step \in {"snapshot", "write"} => registry[serving].flushed < job.seen
ClaimedIn(c) ==
  /\ \A i \in {serving, newer} \ {None} : MemoryClaimed(i, c)
  /\ StatsClaimed(c)
  /\ job.step = "write" => FileClaimed(job.file, c)
\* CPA reports an attempt twice at most.
Few == \A a \in Attempts : ToCome(FALSE, a) <= 2
Accounted == HandedOn /\ Unflushed /\ Few /\ \A c \in Channels : ClaimedIn(c)

LEMMA HoursFinite == IsFiniteSet(Hours)
<1>1. 1 \in Int /\ LastHour \in Int
  BY ConstantsAre
<1> QED BY <1>1, FS_Interval, Zenon DEF Hours

LEMMA TotalsCompare ==
  ASSUME NEW T \in [Hours -> Total], NEW U \in [Hours -> Total]
  PROVE  /\ TokensOf(T) \in Nat /\ AttemptsOf(T) \in Nat
         /\ (\A h \in Hours : U[h].tokens <= T[h].tokens) => TokensOf(U) <= TokensOf(T)
         /\ (\A h \in Hours : U[h].attempts <= T[h].attempts) => AttemptsOf(U) <= AttemptsOf(T)
<1> DEFINE t(X) == [h \in Hours |-> X[h].tokens]
           a(X) == [h \in Hours |-> X[h].attempts]
<1>1. \A X \in [Hours -> Total] : t(X) \in [Hours -> Nat] /\ a(X) \in [Hours -> Nat]
  BY DEF Total
<1>2. t(T) \in [Hours -> Nat] /\ a(T) \in [Hours -> Nat] /\ t(U) \in [Hours -> Nat] /\ a(U) \in [Hours -> Nat]
  BY <1>1
<1>3. /\ (\A h \in Hours : U[h].tokens <= T[h].tokens) => \A h \in Hours : t(U)[h] <= t(T)[h]
      /\ (\A h \in Hours : U[h].attempts <= T[h].attempts) => \A h \in Hours : a(U)[h] <= a(T)[h]
  OBVIOUS
<1> HIDE DEF t, a
<1>4. /\ SumOver(t(T), Hours) \in Nat /\ SumOver(a(T), Hours) \in Nat
      /\ (\A h \in Hours : U[h].tokens <= T[h].tokens) => SumOver(t(U), Hours) <= SumOver(t(T), Hours)
      /\ (\A h \in Hours : U[h].attempts <= T[h].attempts) => SumOver(a(U), Hours) <= SumOver(a(T), Hours)
  BY <1>2, <1>3, HoursFinite, SumNat, SumLess
<1> QED BY <1>4 DEF TokensOf, AttemptsOf, t, a

\* What holds no more claims no more, as long as what has counted is still
\* accounted for.
LEMMA ClaimedLess ==
  ASSUME NEW T, NEW U, NEW c, NEW rem, NEW rem2, NEW allowed, NEW allowed2, NEW again, NEW again2, NEW known, NEW known2,
         AttemptsOf(T) \in Nat, AttemptsOf(U) \in Nat, AttemptsOf(U) <= AttemptsOf(T),
         \A a \in Mine(c) : rem[a] \in Int /\ rem2[a] \in Int /\ rem2[a] <= rem[a],
         \A a \in Mine(c) : rem[a] <= 1 =>
           /\ a \in allowed => a \in allowed2
           /\ a \in again => a \in again2
           /\ a \in allowed /\ a \in known => a \in again2 \cup known2,
         Claimed(T, c, rem, allowed, again, known)
  PROVE  Claimed(U, c, rem2, allowed2, again2, known2)
<1>1. PICK once \in SUBSET (Mine(c) \cap allowed), twice \in SUBSET again :
        /\ twice \subseteq once
        /\ AttemptsOf(T) <= Cardinality(once) + Cardinality(twice)
        /\ \A a \in once : rem[a] <= 1 /\ a \in again \cup known
        /\ \A a \in twice : rem[a] <= 0
  BY DEF Claimed
<1>2. \A a \in once : a \in Mine(c) /\ a \in allowed2 /\ rem2[a] <= 1 /\ a \in again2 \cup known2
  <2> SUFFICES ASSUME NEW a \in once PROVE a \in Mine(c) /\ a \in allowed2 /\ rem2[a] <= 1 /\ a \in again2 \cup known2
    OBVIOUS
  <2>1. a \in Mine(c) /\ a \in allowed
    BY <1>1
  <2> QED BY <1>1, <2>1
<1>3. \A a \in twice : a \in again2 /\ rem2[a] <= 0
  <2> SUFFICES ASSUME NEW a \in twice PROVE a \in again2 /\ rem2[a] <= 0
    OBVIOUS
  <2>1. a \in Mine(c) /\ a \in again /\ rem[a] <= 0 /\ a \in once
    BY <1>1
  <2> QED BY <1>1, <2>1
<1>4. once \in SUBSET (Mine(c) \cap allowed2) /\ twice \in SUBSET again2 /\ twice \subseteq once
  BY <1>1, <1>2, <1>3
<1>5. IsFiniteSet(once) /\ IsFiniteSet(twice)
  BY <1>1, FS_Subset, ChannelStatsAssumption DEF Mine
<1>6. AttemptsOf(U) <= Cardinality(once) + Cardinality(twice)
  BY <1>1, <1>5, FS_CardinalityType
<1> QED BY <1>2, <1>3, <1>4, <1>6 DEF Claimed

\* Nothing that holds nothing makes claims.
LEMMA ClaimedNothing ==
  ASSUME NEW T, NEW c, NEW rem, NEW allowed, NEW again, NEW known, AttemptsOf(T) = 0
  PROVE  Claimed(T, c, rem, allowed, again, known)
<1>1. {} \in SUBSET (Mine(c) \cap allowed) /\ {} \in SUBSET again /\ Cardinality({}) + Cardinality({}) = 0
  BY FS_EmptySet
<1> QED BY <1>1 DEF Claimed

\* One more attempt is counted.
LEMMA ClaimedOneMore ==
  ASSUME NEW T, NEW U, NEW c, NEW rem, NEW rem2, NEW allowed, NEW allowed2, NEW again, NEW again2, NEW known, NEW known2,
         AttemptsOf(T) \in Nat, AttemptsOf(U) \in Nat, AttemptsOf(U) <= AttemptsOf(T) + 1,
         \A a \in Mine(c) : rem[a] \in Int /\ rem2[a] \in Int /\ rem2[a] <= rem[a],
         Mine(c) \cap allowed \subseteq allowed2, again \subseteq again2,
         \A a \in Mine(c) \cap allowed \cap known : a \in again2 \cup known2,
         Claimed(T, c, rem, allowed, again, known),
         NEW b \in Mine(c), b \in allowed2, b \in again2 \cup known2, b \notin known, rem[b] \in 1..2, rem2[b] = rem[b] - 1
  PROVE  Claimed(U, c, rem2, allowed2, again2, known2)
<1>1. PICK once \in SUBSET (Mine(c) \cap allowed), twice \in SUBSET again :
        /\ twice \subseteq once
        /\ AttemptsOf(T) <= Cardinality(once) + Cardinality(twice)
        /\ \A a \in once : rem[a] <= 1 /\ a \in again \cup known
        /\ \A a \in twice : rem[a] <= 0
  BY DEF Claimed
<1>2. \A a \in once : a \in Mine(c) /\ rem2[a] <= 1 /\ a \in again2 \cup known2
  <2> SUFFICES ASSUME NEW a \in once PROVE a \in Mine(c) /\ rem2[a] <= 1 /\ a \in again2 \cup known2
    OBVIOUS
  <2>1. a \in Mine(c) /\ a \in allowed
    BY <1>1
  <2> QED BY <1>1, <2>1
<1>3. \A a \in twice : rem2[a] <= 0 /\ a \in again2
  BY <1>1
<1>4. IsFiniteSet(once) /\ IsFiniteSet(twice) /\ Cardinality(once) \in Nat /\ Cardinality(twice) \in Nat
  BY <1>1, FS_Subset, FS_CardinalityType, ChannelStatsAssumption DEF Mine
<1>5. b \notin twice
  BY <1>1
<1>6. CASE b \notin once
  <2> DEFINE more == once \cup {b}
  <2>1. more \in SUBSET (Mine(c) \cap allowed2) /\ twice \in SUBSET again2 /\ twice \subseteq more
    BY <1>1, <1>2, <1>3
  <2>2. Cardinality(more) = Cardinality(once) + 1
    BY <1>4, <1>6, FS_AddElement
  <2>3. \A a \in more : rem2[a] <= 1 /\ a \in again2 \cup known2
    BY <1>2
  <2> HIDE DEF more
  <2>4. AttemptsOf(U) <= Cardinality(more) + Cardinality(twice)
    BY <1>1, <1>4, <2>2
  <2> QED BY <1>3, <2>1, <2>3, <2>4 DEF Claimed
<1>7. CASE b \in once
  <2> DEFINE more == twice \cup {b}
  <2>1. b \in again /\ rem2[b] <= 0
    BY <1>1, <1>7
  <2>2. once \in SUBSET (Mine(c) \cap allowed2) /\ more \in SUBSET again2 /\ more \subseteq once
    BY <1>1, <1>2, <1>3, <1>7, <2>1
  <2>3. Cardinality(more) = Cardinality(twice) + 1
    BY <1>4, <1>5, FS_AddElement
  <2>4. \A a \in more : rem2[a] <= 0
    BY <1>3, <2>1
  <2> HIDE DEF more
  <2>5. AttemptsOf(U) <= Cardinality(once) + Cardinality(more)
    BY <1>1, <1>4, <2>3
  <2> QED BY <1>2, <2>2, <2>4, <2>5 DEF Claimed
<1> QED BY <1>6, <1>7

----------------------------------------------------------------------------
\* What is to come

Measured ==
  /\ \A some :
       /\ IsFiniteSet(LinesOf(some)) /\ Cardinality(LinesOf(some)) \in Nat
       /\ IsFiniteSet(HandedBy(some)) /\ Cardinality(HandedBy(some)) \in Nat
       /\ \A who \in {Callers, Threads, {Follower}} :
            IsFiniteSet(Finding(who, some)) /\ Cardinality(Finding(who, some)) \in Nat
       /\ Left(some) \in Nat /\ Left(some) = Cardinality(LinesOf(some)) + Cardinality(HandedBy(some))
  /\ \A a \in Attempts : told[a] \in 0..2 /\ ToCome(TRUE, a) \in Int /\ ToCome(FALSE, a) \in Int
  /\ \A a \in Attempts, older \in BOOLEAN : Rem(older)[a] = ToCome(older, a) /\ (ToCome(older, a) <= 1 => told[a] > 0)
  /\ \A c : Owed(TRUE, c) = 0 /\ Owed(FALSE, c) \in Nat
  /\ \A c \in Channels : SumOver(seen[c], Hours) \in Nat
  /\ \A i \in Instances, c \in Channels :
       HeldOf(i, c) \in [Hours -> Total] /\ \A h \in Hours : HeldOf(i, c)[h] = Of(registry[i].channels[c], h)

LEMMA MeasuredIs == ASSUME TypeOK PROVE Measured
<1>1. IsFiniteSet(Pending)
  <2>1. journal.applied + 1 \in Int /\ Len(journal.lines) \in Int
    BY JournalTyped
  <2> QED BY <2>1, FS_Interval DEF Pending
<1>2. IsFiniteSet(Callers) /\ IsFiniteSet({Follower}) /\ IsFiniteSet(Threads)
  BY ChannelStatsAssumption, FS_Singleton, FS_Union DEF Threads
<1>3. ASSUME NEW some
      PROVE  /\ IsFiniteSet(LinesOf(some)) /\ Cardinality(LinesOf(some)) \in Nat
             /\ IsFiniteSet(HandedBy(some)) /\ Cardinality(HandedBy(some)) \in Nat
             /\ \A who \in {Callers, Threads, {Follower}} :
                  IsFiniteSet(Finding(who, some)) /\ Cardinality(Finding(who, some)) \in Nat
  <2>1. LinesOf(some) \subseteq Pending /\ HandedBy(some) \subseteq Callers /\ \A who : Finding(who, some) \subseteq who
    BY DEF LinesOf, HandedBy, Finding
  <2>2. \A who \in {Callers, Threads, {Follower}} : IsFiniteSet(who)
    BY <1>2
  <2>3. IsFiniteSet(LinesOf(some)) /\ IsFiniteSet(HandedBy(some))
    BY <1>1, <1>2, <2>1, FS_Subset
  <2>4. \A who \in {Callers, Threads, {Follower}} : IsFiniteSet(Finding(who, some))
    BY <2>1, <2>2, FS_Subset
  <2> QED BY <2>3, <2>4, FS_CardinalityType
<1>4. \A some : Left(some) \in Nat /\ Left(some) = Cardinality(LinesOf(some)) + Cardinality(HandedBy(some))
  BY <1>3 DEF Left
<1>5. \A a \in Attempts : told[a] \in 0..2
  BY DEF TypeOK
<1>6. \A a \in Attempts : /\ ToCome(TRUE, a) \in Int /\ ToCome(FALSE, a) \in Int
                          /\ ToCome(TRUE, a) <= 1 \/ ToCome(FALSE, a) <= 1 => told[a] > 0
  <2> TAKE a \in Attempts
  <2>1. Cardinality(Finding(Callers, {a})) \in Nat /\ Cardinality(Finding(Threads, {a})) \in Nat /\ Left({a}) \in Nat
    BY <1>3, <1>4
  <2> QED BY <1>5, <2>1 DEF ToCome
<1>7. \A a \in Attempts, older \in BOOLEAN : Rem(older)[a] = ToCome(older, a) /\ (ToCome(older, a) <= 1 => told[a] > 0)
  BY <1>6 DEF Rem
<1>8. \A c : Owed(TRUE, c) = 0 /\ Owed(FALSE, c) \in Nat
  BY <1>3, <1>4 DEF Owed
<1>9. \A c \in Channels : SumOver(seen[c], Hours) \in Nat
  <2> TAKE c \in Channels
  <2>1. seen[c] \in [Hours -> Nat]
    BY DEF TypeOK
  <2> QED BY <2>1, SumNat, HoursFinite
<1>10. \A i \in Instances, c \in Channels :
         HeldOf(i, c) \in [Hours -> Total] /\ \A h \in Hours : HeldOf(i, c)[h] = Of(registry[i].channels[c], h)
  BY Typed DEF HeldOf
<1>11. \A some :
         /\ IsFiniteSet(LinesOf(some)) /\ Cardinality(LinesOf(some)) \in Nat
         /\ IsFiniteSet(HandedBy(some)) /\ Cardinality(HandedBy(some)) \in Nat
         /\ \A who \in {Callers, Threads, {Follower}} :
              IsFiniteSet(Finding(who, some)) /\ Cardinality(Finding(who, some)) \in Nat
         /\ Left(some) \in Nat /\ Left(some) = Cardinality(LinesOf(some)) + Cardinality(HandedBy(some))
  BY <1>3, <1>4
<1> QED BY <1>5, <1>6, <1>7, <1>8, <1>9, <1>10, <1>11 DEF Measured

LEMMA MeasuredNext == ASSUME TypeOK' PROVE Measured'
<1>1. (TypeOK => Measured)'
  BY MeasuredIs, PTL
<1> QED BY <1>1

In(t, some) == IF t \in some THEN 1 ELSE 0

LEMMA SplitAt ==
  ASSUME NEW X, IsFiniteSet(X), NEW t
  PROVE  /\ In(t, X) \in {0, 1} /\ Cardinality(X \ {t}) \in Nat /\ Cardinality(X) \in Nat
         /\ Cardinality(X) = Cardinality(X \ {t}) + In(t, X)
<1>1. IsFiniteSet(X \ {t}) /\ Cardinality(X \ {t}) \in Nat /\ Cardinality(X) \in Nat
  BY FS_Subset, FS_CardinalityType
<1>2. CASE t \in X
  <2>1. Cardinality(X \ {t}) = Cardinality(X) - 1 /\ In(t, X) = 1
    BY <1>2, FS_RemoveElement DEF In
  <2> QED BY <1>1, <2>1
<1>3. CASE t \notin X
  <2>1. X \ {t} = X /\ In(t, X) = 0
    BY <1>3 DEF In
  <2> QED BY <1>1, <2>1
<1> QED BY <1>2, <1>3

\* Sets that are the same but for t.
LEMMA OneApart ==
  ASSUME NEW X, NEW Y, IsFiniteSet(X), IsFiniteSet(Y), NEW t, X \ {t} = Y \ {t}
  PROVE  Cardinality(Y) = Cardinality(X) - In(t, X) + In(t, Y)
<1>1. In(t, X) \in {0, 1} /\ Cardinality(X \ {t}) \in Nat /\ Cardinality(X) = Cardinality(X \ {t}) + In(t, X)
  BY SplitAt
<1>2. In(t, Y) \in {0, 1} /\ Cardinality(Y) = Cardinality(Y \ {t}) + In(t, Y)
  BY SplitAt
<1> QED BY <1>1, <1>2

\* What one thread does changes the counts by itself only.
SameHandoffs == \A j \in Instances : registry'[j].handoff = registry[j].handoff

LEMMA OneMoves ==
  ASSUME TypeOK, TypeOK', NEW t \in Threads, OneThread(t), SameHandoffs, NEW some
  PROVE  /\ \A who \in {Callers, Threads, {Follower}} :
              Cardinality(Finding(who, some))' = Cardinality(Finding(who, some)) - In(t, Finding(who, some)) + In(t, Finding(who, some)')
         /\ Cardinality(HandedBy(some))' = Cardinality(HandedBy(some)) - In(t, HandedBy(some)) + In(t, HandedBy(some)')
<1>1. ASSUME NEW who \in {Callers, Threads, {Follower}}
      PROVE  Cardinality(Finding(who, some))' = Cardinality(Finding(who, some)) - In(t, Finding(who, some)) + In(t, Finding(who, some)')
  <2>1. Finding(who, some)' \ {t} = Finding(who, some) \ {t}
    BY ConstantsAre DEF Finding, OneThread, Threads
  <2>2. IsFiniteSet(Finding(who, some)) /\ IsFiniteSet(Finding(who, some)')
    BY MeasuredIs, MeasuredNext DEF Measured
  <2> QED BY <2>1, <2>2, OneApart
<1>2. Cardinality(HandedBy(some))' = Cardinality(HandedBy(some)) - In(t, HandedBy(some)) + In(t, HandedBy(some)')
  <2>1. HandedBy(some)' \ {t} = HandedBy(some) \ {t}
    <3>1. \A u \in Callers : u # t => thread'[u] = thread[u] /\ (thread[u] # Idle => thread[u].by \in Instances)
      BY ThreadTyped, ConstantsAre DEF OneThread
    <3> QED BY <3>1 DEF HandedBy, Handing, SameHandoffs
  <2>2. IsFiniteSet(HandedBy(some)) /\ IsFiniteSet(HandedBy(some)')
    BY MeasuredIs, MeasuredNext DEF Measured
  <2> QED BY <2>1, <2>2, OneApart
<1> QED BY <1>1, <1>2

----------------------------------------------------------------------------
\* Steps that count nothing

\* No more is to come to a holder than before, and no less is accounted for.
NoMoreToCome(c, older, older2) ==
  /\ \A a \in Mine(c) : ToCome(older2, a)' <= ToCome(older, a)
  /\ Owed(older2, c)' <= Owed(older, c)
Kept(c) ==
  /\ Mine(c) \cap counted \subseteq counted' /\ forgotten \subseteq forgotten'
  /\ SumOver(seen[c], Hours) <= SumOver(seen'[c], Hours)
Onward(c) == NoMoreToCome(c, FALSE, FALSE) /\ NoMoreToCome(c, TRUE, TRUE) /\ Kept(c)

NoMoreThan(U, T) == \A h \in Hours : U[h].tokens <= T[h].tokens /\ U[h].attempts <= T[h].attempts

LEMMA HoldingKept ==
  ASSUME TypeOK, TypeOK', NEW c \in Channels, NEW older \in BOOLEAN, NEW older2 \in BOOLEAN,
         NoMoreToCome(c, older, older2), Kept(c),
         NEW T \in [Hours -> Total], NEW U \in [Hours -> Total], NoMoreThan(U, T),
         NEW known, NEW known2,
         \A a \in Mine(c) \cap counted \cap known : told[a] > 0 => a \in forgotten' \cup known2,
         Holding(T, c, older, known)
  PROVE  /\ Claimed(U, c, Rem(older2)', counted', forgotten', known2)
         /\ TokensOf(U) + Owed(older2, c)' <= SumOver(seen'[c], Hours)
<1>1. /\ TokensOf(T) \in Nat /\ TokensOf(U) \in Nat /\ TokensOf(U) <= TokensOf(T)
      /\ AttemptsOf(T) \in Nat /\ AttemptsOf(U) \in Nat /\ AttemptsOf(U) <= AttemptsOf(T)
  BY TotalsCompare DEF NoMoreThan
<1>2. Measured /\ Measured'
  BY MeasuredIs, MeasuredNext
<1>3. \A a \in Mine(c) : /\ Rem(older)[a] \in Int /\ Rem(older2)'[a] \in Int /\ Rem(older2)'[a] <= Rem(older)[a]
                         /\ Rem(older)[a] <= 1 => told[a] > 0
  <2> SUFFICES ASSUME NEW a \in Mine(c)
               PROVE  /\ Rem(older)[a] \in Int /\ Rem(older2)'[a] \in Int /\ Rem(older2)'[a] <= Rem(older)[a]
                      /\ Rem(older)[a] <= 1 => told[a] > 0
    OBVIOUS
  <2>1. a \in Attempts
    BY DEF Mine
  <2>2. /\ Rem(older)[a] = ToCome(older, a) /\ ToCome(older, a) \in Int
        /\ ToCome(older, a) <= 1 => told[a] > 0
    BY <1>2, <2>1 DEF Measured
  <2>3. Rem(older2)'[a] = ToCome(older2, a)' /\ ToCome(older2, a)' \in Int
    BY <1>2, <2>1 DEF Measured
  <2>4. ToCome(older2, a)' <= ToCome(older, a)
    BY DEF NoMoreToCome
  <2> QED BY <2>2, <2>3, <2>4
<1>4. Claimed(U, c, Rem(older2)', counted', forgotten', known2)
  <2>1. Mine(c) \cap counted \subseteq counted' /\ forgotten \subseteq forgotten'
    BY DEF Kept
  <2>2. Claimed(T, c, Rem(older), counted, forgotten, known)
    BY DEF Holding
  <2>3. \A a \in Mine(c) : Rem(older)[a] <= 1 =>
          /\ a \in counted => a \in counted'
          /\ a \in forgotten => a \in forgotten'
          /\ a \in counted /\ a \in known => a \in forgotten' \cup known2
    BY <1>3, <2>1
  <2> QED BY <1>1, <1>3, <2>2, <2>3, ClaimedLess
<1>5. Owed(older2, c)' <= Owed(older, c) /\ Owed(older, c) \in Nat /\ Owed(older2, c)' \in Nat
  <2>1. Left(Mine(c)) \in Nat /\ Cardinality(Finding({Follower}, Mine(c))) \in Nat
    BY <1>2 DEF Measured
  <2>2. Left(Mine(c))' \in Nat /\ Cardinality(Finding({Follower}, Mine(c)))' \in Nat
    BY <1>2 DEF Measured
  <2>3. Owed(older, c) \in Nat /\ Owed(older2, c)' \in Nat
    BY <2>1, <2>2 DEF Owed
  <2> QED BY <2>3 DEF NoMoreToCome
<1>6. SumOver(seen[c], Hours) <= SumOver(seen'[c], Hours) /\ SumOver(seen[c], Hours) \in Nat /\ SumOver(seen'[c], Hours) \in Nat
  BY <1>2 DEF Kept, Measured
<1>7. TokensOf(T) + Owed(older, c) <= SumOver(seen[c], Hours)
  BY DEF Holding
<1> QED BY <1>1, <1>4, <1>5, <1>6, <1>7

\* An instance that holds no more than it, or a file, did.
LEMMA MemoryFrom ==
  ASSUME TypeOK, TypeOK', NEW c \in Channels, NEW older \in BOOLEAN, NEW i \in Instances,
         NoMoreToCome(c, older, TRUE) \/ ~registry'[i].handoff, NoMoreToCome(c, older, FALSE) \/ registry'[i].handoff,
         Kept(c), NEW T \in [Hours -> Total], NoMoreThan(HeldOf(i, c)', T), NEW known,
         \A a \in Mine(c) \cap counted \cap known : told[a] > 0 => a \in forgotten' \cup KnownTo(i, c)',
         Holding(T, c, older, known)
  PROVE  MemoryClaimed(i, c)'
<1> DEFINE U == HeldOf(i, c)'
           known2 == KnownTo(i, c)'
<1>1. U \in [Hours -> Total]
  BY MeasuredNext DEF Measured
<1>2. \A a \in Mine(c) \cap counted \cap known : told[a] > 0 => a \in forgotten' \cup known2
  OBVIOUS
<1>3. NoMoreThan(U, T)
  OBVIOUS
<1>4. registry'[i].handoff \in BOOLEAN
  BY DEF TypeOK, Registry
<1> HIDE DEF U, known2
<1>5. CASE registry'[i].handoff
  <2>1. /\ Claimed(U, c, Rem(TRUE)', counted', forgotten', known2)
        /\ TokensOf(U) + Owed(TRUE, c)' <= SumOver(seen'[c], Hours)
    BY <1>1, <1>2, <1>3, <1>5, HoldingKept
  <2>2. registry'[i].handoff = TRUE
    BY <1>4, <1>5
  <2> QED BY <2>1, <2>2 DEF MemoryClaimed, Holding, U, known2
<1>6. CASE ~registry'[i].handoff
  <2>1. /\ Claimed(U, c, Rem(FALSE)', counted', forgotten', known2)
        /\ TokensOf(U) + Owed(FALSE, c)' <= SumOver(seen'[c], Hours)
    BY <1>1, <1>2, <1>3, <1>6, HoldingKept
  <2>2. registry'[i].handoff = FALSE
    BY <1>4, <1>6
  <2> QED BY <2>1, <2>2 DEF MemoryClaimed, Holding, U, known2
<1> QED BY <1>5, <1>6

LEMMA MemoryKept ==
  ASSUME TypeOK, TypeOK', NEW c \in Channels, Onward(c), NEW i \in Instances, MemoryClaimed(i, c),
         registry'[i].handoff = registry[i].handoff, NoMoreThan(HeldOf(i, c)', HeldOf(i, c)),
         \A a \in Mine(c) \cap counted \cap KnownTo(i, c) : a \in forgotten' \cup KnownTo(i, c)'
  PROVE  MemoryClaimed(i, c)'
<1> DEFINE T == HeldOf(i, c)
           known == KnownTo(i, c)
           older == registry[i].handoff
<1>1. T \in [Hours -> Total] /\ older \in BOOLEAN
  BY MeasuredIs, Typed DEF Measured
<1>2. Holding(T, c, older, known)
  BY DEF MemoryClaimed
<1>3. \A a \in Mine(c) \cap counted \cap known : told[a] > 0 => a \in forgotten' \cup KnownTo(i, c)'
  OBVIOUS
<1>4. NoMoreThan(HeldOf(i, c)', T)
  OBVIOUS
<1>5. /\ NoMoreToCome(c, older, TRUE) \/ ~registry'[i].handoff
      /\ NoMoreToCome(c, older, FALSE) \/ registry'[i].handoff
  <2>1. CASE older = TRUE
    BY <2>1 DEF Onward
  <2>2. CASE older = FALSE
    BY <2>2 DEF Onward
  <2> QED BY <1>1, <2>1, <2>2
<1>6. Kept(c)
  BY DEF Onward
<1> HIDE DEF T, known, older
<1> QED BY <1>1, <1>2, <1>3, <1>4, <1>5, <1>6, MemoryFrom

\* A file made of what was held.
LEMMA FileFrom ==
  ASSUME TypeOK, TypeOK', NEW c \in Channels, NoMoreToCome(c, FALSE, FALSE), Kept(c), NEW T \in [Hours -> Total], NEW known,
         NEW U \in [Hours -> Total], NoMoreThan(U, T), Holding(T, c, FALSE, known)
  PROVE  /\ Claimed(U, c, Rem(FALSE)', counted', forgotten', Attempts)
         /\ TokensOf(U) + Owed(FALSE, c)' <= SumOver(seen'[c], Hours)
<1>1. \A a \in Mine(c) \cap counted \cap known : told[a] > 0 => a \in forgotten' \cup Attempts
  BY DEF Mine
<1> QED BY <1>1, HoldingKept

LEMMA FilesTyped == ASSUME TypeOK PROVE \A c \in Channels : stats[c] \in [Hours -> Total] /\ job.file[c] \in [Hours -> Total]
BY JobTyped DEF TypeOK, StatsFile

LEMMA FilesTypedNext == ASSUME TypeOK' PROVE \A c \in Channels : stats'[c] \in [Hours -> Total] /\ job'.file[c] \in [Hours -> Total]
<1>1. (TypeOK => \A c \in Channels : stats[c] \in [Hours -> Total] /\ job.file[c] \in [Hours -> Total])'
  BY FilesTyped, PTL
<1> QED BY <1>1

LEMMA SameIsNoMore == ASSUME NEW T \in [Hours -> Total] PROVE NoMoreThan(T, T)
BY DEF NoMoreThan, Total

LEMMA FileKept ==
  ASSUME TypeOK, TypeOK', NEW c \in Channels, Onward(c), NEW file \in StatsFile, FileClaimed(file, c)
  PROVE  /\ Claimed(file[c], c, Rem(FALSE)', counted', forgotten', Attempts)
         /\ TokensOf(file[c]) + Owed(FALSE, c)' <= SumOver(seen'[c], Hours)
<1>1. file[c] \in [Hours -> Total] /\ NoMoreThan(file[c], file[c])
  BY SameIsNoMore DEF StatsFile
<1>2. NoMoreToCome(c, FALSE, FALSE) /\ Kept(c) /\ Holding(file[c], c, FALSE, Attempts)
  BY DEF Onward, FileClaimed
<1> QED BY <1>1, <1>2, FileFrom

LEMMA StatsKept ==
  ASSUME TypeOK, TypeOK', NEW c \in Channels, Onward(c), StatsClaimed(c), stats'[c] = stats[c], c \in unwritten' <=> c \in unwritten
  PROVE  StatsClaimed(c)'
<1>1. stats \in StatsFile /\ stats[c] \in [Hours -> Total]
  BY FilesTyped DEF TypeOK
<1>2. CASE c \notin unwritten
  <2>1. FileClaimed(stats, c)
    BY <1>2 DEF StatsClaimed
  <2>2. /\ Claimed(stats[c], c, Rem(FALSE)', counted', forgotten', Attempts)
        /\ TokensOf(stats[c]) + Owed(FALSE, c)' <= SumOver(seen'[c], Hours)
    BY <1>1, <2>1, FileKept
  <2> QED BY <1>2, <2>2 DEF StatsClaimed, FileClaimed, Holding
<1>3. CASE c \in unwritten
  <2>1. Claimed(stats[c], c, Rem(FALSE), Attempts, Attempts, Attempts)
    BY <1>3 DEF StatsClaimed
  <2>2. AttemptsOf(stats[c]) \in Nat
    BY <1>1, TotalsCompare
  <2>3. \A a \in Mine(c) : Rem(FALSE)[a] \in Int /\ Rem(FALSE)'[a] \in Int /\ Rem(FALSE)'[a] <= Rem(FALSE)[a]
    <3>1. Measured /\ Measured' /\ \A a \in Mine(c) : a \in Attempts
      BY MeasuredIs, MeasuredNext DEF Mine
    <3> QED BY <3>1 DEF Measured, Onward, NoMoreToCome
  <2>4. Claimed(stats[c], c, Rem(FALSE)', Attempts, Attempts, Attempts)
    <3> DEFINE rem == Rem(FALSE)
               rem2 == Rem(FALSE)'
               T == stats[c]
    <3>1. Claimed(T, c, rem, Attempts, Attempts, Attempts)
      BY <2>1
    <3>2. \A a \in Mine(c) : rem[a] \in Int /\ rem2[a] \in Int /\ rem2[a] <= rem[a]
      BY <2>3
    <3>3. AttemptsOf(T) \in Nat
      BY <2>2
    <3> HIDE DEF rem, rem2, T
    <3>4. Claimed(T, c, rem2, Attempts, Attempts, Attempts)
      BY <3>1, <3>2, <3>3, ClaimedLess
    <3> QED BY <3>4 DEF rem2, T
  <2> QED BY <1>3, <2>4 DEF StatsClaimed
<1> QED BY <1>2, <1>3

LEMMA JobKept ==
  ASSUME TypeOK, TypeOK', NEW c \in Channels, Onward(c), job.step = "write" => FileClaimed(job.file, c),
         job'.step = "write" => job.step = "write" /\ job'.file = job.file
  PROVE  job'.step = "write" => FileClaimed(job.file, c)'
<1> SUFFICES ASSUME job'.step = "write" PROVE FileClaimed(job.file, c)'
  OBVIOUS
<1>1. job.file \in StatsFile /\ FileClaimed(job.file, c) /\ job'.file = job.file
  BY JobTyped
<1>2. /\ Claimed(job.file[c], c, Rem(FALSE)', counted', forgotten', Attempts)
      /\ TokensOf(job.file[c]) + Owed(FALSE, c)' <= SumOver(seen'[c], Hours)
  BY <1>1, FileKept
<1> QED BY <1>1, <1>2 DEF FileClaimed, Holding

\* No instance serves or is loaded that did not, and none holds more.
MemoriesStay(c) ==
  /\ {serving', newer'} \ {None} \subseteq {serving, newer} \ {None}
  /\ \A i \in {serving, newer} \ {None} :
       /\ registry'[i].handoff = registry[i].handoff /\ NoMoreThan(HeldOf(i, c)', HeldOf(i, c))
       /\ \A a \in Mine(c) \cap counted \cap KnownTo(i, c) : a \in forgotten' \cup KnownTo(i, c)'

LEMMA MemoriesKept ==
  ASSUME TypeOK, TypeOK', NEW c \in Channels, Onward(c), \A i \in {serving, newer} \ {None} : MemoryClaimed(i, c), MemoriesStay(c)
  PROVE  (\A i \in {serving, newer} \ {None} : MemoryClaimed(i, c))'
<1> SUFFICES ASSUME NEW i \in {serving', newer'} \ {None} PROVE MemoryClaimed(i, c)'
  OBVIOUS
<1>1. i \in Instances /\ i \in {serving, newer} \ {None}
  BY DEF TypeOK, MemoriesStay
<1>2. /\ MemoryClaimed(i, c) /\ registry'[i].handoff = registry[i].handoff /\ NoMoreThan(HeldOf(i, c)', HeldOf(i, c))
      /\ \A a \in Mine(c) \cap counted \cap KnownTo(i, c) : a \in forgotten' \cup KnownTo(i, c)'
  BY <1>1 DEF MemoriesStay
<1> QED BY <1>1, <1>2, MemoryKept

LEMMA ClaimsKept ==
  ASSUME TypeOK, TypeOK', NEW c \in Channels, Onward(c), ClaimedIn(c), MemoriesStay(c),
         stats'[c] = stats[c], c \in unwritten' <=> c \in unwritten,
         job'.step = "write" => job.step = "write" /\ job'.file = job.file
  PROVE  ClaimedIn(c)'
<1>1. (\A i \in {serving, newer} \ {None} : MemoryClaimed(i, c))'
  BY MemoriesKept DEF ClaimedIn
<1>2. StatsClaimed(c)'
  BY StatsKept DEF ClaimedIn
<1>3. job'.step = "write" => FileClaimed(job.file, c)'
  BY JobKept DEF ClaimedIn
<1> QED BY <1>1, <1>2, <1>3 DEF ClaimedIn

----------------------------------------------------------------------------
\* Steps that leave no more to come

Three == {Callers, Threads, {Follower}}
Fewer ==
  /\ told' = told
  /\ \A some : /\ LinesOf(some)' \subseteq LinesOf(some) /\ HandedBy(some)' \subseteq HandedBy(some)
               /\ \A who \in Three : Finding(who, some)' \subseteq Finding(who, some)

LEMMA FewerIs ==
  ASSUME TypeOK, told' = told, \A t \in Threads : thread'[t] \in {thread[t], Idle},
         (journal'.lines = journal.lines /\ journal'.applied = journal.applied) \/ journal' = NoJournal,
         \A t \in Callers : thread[t] # Idle /\ registry'[thread[t].by].handoff => registry[thread[t].by].handoff
  PROVE  Fewer /\ (HandedOn /\ counted \subseteq counted' => HandedOn')
<1>1. ASSUME NEW n \in Pending' PROVE n \in Pending /\ journal'.lines[n] = journal.lines[n]
  <2>1. CASE journal'.lines = journal.lines /\ journal'.applied = journal.applied
    BY <2>1 DEF Pending
  <2>2. CASE journal' = NoJournal
    <3>1. n \in 1..0
      BY <2>2, JournalTyped DEF Pending
    <3> QED BY <3>1
  <2> QED BY <2>1, <2>2
<1>2. \A t \in Callers : Handing(t)' => Handing(t) /\ thread'[t] = thread[t]
  BY ConstantsAre DEF Handing
<1>3. \A some : LinesOf(some)' \subseteq LinesOf(some)
  BY <1>1 DEF LinesOf
<1>4. \A some : HandedBy(some)' \subseteq HandedBy(some)
  BY <1>2 DEF HandedBy
<1>5. ASSUME NEW who \in Three, NEW some PROVE Finding(who, some)' \subseteq Finding(who, some)
  <2>1. who \subseteq Threads
    BY ConstantsAre DEF Three
  <2> QED BY <2>1 DEF Finding
<1>6. Fewer
  BY <1>3, <1>4, <1>5 DEF Fewer
<1>7. ASSUME HandedOn, counted \subseteq counted' PROVE HandedOn'
  <2>1. \A n \in Pending' : journal'.lines[n].attempt \in counted'
    BY <1>1, <1>7 DEF HandedOn
  <2>2. \A t \in Callers : Handing(t)' => thread'[t].o.attempt \in counted'
    BY <1>2, <1>7 DEF HandedOn
  <2>3. thread'[Follower] # Idle => thread'[Follower].o.attempt \in counted'
    BY <1>7, ConstantsAre DEF HandedOn
  <2> QED BY <2>1, <2>2, <2>3 DEF HandedOn
<1> QED BY <1>6, <1>7

LEMMA FewerCounts ==
  ASSUME TypeOK, TypeOK', Fewer, NEW some
  PROVE  /\ \A who \in Three : Cardinality(Finding(who, some))' <= Cardinality(Finding(who, some))
         /\ Left(some)' <= Left(some)
<1>1. Measured /\ Measured'
  BY MeasuredIs, MeasuredNext
<1>2. \A who \in Three : Cardinality(Finding(who, some))' <= Cardinality(Finding(who, some))
  <2> TAKE who \in Three
  <2> DEFINE X == Finding(who, some)
             Y == Finding(who, some)'
  <2>1. IsFiniteSet(X) /\ Y \subseteq X
    BY <1>1 DEF Measured, Fewer, Three
  <2> HIDE DEF X, Y
  <2>2. Cardinality(Y) <= Cardinality(X)
    BY <2>1, FS_Subset
  <2> QED BY <2>2 DEF X, Y
<1>3. Cardinality(LinesOf(some)') <= Cardinality(LinesOf(some)) /\ Cardinality(HandedBy(some)') <= Cardinality(HandedBy(some))
  <2>1. LinesOf(some)' \subseteq LinesOf(some) /\ HandedBy(some)' \subseteq HandedBy(some)
    BY DEF Fewer
  <2>2. IsFiniteSet(LinesOf(some)) /\ IsFiniteSet(HandedBy(some))
    BY <1>1 DEF Measured
  <2> QED BY <2>1, <2>2, FS_Subset
<1>4. Left(some)' <= Left(some)
  <2>1. /\ Left(some) = Cardinality(LinesOf(some)) + Cardinality(HandedBy(some))
        /\ Cardinality(LinesOf(some)) \in Nat /\ Cardinality(HandedBy(some)) \in Nat
    BY <1>1 DEF Measured
  <2>2. /\ Left(some)' = Cardinality(LinesOf(some))' + Cardinality(HandedBy(some))'
        /\ Cardinality(LinesOf(some))' \in Nat /\ Cardinality(HandedBy(some))' \in Nat
    BY <1>1 DEF Measured
  <2> QED BY <1>3, <2>1, <2>2
<1> QED BY <1>2, <1>4

\* The older instance waits for less than another one does.
LEMMA FewerOnward ==
  ASSUME TypeOK, TypeOK', Fewer, NEW c
  PROVE  NoMoreToCome(c, FALSE, FALSE) /\ NoMoreToCome(c, TRUE, TRUE) /\ NoMoreToCome(c, FALSE, TRUE)
<1>1. Measured /\ Measured'
  BY MeasuredIs, MeasuredNext
<1>2. \A some : /\ Cardinality(Finding(Callers, some)) \in Nat /\ Cardinality(Finding(Callers, some))' \in Nat
                /\ Cardinality(Finding(Threads, some)) \in Nat /\ Cardinality(Finding(Threads, some))' \in Nat
                /\ Cardinality(Finding({Follower}, some)) \in Nat /\ Cardinality(Finding({Follower}, some))' \in Nat
                /\ Left(some) \in Nat /\ Left(some)' \in Nat
  BY <1>1 DEF Measured
<1>3. \A some : /\ Cardinality(Finding(Callers, some))' <= Cardinality(Finding(Callers, some))
                /\ Cardinality(Finding(Threads, some))' <= Cardinality(Finding(Threads, some))
                /\ Cardinality(Finding({Follower}, some))' <= Cardinality(Finding({Follower}, some))
                /\ Left(some)' <= Left(some)
  BY FewerCounts DEF Three
<1>4. \A some : Cardinality(Finding(Callers, some)) <= Cardinality(Finding(Threads, some))
  <2> TAKE some
  <2>1. Finding(Callers, some) \subseteq Finding(Threads, some)
    BY ConstantsAre DEF Finding
  <2>2. IsFiniteSet(Finding(Threads, some))
    BY <1>1 DEF Measured
  <2> QED BY <2>1, <2>2, FS_Subset
<1>5. ASSUME NEW a \in Mine(c)
      PROVE  /\ ToCome(FALSE, a)' <= ToCome(FALSE, a) /\ ToCome(TRUE, a)' <= ToCome(TRUE, a)
             /\ ToCome(TRUE, a)' <= ToCome(FALSE, a)
  <2>1. told'[a] = told[a] /\ told[a] \in 0..2
    BY <1>1 DEF Mine, Measured, Fewer
  <2> QED BY <1>2, <1>3, <1>4, <2>1 DEF ToCome
<1>6. Owed(FALSE, c)' <= Owed(FALSE, c) /\ Owed(TRUE, c)' <= Owed(TRUE, c) /\ Owed(TRUE, c)' <= Owed(FALSE, c)
  BY <1>2, <1>3 DEF Owed
<1> QED BY <1>5, <1>6 DEF NoMoreToCome

\* What is to come to an attempt is to come to its channel.
LEMMA FewKept ==
  ASSUME TypeOK, TypeOK', Few, \A c \in Channels : NoMoreToCome(c, FALSE, FALSE)
  PROVE  Few'
<1> SUFFICES ASSUME NEW a \in Attempts PROVE ToCome(FALSE, a)' <= 2
  BY DEF Few
<1>1. ChannelOf[a] \in Channels /\ a \in Mine(ChannelOf[a])
  BY ConstantsAre DEF Mine
<1>2. ToCome(FALSE, a)' <= ToCome(FALSE, a) /\ ToCome(FALSE, a) <= 2
  BY <1>1 DEF NoMoreToCome, Few
<1>3. ToCome(FALSE, a) \in Int
  BY MeasuredIs DEF Measured
<1>4. ToCome(FALSE, a)' \in Int
  BY MeasuredNext DEF Measured
<1> DEFINE x == ToCome(FALSE, a)
           y == ToCome(FALSE, a)'
<1>5. x \in Int /\ y \in Int /\ y <= x /\ x <= 2
  BY <1>2, <1>3, <1>4
<1> HIDE DEF x, y
<1>6. y <= 2
  BY <1>5
<1> QED BY <1>6 DEF y

LEMMA SameIsKept ==
  ASSUME TypeOK, NEW c \in Channels, counted \subseteq counted', forgotten \subseteq forgotten', seen'[c] = seen[c]
  PROVE  Kept(c)
<1>1. SumOver(seen[c], Hours) \in Nat
  BY MeasuredIs DEF Measured
<1> QED BY <1>1 DEF Kept

LEMMA TablesStayMemories ==
  ASSUME TypeOK, SameTables, {serving', newer'} \ {None} \subseteq {serving, newer} \ {None}, forgotten \subseteq forgotten',
         \A i \in {serving, newer} \ {None} : registry'[i].handoff = registry[i].handoff, NEW c \in Channels
  PROVE  MemoriesStay(c)
<1> SUFFICES ASSUME NEW i \in {serving, newer} \ {None}
             PROVE  /\ NoMoreThan(HeldOf(i, c)', HeldOf(i, c))
                    /\ \A a \in Mine(c) \cap counted \cap KnownTo(i, c) : a \in forgotten' \cup KnownTo(i, c)'
  BY DEF MemoriesStay
<1>1. i \in Instances
  BY DEF TypeOK
<1>2. registry'[i].channels[c] = registry[i].channels[c]
  BY <1>1 DEF SameTables
<1>3. HeldOf(i, c)' = HeldOf(i, c) /\ KnownTo(i, c)' = KnownTo(i, c)
  BY <1>2 DEF HeldOf, KnownTo
<1>4. HeldOf(i, c) \in [Hours -> Total]
  BY <1>1, MeasuredIs DEF Measured
<1> QED BY <1>3, <1>4, SameIsNoMore

LEMMA QuietStep ==
  ASSUME TypeOK, TypeOK', Accounted, Fewer, HandedOn', Unflushed', counted \subseteq counted', forgotten \subseteq forgotten',
         seen' = seen, \A c \in Channels : MemoriesStay(c), stats' = stats, unwritten' = unwritten,
         job'.step = "write" => job.step = "write" /\ job'.file = job.file
  PROVE  Accounted'
<1>1. \A c \in Channels : NoMoreToCome(c, FALSE, FALSE)
  BY FewerOnward
<1>2. Few'
  BY <1>1, FewKept DEF Accounted
<1>3. ASSUME NEW c \in Channels PROVE ClaimedIn(c)'
  <2>1. Onward(c)
    BY FewerOnward, SameIsKept DEF Onward
  <2>2. ClaimedIn(c) /\ MemoriesStay(c)
    BY DEF Accounted
  <2> QED BY <2>1, <2>2, ClaimsKept
<1> QED BY <1>2, <1>3 DEF Accounted

\* Nothing under way is touched.
LEMMA UnmovedFewer ==
  ASSUME TypeOK, told' = told, thread' = thread, journal' = journal, counted' = counted,
         \A t \in Callers : thread[t] # Idle => registry'[thread[t].by].handoff = registry[thread[t].by].handoff
  PROVE  Fewer /\ (HandedOn => HandedOn')
BY FewerIs

LEMMA SameRegistries == registry' = registry => SameTables /\ SameNumbers
BY DEF SameTables, SameNumbers

LEMMA QuietJob ==
  ASSUME TypeOK, TypeOK', Accounted, Unflushed', UNCHANGED <<told, thread, journal, counted, seen, stats, unwritten, forgotten>>,
         SameTables, \A j \in Instances : registry'[j].handoff = registry[j].handoff,
         {serving', newer'} \ {None} \subseteq {serving, newer} \ {None},
         job'.step = "write" => job.step = "write" /\ job'.file = job.file
  PROVE  Accounted'
<1>1. \A t \in Callers : thread[t] # Idle => registry'[thread[t].by].handoff = registry[thread[t].by].handoff
  BY ThreadTyped, ConstantsAre
<1>2. Fewer /\ HandedOn'
  BY <1>1, UnmovedFewer DEF Accounted
<1>3. \A c \in Channels : MemoriesStay(c)
  <2>1. \A i \in {serving, newer} \ {None} : registry'[i].handoff = registry[i].handoff
    BY DEF TypeOK
  <2> QED BY <2>1, TablesStayMemories
<1> QED BY <1>2, <1>3, QuietStep

LEMMA BeginFlushAccounts == ASSUME Safe, Safe', Accounted, BeginFlush PROVE Accounted'
<1>1. TypeOK /\ TypeOK' /\ Control
  BY DEF Safe
<1>2. SameTables /\ SameNumbers
  BY SameRegistries DEF BeginFlush
<1>3. job'.step = "snapshot" /\ job'.seen = registry[Owner].generation /\ Owner' = Owner
  BY DEF BeginFlush, NoJob, Owner, cpa
<1>4. Unflushed'
  <2>1. Unflushed
    BY DEF Accounted
  <2>2. Owner \in {serving, newer} \ {None} /\ registry[Owner].generation \in Nat
    BY <1>1, OwnerIs, Typed DEF BeginFlush, TypeOK
  <2>3. registry[Owner].flushed <= registry[Owner].generation
    BY <2>1, <2>2 DEF Unflushed
  <2>4. unwritten # {} => Owner = serving
    BY <1>1, <2>1, OwnerIs DEF Unflushed
  <2> QED BY <1>3, <2>1, <2>2, <2>3, <2>4 DEF Unflushed, BeginFlush, cpa, past
<1> QED BY <1>1, <1>2, <1>3, <1>4, QuietJob DEF BeginFlush, cpa, files, past, SameNumbers

LEMMA UnflushedKept ==
  ASSUME TypeOK, Unflushed, SameNumbers, UNCHANGED <<serving, newer, phase, unwritten>>,
         job'.step \in {"snapshot", "write"} => job.step \in {"snapshot", "write"} /\ job'.seen = job.seen /\ Owner \in Instances
  PROVE  Unflushed'
<1>1. Owner' = Owner
  BY DEF Owner
<1>2. serving \in Instances /\ {serving, newer} \ {None} \subseteq Instances
  BY DEF TypeOK
<1> QED BY <1>1, <1>2 DEF Unflushed, SameNumbers

LEMMA LockMetaAccounts == ASSUME Safe, Safe', Accounted, LockMeta PROVE Accounted'
<1>1. TypeOK /\ TypeOK' /\ Unflushed
  BY DEF Safe, Accounted
<1>2. SameTables /\ SameNumbers
  BY SameRegistries DEF LockMeta
<1>3. job'.step \notin {"snapshot", "write"}
  BY JobTyped, <1>1 DEF LockMeta, Job, TypeOK, NoJob
<1>4. Unflushed'
  BY <1>1, <1>2, <1>3, UnflushedKept DEF LockMeta, cpa, past
<1> QED BY <1>1, <1>2, <1>3, <1>4, QuietJob DEF LockMeta, cpa, files, past, SameNumbers

LEMMA BeginDeleteAccounts == ASSUME Safe, Safe', Accounted, NEW c \in Channels, BeginDelete(c) PROVE Accounted'
<1>1. TypeOK /\ TypeOK' /\ Unflushed
  BY DEF Safe, Accounted
<1>2. SameTables /\ SameNumbers
  BY SameRegistries DEF BeginDelete
<1>3. job'.step \notin {"snapshot", "write"}
  BY DEF BeginDelete, NoJob
<1>4. Unflushed'
  BY <1>1, <1>2, <1>3, UnflushedKept DEF BeginDelete, cpa, past
<1> QED BY <1>1, <1>2, <1>3, <1>4, QuietJob DEF BeginDelete, cpa, past, SameNumbers

LEMMA UpdateMetaAccounts == ASSUME Safe, Safe', Accounted, NEW c \in Channels, UpdateMeta(c) PROVE Accounted'
<1>1. TypeOK /\ TypeOK' /\ Unflushed /\ Control
  BY DEF Safe, Accounted
<1>2. SameTables /\ SameNumbers
  BY SameRegistries DEF UpdateMeta
<1>3. job.step # "none" => Owner \in Instances
  BY <1>1, OwnerIs
<1>4. Unflushed'
  BY <1>1, <1>2, <1>3, UnflushedKept DEF UpdateMeta, cpa, past
<1> QED BY <1>1, <1>2, <1>4, QuietJob DEF UpdateMeta, cpa, past, SameNumbers

LEMMA ClockAccounts == ASSUME Safe, Safe', Accounted, NextHour \/ TurnClockBack PROVE Accounted'
<1>1. TypeOK /\ TypeOK' /\ Unflushed /\ Control
  BY DEF Safe, Accounted
<1>2. UNCHANGED <<registry, thread, job, cpa, journal, files, past>>
  BY DEF NextHour, TurnClockBack
<1>3. SameTables /\ SameNumbers
  BY <1>2, SameRegistries
<1>4. job.step # "none" => Owner \in Instances
  BY <1>1, OwnerIs
<1>5. Unflushed'
  BY <1>1, <1>2, <1>3, <1>4, UnflushedKept DEF cpa, past
<1> QED BY <1>1, <1>2, <1>3, <1>5, QuietJob DEF cpa, files, past, SameNumbers

LEMMA StutterAccounts == ASSUME Safe, Safe', Accounted, UNCHANGED vars PROVE Accounted'
<1>1. TypeOK /\ TypeOK' /\ Unflushed /\ Control
  BY DEF Safe, Accounted
<1>2. UNCHANGED <<registry, thread, job, cpa, journal, files, past>>
  BY DEF vars
<1>3. SameTables /\ SameNumbers
  BY <1>2, SameRegistries
<1>4. job.step # "none" => Owner \in Instances
  BY <1>1, OwnerIs
<1>5. Unflushed'
  BY <1>1, <1>2, <1>3, <1>4, UnflushedKept DEF cpa, past
<1> QED BY <1>1, <1>2, <1>3, <1>5, QuietJob DEF cpa, files, past, SameNumbers

LEMMA SwitchAccounts == ASSUME Safe, Safe', Accounted, Switch PROVE Accounted'
<1>1. TypeOK /\ TypeOK' /\ Unflushed /\ Control
  BY DEF Safe, Accounted
<1>2. SameTables /\ SameNumbers
  BY SameRegistries DEF Switch
<1>3. Owner = newer /\ Owner' = newer /\ newer \in Instances /\ serving' = newer /\ newer' = newer
  BY <1>1, OwnerIs DEF Switch, Owner
<1>4. unwritten = {} /\ unwritten' = {}
  BY <1>1 DEF Unflushed, Switch, past
<1>5. Unflushed'
  BY <1>1, <1>3, <1>4 DEF Unflushed, Switch
<1> QED BY <1>1, <1>2, <1>3, <1>5, QuietJob DEF Switch, files, past, SameNumbers

\* What is in memory is claimed by its snapshot.
LEMMA SnapshotClaimed ==
  ASSUME TypeOK, TypeOK', NEW c \in Channels, NEW i \in Instances, registry[i].handoff = FALSE, MemoryClaimed(i, c),
         NoMoreToCome(c, FALSE, FALSE), Kept(c), NEW file, file = Snapshot(registry[i].channels)
  PROVE  /\ file \in StatsFile
         /\ Claimed(file[c], c, Rem(FALSE)', counted', forgotten', Attempts)
         /\ TokensOf(file[c]) + Owed(FALSE, c)' <= SumOver(seen'[c], Hours)
<1> DEFINE T == HeldOf(i, c)
<1>1. T \in [Hours -> Total] /\ \A h \in Hours : T[h] = Of(registry[i].channels[c], h)
  BY MeasuredIs DEF Measured
<1>2. /\ file \in StatsFile
      /\ \A h \in Hours : file[c][h] = IF h \in Window THEN Of(registry[i].channels[c], h) ELSE Zero
  BY Typed, SnapshotIs
<1>3. file[c] \in [Hours -> Total]
  BY <1>2 DEF StatsFile
<1>4. NoMoreThan(file[c], T)
  <2> SUFFICES ASSUME NEW h \in Hours PROVE file[c][h].tokens <= T[h].tokens /\ file[c][h].attempts <= T[h].attempts
    BY DEF NoMoreThan
  <2>1. T[h] \in Total /\ file[c][h] \in {T[h], Zero}
    BY <1>1, <1>2
  <2> QED BY <2>1 DEF Total, Zero
<1>5. Holding(T, c, FALSE, KnownTo(i, c))
  BY DEF MemoryClaimed
<1> HIDE DEF T
<1> QED BY <1>1, <1>2, <1>3, <1>4, <1>5, FileFrom

LEMMA TakeSnapshotAccounts == ASSUME Safe, Safe', Accounted, TakeSnapshot PROVE Accounted'
<1>1. TypeOK /\ TypeOK' /\ Unflushed /\ Control
  BY DEF Safe, Accounted
<1>2. SameTables /\ SameNumbers
  BY SameRegistries DEF TakeSnapshot
<1>3. /\ job.step = "snapshot" /\ job'.step = "write" /\ job'.seen = job.seen
      /\ job'.file = Snapshot(registry[Owner].channels)
  BY <1>1 DEF TakeSnapshot, TypeOK, Job
<1>4. Owner \in {serving, newer} \ {None} /\ Owner \in Instances /\ registry[Owner].handoff = FALSE
  <2>1. Owner \in Instances /\ Owner \in {serving, newer} \ {None}
    BY <1>1, <1>3, OwnerIs, ConstantsAre DEF Owner
  <2>2. ~registry[Owner].handoff /\ registry[Owner].handoff \in BOOLEAN
    BY <1>1, <1>3, <2>1, OwnerIs, Typed, JobTyped DEF Control, TypeOK
  <2> QED BY <2>1, <2>2
<1>5. Unflushed'
  BY <1>1, <1>2, <1>3, <1>4, UnflushedKept DEF TakeSnapshot, cpa, past
<1>6. Fewer /\ HandedOn'
  BY <1>1, UnmovedFewer DEF TakeSnapshot, past, Accounted
<1>7. \A c \in Channels : Onward(c)
  BY <1>1, <1>6, FewerOnward, SameIsKept DEF Onward, TakeSnapshot, past
<1>8. Few'
  BY <1>1, <1>7, FewKept DEF Accounted, Onward
<1>9. ASSUME NEW c \in Channels PROVE ClaimedIn(c)'
  <2>1. ClaimedIn(c) /\ Onward(c)
    BY <1>7 DEF Accounted
  <2>2. MemoriesStay(c)
    BY <1>1, <1>2, TablesStayMemories DEF TakeSnapshot, cpa, past
  <2>3. (\A i \in {serving, newer} \ {None} : MemoryClaimed(i, c))'
    BY <1>1, <2>1, <2>2, MemoriesKept DEF ClaimedIn
  <2>4. StatsClaimed(c)'
    BY <1>1, <2>1, StatsKept DEF ClaimedIn, TakeSnapshot, files, past
  <2>5. FileClaimed(job.file, c)'
    <3>1. MemoryClaimed(Owner, c)
      BY <1>4, <2>1 DEF ClaimedIn
    <3>2. NoMoreToCome(c, FALSE, FALSE) /\ Kept(c)
      BY <2>1 DEF Onward
    <3>3. /\ Claimed(job'.file[c], c, Rem(FALSE)', counted', forgotten', Attempts)
          /\ TokensOf(job'.file[c]) + Owed(FALSE, c)' <= SumOver(seen'[c], Hours)
      BY <1>1, <1>3, <1>4, <3>1, <3>2, SnapshotClaimed
    <3> QED BY <3>3 DEF FileClaimed, Holding
  <2> QED BY <2>3, <2>4, <2>5 DEF ClaimedIn
<1> QED BY <1>5, <1>6, <1>8, <1>9 DEF Accounted

LEMMA StatsReplaced ==
  ASSUME TypeOK, TypeOK', NEW c \in Channels, Onward(c), ClaimedIn(c), job.step = "write", stats' = job.file, c \notin unwritten'
  PROVE  StatsClaimed(c)'
<1>1. job.file \in StatsFile /\ FileClaimed(job.file, c)
  BY JobTyped DEF ClaimedIn
<1>2. /\ Claimed(job.file[c], c, Rem(FALSE)', counted', forgotten', Attempts)
      /\ TokensOf(job.file[c]) + Owed(FALSE, c)' <= SumOver(seen'[c], Hours)
  BY <1>1, FileKept
<1> QED BY <1>2 DEF StatsClaimed, FileClaimed, Holding

LEMMA WriteAccounts == ASSUME Safe, Safe', Accounted, Write PROVE Accounted'
<1>1. TypeOK /\ TypeOK' /\ Unflushed /\ Control
  BY DEF Safe, Accounted
<1>2. /\ job.step = "write" /\ unwritten' = {} /\ job' = AfterWrite
      /\ phase' = IF job.op = "handoff" THEN "quiesced" ELSE phase
      /\ UNCHANGED <<now, thread, serving, newer, journal, metadata, told, counted, seen, forgotten, bounds>>
      /\ IF job.seen = registry[Owner].flushed THEN UNCHANGED <<registry, stats>>
         ELSE stats' = job.file /\ registry' = [registry EXCEPT ![Owner].flushed = job.seen]
  BY DEF Write, Flushed
<1>3. Owner \in Instances /\ job.seen \in Nat /\ AllSound /\ Owner \in {serving, newer} \ {None}
  BY <1>1, <1>2, OwnerIs, JobTyped, SoundIs, ConstantsAre DEF Owner
<1>4. /\ SameTables /\ OneNumbers(Owner) /\ registry'[Owner].flushed = job.seen
      /\ registry'[Owner].generation = registry[Owner].generation /\ registry'[Owner].handoff = registry[Owner].handoff
  <2>1. CASE job.seen = registry[Owner].flushed
    BY <1>2, <2>1 DEF SameTables, OneNumbers
  <2>2. CASE job.seen # registry[Owner].flushed
    <3>1. registry' = [registry EXCEPT ![Owner].flushed = job.seen]
      BY <1>2, <2>2
    <3> QED BY <1>3, <3>1, FlushedIs
  <2> QED BY <2>1, <2>2
<1>5. job'.step \notin {"snapshot", "write"}
  BY <1>1, <1>2, AfterWriteIs, JobTyped
<1>6. Unflushed'
  <2>1. \A i \in {serving, newer} \ {None} : i \in Instances /\ registry'[i].flushed <= registry'[i].generation
    <3> TAKE i \in {serving, newer} \ {None}
    <3>1. i \in Instances
      BY <1>1 DEF TypeOK
    <3>2. CASE i = Owner
      BY <1>1, <1>2, <1>3, <1>4, <3>1, <3>2 DEF Unflushed
    <3>3. CASE i # Owner
      BY <1>1, <1>4, <3>1, <3>3 DEF Unflushed, OneNumbers
    <3> QED BY <3>1, <3>2, <3>3
  <2> QED BY <1>2, <1>5, <2>1 DEF Unflushed
<1>7. \A j \in Instances : registry'[j].handoff = registry[j].handoff
  BY <1>4 DEF OneNumbers
<1>8. \A t \in Callers : thread[t] # Idle => registry'[thread[t].by].handoff = registry[thread[t].by].handoff
  BY <1>1, <1>7, ThreadTyped, ConstantsAre
<1>9. Fewer /\ HandedOn'
  BY <1>1, <1>2, <1>8, UnmovedFewer DEF Accounted
<1>10. \A c \in Channels : Onward(c)
  BY <1>1, <1>2, <1>9, FewerOnward, SameIsKept DEF Onward
<1>11. Few'
  BY <1>1, <1>10, FewKept DEF Accounted, Onward
<1>12. ASSUME NEW c \in Channels PROVE ClaimedIn(c)'
  <2>1. ClaimedIn(c) /\ Onward(c)
    BY <1>10 DEF Accounted
  <2>2. MemoriesStay(c)
    <3>1. \A i \in {serving, newer} \ {None} : registry'[i].handoff = registry[i].handoff
      BY <1>1, <1>7 DEF TypeOK
    <3> QED BY <1>1, <1>2, <1>4, <3>1, TablesStayMemories
  <2>3. (\A i \in {serving, newer} \ {None} : MemoryClaimed(i, c))'
    BY <1>1, <2>1, <2>2, MemoriesKept DEF ClaimedIn
  <2>4. StatsClaimed(c)'
    <3>1. CASE job.seen = registry[Owner].flushed
      <4>1. unwritten = {}
        BY <1>1, <1>2, <1>3, <3>1, OwnerIs, Typed DEF Unflushed
      <4> QED BY <1>1, <1>2, <2>1, <3>1, <4>1, StatsKept DEF ClaimedIn
    <3>2. CASE job.seen # registry[Owner].flushed
      BY <1>1, <1>2, <2>1, <3>2, StatsReplaced
    <3> QED BY <3>1, <3>2
  <2> QED BY <1>5, <2>3, <2>4 DEF ClaimedIn
<1> QED BY <1>6, <1>9, <1>11, <1>12 DEF Accounted

\* The older instance serves on: what is under way is its own.
LEMMA ResumeOnward ==
  ASSUME TypeOK, TypeOK', thread' = thread, told' = told, journal' = NoJournal, registry'[serving].handoff = FALSE,
         counted' = counted, \A t \in Callers : thread[t] # Idle => thread[t].by = serving, thread[Follower] = Idle
  PROVE  /\ Fewer /\ (HandedOn => HandedOn')
         /\ \A c \in Channels : NoMoreToCome(c, TRUE, FALSE)
<1>1. \A t \in Callers : thread[t] # Idle => ~registry'[thread[t].by].handoff
  OBVIOUS
<1>2. Fewer /\ (HandedOn => HandedOn')
  BY <1>1, FewerIs
<1>3. \A some : LinesOf(some)' = {} /\ HandedBy(some)' = {} /\ Finding({Follower}, some)' = {}
                /\ Finding(Threads, some)' = Finding(Callers, some)
  <2> TAKE some
  <2>1. Pending' = {}
    BY JournalTyped DEF Pending
  <2>2. LinesOf(some)' = {}
    BY <2>1 DEF LinesOf
  <2>3. HandedBy(some)' = {}
    BY <1>1 DEF HandedBy, Handing
  <2>4. Finding({Follower}, some)' = {}
    BY DEF Finding
  <2>5. Finding(Threads, some)' = Finding(Callers, some)
    BY DEF Finding, Threads
  <2> QED BY <2>2, <2>3, <2>4, <2>5
<1>4. Cardinality({}) = 0
  BY FS_EmptySet
<1>5. \A some : Left(some)' = 0
  BY <1>3, <1>4 DEF Left
<1>6. ASSUME NEW c \in Channels PROVE NoMoreToCome(c, TRUE, FALSE)
  <2>1. Owed(FALSE, c)' <= Owed(TRUE, c)
    BY <1>3, <1>4, <1>5 DEF Owed
  <2>2. ASSUME NEW a \in Mine(c) PROVE ToCome(FALSE, a)' <= ToCome(TRUE, a)
    <3>1. a \in Attempts /\ told[a] \in 0..2 /\ Cardinality(Finding(Callers, {a})) \in Nat
      BY MeasuredIs DEF Measured, Mine
    <3>2. Cardinality(Finding(Threads, {a}))' = Cardinality(Finding(Callers, {a})) /\ Left({a})' = 0
      BY <1>3, <1>5
    <3> QED BY <3>1, <3>2 DEF ToCome
  <2> QED BY <2>1, <2>2 DEF NoMoreToCome
<1> QED BY <1>2, <1>6

\* What an instance held goes on being held by it.
LEMMA OwnKept ==
  ASSUME TypeOK, TypeOK', NEW c \in Channels, Kept(c), NEW i \in Instances, MemoryClaimed(i, c),
         registry[i].handoff = TRUE, registry'[i].handoff = FALSE, NoMoreToCome(c, TRUE, FALSE),
         registry'[i].channels = registry[i].channels
  PROVE  MemoryClaimed(i, c)'
<1> DEFINE T == HeldOf(i, c)
           known == KnownTo(i, c)
<1>1. T \in [Hours -> Total] /\ Holding(T, c, TRUE, known)
  BY MeasuredIs DEF Measured, MemoryClaimed
<1>2. HeldOf(i, c)' = T /\ KnownTo(i, c)' = known
  BY DEF HeldOf, KnownTo
<1>3. NoMoreThan(HeldOf(i, c)', T)
  BY <1>1, <1>2, SameIsNoMore
<1>4. \A a \in Mine(c) \cap counted \cap known : told[a] > 0 => a \in forgotten' \cup KnownTo(i, c)'
  BY <1>2
<1>5. /\ NoMoreToCome(c, TRUE, TRUE) \/ ~registry'[i].handoff
      /\ NoMoreToCome(c, TRUE, FALSE) \/ registry'[i].handoff
  OBVIOUS
<1> HIDE DEF T, known
<1> QED BY <1>1, <1>3, <1>4, <1>5, MemoryFrom

LEMMA WriteFailsAccounts == ASSUME Safe, Safe', Accounted, WriteFails PROVE Accounted'
<1>1. TypeOK /\ TypeOK' /\ Unflushed /\ Control /\ Observing
  BY DEF Safe, Accounted
<1>2. /\ job.step = "write" /\ job.seen # registry[Owner].flushed /\ job' = AfterWrite
      /\ (stats' = stats /\ unwritten' = unwritten) \/ (stats' = job.file /\ unwritten' = {})
      /\ IF job.op = "handoff" THEN registry' = [registry EXCEPT ![serving].handoff = FALSE] /\ journal' = NoJournal
         ELSE UNCHANGED <<registry, journal>>
      /\ UNCHANGED <<now, thread, phase, serving, newer, metadata, told, counted, seen, forgotten, bounds>>
  BY DEF WriteFails, cpa
<1>3. Owner \in Instances /\ serving \in Instances /\ AllSound /\ {serving, newer} \ {None} \subseteq Instances
  BY <1>1, <1>2, OwnerIs, SoundIs DEF TypeOK
<1>4. /\ SameTables
      /\ \A j \in Instances : registry'[j].flushed = registry[j].flushed /\ registry'[j].generation = registry[j].generation
      /\ \A j \in Instances : registry'[j].handoff = IF job.op = "handoff" /\ j = serving THEN FALSE ELSE registry[j].handoff
  <2>1. CASE job.op = "handoff"
    <3>1. registry' = [registry EXCEPT ![serving].handoff = FALSE]
      BY <1>2, <2>1
    <3>2. /\ SameTables /\ OneNumbers(serving) /\ registry'[serving].handoff = FALSE
          /\ registry'[serving].generation = registry[serving].generation
          /\ registry'[serving].flushed = registry[serving].flushed
      BY <1>3, <3>1, HandoffIs
    <3> QED BY <2>1, <3>2 DEF OneNumbers
  <2>2. CASE job.op # "handoff"
    <3>1. registry' = registry
      BY <1>2, <2>2
    <3> QED BY <1>3, <2>2, <3>1 DEF SameTables
  <2> QED BY <2>1, <2>2
<1>5. job'.step \notin {"snapshot", "write"}
  BY <1>1, <1>2, AfterWriteIs, JobTyped
<1>6. Unflushed'
  <2>1. \A i \in {serving, newer} \ {None} : registry'[i].flushed <= registry'[i].generation
    BY <1>1, <1>3, <1>4 DEF Unflushed
  <2>2. unwritten' # {} => phase' = "serving" /\ registry'[serving].flushed < registry'[serving].generation
    BY <1>1, <1>2, <1>3, <1>4 DEF Unflushed
  <2> QED BY <1>2, <1>5, <2>1, <2>2 DEF Unflushed
<1>7. job.op = "handoff" => /\ newer = None /\ thread[Follower] = Idle /\ registry[serving].handoff = TRUE
                            /\ \A t \in Callers : thread[t] # Idle => thread[t].by = serving
  BY <1>1, <1>3, Typed, ConstantsAre DEF Control, Observing
<1>8. Fewer /\ HandedOn'
  <2>1. CASE job.op = "handoff"
    BY <1>1, <1>2, <1>3, <1>4, <1>7, <2>1, ResumeOnward DEF Accounted
  <2>2. CASE job.op # "handoff"
    <3>1. \A t \in Callers : thread[t] # Idle => registry'[thread[t].by].handoff = registry[thread[t].by].handoff
      BY <1>2, <2>2
    <3> QED BY <1>1, <1>2, <2>2, <3>1, UnmovedFewer DEF Accounted
  <2> QED BY <2>1, <2>2
<1>9. \A c \in Channels : Onward(c)
  BY <1>1, <1>2, <1>8, FewerOnward, SameIsKept DEF Onward
<1>10. Few'
  BY <1>1, <1>9, FewKept DEF Accounted, Onward
<1>11. ASSUME NEW c \in Channels PROVE ClaimedIn(c)'
  <2>1. ClaimedIn(c) /\ Onward(c)
    BY <1>9 DEF Accounted
  <2>2. (\A i \in {serving, newer} \ {None} : MemoryClaimed(i, c))'
    <3>1. CASE job.op = "handoff"
      <4>1. \A i \in {serving', newer'} \ {None} : i = serving
        BY <1>2, <1>7, <3>1
      <4>2. MemoryClaimed(serving, c) /\ registry'[serving].channels = registry[serving].channels /\ Kept(c)
        BY <1>3, <1>4, <2>1, ConstantsAre DEF ClaimedIn, SameTables, Onward
      <4>3. NoMoreToCome(c, TRUE, FALSE)
        BY <1>1, <1>2, <1>3, <1>4, <1>7, <3>1, ResumeOnward
      <4>4. registry'[serving].handoff = FALSE /\ registry[serving].handoff = TRUE
        BY <1>3, <1>4, <1>7, <3>1
      <4>5. MemoryClaimed(serving, c)'
        <5> DEFINE i == serving
        <5>1. /\ i \in Instances /\ MemoryClaimed(i, c) /\ registry[i].handoff = TRUE /\ registry'[i].handoff = FALSE
              /\ registry'[i].channels = registry[i].channels
          BY <1>3, <4>2, <4>4
        <5> QED BY <1>1, <1>2, <4>2, <4>3, <5>1, OwnKept
      <4> QED BY <1>2, <4>1, <4>5
    <3>2. CASE job.op # "handoff"
      <4>1. MemoriesStay(c)
        BY <1>1, <1>2, <1>3, <1>4, <3>2, TablesStayMemories
      <4> QED BY <1>1, <2>1, <4>1, MemoriesKept DEF ClaimedIn
    <3> QED BY <3>1, <3>2
  <2>3. StatsClaimed(c)'
    <3>1. CASE stats' = stats /\ unwritten' = unwritten
      BY <1>1, <2>1, <3>1, StatsKept DEF ClaimedIn
    <3>2. CASE stats' = job.file /\ unwritten' = {}
      BY <1>1, <1>2, <2>1, <3>2, StatsReplaced
    <3> QED BY <1>2, <3>1, <3>2
  <2> QED BY <1>5, <2>2, <2>3 DEF ClaimedIn
<1> QED BY <1>6, <1>8, <1>10, <1>11 DEF Accounted

LEMMA EvictAccounts == ASSUME Safe, Safe', Accounted, Evict PROVE Accounted'
<1>1. TypeOK /\ TypeOK' /\ Unflushed /\ Control
  BY DEF Safe, Accounted
<1> DEFINE gone == StillIdle(registry[Owner].channels)
<1>2. /\ job.step = "evict" /\ job' = NoJob /\ forgotten' = forgotten \cup {a \in counted : ChannelOf[a] \in gone}
      /\ registry' = [registry EXCEPT ![Owner].channels = [c \in Channels |-> IF c \in gone THEN None ELSE @[c]]]
      /\ UNCHANGED <<now, thread, cpa, journal, files, told, counted, seen, unwritten, bounds>>
  BY DEF Evict
<1>3. Owner \in Instances /\ {serving, newer} \ {None} \subseteq Instances /\ job'.step = "none"
  BY <1>1, <1>2, OwnerIs DEF TypeOK, NoJob
<1>4. /\ SameNumbers
      /\ \A j \in Instances, c \in Channels, h \in Hours :
           Of(registry'[j].channels[c], h) \in {Of(registry[j].channels[c], h), Zero}
      /\ \A j \in Instances, c \in Channels : j # Owner => registry'[j].channels[c] = registry[j].channels[c]
  BY <1>1, <1>3, EvictIs
<1>5. \A c \in Channels \ gone : registry'[Owner].channels[c] = registry[Owner].channels[c]
  <2>1. registry \in [Instances -> Registry] /\ registry[Owner] \in Registry
    BY <1>1, <1>3 DEF TypeOK
  <2>2. registry'[Owner].channels = [c \in Channels |-> IF c \in gone THEN None ELSE registry[Owner].channels[c]]
    <3> HIDE DEF gone
    <3> QED BY <1>2, <1>3, <2>1 DEF Registry
  <2> QED BY <2>2
<1>6. Unflushed'
  BY <1>1, <1>2, <1>3, <1>4, UnflushedKept DEF cpa
<1>7. \A t \in Callers : thread[t] # Idle => registry'[thread[t].by].handoff = registry[thread[t].by].handoff
  BY <1>1, <1>4, ThreadTyped, ConstantsAre DEF SameNumbers
<1>8. Fewer /\ HandedOn'
  BY <1>1, <1>2, <1>7, UnmovedFewer DEF Accounted
<1>9. ASSUME NEW c \in Channels PROVE MemoriesStay(c)
  <2> SUFFICES ASSUME NEW i \in {serving, newer} \ {None}
               PROVE  /\ registry'[i].handoff = registry[i].handoff /\ NoMoreThan(HeldOf(i, c)', HeldOf(i, c))
                      /\ \A a \in Mine(c) \cap counted \cap KnownTo(i, c) : a \in forgotten' \cup KnownTo(i, c)'
    BY <1>2 DEF MemoriesStay, cpa
  <2>1. i \in Instances /\ registry'[i].handoff = registry[i].handoff
    BY <1>3, <1>4 DEF SameNumbers
  <2>2. NoMoreThan(HeldOf(i, c)', HeldOf(i, c))
    <3> SUFFICES ASSUME NEW h \in Hours
                 PROVE  HeldOf(i, c)'[h].tokens <= HeldOf(i, c)[h].tokens /\ HeldOf(i, c)'[h].attempts <= HeldOf(i, c)[h].attempts
      BY DEF NoMoreThan
    <3>1. HeldOf(i, c)'[h] = Of(registry'[i].channels[c], h) /\ HeldOf(i, c)[h] = Of(registry[i].channels[c], h)
      BY DEF HeldOf, Of, Holds, SlotFor
    <3>2. Of(registry[i].channels[c], h) \in Total
      BY <1>1, <2>1, Typed
    <3>3. Of(registry'[i].channels[c], h) \in {Of(registry[i].channels[c], h), Zero}
      BY <1>4, <2>1
    <3> QED BY <3>1, <3>2, <3>3 DEF Total, Zero
  <2>3. ASSUME NEW a \in Mine(c) \cap counted \cap KnownTo(i, c) PROVE a \in forgotten' \cup KnownTo(i, c)'
    <3>1. CASE i = Owner /\ c \in gone
      BY <1>2, <3>1 DEF Mine
    <3>2. CASE ~(i = Owner /\ c \in gone)
      <4>1. registry'[i].channels[c] = registry[i].channels[c]
        BY <1>4, <1>5, <2>1, <3>2
      <4> QED BY <4>1 DEF KnownTo
    <3> QED BY <3>1, <3>2
  <2> QED BY <2>1, <2>2, <2>3
<1> HIDE DEF gone
<1>10. counted \subseteq counted' /\ forgotten \subseteq forgotten' /\ seen' = seen /\ stats' = stats /\ unwritten' = unwritten
  BY <1>2 DEF files
<1>11. job'.step = "write" => job.step = "write" /\ job'.file = job.file
  BY <1>3
<1> QED BY <1>1, <1>6, <1>8, <1>9, <1>10, <1>11, QuietStep

----------------------------------------------------------------------------
\* Hot replacement and restart

\* What an instance opens is no more than the file has.
LEMMA OpenedIs ==
  ASSUME TypeOK, AllFull, NEW i \in Instances, registry'[i].channels = Loaded, NEW c \in Channels
  PROVE  NoMoreThan(HeldOf(i, c)', stats[c]) /\ KnownTo(i, c)' = {}
<1>1. /\ \A h \in Hours : Of(Loaded[c], h) = IF h \in Window THEN stats[c][h] ELSE Zero
      /\ Loaded[c] # None => Loaded[c].starts = <<>>
  BY LoadedIs DEF TypeOK, AllFull
<1>2. \A h \in Hours : HeldOf(i, c)'[h] = Of(Loaded[c], h)
  BY DEF HeldOf, Of, Holds, SlotFor
<1>3. \A h \in Hours : stats[c][h] \in Total
  BY Typed
<1>4. KnownTo(i, c)' = {}
  BY <1>1 DEF KnownTo, Knows
<1> QED BY <1>1, <1>2, <1>3, <1>4 DEF NoMoreThan, Total, Zero

LEMMA HandOffAccounts == ASSUME Safe, Safe', Accounted, HandOff PROVE Accounted'
<1> DEFINE r == registry[serving]
           file == Snapshot(r.channels)
           g == r.generation
<1>1. TypeOK /\ TypeOK' /\ Unflushed /\ Control /\ Observing
  BY DEF Safe, Accounted
<1>2. /\ phase = "serving" /\ job = NoJob /\ newer = None /\ Exclusive(serving)
      /\ job' = [NoJob EXCEPT !.step = "write", !.op = "handoff", !.seen = g, !.file = file]
      /\ registry' = [registry EXCEPT ![serving].handoff = TRUE]
      /\ UNCHANGED <<now, thread, cpa, journal, files, past, rollbacks, restarts>>
  BY DEF HandOff
<1>3. /\ serving \in Instances /\ serving # None /\ Owner = serving /\ Owner' = serving /\ AllSound /\ g \in Nat
      /\ r.flushed \in Nat /\ NoJob.op = "none"
  BY <1>1, <1>2, OwnerIs, SoundIs, Typed, ConstantsAre, JobTyped DEF Owner, cpa
<1>4. /\ SameTables /\ OneNumbers(serving) /\ registry'[serving].handoff = TRUE
      /\ registry'[serving].generation = registry[serving].generation
      /\ registry'[serving].flushed = registry[serving].flushed
  BY <1>2, <1>3, HandoffIs
<1>5. job'.step = "write" /\ job'.seen = g /\ job'.file = file
  <2> HIDE DEF file, g
  <2> QED BY <1>2 DEF NoJob
<1>6. r.handoff = FALSE
  BY <1>1, <1>2, <1>3, Typed DEF Control
<1>7. \A t \in Threads : thread[t] = Idle
  <2>1. ASSUME NEW t \in Callers PROVE thread[t] = Idle
    BY <1>1, <1>2, <1>3, ConstantsAre DEF Observing, Exclusive
  <2>2. thread[Follower] = Idle
    BY <1>1, <1>2, ConstantsAre DEF Observing, Exclusive
  <2> QED BY <2>1, <2>2 DEF Threads
<1>8. Fewer /\ HandedOn'
  BY <1>1, <1>2, <1>7, UnmovedFewer, ConstantsAre DEF Accounted, past
<1>9. \A c \in Channels : Onward(c) /\ NoMoreToCome(c, FALSE, TRUE)
  BY <1>1, <1>2, <1>8, FewerOnward, SameIsKept DEF Onward, past
<1>10. Few'
  BY <1>1, <1>9, FewKept DEF Accounted, Onward
<1>11. Unflushed'
  <2>1. {serving', newer'} \ {None} = {serving} /\ phase' = phase /\ unwritten' = unwritten /\ serving' = serving
    BY <1>2, <1>3 DEF cpa, past
  <2>2. registry[serving].flushed <= g
    BY <1>1, <1>3 DEF Unflushed
  <2>3. unwritten # {} => phase = "serving" /\ registry[serving].flushed < g
    BY <1>1 DEF Unflushed
  <2>4. registry'[serving].flushed <= registry'[serving].generation /\ registry'[serving].flushed <= job'.seen
        /\ job'.seen <= registry'[serving].generation
    BY <1>3, <1>4, <1>5, <2>2
  <2>5. unwritten # {} => registry'[serving].flushed < registry'[serving].generation /\ registry'[serving].flushed < job'.seen
    BY <1>4, <1>5, <2>3
  <2> QED BY <1>3, <2>1, <2>3, <2>4, <2>5 DEF Unflushed
<1> HIDE DEF r, file, g
<1>12. ASSUME NEW c \in Channels PROVE ClaimedIn(c)'
  <2>1. ClaimedIn(c) /\ Onward(c) /\ NoMoreToCome(c, FALSE, FALSE) /\ NoMoreToCome(c, FALSE, TRUE) /\ Kept(c)
    BY <1>9 DEF Accounted, Onward
  <2>2. MemoryClaimed(serving, c)
    BY <1>3, <2>1 DEF ClaimedIn
  <2>3. ASSUME NEW i \in Instances, i = serving PROVE MemoryClaimed(i, c)'
    <3> DEFINE T == HeldOf(i, c)
               known == KnownTo(i, c)
    <3>1. T \in [Hours -> Total] /\ Holding(T, c, FALSE, known)
      BY <1>1, <1>6, <2>2, <2>3, MeasuredIs DEF Measured, MemoryClaimed, r
    <3>2. registry'[i].channels = registry[i].channels /\ registry'[i].handoff = TRUE
      BY <1>4, <2>3 DEF SameTables
    <3>3. HeldOf(i, c)' = T /\ KnownTo(i, c)' = known
      BY <3>2 DEF HeldOf, KnownTo
    <3> HIDE DEF T, known
    <3>4. NoMoreThan(HeldOf(i, c)', T)
      BY <3>1, <3>3, SameIsNoMore
    <3>5. \A a \in Mine(c) \cap counted \cap known : told[a] > 0 => a \in forgotten' \cup KnownTo(i, c)'
      BY <3>3
    <3>6. /\ NoMoreToCome(c, FALSE, TRUE) \/ ~registry'[i].handoff
          /\ NoMoreToCome(c, FALSE, FALSE) \/ registry'[i].handoff
      BY <2>1
    <3> QED BY <1>1, <2>1, <3>1, <3>4, <3>5, <3>6, MemoryFrom
  <2>4. StatsClaimed(c)'
    BY <1>1, <1>2, <2>1, StatsKept DEF ClaimedIn, files, past
  <2>5. FileClaimed(job.file, c)'
    <3>1. /\ Claimed(job'.file[c], c, Rem(FALSE)', counted', forgotten', Attempts)
          /\ TokensOf(job'.file[c]) + Owed(FALSE, c)' <= SumOver(seen'[c], Hours)
      BY <1>1, <1>3, <1>5, <1>6, <2>1, <2>2, SnapshotClaimed DEF r, file
    <3> QED BY <3>1 DEF FileClaimed, Holding
  <2>6. (\A i \in {serving, newer} \ {None} : MemoryClaimed(i, c))'
    <3> SUFFICES ASSUME NEW i \in {serving', newer'} \ {None} PROVE MemoryClaimed(i, c)'
      OBVIOUS
    <3>1. i = serving
      BY <1>2 DEF cpa
    <3> QED BY <1>3, <2>3, <3>1
  <2> QED BY <2>4, <2>5, <2>6 DEF ClaimedIn
<1> QED BY <1>8, <1>10, <1>11, <1>12 DEF Accounted

LEMMA TakeOverAccounts == ASSUME Safe, Safe', Accounted, NEW i \in Instances, TakeOver(i) PROVE Accounted'
<1>1. TypeOK /\ TypeOK' /\ Unflushed /\ Control /\ Observing /\ AllFull
  BY DEF Safe, Accounted
<1>2. /\ phase = "quiesced" /\ i # serving /\ phase' = "loaded" /\ newer' = i
      /\ registry' = [registry EXCEPT ![i] = NewRegistry(Loaded)]
      /\ journal' = [journal EXCEPT !.due = Len(journal.lines)]
      /\ forgotten' = forgotten \cup {a \in Attempts : told[a] > 0}
      /\ \A t \in Threads : thread[t] # Idle => thread[t].by # i
      /\ UNCHANGED <<now, serving, thread, job, files, told, counted, seen, unwritten, bounds>>
  BY DEF TakeOver
<1>3. newer = None /\ job = NoJob /\ serving \in Instances /\ serving # None /\ AllSound /\ NoJob.step = "none"
  BY <1>1, <1>2, OwnerIs, SoundIs, ConstantsAre, JobTyped
<1>4. /\ Loaded \in Table /\ \A c \in Channels : Loaded[c] # None => Loaded[c].starts = <<>>
  BY <1>1, LoadedIs DEF TypeOK, AllFull
<1>5. /\ Sound(NewRegistry(Loaded)) /\ NewRegistry(Loaded).channels = Loaded /\ NewRegistry(Loaded).generation = 0
      /\ NewRegistry(Loaded).flushed = 0 /\ NewRegistry(Loaded).handoff = FALSE
  BY <1>4, NewIs
<1>6. \A j \in Instances : registry'[j] = IF j = i THEN NewRegistry(Loaded) ELSE registry[j]
  BY <1>2, <1>3, <1>5, OneSet
<1>7. journal'.applied = journal.applied /\ journal'.lines = journal.lines
  BY <1>1, <1>2 DEF TypeOK, Journal
<1>8. \A t \in Callers : thread[t] # Idle => registry'[thread[t].by].handoff = registry[thread[t].by].handoff
  BY <1>1, <1>2, <1>6, ThreadTyped, ConstantsAre
<1>9. Fewer /\ HandedOn'
  BY <1>1, <1>2, <1>7, <1>8, FewerIs DEF Accounted
<1>10. \A c \in Channels : Onward(c)
  BY <1>1, <1>2, <1>9, FewerOnward, SameIsKept DEF Onward
<1>11. Few'
  BY <1>1, <1>10, FewKept DEF Accounted, Onward
<1>12. unwritten = {}
  BY <1>1, <1>2 DEF Unflushed
<1>13. Unflushed'
  <2>1. registry[serving].flushed <= registry[serving].generation
    BY <1>1, <1>3 DEF Unflushed
  <2> QED BY <1>2, <1>3, <1>5, <1>6, <1>12, <2>1 DEF Unflushed
<1>14. ASSUME NEW c \in Channels PROVE ClaimedIn(c)'
  <2>1. ClaimedIn(c) /\ Onward(c) /\ NoMoreToCome(c, FALSE, FALSE) /\ Kept(c)
    BY <1>10 DEF Accounted, Onward
  <2>2. StatsClaimed(c)'
    BY <1>1, <1>2, <2>1, StatsKept DEF ClaimedIn, files
  <2>3. ASSUME NEW j \in Instances, j = serving PROVE MemoryClaimed(j, c)'
    <3>1. MemoryClaimed(j, c) /\ registry'[j] = registry[j]
      BY <1>2, <1>3, <1>6, <2>1, <2>3 DEF ClaimedIn
    <3>2. HeldOf(j, c)' = HeldOf(j, c) /\ KnownTo(j, c)' = KnownTo(j, c)
      BY <3>1 DEF HeldOf, KnownTo
    <3>3. NoMoreThan(HeldOf(j, c)', HeldOf(j, c))
      BY <1>1, <3>2, SameIsNoMore, MeasuredIs DEF Measured
    <3> QED BY <1>1, <2>1, <3>1, <3>2, <3>3, MemoryKept
  <2>4. MemoryClaimed(i, c)'
    <3>1. Holding(stats[c], c, FALSE, Attempts)
      BY <1>12, <2>1 DEF ClaimedIn, StatsClaimed, FileClaimed
    <3>2. stats[c] \in [Hours -> Total]
      BY <1>1, FilesTyped
    <3>3. NoMoreThan(HeldOf(i, c)', stats[c])
      BY <1>1, <1>5, <1>6, OpenedIs
    <3>4. \A a \in Mine(c) \cap counted \cap Attempts : told[a] > 0 => a \in forgotten' \cup KnownTo(i, c)'
      BY <1>2
    <3>5. /\ NoMoreToCome(c, FALSE, TRUE) \/ ~registry'[i].handoff
          /\ NoMoreToCome(c, FALSE, FALSE) \/ registry'[i].handoff
      BY <1>5, <1>6, <2>1
    <3> QED BY <1>1, <2>1, <3>1, <3>2, <3>3, <3>4, <3>5, MemoryFrom
  <2>5. (\A j \in {serving, newer} \ {None} : MemoryClaimed(j, c))'
    <3> SUFFICES ASSUME NEW j \in {serving', newer'} \ {None} PROVE MemoryClaimed(j, c)'
      OBVIOUS
    <3>1. j = i \/ j = serving
      BY <1>2
    <3> QED BY <1>3, <2>3, <2>4, <3>1
  <2> QED BY <1>2, <1>3, <2>2, <2>5 DEF ClaimedIn
<1> QED BY <1>9, <1>11, <1>13, <1>14 DEF Accounted

LEMMA FollowEndsAccounts == ASSUME Safe, Safe', Accounted, FollowEnds PROVE Accounted'
<1>1. TypeOK /\ TypeOK' /\ Unflushed /\ Control /\ Observing
  BY DEF Safe, Accounted
<1>2. /\ phase = "serving" /\ newer = serving /\ Followed
      /\ registry' = [j \in Instances |-> IF j = serving THEN registry[serving] ELSE NewRegistry(NoChannels)]
      /\ journal' = NoJournal /\ newer' = None
      /\ UNCHANGED <<now, phase, serving, thread, job, files, past, bounds>>
  BY DEF FollowEnds
<1>3. serving \in Instances /\ serving # None /\ AllSound /\ Sound(registry[serving])
  BY <1>1, <1>2, OwnerIs, SoundIs, ConstantsAre DEF AllSound
<1>4. registry'[serving] = registry[serving]
  BY <1>2, <1>3, ClearedIs
<1>5. \A t \in Threads : thread[t] # Idle => thread[t].by = serving
  BY <1>2 DEF Followed
<1>6. \A t \in Callers : thread[t] # Idle => registry'[thread[t].by].handoff = registry[thread[t].by].handoff
  BY <1>4, <1>5, ConstantsAre
<1>7. Fewer /\ HandedOn'
  BY <1>1, <1>2, <1>6, FewerIs DEF Accounted, past
<1>8. Unflushed'
  <2>1. Owner = serving /\ Owner' = serving
    BY <1>1, <1>2, OwnerIs DEF Owner
  <2> QED BY <1>1, <1>2, <1>3, <1>4, <2>1 DEF Unflushed, past
<1>9. ASSUME NEW c \in Channels PROVE MemoriesStay(c)
  <2>1. HeldOf(serving, c)' = HeldOf(serving, c) /\ KnownTo(serving, c)' = KnownTo(serving, c)
    BY <1>2, <1>4 DEF HeldOf, KnownTo
  <2>2. HeldOf(serving, c) \in [Hours -> Total]
    BY <1>1, <1>3, MeasuredIs DEF Measured
  <2>3. NoMoreThan(HeldOf(serving, c)', HeldOf(serving, c))
    BY <2>1, <2>2, SameIsNoMore
  <2>4. ASSUME NEW i \in {serving, newer} \ {None}
        PROVE  /\ registry'[i].handoff = registry[i].handoff /\ NoMoreThan(HeldOf(i, c)', HeldOf(i, c))
               /\ \A a \in Mine(c) \cap counted \cap KnownTo(i, c) : a \in forgotten' \cup KnownTo(i, c)'
    <3>1. i = serving
      BY <1>2
    <3>2. registry'[i] = registry[i] /\ i \in Instances
      BY <1>3, <1>4, <3>1
    <3>3. HeldOf(i, c)' = HeldOf(i, c) /\ KnownTo(i, c)' = KnownTo(i, c)
      BY <3>2 DEF HeldOf, KnownTo
    <3>4. HeldOf(i, c) \in [Hours -> Total]
      BY <1>1, <3>2, MeasuredIs DEF Measured
    <3> QED BY <3>2, <3>3, <3>4, SameIsNoMore
  <2> QED BY <1>2, <2>4 DEF MemoriesStay
<1> QED BY <1>1, <1>2, <1>7, <1>8, <1>9, QuietStep DEF files, past

LEMMA RollbackAccounts == ASSUME Safe, Safe', Accounted, Rollback PROVE Accounted'
<1> DEFINE n == [registry[serving] EXCEPT !.handoff = FALSE]
<1>1. TypeOK /\ TypeOK' /\ Unflushed /\ Control /\ Observing
  BY DEF Safe, Accounted
<1>2. /\ registry' = [i \in Instances |-> IF i = serving THEN n ELSE NewRegistry(NoChannels)]
      /\ phase' = "serving" /\ newer' = None /\ journal' = NoJournal
      /\ UNCHANGED <<now, thread, job, serving, metadata, past, bounds>>
  <2>1. \A i : i = serving => [registry[i] EXCEPT !.handoff = FALSE] = n
    OBVIOUS
  <2> HIDE DEF n
  <2> QED BY <2>1 DEF Rollback
<1>3. \/ phase = "quiesced" /\ UNCHANGED stats
      \/ /\ phase = "loaded" /\ job = NoJob /\ thread[Follower] = Idle
         /\ stats' \in {stats, Snapshot(registry[newer].channels)}
  BY DEF Rollback
<1>4. serving \in Instances /\ AllSound /\ Sound(registry[serving]) /\ newer # serving /\ serving # None
  BY <1>1, <1>3, OwnerIs, SoundIs, ConstantsAre DEF AllSound
<1>5. job = NoJob /\ NoJob.step = "none" /\ thread[Follower] = Idle /\ (phase = "loaded" => newer \in Instances /\ newer # None)
  BY <1>1, <1>3, OwnerIs, JobTyped, ConstantsAre DEF Observing
<1>6. Sound(n) /\ n.channels = registry[serving].channels /\ n.generation = registry[serving].generation
      /\ n.flushed = registry[serving].flushed /\ n.handoff = FALSE
  <2> DEFINE r == registry[serving]
  <2>1. n = [r EXCEPT !.handoff = FALSE] /\ FALSE \in BOOLEAN
    OBVIOUS
  <2> HIDE DEF n, r
  <2>2. Sound(r)
    BY <1>4 DEF r
  <2>3. /\ Sound(n) /\ n.channels = r.channels /\ n.generation = r.generation /\ n.flushed = r.flushed
        /\ n.handoff = FALSE
    BY <2>1, <2>2, HandoffSet
  <2> QED BY <2>3 DEF r
<1> HIDE DEF n
<1>7. registry'[serving] = n
  BY <1>2, <1>4, <1>6, ClearedIs
<1>8. registry[serving].handoff = TRUE /\ unwritten = {}
  <2>1. registry[serving].handoff
    BY <1>1, <1>3 DEF Control
  <2> QED BY <1>1, <1>3, <1>4, <2>1, Typed DEF Unflushed
<1>9. \A t \in Callers : thread[t] # Idle => thread[t].by = serving
  BY <1>1, <1>4 DEF Observing
<1>10. /\ Fewer /\ HandedOn'
       /\ \A c \in Channels : NoMoreToCome(c, TRUE, FALSE)
  BY <1>1, <1>2, <1>5, <1>6, <1>7, <1>9, ResumeOnward DEF Accounted, past
<1>11. \A c \in Channels : Onward(c)
  BY <1>1, <1>2, <1>10, FewerOnward, SameIsKept DEF Onward, past
<1>12. Few'
  BY <1>1, <1>11, FewKept DEF Accounted, Onward
<1>13. Unflushed'
  <2>1. registry[serving].flushed <= registry[serving].generation
    BY <1>1, <1>4 DEF Unflushed
  <2>2. registry'[serving].flushed <= registry'[serving].generation
    BY <1>6, <1>7, <2>1
  <2>3. {serving', newer'} \ {None} = {serving} /\ job' = NoJob /\ unwritten' = {} /\ serving' = serving
    BY <1>2, <1>4, <1>5, <1>8 DEF past
  <2> QED BY <1>5, <2>2, <2>3 DEF Unflushed
<1>14. ASSUME NEW c \in Channels PROVE ClaimedIn(c)'
  <2>1. ClaimedIn(c) /\ Onward(c) /\ NoMoreToCome(c, FALSE, FALSE) /\ NoMoreToCome(c, TRUE, FALSE) /\ Kept(c)
    BY <1>10, <1>11 DEF Accounted, Onward
  <2>2. ASSUME NEW i \in Instances, i = serving PROVE MemoryClaimed(i, c)'
    <3>1. /\ registry[i].handoff = TRUE /\ registry'[i].handoff = FALSE
          /\ registry'[i].channels = registry[i].channels
      BY <1>6, <1>7, <1>8, <2>2
    <3>2. MemoryClaimed(i, c)
      BY <1>4, <2>1, <2>2 DEF ClaimedIn
    <3> QED BY <1>1, <2>1, <3>1, <3>2, OwnKept
  <2>3. (\A i \in {serving, newer} \ {None} : MemoryClaimed(i, c))'
    <3> SUFFICES ASSUME NEW i \in {serving', newer'} \ {None} PROVE MemoryClaimed(i, c)'
      OBVIOUS
    <3>1. i = serving
      BY <1>2
    <3> QED BY <1>4, <2>2, <3>1
  <2>4. StatsClaimed(c)'
    <3>1. CASE stats' = stats
      BY <1>1, <1>2, <2>1, <3>1, StatsKept DEF ClaimedIn, past
    <3>2. CASE phase = "loaded" /\ stats' = Snapshot(registry[newer].channels)
      <4>1. newer \in Instances /\ registry[newer].handoff = FALSE /\ MemoryClaimed(newer, c)
        BY <1>1, <1>5, <2>1, <3>2, Typed DEF Control, ClaimedIn
      <4>2. /\ Claimed(stats'[c], c, Rem(FALSE)', counted', forgotten', Attempts)
            /\ TokensOf(stats'[c]) + Owed(FALSE, c)' <= SumOver(seen'[c], Hours)
        BY <1>1, <2>1, <3>2, <4>1, SnapshotClaimed
      <4>3. unwritten' = {}
        BY <1>2, <1>8 DEF past
      <4> QED BY <4>2, <4>3 DEF StatsClaimed, FileClaimed, Holding
    <3> QED BY <1>3, <3>1, <3>2
  <2>5. job'.step = "none"
    BY <1>2, <1>5
  <2> QED BY <2>3, <2>4, <2>5 DEF ClaimedIn
<1> QED BY <1>10, <1>12, <1>13, <1>14 DEF Accounted

\* A restart begins from the file: it claims what it has of a channel, or has
\* of it again if its deletion was not written.
LEMMA RestartAccounts == ASSUME Safe, Safe', Accounted, Restart PROVE Accounted'
<1> DEFINE n == NewRegistry(Loaded)
<1>1. TypeOK /\ TypeOK' /\ Unflushed /\ Control /\ Observing /\ AllFull
  BY DEF Safe, Accounted
<1>2. /\ phase = "serving" /\ newer = None /\ job.op # "handoff"
      /\ registry' = [registry EXCEPT ![serving] = n]
      /\ thread' = [t \in Threads |-> Idle] /\ job' = NoJob
      /\ forgotten' = forgotten \cup {a \in Attempts : told[a] > 0}
      /\ seen' = [c \in Channels |-> IF c \in unwritten THEN [h \in Hours |-> stats[c][h].tokens] ELSE seen[c]]
      /\ counted' = counted \cup {a \in Attempts : told[a] > 0 /\ ChannelOf[a] \in unwritten}
      /\ unwritten' = {} /\ restarts' = restarts + 1
      /\ UNCHANGED <<now, cpa, journal, files, told, rollbacks, edits, handoffs>>
  BY DEF Restart
<1>3. serving \in Instances /\ serving # None /\ AllSound /\ NoJob.step = "none" /\ journal = NoJournal
  BY <1>1, <1>2, OwnerIs, SoundIs, ConstantsAre, JobTyped DEF Control
<1>4. /\ Loaded \in Table /\ \A c \in Channels : Loaded[c] # None => Loaded[c].starts = <<>>
  BY <1>1, LoadedIs DEF TypeOK, AllFull
<1>5. Sound(n) /\ n.channels = Loaded /\ n.handoff = FALSE /\ n.generation = 0 /\ n.flushed = 0
  BY <1>4, NewIs
<1> HIDE DEF n
<1>6. \A j \in Instances : registry'[j] = IF j = serving THEN n ELSE registry[j]
  BY <1>2, <1>3, <1>5, OneSet
<1>7. Fewer /\ HandedOn'
  <2>1. \A t \in Threads : thread'[t] \in {thread[t], Idle}
    BY <1>2
  <2>2. \A t \in Callers : thread[t] # Idle /\ registry'[thread[t].by].handoff => registry[thread[t].by].handoff
    BY <1>1, <1>5, <1>6, ThreadTyped, ConstantsAre
  <2> QED BY <1>1, <1>2, <2>1, <2>2, FewerIs DEF Accounted
<1>8. \A c \in Channels : NoMoreToCome(c, FALSE, FALSE) /\ NoMoreToCome(c, TRUE, TRUE)
  BY <1>1, <1>7, FewerOnward
<1>9. Few'
  BY <1>1, <1>8, FewKept DEF Accounted
<1>10. {serving', newer'} \ {None} = {serving} /\ serving' = serving
  BY <1>2, <1>3 DEF cpa
<1>11. Unflushed'
  <2>1. registry'[serving].flushed <= registry'[serving].generation
    BY <1>3, <1>5, <1>6
  <2>2. job'.step = "none" /\ unwritten' = {}
    BY <1>2, <1>3
  <2> QED BY <1>10, <2>1, <2>2 DEF Unflushed
<1>12. ASSUME NEW c \in Channels, NEW i \in Instances, i = serving PROVE MemoryClaimed(i, c)' /\ StatsClaimed(c)'
  <2>1. NoMoreThan(HeldOf(i, c)', stats[c]) /\ stats[c] \in [Hours -> Total] /\ stats' = stats
    BY <1>1, <1>2, <1>5, <1>6, <1>12, OpenedIs, FilesTyped DEF files
  <2>2. registry'[i].handoff = FALSE
    BY <1>5, <1>6, <1>12
  <2>3. CASE c \notin unwritten
    <3>1. Onward(c) /\ NoMoreToCome(c, FALSE, FALSE) /\ Kept(c)
      <4>1. counted \subseteq counted' /\ forgotten \subseteq forgotten' /\ seen'[c] = seen[c]
        BY <1>2, <2>3
      <4> QED BY <1>1, <1>8, <4>1, SameIsKept DEF Onward
    <3>2. StatsClaimed(c) /\ FileClaimed(stats, c) /\ Holding(stats[c], c, FALSE, Attempts)
      BY <2>3 DEF Accounted, ClaimedIn, StatsClaimed, FileClaimed
    <3>3. StatsClaimed(c)'
      BY <1>1, <1>2, <2>1, <2>3, <3>1, <3>2, StatsKept
    <3>4. MemoryClaimed(i, c)'
      <4>1. \A a \in Mine(c) \cap counted \cap Attempts : told[a] > 0 => a \in forgotten' \cup KnownTo(i, c)'
        BY <1>2
      <4>2. /\ NoMoreToCome(c, FALSE, TRUE) \/ ~registry'[i].handoff
            /\ NoMoreToCome(c, FALSE, FALSE) \/ registry'[i].handoff
        BY <2>2, <3>1
      <4> QED BY <1>1, <2>1, <3>1, <3>2, <4>1, <4>2, MemoryFrom
    <3> QED BY <3>3, <3>4
  <2>4. CASE c \in unwritten
    <3> DEFINE T == stats[c]
               U == HeldOf(i, c)'
               rem == Rem(FALSE)
               rem2 == Rem(FALSE)'
               known2 == KnownTo(i, c)'
    <3>1. Claimed(T, c, rem, Attempts, Attempts, Attempts)
      BY <2>4 DEF Accounted, ClaimedIn, StatsClaimed
    <3>2. T \in [Hours -> Total] /\ U \in [Hours -> Total]
      BY <1>1, <2>1, MeasuredNext DEF Measured
    <3>3. \A a \in Mine(c) : /\ rem[a] \in Int /\ rem2[a] \in Int /\ rem2[a] <= rem[a]
                             /\ rem[a] <= 1 => a \in counted' /\ a \in forgotten'
      <4> SUFFICES ASSUME NEW a \in Mine(c)
                   PROVE  /\ rem[a] \in Int /\ rem2[a] \in Int /\ rem2[a] <= rem[a]
                          /\ rem[a] <= 1 => told[a] > 0
        BY <1>2, <2>4 DEF Mine
      <4>1. a \in Attempts /\ Measured /\ Measured'
        BY <1>1, MeasuredIs, MeasuredNext DEF Mine
      <4>2. rem[a] = ToCome(FALSE, a) /\ ToCome(FALSE, a) \in Int /\ (ToCome(FALSE, a) <= 1 => told[a] > 0)
        BY <4>1 DEF Measured
      <4>3. rem2[a] = ToCome(FALSE, a)' /\ ToCome(FALSE, a)' \in Int
        BY <4>1 DEF Measured
      <4>4. ToCome(FALSE, a)' <= ToCome(FALSE, a)
        BY <1>8 DEF NoMoreToCome
      <4> HIDE DEF rem, rem2
      <4> QED BY <4>2, <4>3, <4>4
    <3>4. TokensOf(T) = SumOver(seen'[c], Hours)
      <4>1. seen'[c] = [h \in Hours |-> T[h].tokens]
        BY <1>2, <2>4
      <4> QED BY <4>1 DEF TokensOf
    <3>5. Owed(FALSE, c)' = 0
      <4>1. Pending' = {}
        BY <1>1, <1>2, <1>3, JournalTyped DEF Pending
      <4>2. LinesOf(Mine(c))' = {}
        BY <4>1 DEF LinesOf
      <4>3. HandedBy(Mine(c))' = {} /\ Finding({Follower}, Mine(c))' = {}
        BY <1>2, ConstantsAre DEF HandedBy, Handing, Finding
      <4>4. Cardinality({}) = 0
        BY FS_EmptySet
      <4> QED BY <4>2, <4>3, <4>4 DEF Owed, Left
    <3>6. NoMoreThan(U, T)
      BY <2>1
    <3> HIDE DEF T, U, rem, rem2, known2
    <3>7. /\ TokensOf(T) \in Nat /\ TokensOf(U) \in Nat /\ TokensOf(U) <= TokensOf(T)
          /\ AttemptsOf(T) \in Nat /\ AttemptsOf(U) \in Nat /\ AttemptsOf(U) <= AttemptsOf(T)
      BY <3>2, <3>6, TotalsCompare DEF NoMoreThan
    <3>8. Claimed(U, c, rem2, counted', forgotten', known2) /\ Claimed(T, c, rem2, counted', forgotten', Attempts)
      BY <3>1, <3>3, <3>7, ClaimedLess
    <3>9. TokensOf(U) + Owed(FALSE, c)' <= SumOver(seen'[c], Hours) /\ TokensOf(T) + Owed(FALSE, c)' <= SumOver(seen'[c], Hours)
      <4> DEFINE owed == Owed(FALSE, c)'
                 all == SumOver(seen'[c], Hours)
      <4>1. owed = 0 /\ all = TokensOf(T)
        BY <3>4, <3>5
      <4> HIDE DEF owed, all
      <4>2. TokensOf(U) + owed <= all /\ TokensOf(T) + owed <= all
        BY <3>7, <4>1
      <4> QED BY <4>2 DEF owed, all
    <3>10. MemoryClaimed(i, c)'
      BY <2>2, <3>8, <3>9 DEF MemoryClaimed, Holding, U, rem2, known2
    <3>11. StatsClaimed(c)'
      BY <1>2, <2>1, <3>8, <3>9 DEF StatsClaimed, FileClaimed, Holding, T, rem2
    <3> QED BY <3>10, <3>11
  <2> QED BY <2>3, <2>4
<1>13. ASSUME NEW c \in Channels PROVE ClaimedIn(c)'
  <2>1. (\A j \in {serving, newer} \ {None} : MemoryClaimed(j, c))'
    <3> SUFFICES ASSUME NEW j \in {serving', newer'} \ {None} PROVE MemoryClaimed(j, c)'
      OBVIOUS
    <3> QED BY <1>3, <1>10, <1>12
  <2>2. StatsClaimed(c)'
    BY <1>3, <1>12
  <2> QED BY <1>2, <1>3, <2>1, <2>2 DEF ClaimedIn
<1> QED BY <1>7, <1>9, <1>11, <1>13 DEF Accounted

----------------------------------------------------------------------------
\* A deletion

\* What is pending of a channel is what another instance is to count of it.
LEMMA PendingOwed ==
  ASSUME TypeOK, NEW c \in Channels, thread[Follower] = Idle, registry[serving].handoff = FALSE,
         \A t \in Callers : thread[t] # Idle => thread[t].by = serving \/ registry[thread[t].by].handoff
  PROVE  /\ SumOver([h \in Hours |-> PendingIn(c, h)], Hours) = Owed(FALSE, c)
         /\ \A n \in Pending : journal.lines[n].attempt \in PendingAttempts
         /\ \A t \in Callers : Handing(t) => thread[t].o.attempt \in PendingAttempts
<1> DEFINE R == LinesOf(Mine(c))
           Q == HandedBy(Mine(c))
           inR == [n \in R |-> journal.lines[n].hour]
           inQ == [t \in Q |-> thread[t].o.hour]
           f == [h \in Hours |-> Cardinality({n \in R : inR[n] = h})]
           g == [h \in Hours |-> Cardinality({t \in Q : inQ[t] = h})]
           s == [h \in Hours |-> PendingIn(c, h)]
<1>1. IsFiniteSet(R) /\ IsFiniteSet(Q) /\ Left(Mine(c)) = Cardinality(R) + Cardinality(Q)
  BY MeasuredIs DEF Measured
<1>2. \A n \in Pending : n \in 1..Len(journal.lines)
  BY JournalTyped DEF Pending
<1>3. \A t \in Callers : Handing(t) <=> t \in PendingCallers
  BY DEF Handing, PendingCallers
<1>4. /\ \A n \in Pending : journal.lines[n].attempt \in PendingAttempts
      /\ \A t \in Callers : Handing(t) => thread[t].o.attempt \in PendingAttempts
  BY <1>3 DEF PendingAttempts, PendingLines, Pending
<1>5. inR \in [R -> Hours] /\ inQ \in [Q -> Hours]
  <2>1. \A n \in R : journal.lines[n].hour \in Hours
    BY <1>2, JournalTyped DEF LinesOf
  <2>2. \A t \in Q : thread[t].o.hour \in Hours
    BY ThreadTyped, ConstantsAre DEF HandedBy, Handing
  <2> QED BY <2>1, <2>2
<1>6. SumOver(f, Hours) = Cardinality(R) /\ SumOver(g, Hours) = Cardinality(Q)
  <2> HIDE DEF R, Q, inR, inQ
  <2> QED BY <1>1, <1>5, HoursFinite, SumOfParts
<1>7. \A h \in Hours : {n \in R : inR[n] = h} \in SUBSET R /\ {t \in Q : inQ[t] = h} \in SUBSET Q
  OBVIOUS
<1>8. f \in [Hours -> Nat] /\ g \in [Hours -> Nat]
  <2> HIDE DEF R, Q, inR, inQ
  <2>1. \A h \in Hours : Cardinality({n \in R : inR[n] = h}) \in Nat /\ Cardinality({t \in Q : inQ[t] = h}) \in Nat
    BY <1>1, <1>7, FS_Subset, FS_CardinalityType
  <2> QED BY <2>1
<1>9. \A h \in Hours : s[h] = f[h] + g[h]
  <2> TAKE h \in Hours
  <2>1. {n \in PendingLines : ChannelOf[journal.lines[n].attempt] = c /\ journal.lines[n].hour = h} = {n \in R : inR[n] = h}
    BY <1>2, JournalTyped DEF PendingLines, Pending, LinesOf, Mine
  <2>2. {t \in PendingCallers : ChannelOf[thread[t].o.attempt] = c /\ thread[t].o.hour = h} = {t \in Q : inQ[t] = h}
    <3>1. \A t \in Callers : thread[t] # Idle => thread[t].o.attempt \in Attempts
      BY ThreadTyped, ConstantsAre
    <3> QED BY <1>3, <3>1 DEF PendingCallers, HandedBy, Handing, Mine
  <2>3. PendingIn(c, h) = Cardinality({n \in R : inR[n] = h}) + Cardinality({t \in Q : inQ[t] = h})
    BY <2>1, <2>2 DEF PendingIn
  <2> HIDE DEF R, Q, inR, inQ
  <2> QED BY <2>3
<1>10. s \in [Hours -> Nat]
  <2>1. \A h \in Hours : PendingIn(c, h) \in Nat
    <3> TAKE h \in Hours
    <3>1. PendingIn(c, h) = s[h] /\ s[h] = f[h] + g[h]
      BY <1>9
    <3>2. f[h] \in Nat /\ g[h] \in Nat
      BY <1>8
    <3> HIDE DEF f, g, s
    <3> QED BY <3>1, <3>2
  <2> QED BY <2>1
<1>11. Finding({Follower}, Mine(c)) = {}
  BY DEF Finding
<1>12. Owed(FALSE, c) = Cardinality(R) + Cardinality(Q)
  <2>1. Cardinality({}) = 0 /\ Cardinality(R) \in Nat /\ Cardinality(Q) \in Nat
    BY <1>1, FS_EmptySet, FS_CardinalityType
  <2>2. Owed(FALSE, c) = Left(Mine(c)) + Cardinality(Finding({Follower}, Mine(c)))
    BY DEF Owed
  <2> DEFINE owed == Owed(FALSE, c)
             left == Left(Mine(c))
             r == Cardinality(R)
             q == Cardinality(Q)
  <2>3. owed = left + 0 /\ left = r + q /\ r \in Nat /\ q \in Nat
    BY <1>1, <1>11, <2>1, <2>2
  <2> HIDE DEF owed, left, r, q
  <2>4. owed = r + q
    BY <2>3
  <2> QED BY <2>4 DEF owed, r, q
<1>13. SumOver(s, Hours) = SumOver(f, Hours) + SumOver(g, Hours)
  <2> HIDE DEF s, f, g
  <2> QED BY <1>8, <1>9, <1>10, HoursFinite, SumsAdd
<1> QED BY <1>4, <1>6, <1>12, <1>13

LEMMA DropChannelAccounts == ASSUME Safe, Safe', Accounted, DropChannel PROVE Accounted'
<1> DEFINE c == job.channel
           g == registry[serving].generation + 1
<1>1. TypeOK /\ TypeOK' /\ Unflushed /\ Control /\ Observing
  BY DEF Safe, Accounted
<1>2. /\ job.step = "drop" /\ Exclusive(serving) /\ UNCHANGED <<now, thread, cpa, journal, files, told, forgotten, bounds>>
      /\ phase = "serving" /\ c \in Channels /\ job.op = "delete" /\ serving \in Instances /\ Owner = serving
      /\ newer \in {None, serving} /\ serving # None /\ NoJob.step = "none"
  BY <1>1, OwnerIs, ConstantsAre, JobTyped DEF DropChannel, Control
<1>3. CASE registry[serving].channels[c] = None
  <2>1. job' = NoJob /\ UNCHANGED <<registry, counted, seen, unwritten>>
    BY <1>3 DEF DropChannel
  <2>2. SameTables /\ SameNumbers
    BY <2>1, SameRegistries
  <2>3. job'.step \notin {"snapshot", "write"}
    BY <1>2, <2>1
  <2>4. Unflushed'
    BY <1>1, <1>2, <2>1, <2>2, <2>3, UnflushedKept DEF cpa
  <2> QED BY <1>1, <1>2, <2>1, <2>2, <2>3, <2>4, QuietJob DEF files, cpa, SameNumbers
<1>4. CASE registry[serving].channels[c] # None
  <2>1. /\ job' = [job EXCEPT !.step = "snapshot", !.channel = None, !.seen = g]
        /\ counted' = {a \in counted : ChannelOf[a] # c \/ a \in PendingAttempts}
        /\ seen' = [seen EXCEPT ![c] = [h \in Hours |-> PendingIn(c, h)]]
        /\ unwritten' = unwritten \cup {c}
    BY <1>4 DEF DropChannel
  <2>2. /\ OneNumbers(serving)
        /\ registry'[serving].generation = registry[serving].generation + 1
        /\ registry'[serving].flushed = registry[serving].flushed /\ registry'[serving].handoff = registry[serving].handoff
        /\ \A j \in Instances, d \in Channels :
             registry'[j].channels[d] = IF j = serving /\ d = c THEN None ELSE registry[j].channels[d]
    BY <1>1, <1>2, <1>4, DropIs
  <2>3. job'.step = "snapshot" /\ job'.seen = g /\ g \in Nat /\ registry[serving].generation \in Nat /\ registry[serving].flushed \in Nat
    <3>1. registry[serving].generation \in Nat /\ registry[serving].flushed \in Nat
      BY <1>1, <1>2, Typed
    <3> HIDE DEF c
    <3>2. job'.step = "snapshot" /\ job'.seen = g
      <4> HIDE DEF g
      <4> QED BY <1>1, <2>1 DEF TypeOK, Job
    <3> QED BY <3>1, <3>2
  <2>4. \A j \in Instances : registry'[j].handoff = registry[j].handoff
    BY <2>2 DEF OneNumbers
  <2>5. thread[Follower] = Idle /\ registry[serving].handoff = FALSE
    <3>1. thread[Follower] = Idle
      BY <1>1, <1>2, ConstantsAre DEF Observing, Exclusive
    <3>2. ~registry[serving].handoff
      BY <1>1, <1>2 DEF Control
    <3> QED BY <1>1, <1>2, <3>1, <3>2, Typed
  <2>6. \A t \in Callers : thread[t] # Idle => thread[t].by = serving \/ registry[thread[t].by].handoff
    BY <1>1 DEF Observing
  <2>7. /\ SumOver([h \in Hours |-> PendingIn(c, h)], Hours) = Owed(FALSE, c)
        /\ \A n \in Pending : journal.lines[n].attempt \in PendingAttempts
        /\ \A t \in Callers : Handing(t) => thread[t].o.attempt \in PendingAttempts
    BY <1>1, <1>2, <2>5, <2>6, PendingOwed
  <2>8. Fewer
    <3>1. \A t \in Callers : thread[t] # Idle => registry'[thread[t].by].handoff = registry[thread[t].by].handoff
      BY <1>1, <2>4, ThreadTyped, ConstantsAre
    <3> QED BY <1>1, <1>2, <3>1, FewerIs
  <2>9. HandedOn'
    <3>1. HandedOn
      BY DEF Accounted
    <3>2. \A n \in Pending' : n \in Pending /\ journal'.lines[n] = journal.lines[n]
      BY <1>2 DEF Pending
    <3>3. \A n \in Pending' : journal'.lines[n].attempt \in counted'
      BY <2>1, <2>7, <3>1, <3>2 DEF HandedOn
    <3>4. \A t \in Callers : Handing(t)' => Handing(t) /\ thread'[t] = thread[t]
      BY <1>1, <1>2, <2>4, ThreadTyped, ConstantsAre DEF Handing
    <3>5. \A t \in Callers : Handing(t)' => thread'[t].o.attempt \in counted'
      BY <2>1, <2>7, <3>1, <3>4 DEF HandedOn
    <3>6. thread'[Follower] = Idle
      BY <1>2, <2>5
    <3> QED BY <3>3, <3>5, <3>6 DEF HandedOn
  <2>10. \A d \in Channels : NoMoreToCome(d, FALSE, FALSE) /\ NoMoreToCome(d, TRUE, TRUE)
    BY <1>1, <2>8, FewerOnward
  <2>11. Few'
    BY <1>1, <2>10, FewKept DEF Accounted
  <2>12. Unflushed'
    <3>1. {serving', newer'} \ {None} = {serving} /\ Owner' = serving /\ serving' = serving /\ phase' = "serving"
      BY <1>2 DEF cpa, Owner
    <3>2. registry[serving].flushed <= registry[serving].generation
      BY <1>1, <1>2 DEF Unflushed
    <3> QED BY <2>2, <2>3, <3>1, <3>2 DEF Unflushed
  <2> HIDE DEF c, g
  <2>13. ASSUME NEW d \in Channels, d # c PROVE ClaimedIn(d)'
    <3>1. Kept(d)
      <4>1. Mine(d) \cap counted \subseteq counted'
        BY <2>1, <2>13 DEF Mine
      <4>2. seen'[d] = seen[d]
        BY <1>1, <2>1, <2>13 DEF TypeOK
      <4>3. SumOver(seen[d], Hours) \in Nat
        BY <1>1, MeasuredIs DEF Measured
      <4> QED BY <1>2, <4>1, <4>2, <4>3 DEF Kept
    <3>2. Onward(d) /\ ClaimedIn(d)
      BY <2>10, <3>1 DEF Onward, Accounted
    <3>3. MemoriesStay(d)
      <4>1. ASSUME NEW i \in {serving, newer} \ {None}
            PROVE  /\ registry'[i].handoff = registry[i].handoff /\ NoMoreThan(HeldOf(i, d)', HeldOf(i, d))
                   /\ \A a \in Mine(d) \cap counted \cap KnownTo(i, d) : a \in forgotten' \cup KnownTo(i, d)'
        <5>1. i \in Instances
          BY <1>2
        <5>2. registry'[i].channels[d] = registry[i].channels[d] /\ registry'[i].handoff = registry[i].handoff
          BY <2>2, <2>4, <2>13, <5>1
        <5>3. HeldOf(i, d)' = HeldOf(i, d) /\ KnownTo(i, d)' = KnownTo(i, d)
          BY <5>2 DEF HeldOf, KnownTo
        <5>4. HeldOf(i, d) \in [Hours -> Total]
          BY <1>1, <5>1, MeasuredIs DEF Measured
        <5> QED BY <5>2, <5>3, <5>4, SameIsNoMore
      <4> QED BY <1>2, <4>1 DEF MemoriesStay, cpa
    <3>4. stats'[d] = stats[d] /\ (d \in unwritten' <=> d \in unwritten) /\ job'.step # "write"
      BY <1>2, <2>1, <2>3, <2>13 DEF files
    <3> QED BY <1>1, <3>2, <3>3, <3>4, ClaimsKept
  <2>14. ASSUME NEW d \in Channels, d = c PROVE ClaimedIn(d)'
    <3>1. ClaimedIn(d)
      BY DEF Accounted
    <3>2. ASSUME NEW i \in Instances, i = serving PROVE MemoryClaimed(i, d)'
      <4> DEFINE U == HeldOf(i, d)'
                 owed == Owed(FALSE, d)'
                 all == SumOver(seen'[d], Hours)
      <4>1. registry'[i].channels[d] = None
        BY <2>2, <2>14, <3>2
      <4>2. \A h \in Hours : U[h] = Zero
        BY <4>1 DEF HeldOf, Of, Holds, SlotFor
      <4>3. TokensOf(U) = 0 /\ AttemptsOf(U) = 0
        <5>1. [h \in Hours |-> U[h].tokens] \in [Hours -> Nat] /\ [h \in Hours |-> U[h].attempts] \in [Hours -> Nat]
          BY <4>2 DEF Zero
        <5>2. \A h \in Hours : [k \in Hours |-> U[k].tokens][h] = 0 /\ [k \in Hours |-> U[k].attempts][h] = 0
          BY <4>2 DEF Zero
        <5> HIDE DEF U
        <5> QED BY <5>1, <5>2, HoursFinite, SumNothing DEF TokensOf, AttemptsOf
      <4>4. owed <= all
        <5>1. owed <= Owed(FALSE, d)
          BY <2>10 DEF NoMoreToCome
        <5>2. all = Owed(FALSE, d)
          <6>1. seen'[d] = [h \in Hours |-> PendingIn(c, h)]
            BY <1>1, <2>1, <2>14 DEF TypeOK
          <6> QED BY <2>7, <2>14, <6>1
        <5> HIDE DEF owed, all
        <5> QED BY <5>1, <5>2
      <4>5. owed \in Nat
        BY <1>1, MeasuredNext DEF Measured
      <4>6. registry'[i].handoff = FALSE
        BY <2>2, <2>5, <3>2
      <4>7. Claimed(U, d, Rem(FALSE)', counted', forgotten', KnownTo(i, d)')
        BY <4>3, ClaimedNothing
      <4> HIDE DEF U, owed, all
      <4>8. TokensOf(U) + owed <= all
        BY <4>3, <4>4, <4>5
      <4> QED BY <4>6, <4>7, <4>8 DEF MemoryClaimed, Holding, U, owed, all
    <3>3. (\A i \in {serving, newer} \ {None} : MemoryClaimed(i, d))'
      <4> SUFFICES ASSUME NEW i \in {serving', newer'} \ {None} PROVE MemoryClaimed(i, d)'
        OBVIOUS
      <4>1. i = serving
        BY <1>2 DEF cpa
      <4> QED BY <1>2, <3>2, <4>1
    <3>4. StatsClaimed(d)'
      <4> DEFINE T == stats[d]
                 rem == Rem(FALSE)
                 rem2 == Rem(FALSE)'
      <4>1. Claimed(T, d, rem, counted, forgotten, Attempts) \/ Claimed(T, d, rem, Attempts, Attempts, Attempts)
        BY <3>1 DEF ClaimedIn, StatsClaimed, FileClaimed, Holding
      <4>2. AttemptsOf(T) \in Nat
        BY <1>1, FilesTyped, TotalsCompare
      <4>3. \A a \in Mine(d) : rem[a] \in Int /\ rem2[a] \in Int /\ rem2[a] <= rem[a] /\ a \in Attempts
        <5>1. Measured /\ Measured' /\ \A a \in Mine(d) : a \in Attempts
          BY <1>1, MeasuredIs, MeasuredNext DEF Mine
        <5>2. \A a \in Mine(d) : ToCome(FALSE, a)' <= ToCome(FALSE, a)
          BY <2>10 DEF NoMoreToCome
        <5> QED BY <5>1, <5>2 DEF Measured
      <4> HIDE DEF T, rem, rem2
      <4>4. Claimed(T, d, rem2, Attempts, Attempts, Attempts)
        BY <4>1, <4>2, <4>3, ClaimedLess
      <4>5. d \in unwritten' /\ stats' = stats
        BY <1>2, <2>1, <2>14 DEF files
      <4> QED BY <4>4, <4>5 DEF StatsClaimed, T, rem2
    <3> QED BY <2>3, <3>3, <3>4 DEF ClaimedIn
  <2> QED BY <2>9, <2>11, <2>12, <2>13, <2>14 DEF Accounted
<1> QED BY <1>3, <1>4

----------------------------------------------------------------------------
\* Observations

\* What one thread and one line of the journal change of what is to come.
LEMMA Moves ==
  ASSUME TypeOK, TypeOK', NEW t \in Threads, OneThread(t), SameHandoffs,
         NEW n, \A some : LinesOf(some)' \ {n} = LinesOf(some) \ {n}
  PROVE  /\ \A b \in Attempts :
              /\ ToCome(TRUE, b)' = ToCome(TRUE, b) - told'[b] + told[b]
                                      - In(t, Finding(Callers, {b})) + In(t, Finding(Callers, {b})')
              /\ ToCome(FALSE, b)' = ToCome(FALSE, b) - told'[b] + told[b]
                                       - In(t, Finding(Threads, {b})) + In(t, Finding(Threads, {b})')
                                       - In(t, HandedBy({b})) + In(t, HandedBy({b})')
                                       - In(n, LinesOf({b})) + In(n, LinesOf({b})')
         /\ \A c : Owed(FALSE, c)' = Owed(FALSE, c) - In(t, Finding({Follower}, Mine(c))) + In(t, Finding({Follower}, Mine(c))')
                                       - In(t, HandedBy(Mine(c))) + In(t, HandedBy(Mine(c))')
                                       - In(n, LinesOf(Mine(c))) + In(n, LinesOf(Mine(c))')
         /\ \A x, some : In(x, some) \in {0, 1}
<1>1. Measured /\ Measured'
  BY MeasuredIs, MeasuredNext
<1>2. \A x, some : In(x, some) \in {0, 1}
  BY DEF In
<1>3. \A some : /\ Cardinality(Finding(Callers, some))' = Cardinality(Finding(Callers, some)) - In(t, Finding(Callers, some)) + In(t, Finding(Callers, some)')
                /\ Cardinality(Finding(Threads, some))' = Cardinality(Finding(Threads, some)) - In(t, Finding(Threads, some)) + In(t, Finding(Threads, some)')
                /\ Cardinality(Finding({Follower}, some))' = Cardinality(Finding({Follower}, some)) - In(t, Finding({Follower}, some)) + In(t, Finding({Follower}, some)')
                /\ Cardinality(HandedBy(some))' = Cardinality(HandedBy(some)) - In(t, HandedBy(some)) + In(t, HandedBy(some)')
  BY OneMoves
<1>4. \A some : Cardinality(LinesOf(some))' = Cardinality(LinesOf(some)) - In(n, LinesOf(some)) + In(n, LinesOf(some)')
  <2> TAKE some
  <2> DEFINE X == LinesOf(some)
             Y == LinesOf(some)'
  <2>1. IsFiniteSet(X) /\ IsFiniteSet(Y) /\ X \ {n} = Y \ {n}
    BY <1>1 DEF Measured
  <2> HIDE DEF X, Y
  <2>2. Cardinality(Y) = Cardinality(X) - In(n, X) + In(n, Y)
    BY <2>1, OneApart
  <2> QED BY <2>2 DEF X, Y
<1>5. \A some : /\ Cardinality(Finding(Callers, some)) \in Nat /\ Cardinality(Finding(Threads, some)) \in Nat
                /\ Cardinality(Finding({Follower}, some)) \in Nat
                /\ Cardinality(HandedBy(some)) \in Nat /\ Cardinality(LinesOf(some)) \in Nat
  BY <1>1 DEF Measured
<1>6. \A some : /\ Left(some) \in Nat
                /\ Left(some)' = Left(some) - In(t, HandedBy(some)) + In(t, HandedBy(some)')
                                   - In(n, LinesOf(some)) + In(n, LinesOf(some)')
  <2> TAKE some
  <2>1. Left(some) = Cardinality(LinesOf(some)) + Cardinality(HandedBy(some))
    BY DEF Left
  <2>2. Left(some)' = Cardinality(LinesOf(some))' + Cardinality(HandedBy(some))'
    BY DEF Left
  <2> QED BY <1>2, <1>3, <1>4, <1>5, <2>1, <2>2
<1>7. ASSUME NEW b \in Attempts
      PROVE  /\ ToCome(TRUE, b)' = ToCome(TRUE, b) - told'[b] + told[b]
                                     - In(t, Finding(Callers, {b})) + In(t, Finding(Callers, {b})')
             /\ ToCome(FALSE, b)' = ToCome(FALSE, b) - told'[b] + told[b]
                                      - In(t, Finding(Threads, {b})) + In(t, Finding(Threads, {b})')
                                      - In(t, HandedBy({b})) + In(t, HandedBy({b})')
                                      - In(n, LinesOf({b})) + In(n, LinesOf({b})')
  <2> DEFINE told1 == told[b]
             told2 == told'[b]
             callers1 == Cardinality(Finding(Callers, {b}))
             callers2 == Cardinality(Finding(Callers, {b}))'
             threads1 == Cardinality(Finding(Threads, {b}))
             threads2 == Cardinality(Finding(Threads, {b}))'
             left1 == Left({b})
             left2 == Left({b})'
             fc1 == In(t, Finding(Callers, {b}))
             fc2 == In(t, Finding(Callers, {b})')
             ft1 == In(t, Finding(Threads, {b}))
             ft2 == In(t, Finding(Threads, {b})')
             h1 == In(t, HandedBy({b}))
             h2 == In(t, HandedBy({b})')
             l1 == In(n, LinesOf({b}))
             l2 == In(n, LinesOf({b})')
             older1 == ToCome(TRUE, b)
             older2 == ToCome(TRUE, b)'
             other1 == ToCome(FALSE, b)
             other2 == ToCome(FALSE, b)'
  <2>1. told1 \in 0..2
    BY <1>1 DEF Measured
  <2>2. told2 \in 0..2
    BY <1>1 DEF Measured
  <2>3. older1 = 2 - told1 + callers1
    BY DEF ToCome
  <2>4. older2 = 2 - told2 + callers2
    BY DEF ToCome
  <2>5. other1 = 2 - told1 + (threads1 + left1)
    BY DEF ToCome
  <2>6. other2 = 2 - told2 + (threads2 + left2)
    BY DEF ToCome
  <2>7. callers1 \in Nat /\ threads1 \in Nat /\ left1 \in Nat
    BY <1>5, <1>6
  <2>8. callers2 = callers1 - fc1 + fc2 /\ threads2 = threads1 - ft1 + ft2 /\ left2 = left1 - h1 + h2 - l1 + l2
    BY <1>3, <1>6
  <2>9. fc1 \in {0, 1} /\ fc2 \in {0, 1} /\ ft1 \in {0, 1} /\ ft2 \in {0, 1}
        /\ h1 \in {0, 1} /\ h2 \in {0, 1} /\ l1 \in {0, 1} /\ l2 \in {0, 1}
    BY <1>2
  <2> HIDE DEF told1, told2, callers1, callers2, threads1, threads2, left1, left2,
               fc1, fc2, ft1, ft2, h1, h2, l1, l2, older1, older2, other1, other2
  <2>10. older2 = older1 - told2 + told1 - fc1 + fc2
    BY <2>1, <2>2, <2>3, <2>4, <2>7, <2>8, <2>9
  <2>11. other2 = other1 - told2 + told1 - ft1 + ft2 - h1 + h2 - l1 + l2
    BY <2>1, <2>2, <2>5, <2>6, <2>7, <2>8, <2>9
  <2> QED BY <2>10, <2>11 DEF told1, told2, fc1, fc2, ft1, ft2, h1, h2, l1, l2, older1, older2, other1, other2
<1>8. ASSUME NEW c
      PROVE  Owed(FALSE, c)' = Owed(FALSE, c) - In(t, Finding({Follower}, Mine(c))) + In(t, Finding({Follower}, Mine(c))')
                                 - In(t, HandedBy(Mine(c))) + In(t, HandedBy(Mine(c))')
                                 - In(n, LinesOf(Mine(c))) + In(n, LinesOf(Mine(c))')
  <2> DEFINE follower1 == Cardinality(Finding({Follower}, Mine(c)))
             follower2 == Cardinality(Finding({Follower}, Mine(c)))'
             left1 == Left(Mine(c))
             left2 == Left(Mine(c))'
             f1 == In(t, Finding({Follower}, Mine(c)))
             f2 == In(t, Finding({Follower}, Mine(c))')
             h1 == In(t, HandedBy(Mine(c)))
             h2 == In(t, HandedBy(Mine(c))')
             l1 == In(n, LinesOf(Mine(c)))
             l2 == In(n, LinesOf(Mine(c))')
             owed1 == Owed(FALSE, c)
             owed2 == Owed(FALSE, c)'
  <2>1. owed1 = left1 + follower1
    BY DEF Owed
  <2>2. owed2 = left2 + follower2
    BY DEF Owed
  <2>3. follower1 \in Nat /\ left1 \in Nat
    BY <1>5, <1>6
  <2>4. Mine(c)' = Mine(c)
    BY DEF Mine
  <2>5. follower2 = follower1 - f1 + f2 /\ left2 = left1 - h1 + h2 - l1 + l2
    BY <1>3, <1>6, <2>4
  <2>6. f1 \in {0, 1} /\ f2 \in {0, 1} /\ h1 \in {0, 1} /\ h2 \in {0, 1} /\ l1 \in {0, 1} /\ l2 \in {0, 1}
    BY <1>2
  <2> HIDE DEF follower1, follower2, left1, left2, f1, f2, h1, h2, l1, l2, owed1, owed2
  <2>7. owed2 = owed1 - f1 + f2 - h1 + h2 - l1 + l2
    BY <2>1, <2>2, <2>3, <2>5, <2>6
  <2> QED BY <2>7 DEF f1, f2, h1, h2, l1, l2, owed1, owed2
<1> QED BY <1>2, <1>7, <1>8

\* It leaves no more to come, attempt by attempt.
LEMMA MovesOnward ==
  ASSUME TypeOK, TypeOK', NEW t \in Threads, OneThread(t), SameHandoffs,
         NEW n, \A some : LinesOf(some)' \ {n} = LinesOf(some) \ {n},
         \A b \in Attempts :
           /\ told[b] + In(t, Finding(Callers, {b})') <= told'[b] + In(t, Finding(Callers, {b}))
           /\ told[b] + In(t, Finding(Threads, {b})') + In(t, HandedBy({b})') + In(n, LinesOf({b})')
                <= told'[b] + In(t, Finding(Threads, {b})) + In(t, HandedBy({b})) + In(n, LinesOf({b})),
         \A c : In(t, Finding({Follower}, Mine(c))') + In(t, HandedBy(Mine(c))') + In(n, LinesOf(Mine(c))')
                  <= In(t, Finding({Follower}, Mine(c))) + In(t, HandedBy(Mine(c))) + In(n, LinesOf(Mine(c))),
         NEW c \in Channels
  PROVE  NoMoreToCome(c, FALSE, FALSE) /\ NoMoreToCome(c, TRUE, TRUE)
<1>1. Measured /\ Measured'
  BY MeasuredIs, MeasuredNext
<1>2. ASSUME NEW b \in Mine(c) PROVE ToCome(FALSE, b)' <= ToCome(FALSE, b) /\ ToCome(TRUE, b)' <= ToCome(TRUE, b)
  <2> DEFINE told1 == told[b]
             told2 == told'[b]
             fc1 == In(t, Finding(Callers, {b}))
             fc2 == In(t, Finding(Callers, {b})')
             ft1 == In(t, Finding(Threads, {b}))
             ft2 == In(t, Finding(Threads, {b})')
             h1 == In(t, HandedBy({b}))
             h2 == In(t, HandedBy({b})')
             l1 == In(n, LinesOf({b}))
             l2 == In(n, LinesOf({b})')
             older1 == ToCome(TRUE, b)
             older2 == ToCome(TRUE, b)'
             other1 == ToCome(FALSE, b)
             other2 == ToCome(FALSE, b)'
  <2>1. b \in Attempts
    BY DEF Mine
  <2>2. told1 \in 0..2 /\ told2 \in 0..2
    BY <1>1, <2>1 DEF Measured
  <2>3. fc1 \in {0, 1} /\ fc2 \in {0, 1} /\ ft1 \in {0, 1} /\ ft2 \in {0, 1}
        /\ h1 \in {0, 1} /\ h2 \in {0, 1} /\ l1 \in {0, 1} /\ l2 \in {0, 1}
    BY DEF In
  <2>4. older2 = older1 - told2 + told1 - fc1 + fc2
    BY <2>1, Moves
  <2>5. other2 = other1 - told2 + told1 - ft1 + ft2 - h1 + h2 - l1 + l2
    BY <2>1, Moves
  <2>6. older1 \in Int /\ other1 \in Int
    BY <1>1, <2>1 DEF Measured
  <2>7. told1 + fc2 <= told2 + fc1 /\ told1 + ft2 + h2 + l2 <= told2 + ft1 + h1 + l1
    BY <2>1
  <2> HIDE DEF told1, told2, fc1, fc2, ft1, ft2, h1, h2, l1, l2, older1, older2, other1, other2
  <2>8. older2 <= older1
    BY <2>2, <2>3, <2>4, <2>6, <2>7
  <2>9. other2 <= other1
    BY <2>2, <2>3, <2>5, <2>6, <2>7
  <2> QED BY <2>8, <2>9 DEF older1, older2, other1, other2
<1>3. Owed(FALSE, c)' <= Owed(FALSE, c)
  <2> DEFINE f1 == In(t, Finding({Follower}, Mine(c)))
             f2 == In(t, Finding({Follower}, Mine(c))')
             h1 == In(t, HandedBy(Mine(c)))
             h2 == In(t, HandedBy(Mine(c))')
             l1 == In(n, LinesOf(Mine(c)))
             l2 == In(n, LinesOf(Mine(c))')
             owed1 == Owed(FALSE, c)
             owed2 == Owed(FALSE, c)'
  <2>1. owed1 \in Nat
    BY <1>1 DEF Measured
  <2>2. owed2 = owed1 - f1 + f2 - h1 + h2 - l1 + l2
    BY Moves
  <2>3. f1 \in {0, 1} /\ f2 \in {0, 1} /\ h1 \in {0, 1} /\ h2 \in {0, 1} /\ l1 \in {0, 1} /\ l2 \in {0, 1}
    BY DEF In
  <2>4. f2 + h2 + l2 <= f1 + h1 + l1
    OBVIOUS
  <2> HIDE DEF f1, f2, h1, h2, l1, l2, owed1, owed2
  <2>5. owed2 <= owed1
    BY <2>1, <2>2, <2>3, <2>4
  <2> QED BY <2>5 DEF owed1, owed2
<1>4. Owed(TRUE, c)' <= Owed(TRUE, c)
  BY DEF Owed
<1> QED BY <1>2, <1>3, <1>4 DEF NoMoreToCome

LEMMA ObservationStep ==
  ASSUME TypeOK, TypeOK', Accounted, HandedOn', Unflushed', UNCHANGED <<counted, forgotten, seen, stats, unwritten, job>>,
         \A c \in Channels : NoMoreToCome(c, FALSE, FALSE) /\ NoMoreToCome(c, TRUE, TRUE), \A c \in Channels : MemoriesStay(c)
  PROVE  Accounted'
<1>1. Few'
  BY FewKept DEF Accounted
<1>2. ASSUME NEW c \in Channels PROVE ClaimedIn(c)'
  <2>1. Onward(c)
    BY SameIsKept DEF Onward
  <2>2. ClaimedIn(c) /\ MemoriesStay(c)
    BY DEF Accounted
  <2> QED BY <2>1, <2>2, ClaimsKept
<1> QED BY <1>1, <1>2 DEF Accounted

\* channelFor makes a channel without statistics a new one.
LEMMA FoundMemories ==
  ASSUME TypeOK, NEW t \in Threads, NEW i \in Instances, NEW o \in Observation, Found(t, i, o),
         UNCHANGED <<serving, newer, forgotten>>, NEW c \in Channels
  PROVE  MemoriesStay(c)
<1>1. SameNumbers /\ SameHeld
  BY FoundIs
<1>2. ASSUME NEW j \in Instances, registry[j].channels[c] # None PROVE registry'[j].channels[c] = registry[j].channels[c]
  <2> DEFINE d == ChannelOf[o.attempt]
             x == IF registry[i].channels[d] = None THEN NewChannel ELSE registry[i].channels[d]
             n == [registry[i] EXCEPT !.channels = [@ EXCEPT ![d] = x]]
  <2>1. d \in Channels /\ AllSound /\ registry[i] \in Registry
    BY ConstantsAre, SoundIs, Typed DEF Observation
  <2>2. registry' = [registry EXCEPT ![i] = n]
    BY <2>1 DEF Found, AllSound
  <2>3. n.channels = [registry[i].channels EXCEPT ![d] = x] /\ registry[i].channels \in Table
    BY <2>1 DEF Registry
  <2>4. registry'[j] = IF j = i THEN n ELSE registry[j]
    BY <2>1, <2>2 DEF AllSound
  <2> HIDE DEF n
  <2> QED BY <1>2, <2>1, <2>3, <2>4 DEF Table
<1> SUFFICES ASSUME NEW j \in {serving, newer} \ {None}
             PROVE  /\ registry'[j].handoff = registry[j].handoff /\ NoMoreThan(HeldOf(j, c)', HeldOf(j, c))
                    /\ \A a \in Mine(c) \cap counted \cap KnownTo(j, c) : a \in forgotten' \cup KnownTo(j, c)'
  BY DEF MemoriesStay
<1>3. j \in Instances
  BY DEF TypeOK
<1>4. HeldOf(j, c)' = HeldOf(j, c) /\ HeldOf(j, c) \in [Hours -> Total]
  BY <1>1, <1>3, MeasuredIs DEF Measured, HeldOf, SameHeld
<1>5. \A a \in KnownTo(j, c) : a \in KnownTo(j, c)'
  BY <1>2, <1>3 DEF KnownTo
<1> QED BY <1>1, <1>3, <1>4, <1>5, SameIsNoMore DEF SameNumbers

LEMMA ReportAccounts == ASSUME Safe, Safe', Accounted, NEW t \in Callers, NEW a \in Attempts, Report(t, a) PROVE Accounted'
<1> DEFINE o == [attempt |-> a, hour |-> now]
<1>1. TypeOK /\ TypeOK' /\ Control /\ Unflushed /\ HandedOn
  BY DEF Safe, Accounted
<1>2. /\ thread[t] = Idle /\ Found(t, serving, o) /\ told' = [told EXCEPT ![a] = @ + 1]
      /\ UNCHANGED <<now, job, cpa, journal, files, counted, seen, forgotten, unwritten, bounds>>
  BY DEF Report
<1>3. serving \in Instances /\ o \in Observation /\ o.attempt = a /\ t \in Threads /\ t # Follower
  BY <1>1, ConstantsAre, Typed DEF TypeOK, Observation
<1> HIDE DEF o
<1>4. /\ SameNumbers /\ OneThread(t) /\ thread'[t] = [step |-> "found", by |-> serving, o |-> o] /\ thread'[t] # Idle
  BY <1>1, <1>2, <1>3, FoundIs
<1>5. SameHandoffs
  BY <1>4 DEF SameNumbers, SameHandoffs
<1>6. (\A some : LinesOf(some)' = LinesOf(some)) /\ Pending' = Pending
  BY <1>2 DEF LinesOf, Pending
<1>7. /\ \A who, some : In(t, Finding(who, some)) = 0
      /\ \A some : In(t, HandedBy(some)) = 0 /\ In(t, HandedBy(some)') = 0
  BY <1>2, <1>4 DEF In, Finding, HandedBy, Handing
<1>8. \A some : /\ In(t, Finding(Callers, some)') = In(a, some) /\ In(t, Finding(Threads, some)') = In(a, some)
                /\ In(t, Finding({Follower}, some)') = 0
  BY <1>3, <1>4 DEF In, Finding
<1>9. \A c \in Channels : NoMoreToCome(c, FALSE, FALSE) /\ NoMoreToCome(c, TRUE, TRUE)
  <2>1. \A some : LinesOf(some)' \ {0} = LinesOf(some) \ {0} /\ In(0, LinesOf(some)') = In(0, LinesOf(some))
                    /\ In(0, LinesOf(some)) \in {0, 1}
    BY <1>6 DEF In
  <2>2. \A b \in Attempts : told[b] \in 0..2 /\ told'[b] = told[b] + In(a, {b})
    BY <1>1, <1>2 DEF TypeOK, In
  <2>3. ASSUME NEW b \in Attempts
        PROVE  /\ told[b] + In(t, Finding(Callers, {b})') <= told'[b] + In(t, Finding(Callers, {b}))
               /\ told[b] + In(t, Finding(Threads, {b})') + In(t, HandedBy({b})') + In(0, LinesOf({b})')
                    <= told'[b] + In(t, Finding(Threads, {b})) + In(t, HandedBy({b})) + In(0, LinesOf({b}))
    <3> DEFINE l == In(0, LinesOf({b}))
               k == In(a, {b})
    <3>1. l \in {0, 1} /\ k \in {0, 1} /\ In(0, LinesOf({b})') = l /\ told[b] \in 0..2 /\ told'[b] = told[b] + k
      BY <2>1, <2>2 DEF In
    <3>2. /\ In(t, Finding(Callers, {b})') = k /\ In(t, Finding(Threads, {b})') = k
      BY <1>8
    <3> HIDE DEF l, k
    <3> QED BY <1>7, <3>1, <3>2 DEF l
  <2>4. \A c : In(t, Finding({Follower}, Mine(c))') + In(t, HandedBy(Mine(c))') + In(0, LinesOf(Mine(c))')
                 <= In(t, Finding({Follower}, Mine(c))) + In(t, HandedBy(Mine(c))) + In(0, LinesOf(Mine(c)))
    <3> TAKE c
    <3> DEFINE l == In(0, LinesOf(Mine(c)))
    <3>1. l \in {0, 1} /\ In(0, LinesOf(Mine(c))') = l
      BY <2>1
    <3> HIDE DEF l
    <3> QED BY <1>7, <1>8, <3>1 DEF l
  <2> QED BY <1>1, <1>3, <1>4, <1>5, <2>1, <2>3, <2>4, MovesOnward
<1>10. HandedOn'
  <2>1. \A n \in Pending' : journal'.lines[n].attempt \in counted'
    BY <1>1, <1>2, <1>6 DEF HandedOn
  <2>2. \A u \in Callers : Handing(u)' => u # t /\ Handing(u) /\ thread'[u] = thread[u]
    BY <1>1, <1>4, <1>5, ThreadTyped, ConstantsAre DEF Handing, OneThread, SameHandoffs
  <2>3. thread'[Follower] = thread[Follower]
    BY <1>3, <1>4, ConstantsAre DEF OneThread
  <2> QED BY <1>1, <1>2, <2>1, <2>2, <2>3 DEF HandedOn
<1>11. Unflushed'
  <2>1. job.step # "none" => Owner \in Instances
    BY <1>1, OwnerIs
  <2> QED BY <1>1, <1>2, <1>4, <2>1, UnflushedKept DEF cpa
<1>12. \A c \in Channels : MemoriesStay(c)
  BY <1>1, <1>2, <1>3, FoundMemories DEF cpa
<1> QED BY <1>1, <1>2, <1>9, <1>10, <1>11, <1>12, ObservationStep DEF files

LEMMA ReplayAccounts == ASSUME Safe, Safe', Accounted, Replay PROVE Accounted'
<1> DEFINE next == journal.applied + 1
           line == journal.lines[next]
           hour == IF line.hour > now THEN now ELSE line.hour
           o == [line EXCEPT !.hour = hour]
<1>1. TypeOK /\ TypeOK' /\ Control /\ Unflushed /\ HandedOn
  BY DEF Safe, Accounted
<1>2. /\ newer # None /\ thread[Follower] = Idle /\ journal.applied < Len(journal.lines)
      /\ journal' = [journal EXCEPT !.applied = @ + 1]
      /\ IF hour \in Window THEN Found(Follower, newer, o) ELSE UNCHANGED <<registry, thread>>
      /\ UNCHANGED <<now, job, cpa, files, past, bounds>>
  BY DEF Replay
<1>3. /\ newer \in Instances /\ Follower \in Threads /\ Follower \notin Callers /\ next \in 1..Len(journal.lines)
      /\ line \in Observation /\ hour \in Hours
  <2>1. newer \in Instances /\ Follower \in Threads /\ Follower \notin Callers
    BY <1>1, <1>2, ConstantsAre DEF TypeOK
  <2>2. next \in 1..Len(journal.lines)
    BY <1>1, <1>2, JournalTyped
  <2>3. line \in Observation /\ line.hour \in Hours
    BY <1>1, <2>2, JournalTyped
  <2>4. hour \in Hours
    BY <1>1, <2>3, Typed
  <2> QED BY <2>1, <2>2, <2>3, <2>4
<1>4. o.attempt = line.attempt /\ o \in Observation
  BY <1>3 DEF Observation
<1>5. journal'.applied = next /\ journal'.lines = journal.lines
  BY <1>1, <1>2 DEF TypeOK, Journal
<1>6. next \in Pending /\ Pending' = Pending \ {next}
  BY <1>1, <1>3, <1>5, JournalTyped DEF Pending
<1> HIDE DEF o, line, next, hour
<1>7. /\ SameNumbers /\ OneThread(Follower)
      /\ thread'[Follower] # Idle => thread'[Follower] = [step |-> "found", by |-> newer, o |-> o]
  <2>1. CASE hour \in Window
    BY <1>1, <1>2, <1>3, <1>4, <2>1, FoundIs
  <2>2. CASE hour \notin Window
    BY <1>2, <2>2, SameRegistries DEF OneThread
  <2> QED BY <2>1, <2>2
<1>8. SameHandoffs
  BY <1>7 DEF SameNumbers, SameHandoffs
<1>9. \A some : /\ In(next, LinesOf(some)) = In(line.attempt, some) /\ In(next, LinesOf(some)') = 0
                /\ LinesOf(some)' \ {next} = LinesOf(some) \ {next}
  BY <1>5, <1>6 DEF LinesOf, In, line
<1>10. \A some : /\ In(Follower, HandedBy(some)) = 0 /\ In(Follower, HandedBy(some)') = 0
                 /\ In(Follower, Finding(Callers, some)) = 0 /\ In(Follower, Finding(Callers, some)') = 0
                 /\ In(Follower, Finding(Threads, some)) = 0 /\ In(Follower, Finding({Follower}, some)) = 0
  BY <1>2, <1>3 DEF In, HandedBy, Finding
<1>11. \A some : /\ In(Follower, Finding(Threads, some)') <= In(line.attempt, some)
                 /\ In(Follower, Finding({Follower}, some)') <= In(line.attempt, some)
                 /\ In(Follower, Finding(Threads, some)') \in {0, 1} /\ In(line.attempt, some) \in {0, 1}
                 /\ In(Follower, Finding({Follower}, some)') \in {0, 1}
  <2> TAKE some
  <2>1. \A who : Follower \in Finding(who, some)' => line.attempt \in some
    BY <1>4, <1>7 DEF Finding
  <2> QED BY <2>1 DEF In
<1>12. \A c \in Channels : NoMoreToCome(c, FALSE, FALSE) /\ NoMoreToCome(c, TRUE, TRUE)
  <2>1. ASSUME NEW b \in Attempts
        PROVE  /\ told[b] + In(Follower, Finding(Callers, {b})') <= told'[b] + In(Follower, Finding(Callers, {b}))
               /\ told[b] + In(Follower, Finding(Threads, {b})') + In(Follower, HandedBy({b})') + In(next, LinesOf({b})')
                    <= told'[b] + In(Follower, Finding(Threads, {b})) + In(Follower, HandedBy({b})) + In(next, LinesOf({b}))
    <3> DEFINE f == In(Follower, Finding(Threads, {b})')
               k == In(line.attempt, {b})
    <3>1. f \in {0, 1} /\ k \in {0, 1} /\ f <= k /\ In(next, LinesOf({b})) = k
      BY <1>9, <1>11
    <3>2. told[b] \in 0..2 /\ told'[b] = told[b]
      BY <1>1, <1>2 DEF TypeOK, past
    <3>3. /\ In(Follower, Finding(Callers, {b})') = 0 /\ In(Follower, Finding(Callers, {b})) = 0
          /\ In(Follower, HandedBy({b})') = 0 /\ In(next, LinesOf({b})') = 0
          /\ In(Follower, Finding(Threads, {b})) = 0 /\ In(Follower, HandedBy({b})) = 0
      BY <1>9, <1>10
    <3> HIDE DEF f, k
    <3> QED BY <3>1, <3>2, <3>3 DEF f
  <2>2. \A c : In(Follower, Finding({Follower}, Mine(c))') + In(Follower, HandedBy(Mine(c))') + In(next, LinesOf(Mine(c))')
                 <= In(Follower, Finding({Follower}, Mine(c))) + In(Follower, HandedBy(Mine(c))) + In(next, LinesOf(Mine(c)))
    <3> TAKE c
    <3> DEFINE f == In(Follower, Finding({Follower}, Mine(c))')
               k == In(line.attempt, Mine(c))
    <3>1. f \in {0, 1} /\ k \in {0, 1} /\ f <= k /\ In(next, LinesOf(Mine(c))) = k
      BY <1>9, <1>11
    <3>2. /\ In(Follower, HandedBy(Mine(c))') = 0 /\ In(next, LinesOf(Mine(c))') = 0
          /\ In(Follower, Finding({Follower}, Mine(c))) = 0 /\ In(Follower, HandedBy(Mine(c))) = 0
      BY <1>9, <1>10
    <3> HIDE DEF f, k
    <3> QED BY <3>1, <3>2 DEF f
  <2> QED BY <1>1, <1>3, <1>7, <1>8, <1>9, <2>1, <2>2, MovesOnward
<1>13. HandedOn'
  <2>1. \A n \in Pending' : journal'.lines[n].attempt \in counted'
    BY <1>1, <1>2, <1>5, <1>6 DEF HandedOn, past
  <2>2. \A u \in Callers : Handing(u)' => Handing(u) /\ thread'[u] = thread[u]
    BY <1>1, <1>3, <1>7, <1>8, ThreadTyped, ConstantsAre DEF Handing, OneThread, SameHandoffs
  <2>3. line.attempt \in counted
    BY <1>1, <1>6 DEF HandedOn, line
  <2>4. thread'[Follower] # Idle => thread'[Follower].o.attempt \in counted'
    BY <1>2, <1>4, <1>7, <2>3 DEF past
  <2> QED BY <1>1, <1>2, <2>1, <2>2, <2>4 DEF HandedOn, past
<1>14. Unflushed'
  <2>1. job.step # "none" => Owner \in Instances
    BY <1>1, OwnerIs
  <2> QED BY <1>1, <1>2, <1>7, <2>1, UnflushedKept DEF cpa, past
<1>15. \A c \in Channels : MemoriesStay(c)
  <2>1. CASE hour \in Window
    BY <1>1, <1>2, <1>3, <1>4, <2>1, FoundMemories DEF cpa, past
  <2>2. CASE hour \notin Window
    <3>1. SameTables /\ forgotten' = forgotten /\ UNCHANGED <<serving, newer, registry>>
      BY <1>2, <2>2, SameRegistries DEF cpa, past
    <3> QED BY <1>1, <3>1, TablesStayMemories
  <2> QED BY <2>1, <2>2
<1> QED BY <1>1, <1>2, <1>12, <1>13, <1>14, <1>15, ObservationStep DEF files, past

LEMMA AnnounceAccounts == ASSUME Safe, Safe', Accounted, NEW t \in Threads, Announce(t) PROVE Accounted'
<1> DEFINE i == thread[t].by
           o == thread[t].o
           n == Len(journal.lines) + 1
<1>1. TypeOK /\ TypeOK' /\ Control /\ Observing /\ Unflushed /\ HandedOn
  BY DEF Safe, Accounted
<1>2. /\ thread[t] # Idle /\ thread[t].step = "counted"
      /\ journal' = IF registry[i].handoff THEN [journal EXCEPT !.lines = Append(@, o)] ELSE journal
      /\ UNCHANGED <<now, job, cpa, files, past, bounds>>
  BY DEF Announce
<1>3. i \in Instances /\ o \in Observation /\ o.attempt \in Attempts
  BY <1>1, <1>2, ThreadTyped
<1>4. /\ SameTables /\ OneNumbers(i) /\ registry'[i].generation = registry[i].generation + 1
      /\ registry'[i].flushed = registry[i].flushed /\ registry'[i].handoff = registry[i].handoff
      /\ OneThread(t) /\ thread'[t] = Idle
  BY <1>1, AnnounceIs
<1> HIDE DEF i, o, n
<1>5. SameHandoffs
  BY <1>4 DEF OneNumbers, SameHandoffs
<1>6. /\ journal'.applied = journal.applied
      /\ registry[i].handoff => journal'.lines = Append(journal.lines, o)
      /\ ~registry[i].handoff => journal' = journal
  BY <1>1, <1>2 DEF TypeOK, Journal
<1>7. registry[i].handoff => t \in Callers
  <2>1. thread[Follower] # Idle => ~registry[thread[Follower].by].handoff
    BY <1>1, OwnerIs, ConstantsAre, Typed DEF Control, Observing
  <2> QED BY <1>2, <2>1 DEF i, Threads
<1>8. /\ n \notin Pending
      /\ ~registry[i].handoff => Pending' = Pending /\ journal'.lines = journal.lines
      /\ registry[i].handoff => /\ Pending' = Pending \cup {n} /\ journal'.lines[n] = o
                                /\ \A m \in Pending : journal'.lines[m] = journal.lines[m]
  <2>1. journal.lines \in Seq(Observation) /\ journal.applied \in Nat /\ journal.applied <= Len(journal.lines)
        /\ Len(journal.lines) \in Nat
    BY <1>1, JournalTyped
  <2>2. n \notin Pending
    BY <2>1 DEF Pending, n
  <2>3. ASSUME registry[i].handoff
        PROVE  /\ Pending' = Pending \cup {n} /\ journal'.lines[n] = o
               /\ \A m \in Pending : journal'.lines[m] = journal.lines[m]
    <3>1. Len(journal'.lines) = Len(journal.lines) + 1
      BY <1>3, <1>6, <2>1, <2>3
    <3>2. Pending' = Pending \cup {n}
      BY <1>6, <2>1, <3>1 DEF Pending, n
    <3>3. \A m \in Pending : m \in 1..Len(journal.lines)
      BY <2>1 DEF Pending
    <3>4. journal'.lines[n] = o /\ \A m \in 1..Len(journal.lines) : journal'.lines[m] = journal.lines[m]
      BY <1>3, <1>6, <2>1, <2>3 DEF n
    <3> QED BY <3>2, <3>3, <3>4
  <2> QED BY <1>6, <2>2, <2>3 DEF Pending
<1>9. \A some : /\ In(n, LinesOf(some)) = 0
                /\ In(n, LinesOf(some)') = IF registry[i].handoff THEN In(o.attempt, some) ELSE 0
                /\ LinesOf(some)' \ {n} = LinesOf(some) \ {n}
  <2>1. CASE registry[i].handoff
    BY <1>8, <2>1 DEF LinesOf, In
  <2>2. CASE ~registry[i].handoff
    BY <1>8, <2>2 DEF LinesOf, In
  <2> QED BY <2>1, <2>2
<1>10. \A some : /\ In(t, HandedBy(some)') = 0
                 /\ In(t, HandedBy(some)) = IF registry[i].handoff THEN In(o.attempt, some) ELSE 0
                 /\ \A who : In(t, Finding(who, some)) = 0 /\ In(t, Finding(who, some)') = 0
  BY <1>2, <1>4, <1>7 DEF In, HandedBy, Handing, Finding, i, o
<1>11. \A c \in Channels : NoMoreToCome(c, FALSE, FALSE) /\ NoMoreToCome(c, TRUE, TRUE)
  <2>1. \A some : In(t, HandedBy(some)) \in {0, 1} /\ In(n, LinesOf(some)') = In(t, HandedBy(some))
    BY <1>9, <1>10 DEF In
  <2>2. ASSUME NEW b \in Attempts
        PROVE  /\ told[b] + In(t, Finding(Callers, {b})') <= told'[b] + In(t, Finding(Callers, {b}))
               /\ told[b] + In(t, Finding(Threads, {b})') + In(t, HandedBy({b})') + In(n, LinesOf({b})')
                    <= told'[b] + In(t, Finding(Threads, {b})) + In(t, HandedBy({b})) + In(n, LinesOf({b}))
    <3> DEFINE k == In(t, HandedBy({b}))
    <3>1. k \in {0, 1} /\ In(n, LinesOf({b})') = k /\ told[b] \in 0..2 /\ told'[b] = told[b]
      BY <1>1, <1>2, <2>1 DEF TypeOK, past
    <3> HIDE DEF k
    <3> QED BY <1>9, <1>10, <3>1 DEF k
  <2>3. \A c : In(t, Finding({Follower}, Mine(c))') + In(t, HandedBy(Mine(c))') + In(n, LinesOf(Mine(c))')
                 <= In(t, Finding({Follower}, Mine(c))) + In(t, HandedBy(Mine(c))) + In(n, LinesOf(Mine(c)))
    <3> TAKE c
    <3> DEFINE k == In(t, HandedBy(Mine(c)))
    <3>1. k \in {0, 1} /\ In(n, LinesOf(Mine(c))') = k
      BY <2>1
    <3> HIDE DEF k
    <3> QED BY <1>9, <1>10, <3>1 DEF k
  <2> QED BY <1>1, <1>4, <1>5, <1>9, <2>2, <2>3, MovesOnward
<1>12. HandedOn'
  <2>1. registry[i].handoff => o.attempt \in counted
    BY <1>1, <1>2, <1>7 DEF HandedOn, Handing, i, o
  <2>2. \A m \in Pending' : journal'.lines[m].attempt \in counted'
    <3>1. \A m \in Pending : journal.lines[m].attempt \in counted
      BY <1>1 DEF HandedOn
    <3>2. counted' = counted
      BY <1>2 DEF past
    <3>3. CASE registry[i].handoff
      BY <1>8, <2>1, <3>1, <3>2, <3>3
    <3>4. CASE ~registry[i].handoff
      BY <1>8, <3>1, <3>2, <3>4
    <3> QED BY <3>3, <3>4
  <2>3. \A u \in Callers : Handing(u)' => Handing(u) /\ thread'[u] = thread[u]
    BY <1>1, <1>4, <1>5, ThreadTyped, ConstantsAre DEF Handing, OneThread, SameHandoffs
  <2>4. thread'[Follower] # Idle => thread'[Follower] = thread[Follower]
    BY <1>4, ConstantsAre DEF OneThread
  <2> QED BY <1>1, <1>2, <2>2, <2>3, <2>4 DEF HandedOn, past
<1>13. Unflushed'
  <2>1. \A j \in Instances : registry'[j].flushed = registry[j].flushed
                              /\ registry[j].generation <= registry'[j].generation
                              /\ registry[j].generation \in Nat /\ registry'[j].generation \in Nat /\ registry[j].flushed \in Nat
    BY <1>1, <1>3, <1>4, Typed DEF OneNumbers
  <2>2. Owner' = Owner /\ serving \in Instances /\ {serving, newer} \ {None} \subseteq Instances /\ job.seen \in Nat
        /\ (job.step \in {"snapshot", "write"} => Owner \in Instances)
    BY <1>1, <1>2, OwnerIs, JobTyped DEF Owner, cpa, TypeOK
  <2>3. UNCHANGED <<job, phase, serving, newer, unwritten>>
    BY <1>2 DEF cpa, past
  <2>4. \A j \in Instances : registry[j].flushed <= registry[j].generation => registry'[j].flushed <= registry'[j].generation
    BY <2>1
  <2>5. \A j \in Instances : /\ registry[j].flushed < registry[j].generation => registry'[j].flushed < registry'[j].generation
                             /\ job.seen <= registry[j].generation => job.seen <= registry'[j].generation
    BY <2>1, <2>2
  <2>6. \A j \in {serving, newer} \ {None} : registry'[j].flushed <= registry'[j].generation
    BY <1>1, <2>2, <2>4 DEF Unflushed
  <2>7. job.step \in {"snapshot", "write"} => registry'[Owner].flushed <= job.seen /\ job.seen <= registry'[Owner].generation
    BY <1>1, <2>1, <2>2, <2>5 DEF Unflushed
  <2>8. unwritten # {} =>
          /\ phase = "serving" /\ registry'[serving].flushed < registry'[serving].generation
          /\ job.step \in {"snapshot", "write"} => registry'[serving].flushed < job.seen
    BY <1>1, <2>1, <2>2, <2>5 DEF Unflushed
  <2> QED BY <2>2, <2>3, <2>6, <2>7, <2>8 DEF Unflushed
<1>14. \A c \in Channels : MemoriesStay(c)
  <2>1. \A j \in {serving, newer} \ {None} : registry'[j].handoff = registry[j].handoff
    BY <1>1, <1>5 DEF SameHandoffs, TypeOK
  <2>2. SameTables /\ forgotten' = forgotten /\ UNCHANGED <<serving, newer>>
    BY <1>2, <1>4 DEF cpa, past
  <2> QED BY <1>1, <2>1, <2>2, TablesStayMemories
<1> QED BY <1>1, <1>2, <1>11, <1>12, <1>13, <1>14, ObservationStep DEF files, past

\* Count

LEMMA TotalsOneMore ==
  ASSUME NEW T \in [Hours -> Total], NEW U \in [Hours -> Total], NEW k \in Hours,
         U[k].tokens = T[k].tokens + 1, \A h \in Hours \ {k} : U[h].tokens <= T[h].tokens /\ U[h].attempts <= T[h].attempts
  PROVE  /\ TokensOf(U) <= TokensOf(T) + 1
         /\ U[k].attempts = T[k].attempts + 1 => AttemptsOf(U) <= AttemptsOf(T) + 1
         /\ U[k].attempts <= T[k].attempts => AttemptsOf(U) <= AttemptsOf(T)
<1> DEFINE t(X) == [h \in Hours |-> X[h].tokens]
           a(X) == [h \in Hours |-> X[h].attempts]
<1>1. t(T) \in [Hours -> Nat] /\ a(T) \in [Hours -> Nat] /\ t(U) \in [Hours -> Nat] /\ a(U) \in [Hours -> Nat]
  BY DEF Total
<1>2. t(U)[k] = t(T)[k] + 1 /\ \A h \in Hours \ {k} : t(U)[h] <= t(T)[h] /\ a(U)[h] <= a(T)[h]
  OBVIOUS
<1>3. /\ U[k].attempts = T[k].attempts + 1 => a(U)[k] = a(T)[k] + 1
      /\ U[k].attempts <= T[k].attempts => \A h \in Hours : a(U)[h] <= a(T)[h]
  OBVIOUS
<1> HIDE DEF t, a
<1>4. SumOver(t(U), Hours) <= SumOver(t(T), Hours) + 1
  BY <1>1, <1>2, HoursFinite, SumOneMore
<1>5. U[k].attempts = T[k].attempts + 1 => SumOver(a(U), Hours) <= SumOver(a(T), Hours) + 1
  BY <1>1, <1>2, <1>3, HoursFinite, SumOneMore
<1>6. U[k].attempts <= T[k].attempts => SumOver(a(U), Hours) <= SumOver(a(T), Hours)
  BY <1>1, <1>3, HoursFinite, SumLess
<1> QED BY <1>4, <1>5, <1>6 DEF TokensOf, AttemptsOf, t, a

\* An attempt is counted unless the channel recognizes it.
LEMMA AttemptAdded ==
  ASSUME NEW c \in Channel, NEW o \in Observation
  PROVE  Of(Added(c, o), o.hour).attempts = Of(c, o.hour).attempts + IF Knows(c, o.attempt) THEN 0 ELSE 1
<1> DEFINE b == SlotFor(c, o.hour)
           n == [b EXCEPT !.attempts = IF Knows(c, o.attempt) THEN @ ELSE @ + 1, !.tokens = @ + 1]
           d == Added(c, o)
<1>1. o.hour \in Hours
  BY DEF Observation
<1>2. /\ c.ring \in [Slots -> HourStats] /\ o.hour % HoursKept \in Slots /\ b \in HourStats /\ b.hour = o.hour
      /\ b.attempts \in Nat
  BY <1>1, SlotTyped DEF HourStats
<1>3. n.hour = o.hour /\ n.attempts = b.attempts + IF Knows(c, o.attempt) THEN 0 ELSE 1
  BY <1>2 DEF HourStats
<1>4. d.ring = [c.ring EXCEPT ![o.hour % HoursKept] = n]
  BY <1>2 DEF Added, Channel
<1>5. c # None /\ d # None
  BY <1>4, NoneAssumption, AddedTyped
<1>6. b.attempts = Of(c, o.hour).attempts
  BY <1>1, <1>5 DEF Of, SlotFor, Holds, Empty, Zero
<1> HIDE DEF b, n, d
<1>7. d.ring[o.hour % HoursKept] = n
  BY <1>2, <1>4
<1>8. Of(d, o.hour).attempts = n.attempts
  BY <1>3, <1>5, <1>7 DEF Of, Holds, SlotFor
<1> QED BY <1>3, <1>6, <1>8 DEF d

\* What was recognized still is, or is forgotten; what is counted is too.
LEMMA AddedKnows ==
  ASSUME NEW c \in Channel, NEW o \in Observation
  PROVE  /\ \A a \in Attempts : Knows(c, a) => Knows(Added(c, o), a) \/ a \in PushedOut(c, o.attempt)
         /\ Knows(Added(c, o), o.attempt) \/ o.attempt \in PushedOut(c, o.attempt)
         /\ PushedOut(c, o.attempt) \subseteq Attempts
<1> DEFINE b == o.attempt
           s == c.starts
           e == Append(s, b)
           d == Added(c, o)
<1>1. b \in Attempts /\ s \in Seq(Attempts) /\ StartsKept \in Nat
  BY ConstantsAre DEF Channel, Observation
<1>2. d.starts = IF Knows(c, b) THEN s ELSE Remember(s, b)
  BY DEF Added, Channel
<1>3. CASE Knows(c, b)
  BY <1>2, <1>3 DEF Knows, PushedOut
<1>4. CASE ~Knows(c, b)
  <2>1. /\ e \in Seq(Attempts) /\ Len(s) \in Nat /\ Len(e) = Len(s) + 1 /\ e[Len(e)] = b
        /\ \A n \in 1..Len(s) : e[n] = s[n]
    BY <1>1
  <2>2. CASE Len(s) < StartsKept
    <3>1. d.starts = e
      BY <1>1, <1>2, <1>4, <2>1, <2>2 DEF Remember
    <3>2. Knows(d, b)
      <4>1. Len(e) \in DOMAIN e
        BY <2>1
      <4> QED BY <2>1, <3>1, <4>1 DEF Knows
    <3>3. \A a \in Attempts : Knows(c, a) => Knows(d, a)
      <4>1. \A n \in DOMAIN s : n \in DOMAIN e /\ e[n] = s[n]
        BY <1>1, <2>1
      <4> QED BY <3>1, <4>1 DEF Knows
    <3>4. PushedOut(c, b) = {}
      BY <2>2 DEF PushedOut
    <3> QED BY <3>2, <3>3, <3>4
  <2>3. CASE ~(Len(s) < StartsKept)
    <3> DEFINE r == SubSeq(e, 2, Len(e))
    <3>1. d.starts = r
      BY <1>1, <1>2, <1>4, <2>1, <2>3 DEF Remember
    <3>2. /\ Len(r) = Len(s) /\ DOMAIN r = 1..Len(s)
          /\ \A n \in 1..Len(s) : r[n] = e[n + 1]
      BY <1>1, <2>1
    <3> HIDE DEF r
    <3>3. CASE s = <<>>
      <4>1. PushedOut(c, b) = {b}
        BY <1>4, <2>3, <3>3 DEF PushedOut
      <4>2. \A a \in Attempts : ~Knows(c, a)
        BY <3>3 DEF Knows
      <4> QED BY <1>1, <4>1, <4>2
    <3>4. CASE s # <<>>
      <4>1. PushedOut(c, b) = {Head(s)} /\ Head(s) = s[1] /\ 1 \in 1..Len(s) /\ Head(s) \in Attempts
        BY <1>1, <1>4, <2>3, <3>4 DEF PushedOut
      <4>2. Knows(d, b)
        <5>1. Len(s) \in DOMAIN r /\ r[Len(s)] = b
          BY <2>1, <3>2, <4>1
        <5> QED BY <3>1, <5>1 DEF Knows
      <4>3. ASSUME NEW a \in Attempts, Knows(c, a), a # Head(s) PROVE Knows(d, a)
        <5>1. PICK n \in 1..Len(s) : s[n] = a
          BY <1>1, <4>3 DEF Knows
        <5>2. n # 1 /\ n - 1 \in 1..Len(s)
          BY <2>1, <4>1, <4>3, <5>1
        <5>3. r[n - 1] = e[(n - 1) + 1] /\ (n - 1) + 1 = n
          BY <3>2, <5>1, <5>2
        <5>4. r[n - 1] = a /\ n - 1 \in DOMAIN r
          BY <2>1, <3>2, <5>1, <5>2, <5>3
        <5> QED BY <3>1, <5>4 DEF Knows
      <4> QED BY <4>1, <4>2, <4>3
    <3> QED BY <3>3, <3>4
  <2> QED BY <2>2, <2>3
<1> QED BY <1>3, <1>4

\* A holder keeps its claim when what is still owed to it grows no more than
\* what was seen.
Balanced(c, older) == Owed(older, c)' + SumOver(seen[c], Hours) <= Owed(older, c) + SumOver(seen'[c], Hours)
Waiting(c, older) ==
  /\ \A a \in Mine(c) : ToCome(older, a)' <= ToCome(older, a)
  /\ Mine(c) \cap counted \subseteq counted' /\ forgotten \subseteq forgotten'

LEMMA WaitingClaims ==
  ASSUME TypeOK, TypeOK', NEW c \in Channels, NEW older \in BOOLEAN, Waiting(c, older),
         NEW T \in [Hours -> Total], NEW known, NEW known2,
         \A a \in Mine(c) \cap counted \cap known : a \in forgotten' \cup known2
  PROVE  /\ Claimed(T, c, Rem(older), counted, forgotten, known) => Claimed(T, c, Rem(older)', counted', forgotten', known2)
         /\ Claimed(T, c, Rem(older), Attempts, Attempts, Attempts) => Claimed(T, c, Rem(older)', Attempts, Attempts, Attempts)
<1> DEFINE rem == Rem(older)
           rem2 == Rem(older)'
<1>1. Measured /\ Measured' /\ \A a \in Mine(c) : a \in Attempts
  BY MeasuredIs, MeasuredNext DEF Mine
<1>2. \A a \in Mine(c) : rem[a] \in Int /\ rem2[a] \in Int /\ rem2[a] <= rem[a]
  <2> SUFFICES ASSUME NEW a \in Mine(c) PROVE rem[a] \in Int /\ rem2[a] \in Int /\ rem2[a] <= rem[a]
    OBVIOUS
  <2>1. rem[a] = ToCome(older, a) /\ ToCome(older, a) \in Int
    BY <1>1 DEF Measured
  <2>2. rem2[a] = ToCome(older, a)' /\ ToCome(older, a)' \in Int
    BY <1>1 DEF Measured
  <2> HIDE DEF rem, rem2
  <2> QED BY <2>1, <2>2 DEF Waiting
<1>3. AttemptsOf(T) \in Nat
  BY TotalsCompare
<1> HIDE DEF rem, rem2
<1>4. Claimed(T, c, rem, counted, forgotten, known) => Claimed(T, c, rem2, counted', forgotten', known2)
  <2> SUFFICES ASSUME Claimed(T, c, rem, counted, forgotten, known) PROVE Claimed(T, c, rem2, counted', forgotten', known2)
    OBVIOUS
  <2>1. \A a \in Mine(c) : rem[a] <= 1 =>
          /\ a \in counted => a \in counted'
          /\ a \in forgotten => a \in forgotten'
          /\ a \in counted /\ a \in known => a \in forgotten' \cup known2
    BY DEF Waiting
  <2> QED BY <1>2, <1>3, <2>1, ClaimedLess
<1>5. Claimed(T, c, rem, Attempts, Attempts, Attempts) => Claimed(T, c, rem2, Attempts, Attempts, Attempts)
  BY <1>2, <1>3, ClaimedLess
<1> QED BY <1>4, <1>5 DEF rem, rem2

LEMMA WaitingHolds ==
  ASSUME TypeOK, TypeOK', NEW c \in Channels, NEW older \in BOOLEAN, Waiting(c, older), Balanced(c, older),
         NEW T \in [Hours -> Total], NEW known, NEW known2,
         \A a \in Mine(c) \cap counted \cap known : a \in forgotten' \cup known2,
         Holding(T, c, older, known)
  PROVE  Claimed(T, c, Rem(older)', counted', forgotten', known2) /\ TokensOf(T) + Owed(older, c)' <= SumOver(seen'[c], Hours)
<1>1. Claimed(T, c, Rem(older)', counted', forgotten', known2)
  BY WaitingClaims DEF Holding
<1> DEFINE owed1 == Owed(older, c)
           owed2 == Owed(older, c)'
           s1 == SumOver(seen[c], Hours)
           s2 == SumOver(seen'[c], Hours)
           tokens == TokensOf(T)
<1>2. Measured /\ Measured'
  BY MeasuredIs, MeasuredNext
<1>3. Left(Mine(c)) \in Nat /\ Cardinality(Finding({Follower}, Mine(c))) \in Nat /\ s1 \in Nat
  BY <1>2 DEF Measured
<1>4. Left(Mine(c))' \in Nat /\ Cardinality(Finding({Follower}, Mine(c)))' \in Nat /\ s2 \in Nat
  BY <1>2 DEF Measured
<1>5. owed1 \in Nat /\ owed2 \in Nat
  BY <1>3, <1>4 DEF Owed
<1>6. tokens \in Nat /\ tokens + owed1 <= s1 /\ owed2 + s1 <= owed1 + s2
  BY TotalsCompare DEF Holding, Balanced
<1> HIDE DEF owed1, owed2, s1, s2, tokens
<1>7. tokens + owed2 <= s2
  BY <1>3, <1>4, <1>5, <1>6
<1> QED BY <1>1, <1>7 DEF owed2, s2, tokens

\* What Count changes of what is to come.
LEMMA CountMoves ==
  ASSUME Safe, Safe', NEW t \in Threads, Count(t)
  PROVE  LET i == thread[t].by
             a == thread[t].o.attempt
             handing == t \in Callers /\ registry[i].handoff IN
         /\ \A b \in Attempts : ToCome(TRUE, b)' = ToCome(TRUE, b) - IF t \in Callers /\ b = a THEN 1 ELSE 0
         /\ \A b \in Attempts : ToCome(FALSE, b)' = ToCome(FALSE, b) - IF ~handing /\ b = a THEN 1 ELSE 0
         /\ \A c : Owed(FALSE, c)' = Owed(FALSE, c) + IF a \notin Mine(c) THEN 0
                                                      ELSE IF handing THEN 1 ELSE IF t = Follower THEN -1 ELSE 0
         /\ ToCome(FALSE, a) >= 1 /\ (t \in Callers => ToCome(TRUE, a) >= 1)
         /\ \A b \in Attempts : ToCome(TRUE, b) <= ToCome(FALSE, b)
<1> DEFINE i == thread[t].by
           a == thread[t].o.attempt
           handing == t \in Callers /\ registry[i].handoff
<1>1. TypeOK /\ TypeOK' /\ Observing /\ Measured /\ Measured'
  BY MeasuredIs, MeasuredNext DEF Safe
<1>2. /\ thread[t] # Idle /\ thread[t].step = "found" /\ told' = told /\ journal' = journal
      /\ i \in Instances /\ a \in Attempts /\ registry[i].channels[ChannelOf[a]] # None
  BY <1>1, ThreadTyped DEF Count, Counts, Observing
<1>3. /\ SameNumbers /\ OneThread(t) /\ thread'[t] # Idle /\ thread'[t].step = "counted" /\ thread'[t].by = i
      /\ thread'[t].o = thread[t].o
  BY <1>1, <1>2, CountIs
<1> HIDE DEF i
<1>4. SameHandoffs
  BY <1>3 DEF SameNumbers, SameHandoffs
<1>5. \A some : LinesOf(some)' = LinesOf(some)
  BY <1>2 DEF LinesOf, Pending
<1>6. \A some : /\ In(t, HandedBy(some)) = 0 /\ In(t, HandedBy(some)') = IF handing /\ a \in some THEN 1 ELSE 0
                /\ In(t, Finding(Callers, some)) = IF t \in Callers /\ a \in some THEN 1 ELSE 0
                /\ In(t, Finding(Threads, some)) = IF a \in some THEN 1 ELSE 0
                /\ In(t, Finding({Follower}, some)) = IF t = Follower /\ a \in some THEN 1 ELSE 0
                /\ In(t, Finding(Callers, some)') = 0 /\ In(t, Finding(Threads, some)') = 0
                /\ In(t, Finding({Follower}, some)') = 0
  BY <1>2, <1>3, <1>4 DEF In, HandedBy, Handing, Finding, SameHandoffs, i
<1> HIDE DEF a
<1>7. \A some : LinesOf(some)' \ {0} = LinesOf(some) \ {0}
  BY <1>5
<1>8. ASSUME NEW b \in Attempts
      PROVE  /\ ToCome(TRUE, b)' = ToCome(TRUE, b) - IF t \in Callers /\ b = a THEN 1 ELSE 0
             /\ ToCome(FALSE, b)' = ToCome(FALSE, b) - IF ~handing /\ b = a THEN 1 ELSE 0
  <2> DEFINE told1 == told[b]
             fc1 == In(t, Finding(Callers, {b}))
             fc2 == In(t, Finding(Callers, {b})')
             ft1 == In(t, Finding(Threads, {b}))
             ft2 == In(t, Finding(Threads, {b})')
             h1 == In(t, HandedBy({b}))
             h2 == In(t, HandedBy({b})')
             l1 == In(0, LinesOf({b}))
             l2 == In(0, LinesOf({b})')
             older1 == ToCome(TRUE, b)
             older2 == ToCome(TRUE, b)'
             other1 == ToCome(FALSE, b)
             other2 == ToCome(FALSE, b)'
  <2>1. told1 \in 0..2 /\ told'[b] = told1
    BY <1>1, <1>2 DEF Measured
  <2>2. l1 \in {0, 1} /\ l2 = l1
    BY <1>5 DEF In
  <2>3. /\ fc1 = (IF t \in Callers /\ a = b THEN 1 ELSE 0) /\ fc2 = 0 /\ ft1 = (IF a = b THEN 1 ELSE 0) /\ ft2 = 0
        /\ h1 = 0 /\ h2 = (IF handing /\ a = b THEN 1 ELSE 0)
    BY <1>6
  <2>4. older2 = older1 - told'[b] + told1 - fc1 + fc2
    BY <1>1, <1>3, <1>4, <1>7, Moves
  <2>5. other2 = other1 - told'[b] + told1 - ft1 + ft2 - h1 + h2 - l1 + l2
    BY <1>1, <1>3, <1>4, <1>7, Moves
  <2>6. older1 \in Int /\ other1 \in Int
    BY <1>1 DEF Measured
  <2> HIDE DEF told1, fc1, fc2, ft1, ft2, h1, h2, l1, l2, older1, older2, other1, other2, handing
  <2>7. older2 = older1 - IF t \in Callers /\ b = a THEN 1 ELSE 0
    BY <2>1, <2>3, <2>4, <2>6
  <2>8. other2 = other1 - IF ~handing /\ b = a THEN 1 ELSE 0
    BY <2>1, <2>2, <2>3, <2>5, <2>6
  <2> QED BY <2>7, <2>8 DEF older1, older2, other1, other2
<1>9. ASSUME NEW c
      PROVE  Owed(FALSE, c)' = Owed(FALSE, c) + IF a \notin Mine(c) THEN 0
                                                ELSE IF handing THEN 1 ELSE IF t = Follower THEN -1 ELSE 0
  <2> DEFINE f1 == In(t, Finding({Follower}, Mine(c)))
             f2 == In(t, Finding({Follower}, Mine(c))')
             h1 == In(t, HandedBy(Mine(c)))
             h2 == In(t, HandedBy(Mine(c))')
             l1 == In(0, LinesOf(Mine(c)))
             l2 == In(0, LinesOf(Mine(c))')
             owed1 == Owed(FALSE, c)
             owed2 == Owed(FALSE, c)'
  <2>1. owed1 \in Nat
    BY <1>1 DEF Measured
  <2>2. l1 \in {0, 1} /\ l2 = l1
    BY <1>5 DEF In
  <2>3. f1 = (IF t = Follower /\ a \in Mine(c) THEN 1 ELSE 0) /\ f2 = 0 /\ h1 = 0 /\ h2 = IF handing /\ a \in Mine(c) THEN 1 ELSE 0
    BY <1>6
  <2>4. owed2 = owed1 - f1 + f2 - h1 + h2 - l1 + l2
    BY <1>1, <1>3, <1>4, <1>7, Moves
  <2>5. handing => t # Follower
    BY ConstantsAre
  <2> HIDE DEF f1, f2, h1, h2, l1, l2, owed1, owed2, handing
  <2>6. owed2 = owed1 + IF a \notin Mine(c) THEN 0 ELSE IF handing THEN 1 ELSE IF t = Follower THEN -1 ELSE 0
    BY <2>1, <2>2, <2>3, <2>4, <2>5
  <2> QED BY <2>6 DEF owed1, owed2
<1>10. ASSUME NEW b \in Attempts
       PROVE  /\ ToCome(TRUE, b) <= ToCome(FALSE, b)
              /\ b = a => ToCome(FALSE, b) >= 1 /\ (t \in Callers => ToCome(TRUE, b) >= 1)
  <2> DEFINE older == ToCome(TRUE, b)
             other == ToCome(FALSE, b)
             callers == Cardinality(Finding(Callers, {b}))
             threads == Cardinality(Finding(Threads, {b}))
             left == Left({b})
  <2>1. older = 2 - told[b] + callers /\ told[b] \in 0..2
    BY <1>1 DEF ToCome, Measured
  <2>2. other = 2 - told[b] + (threads + left)
    BY DEF ToCome
  <2>3. callers \in Nat /\ threads \in Nat /\ left \in Nat
    BY <1>1 DEF Measured
  <2>4. callers <= threads
    <3>1. Finding(Callers, {b}) \subseteq Finding(Threads, {b}) /\ IsFiniteSet(Finding(Threads, {b}))
      BY <1>1, ConstantsAre DEF Finding, Measured
    <3> QED BY <3>1, FS_Subset
  <2>5. b = a => threads # 0
    <3>1. IsFiniteSet(Finding(Threads, {b}))
      BY <1>1 DEF Measured
    <3>2. b = a => t \in Finding(Threads, {b})
      BY <1>6 DEF In
    <3> QED BY <3>1, <3>2, FS_EmptySet
  <2>6. b = a /\ t \in Callers => callers # 0
    <3>1. IsFiniteSet(Finding(Callers, {b}))
      BY <1>1 DEF Measured
    <3>2. b = a /\ t \in Callers => t \in Finding(Callers, {b})
      BY <1>6 DEF In
    <3> QED BY <3>1, <3>2, FS_EmptySet
  <2> HIDE DEF older, other, callers, threads, left
  <2>7. older <= other
    BY <2>1, <2>2, <2>3, <2>4
  <2>8. b = a => other >= 1 /\ (t \in Callers => older >= 1)
    BY <2>1, <2>2, <2>3, <2>5, <2>6
  <2> QED BY <2>7, <2>8 DEF older, other
<1>11. ToCome(FALSE, a) >= 1 /\ (t \in Callers => ToCome(TRUE, a) >= 1)
  BY <1>2, <1>10
<1> QED BY <1>8, <1>9, <1>10, <1>11 DEF i, a

LEMMA CountedTables ==
  ASSUME TypeOK, NEW t \in Threads, Count(t), registry[thread[t].by].channels[ChannelOf[thread[t].o.attempt]] # None
  PROVE  LET i == thread[t].by
             o == thread[t].o
             c == ChannelOf[o.attempt]
             old == registry[i].channels[c] IN
         /\ old \in Channel
         /\ \A j \in Instances, d \in Channels :
              registry'[j].channels[d] = IF j = i /\ d = c THEN Added(old, o) ELSE registry[j].channels[d]
         /\ Added(old, o) # None
<1> DEFINE i == thread[t].by
           o == thread[t].o
           c == ChannelOf[o.attempt]
           old == registry[i].channels[c]
           x == Added(old, o)
           n == [registry[i] EXCEPT !.channels = [@ EXCEPT ![c] = x]]
<1>1. thread[t] # Idle /\ i \in Instances /\ o \in Observation /\ c \in Channels
  BY ThreadTyped DEF Count
<1>2. AllSound /\ Sound(registry[i]) /\ registry[i] \in Registry /\ old \in Channel /\ old # None
  BY <1>1, SoundIs, Typed DEF AllSound
<1>3. registry' = [registry EXCEPT ![i] = n]
  BY <1>2 DEF Count, AllSound
<1>4. x # None
  BY <1>1, <1>2, AddedTyped, NoneAssumption
<1> HIDE DEF x, c, o, i, old
<1>5. n.channels = [registry[i].channels EXCEPT ![c] = x] /\ registry[i].channels \in Table
  BY <1>2 DEF Registry
<1> HIDE DEF n
<1>6. ASSUME NEW j \in Instances, NEW d \in Channels
      PROVE  registry'[j].channels[d] = IF j = i /\ d = c THEN x ELSE registry[j].channels[d]
  <2>1. registry'[j] = IF j = i THEN n ELSE registry[j]
    BY <1>1, <1>2, <1>3 DEF AllSound
  <2>2. n.channels[d] = IF d = c THEN x ELSE registry[i].channels[d]
    BY <1>1, <1>5 DEF Table
  <2> QED BY <2>1, <2>2
<1> QED BY <1>2, <1>4, <1>6 DEF i, o, c, old, x

\* The instance that counts: the attempt is one more, unless it was
\* recognized, and what was to come is one less.
LEMMA CounterClaims ==
  ASSUME TypeOK, TypeOK', NEW c \in Channels, NEW older \in BOOLEAN, NEW a \in Mine(c), NEW o \in Observation, o.attempt = a,
         NEW old \in Channel, NEW T \in [Hours -> Total], NEW U \in [Hours -> Total],
         \A h \in Hours : T[h] = Of(old, h), \A h \in Hours : U[h] = Of(Added(old, o), h),
         NEW known, NEW known2, known = {b \in Attempts : Knows(old, b)}, known2 = {b \in Attempts : Knows(Added(old, o), b)},
         forgotten' = forgotten \cup PushedOut(old, a), counted \subseteq counted', a \in counted',
         Waiting(c, older), ToCome(older, a) \in 1..2, ToCome(older, a)' = ToCome(older, a) - 1,
         Owed(older, c)' + SumOver(seen[c], Hours) + 1 <= Owed(older, c) + SumOver(seen'[c], Hours),
         Holding(T, c, older, known)
  PROVE  Claimed(U, c, Rem(older)', counted', forgotten', known2) /\ TokensOf(U) + Owed(older, c)' <= SumOver(seen'[c], Hours)
<1> DEFINE rem == Rem(older)
           rem2 == Rem(older)'
<1>1. Measured /\ Measured' /\ o.hour \in Hours /\ a \in Attempts
  BY MeasuredIs, MeasuredNext DEF Observation, Mine
<1>2. \A b \in Mine(c) : rem[b] \in Int /\ rem2[b] \in Int /\ rem2[b] <= rem[b]
  <2> SUFFICES ASSUME NEW b \in Mine(c) PROVE rem[b] \in Int /\ rem2[b] \in Int /\ rem2[b] <= rem[b]
    OBVIOUS
  <2>0. b \in Attempts
    BY DEF Mine
  <2>1. rem[b] = ToCome(older, b) /\ ToCome(older, b) \in Int
    BY <1>1, <2>0 DEF Measured
  <2>2. rem2[b] = ToCome(older, b)' /\ ToCome(older, b)' \in Int
    BY <1>1, <2>0 DEF Measured
  <2> HIDE DEF rem, rem2
  <2> QED BY <2>1, <2>2 DEF Waiting
<1>3. rem[a] \in 1..2 /\ rem2[a] = rem[a] - 1
  <2>1. rem[a] = ToCome(older, a)
    BY <1>1 DEF Measured
  <2>2. rem2[a] = ToCome(older, a)'
    BY <1>1 DEF Measured
  <2> HIDE DEF rem, rem2
  <2> QED BY <2>1, <2>2
<1>4. /\ \A b \in Attempts : Knows(old, b) => Knows(Added(old, o), b) \/ b \in PushedOut(old, a)
      /\ Knows(Added(old, o), a) \/ a \in PushedOut(old, a)
  BY AddedKnows
<1>5. /\ U[o.hour].tokens = T[o.hour].tokens + 1
      /\ \A h \in Hours \ {o.hour} : U[h].tokens <= T[h].tokens /\ U[h].attempts <= T[h].attempts
      /\ Knows(old, a) => U[o.hour].attempts <= T[o.hour].attempts
      /\ ~Knows(old, a) => U[o.hour].attempts = T[o.hour].attempts + 1
  <2>1. U[o.hour].tokens = T[o.hour].tokens + 1
    BY <1>1, OfAdded
  <2>2. ASSUME NEW h \in Hours \ {o.hour} PROVE U[h].tokens <= T[h].tokens /\ U[h].attempts <= T[h].attempts
    <3>1. U[h] \in {T[h], Zero}
      BY OfAdded
    <3>2. T[h].tokens \in Nat /\ T[h].attempts \in Nat
      BY DEF Total
    <3> QED BY <3>1, <3>2 DEF Zero
  <2>3. U[o.hour].attempts = T[o.hour].attempts + IF Knows(old, a) THEN 0 ELSE 1
    BY <1>1, AttemptAdded
  <2>4. T[o.hour].attempts \in Nat
    BY <1>1 DEF Total
  <2> QED BY <2>1, <2>2, <2>3, <2>4
<1>6. /\ TokensOf(T) \in Nat /\ TokensOf(U) \in Nat /\ AttemptsOf(T) \in Nat /\ AttemptsOf(U) \in Nat
      /\ TokensOf(U) <= TokensOf(T) + 1
      /\ Knows(old, a) => AttemptsOf(U) <= AttemptsOf(T)
      /\ ~Knows(old, a) => AttemptsOf(U) <= AttemptsOf(T) + 1
  BY <1>1, <1>5, TotalsCompare, TotalsOneMore
<1>7. Claimed(T, c, rem, counted, forgotten, known) /\ TokensOf(T) + Owed(older, c) <= SumOver(seen[c], Hours)
  BY DEF Holding
<1>8. /\ forgotten \subseteq forgotten' /\ a \in forgotten' \cup known2 /\ (a \in known <=> Knows(old, a))
      /\ \A b \in Mine(c) \cap counted \cap known : b \in forgotten' \cup known2
  BY <1>1, <1>4 DEF Mine
<1> HIDE DEF rem, rem2
<1>9. Claimed(U, c, rem2, counted', forgotten', known2)
  <2>1. CASE Knows(old, a)
    <3>1. \A b \in Mine(c) : rem[b] <= 1 =>
            /\ b \in counted => b \in counted'
            /\ b \in forgotten => b \in forgotten'
            /\ b \in counted /\ b \in known => b \in forgotten' \cup known2
      BY <1>8
    <3> QED BY <1>2, <1>6, <1>7, <2>1, <3>1, ClaimedLess
  <2>2. CASE ~Knows(old, a)
    <3>1. a \notin known /\ Mine(c) \cap counted \subseteq counted'
      BY <1>8, <2>2
    <3> QED BY <1>2, <1>3, <1>6, <1>7, <1>8, <2>2, <3>1, ClaimedOneMore
  <2> QED BY <2>1, <2>2
<1>10. TokensOf(U) + Owed(older, c)' <= SumOver(seen'[c], Hours)
  <2> DEFINE x == Owed(older, c)
             y == Owed(older, c)'
             s == SumOver(seen[c], Hours)
             s2 == SumOver(seen'[c], Hours)
             m == TokensOf(T)
             n == TokensOf(U)
  <2>1. Left(Mine(c)) \in Nat /\ Cardinality(Finding({Follower}, Mine(c))) \in Nat /\ s \in Nat
    BY <1>1 DEF Measured
  <2>2. Left(Mine(c))' \in Nat /\ Cardinality(Finding({Follower}, Mine(c)))' \in Nat /\ s2 \in Nat
    BY <1>1 DEF Measured
  <2>3. x \in Nat /\ y \in Nat
    BY <2>1, <2>2 DEF Owed
  <2>4. m \in Nat /\ n \in Nat /\ n <= m + 1 /\ m + x <= s /\ y + s + 1 <= x + s2
    BY <1>6, <1>7
  <2> HIDE DEF x, y, s, s2, m, n
  <2>5. n + y <= s2
    BY <2>1, <2>2, <2>3, <2>4
  <2> QED BY <2>5 DEF y, s2, n
<1> QED BY <1>9, <1>10 DEF rem2

LEMMA CountAccounts == ASSUME Safe, Safe', Accounted, NEW t \in Threads, Count(t) PROVE Accounted'
<1> DEFINE i == thread[t].by
           o == thread[t].o
           a == thread[t].o.attempt
           c == ChannelOf[a]
           old == registry[i].channels[c]
           handing == t \in Callers /\ registry[i].handoff
<1>1. TypeOK /\ TypeOK' /\ Control /\ Observing /\ Unflushed /\ HandedOn /\ Few /\ Measured /\ Measured'
  BY MeasuredIs, MeasuredNext DEF Safe, Accounted
<1>2. /\ thread[t] # Idle /\ thread[t].step = "found"
      /\ IF t = Follower THEN UNCHANGED <<counted, seen>> ELSE counted' = counted \cup {a} /\ seen' = [seen EXCEPT ![c][o.hour] = @ + 1]
      /\ UNCHANGED <<now, job, cpa, journal, files, told, unwritten, bounds>>
  BY DEF Count, Counts
<1>3. i \in Instances /\ o \in Observation /\ o.hour \in Hours /\ a \in Attempts /\ c \in Channels /\ old # None /\ a \in Mine(c)
  BY <1>1, <1>2, ThreadTyped DEF Observing, Mine
<1>4. /\ SameNumbers /\ OneThread(t) /\ thread'[t] # Idle /\ thread'[t].step = "counted" /\ thread'[t].by = i /\ thread'[t].o = o
  BY <1>1, <1>3, CountIs
<1>5. /\ old \in Channel /\ Added(old, o) # None
      /\ \A j \in Instances, d \in Channels :
           registry'[j].channels[d] = IF j = i /\ d = c THEN Added(old, o) ELSE registry[j].channels[d]
  BY <1>1, <1>3, CountedTables
<1>6. forgotten' = forgotten \cup PushedOut(old, a)
  BY <1>3 DEF Count
<1>7. t = Follower => ~registry[i].handoff /\ a \in counted
  BY <1>1, <1>2, OwnerIs, ConstantsAre, Typed DEF Control, Observing, HandedOn
<1>8. counted \subseteq counted' /\ a \in counted' /\ forgotten \subseteq forgotten'
  BY <1>2, <1>6, <1>7
<1>9. /\ \A b \in Attempts : ToCome(TRUE, b)' = ToCome(TRUE, b) - IF t \in Callers /\ b = a THEN 1 ELSE 0
      /\ \A b \in Attempts : ToCome(FALSE, b)' = ToCome(FALSE, b) - IF ~handing /\ b = a THEN 1 ELSE 0
      /\ \A d : Owed(FALSE, d)' = Owed(FALSE, d) + IF a \notin Mine(d) THEN 0
                                                   ELSE IF handing THEN 1 ELSE IF t = Follower THEN -1 ELSE 0
      /\ ToCome(FALSE, a) >= 1 /\ (t \in Callers => ToCome(TRUE, a) >= 1)
      /\ \A b \in Attempts : ToCome(TRUE, b) <= ToCome(FALSE, b)
  BY CountMoves
<1>10. t \in Callers <=> t # Follower
  BY ConstantsAre DEF Threads
<1> HIDE DEF i, o, a, c, old, handing
<1>11. /\ \A d \in Channels : d # c => seen'[d] = seen[d] /\ a \notin Mine(d)
       /\ t = Follower => seen' = seen
       /\ t # Follower => SumOver(seen[c], Hours) + 1 <= SumOver(seen'[c], Hours)
  <2>1. seen \in [Channels -> [Hours -> Nat]] /\ seen' \in [Channels -> [Hours -> Nat]]
    BY <1>1 DEF TypeOK
  <2>2. \A d \in Channels : d # c => seen'[d] = seen[d] /\ a \notin Mine(d)
    BY <1>2, <2>1 DEF Mine, c
  <2>3. ASSUME t # Follower PROVE SumOver(seen[c], Hours) + 1 <= SumOver(seen'[c], Hours)
    <3> DEFINE f == seen[c]
               g == seen'[c]
    <3>1. seen'[c] = [seen[c] EXCEPT ![o.hour] = seen[c][o.hour] + 1]
      <4> DEFINE m == seen[c][o.hour] + 1
                 row == [seen[c] EXCEPT ![o.hour] = m]
      <4>1. seen' = [seen EXCEPT ![c] = row]
        BY <1>2, <2>3
      <4> HIDE DEF row
      <4>2. seen'[c] = row
        BY <1>3, <2>1, <4>1
      <4> QED BY <4>2 DEF row
    <3>2. f \in [Hours -> Nat] /\ g \in [Hours -> Nat] /\ g = [f EXCEPT ![o.hour] = f[o.hour] + 1]
      BY <1>3, <2>1, <3>1
    <3> HIDE DEF f, g
    <3>3. g[o.hour] = f[o.hour] + 1 /\ \A h \in Hours \ {o.hour} : f[h] <= g[h]
      BY <1>3, <3>2
    <3>4. SumOver(f, Hours) + 1 <= SumOver(g, Hours)
      BY <1>3, <3>2, <3>3, HoursFinite, SumOneMore
    <3> QED BY <3>4 DEF f, g
  <2> QED BY <1>2, <2>2, <2>3
<1>12. \A d \in Channels, older \in BOOLEAN : Waiting(d, older)
  <2>1. \A b \in Attempts : ToCome(TRUE, b) \in Int /\ ToCome(FALSE, b) \in Int
    BY <1>1 DEF Measured
  <2>2. \A b \in Attempts : ToCome(TRUE, b)' <= ToCome(TRUE, b)
    <3> TAKE b \in Attempts
    <3> DEFINE x == ToCome(TRUE, b)
               y == ToCome(TRUE, b)'
    <3>1. x \in Int /\ y = x - IF t \in Callers /\ b = a THEN 1 ELSE 0
      BY <1>9, <2>1
    <3> HIDE DEF x, y
    <3>2. y <= x
      BY <3>1
    <3> QED BY <3>2 DEF x, y
  <2>3. \A b \in Attempts : ToCome(FALSE, b)' <= ToCome(FALSE, b)
    <3> TAKE b \in Attempts
    <3> DEFINE x == ToCome(FALSE, b)
               y == ToCome(FALSE, b)'
    <3>1. x \in Int /\ y = x - IF ~handing /\ b = a THEN 1 ELSE 0
      BY <1>9, <2>1
    <3> HIDE DEF x, y
    <3>2. y <= x
      BY <3>1
    <3> QED BY <3>2 DEF x, y
  <2> QED BY <1>8, <2>2, <2>3 DEF Waiting, Mine
<1>13. \A d \in Channels, older \in BOOLEAN : Balanced(d, older)
  <2>1. \A d \in Channels : SumOver(seen[d], Hours) \in Nat
    BY <1>1 DEF Measured
  <2>2. \A d \in Channels : SumOver(seen'[d], Hours) \in Nat
    BY <1>1 DEF Measured
  <2>3. \A d \in Channels : SumOver(seen[d], Hours) <= SumOver(seen'[d], Hours)
    <3> TAKE d \in Channels
    <3>1. CASE d # c \/ t = Follower
      <4>1. seen'[d] = seen[d]
        BY <1>11, <3>1
      <4> QED BY <2>1, <4>1
    <3>2. CASE d = c /\ t # Follower
      BY <1>3, <1>11, <2>1, <2>2, <3>2
    <3> QED BY <3>1, <3>2
  <2>4. ASSUME NEW d \in Channels PROVE Balanced(d, TRUE)
    <3> DEFINE s == SumOver(seen[d], Hours)
               s2 == SumOver(seen'[d], Hours)
    <3>1. Owed(TRUE, d) = 0 /\ Owed(TRUE, d)' = 0
      BY DEF Owed
    <3>2. s \in Nat /\ s2 \in Nat /\ s <= s2
      BY <2>1, <2>2, <2>3
    <3> HIDE DEF s, s2
    <3>3. 0 + s <= 0 + s2
      BY <3>2
    <3> QED BY <3>1, <3>3 DEF Balanced, s, s2
  <2>5. ASSUME NEW d \in Channels PROVE Balanced(d, FALSE)
    <3> DEFINE x == Owed(FALSE, d)
               y == Owed(FALSE, d)'
               s == SumOver(seen[d], Hours)
               s2 == SumOver(seen'[d], Hours)
    <3>1. x \in Nat
      BY <1>1 DEF Measured
    <3>2. y = x + IF a \notin Mine(d) THEN 0 ELSE IF handing THEN 1 ELSE IF t = Follower THEN -1 ELSE 0
      BY <1>9
    <3>3. s \in Nat /\ s2 \in Nat /\ s <= s2
      BY <2>1, <2>2, <2>3
    <3>4. a \in Mine(d) /\ t # Follower => s + 1 <= s2
      <4>1. a \in Mine(d) => d = c
        BY <1>11
      <4> QED BY <1>11, <4>1
    <3>5. handing => t # Follower
      BY <1>10 DEF handing
    <3> HIDE DEF x, y, s, s2
    <3>6. y + s <= x + s2
      BY <3>1, <3>2, <3>3, <3>4, <3>5
    <3> QED BY <3>6 DEF Balanced, x, y, s, s2
  <2> QED BY <2>4, <2>5
<1>14. HandedOn'
  <2>1. Pending' = Pending /\ journal' = journal
    BY <1>2 DEF Pending
  <2>2. \A u \in Callers : Handing(u)' => u = t \/ (Handing(u) /\ thread'[u] = thread[u])
    BY <1>1, <1>4, ThreadTyped, ConstantsAre DEF Handing, OneThread, SameNumbers
  <2>3. \A u \in Callers : Handing(u)' => thread'[u].o.attempt \in counted'
    BY <1>1, <1>4, <1>8, <2>2 DEF HandedOn, a, o
  <2>4. thread'[Follower] # Idle => thread'[Follower].o.attempt \in counted'
    <3>1. CASE t = Follower
      BY <1>4, <1>8, <3>1 DEF a, o
    <3>2. CASE t # Follower
      BY <1>1, <1>4, <1>8, <3>2, ConstantsAre DEF HandedOn, OneThread
    <3> QED BY <3>1, <3>2
  <2> QED BY <1>1, <1>8, <2>1, <2>3, <2>4 DEF HandedOn
<1>15. Unflushed'
  <2>1. job.step # "none" => Owner \in Instances
    BY <1>1, OwnerIs
  <2> QED BY <1>1, <1>2, <1>4, <2>1, UnflushedKept DEF cpa
<1>16. Few'
  <2> SUFFICES ASSUME NEW b \in Attempts PROVE ToCome(FALSE, b)' <= 2
    BY DEF Few
  <2> DEFINE x == ToCome(FALSE, b)
             y == ToCome(FALSE, b)'
  <2>1. x \in Int /\ x <= 2 /\ y = x - IF ~handing /\ b = a THEN 1 ELSE 0
    BY <1>1, <1>9 DEF Few, Measured
  <2> HIDE DEF x, y
  <2>2. y <= 2
    BY <2>1
  <2> QED BY <2>2 DEF y
<1>17. ASSUME NEW d \in Channels, NEW file \in StatsFile, FileClaimed(file, d)
       PROVE  /\ Claimed(file[d], d, Rem(FALSE)', counted', forgotten', Attempts)
              /\ TokensOf(file[d]) + Owed(FALSE, d)' <= SumOver(seen'[d], Hours)
  <2>1. file[d] \in [Hours -> Total] /\ Holding(file[d], d, FALSE, Attempts)
    BY <1>17 DEF StatsFile, FileClaimed
  <2>2. Waiting(d, FALSE) /\ Balanced(d, FALSE)
    BY <1>12, <1>13
  <2>3. \A b \in Mine(d) \cap counted \cap Attempts : b \in forgotten' \cup Attempts
    OBVIOUS
  <2> QED BY <1>1, <2>1, <2>2, <2>3, WaitingHolds
<1>18. ASSUME NEW d \in Channels, ClaimedIn(d)
       PROVE  StatsClaimed(d)' /\ (job'.step = "write" => FileClaimed(job.file, d)')
  <2>1. stats \in StatsFile /\ job.file \in StatsFile /\ stats' = stats /\ job' = job /\ unwritten' = unwritten
    BY <1>1, <1>2, JobTyped DEF TypeOK, files
  <2>2. StatsClaimed(d)'
    <3>1. CASE d \notin unwritten
      <4>1. FileClaimed(stats, d)
        BY <1>18, <3>1 DEF ClaimedIn, StatsClaimed
      <4>2. /\ Claimed(stats[d], d, Rem(FALSE)', counted', forgotten', Attempts)
            /\ TokensOf(stats[d]) + Owed(FALSE, d)' <= SumOver(seen'[d], Hours)
        BY <1>17, <2>1, <4>1
      <4> QED BY <2>1, <3>1, <4>2 DEF StatsClaimed, FileClaimed, Holding
    <3>2. CASE d \in unwritten
      <4>1. Claimed(stats[d], d, Rem(FALSE), Attempts, Attempts, Attempts)
        BY <1>18, <3>2 DEF ClaimedIn, StatsClaimed
      <4>2. stats[d] \in [Hours -> Total] /\ Waiting(d, FALSE)
        BY <1>12, <2>1 DEF StatsFile
      <4>3. \A b \in Mine(d) \cap counted \cap Attempts : b \in forgotten' \cup Attempts
        OBVIOUS
      <4>4. Claimed(stats[d], d, Rem(FALSE)', Attempts, Attempts, Attempts)
        BY <1>1, <4>1, <4>2, <4>3, WaitingClaims
      <4> QED BY <2>1, <3>2, <4>4 DEF StatsClaimed
    <3> QED BY <3>1, <3>2
  <2>3. job'.step = "write" => FileClaimed(job.file, d)'
    <3> SUFFICES ASSUME job'.step = "write" PROVE FileClaimed(job.file, d)'
      OBVIOUS
    <3>1. FileClaimed(job.file, d)
      BY <1>18, <2>1 DEF ClaimedIn
    <3>2. /\ Claimed(job.file[d], d, Rem(FALSE)', counted', forgotten', Attempts)
          /\ TokensOf(job.file[d]) + Owed(FALSE, d)' <= SumOver(seen'[d], Hours)
      BY <1>17, <2>1, <3>1
    <3> QED BY <2>1, <3>2 DEF FileClaimed, Holding
  <2> QED BY <2>2, <2>3
<1>19. ASSUME NEW j \in Instances, NEW d \in Channels, ~(j = i /\ d = c), MemoryClaimed(j, d) PROVE MemoryClaimed(j, d)'
  <2> DEFINE T == HeldOf(j, d)
             known == KnownTo(j, d)
  <2>1. registry'[j].channels[d] = registry[j].channels[d] /\ registry'[j].handoff = registry[j].handoff
        /\ registry[j].handoff \in BOOLEAN
    BY <1>1, <1>4, <1>5, <1>19, Typed DEF SameNumbers
  <2>2. HeldOf(j, d)' = T /\ KnownTo(j, d)' = known
    BY <2>1 DEF HeldOf, KnownTo
  <2>3. T \in [Hours -> Total] /\ Holding(T, d, registry[j].handoff, known)
    BY <1>1, <1>19 DEF Measured, MemoryClaimed
  <2> HIDE DEF T, known
  <2>4. \A b \in Mine(d) \cap counted \cap known : b \in forgotten' \cup known
    OBVIOUS
  <2>5. CASE registry[j].handoff = TRUE
    <3>1. Waiting(d, TRUE) /\ Balanced(d, TRUE) /\ Holding(T, d, TRUE, known) /\ registry'[j].handoff = TRUE
      BY <1>12, <1>13, <2>1, <2>3, <2>5
    <3>2. Claimed(T, d, Rem(TRUE)', counted', forgotten', known) /\ TokensOf(T) + Owed(TRUE, d)' <= SumOver(seen'[d], Hours)
      BY <1>1, <2>3, <2>4, <3>1, WaitingHolds
    <3> QED BY <2>2, <3>1, <3>2 DEF MemoryClaimed, Holding
  <2>6. CASE registry[j].handoff = FALSE
    <3>1. Waiting(d, FALSE) /\ Balanced(d, FALSE) /\ Holding(T, d, FALSE, known) /\ registry'[j].handoff = FALSE
      BY <1>12, <1>13, <2>1, <2>3, <2>6
    <3>2. Claimed(T, d, Rem(FALSE)', counted', forgotten', known) /\ TokensOf(T) + Owed(FALSE, d)' <= SumOver(seen'[d], Hours)
      BY <1>1, <2>3, <2>4, <3>1, WaitingHolds
    <3> QED BY <2>2, <3>1, <3>2 DEF MemoryClaimed, Holding
  <2> QED BY <2>1, <2>5, <2>6
<1>20. ASSUME NEW j \in Instances, NEW d \in Channels, NEW b \in Mine(d), NEW q \in Observation, NEW e \in Channel,
              j = i, d = c, b = a, q = o, e = old, MemoryClaimed(j, d)
       PROVE  MemoryClaimed(j, d)'
  <2> DEFINE T == HeldOf(j, d)
             U == HeldOf(j, d)'
             known == KnownTo(j, d)
             known2 == KnownTo(j, d)'
  <2>1. T \in [Hours -> Total] /\ \A h \in Hours : T[h] = Of(e, h)
    BY <1>1, <1>20 DEF Measured, old
  <2>2. U \in [Hours -> Total] /\ \A h \in Hours : U[h] = Of(Added(e, q), h)
    <3>1. U \in [Hours -> Total] /\ \A h \in Hours : U[h] = Of(registry'[j].channels[d], h)
      BY <1>1 DEF Measured
    <3>2. registry'[j].channels[d] = Added(e, q)
      BY <1>5, <1>20
    <3> HIDE DEF U
    <3> QED BY <3>1, <3>2
  <2>3. known = {x \in Attempts : Knows(e, x)} /\ known2 = {x \in Attempts : Knows(Added(e, q), x)}
    <3>1. registry[j].channels[d] = e /\ e # None
      BY <1>3, <1>20 DEF old
    <3>2. registry'[j].channels[d] = Added(e, q) /\ Added(e, q) # None
      BY <1>5, <1>20
    <3> QED BY <3>1, <3>2 DEF KnownTo
  <2>4. q.attempt = b /\ b \in Attempts
    BY <1>20 DEF o, a, Mine
  <2> HIDE DEF T, U, known, known2
  <2>5. registry'[j].handoff = registry[j].handoff /\ registry[j].handoff \in BOOLEAN
    BY <1>1, <1>4, Typed DEF SameNumbers
  <2>6. /\ forgotten' = forgotten \cup PushedOut(e, b) /\ counted \subseteq counted' /\ b \in counted'
    BY <1>6, <1>8, <1>20
  <2>7. SumOver(seen[d], Hours) \in Nat
    BY <1>1 DEF Measured
  <2>8. SumOver(seen'[d], Hours) \in Nat
    BY <1>1 DEF Measured
  <2>9. t # Follower => SumOver(seen[d], Hours) + 1 <= SumOver(seen'[d], Hours)
    BY <1>11, <1>20
  <2>10. CASE registry[j].handoff = TRUE
    <3>1. t # Follower /\ t \in Callers
      BY <1>7, <1>10, <1>20, <2>10
    <3>2. Holding(T, d, TRUE, known)
      BY <1>20, <2>10 DEF MemoryClaimed, T, known
    <3>3. ToCome(TRUE, b) \in 1..2 /\ ToCome(TRUE, b)' = ToCome(TRUE, b) - 1
      <4> DEFINE x == ToCome(TRUE, b)
                 y == ToCome(TRUE, b)'
                 z == ToCome(FALSE, b)
      <4>1. x \in Int /\ z \in Int
        BY <1>1, <2>4 DEF Measured
      <4>2. z <= 2 /\ x <= z
        BY <1>1, <1>9, <2>4 DEF Few
      <4>3. x >= 1
        BY <1>9, <1>20, <3>1
      <4>4. y = x - 1
        BY <1>9, <1>20, <2>4, <3>1
      <4> HIDE DEF x, y, z
      <4>5. x \in 1..2 /\ y = x - 1
        BY <4>1, <4>2, <4>3, <4>4
      <4> QED BY <4>5 DEF x, y
    <3>4. Owed(TRUE, d)' + SumOver(seen[d], Hours) + 1 <= Owed(TRUE, d) + SumOver(seen'[d], Hours)
      <4> DEFINE s == SumOver(seen[d], Hours)
                 s2 == SumOver(seen'[d], Hours)
      <4>1. Owed(TRUE, d) = 0 /\ Owed(TRUE, d)' = 0
        BY DEF Owed
      <4>2. s \in Nat /\ s2 \in Nat /\ s + 1 <= s2
        BY <2>7, <2>8, <2>9, <3>1
      <4> HIDE DEF s, s2
      <4>3. 0 + s + 1 <= 0 + s2
        BY <4>2
      <4> QED BY <4>1, <4>3 DEF s, s2
    <3>5. Waiting(d, TRUE)
      BY <1>12
    <3>6. Claimed(U, d, Rem(TRUE)', counted', forgotten', known2) /\ TokensOf(U) + Owed(TRUE, d)' <= SumOver(seen'[d], Hours)
      BY <1>1, <2>1, <2>2, <2>3, <2>4, <2>6, <3>2, <3>3, <3>4, <3>5, CounterClaims
    <3>7. registry'[j].handoff = TRUE
      BY <2>5, <2>10
    <3> QED BY <3>6, <3>7 DEF MemoryClaimed, Holding, U, known2
  <2>11. CASE registry[j].handoff = FALSE
    <3>1. ~handing
      BY <1>20, <2>11 DEF handing
    <3>2. Holding(T, d, FALSE, known)
      BY <1>20, <2>11 DEF MemoryClaimed, T, known
    <3>3. ToCome(FALSE, b) \in 1..2 /\ ToCome(FALSE, b)' = ToCome(FALSE, b) - 1
      <4> DEFINE x == ToCome(FALSE, b)
                 y == ToCome(FALSE, b)'
      <4>1. x \in Int
        BY <1>1, <2>4 DEF Measured
      <4>2. x <= 2
        BY <1>1, <2>4 DEF Few
      <4>3. x >= 1
        BY <1>9, <1>20
      <4>4. y = x - 1
        BY <1>9, <1>20, <2>4, <3>1
      <4> HIDE DEF x, y
      <4>5. x \in 1..2 /\ y = x - 1
        BY <4>1, <4>2, <4>3, <4>4
      <4> QED BY <4>5 DEF x, y
    <3>4. Owed(FALSE, d)' + SumOver(seen[d], Hours) + 1 <= Owed(FALSE, d) + SumOver(seen'[d], Hours)
      <4> DEFINE x == Owed(FALSE, d)
                 y == Owed(FALSE, d)'
                 s == SumOver(seen[d], Hours)
                 s2 == SumOver(seen'[d], Hours)
      <4>1. x \in Nat
        BY <1>1 DEF Measured
      <4>2. y = x + IF t = Follower THEN -1 ELSE 0
        BY <1>9, <1>20, <3>1
      <4>3. s \in Nat /\ s2 \in Nat /\ (t = Follower => s2 = s) /\ (t # Follower => s + 1 <= s2)
        BY <1>11, <2>7, <2>8, <2>9
      <4> HIDE DEF x, y, s, s2
      <4>4. y + s + 1 <= x + s2
        BY <4>1, <4>2, <4>3
      <4> QED BY <4>4 DEF x, y, s, s2
    <3>5. Waiting(d, FALSE)
      BY <1>12
    <3>6. Claimed(U, d, Rem(FALSE)', counted', forgotten', known2) /\ TokensOf(U) + Owed(FALSE, d)' <= SumOver(seen'[d], Hours)
      BY <1>1, <2>1, <2>2, <2>3, <2>4, <2>6, <3>2, <3>3, <3>4, <3>5, CounterClaims
    <3>7. registry'[j].handoff = FALSE
      BY <2>5, <2>11
    <3> QED BY <3>6, <3>7 DEF MemoryClaimed, Holding, U, known2
  <2> QED BY <2>5, <2>10, <2>11
<1>21. ASSUME NEW d \in Channels PROVE ClaimedIn(d)'
  <2>1. ClaimedIn(d) /\ serving' = serving /\ newer' = newer
    BY <1>2 DEF Accounted, cpa
  <2>2. ASSUME NEW j \in {serving, newer} \ {None} PROVE MemoryClaimed(j, d)'
    <3>1. MemoryClaimed(j, d) /\ j \in Instances
      BY <1>1, <2>1, <2>2 DEF ClaimedIn, TypeOK
    <3>2. CASE j = i /\ d = c
      BY <1>3, <1>5, <1>20, <3>1, <3>2
    <3>3. CASE ~(j = i /\ d = c)
      BY <1>19, <3>1, <3>3
    <3> QED BY <3>2, <3>3
  <2>3. (\A j \in {serving, newer} \ {None} : MemoryClaimed(j, d))'
    BY <2>1, <2>2
  <2>4. StatsClaimed(d)' /\ (job'.step = "write" => FileClaimed(job.file, d)')
    BY <1>18, <2>1
  <2> QED BY <2>3, <2>4 DEF ClaimedIn
<1> QED BY <1>14, <1>15, <1>16, <1>21 DEF Accounted

----------------------------------------------------------------------------
\* The theorem

LEMMA NothingClaimed ==
  ASSUME TypeOK, NEW c \in Channels, NEW T \in [Hours -> Total], \A h \in Hours : T[h] = Zero, NEW rem, NEW allowed, NEW again, NEW known
  PROVE  Claimed(T, c, rem, allowed, again, known) /\ TokensOf(T) = 0
<1> DEFINE t == [h \in Hours |-> T[h].tokens]
           a == [h \in Hours |-> T[h].attempts]
<1>1. /\ t \in [Hours -> Nat] /\ a \in [Hours -> Nat]
      /\ \A h \in Hours : t[h] = 0 /\ a[h] = 0
  BY DEF Zero
<1> HIDE DEF t, a
<1>2. SumOver(t, Hours) = 0 /\ SumOver(a, Hours) = 0
  BY <1>1, HoursFinite, SumNothing
<1>3. TokensOf(T) = 0 /\ AttemptsOf(T) = 0
  BY <1>2 DEF TokensOf, AttemptsOf, t, a
<1> QED BY <1>3, ClaimedNothing

LEMMA InitAccounts == ASSUME Init PROVE Accounted
<1>1. TypeOK
  BY InitSafe DEF Safe
<1>2. /\ registry = [i \in Instances |-> NewRegistry(NoChannels)]
      /\ thread = [t \in Threads |-> Idle] /\ job = NoJob /\ newer = None /\ journal = NoJournal /\ stats = NoStats
      /\ told = [a \in Attempts |-> 0] /\ counted = {} /\ unwritten = {}
  BY DEF Init
<1>3. serving \in Instances /\ {serving, newer} \ {None} = {serving}
  BY <1>1, <1>2, ConstantsAre DEF TypeOK
<1>4. Pending = {} /\ \A t \in Threads : thread[t] = Idle
  BY <1>2 DEF Pending, NoJournal
<1>5. Follower \in Threads /\ Callers \subseteq Threads
  BY ConstantsAre
<1>6. \A some : LinesOf(some) = {} /\ HandedBy(some) = {} /\ Finding(Threads, some) = {} /\ Finding({Follower}, some) = {}
  BY <1>4, <1>5 DEF LinesOf, HandedBy, Handing, Finding
<1>7. \A some : /\ Left(some) = 0 /\ Cardinality(Finding(Threads, some)) = 0 /\ Cardinality(Finding({Follower}, some)) = 0
  BY <1>6, FS_EmptySet DEF Left
<1>8. HandedOn
  BY <1>4, <1>5 DEF HandedOn, Handing
<1>9. Unflushed
  <2>1. registry[serving].flushed = 0 /\ registry[serving].generation = 0
    BY <1>2, <1>3 DEF NewRegistry
  <2>2. job.step = "none"
    BY <1>2 DEF NoJob
  <2> QED BY <1>2, <1>3, <2>1, <2>2 DEF Unflushed
<1>10. Few
  <2> SUFFICES ASSUME NEW a \in Attempts PROVE ToCome(FALSE, a) <= 2
    BY DEF Few
  <2> DEFINE x == ToCome(FALSE, a)
  <2>1. x = 2 - 0 + (0 + 0)
    BY <1>2, <1>7 DEF ToCome
  <2> HIDE DEF x
  <2>2. x <= 2
    BY <2>1
  <2> QED BY <2>2 DEF x
<1>11. ASSUME NEW c \in Channels, NEW T \in [Hours -> Total], \A h \in Hours : T[h] = Zero, NEW known
       PROVE  Holding(T, c, FALSE, known)
  <2>1. Claimed(T, c, Rem(FALSE), counted, forgotten, known) /\ TokensOf(T) = 0
    BY <1>1, <1>11, NothingClaimed
  <2> DEFINE s == SumOver(seen[c], Hours)
             y == Owed(FALSE, c)
  <2>2. y = 0 + 0
    BY <1>7 DEF Owed
  <2>3. s \in Nat
    BY <1>1, MeasuredIs DEF Measured
  <2> HIDE DEF s, y
  <2>4. 0 + y <= s
    BY <2>2, <2>3
  <2> QED BY <2>1, <2>4 DEF Holding, s, y
<1>12. ASSUME NEW c \in Channels PROVE ClaimedIn(c)
  <2>1. MemoryClaimed(serving, c)
    <3>1. HeldOf(serving, c) \in [Hours -> Total] /\ \A h \in Hours : HeldOf(serving, c)[h] = Of(registry[serving].channels[c], h)
      BY <1>1, <1>3, MeasuredIs DEF Measured
    <3>2. registry[serving].channels[c] = None /\ registry[serving].handoff = FALSE
      BY <1>2, <1>3 DEF NewRegistry, NoChannels
    <3>3. \A h \in Hours : HeldOf(serving, c)[h] = Zero
      BY <3>1, <3>2, OfNothing
    <3>4. Holding(HeldOf(serving, c), c, FALSE, KnownTo(serving, c))
      BY <1>11, <3>1, <3>3
    <3> QED BY <3>2, <3>4 DEF MemoryClaimed
  <2>2. StatsClaimed(c)
    <3>1. stats[c] \in [Hours -> Total] /\ \A h \in Hours : stats[c][h] = Zero
      BY <1>1, <1>2, FilesTyped DEF NoStats
    <3>2. Holding(stats[c], c, FALSE, Attempts)
      BY <1>11, <3>1
    <3> QED BY <1>2, <3>2 DEF StatsClaimed, FileClaimed
  <2>3. job.step # "write"
    BY <1>2 DEF NoJob
  <2> QED BY <1>3, <2>1, <2>2, <2>3 DEF ClaimedIn
<1> QED BY <1>8, <1>9, <1>10, <1>12 DEF Accounted

LEMMA StepAccounts == Safe /\ Safe' /\ Accounted /\ [Next]_vars => Accounted'
<1> SUFFICES ASSUME Safe, Safe', Accounted, [Next]_vars PROVE Accounted'
  OBVIOUS
<1>1. CASE UNCHANGED vars
  BY <1>1, StutterAccounts
<1>2. ASSUME NEW t \in Callers, NEW a \in Attempts, Report(t, a) PROVE Accounted'
  BY <1>2, ReportAccounts
<1>3. CASE Replay
  BY <1>3, ReplayAccounts
<1>4. ASSUME NEW t \in Threads, Count(t) \/ Announce(t) PROVE Accounted'
  BY <1>4, CountAccounts, AnnounceAccounts
<1>5. CASE BeginFlush \/ TakeSnapshot \/ Write \/ WriteFails \/ LockMeta \/ Evict
  BY <1>5, BeginFlushAccounts, TakeSnapshotAccounts, WriteAccounts, WriteFailsAccounts, LockMetaAccounts, EvictAccounts
<1>6. ASSUME NEW c \in Channels, BeginDelete(c) \/ UpdateMeta(c) PROVE Accounted'
  BY <1>6, BeginDeleteAccounts, UpdateMetaAccounts
<1>7. CASE DropChannel \/ HandOff
  BY <1>7, DropChannelAccounts, HandOffAccounts
<1>8. ASSUME NEW i \in Instances, TakeOver(i) PROVE Accounted'
  BY <1>8, TakeOverAccounts
<1>9. CASE Switch \/ FollowEnds \/ Rollback
  BY <1>9, SwitchAccounts, FollowEndsAccounts, RollbackAccounts
<1>10. CASE Restart \/ NextHour \/ TurnClockBack
  BY <1>10, RestartAccounts, ClockAccounts
<1> QED BY <1>1, <1>2, <1>3, <1>4, <1>5, <1>6, <1>7, <1>8, <1>9, <1>10 DEF Next

\* What an instance or the file holds of a channel is claimed by the attempts
\* that have counted, once or twice, and by the records seen (stats.go:542).
THEOREM ChannelsAreAccounted == Spec => []Accounted
<1>1. Init => Accounted
  BY InitAccounts
<1> QED BY <1>1, ChannelsAreSafe, StepAccounts, PTL DEF Spec

\* What is claimed is no more than was counted.
LEMMA ClaimedIsNoMore ==
  ASSUME TypeOK, NEW c \in Channels, NEW T \in [Hours -> Total], NEW older \in BOOLEAN, NEW known, Holding(T, c, older, known)
  PROVE  NoMore(T, c)
<1> DEFINE mine(as) == {a \in as : ChannelOf[a] = c}
<1>1. PICK once \in SUBSET (Mine(c) \cap counted), twice \in SUBSET forgotten :
        /\ twice \subseteq once
        /\ AttemptsOf(T) <= Cardinality(once) + Cardinality(twice)
  BY DEF Holding, Claimed
<1>2. counted \subseteq Attempts /\ forgotten \subseteq Attempts
  BY DEF TypeOK
<1>3. mine(counted) \subseteq Attempts /\ mine(forgotten) \subseteq Attempts /\ once \subseteq mine(counted) /\ twice \subseteq mine(forgotten)
  BY <1>1, <1>2 DEF Mine
<1> HIDE DEF mine
<1>4. IsFiniteSet(mine(counted)) /\ IsFiniteSet(mine(forgotten)) /\ IsFiniteSet(once) /\ IsFiniteSet(twice)
  BY <1>3, FS_Subset, ChannelStatsAssumption
<1>5. /\ Cardinality(once) <= Cardinality(mine(counted)) /\ Cardinality(twice) <= Cardinality(mine(forgotten))
      /\ Cardinality(once) \in Nat /\ Cardinality(twice) \in Nat
      /\ Cardinality(mine(counted)) \in Nat /\ Cardinality(mine(forgotten)) \in Nat
  BY <1>3, <1>4, FS_Subset, FS_CardinalityType
<1>6. AttemptsOf(T) \in Nat /\ TokensOf(T) \in Nat
  BY TotalsCompare
<1>7. AttemptsOf(T) <= Cardinality(mine(counted)) + Cardinality(mine(forgotten))
  BY <1>1, <1>5, <1>6
<1>8. TokensOf(T) <= SumOver(seen[c], Hours)
  <2> DEFINE y == Owed(older, c)
             s == SumOver(seen[c], Hours)
             n == TokensOf(T)
  <2>1. Left(Mine(c)) \in Nat /\ Cardinality(Finding({Follower}, Mine(c))) \in Nat /\ s \in Nat
    BY MeasuredIs DEF Measured
  <2>2. y \in Nat
    BY <2>1 DEF Owed
  <2>3. n \in Nat /\ n + y <= s
    BY <1>6 DEF Holding
  <2> HIDE DEF y, s, n
  <2>4. n <= s
    BY <2>1, <2>2, <2>3
  <2> QED BY <2>4 DEF s, n
<1> QED BY <1>7, <1>8 DEF NoMore, TokensOf, AttemptsOf, mine

LEMMA AccountedCountsOnce == ASSUME Safe, Accounted PROVE CountedOnce
<1>1. TypeOK
  BY DEF Safe
<1> SUFFICES ASSUME NEW c \in Channels
             PROVE  /\ \A i \in {serving, newer} \ {None} : NoMore([h \in Hours |-> Of(registry[i].channels[c], h)], c)
                    /\ c \notin unwritten => NoMore(stats[c], c)
  BY DEF CountedOnce
<1>2. ClaimedIn(c)
  BY DEF Accounted
<1>3. ASSUME NEW i \in {serving, newer} \ {None} PROVE NoMore([h \in Hours |-> Of(registry[i].channels[c], h)], c)
  <2>1. i \in Instances /\ Holding(HeldOf(i, c), c, registry[i].handoff, KnownTo(i, c))
    BY <1>1, <1>2, <1>3 DEF ClaimedIn, MemoryClaimed, TypeOK
  <2>2. HeldOf(i, c) \in [Hours -> Total] /\ registry[i].handoff \in BOOLEAN
    BY <1>1, <2>1, MeasuredIs, Typed DEF Measured
  <2>3. NoMore(HeldOf(i, c), c)
    BY <1>1, <2>1, <2>2, ClaimedIsNoMore
  <2> QED BY <2>3 DEF HeldOf
<1>4. ASSUME c \notin unwritten PROVE NoMore(stats[c], c)
  <2>1. Holding(stats[c], c, FALSE, Attempts) /\ stats[c] \in [Hours -> Total]
    BY <1>1, <1>2, <1>4, FilesTyped DEF ClaimedIn, StatsClaimed, FileClaimed
  <2> QED BY <1>1, <2>1, ClaimedIsNoMore
<1> QED BY <1>3, <1>4

\* No instance and no file ever holds an observation twice, or one of before a
\* deletion that is written: an attempt counts once for each record of it that
\* is neither counted, under way nor on its way through the journal, and a
\* second time only once it is forgotten (stats.go:438, 542 and 863).
THEOREM ObservationsCountOnce == Spec => []CountedOnce
BY ChannelsAreSafe, ChannelsAreAccounted, AccountedCountsOnce, PTL

===============================================================================
