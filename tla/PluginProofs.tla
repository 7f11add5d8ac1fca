----------------------------- MODULE PluginProofs -----------------------------
(***************************************************************************)
(* Theorems about Plugin and its search routers, for any instances,        *)
(* channels, requests and numbers of events.                               *)
(*                                                                         *)
(* Control says which instance owns the data directory and which may save  *)
(* settings in every phase of replacements, rollbacks and shutdowns; Saved *)
(* that the instance CPA calls, or will call, has the settings of the      *)
(* file, whether it owns the directory yet or not; Holds what a probe      *)
(* round under way has found out so far.                                   *)
(***************************************************************************)
EXTENDS Plugin, SequenceTheorems, TLAPS

----------------------------------------------------------------------------
\* The invariant

\* Only the instance that serves and owns the directory saves settings; an
\* instance that is shut down owns it until it is gone.
Control ==
  /\ active # None => routers[active] # None
  /\ phase \in {"run", "quiesce", "rollback"} => active # None
  /\ phase \in {"load", "loaded", "quiesce"} => target \in Instances
  /\ phase = "quiesce" => owner = active
  /\ phase = "loaded" => owner = target /\ closing = {} /\ routers[target] # None
  /\ closing \subseteq {owner} /\ active \notin closing
  /\ \A i \in Instances :
       routers[i] # None /\ Updating(routers[i]) => i = active /\ owner = i /\ phase = "run"

\* The instance CPA calls has the settings of the file even while another one
\* owns the directory, so that it can take it back after a rollback.
Saved ==
  \A i \in Instances :
    routers[i] # None /\ ~strayed =>
      LET r == routers[i]
      IN  /\ r.call.at = "saving" => r.settings = file
          /\ r.call.at = "stopping" => r.call.next = file
          /\ i \in {active, owner} /\ ~Updating(r) => r.settings = file

\* What a round found out: the channels before the one it is at are failing,
\* and so is every one when it ended at none.
Failing(r, c) == c \in r.loop.probed /\ r.live[c].unhealthy
FailingTo(r, k) ==
  \A n \in DOMAIN r.settings.order :
    n < k /\ r.settings.order[n] \notin r.settings.forced => Failing(r, r.settings.order[n])
FoundWell(r, k) ==
  LET c == r.settings.order[k]
  IN  /\ k \in DOMAIN r.settings.order /\ c \notin r.settings.forced
      /\ c \in r.loop.probed /\ ~r.live[c].unhealthy /\ r.live[c].probe # "failed"

RoundHolds(r) ==
  /\ r.loop.settings = r.settings /\ Probing(r.settings)
  /\ r.loop.at # "wait" => FailingTo(r, r.loop.index)
  /\ r.loop.at \in {"asking", "answered"} =>
       r.loop.index \in DOMAIN r.settings.order /\ r.settings.order[r.loop.index] \notin r.settings.forced
  /\ r.loop.at = "wait" =>
       \/ FailingTo(r, Len(r.settings.order) + 1)
       \/ \E k \in DOMAIN r.settings.order : FailingTo(r, k) /\ FoundWell(r, k)

Holds(r) ==
  /\ Probing(r.settings) \/ \A c \in Channels : ~r.live[c].unhealthy
  /\ r.loop # None => RoundHolds(r)
RoutersHold == \A i \in Instances : routers[i] # None => Holds(routers[i])

Safe == TypeOK /\ Control /\ Saved /\ RoutersHold

----------------------------------------------------------------------------
\* What the operations make of a router

LEMMA SettingsFacts ==
  ASSUME NEW s \in Settings
  PROVE  /\ s.order \in Seq(Channels) /\ Len(s.order) \in Nat \ {0} /\ DOMAIN s.order = 1..Len(s.order)
         /\ \A n \in 1..Len(s.order) : s.order[n] \in Channels
         /\ \A n, k \in 1..Len(s.order) : s.order[n] = s.order[k] => n = k
<1>1. s.order \in Seq(Channels) /\ s.order # <<>> /\ IsInjective(s.order)
  BY DEF Settings, Order
<1>2. Len(s.order) \in Nat /\ DOMAIN s.order = 1..Len(s.order) /\ \A n \in 1..Len(s.order) : s.order[n] \in Channels
  BY <1>1
<1>3. Len(s.order) # 0
  BY <1>1, EmptySeq
<1> QED BY <1>1, <1>2, <1>3 DEF IsInjective

\* A router with r's settings and call.
Like(x, r) == x \in Router /\ Holds(x) /\ x.settings = r.settings /\ x.call = r.call

LEMMA OpenedHolds ==
  ASSUME NEW s \in Settings
  PROVE  LET r == Opened(s) IN r \in Router /\ Holds(r) /\ r.settings = s /\ r.call = NoCall
<1> DEFINE r == Opened(s)
<1>1. r.settings = s /\ r.call = NoCall /\ r.loop = None /\ r.live = [c \in Channels |-> Unknown]
  BY DEF Opened
<1>2. r \in Router
  BY DEF Opened, Router, Health, Unknown, Call
<1>3. Holds(r)
  BY <1>1 DEF Holds, Unknown
<1> QED BY <1>1, <1>2, <1>3

\* FailingTo, FoundWell and RoundHolds speak of the settings, the health and the
\* loop only.
LEMMA SameRound ==
  ASSUME NEW r, NEW x, Holds(r), x.settings = r.settings, x.live = r.live,
         x.loop # None =>
           /\ r.loop # None /\ x.loop.settings = r.loop.settings /\ x.loop.at = r.loop.at
           /\ x.loop.index = r.loop.index /\ x.loop.probed = r.loop.probed
  PROVE  Holds(x)
<1>1. CASE x.loop = None
  BY <1>1 DEF Holds
<1>2. CASE x.loop # None
  <2>1. RoundHolds(r) /\ r.loop # None
    BY <1>2 DEF Holds
  <2>2. \A k : FailingTo(r, k) => FailingTo(x, k)
    BY <1>2 DEF FailingTo, Failing
  <2>3. \A k : FoundWell(r, k) => FoundWell(x, k)
    BY <1>2 DEF FoundWell
  <2>4. RoundHolds(x)
    BY <1>2, <2>1, <2>2, <2>3 DEF RoundHolds
  <2> QED BY <2>4 DEF Holds
<1> QED BY <1>1, <1>2

LEMMA CancelledKeeps ==
  ASSUME NEW r \in Router, Holds(r)
  PROVE  Like(Cancelled(r), r)
<1>1. CASE r.loop = None
  BY <1>1 DEF Like, Cancelled
<1>2. CASE r.loop # None
  <2> DEFINE x == [r EXCEPT !.loop.cancelled = TRUE]
  <2>1. r.loop \in Loop
    BY <1>2 DEF Router
  <2>2. x = [r EXCEPT !.loop = [r.loop EXCEPT !.cancelled = TRUE]] /\ [r.loop EXCEPT !.cancelled = TRUE] \in Loop
    BY <2>1 DEF Router, Loop
  <2>3. x \in Router /\ x.settings = r.settings /\ x.call = r.call /\ x.live = r.live /\ x.loop = [r.loop EXCEPT !.cancelled = TRUE]
    BY <2>2 DEF Router
  <2>4. x.loop.settings = r.loop.settings /\ x.loop.at = r.loop.at /\ x.loop.index = r.loop.index /\ x.loop.probed = r.loop.probed
    BY <2>1, <2>3 DEF Loop
  <2>5. Holds(x)
    BY <1>2, <2>3, <2>4, SameRound
  <2> QED BY <1>2, <2>3, <2>5 DEF Like, Cancelled
<1> QED BY <1>1, <1>2

LEMMA StartedKeeps ==
  ASSUME NEW r \in Router, Holds(r)
  PROVE  Like(Started(r), r)
<1>1. CASE ~(r.loop = None /\ Probing(r.settings))
  BY <1>1 DEF Like, Started
<1>2. CASE r.loop = None /\ Probing(r.settings)
  <2> DEFINE l == NewLoop(r.settings)
             x == [r EXCEPT !.loop = l]
  <2>1. r.settings \in Settings /\ l \in Loop
    BY DEF Router, NewLoop, Loop
  <2>2. x \in Router /\ x.settings = r.settings /\ x.call = r.call /\ x.loop = l
    BY <2>1 DEF Router
  <2>3. l.settings = r.settings /\ l.at = "round" /\ l.index = 1
    BY DEF NewLoop
  <2>4. FailingTo(x, 1)
    BY <2>1, <2>2, SettingsFacts DEF FailingTo
  <2>5. Holds(x)
    BY <1>2, <2>2, <2>3, <2>4 DEF Holds, RoundHolds
  <2> QED BY <1>2, <2>2, <2>5 DEF Like, Started
<1> QED BY <1>1, <1>2

LEMMA SetStarted ==
  ASSUME NEW r \in Router, Holds(r), NEW b \in BOOLEAN
  PROVE  Like([r EXCEPT !.started = b], r)
<1> DEFINE x == [r EXCEPT !.started = b]
<1>1. x \in Router /\ x.settings = r.settings /\ x.call = r.call /\ x.live = r.live /\ x.loop = r.loop
  BY DEF Router
<1>2. Holds(x)
  BY <1>1, SameRound
<1> QED BY <1>1, <1>2 DEF Like

LEMMA SetQuiet ==
  ASSUME NEW r \in Router, Holds(r), NEW b \in BOOLEAN
  PROVE  Like([r EXCEPT !.quiet = b], r)
<1> DEFINE x == [r EXCEPT !.quiet = b]
<1>1. x \in Router /\ x.settings = r.settings /\ x.call = r.call /\ x.live = r.live /\ x.loop = r.loop
  BY DEF Router
<1>2. Holds(x)
  BY <1>1, SameRound
<1> QED BY <1>1, <1>2 DEF Like

LEMMA SetCall ==
  ASSUME NEW r \in Router, Holds(r), NEW c \in Call
  PROVE  LET x == [r EXCEPT !.call = c] IN x \in Router /\ Holds(x) /\ x.settings = r.settings /\ x.call = c
<1> DEFINE x == [r EXCEPT !.call = c]
<1>1. x \in Router /\ x.settings = r.settings /\ x.call = c /\ x.live = r.live /\ x.loop = r.loop
  BY DEF Router
<1>2. Holds(x)
  BY <1>1, SameRound
<1> QED BY <1>1, <1>2

LEMMA SyncedKeeps ==
  ASSUME NEW r \in Router, Holds(r), NEW on \in BOOLEAN
  PROVE  Like(Stopped(r), r) /\ Like(Synced(r, on), r)
<1>1. Like(Stopped(r), r)
  BY CancelledKeeps, SetStarted DEF Like, Stopped
<1>2. Like([Started(r) EXCEPT !.started = TRUE], r)
  BY StartedKeeps, SetStarted DEF Like
<1> QED BY <1>1, <1>2 DEF Synced

LEMMA SwappedHolds ==
  ASSUME NEW r \in Router, Holds(r), Gone(r), NEW next \in Settings
  PROVE  LET x == Swapped(r, next) IN x \in Router /\ Holds(x) /\ x.settings = next /\ x.call = r.call
<1> DEFINE live == [c \in Channels |-> IF c \in Listed(next) \cap Listed(r.settings) /\ Probing(next) THEN r.live[c] ELSE Unknown]
           x == Swapped(r, next)
<1>1. live \in [Channels -> Health]
  BY DEF Router, Health, Unknown
<1>2. x = [r EXCEPT !.settings = next, !.live = live]
  BY DEF Swapped
<1>3. x \in Router /\ x.settings = next /\ x.call = r.call /\ x.live = live /\ x.loop = None
  BY <1>1, <1>2 DEF Router, Gone
<1>4. Probing(next) \/ \A c \in Channels : ~live[c].unhealthy
  BY DEF Unknown
<1>5. Holds(x)
  BY <1>3, <1>4 DEF Holds
<1> QED BY <1>3, <1>5

----------------------------------------------------------------------------
\* What the probe loop makes of its router

LEMMA LoopSet ==
  ASSUME NEW r \in Router, NEW l \in Loop \cup {None}
  PROVE  LET x == [r EXCEPT !.loop = l]
         IN  x \in Router /\ x.settings = r.settings /\ x.call = r.call /\ x.live = r.live /\ x.loop = l
BY DEF Router

LEMMA LoopFacts ==
  ASSUME NEW r \in Router, Holds(r), r.loop # None
  PROVE  /\ r.loop \in Loop /\ RoundHolds(r) /\ r.settings \in Settings
         /\ r.loop.index \in Nat \ {0} /\ r.loop.probed \subseteq Channels
BY DEF Router, Loop, Holds

\* What was found out stays found out.
LEMMA FailingCarries ==
  ASSUME NEW r, NEW x, NEW k, NEW j, FailingTo(r, k),
         x.settings = r.settings, x.live = r.live, x.loop.probed = r.loop.probed,
         \A n \in DOMAIN r.settings.order : n < j /\ r.settings.order[n] \notin r.settings.forced => n < k
  PROVE  FailingTo(x, j)
BY DEF FailingTo, Failing

\* Asking, answering and ticking leave the health as it is.
LEMMA AsksKeep ==
  ASSUME TypeOK, RoutersHold, NEW i \in Instances, routers[i] # None, routers[i].loop # None, LoopAsks(i)
  PROVE  \E x : Like(x, routers[i]) /\ routers' = [routers EXCEPT ![i] = x]
<1> DEFINE r == routers[i]
           o == r.settings.order
<1>1. r \in Router /\ Holds(r)
  BY DEF TypeOK, RouterTypeOK, RoutersHold
<1>2. /\ r.loop \in Loop /\ RoundHolds(r) /\ r.settings \in Settings
      /\ r.loop.index \in Nat \ {0} /\ r.loop.probed \subseteq Channels
  BY <1>1, LoopFacts
<1>3. r.loop.settings = r.settings /\ Probing(r.settings) /\ r.loop.at = "round" /\ FailingTo(r, r.loop.index)
  BY <1>2 DEF RoundHolds, LoopAsks
<1>4. Len(o) \in Nat \ {0} /\ DOMAIN o = 1..Len(o)
  BY <1>2, SettingsFacts
<1>5. CASE r.loop.index > Len(o)
  <2> DEFINE l == [r.loop EXCEPT !.at = "wait"]
             x == [r EXCEPT !.loop = l]
  <2>1. l \in Loop /\ l.at = "wait" /\ l.settings = r.settings /\ l.probed = r.loop.probed
    BY <1>2, <1>3 DEF Loop
  <2>2. x \in Router /\ x.settings = r.settings /\ x.call = r.call /\ x.live = r.live /\ x.loop = l
    BY <1>1, <2>1, LoopSet
  <2> HIDE DEF l, x
  <2>3. FailingTo(x, Len(o) + 1)
    <3>1. \A n \in DOMAIN o : n < r.loop.index
      BY <1>2, <1>4, <1>5
    <3>2. x.loop.probed = r.loop.probed
      BY <2>1, <2>2
    <3> QED BY <1>3, <2>2, <3>1, <3>2, FailingCarries
  <2>4. RoundHolds(x)
    BY <1>3, <2>1, <2>2, <2>3 DEF RoundHolds
  <2>5. Like(x, r)
    BY <1>1, <2>2, <2>4 DEF Like, Holds
  <2>6. routers' = [routers EXCEPT ![i] = x]
    BY <1>3, <1>5 DEF LoopAsks, SetLoop, l, x
  <2> QED BY <2>5, <2>6
<1>6. CASE r.loop.index <= Len(o) /\ o[r.loop.index] \in r.settings.forced
  <2> DEFINE l == [r.loop EXCEPT !.index = @ + 1]
             x == [r EXCEPT !.loop = l]
  <2>1. /\ l \in Loop /\ l.at = "round" /\ l.settings = r.settings /\ l.probed = r.loop.probed
        /\ l.index = r.loop.index + 1
    BY <1>2, <1>3 DEF Loop
  <2>2. x \in Router /\ x.settings = r.settings /\ x.call = r.call /\ x.live = r.live /\ x.loop = l
    BY <1>1, <2>1, LoopSet
  <2> HIDE DEF l, x
  <2>3. FailingTo(x, l.index)
    <3>1. \A n \in DOMAIN o : n < l.index /\ o[n] \notin r.settings.forced => n < r.loop.index
      BY <1>2, <1>4, <1>6, <2>1
    <3>2. x.loop.probed = r.loop.probed
      BY <2>1, <2>2
    <3> QED BY <1>3, <2>2, <3>1, <3>2, FailingCarries
  <2>4. RoundHolds(x)
    BY <1>3, <2>1, <2>2, <2>3 DEF RoundHolds
  <2>5. Like(x, r)
    BY <1>1, <2>2, <2>4 DEF Like, Holds
  <2>6. routers' = [routers EXCEPT ![i] = x]
    <3>1. ~(r.loop.index > Len(r.loop.settings.order))
      BY <1>2, <1>3, <1>4, <1>6
    <3> QED BY <1>3, <1>6, <3>1 DEF LoopAsks, SetLoop, l, x
  <2> QED BY <2>5, <2>6
<1>7. CASE r.loop.index <= Len(o) /\ o[r.loop.index] \notin r.settings.forced
  <2> DEFINE l == [r.loop EXCEPT !.at = "asking"]
             x == [r EXCEPT !.loop = l]
  <2>1. /\ l \in Loop /\ l.at = "asking" /\ l.settings = r.settings /\ l.probed = r.loop.probed
        /\ l.index = r.loop.index
    BY <1>2, <1>3 DEF Loop
  <2>2. x \in Router /\ x.settings = r.settings /\ x.call = r.call /\ x.live = r.live /\ x.loop = l
    BY <1>1, <2>1, LoopSet
  <2> HIDE DEF l, x
  <2>3. FailingTo(x, l.index)
    BY <1>3, <2>1, <2>2 DEF FailingTo, Failing
  <2>4. RoundHolds(x)
    <3>1. r.loop.index \in DOMAIN o
      BY <1>2, <1>4, <1>7
    <3> QED BY <1>3, <1>7, <2>1, <2>2, <2>3, <3>1 DEF RoundHolds
  <2>5. Like(x, r)
    BY <1>1, <2>2, <2>4 DEF Like, Holds
  <2>6. routers' = [routers EXCEPT ![i] = x]
    <3>1. ~(r.loop.index > Len(r.loop.settings.order))
      BY <1>2, <1>3, <1>4, <1>7
    <3> QED BY <1>3, <1>7, <3>1 DEF LoopAsks, SetLoop, l, x
  <2> QED BY <2>5, <2>6
<1> QED BY <1>2, <1>4, <1>5, <1>6, <1>7

LEMMA AnswersKeep ==
  ASSUME TypeOK, RoutersHold, NEW i \in Instances, routers[i] # None, routers[i].loop # None,
         NEW reachable \in BOOLEAN, LoopAnswered(i, reachable)
  PROVE  \E x : Like(x, routers[i]) /\ routers' = [routers EXCEPT ![i] = x]
<1> DEFINE r == routers[i]
           answer == IF ~reachable THEN "unreachable" ELSE IF r.loop.settings.order[r.loop.index] \in up THEN "ok" ELSE "failed"
           l == [r.loop EXCEPT !.at = "answered", !.answer = answer]
           x == [r EXCEPT !.loop = l]
<1>1. r \in Router /\ Holds(r)
  BY DEF TypeOK, RouterTypeOK, RoutersHold
<1>2. r.loop \in Loop /\ RoundHolds(r)
  BY <1>1, LoopFacts
<1>3. r.loop.at = "asking"
  BY DEF LoopAnswered
<1>4. /\ l \in Loop /\ l.at = "answered" /\ l.settings = r.loop.settings /\ l.probed = r.loop.probed
      /\ l.index = r.loop.index
  BY <1>2 DEF Loop
<1>5. x \in Router /\ x.settings = r.settings /\ x.call = r.call /\ x.live = r.live /\ x.loop = l
  BY <1>1, <1>4, LoopSet
<1>6. FailingTo(r, r.loop.index) => FailingTo(x, l.index)
  BY <1>4, <1>5 DEF FailingTo, Failing
<1>7. RoundHolds(x)
  BY <1>2, <1>3, <1>4, <1>5, <1>6 DEF RoundHolds
<1>8. Like(x, r)
  BY <1>1, <1>5, <1>7 DEF Like, Holds
<1>9. routers' = [routers EXCEPT ![i] = x]
  BY DEF LoopAnswered, SetLoop
<1> QED BY <1>8, <1>9

LEMMA RecordsKeep ==
  ASSUME TypeOK, RoutersHold, NEW i \in Instances, routers[i] # None, routers[i].loop # None, LoopRecords(i)
  PROVE  \E x : Like(x, routers[i]) /\ routers' = [routers EXCEPT ![i] = x]
<1> DEFINE r == routers[i]
           o == r.settings.order
           k == r.loop.index
           c == o[k]
           answer == r.loop.answer
           unhealthy == IF answer = "unreachable" THEN r.live[c].unhealthy ELSE answer = "failed"
           done == [r.loop EXCEPT !.probed = @ \cup {c}]
           l == AfterProbe(done, unhealthy)
           live == [r.live EXCEPT ![c] = [unhealthy |-> unhealthy, probe |-> answer]]
           x == [r EXCEPT !.live = live, !.loop = l]
<1>1. r \in Router /\ Holds(r)
  BY DEF TypeOK, RouterTypeOK, RoutersHold
<1>2. r.loop \in Loop /\ RoundHolds(r) /\ r.settings \in Settings /\ k \in Nat \ {0} /\ r.loop.probed \subseteq Channels
  BY <1>1, LoopFacts
<1>3. /\ r.loop.settings = r.settings /\ Probing(r.settings) /\ r.loop.at = "answered" /\ FailingTo(r, k)
      /\ k \in DOMAIN o /\ c \notin r.settings.forced
  BY <1>2 DEF RoundHolds, LoopRecords
<1>4. /\ Len(o) \in Nat \ {0} /\ DOMAIN o = 1..Len(o) /\ c \in Channels
      /\ \A n \in DOMAIN o : o[n] \in Channels /\ (o[n] = c => n = k)
  BY <1>2, <1>3, SettingsFacts
<1>5. routers' = [routers EXCEPT ![i] = x]
  BY <1>3 DEF LoopRecords
<1>6. r.live \in [Channels -> Health] /\ unhealthy \in BOOLEAN /\ answer \in {"none", "ok", "failed", "unreachable"}
  BY <1>1, <1>2, <1>4 DEF Router, Loop, Health
<1>7. /\ live \in [Channels -> Health] /\ live[c] = [unhealthy |-> unhealthy, probe |-> answer]
      /\ \A d \in Channels : d # c => live[d] = r.live[d]
  BY <1>4, <1>6 DEF Health
<1>8. done \in Loop /\ done.settings = r.settings /\ done.index = k /\ done.probed = r.loop.probed \cup {c}
  BY <1>2, <1>3, <1>4 DEF Loop
<1>9. l \in Loop /\ l.settings = r.settings /\ l.probed = r.loop.probed \cup {c}
  <2>1. CASE unhealthy
    <3>1. l = [done EXCEPT !.at = "round", !.index = done.index + 1]
      BY <2>1 DEF AfterProbe
    <3>2. k + 1 \in Nat \ {0}
      BY <1>2
    <3> HIDE DEF l, done
    <3> QED BY <1>8, <3>1, <3>2 DEF Loop
  <2>2. CASE ~unhealthy
    <3>1. l = [done EXCEPT !.at = "wait"]
      BY <2>2 DEF AfterProbe
    <3> QED BY <1>8, <3>1 DEF Loop
  <2> QED BY <2>1, <2>2
<1>10. x \in Router /\ x.settings = r.settings /\ x.call = r.call /\ x.live = live /\ x.loop = l
  BY <1>1, <1>7, <1>9 DEF Router
<1> HIDE DEF l, x, live, unhealthy
<1>11. FailingTo(x, k)
  <2> SUFFICES ASSUME NEW n \in DOMAIN o, n < k, o[n] \notin r.settings.forced
               PROVE  Failing(x, o[n])
    BY <1>10 DEF FailingTo
  <2>1. o[n] \in Channels /\ o[n] # c
    BY <1>2, <1>4
  <2>2. Failing(r, o[n])
    BY <1>3 DEF FailingTo
  <2>3. live[o[n]] = r.live[o[n]] /\ o[n] \in l.probed
    BY <1>7, <1>9, <2>1, <2>2 DEF Failing
  <2> QED BY <1>10, <2>2, <2>3 DEF Failing
<1>12. CASE unhealthy
  <2>1. l.at = "round" /\ l.index = k + 1
    BY <1>8, <1>12 DEF AfterProbe, Loop, l
  <2>2. FailingTo(x, k + 1)
    <3> SUFFICES ASSUME NEW n \in DOMAIN o, n < k + 1, o[n] \notin r.settings.forced
                 PROVE  Failing(x, o[n])
      BY <1>10 DEF FailingTo
    <3>1. CASE n < k
      BY <1>10, <1>11, <3>1 DEF FailingTo
    <3>2. CASE n = k
      <4>1. live[c].unhealthy /\ c \in l.probed
        BY <1>7, <1>9, <1>12
      <4> QED BY <1>10, <3>2, <4>1 DEF Failing
    <3>3. n \in Int /\ k \in Int
      BY <1>2, <1>4
    <3> QED BY <3>1, <3>2, <3>3
  <2>3. RoundHolds(x)
    BY <1>3, <1>9, <1>10, <2>1, <2>2 DEF RoundHolds
  <2> QED BY <1>3, <1>10, <2>3, <1>5 DEF Like, Holds
<1>13. CASE ~unhealthy
  <2>1. l.at = "wait"
    BY <1>8, <1>13 DEF AfterProbe, Loop, l
  <2>2. answer # "failed"
    BY <1>13 DEF unhealthy
  <2>3. FoundWell(x, k)
    <3>1. ~live[c].unhealthy /\ live[c].probe # "failed" /\ c \in l.probed
      BY <1>7, <1>9, <1>13, <2>2
    <3> QED BY <1>3, <1>10, <3>1 DEF FoundWell
  <2>4. RoundHolds(x)
    BY <1>3, <1>9, <1>10, <1>11, <2>1, <2>3 DEF RoundHolds
  <2> QED BY <1>3, <1>10, <2>4, <1>5 DEF Like, Holds
<1> QED BY <1>12, <1>13

LEMMA TicksKeep ==
  ASSUME TypeOK, RoutersHold, NEW i \in Instances, routers[i] # None, routers[i].loop # None, LoopTicks(i) \/ LoopExits(i)
  PROVE  \E x : Like(x, routers[i]) /\ routers' = [routers EXCEPT ![i] = x]
<1> DEFINE r == routers[i]
<1>1. r \in Router /\ Holds(r)
  BY DEF TypeOK, RouterTypeOK, RoutersHold
<1>2. r.loop \in Loop /\ RoundHolds(r) /\ r.settings \in Settings
  BY <1>1, LoopFacts
<1>3. CASE LoopTicks(i)
  <2> DEFINE l == NewLoop(r.settings)
             x == [r EXCEPT !.loop = l]
  <2>1. l \in Loop /\ l.settings = r.settings /\ l.at = "round" /\ l.index = 1
    BY <1>2 DEF NewLoop, Loop
  <2>2. x \in Router /\ x.settings = r.settings /\ x.call = r.call /\ x.live = r.live /\ x.loop = l
    BY <1>1, <2>1, LoopSet
  <2>3. FailingTo(x, 1)
    BY <1>2, <2>2, SettingsFacts DEF FailingTo
  <2>4. Like(x, r)
    BY <1>1, <1>2, <2>1, <2>2, <2>3 DEF Like, Holds, RoundHolds
  <2>5. routers' = [routers EXCEPT ![i] = x]
    BY <1>2, <1>3 DEF LoopTicks, SetLoop, RoundHolds
  <2> QED BY <2>4, <2>5
<1>4. CASE LoopExits(i)
  <2> DEFINE x == [r EXCEPT !.loop = None]
  <2>1. x \in Router /\ x.settings = r.settings /\ x.call = r.call /\ x.live = r.live /\ x.loop = None
    BY <1>1, LoopSet
  <2>2. Like(x, r)
    BY <1>1, <2>1 DEF Like, Holds
  <2>3. routers' = [routers EXCEPT ![i] = x]
    BY <1>4 DEF LoopExits, SetLoop
  <2> QED BY <2>2, <2>3
<1> QED BY <1>3, <1>4

----------------------------------------------------------------------------
\* Steps

LEMMA OneRouter ==
  ASSUME TypeOK, RoutersHold, NEW i \in Instances, NEW x \in Router, Holds(x), routers' = [routers EXCEPT ![i] = x]
  PROVE  /\ routers' \in [Instances -> Router \cup {None}] /\ RoutersHold'
         /\ x # None /\ routers'[i] = x /\ \A j \in Instances : j # i => routers'[j] = routers[j]
<1>1. /\ routers' \in [Instances -> Router \cup {None}]
      /\ routers'[i] = x /\ \A j \in Instances : j # i => routers'[j] = routers[j]
  BY DEF TypeOK, RouterTypeOK
<1>2. RoutersHold'
  <2> SUFFICES ASSUME NEW j \in Instances, routers'[j] # None PROVE Holds(routers'[j])
    BY DEF RoutersHold
  <2> QED BY <1>1 DEF RoutersHold
<1> QED BY <1>1, <1>2, NoneAssumption

LEMMA RouterFacts ==
  ASSUME TypeOK, RoutersHold, NEW i \in Instances, routers[i] # None
  PROVE  routers[i] \in Router /\ Holds(routers[i]) /\ routers[i].settings \in Settings /\ routers[i].call \in Call
BY DEF TypeOK, RouterTypeOK, RoutersHold, Router

\* A step that saves and reads no settings.
Alike ==
  \A j \in Instances :
    /\ routers[j] = None <=> routers'[j] = None
    /\ routers[j] # None =>
         LET r == routers[j]
             x == routers'[j]
         IN  /\ x.settings = r.settings
             /\ x.call = r.call \/ (~Updating(x) /\ ~Updating(r))

LEMMA OneAlike ==
  ASSUME TypeOK, RoutersHold, NEW i \in Instances, routers[i] # None, NEW x, Like(x, routers[i]), routers' = [routers EXCEPT ![i] = x]
  PROVE  routers' \in [Instances -> Router \cup {None}] /\ RoutersHold' /\ Alike
<1>1. x \in Router /\ Holds(x) /\ x.settings = routers[i].settings /\ x.call = routers[i].call
  BY DEF Like
<1>2. /\ routers' \in [Instances -> Router \cup {None}] /\ RoutersHold'
      /\ x # None /\ routers'[i] = x /\ \A j \in Instances : j # i => routers'[j] = routers[j]
  BY <1>1, OneRouter
<1>3. Alike
  BY <1>1, <1>2 DEF Alike
<1> QED BY <1>2, <1>3

LEMMA AlikeSaved ==
  ASSUME Saved, Alike, file' = file, strayed' = strayed,
         \A i \in Instances : i \in {active', owner'} => i \in {active, owner}
  PROVE  Saved'
<1> SUFFICES ASSUME NEW i \in Instances, routers'[i] # None, ~strayed'
             PROVE  LET r == routers'[i]
                    IN  /\ r.call.at = "saving" => r.settings = file'
                        /\ r.call.at = "stopping" => r.call.next = file'
                        /\ i \in {active', owner'} /\ ~Updating(r) => r.settings = file'
  BY DEF Saved, Updating
<1> DEFINE r == routers[i]
           x == routers'[i]
<1>1. r # None /\ x.settings = r.settings /\ (x.call = r.call \/ (~Updating(x) /\ ~Updating(r)))
  BY DEF Alike
<1>2. /\ r.call.at = "saving" => r.settings = file
      /\ r.call.at = "stopping" => r.call.next = file
      /\ i \in {active, owner} /\ ~Updating(r) => r.settings = file
  BY <1>1 DEF Saved
<1> QED BY <1>1, <1>2 DEF Updating

LEMMA AlikeUpdating ==
  ASSUME Alike, NEW i \in Instances
  PROVE  /\ routers'[i] = None <=> routers[i] = None
         /\ routers'[i] # None /\ Updating(routers'[i]) => routers[i] # None /\ Updating(routers[i])
BY DEF Alike, Updating

LEMMA AlikeKeeps ==
  ASSUME TypeOK, Control, Saved, Alike, UNCHANGED <<owner, phase, active, target, closing, file, strayed>>
  PROVE  Control' /\ Saved'
<1>1. Saved'
  BY AlikeSaved
<1>2. active' # None => routers'[active'] # None
  BY AlikeUpdating DEF Control, TypeOK
<1>3. phase' = "loaded" => routers'[target'] # None
  BY AlikeUpdating DEF Control
<1>4. \A i \in Instances : routers'[i] # None /\ Updating(routers'[i]) => i = active' /\ owner' = i /\ phase' = "run"
  BY AlikeUpdating DEF Control
<1> QED BY <1>1, <1>2, <1>3, <1>4 DEF Control

\* The variables of the plugin and of CPA besides the routers.
LEMMA OthersTyped ==
  ASSUME TypeOK, routers' \in [Instances -> Router \cup {None}], UNCHANGED <<file, strayed, up, lifecycle, cpa>>
  PROVE  TypeOK'
BY DEF TypeOK, RouterTypeOK, lifecycle, cpa

LEMMA MergedTyped ==
  ASSUME NEW r \in Router, NEW request \in Requests
  PROVE  Merged(r, request) \in Settings
<1>1. request \in [order : Order, forced : SUBSET Channels, key : {"given", "kept", "cleared"}, pauses : BOOLEAN]
  BY RouterAssumption
<1>2. r.settings.key \in BOOLEAN
  BY DEF Router, Settings
<1>3. (request.key = "given" \/ (request.key = "kept" /\ r.settings.key)) \in BOOLEAN
  OBVIOUS
<1> QED BY <1>1, <1>3 DEF Merged, Settings

\* An update begins where the instance that serves owns the directory and no
\* other call holds mu: its settings are those of the file.
LEMMA PutSearchStep ==
  ASSUME Safe, NEW i \in Instances, NEW request \in Requests, PutSearch(i, request)
  PROVE  Safe'
<1> DEFINE r == routers[i]
           next == Merged(r, request)
           c == IF next = r.settings THEN Matching ELSE [at |-> "saving", next |-> next]
           x == [r EXCEPT !.call = c]
<1>1. i = active /\ owner = i /\ phase = "run" /\ ~Updating(r) /\ routers' = [routers EXCEPT ![i] = x]
  BY DEF PutSearch, UpdateBegins, MuFree, Admitted, CanWrite
<1>2. UNCHANGED <<file, strayed, up, lifecycle, cpa>>
  BY DEF PutSearch, UpdateBegins
<1>3. r # None
  BY <1>1 DEF Safe, Control, TypeOK
<1>4. r \in Router /\ Holds(r) /\ r.settings \in Settings
  BY <1>3, RouterFacts DEF Safe
<1>5. c \in Call
  BY <1>4, MergedTyped DEF Call, Matching
<1>6. x \in Router /\ Holds(x) /\ x.settings = r.settings /\ x.call = c
  BY <1>4, <1>5, SetCall
<1>7. c.at \in {"matching", "saving"}
  BY DEF Matching
<1> HIDE DEF c, x
<1>8. /\ routers' \in [Instances -> Router \cup {None}] /\ RoutersHold'
      /\ x # None /\ routers'[i] = x /\ \A j \in Instances : j # i => routers'[j] = routers[j]
  BY <1>1, <1>6, OneRouter DEF Safe
<1>9. TypeOK'
  BY <1>2, <1>8, OthersTyped DEF Safe
<1>10. Control'
  BY <1>1, <1>2, <1>3, <1>8 DEF Safe, Control, TypeOK, lifecycle, cpa
<1>11. ~strayed => r.settings = file
  BY <1>1, <1>3 DEF Safe, Saved
<1>12. Saved'
  BY <1>2, <1>6, <1>7, <1>8, <1>11 DEF Safe, Saved, lifecycle, cpa
<1> QED BY <1>8, <1>9, <1>10, <1>12 DEF Safe

LEMMA PutSearchSavesStep ==
  ASSUME Safe, NEW i \in Instances, PutSearchSaves(i)
  PROVE  Safe'
<1> DEFINE r == routers[i]
<1> PICK outcome \in {"ok", "fails", "sync"} : UpdateSaves(i, outcome)
  BY DEF PutSearchSaves
<1> DEFINE y == Cancelled(r)
           x == IF outcome # "ok" THEN [r EXCEPT !.call = NoCall] ELSE [y EXCEPT !.call = [r.call EXCEPT !.at = "stopping"]]
<1>1. r # None /\ r.call.at = "saving" /\ UNCHANGED <<up, lifecycle, cpa>> /\ routers' = [routers EXCEPT ![i] = x]
  BY DEF PutSearchSaves, UpdateSaves
<1>2. /\ file' = IF outcome = "fails" THEN file ELSE r.call.next
      /\ strayed' = CASE outcome = "ok" -> FALSE [] outcome = "fails" -> strayed [] outcome = "sync" -> TRUE
  BY DEF UpdateSaves
<1>3. r \in Router /\ Holds(r) /\ r.settings \in Settings /\ r.call \in Call
  BY <1>1, RouterFacts DEF Safe
<1>4. r.call \in [at : {"saving", "stopping"}, next : Settings]
  BY <1>1, <1>3 DEF Call, NoCall, Matching
<1>5. i = active /\ owner = i /\ phase = "run"
  BY <1>1 DEF Safe, Control, Updating
<1>6. ~strayed => r.settings = file
  BY <1>1 DEF Safe, Saved
<1>7. /\ x \in Router /\ Holds(x) /\ x.settings = r.settings
      /\ outcome # "ok" => x.call = NoCall
      /\ outcome = "ok" => x.call = [r.call EXCEPT !.at = "stopping"]
  <2>1. CASE outcome # "ok"
    <3>1. NoCall \in Call
      BY DEF Call
    <3> QED BY <1>3, <2>1, <3>1, SetCall
  <2>2. CASE outcome = "ok"
    <3>1. [r.call EXCEPT !.at = "stopping"] \in Call
      BY <1>4 DEF Call
    <3>2. y \in Router /\ Holds(y) /\ y.settings = r.settings
      BY <1>3, CancelledKeeps DEF Like
    <3> HIDE DEF y
    <3> QED BY <2>2, <3>1, <3>2, SetCall
  <2> QED BY <2>1, <2>2
<1> HIDE DEF x
<1>8. /\ routers' \in [Instances -> Router \cup {None}] /\ RoutersHold'
      /\ x # None /\ routers'[i] = x /\ \A j \in Instances : j # i => routers'[j] = routers[j]
  BY <1>1, <1>7, OneRouter DEF Safe
<1>9. TypeOK'
  <2>1. file' \in Settings /\ strayed' \in BOOLEAN
    BY <1>2, <1>4 DEF Safe, TypeOK, RouterTypeOK
  <2> QED BY <1>1, <1>8, <2>1 DEF Safe, TypeOK, RouterTypeOK, lifecycle, cpa
<1>10. Control'
  BY <1>1, <1>5, <1>8 DEF Safe, Control, TypeOK, lifecycle, cpa
<1>11. Saved'
  <2> SUFFICES ASSUME NEW j \in Instances, routers'[j] # None, ~strayed'
               PROVE  /\ routers'[j].call.at = "saving" => routers'[j].settings = file'
                      /\ routers'[j].call.at = "stopping" => routers'[j].call.next = file'
                      /\ j \in {active', owner'} /\ ~Updating(routers'[j]) => routers'[j].settings = file'
    BY DEF Saved, Updating
  <2>1. active' = i /\ owner' = i
    BY <1>1, <1>5 DEF lifecycle, cpa
  <2>2. CASE j # i
    <3>1. routers'[j] = routers[j] /\ routers[j] # None
      BY <1>8, <2>2
    <3>2. ~Updating(routers[j])
      BY <1>5, <2>2, <3>1 DEF Safe, Control
    <3> QED BY <2>1, <2>2, <3>1, <3>2 DEF Updating
  <2>3. CASE j = i /\ outcome = "ok"
    <3>1. x.call.at = "stopping" /\ x.call.next = r.call.next /\ file' = r.call.next
      BY <1>2, <1>4, <1>7, <2>3
    <3> QED BY <1>8, <2>3, <3>1 DEF Updating
  <2>4. CASE j = i /\ outcome # "ok"
    <3>1. outcome = "fails" /\ ~strayed /\ file' = file
      BY <1>2, <2>4
    <3> QED BY <1>6, <1>7, <1>8, <2>4, <3>1 DEF NoCall
  <2> QED BY <2>2, <2>3, <2>4
<1> QED BY <1>8, <1>9, <1>10, <1>11 DEF Safe

LEMMA PutSearchSwapsStep ==
  ASSUME Safe, NEW i \in Instances, PutSearchSwaps(i)
  PROVE  Safe'
<1> DEFINE r == routers[i]
           w == Swapped(r, r.call.next)
           y == [w EXCEPT !.call = Matching]
           x == Restarted(y)
<1>1. /\ r # None /\ r.call.at = "stopping" /\ Gone(r) /\ UNCHANGED <<file, strayed, up, lifecycle, cpa>>
      /\ routers' = [routers EXCEPT ![i] = x]
  BY DEF PutSearchSwaps, UpdateSwaps
<1>2. r \in Router /\ Holds(r) /\ r.call \in Call
  BY <1>1, RouterFacts DEF Safe
<1>3. r.call.next \in Settings
  BY <1>1, <1>2 DEF Call, NoCall, Matching
<1>4. i = active /\ owner = i /\ phase = "run"
  BY <1>1 DEF Safe, Control, Updating
<1>5. ~strayed => r.call.next = file
  BY <1>1 DEF Safe, Saved
<1>6. w \in Router /\ Holds(w) /\ w.settings = r.call.next
  BY <1>1, <1>2, <1>3, SwappedHolds
<1>7. y \in Router /\ Holds(y) /\ y.settings = r.call.next /\ y.call = Matching
  <2> HIDE DEF w
  <2>1. Matching \in Call
    BY DEF Call
  <2> QED BY <1>6, <2>1, SetCall
<1>8. x \in Router /\ Holds(x) /\ x.settings = r.call.next /\ x.call = Matching
  <2> HIDE DEF y
  <2> QED BY <1>7, StartedKeeps DEF Restarted, Like
<1> HIDE DEF x
<1>9. /\ routers' \in [Instances -> Router \cup {None}] /\ RoutersHold'
      /\ x # None /\ routers'[i] = x /\ \A j \in Instances : j # i => routers'[j] = routers[j]
  BY <1>1, <1>8, OneRouter DEF Safe
<1>10. TypeOK'
  BY <1>1, <1>9, OthersTyped DEF Safe
<1>11. Control'
  BY <1>1, <1>4, <1>9 DEF Safe, Control, TypeOK, lifecycle, cpa
<1>12. Saved'
  BY <1>1, <1>5, <1>8, <1>9 DEF Safe, Saved, Matching, lifecycle, cpa
<1> QED BY <1>9, <1>10, <1>11, <1>12 DEF Safe

LEMMA PutSearchMatchesStep ==
  ASSUME Safe, NEW i \in Instances, PutSearchMatches(i)
  PROVE  Safe'
<1> DEFINE r == routers[i]
<1>1. r # None /\ UNCHANGED <<file, strayed, up, lifecycle, cpa>>
  BY DEF PutSearchMatches
<1>2. r \in Router /\ Holds(r) /\ r.call \in Call
  BY <1>1, RouterFacts DEF Safe
<1>3. \E x : /\ x \in Router /\ Holds(x) /\ x.settings = r.settings /\ ~Updating(x) /\ ~Updating(r)
             /\ routers' = [routers EXCEPT ![i] = x]
  <2>1. CASE r.call.at = "matching"
    <3> DEFINE c == [at |-> "syncing", on |-> searchOn[i] /\ ~quiesced[i]]
               x == [r EXCEPT !.call = c]
    <3>1. c \in Call /\ c.at = "syncing"
      BY DEF Safe, TypeOK, Call
    <3>2. routers' = [routers EXCEPT ![i] = x]
      BY <2>1 DEF PutSearchMatches
    <3> HIDE DEF c
    <3>3. x \in Router /\ Holds(x) /\ x.settings = r.settings /\ x.call = c
      BY <1>2, <3>1, SetCall
    <3> QED BY <2>1, <3>1, <3>2, <3>3 DEF Updating
  <2>2. CASE r.call.at = "syncing"
    <3> DEFINE y == Synced(r, r.call.on)
               x == [y EXCEPT !.call = NoCall]
    <3>1. r.call.on \in BOOLEAN
      BY <1>2, <2>2 DEF Call, NoCall, Matching
    <3>2. y \in Router /\ Holds(y) /\ y.settings = r.settings
      BY <1>2, <3>1, SyncedKeeps DEF Like
    <3>3. routers' = [routers EXCEPT ![i] = x]
      BY <2>2 DEF PutSearchMatches
    <3>4. NoCall \in Call /\ NoCall.at = "idle"
      BY DEF Call, NoCall
    <3> HIDE DEF y
    <3>5. x \in Router /\ Holds(x) /\ x.settings = r.settings /\ x.call = NoCall
      BY <3>2, <3>4, SetCall
    <3> QED BY <2>2, <3>3, <3>4, <3>5 DEF Updating
  <2> QED BY <2>1, <2>2 DEF PutSearchMatches
<1>4. PICK x : /\ x \in Router /\ Holds(x) /\ x.settings = r.settings /\ ~Updating(x) /\ ~Updating(r)
               /\ routers' = [routers EXCEPT ![i] = x]
  BY <1>3
<1>5. /\ routers' \in [Instances -> Router \cup {None}] /\ RoutersHold'
      /\ x # None /\ routers'[i] = x /\ \A j \in Instances : j # i => routers'[j] = routers[j]
  BY <1>4, OneRouter DEF Safe
<1>6. Alike
  BY <1>1, <1>4, <1>5 DEF Alike
<1>7. Control' /\ Saved'
  BY <1>1, <1>6, AlikeKeeps DEF Safe, lifecycle, cpa
<1> QED BY <1>1, <1>5, <1>7, OthersTyped DEF Safe

\* Where no router changes and the instances that may call stay, the step is
\* one of the control alone.
LEMMA RoutersStay ==
  ASSUME TypeOK, RoutersHold, routers' = routers
  PROVE  routers' \in [Instances -> Router \cup {None}] /\ RoutersHold' /\ Alike
BY DEF TypeOK, RouterTypeOK, RoutersHold, Alike

LEMMA RegisterStep ==
  ASSUME Safe, Register
  PROVE  Safe'
<1> DEFINE y == Opened(file)
           x == Synced(y, searchOn[target])
<1>1. /\ phase = "load" /\ owner = None /\ owner' = target /\ phase' = "loaded" /\ target' = target
      /\ routers' = [routers EXCEPT ![target] = x]
      /\ UNCHANGED <<file, strayed, up, searchOn, active, closing>>
  BY DEF Register
<1>2. target \in Instances /\ closing = {}
  BY <1>1, RouterAssumption DEF Safe, Control, TypeOK
<1>3. file \in Settings /\ searchOn[target] \in BOOLEAN
  BY <1>2 DEF Safe, TypeOK, RouterTypeOK
<1>4. x \in Router /\ Holds(x) /\ x.settings = file /\ x.call = NoCall
  <2>1. y \in Router /\ Holds(y) /\ y.settings = file /\ y.call = NoCall
    BY <1>3, OpenedHolds
  <2> HIDE DEF y
  <2> QED BY <1>3, <2>1, SyncedKeeps DEF Like
<1> HIDE DEF x
<1>5. /\ routers' \in [Instances -> Router \cup {None}] /\ RoutersHold'
      /\ x # None /\ routers'[target] = x /\ \A j \in Instances : j # target => routers'[j] = routers[j]
  BY <1>1, <1>2, <1>4, OneRouter DEF Safe
<1>6. TypeOK'
  <2>1. quiesced' \in [Instances -> BOOLEAN] /\ readOnly' \in [Instances -> BOOLEAN]
    BY DEF Register, Safe, TypeOK
  <2> QED BY <1>1, <1>2, <1>5, <2>1 DEF Safe, TypeOK, RouterTypeOK
<1>7. ~Updating(x)
  BY <1>4 DEF Updating, NoCall
<1>8. \A i \in Instances : routers'[i] # None => ~Updating(routers'[i])
  BY <1>1, <1>5, <1>7 DEF Safe, Control
<1>9. Control'
  BY <1>1, <1>2, <1>5, <1>8 DEF Safe, Control, TypeOK
<1>10. Saved'
  <2> SUFFICES ASSUME NEW j \in Instances, routers'[j] # None, ~strayed'
               PROVE  /\ routers'[j].call.at = "saving" => routers'[j].settings = file'
                      /\ routers'[j].call.at = "stopping" => routers'[j].call.next = file'
                      /\ j \in {active', owner'} /\ ~Updating(routers'[j]) => routers'[j].settings = file'
    BY DEF Saved, Updating
  <2>1. CASE j = target
    BY <1>1, <1>4, <1>5, <1>8, <2>1 DEF Updating
  <2>2. CASE j # target
    BY <1>1, <1>5, <1>8, <2>2 DEF Updating, Safe, Saved
  <2> QED BY <2>1, <2>2
<1> QED BY <1>5, <1>6, <1>9, <1>10 DEF Safe

LEMMA RegisterFailsStep ==
  ASSUME Safe, RegisterFails
  PROVE  Safe'
<1>1. /\ phase = "load" /\ phase' = (IF active = None THEN "load" ELSE "rollback")
      /\ UNCHANGED <<routers, file, strayed, up, lifecycle, active, target, closing>>
  BY DEF RegisterFails
<1>2. routers' \in [Instances -> Router \cup {None}] /\ RoutersHold' /\ Alike
  BY <1>1, RoutersStay DEF Safe
<1>3. TypeOK'
  BY <1>1 DEF Safe, TypeOK, RouterTypeOK, lifecycle
<1>4. Control'
  BY <1>1 DEF Safe, Control, lifecycle
<1>5. Saved'
  BY <1>1, <1>2, AlikeSaved DEF Safe, lifecycle
<1> QED BY <1>2, <1>3, <1>4, <1>5 DEF Safe

\* A reconfiguration waits for mu, so that no update is under way when the
\* instance takes the directory, which it may only if it is free.
LEMMA ReconfigureStep ==
  ASSUME Safe, NEW on \in BOOLEAN, Reconfigure(on)
  PROVE  Safe'
<1> DEFINE r == routers[active]
<1>1. /\ active # None /\ MuFree(r) /\ phase' = "run" /\ target' = None
      /\ phase \in {"run", "rollback"} /\ UNCHANGED <<file, strayed, up, active, closing>>
  BY DEF Reconfigure
<1>2. active \in Instances /\ r # None
  BY <1>1 DEF Safe, TypeOK, Control
<1>3. \A i \in Instances : routers[i] # None => ~Updating(routers[i])
  BY <1>1 DEF Safe, Control, MuFree
<1>4. /\ routers' \in [Instances -> Router \cup {None}] /\ RoutersHold' /\ Alike
  <2>1. CASE ~Claims(active)
    BY <2>1, RoutersStay DEF Reconfigure, Safe
  <2>2. CASE Claims(active)
    <3> DEFINE x == Synced(r, on)
    <3>1. routers' = [routers EXCEPT ![active] = x]
      BY <2>2 DEF Reconfigure
    <3>2. Like(x, r)
      BY <1>2, RouterFacts, SyncedKeeps DEF Safe
    <3> HIDE DEF x
    <3> QED BY <1>2, <3>1, <3>2, OneAlike DEF Safe
  <2> QED BY <2>1, <2>2
<1>5. owner' \in {owner, active} /\ (owner' # owner => owner = None)
  BY DEF Reconfigure, Claims
<1>6. TypeOK'
  <2>1. quiesced' \in [Instances -> BOOLEAN] /\ readOnly' \in [Instances -> BOOLEAN] /\ searchOn' \in [Instances -> BOOLEAN]
    BY <1>2 DEF Reconfigure, Safe, TypeOK
  <2> QED BY <1>1, <1>2, <1>4, <1>5, <2>1 DEF Safe, TypeOK, RouterTypeOK
<1>7. closing' \subseteq {owner'}
  <2>1. owner' # owner => closing = {}
    BY <1>5, RouterAssumption DEF Safe, Control, TypeOK
  <2> QED BY <1>1, <2>1 DEF Safe, Control
<1>8. Control'
  BY <1>1, <1>2, <1>3, <1>4, <1>7, AlikeUpdating DEF Safe, Control
<1>9. Saved'
  BY <1>1, <1>4, <1>5, AlikeSaved DEF Safe
<1> QED BY <1>4, <1>6, <1>8, <1>9 DEF Safe

LEMMA QuiesceBeginsStep ==
  ASSUME Safe, NEW n \in Instances, QuiesceBegins(n)
  PROVE  Safe'
<1> DEFINE r == routers[active]
<1>1. /\ phase = "run" /\ active # None /\ target' = n /\ phase' = (IF owner = active THEN "quiesce" ELSE "load")
      /\ UNCHANGED <<file, strayed, up, lifecycle, active, closing>>
  BY DEF QuiesceBegins
<1>2. active \in Instances /\ r # None
  BY <1>1 DEF Safe, TypeOK, Control
<1>3. /\ routers' \in [Instances -> Router \cup {None}] /\ RoutersHold' /\ Alike
  <2>1. CASE owner # active
    BY <2>1, RoutersStay DEF QuiesceBegins, Safe
  <2>2. CASE owner = active
    <3> DEFINE x == Stopped(r)
    <3>1. routers' = [routers EXCEPT ![active] = x]
      BY <2>2 DEF QuiesceBegins
    <3>2. Like(x, r)
      BY <1>2, RouterFacts, SyncedKeeps DEF Safe
    <3> HIDE DEF x
    <3> QED BY <1>2, <3>1, <3>2, OneAlike DEF Safe
  <2> QED BY <2>1, <2>2
<1>4. \A i \in Instances : routers[i] # None => ~Updating(routers[i])
  BY DEF QuiesceBegins, Safe, Control, MuFree
<1>5. TypeOK'
  BY <1>1, <1>3 DEF Safe, TypeOK, RouterTypeOK, lifecycle
<1>6. Control'
  BY <1>1, <1>2, <1>3, <1>4, AlikeUpdating DEF Safe, Control, lifecycle
<1>7. Saved'
  BY <1>1, <1>3, AlikeSaved DEF Safe, lifecycle
<1> QED BY <1>3, <1>5, <1>6, <1>7 DEF Safe

LEMMA QuiesceEndsStep ==
  ASSUME Safe, QuiesceEnds
  PROVE  Safe'
<1> DEFINE r == routers[active]
<1>1. /\ phase = "quiesce" /\ UNCHANGED <<file, strayed, up, readOnly, searchOn, active, closing>>
      /\ \/ phase' = "load" /\ owner' = None /\ target' = target
         \/ phase' = "run" /\ owner' = owner /\ target' = None
  BY DEF QuiesceEnds
<1>2. active \in Instances /\ r # None /\ target \in Instances
  BY <1>1 DEF Safe, TypeOK, Control
<1>4. /\ routers' \in [Instances -> Router \cup {None}] /\ RoutersHold' /\ Alike
  <2>1. CASE routers' = routers
    BY <2>1, RoutersStay DEF Safe
  <2>2. CASE routers' # routers
    <3> DEFINE x == Synced(r, searchOn[active])
    <3>1. routers' = [routers EXCEPT ![active] = x]
      BY <2>2 DEF QuiesceEnds
    <3>2. Like(x, r)
      BY <1>2, RouterFacts, SyncedKeeps DEF Safe, TypeOK
    <3> HIDE DEF x
    <3> QED BY <1>2, <3>1, <3>2, OneAlike DEF Safe
  <2> QED BY <2>1, <2>2
<1>5. \A i \in Instances : routers[i] # None => ~Updating(routers[i])
  BY <1>1 DEF Safe, Control
<1>6. TypeOK'
  <2>1. quiesced' \in [Instances -> BOOLEAN]
    BY <1>2 DEF QuiesceEnds, Safe, TypeOK
  <2> QED BY <1>1, <1>2, <1>4, <2>1 DEF Safe, TypeOK, RouterTypeOK
<1>7. Control'
  BY <1>1, <1>2, <1>4, <1>5, AlikeUpdating DEF Safe, Control
<1>8. Saved'
  BY <1>1, <1>4, AlikeSaved, RouterAssumption DEF Safe
<1> QED BY <1>4, <1>6, <1>7, <1>8 DEF Safe

\* CPA calls the newer instance, which owns the directory and read the file.
LEMMA SwitchStep ==
  ASSUME Safe, Switch
  PROVE  Safe'
<1>1. /\ phase = "loaded" /\ active' = target /\ target' = None /\ phase' = "run"
      /\ UNCHANGED <<routers, file, strayed, up, lifecycle, closing>>
  BY DEF Switch
<1>2. target \in Instances /\ owner = target /\ closing = {} /\ routers[target] # None
  BY <1>1 DEF Safe, Control
<1>3. routers' \in [Instances -> Router \cup {None}] /\ RoutersHold' /\ Alike
  BY <1>1, RoutersStay DEF Safe
<1>4. TypeOK'
  BY <1>1, <1>2 DEF Safe, TypeOK, RouterTypeOK, lifecycle
<1>5. Control'
  <2>1. \A i \in Instances : routers[i] # None => ~Updating(routers[i])
    BY <1>1 DEF Safe, Control
  <2> QED BY <1>1, <1>2, <2>1, RouterAssumption DEF Control, lifecycle
<1>6. Saved'
  BY <1>1, <1>2, <1>3, AlikeSaved DEF Safe, lifecycle
<1> QED BY <1>3, <1>4, <1>5, <1>6 DEF Safe

LEMMA DiscardStep ==
  ASSUME Safe, Discard
  PROVE  Safe'
<1> DEFINE r == routers[target]
           x == Stopped(r)
<1>1. /\ phase = "loaded" /\ active \notin {None, target} /\ closing' = closing \cup {target} /\ target' = None
      /\ phase' = "rollback" /\ routers' = [routers EXCEPT ![target] = x]
      /\ UNCHANGED <<file, strayed, up, lifecycle, active>>
  BY DEF Discard
<1>2. target \in Instances /\ owner = target /\ closing = {} /\ r # None
  BY <1>1 DEF Safe, Control
<1>3. Like(x, r)
  BY <1>2, RouterFacts, SyncedKeeps DEF Safe
<1> HIDE DEF x
<1>4. routers' \in [Instances -> Router \cup {None}] /\ RoutersHold' /\ Alike
  BY <1>1, <1>2, <1>3, OneAlike DEF Safe
<1>5. TypeOK'
  BY <1>1, <1>2, <1>4 DEF Safe, TypeOK, RouterTypeOK, lifecycle
<1>6. \A i \in Instances : routers[i] # None => ~Updating(routers[i])
  BY <1>1 DEF Safe, Control
<1>7. active' # None => routers'[active'] # None
  BY <1>1, <1>4, AlikeUpdating DEF Safe, Control, TypeOK
<1>8. Control'
  BY <1>1, <1>2, <1>4, <1>6, <1>7, AlikeUpdating DEF Control, lifecycle
<1>9. Saved'
  BY <1>1, <1>4, AlikeSaved DEF Safe, lifecycle
<1> QED BY <1>4, <1>5, <1>8, <1>9 DEF Safe

LEMMA ShutdownEndsStep ==
  ASSUME Safe, NEW i \in Instances, ShutdownEnds(i)
  PROVE  Safe'
<1>1. /\ i \in closing /\ closing' = closing \ {i} /\ owner' = (IF owner = i THEN None ELSE owner)
      /\ UNCHANGED <<routers, file, strayed, up, quiesced, readOnly, searchOn, phase, active, target>>
  BY DEF ShutdownEnds
<1>2. owner = i /\ i # active /\ closing = {i} /\ phase # "loaded"
  BY <1>1 DEF Safe, Control
<1>3. routers' \in [Instances -> Router \cup {None}] /\ RoutersHold' /\ Alike
  BY <1>1, RoutersStay DEF Safe
<1>4. \A j \in Instances : routers[j] # None => ~Updating(routers[j])
  BY <1>2 DEF Safe, Control
<1>5. TypeOK'
  BY <1>1 DEF Safe, TypeOK, RouterTypeOK
<1>6. Control'
  BY <1>1, <1>2, <1>4 DEF Safe, Control
<1>7. Saved'
  BY <1>1, <1>3, AlikeSaved, RouterAssumption DEF Safe
<1> QED BY <1>3, <1>5, <1>6, <1>7 DEF Safe

LEMMA CrashStep ==
  ASSUME Safe, Crash
  PROVE  Safe'
<1>1. /\ routers' = [i \in Instances |-> None] /\ strayed' = FALSE /\ owner' = None /\ active' = None /\ closing' = {}
      /\ quiesced' = [i \in Instances |-> FALSE] /\ readOnly' = [i \in Instances |-> FALSE]
      /\ phase' = "load" /\ target' \in Instances /\ UNCHANGED <<file, up, searchOn>>
  BY DEF Crash
<1>2. TypeOK'
  BY <1>1 DEF Safe, TypeOK, RouterTypeOK
<1>3. Control' /\ Saved' /\ RoutersHold'
  BY <1>1 DEF Control, Saved, RoutersHold
<1> QED BY <1>2, <1>3 DEF Safe

LEMMA ProbesStep ==
  ASSUME Safe, NEW i \in Instances, Probes(i)
  PROVE  Safe'
<1>1. routers[i] # None /\ routers[i].loop # None /\ UNCHANGED <<lifecycle, cpa>>
  BY DEF Probes
<1>2. UNCHANGED <<file, strayed, up>>
  BY DEF Probes, Loops, LoopAsks, LoopAnswered, LoopRecords, LoopTicks, LoopExits, SetLoop
<1>3. \E x : Like(x, routers[i]) /\ routers' = [routers EXCEPT ![i] = x]
  BY <1>1, AsksKeep, AnswersKeep, RecordsKeep, TicksKeep DEF Safe, Probes, Loops
<1>4. routers' \in [Instances -> Router \cup {None}] /\ RoutersHold' /\ Alike
  BY <1>1, <1>3, OneAlike DEF Safe
<1>5. Control' /\ Saved'
  BY <1>1, <1>2, <1>4, AlikeKeeps DEF Safe, lifecycle, cpa
<1> QED BY <1>1, <1>2, <1>4, <1>5, OthersTyped DEF Safe

LEMMA SearchesStep ==
  ASSUME Safe, NEW i \in Instances, Searches(i)
  PROVE  Safe'
<1> DEFINE r == routers[i]
<1>1. i = active /\ UNCHANGED <<file, strayed, up, lifecycle, cpa>>
  BY DEF Searches, Serves, Route, SearchesPause
<1>2. r # None
  BY <1>1, RouterAssumption DEF Safe, Control
<1>3. \E x : Like(x, r) /\ routers' = [routers EXCEPT ![i] = x]
  <2>1. r \in Router /\ Holds(r)
    BY <1>2, RouterFacts DEF Safe
  <2>2. \E b \in BOOLEAN : routers' = [routers EXCEPT ![i] = [r EXCEPT !.quiet = b]]
    BY DEF Searches, Route, SearchesPause
  <2> QED BY <2>1, <2>2, SetQuiet
<1>4. routers' \in [Instances -> Router \cup {None}] /\ RoutersHold' /\ Alike
  BY <1>2, <1>3, OneAlike DEF Safe
<1>5. Control' /\ Saved'
  BY <1>1, <1>4, AlikeKeeps DEF Safe, lifecycle, cpa
<1> QED BY <1>1, <1>4, <1>5, OthersTyped DEF Safe

LEMMA UpstreamStep ==
  ASSUME Safe, NEW c \in Channels, Upstream(c)
  PROVE  Safe'
<1>1. up' \subseteq Channels /\ UNCHANGED <<routers, file, strayed, lifecycle, cpa>>
  BY DEF Upstream, ChannelFlips, Safe, TypeOK, RouterTypeOK
<1>2. TypeOK' /\ RoutersHold' /\ Alike
  BY <1>1 DEF Safe, TypeOK, RouterTypeOK, RoutersHold, Alike, lifecycle, cpa
<1>3. Control' /\ Saved'
  BY <1>1, <1>2, AlikeKeeps DEF Safe, lifecycle, cpa
<1> QED BY <1>2, <1>3 DEF Safe

----------------------------------------------------------------------------
\* The invariant of the specification

LEMMA SafeInit == Init => Safe
<1> SUFFICES ASSUME Init PROVE Safe
  OBVIOUS
<1>1. TypeOK
  BY RouterAssumption DEF Init, TypeOK, RouterTypeOK
<1>2. Control /\ Saved /\ RoutersHold
  BY DEF Init, Control, Saved, RoutersHold
<1> QED BY <1>1, <1>2 DEF Safe

LEMMA SafeNext == Safe /\ [Next]_vars => Safe'
<1> SUFFICES ASSUME Safe, [Next]_vars PROVE Safe'
  OBVIOUS
<1>1. ASSUME NEW i \in Instances,
             (\E request \in Requests : PutSearch(i, request)) \/ PutSearchSaves(i) \/ PutSearchSwaps(i) \/ PutSearchMatches(i)
      PROVE  Safe'
  BY <1>1, PutSearchStep, PutSearchSavesStep, PutSearchSwapsStep, PutSearchMatchesStep
<1>2. ASSUME NEW i \in Instances, Probes(i) \/ Searches(i) \/ ShutdownEnds(i) \/ QuiesceBegins(i)
      PROVE  Safe'
  BY <1>2, ProbesStep, SearchesStep, ShutdownEndsStep, QuiesceBeginsStep
<1>3. ASSUME NEW c \in Channels, Upstream(c) PROVE Safe'
  BY <1>3, UpstreamStep
<1>4. ASSUME NEW on \in BOOLEAN, Reconfigure(on) PROVE Safe'
  BY <1>4, ReconfigureStep
<1>5. CASE Register \/ RegisterFails
  BY <1>5, RegisterStep, RegisterFailsStep
<1>6. CASE QuiesceEnds \/ Switch \/ Discard \/ Crash
  BY <1>6, QuiesceEndsStep, SwitchStep, DiscardStep, CrashStep
<1>7. CASE UNCHANGED vars
  BY <1>7 DEF vars, lifecycle, cpa, Safe, TypeOK, RouterTypeOK, Control, Saved, RoutersHold
<1> QED BY <1>1, <1>2, <1>3, <1>4, <1>5, <1>6, <1>7 DEF Next

LEMMA AlwaysSafe == Spec => []Safe
BY SafeInit, SafeNext, PTL DEF Spec

\* Every reachable state is well typed, whatever instances, channels and
\* requests there are, and in every phase only the instance that serves and
\* owns the directory saves settings.
THEOREM PluginTypeOK == Spec => [](TypeOK /\ Control)
<1>1. Safe => TypeOK /\ Control
  BY DEF Safe
<1> QED BY <1>1, AlwaysSafe, PTL

\* The instance that owns the directory serves with the saved settings.
THEOREM SettingsStaySaved == Spec => []SettingsAreSaved
<1>1. Safe => SettingsAreSaved
  BY DEF Safe, Saved, SettingsAreSaved
<1> QED BY <1>1, AlwaysSafe, PTL

\* The channel a search goes to is the one the round found well.
LEMMA ChosenIsWell ==
  ASSUME NEW r \in Router, NEW k \in DOMAIN r.settings.order, FailingTo(r, k), FoundWell(r, k)
  PROVE  Chosen(r) = r.settings.order[k]
<1> DEFINE o == r.settings.order
<1>1. r.settings \in Settings
  BY DEF Router
<1>2. DOMAIN o = 1..Len(o) /\ Len(o) \in Nat
  BY <1>1, SettingsFacts
<1>3. k \in Usable(r)
  BY DEF FoundWell, Usable
<1>4. \A n \in Usable(r) : ~(n < k)
  BY DEF Usable, FailingTo, Failing
<1>5. Usable(r) \subseteq Int /\ k \in Int
  BY <1>2 DEF Usable
<1>6. \A n \in Usable(r) : (\A j \in Usable(r) : n <= j) <=> n = k
  BY <1>3, <1>4, <1>5
<1>7. (CHOOSE n \in Usable(r) : \A j \in Usable(r) : n <= j) = k
  BY <1>3, <1>6
<1> QED BY <1>3, <1>7 DEF Chosen

LEMMA HoldsRoutes ==
  ASSUME NEW r \in Router, Holds(r), Between(r.loop)
  PROVE  \/ Chosen(r) \in r.loop.probed /\ r.live[Chosen(r)].probe # "failed"
         \/ \A c \in Listed(r.settings) \ r.settings.forced : c \in r.loop.probed /\ r.live[c].unhealthy
<1> DEFINE o == r.settings.order
<1>1. RoundHolds(r) /\ r.loop.at = "wait" /\ r.settings \in Settings
  BY DEF Between, Holds, Router
<1>2. CASE FailingTo(r, Len(o) + 1)
  <2>1. \A n \in DOMAIN o : n < Len(o) + 1
    BY <1>1, SettingsFacts
  <2> QED BY <1>2, <2>1 DEF FailingTo, Failing, Listed
<1>3. CASE \E k \in DOMAIN o : FailingTo(r, k) /\ FoundWell(r, k)
  BY <1>3, ChosenIsWell DEF FoundWell
<1> QED BY <1>1, <1>2, <1>3 DEF RoundHolds

\* Searches go to a channel the latest round saw well, or every channel failed
\* in it, for any number of channels.
THEOREM RoutesAreProbed == Spec => []RoutesToProbed
<1>1. Safe => RoutesToProbed
  <2> SUFFICES ASSUME Safe, NEW i \in Instances, routers[i] # None
               PROVE  LET r == routers[i]
                      IN  /\ Probing(r.settings) \/ \A c \in Channels : ~r.live[c].unhealthy
                          /\ Between(r.loop) =>
                               \/ Chosen(r) \in r.loop.probed /\ r.live[Chosen(r)].probe # "failed"
                               \/ \A c \in Listed(r.settings) \ r.settings.forced : c \in r.loop.probed /\ r.live[c].unhealthy
    BY DEF RoutesToProbed
  <2>1. routers[i] \in Router /\ Holds(routers[i])
    BY RouterFacts DEF Safe
  <2> QED BY <2>1, HoldsRoutes DEF Holds
<1> QED BY <1>1, AlwaysSafe, PTL

===============================================================================
