---------------------------- MODULE ChannelStats ----------------------------
(***************************************************************************)
(* The channel registry (internal/channel/stats.go, meta.go): hourly       *)
(* statistics of every upstream channel, counted from usage records, the   *)
(* file they are flushed to, the metadata an operator keeps about a        *)
(* channel, eviction and deletion, and how a hot replacement hands the     *)
(* statistics over through the journal (internal/plugin/modules.go).       *)
(*                                                                         *)
(* An attempt is an executor call; CPA may report it in a second record,   *)
(* which adds tokens only. An hour holds the attempts and the records      *)
(* (tokens) counted in it. Failures, status codes, latencies, models and   *)
(* the recent errors are counted beside them under the same lock and left  *)
(* out. Who may write the files is in Handoff.                             *)
(***************************************************************************)
EXTENDS Integers, FiniteSets, Sequences, FiniteSetsExt

CONSTANTS
  Channels,
  Attempts,
  ChannelOf,     \* the channel of each attempt
  Callers,       \* usage records handled at once
  Follower,      \* the thread that replays the journal
  Instances,     \* plugin instances
  None,
  HoursKept,     \* hours in the statistics window
  LastHour,      \* the clock stays in 1..LastHour
  StartsKept,    \* attempts a channel recognizes (recentStartsKept)
  MaxRecords,    \* bound: records CPA reports
  MaxRollbacks,  \* bound: times the clock is turned back
  MaxRestarts,   \* bound: crashes and restarts
  MaxEdits,      \* bound: metadata updates and deletions
  MaxHandoffs,   \* bound: hot replacements begun
  Starts,        \* bound: the hour a run starts at, and what of the bounds it has used up
  Failures       \* what may fail: the statistics write ("stats"), or the directory
                 \* sync after its rename has replaced the file ("stats.sync")

ASSUME ChannelStatsAssumption ==
  /\ HoursKept \in Nat \ {0} /\ LastHour \in Nat \ {0} /\ StartsKept \in Nat
  /\ MaxRecords \in Nat /\ MaxRollbacks \in Nat /\ MaxRestarts \in Nat /\ MaxEdits \in Nat /\ MaxHandoffs \in Nat
  /\ Starts \subseteq [hour : 1..LastHour, rollbacks : 0..MaxRollbacks, restarts : 0..MaxRestarts, handoffs : 0..MaxHandoffs]
  /\ ChannelOf \in [Attempts -> Channels]
  /\ IsFiniteSet(Attempts) /\ IsFiniteSet(Callers) /\ Follower \notin Callers /\ None \notin Instances /\ Instances # {}
  /\ Failures \subseteq {"stats", "stats.sync"}

Threads == Callers \cup {Follower}
Hours == 1..LastHour
Slots == 0..(HoursKept - 1)

\* hourStats, channelStats and Registry.
HourStats == [hour : 0..LastHour, attempts : Nat, tokens : Nat]
Channel == [ring : [Slots -> HourStats], starts : Seq(Attempts)]
Table == [Channels -> Channel \cup {None}]
Registry == [channels : Table, generation : Nat, flushed : Nat, handoff : BOOLEAN]
Total == [attempts : Nat, tokens : Nat]
StatsFile == [Channels -> [Hours -> Total]]

Empty(h) == [hour |-> h, attempts |-> 0, tokens |-> 0]
NewChannel == [ring |-> [s \in Slots |-> Empty(0)], starts |-> <<>>]
NoChannels == [c \in Channels |-> None]
NewRegistry(channels) == [channels |-> channels, generation |-> 0, flushed |-> 0, handoff |-> FALSE]
Zero == [attempts |-> 0, tokens |-> 0]

ASSUME NoneAssumption == None \notin Channel
NoStats == [c \in Channels |-> [h \in Hours |-> Zero]]

NoneSeen == [c \in Channels |-> [h \in Hours |-> 0]]

\* An observation: the attempt and the hour it is counted in.
Observation == [attempt : Attempts, hour : Hours]
Idle == [step |-> "idle"]
Busy == [step : {"found", "counted"}, by : Instances, o : Observation]

\* The holder of flushMu; at "evict" and "drop" it also holds metaWriteMu.
NoJob == [step |-> "none", op |-> "none", channel |-> None, seen |-> 0, file |-> NoStats, idle |-> {}]
Job == [step : {"none", "snapshot", "write", "evict?", "evict", "drop"}, op : {"none", "flush", "delete", "handoff"},
        channel : Channels \cup {None}, seen : Nat, file : StatsFile, idle : SUBSET Channels]

NoJournal == [lines |-> <<>>, applied |-> 0, due |-> 0]
Journal == [lines : Seq(Observation), applied : Nat, due : Nat]

VARIABLES
  now,        \* the current hour
  registry,   \* each instance's registry in memory
  thread,     \* the observation each thread is adding
  job,        \* the flush, delete or handoff under way
  phase,      \* serving: one instance; quiesced: it handed off; loaded: a newer one reads its files
  serving,    \* the instance CPA calls
  newer,      \* the instance being loaded
  journal,    \* the observations the older instance hands over
  stats,      \* the statistics file
  metadata,   \* the channels with metadata: the metadata file, which the owner's memory equals
  \* history variables and bounds
  told,       \* records CPA reported of each attempt
  counted,    \* attempts counted since their channel was deleted
  seen,       \* the records counted since then, by channel and hour
  forgotten,  \* attempts a channel no longer recognizes
  unwritten,  \* channels deleted and still in the statistics file
  rollbacks, restarts, edits, handoffs

files == <<stats, metadata>>
cpa == <<phase, serving, newer>>
past == <<told, counted, seen, forgotten, unwritten>>
bounds == <<rollbacks, restarts, edits, handoffs>>
vars == <<now, registry, thread, job, cpa, journal, files, past, bounds>>

TypeOK ==
  /\ now \in Hours
  /\ registry \in [Instances -> Registry]
  /\ \A i \in Instances, c \in Channels :
       registry[i].channels[c] # None => Len(registry[i].channels[c].starts) <= StartsKept
  /\ thread \in [Threads -> Busy \cup {Idle}]
  /\ job \in Job
  /\ phase \in {"serving", "quiesced", "loaded"}
  /\ serving \in Instances /\ newer \in Instances \cup {None}
  /\ journal \in Journal /\ journal.applied <= Len(journal.lines)
  /\ stats \in StatsFile /\ metadata \subseteq Channels
  /\ told \in [Attempts -> 0..2] /\ counted \subseteq Attempts /\ seen \in [Channels -> [Hours -> Nat]]
  /\ forgotten \subseteq Attempts /\ unwritten \subseteq Channels

----------------------------------------------------------------------------
\* Hours

SumOver(f, S) == MapThenSumSet(LAMBDA x : f[x], S)

Window == {h \in Hours : h > now - HoursKept /\ h <= now}

\* slot: an older hour's slot is reused.
SlotFor(c, h) == LET b == c.ring[h % HoursKept] IN IF b.hour = h THEN b ELSE Empty(h)
Holds(c, h) == c.ring[h % HoursKept].hour = h
Active(c) == \E h \in Window : Holds(c, h)
Of(c, h) == IF c # None /\ Holds(c, h)
            THEN [attempts |-> SlotFor(c, h).attempts, tokens |-> SlotFor(c, h).tokens] ELSE Zero

\* statsSnapshot: the hours in the window, and the channels without any.
Snapshot(table) == [c \in Channels |-> [h \in Hours |-> IF h \in Window THEN Of(table[c], h) ELSE Zero]]
IdleChannels(table) == {c \in Channels : table[c] # None /\ ~Active(table[c])}

\* loadStats drops the hours outside the window and the starts.
Loaded ==
  [c \in Channels |->
     IF \A h \in Window : stats[c][h].tokens = 0 THEN None
     ELSE [NewChannel EXCEPT !.ring = [s \in Slots |->
             LET hs == {h \in Window : h % HoursKept = s /\ stats[c][h].tokens > 0} IN
             IF hs = {} THEN Empty(0)
             ELSE LET h == CHOOSE x \in hs : TRUE IN
                  [hour |-> h, attempts |-> stats[c][h].attempts, tokens |-> stats[c][h].tokens]]]]

\* The instance that owns the files: it holds the directory lock.
Owner == CASE phase = "serving" -> serving [] phase = "loaded" -> newer [] OTHER -> None

\* handoffMu is held exclusively: no observation of i is under way.
Exclusive_Shared(i) == TRUE
Exclusive(i) == \A t \in Threads : thread[t] # Idle => thread[t].by # i

----------------------------------------------------------------------------
\* Observe

\* channelFor, under handoffMu shared until the observation is announced.
Found(t, i, o) ==
  /\ registry' = [registry EXCEPT ![i].channels[ChannelOf[o.attempt]] = IF @ = None THEN NewChannel ELSE @]
  /\ thread' = [thread EXCEPT ![t] = [step |-> "found", by |-> i, o |-> o]]

\* CPA reports an attempt, once or twice.
Report(t, a) ==
  /\ thread[t] = Idle /\ told[a] < 2 /\ SumOver(told, Attempts) < MaxRecords
  /\ Found(t, serving, [attempt |-> a, hour |-> now])
  /\ told' = [told EXCEPT ![a] = @ + 1]
  /\ UNCHANGED <<now, job, cpa, journal, files, counted, seen, forgotten, unwritten, bounds>>

Counts(t) == thread[t].step = "found"
\* The follower replays a line; a later hour counts as now, one before the
\* window is ignored.
Replay ==
  /\ newer # None
  /\ thread[Follower] = Idle /\ journal.applied < Len(journal.lines)
  /\ LET line == journal.lines[journal.applied + 1]
         h == IF line.hour > now THEN now ELSE line.hour IN
       /\ journal' = [journal EXCEPT !.applied = @ + 1]
       /\ IF h \in Window THEN Found(Follower, newer, [line EXCEPT !.hour = h])
                          ELSE UNCHANGED <<registry, thread>>
  /\ UNCHANGED <<now, job, cpa, files, past, bounds>>

\* countedStart: the latest StartsKept attempts of the channel.
Remember_Unbounded(starts, a) == Append(starts, a)
Remember_OneShort(starts, a) ==
  LET s == Append(starts, a) IN IF Len(s) >= StartsKept THEN SubSeq(s, 2, Len(s)) ELSE s
Remember(starts, a) ==
  LET s == Append(starts, a) IN IF Len(s) > StartsKept THEN SubSeq(s, 2, Len(s)) ELSE s
Knows(c, a) == \E n \in DOMAIN c.starts : c.starts[n] = a

\* What no longer fits among the starts.
PushedOut(c, a) == IF Knows(c, a) \/ Len(c.starts) < StartsKept THEN {} ELSE {IF c.starts = <<>> THEN a ELSE Head(c.starts)}

\* The second record of an attempt adds its tokens only.
Added(c, o) ==
  LET b == SlotFor(c, o.hour)
      again == Knows(c, o.attempt) IN
  [c EXCEPT !.ring[o.hour % HoursKept] = [b EXCEPT !.attempts = IF again THEN @ ELSE @ + 1, !.tokens = @ + 1],
            !.starts = IF again THEN @ ELSE Remember(@, o.attempt)]

Count(t) ==
  /\ thread[t] # Idle /\ Counts(t)
  /\ LET o == thread[t].o
         c == ChannelOf[o.attempt]
         i == thread[t].by IN
       /\ registry' = [registry EXCEPT ![i].channels[c] = IF @ = None THEN @ ELSE Added(@, o)]
       /\ forgotten' = IF registry[i].channels[c] = None THEN forgotten
                       ELSE forgotten \cup PushedOut(registry[i].channels[c], o.attempt)
       /\ IF t = Follower THEN UNCHANGED <<counted, seen>>
          ELSE /\ counted' = counted \cup {o.attempt}
               /\ seen' = [seen EXCEPT ![c][o.hour] = @ + 1]
  /\ thread' = [thread EXCEPT ![t].step = "counted"]
  /\ UNCHANGED <<now, job, cpa, journal, files, told, unwritten, bounds>>

Bumped_Serving(r) == IF r.handoff THEN r.generation ELSE r.generation + 1
Bumped(r) == r.generation + 1

\* The generation, then the journal while handing off.
Announce(t) ==
  /\ thread[t] # Idle /\ thread[t].step = "counted"
  /\ LET i == thread[t].by IN
       /\ registry' = [registry EXCEPT ![i].generation = Bumped(registry[i])]
       /\ journal' = IF registry[i].handoff THEN [journal EXCEPT !.lines = Append(@, thread[t].o)] ELSE journal
  /\ thread' = [thread EXCEPT ![t] = Idle]
  /\ UNCHANGED <<now, job, cpa, files, past, bounds>>

----------------------------------------------------------------------------
\* FlushStats, Delete and HandOff

\* FlushStats: the generation is read before the snapshot is taken.
BeginFlush ==
  /\ Owner # None /\ job = NoJob
  /\ job' = [NoJob EXCEPT !.step = "snapshot", !.op = "flush", !.seen = registry[Owner].generation]
  /\ UNCHANGED <<now, registry, thread, cpa, journal, files, past, bounds>>

TakeSnapshot ==
  /\ job.step = "snapshot"
  /\ LET table == registry[Owner].channels IN
     job' = [job EXCEPT !.step = "write", !.file = Snapshot(table),
                        !.idle = IF job.op = "flush" THEN IdleChannels(table) ELSE {}]
  /\ UNCHANGED <<now, registry, thread, cpa, journal, files, past, bounds>>

\* A flush goes on to evict what was idle, whether it wrote or not.
AfterWrite == IF job.idle # {} THEN [NoJob EXCEPT !.step = "evict?", !.op = "flush", !.idle = job.idle] ELSE NoJob

\* The generation a write leaves in the file.
Flushed == job.seen

\* writeStatsLocked: nothing to write at the generation the file holds.
Write ==
  /\ job.step = "write"
  /\ IF job.seen = registry[Owner].flushed THEN UNCHANGED <<registry, stats>>
     ELSE /\ stats' = job.file
          /\ registry' = [registry EXCEPT ![Owner].flushed = Flushed]
  /\ unwritten' = {}
  /\ job' = AfterWrite
  /\ phase' = IF job.op = "handoff" THEN "quiesced" ELSE phase
  /\ UNCHANGED <<now, thread, serving, newer, journal, metadata, told, counted, seen, forgotten, bounds>>

\* After a failed handoff the instance serves on: Resume.
WriteFails ==
  /\ job.step = "write" /\ job.seen # registry[Owner].flushed
  /\ \/ "stats" \in Failures /\ UNCHANGED <<stats, unwritten>>
     \/ "stats.sync" \in Failures /\ stats' = job.file /\ unwritten' = {}
  /\ job' = AfterWrite
  /\ IF job.op = "handoff"
     THEN registry' = [registry EXCEPT ![serving].handoff = FALSE] /\ journal' = NoJournal
     ELSE UNCHANGED <<registry, journal>>
  /\ UNCHANGED <<now, thread, cpa, metadata, told, counted, seen, forgotten, bounds>>

\* evictIdle takes metaWriteMu and keeps the channels with metadata.
LockMeta ==
  /\ job.step = "evict?"
  /\ LET dropped == job.idle \ metadata IN
     job' = IF dropped = {} THEN NoJob ELSE [job EXCEPT !.step = "evict", !.idle = dropped]
  /\ UNCHANGED <<now, registry, thread, cpa, journal, files, past, bounds>>

\* The window is taken again.
StillIdle(table) == {c \in job.idle : table[c] # None /\ ~Active(table[c])}

Evict ==
  /\ job.step = "evict" /\ Exclusive(Owner)
  /\ LET gone == StillIdle(registry[Owner].channels) IN
       /\ registry' = [registry EXCEPT ![Owner].channels = [c \in Channels |-> IF c \in gone THEN None ELSE @[c]]]
       /\ forgotten' = forgotten \cup {a \in counted : ChannelOf[a] \in gone}
  /\ job' = NoJob
  /\ UNCHANGED <<now, thread, cpa, journal, files, told, counted, seen, unwritten, bounds>>

\* Delete removes the metadata, then the statistics, then writes at once.
\* Management writes reach the serving instance alone.
BeginDelete(c) ==
  /\ phase = "serving" /\ job = NoJob /\ edits < MaxEdits
  /\ metadata' = metadata \ {c}
  /\ job' = [NoJob EXCEPT !.step = "drop", !.op = "delete", !.channel = c]
  /\ edits' = edits + 1
  /\ UNCHANGED <<now, registry, thread, cpa, journal, stats, past, rollbacks, restarts, handoffs>>

\* What the older instance counted and this one has still to replay.
PendingLines == journal.applied + 1 .. Len(journal.lines)
PendingCallers == {t \in Callers : thread[t] # Idle /\ thread[t].by # serving /\ thread[t].step = "counted"}
PendingIn(c, h) ==
  LET of(o) == ChannelOf[o.attempt] = c /\ o.hour = h IN
  Cardinality({n \in PendingLines : of(journal.lines[n])}) + Cardinality({t \in PendingCallers : of(thread[t].o)})
PendingAttempts == {journal.lines[n].attempt : n \in PendingLines} \cup {thread[t].o.attempt : t \in PendingCallers}

DropChannel ==
  /\ job.step = "drop" /\ Exclusive(serving)
  /\ LET c == job.channel
         generation == registry[serving].generation + 1 IN
     IF registry[serving].channels[c] = None THEN job' = NoJob /\ UNCHANGED <<registry, counted, seen, unwritten>>
     ELSE /\ registry' = [registry EXCEPT ![serving].channels[c] = None, ![serving].generation = generation]
          /\ job' = [job EXCEPT !.step = "snapshot", !.channel = None, !.seen = generation]
          /\ counted' = {a \in counted : ChannelOf[a] # c \/ a \in PendingAttempts}
          /\ seen' = [seen EXCEPT ![c] = [h \in Hours |-> PendingIn(c, h)]]
          /\ unwritten' = unwritten \cup {c}
  /\ UNCHANGED <<now, thread, cpa, journal, files, told, forgotten, bounds>>

\* UpdateMeta sets or clears what an operator says of a channel.
UpdateMeta(c) ==
  /\ phase = "serving" /\ job.step \notin {"evict", "drop"} /\ job.op # "handoff" /\ edits < MaxEdits
  /\ metadata' = IF c \in metadata THEN metadata \ {c} ELSE metadata \cup {c}
  /\ edits' = edits + 1
  /\ UNCHANGED <<now, registry, thread, job, cpa, journal, stats, past, rollbacks, restarts, handoffs>>

----------------------------------------------------------------------------
\* Hot replacement

\* HandOff: the snapshot and the start of the journaling are one instant.
HandOff ==
  /\ phase = "serving" /\ job = NoJob /\ newer = None /\ handoffs < MaxHandoffs
  /\ Exclusive(serving)
  /\ LET r == registry[serving] IN
     job' = [NoJob EXCEPT !.step = "write", !.op = "handoff", !.seen = r.generation, !.file = Snapshot(r.channels)]
  /\ registry' = [registry EXCEPT ![serving].handoff = TRUE]
  /\ handoffs' = handoffs + 1
  /\ UNCHANGED <<now, thread, cpa, journal, files, past, rollbacks, restarts, edits>>

\* The newer instance opens its modules from the files and replays what the
\* journal holds so far before it is registered.
TakeOver(i) ==
  /\ phase = "quiesced" /\ i # serving /\ \A t \in Threads : thread[t] # Idle => thread[t].by # i
  /\ registry' = [registry EXCEPT ![i] = NewRegistry(Loaded)]
  /\ phase' = "loaded" /\ newer' = i
  /\ journal' = [journal EXCEPT !.due = Len(journal.lines)]
  /\ forgotten' = forgotten \cup {a \in Attempts : told[a] > 0}
  /\ UNCHANGED <<now, serving, thread, job, files, told, counted, seen, unwritten, bounds>>

\* CPA publishes the newer instance; the older one has observations left.
Switch ==
  /\ phase = "loaded" /\ journal.applied >= journal.due
  /\ phase' = "serving" /\ serving' = newer
  /\ UNCHANGED <<now, newer, registry, thread, job, journal, files, past, bounds>>

Followed ==
  /\ journal.applied = Len(journal.lines)
  /\ \A t \in Threads : thread[t] # Idle => thread[t].by = serving

\* The older instance is unloaded and its journal is followed to the end.
FollowEnds ==
  /\ phase = "serving" /\ newer = serving /\ Followed
  /\ registry' = [i \in Instances |-> IF i = serving THEN registry[i] ELSE NewRegistry(NoChannels)]
  /\ journal' = NoJournal /\ newer' = None
  /\ UNCHANGED <<now, phase, serving, thread, job, files, past, bounds>>

\* CPA returns to the older instance. A newer one that registered shuts down
\* first: it replays the rest and writes its statistics once more.
Rollback ==
  /\ \/ phase = "quiesced" /\ UNCHANGED stats
     \/ /\ phase = "loaded" /\ job = NoJob
        /\ journal.applied = Len(journal.lines) /\ thread[Follower] = Idle
        /\ LET r == registry[newer] IN
           IF r.generation = r.flushed THEN UNCHANGED stats
           ELSE stats' = Snapshot(r.channels) \/ ("stats" \in Failures /\ UNCHANGED stats)
  /\ registry' = [i \in Instances |-> IF i = serving THEN [registry[i] EXCEPT !.handoff = FALSE] ELSE NewRegistry(NoChannels)]
  /\ phase' = "serving" /\ newer' = None /\ journal' = NoJournal
  /\ UNCHANGED <<now, thread, job, serving, metadata, past, bounds>>

----------------------------------------------------------------------------
\* The environment

\* A crash of the process and its restart; one during a replacement is in
\* Handoff. A deletion that was not written is undone.
Restart ==
  /\ phase = "serving" /\ newer = None /\ job.op # "handoff" /\ restarts < MaxRestarts
  /\ registry' = [registry EXCEPT ![serving] = NewRegistry(Loaded)]
  /\ thread' = [t \in Threads |-> Idle] /\ job' = NoJob
  /\ forgotten' = forgotten \cup {a \in Attempts : told[a] > 0}
  /\ seen' = [c \in Channels |-> IF c \in unwritten THEN [h \in Hours |-> stats[c][h].tokens] ELSE seen[c]]
  /\ counted' = counted \cup {a \in Attempts : told[a] > 0 /\ ChannelOf[a] \in unwritten}
  /\ unwritten' = {} /\ restarts' = restarts + 1
  /\ UNCHANGED <<now, cpa, journal, files, told, rollbacks, edits, handoffs>>

\* An observation ends long before its hour leaves the window.
NextHour ==
  /\ now < LastHour /\ now' = now + 1
  /\ \A t \in Threads : thread[t] # Idle => thread[t].o.hour > now' - HoursKept
  /\ UNCHANGED <<registry, thread, job, cpa, journal, files, past, bounds>>

TurnClockBack ==
  /\ now > 1 /\ rollbacks < MaxRollbacks
  /\ now' = now - 1 /\ rollbacks' = rollbacks + 1
  /\ UNCHANGED <<registry, thread, job, cpa, journal, files, past, restarts, edits, handoffs>>

Init ==
  /\ registry = [i \in Instances |-> NewRegistry(NoChannels)]
  /\ thread = [t \in Threads |-> Idle] /\ job = NoJob
  /\ phase = "serving" /\ serving = (CHOOSE i \in Instances : TRUE) /\ newer = None
  /\ journal = NoJournal /\ stats = NoStats /\ metadata = {}
  /\ told = [a \in Attempts |-> 0] /\ counted = {} /\ seen = NoneSeen
  /\ forgotten = {} /\ unwritten = {}
  /\ edits = 0
  /\ \E start \in Starts : now = start.hour /\ rollbacks = start.rollbacks /\ restarts = start.restarts /\ handoffs = start.handoffs

Next ==
  \/ \E t \in Callers, a \in Attempts : Report(t, a)
  \/ Replay
  \/ \E t \in Threads : Count(t) \/ Announce(t)
  \/ BeginFlush \/ TakeSnapshot \/ Write \/ WriteFails \/ LockMeta \/ Evict
  \/ \E c \in Channels : BeginDelete(c) \/ UpdateMeta(c)
  \/ DropChannel
  \/ HandOff \/ \E i \in Instances : TakeOver(i)
  \/ Switch \/ FollowEnds \/ Rollback
  \/ Restart \/ NextHour \/ TurnClockBack

Spec == Init /\ [][Next]_vars

----------------------------------------------------------------------------
\* Properties

\* No more than was counted, except that an attempt the channel no longer
\* recognizes may count again with its second record.
NoMore(totals, c) ==
  LET mine(as) == Cardinality({a \in as : ChannelOf[a] = c}) IN
  /\ SumOver([h \in Hours |-> totals[h].tokens], Hours) <= SumOver(seen[c], Hours)
  /\ SumOver([h \in Hours |-> totals[h].attempts], Hours) <= mine(counted) + mine(forgotten)

\* Neither the memory of the instance that serves or is being loaded nor the
\* file ever holds an observation twice, or one of before the deletion of its
\* channel once that is written (stats.go:438, 542 and 863).
CountedOnce ==
  \A c \in Channels :
    /\ \A i \in {serving, newer} \ {None} : NoMore([h \in Hours |-> Of(registry[i].channels[c], h)], c)
    /\ c \notin unwritten => NoMore(stats[c], c)

Steady == phase = "serving" /\ journal.lines = <<>> /\ newer = None /\ \A t \in Threads : thread[t] = Idle

\* Without a crash or a clock turned back, every observation is in memory
\* once nothing is under way: through evictions, deletions, replacements
\* completed and rolled back, and writes that fail (stats.go:542, 823).  It is
\* in the file too once the instance has no change to flush, whatever was
\* observed between the reading of the generation, the snapshot and the write
\* (FlushStats, stats.go:805).
NothingForgotten ==
  LET r == registry[serving] IN
  (Steady /\ rollbacks = 0 /\ restarts = 0) =>
     \A c \in Channels, h \in Window :
       /\ Of(r.channels[c], h).tokens = seen[c][h]
       /\ r.generation = r.flushed => Of(r.channels[c], h) = stats[c][h]

=============================================================================
