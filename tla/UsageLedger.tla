----------------------------- MODULE UsageLedger -----------------------------
(***************************************************************************)
(* The usage ledger of one running store and the files it is kept in       *)
(* (internal/policy/ledger.go, store.go, persistence.go).                  *)
(*                                                                         *)
(* The ledger counts every billed call twice: in the bucket of the day and *)
(* in the key's quota periods.  A flush writes the closed days to the      *)
(* history file and then the periods and the open days to the live file;   *)
(* either write can fail, the process can crash between them, and calls    *)
(* are billed while they run.                                              *)
(*                                                                         *)
(* A day is a number, day 0 is the empty watermark "" of the code, and a   *)
(* bucket is the number of calls in it (0: the bucket does not exist).     *)
(***************************************************************************)
EXTENDS Integers, FiniteSets

CONSTANTS
  Keys,          \* key ids
  Windows,       \* quota windows (daily, weekly, monthly)
  Length,        \* days of each window
  LastDay,       \* the clock stays in 1..LastDay
  Retention,     \* UsageRetentionDays
  MaxCalls,      \* bound: calls billed in a behaviour
  MaxRollbacks,  \* bound: times the clock is turned back
  MaxDeletes,    \* bound: key deletions
  Failures,      \* what may fail: a write ("live"), or the directory sync
                 \* after its rename has replaced the file ("live.sync")
  None

ASSUME LedgerAssumption ==
  /\ LastDay \in Nat \ {0}
  /\ Retention \in Nat \ {0}
  /\ MaxCalls \in Nat
  /\ MaxRollbacks \in Nat
  /\ MaxDeletes \in Nat
  /\ Length \in [Windows -> Nat \ {0}]
  /\ Failures \subseteq {"history", "live", "reset", "history.sync", "live.sync", "reset.sync"}

Day == 1..LastDay
Watermark == 0..(LastDay - 1)  \* a closed day is never today

NoDays == [k \in Keys |-> [d \in Day |-> 0]]
NoCycles == [k \in Keys |-> None]
Idle == [op |-> "idle", key |-> None]
NoPlan == [pc |-> "idle", by |-> "tick", through |-> 0, historyThrough |-> 0,
           due |-> FALSE, written |-> FALSE, days |-> NoDays, cycles |-> NoCycles]

DayTable == [Keys -> [Day -> Nat]]
Periods == [Windows -> [ends : Int, used : Nat]]
CycleTable == [Keys -> Periods \cup {None}]
Mutation == {Idle} \cup [op : {"create", "delete", "forget", "flush"}, key : Keys]
FlushPlan == [pc : {"idle", "history", "live", "failed", "done"}, by : {"tick", "delete", "shutdown"},
              through : Watermark, historyThrough : Watermark, due : BOOLEAN, written : BOOLEAN,
              days : DayTable, cycles : CycleTable]
LiveFiles == [through : Watermark, days : DayTable, cycles : CycleTable]
HistoryFiles == [through : Watermark, days : DayTable]

VARIABLES
  now,             \* today, by the ledger clock
  up,              \* the process runs
  \* the ledger in memory (usageLedger)
  days,            \* calls of each key on each day
  cycles,          \* quota periods of each key, None for a deleted one
  dirty,           \* something is not in the live file yet
  revised,         \* the ledger changed since the last flush was planned
  historyThrough,  \* the last day the history file holds
  closedThrough,   \* days up to it are never written again
  historyStale,    \* retention dropped days the history file still holds
  lastEvicted,     \* the day retention last ran on
  \* the key store
  published,       \* keys a request can be billed to
  inflight,        \* keys a record was looked up for and not booked yet
  admin,           \* the management write under way (it holds updateMu)
  \* the flush under way (it holds persistMu)
  plan,
  \* the files
  state,           \* the state file: the day each key was created, 0 if it has none
  live,            \* usage.json
  history,         \* history.json
  \* bounds and history variables of the properties
  calls,           \* calls billed so far
  rollbacks,       \* times the clock was turned back
  deletes,         \* keys deleted so far
  saved,           \* what the latest successful flush wrote
  dropped,         \* the last day retention has dropped
  since,           \* calls counted in a key's periods since it was created
  recreated,       \* keys created while the live file held the deleted key's periods
  mayInherit       \* those of them a restart found in that state

ledger == <<days, cycles, dirty, revised, historyThrough, closedThrough, historyStale, lastEvicted>>
store  == <<published, inflight, admin>>
files  == <<state, live, history>>
ghosts == <<calls, rollbacks, deletes, saved, dropped, since, recreated, mayInherit>>
vars   == <<now, up, ledger, store, plan, files, ghosts>>

HasKey == {k \in Keys : state[k] > 0}

TypeOK ==
  /\ now \in Day /\ up \in BOOLEAN
  /\ days \in DayTable /\ cycles \in CycleTable
  /\ dirty \in BOOLEAN /\ revised \in BOOLEAN /\ historyStale \in BOOLEAN
  /\ historyThrough \in Watermark /\ closedThrough \in Watermark /\ lastEvicted \in 0..LastDay
  /\ published \subseteq Keys /\ inflight \subseteq Keys /\ admin \in Mutation
  /\ plan \in FlushPlan
  /\ state \in [Keys -> 0..LastDay] /\ live \in LiveFiles /\ history \in HistoryFiles
  /\ calls \in Nat /\ rollbacks \in Nat /\ deletes \in Nat
  /\ saved \in DayTable /\ dropped \in Int /\ since \in [Keys -> Nat]
  /\ recreated \subseteq Keys /\ mayInherit \subseteq Keys

----------------------------------------------------------------------------
\* Quota periods (cycle.go)

\* newCycles: every period of a key created on day d ends N days later.
NewCycles(d) == [w \in Windows |-> [ends |-> d + Length[w], used |-> 0]]

\* advanceCyclesLocked: an expired period rolls forward from its own deadline.
NextEnd(e, n, d) == e + ((d - e) \div n + 1) * n
Advance(c) ==
  [w \in Windows |->
     IF now < c[w].ends THEN c[w] ELSE [ends |-> NextEnd(c[w].ends, Length[w], now), used |-> 0]]

\* Rolls the periods of a key that has some.
Rolled(k) == IF cycles[k] = None THEN None ELSE Advance(cycles[k])

----------------------------------------------------------------------------
\* Days, retention and the closed watermark (ledger.go)

MaxDay(a, b) == IF a > b THEN a ELSE b
OldestKept == now - (Retention - 1)

\* openDateLocked: today, or the first open day after a clock rollback.
OpenDate_Unguarded == now
OpenDate == IF now > closedThrough THEN now ELSE closedThrough + 1

\* evictExpiredLocked on the days table ds: runs once per calendar day.
EvictionDue == now # lastEvicted
Kept(ds) == IF EvictionDue THEN [k \in Keys |-> [d \in Day |-> IF d < OldestKept THEN 0 ELSE ds[k][d]]] ELSE ds
Evicts(ds) == Kept(ds) # ds
EvictsHistory(ds, through) == \E k \in Keys, d \in Day : d <= through /\ Kept(ds)[k][d] # ds[k][d]
Evict(ds) ==
  /\ days' = Kept(ds)
  /\ historyStale' = (historyStale \/ EvictsHistory(ds, historyThrough))
  /\ lastEvicted' = now
  /\ dropped' = IF EvictionDue THEN MaxDay(dropped, OldestKept - 1) ELSE dropped

MarkDirty == dirty' = TRUE /\ revised' = TRUE

\* Dirty exactly when something changed, as every caller of markDirtyLocked.
MarkDirtyIf(changed) == dirty' = (dirty \/ changed) /\ revised' = (revised \/ changed)

----------------------------------------------------------------------------
\* The files (persistence.go)

\* liveSnapshotLocked and writeLive: days after the watermark.
After(ds, through) == [k \in Keys |-> [d \in Day |-> IF d > through THEN ds[k][d] ELSE 0]]
LiveFile(through, ds, cs) == [through |-> through, days |-> After(ds, through), cycles |-> cs]

\* mergeUsage: history owns the days up to its watermark.
Merge(h, l) == [k \in Keys |-> [d \in Day |-> IF d <= h.through THEN h.days[k][d] ELSE l.days[k][d]]]
Merged == Merge(history, live)

\* historySnapshotLocked copies a key's date table and shares the buckets of
\* the days in it, so the write sees what they hold when it runs.
SharedHistory_NewDays ==
  [k \in Keys |-> [d \in Day |->
     IF d > plan.historyThrough \/ d <= plan.through THEN 0 ELSE plan.days[k][d]]]
SharedHistory ==
  [k \in Keys |-> [d \in Day |->
     IF d > plan.historyThrough \/ plan.days[k][d] = 0 THEN 0
     ELSE IF days[k][d] > 0 THEN days[k][d] ELSE plan.days[k][d]]]

\* LoadUsage refuses a live file written against more history than there is.
FilesAgree == live.through <= history.through

----------------------------------------------------------------------------
\* Billing

\* RecordUsage finds the key ...
FindKey(k) ==
  /\ up /\ k \in published \ inflight /\ calls < MaxCalls
  /\ inflight' = inflight \cup {k}
  /\ UNCHANGED <<now, up, ledger, published, admin, plan, files, ghosts>>

\* ... and the ledger books the call; the key may be deleted in between.
Record(k) ==
  /\ up /\ k \in inflight
  /\ inflight' = inflight \ {k}
  /\ calls' = calls + 1
  /\ cycles' = IF cycles[k] = None THEN cycles
               ELSE [cycles EXCEPT ![k] = [w \in Windows |-> [Rolled(k)[w] EXCEPT !.used = @ + 1]]]
  /\ since' = [since EXCEPT ![k] = @ + 1]
  /\ Evict([days EXCEPT ![k][OpenDate] = @ + 1])
  /\ MarkDirty
  /\ UNCHANGED <<now, up, historyThrough, closedThrough, published, admin, plan, files, rollbacks, deletes, saved, recreated, mayInherit>>

\* summary: a read evicts expired days and rolls the key's periods.
ReadUsage(k) ==
  /\ up
  /\ Evict(days)
  /\ cycles' = [cycles EXCEPT ![k] = Rolled(k)]
  /\ MarkDirtyIf(Evicts(days) \/ Rolled(k) # cycles[k])
  /\ UNCHANGED <<now, up, historyThrough, closedThrough, store, plan, files, calls, rollbacks, deletes, saved, since, recreated, mayInherit>>

----------------------------------------------------------------------------
\* Key creation and deletion (admin.go); each holds updateMu throughout

\* UpsertKey writes the state file first ...
CreateKey(k) ==
  /\ up /\ admin = Idle /\ plan.pc = "idle" /\ state[k] = 0
  /\ state' = [state EXCEPT ![k] = now]
  /\ admin' = [op |-> "create", key |-> k]
  /\ since' = [since EXCEPT ![k] = 0]
  /\ recreated' = IF live.cycles[k] = None THEN recreated \ {k} ELSE recreated \cup {k}
  /\ mayInherit' = mayInherit \ {k}
  /\ UNCHANGED <<now, up, ledger, published, inflight, plan, live, history, calls, rollbacks, deletes, saved, dropped>>

\* ... then opens the periods and publishes the key.
PublishKey ==
  /\ up /\ admin.op = "create"
  /\ LET k == admin.key
         c == Advance(IF cycles[k] = None THEN NewCycles(state[k]) ELSE cycles[k]) IN
       /\ cycles' = [cycles EXCEPT ![k] = c]
       /\ MarkDirtyIf(c # cycles[k])
       /\ published' = published \cup {k}
  /\ admin' = Idle
  /\ UNCHANGED <<now, up, days, historyThrough, closedThrough, historyStale, lastEvicted, inflight, plan, files, ghosts>>

\* DeleteKey writes the state file, ...
DeleteKey(k) ==
  /\ up /\ admin = Idle /\ plan.pc = "idle" /\ k \in published /\ deletes < MaxDeletes
  /\ state' = [state EXCEPT ![k] = 0]
  /\ admin' = [op |-> "delete", key |-> k]
  /\ deletes' = deletes + 1
  /\ UNCHANGED <<now, up, ledger, published, inflight, plan, live, history, calls, rollbacks, saved, dropped, since, recreated, mayInherit>>

\* ... takes the key out of memory, ...
UnpublishKey ==
  /\ up /\ admin.op = "delete"
  /\ published' = published \ {admin.key}
  /\ admin' = [admin EXCEPT !.op = "forget"]
  /\ UNCHANGED <<now, up, ledger, inflight, plan, files, ghosts>>

\* ... drops its periods and then flushes (PlanFlush("delete")).
ForgetKey ==
  /\ up /\ admin.op = "forget"
  /\ cycles' = [cycles EXCEPT ![admin.key] = None]
  /\ MarkDirtyIf(cycles[admin.key] # None)
  /\ admin' = [admin EXCEPT !.op = "flush"]
  /\ UNCHANGED <<now, up, days, historyThrough, closedThrough, historyStale, lastEvicted, published, inflight, plan, files, ghosts>>

----------------------------------------------------------------------------
\* Manual reset: the live file is written under the ledger lock

ResetCycles(k, w) == [cycles EXCEPT ![k] = [Rolled(k) EXCEPT ![w] = [ends |-> now + Length[w], used |-> 0]]]

ResetWindow(k, w) ==
  /\ up /\ admin = Idle /\ plan.pc = "idle" /\ k \in published /\ cycles[k] # None
  /\ cycles' = ResetCycles(k, w)
  /\ live' = LiveFile(historyThrough, days, cycles')
  /\ dirty' = FALSE /\ revised' = TRUE
  /\ saved' = Merge(history, live') /\ recreated' = {}
  /\ UNCHANGED <<now, up, days, historyThrough, closedThrough, historyStale, lastEvicted, store, plan,
                 state, history, calls, rollbacks, deletes, dropped, since, mayInherit>>

\* On failure the periods, rolled forward, are restored; the directory sync
\* fails after the rename has replaced the file.
ResetWindowFails(k, w) ==
  /\ up /\ admin = Idle /\ plan.pc = "idle" /\ k \in published /\ cycles[k] # None
  /\ cycles' = [cycles EXCEPT ![k] = Rolled(k)]
  /\ MarkDirtyIf(Rolled(k) # cycles[k])
  /\ \/ "reset" \in Failures /\ live' = live
     \/ "reset.sync" \in Failures /\ live' = LiveFile(historyThrough, days, ResetCycles(k, w))
  /\ UNCHANGED <<now, up, days, historyThrough, closedThrough, historyStale, lastEvicted, store, plan,
                 state, history, ghosts>>

----------------------------------------------------------------------------
\* FlushUsage (store.go)

Yesterday == now - 1

\* The watermark of the next history write keeps the days it already holds.
HistoryTarget == MaxDay(Yesterday, historyThrough)

\* hasDaysInRangeLocked: some day after the watermark has closed.
HasDaysInRange_Never(ds, after, through) == FALSE
HasDaysInRange(ds, after, through) == \E k \in Keys, d \in Day : d > after /\ d <= through /\ ds[k][d] > 0

\* planFlush: retention, periods, then one cut under the ledger lock.
PlanFlush(by) ==
  /\ up /\ plan.pc = "idle"
  /\ by = "delete" => admin.op = "flush"
  /\ days' = Kept(days)
  /\ lastEvicted' = now
  /\ dropped' = IF EvictionDue THEN MaxDay(dropped, OldestKept - 1) ELSE dropped
  /\ cycles' = [k \in Keys |-> Rolled(k)]
  /\ historyStale' = FALSE
  /\ LET due == \/ historyStale \/ EvictsHistory(days, historyThrough)
                \/ HasDaysInRange(Kept(days), historyThrough, Yesterday)
         isDirty == dirty \/ Evicts(days) \/ cycles' # cycles IN
       /\ dirty' = isDirty
       /\ closedThrough' = IF due THEN MaxDay(closedThrough, HistoryTarget) ELSE closedThrough
       /\ IF isDirty \/ due
          THEN /\ plan' = [pc |-> IF due THEN "history" ELSE "live", by |-> by, through |-> historyThrough,
                           historyThrough |-> IF due THEN HistoryTarget ELSE 0, due |-> due, written |-> FALSE,
                           days |-> days', cycles |-> cycles']
               /\ revised' = FALSE
               /\ admin' = admin
          ELSE /\ plan' = IF by = "shutdown" THEN [NoPlan EXCEPT !.pc = "done", !.by = by] ELSE plan
               /\ admin' = IF by = "delete" THEN Idle ELSE admin
               /\ revised' = revised
  /\ UNCHANGED <<now, up, historyThrough, published, inflight, files, calls, rollbacks, deletes, saved, since, recreated, mayInherit>>

\* The watermark the history file really reached.
Reached_Planned(p) == IF p.due THEN p.historyThrough ELSE p.through
Reached(p) == IF p.written THEN p.historyThrough ELSE p.through

\* writeHistory comes first; a failed one leaves the closed days in the live
\* file, which is written against the watermark the history really reached.
WriteHistory ==
  /\ up /\ plan.pc = "history"
  /\ history' = [through |-> plan.historyThrough, days |-> SharedHistory]
  /\ plan' = [plan EXCEPT !.pc = "live", !.written = TRUE]
  /\ UNCHANGED <<now, up, ledger, store, state, live, ghosts>>

WriteHistoryFails ==
  /\ up /\ plan.pc = "history"
  /\ \/ "history" \in Failures /\ history' = history
     \/ "history.sync" \in Failures /\ history' = [through |-> plan.historyThrough, days |-> SharedHistory]
  /\ plan' = [plan EXCEPT !.pc = "live"]
  /\ UNCHANGED <<now, up, ledger, store, state, live, ghosts>>

WriteLive ==
  /\ up /\ plan.pc = "live"
  /\ live' = LiveFile(Reached(plan), plan.days, plan.cycles)
  /\ plan' = [plan EXCEPT !.pc = "done"]
  /\ saved' = plan.days /\ recreated' = {}
  /\ UNCHANGED <<now, up, ledger, store, state, history, calls, rollbacks, deletes, dropped, since, mayInherit>>

WriteLiveFails ==
  /\ up /\ plan.pc = "live"
  /\ \/ "live" \in Failures /\ live' = live
     \/ "live.sync" \in Failures /\ live' = LiveFile(Reached(plan), plan.days, plan.cycles)
  /\ plan' = [plan EXCEPT !.pc = "failed"]
  /\ UNCHANGED <<now, up, ledger, store, state, history, ghosts>>

\* Dirty stays when the live write failed or the ledger changed meanwhile.
StillDirty_Unrevised == dirty /\ plan.pc = "failed"
StillDirty_Always == dirty
StillDirty == dirty /\ (plan.pc = "failed" \/ revised)

\* markFlushed: what the files now hold.  A deletion ends here, saved or not.
MarkFlushed ==
  /\ up /\ plan.pc \in {"done", "failed"} /\ plan.by # "shutdown"
  /\ historyThrough' = IF plan.written THEN plan.historyThrough ELSE historyThrough
  /\ historyStale' = (historyStale \/ (plan.due /\ ~plan.written))
  /\ dirty' = StillDirty
  /\ plan' = NoPlan
  /\ admin' = IF plan.by = "delete" THEN Idle ELSE admin
  /\ UNCHANGED <<now, up, days, cycles, revised, closedThrough, lastEvicted, published, inflight, files, ghosts>>

----------------------------------------------------------------------------
\* The process and the clock

\* Whatever memory held is gone.
Halt ==
  /\ up' = FALSE
  /\ days' = NoDays /\ cycles' = NoCycles
  /\ dirty' = FALSE /\ revised' = FALSE /\ historyStale' = FALSE
  /\ historyThrough' = 0 /\ closedThrough' = 0 /\ lastEvicted' = 0
  /\ published' = {} /\ inflight' = {} /\ admin' = Idle /\ plan' = NoPlan
  /\ UNCHANGED <<now, files, ghosts>>

Crash == up /\ Halt

\* Shutdown ends with its flush, saved or not.
Shutdown == up /\ plan.by = "shutdown" /\ plan.pc \in {"done", "failed"} /\ Halt

\* syncCycles opens the periods of the state's keys, anchored at the key's
\* creation, and forgets those of every other id.
Opened(k) == Advance(IF live.cycles[k] = None THEN NewCycles(state[k]) ELSE live.cycles[k])
SyncCycles_KeepAll == [k \in Keys |-> IF state[k] = 0 /\ live.cycles[k] = None THEN None ELSE Opened(k)]
SyncCycles == [k \in Keys |-> IF state[k] = 0 THEN None ELSE Opened(k)]

\* configure and usageLedger.load: the merged files replace the ledger and one
\* retention pass runs.
Restart ==
  /\ ~up /\ FilesAgree /\ history.through <= now
  /\ LET kept == [k \in Keys |-> [d \in Day |-> IF d < OldestKept THEN 0 ELSE Merged[k][d]]]
         changed == kept # Merged \/ SyncCycles # live.cycles IN
       /\ days' = kept /\ cycles' = SyncCycles
       /\ dirty' = changed /\ revised' = changed
       /\ historyStale' = \E k \in Keys, d \in Day : d <= history.through /\ kept[k][d] # Merged[k][d]
  /\ dropped' = MaxDay(dropped, OldestKept - 1)
  /\ historyThrough' = history.through /\ closedThrough' = history.through
  /\ lastEvicted' = now
  /\ published' = HasKey /\ inflight' = {} /\ admin' = Idle /\ plan' = NoPlan
  /\ up' = TRUE
  /\ recreated' = {} /\ mayInherit' = mayInherit \cup recreated
  /\ UNCHANGED <<now, files, calls, rollbacks, deletes, saved, since>>

NextDay ==
  /\ now < LastDay
  /\ now' = now + 1
  /\ UNCHANGED <<up, ledger, store, plan, files, ghosts>>

TurnClockBack ==
  /\ rollbacks < MaxRollbacks
  /\ \E d \in Day : d < now /\ now' = d
  /\ rollbacks' = rollbacks + 1
  /\ UNCHANGED <<up, ledger, store, plan, files, calls, deletes, saved, dropped, since, recreated, mayInherit>>

----------------------------------------------------------------------------
\* configure on the first boot has seeded an empty dataset.
Init ==
  /\ now = 1 /\ up = TRUE
  /\ days = NoDays /\ cycles = NoCycles
  /\ dirty = FALSE /\ revised = FALSE /\ historyStale = FALSE
  /\ historyThrough = 0 /\ closedThrough = 0 /\ lastEvicted = 1
  /\ published = {} /\ inflight = {} /\ admin = Idle /\ plan = NoPlan
  /\ state = [k \in Keys |-> 0]
  /\ live = [through |-> 0, days |-> NoDays, cycles |-> NoCycles]
  /\ history = [through |-> 0, days |-> NoDays]
  /\ calls = 0 /\ rollbacks = 0 /\ deletes = 0 /\ saved = NoDays /\ dropped = 0
  /\ since = [k \in Keys |-> 0] /\ recreated = {} /\ mayInherit = {}

FlushStep == WriteHistory \/ WriteHistoryFails \/ WriteLive \/ WriteLiveFails \/ MarkFlushed \/ Shutdown

Next ==
  \/ \E k \in Keys : FindKey(k) \/ Record(k) \/ ReadUsage(k) \/ CreateKey(k) \/ DeleteKey(k)
  \/ PublishKey \/ UnpublishKey \/ ForgetKey
  \/ \E k \in Keys, w \in Windows : ResetWindow(k, w) \/ ResetWindowFails(k, w)
  \/ \E by \in {"tick", "delete", "shutdown"} : PlanFlush(by)
  \/ FlushStep
  \/ Crash \/ Restart \/ NextDay \/ TurnClockBack

Spec == Init /\ [][Next]_vars

\* The flusher ticks every 15 seconds and a flush under way goes on; the disk
\* does not refuse every write for ever.
Fairness ==
  /\ WF_vars(PlanFlush("tick")) /\ WF_vars(PlanFlush("delete"))
  /\ WF_vars(FlushStep)
  /\ SF_vars(WriteHistory) /\ SF_vars(WriteLive)
  /\ WF_vars(PublishKey) /\ WF_vars(UnpublishKey) /\ WF_vars(ForgetKey)

FairSpec == Spec /\ Fairness

----------------------------------------------------------------------------
\* Properties

(* A start never finds files it must refuse (LoadUsage, decodeHistory),
   whatever write failed and wherever the process crashed: the live file
   never names more history than the history file holds. *)
FilesAlwaysLoad ==
  /\ FilesAgree
  /\ \A k \in Keys, d \in Day : d > history.through => history.days[k][d] = 0

(* Why the files always load, step by step through a flush, whatever the clock
   does (ledger.go:727): memory and the live file never run ahead of the
   history file's watermark, and a live file
   written against more history than memory knows of comes from the flush
   under way, whose history write succeeded. *)
FilesInStep ==
  /\ FilesAlwaysLoad
  /\ up =>
       /\ historyThrough <= history.through
       /\ IF plan.written
          THEN /\ plan.due /\ history.through = plan.historyThrough
               /\ live.through <= plan.historyThrough
          ELSE live.through <= historyThrough
       /\ plan.pc = "idle" => plan = NoPlan
       /\ plan.pc = "history" => plan.due /\ ~plan.written
       /\ plan.pc \in {"history", "live"} => plan.through = historyThrough
       /\ plan.due => historyThrough <= plan.historyThrough

(* A clean ledger is on disk: what a start would merge from the two files is
   what memory holds, periods and retained days alike (store.go:496 "a failed
   flush keeps the ledger dirty"; README.md:63). *)
SavedWhenClean ==
  up /\ ~dirty =>
    /\ live.cycles = cycles
    /\ \A k \in Keys, d \in Day : d > dropped => Merged[k][d] = days[k][d]

(* Between any two steps a crash leaves at least what the last completed
   live write saved: moving a closed day from one file to the other never
   drops it, and retention is the only thing that does. *)
NothingSavedIsLost ==
  \A k \in Keys, d \in Day : d > dropped => Merged[k][d] >= saved[k][d]

(* A key recreated under a deleted id starts its own periods, across crashes
   (ledger.go:254 syncCycles, admin.go:155 DeleteKey), unless it was recreated
   while the live file still held the deleted key's and the process crashed before the
   next write replaced them. *)
NoInheritedUsage ==
  up => \A k \in HasKey \ mayInherit : cycles[k] # None => \A w \in Windows : cycles[k][w].used <= since[k]

(* A closed day is never written again, in memory (history writes share its
   buckets outside the lock, ledger.go:58) or in the history file, until
   retention drops it; the clock may be turned back onto it. *)
ClosedDaysFrozen ==
  [][\A k \in Keys, d \in Day : d > dropped' =>
       /\ up /\ up' /\ d <= closedThrough => days'[k][d] = days[k][d]
       /\ d <= history.through /\ d <= history'.through => history'.days[k][d] = history.days[k][d]]_vars

(* What is billed reaches the disk in the end, however often the ledger
   changes meanwhile: a flush that misses changes leaves the ledger dirty. *)
EventuallySaved == (up /\ dirty) ~> (~dirty \/ ~up)

(* A closed day reaches the history file although writes fail: it is planned
   again on a clean ledger too (ledger.go:706). *)
ClosedDayReachesHistory ==
  \A k \in Keys, d \in Day :
    (up /\ days[k][d] > 0 /\ d < now) ~> (history.through >= d \/ d >= now \/ d <= dropped \/ ~up)
=============================================================================
