-------------------------- MODULE UsageLedgerProofs --------------------------
(***************************************************************************)
(* Theorems about UsageLedger, for any keys, windows, retention, bounds    *)
(* and failures: every state is well typed, a start never finds files it   *)
(* has to refuse, what was saved is never lost and closed days stay as     *)
(* they are, a clean ledger is on disk unless the sync of a reset fails,   *)
(* and a new key inherits no usage.  And, at the end, about what a record  *)
(* puts into the ledger (Charges): charges are sums, are bounded, and a    *)
(* price row stays accepted.                                               *)
(***************************************************************************)
EXTENDS UsageLedger, Charges, TLAPS

----------------------------------------------------------------------------
\* The operators keep the types

LEMMA NewCyclesType == ASSUME NEW d \in Nat PROVE NewCycles(d) \in Periods
  BY LedgerAssumption DEF NewCycles, Periods

LEMMA AdvanceType ==
  ASSUME NEW c \in Periods, now \in Day PROVE Advance(c) \in Periods
<1>1. ASSUME NEW w \in Windows PROVE NextEnd(c[w].ends, Length[w], now) \in Int
  <2>1. Length[w] \in Nat \ {0} /\ c[w].ends \in Int /\ now \in Int
    BY <1>1, LedgerAssumption DEF Periods, Day
  <2>2. (now - c[w].ends) \div Length[w] \in Int
    BY <2>1
  <2> QED BY <2>1, <2>2 DEF NextEnd
<1> QED BY <1>1, LedgerAssumption DEF Advance, Periods

LEMMA OpenDateType == ASSUME now \in Day, closedThrough \in Watermark PROVE OpenDate \in Day
  BY LedgerAssumption DEF OpenDate, Day, Watermark

LEMMA KeptType == ASSUME NEW ds \in DayTable PROVE Kept(ds) \in DayTable
  BY DEF Kept, DayTable

LEMMA AfterType == ASSUME NEW ds \in DayTable, NEW t PROVE After(ds, t) \in DayTable
  BY DEF After, DayTable

LEMMA SharedHistoryType == ASSUME TypeOK PROVE SharedHistory \in DayTable
  BY DEF TypeOK, SharedHistory, DayTable, FlushPlan

LEMMA CountedType ==
  ASSUME NEW ds \in DayTable, NEW k \in Keys, NEW d \in Day PROVE [ds EXCEPT ![k][d] = @ + 1] \in DayTable
  BY DEF DayTable

LEMMA MergeType ==
  ASSUME NEW h \in HistoryFiles, NEW l \in LiveFiles PROVE Merge(h, l) \in DayTable
  BY DEF Merge, DayTable, LiveFiles, HistoryFiles

LEMMA LiveFileType ==
  ASSUME NEW t \in Watermark, NEW ds \in DayTable, NEW cs \in CycleTable PROVE LiveFile(t, ds, cs) \in LiveFiles
  BY AfterType DEF LiveFile, LiveFiles

LEMMA EmptyTypes ==
  /\ NoDays \in DayTable /\ NoCycles \in CycleTable /\ Idle \in Mutation
  /\ 0 \in Watermark /\ 0 \in 0..LastDay /\ NoPlan \in FlushPlan
<1>1. NoDays \in DayTable /\ NoCycles \in CycleTable /\ Idle \in Mutation
  BY DEF NoDays, DayTable, NoCycles, CycleTable, Idle, Mutation
<1>2. 0 \in Watermark /\ 0 \in 0..LastDay
  BY LedgerAssumption DEF Watermark
<1> QED BY <1>1, <1>2 DEF NoPlan, FlushPlan

LEMMA RolledType ==
  ASSUME TypeOK, NEW k \in Keys PROVE Rolled(k) \in Periods \cup {None}
  BY AdvanceType DEF TypeOK, Rolled, CycleTable

LEMMA HistoryTargetType == ASSUME TypeOK PROVE HistoryTarget \in Watermark
  BY LedgerAssumption DEF TypeOK, HistoryTarget, MaxDay, Yesterday, Watermark, Day

LEMMA SyncCyclesType == ASSUME TypeOK PROVE SyncCycles \in CycleTable
<1>1. ASSUME NEW k \in Keys PROVE Opened(k) \in Periods
  BY <1>1, NewCyclesType, AdvanceType DEF TypeOK, Opened, LiveFiles, CycleTable
<1> QED BY <1>1 DEF SyncCycles, CycleTable

----------------------------------------------------------------------------
\* Type correctness

LEMMA TypeInit == ASSUME Init PROVE TypeOK
<1>1. now \in Day /\ lastEvicted \in 0..LastDay /\ state \in [Keys -> 0..LastDay]
  BY LedgerAssumption DEF Init, Day
<1>2. live \in LiveFiles /\ history \in HistoryFiles
  BY EmptyTypes DEF Init, LiveFiles, HistoryFiles
<1>3. calls \in Nat /\ rollbacks \in Nat /\ deletes \in Nat /\ dropped \in Int /\ since \in [Keys -> Nat]
  BY DEF Init
<1> QED BY <1>1, <1>2, <1>3, EmptyTypes DEF Init, TypeOK

LEMMA HaltType == ASSUME TypeOK, Halt PROVE TypeOK'
  BY EmptyTypes DEF TypeOK, Halt, files, ghosts

LEMMA EvictType ==
  ASSUME TypeOK, NEW ds \in DayTable, Evict(ds)
  PROVE  days' \in DayTable /\ historyStale' \in BOOLEAN /\ lastEvicted' \in 0..LastDay /\ dropped' \in Int
<1>1. days' \in DayTable /\ historyStale' \in BOOLEAN
  BY KeptType DEF Evict, TypeOK
<1>2. lastEvicted' \in 0..LastDay /\ dropped' \in Int
  BY LedgerAssumption DEF Evict, TypeOK, MaxDay, OldestKept, Day
<1> QED BY <1>1, <1>2

LEMMA ResetCyclesType ==
  ASSUME TypeOK, NEW k \in Keys, NEW w \in Windows, cycles[k] # None
  PROVE  /\ ResetCycles(k, w) \in CycleTable
         /\ [cycles EXCEPT ![k] = Rolled(k)] \in CycleTable
<1>1. Rolled(k) \in Periods
  BY AdvanceType DEF Rolled, TypeOK, CycleTable
<1>2. [ends |-> now + Length[w], used |-> 0] \in [ends : Int, used : Nat]
  BY LedgerAssumption DEF TypeOK, Day
<1>3. [Rolled(k) EXCEPT ![w] = [ends |-> now + Length[w], used |-> 0]] \in Periods
  BY <1>1, <1>2 DEF Periods
<1> QED BY <1>1, <1>3 DEF ResetCycles, TypeOK, CycleTable

LEMMA PlanFlushType ==
  ASSUME TypeOK, NEW by \in {"tick", "delete", "shutdown"}, PlanFlush(by)
  PROVE  TypeOK'
<1>1. days' \in DayTable
  BY KeptType DEF PlanFlush, TypeOK
<1>2. cycles' \in CycleTable
  BY RolledType DEF PlanFlush, CycleTable
<1>3. lastEvicted' \in 0..LastDay /\ dropped' \in Int
  BY LedgerAssumption DEF PlanFlush, TypeOK, MaxDay, OldestKept, Day
<1>4. closedThrough' \in Watermark
  BY HistoryTargetType DEF PlanFlush, TypeOK, MaxDay, Watermark
<1>5. historyStale' \in BOOLEAN /\ dirty' \in BOOLEAN /\ revised' \in BOOLEAN
  BY DEF PlanFlush, TypeOK, EvictsHistory, HasDaysInRange, Evicts
<1>6. plan' \in FlushPlan
  <2> DEFINE due == historyStale \/ EvictsHistory(days, historyThrough)
                      \/ HasDaysInRange(Kept(days), historyThrough, Yesterday)
             made == [pc |-> IF due THEN "history" ELSE "live", by |-> by, through |-> historyThrough,
                      historyThrough |-> IF due THEN HistoryTarget ELSE 0, due |-> due, written |-> FALSE,
                      days |-> days', cycles |-> cycles']
             done == [NoPlan EXCEPT !.pc = "done", !.by = by]
  <2>1. due \in BOOLEAN
    BY DEF EvictsHistory, HasDaysInRange, TypeOK
  <2>2. (IF due THEN HistoryTarget ELSE 0) \in Watermark
    BY HistoryTargetType, EmptyTypes
  <2>3. made \in FlushPlan
    <3> HIDE DEF due
    <3> QED BY <1>1, <1>2, <2>1, <2>2 DEF FlushPlan, TypeOK
  <2>4. done \in FlushPlan
    BY EmptyTypes DEF FlushPlan
  <2>5. plan' \in {made, done, plan}
    BY DEF PlanFlush
  <2> HIDE DEF made, done
  <2> QED BY <2>3, <2>4, <2>5 DEF TypeOK
<1>7. admin' \in Mutation
  BY EmptyTypes DEF PlanFlush, TypeOK
<1> QED BY <1>1, <1>2, <1>3, <1>4, <1>5, <1>6, <1>7 DEF PlanFlush, TypeOK, files

LEMMA RestartType == ASSUME TypeOK, Restart PROVE TypeOK'
<1>1. Merged \in DayTable
  BY MergeType DEF TypeOK, Merged
<1>2. days' \in DayTable
  BY <1>1 DEF Restart, DayTable
<1>3. cycles' \in CycleTable
  BY SyncCyclesType DEF Restart
<1>4. /\ dirty' \in BOOLEAN /\ revised' \in BOOLEAN /\ historyStale' \in BOOLEAN
      /\ lastEvicted' \in 0..LastDay /\ dropped' \in Int
  BY LedgerAssumption DEF Restart, TypeOK, MaxDay, OldestKept, Day
<1>5. historyThrough' \in Watermark /\ closedThrough' \in Watermark
  BY DEF Restart, TypeOK, HistoryFiles
<1>6. published' \subseteq Keys /\ mayInherit' \subseteq Keys
  BY DEF Restart, TypeOK, HasKey
<1> QED BY <1>2, <1>3, <1>4, <1>5, <1>6, EmptyTypes DEF Restart, TypeOK, files

LEMMA RecordType == ASSUME TypeOK, NEW k \in Keys, Record(k) PROVE TypeOK'
<1> DEFINE c == [w \in Windows |-> [Rolled(k)[w] EXCEPT !.used = @ + 1]]
<1>1. ASSUME cycles[k] # None PROVE c \in Periods
  <2>1. Rolled(k) \in Periods
    BY <1>1, AdvanceType DEF Rolled, TypeOK, CycleTable
  <2> QED BY <2>1 DEF Periods
<1>2. cycles' \in CycleTable
  <2>1. cycles' = IF cycles[k] = None THEN cycles ELSE [cycles EXCEPT ![k] = c]
    BY DEF Record
  <2> HIDE DEF c
  <2> QED BY <1>1, <2>1 DEF TypeOK, CycleTable
<1>3. [days EXCEPT ![k][OpenDate] = @ + 1] \in DayTable
  BY OpenDateType, CountedType DEF TypeOK
<1>4. Evict([days EXCEPT ![k][OpenDate] = @ + 1])
  BY DEF Record
<1>5. days' \in DayTable /\ historyStale' \in BOOLEAN /\ lastEvicted' \in 0..LastDay /\ dropped' \in Int
  BY <1>3, <1>4, EvictType
<1>6. calls' \in Nat /\ since' \in [Keys -> Nat] /\ inflight' \subseteq Keys
  BY DEF Record, TypeOK
<1> QED BY <1>2, <1>5, <1>6 DEF Record, MarkDirty, TypeOK, files

LEMMA ReadType == ASSUME TypeOK, NEW k \in Keys, ReadUsage(k) PROVE TypeOK'
<1>1. cycles' \in CycleTable
  BY RolledType DEF ReadUsage, TypeOK, CycleTable
<1>2. days' \in DayTable /\ historyStale' \in BOOLEAN /\ lastEvicted' \in 0..LastDay /\ dropped' \in Int
  BY EvictType DEF ReadUsage, TypeOK
<1>3. dirty' \in BOOLEAN /\ revised' \in BOOLEAN
  BY DEF ReadUsage, MarkDirtyIf, TypeOK, Evicts
<1> QED BY <1>1, <1>2, <1>3 DEF ReadUsage, TypeOK, store, files

LEMMA PublishType == ASSUME TypeOK, PublishKey PROVE TypeOK'
<1> DEFINE k == admin.key
           c == Advance(IF cycles[k] = None THEN NewCycles(state[k]) ELSE cycles[k])
<1>1. cycles' = [cycles EXCEPT ![k] = c] /\ published' = published \cup {k} /\ MarkDirtyIf(c # cycles[k])
  BY DEF PublishKey
<1>2. ASSUME k \in Keys PROVE c \in Periods
  BY <1>2, NewCyclesType, AdvanceType DEF TypeOK, CycleTable
<1>3. k \in Keys
  BY DEF PublishKey, TypeOK, Mutation, Idle
<1>4. cycles' \in CycleTable
  <2> HIDE DEF c, k
  <2> QED BY <1>1, <1>2, <1>3 DEF TypeOK, CycleTable
<1>5. dirty' \in BOOLEAN /\ revised' \in BOOLEAN
  BY <1>1 DEF MarkDirtyIf, TypeOK
<1> QED BY <1>1, <1>3, <1>4, <1>5, EmptyTypes DEF PublishKey, TypeOK, files, ghosts

LEMMA ForgetType == ASSUME TypeOK, ForgetKey PROVE TypeOK'
<1>1. cycles' \in CycleTable
  BY DEF ForgetKey, TypeOK, CycleTable
<1>2. admin' \in Mutation
  BY DEF ForgetKey, TypeOK, Mutation, Idle
<1>3. dirty' \in BOOLEAN /\ revised' \in BOOLEAN
  BY DEF ForgetKey, MarkDirtyIf, TypeOK
<1> QED BY <1>1, <1>2, <1>3 DEF ForgetKey, TypeOK, files, ghosts

LEMMA WriteType ==
  ASSUME TypeOK, WriteHistory \/ WriteHistoryFails \/ WriteLive \/ WriteLiveFails PROVE TypeOK'
<1>1. plan' \in FlushPlan
  BY DEF WriteHistory, WriteHistoryFails, WriteLive, WriteLiveFails, TypeOK, FlushPlan
<1>2. [through |-> plan.historyThrough, days |-> SharedHistory] \in HistoryFiles
  BY SharedHistoryType DEF TypeOK, FlushPlan, HistoryFiles
<1>3. LiveFile(Reached(plan), plan.days, plan.cycles) \in LiveFiles
  <2>1. Reached(plan) \in Watermark /\ plan.days \in DayTable /\ plan.cycles \in CycleTable
    BY DEF Reached, TypeOK, FlushPlan
  <2> QED BY <2>1, LiveFileType
<1>4. live' \in LiveFiles /\ history' \in HistoryFiles
  BY <1>2, <1>3 DEF WriteHistory, WriteHistoryFails, WriteLive, WriteLiveFails, TypeOK
<1>5. saved' \in DayTable /\ recreated' \subseteq Keys
  BY DEF WriteHistory, WriteHistoryFails, WriteLive, WriteLiveFails, TypeOK, FlushPlan, ghosts
<1> QED
  BY <1>1, <1>4, <1>5 DEF WriteHistory, WriteHistoryFails, WriteLive, WriteLiveFails, TypeOK, ledger, store, ghosts

LEMMA ResetType ==
  ASSUME TypeOK, NEW k \in Keys, NEW w \in Windows, ResetWindow(k, w) \/ ResetWindowFails(k, w) PROVE TypeOK'
<1>1. cycles[k] # None
  BY DEF ResetWindow, ResetWindowFails
<1>2. ResetCycles(k, w) \in CycleTable /\ cycles' \in CycleTable
  BY <1>1, ResetCyclesType DEF ResetWindow, ResetWindowFails
<1>3. live' \in LiveFiles
  <2>1. \/ live' = live
        \/ live' = LiveFile(historyThrough, days, ResetCycles(k, w))
    BY DEF ResetWindow, ResetWindowFails
  <2> QED BY <1>2, <2>1, LiveFileType DEF TypeOK
<1>4. dirty' \in BOOLEAN /\ revised' \in BOOLEAN /\ recreated' \subseteq Keys
  BY DEF ResetWindow, ResetWindowFails, MarkDirtyIf, TypeOK, ghosts
<1>5. saved' \in DayTable
  BY <1>3, MergeType DEF ResetWindow, ResetWindowFails, TypeOK, ghosts
<1> QED BY <1>2, <1>3, <1>4, <1>5 DEF ResetWindow, ResetWindowFails, TypeOK, store, ghosts

LEMMA MarkFlushedType == ASSUME TypeOK, MarkFlushed PROVE TypeOK'
<1>1. historyThrough' \in Watermark
  BY DEF MarkFlushed, TypeOK, FlushPlan
<1>2. historyStale' \in BOOLEAN /\ dirty' \in BOOLEAN
  BY DEF MarkFlushed, StillDirty, TypeOK, FlushPlan
<1>3. plan' \in FlushPlan /\ admin' \in Mutation
  BY EmptyTypes DEF MarkFlushed, TypeOK
<1> QED BY <1>1, <1>2, <1>3 DEF MarkFlushed, TypeOK, files, ghosts

LEMMA AdminType ==
  ASSUME TypeOK, NEW k \in Keys, CreateKey(k) \/ DeleteKey(k) \/ UnpublishKey PROVE TypeOK'
<1>1. admin' \in Mutation
  BY DEF CreateKey, DeleteKey, UnpublishKey, TypeOK, Mutation, Idle
<1>2. state' \in [Keys -> 0..LastDay]
  BY LedgerAssumption DEF CreateKey, DeleteKey, UnpublishKey, TypeOK, Day, files
<1> QED BY <1>1, <1>2 DEF CreateKey, DeleteKey, UnpublishKey, TypeOK, ledger, files, ghosts

LEMMA TypeStep == ASSUME TypeOK, [Next]_vars PROVE TypeOK'
<1>1. ASSUME NEW k \in Keys, FindKey(k) PROVE TypeOK'
  BY <1>1 DEF FindKey, TypeOK, ledger, files, ghosts
<1>2. ASSUME NEW k \in Keys, Record(k) \/ ReadUsage(k) PROVE TypeOK'
  BY <1>2, RecordType, ReadType
<1>3. ASSUME NEW k \in Keys, CreateKey(k) \/ DeleteKey(k) PROVE TypeOK'
  BY <1>3, AdminType
<1>4. CASE UnpublishKey
  <2>1. admin.key \in Keys
    BY <1>4 DEF UnpublishKey, TypeOK, Mutation, Idle
  <2> QED BY <1>4, <2>1, AdminType
<1>5. CASE PublishKey
  BY <1>5, PublishType
<1>6. CASE ForgetKey
  BY <1>6, ForgetType
<1>7. ASSUME NEW k \in Keys, NEW w \in Windows, ResetWindow(k, w) \/ ResetWindowFails(k, w) PROVE TypeOK'
  BY <1>7, ResetType
<1>8. ASSUME NEW by \in {"tick", "delete", "shutdown"}, PlanFlush(by) PROVE TypeOK'
  BY <1>8, PlanFlushType
<1>9. CASE WriteHistory \/ WriteHistoryFails \/ WriteLive \/ WriteLiveFails
  BY <1>9, WriteType
<1>10. CASE MarkFlushed
  BY <1>10, MarkFlushedType
<1>11. CASE Crash \/ Shutdown
  BY <1>11, HaltType DEF Crash, Shutdown
<1>12. CASE Restart
  BY <1>12, RestartType
<1>13. CASE NextDay \/ TurnClockBack
  BY <1>13, LedgerAssumption DEF NextDay, TurnClockBack, TypeOK, Day, ledger, store, files, ghosts
<1>14. CASE UNCHANGED vars
  BY <1>14 DEF vars, TypeOK, ledger, store, files, ghosts
<1> QED
  BY <1>1, <1>2, <1>3, <1>4, <1>5, <1>6, <1>7, <1>8, <1>9, <1>10, <1>11, <1>12, <1>13, <1>14 DEF Next, FlushStep

(* Every reachable state is well typed. *)
THEOREM TypeCorrect == Spec => []TypeOK
<1>1. TypeOK /\ [Next]_vars => TypeOK'
  BY TypeStep
<1> QED BY TypeInit, <1>1, PTL DEF Spec
----------------------------------------------------------------------------
\* The files always load

\* What an action that leaves the files, the plan and the memory watermark
\* alone preserves.
LEMMA FilesStutter ==
  ASSUME FilesInStep, UNCHANGED <<live, history, historyThrough, plan>>, up' => up PROVE FilesInStep'
  BY DEF FilesInStep, FilesAlwaysLoad, FilesAgree

LEMMA FilesInit == ASSUME Init PROVE FilesInStep
<1>1. history.days = NoDays /\ history.through = 0 /\ live.through = 0 /\ historyThrough = 0 /\ plan = NoPlan
  BY DEF Init
<1>2. ~NoPlan.written /\ ~NoPlan.due /\ NoPlan.pc = "idle"
  BY DEF NoPlan
<1>3. \A k \in Keys, d \in Day : NoDays[k][d] = 0
  BY DEF NoDays
<1>4. FilesAlwaysLoad
  BY <1>1, <1>3 DEF FilesAlwaysLoad, FilesAgree
<1> QED BY <1>1, <1>2, <1>4 DEF FilesInStep

\* Nothing of the memory survives, and the files are untouched.
LEMMA FilesHalt == ASSUME FilesInStep, Halt PROVE FilesInStep'
  BY DEF FilesInStep, FilesAlwaysLoad, FilesAgree, Halt, files

LEMMA FilesReset ==
  ASSUME TypeOK, FilesInStep, NEW k \in Keys, NEW w \in Windows, ResetWindow(k, w) \/ ResetWindowFails(k, w)
  PROVE  FilesInStep'
<1>1. up /\ up' /\ UNCHANGED <<history, historyThrough, plan>> /\ plan.pc = "idle"
  BY DEF ResetWindow, ResetWindowFails, store, ghosts
<1>2. live'.through = live.through \/ live'.through = historyThrough
  BY DEF ResetWindow, ResetWindowFails, LiveFile, ghosts
<1>3. ~plan.written /\ historyThrough <= history.through /\ live.through <= historyThrough
  <2>1. plan = NoPlan
    BY <1>1 DEF FilesInStep
  <2>2. ~plan.written
    BY <2>1 DEF NoPlan
  <2> QED BY <1>1, <2>2 DEF FilesInStep
<1>4. live'.through <= historyThrough
  BY <1>2, <1>3 DEF TypeOK, Watermark
<1>5. FilesAgree'
  <2>1. live'.through \in Int /\ historyThrough \in Int /\ history.through \in Int
    BY <1>2 DEF TypeOK, Watermark, LiveFiles, HistoryFiles
  <2> QED BY <1>1, <1>3, <1>4, <2>1 DEF FilesAgree
<1> QED BY <1>1, <1>3, <1>4, <1>5 DEF FilesInStep, FilesAlwaysLoad

LEMMA FilesPlan ==
  ASSUME TypeOK, FilesInStep, NEW by \in {"tick", "delete", "shutdown"}, PlanFlush(by) PROVE FilesInStep'
<1> DEFINE due == \/ historyStale \/ EvictsHistory(days, historyThrough)
                  \/ HasDaysInRange(Kept(days), historyThrough, Yesterday)
           made == [pc |-> IF due THEN "history" ELSE "live", by |-> by, through |-> historyThrough,
                    historyThrough |-> IF due THEN HistoryTarget ELSE 0, due |-> due, written |-> FALSE,
                    days |-> days', cycles |-> cycles']
           done == [NoPlan EXCEPT !.pc = "done", !.by = by]
<1>1. up /\ plan.pc = "idle" /\ UNCHANGED <<up, live, history, historyThrough>>
  BY DEF PlanFlush, files
<1>2. plan = NoPlan
  BY <1>1 DEF FilesInStep
<1>3. ~NoPlan.written /\ ~NoPlan.due /\ NoPlan.pc = "idle"
  BY DEF NoPlan
<1>4. historyThrough <= history.through /\ live.through <= historyThrough
  BY <1>1, <1>2, <1>3 DEF FilesInStep
<1>5. historyThrough <= HistoryTarget
  BY DEF HistoryTarget, MaxDay, Yesterday, TypeOK, Day, Watermark
<1>6. plan' \in {made, done, NoPlan}
  BY <1>2 DEF PlanFlush
<1>7. CASE plan' = made
  <2>1. /\ ~plan'.written /\ plan'.pc \in {"history", "live"} /\ plan'.through = historyThrough
        /\ plan'.pc = "history" => plan'.due
        /\ plan'.due => plan'.historyThrough = HistoryTarget
    BY <1>7
  <2> HIDE DEF made, done, due
  <2> QED BY <1>1, <1>4, <1>5, <2>1 DEF FilesInStep, FilesAlwaysLoad, FilesAgree
<1>8. CASE plan' = done
  <2>1. ~plan'.written /\ ~plan'.due /\ plan'.pc = "done"
    BY <1>8 DEF NoPlan
  <2> HIDE DEF made, done, due
  <2> QED BY <1>1, <1>4, <2>1 DEF FilesInStep, FilesAlwaysLoad, FilesAgree
<1>9. CASE plan' = NoPlan
  BY <1>1, <1>3, <1>4, <1>9 DEF FilesInStep, FilesAlwaysLoad, FilesAgree
<1> HIDE DEF made, done
<1> QED BY <1>6, <1>7, <1>8, <1>9

\* The history file is written to the planned watermark, which is at least
\* the one memory and the live file are at; it holds no later day.
LEMMA FilesWriteHistory ==
  ASSUME TypeOK, FilesInStep, WriteHistory \/ WriteHistoryFails PROVE FilesInStep'
<1>1. up /\ plan.pc = "history" /\ UNCHANGED <<up, live, historyThrough>>
  BY DEF WriteHistory, WriteHistoryFails, ledger
<1>2. /\ plan.due /\ ~plan.written /\ historyThrough <= history.through /\ live.through <= historyThrough
      /\ plan.through = historyThrough /\ historyThrough <= plan.historyThrough
  BY <1>1 DEF FilesInStep
<1>3. \/ history' = history /\ plan'.written = FALSE
      \/ history' = [through |-> plan.historyThrough, days |-> SharedHistory]
  BY <1>2 DEF WriteHistory, WriteHistoryFails, TypeOK, FlushPlan
<1>4. plan' = [plan EXCEPT !.pc = "live", !.written = plan'.written] /\ plan'.written \in BOOLEAN
  BY <1>2 DEF WriteHistory, WriteHistoryFails, TypeOK, FlushPlan
<1>5. \A k \in Keys, d \in Day : d > plan.historyThrough => SharedHistory[k][d] = 0
  BY DEF SharedHistory
<1>6. historyThrough \in Int /\ live.through \in Int /\ history.through \in Int /\ plan.historyThrough \in Int
  BY DEF TypeOK, Watermark, LiveFiles, HistoryFiles, FlushPlan
<1>7. FilesAlwaysLoad'
  BY <1>1, <1>2, <1>3, <1>5, <1>6 DEF FilesAlwaysLoad, FilesAgree, FilesInStep
<1>8. /\ plan'.pc = "live" /\ plan'.due /\ plan'.through = historyThrough
      /\ plan'.historyThrough = plan.historyThrough
  BY <1>2, <1>4 DEF TypeOK, FlushPlan
<1>9. historyThrough <= history'.through /\ live.through <= plan.historyThrough
  BY <1>2, <1>3, <1>6
<1>10. plan'.written => history'.through = plan.historyThrough
  BY <1>3
<1> QED BY <1>1, <1>2, <1>7, <1>8, <1>9, <1>10 DEF FilesInStep

\* The live file names the watermark the history file really reached.
LEMMA FilesWriteLive ==
  ASSUME TypeOK, FilesInStep, WriteLive \/ WriteLiveFails PROVE FilesInStep'
<1>1. up /\ plan.pc = "live" /\ UNCHANGED <<up, history, historyThrough>>
  BY DEF WriteLive, WriteLiveFails, ledger
<1>2. /\ plan'.pc \in {"done", "failed"} /\ plan'.written = plan.written /\ plan'.due = plan.due
      /\ plan'.historyThrough = plan.historyThrough
  BY DEF WriteLive, WriteLiveFails, TypeOK, FlushPlan
<1>3. live' = live \/ live'.through = Reached(plan)
  BY DEF WriteLive, WriteLiveFails, LiveFile
<1>4. Reached(plan) = IF plan.written THEN plan.historyThrough ELSE historyThrough
  BY <1>1 DEF Reached, FilesInStep
<1>5. /\ historyThrough <= history.through
      /\ plan.written => plan.due /\ history.through = plan.historyThrough /\ live.through <= plan.historyThrough
      /\ ~plan.written => live.through <= historyThrough
      /\ plan.due => historyThrough <= plan.historyThrough
  BY <1>1 DEF FilesInStep
<1>6. historyThrough \in Int /\ live.through \in Int /\ history.through \in Int /\ plan.historyThrough \in Int
  BY DEF TypeOK, Watermark, LiveFiles, HistoryFiles, FlushPlan
<1>7. live'.through <= IF plan.written THEN plan.historyThrough ELSE historyThrough
  BY <1>3, <1>4, <1>5, <1>6
<1>8. FilesAgree'
  BY <1>1, <1>3, <1>4, <1>5, <1>6 DEF FilesAgree, FilesInStep, FilesAlwaysLoad
<1> QED BY <1>1, <1>2, <1>5, <1>7, <1>8 DEF FilesInStep, FilesAlwaysLoad

\* Memory takes over the watermark of a history write that succeeded.
LEMMA FilesMarkFlushed == ASSUME TypeOK, FilesInStep, MarkFlushed PROVE FilesInStep'
<1>1. /\ up /\ UNCHANGED <<up, live, history>> /\ plan' = NoPlan
      /\ historyThrough' = IF plan.written THEN plan.historyThrough ELSE historyThrough
  BY DEF MarkFlushed, files
<1>2. ~plan'.written /\ ~plan'.due /\ plan'.pc = "idle"
  BY <1>1 DEF NoPlan
<1>3. historyThrough' <= history.through /\ live.through <= historyThrough'
  BY <1>1 DEF FilesInStep, TypeOK, Watermark, FlushPlan, HistoryFiles
<1> QED BY <1>1, <1>2, <1>3 DEF FilesInStep, FilesAlwaysLoad, FilesAgree

LEMMA FilesRestart == ASSUME TypeOK, FilesInStep, Restart PROVE FilesInStep'
<1>1. UNCHANGED <<live, history>> /\ historyThrough' = history.through /\ plan' = NoPlan
  BY DEF Restart, files
<1>2. ~plan'.written /\ ~plan'.due /\ plan'.pc = "idle"
  BY <1>1 DEF NoPlan
<1>3. live.through <= history.through /\ history.through \in Int
  BY DEF FilesInStep, FilesAlwaysLoad, FilesAgree, TypeOK, HistoryFiles, Watermark
<1> QED BY <1>1, <1>2, <1>3 DEF FilesInStep, FilesAlwaysLoad, FilesAgree

LEMMA FilesStep == ASSUME TypeOK, FilesInStep, [Next]_vars PROVE FilesInStep'
<1>1. ASSUME NEW k \in Keys, FindKey(k) \/ Record(k) \/ ReadUsage(k) \/ CreateKey(k) \/ DeleteKey(k)
      PROVE FilesInStep'
  BY <1>1, FilesStutter DEF FindKey, Record, ReadUsage, CreateKey, DeleteKey, ledger, store, files
<1>2. CASE PublishKey \/ UnpublishKey \/ ForgetKey
  BY <1>2, FilesStutter DEF PublishKey, UnpublishKey, ForgetKey, ledger, store, files
<1>3. ASSUME NEW k \in Keys, NEW w \in Windows, ResetWindow(k, w) \/ ResetWindowFails(k, w) PROVE FilesInStep'
  BY <1>3, FilesReset
<1>4. ASSUME NEW by \in {"tick", "delete", "shutdown"}, PlanFlush(by) PROVE FilesInStep'
  BY <1>4, FilesPlan
<1>5. CASE WriteHistory \/ WriteHistoryFails
  BY <1>5, FilesWriteHistory
<1>6. CASE WriteLive \/ WriteLiveFails
  BY <1>6, FilesWriteLive
<1>7. CASE MarkFlushed
  BY <1>7, FilesMarkFlushed
<1>8. CASE Crash \/ Shutdown
  BY <1>8, FilesHalt DEF Crash, Shutdown
<1>9. CASE Restart
  BY <1>9, FilesRestart
<1>10. CASE NextDay \/ TurnClockBack
  BY <1>10, FilesStutter DEF NextDay, TurnClockBack, ledger, files
<1>11. CASE UNCHANGED vars
  BY <1>11, FilesStutter DEF vars, ledger, files
<1> QED BY <1>1, <1>2, <1>3, <1>4, <1>5, <1>6, <1>7, <1>8, <1>9, <1>10, <1>11 DEF Next, FlushStep

(* The inductive invariant: memory, the flush under way and the two files
   stay in step. *)
THEOREM FilesStayInStep == Spec => []FilesInStep
<1>1. TypeOK /\ FilesInStep /\ [Next]_vars => FilesInStep'
  BY FilesStep
<1> QED BY FilesInit, <1>1, TypeCorrect, PTL DEF Spec

(* A start never finds files it must refuse: whatever writes fail, before or
   after their rename, and wherever the process crashes, the live file never
   names more history than the history file holds, and the history file holds
   no day after its own watermark. *)
THEOREM FilesLoad == Spec => []FilesAlwaysLoad
<1>1. FilesInStep => FilesAlwaysLoad
  BY DEF FilesInStep
<1> QED BY FilesStayInStep, <1>1, PTL
----------------------------------------------------------------------------
\* What is saved stays saved

\* The last day of the history file, as the flush under way knows it.
Effective == IF plan.written THEN plan.historyThrough ELSE historyThrough

\* A flush is under way whose plan matters still: a shutdown ends after it.
Planned == plan.pc \in {"history", "live"} \/ (plan.pc \in {"done", "failed"} /\ plan.by # "shutdown")

\* The history file is a copy of closed days, which memory does not change.
HistoryHolds ==
  up =>
    /\ history.through <= closedThrough
    /\ plan.due => plan.historyThrough <= closedThrough
    /\ \A k \in Keys, d \in Day : d > dropped /\ d <= history.through => days[k][d] = history.days[k][d]

\* Memory has only grown since the flush was planned, and not at all unless it
\* was revised; the plan is not behind what was saved.
PlanHolds ==
  up /\ Planned =>
    /\ revised => dirty
    /\ ~revised => cycles = plan.cycles
    /\ \A k \in Keys, d \in Day : d > dropped =>
         /\ days[k][d] >= plan.days[k][d]
         /\ d <= closedThrough \/ ~revised => days[k][d] = plan.days[k][d]
         /\ plan.pc \in {"history", "live"} => plan.days[k][d] >= saved[k][d]

\* Each file holds what was saved of the days it is read for, and of those the
\* other one would be read for if it were written anew.
SavedHolds ==
  \A k \in Keys, d \in Day : d > dropped =>
    /\ d > live.through => live.days[k][d] >= saved[k][d]
    /\ d <= history.through => history.days[k][d] >= saved[k][d]
    /\ up => days[k][d] >= saved[k][d]

SavedInv == HistoryHolds /\ PlanHolds /\ SavedHolds

LEMMA KeptDays ==
  ASSUME TypeOK, NEW ds \in DayTable,
         dropped' = IF EvictionDue THEN MaxDay(dropped, OldestKept - 1) ELSE dropped
  PROVE  /\ dropped' \in Int /\ dropped' >= dropped
         /\ \A k \in Keys, d \in Day : d > dropped' => Kept(ds)[k][d] = ds[k][d]
<1>1. now \in Int /\ Retention \in Int /\ dropped \in Int /\ OldestKept \in Int
  BY LedgerAssumption DEF TypeOK, OldestKept, Day
<1>2. dropped' \in Int /\ dropped' >= dropped /\ (EvictionDue => dropped' >= OldestKept - 1)
  BY <1>1 DEF MaxDay
<1>3. ASSUME NEW k \in Keys, NEW d \in Day, d > dropped' PROVE Kept(ds)[k][d] = ds[k][d]
  <2>1. EvictionDue => ~(d < OldestKept)
    BY <1>1, <1>2, <1>3 DEF Day
  <2> QED BY <2>1 DEF Kept, DayTable
<1> QED BY <1>2, <1>3

\* What billing, reads, key management and the clock do: they leave the flush
\* and the files alone, memory grows on open days only, and who changes it
\* marks it.
MemoryStep ==
  /\ UNCHANGED <<up, plan, live, history, saved, historyThrough, closedThrough>>
  /\ dropped' \in Int /\ dropped' >= dropped
  /\ \A k \in Keys, d \in Day : d > dropped' =>
       /\ days'[k][d] >= days[k][d]
       /\ d <= closedThrough => days'[k][d] = days[k][d]
  /\ \/ dirty' /\ revised'
     \/ /\ UNCHANGED <<dirty, revised, cycles>>
        /\ \A k \in Keys, d \in Day : d > dropped' => days'[k][d] = days[k][d]

LEMMA RecordStep == ASSUME TypeOK, NEW k \in Keys, Record(k) PROVE MemoryStep
<1> DEFINE ds == [days EXCEPT ![k][OpenDate] = @ + 1]
<1>1. OpenDate \in Day /\ OpenDate > closedThrough
  BY OpenDateType, LedgerAssumption DEF TypeOK, OpenDate, Day, Watermark
<1>2. ds \in DayTable
  BY <1>1, CountedType DEF TypeOK
<1>3. days' = Kept(ds) /\ dropped' = IF EvictionDue THEN MaxDay(dropped, OldestKept - 1) ELSE dropped
  BY DEF Record, Evict
<1>4. ASSUME NEW j \in Keys, NEW d \in Day
      PROVE  ds[j][d] >= days[j][d] /\ (d <= closedThrough => ds[j][d] = days[j][d])
  <2>1. days[j][d] \in Nat /\ ds[j][d] = IF j = k /\ d = OpenDate THEN days[j][d] + 1 ELSE days[j][d]
    BY <1>1, <1>4 DEF TypeOK, DayTable
  <2> HIDE DEF ds
  <2> QED BY <1>1, <2>1 DEF Day, TypeOK, Watermark
<1>5. /\ dropped' \in Int /\ dropped' >= dropped
      /\ \A j \in Keys, d \in Day : d > dropped' => days'[j][d] = ds[j][d]
  <2> HIDE DEF ds
  <2> QED BY <1>2, <1>3, KeptDays
<1> HIDE DEF ds
<1> QED BY <1>4, <1>5 DEF Record, MarkDirty, files, MemoryStep

LEMMA ReadStep == ASSUME TypeOK, NEW k \in Keys, ReadUsage(k) PROVE MemoryStep
<1>1. days' = Kept(days) /\ dropped' = IF EvictionDue THEN MaxDay(dropped, OldestKept - 1) ELSE dropped
  BY DEF ReadUsage, Evict
<1>2. /\ dropped' \in Int /\ dropped' >= dropped
      /\ \A j \in Keys, d \in Day : d > dropped' => days'[j][d] = days[j][d]
  BY <1>1, KeptDays DEF TypeOK
<1>3. \/ dirty' /\ revised'
      \/ UNCHANGED <<dirty, revised, cycles>>
  <2>1. CASE Evicts(days) \/ Rolled(k) # cycles[k]
    BY <2>1 DEF ReadUsage, MarkDirtyIf
  <2>2. CASE ~(Evicts(days) \/ Rolled(k) # cycles[k])
    BY <2>2 DEF ReadUsage, MarkDirtyIf, TypeOK, CycleTable
  <2> QED BY <2>1, <2>2
<1>4. \A j \in Keys, d \in Day : days[j][d] \in Int
  BY DEF TypeOK, DayTable
<1> QED BY <1>2, <1>3, <1>4 DEF ReadUsage, store, files, MemoryStep

LEMMA QuietStep ==
  ASSUME TypeOK, UNCHANGED <<up, plan, live, history, saved, historyThrough, closedThrough, days, dropped>>,
         (dirty' /\ revised') \/ UNCHANGED <<dirty, revised, cycles>>
  PROVE  MemoryStep
<1>1. \A j \in Keys, d \in Day : days[j][d] \in Int
  BY DEF TypeOK, DayTable
<1> QED BY <1>1 DEF TypeOK, MemoryStep

LEMMA AdminStep ==
  ASSUME TypeOK, NEW k \in Keys,
         FindKey(k) \/ CreateKey(k) \/ DeleteKey(k) \/ PublishKey \/ UnpublishKey \/ ForgetKey
  PROVE  MemoryStep
<1>1. CASE FindKey(k) \/ CreateKey(k) \/ DeleteKey(k) \/ UnpublishKey
  BY <1>1, QuietStep DEF FindKey, CreateKey, DeleteKey, UnpublishKey, ledger, store, files, ghosts
<1>2. CASE PublishKey
  <2> DEFINE id == admin.key
             c == Advance(IF cycles[id] = None THEN NewCycles(state[id]) ELSE cycles[id])
  <2>1. cycles' = [cycles EXCEPT ![id] = c] /\ MarkDirtyIf(c # cycles[id])
    BY <1>2 DEF PublishKey
  <2>2. (dirty' /\ revised') \/ UNCHANGED <<dirty, revised, cycles>>
    <3> HIDE DEF c, id
    <3> QED BY <2>1 DEF MarkDirtyIf, TypeOK, CycleTable
  <2> QED BY <1>2, <2>2, QuietStep DEF PublishKey, files, ghosts
<1>3. CASE ForgetKey
  <2>1. (dirty' /\ revised') \/ UNCHANGED <<dirty, revised, cycles>>
    BY <1>3 DEF ForgetKey, MarkDirtyIf, TypeOK, CycleTable
  <2> QED BY <1>3, <2>1, QuietStep DEF ForgetKey, files, ghosts
<1> QED BY <1>1, <1>2, <1>3

LEMMA ClockStep == ASSUME TypeOK, NextDay \/ TurnClockBack \/ UNCHANGED vars PROVE MemoryStep
  BY QuietStep DEF NextDay, TurnClockBack, vars, ledger, files, ghosts

\* The number of calls of a key on a day.
LEMMA Buckets ==
  ASSUME TypeOK, NEW k \in Keys, NEW d \in Day
  PROVE  /\ d \in Int /\ dropped \in Int /\ closedThrough \in Int /\ historyThrough \in Int
         /\ history.through \in Int /\ live.through \in Int /\ plan.historyThrough \in Int /\ plan.through \in Int
         /\ days[k][d] \in Nat /\ saved[k][d] \in Nat /\ plan.days[k][d] \in Nat
         /\ history.days[k][d] \in Nat /\ live.days[k][d] \in Nat
<1>1. /\ d \in Int /\ dropped \in Int /\ closedThrough \in Int /\ historyThrough \in Int
      /\ history.through \in Int /\ live.through \in Int /\ plan.historyThrough \in Int /\ plan.through \in Int
  BY DEF TypeOK, Day, Watermark, FlushPlan, LiveFiles, HistoryFiles
<1>2. days \in DayTable /\ saved \in DayTable /\ plan.days \in DayTable /\ history.days \in DayTable /\ live.days \in DayTable
  BY DEF TypeOK, FlushPlan, LiveFiles, HistoryFiles
<1>3. \A table \in DayTable : table[k][d] \in Nat
  BY DEF DayTable
<1> QED BY <1>1, <1>2, <1>3

LEMMA SavedInit == ASSUME Init PROVE SavedInv
<1>1. \A k \in Keys, d \in Day : days[k][d] = 0 /\ saved[k][d] = 0 /\ live.days[k][d] = 0 /\ history.days[k][d] = 0
  BY DEF Init, NoDays
<1>2. plan.pc = "idle" /\ ~plan.due /\ history.through = 0 /\ closedThrough = 0
  BY DEF Init, NoPlan
<1>3. HistoryHolds /\ PlanHolds
  BY <1>1, <1>2 DEF HistoryHolds, PlanHolds, Planned
<1>4. SavedHolds
  BY <1>1 DEF SavedHolds
<1> QED BY <1>3, <1>4 DEF SavedInv

LEMMA SavedMemory == ASSUME TypeOK, TypeOK', SavedInv, MemoryStep PROVE SavedInv'
<1>1. \A k \in Keys, d \in Day : d > dropped' => d > dropped
  BY Buckets DEF MemoryStep
<1>2. HistoryHolds'
  <2>1. ASSUME up, NEW k \in Keys, NEW d \in Day, d > dropped', d <= history.through
        PROVE  days'[k][d] = history.days[k][d]
    BY <1>1, <2>1, Buckets DEF SavedInv, HistoryHolds, MemoryStep
  <2> QED BY <2>1 DEF SavedInv, HistoryHolds, MemoryStep
<1>3. PlanHolds'
  <2> SUFFICES ASSUME up, Planned
               PROVE  /\ revised' => dirty'
                      /\ ~revised' => cycles' = plan.cycles
                      /\ \A k \in Keys, d \in Day : d > dropped' =>
                           /\ days'[k][d] >= plan.days[k][d]
                           /\ d <= closedThrough \/ ~revised' => days'[k][d] = plan.days[k][d]
                           /\ plan.pc \in {"history", "live"} => plan.days[k][d] >= saved[k][d]
    BY DEF PlanHolds, Planned, MemoryStep
  <2>1. (revised' => dirty') /\ (~revised' => cycles' = plan.cycles)
    BY DEF SavedInv, PlanHolds, MemoryStep
  <2>2. ASSUME NEW k \in Keys, NEW d \in Day, d > dropped'
        PROVE  /\ days'[k][d] >= plan.days[k][d]
               /\ d <= closedThrough \/ ~revised' => days'[k][d] = plan.days[k][d]
               /\ plan.pc \in {"history", "live"} => plan.days[k][d] >= saved[k][d]
    <3>1. days'[k][d] \in Nat
      BY DEF TypeOK, DayTable
    <3>2. /\ days[k][d] >= plan.days[k][d]
          /\ d <= closedThrough \/ ~revised => days[k][d] = plan.days[k][d]
          /\ plan.pc \in {"history", "live"} => plan.days[k][d] >= saved[k][d]
      BY <1>1, <2>2 DEF SavedInv, PlanHolds
    <3> QED BY <2>2, <3>1, <3>2, Buckets DEF MemoryStep
  <2> QED BY <2>1, <2>2
<1>4. SavedHolds'
  <2>1. ASSUME NEW k \in Keys, NEW d \in Day, d > dropped'
        PROVE  /\ d > live.through => live.days[k][d] >= saved[k][d]
               /\ d <= history.through => history.days[k][d] >= saved[k][d]
               /\ up => days'[k][d] >= saved[k][d]
    <3>1. days'[k][d] \in Nat /\ days'[k][d] >= days[k][d]
      BY <2>1 DEF TypeOK, DayTable, MemoryStep
    <3> QED BY <1>1, <2>1, <3>1, Buckets DEF SavedInv, SavedHolds
  <2> QED BY <2>1 DEF SavedHolds, MemoryStep
<1> QED BY <1>2, <1>3, <1>4 DEF SavedInv

LEMMA SavedHalt == ASSUME SavedInv, Halt PROVE SavedInv'
  BY DEF SavedInv, HistoryHolds, PlanHolds, SavedHolds, Halt, files, ghosts

\* The live file is written from memory as it is; without a flush under way
\* nothing is owed to a plan.
LEMMA SavedReset ==
  ASSUME TypeOK, FilesInStep, SavedInv,
         NEW k \in Keys, NEW w \in Windows, ResetWindow(k, w) \/ ResetWindowFails(k, w)
  PROVE  SavedInv'
<1>1. up /\ UNCHANGED <<up, days, history, historyThrough, closedThrough, plan, dropped>> /\ plan.pc = "idle"
  BY DEF ResetWindow, ResetWindowFails, store, ghosts
<1>2. HistoryHolds'
  BY <1>1 DEF SavedInv, HistoryHolds
<1>3. PlanHolds'
  BY <1>1 DEF PlanHolds, Planned
<1>4. historyThrough <= history.through
  BY <1>1 DEF FilesInStep
<1>5. \/ live' = live /\ saved' = saved
      \/ /\ live'.through = historyThrough /\ live'.days = After(days, historyThrough)
         /\ saved' = saved \/ saved' = Merge(history, live')
  BY DEF ResetWindow, ResetWindowFails, LiveFile, ghosts
<1>6. SavedHolds'
  <2>1. ASSUME NEW j \in Keys, NEW d \in Day, d > dropped
        PROVE  /\ d > live'.through => live'.days[j][d] >= saved'[j][d]
               /\ d <= history.through => history.days[j][d] >= saved'[j][d]
               /\ days[j][d] >= saved'[j][d]
    <3>1. /\ d > live.through => live.days[j][d] >= saved[j][d]
          /\ d <= history.through => history.days[j][d] >= saved[j][d] /\ days[j][d] = history.days[j][d]
          /\ days[j][d] >= saved[j][d]
      BY <1>1, <2>1 DEF SavedInv, SavedHolds, HistoryHolds
    <3>2. CASE live' = live /\ saved' = saved
      BY <3>1, <3>2
    <3>3. CASE live'.through = historyThrough /\ live'.days = After(days, historyThrough)
      <4>1. d > historyThrough => live'.days[j][d] = days[j][d]
        BY <3>3 DEF After
      <4>2. saved' = Merge(history, live') => saved'[j][d] = IF d <= history.through THEN history.days[j][d] ELSE live'.days[j][d]
        BY DEF Merge
      <4> QED BY <1>4, <1>5, <3>1, <3>3, <4>1, <4>2, Buckets
    <3> QED BY <1>5, <3>2, <3>3
  <2> QED BY <1>1, <2>1 DEF SavedHolds
<1> QED BY <1>2, <1>3, <1>6 DEF SavedInv

\* The plan is a copy of memory, and what it moves to the history is closed.
LEMMA SavedPlan ==
  ASSUME TypeOK, TypeOK', FilesInStep, SavedInv, NEW by \in {"tick", "delete", "shutdown"}, PlanFlush(by)
  PROVE  SavedInv'
<1> DEFINE due == \/ historyStale \/ EvictsHistory(days, historyThrough)
                  \/ HasDaysInRange(Kept(days), historyThrough, Yesterday)
           isDirty == dirty \/ Evicts(days) \/ cycles' # cycles
           made == [pc |-> IF due THEN "history" ELSE "live", by |-> by, through |-> historyThrough,
                    historyThrough |-> IF due THEN HistoryTarget ELSE 0, due |-> due, written |-> FALSE,
                    days |-> days', cycles |-> cycles']
           done == [NoPlan EXCEPT !.pc = "done", !.by = by]
<1>1. /\ up /\ plan.pc = "idle" /\ UNCHANGED <<up, live, history, saved>> /\ days' = Kept(days)
      /\ dropped' = IF EvictionDue THEN MaxDay(dropped, OldestKept - 1) ELSE dropped
  BY DEF PlanFlush, files
<1>2. /\ closedThrough' = IF due THEN MaxDay(closedThrough, HistoryTarget) ELSE closedThrough
      /\ \/ plan' = made /\ revised' = FALSE
         \/ plan' = done /\ by = "shutdown"
         \/ plan' = plan
  BY DEF PlanFlush
<1>3. /\ dropped' \in Int /\ dropped' >= dropped
      /\ \A k \in Keys, d \in Day : d > dropped' => days'[k][d] = days[k][d]
  BY <1>1, KeptDays DEF TypeOK
<1>4. \A k \in Keys, d \in Day : d > dropped' => d > dropped
  BY <1>3, Buckets
<1>5. closedThrough' >= closedThrough /\ (due => closedThrough' >= HistoryTarget)
  <2>1. closedThrough \in Int /\ HistoryTarget \in Int
    BY HistoryTargetType DEF TypeOK, Watermark
  <2> HIDE DEF due, made, done
  <2> QED BY <1>2, <2>1 DEF MaxDay
<1>6. /\ plan' = made => plan'.days = days' /\ plan'.cycles = cycles' /\ plan'.due = due
                         /\ (due => plan'.historyThrough = HistoryTarget)
      /\ plan' = done => plan'.pc = "done" /\ plan'.by = by /\ ~plan'.due
      /\ plan' = plan => plan'.pc = "idle" /\ ~plan'.due
  <2>1. /\ made.days = days' /\ made.cycles = cycles' /\ made.due = due
        /\ (due => made.historyThrough = HistoryTarget)
    OBVIOUS
  <2>2. done.pc = "done" /\ done.by = by /\ ~done.due
    BY DEF NoPlan
  <2>3. plan.pc = "idle" /\ ~plan.due
    BY <1>1 DEF FilesInStep, NoPlan
  <2> HIDE DEF made, done, due
  <2> QED BY <2>1, <2>2, <2>3
<1> HIDE DEF made, done, due
<1>7. HistoryHolds'
  <2>1. closedThrough \in Int /\ closedThrough' \in Int /\ HistoryTarget \in Int /\ history.through \in Int
    BY HistoryTargetType DEF TypeOK, Watermark, HistoryFiles
  <2>2. history.through <= closedThrough' /\ (plan'.due => plan'.historyThrough <= closedThrough')
    BY <1>1, <1>2, <1>5, <1>6, <2>1 DEF SavedInv, HistoryHolds
  <2> QED BY <1>1, <1>3, <1>4, <2>2 DEF SavedInv, HistoryHolds
<1>8. PlanHolds'
  <2>1. ASSUME plan' = made, revised' = FALSE PROVE PlanHolds'
    <3>1. ASSUME NEW k \in Keys, NEW d \in Day, d > dropped'
          PROVE  days'[k][d] \in Nat /\ days'[k][d] >= saved[k][d]
      BY <1>1, <1>3, <1>4, <3>1, Buckets DEF SavedInv, SavedHolds
    <3> QED BY <1>1, <1>6, <2>1, <3>1 DEF PlanHolds
  <2>2. CASE plan' = done /\ by = "shutdown"
    BY <1>6, <2>2 DEF PlanHolds, Planned
  <2>3. CASE plan' = plan
    BY <1>6, <2>3 DEF PlanHolds, Planned
  <2> QED BY <1>2, <2>1, <2>2, <2>3
<1>9. SavedHolds'
  BY <1>1, <1>3, <1>4 DEF SavedInv, SavedHolds
<1> QED BY <1>7, <1>8, <1>9 DEF SavedInv

\* The history file gets the days as memory has them: those it is written up to
\* are closed, so they are still what was planned.
LEMMA SharedIsMemory ==
  ASSUME TypeOK, FilesInStep, SavedInv, up, plan.pc = "history",
         NEW k \in Keys, NEW d \in Day, d > dropped, d <= plan.historyThrough
  PROVE  SharedHistory[k][d] = days[k][d]
<1>1. plan.historyThrough <= closedThrough
  BY DEF FilesInStep, SavedInv, HistoryHolds
<1>2. days[k][d] = plan.days[k][d]
  BY <1>1, Buckets DEF SavedInv, PlanHolds, Planned
<1> QED BY <1>2, Buckets DEF SharedHistory

LEMMA SavedWriteHistory ==
  ASSUME TypeOK, FilesInStep, SavedInv, WriteHistory \/ WriteHistoryFails
  PROVE  SavedInv'
<1>1. /\ up /\ plan.pc = "history" /\ plan'.pc = "live"
      /\ UNCHANGED <<up, days, cycles, dirty, revised, historyThrough, closedThrough, live, saved, dropped>>
      /\ UNCHANGED <<plan.days, plan.cycles, plan.due, plan.historyThrough>>
  BY DEF WriteHistory, WriteHistoryFails, TypeOK, FlushPlan, ledger, ghosts
<1>2. \/ history' = history
      \/ history'.through = plan.historyThrough /\ history'.days = SharedHistory
  BY DEF WriteHistory, WriteHistoryFails
<1>3. plan.due /\ plan.historyThrough <= closedThrough
  BY <1>1 DEF FilesInStep, SavedInv, HistoryHolds
<1>4. ASSUME NEW k \in Keys, NEW d \in Day, d > dropped, d <= history'.through
      PROVE  history'.days[k][d] = days[k][d]
  BY <1>1, <1>2, <1>4, SharedIsMemory DEF SavedInv, HistoryHolds
<1>5. HistoryHolds'
  BY <1>1, <1>2, <1>3, <1>4 DEF SavedInv, HistoryHolds
<1>6. PlanHolds'
  BY <1>1 DEF SavedInv, PlanHolds, Planned
<1>7. SavedHolds'
  BY <1>1, <1>4 DEF SavedInv, SavedHolds
<1> QED BY <1>5, <1>6, <1>7 DEF SavedInv

LEMMA SavedWriteLive ==
  ASSUME TypeOK, FilesInStep, SavedInv, WriteLive \/ WriteLiveFails
  PROVE  SavedInv'
<1>1. /\ up /\ plan.pc = "live" /\ plan'.pc \in {"done", "failed"}
      /\ UNCHANGED <<up, days, cycles, dirty, revised, historyThrough, closedThrough, history, dropped>>
      /\ UNCHANGED <<plan.days, plan.cycles, plan.due, plan.historyThrough>>
  BY DEF WriteLive, WriteLiveFails, TypeOK, FlushPlan, ledger, ghosts
<1>2. /\ saved' = saved \/ saved' = plan.days
      /\ \/ live' = live /\ saved' = saved
         \/ live'.days = After(plan.days, live'.through)
  BY DEF WriteLive, WriteLiveFails, LiveFile, ghosts
<1>3. HistoryHolds'
  BY <1>1 DEF SavedInv, HistoryHolds
<1>4. PlanHolds'
  BY <1>1 DEF SavedInv, PlanHolds, Planned
<1>5. SavedHolds'
  <2>1. ASSUME NEW k \in Keys, NEW d \in Day, d > dropped
        PROVE  /\ d > live'.through => live'.days[k][d] >= saved'[k][d]
               /\ d <= history.through => history.days[k][d] >= saved'[k][d]
               /\ days[k][d] >= saved'[k][d]
    <3>1. /\ days[k][d] >= plan.days[k][d] /\ plan.days[k][d] >= saved[k][d]
          /\ d > live.through => live.days[k][d] >= saved[k][d]
          /\ d <= history.through => history.days[k][d] = days[k][d]
      BY <1>1, <2>1 DEF SavedInv, PlanHolds, Planned, SavedHolds, HistoryHolds
    <3>2. live'.days = After(plan.days, live'.through) /\ d > live'.through => live'.days[k][d] = plan.days[k][d]
      BY DEF After
    <3> QED BY <1>2, <3>1, <3>2, Buckets
  <2> QED BY <1>1, <2>1 DEF SavedHolds
<1> QED BY <1>3, <1>4, <1>5 DEF SavedInv

LEMMA SavedMarkFlushed == ASSUME SavedInv, MarkFlushed PROVE SavedInv'
<1>1. /\ UNCHANGED <<up, days, closedThrough, live, history, saved, dropped>> /\ plan' = NoPlan
  BY DEF MarkFlushed, files, ghosts
<1>2. plan'.pc = "idle" /\ ~plan'.due
  BY <1>1 DEF NoPlan
<1> QED BY <1>1, <1>2 DEF SavedInv, HistoryHolds, PlanHolds, Planned, SavedHolds

\* Nothing that was saved is missing from the two files together.
LEMMA SavedIsThere == ASSUME TypeOK, FilesInStep, SavedHolds PROVE NothingSavedIsLost
<1>1. live.through <= history.through
  BY DEF FilesInStep, FilesAlwaysLoad, FilesAgree
<1>2. ASSUME NEW k \in Keys, NEW d \in Day, d > dropped PROVE Merged[k][d] >= saved[k][d]
  <2>1. Merged[k][d] = IF d <= history.through THEN history.days[k][d] ELSE live.days[k][d]
    BY DEF Merged, Merge
  <2> QED BY <1>1, <1>2, <2>1, Buckets DEF SavedHolds
<1> QED BY <1>2 DEF NothingSavedIsLost

\* What a start keeps of the merged files.
LEMMA RestartKeeps ==
  ASSUME TypeOK, Restart
  PROVE  /\ dropped' \in Int /\ dropped' >= dropped
         /\ \A k \in Keys, d \in Day : d > dropped' => days'[k][d] = Merged[k][d]
<1>1. now \in Int /\ Retention \in Int /\ dropped \in Int /\ OldestKept \in Int
  BY LedgerAssumption DEF TypeOK, OldestKept, Day
<1>2. dropped' \in Int /\ dropped' >= dropped /\ dropped' >= OldestKept - 1
  BY <1>1 DEF Restart, MaxDay
<1>3. ASSUME NEW k \in Keys, NEW d \in Day, d > dropped' PROVE ~(d < OldestKept)
  BY <1>1, <1>2, <1>3 DEF Day
<1> QED BY <1>2, <1>3 DEF Restart

LEMMA SavedRestart == ASSUME TypeOK, FilesInStep, SavedInv, Restart PROVE SavedInv'
<1>1. UNCHANGED <<live, history, saved>> /\ up' /\ closedThrough' = history.through /\ plan' = NoPlan
  BY DEF Restart, files
<1>2. plan'.pc = "idle" /\ ~plan'.due
  BY <1>1 DEF NoPlan
<1>3. \A k \in Keys, d \in Day : d > dropped' => d > dropped
  BY RestartKeeps, Buckets
<1>4. \A k \in Keys, d \in Day : d > dropped /\ d <= history.through => Merged[k][d] = history.days[k][d]
  BY DEF Merged, Merge
<1>5. history.through <= history.through
  BY DEF TypeOK, HistoryFiles, Watermark
<1>6. HistoryHolds' /\ PlanHolds'
  BY <1>1, <1>2, <1>3, <1>4, <1>5, RestartKeeps DEF HistoryHolds, PlanHolds, Planned
<1>7. NothingSavedIsLost
  BY SavedIsThere DEF SavedInv
<1>8. SavedHolds'
  BY <1>1, <1>3, <1>7, RestartKeeps DEF SavedInv, SavedHolds, NothingSavedIsLost
<1> QED BY <1>6, <1>8 DEF SavedInv

\* A step either leaves the flush and the files alone or is one of a reset, a
\* flush, a crash or a start.
LEMMA StepKinds ==
  ASSUME TypeOK, [Next]_vars
  PROVE  \/ MemoryStep
         \/ \E k \in Keys, w \in Windows : ResetWindow(k, w) \/ ResetWindowFails(k, w)
         \/ \E by \in {"tick", "delete", "shutdown"} : PlanFlush(by)
         \/ WriteHistory \/ WriteHistoryFails \/ WriteLive \/ WriteLiveFails \/ MarkFlushed
         \/ (up /\ Halt) \/ Restart
<1>1. ASSUME NEW k \in Keys, FindKey(k) \/ Record(k) \/ ReadUsage(k) \/ CreateKey(k) \/ DeleteKey(k) PROVE MemoryStep
  BY <1>1, RecordStep, ReadStep, AdminStep
<1>2. CASE PublishKey \/ UnpublishKey \/ ForgetKey
  <2>1. admin.key \in Keys
    BY <1>2 DEF PublishKey, UnpublishKey, ForgetKey, TypeOK, Mutation, Idle
  <2> QED BY <1>2, <2>1, AdminStep
<1>3. CASE NextDay \/ TurnClockBack \/ UNCHANGED vars
  BY <1>3, ClockStep
<1>4. CASE Crash \/ Shutdown
  BY <1>4 DEF Crash, Shutdown, Halt
<1> QED BY <1>1, <1>2, <1>3, <1>4 DEF Next, FlushStep

LEMMA SavedStep == ASSUME TypeOK, TypeOK', FilesInStep, SavedInv, [Next]_vars PROVE SavedInv'
<1>1. CASE MemoryStep
  BY <1>1, SavedMemory
<1>2. ASSUME NEW k \in Keys, NEW w \in Windows, ResetWindow(k, w) \/ ResetWindowFails(k, w) PROVE SavedInv'
  BY <1>2, SavedReset
<1>3. ASSUME NEW by \in {"tick", "delete", "shutdown"}, PlanFlush(by) PROVE SavedInv'
  BY <1>3, SavedPlan
<1>4. CASE WriteHistory \/ WriteHistoryFails
  BY <1>4, SavedWriteHistory
<1>5. CASE WriteLive \/ WriteLiveFails
  BY <1>5, SavedWriteLive
<1>6. CASE MarkFlushed
  BY <1>6, SavedMarkFlushed
<1>7. CASE up /\ Halt
  BY <1>7, SavedHalt
<1>8. CASE Restart
  BY <1>8, SavedRestart
<1> QED BY <1>1, <1>2, <1>3, <1>4, <1>5, <1>6, <1>7, <1>8, StepKinds

\* The inductive invariant of what is saved.
LEMMA SavedInvariant == Spec => [](TypeOK /\ FilesInStep /\ SavedInv)
<1>1. TypeOK /\ TypeOK' /\ FilesInStep /\ SavedInv /\ [Next]_vars => SavedInv'
  BY SavedStep
<1> QED BY SavedInit, <1>1, TypeCorrect, FilesStayInStep, PTL DEF Spec

(* Between any two steps a crash leaves at least what the last completed live
   write, or a manual reset, saved: whichever write fails, moving closed days
   from one file to the other never drops them, and retention is the only
   thing that does. *)
THEOREM SavedIsKept == Spec => []NothingSavedIsLost
<1>1. TypeOK /\ FilesInStep /\ SavedInv => NothingSavedIsLost
  BY SavedIsThere DEF SavedInv
<1> QED BY SavedInvariant, <1>1, PTL
----------------------------------------------------------------------------
\* Closed days stay as they are

\* What ClosedDaysFrozen says of a step.
Frozen ==
  \A k \in Keys, d \in Day : d > dropped' =>
    /\ up /\ up' /\ d <= closedThrough => days'[k][d] = days[k][d]
    /\ d <= history.through /\ d <= history'.through => history'.days[k][d] = history.days[k][d]

LEMMA FrozenStep == ASSUME TypeOK, FilesInStep, SavedInv, [Next]_vars PROVE Frozen
<1>1. CASE MemoryStep
  BY <1>1 DEF MemoryStep, Frozen
<1>2. ASSUME NEW k \in Keys, NEW w \in Windows, ResetWindow(k, w) \/ ResetWindowFails(k, w) PROVE Frozen
  BY <1>2 DEF ResetWindow, ResetWindowFails, Frozen
<1>3. ASSUME NEW by \in {"tick", "delete", "shutdown"}, PlanFlush(by) PROVE Frozen
  <2>1. /\ UNCHANGED history /\ days' = Kept(days)
        /\ dropped' = IF EvictionDue THEN MaxDay(dropped, OldestKept - 1) ELSE dropped
    BY <1>3 DEF PlanFlush, files
  <2>2. \A k \in Keys, d \in Day : d > dropped' => days'[k][d] = days[k][d]
    BY <2>1, KeptDays DEF TypeOK
  <2> QED BY <2>1, <2>2 DEF Frozen
<1>4. CASE WriteHistory \/ WriteHistoryFails
  <2>1. /\ up /\ plan.pc = "history" /\ UNCHANGED <<days, dropped>>
        /\ \/ history' = history
           \/ history' = [through |-> plan.historyThrough, days |-> SharedHistory]
    BY <1>4 DEF WriteHistory, WriteHistoryFails, ledger, ghosts
  <2>2. ASSUME NEW k \in Keys, NEW d \in Day, d > dropped, d <= history.through, d <= history'.through
        PROVE  history'.days[k][d] = history.days[k][d]
    BY <2>1, <2>2, SharedIsMemory DEF SavedInv, HistoryHolds
  <2> QED BY <2>1, <2>2 DEF Frozen
<1>5. CASE WriteLive \/ WriteLiveFails
  BY <1>5 DEF WriteLive, WriteLiveFails, ledger, Frozen
<1>6. CASE MarkFlushed
  BY <1>6 DEF MarkFlushed, files, Frozen
<1>7. CASE up /\ Halt
  BY <1>7 DEF Halt, files, Frozen
<1>8. CASE Restart
  BY <1>8 DEF Restart, files, Frozen
<1> QED BY <1>1, <1>2, <1>3, <1>4, <1>5, <1>6, <1>7, <1>8, StepKinds

(* A closed day is never written again, in memory, whose buckets a history
   write reads without the lock, or in the history file, until retention drops
   it: calls go to the day after the watermark although the clock is turned
   back onto a closed one, and a history write repeats what the file holds. *)
THEOREM ClosedDaysStay == Spec => ClosedDaysFrozen
<1>1. TypeOK /\ FilesInStep /\ SavedInv /\ [Next]_vars => [Frozen]_vars
  BY FrozenStep
<1>2. Spec => [][Frozen]_vars
  BY SavedInvariant, <1>1, PTL DEF Spec
<1> QED BY <1>2 DEF ClosedDaysFrozen, Frozen
----------------------------------------------------------------------------
\* A clean ledger is on disk

\* The live file holds the periods and the days the history does not, unless
\* the ledger is dirty.
CleanHolds ==
  up /\ ~dirty =>
    /\ live.cycles = cycles
    /\ \A k \in Keys, d \in Day : d > dropped /\ d > Effective => live.days[k][d] = days[k][d]

\* A flush that has written the live file wrote its plan.
DoneHolds ==
  up /\ plan.pc = "done" /\ plan.by # "shutdown" =>
    /\ live.cycles = plan.cycles
    /\ \A k \in Keys, d \in Day : d > dropped /\ d > Effective => live.days[k][d] = plan.days[k][d]

CleanInv == CleanHolds /\ DoneHolds

LEMMA CleanInit == ASSUME Init PROVE CleanInv
<1>1. live.days = days /\ live.cycles = cycles /\ plan.pc = "idle"
  BY DEF Init, NoPlan
<1> QED BY <1>1 DEF CleanInv, CleanHolds, DoneHolds

LEMMA CleanMemory == ASSUME TypeOK, CleanInv, MemoryStep PROVE CleanInv'
<1>1. \A k \in Keys, d \in Day : d > dropped' => d > dropped
  BY Buckets DEF MemoryStep
<1> QED BY <1>1 DEF CleanInv, CleanHolds, DoneHolds, Effective, MemoryStep

LEMMA CleanReset ==
  ASSUME TypeOK, FilesInStep, CleanInv, "reset.sync" \notin Failures,
         NEW k \in Keys, NEW w \in Windows, ResetWindow(k, w) \/ ResetWindowFails(k, w)
  PROVE  CleanInv'
<1>1. up /\ UNCHANGED <<up, days, historyThrough, plan, dropped>> /\ plan.pc = "idle"
  BY DEF ResetWindow, ResetWindowFails, store, ghosts
<1>2. Effective' = Effective /\ Effective = historyThrough
  BY <1>1 DEF Effective, FilesInStep, NoPlan
<1>3. CASE ResetWindow(k, w)
  <2>1. live'.cycles = cycles' /\ live'.days = After(days, historyThrough)
    BY <1>3 DEF ResetWindow, LiveFile
  <2>2. \A j \in Keys, d \in Day : d > historyThrough => live'.days[j][d] = days[j][d]
    BY <2>1 DEF After
  <2> QED BY <1>1, <1>2, <2>1, <2>2 DEF CleanInv, CleanHolds, DoneHolds
<1>4. CASE ResetWindowFails(k, w)
  <2>1. live' = live
    BY <1>4 DEF ResetWindowFails
  <2>2. ~dirty' => ~dirty /\ cycles' = cycles
    BY <1>4 DEF ResetWindowFails, MarkDirtyIf, TypeOK, CycleTable
  <2> QED BY <1>1, <1>2, <2>1, <2>2 DEF CleanInv, CleanHolds, DoneHolds
<1> QED BY <1>3, <1>4

LEMMA CleanPlan ==
  ASSUME TypeOK, FilesInStep, CleanInv, NEW by \in {"tick", "delete", "shutdown"}, PlanFlush(by)
  PROVE  CleanInv'
<1>1. /\ up /\ plan = NoPlan /\ UNCHANGED <<up, live, historyThrough>> /\ days' = Kept(days)
      /\ dropped' = IF EvictionDue THEN MaxDay(dropped, OldestKept - 1) ELSE dropped
      /\ dirty' = (dirty \/ Evicts(days) \/ cycles' # cycles)
  BY DEF PlanFlush, FilesInStep, files
<1>2. \A k \in Keys, d \in Day : d > dropped' => d > dropped /\ days'[k][d] = days[k][d]
  BY <1>1, KeptDays, Buckets DEF TypeOK
<1>3. plan'.written = FALSE /\ (plan'.pc = "done" => plan'.by = "shutdown")
  <2> DEFINE due == \/ historyStale \/ EvictsHistory(days, historyThrough)
                    \/ HasDaysInRange(Kept(days), historyThrough, Yesterday)
             made == [pc |-> IF due THEN "history" ELSE "live", by |-> by, through |-> historyThrough,
                      historyThrough |-> IF due THEN HistoryTarget ELSE 0, due |-> due, written |-> FALSE,
                      days |-> days', cycles |-> cycles']
             done == [NoPlan EXCEPT !.pc = "done", !.by = by]
  <2>1. plan' = made \/ (plan' = done /\ by = "shutdown") \/ plan' = NoPlan
    BY <1>1 DEF PlanFlush
  <2>2. /\ made.written = FALSE /\ made.pc # "done"
        /\ done.written = FALSE /\ done.by = by
        /\ NoPlan.written = FALSE /\ NoPlan.pc = "idle"
    BY DEF NoPlan
  <2> HIDE DEF made, done, due
  <2> QED BY <2>1, <2>2
<1>4. Effective' = Effective
  BY <1>1, <1>3 DEF Effective, NoPlan
<1> QED BY <1>1, <1>2, <1>3, <1>4 DEF CleanInv, CleanHolds, DoneHolds

LEMMA CleanWriteHistory ==
  ASSUME TypeOK, FilesInStep, CleanInv, WriteHistory \/ WriteHistoryFails
  PROVE  CleanInv'
<1>1. /\ up /\ plan.pc = "history" /\ plan'.pc = "live" /\ plan'.historyThrough = plan.historyThrough
      /\ UNCHANGED <<up, days, cycles, dirty, historyThrough, live, dropped>>
  BY DEF WriteHistory, WriteHistoryFails, TypeOK, FlushPlan, ledger, ghosts
<1>2. ~plan.written /\ historyThrough <= plan.historyThrough
  BY <1>1 DEF FilesInStep
<1>3. \A k \in Keys, d \in Day : d > Effective' => d > Effective
  BY <1>1, <1>2, Buckets DEF Effective
<1> QED BY <1>1, <1>3 DEF CleanInv, CleanHolds, DoneHolds

LEMMA CleanWriteLive ==
  ASSUME TypeOK, FilesInStep, SavedInv, CleanInv, WriteLive \/ WriteLiveFails
  PROVE  CleanInv'
<1>1. /\ up /\ plan.pc = "live" /\ plan'.historyThrough = plan.historyThrough /\ plan'.written = plan.written
      /\ plan'.days = plan.days /\ plan'.cycles = plan.cycles
      /\ UNCHANGED <<up, days, cycles, dirty, revised, historyThrough, dropped>>
  BY DEF WriteLive, WriteLiveFails, TypeOK, FlushPlan, ledger, ghosts
<1>2. Effective' = Effective /\ Effective = Reached(plan)
  BY <1>1 DEF Effective, Reached, FilesInStep
<1>3. \/ live' = live /\ plan'.pc = "failed"
      \/ live' = LiveFile(Reached(plan), plan.days, plan.cycles)
  BY DEF WriteLive, WriteLiveFails, TypeOK, FlushPlan
<1>4. live' = LiveFile(Reached(plan), plan.days, plan.cycles) =>
        /\ live'.cycles = plan.cycles
        /\ \A k \in Keys, d \in Day : d > Effective => live'.days[k][d] = plan.days[k][d]
  BY <1>2 DEF LiveFile, After
<1>5. ~dirty => /\ cycles = plan.cycles
                /\ \A k \in Keys, d \in Day : d > dropped => days[k][d] = plan.days[k][d]
  BY <1>1 DEF SavedInv, PlanHolds, Planned
<1>6. CleanHolds'
  BY <1>1, <1>2, <1>3, <1>4, <1>5 DEF CleanInv, CleanHolds
<1>7. DoneHolds'
  BY <1>1, <1>2, <1>3, <1>4 DEF DoneHolds
<1> QED BY <1>6, <1>7 DEF CleanInv

\* A ledger becomes clean when the plan was written and is memory still.
LEMMA CleanMarkFlushed ==
  ASSUME TypeOK, FilesInStep, SavedInv, CleanInv, MarkFlushed PROVE CleanInv'
<1>1. /\ up /\ UNCHANGED <<up, days, cycles, live, dropped>> /\ plan' = NoPlan /\ dirty' = StillDirty
      /\ plan.pc \in {"done", "failed"} /\ plan.by # "shutdown"
      /\ historyThrough' = IF plan.written THEN plan.historyThrough ELSE historyThrough
  BY DEF MarkFlushed, files, ghosts
<1>2. plan'.pc = "idle" /\ Effective' = Effective
  BY <1>1 DEF Effective, NoPlan
<1>3. CASE ~dirty
  BY <1>1, <1>2, <1>3 DEF CleanInv, CleanHolds, DoneHolds
<1>4. CASE dirty /\ ~dirty'
  <2>1. ~revised /\ plan.pc = "done"
    BY <1>1, <1>4 DEF StillDirty
  <2>2. /\ cycles = plan.cycles
        /\ \A k \in Keys, d \in Day : d > dropped => days[k][d] = plan.days[k][d]
    BY <1>1, <2>1 DEF SavedInv, PlanHolds, Planned
  <2> QED BY <1>1, <1>2, <2>1, <2>2 DEF CleanInv, CleanHolds, DoneHolds
<1>5. CASE dirty'
  BY <1>2, <1>5 DEF CleanInv, CleanHolds, DoneHolds
<1> QED BY <1>3, <1>4, <1>5

LEMMA CleanRestart == ASSUME TypeOK, FilesInStep, CleanInv, Restart PROVE CleanInv'
<1>1. /\ UNCHANGED live /\ up' /\ historyThrough' = history.through /\ plan' = NoPlan /\ cycles' = SyncCycles
      /\ ~dirty' => SyncCycles = live.cycles
  BY DEF Restart, files
<1>2. plan'.pc = "idle" /\ Effective' = history.through
  BY <1>1 DEF Effective, NoPlan
<1>3. \A k \in Keys, d \in Day : d > dropped' => days'[k][d] = Merged[k][d]
  BY RestartKeeps
<1>4. \A k \in Keys, d \in Day : d > history.through => Merged[k][d] = live.days[k][d]
  <2>1. ASSUME NEW k \in Keys, NEW d \in Day, d > history.through PROVE ~(d <= history.through)
    BY <2>1, Buckets
  <2> QED BY <2>1 DEF Merged, Merge
<1> QED BY <1>1, <1>2, <1>3, <1>4 DEF CleanInv, CleanHolds, DoneHolds

LEMMA CleanStep ==
  ASSUME TypeOK, FilesInStep, SavedInv, CleanInv, "reset.sync" \notin Failures, [Next]_vars PROVE CleanInv'
<1>1. CASE MemoryStep
  BY <1>1, CleanMemory
<1>2. ASSUME NEW k \in Keys, NEW w \in Windows, ResetWindow(k, w) \/ ResetWindowFails(k, w) PROVE CleanInv'
  BY <1>2, CleanReset
<1>3. ASSUME NEW by \in {"tick", "delete", "shutdown"}, PlanFlush(by) PROVE CleanInv'
  BY <1>3, CleanPlan
<1>4. CASE WriteHistory \/ WriteHistoryFails
  BY <1>4, CleanWriteHistory
<1>5. CASE WriteLive \/ WriteLiveFails
  BY <1>5, CleanWriteLive
<1>6. CASE MarkFlushed
  BY <1>6, CleanMarkFlushed
<1>7. CASE up /\ Halt
  BY <1>7 DEF Halt, CleanInv, CleanHolds, DoneHolds
<1>8. CASE Restart
  BY <1>8, CleanRestart
<1> QED BY <1>1, <1>2, <1>3, <1>4, <1>5, <1>6, <1>7, <1>8, StepKinds

LEMMA CleanIsSaved == ASSUME TypeOK, FilesInStep, SavedInv, CleanInv PROVE SavedWhenClean
<1> SUFFICES ASSUME up, ~dirty
             PROVE  live.cycles = cycles /\ \A k \in Keys, d \in Day : d > dropped => Merged[k][d] = days[k][d]
  BY DEF SavedWhenClean
<1>1. ASSUME NEW k \in Keys, NEW d \in Day, d > dropped PROVE Merged[k][d] = days[k][d]
  <2>1. Merged[k][d] = IF d <= history.through THEN history.days[k][d] ELSE live.days[k][d]
    BY DEF Merged, Merge
  <2>2. Effective <= history.through /\ Effective \in Int
    BY Buckets DEF Effective, FilesInStep
  <2> QED BY <1>1, <2>1, <2>2, Buckets DEF SavedInv, HistoryHolds, CleanInv, CleanHolds
<1> QED BY <1>1 DEF CleanInv, CleanHolds

(* A clean ledger is on disk: what a start would merge from the two files is
   what memory holds, whatever flushes fail and wherever calls come between
   the plan, the writes and markFlushed.  The hypothesis is the exception the
   code has: a manual reset whose directory sync fails has replaced the live
   file and restores the dirty mark it found. *)
THEOREM CleanIsOnDisk == ASSUME "reset.sync" \notin Failures PROVE Spec => []SavedWhenClean
<1>1. TypeOK /\ FilesInStep /\ SavedInv /\ CleanInv /\ [Next]_vars => CleanInv'
  BY CleanStep
<1>2. TypeOK /\ FilesInStep /\ SavedInv /\ CleanInv => SavedWhenClean
  BY CleanIsSaved
<1> QED BY CleanInit, SavedInvariant, <1>1, <1>2, PTL DEF Spec
----------------------------------------------------------------------------
\* A recreated key starts its own periods

\* The periods count no more calls than were billed to the key since its creation.
Bounded(c, k) == c # None => \A w \in Windows : c[w].used <= since[k]

\* The keys the property speaks of, and a key whose deletion is half done.
Owned == HasKey \ mayInherit
Going(k) == admin.op \in {"delete", "forget"} /\ admin.key = k

\* Wherever a key's periods are kept they are its own: in memory, in the plan
\* of the flush under way, and in the live file unless the key was recreated
\* since that was written.
MemoryBounded == up => \A k \in Owned : Bounded(cycles[k], k)
PlanBounded == up /\ plan.pc \in {"history", "live"} => \A k \in Owned : Bounded(plan.cycles[k], k)
LiveBounded == \A k \in Owned \ recreated : Bounded(live.cycles[k], k)

\* A key outside the state file has no periods once its deletion dropped them.
Forgotten == up => \A k \in Keys : state[k] = 0 /\ ~Going(k) => cycles[k] = None

AdminHolds ==
  /\ admin.op = "create" => state[admin.key] > 0
  /\ plan.pc # "idle" /\ plan.by = "delete" => admin.op = "flush"

KeysInv == MemoryBounded /\ PlanBounded /\ LiveBounded /\ Forgotten /\ AdminHolds

\* Rolling periods forward never raises a count.
LEMMA AdvanceBounded ==
  ASSUME TypeOK, NEW k \in Keys, NEW c, \A w \in Windows : c[w].used <= since[k]
  PROVE  Bounded(Advance(c), k)
<1>1. since[k] \in Nat
  BY DEF TypeOK
<1>2. ASSUME NEW w \in Windows PROVE Advance(c)[w].used <= since[k]
  BY <1>1 DEF Advance
<1> QED BY <1>2 DEF Bounded

LEMMA RolledBounded ==
  ASSUME TypeOK, NEW k \in Keys, Bounded(cycles[k], k) PROVE Bounded(Rolled(k), k)
<1>1. CASE cycles[k] = None
  BY <1>1 DEF Rolled, Bounded
<1>2. CASE cycles[k] # None
  BY <1>2, AdvanceBounded DEF Rolled, Bounded
<1> QED BY <1>1, <1>2

\* Periods that are there or are opened anew.
LEMMA OpenedBounded ==
  ASSUME TypeOK, NEW k \in Keys, NEW c, Bounded(c, k)
  PROVE  Bounded(Advance(IF c = None THEN NewCycles(state[k]) ELSE c), k)
<1>1. \A w \in Windows : NewCycles(state[k])[w].used <= since[k]
  BY DEF NewCycles, TypeOK
<1> QED BY <1>1, AdvanceBounded DEF Bounded

LEMMA KeysInit == ASSUME Init PROVE KeysInv
<1>1. /\ \A k \in Keys : cycles[k] = None /\ live.cycles[k] = None /\ state[k] = 0
      /\ plan.pc = "idle" /\ admin.op = "idle"
  BY DEF Init, NoCycles, NoPlan, Idle
<1>2. Owned = {}
  BY <1>1 DEF Owned, HasKey
<1> QED BY <1>1, <1>2 DEF KeysInv, MemoryBounded, PlanBounded, LiveBounded, Forgotten, AdminHolds

\* Steps that leave the keys, what was billed to them and the files alone, and
\* of the periods no more than roll or drop them.
LEMMA KeysRolled ==
  ASSUME TypeOK, KeysInv, UNCHANGED <<up, state, since, recreated, mayInherit, live, plan, admin>>,
         \A k \in Keys : cycles'[k] \in {cycles[k], Rolled(k)}
  PROVE  KeysInv'
<1>1. \A k \in Keys : Bounded(cycles[k], k) => Bounded(cycles'[k], k)
  BY RolledBounded
<1>2. \A k \in Keys : cycles[k] = None => cycles'[k] = None
  BY DEF Rolled
<1>3. Owned' = Owned /\ Owned \subseteq Keys
  BY DEF Owned, HasKey
<1>4. MemoryBounded'
  BY <1>1, <1>3 DEF KeysInv, MemoryBounded, Bounded
<1>5. PlanBounded' /\ LiveBounded'
  BY <1>3 DEF KeysInv, PlanBounded, LiveBounded, Bounded
<1>6. Forgotten' /\ AdminHolds'
  BY <1>2 DEF KeysInv, Forgotten, AdminHolds, Going
<1> QED BY <1>4, <1>5, <1>6 DEF KeysInv

\* A call more on the key's account leaves what was bounded bounded.
LEMMA CountsMore ==
  ASSUME TypeOK, NEW j \in Keys, since'[j] \in {since[j], since[j] + 1}, NEW table \in CycleTable,
         Bounded(table[j], j), table[j] # None
  PROVE  \A w \in Windows : table[j][w].used <= since'[j]
<1>1. since[j] \in Nat /\ \A w \in Windows : table[j][w].used \in Nat
  BY DEF TypeOK, CycleTable, Periods
<1> QED BY <1>1 DEF Bounded

LEMMA KeysRecord == ASSUME TypeOK, KeysInv, NEW k \in Keys, Record(k) PROVE KeysInv'
<1> DEFINE c == [w \in Windows |-> [Rolled(k)[w] EXCEPT !.used = @ + 1]]
<1>1. /\ UNCHANGED <<up, state, recreated, mayInherit, live, plan, admin>>
      /\ since' = [since EXCEPT ![k] = @ + 1]
      /\ cycles' = IF cycles[k] = None THEN cycles ELSE [cycles EXCEPT ![k] = c]
  BY DEF Record, files
<1>2. \A j \in Keys : since'[j] = IF j = k THEN since[k] + 1 ELSE since[j]
  BY <1>1 DEF TypeOK
<1>3. Owned' = Owned /\ Owned \subseteq Keys
  BY <1>1 DEF Owned, HasKey
<1>4. ASSUME cycles[k] # None, Bounded(cycles[k], k) PROVE \A w \in Windows : c[w].used <= since'[k]
  <2>1. Rolled(k) \in Periods \/ Rolled(k) = None
    BY RolledType
  <2>2. cycles[k] \in Periods
    BY <1>4 DEF TypeOK, CycleTable
  <2>3. Rolled(k) \in Periods
    BY <1>4, <2>2, AdvanceType DEF Rolled, TypeOK
  <2>4. \A w \in Windows : c[w].used = Rolled(k)[w].used + 1 /\ Rolled(k)[w].used \in Nat
    BY <2>3 DEF Periods
  <2>5. \A w \in Windows : Rolled(k)[w].used <= since[k]
    BY <1>4, <2>2 DEF Rolled, Advance, Bounded, TypeOK
  <2>6. since[k] \in Nat
    BY DEF TypeOK
  <2> QED BY <1>2, <2>4, <2>5, <2>6
<1>5. \A j \in Keys : /\ cycles[j] = None => cycles'[j] = None
                      /\ cycles'[j] = cycles[j] \/ (j = k /\ cycles[k] # None /\ cycles'[k] = c)
  <2> HIDE DEF c
  <2> QED BY <1>1 DEF TypeOK, CycleTable
<1> HIDE DEF c
<1>6. ASSUME up, NEW j \in Owned, cycles'[j] # None PROVE \A w \in Windows : cycles'[j][w].used <= since'[j]
  <2>1. j \in Keys /\ Bounded(cycles[j], j) /\ cycles \in CycleTable
    BY <1>3, <1>6 DEF KeysInv, MemoryBounded, TypeOK
  <2>2. CASE cycles'[j] = cycles[j]
    BY <1>2, <1>6, <2>1, <2>2, CountsMore
  <2>3. CASE j = k /\ cycles[k] # None /\ cycles'[k] = c
    BY <1>4, <2>1, <2>3
  <2> QED BY <1>5, <2>1, <2>2, <2>3
<1>7. ASSUME up, plan.pc \in {"history", "live"}, NEW j \in Owned, plan.cycles[j] # None
      PROVE  \A w \in Windows : plan.cycles[j][w].used <= since'[j]
  <2>1. j \in Keys /\ Bounded(plan.cycles[j], j) /\ plan.cycles \in CycleTable
    BY <1>3, <1>7 DEF KeysInv, PlanBounded, TypeOK, FlushPlan
  <2> QED BY <1>2, <1>7, <2>1, CountsMore
<1>8. ASSUME NEW j \in Owned \ recreated, live.cycles[j] # None
      PROVE  \A w \in Windows : live.cycles[j][w].used <= since'[j]
  <2>1. j \in Keys /\ Bounded(live.cycles[j], j) /\ live.cycles \in CycleTable
    BY <1>3 DEF KeysInv, LiveBounded, TypeOK, LiveFiles
  <2> QED BY <1>2, <1>8, <2>1, CountsMore
<1>9. MemoryBounded' /\ PlanBounded' /\ LiveBounded'
  BY <1>1, <1>3, <1>6, <1>7, <1>8 DEF MemoryBounded, PlanBounded, LiveBounded, Bounded
<1>10. Forgotten' /\ AdminHolds'
  BY <1>1, <1>5 DEF KeysInv, Forgotten, AdminHolds, Going
<1> QED BY <1>9, <1>10 DEF KeysInv

\* The state file gets the key; its id has no periods in memory.
LEMMA KeysCreate == ASSUME TypeOK, KeysInv, NEW k \in Keys, CreateKey(k) PROVE KeysInv'
<1>1. /\ up /\ plan.pc = "idle" /\ admin.op = "idle" /\ state[k] = 0
      /\ UNCHANGED <<up, plan, cycles, live>>
      /\ admin' = [op |-> "create", key |-> k]
      /\ state' = [state EXCEPT ![k] = now] /\ since' = [since EXCEPT ![k] = 0]
      /\ recreated' = IF live.cycles[k] = None THEN recreated \ {k} ELSE recreated \cup {k}
      /\ mayInherit' = mayInherit \ {k}
  BY DEF CreateKey, Idle, ledger
<1>2. \A j \in Keys : /\ state'[j] = IF j = k THEN now ELSE state[j]
                      /\ j # k => since'[j] = since[j]
  BY <1>1 DEF TypeOK
<1>3. now > 0 /\ now # 0
  BY DEF TypeOK, Day
<1>4. cycles[k] = None
  BY <1>1 DEF KeysInv, Forgotten, Going
<1>5. \A j \in Owned' : j \in Keys /\ (j = k \/ j \in Owned)
  BY <1>1, <1>2 DEF Owned, HasKey
<1>6. MemoryBounded'
  BY <1>1, <1>2, <1>4, <1>5 DEF KeysInv, MemoryBounded, Bounded
<1>7. PlanBounded'
  BY <1>1 DEF PlanBounded
<1>8. LiveBounded'
  <2>1. \A j \in Owned' \ recreated' : j \in Keys /\ (j = k => live.cycles[k] = None) /\ (j # k => j \in Owned \ recreated)
    BY <1>1, <1>5
  <2> QED BY <1>1, <1>2, <2>1 DEF KeysInv, LiveBounded, Bounded
<1>9. Forgotten'
  BY <1>1, <1>2, <1>3, <1>4 DEF KeysInv, Forgotten, Going
<1>10. AdminHolds'
  BY <1>1, <1>2, <1>3 DEF AdminHolds
<1> QED BY <1>6, <1>7, <1>8, <1>9, <1>10 DEF KeysInv

\* The key opens its periods, or rolls those it has.
LEMMA KeysPublish == ASSUME TypeOK, KeysInv, PublishKey PROVE KeysInv'
<1> DEFINE k == admin.key
           c == Advance(IF cycles[k] = None THEN NewCycles(state[k]) ELSE cycles[k])
<1>1. /\ up /\ admin.op = "create" /\ admin'.op = "idle"
      /\ UNCHANGED <<up, plan, live, state, since, recreated, mayInherit>>
      /\ cycles' = [cycles EXCEPT ![k] = c]
  BY DEF PublishKey, Idle, files, ghosts
<1>2. k \in Keys /\ state[k] > 0 /\ state[k] # 0
  BY <1>1 DEF TypeOK, Mutation, Idle, KeysInv, AdminHolds
<1>3. \A j \in Keys : cycles'[j] = IF j = k THEN c ELSE cycles[j]
  BY <1>1, <1>2 DEF TypeOK, CycleTable
<1>4. Bounded(cycles[k], k) => Bounded(c, k)
  BY <1>2, OpenedBounded
<1>5. Owned' = Owned /\ Owned \subseteq Keys
  BY <1>1 DEF Owned, HasKey
<1> HIDE DEF c
<1>6. MemoryBounded'
  BY <1>1, <1>3, <1>4, <1>5 DEF KeysInv, MemoryBounded, Bounded
<1>7. PlanBounded' /\ LiveBounded'
  BY <1>1, <1>5 DEF KeysInv, PlanBounded, LiveBounded, Bounded
<1>8. Forgotten'
  BY <1>1, <1>2, <1>3 DEF KeysInv, Forgotten, Going
<1>9. AdminHolds'
  BY <1>1 DEF KeysInv, AdminHolds
<1> QED BY <1>6, <1>7, <1>8, <1>9 DEF KeysInv

LEMMA KeysDelete ==
  ASSUME TypeOK, KeysInv, NEW k \in Keys, DeleteKey(k) \/ UnpublishKey \/ ForgetKey PROVE KeysInv'
<1>1. /\ up /\ UNCHANGED <<up, plan, live, since, recreated, mayInherit>>
      /\ \/ admin = Idle /\ plan.pc = "idle" /\ admin' = [op |-> "delete", key |-> k]
            /\ state' = [state EXCEPT ![k] = 0] /\ cycles' = cycles
         \/ admin.op = "delete" /\ admin' = [admin EXCEPT !.op = "forget"] /\ UNCHANGED <<state, cycles>>
         \/ admin.op = "forget" /\ admin' = [admin EXCEPT !.op = "flush"]
            /\ UNCHANGED state /\ cycles' = [cycles EXCEPT ![admin.key] = None]
  BY DEF DeleteKey, UnpublishKey, ForgetKey, ledger, files, ghosts
<1>2. \A j \in Keys : /\ state'[j] \in {state[j], 0}
                      /\ cycles'[j] \in {cycles[j], None}
  BY <1>1 DEF TypeOK, CycleTable
<1>3. Owned' \subseteq Owned /\ Owned \subseteq Keys
  <2>1. \A j \in Keys : state'[j] > 0 => state[j] > 0
    BY <1>2
  <2> QED BY <1>1, <2>1 DEF Owned, HasKey
<1>4. MemoryBounded' /\ PlanBounded' /\ LiveBounded'
  BY <1>1, <1>2, <1>3 DEF KeysInv, MemoryBounded, PlanBounded, LiveBounded, Bounded
<1>5. Forgotten'
  <2>1. ASSUME NEW j \in Keys, state'[j] = 0, ~Going(j)' PROVE cycles'[j] = None
    <3>1. CASE admin = Idle /\ admin' = [op |-> "delete", key |-> k] /\ state' = [state EXCEPT ![k] = 0] /\ cycles' = cycles
      <4>1. j # k
        BY <2>1, <3>1 DEF Going
      <4>2. state[j] = 0 /\ ~Going(j)
        BY <2>1, <3>1, <4>1 DEF TypeOK, Going, Idle
      <4> QED BY <1>1, <3>1, <4>2 DEF KeysInv, Forgotten
    <3>2. CASE admin.op = "delete" /\ admin' = [admin EXCEPT !.op = "forget"] /\ UNCHANGED <<state, cycles>>
      <4>1. admin'.op = "forget" /\ admin'.key = admin.key
        BY <3>2 DEF TypeOK, Mutation, Idle
      <4> QED BY <1>1, <2>1, <3>2, <4>1 DEF KeysInv, Forgotten, Going
    <3>3. CASE admin.op = "forget" /\ UNCHANGED state /\ cycles' = [cycles EXCEPT ![admin.key] = None]
      <4>1. cycles'[j] = IF j = admin.key THEN None ELSE cycles[j]
        BY <3>3 DEF TypeOK, CycleTable
      <4> QED BY <1>1, <2>1, <3>3, <4>1 DEF KeysInv, Forgotten, Going
    <3> QED BY <1>1, <3>1, <3>2, <3>3
  <2> QED BY <2>1 DEF Forgotten
<1>6. AdminHolds'
  BY <1>1 DEF KeysInv, AdminHolds, Idle, TypeOK, Mutation
<1> QED BY <1>4, <1>5, <1>6 DEF KeysInv

LEMMA KeysRead == ASSUME TypeOK, KeysInv, NEW k \in Keys, ReadUsage(k) PROVE KeysInv'
<1>1. \A j \in Keys : cycles'[j] \in {cycles[j], Rolled(j)}
  BY DEF ReadUsage, TypeOK, CycleTable
<1> QED BY <1>1, KeysRolled DEF ReadUsage, store, files

\* A reset period is empty, the others of the key have rolled.
LEMMA ResetBounded ==
  ASSUME TypeOK, NEW k \in Keys, NEW w \in Windows, cycles[k] # None
  PROVE  \A j \in Keys : Bounded(cycles[j], j) => Bounded(ResetCycles(k, w)[j], j)
<1> DEFINE c == [Rolled(k) EXCEPT ![w] = [ends |-> now + Length[w], used |-> 0]]
<1>1. \A j \in Keys : ResetCycles(k, w)[j] = IF j = k THEN c ELSE cycles[j]
  BY DEF ResetCycles, TypeOK, CycleTable
<1>2. ASSUME Bounded(cycles[k], k) PROVE Bounded(c, k)
  <2>1. Rolled(k) = Advance(cycles[k]) /\ \A v \in Windows : Rolled(k)[v].used <= since[k]
    BY <1>2, RolledBounded DEF Rolled, Bounded, Advance, TypeOK
  <2>2. \A v \in Windows : c[v] = IF v = w THEN [ends |-> now + Length[w], used |-> 0] ELSE Rolled(k)[v]
    BY <2>1 DEF Advance
  <2>3. since[k] \in Nat
    BY DEF TypeOK
  <2> QED BY <2>1, <2>2, <2>3 DEF Bounded
<1> HIDE DEF c
<1> QED BY <1>1, <1>2

LEMMA KeysReset ==
  ASSUME TypeOK, KeysInv, NEW k \in Keys, NEW w \in Windows, ResetWindow(k, w) \/ ResetWindowFails(k, w)
  PROVE  KeysInv'
<1>1. /\ up /\ admin.op = "idle" /\ plan.pc = "idle" /\ cycles[k] # None
      /\ UNCHANGED <<up, plan, admin, state, since, mayInherit>> /\ recreated' \subseteq recreated
      /\ cycles' = ResetCycles(k, w) \/ cycles' = [cycles EXCEPT ![k] = Rolled(k)]
      /\ \/ live' = live /\ recreated' = recreated
         \/ live'.cycles = ResetCycles(k, w) 
  BY DEF ResetWindow, ResetWindowFails, store, ghosts, Idle, LiveFile
<1>2. Owned' = Owned /\ Owned \subseteq Keys
  BY <1>1 DEF Owned, HasKey
<1>3. \A j \in Owned : Bounded(cycles[j], j) /\ Bounded(ResetCycles(k, w)[j], j)
  BY <1>1, <1>2, ResetBounded DEF KeysInv, MemoryBounded
<1>4. \A j \in Keys : /\ cycles'[j] \in {ResetCycles(k, w)[j], cycles[j], Rolled(j)}
                      /\ j # k => cycles'[j] = cycles[j]
  BY <1>1 DEF TypeOK, CycleTable, ResetCycles
<1>5. MemoryBounded'
  <2>1. \A j \in Owned : Bounded(cycles'[j], j)
    BY <1>2, <1>3, <1>4, RolledBounded
  <2> QED BY <1>1, <1>2, <2>1 DEF MemoryBounded, Bounded
<1>6. PlanBounded'
  BY <1>1 DEF PlanBounded
<1>7. LiveBounded'
  BY <1>1, <1>2, <1>3 DEF KeysInv, LiveBounded, Bounded
<1>8. Forgotten'
  <2>1. state[k] # 0
    BY <1>1 DEF KeysInv, Forgotten, Going
  <2> QED BY <1>1, <1>4, <2>1 DEF KeysInv, Forgotten, Going
<1>9. AdminHolds'
  BY <1>1 DEF AdminHolds
<1> QED BY <1>5, <1>6, <1>7, <1>8, <1>9 DEF KeysInv

\* The plan takes the periods as memory has them.
LEMMA KeysPlan ==
  ASSUME TypeOK, FilesInStep, KeysInv, NEW by \in {"tick", "delete", "shutdown"}, PlanFlush(by)
  PROVE  KeysInv'
<1> DEFINE due == \/ historyStale \/ EvictsHistory(days, historyThrough)
                  \/ HasDaysInRange(Kept(days), historyThrough, Yesterday)
           made == [pc |-> IF due THEN "history" ELSE "live", by |-> by, through |-> historyThrough,
                    historyThrough |-> IF due THEN HistoryTarget ELSE 0, due |-> due, written |-> FALSE,
                    days |-> days', cycles |-> cycles']
           done == [NoPlan EXCEPT !.pc = "done", !.by = by]
<1>1. /\ up /\ plan = NoPlan /\ cycles' = [k \in Keys |-> Rolled(k)]
      /\ UNCHANGED <<up, live, state, since, recreated, mayInherit>>
      /\ by = "delete" => admin.op = "flush"
      /\ \/ plan' = made /\ admin' = admin
         \/ plan' \in {done, plan} /\ (plan' = done /\ plan' # plan => by = "shutdown")
            /\ admin' = IF by = "delete" THEN Idle ELSE admin
  BY DEF PlanFlush, files, FilesInStep
<1>2. /\ made.cycles = cycles' /\ made.by = by
      /\ done.pc = "done" /\ done.by = by /\ NoPlan.pc = "idle" /\ Idle.op = "idle"
  BY DEF NoPlan, Idle
<1>3. Owned' = Owned /\ Owned \subseteq Keys
  BY <1>1 DEF Owned, HasKey
<1>4. \A k \in Owned : Bounded(cycles'[k], k)
  BY <1>1, <1>3, RolledBounded DEF KeysInv, MemoryBounded
<1> HIDE DEF made, done, due
<1>5. MemoryBounded'
  BY <1>3, <1>1, <1>4 DEF MemoryBounded, Bounded
<1>6. PlanBounded'
  <2>1. plan'.pc \in {"history", "live"} => plan'.cycles = cycles'
    BY <1>1, <1>2
  <2> QED BY <1>1, <1>3, <1>4, <2>1 DEF PlanBounded, Bounded
<1>7. LiveBounded'
  BY <1>1, <1>3 DEF KeysInv, LiveBounded, Bounded
<1>8. Forgotten'
  <2>1. ASSUME NEW k \in Keys, Going(k) PROVE Going(k)'
    BY <1>1, <2>1 DEF Going
  <2> QED BY <1>1, <2>1 DEF KeysInv, Forgotten, Rolled
<1>9. AdminHolds'
  BY <1>1, <1>2 DEF KeysInv, AdminHolds
<1> QED BY <1>5, <1>6, <1>7, <1>8, <1>9 DEF KeysInv

LEMMA KeysWrite ==
  ASSUME TypeOK, KeysInv, WriteHistory \/ WriteHistoryFails \/ WriteLive \/ WriteLiveFails
  PROVE  KeysInv'
<1>1. /\ up /\ plan.pc \in {"history", "live"} /\ plan'.cycles = plan.cycles /\ plan'.by = plan.by
      /\ UNCHANGED <<up, cycles, admin, state, since, mayInherit>>
      /\ \/ UNCHANGED <<live, recreated>>
         \/ live' = LiveFile(Reached(plan), plan.days, plan.cycles) /\ recreated' \in {recreated, {}}
  <2>1. CASE WriteHistory \/ WriteHistoryFails
    BY <2>1 DEF WriteHistory, WriteHistoryFails, TypeOK, FlushPlan, ledger, store, ghosts
  <2>2. CASE WriteLive \/ WriteLiveFails
    BY <2>2 DEF WriteLive, WriteLiveFails, TypeOK, FlushPlan, ledger, store, ghosts
  <2> QED BY <2>1, <2>2
<1>2. Owned' = Owned
  BY <1>1 DEF Owned, HasKey
<1>3. MemoryBounded' /\ PlanBounded'
  BY <1>1, <1>2 DEF KeysInv, MemoryBounded, PlanBounded, Bounded
<1>4. LiveBounded'
  BY <1>1, <1>2 DEF KeysInv, PlanBounded, LiveBounded, Bounded, LiveFile
<1>5. Forgotten' /\ AdminHolds'
  BY <1>1 DEF KeysInv, Forgotten, AdminHolds, Going
<1> QED BY <1>3, <1>4, <1>5 DEF KeysInv

LEMMA KeysMarkFlushed == ASSUME TypeOK, KeysInv, MarkFlushed PROVE KeysInv'
<1>1. /\ up /\ plan.pc \in {"done", "failed"} /\ plan'.pc = "idle" /\ admin' = IF plan.by = "delete" THEN Idle ELSE admin
      /\ UNCHANGED <<up, cycles, live, state, since, recreated, mayInherit>>
  BY DEF MarkFlushed, files, ghosts, NoPlan
<1>2. Owned' = Owned
  BY <1>1 DEF Owned, HasKey
<1>3. MemoryBounded' /\ PlanBounded' /\ LiveBounded'
  BY <1>1, <1>2 DEF KeysInv, MemoryBounded, PlanBounded, LiveBounded, Bounded
<1>4. \A k \in Keys : Going(k) => Going(k)'
  BY <1>1 DEF KeysInv, AdminHolds, Going
<1>5. Forgotten' /\ AdminHolds'
  BY <1>1, <1>4 DEF KeysInv, Forgotten, AdminHolds, Idle
<1> QED BY <1>3, <1>5 DEF KeysInv

LEMMA KeysHalt == ASSUME KeysInv, Halt PROVE KeysInv'
<1>1. /\ ~up' /\ plan'.pc = "idle" /\ admin'.op = "idle"
      /\ UNCHANGED <<live, state, since, recreated, mayInherit>>
  BY DEF Halt, NoPlan, Idle, files, ghosts
<1>2. LiveBounded'
  BY <1>1 DEF KeysInv, LiveBounded, Bounded, Owned, HasKey
<1> QED BY <1>1, <1>2 DEF KeysInv, MemoryBounded, PlanBounded, Forgotten, AdminHolds

\* A start opens the periods of the live file, which are the key's own unless
\* the key was recreated since the file was written.
LEMMA KeysRestart == ASSUME TypeOK, KeysInv, Restart PROVE KeysInv'
<1>1. /\ UNCHANGED <<live, state, since>> /\ cycles' = SyncCycles /\ plan'.pc = "idle" /\ admin'.op = "idle"
      /\ recreated' = {} /\ mayInherit' = mayInherit \cup recreated
  BY DEF Restart, NoPlan, Idle, files
<1>2. Owned' = Owned \ recreated /\ Owned \subseteq Keys
  BY <1>1 DEF Owned, HasKey
<1>3. \A k \in Owned' : Bounded(live.cycles[k], k)
  BY <1>2 DEF KeysInv, LiveBounded
<1>4. \A k \in Owned' : Bounded(cycles'[k], k)
  <2>1. \A k \in Owned' : cycles'[k] = Opened(k)
    BY <1>1, <1>2 DEF SyncCycles, Owned, HasKey, TypeOK
  <2>2. \A k \in Owned' : Bounded(Opened(k), k)
    BY <1>2, <1>3, OpenedBounded DEF Opened
  <2> QED BY <2>1, <2>2
<1>5. MemoryBounded' /\ PlanBounded' /\ LiveBounded'
  BY <1>1, <1>3, <1>4 DEF MemoryBounded, PlanBounded, LiveBounded, Bounded
<1>6. Forgotten' /\ AdminHolds'
  BY <1>1 DEF Forgotten, AdminHolds, SyncCycles
<1> QED BY <1>5, <1>6 DEF KeysInv

LEMMA KeysStep == ASSUME TypeOK, FilesInStep, KeysInv, [Next]_vars PROVE KeysInv'
<1>1. ASSUME NEW k \in Keys, FindKey(k) PROVE KeysInv'
  BY <1>1, KeysRolled DEF FindKey, ledger, files, ghosts
<1>2. ASSUME NEW k \in Keys, Record(k) \/ ReadUsage(k) PROVE KeysInv'
  BY <1>2, KeysRecord, KeysRead
<1>3. ASSUME NEW k \in Keys, CreateKey(k) PROVE KeysInv'
  BY <1>3, KeysCreate
<1>4. ASSUME NEW k \in Keys, DeleteKey(k) PROVE KeysInv'
  BY <1>4, KeysDelete
<1>5. CASE PublishKey
  BY <1>5, KeysPublish
<1>6. CASE UnpublishKey \/ ForgetKey
  <2>1. admin.key \in Keys
    BY <1>6 DEF UnpublishKey, ForgetKey, TypeOK, Mutation, Idle
  <2> QED BY <1>6, <2>1, KeysDelete
<1>7. ASSUME NEW k \in Keys, NEW w \in Windows, ResetWindow(k, w) \/ ResetWindowFails(k, w) PROVE KeysInv'
  BY <1>7, KeysReset
<1>8. ASSUME NEW by \in {"tick", "delete", "shutdown"}, PlanFlush(by) PROVE KeysInv'
  BY <1>8, KeysPlan
<1>9. CASE WriteHistory \/ WriteHistoryFails \/ WriteLive \/ WriteLiveFails
  BY <1>9, KeysWrite
<1>10. CASE MarkFlushed
  BY <1>10, KeysMarkFlushed
<1>11. CASE Crash \/ Shutdown
  BY <1>11, KeysHalt DEF Crash, Shutdown
<1>12. CASE Restart
  BY <1>12, KeysRestart
<1>13. CASE NextDay \/ TurnClockBack \/ UNCHANGED vars
  BY <1>13, KeysRolled DEF NextDay, TurnClockBack, vars, ledger, store, files, ghosts
<1> QED BY <1>1, <1>2, <1>3, <1>4, <1>5, <1>6, <1>7, <1>8, <1>9, <1>10, <1>11, <1>12, <1>13 DEF Next, FlushStep

(* A key recreated under a deleted id starts its own periods: they never count
   more than was billed since its creation, whatever deletions, flushes, resets
   and crashes came before, unless a crash came while the live file still held
   the deleted key's periods. *)
THEOREM NoInheritance == Spec => []NoInheritedUsage
<1>1. TypeOK /\ FilesInStep /\ KeysInv /\ [Next]_vars => KeysInv'
  BY KeysStep
<1>2. KeysInv => NoInheritedUsage
  BY DEF KeysInv, MemoryBounded, Owned, Bounded, NoInheritedUsage
<1> QED BY KeysInit, TypeCorrect, FilesStayInStep, <1>1, <1>2, PTL DEF Spec

----------------------------------------------------------------------------
\* Charges: what one record is billed

\* A sanitized record has natural counts.
LEMMA DetailType ==
  ASSUME NEW d \in Detail
  PROVE  /\ d["input"] \in 0..MaxTokens /\ d["output"] \in 0..MaxTokens /\ d["reasoning"] \in 0..MaxTokens
         /\ d["cacheRead"] \in 0..MaxTokens /\ d["cacheCreation"] \in 0..MaxTokens
         /\ d["total"] \in 0..MaxTokens
BY DEF Detail, Fields, Billed

\* The classes of one record are natural numbers.
LEMMA SplitType ==
  ASSUME NEW semantics \in Semantics, NEW d \in Detail, NEW apart \in BOOLEAN
  PROVE  /\ FreshInput(semantics, d, apart) \in Nat
         /\ CacheRead(semantics, d) \in Nat /\ CacheWrite(semantics, d, apart) \in Nat
         /\ Output(semantics, d) \in Nat
BY DetailType, ChargesAssumption DEF FreshInput, CacheRead, CacheWrite, Output, ReasoningApart, Least

(* Every token of a record is counted in one class, however its provider
   reports cache reads, cache writes and reasoning (splitTokens). *)
LEMMA TokensAreCountedOnce == TokensCountOnce
<1> SUFFICES ASSUME NEW semantics \in Semantics, NEW d \in Detail, NEW apart \in BOOLEAN
             PROVE  /\ FreshInput(semantics, d, apart) + CacheRead(semantics, d) + CacheWrite(semantics, d, apart)
                         = Prompt(semantics, d)
                    /\ Output(semantics, d) \in d["output"]..(d["output"] + d["reasoning"])
  BY SplitType DEF TokensCountOnce
<1>1. FreshInput(semantics, d, apart) + CacheRead(semantics, d) + CacheWrite(semantics, d, apart) = Prompt(semantics, d)
  BY DetailType, ChargesAssumption DEF FreshInput, CacheRead, CacheWrite, Prompt, Least
<1>2. Output(semantics, d) \in d["output"]..(d["output"] + d["reasoning"])
  BY DetailType, ChargesAssumption DEF Output
<1> QED BY <1>1, <1>2

----------------------------------------------------------------------------

\* Products of naturals grow with their factors.
LEMMA ProductMonotone ==
  ASSUME NEW a \in Nat, NEW b \in Nat, NEW c \in Nat, NEW e \in Nat, a <= c, b <= e
  PROVE  a * b \in Nat /\ a * b <= c * e
<1>1. a * b \in Nat /\ c * b \in Nat /\ c * e \in Nat
  OBVIOUS
<1>2. (c - a) * b >= 0
  OBVIOUS
<1>3. a * b <= c * b
  BY <1>1, <1>2
<1>4. c * (e - b) >= 0
  OBVIOUS
<1>5. c * b <= c * e
  BY <1>1, <1>4
<1> QED BY <1>1, <1>3, <1>5

\* Rounding keeps the order.
LEMMA RoundMonotone ==
  ASSUME NEW x \in Nat, NEW y \in Nat, x <= y
  PROVE  (x + 5) \div 10 \in Nat /\ (x + 5) \div 10 <= (y + 5) \div 10
OBVIOUS

\* A charge grows with its tokens, price and multiplier.
LEMMA ChargedMonotone ==
  ASSUME NEW t \in Nat, NEW p \in Nat, NEW m \in Nat, NEW u \in Nat, NEW q \in Nat, NEW n \in Nat,
         t <= u, p <= q, m <= n
  PROVE  Charged(t, p, m) \in Nat /\ Charged(t, p, m) <= Charged(u, q, n)
<1>1. t * p \in Nat /\ u * q \in Nat /\ t * p <= u * q
  BY ProductMonotone
<1>2. (t * p) * m \in Nat /\ (u * q) * n \in Nat /\ (t * p) * m <= (u * q) * n
  BY <1>1, ProductMonotone
<1> QED BY <1>2, RoundMonotone DEF Charged

\* With the same tokens and price, it grows with the multiplier.
LEMMA MultiplierMonotone ==
  ASSUME NEW t \in Nat, NEW p \in Nat, NEW m \in Nat, NEW n \in Nat, m <= n
  PROVE  Charged(t, p, m) \in Nat /\ Charged(t, p, m) <= Charged(t, p, n)
<1>1. t <= t /\ p <= p
  OBVIOUS
<1> QED BY <1>1, ChargedMonotone

\* What a row charges for each class is a natural price.
LEMMA PriceType ==
  ASSUME NEW row \in Row
  PROVE  /\ row.input \in Nat /\ row.output \in Nat /\ row.multiplier \in Nat /\ row.multiplier >= 100
         /\ ReadPrice(row) \in Nat /\ WritePrice(row) \in Nat
         /\ row.input <= MaxPrice /\ row.output <= MaxPrice /\ row.multiplier <= MaxMultiplier
         /\ ReadPrice(row) <= MaxPrice /\ WritePrice(row) <= MaxPrice
BY ChargesAssumption DEF Row, Price, ReadPrice, WritePrice

\* A row that is not priced has no token price at all.
LEMMA UnpricedIsFree ==
  ASSUME NEW row \in Row, row.mode = "tokens", ~Priced(row)
  PROVE  row.input = 0 /\ row.output = 0 /\ ReadPrice(row) = 0 /\ WritePrice(row) = 0
BY ChargesAssumption DEF Row, Price, Priced, ReadPrice, WritePrice

(* The bucket of a token row: a sum never below its cache amounts or the list
   cost, and nothing without a price or without tokens. *)
LEMMA BillTokensAddUp ==
  ASSUME NEW row \in Row, NEW semantics \in Semantics, NEW d \in Detail
  PROVE  LET bucket == BillTokens(row, semantics, d, row.multiplier)
         IN  /\ bucket \in Bucket
             /\ bucket.readCost + bucket.writeCost <= bucket.charged
             /\ BillTokens(row, semantics, d, 100).charged <= bucket.charged
             /\ row.mode = "tokens" /\ ~Priced(row) => bucket.charged = 0
             /\ NoTokens(bucket) => bucket.charged = 0
<1> DEFINE apart == row.write # NoPrice
           in == FreshInput(semantics, d, apart)
           read == CacheRead(semantics, d)
           write == CacheWrite(semantics, d, apart)
           out == Output(semantics, d)
           Cost(m) == Charged(in, row.input, m) + Charged(read, ReadPrice(row), m)
                      + Charged(write, WritePrice(row), m) + Charged(out, row.output, m)
<1>1. in \in Nat /\ read \in Nat /\ write \in Nat /\ out \in Nat
  BY SplitType
<1>2. ASSUME NEW m \in Nat
      PROVE  /\ BillTokens(row, semantics, d, m) =
                 [calls |-> 1, unpriced |-> 0, input |-> in, cacheRead |-> read,
                  cacheWrite |-> write, output |-> out, charged |-> BillTokens(row, semantics, d, m).charged,
                  readCost |-> Charged(read, ReadPrice(row), m), writeCost |-> Charged(write, WritePrice(row), m)]
             /\ BillTokens(row, semantics, d, m).charged = Cost(m)
  <2> HIDE DEF in, read, write, out
  <2> QED BY DEF BillTokens, in, read, write, out, apart
<1> HIDE DEF in, read, write, out, apart
<1>3. ASSUME NEW m \in Nat, NEW n \in Nat, m <= n
      PROVE  /\ Charged(in, row.input, m) \in Nat /\ Charged(in, row.input, m) <= Charged(in, row.input, n)
             /\ Charged(read, ReadPrice(row), m) \in Nat /\ Charged(read, ReadPrice(row), m) <= Charged(read, ReadPrice(row), n)
             /\ Charged(write, WritePrice(row), m) \in Nat /\ Charged(write, WritePrice(row), m) <= Charged(write, WritePrice(row), n)
             /\ Charged(out, row.output, m) \in Nat /\ Charged(out, row.output, m) <= Charged(out, row.output, n)
  <2>1. /\ row.input \in Nat /\ row.output \in Nat
        /\ ReadPrice(row) \in Nat /\ WritePrice(row) \in Nat
    BY PriceType
  <2>2. \A t \in Nat, p \in Nat : Charged(t, p, m) \in Nat /\ Charged(t, p, m) <= Charged(t, p, n)
    BY <1>3, MultiplierMonotone
  <2> QED BY <1>1, <2>1, <2>2
<1>4. row.multiplier \in Nat /\ 100 <= row.multiplier
  BY PriceType
<1>5. BillTokens(row, semantics, d, row.multiplier) \in Bucket
  <2>1. Cost(row.multiplier) \in Nat
    BY <1>3, <1>4
  <2> HIDE DEF Cost
  <2> QED BY <1>1, <1>2, <1>3, <1>4, <2>1 DEF Bucket
<1>6. Charged(read, ReadPrice(row), row.multiplier) + Charged(write, WritePrice(row), row.multiplier) <= Cost(row.multiplier)
  BY <1>3, <1>4
<1>7. Cost(100) <= Cost(row.multiplier)
  <2>1. 100 \in Nat
    OBVIOUS
  <2>2. /\ Charged(in, row.input, 100) <= Charged(in, row.input, row.multiplier)
        /\ Charged(read, ReadPrice(row), 100) <= Charged(read, ReadPrice(row), row.multiplier)
        /\ Charged(write, WritePrice(row), 100) <= Charged(write, WritePrice(row), row.multiplier)
        /\ Charged(out, row.output, 100) <= Charged(out, row.output, row.multiplier)
    BY <1>3, <1>4, <2>1
  <2>3. \A m \in {100, row.multiplier} :
          /\ Charged(in, row.input, m) \in Nat /\ Charged(read, ReadPrice(row), m) \in Nat
          /\ Charged(write, WritePrice(row), m) \in Nat /\ Charged(out, row.output, m) \in Nat
    <3>1. \A m \in Nat : m <= m
      OBVIOUS
    <3> QED BY <1>3, <1>4, <2>1, <3>1
  <2> QED BY <2>2, <2>3
<1>8. ASSUME row.mode = "tokens", ~Priced(row)
      PROVE  Cost(row.multiplier) = 0
  <2>1. /\ in * 0 = 0 /\ read * 0 = 0 /\ write * 0 = 0 /\ out * 0 = 0 /\ 0 * row.multiplier = 0
    BY <1>1, <1>4
  <2>2. \A t \in Nat : Charged(t, 0, row.multiplier) = 0
    BY <1>4 DEF Charged
  <2> QED BY <1>1, <1>8, <2>2, UnpricedIsFree
<1>9. ASSUME in = 0, read = 0, write = 0, out = 0
      PROVE  Cost(row.multiplier) = 0
  <2>1. ASSUME NEW p \in Nat
        PROVE  Charged(0, p, row.multiplier) = 0
    <3>1. 0 * p = 0 /\ 0 * row.multiplier = 0
      BY <1>4
    <3> QED BY <3>1 DEF Charged
  <2>2. row.input \in Nat /\ row.output \in Nat /\ ReadPrice(row) \in Nat /\ WritePrice(row) \in Nat
    BY PriceType
  <2> QED BY <1>9, <2>1, <2>2
<1> HIDE DEF Cost
<1>10. NoTokens(BillTokens(row, semantics, d, row.multiplier)) => Cost(row.multiplier) = 0
  BY <1>2, <1>4, <1>9 DEF NoTokens
<1> QED BY <1>2, <1>4, <1>5, <1>6, <1>7, <1>8, <1>10

\* What sanitizeDetail lets pass.
LEMMA SanitizedType ==
  ASSUME NEW detail \in Reported, ~Invalid(detail)
  PROVE  Sanitized(detail) \in Detail
<1>1. ASSUME NEW f \in Fields
      PROVE  detail[f] \in Int /\ (f \in Billed => detail[f] <= MaxTokens)
  <2>1. detail[f] \in Counts
    BY DEF Reported
  <2>2. detail[f] \in Int
    BY <2>1, ChargesAssumption
  <2>3. f \in Billed => ~(detail[f] > MaxTokens)
    BY DEF Invalid
  <2> QED BY <2>2, <2>3, ChargesAssumption
<1>2. ASSUME NEW f \in Fields
      PROVE  (IF detail[f] < 0 \/ (f \notin Billed /\ detail[f] > MaxTokens) THEN 0 ELSE detail[f]) \in 0..MaxTokens
  BY <1>1, ChargesAssumption
<1> QED BY <1>2 DEF Sanitized, Detail

\* What becomes of one record.
LEMMA RecordAddsUp ==
  ASSUME NEW row \in Row, NEW semantics \in Semantics, NEW detail \in Reported, NEW awaited \in BOOLEAN,
         NEW bucket, bucket = Recorded(row, semantics, detail, awaited).bucket
  PROVE  /\ bucket \in Bucket
         /\ bucket.readCost + bucket.writeCost <= bucket.charged
         /\ ListCost(row, semantics, detail, awaited) <= bucket.charged
         /\ ~Priced(row) => bucket.charged = 0
<1> DEFINE bill == BillTokens(row, semantics, Sanitized(detail), row.multiplier)
<1>1. NoBucket \in Bucket /\ NoBucket.charged = 0 /\ NoBucket.readCost = 0 /\ NoBucket.writeCost = 0
  BY DEF NoBucket, Bucket
<1>2. row.mode \in {"tokens", "per_call"}
  BY DEF Row
<1>3. CASE Invalid(detail)
  <2>1. bucket = NoBucket /\ ListCost(row, semantics, detail, awaited) = 0
    BY <1>3 DEF Recorded, ListCost
  <2> QED BY <1>1, <2>1
<1>4. CASE ~Invalid(detail) /\ row.mode = "per_call"
  <2>1. CASE ~awaited
    <3>1. bucket = NoBucket /\ ListCost(row, semantics, detail, awaited) = 0
      BY <1>4, <2>1 DEF Recorded, ListCost
    <3> QED BY <1>1, <3>1
  <2>2. CASE awaited
    <3>1. PerCall(row) \in Nat /\ (~Priced(row) => PerCall(row) = 0)
      BY <1>4, ChargesAssumption DEF Row, Price, PerCall, Priced
    <3>2. bucket = [calls |-> 1, unpriced |-> IF Priced(row) THEN 0 ELSE 1, input |-> 0, cacheRead |-> 0,
                    cacheWrite |-> 0, output |-> 0, charged |-> PerCall(row), readCost |-> 0, writeCost |-> 0]
      BY <1>4, <2>2 DEF Recorded, NoBucket
    <3>3. /\ bucket \in Bucket /\ bucket.charged = PerCall(row)
          /\ bucket.readCost = 0 /\ bucket.writeCost = 0
      BY <3>1, <3>2 DEF Bucket
    <3>4. ListCost(row, semantics, detail, awaited) \in {0, PerCall(row)}
      BY <1>4 DEF ListCost
    <3> QED BY <3>1, <3>3, <3>4
  <2> QED BY <2>1, <2>2
<1>5. CASE ~Invalid(detail) /\ row.mode = "tokens"
  <2>1. Sanitized(detail) \in Detail
    BY <1>5, SanitizedType
  <2>2. /\ bill \in Bucket
        /\ bill.readCost + bill.writeCost <= bill.charged
        /\ BillTokens(row, semantics, Sanitized(detail), 100).charged <= bill.charged
        /\ ~Priced(row) => bill.charged = 0
        /\ NoTokens(bill) => bill.charged = 0
    BY <1>5, <2>1, BillTokensAddUp
  <2>3. \/ ListCost(row, semantics, detail, awaited) = 0
        \/ ListCost(row, semantics, detail, awaited) = BillTokens(row, semantics, Sanitized(detail), 100).charged
    BY <1>5 DEF ListCost
  <2> HIDE DEF bill
  <2>4. bill.charged \in Nat /\ bill.readCost \in Nat /\ bill.writeCost \in Nat
    BY <2>2 DEF Bucket
  <2>5. CASE Priced(row) /\ NoTokens(bill)
    <3>1. bucket = NoBucket
      BY <1>5, <2>5 DEF Recorded, bill
    <3>2. bill.charged = 0
      BY <2>2, <2>5
    <3>3. ListCost(row, semantics, detail, awaited) <= 0
      BY <2>2, <2>3, <2>4, <3>2
    <3> QED BY <1>1, <2>5, <3>1, <3>3
  <2>6. CASE ~(Priced(row) /\ NoTokens(bill))
    <3>1. bucket = [bill EXCEPT !.unpriced = IF Priced(row) THEN 0 ELSE 1]
      BY <1>5, <2>6 DEF Recorded, bill
    <3>2. /\ bucket \in Bucket /\ bucket.charged = bill.charged
          /\ bucket.readCost = bill.readCost /\ bucket.writeCost = bill.writeCost
      BY <2>2, <3>1 DEF Bucket
    <3>3. ListCost(row, semantics, detail, awaited) <= bill.charged
      BY <2>2, <2>3, <2>4
    <3> QED BY <2>2, <3>2, <3>3
  <2> QED BY <2>5, <2>6
<1> QED BY <1>2, <1>3, <1>4, <1>5

(* Every token is counted once, a charge is the sum of its classes and never
   below the cache amounts or the list cost, and nothing without a price,
   whatever row an operator writes or deletes and whatever counts CPA reports
   (RecordUsage, ListCost). *)
THEOREM ChargesAreSums == ChargesSpec => []ChargesAddUp
<1> DEFINE Inv == priceRow \in Row \cup {NoPrice}
<1>1. ChargesInit => Inv
  BY DEF ChargesInit
<1>2. Inv /\ [SetsRow \/ DropsRow]_priceRow => Inv'
  <2>1. NoRow \in Row
    BY ChargesAssumption DEF NoRow, Row, Price
  <2> QED BY <2>1 DEF SetsRow, DropsRow, Accepted
<1>3. Inv => ChargesAddUp
  BY TokensAreCountedOnce, RecordAddsUp DEF ChargesAddUp
<1> QED BY <1>1, <1>2, <1>3, PTL DEF ChargesSpec

----------------------------------------------------------------------------

(* What one record can charge at most.  With the limits of the code, 2^31
   tokens, 10000 dollars and a multiplier of 50, it is 6.5e18 and fits an
   int64 (money.go:54); the input of an independent provider and the output
   with reasoning hold up to twice MaxTokens. *)
THEOREM ChargesAreBounded ==
  ASSUME NEW row \in Row, NEW semantics \in Semantics, NEW d \in Detail
  PROVE  BillTokens(row, semantics, d, row.multiplier).charged
           <= 2 * Charged(2 * MaxTokens, MaxPrice, MaxMultiplier) + 2 * Charged(MaxTokens, MaxPrice, MaxMultiplier)
<1> DEFINE apart == row.write # NoPrice
           in == FreshInput(semantics, d, apart)
           read == CacheRead(semantics, d)
           write == CacheWrite(semantics, d, apart)
           out == Output(semantics, d)
           twice == 2 * MaxTokens
<1>1. in \in Nat /\ read \in Nat /\ write \in Nat /\ out \in Nat
  BY SplitType
<1>2. in <= twice /\ read <= MaxTokens /\ write <= MaxTokens /\ out <= twice
  BY DetailType, ChargesAssumption DEF FreshInput, CacheRead, CacheWrite, Output, Least
<1>3. MaxTokens \in Nat /\ twice \in Nat /\ MaxPrice \in Nat /\ MaxMultiplier \in Nat
  BY ChargesAssumption
<1>4. BillTokens(row, semantics, d, row.multiplier).charged =
        Charged(in, row.input, row.multiplier) + Charged(read, ReadPrice(row), row.multiplier)
        + Charged(write, WritePrice(row), row.multiplier) + Charged(out, row.output, row.multiplier)
  BY DEF BillTokens
<1> HIDE DEF in, read, write, out, twice
<1>5. /\ Charged(in, row.input, row.multiplier) \in Nat
      /\ Charged(in, row.input, row.multiplier) <= Charged(twice, MaxPrice, MaxMultiplier)
  BY <1>1, <1>2, <1>3, PriceType, ChargedMonotone
<1>6. /\ Charged(out, row.output, row.multiplier) \in Nat
      /\ Charged(out, row.output, row.multiplier) <= Charged(twice, MaxPrice, MaxMultiplier)
  BY <1>1, <1>2, <1>3, PriceType, ChargedMonotone
<1>7. /\ Charged(read, ReadPrice(row), row.multiplier) \in Nat
      /\ Charged(read, ReadPrice(row), row.multiplier) <= Charged(MaxTokens, MaxPrice, MaxMultiplier)
  BY <1>1, <1>2, <1>3, PriceType, ChargedMonotone
<1>8. /\ Charged(write, WritePrice(row), row.multiplier) \in Nat
      /\ Charged(write, WritePrice(row), row.multiplier) <= Charged(MaxTokens, MaxPrice, MaxMultiplier)
  BY <1>1, <1>2, <1>3, PriceType, ChargedMonotone
<1>9. Charged(twice, MaxPrice, MaxMultiplier) \in Nat /\ Charged(MaxTokens, MaxPrice, MaxMultiplier) \in Nat
  <2>1. MaxMultiplier <= MaxMultiplier
    BY <1>3
  <2> QED BY <1>3, <2>1, MultiplierMonotone
<1>10. Charged(2 * MaxTokens, MaxPrice, MaxMultiplier) = Charged(twice, MaxPrice, MaxMultiplier)
  BY DEF twice
<1> QED BY <1>4, <1>5, <1>6, <1>7, <1>8, <1>9, <1>10

----------------------------------------------------------------------------

(* A row that was accepted is accepted again, and unchanged, when the state
   file it was written to is loaded (normalizeModelPrices). *)
THEOREM RowsStayAccepted ==
  ASSUME NEW row \in [mode : STRING, multiplier : Int, input : Int, output : Int, read : Int,
                      write : Int \cup {NoPrice}, call : Int],
         Accepted(row)
  PROVE  Accepted(Normalized(row)) /\ Normalized(Normalized(row)) = Normalized(row)
<1> DEFINE new == Normalized(row)
<1>1. new \in Row
  BY DEF Accepted
<1> HIDE DEF new
<1>2. new.mode # ""
  <2>1. new.mode \in {"tokens", "per_call"}
    BY <1>1 DEF Row
  <2>2. "tokens" # "" /\ "per_call" # ""
    OBVIOUS
  <2> QED BY <2>1, <2>2
<1>3. new.multiplier # 0
  BY <1>1, ChargesAssumption DEF Row
<1>4. Normalized(new) = new
  BY <1>1, <1>2, <1>3 DEF Normalized, Row
<1> QED BY <1>1, <1>4 DEF Accepted, new

\* What lookup finds is a row of the table, or none.
LEMMA LookupType ==
  ASSUME NEW table, NEW provider, NEW name, \A key \in DOMAIN table : table[key] \in Row
  PROVE  Lookup(table, provider, name) \in Row
<1>1. NoRow \in Row
  BY ChargesAssumption DEF NoRow, Row, Price
<1> QED BY <1>1 DEF Lookup

\* Buckets add up to buckets.
LEMMA PlusType ==
  ASSUME NEW b \in Bucket, NEW c \in Bucket
  PROVE  Plus(b, c) \in Bucket
BY DEF Plus, Bucket, NoBucket
===============================================================================
