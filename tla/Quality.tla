------------------------------- MODULE Quality -------------------------------
(***************************************************************************)
(* Detection tests and the inspection of internal/quality, and their part  *)
(* of a hot replacement: tests on credentials and the history they write   *)
(* with a delay, rounds that ask the channels of a group at scheduled      *)
(* times and let the group follow what answered, stop, handoff, rollback.  *)
(*                                                                         *)
(* A record is a number and a test is of one kind, since a credential runs *)
(* one at a time. There is one group, and a slot is a time of one day. The *)
(* questions, answers and scores, Codex plans, retention and files that    *)
(* cannot be read are left out.                                            *)
(***************************************************************************)
EXTENDS Integers, FiniteSets

CONSTANTS
  Instances,       \* the older and the newer plugin instance
  Credentials,     \* what tests run on
  Channels,        \* what rounds ask
  None,
  LastSlot,        \* scheduled times
  Limit,           \* channels of a group, the ignored ones included
  MaxRecords,      \* bound: records tests make
  MaxRounds,       \* bound: rounds started
  MaxEdits,        \* bound: settings saved and histories cleared
  MaxReplacements, \* bound: hot replacements begun
  MaxRestarts,     \* bound: crashes and restarts
  Failures         \* a write fails ("save"), or only its directory sync, after the
                   \* rename has replaced the file ("sync")

ASSUME QualityAssumption ==
  /\ \E older, newer \in Instances : older # newer /\ Instances = {older, newer}
  /\ None \notin Instances /\ IsFiniteSet(Channels)
  /\ LastSlot \in Nat /\ Limit \in Nat
  /\ MaxRecords \in Nat /\ MaxRounds \in Nat /\ MaxEdits \in Nat /\ MaxReplacements \in Nat /\ MaxRestarts \in Nat
  /\ Failures \subseteq {"save", "sync"}

Slots == 1..LastSlot
Records == 1..MaxRecords

Group == [channels : SUBSET Channels, ignored : SUBSET Channels]

\* What normalizeInspection accepts, of operators and of the file.
Groups == {g \in Group : g.channels \cap g.ignored = {} /\ Cardinality(g.channels) + Cardinality(g.ignored) <= Limit}

\* A round under way: its slot (0 when the operator started it), the group's
\* channels at its start, those it asks, and those CPA does not list.
Round == [slot : 0..LastSlot, members : SUBSET Channels, asked : SUBSET Channels, missing : SUBSET Channels,
          cancelled : BOOLEAN, checked : BOOLEAN]
NoRound == [slot |-> 0, members |-> {}, asked |-> {}, missing |-> {}, cancelled |-> FALSE, checked |-> FALSE]

Inspection == [rounds : [Slots -> Nat], group : Group]
EmptyInspection == [rounds |-> [s \in Slots |-> 0], group |-> [channels |-> {}, ignored |-> {}]]

\* Service; asked: a run passed its checks and has not started its tests yet;
\* failed: the last history write failed.
Service ==
  [asked : BOOLEAN, tests : [Credentials -> {"idle", "running", "cancelled"}], hist : SUBSET Records,
   dirty : BOOLEAN, armed : BOOLEAN, timer : BOOLEAN, fired : 0..2, failed : BOOLEAN, stopped : BOOLEAN,
   inspection : Inspection, round : Round, due : 0..LastSlot]
Opened(h, inspection) ==
  [asked |-> FALSE, tests |-> [c \in Credentials |-> "idle"], hist |-> h,
   dirty |-> FALSE, armed |-> FALSE, timer |-> FALSE, fired |-> 0, failed |-> FALSE, stopped |-> FALSE,
   inspection |-> inspection, round |-> NoRound, due |-> 0]

VARIABLES
  service,     \* each instance's Service
  life,        \* "none", "open", "stopping" or "closed"
  owner,       \* the instance that may write the files
  phase,       \* serving: one instance; handoff: it waits for its tests; quiesced: it
               \* gave the files up; loaded: the newer one took them
  serving,     \* the instance CPA calls
  clock,       \* the latest slot that has come
  history,     \* the history file
  inspectionFile,
  \* history variables and bounds
  unsaved,     \* records a save skipped because the instance did not own the files
  ran,         \* rounds recorded for a slot and kept
  dropped,     \* slots recorded by a newer instance that was then rolled back
  records, started, edits, replacements, restarts

files == <<history, inspectionFile>>
cpa == <<life, owner, phase, serving>>
past == <<unsaved, ran, dropped>>
bounds == <<records, started, edits, replacements, restarts>>
vars == <<service, cpa, clock, files, past, bounds>>

TypeOK ==
  /\ service \in [Instances -> Service]
  /\ life \in [Instances -> {"none", "open", "stopping", "closed"}]
  /\ owner \in Instances \cup {None} /\ serving \in Instances
  /\ phase \in {"serving", "handoff", "quiesced", "loaded"}
  /\ clock \in 0..LastSlot
  /\ history \subseteq Records /\ inspectionFile \in Inspection
  /\ unsaved \subseteq Records
  /\ ran \in [Slots -> Nat] /\ dropped \subseteq Slots

Newer == CHOOSE i \in Instances : i # serving
Live(i) == life[i] \in {"open", "stopping"}

\* A management write: it holds writeMu shared, so none is under way during
\* a handoff, and a quiesced instance refuses it.
MayWrite(i) == Live(i) /\ i = serving /\ owner = i /\ phase = "serving"

----------------------------------------------------------------------------
\* The history (store.go)

\* saveLocked: without the files nothing is written, and the records count
\* as saved. file is what a write leaves on disk, skipped what it did not write.
Saves_Unowned(i, s) == {[s |-> [s EXCEPT !.dirty = FALSE, !.failed = FALSE], file |-> s.hist, skipped |-> {}]}
Saves(i, s) ==
  IF owner # i
  THEN {[s |-> [s EXCEPT !.dirty = FALSE, !.failed = FALSE], file |-> history, skipped |-> s.hist \ history]}
  ELSE {[s |-> [s EXCEPT !.dirty = FALSE, !.failed = FALSE], file |-> s.hist, skipped |-> {}]}
       \cup {[s |-> [s EXCEPT !.failed = TRUE], file |-> IF f = "sync" THEN s.hist ELSE history, skipped |-> {}] :
             f \in Failures}

\* Each outcome of saving the service s of i.
SaveTo(i, s) ==
  \E r \in Saves(i, s) :
    /\ service' = [service EXCEPT ![i] = r.s]
    /\ history' = r.file
    /\ unsaved' = unsaved \cup r.skipped

\* markDirtyLocked arms the timer; a stopped service schedules no write.
Marked(s) ==
  IF s.armed \/ s.stopped THEN [s EXCEPT !.dirty = TRUE]
  ELSE [s EXCEPT !.dirty = TRUE, !.armed = TRUE, !.timer = TRUE, !.failed = FALSE]

\* flushNowLocked stops the timer; a callback that waits for the lock finds
\* nothing armed.
Disarmed_Timer(s) == [s EXCEPT !.timer = FALSE]
Disarmed(s) == [s EXCEPT !.timer = FALSE, !.armed = FALSE]

TimerFires(i) ==
  /\ Live(i) /\ service[i].timer /\ service[i].fired < 2
  /\ service' = [service EXCEPT ![i].timer = FALSE, ![i].fired = @ + 1]
  /\ UNCHANGED <<cpa, clock, files, past, bounds>>

\* flushHistory, when it gets the lock.
Flush(i) ==
  /\ Live(i) /\ service[i].fired > 0
  /\ LET s == [service[i] EXCEPT !.fired = @ - 1, !.armed = FALSE] IN
     IF service[i].armed /\ s.dirty THEN SaveTo(i, s)
     ELSE service' = [service EXCEPT ![i] = s] /\ UNCHANGED <<history, unsaved>>
  /\ UNCHANGED <<cpa, clock, inspectionFile, ran, dropped, bounds>>

\* Clear: a failed write brings the records back in memory.
Clear ==
  /\ MayWrite(serving) /\ edits < MaxEdits /\ edits' = edits + 1
  /\ \E r \in Saves(serving, [service[serving] EXCEPT !.hist = {}]) :
       /\ service' = [service EXCEPT ![serving] = IF r.s.failed THEN [r.s EXCEPT !.hist = service[serving].hist] ELSE r.s]
       /\ history' = r.file
  /\ UNCHANGED <<cpa, clock, inspectionFile, unsaved, ran, dropped, records, started, replacements, restarts>>

----------------------------------------------------------------------------
\* Tests (service.go, runs.go)

\* Run checks that it may write and lists the credentials without the lock,
\* then starts the tests under the lock Stop refuses further ones with.
Run ==
  /\ MayWrite(serving) /\ ~service[serving].asked /\ records < MaxRecords
  /\ service' = [service EXCEPT ![serving].asked = TRUE]
  /\ UNCHANGED <<cpa, clock, files, past, bounds>>

StartTests(i, selected) ==
  /\ service[i].asked
  /\ service' = [service EXCEPT ![i].asked = FALSE,
       ![i].tests = [c \in Credentials |-> IF c \in selected /\ @[c] = "idle" /\ ~service[i].stopped THEN "running" ELSE @[c]]]
  /\ UNCHANGED <<cpa, clock, files, past, bounds>>

\* A test adds a record; a cancelled one the record of what was cut short.
Record(i, c) ==
  /\ Live(i) /\ service[i].tests[c] # "idle" /\ records < MaxRecords
  /\ service' = [service EXCEPT ![i] = Marked([service[i] EXCEPT !.hist = @ \cup {records + 1}])]
  /\ records' = records + 1
  /\ UNCHANGED <<cpa, clock, files, past, started, edits, replacements, restarts>>

Finish(i, c) ==
  /\ Live(i) /\ service[i].tests[c] # "idle"
  /\ service' = [service EXCEPT ![i].tests[c] = "idle"]
  /\ UNCHANGED <<cpa, clock, files, past, bounds>>

\* Cancel is refused while quiesced.
Cancel(c) ==
  /\ MayWrite(serving) /\ service[serving].tests[c] = "running"
  /\ service' = [service EXCEPT ![serving].tests[c] = "cancelled"]
  /\ UNCHANGED <<cpa, clock, files, past, bounds>>

Cancelled(s) ==
  [s EXCEPT !.tests = [c \in Credentials |-> IF s.tests[c] = "running" THEN "cancelled" ELSE s.tests[c]],
            !.round.cancelled = s.round # NoRound]
Ended(s) == s.round = NoRound /\ \A c \in Credentials : s.tests[c] = "idle"

----------------------------------------------------------------------------
\* The inspection (inspection.go)

\* dueSlot: the latest slot that has come, unless a round ran for it.
DueSlot_Always(s) == clock
DueSlot(s) == IF clock > 0 /\ s.inspection.rounds[clock] = 0 THEN clock ELSE 0

\* Tick finds the slot due, then lists the credentials without the lock.
Tick(i) ==
  /\ life[i] = "open" /\ owner = i /\ phase # "handoff"
  /\ LET s == service[i] IN
       /\ ~s.stopped /\ s.round = NoRound /\ s.due = 0 /\ DueSlot(s) > 0 /\ started < MaxRounds
       /\ service' = [service EXCEPT ![i].due = DueSlot(s)]
  /\ UNCHANGED <<cpa, clock, files, past, bounds>>

\* startRound on the credentials CPA lists as available (present) and those
\* it does not list (gone, empty when the list is incomplete).
RoundOn(g, slot, present, gone) ==
  [slot |-> slot, members |-> g.channels, asked |-> present \ g.ignored, missing |-> g.channels \cap gone,
   cancelled |-> FALSE, checked |-> FALSE]

StartRound(i, slot) ==
  /\ service[i].round = NoRound /\ started < MaxRounds
  /\ \E present \in SUBSET Channels : \E gone \in SUBSET (Channels \ present) :
       LET g == service[i].inspection.group IN
       /\ g.channels \cup (present \ g.ignored) # {}
       /\ service' = [service EXCEPT ![i].round = RoundOn(g, slot, present, gone), ![i].due = IF slot = 0 THEN @ ELSE 0]
  /\ started' = started + 1

\* The round may not start: CPA lists nothing, or another round began first.
StartDue(i) ==
  /\ life[i] = "open" /\ service[i].due > 0
  /\ \/ owner = i /\ ~service[i].stopped /\ StartRound(i, service[i].due)
     \/ service' = [service EXCEPT ![i].due = 0] /\ UNCHANGED started
  /\ UNCHANGED <<cpa, clock, files, past, records, edits, replacements, restarts>>

StartInspection ==
  /\ MayWrite(serving) /\ ~service[serving].stopped /\ StartRound(serving, 0)
  /\ UNCHANGED <<cpa, clock, files, past, records, edits, replacements, restarts>>

\* A round that was cancelled before its channels are done records nothing.
CheckRound(i) ==
  LET r == service[i].round IN
  /\ Live(i) /\ r # NoRound /\ ~r.checked
  /\ service' = [service EXCEPT ![i].round = IF r.cancelled THEN NoRound ELSE [r EXCEPT !.checked = TRUE]]
  /\ UNCHANGED <<cpa, clock, files, past, bounds>>

\* followCPALocked on the group as it is now: answered are the channels asked
\* that have the model.
Joins(g, r, answered) == answered \ (g.channels \cup g.ignored)
Room(g) == Limit - Cardinality(g.channels) - Cardinality(g.ignored)
Followed(g, r, answered) ==
  LET stopped == (r.asked \cap r.members) \ answered
      left == r.missing \cup (IF answered # {} THEN stopped ELSE {})
      most == IF Cardinality(Joins(g, r, answered)) < Room(g) THEN Cardinality(Joins(g, r, answered)) ELSE Room(g) IN
  {[g EXCEPT !.channels = (@ \ left) \cup joined] :
     joined \in {j \in SUBSET Joins(g, r, answered) : Cardinality(j) = most}}

\* saveInspectionLocked.
Written(i, inspection) ==
  IF owner # i THEN {inspectionFile}
  ELSE {inspection} \cup (IF "save" \in Failures THEN {inspectionFile} ELSE {})

\* The round is recorded and the groups follow under one lock; a failed
\* write is ignored.
RecordRound(i) ==
  LET s == service[i]
      r == s.round IN
  /\ Live(i) /\ r.checked
  /\ \E answered \in SUBSET r.asked : \E g \in Followed(s.inspection.group, r, answered) :
       LET next == [rounds |-> IF r.slot = 0 THEN s.inspection.rounds ELSE [s.inspection.rounds EXCEPT ![r.slot] = @ + 1],
                    group |-> g] IN
       /\ service' = [service EXCEPT ![i].inspection = next, ![i].round = NoRound]
       /\ inspectionFile' \in Written(i, next)
  /\ ran' = IF r.slot = 0 \/ owner # i THEN ran ELSE [ran EXCEPT ![r.slot] = @ + 1]
  /\ UNCHANGED <<cpa, clock, history, unsaved, dropped, bounds>>

\* SetInspection: a failed write brings the settings back in memory.
SetInspection(g) ==
  LET next == [service[serving].inspection EXCEPT !.group = g] IN
  /\ MayWrite(serving) /\ edits < MaxEdits /\ edits' = edits + 1
  /\ \/ /\ service' = [service EXCEPT ![serving].inspection = next] /\ inspectionFile' = next
     \/ /\ "save" \in Failures /\ UNCHANGED <<service, inspectionFile>>
     \/ /\ "sync" \in Failures /\ inspectionFile' = next /\ UNCHANGED service
  /\ UNCHANGED <<cpa, clock, history, past, records, started, replacements, restarts>>

----------------------------------------------------------------------------
\* Stop and hot replacement

\* HandOff cancels what runs and waits for at most its limit; the background
\* loop has ended.
BeginHandOff ==
  /\ phase = "serving" /\ life[serving] = "open" /\ owner = serving /\ life[Newer] = "none"
  /\ service[serving].due = 0 /\ ~service[serving].asked /\ replacements < MaxReplacements
  /\ service' = [service EXCEPT ![serving] = Cancelled(@)]
  /\ phase' = "handoff" /\ replacements' = replacements + 1
  /\ UNCHANGED <<life, owner, serving, clock, files, past, records, started, edits, restarts>>

\* It writes what there is; the rest of the handoff may still fail.
EndHandOff ==
  /\ phase = "handoff"
  /\ SaveTo(serving, Disarmed(service[serving]))
  /\ \/ phase' = "quiesced" /\ owner' = None
     \/ phase' = "serving" /\ UNCHANGED owner
  /\ UNCHANGED <<life, serving, clock, inspectionFile, ran, dropped, bounds>>

\* Rounds whose write failed are not handed over.
TakeOver ==
  /\ phase = "quiesced"
  /\ service' = [service EXCEPT ![Newer] = Opened(history, inspectionFile)]
  /\ life' = [life EXCEPT ![Newer] = "open"]
  /\ owner' = Newer /\ phase' = "loaded"
  /\ ran' = inspectionFile.rounds
  /\ UNCHANGED <<serving, clock, files, unsaved, dropped, bounds>>

\* CPA publishes the newer instance and shuts the older one down.
Switch ==
  /\ phase = "loaded" /\ life[Newer] = "open"
  /\ serving' = Newer /\ phase' = "serving"
  /\ UNCHANGED <<service, life, owner, clock, files, past, bounds>>

\* Shutdown: of the older instance, of one CPA discards, or at process exit.
Stopping_Unlocked(s) == Cancelled(s)
Stopping(s) == [Cancelled(s) EXCEPT !.stopped = TRUE]
BeginStop(i) ==
  /\ life[i] = "open" /\ service[i].due = 0
  /\ \/ phase = "serving" /\ (i = serving => life[Newer] = "none")
     \/ phase = "loaded" /\ i = Newer
  /\ service' = [service EXCEPT ![i] = Stopping(@)]
  /\ life' = [life EXCEPT ![i] = "stopping"]
  /\ UNCHANGED <<owner, phase, serving, clock, files, past, bounds>>

EndStop(i) ==
  /\ life[i] = "stopping" /\ Ended(service[i])
  /\ SaveTo(i, Disarmed(service[i]))
  /\ life' = [life EXCEPT ![i] = "closed"]
  /\ owner' = IF owner = i THEN None ELSE owner
  /\ UNCHANGED <<phase, serving, clock, inspectionFile, ran, dropped, bounds>>

\* A library that was shut down is unloaded.
Unload(i) ==
  /\ life[i] = "closed" /\ ~service[i].asked /\ i # serving /\ phase = "serving"
  /\ life' = [life EXCEPT ![i] = "none"]
  /\ service' = [service EXCEPT ![i] = Opened({}, EmptyInspection)]
  /\ UNCHANGED <<owner, phase, serving, clock, files, past, bounds>>

\* CPA returns to the older instance: it goes on with what it remembers.
Rollback ==
  /\ \/ phase = "quiesced"
     \/ phase = "loaded" /\ life[Newer] = "closed"
  /\ owner' = serving /\ phase' = "serving"
  /\ service' = [service EXCEPT ![serving].stopped = FALSE]
  /\ dropped' = dropped \cup {s \in Slots : ran[s] > service[serving].inspection.rounds[s]}
  /\ UNCHANGED <<life, serving, clock, files, unsaved, ran, bounds>>

\* A crash, or the start after a shutdown.
Restart ==
  /\ phase = "serving" /\ life[Newer] = "none"
  /\ IF life[serving] = "closed" THEN UNCHANGED restarts ELSE restarts < MaxRestarts /\ restarts' = restarts + 1
  /\ service' = [service EXCEPT ![serving] = Opened(history, inspectionFile)]
  /\ life' = [life EXCEPT ![serving] = "open"] /\ owner' = serving
  /\ ran' = inspectionFile.rounds
  /\ UNCHANGED <<phase, serving, clock, files, unsaved, dropped, records, started, edits, replacements>>

NextSlot ==
  /\ clock < LastSlot /\ clock' = clock + 1
  /\ UNCHANGED <<service, cpa, files, past, bounds>>

----------------------------------------------------------------------------
\* Bound: a behaviour has tests or rounds. They meet in the shutdown and the
\* handoff only, which wait for both.
Init ==
  /\ serving = (CHOOSE i \in Instances : TRUE)
  /\ service = [i \in Instances |-> Opened({}, EmptyInspection)]
  /\ life = [i \in Instances |-> IF i = serving THEN "open" ELSE "none"]
  /\ owner = serving /\ phase = "serving" /\ clock = 0
  /\ history = {} /\ inspectionFile = EmptyInspection
  /\ unsaved = {} /\ ran = [s \in Slots |-> 0] /\ dropped = {}
  /\ \/ records = 0 /\ started = MaxRounds /\ edits = 0 /\ replacements = 0 /\ restarts = 0
     \/ records = MaxRecords /\ started = 0 /\ edits = 0 /\ replacements = MaxReplacements /\ restarts = MaxRestarts
     \/ records = MaxRecords /\ started = 0 /\ edits = MaxEdits /\ replacements = 0 /\ restarts = 0

Next ==
  \/ \E c \in Credentials : Cancel(c) \/ \E i \in Instances : Record(i, c) \/ Finish(i, c)
  \/ Run \/ \E i \in Instances, selected \in SUBSET Credentials : StartTests(i, selected)
  \/ \E i \in Instances : TimerFires(i) \/ Flush(i)
  \/ Clear
  \/ \E i \in Instances : Tick(i) \/ StartDue(i) \/ CheckRound(i) \/ RecordRound(i)
  \/ StartInspection \/ \E g \in Groups : SetInspection(g)
  \/ BeginHandOff \/ EndHandOff \/ TakeOver \/ Switch \/ Rollback
  \/ \E i \in Instances : BeginStop(i) \/ EndStop(i) \/ Unload(i)
  \/ Restart \/ NextSlot

Spec == Init /\ [][Next]_vars

----------------------------------------------------------------------------
\* Properties

\* Records that are not written yet have a write scheduled, unless the last
\* one failed or the service has stopped, whatever timer callbacks wait for
\* the lock (service.go:84).
WriteIsDue(s) ==
  /\ s.dirty => s.armed \/ s.stopped \/ s.failed
  /\ s.armed => s.timer \/ s.fired > 0

\* The records of the files' owner are in the history file or a write of them
\* is due, except for what it made while it did not own the files
\* (store.go:114, 149).
RecordsAreSaved ==
  /\ \A i \in Instances : WriteIsDue(service[i])
  /\ LET s == service[owner] IN
     (owner # None /\ life[owner] = "open" /\ ~s.dirty /\ ~s.failed) =>
        s.hist \ unsaved \subseteq history /\ history \subseteq s.hist

\* Once Stop has returned nothing runs and no write is scheduled: CPA may
\* free the host callbacks (service.go:488).
ClosedIsQuiet ==
  \A i \in Instances : life[i] = "closed" => Ended(service[i]) /\ ~service[i].armed

\* A record in the file stays there until an operator clears the history, by
\* whichever instance the file is written next (store.go:114).
RecordsStay == [][edits' = edits => history \subseteq history']_vars

\* A slot is recorded once, over replacements, restarts and rounds the
\* operator starts; a round saved by a newer instance that is then rolled
\* back is unknown to the older one (inspection.go:206, 242). An ignored
\* channel is never in its group and the group stays within the limit its
\* file is loaded with, although rounds and operators change it at the same
\* time (inspection.go:404).
InspectionHolds ==
  /\ \A s \in Slots : ran[s] <= 1 \/ s \in dropped
  /\ inspectionFile.group \in Groups
  /\ \A i \in Instances : service[i].inspection.group \in Groups

=============================================================================
