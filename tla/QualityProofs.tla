---------------------------- MODULE QualityProofs ----------------------------
(***************************************************************************)
(* Theorems about Quality, for any credentials, channels, slots, limits    *)
(* and numbers of events.                                                  *)
(*                                                                         *)
(* Sound says what every service holds by itself; Control which instance   *)
(* is open and owns the files in every phase of a replacement; Follows     *)
(* what of the records of the instance CPA calls is in the file, and that  *)
(* the one being loaded has read all of it; Recorded that a slot under way *)
(* has not been recorded yet, and what the owner knows of the recorded     *)
(* ones.                                                                   *)
(*                                                                         *)
(* Of Verdicts, for any channels, groups, questions, answers and lengths   *)
(* of day: the best of a group is the same in every order, because the     *)
(* comparison of shares is transitive; a channel's sums are the same for   *)
(* rounds numbered anew; and the times of the day before and after a time  *)
(* bound what the schedule announces.                                      *)
(***************************************************************************)
EXTENDS Quality, Verdicts, FiniteSetTheorems, WellFoundedInduction, TLAPS

----------------------------------------------------------------------------
\* The invariant

\* A slot that is due or under way has not been recorded.
Pending(s) ==
  /\ s.due > 0 => s.inspection.rounds[s.due] = 0 /\ s.round.slot = 0
  /\ s.round.slot > 0 => s.inspection.rounds[s.round.slot] = 0
Once(inspection) == inspection.group \in Groups /\ \A slot \in Slots : inspection.rounds[slot] <= 1

\* A service that is about to write its history, and one between two steps.
Ready(s) == s \in Service /\ Pending(s) /\ Once(s.inspection) /\ (s.armed => s.timer \/ s.fired > 0)
Sound(s) == Ready(s) /\ WriteIsDue(s)

\* Who is open and who owns the files; a service that is shut down refuses
\* new work.
Control ==
  /\ phase = "serving" => /\ life[serving] \in {"open", "stopping", "closed"}
                          /\ owner = IF life[serving] = "closed" THEN None ELSE serving
  /\ phase # "serving" => life[serving] = "open"
  /\ phase = "handoff" => owner = serving /\ life[Newer] = "none"
  /\ phase = "quiesced" => owner = None /\ life[Newer] = "none"
  /\ phase = "loaded" => /\ life[Newer] \in {"open", "stopping", "closed"}
                         /\ owner = IF life[Newer] = "closed" THEN None ELSE Newer
  /\ \A i \in Instances :
       /\ life[i] = "open" => ~service[i].stopped
       /\ life[i] \in {"stopping", "closed"} => service[i].stopped

\* The one being loaded has no tests, and what it knows is what the file has.
Fresh(s) ==
  /\ s.hist = history /\ ~s.dirty /\ ~s.armed /\ ~s.timer /\ s.fired = 0
  /\ ~s.asked /\ \A c \in Credentials : s.tests[c] = "idle"

Follows ==
  /\ history \subseteq service[serving].hist
  /\ service[serving].hist \subseteq history \cup unsaved \/ service[serving].dirty \/ service[serving].failed
  /\ phase = "loaded" => Fresh(service[Newer])

Recorded ==
  /\ \A slot \in Slots : ran[slot] <= 1 \/ slot \in dropped
  /\ owner # None => \A slot \in Slots : ran[slot] <= service[owner].inspection.rounds[slot] \/ slot \in dropped

Kept == Once(inspectionFile) /\ \A i \in Instances : Sound(service[i])

Safe == TypeOK /\ records \in Nat /\ Kept /\ Control /\ Follows /\ Recorded /\ ClosedIsQuiet

----------------------------------------------------------------------------
\* The two instances

LEMMA Two ==
  ASSUME serving \in Instances
  PROVE  Newer \in Instances /\ Newer # serving /\ Instances = {serving, Newer}
<1>1. PICK older, newer \in Instances : older # newer /\ Instances = {older, newer}
  BY QualityAssumption
<1>2. \E i \in Instances : i # serving
  BY <1>1
<1> QED BY <1>1, <1>2 DEF Newer

LEMMA NewerStays == serving' = serving => Newer' = Newer
BY DEF Newer

LEMMA NewerSwitches ==
  ASSUME serving \in Instances, serving' = Newer
  PROVE  Newer' = serving
<1>1. serving' \in Instances /\ \A i \in Instances : i # serving' => i = serving
  BY Two
<1>2. serving # serving'
  BY Two
<1>3. \E i \in Instances : i # serving'
  BY <1>2
<1>4. Newer' \in Instances /\ Newer' # serving'
  BY <1>3 DEF Newer
<1> QED BY <1>1, <1>4

LEMMA NoneIsNone == None \notin Instances
BY QualityAssumption

----------------------------------------------------------------------------
\* What the operations do to a service

LEMMA SlotsAreNat == LastSlot \in Nat /\ MaxRecords \in Nat /\ Slots \subseteq Nat /\ 0 \notin Slots /\ Records \subseteq Nat
BY QualityAssumption DEF Slots, Records

LEMMA SavesAre ==
  ASSUME NEW i, NEW s, NEW r \in Saves(i, s)
  PROVE  \/ /\ r.s = [s EXCEPT !.dirty = FALSE, !.failed = FALSE] /\ owner # i
            /\ r.file = history /\ r.skipped = s.hist \ history
         \/ /\ r.s = [s EXCEPT !.dirty = FALSE, !.failed = FALSE] /\ owner = i
            /\ r.file = s.hist /\ r.skipped = {}
         \/ /\ r.s = [s EXCEPT !.failed = TRUE] /\ owner = i
            /\ r.file \in {s.hist, history} /\ r.skipped = {}
<1>1. CASE owner # i
  BY <1>1 DEF Saves
<1>2. CASE owner = i
  <2>1. CASE r = [s |-> [s EXCEPT !.dirty = FALSE, !.failed = FALSE], file |-> s.hist, skipped |-> {}]
    BY <1>2, <2>1
  <2>2. CASE \E f \in Failures :
               r = [s |-> [s EXCEPT !.failed = TRUE], file |-> IF f = "sync" THEN s.hist ELSE history, skipped |-> {}]
    BY <1>2, <2>2
  <2> QED BY <1>2, <2>1, <2>2 DEF Saves
<1> QED BY <1>1, <1>2

LEMMA SavedIsSound ==
  ASSUME NEW s, Ready(s)
  PROVE  Sound([s EXCEPT !.dirty = FALSE, !.failed = FALSE]) /\ Sound([s EXCEPT !.failed = TRUE])
BY DEF Ready, Sound, WriteIsDue, Service, Pending

LEMMA MarkedIsSound ==
  ASSUME NEW s, Sound(s)
  PROVE  Sound(Marked(s))
BY DEF Ready, Sound, WriteIsDue, Service, Pending, Marked

LEMMA DisarmedIsReady ==
  ASSUME NEW s, Ready(s)
  PROVE  Ready(Disarmed(s)) /\ ~Disarmed(s).armed /\ Disarmed(s).hist = s.hist
BY DEF Ready, Service, Pending, Disarmed

\* Tests and records of a service do not matter to what it holds by itself.
LEMMA AlikeIsSound ==
  ASSUME NEW s, Sound(s), NEW x \in Service,
         x.due = s.due, x.round = s.round, x.inspection = s.inspection, x.dirty = s.dirty, x.armed = s.armed,
         x.timer = s.timer, x.fired = s.fired, x.failed = s.failed, x.stopped = s.stopped
  PROVE  Sound(x)
BY DEF Sound, Ready, WriteIsDue, Pending

LEMMA NoRoundIsRound == NoRound \in Round
BY SlotsAreNat DEF NoRound, Round

LEMMA CancelledIsSound ==
  ASSUME NEW s, Sound(s)
  PROVE  Sound(Cancelled(s)) /\ Sound(Stopping(s))
BY NoRoundIsRound DEF Ready, Sound, WriteIsDue, Service, Pending, Cancelled, Stopping, Round

LEMMA OpenedIsSound ==
  ASSUME NEW h \in SUBSET Records, NEW inspection \in Inspection, Once(inspection)
  PROVE  Sound(Opened(h, inspection))
BY NoRoundIsRound, SlotsAreNat DEF Ready, Sound, WriteIsDue, Service, Pending, Opened, NoRound

LEMMA EmptyIsSound == EmptyInspection \in Inspection /\ Once(EmptyInspection)
<1>1. Cardinality({}) = 0
  BY FS_EmptySet
<1> QED BY <1>1, SlotsAreNat, QualityAssumption DEF EmptyInspection, Inspection, Group, Groups, Once

----------------------------------------------------------------------------
\* Steps of one service

\* A service put in the place of i's.
LEMMA Put ==
  ASSUME service \in [Instances -> Service], NEW i \in Instances, NEW x \in Service,
         service' = [service EXCEPT ![i] = x]
  PROVE  /\ service' \in [Instances -> Service] /\ service'[i] = x
         /\ \A j \in Instances : j # i => service'[j] = service[j]
OBVIOUS

\* What a step of one service keeps while CPA does nothing: only the instance
\* CPA calls may change the history file.
LEMMA InPlace ==
  ASSUME Safe, NEW i \in Instances, NEW x, Sound(x), service' = [service EXCEPT ![i] = x],
         UNCHANGED <<cpa, clock, dropped>>, records' \in Nat,
         inspectionFile' \in Inspection, Once(inspectionFile'), ran' \in [Slots -> Nat], Recorded',
         history' \subseteq Records, unsaved' \subseteq Records, unsaved \subseteq unsaved',
         x.stopped = service[i].stopped,
         life[i] = "closed" => Ended(x) /\ ~x.armed,
         i # serving \/ phase = "loaded" => history' = history,
         i = serving => /\ history' \subseteq x.hist
                        /\ x.hist \subseteq history' \cup unsaved' \/ x.dirty \/ x.failed,
         phase = "loaded" /\ i = Newer => Fresh(x)
  PROVE  Safe'
<1> USE DEF Safe
<1>1. service \in [Instances -> Service] /\ x \in Service
  BY DEF Sound, Ready, TypeOK
<1>2. service' \in [Instances -> Service] /\ service'[i] = x /\ \A j \in Instances : j # i => service'[j] = service[j]
  BY <1>1, Put
<1>3. UNCHANGED <<life, owner, phase, serving>> /\ Newer' = Newer
  BY NewerStays DEF cpa
<1>4. serving \in Instances /\ Newer \in Instances /\ Newer # serving
  BY Two DEF TypeOK
<1>5. TypeOK' /\ records' \in Nat
  BY <1>2, <1>3 DEF TypeOK
<1>6. Kept'
  BY <1>2 DEF Kept, Once
<1>7. Control'
  BY <1>2, <1>3 DEF Control
<1>8. Follows'
  <2>1. history' \subseteq service'[serving].hist
    BY <1>2, <1>4 DEF Follows
  <2>2. service'[serving].hist \subseteq history' \cup unsaved' \/ service'[serving].dirty \/ service'[serving].failed
    BY <1>2, <1>4 DEF Follows
  <2>3. phase = "loaded" => Fresh(service[Newer])'
    BY <1>2, <1>3, <1>4 DEF Follows, Fresh
  <2> QED BY <1>3, <2>1, <2>2, <2>3 DEF Follows
<1>9. ClosedIsQuiet'
  BY <1>2, <1>3 DEF ClosedIsQuiet, Ended
<1> QED BY <1>5, <1>6, <1>7, <1>8, <1>9

\* The inspection and what was recorded stay too.
LEMMA OneService ==
  ASSUME Safe, NEW i \in Instances, NEW x, Sound(x), service' = [service EXCEPT ![i] = x],
         UNCHANGED <<cpa, clock, inspectionFile, ran, dropped>>, records' \in Nat,
         history' \subseteq Records, unsaved' \subseteq Records, unsaved \subseteq unsaved',
         x.stopped = service[i].stopped, x.inspection = service[i].inspection,
         life[i] = "closed" => Ended(x) /\ ~x.armed,
         i # serving \/ phase = "loaded" => history' = history,
         i = serving => /\ history' \subseteq x.hist
                        /\ x.hist \subseteq history' \cup unsaved' \/ x.dirty \/ x.failed,
         phase = "loaded" /\ i = Newer => Fresh(x)
  PROVE  Safe'
<1>1. service \in [Instances -> Service] /\ x \in Service /\ owner \in Instances \cup {None}
  BY DEF Safe, Sound, Ready, TypeOK
<1>2. \A j \in Instances : service'[j].inspection = service[j].inspection
  BY <1>1, Put
<1>3. Recorded'
  BY <1>1, <1>2 DEF Recorded, Safe, cpa
<1>4. inspectionFile' \in Inspection /\ Once(inspectionFile') /\ ran' \in [Slots -> Nat]
  BY DEF Safe, TypeOK, Kept, Once
<1> QED BY <1>3, <1>4, InPlace

----------------------------------------------------------------------------
\* The history and the tests

\* What Safe says of one service.
LEMMA ServiceOf ==
  ASSUME Safe, NEW i \in Instances
  PROVE  /\ service \in [Instances -> Service] /\ service[i] \in Service /\ Ready(service[i]) /\ Sound(service[i])
         /\ serving \in Instances /\ Newer \in Instances /\ Newer # serving
         /\ history \subseteq Records /\ unsaved \subseteq Records /\ records \in Nat /\ service[i].hist \subseteq Records
         /\ life[i] = "closed" => Ended(service[i]) /\ ~service[i].armed
         /\ i = serving => /\ history \subseteq service[i].hist
                           /\ service[i].hist \subseteq history \cup unsaved \/ service[i].dirty \/ service[i].failed
         /\ phase = "loaded" /\ i = Newer => Fresh(service[i])
         /\ owner = i => (phase \in {"serving", "handoff"} /\ i = serving) \/ (phase = "loaded" /\ i = Newer)
<1>1. service \in [Instances -> Service] /\ service[i] \in Service /\ Ready(service[i]) /\ Sound(service[i])
  BY DEF Safe, Kept, TypeOK, Sound
<1>2. service[i].hist \subseteq Records
  BY <1>1 DEF Service
<1>3. phase \in {"serving", "handoff", "quiesced", "loaded"} /\ i # None
  BY NoneIsNone DEF Safe, TypeOK
<1>4. owner = i => (phase \in {"serving", "handoff"} /\ i = serving) \/ (phase = "loaded" /\ i = Newer)
  BY <1>3 DEF Safe, Control
<1> QED BY <1>1, <1>2, <1>4, Two DEF Safe, TypeOK, Follows, ClosedIsQuiet

LEMMA TimerFiresSafe ==
  ASSUME Safe, NEW i \in Instances, TimerFires(i)
  PROVE  Safe'
<1> DEFINE x == [service[i] EXCEPT !.timer = FALSE, !.fired = @ + 1]
<1>1. service' = [service EXCEPT ![i] = x]
  BY ServiceOf DEF TimerFires
<1>2. Sound(x)
  BY ServiceOf DEF TimerFires, Sound, Ready, Service, WriteIsDue, Pending
<1>3. /\ x.stopped = service[i].stopped /\ x.inspection = service[i].inspection
      /\ x.hist = service[i].hist /\ x.dirty = service[i].dirty /\ x.failed = service[i].failed
  BY ServiceOf DEF Service
<1>4. ~(phase = "loaded" /\ i = Newer)
  BY ServiceOf DEF Fresh, TimerFires
<1>5. life[i] # "closed"
  BY DEF TimerFires, Live
<1>6. UNCHANGED <<cpa, clock, inspectionFile, ran, dropped, history, unsaved, records>>
  BY DEF TimerFires, files, past, bounds
<1> HIDE DEF x
<1> QED BY <1>1, <1>2, <1>3, <1>4, <1>5, <1>6, ServiceOf, OneService

\* A service is written as it is, or stays as it is: r.s keeps its records,
\* and the file has them unless the write failed.
LEMMA SavedFollows ==
  ASSUME Safe, NEW i \in Instances, NEW s, Ready(s), s.hist = service[i].hist, NEW r \in Saves(i, s)
  PROVE  /\ Sound(r.s) /\ r.s.hist = s.hist /\ r.s.armed = s.armed /\ r.s.stopped = s.stopped
         /\ r.s.inspection = s.inspection /\ r.s.tests = s.tests /\ r.s.round = s.round
         /\ r.s.asked = s.asked /\ r.s.timer = s.timer /\ r.s.fired = s.fired
         /\ r.s.dirty => r.s.failed /\ s.dirty
         /\ r.file \subseteq Records /\ r.skipped \subseteq Records
         /\ history \subseteq r.file
         /\ i # serving \/ phase = "loaded" => r.file = history
         /\ i = serving => r.file \subseteq r.s.hist
         /\ r.s.hist \subseteq r.file \cup r.skipped \/ r.s.failed
<1>1. s \in Service
  BY DEF Ready
<1>2. owner = i => (i = serving /\ phase # "loaded") \/ s.hist = history
  BY ServiceOf DEF Fresh
<1>3. s.hist \subseteq Records /\ (owner = i => history \subseteq s.hist)
  BY <1>2, ServiceOf
<1>4. CASE r.s = [s EXCEPT !.dirty = FALSE, !.failed = FALSE]
  <2>1. Sound(r.s)
    BY <1>4, SavedIsSound
  <2>2. /\ r.s.hist = s.hist /\ r.s.armed = s.armed /\ r.s.stopped = s.stopped /\ ~r.s.dirty
        /\ r.s.inspection = s.inspection /\ r.s.tests = s.tests /\ r.s.round = s.round /\ ~r.s.failed
        /\ r.s.asked = s.asked /\ r.s.timer = s.timer /\ r.s.fired = s.fired
    BY <1>1, <1>4 DEF Service
  <2>3. \/ owner # i /\ r.file = history /\ r.skipped = s.hist \ history
        \/ owner = i /\ r.file = s.hist /\ r.skipped = {}
    <3>1. r.s # [s EXCEPT !.failed = TRUE]
      BY <1>1, <2>2 DEF Service
    <3> QED BY <3>1, SavesAre
  <2> QED BY <1>2, <1>3, <2>1, <2>2, <2>3, ServiceOf
<1>5. CASE r.s = [s EXCEPT !.failed = TRUE]
  <2>1. Sound(r.s)
    BY <1>5, SavedIsSound
  <2>2. /\ r.s.hist = s.hist /\ r.s.armed = s.armed /\ r.s.stopped = s.stopped
        /\ r.s.inspection = s.inspection /\ r.s.tests = s.tests /\ r.s.round = s.round /\ r.s.failed
        /\ r.s.asked = s.asked /\ r.s.timer = s.timer /\ r.s.fired = s.fired /\ r.s.dirty = s.dirty
    BY <1>1, <1>5 DEF Service
  <2>3. owner = i /\ r.file \in {s.hist, history} /\ r.skipped = {}
    <3>1. r.s # [s EXCEPT !.dirty = FALSE, !.failed = FALSE]
      BY <1>1, <2>2 DEF Service
    <3> QED BY <3>1, SavesAre
  <2> QED BY <1>2, <1>3, <2>1, <2>2, <2>3, ServiceOf
<1> QED BY <1>4, <1>5, SavesAre

LEMMA FlushSafe ==
  ASSUME Safe, NEW i \in Instances, Flush(i)
  PROVE  Safe'
<1> DEFINE s == [service[i] EXCEPT !.fired = @ - 1, !.armed = FALSE]
<1>1. /\ Ready(s) /\ s.hist = service[i].hist /\ ~s.armed /\ s.stopped = service[i].stopped /\ s.dirty = service[i].dirty
      /\ s.inspection = service[i].inspection /\ s.tests = service[i].tests /\ s.round = service[i].round
      /\ s.failed = service[i].failed
  <2>1. service[i] \in Service /\ service[i].fired \in 1..2
    BY ServiceOf DEF Flush, Service
  <2>2. s \in Service
    <3>1. \A n \in 0..2 : [service[i] EXCEPT !.fired = n, !.armed = FALSE] \in Service
      BY <2>1 DEF Service
    <3>2. service[i].fired - 1 \in 0..2 /\ s = [service[i] EXCEPT !.fired = service[i].fired - 1, !.armed = FALSE]
      BY <2>1 DEF Service
    <3> QED BY <3>1, <3>2
  <2>3. Pending(s) /\ Once(s.inspection)
    BY <2>1, ServiceOf DEF Ready, Service, Pending
  <2> QED BY <2>1, <2>2, <2>3 DEF Ready, Service
<1>2. ~(phase = "loaded" /\ i = Newer) /\ life[i] # "closed"
  BY ServiceOf DEF Fresh, Flush, Live
<1>3. UNCHANGED <<cpa, clock, inspectionFile, ran, dropped, records>>
  BY DEF Flush, bounds
<1>4. CASE service[i].armed /\ s.dirty
  <2>1. PICK r \in Saves(i, s) : service' = [service EXCEPT ![i] = r.s] /\ history' = r.file /\ unsaved' = unsaved \cup r.skipped
    BY <1>4 DEF Flush, SaveTo
  <2> HIDE DEF s
  <2>2. /\ Sound(r.s) /\ r.s.stopped = service[i].stopped /\ r.s.inspection = service[i].inspection
        /\ r.file \subseteq Records /\ r.skipped \subseteq Records
        /\ i # serving \/ phase = "loaded" => r.file = history
        /\ i = serving => r.file \subseteq r.s.hist
        /\ r.s.hist \subseteq r.file \cup r.skipped \/ r.s.failed
    BY <1>1, SavedFollows
  <2> QED BY <1>2, <1>3, <2>1, <2>2, ServiceOf, OneService
<1>5. CASE ~(service[i].armed /\ s.dirty)
  <2>1. service' = [service EXCEPT ![i] = s] /\ UNCHANGED <<history, unsaved>>
    BY <1>5 DEF Flush
  <2>2. Sound(s)
    BY <1>1, <1>5, ServiceOf DEF Sound, WriteIsDue
  <2> HIDE DEF s
  <2> QED BY <1>1, <1>2, <1>3, <2>1, <2>2, ServiceOf, OneService
<1> QED BY <1>4, <1>5

\* A failed write brings the records back in memory, and the file has them
\* or is empty.
LEMMA ClearSafe ==
  ASSUME Safe, Clear
  PROVE  Safe'
<1> DEFINE s == [service[serving] EXCEPT !.hist = {}]
<1>1. serving \in Instances /\ owner = serving /\ life[serving] # "closed" /\ phase = "serving"
  BY DEF Clear, MayWrite, Live, Safe, TypeOK
<1>2. service[serving] \in Service /\ Sound(service[serving]) /\ service[serving].hist \subseteq Records
      /\ history \subseteq service[serving].hist /\ history \subseteq Records /\ unsaved \subseteq Records /\ records \in Nat
  BY <1>1, ServiceOf
<1>3. PICK r \in Saves(serving, s) :
        /\ service' = [service EXCEPT ![serving] = IF r.s.failed THEN [r.s EXCEPT !.hist = service[serving].hist] ELSE r.s]
        /\ history' = r.file
  BY DEF Clear
<1>4. Ready(s) /\ s \in Service /\ s.hist = {} /\ s.stopped = service[serving].stopped /\ s.inspection = service[serving].inspection
  BY <1>2 DEF Sound, Ready, Service, Pending
<1>5. UNCHANGED <<cpa, clock, inspectionFile, ran, dropped, unsaved, records>>
  BY DEF Clear
<1> HIDE DEF s
<1>6. \/ r.s = [s EXCEPT !.dirty = FALSE, !.failed = FALSE] /\ r.file = {}
      \/ r.s = [s EXCEPT !.failed = TRUE] /\ r.file \in {{}, history}
  BY <1>1, <1>4, SavesAre
<1>7. ASSUME NEW x, Sound(x), service' = [service EXCEPT ![serving] = x],
             x.stopped = s.stopped, x.inspection = s.inspection, (x.hist = {} /\ r.file = {}) \/ (x.hist = service[serving].hist /\ x.failed)
      PROVE  Safe'
  <2>1. r.file \in {{}, history} /\ history' = r.file
    BY <1>3, <1>6
  <2>2. history' \subseteq Records /\ history' \subseteq x.hist /\ (x.hist \subseteq history' \/ x.failed)
    BY <1>2, <1>7, <2>1
  <2> QED BY <1>1, <1>2, <1>4, <1>5, <1>7, <2>2, OneService
<1>8. CASE r.s = [s EXCEPT !.dirty = FALSE, !.failed = FALSE] /\ r.file = {}
  <2> DEFINE x == r.s
  <2>1. Sound(x)
    BY <1>4, <1>8, SavedIsSound
  <2>2. x.hist = {} /\ ~x.failed /\ x.stopped = s.stopped /\ x.inspection = s.inspection
    BY <1>4, <1>8 DEF Service
  <2>3. service' = [service EXCEPT ![serving] = x]
    BY <1>3, <2>2
  <2>4. r.file = {}
    BY <1>8
  <2> HIDE DEF x
  <2> QED BY <1>7, <2>1, <2>2, <2>3, <2>4
<1>9. CASE r.s = [s EXCEPT !.failed = TRUE]
  <2> DEFINE x == [r.s EXCEPT !.hist = service[serving].hist]
  <2>1. Sound(r.s)
    BY <1>4, <1>9, SavedIsSound
  <2>2. r.s \in Service /\ r.s.failed /\ r.s.stopped = s.stopped /\ r.s.inspection = s.inspection
    BY <1>4, <1>9 DEF Service
  <2>3. Sound(x) /\ x.hist = service[serving].hist /\ x.failed /\ x.stopped = s.stopped /\ x.inspection = s.inspection
    BY <1>2, <2>1, <2>2 DEF Sound, Ready, Service, Pending, WriteIsDue
  <2>4. service' = [service EXCEPT ![serving] = x]
    BY <1>3, <2>2
  <2> HIDE DEF x
  <2> QED BY <1>7, <2>3, <2>4
<1> QED BY <1>6, <1>8, <1>9

LEMMA RunSafe ==
  ASSUME Safe, Run
  PROVE  Safe'
<1> DEFINE x == [service[serving] EXCEPT !.asked = TRUE]
<1>1. serving \in Instances /\ phase = "serving" /\ life[serving] # "closed"
  BY DEF Run, MayWrite, Live, Safe, TypeOK
<1>2. service' = [service EXCEPT ![serving] = x]
  BY <1>1, ServiceOf DEF Run
<1>3. /\ x \in Service /\ x.stopped = service[serving].stopped /\ x.inspection = service[serving].inspection
      /\ x.hist = service[serving].hist /\ x.dirty = service[serving].dirty /\ x.failed = service[serving].failed
      /\ x.due = service[serving].due /\ x.round = service[serving].round /\ x.armed = service[serving].armed
      /\ x.timer = service[serving].timer /\ x.fired = service[serving].fired
  BY <1>1, ServiceOf DEF Service
<1>4. UNCHANGED <<cpa, clock, inspectionFile, ran, dropped, history, unsaved, records>>
  BY DEF Run, files, past, bounds
<1> HIDE DEF x
<1>5. Sound(x)
  BY <1>1, <1>3, ServiceOf, AlikeIsSound
<1> QED BY <1>1, <1>2, <1>3, <1>4, <1>5, ServiceOf, OneService

LEMMA StartTestsSafe ==
  ASSUME Safe, NEW i \in Instances, NEW selected \in SUBSET Credentials, StartTests(i, selected)
  PROVE  Safe'
<1> DEFINE begun(s) == [c \in Credentials |-> IF c \in selected /\ s.tests[c] = "idle" /\ ~s.stopped THEN "running" ELSE s.tests[c]]
           x == [service[i] EXCEPT !.asked = FALSE, !.tests = begun(service[i])]
<1>1. service' = [service EXCEPT ![i] = x]
  BY ServiceOf DEF StartTests, Service
<1>2. /\ x \in Service /\ x.stopped = service[i].stopped /\ x.inspection = service[i].inspection /\ x.armed = service[i].armed
      /\ x.hist = service[i].hist /\ x.dirty = service[i].dirty /\ x.failed = service[i].failed /\ x.round = service[i].round
      /\ x.due = service[i].due /\ x.timer = service[i].timer /\ x.fired = service[i].fired
      /\ x.tests = begun(service[i])
  <2>1. begun(service[i]) \in [Credentials -> {"idle", "running", "cancelled"}]
    BY ServiceOf DEF Service
  <2>2. service[i] \in Service
    BY ServiceOf
  <2> HIDE DEF begun
  <2> QED BY <2>1, <2>2 DEF Service
<1>3. ~(phase = "loaded" /\ i = Newer)
  BY ServiceOf DEF Fresh, StartTests
<1>4. life[i] = "closed" => Ended(x) /\ ~x.armed
  <2>1. life[i] = "closed" => service[i].stopped
    BY DEF Safe, Control
  <2> QED BY <1>2, <2>1, ServiceOf DEF Ended
<1>5. UNCHANGED <<cpa, clock, inspectionFile, ran, dropped, history, unsaved, records>>
  BY DEF StartTests, files, past, bounds
<1> HIDE DEF x
<1>6. Sound(x)
  BY <1>2, ServiceOf, AlikeIsSound
<1> QED BY <1>1, <1>2, <1>3, <1>4, <1>5, <1>6, ServiceOf, OneService

LEMMA RecordSafe ==
  ASSUME Safe, NEW i \in Instances, NEW c \in Credentials, Record(i, c)
  PROVE  Safe'
<1> DEFINE s == [service[i] EXCEPT !.hist = @ \cup {records + 1}]
           x == Marked(s)
<1>1. service' = [service EXCEPT ![i] = x] /\ life[i] # "closed" /\ records' = records + 1
  BY DEF Record, Live
<1>2. records + 1 \in Records
  BY ServiceOf, SlotsAreNat DEF Record, Records
<1>3. /\ Sound(s) /\ s \in Service /\ s.stopped = service[i].stopped /\ s.inspection = service[i].inspection
      /\ s.hist = service[i].hist \cup {records + 1}
  BY <1>2, ServiceOf DEF Sound, Ready, Service, WriteIsDue, Pending
<1> HIDE DEF s
<1>4. Sound(x) /\ x.dirty /\ x.stopped = s.stopped /\ x.inspection = s.inspection /\ x.hist = s.hist
  BY <1>3, MarkedIsSound DEF Marked, Service
<1>5. ~(phase = "loaded" /\ i = Newer)
  BY ServiceOf DEF Fresh, Record
<1>6. UNCHANGED <<cpa, clock, inspectionFile, ran, dropped, history, unsaved>> /\ records' \in Nat
  BY <1>1, ServiceOf DEF Record, files, past
<1> HIDE DEF x
<1> QED BY <1>1, <1>3, <1>4, <1>5, <1>6, ServiceOf, OneService

LEMMA FinishSafe ==
  ASSUME Safe, NEW i \in Instances, NEW c \in Credentials, Finish(i, c) \/ (Cancel(c) /\ i = serving)
  PROVE  Safe'
<1>1. PICK t \in {"idle", "cancelled"} : service' = [service EXCEPT ![i] = [service[i] EXCEPT !.tests = [@ EXCEPT ![c] = t]]]
  BY ServiceOf DEF Finish, Cancel, Service
<1> DEFINE x == [service[i] EXCEPT !.tests = [@ EXCEPT ![c] = t]]
<1>2. /\ x \in Service /\ x.stopped = service[i].stopped /\ x.inspection = service[i].inspection
      /\ x.hist = service[i].hist /\ x.dirty = service[i].dirty /\ x.failed = service[i].failed
      /\ x.due = service[i].due /\ x.round = service[i].round /\ x.armed = service[i].armed
      /\ x.timer = service[i].timer /\ x.fired = service[i].fired
  BY ServiceOf DEF Service
<1>3. life[i] # "closed" /\ ~(phase = "loaded" /\ i = Newer)
  BY ServiceOf DEF Finish, Cancel, MayWrite, Live, Fresh
<1>4. UNCHANGED <<cpa, clock, inspectionFile, ran, dropped, history, unsaved, records>>
  BY DEF Finish, Cancel, files, past, bounds
<1>5. service' = [service EXCEPT ![i] = x]
  BY <1>1
<1> HIDE DEF x
<1>6. Sound(x)
  BY <1>2, ServiceOf, AlikeIsSound
<1> QED BY <1>2, <1>3, <1>4, <1>5, <1>6, ServiceOf, OneService

----------------------------------------------------------------------------
\* Rounds

\* What a round changes in its service leaves the history alone.
LEMMA RoundStep ==
  ASSUME Safe, NEW i \in Instances, NEW round \in Round, NEW due \in 0..LastSlot, life[i] # "closed",
         Pending([service[i] EXCEPT !.round = round, !.due = due]),
         service' = [service EXCEPT ![i] = [service[i] EXCEPT !.round = round, !.due = due]],
         UNCHANGED <<cpa, clock, files, past, records>>
  PROVE  Safe'
<1> DEFINE x == [service[i] EXCEPT !.round = round, !.due = due]
<1>1. service[i] \in Service
  BY ServiceOf
<1>2. /\ x.stopped = service[i].stopped /\ x.inspection = service[i].inspection
      /\ x.hist = service[i].hist /\ x.dirty = service[i].dirty /\ x.failed = service[i].failed
      /\ x.armed = service[i].armed /\ x.timer = service[i].timer /\ x.fired = service[i].fired
      /\ x.tests = service[i].tests /\ x.asked = service[i].asked /\ x \in Service
  BY <1>1 DEF Service
<1>3. service' = [service EXCEPT ![i] = x] /\ Pending(x)
  OBVIOUS
<1>4. UNCHANGED <<cpa, clock, inspectionFile, ran, dropped, history, unsaved, records>>
  BY DEF files, past
<1> HIDE DEF x
<1>5. Sound(x)
  BY <1>2, <1>3, ServiceOf DEF Sound, Ready, WriteIsDue
<1>6. phase = "loaded" /\ i = Newer => Fresh(x)
  BY <1>2, ServiceOf DEF Fresh
<1> QED BY <1>2, <1>3, <1>4, <1>5, <1>6, ServiceOf, OneService

LEMMA RoundFields ==
  ASSUME NEW s \in Service
  PROVE  /\ s.round \in Round /\ s.due \in 0..LastSlot /\ s.round.slot \in 0..LastSlot
         /\ s.inspection.rounds \in [Slots -> Nat] /\ s.inspection.group \in Group
         /\ NoRound \in Round /\ NoRound.slot = 0 /\ 0 \in 0..LastSlot
         /\ \A round, due : LET x == [s EXCEPT !.round = round, !.due = due] IN
              x.round = round /\ x.due = due /\ x.inspection = s.inspection
BY NoRoundIsRound, SlotsAreNat DEF Service, Round, Inspection, NoRound

LEMMA TickSafe ==
  ASSUME Safe, NEW i \in Instances, Tick(i)
  PROVE  Safe'
<1> DEFINE s == service[i]
           x == [s EXCEPT !.round = s.round, !.due = DueSlot(s)]
<1>1. s \in Service /\ clock \in 0..LastSlot
  BY ServiceOf DEF Safe, TypeOK
<1>2. s.round = NoRound /\ DueSlot(s) = clock /\ clock > 0 /\ s.inspection.rounds[clock] = 0
  BY <1>1, SlotsAreNat DEF Tick, DueSlot
<1>3. service' = [service EXCEPT ![i] = x]
  BY ServiceOf DEF Tick, Service
<1>4. Pending(x)
  BY <1>1, <1>2, RoundFields DEF Pending
<1>5. UNCHANGED <<cpa, clock, files, past, records>> /\ life[i] # "closed"
  BY DEF Tick, bounds
<1> HIDE DEF s
<1> QED BY <1>1, <1>2, <1>3, <1>4, <1>5, RoundFields, RoundStep DEF s

LEMMA RoundOnIsRound ==
  ASSUME NEW g \in Group, NEW slot \in 0..LastSlot, NEW present \in SUBSET Channels, NEW gone \in SUBSET Channels
  PROVE  RoundOn(g, slot, present, gone) \in Round /\ RoundOn(g, slot, present, gone).slot = slot
BY DEF RoundOn, Round, Group

\* A round for a slot that is due and was not recorded, or for none.
LEMMA StartRoundSafe ==
  ASSUME Safe, NEW i \in Instances, NEW slot \in 0..LastSlot, StartRound(i, slot), life[i] # "closed",
         slot > 0 => service[i].due = slot,
         UNCHANGED <<cpa, clock, files, past, records>>
  PROVE  Safe'
<1> DEFINE s == service[i]
<1>1. PICK present \in SUBSET Channels : \E gone \in SUBSET (Channels \ present) :
        service' = [service EXCEPT ![i].round = RoundOn(s.inspection.group, slot, present, gone), ![i].due = IF slot = 0 THEN @ ELSE 0]
  BY DEF StartRound
<1>2. PICK gone \in SUBSET Channels :
        service' = [service EXCEPT ![i].round = RoundOn(s.inspection.group, slot, present, gone), ![i].due = IF slot = 0 THEN @ ELSE 0]
  BY <1>1
<1> DEFINE round == RoundOn(s.inspection.group, slot, present, gone)
           due == IF slot = 0 THEN s.due ELSE 0
           x == [s EXCEPT !.round = round, !.due = due]
<1>3. s \in Service /\ Pending(s)
  BY ServiceOf DEF Ready
<1>4. round \in Round /\ round.slot = slot /\ due \in 0..LastSlot
  BY <1>3, RoundFields, RoundOnIsRound
<1>5. service' = [service EXCEPT ![i] = x]
  BY <1>2, <1>3, ServiceOf DEF Service
<1> HIDE DEF round
<1>6. Pending(x)
  BY <1>3, <1>4, RoundFields DEF Pending
<1> HIDE DEF s, due
<1> QED BY <1>4, <1>5, <1>6, RoundStep DEF s

LEMMA StartDueSafe ==
  ASSUME Safe, NEW i \in Instances, StartDue(i)
  PROVE  Safe'
<1>1. life[i] # "closed" /\ UNCHANGED <<cpa, clock, files, past, records>>
  BY DEF StartDue
<1>2. service[i] \in Service /\ service[i].due \in 0..LastSlot
  BY ServiceOf, RoundFields
<1>3. CASE StartRound(i, service[i].due)
  BY <1>1, <1>2, <1>3, StartRoundSafe
<1>4. CASE service' = [service EXCEPT ![i].due = 0]
  <2> DEFINE x == [service[i] EXCEPT !.round = service[i].round, !.due = 0]
  <2>1. service' = [service EXCEPT ![i] = x]
    BY <1>4, <1>2, ServiceOf DEF Service
  <2>2. Pending(x)
    BY <1>2, ServiceOf, RoundFields DEF Ready, Pending
  <2> QED BY <1>1, <1>2, <2>1, <2>2, RoundFields, RoundStep
<1> QED BY <1>3, <1>4 DEF StartDue

LEMMA StartInspectionSafe ==
  ASSUME Safe, StartInspection
  PROVE  Safe'
<1>1. serving \in Instances /\ life[serving] # "closed" /\ UNCHANGED <<cpa, clock, files, past, records>> /\ StartRound(serving, 0)
  BY DEF StartInspection, MayWrite, Live, Safe, TypeOK
<1> QED BY <1>1, SlotsAreNat, StartRoundSafe

LEMMA CheckRoundSafe ==
  ASSUME Safe, NEW i \in Instances, CheckRound(i)
  PROVE  Safe'
<1> DEFINE s == service[i]
           round == IF s.round.cancelled THEN NoRound ELSE [s.round EXCEPT !.checked = TRUE]
           x == [s EXCEPT !.round = round, !.due = s.due]
<1>1. s \in Service /\ Pending(s)
  BY ServiceOf DEF Ready
<1>2. round \in Round /\ round.slot \in {0, s.round.slot}
  <2>1. s.round \in Round /\ NoRound \in Round /\ NoRound.slot = 0
    BY <1>1, RoundFields
  <2> HIDE DEF s
  <2>2. \A r \in Round : LET checked == [r EXCEPT !.checked = TRUE] IN checked \in Round /\ checked.slot = r.slot
    BY DEF Round
  <2> QED BY <2>1, <2>2
<1>3. service' = [service EXCEPT ![i] = x]
  BY <1>1, ServiceOf DEF CheckRound, Service
<1>4. UNCHANGED <<cpa, clock, files, past, records>> /\ life[i] # "closed"
  BY DEF CheckRound, bounds, Live
<1> HIDE DEF round
<1>5. Pending(x)
  BY <1>1, <1>2, RoundFields DEF Pending
<1> HIDE DEF s
<1> QED BY <1>1, <1>2, <1>3, <1>4, <1>5, RoundFields, RoundStep DEF s

----------------------------------------------------------------------------
\* The group and what is recorded

\* followCPALocked: an ignored channel does not join, and no more join than
\* there is room for.
LEMMA FollowedFits ==
  ASSUME NEW g \in Groups, NEW r \in Round, NEW answered \in SUBSET Channels, NEW followed \in Followed(g, r, answered)
  PROVE  followed \in Groups
<1> DEFINE joins == Joins(g, r, answered)
           kept == g.channels \ (r.missing \cup (IF answered # {} THEN (r.asked \cap r.members) \ answered ELSE {}))
<1>1. g \in Group /\ g.channels \cap g.ignored = {} /\ Cardinality(g.channels) + Cardinality(g.ignored) <= Limit
  BY DEF Groups
<1>2. IsFiniteSet(Channels) /\ Limit \in Nat
  BY QualityAssumption
<1>3. /\ IsFiniteSet(g.channels) /\ IsFiniteSet(g.ignored) /\ IsFiniteSet(joins) /\ IsFiniteSet(kept)
      /\ g.channels \subseteq Channels /\ g.ignored \subseteq Channels /\ joins \subseteq Channels
  BY <1>1, <1>2, FS_Subset DEF Group, Joins
<1>4. PICK joined \in SUBSET joins :
        /\ followed = [g EXCEPT !.channels = kept \cup joined]
        /\ Cardinality(joined) = IF Cardinality(joins) < Room(g) THEN Cardinality(joins) ELSE Room(g)
  BY <1>1 DEF Followed, Group
<1>5. IsFiniteSet(joined) /\ Cardinality(joined) \in Nat /\ Cardinality(joins) \in Nat /\ Cardinality(kept) \in Nat
      /\ Cardinality(g.channels) \in Nat /\ Cardinality(g.ignored) \in Nat /\ Cardinality(kept) <= Cardinality(g.channels)
  BY <1>3, FS_Subset, FS_CardinalityType
<1>6. Cardinality(joined) <= Room(g)
  BY <1>2, <1>4, <1>5 DEF Room
<1>7. IsFiniteSet(kept \cup joined) /\ Cardinality(kept \cup joined) <= Cardinality(kept) + Cardinality(joined)
  <2>1. /\ IsFiniteSet(kept \cap joined) /\ Cardinality(kept \cap joined) \in Nat
        /\ Cardinality(kept \cup joined) = Cardinality(kept) + Cardinality(joined) - Cardinality(kept \cap joined)
    BY <1>3, <1>5, FS_Union, FS_Intersection, FS_CardinalityType
  <2> QED BY <1>3, <1>5, <2>1, FS_Union
<1>8. Cardinality(kept \cup joined) \in Nat
  BY <1>7, FS_CardinalityType
<1>9. followed.channels = kept \cup joined /\ followed.ignored = g.ignored /\ followed \in Group
  BY <1>1, <1>3, <1>4 DEF Group
<1>10. followed.channels \cap followed.ignored = {}
  BY <1>1, <1>9 DEF Joins
<1> HIDE DEF kept, joins
<1>11. Cardinality(followed.channels) + Cardinality(followed.ignored) <= Limit
  BY <1>1, <1>2, <1>5, <1>6, <1>7, <1>8, <1>9 DEF Room
<1> QED BY <1>9, <1>10, <1>11 DEF Groups

LEMMA RecordRoundSafe ==
  ASSUME Safe, NEW i \in Instances, RecordRound(i)
  PROVE  Safe'
<1> DEFINE s == service[i]
           r == s.round
<1>1. /\ s \in Service /\ Ready(s) /\ Sound(s) /\ r \in Round /\ r.slot \in 0..LastSlot
      /\ s.inspection \in Inspection /\ s.inspection.rounds \in [Slots -> Nat] /\ s.inspection.group \in Groups
  BY ServiceOf, RoundFields DEF Ready, Once, Service
<1> PICK answered \in SUBSET r.asked : \E g \in Followed(s.inspection.group, r, answered) :
        LET next == [rounds |-> IF r.slot = 0 THEN s.inspection.rounds ELSE [s.inspection.rounds EXCEPT ![r.slot] = @ + 1],
                     group |-> g] IN
        /\ service' = [service EXCEPT ![i].inspection = next, ![i].round = NoRound]
        /\ inspectionFile' \in Written(i, next)
  BY DEF RecordRound
<1>2. PICK g \in Followed(s.inspection.group, r, answered) :
        LET next == [rounds |-> IF r.slot = 0 THEN s.inspection.rounds ELSE [s.inspection.rounds EXCEPT ![r.slot] = @ + 1],
                     group |-> g] IN
        /\ service' = [service EXCEPT ![i].inspection = next, ![i].round = NoRound]
        /\ inspectionFile' \in Written(i, next)
  OBVIOUS
<1> DEFINE rounds == IF r.slot = 0 THEN s.inspection.rounds ELSE [s.inspection.rounds EXCEPT ![r.slot] = @ + 1]
           next == [rounds |-> rounds, group |-> g]
           x == [s EXCEPT !.inspection = next, !.round = NoRound]
<1>3. g \in Groups /\ g \in Group
  <2>1. answered \subseteq Channels
    BY <1>1 DEF Round
  <2> QED BY <1>1, <1>2, <2>1, FollowedFits DEF Groups
<1>4. r.slot > 0 => s.inspection.rounds[r.slot] = 0 /\ ~(s.due > 0)
  BY <1>1, SlotsAreNat DEF Ready, Pending
<1>5. /\ rounds \in [Slots -> Nat] /\ \A slot \in Slots : rounds[slot] <= 1
      /\ \A slot \in Slots : slot # r.slot => rounds[slot] = s.inspection.rounds[slot]
      /\ r.slot > 0 => rounds[r.slot] = 1 /\ r.slot \in Slots
  <2>1. r.slot > 0 => r.slot \in Slots
    BY <1>1, SlotsAreNat DEF Slots
  <2>2. \A slot \in Slots : s.inspection.rounds[slot] <= 1
    BY <1>1 DEF Ready, Once
  <2>3. CASE r.slot = 0
    BY <1>1, <2>2, <2>3
  <2>4. CASE r.slot > 0
    <3>1. rounds = [s.inspection.rounds EXCEPT ![r.slot] = 1]
      BY <1>1, <1>4, <2>1, <2>4
    <3> HIDE DEF rounds, r
    <3> QED BY <1>1, <2>1, <2>2, <2>4, <3>1
  <2>5. r.slot = 0 \/ r.slot > 0
    <3> HIDE DEF r
    <3> QED BY <1>1, SlotsAreNat
  <2>6. r.slot = 0 => ~(r.slot > 0)
    OBVIOUS
  <2> HIDE DEF rounds, r
  <2> QED BY <2>3, <2>4, <2>5, <2>6
<1>6. next \in Inspection /\ Once(next) /\ inspectionFile' \in {next, inspectionFile} /\ next.rounds = rounds
  <2> HIDE DEF rounds
  <2> QED BY <1>2, <1>3, <1>5 DEF Inspection, Once, Written, rounds
<1>7. service' = [service EXCEPT ![i] = x]
  BY <1>1, <1>2, ServiceOf DEF Service
<1> HIDE DEF next
<1>8. /\ x \in Service /\ x.inspection = next /\ x.round = NoRound /\ x.due = s.due
      /\ x.stopped = s.stopped /\ x.hist = s.hist /\ x.dirty = s.dirty /\ x.failed = s.failed
      /\ x.armed = s.armed /\ x.timer = s.timer /\ x.fired = s.fired /\ x.tests = s.tests /\ x.asked = s.asked
  BY <1>1, <1>6, NoRoundIsRound DEF Service
<1> HIDE DEF x
<1>9. Pending(x)
  <2>1. NoRound.slot = 0 /\ s.due \in 0..LastSlot
    BY <1>1, RoundFields
  <2>2. s.due > 0 => s.due \in Slots /\ r.slot = 0 /\ s.inspection.rounds[s.due] = 0
    BY <1>1, <2>1 DEF Ready, Pending, Slots
  <2>3. s.due > 0 => next.rounds[s.due] = 0
    BY <1>5, <1>6, <2>2, SlotsAreNat
  <2> QED BY <1>8, <2>1, <2>3 DEF Pending
<1>10. Sound(x)
  BY <1>1, <1>6, <1>8, <1>9 DEF Sound, Ready, WriteIsDue
<1>11. UNCHANGED <<cpa, clock, dropped, history, unsaved, records>> /\ life[i] # "closed"
  BY DEF RecordRound, Live, bounds
<1>12. inspectionFile \in Inspection /\ Once(inspectionFile) /\ ran \in [Slots -> Nat] /\ owner \in Instances \cup {None}
  BY DEF Safe, Kept, TypeOK
<1>13. ran' = IF r.slot = 0 \/ owner # i THEN ran ELSE [ran EXCEPT ![r.slot] = @ + 1]
  BY DEF RecordRound
<1>14. ran' \in [Slots -> Nat]
  <2>1. \A slot \in Slots : [ran EXCEPT ![slot] = @ + 1] \in [Slots -> Nat]
    BY <1>12
  <2>2. r.slot = 0 \/ r.slot \in Slots
    <3> HIDE DEF r, rounds
    <3> QED BY <1>1, <1>5, SlotsAreNat
  <2> QED BY <1>12, <1>13, <2>1, <2>2
<1>15. Recorded'
  <2>1. owner' = owner /\ dropped' = dropped
    BY <1>11 DEF cpa
  <2>2. CASE r.slot = 0 \/ owner # i
    <3>1. ran' = ran
      BY <1>13, <2>2
    <3>2. \A slot \in Slots : rounds[slot] = s.inspection.rounds[slot] \/ owner # i
      BY <1>5, <2>2, SlotsAreNat
    <3> HIDE DEF rounds
    <3>3. owner # None => \A slot \in Slots : service'[owner].inspection.rounds[slot] = service[owner].inspection.rounds[slot]
      <4>1. \A j \in Instances : j # i => service'[j] = service[j]
        BY <1>7, ServiceOf
      <4>2. service'[i].inspection.rounds = rounds
        BY <1>6, <1>7, <1>8, ServiceOf
      <4> QED BY <1>12, <3>2, <4>1, <4>2
    <3> QED BY <2>1, <3>1, <3>3 DEF Recorded, Safe
  <2>3. CASE r.slot > 0 /\ owner = i
    <3>1. ran' = [ran EXCEPT ![r.slot] = @ + 1] /\ service'[owner].inspection.rounds = rounds /\ owner # None
      <4>1. service'[i].inspection.rounds = rounds
        BY <1>6, <1>7, <1>8, ServiceOf
      <4>2. r.slot # 0
        BY <2>3
      <4> HIDE DEF r, rounds
      <4> QED BY <1>13, <2>3, <4>1, <4>2, NoneIsNone
    <3>2. \A slot \in Slots : ran[slot] <= s.inspection.rounds[slot] \/ slot \in dropped
      BY <2>3, <3>1 DEF Recorded, Safe
    <3>3. \A slot \in Slots : ran'[slot] <= rounds[slot] \/ slot \in dropped
      <4>1. r.slot \in Slots /\ (ran[r.slot] <= 0 \/ r.slot \in dropped) /\ rounds[r.slot] = 1
        BY <1>4, <1>5, <2>3, <3>2
      <4> HIDE DEF rounds, r
      <4>2. ran'[r.slot] = ran[r.slot] + 1 /\ ran[r.slot] \in Nat
        BY <1>12, <3>1, <4>1
      <4>3. \A slot \in Slots : slot # r.slot => ran'[slot] = ran[slot] /\ rounds[slot] = s.inspection.rounds[slot]
        BY <1>5, <1>12, <3>1
      <4> QED BY <3>2, <4>1, <4>2, <4>3
    <3>4. \A slot \in Slots : ran'[slot] <= 1 \/ slot \in dropped
      <4>1. \A slot \in Slots : ran'[slot] \in Nat /\ rounds[slot] \in Nat /\ rounds[slot] <= 1
        BY <1>5, <1>14
      <4> HIDE DEF rounds
      <4> QED BY <3>3, <4>1
    <3> QED BY <2>1, <3>1, <3>3, <3>4 DEF Recorded
  <2> QED BY <1>1, <2>2, <2>3
<1>16. phase = "loaded" /\ i = Newer => Fresh(x)
  BY <1>8, ServiceOf DEF Fresh
<1>17. /\ x.stopped = service[i].stopped /\ inspectionFile' \in Inspection /\ Once(inspectionFile') /\ records' \in Nat
       /\ i = serving => /\ history' \subseteq x.hist
                         /\ x.hist \subseteq history' \cup unsaved' \/ x.dirty \/ x.failed
       /\ history' \subseteq Records /\ unsaved' \subseteq Records /\ unsaved \subseteq unsaved'
  BY <1>6, <1>8, <1>11, <1>12, ServiceOf
<1> QED BY <1>7, <1>10, <1>11, <1>14, <1>15, <1>16, <1>17, InPlace

LEMMA SetInspectionSafe ==
  ASSUME Safe, NEW g \in Groups, SetInspection(g)
  PROVE  Safe'
<1> DEFINE s == service[serving]
           next == [s.inspection EXCEPT !.group = g]
           x == IF service' = service THEN s ELSE [s EXCEPT !.inspection = next]
<1>1. serving \in Instances /\ phase = "serving" /\ life[serving] # "closed"
  BY DEF SetInspection, MayWrite, Live, Safe, TypeOK
<1>2. s \in Service /\ Ready(s) /\ Sound(s) /\ s.inspection \in Inspection /\ Once(s.inspection)
  BY <1>1, ServiceOf DEF Ready, Service
<1>3. next \in Inspection /\ Once(next) /\ next.rounds = s.inspection.rounds
  BY <1>2 DEF Inspection, Once, Groups
<1>4. service' = [service EXCEPT ![serving] = x] /\ inspectionFile' \in {inspectionFile, next}
  BY <1>1, <1>2, ServiceOf DEF SetInspection, Service
<1> HIDE DEF next
<1>5. /\ x \in Service /\ x.inspection \in Inspection /\ Once(x.inspection) /\ x.inspection.rounds = s.inspection.rounds
      /\ x.stopped = s.stopped /\ x.hist = s.hist /\ x.dirty = s.dirty /\ x.failed = s.failed /\ x.round = s.round
      /\ x.armed = s.armed /\ x.timer = s.timer /\ x.fired = s.fired /\ x.due = s.due
  BY <1>2, <1>3 DEF Service
<1> HIDE DEF x
<1>6. Sound(x)
  BY <1>2, <1>5 DEF Sound, Ready, WriteIsDue, Pending
<1>7. UNCHANGED <<cpa, clock, ran, dropped, history, unsaved, records>>
  BY DEF SetInspection, past
<1>8. inspectionFile' \in Inspection /\ Once(inspectionFile') /\ ran \in [Slots -> Nat] /\ owner \in Instances \cup {None}
  BY <1>3, <1>4 DEF Safe, TypeOK, Kept
<1>9. \A j \in Instances : service'[j].inspection.rounds = service[j].inspection.rounds
  BY <1>1, <1>4, <1>5, ServiceOf
<1>10. Recorded'
  BY <1>7, <1>8, <1>9 DEF Recorded, Safe, cpa
<1> HIDE DEF s
<1> QED BY <1>1, <1>4, <1>5, <1>6, <1>7, <1>8, <1>10, ServiceOf, InPlace DEF s

----------------------------------------------------------------------------
\* Stop and hot replacement

\* What Safe says of CPA.
LEMMA CpaOf ==
  ASSUME Safe
  PROVE  /\ serving \in Instances /\ Newer \in Instances /\ Newer # serving /\ Instances = {serving, Newer}
         /\ None \notin Instances /\ phase \in {"serving", "handoff", "quiesced", "loaded"}
         /\ service \in [Instances -> Service] /\ life \in [Instances -> {"none", "open", "stopping", "closed"}]
         /\ \A i \in Instances : Sound(service[i])
         /\ inspectionFile \in Inspection /\ Once(inspectionFile) /\ history \subseteq Records /\ unsaved \subseteq Records
BY Two, NoneIsNone DEF Safe, TypeOK, Kept

\* A service that was cancelled keeps what it remembers.
LEMMA CancelledKeeps ==
  ASSUME NEW s \in Service, NEW x, x = Cancelled(s) \/ x = Stopping(s)
  PROVE  /\ x.hist = s.hist /\ x.dirty = s.dirty /\ x.failed = s.failed /\ x.inspection = s.inspection
         /\ x.armed = s.armed /\ x.timer = s.timer /\ x.fired = s.fired /\ x.asked = s.asked
         /\ x = Cancelled(s) => x.stopped = s.stopped
         /\ x = Stopping(s) => x.stopped
         /\ (\A c \in Credentials : s.tests[c] = "idle") => \A c \in Credentials : x.tests[c] = "idle"
<1>1. Cancelled(s).stopped = s.stopped /\ Stopping(s).stopped
  BY DEF Service, Cancelled, Stopping
<1>2. /\ x.hist = s.hist /\ x.dirty = s.dirty /\ x.failed = s.failed /\ x.inspection = s.inspection
      /\ x.armed = s.armed /\ x.timer = s.timer /\ x.fired = s.fired /\ x.asked = s.asked
  BY DEF Service, Cancelled, Stopping
<1>3. \A c \in Credentials : x.tests[c] = IF s.tests[c] = "running" THEN "cancelled" ELSE s.tests[c]
  <2> DEFINE tests == [c \in Credentials |-> IF s.tests[c] = "running" THEN "cancelled" ELSE s.tests[c]]
  <2>1. Cancelled(s).tests = tests
    BY DEF Service, Cancelled
  <2>2. Stopping(s).tests = Cancelled(s).tests
    BY DEF Service, Cancelled, Stopping
  <2> QED BY <2>1, <2>2
<1> QED BY <1>1, <1>2, <1>3

LEMMA BeginHandOffSafe ==
  ASSUME Safe, BeginHandOff
  PROVE  Safe'
<1> DEFINE x == Cancelled(service[serving])
<1>1. service' = [service EXCEPT ![serving] = x] /\ phase = "serving" /\ life[serving] = "open" /\ owner = serving /\ life[Newer] = "none"
  BY CpaOf DEF BeginHandOff
<1>2. service[serving] \in Service /\ Sound(x) /\ x \in Service
  BY CpaOf, CancelledIsSound DEF Sound, Ready
<1> HIDE DEF x
<1>3. /\ x.hist = service[serving].hist /\ x.dirty = service[serving].dirty /\ x.failed = service[serving].failed
      /\ x.inspection = service[serving].inspection /\ x.stopped = service[serving].stopped
  BY <1>2, CancelledKeeps DEF x
<1>4. UNCHANGED <<life, owner, serving, clock, history, inspectionFile, unsaved, ran, dropped, records>> /\ phase' = "handoff" /\ Newer' = Newer
  BY NewerStays DEF BeginHandOff, files, past
<1>5. service' \in [Instances -> Service] /\ service'[serving] = x /\ \A j \in Instances : j # serving => service'[j] = service[j]
  BY <1>1, <1>2, CpaOf, Put
<1>6. TypeOK' /\ records' \in Nat
  BY <1>4, <1>5 DEF Safe, TypeOK
<1>7. Kept'
  BY <1>2, <1>4, <1>5 DEF Safe, Kept, Once
<1>8. Control'
  BY <1>1, <1>3, <1>4, <1>5, CpaOf DEF Safe, Control
<1>9. Follows'
  BY <1>3, <1>4, <1>5, CpaOf DEF Safe, Follows
<1>10. Recorded'
  BY <1>1, <1>3, <1>4, <1>5, CpaOf DEF Safe, Recorded
<1>11. ClosedIsQuiet'
  BY <1>1, <1>4, <1>5, CpaOf DEF Safe, ClosedIsQuiet, Ended
<1> QED BY <1>6, <1>7, <1>8, <1>9, <1>10, <1>11 DEF Safe

LEMMA EndHandOffSafe ==
  ASSUME Safe, EndHandOff
  PROVE  Safe'
<1> DEFINE s == Disarmed(service[serving])
<1>1. phase = "handoff" /\ life[serving] = "open" /\ owner = serving /\ life[Newer] = "none"
  BY DEF EndHandOff, Safe, Control
<1>2. PICK r \in Saves(serving, s) : service' = [service EXCEPT ![serving] = r.s] /\ history' = r.file /\ unsaved' = unsaved \cup r.skipped
  BY DEF EndHandOff, SaveTo
<1>3. Ready(s) /\ s.hist = service[serving].hist /\ s.stopped = service[serving].stopped /\ s.inspection = service[serving].inspection
  BY CpaOf, DisarmedIsReady DEF Sound, Ready, Service, Disarmed
<1> HIDE DEF s
<1>4. /\ Sound(r.s) /\ r.s.stopped = service[serving].stopped /\ r.s.inspection = service[serving].inspection
      /\ r.file \subseteq Records /\ r.skipped \subseteq Records /\ r.file \subseteq r.s.hist
      /\ r.s.hist \subseteq r.file \cup r.skipped \/ r.s.failed
  BY <1>3, CpaOf, SavedFollows
<1>5. /\ UNCHANGED <<life, serving, clock, inspectionFile, ran, dropped, records>> /\ Newer' = Newer
      /\ (phase' = "quiesced" /\ owner' = None) \/ (phase' = "serving" /\ owner' = owner)
  BY NewerStays DEF EndHandOff, bounds
<1>6. service' \in [Instances -> Service] /\ service'[serving] = r.s /\ \A j \in Instances : j # serving => service'[j] = service[j]
  BY <1>2, <1>4, CpaOf, Put DEF Sound, Ready
<1>7. TypeOK' /\ records' \in Nat
  BY <1>2, <1>4, <1>5, <1>6 DEF Safe, TypeOK
<1>8. Kept'
  BY <1>4, <1>5, <1>6 DEF Safe, Kept, Once
<1>9. Control'
  BY <1>1, <1>4, <1>5, <1>6, CpaOf DEF Safe, Control
<1>10. Follows'
  <2>1. phase' # "loaded"
    BY <1>5
  <2>2. r.s.hist \subseteq history' \cup unsaved' \/ r.s.failed
    BY <1>2, <1>4
  <2> QED BY <1>2, <1>4, <1>5, <1>6, <2>1, <2>2 DEF Follows
<1>11. Recorded'
  BY <1>1, <1>4, <1>5, <1>6, CpaOf DEF Safe, Recorded
<1>12. ClosedIsQuiet'
  BY <1>1, <1>5, <1>6, CpaOf DEF Safe, ClosedIsQuiet, Ended
<1> QED BY <1>7, <1>8, <1>9, <1>10, <1>11, <1>12 DEF Safe

\* A service that has just read the files.
LEMMA OpenedFields ==
  ASSUME NEW h, NEW inspection
  PROVE  LET x == Opened(h, inspection) IN
         /\ x.hist = h /\ x.inspection = inspection /\ ~x.dirty /\ ~x.failed /\ ~x.stopped /\ ~x.armed /\ ~x.timer
         /\ x.fired = 0 /\ ~x.asked /\ \A c \in Credentials : x.tests[c] = "idle"
BY DEF Opened

LEMMA TakeOverSafe ==
  ASSUME Safe, TakeOver
  PROVE  Safe'
<1> DEFINE x == Opened(history, inspectionFile)
<1>1. /\ phase = "quiesced" /\ life[serving] = "open" /\ service' = [service EXCEPT ![Newer] = x]
      /\ life' = [life EXCEPT ![Newer] = "open"] /\ owner' = Newer /\ phase' = "loaded" /\ ran' = inspectionFile.rounds
  BY DEF TakeOver, Safe, Control
<1>2. Sound(x) /\ x \in Service
  BY CpaOf, OpenedIsSound DEF Sound, Ready
<1>3. /\ x.hist = history /\ x.inspection = inspectionFile /\ ~x.dirty /\ ~x.failed /\ ~x.stopped /\ ~x.armed /\ ~x.timer
      /\ x.fired = 0 /\ ~x.asked /\ \A c \in Credentials : x.tests[c] = "idle"
  BY OpenedFields
<1> HIDE DEF x
<1>4. UNCHANGED <<serving, clock, history, inspectionFile, unsaved, dropped, records>> /\ Newer' = Newer
  BY NewerStays DEF TakeOver, files, bounds
<1>5. /\ service' \in [Instances -> Service] /\ service'[Newer] = x /\ \A j \in Instances : j # Newer => service'[j] = service[j]
      /\ life'[Newer] = "open" /\ \A j \in Instances : j # Newer => life'[j] = life[j]
  BY <1>1, <1>2, CpaOf, Put
<1>6. inspectionFile.rounds \in [Slots -> Nat] /\ \A slot \in Slots : inspectionFile.rounds[slot] <= 1
  BY CpaOf DEF Inspection, Once
<1>7. TypeOK' /\ records' \in Nat
  BY <1>1, <1>4, <1>5, <1>6, CpaOf DEF Safe, TypeOK
<1>8. Kept'
  BY <1>2, <1>4, <1>5 DEF Safe, Kept, Once
<1>9. Control'
  BY <1>1, <1>3, <1>4, <1>5, CpaOf DEF Safe, Control
<1>10. Follows'
  BY <1>1, <1>3, <1>4, <1>5, CpaOf DEF Safe, Follows, Fresh
<1>11. Recorded'
  <2>1. ran' = inspectionFile.rounds /\ service'[owner'].inspection.rounds = inspectionFile.rounds
    BY <1>1, <1>3, <1>5
  <2> QED BY <1>6, <2>1 DEF Recorded
<1>12. ClosedIsQuiet'
  BY <1>4, <1>5, CpaOf DEF Safe, ClosedIsQuiet, Ended
<1> QED BY <1>7, <1>8, <1>9, <1>10, <1>11, <1>12 DEF Safe

LEMMA SwitchSafe ==
  ASSUME Safe, Switch
  PROVE  Safe'
<1>1. /\ phase = "loaded" /\ life[Newer] = "open" /\ serving' = Newer /\ phase' = "serving" /\ owner = Newer
      /\ UNCHANGED <<service, life, owner, clock, history, inspectionFile, unsaved, ran, dropped, records>>
  BY CpaOf DEF Switch, Safe, Control, files, past, bounds
<1>2. Newer' = serving
  BY <1>1, CpaOf, NewerSwitches
<1>3. TypeOK' /\ records' \in Nat /\ Kept'
  BY <1>1, CpaOf DEF Safe, TypeOK, Kept, Once
<1>4. Control'
  BY <1>1, <1>2, CpaOf DEF Safe, Control
<1>5. Follows'
  BY <1>1, <1>2, CpaOf DEF Safe, Follows, Fresh
<1>6. Recorded' /\ ClosedIsQuiet'
  BY <1>1, CpaOf DEF Safe, Recorded, ClosedIsQuiet, Ended
<1> QED BY <1>3, <1>4, <1>5, <1>6 DEF Safe

LEMMA BeginStopSafe ==
  ASSUME Safe, NEW i \in Instances, BeginStop(i)
  PROVE  Safe'
<1> DEFINE x == Stopping(service[i])
<1>1. /\ service' = [service EXCEPT ![i] = x] /\ life' = [life EXCEPT ![i] = "stopping"] /\ life[i] = "open"
      /\ phase = "serving" \/ (phase = "loaded" /\ i = Newer)
  BY CpaOf DEF BeginStop
<1>2. service[i] \in Service /\ Sound(x) /\ x \in Service
  BY CpaOf, CancelledIsSound DEF Sound, Ready
<1> HIDE DEF x
<1>3. /\ x.hist = service[i].hist /\ x.dirty = service[i].dirty /\ x.failed = service[i].failed
      /\ x.inspection = service[i].inspection /\ x.stopped
      /\ x.armed = service[i].armed /\ x.timer = service[i].timer /\ x.fired = service[i].fired /\ x.asked = service[i].asked
      /\ (\A c \in Credentials : service[i].tests[c] = "idle") => \A c \in Credentials : x.tests[c] = "idle"
  BY <1>2, CancelledKeeps DEF x
<1>4. UNCHANGED <<owner, phase, serving, clock, history, inspectionFile, unsaved, ran, dropped, records>> /\ Newer' = Newer
  BY NewerStays DEF BeginStop, files, past, bounds
<1>5. /\ service' \in [Instances -> Service] /\ service'[i] = x /\ \A j \in Instances : j # i => service'[j] = service[j]
      /\ life'[i] = "stopping" /\ \A j \in Instances : j # i => life'[j] = life[j]
  BY <1>1, <1>2, CpaOf, Put
<1>6. TypeOK' /\ records' \in Nat
  BY <1>1, <1>4, <1>5 DEF Safe, TypeOK
<1>7. Kept'
  BY <1>2, <1>4, <1>5 DEF Safe, Kept, Once
<1>8. Control'
  BY <1>1, <1>3, <1>4, <1>5, CpaOf DEF Safe, Control
<1>9. Follows'
  BY <1>3, <1>4, <1>5, CpaOf DEF Safe, Follows, Fresh
<1>10. Recorded'
  BY <1>3, <1>4, <1>5, CpaOf DEF Safe, Recorded, TypeOK
<1>11. ClosedIsQuiet'
  BY <1>4, <1>5, CpaOf DEF Safe, ClosedIsQuiet, Ended
<1> QED BY <1>6, <1>7, <1>8, <1>9, <1>10, <1>11 DEF Safe

LEMMA EndStopSafe ==
  ASSUME Safe, NEW i \in Instances, EndStop(i)
  PROVE  Safe'
<1> DEFINE s == Disarmed(service[i])
<1>1. life[i] = "stopping" /\ life' = [life EXCEPT ![i] = "closed"] /\ Ended(service[i]) /\ owner' = IF owner = i THEN None ELSE owner
  BY DEF EndStop
<1>2. PICK r \in Saves(i, s) : service' = [service EXCEPT ![i] = r.s] /\ history' = r.file /\ unsaved' = unsaved \cup r.skipped
  BY DEF EndStop, SaveTo
<1>3. /\ Ready(s) /\ s.hist = service[i].hist /\ s.stopped = service[i].stopped /\ s.inspection = service[i].inspection
      /\ s.tests = service[i].tests /\ s.round = service[i].round /\ ~s.armed
  BY CpaOf, DisarmedIsReady DEF Sound, Ready, Service, Disarmed
<1>4. s.asked = service[i].asked /\ s.fired = service[i].fired /\ ~s.timer /\ s.dirty = service[i].dirty
  BY CpaOf DEF Sound, Ready, Service, Disarmed
<1> HIDE DEF s
<1>5. /\ Sound(r.s) /\ r.s.hist = s.hist /\ r.s.stopped = s.stopped /\ r.s.inspection = s.inspection /\ ~r.s.armed
      /\ r.s.tests = s.tests /\ r.s.round = s.round /\ r.s.asked = s.asked /\ r.s.timer = s.timer /\ r.s.fired = s.fired
      /\ r.s.dirty => s.dirty
      /\ r.file \subseteq Records /\ r.skipped \subseteq Records
      /\ i # serving \/ phase = "loaded" => r.file = history
      /\ i = serving => r.file \subseteq r.s.hist
      /\ r.s.hist \subseteq r.file \cup r.skipped \/ r.s.failed
  BY <1>3, SavedFollows
<1>6. /\ UNCHANGED <<phase, serving, clock, inspectionFile, ran, dropped, records>> /\ Newer' = Newer
  BY NewerStays DEF EndStop, bounds
<1>7. /\ service' \in [Instances -> Service] /\ service'[i] = r.s /\ \A j \in Instances : j # i => service'[j] = service[j]
      /\ life'[i] = "closed" /\ \A j \in Instances : j # i => life'[j] = life[j]
  BY <1>1, <1>2, <1>5, CpaOf, Put DEF Sound, Ready
<1>8. TypeOK' /\ records' \in Nat
  BY <1>1, <1>2, <1>5, <1>6, <1>7 DEF Safe, TypeOK
<1>9. Kept'
  BY <1>5, <1>6, <1>7 DEF Safe, Kept, Once
<1>10. Control'
  BY <1>1, <1>3, <1>5, <1>6, <1>7, CpaOf DEF Safe, Control
<1>11. Follows'
  <2>1. CASE i = serving
    <3>1. phase' # "loaded"
      BY <1>1, <1>6, <2>1, CpaOf DEF Safe, Control
    <3> QED BY <1>2, <1>5, <1>6, <1>7, <2>1, <3>1 DEF Follows
  <2>2. CASE i # serving
    <3>1. history' = history /\ service'[serving] = service[serving] /\ unsaved \subseteq unsaved'
      BY <1>2, <1>5, <1>7, <2>2, CpaOf
    <3>2. phase = "loaded" => Fresh(service[Newer])
      BY DEF Safe, Follows
    <3>3. phase = "loaded" => Fresh(service[Newer])'
      BY <1>3, <1>4, <1>5, <1>6, <1>7, <2>2, <3>1, <3>2, CpaOf DEF Fresh
    <3> QED BY <1>6, <3>1, <3>3 DEF Safe, Follows
  <2> QED BY <2>1, <2>2
<1>12. Recorded'
  BY <1>1, <1>3, <1>5, <1>6, <1>7, CpaOf DEF Safe, Recorded, TypeOK
<1>13. ClosedIsQuiet'
  BY <1>1, <1>3, <1>5, <1>7, CpaOf DEF Safe, ClosedIsQuiet, Ended
<1> QED BY <1>8, <1>9, <1>10, <1>11, <1>12, <1>13 DEF Safe

LEMMA UnloadSafe ==
  ASSUME Safe, NEW i \in Instances, Unload(i)
  PROVE  Safe'
<1> DEFINE x == Opened({}, EmptyInspection)
<1>1. life[i] = "closed" /\ i # serving /\ phase = "serving" /\ life' = [life EXCEPT ![i] = "none"] /\ service' = [service EXCEPT ![i] = x]
  BY DEF Unload
<1>2. Sound(x) /\ x \in Service /\ ~x.stopped
  BY EmptyIsSound, OpenedIsSound, OpenedFields DEF Sound, Ready
<1> HIDE DEF x
<1>3. UNCHANGED <<owner, phase, serving, clock, history, inspectionFile, unsaved, ran, dropped, records>> /\ Newer' = Newer
  BY NewerStays DEF Unload, files, past, bounds
<1>4. /\ service' \in [Instances -> Service] /\ service'[i] = x /\ \A j \in Instances : j # i => service'[j] = service[j]
      /\ life'[i] = "none" /\ \A j \in Instances : j # i => life'[j] = life[j]
  BY <1>1, <1>2, CpaOf, Put
<1>5. owner # i
  BY <1>1, CpaOf DEF Safe, Control
<1>6. TypeOK' /\ records' \in Nat
  BY <1>1, <1>3, <1>4 DEF Safe, TypeOK
<1>7. Kept'
  BY <1>2, <1>3, <1>4 DEF Safe, Kept, Once
<1>8. Control'
  BY <1>1, <1>2, <1>3, <1>4, CpaOf DEF Safe, Control
<1>9. Follows'
  BY <1>1, <1>3, <1>4, CpaOf DEF Safe, Follows
<1>10. Recorded'
  BY <1>3, <1>4, <1>5, CpaOf DEF Safe, Recorded, TypeOK
<1>11. ClosedIsQuiet'
  BY <1>4, CpaOf DEF Safe, ClosedIsQuiet, Ended
<1> QED BY <1>6, <1>7, <1>8, <1>9, <1>10, <1>11 DEF Safe

\* The older instance goes on with what it remembers: what the newer one
\* recorded since is dropped.
LEMMA RollbackSafe ==
  ASSUME Safe, Rollback
  PROVE  Safe'
<1>1. /\ phase \in {"quiesced", "loaded"} /\ life[serving] = "open" /\ ~service[serving].stopped
      /\ owner' = serving /\ phase' = "serving"
      /\ dropped' = dropped \cup {slot \in Slots : ran[slot] > service[serving].inspection.rounds[slot]}
  BY CpaOf DEF Rollback, Safe, Control
<1>2. service' = service
  <2>1. \A s \in Service : ~s.stopped => [s EXCEPT !.stopped = FALSE] = s
    BY DEF Service
  <2>2. service' = [service EXCEPT ![serving] = [@ EXCEPT !.stopped = FALSE]] /\ service[serving] \in Service
    BY CpaOf DEF Rollback
  <2> QED BY <1>1, <2>1, <2>2, CpaOf
<1>3. UNCHANGED <<life, serving, clock, history, inspectionFile, unsaved, ran, records>> /\ Newer' = Newer
  BY NewerStays DEF Rollback, files, bounds
<1>4. service[serving].inspection.rounds \in [Slots -> Nat] /\ ran \in [Slots -> Nat]
  BY CpaOf, RoundFields DEF Safe, TypeOK
<1>5. TypeOK' /\ records' \in Nat
  BY <1>1, <1>2, <1>3, CpaOf DEF Safe, TypeOK
<1>6. Kept' /\ ClosedIsQuiet'
  BY <1>2, <1>3 DEF Safe, Kept, Once, ClosedIsQuiet, Ended
<1>7. Control'
  BY <1>1, <1>2, <1>3, CpaOf DEF Safe, Control
<1>8. Follows'
  BY <1>1, <1>2, <1>3 DEF Safe, Follows
<1>9. Recorded'
  <2>1. \A slot \in Slots : ran[slot] \in Nat /\ service[serving].inspection.rounds[slot] \in Nat
    BY <1>4
  <2>2. \A slot \in Slots : ran[slot] <= service[serving].inspection.rounds[slot] \/ slot \in dropped'
    BY <1>1, <2>1
  <2>3. \A slot \in Slots : ran[slot] <= 1 \/ slot \in dropped'
    BY <1>1 DEF Safe, Recorded
  <2> QED BY <1>1, <1>2, <1>3, <2>2, <2>3 DEF Recorded
<1> QED BY <1>5, <1>6, <1>7, <1>8, <1>9 DEF Safe

LEMMA RestartSafe ==
  ASSUME Safe, Restart
  PROVE  Safe'
<1> DEFINE x == Opened(history, inspectionFile)
<1>1. /\ phase = "serving" /\ life[Newer] = "none" /\ service' = [service EXCEPT ![serving] = x]
      /\ life' = [life EXCEPT ![serving] = "open"] /\ owner' = serving /\ ran' = inspectionFile.rounds
  BY DEF Restart
<1>2. Sound(x) /\ x \in Service
  BY CpaOf, OpenedIsSound DEF Sound, Ready
<1>3. x.hist = history /\ x.inspection = inspectionFile /\ ~x.stopped
  BY OpenedFields
<1> HIDE DEF x
<1>4. UNCHANGED <<phase, serving, clock, history, inspectionFile, unsaved, dropped, records>> /\ Newer' = Newer
  BY NewerStays DEF Restart, files
<1>5. /\ service' \in [Instances -> Service] /\ service'[serving] = x /\ \A j \in Instances : j # serving => service'[j] = service[j]
      /\ life'[serving] = "open" /\ \A j \in Instances : j # serving => life'[j] = life[j]
  BY <1>1, <1>2, CpaOf, Put
<1>6. inspectionFile.rounds \in [Slots -> Nat] /\ \A slot \in Slots : inspectionFile.rounds[slot] <= 1
  BY CpaOf DEF Inspection, Once
<1>7. TypeOK' /\ records' \in Nat
  BY <1>1, <1>4, <1>5, <1>6, CpaOf DEF Safe, TypeOK
<1>8. Kept'
  BY <1>2, <1>4, <1>5 DEF Safe, Kept, Once
<1>9. Control'
  BY <1>1, <1>3, <1>4, <1>5, CpaOf DEF Safe, Control
<1>10. Follows'
  BY <1>1, <1>3, <1>4, <1>5, CpaOf DEF Safe, Follows
<1>11. Recorded'
  <2>1. ran' = inspectionFile.rounds /\ service'[owner'].inspection.rounds = inspectionFile.rounds
    BY <1>1, <1>3, <1>5
  <2> QED BY <1>6, <2>1 DEF Recorded
<1>12. ClosedIsQuiet'
  BY <1>1, <1>5, CpaOf DEF Safe, ClosedIsQuiet, Ended
<1> QED BY <1>7, <1>8, <1>9, <1>10, <1>11, <1>12 DEF Safe

LEMMA NextSlotSafe ==
  ASSUME Safe, NextSlot
  PROVE  Safe'
<1>1. UNCHANGED <<service, life, owner, phase, serving, history, inspectionFile, unsaved, ran, dropped, records>> /\ Newer' = Newer
  BY NewerStays DEF NextSlot, cpa, files, past, bounds
<1>2. clock' \in 0..LastSlot
  BY SlotsAreNat DEF NextSlot, Safe, TypeOK
<1> QED BY <1>1, <1>2 DEF Safe, TypeOK, Kept, Once, Control, Follows, Fresh, Recorded, ClosedIsQuiet, Ended

----------------------------------------------------------------------------
\* Every step, and what follows

LEMMA InitSafe == Init => Safe
<1> SUFFICES ASSUME Init PROVE Safe
  OBVIOUS
<1> DEFINE x == Opened({}, EmptyInspection)
<1>1. PICK older, newer \in Instances : older # newer /\ Instances = {older, newer}
  BY QualityAssumption
<1>2. serving \in Instances
  BY <1>1 DEF Init
<1>3. /\ service = [i \in Instances |-> x] /\ life = [i \in Instances |-> IF i = serving THEN "open" ELSE "none"]
      /\ owner = serving /\ phase = "serving" /\ clock = 0 /\ history = {} /\ inspectionFile = EmptyInspection
      /\ unsaved = {} /\ ran = [slot \in Slots |-> 0] /\ dropped = {} /\ records \in Nat
  BY SlotsAreNat DEF Init
<1>4. Sound(x) /\ x \in Service
  BY EmptyIsSound, OpenedIsSound DEF Sound, Ready
<1>5. x.hist = {} /\ x.inspection = EmptyInspection /\ ~x.stopped /\ EmptyInspection.rounds = [slot \in Slots |-> 0]
  BY OpenedFields DEF EmptyInspection
<1> HIDE DEF x
<1>6. TypeOK /\ records \in Nat
  BY <1>2, <1>3, <1>4, EmptyIsSound, SlotsAreNat DEF TypeOK
<1>7. Kept
  BY <1>3, <1>4, EmptyIsSound DEF Kept
<1>8. Control
  BY <1>2, <1>3, <1>5 DEF Control
<1>9. Follows
  BY <1>2, <1>3, <1>5 DEF Follows
<1>10. Recorded
  BY <1>2, <1>3, <1>5 DEF Recorded
<1>11. ClosedIsQuiet
  BY <1>3 DEF ClosedIsQuiet
<1> QED BY <1>6, <1>7, <1>8, <1>9, <1>10, <1>11 DEF Safe

LEMMA StutterSafe ==
  ASSUME Safe, UNCHANGED vars
  PROVE  Safe'
<1>1. UNCHANGED <<service, life, owner, phase, serving, clock, history, inspectionFile, unsaved, ran, dropped, records>> /\ Newer' = Newer
  BY NewerStays DEF vars, cpa, files, past, bounds
<1> QED BY <1>1 DEF Safe, TypeOK, Kept, Once, Control, Follows, Fresh, Recorded, ClosedIsQuiet, Ended

LEMMA NextSafe ==
  ASSUME Safe, [Next]_vars
  PROVE  Safe'
<1> USE CpaOf
<1>1. ASSUME NEW c \in Credentials, Cancel(c) \/ \E i \in Instances : Record(i, c) \/ Finish(i, c)
      PROVE  Safe'
  BY <1>1, FinishSafe, RecordSafe
<1>2. CASE Run \/ \E i \in Instances, selected \in SUBSET Credentials : StartTests(i, selected)
  BY <1>2, RunSafe, StartTestsSafe
<1>3. CASE Clear \/ \E i \in Instances : TimerFires(i) \/ Flush(i)
  BY <1>3, ClearSafe, TimerFiresSafe, FlushSafe
<1>4. ASSUME NEW i \in Instances, Tick(i) \/ StartDue(i) \/ CheckRound(i) \/ RecordRound(i)
      PROVE  Safe'
  BY <1>4, TickSafe, StartDueSafe, CheckRoundSafe, RecordRoundSafe
<1>5. CASE StartInspection \/ \E g \in Groups : SetInspection(g)
  BY <1>5, StartInspectionSafe, SetInspectionSafe
<1>6. CASE BeginHandOff \/ EndHandOff \/ TakeOver \/ Switch \/ Rollback
  BY <1>6, BeginHandOffSafe, EndHandOffSafe, TakeOverSafe, SwitchSafe, RollbackSafe
<1>7. ASSUME NEW i \in Instances, BeginStop(i) \/ EndStop(i) \/ Unload(i)
      PROVE  Safe'
  BY <1>7, BeginStopSafe, EndStopSafe, UnloadSafe
<1>8. CASE Restart \/ NextSlot
  BY <1>8, RestartSafe, NextSlotSafe
<1>9. CASE UNCHANGED vars
  BY <1>9, StutterSafe
<1> QED BY <1>1, <1>2, <1>3, <1>4, <1>5, <1>6, <1>7, <1>8, <1>9 DEF Next

THEOREM AlwaysSafe == Spec => []Safe
<1>1. Safe /\ [Next]_vars => Safe'
  BY NextSafe
<1> QED BY InitSafe, <1>1, PTL DEF Spec

THEOREM QualityTypeOK == Spec => []TypeOK
<1>1. Safe => TypeOK
  BY DEF Safe
<1> QED BY AlwaysSafe, <1>1, PTL

THEOREM HistoryIsSaved == Spec => []RecordsAreSaved
<1>1. Safe => RecordsAreSaved
  <2> SUFFICES ASSUME Safe PROVE RecordsAreSaved
    OBVIOUS
  <2>1. \A i \in Instances : WriteIsDue(service[i])
    BY DEF Safe, Kept, Sound
  <2>2. ASSUME owner # None, ~service[owner].dirty, ~service[owner].failed
        PROVE  service[owner].hist \ unsaved \subseteq history /\ history \subseteq service[owner].hist
    <3>1. owner = serving \/ (phase = "loaded" /\ owner = Newer)
      BY <2>2, CpaOf DEF Safe, Control
    <3> QED BY <2>2, <3>1 DEF Safe, Follows, Fresh
  <2> QED BY <2>1, <2>2 DEF RecordsAreSaved
<1> QED BY AlwaysSafe, <1>1, PTL

THEOREM StopEndsAll == Spec => []ClosedIsQuiet
<1>1. Safe => ClosedIsQuiet
  BY DEF Safe
<1> QED BY AlwaysSafe, <1>1, PTL

THEOREM RoundsAreRecordedOnce == Spec => []InspectionHolds
<1>1. Safe => InspectionHolds
  BY DEF Safe, Recorded, Kept, Sound, Ready, Once, InspectionHolds
<1> QED BY AlwaysSafe, <1>1, PTL

\* A save of the instance that owns the files writes at least what they have.
LEMMA SaveKeeps ==
  ASSUME Safe, NEW i \in Instances, NEW s, Ready(s), s.hist = service[i].hist, SaveTo(i, s)
  PROVE  history \subseteq history'
BY SavedFollows DEF SaveTo

LEMMA EditsAreCounted == Spec => [](edits \in Nat)
<1> DEFINE Counted == edits \in Nat
<1>1. Init => Counted
  BY QualityAssumption DEF Init
<1>2. Counted /\ [Next]_vars => Counted'
  <2> SUFFICES ASSUME edits \in Nat, [Next]_vars PROVE edits' = edits \/ edits' = edits + 1
    OBVIOUS
  <2> QED
    BY DEF Next, vars, bounds, Cancel, Record, Finish, Run, StartTests, TimerFires, Flush, Clear, Tick, StartDue, StartInspection,
           CheckRound, RecordRound, SetInspection, BeginHandOff, EndHandOff, TakeOver, Switch, Rollback, BeginStop, EndStop,
           Unload, Restart, NextSlot
<1> QED BY <1>1, <1>2, PTL DEF Spec

THEOREM WrittenStays == Spec => RecordsStay
<1>1. Safe /\ edits \in Nat /\ [Next]_vars => (edits' = edits => history \subseteq history')
  <2> SUFFICES ASSUME Safe, edits \in Nat, [Next]_vars, edits' = edits PROVE history \subseteq history'
    OBVIOUS
  <2>1. ASSUME NEW i \in Instances, Flush(i)
        PROVE  history \subseteq history'
    <3>1. CASE UNCHANGED history
      BY <3>1
    <3> DEFINE s == [service[i] EXCEPT !.fired = @ - 1, !.armed = FALSE]
    <3>2. CASE SaveTo(i, s)
      <4>1. PICK r \in Saves(i, s) : history' = r.file
        BY <3>2 DEF SaveTo
      <4>2. s.hist = service[i].hist /\ r.file \in {history, s.hist} /\ (r.file = history \/ owner = i)
        <5>1. r.file \in {history, s.hist} /\ (r.file = history \/ owner = i)
          BY <4>1, SavesAre
        <5>2. s.hist = service[i].hist
          BY CpaOf DEF Sound, Ready, Service
        <5> QED BY <5>1, <5>2
      <4> QED BY <4>1, <4>2, CpaOf, ServiceOf DEF Fresh
    <3> QED BY <2>1, <3>1, <3>2 DEF Flush
  <2>2. CASE EndHandOff
    BY <2>2, CpaOf, DisarmedIsReady, SaveKeeps DEF EndHandOff, Sound
  <2>3. ASSUME NEW i \in Instances, EndStop(i)
        PROVE  history \subseteq history'
    BY <2>3, CpaOf, DisarmedIsReady, SaveKeeps DEF EndStop, Sound
  <2>4. ~Clear
    BY DEF Clear
  <2>5. CASE UNCHANGED history
    BY <2>5
  <2> QED
    BY <2>1, <2>2, <2>3, <2>4, <2>5
    DEF Next, vars, files, Cancel, Record, Finish, Run, StartTests, TimerFires, Tick, StartDue, CheckRound, RecordRound,
        StartInspection, SetInspection, BeginHandOff, TakeOver, Switch, Rollback, BeginStop, Unload, Restart, NextSlot
<1> QED BY AlwaysSafe, EditsAreCounted, <1>1, PTL DEF Spec, RecordsStay

----------------------------------------------------------------------------
\* Folds of Verdicts: the sets and sequences the page is computed from are
\* finite, so a fold of one exists by induction over the sizes of its subsets

\* A set closed under successor, by the least number outside it.
LEMMA FromZeroOn ==
  ASSUME NEW S, 0 \in S, \A n \in Nat : n \in S => n + 1 \in S
  PROVE  Nat \subseteq S
<1> SUFFICES ASSUME Nat \ S # {} PROVE FALSE
  OBVIOUS
<1>1. PICK x \in Nat \ S : \A y \in Nat \ S : ~(<<y, x>> \in OpToRel(<, Nat))
  BY NatLessThanWellFounded, WFMin
<1>2. \A y \in Nat \ S : ~(y < x)
  BY <1>1 DEF OpToRel
<1>3. x # 0 /\ x - 1 \in Nat /\ x - 1 < x
  OBVIOUS
<1>4. x - 1 \in S /\ (x - 1) + 1 = x
  BY <1>2, <1>3
<1> QED BY <1>3, <1>4

\* Subsets by their size, for induction.
LEMMA Sizes ==
  ASSUME NEW S, IsFiniteSet(S)
  PROVE  \A s \in SUBSET S :
           /\ IsFiniteSet(s) /\ Cardinality(s) \in Nat /\ (Cardinality(s) = 0 <=> s = {})
           /\ \A x \in s : Cardinality(s \ {x}) = Cardinality(s) - 1 /\ s \ {x} \in SUBSET S
<1>1. \A s \in SUBSET S : IsFiniteSet(s)
  BY FS_Subset
<1>2. \A s \in SUBSET S : Cardinality(s) \in Nat /\ (Cardinality(s) = 0 <=> s = {})
  BY <1>1, FS_CardinalityType, FS_EmptySet
<1>3. \A s \in SUBSET S : \A x \in s : Cardinality(s \ {x}) = Cardinality(s) - 1
  BY <1>1, FS_RemoveElement
<1> QED BY <1>1, <1>2, <1>3

\* A property of the subsets, as the set P of those that have it.
LEMMA SubsetInduction ==
  ASSUME NEW S, IsFiniteSet(S), NEW P, {} \in P,
         \A s \in SUBSET S : s # {} /\ (\A x \in s : s \ {x} \in P) => s \in P
  PROVE  \A s \in SUBSET S : s \in P
<1> DEFINE N == {n \in Nat : \A s \in SUBSET S : Cardinality(s) = n => s \in P}
<1>1. 0 \in N
  BY Sizes
<1>2. ASSUME NEW n \in Nat, n \in N PROVE n + 1 \in N
  <2> SUFFICES ASSUME NEW s \in SUBSET S, Cardinality(s) = n + 1 PROVE s \in P
    OBVIOUS
  <2>1. s # {} /\ \A x \in s : s \ {x} \in SUBSET S /\ Cardinality(s \ {x}) = n
    BY Sizes
  <2>2. \A x \in s : s \ {x} \in P
    BY <1>2, <2>1
  <2> QED BY <2>1, <2>2
<1> HIDE DEF N
<1>3. Nat \subseteq N
  BY <1>1, <1>2, FromZeroOn
<1> QED BY <1>3, Sizes DEF N

\* What folding a set gives, element by element.
Folding(S, pick, base, step, fold) ==
  \A s \in SUBSET S : fold[s] = IF s = {} THEN base ELSE step[<<pick[s], fold[s \ {pick[s]}]>>]

LEMMA FoldExists ==
  ASSUME NEW S, IsFiniteSet(S), NEW pick, \A s \in SUBSET S : s # {} => pick[s] \in s,
         NEW A, NEW base \in A, NEW step \in [S \X A -> A]
  PROVE  \E fold \in [SUBSET S -> A] : Folding(S, pick, base, step, fold)
<1> DEFINE Small(n) == {s \in SUBSET S : Cardinality(s) <= n}
           After(s, fold) == IF s = {} THEN base ELSE step[<<pick[s], fold[s \ {pick[s]}]>>]
           N == {n \in Nat : \E fold \in [Small(n) -> A] : \A s \in Small(n) : fold[s] = After(s, fold)}
<1>1. 0 \in N
  <2> DEFINE fold == [s \in Small(0) |-> base]
  <2>1. \A s \in Small(0) : s = {}
    BY Sizes
  <2>2. fold \in [Small(0) -> A] /\ \A s \in Small(0) : fold[s] = After(s, fold)
    BY <2>1
  <2> HIDE DEF fold
  <2> QED BY <2>2
<1>2. ASSUME NEW n \in Nat, n \in N PROVE n + 1 \in N
  <2>1. PICK before \in [Small(n) -> A] : \A s \in Small(n) : before[s] = After(s, before)
    BY <1>2
  <2> DEFINE fold == [s \in Small(n + 1) |-> After(s, before)]
  <2>2. \A s \in Small(n + 1) : s # {} => pick[s] \in S /\ s \ {pick[s]} \in Small(n)
    <3> SUFFICES ASSUME NEW s \in Small(n + 1), s # {} PROVE pick[s] \in S /\ s \ {pick[s]} \in Small(n)
      OBVIOUS
    <3>1. pick[s] \in s
      OBVIOUS
    <3> QED BY <3>1, Sizes
  <2>3. \A s \in Small(n + 1) : After(s, before) \in A
    <3> HIDE DEF Small
    <3> QED BY <2>2
  <2>4. \A s \in Small(n) : s \in Small(n + 1)
    BY Sizes
  <2> HIDE DEF Small
  <2>5. \A s \in Small(n) : fold[s] = before[s]
    BY <2>1, <2>4
  <2>6. fold \in [Small(n + 1) -> A] /\ \A s \in Small(n + 1) : fold[s] = After(s, before)
    BY <2>3
  <2> HIDE DEF fold
  <2>7. \A s \in Small(n + 1) : After(s, before) = After(s, fold)
    BY <2>2, <2>5
  <2> HIDE DEF After
  <2>8. \E g \in [Small(n + 1) -> A] : \A s \in Small(n + 1) : g[s] = After(s, g)
    BY <2>6, <2>7
  <2> QED BY <2>8
<1> HIDE DEF N
<1>3. Nat \subseteq N
  BY <1>1, <1>2, FromZeroOn
<1>4. Cardinality(S) \in N
  BY <1>3, Sizes
<1>5. Small(Cardinality(S)) = SUBSET S
  BY FS_Subset, Sizes
<1> HIDE DEF Small
<1> QED BY <1>4, <1>5 DEF N, Folding

\* Max and Min of a finite set of numbers.
LEMMA Extremes ==
  ASSUME NEW S \in SUBSET Int, IsFiniteSet(S), S # {}
  PROVE  /\ Max(S) \in S /\ \A y \in S : Max(S) >= y
         /\ Min(S) \in S /\ \A y \in S : Min(S) <= y
<1> DEFINE Has(s) == (\E x \in s : \A y \in s : x >= y) /\ (\E x \in s : \A y \in s : x <= y)
           P == {s \in SUBSET S : s = {} \/ Has(s)}
<1>1. ASSUME NEW s \in SUBSET S, s # {}, \A x \in s : s \ {x} \in P PROVE s \in P
  <2>1. PICK x \in s : TRUE
    BY <1>1
  <2>2. s \ {x} = {} \/ Has(s \ {x})
    BY <1>1, <2>1
  <2>3. CASE s \ {x} = {}
    <3>1. \A y \in s : x >= y /\ x <= y
      BY <2>1, <2>3
    <3> QED BY <2>1, <3>1
  <2>4. CASE Has(s \ {x})
    <3>1. PICK top \in s \ {x} : \A y \in s \ {x} : top >= y
      BY <2>4
    <3>2. PICK low \in s \ {x} : \A y \in s \ {x} : low <= y
      BY <2>4
    <3>3. (\A y \in s : top >= y) \/ (\A y \in s : x >= y)
      BY <2>1, <3>1
    <3>4. (\A y \in s : low <= y) \/ (\A y \in s : x <= y)
      BY <2>1, <3>2
    <3> QED BY <2>1, <3>1, <3>2, <3>3, <3>4
  <2> QED BY <2>2, <2>3, <2>4
<1> HIDE DEF Has
<1>2. {} \in P
  OBVIOUS
<1>3. \A s \in SUBSET S : s # {} /\ (\A x \in s : s \ {x} \in P) => s \in P
  BY <1>1
<1>4. S \in P
  <2> HIDE DEF P
  <2> QED BY <1>2, <1>3, SubsetInduction
<1>5. Has(S)
  BY <1>4
<1> QED BY <1>5 DEF Has, Max, Min

----------------------------------------------------------------------------
\* The order of the shares

LEMMA ProductsGrow ==
  ASSUME NEW n \in Nat, NEW m \in Nat, NEW k \in Nat \ {0}
  PROVE  (n <= m <=> n * k <= m * k) /\ (n < m <=> n * k < m * k)
OBVIOUS

\* Comparing c1 / a1 with c3 / a3 by way of c2 / a2.
LEMMA SharesCompare ==
  ASSUME NEW a1 \in Nat \ {0}, NEW a2 \in Nat \ {0}, NEW a3 \in Nat \ {0}, NEW c1 \in Nat, NEW c2 \in Nat, NEW c3 \in Nat,
         c1 * a2 <= c2 * a1, c2 * a3 <= c3 * a2
  PROVE  c1 * a3 <= c3 * a1 /\ (c1 * a2 < c2 * a1 \/ c2 * a3 < c3 * a2 => c1 * a3 < c3 * a1)
<1>1. /\ c1 * a2 \in Nat /\ c2 * a1 \in Nat /\ c2 * a3 \in Nat /\ c3 * a2 \in Nat /\ c1 * a3 \in Nat /\ c3 * a1 \in Nat
  OBVIOUS
<1>2. (c1 * a2) * a3 <= (c2 * a1) * a3 /\ (c1 * a2 < c2 * a1 => (c1 * a2) * a3 < (c2 * a1) * a3)
  BY <1>1, ProductsGrow
<1>3. (c2 * a3) * a1 <= (c3 * a2) * a1 /\ (c2 * a3 < c3 * a2 => (c2 * a3) * a1 < (c3 * a2) * a1)
  BY <1>1, ProductsGrow
<1>4. (c1 * a2) * a3 = (c1 * a3) * a2 /\ (c2 * a1) * a3 = (c2 * a3) * a1 /\ (c3 * a2) * a1 = (c3 * a1) * a2
  OBVIOUS
<1>5. (c1 * a3) * a2 <= (c3 * a1) * a2 => c1 * a3 <= c3 * a1
  BY <1>1, ProductsGrow
<1>6. (c1 * a3) * a2 < (c3 * a1) * a2 => c1 * a3 < c3 * a1
  BY <1>1, ProductsGrow
<1>7. /\ (c1 * a2) * a3 \in Nat /\ (c2 * a1) * a3 \in Nat /\ (c3 * a2) * a1 \in Nat
  OBVIOUS
<1> QED BY <1>2, <1>3, <1>4, <1>5, <1>6, <1>7

\* Counts that answered something; x is no better than y.
Answered(x) == x.answered \in Nat \ {0} /\ x.correct \in Nat
Behind(x, y) ==
  \/ x.correct * y.answered < y.correct * x.answered
  \/ x.correct * y.answered = y.correct * x.answered /\ x.answered <= y.answered

\* Behind is what the comparison leaves, and a tie is equal counts.
LEMMA BetterIsAhead ==
  ASSUME NEW x, NEW y, Answered(x), Answered(y)
  PROVE  /\ ~Better(x, y) <=> Behind(x, y)
         /\ Behind(x, x)
         /\ Better(x, y) => Behind(y, x)
         /\ Behind(x, y) /\ Behind(y, x) => x.answered = y.answered /\ x.correct = y.correct
<1>1. x.correct * y.answered \in Nat /\ y.correct * x.answered \in Nat
  BY DEF Answered
<1>2. y.answered # 0 /\ x.answered \in Nat /\ y.answered \in Nat
  BY DEF Answered
<1>3. Behind(x, y) /\ Behind(y, x) => x.answered = y.answered /\ x.correct * y.answered = y.correct * x.answered
  BY <1>1, <1>2 DEF Behind
<1>4. x.answered = y.answered /\ x.correct * y.answered = y.correct * x.answered => x.correct = y.correct
  <2> SUFFICES ASSUME x.answered = y.answered, x.correct * y.answered = y.correct * y.answered PROVE x.correct = y.correct
    OBVIOUS
  <2>1. \A n, m \in Nat : \A k \in Nat \ {0} : n * k = m * k => n = m
    <3> SUFFICES ASSUME NEW n \in Nat, NEW m \in Nat, NEW k \in Nat \ {0}, n * k = m * k PROVE n = m
      OBVIOUS
    <3>1. n * k \in Nat /\ n * k <= m * k /\ m * k <= n * k
      OBVIOUS
    <3> QED BY <3>1, ProductsGrow
  <2> QED BY <2>1 DEF Answered
<1>5. ~Better(x, y) <=> Behind(x, y)
  BY <1>1, <1>2 DEF Better, Behind
<1>6. Better(x, y) => Behind(y, x)
  BY <1>1, <1>2 DEF Better, Behind
<1> QED BY <1>2, <1>3, <1>4, <1>5, <1>6 DEF Behind

\* So the order in which the channels are compared does not matter.
LEMMA BehindIsTransitive ==
  ASSUME NEW x, NEW y, NEW z, Answered(x), Answered(y), Answered(z), Behind(x, y), Behind(y, z)
  PROVE  Behind(x, z)
<1> DEFINE a1 == x.answered
           a2 == y.answered
           a3 == z.answered
           c1 == x.correct
           c2 == y.correct
           c3 == z.correct
<1>1. /\ a1 \in Nat \ {0} /\ a2 \in Nat \ {0} /\ a3 \in Nat \ {0}
      /\ c1 \in Nat /\ c2 \in Nat /\ c3 \in Nat
  BY DEF Answered
<1>2. /\ c1 * a2 < c2 * a1 \/ (c1 * a2 = c2 * a1 /\ a1 <= a2)
      /\ c2 * a3 < c3 * a2 \/ (c2 * a3 = c3 * a2 /\ a2 <= a3)
  BY DEF Behind
<1>3. Behind(x, z) <=> c1 * a3 < c3 * a1 \/ (c1 * a3 = c3 * a1 /\ a1 <= a3)
  BY DEF Behind
<1> HIDE DEF a1, a2, a3, c1, c2, c3
<1>4. c1 * a2 \in Nat /\ c2 * a1 \in Nat /\ c2 * a3 \in Nat /\ c3 * a2 \in Nat /\ c1 * a3 \in Nat /\ c3 * a1 \in Nat
  BY <1>1
<1>5. c1 * a2 <= c2 * a1 /\ c2 * a3 <= c3 * a2
  BY <1>2, <1>4
<1>6. c1 * a3 <= c3 * a1 /\ (c1 * a2 < c2 * a1 \/ c2 * a3 < c3 * a2 => c1 * a3 < c3 * a1)
  BY <1>1, <1>5, SharesCompare
<1> QED BY <1>1, <1>2, <1>3, <1>4, <1>6

\* A channel whose share is ok has none better that is not.
LEMMA OkAhead ==
  ASSUME NEW x, NEW y, Answered(x), Answered(y), Behind(x, y), Verdict(x.answered, x.correct, 0) = "ok"
  PROVE  Verdict(y.answered, y.correct, 0) = "ok"
<1> DEFINE a1 == x.answered
           a2 == y.answered
           c1 == x.correct
           c2 == y.correct
<1>1. a1 \in Nat \ {0} /\ a2 \in Nat \ {0} /\ c1 \in Nat /\ c2 \in Nat
  BY DEF Answered
<1>2. c1 * a2 <= c2 * a1
  BY DEF Behind, Answered
<1>3. 3 * c1 >= 2 * a1
  BY <1>1 DEF Verdict
<1> HIDE DEF a1, a2, c1, c2
<1>4. 2 * a1 <= 3 * c1 /\ 3 * c1 \in Nat /\ 2 * a1 \in Nat
  BY <1>1, <1>3
<1>5. (2 * a1) * a2 <= (3 * c1) * a2
  BY <1>1, <1>4, ProductsGrow
<1>7. c1 * a2 \in Nat /\ c2 * a1 \in Nat
  BY <1>1
<1>8. (2 * a2) * a1 <= (3 * c2) * a1
  <2>1. \A p, q \in Nat : p <= q => 3 * p <= 3 * q
    OBVIOUS
  <2>2. 3 * (c1 * a2) <= 3 * (c2 * a1) /\ 3 * (c1 * a2) \in Nat /\ 3 * (c2 * a1) \in Nat
    BY <1>2, <1>7, <2>1
  <2> DEFINE p1 == (2 * a2) * a1
             p2 == (3 * c1) * a2
             p3 == (3 * c2) * a1
  <2>3. p1 <= p2 /\ p2 <= p3 /\ p1 \in Nat /\ p2 \in Nat /\ p3 \in Nat
    <3>1. p1 = (2 * a1) * a2 /\ p2 = 3 * (c1 * a2) /\ p3 = 3 * (c2 * a1) /\ p1 \in Nat /\ p2 \in Nat /\ p3 \in Nat
      BY <1>1
    <3>2. p1 <= p2
      BY <1>5, <3>1
    <3> HIDE DEF p1, p2, p3
    <3>3. p2 <= p3
      BY <2>2, <3>1
    <3> QED BY <3>1, <3>2, <3>3
  <2> HIDE DEF p1, p2, p3
  <2>4. p1 <= p3
    BY <2>3
  <2> QED BY <2>4 DEF p1, p3
<1>9. 2 * a2 <= 3 * c2
  <2>1. 2 * a2 \in Nat /\ 3 * c2 \in Nat
    BY <1>1
  <2> QED BY <1>1, <1>8, <2>1, ProductsGrow
<1>10. Verdict(a2, c2, 0) = "ok"
  BY <1>1, <1>9 DEF Verdict
<1> QED BY <1>10 DEF a2, c2

----------------------------------------------------------------------------
\* The best channel of a group

\* BestInOrder goes from one channel to the next.
Runs(bests, n, cells, order) ==
  /\ bests[0] = NoBest /\ bests[n] = BestInOrder(cells, order)
  /\ \A m \in 1..n : bests[m] = Challenged(bests[m - 1], cells[order[m]])
Counting(cells, K) == \A k \in K : cells[k].answered \in Nat /\ cells[k].correct \in Nat

LEMMA Between ==
  ASSUME NEW n \in Nat, NEW m \in 1..n
  PROVE  /\ m \in 0..n /\ m - 1 \in 0..n
         /\ 1..m \in SUBSET (1..n) /\ 1..m # {} /\ m \in 1..m /\ (1..m) \ {m} = 1..(m - 1)
OBVIOUS

\* BestInOrder is computed by a function.
LEMMA BestFolds ==
  ASSUME NEW n \in Nat, NEW K, NEW order \in [1..n -> K], NEW cells, Counting(cells, K)
  PROVE  \E bests : Runs(bests, n, cells, order)
<1> DEFINE S == 1..n
           A == [channels : Nat, answered : Nat, correct : Nat]
           pick == [s \in SUBSET S |-> Max(s)]
           step == [p \in S \X A |-> Challenged(p[2], cells[order[p[1]]])]
           After(s, fold) == IF s = {} THEN NoBest ELSE Challenged(fold[s \ {Max(s)}], cells[order[Max(s)]])
<1>1. IsFiniteSet(S) /\ \A s \in SUBSET S : s # {} => Max(s) \in s /\ \A x \in s : Max(s) >= x
  <2>1. IsFiniteSet(S)
    BY FS_Interval
  <2>2. S \in SUBSET Int
    OBVIOUS
  <2> HIDE DEF S
  <2>3. \A s \in SUBSET S : IsFiniteSet(s) /\ s \in SUBSET Int
    BY <2>1, <2>2, FS_Subset
  <2> QED BY <2>1, <2>3, Extremes
<1>2. NoBest \in A /\ step \in [S \X A -> A]
  <2>1. ASSUME NEW i \in S, NEW best \in A PROVE Challenged(best, cells[order[i]]) \in A
    BY DEF Challenged, Counting
  <2> QED BY <2>1 DEF NoBest
<1>3. \A s \in SUBSET S : s # {} => pick[s] \in s
  BY <1>1
<1>4. PICK found \in [SUBSET S -> A] : Folding(S, pick, NoBest, step, found)
  <2> HIDE DEF S, A, pick, step
  <2> QED BY <1>1, <1>2, <1>3, FoldExists
<1>5. ASSUME NEW s \in SUBSET S PROVE found[s] = After(s, found)
  <2>1. CASE s = {}
    BY <1>4, <2>1 DEF Folding
  <2>2. CASE s # {}
    <3>1. Max(s) \in S /\ pick[s] = Max(s) /\ found[s \ {Max(s)}] \in A
      BY <1>1, <2>2
    <3>2. found[s] = step[<<pick[s], found[s \ {pick[s]}]>>]
      BY <1>4, <2>2 DEF Folding
    <3> HIDE DEF S, A, pick
    <3>3. step[<<Max(s), found[s \ {Max(s)}]>>] = Challenged(found[s \ {Max(s)}], cells[order[Max(s)]])
      BY <3>1
    <3> QED BY <2>2, <3>1, <3>2, <3>3
  <2> QED BY <2>1, <2>2
<1>6. found = [s \in SUBSET S |-> After(s, found)]
  <2> HIDE DEF S, A, After
  <2> QED BY <1>4, <1>5
<1>7. BestInOrder(cells, order) = (CHOOSE fold : fold = [s \in SUBSET S |-> After(s, fold)])[S]
  <2>1. DOMAIN order = S
    OBVIOUS
  <2> HIDE DEF S
  <2> QED BY <2>1 DEF BestInOrder, FoldLeft, MapThenFoldSet
<1>8. PICK fold : fold = [s \in SUBSET S |-> After(s, fold)] /\ BestInOrder(cells, order) = fold[S]
  <2> HIDE DEF S, After
  <2> QED BY <1>6, <1>7
<1> DEFINE bests == [m \in 0..n |-> fold[1..m]]
<1>9. bests[0] = NoBest /\ bests[n] = BestInOrder(cells, order)
  <2>1. bests[0] = fold[{}] /\ bests[n] = fold[S] /\ {} \in SUBSET S
    OBVIOUS
  <2>2. fold[{}] = NoBest
    <3> HIDE DEF S
    <3> QED BY <1>8, <2>1
  <2> QED BY <1>8, <2>1, <2>2
<1>10. ASSUME NEW m \in 1..n PROVE bests[m] = Challenged(bests[m - 1], cells[order[m]])
  <2>1. 1..m \in SUBSET S /\ 1..m # {} /\ m \in 1..m
    BY Between
  <2>2. Max(1..m) = m
    <3>1. Max(1..m) \in 1..m /\ Max(1..m) >= m
      <4> DEFINE T == 1..m
      <4> HIDE DEF T, S
      <4> QED BY <1>1, <2>1 DEF T
    <3> QED BY <3>1
  <2>3. (1..m) \ {m} = 1..(m - 1)
    BY Between
  <2>4. fold[1..m] = After(1..m, fold)
    <3> HIDE DEF After, S
    <3> QED BY <1>8, <2>1
  <2>5. bests[m] = fold[1..m] /\ bests[m - 1] = fold[1..(m - 1)]
    BY Between
  <2> HIDE DEF bests
  <2> QED BY <2>1, <2>2, <2>3, <2>4, <2>5
<1> HIDE DEF bests
<1> QED BY <1>9, <1>10 DEF Runs

\* After m channels, the best is one of them and none of them is better.
Leads(best, cells, order, m) ==
  /\ best \in [channels : Nat, answered : Nat, correct : Nat] /\ best.channels = m
  /\ m = 0 => best = NoBest
  /\ m > 0 => /\ \E i \in 1..m : best.answered = cells[order[i]].answered /\ best.correct = cells[order[i]].correct
              /\ \A i \in 1..m : Behind(cells[order[i]], best)

LEMMA BestLeads ==
  ASSUME NEW n \in Nat, NEW K, NEW order \in [1..n -> K], NEW cells, \A k \in K : Answered(cells[k])
  PROVE  Leads(BestInOrder(cells, order), cells, order, n)
<1>1. PICK bests : Runs(bests, n, cells, order)
  <2>1. Counting(cells, K)
    BY DEF Answered, Counting
  <2> QED BY <2>1, BestFolds
<1> DEFINE N == {m \in Nat : m <= n => Leads(bests[m], cells, order, m)}
<1>2. 0 \in N
  BY <1>1 DEF Leads, NoBest, Runs
<1>3. ASSUME NEW m \in Nat, m \in N PROVE m + 1 \in N
  <2> SUFFICES ASSUME m + 1 <= n PROVE Leads(bests[m + 1], cells, order, m + 1)
    OBVIOUS
  <2> DEFINE best == bests[m]
             cell == cells[order[m + 1]]
             next == bests[m + 1]
  <2>1. Leads(best, cells, order, m) /\ m + 1 \in 1..n /\ (m + 1) - 1 = m
    BY <1>3
  <2>2. next = Challenged(best, cell)
    BY <1>1, <2>1 DEF Runs
  <2>3. Answered(cell) /\ \A i \in 1..m : Answered(cells[order[i]])
    BY <2>1
  <2>4. m > 0 => Answered(best)
    BY <2>3, <2>1 DEF Leads, Answered
  <2>5. best.channels = m
    BY <2>1 DEF Leads
  <2> HIDE DEF next, best, cell
  <2>6. CASE Better(cell, best)
    <3>1. next = [channels |-> m + 1, answered |-> cell.answered, correct |-> cell.correct]
      BY <2>2, <2>5, <2>6 DEF Challenged
    <3>2. \A x : Behind(x, cell) => Behind(x, next)
      BY <3>1 DEF Behind
    <3>3. ASSUME NEW i \in 1..m PROVE Behind(cells[order[i]], cell)
      <4>1. m > 0 /\ Behind(cells[order[i]], best)
        BY <2>1 DEF Leads
      <4>2. Behind(best, cell)
        BY <2>3, <2>4, <2>6, <4>1, BetterIsAhead
      <4> QED BY <2>3, <2>4, <4>1, <4>2, BehindIsTransitive
    <3>4. Behind(cell, cell)
      BY <2>3, BetterIsAhead
    <3>5. \A i \in 1..(m + 1) : i \in 1..m \/ i = m + 1
      OBVIOUS
    <3>6. \A i \in 1..(m + 1) : Behind(cells[order[i]], next)
      BY <3>2, <3>3, <3>4, <3>5 DEF cell
    <3>7. m + 1 \in 1..(m + 1) /\ next.answered = cells[order[m + 1]].answered /\ next.correct = cells[order[m + 1]].correct
      BY <3>1 DEF cell
    <3>8. next \in [channels : Nat, answered : Nat, correct : Nat]
      BY <2>3, <3>1 DEF Answered
    <3> QED BY <3>1, <3>6, <3>7, <3>8 DEF Leads, next
  <2>7. CASE ~Better(cell, best)
    <3>1. m > 0
      BY <2>1, <2>7 DEF Leads, Better, NoBest
    <3>2. next = [best EXCEPT !.channels = @ + 1]
      BY <2>2, <2>7 DEF Challenged
    <3>3. best \in [channels : Nat, answered : Nat, correct : Nat]
      BY <2>1 DEF Leads
    <3>4. next \in [channels : Nat, answered : Nat, correct : Nat]
      BY <3>2, <3>3
    <3>10. next.channels = m + 1 /\ next.answered = best.answered /\ next.correct = best.correct
      BY <2>5, <3>2, <3>3
    <3>5. \A x : Behind(x, best) => Behind(x, next)
      BY <3>10 DEF Behind
    <3>6. Behind(cell, best)
      BY <2>3, <2>4, <2>7, <3>1, BetterIsAhead
    <3>7. \A i \in 1..(m + 1) : i \in 1..m \/ i = m + 1
      OBVIOUS
    <3>8. \A i \in 1..(m + 1) : Behind(cells[order[i]], next)
      BY <2>1, <3>1, <3>5, <3>6, <3>7 DEF Leads, cell
    <3>9. \E i \in 1..(m + 1) : next.answered = cells[order[i]].answered /\ next.correct = cells[order[i]].correct
      BY <2>1, <3>1, <3>10 DEF Leads
    <3> QED BY <3>4, <3>10, <3>8, <3>9 DEF Leads, next
  <2> QED BY <2>6, <2>7
<1> HIDE DEF N
<1>4. Nat \subseteq N
  BY <1>2, <1>3, FromZeroOn
<1> QED BY <1>1, <1>4 DEF N, Runs

\* SetToSeqs are the orders of a finite set, and there is one.
LEMMA Orders ==
  ASSUME NEW S, IsFiniteSet(S)
  PROVE  /\ Cardinality(S) \in Nat /\ SetToSeq(S) \in SetToSeqs(S)
         /\ \A order \in SetToSeqs(S) : /\ order \in [1..Cardinality(S) -> S]
                                        /\ \A k \in S : \E i \in 1..Cardinality(S) : order[i] = k
<1> DEFINE n == Cardinality(S)
<1>1. n \in Nat /\ ExistsBijection(1..n, S)
  BY FS_CardinalityType
<1>2. IsFiniteSet(1..n) /\ Cardinality(1..n) = n
  BY <1>1, FS_Interval
<1> HIDE DEF n
<1>3. SetToSeqs(S) = {f \in [1..n -> S] : IsInjective(f)}
  <2>1. \A f \in [1..n -> S] : IsInjective(f) <=> \A i, j \in 1..n : i # j => f[i] # f[j]
    BY DEF IsInjective
  <2> QED BY <2>1 DEF SetToSeqs, n
<1>4. SetToSeq(S) \in SetToSeqs(S)
  <2>1. \E f \in [1..n -> S] : IsInjective(f)
    BY <1>1 DEF ExistsBijection, Bijection, Injection
  <2>2. SetToSeq(S) = CHOOSE f \in [1..n -> S] : IsInjective(f)
    BY DEF SetToSeq, n
  <2>3. SetToSeq(S) \in [1..n -> S] /\ IsInjective(SetToSeq(S))
    BY <2>1, <2>2
  <2> QED BY <1>3, <2>3
<1>5. ASSUME NEW order \in SetToSeqs(S) PROVE order \in [1..n -> S] /\ \A k \in S : \E i \in 1..n : order[i] = k
  <2>1. order \in Injection(1..n, S)
    BY <1>3 DEF Injection
  <2>2. order \in Surjection(1..n, S)
    BY <1>2, <2>1, FS_Injection DEF n
  <2> QED BY <1>3, <2>2 DEF Surjection
<1> QED BY <1>1, <1>4, <1>5 DEF n

LEMMA BestOfAnyOrder ==
  ASSUME NEW S, IsFiniteSet(S), NEW cells, \A k \in S : Answered(cells[k]), NEW order \in SetToSeqs(S)
  PROVE  LET best == BestInOrder(cells, order)
         IN  /\ best.channels = Cardinality(S) /\ (S = {} => best = NoBest)
             /\ S # {} => /\ \E k \in S : best.answered = cells[k].answered /\ best.correct = cells[k].correct
                          /\ Answered(best) /\ \A k \in S : Behind(cells[k], best)
             /\ best \in [channels : Nat, answered : Nat, correct : Nat]
<1> DEFINE n == Cardinality(S)
           best == BestInOrder(cells, order)
<1>1. /\ n \in Nat /\ order \in [1..n -> S] /\ \A k \in S : \E i \in 1..n : order[i] = k
      /\ S = {} <=> n = 0
  BY Orders, FS_EmptySet
<1> HIDE DEF n
<1>2. Leads(best, cells, order, n)
  BY <1>1, BestLeads
<1> HIDE DEF best
<1>3. best.channels = n /\ (n = 0 => best = NoBest) /\ best \in [channels : Nat, answered : Nat, correct : Nat]
  BY <1>2 DEF Leads
<1>4. ASSUME S # {}
      PROVE  /\ \E k \in S : best.answered = cells[k].answered /\ best.correct = cells[k].correct
             /\ Answered(best) /\ \A k \in S : Behind(cells[k], best)
  <2>1. n > 0
    BY <1>1, <1>4
  <2>2. PICK i \in 1..n : best.answered = cells[order[i]].answered /\ best.correct = cells[order[i]].correct
    BY <1>2, <2>1 DEF Leads
  <2>3. \A j \in 1..n : Behind(cells[order[j]], best)
    BY <1>2, <2>1 DEF Leads
  <2>4. order[i] \in S /\ \A k \in S : Behind(cells[k], best)
    BY <1>1, <2>3
  <2>5. Answered(best)
    BY <2>2, <2>4 DEF Answered
  <2> QED BY <2>2, <2>4, <2>5
<1> QED BY <1>1, <1>3, <1>4 DEF n, best

LEMMA OrdersAgree ==
  ASSUME NEW S, IsFiniteSet(S), NEW cells, \A k \in S : Answered(cells[k]), NEW o \in SetToSeqs(S), NEW p \in SetToSeqs(S)
  PROVE  BestInOrder(cells, o) = BestInOrder(cells, p)
<1> DEFINE x == BestInOrder(cells, o)
           y == BestInOrder(cells, p)
<1>1. CASE S = {}
  BY <1>1, BestOfAnyOrder
<1>2. CASE S # {}
  <2>1. /\ x.channels = Cardinality(S) /\ x \in [channels : Nat, answered : Nat, correct : Nat]
        /\ Answered(x) /\ \A k \in S : Behind(cells[k], x)
    BY <1>2, BestOfAnyOrder
  <2>2. /\ y.channels = Cardinality(S) /\ y \in [channels : Nat, answered : Nat, correct : Nat]
        /\ Answered(y) /\ \A k \in S : Behind(cells[k], y)
    BY <1>2, BestOfAnyOrder
  <2>3. PICK k \in S : x.answered = cells[k].answered /\ x.correct = cells[k].correct
    BY <1>2, BestOfAnyOrder
  <2>4. PICK l \in S : y.answered = cells[l].answered /\ y.correct = cells[l].correct
    BY <1>2, BestOfAnyOrder
  <2> HIDE DEF x, y
  <2>5. Behind(x, y) /\ Behind(y, x)
    BY <2>1, <2>2, <2>3, <2>4 DEF Behind
  <2>6. x.answered = y.answered /\ x.correct = y.correct
    BY <2>1, <2>2, <2>5, BetterIsAhead
  <2>7. x = y
    BY <2>1, <2>2, <2>6
  <2> QED BY <2>7 DEF x, y
<1> QED BY <1>1, <1>2

\* A group's best is ok exactly if one of its channels is.
LEMMA LowIfNoneIsOk ==
  ASSUME NEW S, IsFiniteSet(S), NEW cells, \A k \in S : Answered(cells[k]), NEW order \in SetToSeqs(S)
  PROVE  Low(BestInOrder(cells, order)) <=>
           Cardinality(S) >= 2 /\ \A k \in S : Verdict(cells[k].answered, cells[k].correct, 0) # "ok"
<1> DEFINE best == BestInOrder(cells, order)
<1>1. best.channels = Cardinality(S) /\ Cardinality(S) \in Nat /\ (S = {} <=> Cardinality(S) = 0)
  BY BestOfAnyOrder, FS_CardinalityType, FS_EmptySet
<1>2. CASE S = {}
  BY <1>1, <1>2 DEF Low
<1>3. CASE S # {}
  <2>1. /\ \E k \in S : best.answered = cells[k].answered /\ best.correct = cells[k].correct
        /\ Answered(best) /\ \A k \in S : Behind(cells[k], best)
    BY <1>3, BestOfAnyOrder
  <2> HIDE DEF best
  <2>2. Verdict(best.answered, best.correct, 0) = "ok" <=> \E k \in S : Verdict(cells[k].answered, cells[k].correct, 0) = "ok"
    BY <2>1, OkAhead
  <2> QED BY <1>1, <2>2 DEF Low, best
<1> QED BY <1>2, <1>3

\* bestOf and the verdict on it do not depend on the order of a Go map, and
\* the best is ok exactly if a channel is, for any number of channels and any
\* counts (inspection.go:531).
THEOREM AnyOrderWillDo ==
  ASSUME NEW cells, IsFiniteSet(DOMAIN cells), Counting(cells, DOMAIN cells)
  PROVE  BestIsBest(cells)
<1> DEFINE S == {c \in DOMAIN cells : cells[c].answered > 0}
           ok == {c \in S : Verdict(cells[c].answered, cells[c].correct, 0) = "ok"}
<1>1. IsFiniteSet(S) /\ \A k \in S : Answered(cells[k])
  <2>1. S \in SUBSET DOMAIN cells
    OBVIOUS
  <2> QED BY <2>1, FS_Subset DEF Counting, Answered
<1>2. ok = {} <=> \A k \in S : Verdict(cells[k].answered, cells[k].correct, 0) # "ok"
  OBVIOUS
<1> HIDE DEF S
<1>3. SetToSeq(S) \in SetToSeqs(S)
  BY <1>1, Orders
<1>4. \A order \in SetToSeqs(S) : BestInOrder(cells, order) = BestInOrder(cells, SetToSeq(S))
  BY <1>1, <1>3, OrdersAgree
<1>5. Low(BestInOrder(cells, SetToSeq(S))) <=> Cardinality(S) >= 2 /\ ok = {}
  <2> HIDE DEF ok
  <2> QED BY <1>1, <1>2, <1>3, LowIfNoneIsOk
<1> QED BY <1>4, <1>5 DEF BestIsBest, S

----------------------------------------------------------------------------
\* The schedule

\* The day of a time begins before it and ends after it.
LEMMA DayIs == ASSUME NEW at \in Int PROVE at \div DayLength \in Int /\ On(at \div DayLength, 0) <= at /\ at < On(at \div DayLength + 1, 0)
<1>1. \A x \in Int : \A D \in Nat \ {0} : x \div D \in Int /\ (x \div D) * D <= x /\ x < (x \div D) * D + D
  OBVIOUS
<1>2. \A x \in Int : \A D \in Nat \ {0} : (x + 1) * D = x * D + D /\ x * D \in Int
  OBVIOUS
<1> QED BY <1>1, <1>2, VerdictsAssumption DEF On

\* A time of a day is on that day.
LEMMA OnIs ==
  ASSUME NEW x \in Int, NEW t \in 0..(DayLength - 1)
  PROVE  /\ On(x, t) \in Int /\ On(x, t) \div DayLength = x /\ On(x, 0) \in Int /\ On(x, t) = On(x, 0) + t
         /\ On(x, 0) <= On(x, t) /\ On(x, t) < On(x + 1, 0)
<1>1. \A D \in Nat \ {0} : \A s \in 0..(D - 1) : (x * D + s) \div D = x
  OBVIOUS
<1>2. \A D \in Nat \ {0} : (x + 1) * D = x * D + D /\ x * D \in Int
  OBVIOUS
<1> QED BY <1>1, <1>2, VerdictsAssumption DEF On

LEMMA DaysInOrder == ASSUME NEW x \in Int, NEW y \in Int, On(x, 0) < On(y + 1, 0) PROVE x <= y
<1>1. \A D \in Nat \ {0} : x * D < (y + 1) * D => x <= y
  OBVIOUS
<1> QED BY <1>1, VerdictsAssumption DEF On

\* The page announces the next run rightly: no slot is due before and one is
\* then, for any times of any length of day and any slots that had a round.
THEOREM AnnouncedIsDue ==
  ASSUME NEW now \in Int, NEW times \in SUBSET (0..(DayLength - 1)), times # {},
         NEW done, \A at \in done : at \in Int /\ at <= now
  PROVE  NextRunIsDue(now, times, done)
<1> DEFINE d == now \div DayLength
           coming == {at \in {On(now \div DayLength + day, t) : day \in {0, 1}, t \in times} : at > now}
           next == Min(coming)
           come(at) == {t \in times : On(at \div DayLength, t) <= at}
<1>1. d \in Int /\ On(d, 0) <= now /\ now < On(d + 1, 0) /\ On(d, 0) \in Int /\ On(d + 1, 0) \in Int
  <2>1. 0 \in 0..(DayLength - 1) /\ d \in Int /\ On(d, 0) <= now /\ now < On(d + 1, 0)
    BY VerdictsAssumption, DayIs
  <2> HIDE DEF d
  <2>2. d + 1 \in Int
    BY <2>1
  <2> QED BY <2>1, <2>2, OnIs
<1>2. CASE Due(now, times, done) # {}
  <2>1. NextRun(now, TRUE, times, done) = now
    BY <1>2 DEF NextRun
  <2>2. now >= now /\ now..(now - 1) = {}
    OBVIOUS
  <2> QED BY <1>2, <2>1, <2>2 DEF NextRunIsDue
<1>3. CASE Due(now, times, done) = {}
  <2>1. NextRun(now, TRUE, times, done) = next
    BY <1>3 DEF NextRun
  <2>2. ASSUME NEW day \in {0, 1}, NEW t \in times, On(d + day, t) > now PROVE On(d + day, t) \in coming
    BY <2>2
  <2>3. ASSUME NEW at \in coming
        PROVE  /\ at > now /\ at \in Int
               /\ \E day \in {0, 1}, t \in times : at = On(d + day, t) /\ at \div DayLength = d + day
    <3>1. PICK day \in {0, 1}, t \in times : at = On(d + day, t) /\ at > now
      OBVIOUS
    <3>2. d + day \in Int /\ t \in 0..(DayLength - 1)
      BY <1>1
    <3> HIDE DEF d, coming
    <3> QED BY <3>1, <3>2, OnIs
  <2>4. next \in coming /\ \A at \in coming : next <= at
    <3>1. coming # {}
      <4>1. PICK t \in times : TRUE
        OBVIOUS
      <4>2. On(d + 1, 0) <= On(d + 1, t) /\ On(d + 1, t) \in Int
        BY <1>1, OnIs
      <4>3. On(d + 1, t) > now
        BY <1>1, <4>2
      <4> HIDE DEF coming
      <4> QED BY <2>2, <4>3
    <3>2. coming \in SUBSET (now..On(d + 2, 0))
      <4> SUFFICES ASSUME NEW at \in coming PROVE at \in now..On(d + 2, 0)
        OBVIOUS
      <4>1. PICK day \in {0, 1}, t \in times : at = On(d + day, t) /\ at > now /\ at \in Int
        BY <2>3
      <4>2. at < On(d + day + 1, 0) /\ On(d + day + 1, 0) \in Int
        <5>1. 0 \in 0..(DayLength - 1) /\ d + day \in Int /\ d + day + 1 \in Int
          BY <1>1, VerdictsAssumption
        <5> HIDE DEF d
        <5> QED BY <4>1, <5>1, OnIs
      <4>3. On(d + 1, 0) <= On(d + 2, 0) /\ On(d + 2, 0) \in Int
        <5>1. 0 \in 0..(DayLength - 1) /\ d + 1 \in Int /\ d + 2 \in Int /\ d + 1 + 1 = d + 2
          BY <1>1, VerdictsAssumption
        <5> HIDE DEF d
        <5> QED BY <5>1, OnIs
      <4>4. d + 0 + 1 = d + 1 /\ d + 1 + 1 = d + 2
        BY <1>1
      <4> HIDE DEF d, coming
      <4> QED BY <1>1, <4>1, <4>2, <4>3, <4>4
    <3>3. On(d + 2, 0) \in Int
      <4>1. 0 \in 0..(DayLength - 1) /\ d + 2 \in Int
        BY <1>1, VerdictsAssumption
      <4> HIDE DEF d
      <4> QED BY <4>1, OnIs
    <3> HIDE DEF coming, d
    <3>4. coming \in SUBSET Int
      BY <2>3
    <3>5. IsFiniteSet(now..On(d + 2, 0))
      BY <3>3, FS_Interval
    <3>6. IsFiniteSet(coming)
      BY <3>2, <3>5, FS_Subset
    <3> QED BY <3>1, <3>4, <3>6, Extremes
  <2> HIDE DEF next, coming
  <2>5. PICK day \in {0, 1}, t \in times : next = On(d + day, t) /\ next \div DayLength = d + day /\ next > now /\ next \in Int
    BY <2>3, <2>4
  <2>6. Due(next, times, done) # {}
    <3>1. \A s \in times : On(d + day, s) <= On(d + day, t) <=> s <= t
      <4>1. \A s \in times : On(d + day, s) = On(d + day, 0) + s /\ On(d + day, 0) \in Int
        <5>1. d + day \in Int /\ \A s \in times : s \in 0..(DayLength - 1)
          BY <1>1
        <5> HIDE DEF d
        <5> QED BY <5>1, OnIs
      <4>2. \A s \in times : s \in Int
        OBVIOUS
      <4> HIDE DEF d
      <4> QED BY <4>1, <4>2
    <3> HIDE DEF d
    <3>2. come(next) = {s \in times : s <= t}
      BY <2>5, <3>1
    <3>3. Max(come(next)) = t
      <4>1. t \in come(next) /\ \A s \in come(next) : s <= t
        BY <3>2
      <4>2. come(next) \in SUBSET Int /\ IsFiniteSet(come(next))
        <5>1. IsFiniteSet(0..(DayLength - 1))
          BY FS_Interval, VerdictsAssumption
        <5>2. IsFiniteSet(times)
          BY <5>1, FS_Subset
        <5>3. come(next) \in SUBSET times
          BY <3>2
        <5>4. times \in SUBSET Int
          OBVIOUS
        <5> HIDE DEF come
        <5>5. IsFiniteSet(come(next))
          BY <5>2, <5>3, FS_Subset
        <5> QED BY <5>3, <5>4, <5>5
      <4> HIDE DEF come
      <4>3. Max(come(next)) \in come(next) /\ Max(come(next)) >= t
        BY <4>1, <4>2, Extremes
      <4> QED BY <4>1, <4>2, <4>3
    <3>4. come(next) # {} /\ next \notin done
      BY <2>5, <3>2
    <3>5. Due(next, times, done) = {On(next \div DayLength, Max(come(next)))} \ done
      BY <3>4 DEF Due
    <3> HIDE DEF come
    <3> QED BY <2>5, <3>3, <3>4, <3>5
  <2>7. ASSUME NEW at \in now..(next - 1) PROVE Due(at, times, done) = {}
    <3> DEFINE f == at \div DayLength
    <3>1. at \in Int /\ now <= at /\ at < next
      BY <2>5, <1>1
    <3>2. f \in Int /\ On(f, 0) <= at /\ at < On(f + 1, 0) /\ On(f, 0) \in Int /\ On(f + 1, 0) \in Int
      <4>1. 0 \in 0..(DayLength - 1)
        BY VerdictsAssumption
      <4> QED BY <3>1, <4>1, DayIs, OnIs
    <3>3. d <= f
      <4> HIDE DEF d, f
      <4> QED BY <1>1, <3>1, <3>2, DaysInOrder
    <3>4. f <= d + day
      <4>1. next < On(d + day + 1, 0) /\ On(d + day + 1, 0) \in Int /\ d + day \in Int
        <5>1. 0 \in 0..(DayLength - 1) /\ d + day \in Int /\ d + day + 1 \in Int
          BY <1>1, VerdictsAssumption
        <5> HIDE DEF d
        <5> QED BY <2>5, <5>1, OnIs
      <4> HIDE DEF d, f
      <4> QED BY <3>1, <3>2, <4>1, <2>5, DaysInOrder
    <3>5. CASE f = d
      <4>1. \A s \in times : On(d, s) <= at <=> On(d, s) <= now
        <5> SUFFICES ASSUME NEW s \in times PROVE On(d, s) <= at <=> On(d, s) <= now
          OBVIOUS
        <5>1. On(d, s) \in Int
          BY <1>1, OnIs
        <5>2. d + 0 = d
          BY <1>1
        <5> HIDE DEF d
        <5>3. On(d, s) > now => next <= On(d, s)
          BY <2>2, <2>4, <5>2
        <5> QED BY <2>5, <3>1, <5>1, <5>3
      <4>2. Due(at, times, done) = Due(now, times, done)
        BY <3>5, <4>1 DEF Due
      <4> QED BY <1>3, <4>2
    <3>6. CASE f # d
      <4>1. f = d + 1
        <5> HIDE DEF d, f
        <5> QED BY <1>1, <3>2, <3>3, <3>4, <3>6
      <4>2. ASSUME NEW s \in times, On(f, s) <= at PROVE FALSE
        <5>1. On(f, s) \in Int /\ On(f, 0) <= On(f, s)
          BY <3>2, OnIs
        <5>2. On(f, s) > now
          <6> HIDE DEF d, f
          <6> QED BY <1>1, <4>1, <5>1
        <5>3. next <= On(f, s)
          <6> HIDE DEF d, f
          <6> QED BY <2>2, <2>4, <4>1, <5>2
        <5> HIDE DEF d, f
        <5> QED BY <2>5, <3>1, <4>2, <5>1, <5>3
      <4> QED BY <4>2 DEF Due
    <3> QED BY <3>5, <3>6
  <2> HIDE DEF come, d
  <2>8. next >= now
    BY <2>5
  <2> QED BY <2>1, <2>6, <2>7, <2>8 DEF NextRunIsDue
<1> QED BY <1>2, <1>3

----------------------------------------------------------------------------
\* Sums: what a channel's items of some rounds add up to

Pick(s) == CHOOSE x \in s : TRUE
Summing(v, S, sum) == \A s \in SUBSET S : sum[s] = IF s = {} THEN 0 ELSE v[Pick(s)] + sum[s \ {Pick(s)}]

LEMMA SumExists ==
  ASSUME NEW S, IsFiniteSet(S), NEW v \in [S -> Nat]
  PROVE  \E sum \in [SUBSET S -> Nat] : Summing(v, S, sum)
<1> DEFINE pick == [s \in SUBSET S |-> Pick(s)]
           step == [p \in S \X Nat |-> v[p[1]] + p[2]]
<1>1. \A s \in SUBSET S : s # {} => Pick(s) \in s
  BY DEF Pick
<1>2. step \in [S \X Nat -> Nat] /\ \A x \in S, n \in Nat : step[<<x, n>>] = v[x] + n
  OBVIOUS
<1>3. \A s \in SUBSET S : pick[s] = Pick(s)
  OBVIOUS
<1> HIDE DEF pick, step
<1>4. PICK sum \in [SUBSET S -> Nat] : Folding(S, pick, 0, step, sum)
  <2>1. \A s \in SUBSET S : s # {} => pick[s] \in s
    BY <1>1, <1>3
  <2>2. 0 \in Nat
    OBVIOUS
  <2> QED BY <1>2, <2>1, <2>2, FoldExists
<1>5. ASSUME NEW s \in SUBSET S PROVE sum[s] = IF s = {} THEN 0 ELSE v[Pick(s)] + sum[s \ {Pick(s)}]
  <2>1. CASE s = {}
    BY <1>4, <2>1 DEF Folding
  <2>2. CASE s # {}
    <3>1. Pick(s) \in S /\ sum[s \ {Pick(s)}] \in Nat
      BY <1>1, <2>2
    <3> QED BY <1>2, <1>3, <1>4, <2>2, <3>1 DEF Folding
  <2> QED BY <2>1, <2>2
<1> QED BY <1>5 DEF Summing

LEMMA SumType ==
  ASSUME NEW S, IsFiniteSet(S), NEW v \in [S -> Nat], NEW sum, Summing(v, S, sum)
  PROVE  \A s \in SUBSET S : sum[s] \in Nat
<1> DEFINE P == {s \in SUBSET S : sum[s] \in Nat}
<1>1. {} \in P
  BY DEF Summing
<1>2. ASSUME NEW s \in SUBSET S, s # {}, \A x \in s : s \ {x} \in P PROVE s \in P
  <2>1. Pick(s) \in s
    BY <1>2 DEF Pick
  <2>2. sum[s] = v[Pick(s)] + sum[s \ {Pick(s)}]
    BY <1>2 DEF Summing
  <2> QED BY <1>2, <2>1, <2>2
<1> HIDE DEF P
<1>3. \A s \in SUBSET S : s \in P
  BY <1>1, <1>2, SubsetInduction
<1> QED BY <1>3 DEF P

\* A sum does not depend on the order.
Removing(v, S, sum) == \A s \in SUBSET S : sum[s] \in Nat /\ \A x \in s : sum[s] = v[x] + sum[s \ {x}]

\* By induction over sizes: any element may be taken out first.
LEMMA SumRemoves ==
  ASSUME NEW S, IsFiniteSet(S), NEW v \in [S -> Nat], NEW sum, Summing(v, S, sum)
  PROVE  Removing(v, S, sum)
<1> DEFINE P == {s \in SUBSET S : sum[s] \in Nat /\ \A x \in s : sum[s] = v[x] + sum[s \ {x}]}
<1>1. {} \in P
  BY DEF Summing
<1>2. ASSUME NEW s \in SUBSET S, s # {}, \A x \in s : s \ {x} \in P PROVE s \in P
  <2> DEFINE c == Pick(s)
  <2>1. c \in s /\ v[c] \in Nat
    BY <1>2 DEF Pick
  <2>2. sum[s] = v[c] + sum[s \ {c}]
    BY <1>2 DEF Summing
  <2>3. sum[s \ {c}] \in Nat /\ \A x \in s \ {c} : sum[s \ {c}] = v[x] + sum[(s \ {c}) \ {x}]
    BY <1>2, <2>1
  <2> HIDE DEF c
  <2>4. ASSUME NEW x \in s PROVE sum[s] = v[x] + sum[s \ {x}]
    <3>1. CASE x = c
      BY <2>2, <3>1
    <3>2. CASE x # c
      <4>1. sum[s \ {c}] = v[x] + sum[(s \ {c}) \ {x}]
        BY <2>3, <3>2
      <4>2. s \ {x} \in P /\ c \in s \ {x}
        BY <1>2, <2>1, <3>2
      <4>3. sum[s \ {x}] = v[c] + sum[(s \ {x}) \ {c}]
        BY <4>2
      <4>4. (s \ {x}) \ {c} = (s \ {c}) \ {x}
        OBVIOUS
      <4>5. sum[(s \ {c}) \ {x}] \in Nat /\ v[x] \in Nat
        BY SumType
      <4> QED BY <2>1, <2>2, <4>1, <4>3, <4>4, <4>5
    <3> QED BY <3>1, <3>2
  <2>5. sum[s] \in Nat
    BY <2>1, <2>2, <2>3
  <2> QED BY <2>4, <2>5
<1> HIDE DEF P
<1>3. \A s \in SUBSET S : s \in P
  BY <1>1, <1>2, SubsetInduction
<1> QED BY <1>3 DEF P, Removing

\* A sum is that of the same numbers under other names.
LEMMA SumsMove ==
  ASSUME NEW S, NEW T, IsFiniteSet(S), IsFiniteSet(T), NEW v \in [S -> Nat], NEW w \in [T -> Nat],
         NEW b \in [S -> T], \A x, y \in S : b[x] = b[y] => x = y, \A x \in S : w[b[x]] = v[x],
         NEW p, Summing(v, S, p), NEW q, Summing(w, T, q)
  PROVE  p[S] = q[{b[x] : x \in S}]
<1>3. Removing(v, S, p) /\ Removing(w, T, q)
  BY SumRemoves
<1> DEFINE P == {s \in SUBSET S : p[s] = q[{b[x] : x \in s}]}
<1>1. {} \in P
  <2>1. {b[x] : x \in {}} = {}
    OBVIOUS
  <2>2. p[{}] = 0 /\ q[{}] = 0
    BY DEF Summing
  <2> QED BY <2>1, <2>2
<1>2. ASSUME NEW s \in SUBSET S, s # {}, \A x \in s : s \ {x} \in P PROVE s \in P
  <2>1. PICK c \in s : TRUE
    BY <1>2
  <2>2. p[s] = v[c] + p[s \ {c}]
    BY <1>3, <2>1 DEF Removing
  <2> DEFINE t == {b[x] : x \in s}
             u == {b[x] : x \in s \ {c}}
  <2>3. t \in SUBSET T /\ b[c] \in t /\ t \ {b[c]} = u
    OBVIOUS
  <2>4. p[s \ {c}] = q[u]
    BY <1>2, <2>1
  <2> HIDE DEF t, u
  <2>5. q[t] = w[b[c]] + q[t \ {b[c]}]
    BY <1>3, <2>3 DEF Removing
  <2>6. p[s] = q[t]
    BY <2>1, <2>2, <2>3, <2>4, <2>5
  <2> QED BY <2>6 DEF t
<1> HIDE DEF P
<1>4. S \in P
  BY <1>1, <1>2, SubsetInduction
<1> QED BY <1>4 DEF P

IsSum(m, v, S) == \E sum : Summing(v, S, sum) /\ m = sum[S]

\* Total adds up each of the three counts.
LEMMA TotalSums ==
  ASSUME NEW items, IsFiniteSet(DOMAIN items),
         \A n \in DOMAIN items : items[n].answered \in Nat /\ items[n].correct \in Nat /\ items[n].failed \in Nat
  PROVE  /\ IsSum(Total(items).answered, [n \in DOMAIN items |-> items[n].answered], DOMAIN items)
         /\ IsSum(Total(items).correct, [n \in DOMAIN items |-> items[n].correct], DOMAIN items)
         /\ IsSum(Total(items).failed, [n \in DOMAIN items |-> items[n].failed], DOMAIN items)
<1> DEFINE S == DOMAIN items
<1> HIDE DEF S
<1>1. IsFiniteSet(S) /\ \A n \in S : items[n].answered \in Nat /\ items[n].correct \in Nat /\ items[n].failed \in Nat
  BY DEF S
<1>2. IsSum(MapThenSumSet(LAMBDA n : items[n].answered, S), [n \in S |-> items[n].answered], S)
  <2> DEFINE After(s, sum) == IF s = {} THEN 0 ELSE items[Pick(s)].answered + sum[s \ {Pick(s)}]
             v == [n \in S |-> items[n].answered]
  <2>1. v \in [S -> Nat] /\ \A n \in S : v[n] = items[n].answered
    BY <1>1
  <2> HIDE DEF v
  <2>2. PICK sum \in [SUBSET S -> Nat] : Summing(v, S, sum)
    BY <1>1, <2>1, SumExists
  <2>3. \A s \in SUBSET S : s # {} => Pick(s) \in S
    BY DEF Pick
  <2>4. sum = [s \in SUBSET S |-> After(s, sum)]
    BY <2>1, <2>2, <2>3 DEF Summing
  <2>5. MapThenSumSet(LAMBDA n : items[n].answered, S) = (CHOOSE iter : iter = [s \in SUBSET S |-> After(s, iter)])[S]
    BY DEF MapThenSumSet, MapThenFoldSet, Pick
  <2>6. PICK iter : iter = [s \in SUBSET S |-> After(s, iter)] /\ MapThenSumSet(LAMBDA n : items[n].answered, S) = iter[S]
    <3> HIDE DEF After
    <3> QED BY <2>4, <2>5
  <2>7. Summing(v, S, iter)
    BY <2>1, <2>3, <2>6 DEF Summing
  <2> QED BY <2>6, <2>7 DEF v, IsSum
<1>3. IsSum(MapThenSumSet(LAMBDA n : items[n].correct, S), [n \in S |-> items[n].correct], S)
  <2> DEFINE After(s, sum) == IF s = {} THEN 0 ELSE items[Pick(s)].correct + sum[s \ {Pick(s)}]
             v == [n \in S |-> items[n].correct]
  <2>1. v \in [S -> Nat] /\ \A n \in S : v[n] = items[n].correct
    BY <1>1
  <2> HIDE DEF v
  <2>2. PICK sum \in [SUBSET S -> Nat] : Summing(v, S, sum)
    BY <1>1, <2>1, SumExists
  <2>3. \A s \in SUBSET S : s # {} => Pick(s) \in S
    BY DEF Pick
  <2>4. sum = [s \in SUBSET S |-> After(s, sum)]
    BY <2>1, <2>2, <2>3 DEF Summing
  <2>5. MapThenSumSet(LAMBDA n : items[n].correct, S) = (CHOOSE iter : iter = [s \in SUBSET S |-> After(s, iter)])[S]
    BY DEF MapThenSumSet, MapThenFoldSet, Pick
  <2>6. PICK iter : iter = [s \in SUBSET S |-> After(s, iter)] /\ MapThenSumSet(LAMBDA n : items[n].correct, S) = iter[S]
    <3> HIDE DEF After
    <3> QED BY <2>4, <2>5
  <2>7. Summing(v, S, iter)
    BY <2>1, <2>3, <2>6 DEF Summing
  <2> QED BY <2>6, <2>7 DEF v, IsSum
<1>4. IsSum(MapThenSumSet(LAMBDA n : items[n].failed, S), [n \in S |-> items[n].failed], S)
  <2> DEFINE After(s, sum) == IF s = {} THEN 0 ELSE items[Pick(s)].failed + sum[s \ {Pick(s)}]
             v == [n \in S |-> items[n].failed]
  <2>1. v \in [S -> Nat] /\ \A n \in S : v[n] = items[n].failed
    BY <1>1
  <2> HIDE DEF v
  <2>2. PICK sum \in [SUBSET S -> Nat] : Summing(v, S, sum)
    BY <1>1, <2>1, SumExists
  <2>3. \A s \in SUBSET S : s # {} => Pick(s) \in S
    BY DEF Pick
  <2>4. sum = [s \in SUBSET S |-> After(s, sum)]
    BY <2>1, <2>2, <2>3 DEF Summing
  <2>5. MapThenSumSet(LAMBDA n : items[n].failed, S) = (CHOOSE iter : iter = [s \in SUBSET S |-> After(s, iter)])[S]
    BY DEF MapThenSumSet, MapThenFoldSet, Pick
  <2>6. PICK iter : iter = [s \in SUBSET S |-> After(s, iter)] /\ MapThenSumSet(LAMBDA n : items[n].failed, S) = iter[S]
    <3> HIDE DEF After
    <3> QED BY <2>4, <2>5
  <2>7. Summing(v, S, iter)
    BY <2>1, <2>3, <2>6 DEF Summing
  <2> QED BY <2>6, <2>7 DEF v, IsSum
<1> QED BY <1>2, <1>3, <1>4 DEF Total, S

\* An item's numbers; two items with the same.
Numbered(x) == x.answered \in Nat /\ x.correct \in Nat /\ x.failed \in Nat
Same(x, y) == x.answered = y.answered /\ x.correct = y.correct /\ x.failed = y.failed
Cell == [answered : Nat, correct : Nat, failed : Nat]

LEMMA TotalType ==
  ASSUME NEW items, IsFiniteSet(DOMAIN items), \A n \in DOMAIN items : Numbered(items[n])
  PROVE  Total(items) \in Cell
<1> DEFINE S == DOMAIN items
           v == [n \in S |-> items[n].answered]
           w == [n \in S |-> items[n].correct]
           x == [n \in S |-> items[n].failed]
<1>1. v \in [S -> Nat] /\ w \in [S -> Nat] /\ x \in [S -> Nat]
  BY DEF Numbered
<1>2. /\ IsSum(Total(items).answered, v, S)
      /\ IsSum(Total(items).correct, w, S)
      /\ IsSum(Total(items).failed, x, S)
  BY TotalSums DEF Numbered
<1>3. Total(items) = [answered |-> Total(items).answered, correct |-> Total(items).correct, failed |-> Total(items).failed]
  BY DEF Total
<1> HIDE DEF v, w, x
<1>4. IsFiniteSet(S) /\ S \in SUBSET S
  OBVIOUS
<1> HIDE DEF S
<1>5. Total(items).answered \in Nat /\ Total(items).correct \in Nat /\ Total(items).failed \in Nat
  BY <1>1, <1>2, <1>4, SumType DEF IsSum
<1> QED BY <1>3, <1>5 DEF Cell

\* b numbers the rounds of S anew.
Renumbers(b, S, T) == b \in [S -> T] /\ T = {b[x] : x \in S} /\ \A x, y \in S : b[x] = b[y] => x = y

LEMMA SumsAgree ==
  ASSUME NEW S, NEW T, IsFiniteSet(S), IsFiniteSet(T), NEW v \in [S -> Nat], NEW w \in [T -> Nat],
         NEW b, Renumbers(b, S, T), \A x \in S : w[b[x]] = v[x], NEW m, NEW n, IsSum(m, v, S), IsSum(n, w, T)
  PROVE  m = n
<1>1. PICK p : Summing(v, S, p) /\ m = p[S]
  BY DEF IsSum
<1>2. PICK q : Summing(w, T, q) /\ n = q[T]
  BY DEF IsSum
<1>3. p[S] = q[{b[x] : x \in S}]
  BY <1>1, <1>2, SumsMove DEF Renumbers
<1> QED BY <1>1, <1>2, <1>3 DEF Renumbers

\* Items that agree in their counts have the same cell.
LEMMA TotalsAgree ==
  ASSUME NEW items, NEW others, IsFiniteSet(DOMAIN items), IsFiniteSet(DOMAIN others),
         NEW b, Renumbers(b, DOMAIN items, DOMAIN others),
         \A n \in DOMAIN items : Numbered(items[n]) /\ Same(items[n], others[b[n]])
  PROVE  Total(items) = Total(others)
<1> DEFINE S == DOMAIN items
           T == DOMAIN others
<1>1. \A y \in T : Numbered(others[y])
  BY DEF Numbered, Same, Renumbers
<1>2. /\ IsSum(Total(items).answered, [n \in S |-> items[n].answered], S)
      /\ IsSum(Total(items).correct, [n \in S |-> items[n].correct], S)
      /\ IsSum(Total(items).failed, [n \in S |-> items[n].failed], S)
  BY TotalSums DEF Numbered
<1>3. /\ IsSum(Total(others).answered, [n \in T |-> others[n].answered], T)
      /\ IsSum(Total(others).correct, [n \in T |-> others[n].correct], T)
      /\ IsSum(Total(others).failed, [n \in T |-> others[n].failed], T)
  BY <1>1, TotalSums DEF Numbered
<1>4. /\ IsFiniteSet(S) /\ IsFiniteSet(T) /\ Renumbers(b, S, T)
      /\ \A n \in S : Numbered(items[n]) /\ Same(items[n], others[b[n]])
  OBVIOUS
<1> HIDE DEF S, T
<1>5. Total(items).answered = Total(others).answered
  <2> DEFINE v == [n \in S |-> items[n].answered]
             w == [n \in T |-> others[n].answered]
  <2>1. v \in [S -> Nat] /\ w \in [T -> Nat] /\ \A n \in S : w[b[n]] = v[n]
    BY <1>1, <1>4 DEF Numbered, Same, Renumbers
  <2>2. /\ IsSum(Total(items).answered, v, S)
        /\ IsSum(Total(others).answered, w, T)
    BY <1>2, <1>3
  <2> HIDE DEF v, w
  <2> QED BY <1>4, <2>1, <2>2, SumsAgree
<1>6. Total(items).correct = Total(others).correct
  <2> DEFINE v == [n \in S |-> items[n].correct]
             w == [n \in T |-> others[n].correct]
  <2>1. v \in [S -> Nat] /\ w \in [T -> Nat] /\ \A n \in S : w[b[n]] = v[n]
    BY <1>1, <1>4 DEF Numbered, Same, Renumbers
  <2>2. /\ IsSum(Total(items).correct, v, S)
        /\ IsSum(Total(others).correct, w, T)
    BY <1>2, <1>3
  <2> HIDE DEF v, w
  <2> QED BY <1>4, <2>1, <2>2, SumsAgree
<1>7. Total(items).failed = Total(others).failed
  <2> DEFINE v == [n \in S |-> items[n].failed]
             w == [n \in T |-> others[n].failed]
  <2>1. v \in [S -> Nat] /\ w \in [T -> Nat] /\ \A n \in S : w[b[n]] = v[n]
    BY <1>1, <1>4 DEF Numbered, Same, Renumbers
  <2>2. /\ IsSum(Total(items).failed, v, S)
        /\ IsSum(Total(others).failed, w, T)
    BY <1>2, <1>3
  <2> HIDE DEF v, w
  <2> QED BY <1>4, <2>1, <2>2, SumsAgree
<1>8. /\ Total(items) = [answered |-> Total(items).answered, correct |-> Total(items).correct, failed |-> Total(items).failed]
      /\ Total(others) = [answered |-> Total(others).answered, correct |-> Total(others).correct, failed |-> Total(others).failed]
  BY DEF Total
<1> QED BY <1>5, <1>6, <1>7, <1>8

\* Rounds whose items have numbers, of some channels' groups.
Keys == AuthIndexes \X ModelEfforts
NumberedRound(round) ==
  DOMAIN round.items \subseteq Keys /\ \A k \in DOMAIN round.items : Numbered(round.items[k])

LEMMA CellsType ==
  ASSUME NEW rounds, NEW R, IsFiniteSet(R), \A n \in R : NumberedRound(rounds[n])
  PROVE  /\ DOMAIN Cells(rounds, R) \subseteq Keys /\ IsFiniteSet(DOMAIN Cells(rounds, R))
         /\ \A k \in DOMAIN Cells(rounds, R) : Cells(rounds, R)[k] \in Cell
<1> DEFINE K == UNION {DOMAIN rounds[n].items : n \in R}
           of(k) == {m \in R : k \in DOMAIN rounds[m].items}
           items(k) == [n \in of(k) |-> rounds[n].items[k]]
<1>1. Cells(rounds, R) = [k \in K |-> Total(items(k))]
  BY DEF Cells
<1>2. K \subseteq Keys
  BY DEF NumberedRound
<1>3. IsFiniteSet(K)
  <2>1. IsFiniteSet(Keys)
    BY VerdictsAssumption, FS_Product DEF Keys
  <2> HIDE DEF K
  <2> QED BY <1>2, <2>1, FS_Subset
<1>4. ASSUME NEW k \in K PROVE Total(items(k)) \in Cell
  <2>1. of(k) \in SUBSET R
    OBVIOUS
  <2>2. IsFiniteSet(of(k))
    <3> HIDE DEF of
    <3> QED BY <2>1, FS_Subset
  <2>3. \A n \in of(k) : Numbered(rounds[n].items[k])
    BY DEF NumberedRound
  <2> HIDE DEF of
  <2>4. DOMAIN items(k) = of(k) /\ \A n \in of(k) : items(k)[n] = rounds[n].items[k]
    OBVIOUS
  <2> HIDE DEF items
  <2> QED BY <2>2, <2>3, <2>4, TotalType
<1> HIDE DEF K, items
<1> QED BY <1>1, <1>2, <1>3, <1>4

\* Rounds numbered anew have the same cells.
LEMMA CellsAgree ==
  ASSUME NEW rounds, NEW R, IsFiniteSet(R), \A n \in R : NumberedRound(rounds[n]),
         NEW others, NEW T, IsFiniteSet(T),
         NEW b, Renumbers(b, R, T),
         \A n \in R : /\ DOMAIN others[b[n]].items = DOMAIN rounds[n].items
                      /\ \A k \in DOMAIN rounds[n].items : Same(rounds[n].items[k], others[b[n]].items[k])
  PROVE  Cells(rounds, R) = Cells(others, T)
<1> DEFINE K == UNION {DOMAIN rounds[n].items : n \in R}
           L == UNION {DOMAIN others[n].items : n \in T}
           of(k) == {m \in R : k \in DOMAIN rounds[m].items}
           to(k) == {m \in T : k \in DOMAIN others[m].items}
           items(k) == [n \in of(k) |-> rounds[n].items[k]]
           moved(k) == [n \in to(k) |-> others[n].items[k]]
<1>1. Cells(rounds, R) = [k \in K |-> Total(items(k))] /\ Cells(others, T) = [k \in L |-> Total(moved(k))]
  BY DEF Cells
<1>2. K = L
  <2>1. \A n \in R : b[n] \in T /\ DOMAIN others[b[n]].items = DOMAIN rounds[n].items
    BY DEF Renumbers
  <2>2. \A m \in T : \E n \in R : m = b[n]
    BY DEF Renumbers
  <2> QED BY <2>1, <2>2
<1>3. ASSUME NEW k \in K PROVE Total(items(k)) = Total(moved(k))
  <2> DEFINE c == [n \in of(k) |-> b[n]]
  <2>1. of(k) \in SUBSET R /\ to(k) \in SUBSET T /\ \A n \in of(k) : Numbered(rounds[n].items[k])
    BY DEF NumberedRound
  <2>2. \A n \in R : n \in of(k) <=> b[n] \in to(k)
    BY DEF Renumbers
  <2>3. \A n \in of(k) : Same(rounds[n].items[k], others[b[n]].items[k])
    OBVIOUS
  <2> HIDE DEF of, to, K
  <2>4. IsFiniteSet(of(k)) /\ IsFiniteSet(to(k))
    BY <2>1, FS_Subset
  <2>5. c \in [of(k) -> to(k)] /\ (\A x, y \in of(k) : c[x] = c[y] => x = y) /\ \A n \in of(k) : c[n] = b[n]
    BY <2>1, <2>2 DEF Renumbers
  <2>6. to(k) = {c[x] : x \in of(k)}
    <3>1. \A m \in to(k) : \E n \in R : m = b[n]
      BY <2>1 DEF Renumbers
    <3>2. \A m \in to(k) : \E n \in of(k) : m = b[n]
      BY <2>2, <3>1
    <3> QED BY <2>1, <2>2, <2>5, <3>2
  <2>7. /\ DOMAIN items(k) = of(k) /\ \A n \in of(k) : items(k)[n] = rounds[n].items[k]
        /\ DOMAIN moved(k) = to(k) /\ \A n \in to(k) : moved(k)[n] = others[n].items[k]
    OBVIOUS
  <2> HIDE DEF items, moved, c
  <2>8. \A n \in of(k) : Numbered(items(k)[n]) /\ Same(items(k)[n], moved(k)[c[n]])
    BY <2>1, <2>3, <2>5, <2>7
  <2>9. Renumbers(c, of(k), to(k))
    BY <2>5, <2>6 DEF Renumbers
  <2> QED BY <2>4, <2>7, <2>8, <2>9, TotalsAgree
<1> HIDE DEF K, L, items, moved
<1> QED BY <1>1, <1>2, <1>3

----------------------------------------------------------------------------
\* What needs attention

\* A round as the file has it.
Skips == Listings \cup {"", "not_serving"}
Item == [answered : Nat, correct : Nat, failed : Nat, skipped : Skips, misses : SUBSET Int]
InFile(round) ==
  /\ round = [started |-> round.started, items |-> round.items] /\ round.started \in Int
  /\ round.items \in [DOMAIN round.items -> Item] /\ DOMAIN round.items \subseteq Keys

LEMMA InFileIsNumbered == ASSUME NEW round, InFile(round) PROVE NumberedRound(round)
BY DEF InFile, NumberedRound, Item, Numbered

\* What the file drops is older than a day, or answers that were wrong.
LEMMA RetainedAgrees ==
  ASSUME NEW D, NEW rounds \in Seq(D), NEW now \in Int, \A n \in DOMAIN rounds : InFile(rounds[n])
  PROVE  Cells(Retained(rounds, now), Recent(Retained(rounds, now), now)) = Cells(rounds, Recent(rounds, now))
<1> DEFINE young == {n \in DOMAIN rounds : rounds[n].started >= now - Retention}
           first == Min(young)
           kept == IF young = {} THEN <<>> ELSE SubSeq(rounds, first, Len(rounds))
           Aged(round) == IF round.started >= now - AnswerRetention THEN round
                          ELSE [round EXCEPT !.items = [k \in DOMAIN round.items |-> [round.items[k] EXCEPT !.misses = {}]]]
           others == Retained(rounds, now)
           R == Recent(rounds, now)
           T == Recent(others, now)
<1>1. others = [n \in DOMAIN kept |-> Aged(kept[n])]
  BY DEF Retained
<1>2. DOMAIN rounds = 1..Len(rounds) /\ Len(rounds) \in Nat /\ IsFiniteSet(DOMAIN rounds)
  BY FS_Interval
<1>3. R \in SUBSET young /\ R \in SUBSET DOMAIN rounds /\ young \in SUBSET DOMAIN rounds
  <2>1. \A n \in DOMAIN rounds : rounds[n].started \in Int
    BY DEF InFile
  <2>2. DayLength \in Nat /\ Retention \in Nat /\ DayLength <= Retention
    BY VerdictsAssumption
  <2> QED BY <2>1, <2>2 DEF Recent
<1>4. ASSUME NEW round, InFile(round)
      PROVE  /\ Aged(round).started = round.started /\ DOMAIN Aged(round).items = DOMAIN round.items
             /\ \A k \in DOMAIN round.items : Same(round.items[k], Aged(round).items[k])
  <2> DEFINE plain == [k \in DOMAIN round.items |-> [round.items[k] EXCEPT !.misses = {}]]
  <2>1. \A k \in DOMAIN round.items : Same(round.items[k], round.items[k])
    BY DEF Same
  <2>2. \A k \in DOMAIN round.items : Same(round.items[k], plain[k])
    BY <1>4 DEF InFile, Item, Same
  <2>3. DOMAIN plain = DOMAIN round.items
    OBVIOUS
  <2> HIDE DEF plain
  <2>4. [round EXCEPT !.items = plain].started = round.started /\ [round EXCEPT !.items = plain].items = plain
    BY <1>4 DEF InFile
  <2> QED BY <2>1, <2>2, <2>3, <2>4 DEF plain
<1>5. IsFiniteSet(R) /\ IsFiniteSet(young)
  <2> HIDE DEF R, young
  <2> QED BY <1>2, <1>3, FS_Subset
<1> HIDE DEF Aged, others
<1>6. CASE young = {}
  <2>1. others = <<>> /\ R = {}
    BY <1>1, <1>3, <1>6
  <2>2. T = {}
    BY <2>1 DEF Recent
  <2>3. \A rs : Cells(rs, {}) = [k \in {} |-> Total([n \in {} |-> rs[n].items[k]])]
    BY DEF Cells
  <2> HIDE DEF R, T
  <2>4. Cells(others, T) = Cells(rounds, R)
    BY <2>1, <2>2, <2>3
  <2> QED BY <2>4 DEF R, T, others
<1>7. CASE young # {}
  <2>1. first \in young /\ \A n \in young : first <= n
    <3> HIDE DEF young
    <3>1. young \in SUBSET Int
      BY <1>2, <1>3
    <3> QED BY <1>5, <1>7, <3>1, Extremes
  <2>2. first \in 1..Len(rounds)
    BY <1>2, <2>1
  <2> HIDE DEF young, first
  <2> DEFINE j == first - 1
             b == [n \in R |-> n - j]
  <2>3. /\ DOMAIN others = 1..(Len(rounds) - j)
        /\ \A i \in 1..(Len(rounds) - j) : others[i] = Aged(rounds[i + j]) /\ i + j \in DOMAIN rounds
    <3>1. kept = SubSeq(rounds, first, Len(rounds))
      BY <1>7
    <3>2. DOMAIN kept = 1..(Len(rounds) - j) /\ \A i \in 1..(Len(rounds) - j) : kept[i] = rounds[i + j] /\ i + j \in 1..Len(rounds)
      BY <1>2, <2>2, <3>1
    <3> HIDE DEF kept, j
    <3> QED BY <1>1, <1>2, <3>2
  <2>4. \A n \in R : n \in 1..Len(rounds) /\ first <= n
    BY <1>2, <1>3, <2>1
  <2>5. \A n \in R : n - j \in DOMAIN others /\ others[n - j] = Aged(rounds[n])
    BY <2>2, <2>3, <2>4
  <2>6. \A i \in DOMAIN others : others[i].started = rounds[i + j].started
    BY <1>4, <2>3
  <2>7. \A n \in R : others[n - j].started = rounds[n].started
    BY <1>3, <1>4, <2>5
  <2>8. T = {b[n] : n \in R}
    <3>1. \A n \in R : b[n] = n - j /\ n - j \in T
      <4>1. \A n \in R : rounds[n].started >= now - DayLength
        BY DEF Recent
      <4> HIDE DEF R, j
      <4> QED BY <2>5, <2>7, <4>1 DEF Recent
    <3>2. ASSUME NEW i \in T PROVE i + j \in R /\ i = (i + j) - j
      <4>1. i \in DOMAIN others /\ others[i].started >= now - DayLength
        BY DEF Recent
      <4>2. i \in Int /\ j \in Int
        BY <2>2, <2>3, <4>1
      <4> HIDE DEF j
      <4> QED BY <2>3, <2>6, <4>1, <4>2 DEF Recent
    <3> HIDE DEF b, R, T
    <3> QED BY <3>1, <3>2
  <2>9. Renumbers(b, R, T)
    <3>1. b \in [R -> T]
      <4> HIDE DEF R, T
      <4> QED BY <2>8
    <3>2. \A x, y \in R : b[x] = b[y] => x = y
      <4>1. j \in Int /\ \A n \in R : n \in Int
        BY <2>2, <2>4
      <4> HIDE DEF R, T, j
      <4> QED BY <4>1
    <3> HIDE DEF b, R, T
    <3> QED BY <2>8, <3>1, <3>2 DEF Renumbers
  <2>10. ASSUME NEW n \in R
         PROVE  /\ NumberedRound(rounds[n]) /\ DOMAIN others[b[n]].items = DOMAIN rounds[n].items
                /\ \A k \in DOMAIN rounds[n].items : Same(rounds[n].items[k], others[b[n]].items[k])
    <3>1. InFile(rounds[n]) /\ b[n] = n - j
      BY <1>3
    <3> HIDE DEF b, j, R
    <3> QED BY <1>4, <2>5, <3>1, InFileIsNumbered
  <2>11. IsFiniteSet(T)
    <3>1. T \in SUBSET (1..(Len(rounds) - j)) /\ Len(rounds) - j \in Int
      BY <1>2, <2>2, <2>3 DEF Recent
    <3> HIDE DEF T, j
    <3>2. IsFiniteSet(1..(Len(rounds) - j))
      BY <3>1, FS_Interval
    <3> QED BY <3>1, <3>2, FS_Subset
  <2> HIDE DEF b, R, T
  <2>12. Cells(rounds, R) = Cells(others, T)
    BY <1>5, <2>9, <2>10, <2>11, CellsAgree
  <2> QED BY <2>12 DEF R, T, others
<1> QED BY <1>6, <1>7

\* Whether a cell is judged low or ok does not depend on its failures.
LEMMA Judgements ==
  ASSUME NEW x \in Cell
  PROVE  /\ Verdict(x.answered, x.correct, x.failed) \in {"degraded", "suspect"} <=> Verdict(x.answered, x.correct, 0) \in {"degraded", "suspect"}
         /\ Verdict(x.answered, x.correct, x.failed) = "ok" => x.answered > 0 /\ Verdict(x.answered, x.correct, 0) = "ok"
BY DEF Verdict, Cell

\* What attention says of some cells.
LowGroups(cells) == {g \in ModelEfforts : Low(BestOf(cells, g))}
Judged(cells, k) == Verdict(cells[k].answered, cells[k].correct, 0)
Alone(cells) == {k \in DOMAIN cells : k[2] \notin LowGroups(cells) /\ Judged(cells, k) \in {"degraded", "suspect"}}
Listed(cells) == LowGroups(cells) \cup Alone(cells)

\* The keys of a list of entries.
LEMMA Entries ==
  ASSUME NEW S, NEW v
  PROVE  {entry.of : entry \in {[of |-> g, verdict |-> v[g]] : g \in S}} = S
<1> DEFINE T == {[of |-> g, verdict |-> v[g]] : g \in S}
<1>1. \A g \in S : \E entry \in T : entry.of = g
  <2> TAKE g \in S
  <2> WITNESS [of |-> g, verdict |-> v[g]] \in T
  <2> QED OBVIOUS
<1>2. ASSUME NEW entry \in T PROVE entry.of \in S
  <2>1. PICK g \in S : entry = [of |-> g, verdict |-> v[g]]
    OBVIOUS
  <2> QED BY <2>1
<1> HIDE DEF T
<1>3. {entry.of : entry \in T} = S
  BY <1>1, <1>2
<1> QED BY <1>3 DEF T

\* Attention lists the low groups and the channels outside them.
LEMMA ListIs ==
  ASSUME NEW rounds, NEW now
  PROVE  {entry.of : entry \in Attention(rounds, now)} = Listed(Cells(rounds, Recent(rounds, now)))
<1> DEFINE cells == Cells(rounds, Recent(rounds, now))
<1>1. Attention(rounds, now) =
        {[of |-> g, verdict |-> "group_low"] : g \in LowGroups(cells)}
        \cup {[of |-> k, verdict |-> Judged(cells, k)] : k \in Alone(cells)}
  BY DEF Attention, LowGroups, Alone, Judged
<1> HIDE DEF cells
<1>2. {entry.of : entry \in Attention(rounds, now)} = LowGroups(cells) \cup Alone(cells)
  <2> DEFINE low == {[of |-> g, verdict |-> "group_low"] : g \in LowGroups(cells)}
             alone == {[of |-> k, verdict |-> Judged(cells, k)] : k \in Alone(cells)}
  <2>1. {entry.of : entry \in low} = LowGroups(cells)
    <3> DEFINE v == [g \in LowGroups(cells) |-> "group_low"]
    <3>1. low = {[of |-> g, verdict |-> v[g]] : g \in LowGroups(cells)}
      OBVIOUS
    <3> HIDE DEF low, v
    <3> QED BY <3>1, Entries
  <2>2. {entry.of : entry \in alone} = Alone(cells)
    <3> DEFINE v == [k \in Alone(cells) |-> Judged(cells, k)]
    <3>1. alone = {[of |-> k, verdict |-> v[k]] : k \in Alone(cells)}
      OBVIOUS
    <3> HIDE DEF alone, v
    <3> QED BY <3>1, Entries
  <2>3. {entry.of : entry \in low \cup alone} = {entry.of : entry \in low} \cup {entry.of : entry \in alone}
    <3> HIDE DEF low, alone
    <3> QED OBVIOUS
  <2> QED BY <1>1, <2>1, <2>2, <2>3
<1> QED BY <1>2 DEF Listed, cells

LEMMA SameCellsSameAttention ==
  ASSUME NEW rounds, NEW others, NEW now, Cells(others, Recent(others, now)) = Cells(rounds, Recent(rounds, now))
  PROVE  Attention(others, now) = Attention(rounds, now)
BY DEF Attention

\* A group is low exactly if two of its channels answered and none is ok.
LEMMA LowGroupIs ==
  ASSUME NEW cells, IsFiniteSet(DOMAIN cells), \A k \in DOMAIN cells : cells[k] \in Cell, NEW g
  PROVE  Low(BestOf(cells, g)) <=>
           Cardinality(AnsweredIn(cells, g)) >= 2 /\ \A k \in AnsweredIn(cells, g) : Judged(cells, k) # "ok"
<1> DEFINE S == AnsweredIn(cells, g)
<1>1. S \in SUBSET DOMAIN cells /\ \A k \in S : Answered(cells[k])
  BY DEF AnsweredIn, Answered, Cell
<1>2. BestOf(cells, g) = BestInOrder(cells, SetToSeq(S))
  BY DEF BestOf
<1> HIDE DEF S
<1>3. IsFiniteSet(S)
  BY <1>1, FS_Subset
<1>4. SetToSeq(S) \in SetToSeqs(S)
  BY <1>3, Orders
<1>5. Low(BestInOrder(cells, SetToSeq(S))) <=> Cardinality(S) >= 2 /\ \A k \in S : Verdict(cells[k].answered, cells[k].correct, 0) # "ok"
  BY <1>1, <1>3, <1>4, LowIfNoneIsOk
<1> QED BY <1>2, <1>5 DEF S, Judged

\* A channel and its group are never both listed, since a group is no key.
LEMMA ListCovers ==
  ASSUME NEW cells, IsFiniteSet(DOMAIN cells), DOMAIN cells \subseteq Keys, \A k \in DOMAIN cells : cells[k] \in Cell,
         NEW k \in DOMAIN cells
  PROVE  LET judged == Verdict(cells[k].answered, cells[k].correct, cells[k].failed)
         IN  /\ judged \in {"degraded", "suspect"} => Cardinality({k, k[2]} \cap Listed(cells)) = 1
             /\ judged = "ok" => {k, k[2]} \cap Listed(cells) = {}
<1> DEFINE judged == Verdict(cells[k].answered, cells[k].correct, cells[k].failed)
<1>1. k \in Keys /\ k[2] \in ModelEfforts /\ k \notin ModelEfforts /\ k[2] \notin Keys
  BY VerdictsAssumption DEF Keys
<1>2. k \notin LowGroups(cells) /\ k[2] \notin Alone(cells)
  BY <1>1 DEF LowGroups, Alone
<1>3. /\ judged \in {"degraded", "suspect"} <=> Judged(cells, k) \in {"degraded", "suspect"}
      /\ judged = "ok" => cells[k].answered > 0 /\ Judged(cells, k) = "ok"
  BY Judgements DEF Judged
<1> HIDE DEF judged
<1>4. ASSUME judged \in {"degraded", "suspect"} PROVE Cardinality({k, k[2]} \cap Listed(cells)) = 1
  <2>1. k \in Alone(cells) <=> k[2] \notin LowGroups(cells)
    BY <1>3, <1>4 DEF Alone
  <2>2. {k, k[2]} \cap Listed(cells) = {k} \/ {k, k[2]} \cap Listed(cells) = {k[2]}
    <3>1. CASE k[2] \in LowGroups(cells)
      BY <1>2, <2>1, <3>1 DEF Listed
    <3>2. CASE k[2] \notin LowGroups(cells)
      BY <1>2, <2>1, <3>2 DEF Listed
    <3> QED BY <3>1, <3>2
  <2> QED BY <2>2, FS_Singleton
<1>5. ASSUME judged = "ok" PROVE {k, k[2]} \cap Listed(cells) = {}
  <2>1. k \in AnsweredIn(cells, k[2])
    BY <1>3, <1>5 DEF AnsweredIn
  <2>2. k[2] \notin LowGroups(cells)
    BY <1>3, <1>5, <2>1, LowGroupIs DEF LowGroups
  <2>3. k \notin Alone(cells)
    BY <1>3, <1>5 DEF Alone
  <2> QED BY <1>2, <2>2, <2>3 DEF Listed
<1> QED BY <1>4, <1>5 DEF judged

\* Every channel judged degraded or suspect is listed once, by itself or by its
\* low group, and no ok one; the page's day agrees, and what the file drops was
\* not needed: for any rounds the file can hold (inspection.go:738).
THEOREM AttentionIsComplete ==
  ASSUME NEW D, NEW rounds \in Seq(D), \A n \in DOMAIN rounds : InFile(rounds[n])
  PROVE  AttentionCovers(rounds)
<1> DEFINE now == Today + 1
           cells == Cells(rounds, Recent(rounds, now))
           list == {entry.of : entry \in Attention(rounds, now)}
           day == DayView(rounds, 3)
           judged(k) == Verdict(cells[k].answered, cells[k].correct, cells[k].failed)
<1>1. now \in Int
  BY VerdictsAssumption DEF Today
<1>2. /\ DOMAIN cells \subseteq Keys /\ IsFiniteSet(DOMAIN cells) /\ \A k \in DOMAIN cells : cells[k] \in Cell
  <2> DEFINE R == Recent(rounds, now)
  <2>1. R \in SUBSET DOMAIN rounds /\ IsFiniteSet(DOMAIN rounds)
    BY FS_Interval DEF Recent
  <2>2. \A n \in R : NumberedRound(rounds[n])
    BY <2>1, InFileIsNumbered
  <2> HIDE DEF R
  <2>3. IsFiniteSet(R)
    BY <2>1, FS_Subset
  <2>4. /\ DOMAIN Cells(rounds, R) \subseteq Keys /\ IsFiniteSet(DOMAIN Cells(rounds, R))
        /\ \A k \in DOMAIN Cells(rounds, R) : Cells(rounds, R)[k] \in Cell
    BY <2>2, <2>3, CellsType
  <2> QED BY <2>4 DEF R
<1> HIDE DEF now
<1>3. list = Listed(cells)
  BY ListIs
<1>4. ASSUME NEW k \in DOMAIN cells
      PROVE  /\ judged(k) \in {"degraded", "suspect"} => Cardinality({k, k[2]} \cap list) = 1
             /\ judged(k) = "ok" => {k, k[2]} \cap list = {}
  <2> HIDE DEF cells, list
  <2> QED BY <1>2, <1>3, ListCovers
<1>5. ASSUME Recent(rounds, now) = OnDay(rounds, 3)
      PROVE  /\ \A k \in DOMAIN cells : day.verdicts[k] = judged(k)
             /\ {g \in DOMAIN day.groups : Low(day.groups[g])} = list \cap ModelEfforts
  <2> DEFINE answered == {h \in ModelEfforts : AnsweredIn(cells, h) # {}}
  <2>1. day = [verdicts |-> [k \in DOMAIN cells |-> judged(k)], groups |-> [g \in answered |-> BestOf(cells, g)]]
    BY <1>5 DEF DayView
  <2> HIDE DEF cells, list, day
  <2>2. day.verdicts = [k \in DOMAIN cells |-> judged(k)] /\ day.groups = [g \in answered |-> BestOf(cells, g)]
    BY <2>1
  <2>3. {g \in DOMAIN day.groups : Low(day.groups[g])} = {g \in answered : Low(BestOf(cells, g))}
    BY <2>2
  <2>4. \A g \in ModelEfforts : Low(BestOf(cells, g)) => g \in answered
    <3> SUFFICES ASSUME NEW g \in ModelEfforts, Low(BestOf(cells, g)), AnsweredIn(cells, g) = {} PROVE FALSE
      BY DEF answered
    <3>1. Cardinality(AnsweredIn(cells, g)) >= 2
      BY <1>2, LowGroupIs
    <3>2. Cardinality(AnsweredIn(cells, g)) = 0
      BY FS_EmptySet
    <3> QED BY <3>1, <3>2
  <2>5. list \cap ModelEfforts = LowGroups(cells)
    <3>1. \A k \in Alone(cells) : k \notin ModelEfforts
      BY <1>2, VerdictsAssumption DEF Alone, Keys
    <3> QED BY <1>3, <3>1 DEF Listed, LowGroups
  <2> HIDE DEF answered
  <2> QED BY <2>2, <2>3, <2>4, <2>5 DEF LowGroups, answered
<1>6. Attention(Retained(rounds, now), now) = Attention(rounds, now)
  BY <1>1, RetainedAgrees, SameCellsSameAttention
<1> HIDE DEF cells, list, day, judged
<1> QED BY <1>4, <1>5, <1>6 DEF AttentionCovers, cells, list, day, judged, now

\* What a round comes to can be in the file.
LEMMA InspectedType ==
  ASSUME NEW n \in Nat, NEW outcomes \in [1..n -> Outcomes]
  PROVE  Inspected(outcomes) \in Item
<1>1. ASSUME NEW some PROVE Number(outcomes, some) \in Nat
  <2> DEFINE S == {m \in DOMAIN outcomes : outcomes[m] \in some}
  <2>1. S \in SUBSET (1..n) /\ IsFiniteSet(1..n)
    BY FS_Interval
  <2> HIDE DEF S
  <2>2. Cardinality(S) \in Nat
    BY <2>1, FS_Subset, FS_CardinalityType
  <2> QED BY <2>2 DEF Number, S
<1>2. [NoItem EXCEPT !.skipped = "not_serving"] \in Item
  BY DEF NoItem, Item, Skips
<1>3. {m \in DOMAIN outcomes : outcomes[m] = "wrong"} \in SUBSET Int
  OBVIOUS
<1>4. [answered |-> Number(outcomes, {"right", "wrong"}), correct |-> Number(outcomes, {"right"}),
       failed |-> Number(outcomes, {"error", "not_serving"}), skipped |-> "",
       misses |-> {m \in DOMAIN outcomes : outcomes[m] = "wrong"}] \in Item
  BY <1>1, <1>3 DEF Item, Skips
<1> QED BY <1>2, <1>4 DEF Inspected

LEMMA SkippedType ==
  ASSUME NEW why \in Listings
  PROVE  [NoItem EXCEPT !.skipped = why] \in Item
<1>1. why \in Skips /\ "" \in Skips
  BY Zenon DEF Skips
<1>2. [answered |-> 0, correct |-> 0, failed |-> 0, skipped |-> why, misses |-> {}] \in Item
  BY <1>1 DEF Item
<1>3. ASSUME NEW other
      PROVE  [[answered |-> 0, correct |-> 0, failed |-> 0, skipped |-> other, misses |-> {}] EXCEPT !.skipped = why]
             = [answered |-> 0, correct |-> 0, failed |-> 0, skipped |-> why, misses |-> {}]
  OBVIOUS
<1> QED BY <1>2, <1>3, Zenon DEF NoItem

LEMMA ThreeChannels == IsFiniteSet(1..3)
<1>1. 1 \in Int /\ 3 \in Int
  OBVIOUS
<1> QED BY <1>1, FS_Interval, Zenon

LEMMA RoundItemsType ==
  ASSUME NEW runs \in Nat, NEW at \in Int, NEW items \in RoundItems(runs)
  PROVE  InFile([started |-> at, items |-> items])
<1> DEFINE all == {Items(members, ignored, listing, outcomes) :
                     members \in SUBSET AuthIndexes, ignored \in SUBSET AuthIndexes, listing \in [AuthIndexes -> Listings],
                     outcomes \in [AuthIndexes -> UNION {[1..n -> Outcomes] : n \in 0..runs}]}
<1>1. PICK item \in all : items = [k \in (DOMAIN item) \X ModelEfforts |-> item[k[1]]]
  <2>1. RoundItems(runs) = {[k \in (DOMAIN item) \X ModelEfforts |-> item[k[1]]] : item \in all}
    BY DEF RoundItems
  <2> HIDE DEF all
  <2> QED BY <2>1
<1>8. PICK members \in SUBSET AuthIndexes, ignored \in SUBSET AuthIndexes, listing \in [AuthIndexes -> Listings],
           outcomes \in [AuthIndexes -> UNION {[1..n -> Outcomes] : n \in 0..runs}] :
        item = Items(members, ignored, listing, outcomes)
  OBVIOUS
<1>2. \A c \in AuthIndexes : \E n \in Nat : outcomes[c] \in [1..n -> Outcomes]
  OBVIOUS
<1>3. \A c \in AuthIndexes : Inspected(outcomes[c]) \in Item
  BY <1>2, InspectedType
<1>4. \A c \in AuthIndexes : [NoItem EXCEPT !.skipped = listing[c]] \in Item
  <2>1. \A c \in AuthIndexes : listing[c] \in Listings
    OBVIOUS
  <2> QED BY <2>1, SkippedType
<1>5. DOMAIN item \subseteq AuthIndexes /\ \A c \in DOMAIN item : item[c] \in Item
  BY <1>3, <1>4, <1>8 DEF Items
<1> HIDE DEF all
<1>6. DOMAIN items = (DOMAIN item) \X ModelEfforts /\ \A k \in DOMAIN items : items[k] \in Item
  BY <1>1, <1>5
<1>7. items \in [DOMAIN items -> Item] /\ DOMAIN items \subseteq Keys
  BY <1>1, <1>5, <1>6 DEF Keys
<1> QED BY <1>7 DEF InFile

\* The page is right whatever it is computed from: a group's answers, two
\* rounds or a schedule, for any channels, models, questions and lengths of day.
THEOREM PageStaysRight == Shows => PageIsRight'
<1>1. ASSUME NEW cells \in [1..3 -> Counts], shown' = [of |-> "group", cells |-> cells] PROVE PageIsRight'
  <2>1. DOMAIN cells = 1..3
    OBVIOUS
  <2>5. IsFiniteSet(DOMAIN cells)
    BY <2>1, ThreeChannels
  <2>2. Counting(cells, DOMAIN cells)
    BY VerdictsAssumption DEF Counting, Counts
  <2>3. BestIsBest(cells)
    BY <2>2, <2>5, AnyOrderWillDo
  <2> QED BY <1>1, <2>3 DEF PageIsRight
<1>2. ASSUME NEW at \in {Today, Today - 1, Today - DayLength}, NEW first \in RoundItems(MaxRuns), NEW second \in RoundItems(1),
             shown' = [of |-> "rounds", rounds |-> <<[started |-> at, items |-> first], [started |-> Today, items |-> second]>>]
      PROVE  PageIsRight'
  <2> DEFINE early == [started |-> at, items |-> first]
             late == [started |-> Today, items |-> second]
             rounds == <<early, late>>
  <2>1. at \in Int /\ Today \in Int /\ MaxRuns \in Nat
    BY VerdictsAssumption DEF Today
  <2>2. InFile(early) /\ InFile(late)
    BY <2>1, RoundItemsType
  <2> HIDE DEF early, late
  <2>3. rounds \in Seq({early, late}) /\ \A n \in DOMAIN rounds : InFile(rounds[n])
    BY <2>2
  <2> HIDE DEF rounds
  <2>4. AttentionCovers(rounds)
    BY <2>3, AttentionIsComplete
  <2>5. shown' = [of |-> "rounds", rounds |-> rounds]
    BY <1>2 DEF rounds, early, late
  <2> QED BY <2>4, <2>5 DEF PageIsRight
<1>3. ASSUME NEW now \in DayLength..(2 * DayLength - 1), NEW times \in (SUBSET (0..(DayLength - 1))) \ {{}},
             NEW done \in SUBSET {at \in {On(day, t) : day \in {0, 1}, t \in times} : at <= now},
             shown' = [of |-> "schedule", now |-> now, times |-> times, done |-> done]
      PROVE  PageIsRight'
  <2>1. now \in Int /\ DayLength \in Int
    BY VerdictsAssumption
  <2>2. \A day \in {0, 1}, t \in times : On(day, t) \in Int
    BY <2>1 DEF On
  <2>3. \A at \in done : at \in Int /\ at <= now
    BY <2>2
  <2>4. NextRunIsDue(now, times, done)
    <3>1. times \in SUBSET (0..(DayLength - 1)) /\ times # {}
      OBVIOUS
    <3> QED BY <2>1, <2>3, <3>1, AnnouncedIsDue
  <2> QED BY <1>3, <2>4 DEF PageIsRight
<1> QED BY <1>1, <1>2, <1>3 DEF Shows

\* The same of everything that is ever shown.
THEOREM PageAlwaysRight == shown = Nothing /\ [][Shows]_shown => []PageIsRight
<1>1. shown = Nothing => PageIsRight
  BY DEF Nothing, PageIsRight
<1>2. PageIsRight /\ [Shows]_shown => PageIsRight'
  <2>1. PageIsRight /\ UNCHANGED shown => PageIsRight'
    BY DEF PageIsRight
  <2> QED BY <2>1, PageStaysRight
<1> QED BY <1>1, <1>2, PTL
=============================================================================
