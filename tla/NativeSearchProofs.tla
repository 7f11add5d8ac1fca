-------------------------- MODULE NativeSearchProofs --------------------------
(***************************************************************************)
(* Theorems about NativeSearch, for any channels, models, keys, settings   *)
(* and events: every state is well typed, no round goes on once native     *)
(* search is off, an instance that gave the data directory up writes no    *)
(* more; and, as long as no list of the credentials is overtaken by an     *)
(* edit, every entry of this plugin in config.yaml is known to it, and a   *)
(* tick gives back those that are not wanted.                              *)
(*                                                                         *)
(* The first part follows the Manager through what each step makes of it   *)
(* (Sound), the second the entries (mine) from the plan that adds one to   *)
(* the note that it was written (EntriesKept).                             *)
(***************************************************************************)
EXTENDS NativeSearch, FiniteSetTheorems, SequenceTheorems, WellFoundedInduction, TLAPS

----------------------------------------------------------------------------
\* The operators keep the types

\* Histories are sequences of at most HistoryLimit probes.
Probe == [model : Models, result : Results]

LEMMA FunctionsAreSequences ==
  ASSUME NEW S, NEW n \in Nat, NEW f \in [1..n -> S]
  PROVE  f \in Seq(S) /\ Len(f) = n
OBVIOUS

LEMMA HistoryType ==
  ASSUME NEW rec \in Record
  PROVE  rec.probes \in Seq(Probe) /\ Len(rec.probes) <= HistoryLimit
<1>1. PICK n \in 0..HistoryLimit : rec.probes \in [1..n -> Probe]
  BY DEF Record, Probe
<1>2. n \in Nat /\ n <= HistoryLimit
  BY EvidenceAssumption
<1>3. rec.probes \in Seq(Probe) /\ Len(rec.probes) = n
  BY <1>1, <1>2, FunctionsAreSequences
<1> QED BY <1>2, <1>3

LEMMA HistoryOf ==
  ASSUME NEW probes \in Seq(Probe), Len(probes) <= HistoryLimit
  PROVE  probes \in UNION {[1..n -> Probe] : n \in 0..HistoryLimit}
<1>1. Len(probes) \in 0..HistoryLimit /\ probes \in [1..Len(probes) -> Probe]
  BY LenProperties, EvidenceAssumption
<1> QED BY <1>1

LEMMA ObservedType ==
  ASSUME NEW rec \in Record, NEW x \in Models, NEW result \in Results, NEW since \in BOOLEAN
  PROVE  Observed(rec, x, result, since) \in Record
<1> DEFINE history == Append(rec.probes, [model |-> x, result |-> result])
           kept == IF Len(history) > HistoryLimit THEN Tail(history) ELSE history
           counts == [rec.noSearch EXCEPT ![x] =
                        CASE result = "search" -> 0
                          [] result = "no_search" -> IF @ < 2 THEN @ + 1 ELSE 2
                          [] result = "error" -> @]
<1>1. history \in Seq(Probe) /\ Len(history) = Len(rec.probes) + 1 /\ Len(rec.probes) \in Nat
  <2>1. [model |-> x, result |-> result] \in Probe
    BY DEF Probe
  <2> QED BY <2>1, HistoryType, AppendProperties, LenProperties
<1>2. kept \in Seq(Probe) /\ Len(kept) <= HistoryLimit
  <2> HIDE DEF history
  <2>1. CASE Len(history) > HistoryLimit
    <3>1. history # <<>>
      BY <1>1, EmptySeq
    <3> QED BY <1>1, <2>1, <3>1, HeadTailProperties, HistoryType, EvidenceAssumption
  <2>2. CASE ~(Len(history) > HistoryLimit)
    BY <1>1, <2>2, EvidenceAssumption
  <2> QED BY <2>1, <2>2
<1>3. kept \in UNION {[1..n -> [model : Models, result : Results]] : n \in 0..HistoryLimit}
  <2> HIDE DEF kept
  <2> QED BY <1>2, HistoryOf DEF Probe
<1>4. counts \in [Models -> 0..2]
  <2>1. rec.noSearch \in [Models -> 0..2]
    BY DEF Record
  <2> QED BY <2>1 DEF Results
<1>5. /\ [rec.last EXCEPT ![x] = result] \in [Models -> Results \cup {"none"}]
      /\ (IF result = "search" /\ ~since THEN rec.refused \ {x} ELSE rec.refused) \subseteq Models
      /\ rec.served \cup {x} \subseteq Models /\ rec.notServing \ {x} \subseteq Models
  BY DEF Record
<1> HIDE DEF kept, counts
<1>6. Observed(rec, x, result, since) =
        [probes |-> kept, noSearch |-> counts, last |-> [rec.last EXCEPT ![x] = result],
         refused |-> IF result = "search" /\ ~since THEN rec.refused \ {x} ELSE rec.refused,
         served |-> rec.served \cup {x}, notServing |-> rec.notServing \ {x}]
  BY DEF Observed, kept, counts
<1> QED BY <1>3, <1>4, <1>5, <1>6 DEF Record

LEMMA PrunedType == ASSUME NEW rec \in Record, NEW catalog PROVE Pruned(rec, catalog) \in Record
<1> DEFINE counts == [x \in Models |-> IF x \in catalog THEN rec.noSearch[x] ELSE 0]
           last == [x \in Models |-> IF x \in catalog THEN rec.last[x] ELSE "none"]
<1>1. counts \in [Models -> 0..2] /\ last \in [Models -> Results \cup {"none"}] /\ rec.refused \cap catalog \subseteq Models
  BY DEF Record
<1>2. Pruned(rec, catalog) = [rec EXCEPT !.noSearch = counts, !.last = last, !.refused = rec.refused \cap catalog]
  BY DEF Pruned
<1> HIDE DEF counts, last
<1> QED BY <1>1, <1>2 DEF Record

LEMMA NoRecordType == NoRecord \in Record
<1>1. <<>> \in [1..0 -> [model : Models, result : Results]] /\ 0 \in 0..HistoryLimit
  BY EvidenceAssumption
<1>2. <<>> \in UNION {[1..n -> [model : Models, result : Results]] : n \in 0..HistoryLimit}
  BY <1>1
<1> QED BY <1>2 DEF NoRecord, Record

LEMMA DecidedType ==
  ASSUME NEW s \in Manager, NEW excludable, NEW stale
  PROVE  Decided(s.settings, s.catalog, s.creds, s.records, excludable, stale) \in Decision
<1>1. s.settings.enabled \in BOOLEAN /\ s.catalog \subseteq Models
  BY DEF Manager, Setting
<1> QED BY <1>1 DEF Decided, Decision, Pairs

\* What a step that touches only the evidence and the decisions keeps.
Carries(s, t) ==
  /\ t.creds = s.creds /\ t.exclusions = s.exclusions /\ t.fresh = s.fresh
  /\ t.settings = s.settings /\ t.started = s.started /\ t.round = s.round /\ t.catalog = s.catalog

LEMMA RebuiltType ==
  ASSUME NEW s \in Manager, NEW stale
  PROVE  Rebuilt(s, stale) \in Manager /\ Carries(s, Rebuilt(s, stale))
<1> DEFINE d == Decided(s.settings, s.catalog, s.creds, s.records, Excludable(s), stale)
<1>1. d \in Decision
  BY DecidedType
<1>2. Rebuilt(s, stale) = [s EXCEPT !.decisions = d]
  BY DEF Rebuilt
<1> HIDE DEF d
<1> QED BY <1>1, <1>2 DEF Manager, Carries

LEMMA DurableType == ASSUME NEW s \in Manager PROVE Durable(s) \in Stored
<1>1. [c \in Channels |-> Pruned(s.records[c], s.catalog)] \in [Channels -> Record]
  BY PrunedType DEF Manager
<1> QED BY <1>1 DEF Durable, Stored, Manager

LEMMA SavedType ==
  ASSUME NEW s \in Manager, file \in Stored, NEW r \in Saved(s)
  PROVE  r.s \in Manager /\ r.file \in Stored /\ r.ok \in BOOLEAN /\ Carries(s, r.s)
<1>1. Durable(s) \in Stored /\ Durable(s).records \in [Channels -> Record]
  BY DurableType DEF Stored
<1> DEFINE kept == Durable(s).records
<1>2. /\ [s EXCEPT !.records = kept] \in Manager /\ [s EXCEPT !.dirty = FALSE, !.records = kept] \in Manager
      /\ Carries(s, [s EXCEPT !.records = kept]) /\ Carries(s, [s EXCEPT !.dirty = FALSE, !.records = kept])
  <2> HIDE DEF kept
  <2>1. kept \in [Channels -> Record]
    BY <1>1 DEF kept
  <2> QED BY <2>1 DEF Manager, Carries
<1>3. Saved(s) = {[s |-> [s EXCEPT !.dirty = FALSE, !.records = kept], file |-> Durable(s), ok |-> TRUE]}
                 \cup {[s |-> [s EXCEPT !.records = kept], file |-> file, ok |-> FALSE]}
  BY DEF Saved
<1>4. \/ r = [s |-> [s EXCEPT !.dirty = FALSE, !.records = kept], file |-> Durable(s), ok |-> TRUE]
      \/ r = [s |-> [s EXCEPT !.records = kept], file |-> file, ok |-> FALSE]
  <2> HIDE DEF kept
  <2> QED BY <1>3
<1> DEFINE saved == [s EXCEPT !.dirty = FALSE, !.records = kept]
           same == [s EXCEPT !.records = kept]
<1>5. saved \in Manager /\ same \in Manager /\ Carries(s, saved) /\ Carries(s, same)
  BY <1>2
<1> HIDE DEF saved, same, kept
<1>6. r = [s |-> saved, file |-> Durable(s), ok |-> TRUE] \/ r = [s |-> same, file |-> file, ok |-> FALSE]
  BY <1>4 DEF saved, same
<1>7. CASE r = [s |-> saved, file |-> Durable(s), ok |-> TRUE]
  <2>1. r.s = saved /\ r.file = Durable(s) /\ r.ok = TRUE
    BY ONLY <1>7
  <2> QED BY <1>1, <1>5, <2>1
<1>8. CASE r = [s |-> same, file |-> file, ok |-> FALSE]
  <2>1. r.s = same /\ r.file = file /\ r.ok = FALSE
    BY ONLY <1>8
  <2> QED BY <1>5, <2>1
<1> QED BY <1>6, <1>7, <1>8

LEMMA FlushedType ==
  ASSUME NEW s \in Manager, file \in Stored, NEW r \in Flushed(s)
  PROVE  /\ r.s \in Manager /\ r.file \in Stored /\ r.ok \in BOOLEAN /\ Carries(s, r.s)
         /\ ~owns => r.file = file
<1>1. CASE s.dirty /\ owns
  BY <1>1, SavedType DEF Flushed
<1>2. CASE ~(s.dirty /\ owns)
  <2>1. r = [s |-> s, file |-> file, ok |-> TRUE]
    BY <1>2 DEF Flushed
  <2> QED BY <2>1 DEF Carries
<1> QED BY <1>1, <1>2

LEMMA OpenedType ==
  ASSUME NEW data \in Stored
  PROVE  /\ Opened(data) \in Manager /\ Opened(data).exclusions = data.exclusions
         /\ Opened(data).fresh = FALSE /\ Opened(data).round = None /\ Opened(data).catalog = data.catalog
         /\ Opened(data).creds = data.creds
<1> DEFINE none == [enabled |-> FALSE, candidates |-> {}, native |-> {}, gaps |-> {}, strip |-> {}, refused |-> {}]
           s == [settings |-> data.settings, catalog |-> data.catalog, creds |-> data.creds, records |-> data.records,
                 exclusions |-> data.exclusions, credErr |-> FALSE, fresh |-> FALSE, dirty |-> FALSE,
                 started |-> FALSE, round |-> None, decisions |-> none]
<1>1. none \in Decision
  BY DEF Decision
<1>2. s \in Manager
  <2> HIDE DEF none
  <2> QED BY <1>1 DEF Stored, Manager
<1>3. Opened(data) = Rebuilt(s, {})
  BY DEF Opened
<1> QED BY <1>2, <1>3, RebuiltType DEF Carries

LEMMA AppliedType ==
  ASSUME NEW s \in Manager, NEW list \in List
  PROVE  LET t == Applied(s, list)
         IN  /\ t \in Manager
             /\ t.settings = s.settings /\ t.started = s.started /\ t.round = s.round /\ t.catalog = s.catalog
             /\ list.failed => t.creds = s.creds /\ t.exclusions = s.exclusions /\ t.fresh = s.fresh
             /\ ~list.failed => t.creds = list.creds
             /\ \A p \in Pairs : t.exclusions[p] = s.exclusions[p]
                                   \/ (~list.failed /\ list.creds[p[1]] = Gone)
<1>1. CASE list.failed
  BY <1>1 DEF Applied, Manager
<1>2. CASE ~list.failed /\ list.creds = s.creds
  BY <1>2 DEF Applied, Manager
<1>3. CASE ~list.failed /\ list.creds # s.creds
  <2> DEFINE records == [c \in Channels |-> IF list.creds[c] = Gone THEN NoRecord ELSE s.records[c]]
             exclusions == [p \in Pairs |-> IF list.creds[p[1]] = Gone THEN None ELSE s.exclusions[p]]
  <2>1. records \in [Channels -> Record] /\ exclusions \in [Pairs -> Exclusion \cup {None}]
    BY NoRecordType DEF Manager
  <2>2. \A p \in Pairs : exclusions[p] = s.exclusions[p] \/ list.creds[p[1]] = Gone
    OBVIOUS
  <2>3. Applied(s, list) = [s EXCEPT !.credErr = FALSE, !.fresh = TRUE, !.creds = list.creds, !.dirty = TRUE,
                                     !.records = records, !.exclusions = exclusions]
    BY <1>3 DEF Applied
  <2>4. list.creds \in Listings
    BY DEF List
  <2> HIDE DEF records, exclusions
  <2> QED BY <1>3, <2>1, <2>2, <2>3, <2>4 DEF Manager
<1> QED BY <1>1, <1>2, <1>3

LEMMA EffectiveType == ASSUME NEW key \in Key PROVE Effective(key) \in SUBSET Entries
<1>1. key.own # NoList => key.own \in SUBSET Entries
  BY DEF Key
<1>2. key.inherited # NoList => key.inherited \in SUBSET Entries
  BY DEF Key
<1>3. {} \in SUBSET Entries
  OBVIOUS
<1> QED BY <1>1, <1>2, <1>3 DEF Effective

LEMMA CredentialType ==
  ASSUME NEW disabled \in BOOLEAN, NEW excluded \in SUBSET Models, NEW models \in (SUBSET Models) \cup {NoList}
  PROVE  [disabled |-> disabled, excluded |-> excluded, models |-> models] \in Credential
BY DEF Credential

LEMMA ListsType == ASSUME m \in Manager, config \in [Channels -> Key \cup {Gone}] PROVE Lists \subseteq List
<1>1. \A c \in Channels : Listing(c, config[c]) \in Credential \cup {Gone}
  <2> TAKE c \in Channels
  <2>1. CASE config[c] = Gone
    BY <2>1 DEF Listing
  <2>2. CASE config[c] # Gone
    <3>1. config[c] \in Key
      BY <2>2
    <3> DEFINE excluded == IF c \in ConfigKeys THEN Effective(config[c]) ELSE {}
               listed == IF c \notin Listed THEN NoList ELSE IF "*" \in excluded THEN {} ELSE Models \ excluded
    <3>2. excluded \in SUBSET Entries
      BY <3>1, EffectiveType
    <3>3. Listing(c, config[c]) = [disabled |-> "*" \in excluded, excluded |-> excluded \ {"*"}, models |-> listed]
      BY <2>2 DEF Listing
    <3>4. excluded \ {"*"} \in SUBSET Models
      <4> HIDE DEF excluded
      <4> QED BY <3>2 DEF Entries
    <3>5. listed \in (SUBSET Models) \cup {NoList}
      <4>1. {} \in SUBSET Models /\ Models \ excluded \in SUBSET Models
        OBVIOUS
      <4> HIDE DEF excluded
      <4> QED BY <4>1
    <3> DEFINE disabled == "*" \in excluded
               named == excluded \ {"*"}
    <3>6. disabled \in BOOLEAN /\ named \in SUBSET Models
      BY <3>4
    <3>7. Listing(c, config[c]) = [disabled |-> disabled, excluded |-> named, models |-> listed]
      BY <3>3
    <3> HIDE DEF excluded, listed, disabled, named
    <3> QED BY <3>5, <3>6, <3>7, CredentialType
  <2> QED BY <2>1, <2>2
<1>2. [c \in Channels |-> Listing(c, config[c])] \in Listings
  BY <1>1 DEF Listings
<1>3. m.creds \in Listings
  BY DEF Manager
<1> QED BY <1>2, <1>3 DEF Lists, List

LEMMA NoticedType ==
  ASSUME NEW s \in Manager, NEW p \in Pairs, NEW e \in Exclusion
  PROVE  Noticed(s, p, e) \in Exclusion \cup {None}
BY DEF Noticed, Exclusion

LEMMA MovedType ==
  ASSUME NEW s \in Manager, NEW p \in Pairs, NEW e \in Exclusion, NEW late
  PROVE  /\ Moved(s, p, e, late) \in [e : Exclusion, want : BOOLEAN]
         /\ Moved(s, p, e, late).e.written = e.written
<1> DEFINE ended == [e EXCEPT !.trial = FALSE, !.answered = "none", !.refused = FALSE]
           begun == [e EXCEPT !.trial = TRUE, !.answered = "none", !.refused = FALSE]
           native == p[2] \in s.decisions.native
<1>1. /\ ended \in Exclusion /\ ended.written = e.written /\ begun \in Exclusion /\ begun.written = e.written
      /\ e.written \in BOOLEAN /\ native \in BOOLEAN
  <2>1. ended \in Exclusion /\ ended.written = e.written
    BY DEF Exclusion
  <2>2. begun \in Exclusion /\ begun.written = e.written
    BY DEF Exclusion
  <2>3. e.written \in BOOLEAN /\ native \in BOOLEAN
    BY DEF Exclusion
  <2> QED BY <2>1, <2>2, <2>3
<1>2. \/ Moved(s, p, e, late) = [e |-> e, want |-> e.written] \/ Moved(s, p, e, late) = [e |-> e, want |-> FALSE]
      \/ Moved(s, p, e, late) = [e |-> ended, want |-> FALSE] \/ Moved(s, p, e, late) = [e |-> ended, want |-> native]
      \/ Moved(s, p, e, late) = [e |-> begun, want |-> FALSE] \/ Moved(s, p, e, late) = [e |-> e, want |-> native]
  BY DEF Moved
<1> HIDE DEF ended, begun, native
<1>3. PICK x \in {e, ended, begun}, want \in BOOLEAN : Moved(s, p, e, late) = [e |-> x, want |-> want]
  BY <1>1, <1>2
<1>4. x \in Exclusion /\ x.written = e.written
  BY <1>1, <1>3
<1> QED BY <1>3, <1>4

LEMMA NotedType ==
  ASSUME NEW s \in Manager, NEW notes \in SUBSET Note
  PROVE  LET t == Noted(s, notes)
         IN  /\ t \in Manager /\ t.fresh = FALSE /\ t.creds = s.creds
             /\ t.settings = s.settings /\ t.started = s.started /\ t.round = s.round /\ t.catalog = s.catalog
             /\ \A p \in Pairs :
                  LET of == {n \in notes : n.edit.pair = p}
                  IN  IF s.exclusions[p] = None \/ of = {} THEN t.exclusions[p] = s.exclusions[p]
                      ELSE \E n \in of :
                        /\ n.outcome \in {"applied", "unchanged"} /\ ~n.edit.drop =>
                             t.exclusions[p] = [s.exclusions[p] EXCEPT !.written = n.edit.exclude]
                        /\ n.outcome \in {"disabled", "inherited"} => t.exclusions[p] = s.exclusions[p]
<1> DEFINE of(p) == {n \in notes : n.edit.pair = p}
           after(e, n) ==
             CASE n.outcome \in {"applied", "unchanged"} -> IF n.edit.drop THEN None ELSE [e EXCEPT !.written = n.edit.exclude]
               [] n.outcome \in {"disabled", "inherited"} -> e
               [] n.outcome = "no_key" -> None
           noted(p) == IF s.exclusions[p] = None \/ of(p) = {} THEN s.exclusions[p]
                       ELSE after(s.exclusions[p], CHOOSE n \in of(p) : TRUE)
           exclusions == [p \in Pairs |-> noted(p)]
<1>1. \A e \in Exclusion, n \in Note : after(e, n) \in Exclusion \cup {None}
  BY DEF Note, Edit, Exclusion
<1>2. \A p \in Pairs : of(p) # {} => (CHOOSE n \in of(p) : TRUE) \in of(p) /\ (CHOOSE n \in of(p) : TRUE) \in Note
  OBVIOUS
<1>3. \A p \in Pairs : s.exclusions[p] \in Exclusion \cup {None}
  BY DEF Manager
<1>4. \A p \in Pairs : noted(p) \in Exclusion \cup {None}
  <2> HIDE DEF after, of
  <2> QED BY <1>1, <1>2, <1>3
<1>5. Noted(s, notes) = [s EXCEPT !.fresh = FALSE, !.dirty = TRUE, !.exclusions = exclusions]
  <2>1. s.exclusions = [p \in Pairs |-> s.exclusions[p]]
    BY DEF Manager
  <2> QED BY <2>1 DEF Noted
<1>6. /\ exclusions \in [Pairs -> Exclusion \cup {None}]
      /\ \A p \in Pairs : exclusions[p] = noted(p)
  <2> HIDE DEF noted
  <2> QED BY <1>4
<1>7. \A p \in Pairs :
        IF s.exclusions[p] = None \/ of(p) = {} THEN noted(p) = s.exclusions[p]
        ELSE \E n \in of(p) :
               /\ n.outcome \in {"applied", "unchanged"} /\ ~n.edit.drop =>
                    noted(p) = [s.exclusions[p] EXCEPT !.written = n.edit.exclude]
               /\ n.outcome \in {"disabled", "inherited"} => noted(p) = s.exclusions[p]
  <2> HIDE DEF of
  <2> QED BY <1>2
<1> HIDE DEF exclusions, noted
<1>8. Noted(s, notes) \in Manager /\ Noted(s, notes).exclusions = exclusions
  BY <1>5, <1>6 DEF Manager
<1>9. /\ Noted(s, notes).fresh = FALSE /\ Noted(s, notes).creds = s.creds /\ Noted(s, notes).settings = s.settings
      /\ Noted(s, notes).started = s.started /\ Noted(s, notes).round = s.round /\ Noted(s, notes).catalog = s.catalog
  BY <1>5 DEF Manager
<1> QED BY <1>6, <1>7, <1>8, <1>9

\* An entry a list of CPA's credentials shows.
Shown(creds, p) == p[1] \in ConfigKeys /\ creds[p[1]] # Gone /\ p[2] \in creds[p[1]].excluded

\* Planning moves the exclusions along; a round under way goes on.
SameRound(r, s) ==
  /\ s = None <=> r = None
  /\ r # None =>
       /\ s \in Round /\ s.cancelled = r.cancelled
       /\ \A c \in Channels :
            /\ s.jobs[c] = None <=> r.jobs[c] = None
            /\ r.jobs[c] # None => s.jobs[c].state = r.jobs[c].state /\ s.jobs[c].model = r.jobs[c].model

(* An exclusion whose entry is written stays known and written while it is
   planned, unless a list that is fresh no longer shows the entry; an entry to
   add is known, and its exclusion does not end with the edit.  What is not
   wanted is given back.                                                     *)
LEMMA PlannedFacts ==
  ASSUME NEW s \in Manager, NEW late
  PROVE  LET plan == Planned(s, late)
         IN  /\ plan.s \in Manager
             /\ plan.s.settings = s.settings /\ plan.s.started = s.started /\ plan.s.creds = s.creds
             /\ plan.s.fresh = s.fresh /\ plan.s.catalog = s.catalog
             /\ SameRound(s.round, plan.s.round)
             /\ plan.edits \in SUBSET Edit
             /\ \A e, f \in plan.edits : e.pair = f.pair => e = f
             /\ \A e \in plan.edits : e.exclude => ~e.drop /\ plan.s.exclusions[e.pair] # None
             /\ \A p \in Pairs :
                  s.exclusions[p] # None /\ s.exclusions[p].written /\ (s.fresh => Shown(s.creds, p)) =>
                    /\ plan.s.exclusions[p] # None /\ plan.s.exclusions[p].written
                    /\ (~Active(s) \/ p[2] \notin s.decisions.native) /\ ~(s.creds[p[1]] # Gone /\ s.creds[p[1]].disabled) =>
                         \E e \in plan.edits : e.pair = p /\ ~e.exclude
<1> DEFINE add == IF CanAdd(s, late) THEN ToAdd(s) ELSE {}
           known(p) == IF p \in add THEN NewExclusion ELSE s.exclusions[p]
           noticed == [p \in Pairs |-> IF known(p) = None THEN None ELSE Noticed(s, p, known(p))]
           moved == [p \in Pairs |-> IF noticed[p] = None THEN None ELSE Moved(s, p, noticed[p], late)]
           ends(p) == /\ moved[p].e.kept = "no" /\ ~moved[p].e.trial
                      /\ ~Active(s) \/ p[2] \notin s.decisions.candidates \/ ~Confirmed(s.records[p[1]], p[2])
           next == [p \in Pairs |-> IF noticed[p] = None \/ (ends(p) /\ ~moved[p].e.written) THEN None ELSE moved[p].e]
           due(p) == next[p] # None /\ moved[p].want # next[p].written /\ (moved[p].want => CanAdd(s, late))
           trials == {p \in Pairs : next[p] # None /\ next[p].trial /\ ~(noticed[p].trial)}
           begun(c) == [s.round.jobs[c] EXCEPT !.early = @ \/ <<c, s.round.jobs[c].model>> \in trials]
           edits == {[pair |-> p, exclude |-> moved[p].want, drop |-> ends(p)] : p \in {q \in Pairs : due(q)}}
           jobs == [c \in Channels |-> IF s.round.jobs[c] = None THEN None ELSE begun(c)]
           round == IF s.round = None THEN None ELSE [s.round EXCEPT !.jobs = jobs]
           dirty == s.dirty \/ next # s.exclusions
           t == [s EXCEPT !.exclusions = next, !.dirty = dirty, !.round = round]
<1>1. Planned(s, late) = [s |-> t, edits |-> edits]
  BY DEF Planned
<1>2. \A p \in Pairs : known(p) \in Exclusion \cup {None}
  <2>1. NewExclusion \in Exclusion
    BY DEF NewExclusion, Exclusion
  <2>2. \A p \in Pairs : s.exclusions[p] \in Exclusion \cup {None}
    BY DEF Manager
  <2> HIDE DEF add
  <2> QED BY <2>1, <2>2
<1>3. \A p \in Pairs : noticed[p] \in Exclusion \cup {None}
  <2> HIDE DEF known
  <2> QED BY <1>2, NoticedType
<1>4. \A p \in Pairs : noticed[p] # None => /\ moved[p] = Moved(s, p, noticed[p], late)
                                              /\ moved[p] \in [e : Exclusion, want : BOOLEAN]
                                              /\ moved[p].e.written = noticed[p].written /\ moved[p].e \in Exclusion
  <2> SUFFICES ASSUME NEW p \in Pairs, noticed[p] # None
               PROVE  /\ moved[p] = Moved(s, p, noticed[p], late)
                      /\ moved[p] \in [e : Exclusion, want : BOOLEAN]
                      /\ moved[p].e.written = noticed[p].written /\ moved[p].e \in Exclusion
    BY Zenon
  <2> HIDE DEF noticed
  <2>1. moved[p] = Moved(s, p, noticed[p], late) /\ noticed[p] \in Exclusion
    BY <1>3
  <2>2. moved[p] \in [e : Exclusion, want : BOOLEAN] /\ moved[p].e.written = noticed[p].written
    BY <2>1, MovedType
  <2> QED BY <2>1, <2>2
<1>5. \A p \in Pairs : noticed[p] = None => moved[p] = None
  <2> HIDE DEF noticed
  <2> QED OBVIOUS
<1> HIDE DEF noticed, moved
<1>6. next \in [Pairs -> Exclusion \cup {None}]
  BY <1>4, <1>5, NoneAssumption
<1>7. edits \in SUBSET Edit
  <2> SUFFICES ASSUME NEW p \in Pairs, due(p) PROVE [pair |-> p, exclude |-> moved[p].want, drop |-> ends(p)] \in Edit
    OBVIOUS
  <2>1. noticed[p] # None
    BY <1>5
  <2>2. moved[p].want \in BOOLEAN
    BY <1>4, <2>1
  <2>3. ends(p) \in BOOLEAN
    OBVIOUS
  <2> HIDE DEF ends, due
  <2> QED BY <2>2, <2>3 DEF Edit
<1>8. SameRound(s.round, round)
  <2> HIDE DEF trials
  <2>1. CASE s.round = None
    BY <2>1 DEF SameRound
  <2>2. CASE s.round # None
    <3>1. s.round \in Round
      BY <2>2 DEF Manager
    <3>2. \A c \in Channels : s.round.jobs[c] # None =>
            begun(c) \in Job /\ begun(c).state = s.round.jobs[c].state /\ begun(c).model = s.round.jobs[c].model
      <4> SUFFICES ASSUME NEW c \in Channels, s.round.jobs[c] # None
                   PROVE  begun(c) \in Job /\ begun(c).state = s.round.jobs[c].state /\ begun(c).model = s.round.jobs[c].model
        BY Zenon
      <4>1. s.round.jobs[c] \in Job
        BY <3>1 DEF Round
      <4> DEFINE early == s.round.jobs[c].early \/ <<c, s.round.jobs[c].model>> \in trials
      <4>2. early \in BOOLEAN /\ begun(c) = [s.round.jobs[c] EXCEPT !.early = early]
        BY <4>1
      <4> HIDE DEF early
      <4> QED BY <4>1, <4>2 DEF Job
    <3> HIDE DEF begun
    <3>3. jobs \in [Channels -> Job \cup {None}]
      BY <3>2
    <3>4. \A c \in Channels : jobs[c] = IF s.round.jobs[c] = None THEN None ELSE begun(c)
      OBVIOUS
    <3> HIDE DEF jobs
    <3>5. round \in Round /\ round.cancelled = s.round.cancelled /\ round.jobs = jobs
      BY <2>2, <3>1, <3>3 DEF Round
    <3>6. round # None
      BY <3>5, NoneAssumption
    <3> HIDE DEF round
    <3> QED BY <2>2, <3>2, <3>4, <3>5, <3>6, NoneAssumption DEF SameRound
  <2> QED BY <2>1, <2>2
<1>9. dirty \in BOOLEAN
  BY DEF Manager
<1> HIDE DEF next, edits, round, dirty
<1>10. /\ t \in Manager /\ t.exclusions = next /\ t.round = round
       /\ t.settings = s.settings /\ t.started = s.started /\ t.creds = s.creds
       /\ t.fresh = s.fresh /\ t.catalog = s.catalog
  <2>1. round \in Round \cup {None}
    <3>1. s.round = None => round = None
      BY DEF round
    <3> QED BY <1>8, <3>1 DEF SameRound
  <2> QED BY <1>6, <1>9, <2>1 DEF Manager
<1>11. \A e, f \in edits : e.pair = f.pair => e = f
  <2> HIDE DEF due, ends
  <2> TAKE e, f \in edits
  <2>1. PICK p \in Pairs : e = [pair |-> p, exclude |-> moved[p].want, drop |-> ends(p)]
    BY DEF edits
  <2>2. PICK q \in Pairs : f = [pair |-> q, exclude |-> moved[q].want, drop |-> ends(q)]
    BY DEF edits
  <2>3. e.pair = p /\ f.pair = q
    BY <2>1, <2>2
  <2> QED BY <2>1, <2>2, <2>3
<1>12. \A e \in edits : e.exclude => ~e.drop /\ next[e.pair] # None
  <2> SUFFICES ASSUME NEW p \in Pairs, due(p), moved[p].want PROVE ~ends(p) /\ next[p] # None
    <3> HIDE DEF ends, due, next
    <3> TAKE e \in edits
    <3>1. PICK p \in Pairs : due(p) /\ e = [pair |-> p, exclude |-> moved[p].want, drop |-> ends(p)]
      BY DEF edits
    <3>2. e.pair = p /\ e.exclude = moved[p].want /\ e.drop = ends(p)
      BY <3>1
    <3> QED BY <3>1, <3>2
  <2>1. next[p] # None /\ moved[p].want # next[p].written
    OBVIOUS
  <2>2. noticed[p] # None /\ next[p] = moved[p].e /\ ~(ends(p) /\ ~moved[p].e.written)
    BY <1>5, <2>1 DEF next
  <2>3. moved[p].want \in BOOLEAN /\ next[p].written \in BOOLEAN
    BY <1>4, <2>2 DEF Exclusion
  <2> HIDE DEF ends
  <2> QED BY <2>1, <2>2, <2>3
<1>13. ASSUME NEW p \in Pairs, s.exclusions[p] # None, s.exclusions[p].written, s.fresh => Shown(s.creds, p)
       PROVE  /\ next[p] # None /\ next[p].written
              /\ (~Active(s) \/ p[2] \notin s.decisions.native) /\ ~(s.creds[p[1]] # Gone /\ s.creds[p[1]].disabled) =>
                         \E e \in edits : e.pair = p /\ ~e.exclude
  <2>1. known(p) = s.exclusions[p] /\ s.exclusions[p] \in Exclusion
    BY <1>13 DEF ToAdd, Manager
  <2>2. noticed[p] = s.exclusions[p]
    <3>1. Noticed(s, p, s.exclusions[p]) = s.exclusions[p]
      BY <1>13 DEF Noticed, Shown
    <3> HIDE DEF known
    <3> QED BY <1>13, <2>1, <3>1 DEF noticed
  <2>3. moved[p] = Moved(s, p, s.exclusions[p], late) /\ moved[p].e.written /\ moved[p].e \in Exclusion
    BY <1>4, <1>13, <2>2
  <2>4. next[p] = moved[p].e /\ next[p].written
    BY <1>13, <2>2, <2>3 DEF next
  <2>5. next[p] # None
    BY <2>3, <2>4, NoneAssumption
  <2>6. ASSUME ~Active(s) \/ p[2] \notin s.decisions.native, ~(s.creds[p[1]] # Gone /\ s.creds[p[1]].disabled)
        PROVE  \E e \in edits : e.pair = p /\ ~e.exclude
    <3>1. moved[p].want = FALSE
      <4> DEFINE e == s.exclusions[p]
                 native == p[2] \in s.decisions.native
      <4>1. e.written \in BOOLEAN
        BY <2>1 DEF Exclusion
      <4>2. ~(s.creds[p[1]] # Gone /\ s.creds[p[1]].disabled) /\ (~Active(s) \/ ~native)
        BY <2>6
      <4> DEFINE ended == [e EXCEPT !.trial = FALSE, !.answered = "none", !.refused = FALSE]
                 tried == [e EXCEPT !.trial = TRUE, !.answered = "none", !.refused = FALSE]
      <4>3. \/ Moved(s, p, e, late) = [e |-> e, want |-> FALSE]
            \/ Moved(s, p, e, late) = [e |-> ended, want |-> FALSE]
            \/ ~native /\ Moved(s, p, e, late) = [e |-> ended, want |-> native]
            \/ Moved(s, p, e, late) = [e |-> tried, want |-> FALSE]
            \/ ~native /\ Moved(s, p, e, late) = [e |-> e, want |-> native]
        <5>1. Moved(s, p, e, late) =
                IF e.kept # "no" \/ ~Active(s) THEN [e |-> e, want |-> FALSE]
                ELSE IF e.trial /\ e.answered = "search" THEN [e |-> ended, want |-> FALSE]
                ELSE IF e.trial /\ ((e.answered = "no_search" \/ e.refused) \/ "trial" \in late) THEN [e |-> ended, want |-> native]
                ELSE IF e.trial \/ ~(p[2] \in s.decisions.candidates /\ Confirmed(s.records[p[1]], p[2])) THEN [e |-> e, want |-> FALSE]
                ELSE IF e.written /\ native /\ "retry" \in late THEN [e |-> tried, want |-> FALSE]
                ELSE [e |-> e, want |-> native]
          BY <4>2 DEF Moved
        <5> HIDE DEF e, ended, tried, native
        <5> QED BY <4>2, <5>1
      <4> HIDE DEF native, ended, tried
      <4> QED BY <2>3, <4>3
    <3>2. next[p].written = TRUE
      BY <2>3, <2>4 DEF Exclusion
    <3>3. due(p)
      BY <2>5, <3>1, <3>2
    <3> HIDE DEF due, ends
    <3>4. [pair |-> p, exclude |-> moved[p].want, drop |-> ends(p)] \in edits
      BY <3>3 DEF edits
    <3> QED BY <3>1, <3>4
  <2> QED BY <2>4, <2>5, <2>6
<1> HIDE DEF t
<1>14. Planned(s, late).s = t /\ Planned(s, late).edits = edits
  BY <1>1
<1> QED BY <1>7, <1>8, <1>10, <1>11, <1>12, <1>13, <1>14

----------------------------------------------------------------------------
\* One write of config.yaml

LEMMA SetInduction ==
  ASSUME NEW S, 0 \in S, \A n \in Nat : n \in S => n + 1 \in S
  PROVE  Nat \subseteq S
<1> SUFFICES ASSUME Nat \ S # {} PROVE FALSE
  OBVIOUS
<1>1. PICK x \in Nat \ S : \A y \in Nat \ S : ~(<<y, x>> \in OpToRel(<, Nat))
  BY NatLessThanWellFounded, WFMin
<1>2. \A y \in Nat \ S : ~(y < x)
  BY <1>1 DEF OpToRel
<1>3. x # 0 /\ x - 1 \in Nat /\ x - 1 < x
  OBVIOUS
<1>4. x - 1 \in S /\ (x - 1) + 1 = x
  BY <1>2, <1>3
<1> QED BY <1>3, <1>4

\* An entry that a key's own list holds: this plugin writes no other.
HeldBy(key, x) == key # Gone /\ key.own # NoList /\ x \in key.own
Held(keys, p) == p[1] \in ConfigKeys /\ HeldBy(keys[p[1]], p[2])

LEMMA KeyNotGone == ASSUME NEW key \in Key PROVE key # Gone
BY NothingAssumption

LEMMA ExcludedKey ==
  ASSUME NEW key \in Key, NEW x \in Models
  PROVE  LET r == ModelExcluded(key, x)
         IN  /\ r.key \in Key /\ r.outcome \in {"applied", "unchanged", "disabled", "inherited"}
             /\ r.outcome = "applied" => HeldBy(r.key, x)
             /\ \A y \in Models : HeldBy(key, y) => HeldBy(r.key, y)
<1> DEFINE longer == Effective(key) \cup {x}
<1>1. longer \in SUBSET Entries
  BY EffectiveType DEF Entries
<1>2. longer # NoList /\ x \in longer /\ (key.own # NoList => \A y \in key.own : y \in longer)
  BY <1>1, NothingAssumption DEF Effective
<1> HIDE DEF longer
<1> DEFINE with == [key EXCEPT !.own = longer]
<1>3. with \in Key /\ with.own = longer
  BY <1>1 DEF Key
<1>4. with # Gone
  BY <1>3, KeyNotGone
<1>5. \/ ModelExcluded(key, x) = [key |-> key, outcome |-> "disabled"]
      \/ ModelExcluded(key, x) = [key |-> key, outcome |-> "unchanged"]
      \/ ModelExcluded(key, x) = [key |-> key, outcome |-> "inherited"]
      \/ ModelExcluded(key, x) = [key |-> with, outcome |-> "applied"]
  BY DEF ModelExcluded, longer
<1> HIDE DEF with
<1> QED BY <1>2, <1>3, <1>4, <1>5 DEF HeldBy

LEMMA RestoredKey ==
  ASSUME NEW key \in Key, NEW x \in Models
  PROVE  LET r == ModelRestored(key, x)
         IN  /\ r.key \in Key /\ r.outcome \in {"applied", "unchanged", "disabled"}
             /\ HeldBy(key, x) => r.outcome # "unchanged"
             /\ r.outcome # "applied" => r.key = key
             /\ \A y \in Models : y # x /\ HeldBy(key, y) => HeldBy(r.key, y)
<1> DEFINE shorter == IF key.own = {x} THEN NoList ELSE key.own \ {x}
           without == [key EXCEPT !.own = shorter]
<1>1. \/ ModelRestored(key, x) = [key |-> key, outcome |-> "disabled"]
      \/ ~HeldBy(key, x) /\ ModelRestored(key, x) = [key |-> key, outcome |-> "unchanged"]
      \/ key.own # NoList /\ ModelRestored(key, x) = [key |-> without, outcome |-> "applied"]
  BY DEF ModelRestored, HeldBy
<1>2. CASE key.own # NoList
  <2>1. key.own \in SUBSET Entries
    BY <1>2 DEF Key
  <2>2. key.own \ {x} \in SUBSET Entries
    BY <2>1
  <2>3. shorter \in (SUBSET Entries) \cup {NoList} /\ key.own \ {x} # NoList
    BY <2>2, NothingAssumption
  <2>4. \A y \in Models : y # x /\ y \in key.own => shorter # NoList /\ y \in shorter
    BY <2>3
  <2> HIDE DEF shorter
  <2>5. without \in Key /\ without.own = shorter
    BY <2>3 DEF Key
  <2>6. without # Gone
    BY <2>5, KeyNotGone
  <2> HIDE DEF without
  <2> QED BY <1>1, <2>4, <2>5, <2>6 DEF HeldBy
<1>3. CASE key.own = NoList
  <2> HIDE DEF without
  <2> QED BY <1>1, <1>3 DEF HeldBy
<1> QED BY <1>2, <1>3

\* What is so after the edits of done: s are those that were made.
Done == [config : [Channels -> Key \cup {Gone}], notes : SUBSET Note]
WroteSo(s, done) ==
  /\ done \in Done
  /\ \A c \in Channels : done.config[c] = Gone <=> config[c] = Gone
  /\ \A n \in done.notes : n.edit \in s
  /\ \A n, o \in done.notes : n.edit = o.edit => n = o
  /\ \A n \in done.notes :
       /\ n.edit.exclude /\ n.outcome = "applied" => Held(done.config, n.edit.pair)
       /\ n.outcome = "no_key" => n.edit.pair[1] \notin ConfigKeys \/ config[n.edit.pair[1]] = Gone
       /\ ~n.edit.exclude /\ Held(config, n.edit.pair) => n.outcome \in {"applied", "disabled"}
  /\ \A p \in Pairs : Held(config, p) =>
       \/ Held(done.config, p)
       \/ \E n \in done.notes : n.edit.pair = p /\ ~n.edit.exclude /\ n.outcome = "applied"

LEMMA AfterEditWrites ==
  ASSUME NEW s \in SUBSET Edit, NEW edit \in Edit \ s, \A e \in s : e.pair # edit.pair,
         NEW done, WroteSo(s, done), config \in [Channels -> Key \cup {Gone}]
  PROVE  WroteSo(s \cup {edit}, AfterEdit(edit, done))
<1> DEFINE p == edit.pair
           c == edit.pair[1]
           x == edit.pair[2]
           next == AfterEdit(edit, done)
<1>1. /\ p \in Pairs /\ c \in Channels /\ x \in Models /\ p = <<c, x>> /\ edit.exclude \in BOOLEAN
  BY DEF Edit, Pairs
<1>2. /\ done.config \in [Channels -> Key \cup {Gone}] /\ done.notes \in SUBSET Note
      /\ done = [config |-> done.config, notes |-> done.notes]
  BY DEF WroteSo, Done
<1>3. \A n \in done.notes : n.edit \in s /\ n.edit # edit /\ n.edit.pair # p /\ n.edit.pair \in Pairs
  BY DEF WroteSo, Edit
<1>4. CASE c \notin ConfigKeys \/ done.config[c] = Gone
  <2> DEFINE note == [edit |-> edit, outcome |-> "no_key"]
             notes == done.notes \cup {note}
  <2>1. next = [done EXCEPT !.notes = notes]
    BY <1>4 DEF AfterEdit
  <2>2. note \in Note /\ note.edit = edit /\ note.outcome = "no_key"
    BY DEF Note
  <2> HIDE DEF note, next
  <2>3. next.config = done.config /\ next.notes = notes /\ next \in Done
    BY <1>2, <2>1, <2>2 DEF Done
  <2>4. c \notin ConfigKeys \/ config[c] = Gone
    BY <1>1, <1>4 DEF WroteSo
  <2>5. ~Held(config, p)
    BY <2>4 DEF Held, HeldBy
  <2> HIDE DEF p, c, x
  <2>6. /\ \A n \in notes : n.edit \in s \cup {edit}
        /\ \A n, o \in notes : n.edit = o.edit => n = o
    BY <1>3, <2>2 DEF WroteSo
  <2>7. \A n \in notes :
          /\ n.edit.exclude /\ n.outcome = "applied" => Held(done.config, n.edit.pair)
          /\ n.outcome = "no_key" => n.edit.pair[1] \notin ConfigKeys \/ config[n.edit.pair[1]] = Gone
          /\ ~n.edit.exclude /\ Held(config, n.edit.pair) => n.outcome \in {"applied", "disabled"}
    <3>1. \A n \in done.notes :
            /\ n.edit.exclude /\ n.outcome = "applied" => Held(done.config, n.edit.pair)
            /\ n.outcome = "no_key" => n.edit.pair[1] \notin ConfigKeys \/ config[n.edit.pair[1]] = Gone
            /\ ~n.edit.exclude /\ Held(config, n.edit.pair) => n.outcome \in {"applied", "disabled"}
      BY DEF WroteSo
    <3> QED BY <2>2, <2>4, <2>5, <3>1 DEF p, c
  <2>8. \A q \in Pairs : Held(config, q) =>
           \/ Held(done.config, q)
           \/ \E n \in notes : n.edit.pair = q /\ ~n.edit.exclude /\ n.outcome = "applied"
    <3> TAKE q \in Pairs
    <3>1. Held(config, q) => \/ Held(done.config, q)
                             \/ \E n \in done.notes : n.edit.pair = q /\ ~n.edit.exclude /\ n.outcome = "applied"
      BY DEF WroteSo
    <3> QED BY <3>1
  <2>9. \A d \in Channels : done.config[d] = Gone <=> config[d] = Gone
    BY DEF WroteSo
  <2> HIDE DEF notes
  <2>10. WroteSo(s \cup {edit}, next)
    BY <2>3, <2>6, <2>7, <2>8, <2>9 DEF WroteSo
  <2> QED BY <2>10 DEF next
<1>5. CASE c \in ConfigKeys /\ done.config[c] # Gone
  <2> DEFINE key == done.config[c]
             r == IF edit.exclude THEN ModelExcluded(key, x) ELSE ModelRestored(key, x)
             note == [edit |-> edit, outcome |-> r.outcome]
             notes == done.notes \cup {note}
             keys == [done.config EXCEPT ![c] = r.key]
  <2>1. next = [config |-> keys, notes |-> notes]
    BY <1>5 DEF AfterEdit
  <2>2. key \in Key
    BY <1>1, <1>2, <1>5
  <2>3. /\ r.key \in Key /\ r.outcome \in {"applied", "unchanged", "disabled", "inherited"}
        /\ edit.exclude /\ r.outcome = "applied" => HeldBy(r.key, x)
        /\ ~edit.exclude /\ HeldBy(key, x) => r.outcome \in {"applied", "disabled"}
        /\ \A y \in Models : HeldBy(key, y) => HeldBy(r.key, y) \/ (y = x /\ ~edit.exclude /\ r.outcome = "applied")
    <3>1. CASE edit.exclude
      <4> HIDE DEF key, x
      <4> QED BY <1>1, <2>2, <3>1, ExcludedKey DEF x
    <3>2. CASE ~edit.exclude
      <4>1. r = ModelRestored(key, x)
        BY <3>2
      <4> HIDE DEF key, x, r
      <4>2. /\ r.key \in Key /\ r.outcome \in {"applied", "unchanged", "disabled"}
            /\ HeldBy(key, x) => r.outcome # "unchanged"
            /\ r.outcome # "applied" => r.key = key
            /\ \A y \in Models : y # x /\ HeldBy(key, y) => HeldBy(r.key, y)
        BY <1>1, <2>2, <4>1, RestoredKey DEF x
      <4> QED BY <3>2, <4>2
    <3> QED BY <3>1, <3>2
  <2>4. r.key # Gone
    BY <2>3, KeyNotGone
  <2> HIDE DEF r
  <2>5. note \in Note /\ note.edit = edit /\ note.outcome = r.outcome
    BY <2>3 DEF Note
  <2>6. /\ keys \in [Channels -> Key \cup {Gone}] /\ keys[c] = r.key
        /\ \A d \in Channels : d # c => keys[d] = done.config[d]
    BY <1>1, <1>2, <2>3
  <2> HIDE DEF note, keys, next
  <2>7. next.config = keys /\ next.notes = notes /\ next \in Done
    BY <1>2, <2>1, <2>5, <2>6 DEF Done
  <2>8. \A d \in Channels : keys[d] = Gone <=> config[d] = Gone
    BY <1>5, <2>4, <2>6 DEF WroteSo
  <2>9. \A q \in Pairs : Held(done.config, q) => Held(keys, q) \/ (q = p /\ ~edit.exclude /\ r.outcome = "applied")
    <3> SUFFICES ASSUME NEW q \in Pairs, Held(done.config, q)
                 PROVE  Held(keys, q) \/ (q = p /\ ~edit.exclude /\ r.outcome = "applied")
      OBVIOUS
    <3>1. q[1] \in Channels /\ q[2] \in Models /\ q = <<q[1], q[2]>>
      BY DEF Pairs
    <3>2. CASE q[1] # c
      BY <2>6, <3>1, <3>2 DEF Held
    <3>3. CASE q[1] = c
      <4>1. HeldBy(r.key, q[2]) \/ (q[2] = x /\ ~edit.exclude /\ r.outcome = "applied")
        BY <2>3, <3>1, <3>3 DEF Held
      <4> QED BY <1>1, <1>5, <2>6, <3>1, <3>3, <4>1 DEF Held
    <3> QED BY <3>2, <3>3
  <2>10. \A q \in Pairs : Held(config, q) =>
           \/ Held(keys, q)
           \/ \E n \in notes : n.edit.pair = q /\ ~n.edit.exclude /\ n.outcome = "applied"
    <3> TAKE q \in Pairs
    <3>1. Held(config, q) => \/ Held(done.config, q)
                             \/ \E n \in done.notes : n.edit.pair = q /\ ~n.edit.exclude /\ n.outcome = "applied"
      BY DEF WroteSo
    <3> QED BY <2>5, <2>9, <3>1
  <2>11. /\ \A n \in notes : n.edit \in s \cup {edit}
         /\ \A n, o \in notes : n.edit = o.edit => n = o
    BY <1>3, <2>5 DEF WroteSo
  <2>12. Held(config, p) => HeldBy(key, x)
    <3>1. Held(config, p) => Held(done.config, p)
      BY <1>1, <1>3 DEF WroteSo
    <3> QED BY <3>1 DEF Held
  <2>13. edit.exclude /\ r.outcome = "applied" => Held(keys, p)
    BY <1>5, <2>3, <2>6 DEF Held
  <2>14. \A n \in done.notes :
          /\ n.edit.exclude /\ n.outcome = "applied" => Held(keys, n.edit.pair)
          /\ n.outcome = "no_key" => n.edit.pair[1] \notin ConfigKeys \/ config[n.edit.pair[1]] = Gone
          /\ ~n.edit.exclude /\ Held(config, n.edit.pair) => n.outcome \in {"applied", "disabled"}
    <3>1. \A n \in done.notes :
            /\ n.edit.exclude /\ n.outcome = "applied" => Held(done.config, n.edit.pair)
            /\ n.outcome = "no_key" => n.edit.pair[1] \notin ConfigKeys \/ config[n.edit.pair[1]] = Gone
            /\ ~n.edit.exclude /\ Held(config, n.edit.pair) => n.outcome \in {"applied", "disabled"}
      BY DEF WroteSo
    <3> HIDE DEF p
    <3> QED BY <1>3, <2>9, <3>1
  <2>15. /\ note.edit.exclude /\ note.outcome = "applied" => Held(keys, note.edit.pair)
         /\ note.outcome # "no_key"
         /\ ~note.edit.exclude /\ Held(config, note.edit.pair) => note.outcome \in {"applied", "disabled"}
    BY <2>3, <2>5, <2>12, <2>13
  <2>16. \A n \in notes :
          /\ n.edit.exclude /\ n.outcome = "applied" => Held(keys, n.edit.pair)
          /\ n.outcome = "no_key" => n.edit.pair[1] \notin ConfigKeys \/ config[n.edit.pair[1]] = Gone
          /\ ~n.edit.exclude /\ Held(config, n.edit.pair) => n.outcome \in {"applied", "disabled"}
    BY <2>14, <2>15
  <2> HIDE DEF notes, p, c, x, key
  <2>17. WroteSo(s \cup {edit}, next)
    BY <2>7, <2>8, <2>10, <2>11, <2>16 DEF WroteSo
  <2> QED BY <2>17 DEF next
<1> QED BY <1>4, <1>5

LEMMA EditsAreFinite ==
  ASSUME NEW edits \in SUBSET Edit, \A e, f \in edits : e.pair = f.pair => e = f
  PROVE  IsFiniteSet(edits)
<1>1. IsFiniteSet(Pairs)
  BY EvidenceAssumption, FS_Product DEF Pairs
<1> DEFINE pair == [e \in edits |-> e.pair]
<1>2. pair \in Injection(edits, Pairs)
  BY DEF Injection, IsInjective, Edit
<1> QED BY <1>1, <1>2, FS_Injection

\* A fold over the edits made so far.
Untouched == [config |-> config, notes |-> {}]
Choice(s) == CHOOSE e \in s : TRUE
AfterAll(done, s) == IF s = {} THEN Untouched ELSE AfterEdit(Choice(s), done[s \ {Choice(s)}])

LEMMA EditedFolds ==
  ASSUME NEW edits, IsFiniteSet(edits)
  PROVE  \E done : done = [s \in SUBSET edits |-> AfterAll(done, s)] /\ Edited(edits) = done[edits]
<1> DEFINE Small(n) == {s \in SUBSET edits : Cardinality(s) <= n}
           Folds == {n \in Nat : \E done : done = [s \in Small(n) |-> AfterAll(done, s)]}
<1>1. \A s \in SUBSET edits : IsFiniteSet(s) /\ Cardinality(s) \in Nat
  BY FS_Subset, FS_CardinalityType
<1>2. \A s \in SUBSET edits : Cardinality(s) = 0 <=> s = {}
  BY <1>1, FS_EmptySet
<1>3. 0 \in Folds
  <2> DEFINE done == [s \in Small(0) |-> Untouched]
  <2>1. \A s \in Small(0) : s = {}
    BY <1>1, <1>2
  <2>2. done = [s \in Small(0) |-> AfterAll(done, s)]
    BY <2>1 DEF AfterAll
  <2> HIDE DEF done
  <2> QED BY <2>2
<1>4. ASSUME NEW n \in Nat, n \in Folds PROVE n + 1 \in Folds
  <2>1. PICK before : before = [s \in Small(n) |-> AfterAll(before, s)]
    BY <1>4
  <2> DEFINE done == [s \in Small(n + 1) |-> AfterAll(before, s)]
  <2>2. \A s \in Small(n) : s \in Small(n + 1) /\ done[s] = before[s]
    <3> SUFFICES ASSUME NEW s \in Small(n) PROVE s \in Small(n + 1) /\ done[s] = before[s]
      OBVIOUS
    <3>1. s \in Small(n + 1)
      BY <1>1
    <3> HIDE DEF Small
    <3> QED BY <2>1, <3>1
  <2>3. \A s \in Small(n + 1) : s # {} => s \ {Choice(s)} \in Small(n)
    <3> SUFFICES ASSUME NEW s \in Small(n + 1), s # {} PROVE s \ {Choice(s)} \in Small(n)
      OBVIOUS
    <3>1. Choice(s) \in s
      BY DEF Choice
    <3>2. Cardinality(s \ {Choice(s)}) = Cardinality(s) - 1
      BY <1>1, <3>1, FS_RemoveElement
    <3> QED BY <1>1, <3>2
  <2>4. \A s \in Small(n + 1) : AfterAll(before, s) = AfterAll(done, s)
    <3> HIDE DEF Small, done
    <3> QED BY <2>2, <2>3 DEF AfterAll
  <2>5. done = [s \in Small(n + 1) |-> AfterAll(done, s)]
    <3> HIDE DEF Small
    <3>1. done = [s \in Small(n + 1) |-> AfterAll(before, s)]
      OBVIOUS
    <3> HIDE DEF done
    <3> QED BY <2>4, <3>1
  <2> HIDE DEF done, Small
  <2> QED BY <2>5
<1> HIDE DEF Folds
<1>5. Nat \subseteq Folds
  BY <1>3, <1>4, SetInduction
<1>6. Small(Cardinality(edits)) = SUBSET edits
  BY <1>1, FS_Subset
<1>7. \E done : done = [s \in SUBSET edits |-> AfterAll(done, s)]
  <2>1. Cardinality(edits) \in Folds
    BY <1>1, <1>5
  <2> HIDE DEF Small
  <2> QED BY <1>6, <2>1 DEF Folds
<1>8. Edited(edits) = (CHOOSE done : done = [s \in SUBSET edits |-> AfterAll(done, s)])[edits]
  BY DEF Edited, FoldSet, MapThenFoldSet, AfterAll, Untouched, Choice
<1> QED BY <1>7, <1>8

LEMMA EditedWrites ==
  ASSUME NEW edits \in SUBSET Edit, \A e, f \in edits : e.pair = f.pair => e = f,
         config \in [Channels -> Key \cup {Gone}]
  PROVE  WroteSo(edits, Edited(edits))
<1>1. IsFiniteSet(edits)
  BY EditsAreFinite
<1>2. PICK done : done = [s \in SUBSET edits |-> AfterAll(done, s)] /\ Edited(edits) = done[edits]
  BY <1>1, EditedFolds
<1> DEFINE So == {n \in Nat : \A s \in SUBSET edits : Cardinality(s) = n => WroteSo(s, done[s])}
<1>3. \A s \in SUBSET edits : IsFiniteSet(s) /\ Cardinality(s) \in Nat /\ (Cardinality(s) = 0 <=> s = {})
  BY <1>1, FS_Subset, FS_CardinalityType, FS_EmptySet
<1>4. 0 \in So
  <2>1. WroteSo({}, Untouched)
    BY DEF WroteSo, Untouched, Done
  <2>2. done[{}] = Untouched
    BY <1>2 DEF AfterAll
  <2> QED BY <1>3, <2>1, <2>2
<1>5. ASSUME NEW n \in Nat, n \in So PROVE n + 1 \in So
  <2> SUFFICES ASSUME NEW s \in SUBSET edits, Cardinality(s) = n + 1 PROVE WroteSo(s, done[s])
    OBVIOUS
  <2> DEFINE edit == Choice(s)
             rest == s \ {edit}
  <2>1. s # {}
    BY <1>3
  <2>2. edit \in s
    BY <2>1 DEF Choice
  <2>3. rest \in SUBSET edits /\ Cardinality(rest) = n
    <3>1. IsFiniteSet(s)
      BY <1>3
    <3> HIDE DEF edit
    <3>2. Cardinality(rest) = Cardinality(s) - 1
      BY <2>2, <3>1, FS_RemoveElement
    <3> QED BY <3>2
  <2>4. WroteSo(rest, done[rest])
    BY <1>5, <2>3
  <2>5. done[s] = AfterEdit(edit, done[rest])
    BY <1>2, <2>1 DEF AfterAll
  <2>6. rest \in SUBSET Edit /\ edit \in Edit \ rest /\ (\A e \in rest : e.pair # edit.pair) /\ s = rest \cup {edit}
    BY <2>2
  <2> HIDE DEF edit, rest
  <2> QED BY <2>4, <2>5, <2>6, AfterEditWrites
<1> HIDE DEF So
<1>6. Nat \subseteq So
  BY <1>4, <1>5, SetInduction
<1> QED BY <1>2, <1>3, <1>6 DEF So

----------------------------------------------------------------------------
\* A round

\* A job that asks has a model to ask for.
JobsOK(s) ==
  s.round # None => \A c \in Channels : s.round.jobs[c] # None /\ s.round.jobs[c].state = "asking" => s.round.jobs[c].model \in Models

Goes(s) == s.round # None /\ ~s.round.cancelled
Quiet(s) == Goes(s) => s.started /\ s.settings.enabled

\* The same entries are known, and taken for written.
Knows(s, t) ==
  /\ t.creds = s.creds /\ t.fresh = s.fresh
  /\ \A p \in Pairs :
       /\ t.exclusions[p] = None <=> s.exclusions[p] = None
       /\ s.exclusions[p] # None => t.exclusions[p].written = s.exclusions[p].written

\* A step that gathers evidence.
Works(s, t) ==
  /\ t \in Manager /\ JobsOK(t) /\ Knows(s, t)
  /\ t.settings = s.settings /\ t.started = s.started /\ t.catalog = s.catalog
  /\ Goes(t) => Goes(s)

LEMMA CarriesWorks ==
  ASSUME NEW s \in Manager, JobsOK(s), NEW t \in Manager, Carries(s, t)
  PROVE  Works(s, t)
BY DEF Carries, Works, Knows, JobsOK, Goes

LEMMA WorksOn ==
  ASSUME NEW s, NEW t, NEW u, Works(s, t), Works(t, u)
  PROVE  Works(s, u)
<1>1. Knows(s, t) /\ Knows(t, u)
  BY DEF Works
<1>2. \A p \in Pairs : /\ u.exclusions[p] = None <=> s.exclusions[p] = None
                       /\ s.exclusions[p] # None => u.exclusions[p].written = s.exclusions[p].written
  <2> TAKE p \in Pairs
  <2>1. /\ t.exclusions[p] = None <=> s.exclusions[p] = None
        /\ s.exclusions[p] # None => t.exclusions[p].written = s.exclusions[p].written
    BY <1>1 DEF Knows
  <2>2. /\ u.exclusions[p] = None <=> t.exclusions[p] = None
        /\ t.exclusions[p] # None => u.exclusions[p].written = t.exclusions[p].written
    BY <1>1 DEF Knows
  <2> QED BY <2>1, <2>2
<1>3. Knows(s, u)
  BY <1>1, <1>2 DEF Knows
<1> QED BY <1>3 DEF Works

LEMMA SetJobType ==
  ASSUME NEW s \in Manager, s.round # None, JobsOK(s), NEW c \in Channels, NEW job \in Job,
         job.state = "asking" => job.model \in Models
  PROVE  Works(s, SetJob(s, c, job))
<1> DEFINE jobs == [s.round.jobs EXCEPT ![c] = job]
           round == [s.round EXCEPT !.jobs = jobs]
<1>1. s.round \in Round
  BY DEF Manager
<1>2. /\ jobs \in [Channels -> Job \cup {None}]
      /\ \A d \in Channels : jobs[d] = IF d = c THEN job ELSE s.round.jobs[d]
  BY <1>1 DEF Round
<1> HIDE DEF jobs
<1>3. round \in Round /\ round.jobs = jobs /\ round.cancelled = s.round.cancelled
  BY <1>1, <1>2 DEF Round
<1>4. SetJob(s, c, job) = [s EXCEPT !.round = round]
  BY <1>1 DEF SetJob, Manager, jobs
<1> HIDE DEF round
<1> DEFINE t == [s EXCEPT !.round = round]
<1>5. /\ t \in Manager /\ t.round = round /\ t.creds = s.creds /\ t.fresh = s.fresh /\ t.exclusions = s.exclusions
      /\ t.settings = s.settings /\ t.started = s.started /\ t.catalog = s.catalog
  BY <1>3 DEF Manager
<1> HIDE DEF t
<1>6. JobsOK(t)
  BY <1>2, <1>3, <1>5 DEF JobsOK
<1>7. Goes(t) => Goes(s)
  BY <1>3, <1>5 DEF Goes
<1> QED BY <1>4, <1>5, <1>6, <1>7 DEF Works, Knows, t

LEMMA AskingType ==
  ASSUME m \in Manager, m.round # None, NEW c \in Channels, NEW job \in Job, NEW next \in Asking(c, job)
  PROVE  next \in Job /\ (next.state = "asking" => next.model \in Models)
<1>1. job.todo \in SUBSET Models
  BY DEF Job
<1>2. CASE next = [job EXCEPT !.state = "done"]
  BY <1>2 DEF Job
<1>3. CASE \E x \in job.todo : next = [job EXCEPT !.state = "asking", !.model = x, !.todo = @ \ {x}]
  <2>1. PICK x \in job.todo : next = [job EXCEPT !.state = "asking", !.model = x, !.todo = @ \ {x}]
    BY <1>3
  <2>2. x \in Models /\ job.todo \ {x} \in SUBSET Models
    BY <1>1
  <2> QED BY <2>1, <2>2 DEF Job
<1>4. next = [job EXCEPT !.state = "done"] \/ \E x \in job.todo : next = [job EXCEPT !.state = "asking", !.model = x, !.todo = @ \ {x}]
  BY DEF Asking
<1> QED BY <1>2, <1>3, <1>4

LEMMA JobStartsWorks ==
  ASSUME m \in Manager, JobsOK(m), NEW c \in Channels, JobStarts(c)
  PROVE  Works(m, m')
<1>1. m.round # None /\ m.round \in Round /\ m.round.jobs[c] # None
  BY DEF JobStarts, Manager
<1>2. m.round.jobs[c] \in Job
  BY <1>1 DEF Round
<1>3. PICK job \in Asking(c, m.round.jobs[c]) : m' = SetJob(m, c, job)
  BY DEF JobStarts
<1>4. job \in Job /\ (job.state = "asking" => job.model \in Models)
  BY <1>1, <1>2, AskingType
<1> QED BY <1>1, <1>3, <1>4, SetJobType

LEMMA RecordedWorks ==
  ASSUME m \in Manager, JobsOK(m), m.round # None, NEW c \in Channels, m.round.jobs[c] # None,
         m.round.jobs[c].state = "asking", NEW result \in Results, NEW stale
  PROVE  Works(m, Recorded(c, m.round.jobs[c], result, stale))
<1> DEFINE job == m.round.jobs[c]
           p == <<c, job.model>>
           e == m.exclusions[p]
           rec == Observed(m.records[c], job.model, result, job.refusedSince)
           answered == IF e.trial /\ ~job.early THEN result ELSE "none"
           refused == e.refused /\ job.model \in rec.refused
           tried == IF e = None THEN None ELSE [e EXCEPT !.answered = answered, !.refused = refused]
           done == [job EXCEPT !.state = "done"]
           s == SetJob(m, c, done)
           records == [m.records EXCEPT ![c] = rec]
           exclusions == [m.exclusions EXCEPT ![p] = tried]
           t == [s EXCEPT !.records = records, !.exclusions = exclusions, !.dirty = TRUE]
<1>1. job \in Job /\ job.model \in Models
  BY DEF Manager, Round, JobsOK
<1>2. done \in Job /\ done.state = "done"
  BY <1>1 DEF Job
<1>3. p \in Pairs /\ p[1] = c /\ e \in Exclusion \cup {None} /\ job.refusedSince \in BOOLEAN /\ m.records[c] \in Record
  BY <1>1 DEF Manager, Pairs, Job
<1>4. rec \in Record
  <2> HIDE DEF job
  <2> QED BY <1>1, <1>3, ObservedType
<1>5. Works(m, s)
  <2> HIDE DEF job, done
  <2> QED BY <1>2, SetJobType
<1>6. tried \in Exclusion \cup {None} /\ (tried = None <=> e = None) /\ (e # None => tried.written = e.written)
  <2>1. CASE e = None
    BY <2>1
  <2>2. CASE e # None
    <3>1. e \in Exclusion /\ answered \in Results \cup {"none"} /\ refused \in BOOLEAN
      BY <1>3, <2>2 DEF Exclusion
    <3> HIDE DEF e, answered, refused
    <3>2. tried \in Exclusion /\ tried.written = e.written
      BY <2>2, <3>1 DEF Exclusion
    <3> QED BY <2>2, <3>2, NoneAssumption
  <2> QED BY <2>1, <2>2
<1> HIDE DEF job, p, rec, tried, s, e
<1>7. s \in Manager /\ s.records = m.records /\ s.exclusions = m.exclusions
  <2>1. m.round \in Round
    BY DEF Manager
  <2>2. s = [m EXCEPT !.round.jobs[c] = done]
    BY DEF s, SetJob
  <2> QED BY <1>5, <2>2 DEF Works, Manager
<1>8. /\ records \in [Channels -> Record] /\ exclusions \in [Pairs -> Exclusion \cup {None}]
      /\ \A q \in Pairs : exclusions[q] = IF q = p THEN tried ELSE m.exclusions[q]
  <2>1. m.records \in [Channels -> Record] /\ m.exclusions \in [Pairs -> Exclusion \cup {None}]
    BY DEF Manager
  <2> QED BY <1>3, <1>4, <1>6, <2>1
<1>9. Recorded(c, m.round.jobs[c], result, stale) = Rebuilt(t, stale)
  <2>1. [s EXCEPT !.records[c] = rec, !.exclusions[p] = tried, !.dirty = TRUE] = t
    BY <1>7 DEF Manager
  <2>2. Recorded(c, m.round.jobs[c], result, stale) = Rebuilt([s EXCEPT !.records[c] = rec, !.exclusions[p] = tried, !.dirty = TRUE], stale)
    BY DEF Recorded, job, p, rec, tried, s, e
  <2> QED BY <2>1, <2>2
<1> HIDE DEF records, exclusions
<1>10. /\ t \in Manager /\ t.exclusions = exclusions /\ t.creds = s.creds /\ t.fresh = s.fresh
       /\ t.settings = s.settings /\ t.started = s.started /\ t.round = s.round /\ t.catalog = s.catalog
  BY <1>7, <1>8 DEF Manager
<1> HIDE DEF t
<1>11. \A q \in Pairs : /\ t.exclusions[q] = None <=> s.exclusions[q] = None
                        /\ s.exclusions[q] # None => t.exclusions[q].written = s.exclusions[q].written
  BY <1>6, <1>7, <1>8, <1>10 DEF e
<1>12. Works(s, t)
  BY <1>5, <1>10, <1>11 DEF Works, Knows, JobsOK, Goes
<1>13. Works(t, Rebuilt(t, stale))
  BY <1>10, <1>12, RebuiltType, CarriesWorks DEF Works
<1> QED BY <1>5, <1>9, <1>12, <1>13, WorksOn

LEMMA JobsWork ==
  ASSUME m \in Manager, JobsOK(m), NEW c \in Channels, Jobs(c)
  PROVE  Works(m, m') /\ UNCHANGED <<file, config, owns, tick, call, editing, past, left>>
<1>1. CASE JobStarts(c)
  BY <1>1, JobStartsWorks DEF JobStarts
<1>2. CASE JobAnswers(c)
  <2>1. m.round # None /\ m.round.jobs[c] # None /\ m.round.jobs[c].state = "asking"
    BY <1>2 DEF JobAnswers
  <2>2. PICK result \in Answers[c] : \E stale \in Some("age") : m' = Recorded(c, m.round.jobs[c], result, stale)
    BY <1>2 DEF JobAnswers
  <2>3. result \in Results
    BY NativeAssumption
  <2> QED BY <1>2, <2>1, <2>2, <2>3, RecordedWorks DEF JobAnswers
<1>3. CASE JobHasNoRoute(c)
  <2> DEFINE job == m.round.jobs[c]
  <2>1. m.round # None /\ job # None /\ job.state = "asking" /\ m.round \in Round /\ job \in Job /\ job.model \in Models
    BY <1>3 DEF JobHasNoRoute, Manager, Round, JobsOK
  <2>5. UNCHANGED <<file, config, owns, tick, call, editing, past, left>>
    BY <1>3 DEF JobHasNoRoute
  <2>2. CASE m' = SetJob(m, c, [job EXCEPT !.state = "done"])
    <3>1. [job EXCEPT !.state = "done"] \in Job /\ [job EXCEPT !.state = "done"].state = "done"
      BY <2>1 DEF Job
    <3> HIDE DEF job
    <3>2. Works(m, SetJob(m, c, [job EXCEPT !.state = "done"]))
      BY <2>1, <3>1, SetJobType
    <3> QED BY <2>2, <2>5, <3>2
  <2>3. CASE \E stale : m' = Recorded(c, job, "error", stale)
    <3>1. "error" \in Results
      BY DEF Results
    <3>2. PICK stale : m' = Recorded(c, job, "error", stale)
      BY <2>3
    <3> QED BY <2>1, <2>5, <3>1, <3>2, RecordedWorks
  <2>4. CASE \E next \in Asking(c, job) :
               m' = [SetJob(m, c, next) EXCEPT !.records[c].notServing = @ \cup {job.model}, !.dirty = TRUE]
    <3>1. PICK next \in Asking(c, job) :
               m' = [SetJob(m, c, next) EXCEPT !.records[c].notServing = @ \cup {job.model}, !.dirty = TRUE]
      BY <2>4
    <3>2. next \in Job /\ (next.state = "asking" => next.model \in Models)
      BY <2>1, AskingType
    <3> DEFINE s == SetJob(m, c, next)
               rec == [s.records[c] EXCEPT !.notServing = @ \cup {job.model}]
               records == [s.records EXCEPT ![c] = rec]
               t == [s EXCEPT !.records = records, !.dirty = TRUE]
    <3>3. Works(m, s)
      BY <2>1, <3>2, SetJobType
    <3>4. s \in Manager
      BY <3>3 DEF Works
    <3> HIDE DEF s, job
    <3>5. rec \in Record
      <4>1. s.records[c] \in Record
        BY <3>4 DEF Manager
      <4>2. s.records[c].notServing \cup {job.model} \in SUBSET Models
        BY <2>1, <4>1 DEF Record
      <4> QED BY <4>1, <4>2 DEF Record
    <3>6. m' = t
      BY <3>1, <3>4 DEF s, Manager
    <3> HIDE DEF rec
    <3>7. records \in [Channels -> Record]
      BY <3>4, <3>5 DEF Manager
    <3> HIDE DEF records
    <3>8. t \in Manager /\ Carries(s, t)
      BY <3>4, <3>7 DEF Manager, Carries
    <3> HIDE DEF t
    <3>9. Works(s, t)
      BY <3>3, <3>4, <3>8, CarriesWorks DEF Works
    <3> QED BY <2>5, <3>3, <3>6, <3>9, WorksOn
  <2>6. \/ m' = SetJob(m, c, [job EXCEPT !.state = "done"])
        \/ \E stale : m' = Recorded(c, job, "error", stale)
        \/ \E next \in Asking(c, job) :
               m' = [SetJob(m, c, next) EXCEPT !.records[c].notServing = @ \cup {job.model}, !.dirty = TRUE]
    BY <1>3 DEF JobHasNoRoute
  <2> HIDE DEF job
  <2> QED BY <2>2, <2>3, <2>4, <2>6
<1>4. CASE JobIsCut(c)
  <2> DEFINE job == m.round.jobs[c]
  <2>1. m.round # None /\ m.round \in Round /\ job \in Job /\ m' = SetJob(m, c, [job EXCEPT !.state = "done"])
    BY <1>4 DEF JobIsCut, Manager, Round
  <2>2. [job EXCEPT !.state = "done"] \in Job /\ [job EXCEPT !.state = "done"].state = "done"
    BY <2>1 DEF Job
  <2> QED BY <1>4, <2>1, <2>2, SetJobType DEF JobIsCut
<1> QED BY <1>1, <1>2, <1>3, <1>4 DEF Jobs

LEMMA RoundEndsWorks ==
  ASSUME m \in Manager, JobsOK(m), file \in Stored, RoundEnds
  PROVE  Works(m, m') /\ file' \in Stored /\ (~owns => file' = file)
<1> DEFINE s == [m EXCEPT !.round = None]
<1>0. PICK stale \in Some("age") : Flush(Rebuilt(s, stale), {})
  BY DEF RoundEnds
<1>1. PICK r \in Flushed(Rebuilt(s, stale)) : m' = r.s /\ file' = r.file
  BY <1>0 DEF Flush
<1>2. s \in Manager /\ Works(m, s)
  BY DEF Manager, Works, Knows, JobsOK, Goes
<1> HIDE DEF s
<1>3. Rebuilt(s, stale) \in Manager /\ Works(s, Rebuilt(s, stale))
  BY <1>2, RebuiltType, CarriesWorks DEF Works
<1>4. /\ r.s \in Manager /\ r.file \in Stored /\ Carries(Rebuilt(s, stale), r.s) /\ (~owns => r.file = file)
  BY <1>3, FlushedType
<1>5. Works(Rebuilt(s, stale), r.s)
  BY <1>3, <1>4, CarriesWorks DEF Works
<1> QED BY <1>1, <1>2, <1>3, <1>4, <1>5, WorksOn

LEMMA ObserveFailureWorks ==
  ASSUME m \in Manager, JobsOK(m), NEW c \in Channels, NEW x \in Models, ObserveFailure(c, x)
  PROVE  Works(m, m')
<1> DEFINE p == <<c, x>>
           e == m.exclusions[p]
           tried == IF e = None THEN None ELSE [e EXCEPT !.refused = e.trial]
           rec == [m.records[c] EXCEPT !.refused = @ \cup {x}]
           records == [m.records EXCEPT ![c] = rec]
           exclusions == [m.exclusions EXCEPT ![p] = tried]
           t == [m EXCEPT !.records = records, !.dirty = TRUE, !.exclusions = exclusions]
           job == [m.round.jobs[c] EXCEPT !.refusedSince = TRUE]
           probing == m.round # None /\ m.round.jobs[c] # None /\ m.round.jobs[c].model = x
<1>1. rec \in Record
  <2>1. m.records[c] \in Record
    BY DEF Manager
  <2>2. m.records[c].refused \cup {x} \in SUBSET Models
    BY <2>1 DEF Record
  <2> QED BY <2>1, <2>2 DEF Record
<1>2. p \in Pairs /\ e \in Exclusion \cup {None}
  BY DEF Manager, Pairs
<1>3. tried \in Exclusion \cup {None} /\ (tried = None <=> e = None) /\ (e # None => tried.written = e.written)
  <2>1. CASE e = None
    BY <2>1
  <2>2. CASE e # None
    <3>1. e \in Exclusion
      BY <1>2, <2>2
    <3> HIDE DEF e
    <3>2. tried \in Exclusion /\ tried.written = e.written
      BY <2>2, <3>1 DEF Exclusion
    <3> QED BY <2>2, <3>2, NoneAssumption
  <2> QED BY <2>1, <2>2
<1> HIDE DEF rec, tried, e
<1>4. /\ records \in [Channels -> Record] /\ exclusions \in [Pairs -> Exclusion \cup {None}]
      /\ \A q \in Pairs : exclusions[q] = IF q = p THEN tried ELSE m.exclusions[q]
  <2>1. m.records \in [Channels -> Record] /\ m.exclusions \in [Pairs -> Exclusion \cup {None}]
    BY DEF Manager
  <2> HIDE DEF p
  <2> QED BY <1>1, <1>2, <1>3, <2>1
<1>5. \/ \E stale : m' = Rebuilt(IF probing THEN SetJob(t, c, job) ELSE t, stale)
      \/ m' = [m EXCEPT !.dirty = TRUE]
  <2>1. [m EXCEPT !.records[c].refused = @ \cup {x}, !.dirty = TRUE,
                  !.exclusions[<<c, x>>] = IF e = None THEN None ELSE [e EXCEPT !.refused = e.trial]] = t
    BY DEF Manager, tried, rec
  <2> HIDE DEF t, job, probing
  <2> QED BY <2>1 DEF ObserveFailure, e, job, probing
<1> HIDE DEF records, exclusions, p
<1>6. /\ t \in Manager /\ t.exclusions = exclusions /\ t.creds = m.creds /\ t.fresh = m.fresh
      /\ t.settings = m.settings /\ t.started = m.started /\ t.round = m.round /\ t.catalog = m.catalog
  BY <1>4 DEF Manager
<1> HIDE DEF t
<1>7. Works(m, t)
  <2>1. Knows(m, t)
    BY <1>3, <1>4, <1>6 DEF Knows, e
  <2> QED BY <1>6, <2>1 DEF Works, JobsOK, Goes
<1>8. ASSUME probing PROVE Works(t, SetJob(t, c, job))
  <2>1. m.round \in Round /\ m.round.jobs[c] \in Job
    BY <1>8 DEF Manager, Round
  <2>2. job \in Job /\ job.model = x
    BY <1>8, <2>1 DEF Job
  <2> HIDE DEF job
  <2> QED BY <1>6, <1>7, <1>8, <2>2, SetJobType DEF Works
<1> DEFINE u == IF probing THEN SetJob(t, c, job) ELSE t
<1>9. Works(m, u)
  <2> HIDE DEF probing, job
  <2> QED BY <1>7, <1>8, WorksOn
<1>10. ASSUME NEW stale PROVE Works(m, Rebuilt(u, stale))
  <2> HIDE DEF u
  <2>1. u \in Manager /\ JobsOK(u)
    BY <1>9 DEF Works
  <2>2. Works(u, Rebuilt(u, stale))
    BY <2>1, RebuiltType, CarriesWorks
  <2> QED BY <1>9, <2>2, WorksOn
<1>11. CASE m' = [m EXCEPT !.dirty = TRUE]
  <2>1. m' \in Manager /\ Carries(m, m')
    BY <1>11 DEF Manager, Carries
  <2> QED BY <2>1, CarriesWorks
<1> HIDE DEF u, probing, job
<1> QED BY <1>5, <1>10, <1>11 DEF u

----------------------------------------------------------------------------
\* Types, and what a stopped round may do

Sound(s) == s \in Manager /\ JobsOK(s) /\ Quiet(s)

LEMMA WorksSound == ASSUME NEW s, Sound(s), NEW t, Works(s, t) PROVE Sound(t)
BY DEF Sound, Works, Quiet

LEMMA CarriesSound == ASSUME NEW s, Sound(s), NEW t \in Manager, Carries(s, t) PROVE Sound(t)
BY DEF Sound, Carries, Quiet, JobsOK, Goes

LEMMA RebuiltSound == ASSUME NEW s, Sound(s), NEW stale PROVE Sound(Rebuilt(s, stale))
BY RebuiltType, CarriesSound DEF Sound

LEMMA AppliedSound == ASSUME NEW s, Sound(s), NEW list \in List PROVE Sound(Applied(s, list))
<1> DEFINE t == Applied(s, list)
<1>1. t \in Manager /\ t.settings = s.settings /\ t.started = s.started /\ t.round = s.round
  BY AppliedType DEF Sound
<1> HIDE DEF t
<1>2. Sound(t)
  BY <1>1 DEF Sound, Quiet, JobsOK, Goes
<1> QED BY <1>2 DEF t

LEMMA PlannedSound == ASSUME NEW s, Sound(s), NEW late PROVE Sound(Planned(s, late).s)
<1> DEFINE t == Planned(s, late).s
<1>1. t \in Manager /\ t.settings = s.settings /\ t.started = s.started /\ SameRound(s.round, t.round)
  BY PlannedFacts DEF Sound
<1> HIDE DEF t
<1>2. Sound(t)
  BY <1>1 DEF Sound, Quiet, JobsOK, Goes, SameRound
<1> QED BY <1>2 DEF t

LEMMA NotedSound == ASSUME NEW s, Sound(s), NEW notes \in SUBSET Note PROVE Sound(Noted(s, notes))
<1> DEFINE t == Noted(s, notes)
<1>1. t \in Manager /\ t.settings = s.settings /\ t.started = s.started /\ t.round = s.round
  BY NotedType DEF Sound
<1> HIDE DEF t
<1>2. Sound(t)
  BY <1>1 DEF Sound, Quiet, JobsOK, Goes
<1> QED BY <1>2 DEF t

\* A stopped round needs nothing to be on.
LEMMA StoppedSound ==
  ASSUME NEW s \in Manager, JobsOK(s)
  PROVE  /\ Sound(Stopped(s)) /\ Stopped(s).exclusions = s.exclusions /\ Stopped(s).creds = s.creds
         /\ Stopped(s).fresh = s.fresh /\ Stopped(s).settings = s.settings
<1> DEFINE round == IF s.round = None THEN None ELSE [s.round EXCEPT !.cancelled = TRUE]
           t == [s EXCEPT !.round = round]
<1>1. Stopped(s) = t
  BY DEF Stopped, Manager
<1>2. s.round \in Round \cup {None}
  BY DEF Manager
<1>3. /\ round \in Round \cup {None} /\ (round = None <=> s.round = None)
      /\ round # None => round.cancelled /\ round.jobs = s.round.jobs
  BY <1>2, NoneAssumption DEF Round
<1> HIDE DEF round
<1>4. /\ t \in Manager /\ t.round = round /\ t.exclusions = s.exclusions /\ t.creds = s.creds /\ t.fresh = s.fresh
      /\ t.settings = s.settings
  BY <1>3 DEF Manager
<1> HIDE DEF t
<1>5. Sound(t)
  BY <1>3, <1>4 DEF Sound, Quiet, JobsOK, Goes
<1> QED BY <1>1, <1>4, <1>5

LEMMA NewJobType ==
  ASSUME NEW todo \in SUBSET Models, NEW first \in Models \cup {None}, NEW trial \in BOOLEAN, NEW lists \in BOOLEAN
  PROVE  NewJob(todo, first, trial, lists) \in Job /\ NewJob(todo, first, trial, lists).state = "waiting"
BY DEF NewJob, Job

\* The jobs of a new round wait.
Waiting(jobs) == \A c \in Channels : jobs[c] = None \/ (jobs[c] \in Job /\ jobs[c].state = "waiting")

LEMMA DueJobsType ==
  ASSUME m \in Manager, NEW c \in Channels, NEW full \in BOOLEAN, NEW over \in BOOLEAN, NEW job \in DueJobs(c, full, over)
  PROVE  job = None \/ (job \in Job /\ job.state = "waiting")
<1> DEFINE cred == m.creds[c]
           rec == m.records[c]
           again == IF full /\ cred.models = NoList THEN rec.notServing \cap m.catalog ELSE {}
           todo(first) == ToServe(c) \cup again \cup (IF first \in OnTrial(c, over) THEN {first} ELSE {})
           trial(first) == first \in OnTrial(c, over)
           lists == cred.models # NoList
<1>1. m.catalog \in SUBSET Models
  BY DEF Manager
<1>2. ToServe(c) \in SUBSET Models /\ again \in SUBSET Models /\ OnTrial(c, over) \in SUBSET Models
  BY <1>1 DEF ToServe, OnTrial
<1>3. Focus(c, over) \in SUBSET (Models \cup {None})
  BY <1>2 DEF Focus, Unsettled
<1>4. \A first \in Models \cup {None} : todo(first) \in SUBSET Models /\ trial(first) \in BOOLEAN /\ lists \in BOOLEAN
  <2> HIDE DEF again
  <2> QED BY <1>2
<1>5. job = None \/ \E first \in Focus(c, over) : job = NewJob(todo(first), first, trial(first), lists)
  BY DEF DueJobs
<1> HIDE DEF todo, trial, lists
<1> QED BY <1>3, <1>4, <1>5, NewJobType

LEMMA NewRoundSound ==
  ASSUME NEW s, Sound(s), NEW jobs \in [Channels -> Job \cup {None}], Waiting(jobs), s.started, s.settings.enabled
  PROVE  /\ Sound([s EXCEPT !.round = NewRound(jobs)])
         /\ Knows(s, [s EXCEPT !.round = NewRound(jobs)])
<1> DEFINE round == NewRound(jobs)
           t == [s EXCEPT !.round = round]
<1>1. round \in Round /\ round.jobs = jobs
  BY DEF NewRound, Round
<1> HIDE DEF round
<1>2. /\ t \in Manager /\ t.round = round /\ t.started /\ t.settings.enabled
      /\ t.creds = s.creds /\ t.fresh = s.fresh /\ t.exclusions = s.exclusions
  BY <1>1 DEF Sound, Manager
<1> HIDE DEF t
<1>3. JobsOK(t)
  BY <1>1, <1>2 DEF JobsOK, Waiting
<1> QED BY <1>2, <1>3 DEF Sound, Quiet, Goes, Knows, round, t

----------------------------------------------------------------------------
\* The steps, and what they leave

\* A plan edits a pair once.
Distinct(process) == process.at = "write" => \A e, f \in process.edits : e.pair = f.pair => e = f

\* Only the owner of the data directory ticks and serves calls.
Typed ==
  /\ TypeOK /\ JobsOK(m) /\ Quiet(m)
  /\ Distinct(tick) /\ Distinct(call)
  /\ ~owns => tick = Idle /\ call = Idle

\* What any step of a process leaves as it should be.
Processes ==
  /\ tick \in Tick /\ call \in Call /\ editing \in {"tick", "call", None}
  /\ (editing = "tick") <=> Editing(tick)
  /\ (editing = "call") <=> Editing(call)
  /\ Distinct(tick) /\ Distinct(call)
  /\ owns \in BOOLEAN /\ (~owns => tick = Idle /\ call = Idle)
Kinds ==
  /\ file \in Stored /\ config \in [Channels -> Key \cup {Gone}]
  /\ mine \in SUBSET Pairs /\ released \in SUBSET Pairs /\ forgotten \in SUBSET Pairs

LEMMA TypedParts == Typed <=> Sound(m) /\ Processes /\ Kinds
<1>1. Typed => Sound(m) /\ Processes /\ Kinds
  BY DEF Typed, TypeOK, Sound, Processes, Kinds
<1>2. Sound(m) /\ Processes /\ Kinds => Typed
  BY DEF Typed, TypeOK, Sound, Processes, Kinds
<1> QED BY <1>1, <1>2

LEMMA IdleType == Idle \in Tick /\ Idle \in Call /\ ~Editing(Idle)
BY DEF Idle, Tick, Call, Editing

LEMMA ApplyType ==
  ASSUME NEW list \in List
  PROVE  /\ \A again \in BOOLEAN : [at |-> "apply", list |-> list, again |-> again] \in Tick
         /\ \A only \in SUBSET Channels : [at |-> "apply", list |-> list, only |-> only] \in Call
BY DEF Tick, Call

LEMMA EditorType ==
  /\ \A edits \in SUBSET Edit : [at |-> "write", edits |-> edits] \in Editor
  /\ \A notes \in SUBSET Note : [at |-> "noted", notes |-> notes] \in Editor
  /\ \A process \in Tick \cup Call :
       /\ process.at = "write" => process.edits \in SUBSET Edit
       /\ process.at = "noted" => process.notes \in SUBSET Note
  /\ \A process \in Tick : process.at = "apply" => process.list \in List
  /\ \A process \in Call : process.at = "apply" => process.list \in List
<1>1. /\ \A edits \in SUBSET Edit : [at |-> "write", edits |-> edits] \in Editor
      /\ \A notes \in SUBSET Note : [at |-> "noted", notes |-> notes] \in Editor
  BY DEF Editor
<1>2. \A process \in Editor : process.at \in {"write", "noted"}
                              /\ (process.at = "write" => process.edits \in SUBSET Edit)
                              /\ (process.at = "noted" => process.notes \in SUBSET Note)
  BY DEF Editor
<1>3. \A process \in Tick : process \in Editor \/ process.at \in {"idle", "relist", "rebuild", "plan", "round"}
                            \/ (process.at = "apply" /\ process.list \in List)
  BY DEF Tick
<1>4. \A process \in Call : process \in Editor \/ process.at \in {"idle", "plan"}
                            \/ (process.at = "apply" /\ process.list \in List)
  BY DEF Call
<1>5. \A process \in Tick \cup Call :
       /\ process.at = "write" => process.edits \in SUBSET Edit
       /\ process.at = "noted" => process.notes \in SUBSET Note
  BY <1>2, <1>3, <1>4
<1>6. /\ \A process \in Tick : process.at = "apply" => process.list \in List
      /\ \A process \in Call : process.at = "apply" => process.list \in List
  BY <1>2, <1>3, <1>4
<1> QED BY <1>1, <1>5, <1>6

LEMMA SomeEdits ==
  ASSUME NEW edits \in SUBSET Edit
  PROVE  [at |-> "write", edits |-> edits] \in Tick \cap Call
BY EditorType DEF Tick, Call

LEMMA SomeNotes ==
  ASSUME NEW notes \in SUBSET Note
  PROVE  [at |-> "noted", notes |-> notes] \in Tick \cap Call
BY EditorType DEF Tick, Call

\* What a plan leaves.
LEMMA PlansTyped ==
  ASSUME NEW s, Sound(s), NEW process, NEW idle, NEW then, Plans(process, s, idle, then)
  PROVE  /\ Sound(m') /\ editing = None
         /\ \/ then = idle /\ editing' = None
            \/ /\ then \in Tick \cap Call /\ then.at = "write" /\ Distinct(then)
               /\ editing' = process
<1>1. PICK plan \in {IF owns THEN Planned(s, late) ELSE [s |-> s, edits |-> {}] : late \in SUBSET {"grace", "retry", "trial"}} :
         /\ m' = plan.s
         /\ editing' = IF plan.edits = {} THEN None ELSE process
         /\ then = IF plan.edits = {} THEN idle ELSE [at |-> "write", edits |-> plan.edits]
  BY DEF Plans
<1>2. Sound(plan.s) /\ plan.edits \in SUBSET Edit /\ (\A e, f \in plan.edits : e.pair = f.pair => e = f)
  <2>1. PICK late \in SUBSET {"grace", "retry", "trial"} : plan = IF owns THEN Planned(s, late) ELSE [s |-> s, edits |-> {}]
    BY <1>1
  <2>2. s \in Manager
    BY DEF Sound
  <2>3. /\ Sound(Planned(s, late).s) /\ Planned(s, late).edits \in SUBSET Edit
        /\ \A e, f \in Planned(s, late).edits : e.pair = f.pair => e = f
    BY <2>2, PlannedSound, PlannedFacts
  <2> QED BY <2>1, <2>3
<1> QED BY <1>1, <1>2, SomeEdits DEF Plans, Distinct

\* What an edit of config.yaml leaves.
LEMMA WritesTyped ==
  ASSUME Kinds, NEW process, process.edits \in SUBSET Edit, process.at = "write", Distinct(process),
         NEW other, NEW then, Writes(process, other, then)
  PROVE  /\ config' \in [Channels -> Key \cup {Gone}] /\ mine' \in SUBSET Pairs
         /\ then \in Tick \cap Call /\ then.at = "noted"
<1> DEFINE done == Edited(process.edits)
           entries(outcomes, exclude) ==
             {n.edit.pair : n \in {x \in done.notes : x.outcome \in outcomes /\ x.edit.exclude = exclude}}
<1>1. done.config \in [Channels -> Key \cup {Gone}] /\ done.notes \in SUBSET Note
  BY EditedWrites DEF Kinds, WroteSo, Done, Distinct
<1> HIDE DEF done
<1>2. \A outcomes, exclude : entries(outcomes, exclude) \in SUBSET Pairs
  <2>1. \A n \in done.notes : n.edit.pair \in Pairs
    BY <1>1 DEF Note, Edit
  <2> QED BY <2>1
<1>3. CASE /\ config' = done.config
           /\ mine' = (mine \cup entries({"applied"}, TRUE)) \ entries({"applied"}, FALSE)
           /\ then = [at |-> "noted", notes |-> done.notes]
  <2>1. entries({"applied"}, TRUE) \in SUBSET Pairs
    <3> HIDE DEF entries
    <3> QED BY <1>2
  <2> HIDE DEF entries
  <2> QED BY <1>1, <1>3, <2>1, SomeNotes DEF Kinds
<1>4. CASE then = [at |-> "noted", notes |-> {}] /\ UNCHANGED <<config, mine>>
  BY <1>4, SomeNotes DEF Kinds
<1> QED BY <1>3, <1>4 DEF Writes, done

LEMMA NotesTyped ==
  ASSUME Sound(m), NEW process, process.notes \in SUBSET Note, Notes(process)
  PROVE  Sound(m') /\ editing' = None
<1>1. Sound([m EXCEPT !.dirty = TRUE])
  <2>1. [m EXCEPT !.dirty = TRUE] \in Manager /\ Carries(m, [m EXCEPT !.dirty = TRUE])
    BY DEF Sound, Manager, Carries
  <2> QED BY <2>1, CarriesSound
<1> QED BY <1>1, NotedSound DEF Notes

\* What a step of the manager alone leaves.
LEMMA ManagerMoves ==
  ASSUME Typed, Sound(m'), file' \in Stored, UNCHANGED <<config, owns, tick, call, editing, mine, released, forgotten>>
  PROVE  Typed'
<1>1. Processes' /\ Kinds'
  BY TypedParts DEF Processes, Kinds, Distinct, Editing
<1> QED BY <1>1, TypedParts DEF Typed, TypeOK, Sound, Processes, Kinds

LEMMA FlushTyped ==
  ASSUME NEW s, Sound(s), file \in Stored, NEW events, Flush(s, events)
  PROVE  /\ Sound(m') /\ file' \in Stored /\ Carries(s, m') /\ (~owns => file' = file)
<1>1. PICK r \in Flushed(s) : m' = r.s /\ file' = r.file
  BY DEF Flush
<1>2. s \in Manager
  BY DEF Sound
<1>3. r.s \in Manager /\ r.file \in Stored /\ Carries(s, r.s) /\ (~owns => r.file = file)
  BY <1>2, FlushedType
<1> QED BY <1>1, <1>3, CarriesSound

LEMMA TypedInit == Init => Typed
<1> SUFFICES ASSUME Init PROVE Typed
  OBVIOUS
<1>1. file \in Stored
  <2>1. /\ [c \in Channels |-> Gone] \in Listings /\ [c \in Channels |-> NoRecord] \in [Channels -> Record]
        /\ [p \in Pairs |-> None] \in [Pairs -> Exclusion \cup {None}]
    BY NoRecordType DEF Listings
  <2> QED BY <2>1, NativeAssumption DEF Init, Stored
<1>2. config \in [Channels -> Key \cup {Gone}]
  <2>1. [own |-> NoList, inherited |-> NoList] \in Key
    BY DEF Key
  <2>2. Layouts \cup {[own |-> NoList, inherited |-> NoList]} \in SUBSET Key
    BY <2>1, NativeAssumption
  <2>3. config \in [Channels -> Layouts \cup {[own |-> NoList, inherited |-> NoList]}]
    BY DEF Init
  <2> QED BY <2>2, <2>3
<1>3. Sound(m)
  <2>1. m = [Opened(file) EXCEPT !.started = TRUE]
    BY DEF Init
  <2>2. Opened(file) \in Manager /\ Opened(file).round = None
    BY <1>1, OpenedType
  <2>3. m \in Manager /\ m.round = None
    BY <2>1, <2>2 DEF Manager
  <2> QED BY <2>3 DEF Sound, Quiet, JobsOK, Goes
<1>4. Processes
  BY IdleType, NoneAssumption DEF Init, Processes, Distinct, Idle
<1>5. Kinds
  BY <1>1, <1>2 DEF Init, Kinds
<1> QED BY <1>3, <1>4, <1>5, TypedParts

LEMMA TypedPartsNext == ASSUME Sound(m'), Processes', Kinds' PROVE Typed'
BY DEF Typed, TypeOK, Sound, Processes, Kinds

LEMMA TicksTyped == ASSUME Typed, Ticks PROVE Typed'
<1>1. Sound(m) /\ Processes /\ Kinds /\ m \in Manager
  BY TypedParts DEF Sound
<1> HIDE DEF Typed
<1>2. CASE TickLists
  <2>1. m' = m /\ Kinds'
    BY <1>1, <1>2 DEF TickLists, Kinds, past
  <2>2. /\ tick' \in Tick /\ ~Editing(tick') /\ tick'.at # "write" /\ owns /\ ~Editing(tick)
        /\ owns' = owns /\ call' = call /\ editing' = editing
    <3>1. CASE \E list \in Lists : tick' = [at |-> "apply", list |-> list, again |-> tick.at = "relist"]
      <4>1. PICK list \in Lists : tick' = [at |-> "apply", list |-> list, again |-> tick.at = "relist"]
        BY <3>1
      <4>2. list \in List
        BY <1>1, ListsType DEF Kinds
      <4> QED BY <1>2, <4>1, <4>2, ApplyType DEF TickLists, Editing
    <3>2. CASE tick' = [at |-> "rebuild"]
      BY <1>2, <3>2 DEF TickLists, Editing, Tick
    <3> QED BY <1>2, <3>1, <3>2 DEF TickLists
  <2>3. Processes'
    BY <1>1, <2>2 DEF Processes, Distinct
  <2> QED BY <1>1, <2>1, <2>3, TypedPartsNext
<1>3. CASE TickApplies
  <2>1. PICK stale \in Some("age") : m' = Rebuilt(IF tick.at = "apply" THEN Applied(m, tick.list) ELSE m, stale)
    BY <1>3 DEF TickApplies
  <2>2. tick.at = "apply" => tick.list \in List
    BY <1>1, EditorType DEF Processes
  <2>3. Sound(m')
    BY <1>1, <2>1, <2>2, AppliedSound, RebuiltSound
  <2>4. /\ tick' \in Tick /\ ~Editing(tick') /\ tick'.at # "write" /\ ~Editing(tick) /\ tick # Idle
        /\ owns' = owns /\ call' = call /\ editing' = editing
    BY <1>3 DEF TickApplies, Editing, Tick, Idle
  <2>5. Processes'
    BY <1>1, <2>4 DEF Processes, Distinct
  <2>6. Kinds'
    BY <1>1, <1>3 DEF TickApplies, Kinds
  <2> QED BY <2>3, <2>5, <2>6, TypedPartsNext
<1>4. CASE TickPlans
  <2>1. Plans("tick", m, [at |-> "round"], tick')
    BY <1>4 DEF TickPlans
  <2>2. /\ Sound(m') /\ editing = None
        /\ \/ tick' = [at |-> "round"] /\ editing' = None
           \/ tick' \in Tick \cap Call /\ tick'.at = "write" /\ Distinct(tick') /\ editing' = "tick"
    BY <1>1, <2>1, PlansTyped
  <2>3. owns' = owns /\ call' = call /\ tick # Idle
    BY <1>4 DEF TickPlans, Idle
  <2>4. [at |-> "round"] \in Tick
    BY DEF Tick
  <2>5. Processes'
    BY <1>1, <2>2, <2>3, <2>4, NoneAssumption DEF Processes, Distinct, Editing
  <2>6. Kinds'
    BY <1>1, <1>4 DEF TickPlans, Kinds, past
  <2> QED BY <2>2, <2>5, <2>6, TypedPartsNext
<1>5. CASE TickWrites
  <2>1. Writes(tick, call, tick') /\ tick.at = "write" /\ tick.edits \in SUBSET Edit /\ Distinct(tick)
    BY <1>1, <1>5, EditorType DEF TickWrites, Processes
  <2>2. /\ config' \in [Channels -> Key \cup {Gone}] /\ mine' \in SUBSET Pairs
        /\ tick' \in Tick \cap Call /\ tick'.at = "noted"
    BY <1>1, <2>1, WritesTyped
  <2>3. owns' = owns /\ call' = call /\ editing' = editing /\ tick # Idle /\ m' = m
    BY <1>5 DEF TickWrites, Idle
  <2>4. Processes'
    BY <1>1, <2>1, <2>2, <2>3 DEF Processes, Distinct, Editing
  <2>5. Kinds'
    BY <1>1, <1>5, <2>2 DEF TickWrites, Kinds
  <2> QED BY <1>1, <2>3, <2>4, <2>5, TypedPartsNext
<1>6. CASE TickNotes
  <2>1. Notes(tick) /\ tick.at = "noted" /\ tick.notes \in SUBSET Note
    BY <1>1, <1>6, EditorType DEF TickNotes, Processes
  <2>2. Sound(m') /\ editing' = None
    BY <1>1, <2>1, NotesTyped
  <2>3. /\ owns' = owns /\ call' = call /\ tick # Idle /\ Editing(tick)
        /\ tick' \in Tick /\ ~Editing(tick') /\ tick'.at # "write"
    BY <1>6 DEF TickNotes, Idle, Editing, Tick
  <2>4. Processes'
    BY <1>1, <2>2, <2>3, NoneAssumption DEF Processes, Distinct
  <2>5. Kinds'
    BY <1>1, <1>6 DEF TickNotes, Kinds, past
  <2> QED BY <2>2, <2>4, <2>5, TypedPartsNext
<1>7. CASE TickRounds
  <2>1. Sound(m') /\ file' \in Stored
    <3>1. CASE Flush(m, {})
      BY <1>1, <3>1, FlushTyped DEF Kinds
    <3>2. CASE /\ m.started /\ m.round = None /\ m.settings.enabled /\ ~m.credErr
               /\ \E full, over \in BOOLEAN, cooling \in Some("cool") :
                    \E jobs \in [Channels -> UNION {DueJobs(c, full, over) : c \in Channels}] :
                      /\ \A c \in Channels : jobs[c] \in IF c \in cooling THEN {None} ELSE DueJobs(c, full, over)
                      /\ \E c \in Channels : jobs[c] # None
                      /\ Flush([m EXCEPT !.round = NewRound(jobs)], {})
      <4>1. PICK full \in BOOLEAN, over \in BOOLEAN, cooling \in Some("cool") :
              \E jobs \in [Channels -> UNION {DueJobs(c, full, over) : c \in Channels}] :
                 /\ \A c \in Channels : jobs[c] \in IF c \in cooling THEN {None} ELSE DueJobs(c, full, over)
                 /\ \E c \in Channels : jobs[c] # None
                 /\ Flush([m EXCEPT !.round = NewRound(jobs)], {})
        BY <3>2
      <4>2. PICK jobs \in [Channels -> UNION {DueJobs(c, full, over) : c \in Channels}] :
                 /\ \A c \in Channels : jobs[c] \in IF c \in cooling THEN {None} ELSE DueJobs(c, full, over)
                 /\ Flush([m EXCEPT !.round = NewRound(jobs)], {})
        BY <4>1
      <4>3. \A c \in Channels : jobs[c] = None \/ jobs[c] \in DueJobs(c, full, over)
        BY <4>2
      <4>4. \A c \in Channels : jobs[c] = None \/ (jobs[c] \in Job /\ jobs[c].state = "waiting")
        BY <1>1, <4>3, DueJobsType
      <4>5. jobs \in [Channels -> Job \cup {None}]
        BY <4>2, <4>4
      <4>6. Sound([m EXCEPT !.round = NewRound(jobs)])
        BY <1>1, <3>2, <4>4, <4>5, NewRoundSound DEF Waiting
      <4> QED BY <1>1, <4>2, <4>6, FlushTyped DEF Kinds
    <3> QED BY <1>7, <3>1, <3>2 DEF TickRounds
  <2>2. owns' = owns /\ call' = call /\ editing' = editing /\ tick' = Idle /\ ~Editing(tick) /\ ~Editing(tick') /\ tick'.at # "write"
    BY <1>7 DEF TickRounds, Idle, Editing
  <2>3. Processes'
    BY <1>1, <2>2, IdleType DEF Processes, Distinct
  <2>4. Kinds'
    BY <1>1, <1>7, <2>1 DEF TickRounds, Kinds, past
  <2> QED BY <2>1, <2>3, <2>4, TypedPartsNext
<1> QED BY <1>2, <1>3, <1>4, <1>5, <1>6, <1>7 DEF Ticks

LEMMA KeptWorks ==
  ASSUME m \in Manager, JobsOK(m), NEW p \in Pairs, m.exclusions[p] # None, NEW kept \in BOOLEAN
  PROVE  Works(m, [m EXCEPT !.exclusions[p] = Kept(m.exclusions[p], kept), !.dirty = TRUE])
<1> DEFINE e == Kept(m.exclusions[p], kept)
           exclusions == [m.exclusions EXCEPT ![p] = e]
           t == [m EXCEPT !.exclusions = exclusions, !.dirty = TRUE]
<1>1. m.exclusions \in [Pairs -> Exclusion \cup {None}] /\ m.exclusions[p] \in Exclusion
  BY DEF Manager
<1>2. e \in Exclusion /\ e.written = m.exclusions[p].written /\ e # None
  <2> DEFINE old == m.exclusions[p]
  <2>1. old \in Exclusion
    BY <1>1
  <2>2. e = Kept(old, kept)
    OBVIOUS
  <2> HIDE DEF old, e
  <2>3. e \in Exclusion /\ e.written = old.written
    BY <2>1, <2>2 DEF Kept, Exclusion
  <2> QED BY <2>3, NoneAssumption DEF old
<1> HIDE DEF e
<1>3. /\ exclusions \in [Pairs -> Exclusion \cup {None}]
      /\ \A q \in Pairs : exclusions[q] = IF q = p THEN e ELSE m.exclusions[q]
  BY <1>1, <1>2
<1>4. [m EXCEPT !.exclusions[p] = Kept(m.exclusions[p], kept), !.dirty = TRUE] = t
  BY DEF Manager, e
<1> HIDE DEF exclusions
<1>5. /\ t \in Manager /\ t.exclusions = exclusions /\ t.creds = m.creds /\ t.fresh = m.fresh
      /\ t.settings = m.settings /\ t.started = m.started /\ t.round = m.round /\ t.catalog = m.catalog
  BY <1>3 DEF Manager
<1> HIDE DEF t
<1>6. Knows(m, t)
  BY <1>2, <1>3, <1>5 DEF Knows
<1>7. Works(m, t)
  BY <1>5, <1>6 DEF Works, JobsOK, Goes
<1> QED BY <1>4, <1>7

\* The manager a release or a resume plans with.
LEMMA KeepPlans ==
  ASSUME m \in Manager, JobsOK(m), NEW p \in Pairs, NEW kept \in BOOLEAN, Keep(p, kept)
  PROVE  \E s : Works(m, s) /\ Plans("call", s, Idle, call')
<1> DEFINE e == Kept(m.exclusions[p], kept)
           changed == [m EXCEPT !.exclusions[p] = e, !.dirty = TRUE]
<1>1. m.exclusions[p] # None
  BY DEF Keep
<1>2. PICK stale : Plans("call", IF e = m.exclusions[p] THEN m ELSE Rebuilt(changed, stale), Idle, call')
  BY DEF Keep
<1>3. Works(m, changed) /\ Works(m, m)
  <2>1. Works(m, m)
    BY CarriesWorks DEF Carries
  <2> QED BY <1>1, <2>1, KeptWorks
<1> HIDE DEF e, changed
<1>4. Works(changed, Rebuilt(changed, stale))
  BY <1>3, RebuiltType, CarriesWorks DEF Works
<1>5. Works(m, Rebuilt(changed, stale))
  BY <1>3, <1>4, WorksOn
<1> QED BY <1>2, <1>3, <1>5

\* The Manager a change of settings leaves, and its file.
LEMMA UpdateSound ==
  ASSUME Sound(m), file \in Stored, NEW settings \in Settings, Update(settings)
  PROVE  /\ Sound(m') /\ file' \in Stored
         /\ m'.exclusions = m.exclusions /\ m'.creds = m.creds /\ m'.fresh = m.fresh
         /\ call' = [at |-> "plan"] \/ call' = Idle
<1> DEFINE s == [m EXCEPT !.settings = settings]
<1>1. PICK r \in Saved(s), stale \in Some("age") :
         /\ file' = r.file
         /\ m' = IF ~r.ok THEN [r.s EXCEPT !.settings = m.settings]
                 ELSE Rebuilt(IF settings.enabled THEN r.s ELSE Stopped(r.s), stale)
         /\ call' = IF r.ok THEN [at |-> "plan"] ELSE Idle
  BY DEF Update
<1>2. /\ s \in Manager /\ s.settings = settings /\ s.round = m.round /\ s.started = m.started
      /\ s.creds = m.creds /\ s.fresh = m.fresh /\ s.exclusions = m.exclusions
  BY NativeAssumption DEF Sound, Manager
<1> HIDE DEF s
<1>3. r.s \in Manager /\ r.file \in Stored /\ Carries(s, r.s) /\ r.ok \in BOOLEAN
  BY <1>2, SavedType
<1>4. JobsOK(r.s)
  BY <1>2, <1>3 DEF Carries, JobsOK, Sound
<1>5. CASE ~r.ok
  <2> DEFINE t == [r.s EXCEPT !.settings = m.settings]
  <2>1. t \in Manager /\ t.settings = m.settings /\ t.round = m.round /\ t.started = m.started
        /\ t.creds = m.creds /\ t.fresh = m.fresh /\ t.exclusions = m.exclusions
    BY <1>2, <1>3 DEF Sound, Manager, Carries
  <2> HIDE DEF t
  <2>2. Sound(t)
    BY <2>1 DEF Sound, JobsOK, Quiet, Goes
  <2> QED BY <1>1, <1>3, <1>5, <2>1, <2>2 DEF t
<1>6. CASE r.ok
  <2> DEFINE t == IF settings.enabled THEN r.s ELSE Stopped(r.s)
  <2>1. /\ Sound(t) /\ t.exclusions = m.exclusions /\ t.creds = m.creds /\ t.fresh = m.fresh
    <3>1. CASE settings.enabled
      BY <1>2, <1>3, <1>4, <3>1 DEF Sound, Quiet, Goes, Carries
    <3>2. CASE ~settings.enabled
      BY <1>2, <1>3, <1>4, <3>2, StoppedSound DEF Carries
    <3> QED BY <3>1, <3>2
  <2>2. m' = Rebuilt(t, stale)
    BY <1>1, <1>6
  <2> HIDE DEF t
  <2>3. Sound(m') /\ m'.exclusions = m.exclusions /\ m'.creds = m.creds /\ m'.fresh = m.fresh
    BY <2>1, <2>2, RebuiltSound, RebuiltType DEF Carries, Sound
  <2> QED BY <1>1, <1>3, <2>3
<1> QED BY <1>3, <1>5, <1>6

LEMMA ProbeNowSound ==
  ASSUME Sound(m), call \in Call, ProbeNowApplies
  PROVE  \E s \in {m, Applied(m, call.list)} : Sound(m') /\ Knows(s, m')
<1> DEFINE on == m.started /\ m.settings.enabled
           listed == Applied(m, call.list)
           serves(c) == {x \in m.catalog : Serves(listed.creds[c], listed.records[c], x)}
           job(c) == IF c \notin call.only \/ listed.creds[c] = Gone THEN None
                     ELSE IF listed.creds[c].disabled \/ serves(c) = {} THEN None
                     ELSE NewJob(serves(c), None, FALSE, listed.creds[c].models # NoList)
           jobs == [c \in Channels |-> job(c)]
<1>1. m' = IF ~on THEN m
           ELSE IF call.list.failed \/ m.round # None \/ (\A c \in Channels : jobs[c] = None) THEN listed
           ELSE [listed EXCEPT !.round = NewRound(jobs)]
  BY DEF ProbeNowApplies
<1>2. call.list \in List
  BY EditorType DEF ProbeNowApplies
<1>3. Sound(listed) /\ listed.started = m.started /\ listed.settings = m.settings
  BY <1>2, AppliedSound, AppliedType DEF Sound
<1>4. \A c \in Channels : job(c) = None \/ (job(c) \in Job /\ job(c).state = "waiting")
  <2> TAKE c \in Channels
  <2>1. serves(c) \in SUBSET Models
    BY DEF Sound, Manager
  <2> HIDE DEF serves, listed
  <2> QED BY <2>1, NewJobType
<1> HIDE DEF job, listed
<1>5. jobs \in [Channels -> Job \cup {None}] /\ Waiting(jobs)
  BY <1>4 DEF Waiting
<1> HIDE DEF jobs
<1>6. Knows(m, m) /\ Knows(listed, listed)
  BY DEF Knows
<1>7. CASE m' = [listed EXCEPT !.round = NewRound(jobs)] /\ on
  BY <1>3, <1>5, <1>7, NewRoundSound DEF listed
<1> QED BY <1>1, <1>3, <1>6, <1>7 DEF listed

LEMMA SwitchSound ==
  ASSUME Sound(m), file \in Stored, NEW events, Flush(Stopped([m EXCEPT !.started = FALSE]), events)
  PROVE  Sound(m') /\ file' \in Stored /\ Knows(m, m') /\ (~owns => file' = file)
<1> DEFINE s == [m EXCEPT !.started = FALSE]
<1>1. /\ s \in Manager /\ JobsOK(s) /\ s.exclusions = m.exclusions /\ s.creds = m.creds /\ s.fresh = m.fresh
  BY DEF Sound, Manager, JobsOK
<1> HIDE DEF s
<1>2. /\ Sound(Stopped(s)) /\ Stopped(s).exclusions = m.exclusions /\ Stopped(s).creds = m.creds
      /\ Stopped(s).fresh = m.fresh
  BY <1>1, StoppedSound
<1>3. Flush(Stopped(s), events)
  BY DEF s
<1>4. Sound(m') /\ file' \in Stored /\ Carries(Stopped(s), m') /\ (~owns => file' = file)
  BY <1>2, <1>3, FlushTyped
<1> QED BY <1>2, <1>4 DEF Carries, Knows

LEMMA StartedSound ==
  ASSUME Sound(m), m' = [m EXCEPT !.started = TRUE]
  PROVE  Sound(m') /\ Knows(m, m')
<1>1. /\ m' \in Manager /\ m'.started /\ m'.settings = m.settings /\ m'.round = m.round
      /\ m'.exclusions = m.exclusions /\ m'.creds = m.creds /\ m'.fresh = m.fresh
  BY DEF Sound, Manager
<1> QED BY <1>1 DEF Sound, Quiet, JobsOK, Goes, Knows

LEMMA ReopenedTyped ==
  ASSUME Typed, Reopened
  PROVE  Typed' /\ m'.exclusions = file.exclusions /\ m'.fresh = FALSE
<1>1. file \in Stored /\ Kinds
  BY TypedParts DEF Kinds
<1>2. Opened(file) \in Manager /\ Opened(file).round = None /\ Opened(file).exclusions = file.exclusions /\ Opened(file).fresh = FALSE
  BY <1>1, OpenedType
<1>3. m' \in Manager /\ m'.round = None /\ m'.exclusions = file.exclusions /\ m'.fresh = FALSE
  BY <1>2 DEF Reopened, Manager
<1>4. Sound(m')
  BY <1>3 DEF Sound, Quiet, JobsOK, Goes
<1>5. Processes'
  BY IdleType, NoneAssumption DEF Reopened, Processes, Distinct, Idle
<1>6. Kinds'
  BY <1>1 DEF Reopened, Kinds
<1> QED BY <1>3, <1>4, <1>5, <1>6, TypedPartsNext

LEMMA CallsTyped == ASSUME Typed, Calls PROVE Typed'
<1>1. Sound(m) /\ Processes /\ Kinds /\ m \in Manager /\ JobsOK(m)
  BY TypedParts DEF Sound
<1> HIDE DEF Typed
<1>2. ASSUME NEW s, Sound(s), Plans("call", s, Idle, call'), UNCHANGED <<file, config, owns, tick, past>>, owns \/ call # Idle
      PROVE  Typed'
  <2>1. /\ Sound(m') /\ editing = None
        /\ \/ call' = Idle /\ editing' = None
           \/ call' \in Tick \cap Call /\ call'.at = "write" /\ Distinct(call') /\ editing' = "call"
    BY <1>2, PlansTyped
  <2>2. Processes'
    BY <1>1, <1>2, <2>1, IdleType, NoneAssumption DEF Processes, Distinct, Editing, Idle
  <2>3. Kinds'
    BY <1>1, <1>2 DEF Kinds, past
  <2> QED BY <2>1, <2>2, <2>3, TypedPartsNext
<1>3. ASSUME NEW p \in Pairs, NEW kept \in BOOLEAN, Keep(p, kept) PROVE Typed'
  <2>1. PICK s : Works(m, s) /\ Plans("call", s, Idle, call')
    BY <1>1, <1>3, KeepPlans
  <2>2. Sound(s)
    BY <1>1, <2>1, WorksSound
  <2>3. Sound(m') /\ editing = None
        /\ \/ call' = Idle /\ editing' = None
           \/ call' \in Tick \cap Call /\ call'.at = "write" /\ Distinct(call') /\ editing' = "call"
    BY <2>1, <2>2, PlansTyped
  <2>4. owns /\ owns' = owns /\ tick' = tick
    BY <1>3 DEF Keep, Called
  <2>5. Processes'
    BY <1>1, <2>3, <2>4, IdleType, NoneAssumption DEF Processes, Distinct, Editing, Idle
  <2>6. released' \in SUBSET Pairs
    BY <1>1, <1>3 DEF Keep, Kinds
  <2>7. Kinds'
    BY <1>1, <1>3, <2>6 DEF Keep, Kinds
  <2> QED BY <2>3, <2>5, <2>7, TypedPartsNext
<1>4. ASSUME NEW settings \in Settings, Update(settings) PROVE Typed'
  <2>1. Sound(m') /\ file' \in Stored /\ (call' = [at |-> "plan"] \/ call' = Idle)
    BY <1>1, <1>4, UpdateSound DEF Kinds
  <2>2. owns /\ call = Idle /\ owns' = owns /\ tick' = tick /\ editing' = editing
    BY <1>4 DEF Update, Called
  <2>3. call' \in Call /\ ~Editing(call') /\ call'.at # "write"
    BY <2>1, IdleType DEF Call, Editing, Idle
  <2>4. Processes'
    BY <1>1, <2>2, <2>3, IdleType DEF Processes, Distinct
  <2>5. Kinds'
    BY <1>1, <1>4, <2>1 DEF Update, Kinds, past
  <2> QED BY <2>1, <2>4, <2>5, TypedPartsNext
<1>5. CASE CallPlans
  <2>1. Plans("call", m, Idle, call') /\ call # Idle
    BY <1>5 DEF CallPlans, Idle
  <2> QED BY <1>1, <1>2, <1>5, <2>1 DEF CallPlans
<1>6. CASE CallWrites
  <2>1. Writes(call, tick, call') /\ call.at = "write" /\ call.edits \in SUBSET Edit /\ Distinct(call)
    BY <1>1, <1>6, EditorType DEF CallWrites, Processes
  <2>2. /\ config' \in [Channels -> Key \cup {Gone}] /\ mine' \in SUBSET Pairs
        /\ call' \in Tick \cap Call /\ call'.at = "noted"
    BY <1>1, <2>1, WritesTyped
  <2>3. owns' = owns /\ tick' = tick /\ editing' = editing /\ call # Idle /\ m' = m
    BY <1>6 DEF CallWrites, Idle
  <2>4. Processes'
    BY <1>1, <2>1, <2>2, <2>3 DEF Processes, Distinct, Editing
  <2>5. Kinds'
    BY <1>1, <1>6, <2>2 DEF CallWrites, Kinds
  <2> QED BY <1>1, <2>3, <2>4, <2>5, TypedPartsNext
<1>7. CASE CallNotes
  <2>1. Notes(call) /\ call.at = "noted" /\ call.notes \in SUBSET Note
    BY <1>1, <1>7, EditorType DEF CallNotes, Processes
  <2>2. Sound(m') /\ editing' = None
    BY <1>1, <2>1, NotesTyped
  <2>3. owns' = owns /\ tick' = tick /\ call' = Idle /\ Editing(call) /\ call # Idle
    BY <1>7 DEF CallNotes, Idle, Editing
  <2>4. Processes'
    BY <1>1, <2>2, <2>3, IdleType, NoneAssumption DEF Processes, Distinct, Idle
  <2>5. Kinds'
    BY <1>1, <1>7 DEF CallNotes, Kinds, past
  <2> QED BY <2>2, <2>4, <2>5, TypedPartsNext
<1>8. ASSUME NEW only \in Asked, ProbeNow(only) PROVE Typed'
  <2>1. PICK list \in Lists : call' = [at |-> "apply", list |-> list, only |-> only]
    BY <1>8 DEF ProbeNow
  <2>2. list \in List /\ only \in SUBSET Channels
    BY <1>1, ListsType, NativeAssumption DEF Kinds
  <2>3. owns /\ call = Idle /\ owns' = owns /\ tick' = tick /\ editing' = editing /\ m' = m
    BY <1>8 DEF ProbeNow, Called
  <2>4. call' \in Call /\ ~Editing(call') /\ call'.at # "write"
    BY <2>1, <2>2, ApplyType DEF Editing
  <2>5. Processes'
    BY <1>1, <2>3, <2>4, IdleType DEF Processes, Distinct
  <2>6. Kinds'
    BY <1>1, <1>8 DEF ProbeNow, Kinds, past
  <2> QED BY <1>1, <2>3, <2>5, <2>6, TypedPartsNext
<1>9. CASE ProbeNowApplies
  <2>1. Sound(m')
    BY <1>1, <1>9, ProbeNowSound DEF Processes
  <2>2. owns' = owns /\ tick' = tick /\ editing' = editing /\ call' = Idle /\ ~Editing(call) /\ call # Idle
    BY <1>9 DEF ProbeNowApplies, Editing, Idle
  <2>3. Processes'
    BY <1>1, <2>2, IdleType DEF Processes, Distinct, Idle
  <2>4. Kinds'
    BY <1>1, <1>9 DEF ProbeNowApplies, Kinds
  <2> QED BY <2>1, <2>3, <2>4, TypedPartsNext
<1> QED BY <1>3, <1>4, <1>5, <1>6, <1>7, <1>8, <1>9 DEF Calls

LEMMA TypedStep == Typed /\ [Next]_vars => Typed'
<1> SUFFICES ASSUME Typed, [Next]_vars PROVE Typed'
  OBVIOUS
<1>1. Sound(m) /\ Processes /\ Kinds /\ m \in Manager /\ JobsOK(m)
  BY TypedParts DEF Sound
<1> HIDE DEF Typed
<1>2. CASE Ticks
  BY <1>2, TicksTyped
<1>3. ASSUME NEW c \in Channels, Jobs(c) PROVE Typed'
  <2>1. Sound(m') /\ UNCHANGED <<file, config, owns, tick, call, editing, past>>
    BY <1>1, <1>3, JobsWork, WorksSound
  <2> QED BY <1>1, <2>1, ManagerMoves DEF Kinds, past
<1>4. CASE RoundEnds
  <2>1. Sound(m') /\ file' \in Stored
    BY <1>1, <1>4, RoundEndsWorks, WorksSound DEF Kinds
  <2> QED BY <1>4, <2>1, ManagerMoves DEF RoundEnds, past
<1>5. CASE Calls
  BY <1>5, CallsTyped
<1>6. ASSUME NEW c \in Channels, NEW x \in Models, ObserveFailure(c, x) PROVE Typed'
  <2>1. Sound(m')
    BY <1>1, <1>6, ObserveFailureWorks, WorksSound
  <2> QED BY <1>1, <1>6, <2>1, ManagerMoves DEF ObserveFailure, Kinds, past
<1>7. ASSUME NEW c \in Channels, NEW edit \in PanelEdits, NEW x \in Models, PanelSaves(c, edit, x) PROVE Typed'
  <2>1. config' \in [Channels -> Key \cup {Gone}]
    <3>1. config[c] \in Key
      BY <1>1, <1>7 DEF PanelSaves, Kinds
    <3>2. PanelEdited(config[c], edit, x) \in Key \cup {Gone}
      <4>1. Effective(config[c]) \in SUBSET Entries
        BY <3>1, EffectiveType
      <4>2. \A own \in SUBSET Entries : [config[c] EXCEPT !.own = own] \in Key
        BY <3>1 DEF Key
      <4>3. /\ Effective(config[c]) \cup {x} \in SUBSET Entries /\ Effective(config[c]) \ {x} \in SUBSET Entries
            /\ Effective(config[c]) \cup {"*"} \in SUBSET Entries /\ Effective(config[c]) \ {"*"} \in SUBSET Entries
        BY <4>1 DEF Entries
      <4>4. edit \in {"exclude", "include", "disable", "enable", "remove"}
        BY NativeAssumption
      <4> QED BY <4>2, <4>3, <4>4 DEF PanelEdited
    <3> QED BY <1>1, <1>7, <3>2 DEF PanelSaves, Kinds
  <2>2. mine' \in SUBSET Pairs /\ released' \in SUBSET Pairs
    BY <1>1, <1>7 DEF PanelSaves, Kinds
  <2>3. Kinds' /\ Processes' /\ m' = m
    BY <1>1, <1>7, <2>1, <2>2 DEF PanelSaves, Kinds, Processes, Distinct, Editing
  <2> QED BY <1>1, <2>3, TypedPartsNext
<1>8. CASE SearchOff
  <2>1. Sound(m') /\ file' \in Stored
    BY <1>1, <1>8, SwitchSound DEF SearchOff, Kinds
  <2> QED BY <1>8, <2>1, ManagerMoves DEF SearchOff, past
<1>9. CASE SearchOn
  <2>1. Sound(m')
    BY <1>1, <1>9, StartedSound DEF SearchOn
  <2> QED BY <1>1, <1>9, <2>1, ManagerMoves DEF SearchOn, past, Kinds
<1>10. CASE HandOff
  <2>1. Sound(m') /\ file' \in Stored
    BY <1>1, <1>10, SwitchSound DEF HandOff, Kinds
  <2>2. Kinds' /\ Processes'
    BY <1>1, <1>10, <2>1 DEF HandOff, Kinds, Processes, Distinct, Editing, past
  <2> QED BY <2>1, <2>2, TypedPartsNext
<1>11. CASE RolledBack
  <2>1. Sound(m')
    BY <1>1, <1>11, StartedSound DEF RolledBack
  <2>2. Kinds' /\ Processes'
    BY <1>1, <1>11, <2>1 DEF RolledBack, Kinds, Processes, Distinct, Editing, past
  <2> QED BY <2>1, <2>2, TypedPartsNext
<1>12. CASE Reopened
  BY <1>12, ReopenedTyped
<1>13. CASE UNCHANGED vars
  BY <1>1, <1>13, ManagerMoves DEF vars, past, Kinds
<1>14. TakenOver \/ Crash => Reopened
  BY DEF TakenOver, Crash
<1> QED BY <1>2, <1>3, <1>4, <1>5, <1>6, <1>7, <1>8, <1>9, <1>10, <1>11, <1>12, <1>13, <1>14 DEF Next

LEMMA AlwaysTyped == Spec => []Typed
BY TypedInit, TypedStep, PTL DEF Spec

\* TypeOK holds: the Manager, the file, config.yaml and what a tick and a call
\* have in hand stay what they are declared to be.
THEOREM Typing == Spec => []TypeOK
BY AlwaysTyped, PTL DEF Typed

\* OffIsQuiet: no round goes on once native search or the search module is off
\* (Update, syncSearch, quiesce).
THEOREM NoRoundWhenOff == Spec => []OffIsQuiet
<1>1. Typed => OffIsQuiet
  BY DEF Typed, Quiet, Goes, OffIsQuiet
<1> QED BY <1>1, AlwaysTyped, PTL

\* GivenUpIsLeftAlone: an instance that gave the data directory up, its round
\* still ending, leaves the file and CPA's config to the next one (flushLocked,
\* quiesce).
THEOREM LeavesTheNextAlone == Spec => GivenUpIsLeftAlone
<1> DEFINE A == ~owns /\ ~owns' => file' = file /\ mine' \subseteq mine
<1>1. ASSUME Typed, [Next]_vars PROVE [A]_vars
  <2> SUFFICES ASSUME ~owns, ~owns', Next PROVE file' = file /\ mine' \subseteq mine
    BY <1>1
  <2>1. /\ Sound(m) /\ m \in Manager /\ JobsOK(m) /\ file \in Stored
        /\ tick = [at |-> "idle"] /\ call = [at |-> "idle"]
    BY <1>1, TypedParts DEF Sound, Processes, Kinds, Idle
  <2>2. CASE Ticks
    BY <2>1, <2>2 DEF Ticks, TickLists, TickApplies, TickPlans, TickWrites, TickNotes, TickRounds
  <2>3. ASSUME NEW c \in Channels, Jobs(c) PROVE file' = file /\ mine' \subseteq mine
    BY <2>1, <2>3, JobsWork DEF past
  <2>4. CASE RoundEnds
    BY <2>1, <2>4, RoundEndsWorks DEF RoundEnds, past
  <2>5. CASE Calls
    BY <2>1, <2>5 DEF Calls, Called, Keep, Update, ProbeNow, CallPlans, CallWrites, CallNotes, ProbeNowApplies
  <2>6. ASSUME NEW c \in Channels, NEW x \in Models, ObserveFailure(c, x) PROVE file' = file /\ mine' \subseteq mine
    BY <2>6 DEF ObserveFailure, past
  <2>7. ASSUME NEW c \in Channels, NEW edit \in PanelEdits, NEW x \in Models, PanelSaves(c, edit, x)
        PROVE  file' = file /\ mine' \subseteq mine
    BY <2>7 DEF PanelSaves
  <2>8. CASE SearchOff \/ SearchOn \/ HandOff \/ RolledBack \/ TakenOver \/ Crash
    BY <2>8 DEF SearchOff, SearchOn, HandOff, RolledBack, TakenOver, Crash, Reopened
  <2> QED BY <2>2, <2>3, <2>4, <2>5, <2>6, <2>7, <2>8 DEF Next
<1>2. [][A]_vars => GivenUpIsLeftAlone
  BY PTL DEF GivenUpIsLeftAlone
<1> QED BY <1>1, <1>2, AlwaysTyped, PTL DEF Spec

----------------------------------------------------------------------------
\* The plugin's entries in config.yaml

\* The bound on slow lists: no list is overtaken by an edit of config.yaml.
NoSlowLists == \A budget \in Budgets : budget["slow"] = 0

About(process, p) == process.at = "noted" /\ \E n \in process.notes : n.edit.pair = p
Concerns(p) == About(tick, p) \/ About(call, p)
Entered(process, p) ==
  process.at = "noted" =>
    \A n \in process.notes : n.edit.pair = p => n.edit.exclude /\ ~n.edit.drop /\ n.outcome = "applied"

\* An entry is in config.yaml.
InConfig == \A p \in mine : Held(config, p)

\* A list in hand shows the entries, and a channel it lacks is gone.
ListShows(process) ==
  process.at = "apply" /\ ~process.list.failed =>
    /\ \A p \in mine : Shown(process.list.creds, p)
    /\ \A c \in Channels : process.list.creds[c] = Gone => config[c] = Gone

\* So does a list that is fresh, but for an edit still to be noted.
FreshShows == m.fresh => \A p \in mine : Shown(m.creds, p) \/ Concerns(p)

\* An entry is known.
EntriesKnown ==
  \A p \in mine \ forgotten :
    /\ m.exclusions[p] # None
    /\ m.exclusions[p].written \/ (Concerns(p) /\ Entered(tick, p) /\ Entered(call, p))

\* What is to be entered is known, unless the key went.
PlansKnown(process) ==
  process.at = "write" =>
    \A e \in process.edits : e.exclude => ~e.drop /\ (m.exclusions[e.pair] # None \/ config[e.pair[1]] = Gone)

\* What became of an entry that is there still.
NotesTell(process) ==
  process.at = "noted" =>
    \A n \in process.notes : n.edit.pair \in mine =>
      \/ n.outcome \in {"disabled", "inherited"}
      \/ n.edit.exclude /\ ~n.edit.drop /\ n.outcome \in {"applied", "unchanged"}

EntriesKept ==
  /\ InConfig /\ FreshShows /\ EntriesKnown
  /\ ListShows(tick) /\ PlansKnown(tick) /\ NotesTell(tick)
  /\ ListShows(call) /\ PlansKnown(call) /\ NotesTell(call)

\* A process that changes nothing of this.
Rests(old, new) == new = old \/ (old.at # "noted" /\ new.at \notin {"apply", "write", "noted"})

LEMMA QuietKeeps ==
  ASSUME Kinds, EntriesKept, Knows(m, m'), UNCHANGED <<config, mine, forgotten>>, Rests(tick, tick'), Rests(call, call'),
         tick \in Tick, call \in Call
  PROVE  EntriesKept'
<1>1. \A p \in Pairs : About(tick', p) <=> About(tick, p)
  BY DEF Rests, About
<1>2. \A p \in Pairs : About(call', p) <=> About(call, p)
  BY DEF Rests, About
<1>3. \A p \in mine : (Concerns(p))' <=> Concerns(p)
  BY <1>1, <1>2 DEF Concerns, Kinds, About
<1>4. /\ \A p \in Pairs : Entered(tick, p) => Entered(tick', p)
      /\ \A p \in Pairs : Entered(call, p) => Entered(call', p)
  BY DEF Rests, Entered
<1>5. InConfig'
  BY DEF EntriesKept, InConfig
<1>6. FreshShows'
  BY <1>3 DEF EntriesKept, FreshShows, Knows
<1>7. EntriesKnown'
  <2> SUFFICES ASSUME NEW p \in mine \ forgotten
               PROVE  /\ m'.exclusions[p] # None
                      /\ m'.exclusions[p].written \/ (Concerns(p)' /\ Entered(tick', p) /\ Entered(call', p))
    BY DEF EntriesKnown, Entered
  <2>1. /\ m.exclusions[p] # None
        /\ m.exclusions[p].written \/ (Concerns(p) /\ Entered(tick, p) /\ Entered(call, p))
    BY DEF EntriesKept, EntriesKnown
  <2>2. p \in Pairs
    BY DEF Kinds
  <2>3. m'.exclusions[p] # None /\ m'.exclusions[p].written = m.exclusions[p].written
    BY <2>1, <2>2 DEF Knows
  <2> QED BY <1>3, <1>4, <2>1, <2>2, <2>3
<1>8. ListShows(tick)' /\ ListShows(call)'
  BY DEF EntriesKept, ListShows, Rests
<1>9. PlansKnown(tick)' /\ PlansKnown(call)'
  <2>1. \A p \in Pairs : m.exclusions[p] # None => m'.exclusions[p] # None
    BY DEF Knows
  <2>2. /\ tick.at = "write" => tick.edits \in SUBSET Edit
        /\ call.at = "write" => call.edits \in SUBSET Edit
        /\ \A e \in Edit : e.pair \in Pairs
    BY EditorType DEF Edit
  <2>3. PlansKnown(tick)'
    BY <2>1, <2>2 DEF EntriesKept, PlansKnown, Rests
  <2>4. PlansKnown(call)'
    BY <2>1, <2>2 DEF EntriesKept, PlansKnown, Rests
  <2> QED BY <2>3, <2>4
<1>10. NotesTell(tick)' /\ NotesTell(call)'
  BY DEF EntriesKept, NotesTell, Rests
<1> QED BY <1>5, <1>6, <1>7, <1>8, <1>9, <1>10 DEF EntriesKept

LEMMA ListsShow ==
  ASSUME Kinds, NEW list \in Lists, ~list.failed
  PROVE  /\ \A p \in Pairs : Held(config, p) => Shown(list.creds, p)
         /\ \A c \in Channels : list.creds[c] = Gone => config[c] = Gone
<1>1. list.creds = [c \in Channels |-> Listing(c, config[c])]
  BY DEF Lists
<1>2. \A c \in Channels : list.creds[c] = Listing(c, config[c])
  BY <1>1
<1>3. \A c \in Channels : config[c] # Gone => Listing(c, config[c]) # Gone
  <2> TAKE c \in Channels
  <2> HAVE config[c] # Gone
  <2>1. config[c] \in Key
    BY DEF Kinds
  <2>2. PICK key \in Key : key = config[c] /\ key # Gone
    BY <2>1
  <2> DEFINE excluded == IF c \in ConfigKeys THEN Effective(key) ELSE {}
             shown == excluded \ {"*"}
             disabled == "*" \in excluded
             models == IF c \notin Listed THEN NoList ELSE IF "*" \in excluded THEN {} ELSE Models \ excluded
  <2>3. Listing(c, key) = [disabled |-> disabled, excluded |-> shown, models |-> models]
    BY <2>2 DEF Listing
  <2>4. disabled \in BOOLEAN /\ shown \in SUBSET Models /\ models \in (SUBSET Models) \cup {NoList}
    <3>1. excluded \in SUBSET Entries
      BY EffectiveType
    <3> HIDE DEF excluded
    <3> QED BY <3>1 DEF Entries
  <2> HIDE DEF disabled, shown, models
  <2>5. Listing(c, key) \in Credential
    BY <2>3, <2>4, CredentialType
  <2> QED BY <2>2, <2>5, NothingAssumption
<1>4. ASSUME NEW p \in Pairs, Held(config, p) PROVE Shown(list.creds, p)
  <2>1. p[1] \in Channels /\ p[2] \in Models /\ p[1] \in ConfigKeys
    BY <1>4 DEF Pairs, Held
  <2>2. /\ config[p[1]] # Gone /\ config[p[1]].own # NoList /\ p[2] \in config[p[1]].own
    BY <1>4 DEF Held, HeldBy
  <2>3. p[2] \in Effective(config[p[1]]) /\ p[2] # "*"
    BY <2>1, <2>2, EvidenceAssumption DEF Effective
  <2>4. p[2] \in Listing(p[1], config[p[1]]).excluded
    BY <2>1, <2>2, <2>3 DEF Listing
  <2> QED BY <1>2, <1>3, <2>1, <2>2, <2>4 DEF Shown
<1> QED BY <1>2, <1>3, <1>4

\* Nobody edits config.yaml.
Unedited(process) == process.at \notin {"write", "noted"}

\* The manager takes the list in.
LEMMA AppliedKeeps ==
  ASSUME Kinds, EntriesKept, m \in Manager, NEW list \in List, Knows(Applied(m, list), m'),
         \/ tick.at = "apply" /\ tick.list = list
         \/ call.at = "apply" /\ call.list = list,
         UNCHANGED <<config, mine, forgotten>>,
         \/ call' = call /\ tick.at = "apply" /\ tick'.at \notin {"apply", "write", "noted"}
         \/ tick' = tick /\ call.at = "apply" /\ call'.at \notin {"apply", "write", "noted"},
         tick \in Tick, call \in Call
  PROVE  EntriesKept'
<1> DEFINE t == Applied(m, list)
<1>1. /\ ~list.failed => /\ \A p \in mine : Shown(list.creds, p)
                         /\ \A c \in Channels : list.creds[c] = Gone => config[c] = Gone
  BY DEF EntriesKept, ListShows
<1>2. /\ list.failed => t.creds = m.creds /\ t.exclusions = m.exclusions /\ t.fresh = m.fresh
      /\ ~list.failed => t.creds = list.creds
      /\ \A p \in Pairs : t.exclusions[p] = m.exclusions[p] \/ (~list.failed /\ list.creds[p[1]] = Gone)
  BY AppliedType
<1>3. Knows(t, m')
  OBVIOUS
<1> HIDE DEF t
<1>4. \A p \in Pairs : /\ About(tick', p) <=> About(tick, p)
                       /\ About(call', p) <=> About(call, p)
                       /\ Entered(tick, p) => Entered(tick', p)
                       /\ Entered(call, p) => Entered(call', p)
  BY DEF About, Entered
<1>5. \A p \in Pairs : (Concerns(p))' <=> Concerns(p)
  BY <1>4 DEF Concerns, About
<1>6. InConfig'
  BY DEF EntriesKept, InConfig
<1>7. FreshShows'
  <2> SUFFICES ASSUME m'.fresh, NEW p \in mine PROVE Shown(m'.creds, p) \/ Concerns(p)'
    BY DEF FreshShows
  <2>1. p \in Pairs
    BY DEF Kinds
  <2> QED BY <1>1, <1>2, <1>3, <1>5, <2>1 DEF EntriesKept, FreshShows, Knows
<1>8. \A p \in mine : m'.exclusions[p] # None <=> m.exclusions[p] # None
  <2> TAKE p \in mine
  <2>1. p \in Pairs
    BY DEF Kinds
  <2>2. t.exclusions[p] = m.exclusions[p]
    BY <1>1, <1>2, <2>1 DEF Shown
  <2> QED BY <1>3, <2>1, <2>2 DEF Knows
<1>9. EntriesKnown'
  <2> SUFFICES ASSUME NEW p \in mine \ forgotten
               PROVE  /\ m'.exclusions[p] # None
                      /\ m'.exclusions[p].written \/ (Concerns(p)' /\ Entered(tick', p) /\ Entered(call', p))
    BY DEF EntriesKnown, Entered
  <2>1. /\ m.exclusions[p] # None
        /\ m.exclusions[p].written \/ (Concerns(p) /\ Entered(tick, p) /\ Entered(call, p))
    BY DEF EntriesKept, EntriesKnown
  <2>2. p \in Pairs
    BY DEF Kinds
  <2>3. t.exclusions[p] = m.exclusions[p]
    BY <1>1, <1>2, <2>2 DEF Shown
  <2>4. m'.exclusions[p] # None /\ m'.exclusions[p].written = m.exclusions[p].written
    BY <1>3, <2>1, <2>2, <2>3 DEF Knows
  <2> QED BY <1>4, <1>5, <2>1, <2>2, <2>4
<1>10. ListShows(tick)' /\ ListShows(call)'
  BY DEF EntriesKept, ListShows
<1>11. PlansKnown(tick)' /\ PlansKnown(call)'
  <2>1. \A p \in Pairs : m.exclusions[p] # None => m'.exclusions[p] # None \/ config[p[1]] = Gone
    <3> SUFFICES ASSUME NEW p \in Pairs, m.exclusions[p] # None, config[p[1]] # Gone PROVE m'.exclusions[p] # None
      OBVIOUS
    <3>1. p[1] \in Channels
      BY DEF Pairs
    <3>2. t.exclusions[p] = m.exclusions[p]
      BY <1>1, <1>2, <3>1
    <3> QED BY <1>3, <3>2 DEF Knows
  <2>2. /\ tick.at = "write" => tick.edits \in SUBSET Edit
        /\ call.at = "write" => call.edits \in SUBSET Edit
        /\ \A e \in Edit : e.pair \in Pairs
    BY EditorType DEF Edit
  <2>3. PlansKnown(tick)'
    BY <2>1, <2>2 DEF EntriesKept, PlansKnown
  <2>4. PlansKnown(call)'
    BY <2>1, <2>2 DEF EntriesKept, PlansKnown
  <2> QED BY <2>3, <2>4
<1>12. NotesTell(tick)' /\ NotesTell(call)'
  BY DEF EntriesKept, NotesTell
<1> QED BY <1>6, <1>7, <1>9, <1>10, <1>11, <1>12 DEF EntriesKept

\* While nobody edits config.yaml, a plan finds every entry written, and shown.
LEMMA UneditedShown ==
  ASSUME Kinds, EntriesKept, Unedited(tick), Unedited(call)
  PROVE  /\ m.fresh => \A p \in mine : Shown(m.creds, p)
         /\ \A p \in mine \ forgotten : m.exclusions[p] # None /\ m.exclusions[p].written
BY DEF EntriesKept, FreshShows, EntriesKnown, Concerns, About, Unedited

\* A plan made.
LEMMA PlansKeep ==
  ASSUME Kinds, EntriesKept, m \in Manager, NEW s \in Manager, Knows(m, s), Unedited(tick), Unedited(call),
         NEW process, NEW idle, NEW then, Plans(process, s, idle, then), UNCHANGED <<config, mine, forgotten>>,
         idle.at \notin {"apply", "write", "noted"},
         \/ then = tick' /\ call' = call
         \/ then = call' /\ tick' = tick
  PROVE  EntriesKept'
<1>1. PICK plan \in {IF owns THEN Planned(s, late) ELSE [s |-> s, edits |-> {}] : late \in SUBSET {"grace", "retry", "trial"}} :
         /\ m' = plan.s
         /\ then = IF plan.edits = {} THEN idle ELSE [at |-> "write", edits |-> plan.edits]
  BY DEF Plans
<1>2. PICK late \in SUBSET {"grace", "retry", "trial"} : plan = IF owns THEN Planned(s, late) ELSE [s |-> s, edits |-> {}]
  BY <1>1
<1>3. /\ m.fresh => \A p \in mine : Shown(m.creds, p)
      /\ \A p \in mine \ forgotten : m.exclusions[p] # None /\ m.exclusions[p].written
  BY UneditedShown
<1>4. /\ plan.s.creds = s.creds /\ plan.s.fresh = s.fresh
      /\ \A e \in plan.edits : e.exclude => ~e.drop /\ plan.s.exclusions[e.pair] # None
      /\ \A p \in Pairs :
           s.exclusions[p] # None /\ s.exclusions[p].written /\ (s.fresh => Shown(s.creds, p)) =>
             plan.s.exclusions[p] # None /\ plan.s.exclusions[p].written
  <2>1. CASE owns
    <3>1. plan = Planned(s, late)
      BY <1>2, <2>1
    <3> QED BY <3>1, PlannedFacts
  <2>2. CASE ~owns
    BY <1>2, <2>2
  <2> QED BY <2>1, <2>2
<1>5. InConfig'
  BY DEF EntriesKept, InConfig
<1>6. FreshShows'
  BY <1>1, <1>3, <1>4 DEF FreshShows, Knows
<1>7. \A p \in mine \ forgotten : m'.exclusions[p] # None /\ m'.exclusions[p].written
  <2> TAKE p \in mine \ forgotten
  <2>1. p \in Pairs /\ m.exclusions[p] # None /\ m.exclusions[p].written
    BY <1>3 DEF Kinds
  <2>2. s.exclusions[p] # None /\ s.exclusions[p].written /\ (s.fresh => Shown(s.creds, p))
    BY <1>3, <2>1 DEF Knows
  <2> QED BY <1>1, <1>4, <2>1, <2>2
<1>8. EntriesKnown'
  BY <1>7 DEF EntriesKnown
<1>9. then.at \notin {"apply", "noted"} /\ (then.at = "write" => then.edits = plan.edits)
  BY <1>1
<1>10. PlansKnown(tick)' /\ PlansKnown(call)'
  BY <1>1, <1>4, <1>9 DEF PlansKnown, Unedited
<1>11. ListShows(tick)' /\ ListShows(call)'
  BY <1>9 DEF EntriesKept, ListShows
<1>12. NotesTell(tick)' /\ NotesTell(call)'
  BY <1>9 DEF NotesTell, Unedited
<1> QED BY <1>5, <1>6, <1>8, <1>10, <1>11, <1>12 DEF EntriesKept

\* An edit of config.yaml, or one that failed.
LEMMA WritesKeep ==
  ASSUME Kinds, EntriesKept, left["slow"] = 0, NEW process, NEW other, NEW then, Writes(process, other, then),
         process.at = "write", process.edits \in SUBSET Edit, Distinct(process), Unedited(other),
         UNCHANGED <<m, forgotten>>,
         \/ process = tick /\ other = call /\ then = tick' /\ call' = call
         \/ process = call /\ other = tick /\ then = call' /\ tick' = tick
  PROVE  EntriesKept'
<1> DEFINE done == Edited(process.edits)
           entered == {n.edit.pair : n \in {x \in done.notes : x.outcome \in {"applied"} /\ x.edit.exclude = TRUE}}
           taken == {n.edit.pair : n \in {x \in done.notes : x.outcome \in {"applied"} /\ x.edit.exclude = FALSE}}
<1>1. WroteSo(process.edits, done)
  BY EditedWrites DEF Kinds, Distinct
<1>2. \/ /\ config' = done.config /\ mine' = (mine \cup entered) \ taken
         /\ then = [at |-> "noted", notes |-> done.notes]
         /\ other.at # "apply"
      \/ then = [at |-> "noted", notes |-> {}] /\ UNCHANGED <<config, mine>>
  <2>1. Come(Failed(other.at # "apply", "slow")) => other.at # "apply"
    BY DEF Come, Failed
  <2>2. Come(Failed(other.at # "apply", "slow")) => (other.at # "apply") \in BOOLEAN
    OBVIOUS
  <2> HIDE DEF done
  <2> QED BY <2>1 DEF Writes, done
<1> HIDE DEF done
<1>3. /\ m.fresh => \A p \in mine : Shown(m.creds, p)
      /\ \A p \in mine \ forgotten : m.exclusions[p] # None /\ m.exclusions[p].written
  BY DEF EntriesKept, FreshShows, EntriesKnown, Concerns, About, Unedited
<1>4. \A p \in Pairs : ~About(other, p) /\ Entered(other, p)
  BY DEF About, Entered, Unedited
<1>5. CASE then = [at |-> "noted", notes |-> {}] /\ UNCHANGED <<config, mine>>
  <2>1. InConfig'
    BY <1>5 DEF EntriesKept, InConfig
  <2>2. FreshShows' /\ EntriesKnown'
    BY <1>3, <1>5 DEF FreshShows, EntriesKnown
  <2>3. PlansKnown(tick)' /\ PlansKnown(call)'
    BY <1>5 DEF EntriesKept, PlansKnown
  <2>4. ListShows(tick)' /\ ListShows(call)'
    BY <1>5 DEF EntriesKept, ListShows
  <2>5. NotesTell(tick)' /\ NotesTell(call)'
    BY <1>5 DEF EntriesKept, NotesTell
  <2> QED BY <2>1, <2>2, <2>3, <2>4, <2>5 DEF EntriesKept
<1>6. CASE /\ config' = done.config /\ mine' = (mine \cup entered) \ taken
           /\ then = [at |-> "noted", notes |-> done.notes]
           /\ other.at # "apply"
  <2>1. \A n \in done.notes : n.edit \in process.edits /\ n \in Note /\ n.edit.pair \in Pairs
                              /\ n.edit.exclude \in BOOLEAN
                              /\ n.outcome \in {"applied", "unchanged", "disabled", "inherited", "no_key"}
    BY <1>1 DEF WroteSo, Done, Note, Edit
  <2>2. \A p \in entered : \E n \in done.notes : n.edit.pair = p /\ n.edit.exclude /\ n.outcome = "applied"
    OBVIOUS
  <2>3. \A n \in done.notes : ~n.edit.exclude /\ n.outcome = "applied" => n.edit.pair \in taken
    BY <2>1
  <2>4. entered \in SUBSET Pairs
    BY <2>1
  <2> HIDE DEF entered, taken
  <2>5. \A p \in mine' : Held(done.config, p)
    <3> TAKE p \in mine'
    <3>1. CASE p \in mine
      BY <1>1, <1>6, <2>3, <3>1 DEF EntriesKept, InConfig, WroteSo, Kinds
    <3>2. CASE p \in entered
      BY <1>1, <2>2, <3>2 DEF WroteSo
    <3> QED BY <1>6, <3>1, <3>2
  <2>6. InConfig'
    BY <1>6, <2>5 DEF InConfig
  <2>7. \A p \in entered : About(then, p)
    BY <1>6, <2>2 DEF About
  <2>8. \A p \in entered : Concerns(p)'
    BY <2>7 DEF Concerns, About
  <2>9. FreshShows'
    BY <1>3, <1>6, <2>8 DEF FreshShows
  <2>10. ASSUME NEW p \in mine' \ forgotten', p \notin mine
         PROVE  m.exclusions[p] # None /\ Concerns(p)' /\ Entered(then, p)
    <3>1. p \in entered
      BY <1>6, <2>10
    <3>2. PICK n \in done.notes : n.edit.pair = p /\ n.edit.exclude /\ n.outcome = "applied"
      BY <2>2, <3>1
    <3>3. n.edit \in process.edits /\ ~n.edit.drop /\ (m.exclusions[p] # None \/ config[p[1]] = Gone)
      BY <2>1, <3>2 DEF EntriesKept, PlansKnown
    <3>4. p[1] \in Channels /\ p \in Pairs
      BY <2>4, <3>1 DEF Pairs
    <3>5. config[p[1]] # Gone
      BY <1>1, <2>5, <3>4 DEF Held, HeldBy, WroteSo
    <3>6. \A o \in done.notes : o.edit.pair = p => o = n
      BY <1>1, <2>1, <3>2 DEF WroteSo, Distinct
    <3> QED BY <1>6, <2>8, <3>1, <3>2, <3>3, <3>5, <3>6 DEF Entered
  <2>11. EntriesKnown'
    <3> SUFFICES ASSUME NEW p \in mine' \ forgotten'
                 PROVE  /\ m'.exclusions[p] # None
                        /\ m'.exclusions[p].written \/ (Concerns(p)' /\ Entered(tick', p) /\ Entered(call', p))
      BY DEF EntriesKnown, Entered
    <3>1. CASE p \in mine
      BY <1>3, <3>1
    <3>2. CASE p \notin mine
      <4>1. p \in Pairs
        BY <1>6, <2>4, <3>2
      <4> QED BY <1>4, <2>10, <3>2, <4>1
    <3> QED BY <3>1, <3>2
  <2>12. PlansKnown(tick)' /\ PlansKnown(call)'
    BY <1>6 DEF PlansKnown, Unedited
  <2>13. ListShows(tick)' /\ ListShows(call)'
    BY <1>6 DEF ListShows
  <2>14. NotesTell(then)'
    <3> SUFFICES ASSUME NEW n \in done.notes, n.edit.pair \in mine', n.outcome \notin {"disabled", "inherited"}
                 PROVE  n.edit.exclude /\ ~n.edit.drop /\ n.outcome \in {"applied", "unchanged"}
      BY <1>6 DEF NotesTell
    <3> DEFINE p == n.edit.pair
    <3>1. p \in Pairs /\ p[1] \in Channels /\ Held(done.config, p)
      BY <2>1, <2>5 DEF Pairs
    <3>2. n.outcome # "no_key"
      BY <1>1, <3>1 DEF WroteSo, Held, HeldBy
    <3>3. n.edit.exclude
      <4> SUFFICES ASSUME ~n.edit.exclude PROVE FALSE
        BY <2>1
      <4>1. CASE p \in mine
        <5>1. n.outcome = "applied"
          BY <1>1, <4>1 DEF WroteSo, EntriesKept, InConfig
        <5> QED BY <1>6, <2>3, <5>1
      <4>2. CASE p \in entered
        BY <1>1, <2>1, <2>2, <4>2 DEF WroteSo, Distinct
      <4> QED BY <1>6, <4>1, <4>2
    <3>4. ~n.edit.drop
      BY <2>1, <3>3 DEF EntriesKept, PlansKnown
    <3> QED BY <2>1, <3>2, <3>3, <3>4
  <2>15. NotesTell(tick)' /\ NotesTell(call)'
    BY <2>14 DEF NotesTell, Unedited
  <2> QED BY <2>6, <2>9, <2>11, <2>12, <2>13, <2>15 DEF EntriesKept
<1> QED BY <1>2, <1>5, <1>6

\* The edit noted.
LEMMA NotesKeep ==
  ASSUME Kinds, EntriesKept, m \in Manager, NEW process, NEW other, NEW then, Notes(process),
         process.at = "noted", process.notes \in SUBSET Note, Unedited(other),
         UNCHANGED <<config, mine, forgotten>>, then.at \notin {"apply", "write", "noted"},
         \/ process = tick /\ other = call /\ then = tick' /\ call' = call
         \/ process = call /\ other = tick /\ then = call' /\ tick' = tick
  PROVE  EntriesKept'
<1>1. \A p \in Pairs : ~About(other, p) /\ (Concerns(p) <=> About(process, p))
  BY DEF About, Unedited, Concerns
<1>2. InConfig'
  BY DEF EntriesKept, InConfig
<1>3. ListShows(tick)' /\ ListShows(call)'
  BY DEF EntriesKept, ListShows
<1>4. PlansKnown(tick)' /\ PlansKnown(call)'
  BY DEF PlansKnown, Unedited
<1>5. NotesTell(tick)' /\ NotesTell(call)'
  BY DEF NotesTell, Unedited
<1>6. CASE process.notes = {}
  <2>1. m' = [m EXCEPT !.dirty = TRUE]
    BY <1>6 DEF Notes
  <2>2. m'.fresh = m.fresh /\ m'.creds = m.creds /\ m'.exclusions = m.exclusions
    BY <2>1 DEF Manager
  <2>3. \A p \in mine : ~Concerns(p)
    BY <1>1, <1>6 DEF About, Kinds
  <2>4. FreshShows'
    BY <2>2, <2>3 DEF EntriesKept, FreshShows
  <2>5. EntriesKnown'
    BY <2>2, <2>3 DEF EntriesKept, EntriesKnown
  <2> QED BY <1>2, <1>3, <1>4, <1>5, <2>4, <2>5 DEF EntriesKept
<1>7. CASE process.notes # {}
  <2>1. m' = Noted(m, process.notes)
    BY <1>7 DEF Notes
  <2> DEFINE t == Noted(m, process.notes)
             about(p) == {n \in process.notes : n.edit.pair = p}
  <2>6. /\ t.fresh = FALSE
        /\ \A p \in Pairs :
             IF m.exclusions[p] = None \/ about(p) = {} THEN t.exclusions[p] = m.exclusions[p]
             ELSE \E n \in about(p) :
                    /\ n.outcome \in {"applied", "unchanged"} /\ ~n.edit.drop =>
                         t.exclusions[p] = [m.exclusions[p] EXCEPT !.written = n.edit.exclude]
                    /\ n.outcome \in {"disabled", "inherited"} => t.exclusions[p] = m.exclusions[p]
    BY NotedType
  <2> HIDE DEF t
  <2>7. m' = t
    BY <2>1 DEF t
  <2>2. FreshShows'
    BY <2>6, <2>7 DEF FreshShows
  <2>3. \A p \in mine \ forgotten : m'.exclusions[p] # None /\ m'.exclusions[p].written
    <3> TAKE p \in mine \ forgotten
    <3> DEFINE of == {n \in process.notes : n.edit.pair = p}
    <3>1. p \in Pairs
      BY DEF Kinds
    <3>2. /\ m.exclusions[p] # None
          /\ m.exclusions[p].written \/ (Concerns(p) /\ Entered(tick, p) /\ Entered(call, p))
      BY DEF EntriesKept, EntriesKnown
    <3>3. m.exclusions[p] \in Exclusion
      BY <3>1, <3>2 DEF Manager
    <3>4. CASE of = {}
      <4>1. ~About(process, p)
        BY <3>4 DEF About
      <4>2. m'.exclusions[p] = m.exclusions[p]
        BY <2>6, <2>7, <3>1, <3>4
      <4> QED BY <1>1, <3>1, <3>2, <4>1, <4>2
    <3>5. CASE of # {}
      <4>1. PICK n \in of :
              /\ n.outcome \in {"applied", "unchanged"} /\ ~n.edit.drop =>
                   m'.exclusions[p] = [m.exclusions[p] EXCEPT !.written = n.edit.exclude]
              /\ n.outcome \in {"disabled", "inherited"} => m'.exclusions[p] = m.exclusions[p]
        BY <2>6, <2>7, <3>1, <3>2, <3>5
      <4>2. \/ n.outcome \in {"disabled", "inherited"}
            \/ n.edit.exclude /\ ~n.edit.drop /\ n.outcome \in {"applied", "unchanged"}
        BY DEF EntriesKept, NotesTell
      <4>3. CASE n.outcome \in {"disabled", "inherited"}
        <5>1. ~Entered(process, p)
          BY <4>3 DEF Entered
        <5> QED BY <3>2, <4>1, <4>3, <5>1
      <4>4. CASE n.edit.exclude /\ ~n.edit.drop /\ n.outcome \in {"applied", "unchanged"}
        <5>1. m'.exclusions[p] = [m.exclusions[p] EXCEPT !.written = n.edit.exclude]
          BY <4>1, <4>4
        <5>2. m'.exclusions[p] \in Exclusion /\ m'.exclusions[p].written = n.edit.exclude
          <6>1. n.edit.exclude \in BOOLEAN
            BY DEF Note, Edit
          <6> QED BY <3>3, <5>1, <6>1 DEF Exclusion
        <5> QED BY <4>4, <5>2, NoneAssumption
      <4> QED BY <4>2, <4>3, <4>4
    <3> QED BY <3>4, <3>5
  <2>4. EntriesKnown'
    BY <2>3 DEF EntriesKnown
  <2> QED BY <1>2, <1>3, <1>4, <1>5, <2>2, <2>4 DEF EntriesKept
<1> QED BY <1>6, <1>7

\* An operator's edit in CPA's panel.
LEMMA PanelKeeps ==
  ASSUME Kinds, EntriesKept, NEW c \in Channels, NEW edit \in PanelEdits, NEW x \in Models, PanelSaves(c, edit, x),
         tick \in Tick, call \in Call
  PROVE  EntriesKept'
<1>1. /\ c \in ConfigKeys /\ config[c] # Gone /\ config' = [config EXCEPT ![c] = PanelEdited(config[c], edit, x)]
      /\ mine' = IF edit = "remove" THEN {p \in mine : p[1] # c} ELSE IF edit = "include" THEN mine \ {<<c, x>>} ELSE mine
      /\ UNCHANGED <<m, tick, call, forgotten>>
  BY DEF PanelSaves
<1>2. /\ mine' \subseteq mine
      /\ \A d \in Channels : config[d] = Gone => config'[d] = Gone
      /\ \A d \in Channels : d # c => config'[d] = config[d]
      /\ config'[c] = PanelEdited(config[c], edit, x)
  BY <1>1 DEF Kinds
<1>3. \A p \in mine' : Held(config', p)
  <2> TAKE p \in mine'
  <2>1. p \in mine /\ p[1] \in Channels /\ p[2] \in Models /\ p = <<p[1], p[2]>> /\ Held(config, p)
    BY <1>2 DEF Kinds, Pairs, EntriesKept, InConfig
  <2>2. CASE p[1] # c
    BY <1>2, <2>1, <2>2 DEF Held
  <2>3. CASE p[1] = c
    <3> DEFINE key == config[c]
    <3>1. key \in Key /\ key.own # NoList /\ p[2] \in key.own /\ Effective(key) = key.own
      BY <1>1, <2>1, <2>3 DEF Kinds, Held, HeldBy, Effective
    <3>2. key.own \in SUBSET Entries /\ p[2] # "*"
      BY <2>1, <3>1, EvidenceAssumption DEF Key
    <3>3. edit # "remove" /\ (edit = "include" => p[2] # x)
      BY <1>1, <2>1, <2>3
    <3>4. edit \in {"exclude", "include", "disable", "enable"}
      BY <3>3, NativeAssumption
    <3> HIDE DEF key
    <3>5. PICK own \in SUBSET Entries : PanelEdited(key, edit, x) = [key EXCEPT !.own = own] /\ p[2] \in own
      <4>1. /\ key.own \cup {x} \in SUBSET Entries /\ key.own \ {x} \in SUBSET Entries
            /\ key.own \cup {"*"} \in SUBSET Entries /\ key.own \ {"*"} \in SUBSET Entries
        BY <3>2 DEF Entries
      <4>2. CASE edit = "exclude"
        BY <3>1, <4>1, <4>2 DEF PanelEdited
      <4>3. CASE edit = "include"
        BY <3>1, <3>3, <4>1, <4>3 DEF PanelEdited
      <4>4. CASE edit = "disable"
        BY <3>1, <4>1, <4>4 DEF PanelEdited
      <4>5. CASE edit = "enable"
        BY <3>1, <3>2, <4>1, <4>5 DEF PanelEdited
      <4> QED BY <3>4, <4>2, <4>3, <4>4, <4>5
    <3>6. [key EXCEPT !.own = own] \in Key /\ [key EXCEPT !.own = own].own = own
      BY <3>1 DEF Key
    <3>7. own # NoList
      BY NothingAssumption
    <3> QED BY <1>1, <1>2, <2>3, <3>5, <3>6, <3>7, KeyNotGone DEF Held, HeldBy, key
  <2> QED BY <2>2, <2>3
<1>4. InConfig'
  BY <1>3 DEF InConfig
<1>5. FreshShows'
  BY <1>1, <1>2 DEF EntriesKept, FreshShows, Concerns
<1>6. EntriesKnown'
  BY <1>1, <1>2 DEF EntriesKept, EntriesKnown, Concerns
<1>7. ListShows(tick)' /\ ListShows(call)'
  BY <1>1, <1>2 DEF EntriesKept, ListShows
<1>8. PlansKnown(tick)' /\ PlansKnown(call)'
  <2>1. /\ tick.at = "write" => tick.edits \in SUBSET Edit
        /\ call.at = "write" => call.edits \in SUBSET Edit
        /\ \A e \in Edit : e.pair[1] \in Channels
    BY EditorType DEF Edit, Pairs
  <2> QED BY <1>1, <1>2, <2>1 DEF EntriesKept, PlansKnown
<1>9. NotesTell(tick)' /\ NotesTell(call)'
  BY <1>1, <1>2 DEF EntriesKept, NotesTell
<1> QED BY <1>4, <1>5, <1>6, <1>7, <1>8, <1>9 DEF EntriesKept

\* What a restart does not find in the file is forgotten.
LEMMA ReopenedKeeps == ASSUME Kinds, EntriesKept, Typed, Reopened PROVE EntriesKept'
<1>1. m'.exclusions = file.exclusions /\ m'.fresh = FALSE /\ tick' = Idle /\ call' = Idle /\ config' = config /\ mine' = mine
  BY ReopenedTyped DEF Reopened
<1>2. \A p \in mine' \ forgotten' : m'.exclusions[p] # None /\ m'.exclusions[p].written
  <2> TAKE p \in mine' \ forgotten'
  <2> DEFINE told == IF file.exclusions[p] = None THEN NewExclusion ELSE file.exclusions[p]
  <2>1. p \in mine /\ told.written
    BY DEF Reopened
  <2>2. ~NewExclusion.written
    BY DEF NewExclusion
  <2> QED BY <1>1, <2>1, <2>2
<1>3. InConfig'
  BY <1>1 DEF EntriesKept, InConfig
<1>4. FreshShows' /\ EntriesKnown'
  BY <1>1, <1>2 DEF FreshShows, EntriesKnown
<1>5. /\ ListShows(tick)' /\ ListShows(call)' /\ PlansKnown(tick)' /\ PlansKnown(call)'
      /\ NotesTell(tick)' /\ NotesTell(call)'
  BY <1>1 DEF ListShows, PlansKnown, NotesTell, Idle
<1> QED BY <1>3, <1>4, <1>5 DEF EntriesKept

LEMMA EntriesInit == Init => EntriesKept
<1> SUFFICES ASSUME Init PROVE EntriesKept
  OBVIOUS
<1>1. mine = {} /\ tick = Idle /\ call = Idle
  BY DEF Init
<1> QED BY <1>1 DEF EntriesKept, InConfig, FreshShows, EntriesKnown, ListShows, PlansKnown, NotesTell, Idle

\* The bound is kept.
LEMMA NoneSlow == ASSUME left["slow"] = 0, [Next]_vars PROVE left'["slow"] = 0
<1>1. \A events : Come(events) => left'["slow"] = 0
  BY DEF Come, Events
<1>2. \A s, events : Flush(s, events) => left'["slow"] = 0
  BY <1>1 DEF Flush
<1>3. \A process, other, then : Writes(process, other, then) => left'["slow"] = 0
  BY <1>1 DEF Writes
<1>4. CASE UNCHANGED left
  BY <1>4
<1>5. CASE Ticks
  BY <1>1, <1>2, <1>3, <1>5 DEF Ticks, TickLists, TickApplies, TickPlans, TickWrites, TickNotes, TickRounds
<1>6. CASE Calls
  <2>1. ASSUME NEW p \in Pairs, NEW kept \in BOOLEAN, Keep(p, kept) PROVE left'["slow"] = 0
    BY <1>1, <2>1 DEF Keep
  <2>2. ASSUME NEW settings \in Settings, Update(settings) PROVE left'["slow"] = 0
    BY <1>1, <2>2 DEF Update
  <2>3. ASSUME NEW only \in Asked, ProbeNow(only) PROVE left'["slow"] = 0
    BY <1>1, <2>3 DEF ProbeNow
  <2>4. CASE CallPlans \/ CallWrites \/ CallNotes \/ ProbeNowApplies
    BY <1>3, <2>4 DEF CallPlans, CallWrites, CallNotes, ProbeNowApplies
  <2> QED BY <1>6, <2>1, <2>2, <2>3, <2>4 DEF Calls
<1>7. ASSUME NEW c \in Channels, Jobs(c) PROVE UNCHANGED left
  BY <1>7 DEF Jobs, JobStarts, JobAnswers, JobHasNoRoute, JobIsCut
<1>8. RoundEnds \/ SearchOff \/ HandOff => left'["slow"] = 0
  BY <1>2 DEF RoundEnds, SearchOff, HandOff
<1>9. SearchOn \/ RolledBack \/ TakenOver => UNCHANGED left
  BY DEF SearchOn, RolledBack, TakenOver
<1>10. Crash => left'["slow"] = 0
  BY <1>1 DEF Crash
<1>11. ASSUME NEW c \in Channels, NEW x \in Models, ObserveFailure(c, x) PROVE left'["slow"] = 0
  BY <1>1, <1>11 DEF ObserveFailure
<1>12. ASSUME NEW c \in Channels, NEW edit \in PanelEdits, NEW x \in Models, PanelSaves(c, edit, x) PROVE left'["slow"] = 0
  BY <1>1, <1>12 DEF PanelSaves
<1>13. CASE UNCHANGED vars
  BY <1>13 DEF vars
<1> QED BY <1>4, <1>5, <1>6, <1>7, <1>8, <1>9, <1>10, <1>11, <1>12, <1>13 DEF Next

LEMMA EntriesStep ==
  ASSUME Typed, EntriesKept, left["slow"] = 0, [Next]_vars
  PROVE  EntriesKept'
<1>1. Sound(m) /\ Processes /\ Kinds /\ m \in Manager /\ JobsOK(m) /\ file \in Stored /\ tick \in Tick /\ call \in Call
  BY TypedParts DEF Sound, Processes, Kinds
<1>2. editing = None => Unedited(tick) /\ Unedited(call)
  BY <1>1, NoneAssumption DEF Processes, Editing, Unedited
<1>3. /\ tick.at \in {"write", "noted"} => Unedited(call)
      /\ call.at \in {"write", "noted"} => Unedited(tick)
  BY <1>1 DEF Processes, Editing, Unedited
<1>4. ASSUME Knows(m, m'), UNCHANGED <<config, mine, forgotten>>, Rests(tick, tick'), Rests(call, call') PROVE EntriesKept'
  BY <1>1, <1>4, QuietKeeps
<1>5. ASSUME Works(m, m'), UNCHANGED <<config, tick, call, mine, forgotten>> PROVE EntriesKept'
  BY <1>4, <1>5 DEF Works, Rests
<1>6. CASE TickLists
  <2>1. tick.at # "noted" /\ m' = m /\ UNCHANGED <<config, mine, forgotten, call>>
    BY <1>6 DEF TickLists, past
  <2>2. CASE \E list \in Lists : tick' = [at |-> "apply", list |-> list, again |-> tick.at = "relist"]
    <3>1. PICK list \in Lists : tick' = [at |-> "apply", list |-> list, again |-> tick.at = "relist"]
      BY <2>2
    <3>2. tick'.at = "apply" /\ tick'.list = list
      BY <3>1
    <3>3. ListShows(tick)'
      <4>1. ~list.failed => /\ \A p \in mine : Shown(list.creds, p)
                            /\ \A c \in Channels : list.creds[c] = Gone => config[c] = Gone
        BY <1>1, ListsShow DEF EntriesKept, InConfig, Kinds
      <4> QED BY <2>1, <3>2, <4>1 DEF ListShows
    <3>4. InConfig' /\ ListShows(call)' /\ PlansKnown(call)' /\ NotesTell(call)'
      BY <2>1 DEF EntriesKept, InConfig, ListShows, PlansKnown, NotesTell
    <3>5. PlansKnown(tick)' /\ NotesTell(tick)'
      BY <3>2 DEF PlansKnown, NotesTell
    <3>6. \A p : /\ (Concerns(p))' <=> Concerns(p)
                 /\ Entered(tick', p)
      BY <2>1, <3>2 DEF Concerns, About, Entered
    <3>7. FreshShows'
      BY <2>1, <3>6 DEF EntriesKept, FreshShows
    <3>8. EntriesKnown'
      BY <2>1, <3>6 DEF EntriesKept, EntriesKnown, Entered
    <3> QED BY <3>3, <3>4, <3>5, <3>7, <3>8 DEF EntriesKept
  <2>3. CASE tick' = [at |-> "rebuild"]
    BY <1>4, <2>1, <2>3 DEF Rests, Knows
  <2> QED BY <1>6, <2>2, <2>3 DEF TickLists
<1>7. CASE TickApplies
  <2>1. PICK stale \in Some("age") : m' = Rebuilt(IF tick.at = "apply" THEN Applied(m, tick.list) ELSE m, stale)
    BY <1>7 DEF TickApplies
  <2>2. UNCHANGED <<config, call, mine, forgotten>> /\ tick'.at \notin {"apply", "write", "noted"} /\ tick.at # "noted"
    BY <1>7 DEF TickApplies
  <2>3. CASE tick.at = "apply"
    <3>1. tick.list \in List
      BY <1>1, <2>3, EditorType
    <3>2. Applied(m, tick.list) \in Manager
      BY <1>1, <3>1, AppliedType
    <3>3. Knows(Applied(m, tick.list), m')
      BY <2>1, <2>3, <3>2, RebuiltType DEF Knows, Carries
    <3> QED BY <1>1, <2>2, <2>3, <3>1, <3>3, AppliedKeeps
  <2>4. CASE tick.at # "apply"
    <3>1. Knows(m, m')
      BY <1>1, <2>1, <2>4, RebuiltType DEF Knows, Carries
    <3> QED BY <1>4, <2>2, <3>1 DEF Rests
  <2> QED BY <2>3, <2>4
<1>8. CASE TickPlans
  <2>1. Plans("tick", m, [at |-> "round"], tick') /\ UNCHANGED <<config, call, mine, forgotten>> /\ Knows(m, m)
    BY <1>8 DEF TickPlans, past, Knows
  <2>2. editing = None /\ [at |-> "round"].at \notin {"apply", "write", "noted"}
    BY <2>1 DEF Plans
  <2> QED BY <1>1, <1>2, <2>1, <2>2, PlansKeep
<1>9. CASE TickWrites
  <2>1. /\ Writes(tick, call, tick') /\ tick.at = "write" /\ tick.edits \in SUBSET Edit /\ Distinct(tick)
        /\ Unedited(call) /\ UNCHANGED <<m, forgotten, call>>
    BY <1>1, <1>3, <1>9, EditorType DEF TickWrites, Processes
  <2> QED BY <1>1, <2>1, WritesKeep
<1>10. CASE TickNotes
  <2>1. /\ Notes(tick) /\ tick.at = "noted" /\ tick.notes \in SUBSET Note /\ Unedited(call)
        /\ UNCHANGED <<config, mine, forgotten, call>> /\ tick'.at \notin {"apply", "write", "noted"}
    BY <1>1, <1>3, <1>10, EditorType DEF TickNotes, Processes, past
  <2> QED BY <1>1, <2>1, NotesKeep
<1>11. CASE TickRounds
  <2>1. PICK s \in Manager : Flush(s, {}) /\ Knows(m, s)
    <3>1. CASE Flush(m, {})
      BY <1>1, <3>1 DEF Knows
    <3>2. CASE \E jobs : Flush([m EXCEPT !.round = NewRound(jobs)], {}) /\ NewRound(jobs) \in Round
      <4>1. PICK jobs : Flush([m EXCEPT !.round = NewRound(jobs)], {}) /\ NewRound(jobs) \in Round
        BY <3>2
      <4>2. [m EXCEPT !.round = NewRound(jobs)] \in Manager /\ Knows(m, [m EXCEPT !.round = NewRound(jobs)])
        BY <1>1, <4>1 DEF Manager, Knows
      <4> QED BY <4>1, <4>2
    <3>3. ASSUME NEW full \in BOOLEAN, NEW over \in BOOLEAN, NEW cooling \in Some("cool"),
                 NEW jobs \in [Channels -> UNION {DueJobs(c, full, over) : c \in Channels}],
                 \A c \in Channels : jobs[c] \in IF c \in cooling THEN {None} ELSE DueJobs(c, full, over)
          PROVE  NewRound(jobs) \in Round
      <4>1. \A c \in Channels : jobs[c] = None \/ jobs[c] \in DueJobs(c, full, over)
        BY <3>3
      <4>2. jobs \in [Channels -> Job \cup {None}]
        BY <1>1, <4>1, DueJobsType
      <4> QED BY <4>2 DEF NewRound, Round
    <3>4. \/ Flush(m, {})
          \/ \E full, over \in BOOLEAN, cooling \in Some("cool") :
               \E jobs \in [Channels -> UNION {DueJobs(c, full, over) : c \in Channels}] :
                 /\ \A c \in Channels : jobs[c] \in IF c \in cooling THEN {None} ELSE DueJobs(c, full, over)
                 /\ Flush([m EXCEPT !.round = NewRound(jobs)], {})
      BY <1>11 DEF TickRounds
    <3> QED BY <3>1, <3>2, <3>3, <3>4
  <2>2. PICK r \in Flushed(s) : m' = r.s /\ file' = r.file
    BY <2>1 DEF Flush
  <2>3. Carries(s, m')
    BY <1>1, <2>2, FlushedType
  <2>4. Knows(m, m')
    BY <2>1, <2>3 DEF Knows, Carries
  <2>5. tick' = [at |-> "idle"] /\ tick.at = "round" /\ UNCHANGED <<config, mine, forgotten, call>>
    BY <1>11 DEF TickRounds, past, Idle
  <2> QED BY <1>4, <2>4, <2>5 DEF Rests
<1>12. ASSUME NEW p \in Pairs, NEW kept \in BOOLEAN, Keep(p, kept) PROVE EntriesKept'
  <2>1. PICK s : Works(m, s) /\ Plans("call", s, Idle, call')
    BY <1>1, <1>12, KeepPlans
  <2>2. editing = None /\ Idle.at \notin {"apply", "write", "noted"} /\ UNCHANGED <<config, tick, mine, forgotten>>
    BY <1>12, <2>1 DEF Plans, Idle, Keep
  <2>3. s \in Manager /\ Knows(m, s)
    BY <2>1 DEF Works
  <2> QED BY <1>1, <1>2, <2>1, <2>2, <2>3, PlansKeep
<1>13. ASSUME NEW settings \in Settings, Update(settings) PROVE EntriesKept'
  <2>1. m'.exclusions = m.exclusions /\ m'.creds = m.creds /\ m'.fresh = m.fresh /\ (call' = [at |-> "plan"] \/ call' = [at |-> "idle"])
    BY <1>1, <1>13, UpdateSound DEF Idle
  <2>2. call = [at |-> "idle"] /\ UNCHANGED <<config, tick, mine, forgotten>>
    BY <1>13 DEF Update, Called, Idle, past
  <2> QED BY <1>4, <2>1, <2>2 DEF Knows, Rests
<1>14. CASE CallPlans
  <2>1. Plans("call", m, Idle, call') /\ UNCHANGED <<config, tick, mine, forgotten>> /\ Knows(m, m)
    BY <1>14 DEF CallPlans, past, Knows
  <2>2. editing = None /\ Idle.at \notin {"apply", "write", "noted"}
    BY <2>1 DEF Plans, Idle
  <2> QED BY <1>1, <1>2, <2>1, <2>2, PlansKeep
<1>15. CASE CallWrites
  <2>1. /\ Writes(call, tick, call') /\ call.at = "write" /\ call.edits \in SUBSET Edit /\ Distinct(call)
        /\ Unedited(tick) /\ UNCHANGED <<m, forgotten, tick>>
    BY <1>1, <1>3, <1>15, EditorType DEF CallWrites, Processes
  <2> QED BY <1>1, <2>1, WritesKeep
<1>16. CASE CallNotes
  <2>1. /\ Notes(call) /\ call.at = "noted" /\ call.notes \in SUBSET Note /\ Unedited(tick)
        /\ UNCHANGED <<config, mine, forgotten, tick>> /\ call'.at \notin {"apply", "write", "noted"}
    BY <1>1, <1>3, <1>16, EditorType DEF CallNotes, Processes, past, Idle
  <2> QED BY <1>1, <2>1, NotesKeep
<1>17. ASSUME NEW only \in Asked, ProbeNow(only) PROVE EntriesKept'
  <2>1. PICK list \in Lists : call' = [at |-> "apply", list |-> list, only |-> only]
    BY <1>17 DEF ProbeNow
  <2>2. call = [at |-> "idle"] /\ UNCHANGED <<m, config, tick, mine, forgotten>> /\ call'.at = "apply" /\ call'.list = list
    BY <1>17, <2>1 DEF ProbeNow, Called, Idle, past
  <2>3. ListShows(call)'
    <3>1. ~list.failed => /\ \A p \in mine : Shown(list.creds, p)
                          /\ \A c \in Channels : list.creds[c] = Gone => config[c] = Gone
      BY <1>1, ListsShow DEF EntriesKept, InConfig, Kinds
    <3> QED BY <2>2, <3>1 DEF ListShows
  <2>4. InConfig' /\ ListShows(tick)' /\ PlansKnown(tick)' /\ NotesTell(tick)'
    BY <2>2 DEF EntriesKept, InConfig, ListShows, PlansKnown, NotesTell
  <2>5. PlansKnown(call)' /\ NotesTell(call)'
    BY <2>2 DEF PlansKnown, NotesTell
  <2>6. \A p : /\ (Concerns(p))' <=> Concerns(p)
               /\ Entered(call', p)
    BY <2>2 DEF Concerns, About, Entered
  <2>7. FreshShows'
    BY <2>2, <2>6 DEF EntriesKept, FreshShows
  <2>8. EntriesKnown'
    BY <2>2, <2>6 DEF EntriesKept, EntriesKnown, Entered
  <2> QED BY <2>3, <2>4, <2>5, <2>7, <2>8 DEF EntriesKept
<1>18. CASE ProbeNowApplies
  <2>1. PICK s \in {m, Applied(m, call.list)} : Knows(s, m')
    BY <1>1, <1>18, ProbeNowSound
  <2>2. call.at = "apply" /\ call' = [at |-> "idle"] /\ UNCHANGED <<config, tick, mine, forgotten>>
    BY <1>18 DEF ProbeNowApplies, Idle
  <2>3. call.list \in List
    BY <1>1, <2>2, EditorType
  <2>4. CASE s = m
    BY <1>4, <2>1, <2>2, <2>4 DEF Rests
  <2>5. CASE s = Applied(m, call.list)
    BY <1>1, <2>1, <2>2, <2>3, <2>5, AppliedKeeps
  <2> QED BY <2>1, <2>4, <2>5
<1>19. ASSUME NEW c \in Channels, Jobs(c) PROVE EntriesKept'
  BY <1>1, <1>5, <1>19, JobsWork DEF past
<1>20. CASE RoundEnds
  BY <1>1, <1>5, <1>20, RoundEndsWorks DEF RoundEnds, past
<1>21. ASSUME NEW c \in Channels, NEW x \in Models, ObserveFailure(c, x) PROVE EntriesKept'
  BY <1>1, <1>5, <1>21, ObserveFailureWorks DEF ObserveFailure, past
<1>22. ASSUME NEW c \in Channels, NEW edit \in PanelEdits, NEW x \in Models, PanelSaves(c, edit, x) PROVE EntriesKept'
  BY <1>1, <1>22, PanelKeeps
<1>23. CASE SearchOff \/ HandOff
  <2>1. Knows(m, m')
    BY <1>1, <1>23, SwitchSound DEF SearchOff, HandOff
  <2> QED BY <1>4, <1>23, <2>1 DEF SearchOff, HandOff, past, Rests
<1>24. CASE SearchOn \/ RolledBack
  <2>1. Knows(m, m')
    BY <1>1, <1>24, StartedSound DEF SearchOn, RolledBack
  <2> QED BY <1>4, <1>24, <2>1 DEF SearchOn, RolledBack, past, Rests
<1>25. CASE TakenOver \/ Crash
  BY <1>1, <1>25, ReopenedKeeps DEF TakenOver, Crash
<1>26. CASE UNCHANGED vars
  BY <1>4, <1>26 DEF vars, past, Rests, Knows
<1>27. Ticks => TickLists \/ TickApplies \/ TickPlans \/ TickWrites \/ TickNotes \/ TickRounds
  BY DEF Ticks
<1>28. CASE Calls
  BY <1>12, <1>13, <1>14, <1>15, <1>16, <1>17, <1>18, <1>28 DEF Calls
<1> QED BY <1>6, <1>7, <1>8, <1>9, <1>10, <1>11, <1>19, <1>20, <1>21, <1>22, <1>23, <1>24, <1>25, <1>26, <1>27, <1>28 DEF Next

LEMMA AlwaysKept == ASSUME NoSlowLists PROVE Spec => [](Typed /\ EntriesKept)
<1>1. Init => left["slow"] = 0
  BY DEF Init, NoSlowLists
<1>2. ASSUME Typed, EntriesKept, left["slow"] = 0, [Next]_vars
      PROVE  (Typed /\ EntriesKept /\ left["slow"] = 0)'
  BY <1>2, TypedStep, EntriesStep, NoneSlow
<1> QED BY <1>1, <1>2, TypedInit, EntriesInit, PTL DEF Spec

\* OwnEntriesAreKnown: an entry this plugin wrote into config.yaml is known to
\* it, as long as no list of the credentials is overtaken by an edit
\* (reconcile, planLocked, applyCredentialsLocked).
THEOREM EntriesAreKnown == ASSUME NoSlowLists PROVE Spec => []OwnEntriesAreKnown
<1>1. EntriesKept => OwnEntriesAreKnown
  BY DEF EntriesKept, EntriesKnown, OwnEntriesAreKnown, Concerns, About
<1> QED BY <1>1, AlwaysKept, PTL

\* UnwantedIsGivenBack: a tick that plans gives back every entry of this plugin
\* that is not wanted, unless the key is disabled; likewise with no slow list
\* (planLocked).
THEOREM GivesBack == ASSUME NoSlowLists PROVE Spec => UnwantedIsGivenBack
<1> DEFINE A == tick.at = "plan" /\ tick'.at \in {"write", "round"} /\ owns =>
                  \A p \in mine \ forgotten : (Off \/ p[2] \notin m.decisions.native) => GivenBack(p) \/ Waits(p)
<1>1. ASSUME Typed, EntriesKept, [Next]_vars PROVE [A]_vars
  <2> SUFFICES ASSUME Next, tick.at = "plan", tick'.at \in {"write", "round"}, owns,
                      NEW p \in mine \ forgotten, Off \/ p[2] \notin m.decisions.native, ~Waits(p)
               PROVE  GivenBack(p)
    BY <1>1
  <2>1. m \in Manager /\ Kinds /\ Processes /\ p \in Pairs
    BY <1>1, TypedParts DEF Sound, Kinds
  <2>2. TickPlans
    <3>1. tick' # tick /\ tick'.at # "idle"
      OBVIOUS
    <3>2. ~UNCHANGED tick
      BY <3>1
    <3>3. ~Reopened
      BY <3>1 DEF Reopened, Idle
    <3>4. ~Calls
      BY <3>2 DEF Calls, Keep, Update, CallPlans, CallWrites, CallNotes, ProbeNow, ProbeNowApplies
    <3>5. \A c \in Channels : ~Jobs(c)
      BY <3>2 DEF Jobs, JobStarts, JobAnswers, JobHasNoRoute, JobIsCut
    <3>6. ~(RoundEnds \/ SearchOff \/ SearchOn \/ HandOff \/ RolledBack)
      BY <3>2 DEF RoundEnds, SearchOff, SearchOn, HandOff, RolledBack
    <3>7. /\ \A c \in Channels, x \in Models : ~ObserveFailure(c, x)
          /\ \A c \in Channels, edit \in PanelEdits, x \in Models : ~PanelSaves(c, edit, x)
      BY <3>2 DEF ObserveFailure, PanelSaves
    <3>8. ~(TickLists \/ TickApplies \/ TickWrites \/ TickNotes \/ TickRounds)
      BY DEF TickLists, TickApplies, TickWrites, TickNotes, TickRounds
    <3> QED BY <3>3, <3>4, <3>5, <3>6, <3>7, <3>8 DEF Next, Ticks, TakenOver, Crash
  <2>3. PICK plan \in {IF owns THEN Planned(m, late) ELSE [s |-> m, edits |-> {}] : late \in SUBSET {"grace", "retry", "trial"}} :
           /\ editing = None
           /\ tick' = IF plan.edits = {} THEN [at |-> "round"] ELSE [at |-> "write", edits |-> plan.edits]
    BY <2>2 DEF TickPlans, Plans
  <2>4. PICK late \in SUBSET {"grace", "retry", "trial"} : plan = Planned(m, late)
    BY <2>3
  <2>5. Unedited(tick) /\ Unedited(call)
    BY <2>1, <2>3, NoneAssumption DEF Processes, Editing, Unedited
  <2>6. m.exclusions[p] # None /\ m.exclusions[p].written /\ (m.fresh => Shown(m.creds, p))
    BY <1>1, <2>1, <2>5, UneditedShown
  <2>7. ~Active(m) \/ p[2] \notin m.decisions.native
    BY DEF Off, Active
  <2>8. \E e \in plan.edits : e.pair = p /\ ~e.exclude
    BY <2>1, <2>4, <2>6, <2>7, PlannedFacts DEF Waits
  <2>9. plan.edits # {}
    BY <2>8
  <2> QED BY <2>3, <2>8, <2>9 DEF GivenBack
<1>2. [][A]_vars => UnwantedIsGivenBack
  BY PTL DEF UnwantedIsGivenBack
<1> QED BY <1>1, <1>2, AlwaysKept, PTL DEF Spec
===============================================================================
