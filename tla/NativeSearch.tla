----------------------------- MODULE NativeSearch -----------------------------
(***************************************************************************)
(* The manager of internal/search/native: probe rounds, the automatic      *)
(* exclusions it writes into CPA's config.yaml and gives back, the         *)
(* operator's calls, CPA's panel, hot replacement and crashes.             *)
(*                                                                         *)
(* Under mu the manager's state changes in one step; what runs without the *)
(* lock (listing the credentials, editing config.yaml, a probe) is a step  *)
(* of its own.  A tick, one management call, the jobs of a round and       *)
(* client requests interleave.  Times are left to chance: a look at a      *)
(* clock chooses which waits are over ("late").  An edit of config.yaml    *)
(* is one step, since the file is compared just before it is written.      *)
(* The cache of config.yaml only delays what a list shows, as a slow list  *)
(* does.  Logs, the audit log and the status page are left out.            *)
(***************************************************************************)
EXTENDS NativeEvidence, FiniteSetsExt

CONSTANTS
  None,
  Layouts,        \* the keys config.yaml may start with
  DefaultSettings, \* the settings of a first start
  Settings,       \* settings operators save
  Answers,        \* what a channel's upstream answers to a probe
  ProbeConcurrency, \* jobs of a round at a time
  Asked,          \* the channels ProbeNow is asked for
  PanelEdits,     \* what operators change in config.yaml
  Budgets         \* bounds: how many of which events a run may see

\* What a run sees only so often.
Events ==
  {"panel", "keep", "update", "probe", "switch", "handoff", "crash",
   "refuse",  \* an upstream refuses a client's web_search tool; once more soon after is only counted
   "save", "edit", "list", \* a save, an edit or a list fails
   "age",     \* any number of times: searches of some channels are too old by now
   "cool",    \* any number of times: CPA reports some channels as unavailable
   "slow"}    \* config.yaml is edited while another process lists

ASSUME NativeAssumption ==
  /\ Layouts \subseteq Key /\ Settings \subseteq Setting /\ DefaultSettings \in Setting
  /\ Answers \in [Channels -> SUBSET Results]
  /\ ProbeConcurrency \in Nat \ {0}
  /\ Asked \subseteq {Channels} \cup {{c} : c \in Channels}
  /\ PanelEdits \subseteq {"exclude", "include", "disable", "enable", "remove"}
  /\ Budgets \subseteq [Events -> Nat]
  /\ None \notin Channels \cup Models

\* An exclusion. answered and refused: the latest probe, and whether a
\* refusal came, since the trial began.
Exclusion == [written : BOOLEAN, trial : BOOLEAN, answered : Results \cup {"none"}, refused : BOOLEAN,
              kept : {"no", "operator", "config"}]
NewExclusion == [written |-> FALSE, trial |-> FALSE, answered |-> "none", refused |-> FALSE, kept |-> "no"]

\* A job of a round: first is the model to try first, trial that it is back
\* on trial; early and refusedSince: the trial began, a refusal came, after
\* the probe under way did.
Job == [todo : SUBSET Models, first : Models \cup {None}, trial : BOOLEAN, lists : BOOLEAN,
        state : {"waiting", "asking", "done"}, model : Models \cup {None}, early : BOOLEAN, refusedSince : BOOLEAN]
NewJob(todo, first, trial, lists) ==
  [todo |-> todo, first |-> first, trial |-> trial, lists |-> lists, state |-> "waiting", model |-> None,
   early |-> FALSE, refusedSince |-> FALSE]

Round == [cancelled : BOOLEAN, jobs : [Channels -> Job \cup {None}]]

ASSUME NoneAssumption == None \notin Exclusion \cup Job \cup Round \cup {"tick", "call"}

\* An edit of config.yaml, whose exclusion ends with it or not; what became of it.
Edit == [pair : Pairs, exclude : BOOLEAN, drop : BOOLEAN]
Note == [edit : Edit, outcome : {"applied", "unchanged", "disabled", "inherited", "no_key"}]

\* The native search file, and the Manager that Open makes of it.
Listings == [Channels -> Credential \cup {Gone}]
Stored == [settings : Setting, catalog : SUBSET Models, creds : Listings, records : [Channels -> Record],
           exclusions : [Pairs -> Exclusion \cup {None}]]
Decision == [enabled : BOOLEAN, candidates : SUBSET Models, native : SUBSET Models, gaps : SUBSET Pairs,
             strip : SUBSET Channels, refused : SUBSET Pairs]
Manager == [settings : Setting, catalog : SUBSET Models, creds : Listings, records : [Channels -> Record],
            exclusions : [Pairs -> Exclusion \cup {None}], credErr : BOOLEAN, fresh : BOOLEAN, dirty : BOOLEAN,
            started : BOOLEAN, round : Round \cup {None}, decisions : Decision]

\* A tick, a management call: where it is, and what it has in hand.
List == [failed : BOOLEAN, creds : Listings]
Editor == [at : {"write"}, edits : SUBSET Edit] \cup [at : {"noted"}, notes : SUBSET Note]
Tick == Editor \cup [at : {"idle", "relist", "rebuild", "plan", "round"}] \cup [at : {"apply"}, list : List, again : BOOLEAN]
Call == Editor \cup [at : {"idle", "plan"}] \cup [at : {"apply"}, list : List, only : SUBSET Channels]

VARIABLES
  m,         \* the Manager
  file,      \* the native search file: what a restart finds
  config,    \* config.yaml: the key of each channel, or Gone
  owns,      \* this instance holds the data directory
  tick,      \* the tick under way
  call,      \* the management call under way
  editing,   \* who holds editMu
  \* history variables and the bound
  mine,      \* entries of config.yaml this plugin wrote
  released,  \* pairs the operator released and did not resume
  forgotten, \* entries whose exclusion a restart did not find in the file
  left       \* how many of each event may still come

past == <<mine, released, forgotten>>
vars == <<m, file, config, owns, tick, call, editing, past, left>>

Idle == [at |-> "idle"]
Editing(process) == process.at \in {"write", "noted"}

TypeOK ==
  /\ m \in Manager /\ file \in Stored
  /\ config \in [Channels -> Key \cup {Gone}]
  /\ owns \in BOOLEAN /\ tick \in Tick /\ call \in Call
  /\ editing \in {"tick", "call", None}
  /\ editing = "tick" <=> Editing(tick)
  /\ editing = "call" <=> Editing(call)
  /\ mine \subseteq Pairs /\ released \subseteq Pairs /\ forgotten \subseteq Pairs

----------------------------------------------------------------------------
\* The manager under its lock

\* excludableLocked
Excludable(s) ==
  {p \in Pairs : /\ s.settings.autoExclude /\ (s.exclusions[p] # None => s.exclusions[p].kept = "no")
                 /\ p[1] \in ConfigKeys /\ s.creds[p[1]] # Gone /\ ~s.creds[p[1]].disabled}

\* rebuildLocked; stale: the channels whose latest search is too old by now.
Rebuilt(s, stale) ==
  [s EXCEPT !.decisions = Decided(s.settings, s.catalog, s.creds, s.records, Excludable(s), stale)]

\* What a restart finds of s.
Durable(s) == [settings |-> s.settings, catalog |-> s.catalog, creds |-> s.creds,
               records |-> [c \in Channels |-> Pruned(s.records[c], s.catalog)], exclusions |-> s.exclusions]

\* The events come, as the bound allows.
Come(events) ==
  /\ \A e \in events : left[e] > 0
  /\ left' = [e \in Events |-> IF e \in events THEN left[e] - 1 ELSE left[e]]
Some(event) == IF left[event] > 0 THEN SUBSET Channels ELSE {{}}
Failed(ok, event) == IF ok THEN {} ELSE {event}

\* saveLocked: the outcomes, each with the file it leaves.
Saved(s) ==
  LET kept == Durable(s)
  IN  {[s |-> [s EXCEPT !.dirty = FALSE, !.records = kept.records], file |-> kept, ok |-> TRUE]}
      \cup {[s |-> [s EXCEPT !.records = kept.records], file |-> file, ok |-> FALSE]}

Flushed_OfAnyone(s) == IF s.dirty THEN Saved(s) ELSE {[s |-> s, file |-> file, ok |-> TRUE]}

\* flushLocked
Flushed(s) == IF s.dirty /\ owns THEN Saved(s) ELSE {[s |-> s, file |-> file, ok |-> TRUE]}
Flush(s, events) == \E r \in Flushed(s) : m' = r.s /\ file' = r.file /\ Come(events \cup Failed(r.ok, "save"))

\* Open
Opened(data) ==
  LET s == [settings |-> data.settings, catalog |-> data.catalog, creds |-> data.creds, records |-> data.records,
            exclusions |-> data.exclusions, credErr |-> FALSE, fresh |-> FALSE, dirty |-> FALSE,
            started |-> FALSE, round |-> None,
            decisions |-> [enabled |-> FALSE, candidates |-> {}, native |-> {}, gaps |-> {}, strip |-> {}, refused |-> {}]]
  IN  Rebuilt(s, {})

\* applyCredentialsLocked: fresh says listedAt is after editedAt, and it is
\* the time the list is applied.
Applied(s, list) ==
  IF list.failed THEN [s EXCEPT !.credErr = TRUE]
  ELSE IF list.creds = s.creds THEN [s EXCEPT !.credErr = FALSE, !.fresh = TRUE]
  ELSE [s EXCEPT !.credErr = FALSE, !.fresh = TRUE, !.creds = list.creds, !.dirty = TRUE,
                 !.records = [c \in Channels |-> IF list.creds[c] = Gone THEN NoRecord ELSE s.records[c]],
                 !.exclusions = [p \in Pairs |-> IF list.creds[p[1]] = Gone THEN None ELSE s.exclusions[p]]]

\* nativeUpstream.Credentials: a list, or none.
Lists == {[failed |-> FALSE, creds |-> [c \in Channels |-> Listing(c, config[c])]]}
         \cup {[failed |-> TRUE, creds |-> m.creds]}

----------------------------------------------------------------------------
\* planLocked

Active_Stopped(s) == s.settings.enabled /\ s.settings.autoExclude

Active(s) == s.settings.enabled /\ s.settings.autoExclude /\ s.started
CanAdd(s, late) == Active(s) /\ ~s.credErr /\ "grace" \in late

\* The confirmed gaps of native models.
ToAdd(s) ==
  {p \in s.decisions.gaps \cap Excludable(s) :
     p[2] \in s.decisions.native /\ s.exclusions[p] = None /\ Confirmed(s.records[p[1]], p[2])}

\* What a fresh list says of p's entry: someone else took it out of
\* config.yaml, or it is not this plugin's.
Noticed(s, p, e) ==
  LET cred == s.creds[p[1]]
      shown == s.fresh /\ cred # Gone /\ p[1] \in ConfigKeys
      present == p[2] \in cred.excluded
  IN  IF shown /\ e.written /\ ~present
      THEN [e EXCEPT !.written = FALSE, !.kept = IF e.kept = "no" THEN "config" ELSE e.kept]
      ELSE IF shown /\ ~e.written /\ present THEN None
      ELSE e

\* The exclusion moved along, and whether its entry belongs in config.yaml.
Moved(s, p, e, late) ==
  LET native == p[2] \in s.decisions.native
      holds == p[2] \in s.decisions.candidates /\ Confirmed(s.records[p[1]], p[2])
      ignored == e.answered = "no_search" \/ e.refused
      ended == [e EXCEPT !.trial = FALSE, !.answered = "none", !.refused = FALSE]
      out(next, want) == [e |-> next, want |-> want]
  IN  IF s.creds[p[1]] # Gone /\ s.creds[p[1]].disabled THEN out(e, e.written)
      ELSE IF e.kept # "no" \/ ~Active(s) THEN out(e, FALSE)
      ELSE IF e.trial /\ e.answered = "search" THEN out(ended, FALSE)
      ELSE IF e.trial /\ (ignored \/ "trial" \in late) THEN out(ended, native)
      ELSE IF e.trial \/ ~holds THEN out(e, FALSE)
      ELSE IF e.written /\ native /\ "retry" \in late
           THEN out([e EXCEPT !.trial = TRUE, !.answered = "none", !.refused = FALSE], FALSE)
      ELSE out(e, native)

\* The exclusions as planned, and the edits that bring config.yaml in line.
Planned(s, late) ==
  LET add == IF CanAdd(s, late) THEN ToAdd(s) ELSE {}
      known(p) == IF p \in add THEN NewExclusion ELSE s.exclusions[p]
      noticed == [p \in Pairs |-> IF known(p) = None THEN None ELSE Noticed(s, p, known(p))]
      moved == [p \in Pairs |-> IF noticed[p] = None THEN None ELSE Moved(s, p, noticed[p], late)]
      ends(p) == /\ moved[p].e.kept = "no" /\ ~moved[p].e.trial
                 /\ ~Active(s) \/ p[2] \notin s.decisions.candidates \/ ~Confirmed(s.records[p[1]], p[2])
      next == [p \in Pairs |-> IF noticed[p] = None \/ (ends(p) /\ ~moved[p].e.written) THEN None ELSE moved[p].e]
      due(p) == next[p] # None /\ moved[p].want # next[p].written /\ (moved[p].want => CanAdd(s, late))
      trials == {p \in Pairs : next[p] # None /\ next[p].trial /\ ~(noticed[p].trial)}
      begun(c) == [s.round.jobs[c] EXCEPT !.early = @ \/ <<c, s.round.jobs[c].model>> \in trials]
  IN  [s |-> [s EXCEPT !.exclusions = next, !.dirty = @ \/ next # s.exclusions,
                       !.round = IF s.round = None THEN None
                                 ELSE [s.round EXCEPT !.jobs = [c \in Channels |-> IF s.round.jobs[c] = None THEN None ELSE begun(c)]]],
       edits |-> {[pair |-> p, exclude |-> moved[p].want, drop |-> ends(p)] : p \in {q \in Pairs : due(q)}}]

\* channel.EditExcludedModels, in one write: config.yaml after the edits and
\* what became of each.
AfterEdit(edit, done) ==
  LET c == edit.pair[1]
      r == IF edit.exclude THEN ModelExcluded(done.config[c], edit.pair[2]) ELSE ModelRestored(done.config[c], edit.pair[2])
  IN  IF c \notin ConfigKeys \/ done.config[c] = Gone
      THEN [done EXCEPT !.notes = @ \cup {[edit |-> edit, outcome |-> "no_key"]}]
      ELSE [config |-> [done.config EXCEPT ![c] = r.key], notes |-> done.notes \cup {[edit |-> edit, outcome |-> r.outcome]}]
Edited(edits) == FoldSet(AfterEdit, [config |-> config, notes |-> {}], edits)

Noted_StaysFresh(s, notes) ==
  [s EXCEPT !.dirty = TRUE,
            !.exclusions = [p \in Pairs |->
               IF \E n \in notes : n.edit.pair = p /\ n.outcome \in {"applied", "unchanged"} /\ @[p] # None
               THEN LET n == CHOOSE n \in notes : n.edit.pair = p
                    IN  IF n.edit.drop THEN None ELSE [@[p] EXCEPT !.written = n.edit.exclude]
               ELSE @[p]]]

\* reconcile, once the edit returned; an exclusion may be gone meanwhile.
Noted(s, notes) ==
  LET of(p) == {n \in notes : n.edit.pair = p}
      after(e, n) ==
        CASE n.outcome \in {"applied", "unchanged"} -> IF n.edit.drop THEN None ELSE [e EXCEPT !.written = n.edit.exclude]
          [] n.outcome \in {"disabled", "inherited"} -> e
          [] n.outcome = "no_key" -> None
  IN  [s EXCEPT !.fresh = FALSE, !.dirty = TRUE,
                !.exclusions = [p \in Pairs |-> IF @[p] = None \/ of(p) = {} THEN @[p]
                                                ELSE after(@[p], CHOOSE n \in of(p) : TRUE)]]

----------------------------------------------------------------------------
\* Init

\* A first start: nothing is known, and the catalog Codex was shown.
Init ==
  /\ config \in {k \in [Channels -> Layouts \cup {[own |-> NoList, inherited |-> NoList]}] :
                   \A c \in Channels \ ConfigKeys : k[c] = [own |-> NoList, inherited |-> NoList]}
  /\ file = [settings |-> DefaultSettings, catalog |-> Models, creds |-> [c \in Channels |-> Gone],
             records |-> [c \in Channels |-> NoRecord], exclusions |-> [p \in Pairs |-> None]]
  /\ m = [Opened(file) EXCEPT !.started = TRUE]
  /\ owns = TRUE
  /\ tick = Idle /\ call = Idle /\ editing = None
  /\ mine = {} /\ released = {} /\ forgotten = {}
  /\ left \in Budgets

----------------------------------------------------------------------------
\* reconcile: the part both a tick and a management call run.  s is the
\* manager after prepare; then says what the process does next.

Plans(process, s, idle, then) ==
  LET plans == {IF owns THEN Planned(s, late) ELSE [s |-> s, edits |-> {}] : late \in SUBSET {"grace", "retry", "trial"}}
  IN  /\ editing = None
      /\ \E plan \in plans :
           /\ m' = plan.s
           /\ editing' = IF plan.edits = {} THEN None ELSE process
           /\ then = IF plan.edits = {} THEN idle ELSE [at |-> "write", edits |-> plan.edits]

\* EditExcluded: config.yaml is written and CPA will reload it, or the edit
\* fails and none is applied.
Writes(process, other, then) ==
  LET done == Edited(process.edits)
      entries(outcomes, exclude) ==
        {n.edit.pair : n \in {x \in done.notes : x.outcome \in outcomes /\ x.edit.exclude = exclude}}
  IN  \/ /\ config' = done.config
         /\ mine' = (mine \cup entries({"applied"}, TRUE)) \ entries({"applied"}, FALSE)
         /\ then = [at |-> "noted", notes |-> done.notes]
         /\ Come(Failed(other.at # "apply", "slow"))
      \/ /\ Come({"edit"})
         /\ then = [at |-> "noted", notes |-> {}]
         /\ UNCHANGED <<config, mine>>

\* The edit returned; one that failed leaves the exclusions as planned.
Notes(process) ==
  /\ m' = IF process.notes = {} THEN [m EXCEPT !.dirty = TRUE] ELSE Noted(m, process.notes)
  /\ editing' = None

----------------------------------------------------------------------------
\* Tick

TickLists ==
  /\ tick.at \in {"idle", "relist"} /\ owns
  /\ IF m.started \/ tick.at = "relist"
     THEN \E list \in Lists : Come(Failed(~list.failed, "list")) /\ tick' = [at |-> "apply", list |-> list, again |-> tick.at = "relist"]
     ELSE tick' = [at |-> "rebuild"] /\ UNCHANGED left
  /\ UNCHANGED <<m, file, config, owns, call, editing, past>>

TickApplies ==
  /\ tick.at \in {"apply", "rebuild"}
  /\ \E stale \in Some("age") :
       m' = Rebuilt(IF tick.at = "apply" THEN Applied(m, tick.list) ELSE m, stale)
  /\ tick' = IF tick.at = "apply" /\ tick.again THEN [at |-> "round"] ELSE [at |-> "plan"]
  /\ UNCHANGED <<file, config, owns, call, editing, mine, released, forgotten, left>>

TickPlans ==
  /\ tick.at = "plan"
  /\ Plans("tick", m, [at |-> "round"], tick')
  /\ UNCHANGED <<file, config, owns, call, past, left>>

TickWrites ==
  /\ tick.at = "write" /\ Writes(tick, call, tick')
  /\ UNCHANGED <<m, file, owns, call, editing, released, forgotten>>

\* The round below sees CPA's config as edited.
TickNotes ==
  /\ tick.at = "noted" /\ Notes(tick)
  /\ tick' = [at |-> IF tick.notes # {} /\ m.started THEN "relist" ELSE "round"]
  /\ UNCHANGED <<file, config, owns, call, past, left>>

\* servedLocked, the order of the models apart.
ToServe(c) == {x \in m.catalog : Serves(m.creds[c], m.records[c], x)}

\* focusLocked: the models that may be probed next out of turn; over: the
\* waits for another probe of c are over.
OnTrial(c, over) ==
  {x \in m.catalog : LET e == m.exclusions[<<c, x>>]
                     IN  e # None /\ e.trial /\ (e.answered = "none" \/ (e.answered = "error" /\ over))}
Unsettled(c) ==
  {x \in ToServe(c) : /\ m.exclusions[<<c, x>>] # None => ~m.exclusions[<<c, x>>].trial
                      /\ x \in m.records[c].refused \/ m.records[c].noSearch[x] = 1}
Focus(c, over) == IF OnTrial(c, over) # {} THEN OnTrial(c, over)
                  ELSE IF over /\ Unsettled(c) # {} THEN Unsettled(c) ELSE {None}

\* dueLocked: the jobs channel c may get in a full round, or in one for what
\* is new or waited for.
DueJobs(c, full, over) ==
  LET cred == m.creds[c]
      rec == m.records[c]
      again == IF full /\ cred.models = NoList THEN rec.notServing \cap m.catalog ELSE {}
      todo(first) == ToServe(c) \cup again \cup (IF first \in OnTrial(c, over) THEN {first} ELSE {})
      wanted(first) == \/ full \/ first # None
                       \/ rec.probes = <<>> /\ rec.refused = {}
                       \/ over /\ rec.refused = {} /\ Classify(rec, FALSE, FALSE) = "failing"
  IN  IF cred = Gone \/ m.catalog = {} THEN {None}
      ELSE IF cred.disabled THEN {None}
      ELSE {IF todo(first) = {} \/ ~wanted(first) THEN None
            ELSE NewJob(todo(first), first, first \in OnTrial(c, over), cred.models # NoList) : first \in Focus(c, over)}

\* startRoundLocked
NewRound(jobs) == [cancelled |-> FALSE, jobs |-> jobs]

\* cooling: the credentials CPA reports as unavailable.
TickRounds ==
  /\ tick.at = "round" /\ tick' = Idle
  /\ \/ /\ m.started /\ m.round = None /\ m.settings.enabled /\ ~m.credErr
        /\ \E full, over \in BOOLEAN, cooling \in Some("cool") :
             \E jobs \in [Channels -> UNION {DueJobs(c, full, over) : c \in Channels}] :
               /\ \A c \in Channels : jobs[c] \in IF c \in cooling THEN {None} ELSE DueJobs(c, full, over)
               /\ \E c \in Channels : jobs[c] # None
               /\ Flush([m EXCEPT !.round = NewRound(jobs)], {})
     \/ Flush(m, {})
  /\ UNCHANGED <<config, owns, call, editing, past>>

----------------------------------------------------------------------------
\* A round

SetJob(s, c, job) == [s EXCEPT !.round.jobs[c] = job]

\* The next probe of a job: the model to try first, else any whose service is
\* not known, else any; no model is left, or the round was stopped.
Asking(c, job) ==
  LET unknown == {x \in job.todo : ~job.lists /\ x \notin m.records[c].served}
      next == IF job.first \in job.todo THEN {job.first} ELSE IF unknown # {} THEN unknown ELSE job.todo
  IN  IF next = {} \/ m.round.cancelled THEN {[job EXCEPT !.state = "done"]}
      ELSE {[job EXCEPT !.state = "asking", !.model = x, !.todo = @ \ {x}] : x \in next}

\* A job takes a slot, at most ProbeConcurrency at a time, or gives up.
JobStarts(c) ==
  /\ m.round # None
  /\ LET jobs == m.round.jobs
     IN  /\ jobs[c] # None
         /\ jobs[c].state = "waiting"
         /\ m.round.cancelled \/ Cardinality({d \in Channels : jobs[d] # None /\ jobs[d].state = "asking"}) < ProbeConcurrency
         /\ \E job \in Asking(c, jobs[c]) : m' = SetJob(m, c, job)
  /\ UNCHANGED <<file, config, owns, tick, call, editing, past, left>>

\* recordProbe
Recorded(c, job, result, stale) ==
  LET p == <<c, job.model>>
      e == m.exclusions[p]
      rec == Observed(m.records[c], job.model, result, job.refusedSince)
      tried == IF e = None THEN None
               ELSE [e EXCEPT !.answered = IF e.trial /\ ~job.early THEN result ELSE "none",
                              !.refused = @ /\ job.model \in rec.refused]
  IN  Rebuilt([SetJob(m, c, [job EXCEPT !.state = "done"])
                 EXCEPT !.records[c] = rec, !.exclusions[p] = tried, !.dirty = TRUE], stale)

\* runJob: the upstream's answer, which also counts when the round is stopped
\* before it is recorded.  CPA reloads config.yaml in its own time, so it may
\* still route a model there, or not yet.
JobAnswers(c) ==
  /\ m.round # None
  /\ LET job == m.round.jobs[c]
     IN  /\ job # None
         /\ job.state = "asking" /\ config[c] # Gone
         /\ \E result \in Answers[c], stale \in Some("age") : m' = Recorded(c, job, result, stale)
  /\ UNCHANGED <<file, config, owns, tick, call, editing, past, left>>

\* CPA has no route to the model: that says nothing of a trial, is a failure
\* where the config lists the model, and else is noted (markNotServing) before
\* the next model is asked for.
JobHasNoRoute(c) ==
  /\ m.round # None
  /\ LET job == m.round.jobs[c]
         trial == job.trial /\ job.model = job.first
     IN  /\ job # None
         /\ job.state = "asking"
         /\ \/ trial /\ m' = SetJob(m, c, [job EXCEPT !.state = "done"])
            \/ ~trial /\ job.lists /\ \E stale \in Some("age") : m' = Recorded(c, job, "error", stale)
            \/ ~trial /\ ~job.lists /\ \E next \in Asking(c, job) :
                 m' = [SetJob(m, c, next) EXCEPT !.records[c].notServing = @ \cup {job.model}, !.dirty = TRUE]
  /\ UNCHANGED <<file, config, owns, tick, call, editing, past, left>>

\* A stopped round cuts its probe short.
JobIsCut(c) ==
  /\ m.round # None
  /\ LET job == m.round.jobs[c]
     IN  /\ job # None
         /\ job.state = "asking" /\ m.round.cancelled
         /\ m' = SetJob(m, c, [job EXCEPT !.state = "done"])
  /\ UNCHANGED <<file, config, owns, tick, call, editing, past, left>>

\* runRound ends once every job did; when the next full round is due is time.
RoundEnds ==
  /\ m.round # None
  /\ \A c \in Channels : m.round.jobs[c] # None => m.round.jobs[c].state = "done"
  /\ \E stale \in Some("age") : Flush(Rebuilt([m EXCEPT !.round = None], stale), {})
  /\ UNCHANGED <<config, owns, tick, call, editing, past>>

----------------------------------------------------------------------------
\* Management calls, one at a time; each holds writeMu shared, so quiesce
\* waits for it.  An instance without the data directory refuses them.

Called == call = Idle /\ owns

Kept_EndsTrial(e, kept) == [e EXCEPT !.trial = FALSE, !.answered = "none", !.refused = FALSE]

\* keep: Release or Resume of p's exclusion.
Kept(e, kept) ==
  IF (e.kept # "no") = kept THEN e
  ELSE [e EXCEPT !.kept = IF kept THEN "operator" ELSE "no", !.trial = FALSE, !.answered = "none", !.refused = FALSE]
Keep(p, kept) ==
  /\ Called /\ Come({"keep"}) /\ m.exclusions[p] # None
  /\ LET e == Kept(m.exclusions[p], kept)
         changed == [m EXCEPT !.exclusions[p] = e, !.dirty = TRUE]
     IN  \E stale \in Some("age") :
           Plans("call", IF e = m.exclusions[p] THEN m ELSE Rebuilt(changed, stale), Idle, call')
  /\ released' = IF kept THEN released \cup {p} ELSE released \ {p}
  /\ UNCHANGED <<file, config, owns, tick, mine, forgotten>>

Stopped_AtItsEnd(s) == s

\* Stopping a round: nothing more is asked for.
Stopped(s) == [s EXCEPT !.round = IF @ = None THEN None ELSE [@ EXCEPT !.cancelled = TRUE]]

\* Update: the settings are stored, or the save fails and they stay.
Update(settings) ==
  /\ Called /\ settings # m.settings
  /\ \E r \in Saved([m EXCEPT !.settings = settings]), stale \in Some("age") :
       /\ file' = r.file /\ Come({"update"} \cup Failed(r.ok, "save"))
       /\ m' = IF ~r.ok THEN [r.s EXCEPT !.settings = m.settings]
               ELSE Rebuilt(IF settings.enabled THEN r.s ELSE Stopped(r.s), stale)
       /\ call' = IF r.ok THEN [at |-> "plan"] ELSE Idle
  /\ UNCHANGED <<config, owns, tick, editing, past>>

CallPlans ==
  /\ call.at = "plan"
  /\ Plans("call", m, Idle, call')
  /\ UNCHANGED <<file, config, owns, tick, past, left>>

CallWrites ==
  /\ call.at = "write" /\ Writes(call, tick, call')
  /\ UNCHANGED <<m, file, owns, tick, editing, released, forgotten>>

CallNotes ==
  /\ call.at = "noted" /\ Notes(call) /\ call' = Idle
  /\ UNCHANGED <<file, config, owns, tick, past, left>>

\* ProbeNow lists the credentials before it takes the lock; only is the
\* channels asked for.
ProbeNow(only) ==
  /\ Called
  /\ \E list \in Lists : Come({"probe"} \cup Failed(~list.failed, "list")) /\ call' = [at |-> "apply", list |-> list, only |-> only]
  /\ UNCHANGED <<m, file, config, owns, tick, editing, past>>

ProbeNowApplies ==
  /\ call.at = "apply" /\ call' = Idle
  /\ LET on == m.started /\ m.settings.enabled
         listed == Applied(m, call.list)
         serves(c) == {x \in m.catalog : Serves(listed.creds[c], listed.records[c], x)}
         job(c) == IF c \notin call.only \/ listed.creds[c] = Gone THEN None
                   ELSE IF listed.creds[c].disabled \/ serves(c) = {} THEN None
                   ELSE NewJob(serves(c), None, FALSE, listed.creds[c].models # NoList)
         jobs == [c \in Channels |-> job(c)]
     IN  m' = IF ~on THEN m
              ELSE IF call.list.failed \/ m.round # None \/ (\A c \in Channels : jobs[c] = None) THEN listed
              ELSE [listed EXCEPT !.round = NewRound(jobs)]
  /\ UNCHANGED <<file, config, owns, tick, editing, mine, released, forgotten, left>>

----------------------------------------------------------------------------
\* Clients, CPA's panel, and the host

\* ObserveFailure: channel c refused the web_search tool of a request for x;
\* one soon after another is only counted.
ObserveFailure(c, x) ==
  /\ m.decisions.enabled /\ x \in m.decisions.candidates /\ config[c] # Gone
  /\ LET e == m.exclusions[<<c, x>>]
         marked == [m EXCEPT !.records[c].refused = @ \cup {x}, !.dirty = TRUE,
                             !.exclusions[<<c, x>>] = IF e = None THEN None ELSE [e EXCEPT !.refused = e.trial]]
         probing == m.round # None /\ m.round.jobs[c] # None /\ m.round.jobs[c].model = x
     IN  \/ \E stale \in Some("age") :
              Come({"refuse"}) /\ m' = Rebuilt(IF probing THEN SetJob(marked, c, [m.round.jobs[c] EXCEPT !.refusedSince = TRUE]) ELSE marked, stale)
         \/ x \in m.records[c].refused /\ m' = [m EXCEPT !.dirty = TRUE] /\ UNCHANGED left
  /\ UNCHANGED <<file, config, owns, tick, call, editing, past>>

\* What an operator makes of key in CPA's panel.
PanelEdited(key, edit, x) ==
  CASE edit = "exclude" -> [key EXCEPT !.own = Effective(key) \cup {x}]
    [] edit = "include" -> [key EXCEPT !.own = Effective(key) \ {x}]
    [] edit = "disable" -> [key EXCEPT !.own = Effective(key) \cup {"*"}]
    [] edit = "enable" -> [key EXCEPT !.own = Effective(key) \ {"*"}]
    [] edit = "remove" -> Gone

\* An operator's own entry, or the end of the key, ends a release.
PanelSaves(c, edit, x) ==
  /\ c \in ConfigKeys /\ config[c] # Gone /\ Come({"panel"})
  /\ config' = [config EXCEPT ![c] = PanelEdited(@, edit, x)] /\ config' # config
  /\ mine' = IF edit = "remove" THEN {p \in mine : p[1] # c} ELSE IF edit = "include" THEN mine \ {<<c, x>>} ELSE mine
  /\ released' = IF edit = "remove" THEN {p \in released : p[1] # c} ELSE IF edit = "exclude" THEN released \ {<<c, x>>} ELSE released
  /\ UNCHANGED <<m, file, owns, tick, call, editing, forgotten>>

\* syncSearch: a reconfigure switches the search module off or on; it waits
\* for no round.
SearchOff ==
  /\ owns /\ m.started
  /\ Flush(Stopped([m EXCEPT !.started = FALSE]), {"switch"})
  /\ UNCHANGED <<config, owns, tick, call, editing, past>>

SearchOn ==
  /\ owns /\ ~m.started /\ m' = [m EXCEPT !.started = TRUE]
  /\ UNCHANGED <<file, config, owns, tick, call, editing, past, left>>

\* quiesce, once the tick and the management calls ended: HandOff waits for
\* the round at most a moment, and the data directory is given up.
HandOff ==
  /\ owns /\ tick = Idle /\ call = Idle
  /\ Flush(Stopped([m EXCEPT !.started = FALSE]), {"handoff"})
  /\ owns' = FALSE
  /\ UNCHANGED <<config, tick, call, editing, past>>

\* resume: the replacement was rolled back, and this instance serves on.
RolledBack ==
  /\ ~owns /\ owns' = TRUE
  /\ m' = [m EXCEPT !.started = TRUE]
  /\ UNCHANGED <<file, config, tick, call, editing, past, left>>

\* A newer instance, or a restart, reads the file.  What the file does not
\* tell of an entry or a release is forgotten.
Reopened ==
  LET told(p) == IF file.exclusions[p] = None THEN NewExclusion ELSE file.exclusions[p]
  IN  /\ m' = [Opened(file) EXCEPT !.started = TRUE]
      /\ owns' = TRUE /\ tick' = Idle /\ call' = Idle /\ editing' = None
      /\ forgotten' = (forgotten \cap mine) \cup {p \in mine : ~told(p).written}
      /\ released' = {p \in released : told(p).kept # "no" \/ (told(p).written /\ p \notin mine)}
      /\ UNCHANGED <<file, config, mine>>

TakenOver == ~owns /\ Reopened /\ UNCHANGED left

Crash == owns /\ Come({"crash"}) /\ Reopened

----------------------------------------------------------------------------

Ticks == TickLists \/ TickApplies \/ TickPlans \/ TickWrites \/ TickNotes \/ TickRounds
Jobs(c) == JobStarts(c) \/ JobAnswers(c) \/ JobHasNoRoute(c) \/ JobIsCut(c)
Calls ==
  \/ \E p \in Pairs, kept \in BOOLEAN : Keep(p, kept)
  \/ \E settings \in Settings : Update(settings)
  \/ CallPlans \/ CallWrites \/ CallNotes
  \/ \E only \in Asked : ProbeNow(only)
  \/ ProbeNowApplies
Next ==
  \/ Ticks \/ (\E c \in Channels : Jobs(c)) \/ RoundEnds \/ Calls
  \/ \E c \in Channels, x \in Models : ObserveFailure(c, x)
  \/ \E c \in Channels, edit \in PanelEdits, x \in Models : PanelSaves(c, edit, x)
  \/ SearchOff \/ SearchOn \/ HandOff \/ RolledBack \/ TakenOver \/ Crash

Spec == Init /\ [][Next]_vars

----------------------------------------------------------------------------
\* Properties

\* Every entry this plugin wrote into config.yaml is known to it: the
\* exclusion says so, or the edit has just returned.  Otherwise it would
\* never be given back.
OwnEntriesAreKnown ==
  \A p \in mine \ forgotten :
    \/ m.exclusions[p] # None /\ m.exclusions[p].written
    \/ \E process \in {tick, call} : process.at = "noted" /\ \E n \in process.notes : n.edit.pair = p

\* A pair the operator released is taken off its channel no more.
ReleaseHolds == [][\A p \in mine' \ mine : p \notin released]_vars

\* No round goes on once native search or the search module is off.
OffIsQuiet == m.round # None /\ ~m.round.cancelled => m.started /\ m.settings.enabled

\* Whenever a tick plans, it gives back every entry of this plugin that is not
\* wanted: all of them once automatic exclusion, native search or the search
\* module is off, and those of a model no channel is left to search for.  A
\* disabled key's wait until a list shows it enabled.
Off == ~m.settings.enabled \/ ~m.settings.autoExclude \/ ~m.started
GivenBack(p) == tick'.at = "write" /\ \E edit \in tick'.edits : edit.pair = p /\ ~edit.exclude
Waits(p) == m.creds[p[1]] # Gone /\ m.creds[p[1]].disabled
UnwantedIsGivenBack ==
  [][tick.at = "plan" /\ tick'.at \in {"write", "round"} /\ owns =>
       \A p \in mine \ forgotten : (Off \/ p[2] \notin m.decisions.native) => GivenBack(p) \/ Waits(p)]_vars

\* An instance that gave the data directory up, its round still ending, leaves
\* the file and CPA's config to the next one.
GivenUpIsLeftAlone == [][~owns /\ ~owns' => file' = file /\ mine' \subseteq mine]_vars
===============================================================================
