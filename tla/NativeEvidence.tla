---------------------------- MODULE NativeEvidence ----------------------------
(***************************************************************************)
(* What native search knows of CPA's codex channels and concludes from it  *)
(* (internal/search/native: decide.go, the records of native.go, and the   *)
(* excluded-models of a key in CPA's config.yaml, internal/channel/        *)
(* cpaconfig.go and cpaconfig_edit.go).                                    *)
(*                                                                         *)
(* A time is not kept: what the code compares it with is an argument.      *)
(* Names compare exactly, "*" is the only pattern, and a prefix is left    *)
(* out.                                                                    *)
(***************************************************************************)
EXTENDS Integers, Sequences, FiniteSets

CONSTANTS
  Channels,     \* CPA's codex credentials
  Models,       \* models of the Codex catalog
  ConfigKeys,   \* the channels that are API keys of config.yaml
  Listed,       \* those whose config lists models: all of Models
  HistoryLimit, \* probes a channel keeps
  NoList,       \* a list a key does not have
  Gone          \* a channel CPA does not list

ASSUME EvidenceAssumption ==
  /\ Listed \subseteq ConfigKeys /\ ConfigKeys \subseteq Channels
  /\ HistoryLimit \in Nat \ {0} /\ "*" \notin Models
  /\ IsFiniteSet(Channels) /\ IsFiniteSet(Models)

Pairs == Channels \X Models
Results == {"search", "no_search", "error"}

\* Settings: what Update stores; the probe interval is time.
Setting == [enabled : BOOLEAN, requireAll : BOOLEAN, autoExclude : BOOLEAN,
            excludedModels : SUBSET Models, disabledChannels : SUBSET Channels]

----------------------------------------------------------------------------
\* A key of config.yaml: its own excluded-models and its group's.

Entries == Models \cup {"*"}
Key == [own : (SUBSET Entries) \cup {NoList}, inherited : (SUBSET Entries \ {{}}) \cup {NoList}]

\* Credential: what CPA lists of a channel.
Credential == [disabled : BOOLEAN, excluded : SUBSET Models, models : (SUBSET Models) \cup {NoList}]

ASSUME NothingAssumption == (\A s \in SUBSET Entries : s # NoList) /\ Gone \notin Key \cup Credential

Effective(key) == IF key.own # NoList THEN key.own ELSE IF key.inherited # NoList THEN key.inherited ELSE {}

\* keyNode.edit: what an edit makes of a key, and its outcome.
ModelExcluded(key, model) ==
  CASE "*" \in Effective(key) -> [key |-> key, outcome |-> "disabled"]
    [] "*" \notin Effective(key) /\ model \in Effective(key) -> [key |-> key, outcome |-> "unchanged"]
    [] Effective(key) \cap {"*", model} = {} /\ key.own = NoList /\ key.inherited # NoList ->
         [key |-> key, outcome |-> "inherited"]
    [] OTHER -> [key |-> [key EXCEPT !.own = Effective(key) \cup {model}], outcome |-> "applied"]
ModelRestored(key, model) ==
  CASE "*" \in Effective(key) -> [key |-> key, outcome |-> "disabled"]
    [] "*" \notin Effective(key) /\ (key.own = NoList \/ model \notin key.own) -> [key |-> key, outcome |-> "unchanged"]
    [] OTHER -> [key |-> [key EXCEPT !.own = IF key.own = {model} THEN NoList ELSE key.own \ {model}], outcome |-> "applied"]

\* What the credential list says of channel c, whose key is Gone when CPA's
\* config has it no more; servedModels: an excluded model is not listed.
Listing(c, key) ==
  IF key = Gone THEN Gone
  ELSE LET excluded == IF c \in ConfigKeys THEN Effective(key) ELSE {}
       IN  [disabled |-> "*" \in excluded, excluded |-> excluded \ {"*"},
            models |-> IF c \notin Listed THEN NoList ELSE IF "*" \in excluded THEN {} ELSE Models \ excluded]

----------------------------------------------------------------------------
\* The evidence about a channel and about each model on it.

Record ==
  [probes : UNION {[1..n -> [model : Models, result : Results]] : n \in 0..HistoryLimit},
   noSearch : [Models -> 0..2],              \* probes in a row without a search; 2 and more are one
   last : [Models -> Results \cup {"none"}], \* the latest probe
   refused : SUBSET Models,                  \* the upstream refused the tool for them
   served : SUBSET Models, notServing : SUBSET Models]
NoRecord ==
  [probes |-> <<>>, noSearch |-> [m \in Models |-> 0], last |-> [m \in Models |-> "none"],
   refused |-> {}, served |-> {}, notServing |-> {}]

Confirmed(rec, m) == rec.noSearch[m] >= 2 \/ (rec.noSearch[m] >= 1 /\ m \in rec.refused)

Observed_Uncut(rec, m, result, refusedSince) ==
  [rec EXCEPT !.probes = Append(rec.probes, [model |-> m, result |-> result]), !.last[m] = result]

\* recordProbe and pairRecord.observe: a search takes the count back, and a
\* refusal that came before the probe began.
Observed(rec, m, result, refusedSince) ==
  LET history == Append(rec.probes, [model |-> m, result |-> result])
      kept == IF Len(history) > HistoryLimit THEN Tail(history) ELSE history
  IN  [probes |-> kept,
       noSearch |-> [rec.noSearch EXCEPT ![m] =
         CASE result = "search" -> 0
           [] result = "no_search" -> IF @ < 2 THEN @ + 1 ELSE 2
           [] result = "error" -> @],
       last |-> [rec.last EXCEPT ![m] = result],
       refused |-> IF result = "search" /\ ~refusedSince THEN rec.refused \ {m} ELSE rec.refused,
       served |-> rec.served \cup {m},
       notServing |-> rec.notServing \ {m}]

\* saveLocked forgets the evidence of models that left the catalog.
Pruned(rec, catalog) ==
  [rec EXCEPT !.noSearch = [m \in Models |-> IF m \in catalog THEN rec.noSearch[m] ELSE 0],
              !.last = [m \in Models |-> IF m \in catalog THEN rec.last[m] ELSE "none"],
              !.refused = rec.refused \cap catalog]

Serves(cred, rec, m) == IF cred.models # NoList THEN m \in cred.models ELSE m \notin rec.notServing
ServesKnown(cred, rec, m) == IF cred.models # NoList THEN m \in cred.models ELSE m \in rec.served

----------------------------------------------------------------------------
\* What the evidence says: a state for each model on a channel

\* The state of a history for model m; stale: its latest search is too old.
FromProbes(probes, m, stale) ==
  LET n == Len(probes)
      some(result) == \E i \in 1..n : probes[i].result = result
      own(result) == \E i \in 1..n : probes[i] = [model |-> m, result |-> result]
      itself == own("search") \/ own("no_search")
      searched == IF itself THEN own("search") ELSE some("search")
      ignored == IF itself THEN own("no_search") ELSE some("no_search")
      failed(i) == probes[i].result = "error"
  IN  IF n = 0 THEN "unknown"
      ELSE IF failed(n) /\ (n > 1 => failed(n - 1)) THEN "failing"
      ELSE IF searched /\ ignored THEN "unstable"
      ELSE IF ignored THEN "no_search"
      ELSE IF ~searched THEN "failing"
      ELSE IF stale THEN "stale"
      ELSE "supported"

\* classify: the state of a channel as a whole.
Classify(rec, disabled, stale) ==
  IF disabled THEN "disabled"
  ELSE IF rec.refused # {} THEN "rejected"
  ELSE FromProbes(rec.probes, Gone, stale)

\* Probes of models the channel is confirmed not to search for do not speak
\* for the others.
ClassifyFor(rec, m, disabled, stale) ==
  LET speaks(probe) == ~Confirmed(rec, probe.model)
  IN  IF disabled THEN "disabled"
      ELSE IF m \in rec.refused THEN "rejected"
      ELSE IF Confirmed(rec, m) THEN "no_search"
      ELSE FromProbes(SelectSeq(rec.probes, speaks), m, stale)

\* decide: the snapshot the request path reads. excludable: the pairs taken
\* off a channel, or that would be; stale: the channels whose latest search is
\* too old; a gap is a serving channel that is not usable and not disabled.
Decided(settings, catalog, creds, records, excludable, stale) ==
  LET serving(m) == {c \in Channels : creds[c] # Gone /\ ~creds[c].disabled /\ Serves(creds[c], records[c], m)}
      state(c, m) == ClassifyFor(records[c], m, c \in settings.disabledChannels, c \in stale)
      usable(m) == {c \in serving(m) : state(c, m) = "supported" /\ ServesKnown(creds[c], records[c], m)}
      gaps(m) == {c \in serving(m) \ usable(m) : state(c, m) # "disabled"}
      covered(m) == \A c \in gaps(m) : Confirmed(records[c], m) /\ <<c, m>> \in excludable
      native(m) == /\ settings.enabled /\ m \notin settings.excludedModels /\ usable(m) # {}
                   /\ settings.requireAll => covered(m)
      on == {c \in Channels : settings.enabled /\ creds[c] # Gone}
  IN  [enabled |-> settings.enabled, candidates |-> catalog,
       native |-> {m \in catalog : native(m)},
       gaps |-> {p \in Channels \X catalog : p[1] \in gaps(p[2])},
       strip |-> on \cap settings.disabledChannels,
       refused |-> {p \in on \X Models : p[2] \in records[p[1]].refused}]

\* Strips: the web_search tool is taken out of a request for m on c.
Strips(decisions, c, m) ==
  m \in decisions.candidates /\ (c \in decisions.strip \/ <<c, m>> \in decisions.refused)
===============================================================================
