----------------------------- MODULE SearchRouter -----------------------------
(***************************************************************************)
(* The plugin's router of web searches (internal/search: search.go,        *)
(* probe.go, settings.go): the settings an operator saves, the health of   *)
(* the channels, and the loop that probes them.                            *)
(*                                                                         *)
(* A channel stands for its name and template, which together decide       *)
(* whether its health survives a change of the settings.  mu is held by an *)
(* update from its check to the swap of the settings, and by whoever waits *)
(* for a cancelled loop.  The model a search asks for, counters, texts and *)
(* panics are left out; so is the validation of settings, which are valid. *)
(***************************************************************************)
EXTENDS Integers, Sequences, Functions

CONSTANTS
  Instances, Channels, None,
  DefaultSettings, \* one channel, no key
  Requests         \* what operators save; key: given, kept or cleared

\* Normalize: any number of channels but none, each listed once.
Order == {o \in Seq(Channels) : o # <<>> /\ IsInjective(o)}
Settings == [order : Order, forced : SUBSET Channels, key : BOOLEAN, pauses : BOOLEAN]

ASSUME RouterAssumption ==
  /\ None \notin Instances
  /\ DefaultSettings \in Settings
  /\ Requests \subseteq [order : Order, forced : SUBSET Channels, key : {"given", "kept", "cleared"}, pauses : BOOLEAN]

VARIABLES
  routers, \* of each instance that opened its modules
  file,    \* the settings file
  strayed, \* a write failed after its rename, and none has succeeded since
  up       \* channels that answer searches

\* A channel's last probe and whether it counts as failing.
Health == [unhealthy : BOOLEAN, probe : {"none", "ok", "failed", "unreachable"}]
Unknown == [unhealthy |-> FALSE, probe |-> "none"]

\* A run of the probe goroutine: the settings it probes, where its round is,
\* and the channels the latest round probed.
Loop == [settings : Settings, at : {"round", "asking", "answered", "wait"}, index : Nat \ {0}, answer : {"none", "ok", "failed", "unreachable"},
         cancelled : BOOLEAN, probed : SUBSET Channels]
NewLoop(settings) == [settings |-> settings, at |-> "round", index |-> 1, answer |-> "none", cancelled |-> FALSE, probed |-> {}]

\* An update, which holds mu while it saves and swaps the settings, and after
\* that matches the probes with the plugin's configuration.
NoCall == [at |-> "idle"]
Matching == [at |-> "matching"]
Call == {NoCall, Matching} \cup [at : {"saving", "stopping"}, next : Settings] \cup [at : {"syncing"}, on : BOOLEAN]

\* quiet: no client search came for the idle time.
Router == [settings : Settings, live : [Channels -> Health], quiet : BOOLEAN, started : BOOLEAN,
           loop : Loop \cup {None}, call : Call]

ASSUME NoneAssumption == None \notin Router

RouterTypeOK ==
  /\ routers \in [Instances -> Router \cup {None}]
  /\ file \in Settings /\ strayed \in BOOLEAN /\ up \subseteq Channels

\* NewRouter
Opened(settings) ==
  [settings |-> settings, live |-> [c \in Channels |-> Unknown], quiet |-> FALSE, started |-> FALSE,
   loop |-> None, call |-> NoCall]

----------------------------------------------------------------------------
\* Settings and health

Probing(settings) == Len(settings.order) > 1 /\ settings.key
Listed(settings) == {settings.order[n] : n \in DOMAIN settings.order}

Usable_FailingToo(r) == {n \in DOMAIN r.settings.order : r.settings.order[n] \notin r.settings.forced}

\* channelIndex: the first channel that may be used, or the first.
Usable(r) == {n \in DOMAIN r.settings.order :
                r.settings.order[n] \notin r.settings.forced /\ ~r.live[r.settings.order[n]].unhealthy}
Chosen(r) ==
  r.settings.order[IF Usable(r) = {} THEN 1 ELSE CHOOSE n \in Usable(r) : \A k \in Usable(r) : n <= k]

\* An empty key keeps the stored one.
Merged(r, request) ==
  [request EXCEPT !.key = request.key = "given" \/ (request.key = "kept" /\ r.settings.key)]

\* newState: health survives with its channel, but not without probes, as
\* nothing could clear it.
Swapped(r, next) ==
  [r EXCEPT !.settings = next,
            !.live = [c \in Channels |-> IF c \in Listed(next) \cap Listed(r.settings) /\ Probing(next) THEN r.live[c] ELSE Unknown]]

\* startLoop
Started(r) == IF r.loop = None /\ Probing(r.settings) THEN [r EXCEPT !.loop = NewLoop(r.settings)] ELSE r

\* stopLoop cancels the loop, and waits for it.
Cancelled(r) == IF r.loop = None THEN r ELSE [r EXCEPT !.loop.cancelled = TRUE]
Gone(r) == r.loop = None

Updating(r) == r.call.at \in {"saving", "stopping"}
MuFree(r) == ~Updating(r) /\ (r.loop # None => ~r.loop.cancelled)

----------------------------------------------------------------------------
\* Update

\* The caller's gate and canWrite are the composing module's.  Settings equal
\* to the current ones are not written.
UpdateBegins(i, request) ==
  LET next == Merged(routers[i], request)
  IN  /\ MuFree(routers[i]) /\ routers[i].call = NoCall
      /\ routers' = [routers EXCEPT ![i].call = IF next = routers[i].settings THEN Matching ELSE [at |-> "saving", next |-> next]]
      /\ UNCHANGED <<file, strayed, up>>

\* save: a failed write changes nothing, unless it failed after its rename.
UpdateSaves(i, outcome) ==
  LET r == routers[i]
  IN  /\ r.call.at = "saving"
      /\ file' = IF outcome = "fails" THEN file ELSE r.call.next
      /\ strayed' = CASE outcome = "ok" -> FALSE [] outcome = "fails" -> strayed [] outcome = "sync" -> TRUE
      /\ routers' = [routers EXCEPT ![i] = IF outcome # "ok" THEN [r EXCEPT !.call = NoCall]
                                           ELSE [Cancelled(r) EXCEPT !.call = [r.call EXCEPT !.at = "stopping"]]]
      /\ UNCHANGED up

Restarted(r) == IF r.started THEN Started(r) ELSE r

UpdateSwaps(i) ==
  LET r == routers[i]
  IN  /\ r.call.at = "stopping" /\ Gone(r)
      /\ routers' = [routers EXCEPT ![i] = Restarted([Swapped(r, r.call.next) EXCEPT !.call = Matching])]
      /\ UNCHANGED <<file, strayed, up>>

----------------------------------------------------------------------------
\* Searches and probes

\* Route: a client search, by whichever channel.
Route(i) ==
  /\ routers' = [routers EXCEPT ![i].quiet = FALSE]
  /\ UNCHANGED <<file, strayed, up>>

SearchesPause(i) ==
  /\ ~routers[i].quiet
  /\ routers' = [routers EXCEPT ![i].quiet = TRUE]
  /\ UNCHANGED <<file, strayed, up>>

ChannelFlips(c) ==
  /\ up' = IF c \in up THEN up \ {c} ELSE up \cup {c}
  /\ UNCHANGED <<routers, file, strayed>>

SetLoop(i, loop) == routers' = [routers EXCEPT ![i].loop = loop] /\ UNCHANGED <<file, strayed, up>>

\* probeRound: the next channel that is not forced, or the end of the round.
LoopAsks(i) ==
  LET loop == routers[i].loop
      order == loop.settings.order
  IN  /\ loop.at = "round" /\ ~loop.cancelled
      /\ SetLoop(i, IF loop.index > Len(order) THEN [loop EXCEPT !.at = "wait"]
                    ELSE IF order[loop.index] \in loop.settings.forced THEN [loop EXCEPT !.index = @ + 1]
                    ELSE [loop EXCEPT !.at = "asking"])

\* probeChannel: the answer of the channel, or CPA cannot be reached.
LoopAnswered(i, reachable) ==
  LET loop == routers[i].loop
      c == loop.settings.order[loop.index]
  IN  /\ loop.at = "asking" /\ ~loop.cancelled
      /\ SetLoop(i, [loop EXCEPT !.at = "answered",
                       !.answer = IF ~reachable THEN "unreachable" ELSE IF c \in up THEN "ok" ELSE "failed"])

AfterProbe_Any(loop, unhealthy) == [loop EXCEPT !.at = "wait"]

\* The round ends at the first healthy channel.
AfterProbe(loop, unhealthy) ==
  IF unhealthy THEN [loop EXCEPT !.at = "round", !.index = loop.index + 1] ELSE [loop EXCEPT !.at = "wait"]

\* An answer that came before a cancel is still recorded.
LoopRecords(i) ==
  LET r == routers[i]
      c == r.loop.settings.order[r.loop.index]
      unhealthy == IF r.loop.answer = "unreachable" THEN r.live[c].unhealthy ELSE r.loop.answer = "failed"
      done == [r.loop EXCEPT !.probed = @ \cup {c}]
  IN  /\ r.loop.at = "answered"
      /\ routers' = [routers EXCEPT ![i].live[c] = [unhealthy |-> unhealthy, probe |-> r.loop.answer],
                                    ![i].loop = AfterProbe(done, unhealthy)]
      /\ UNCHANGED <<file, strayed, up>>

\* The ticker, while searches come.
LoopTicks(i) ==
  LET r == routers[i]
  IN  /\ r.loop.at = "wait" /\ ~r.loop.cancelled
      /\ ~(r.loop.settings.pauses /\ r.quiet)
      /\ SetLoop(i, NewLoop(r.loop.settings))

LoopExits(i) ==
  /\ routers[i].loop.cancelled /\ routers[i].loop.at # "answered"
  /\ SetLoop(i, None)

Loops(i) == LoopAsks(i) \/ LoopRecords(i) \/ LoopTicks(i) \/ LoopExits(i)
===============================================================================
