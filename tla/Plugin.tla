-------------------------------- MODULE Plugin --------------------------------
(***************************************************************************)
(* The life of the plugin's instances (internal/plugin: app.go and         *)
(* modules.go) around their search routers: CPA configures, quiesces,      *)
(* replaces, rolls back and shuts them down; one of them at a time holds   *)
(* the lock of the data directory; operators save search settings.         *)
(*                                                                         *)
(* Each call of CPA holds lifecycleMu, so it is one step, or two where it  *)
(* waits for a probe loop.  The other modules stop and start with the      *)
(* router; NativeSearch, Quality, ChannelStats and Handoff have theirs.    *)
(***************************************************************************)
EXTENDS SearchRouter, FiniteSets

CONSTANT Budgets \* bounds: how many of which events a run may see

Events ==
  {"update", "replace",
   "save", "sync",    \* the settings' write fails, before or after its rename
   "quiesce", "load", \* a quiesce, or a registration, fails
   "discard",         \* CPA rolls back
   "configure", "flip", "unreachable", "pause", "crash"}

ASSUME PluginAssumption == Budgets \subseteq [Events -> Nat]

VARIABLES
  owner,    \* the instance that holds the lock of the data directory
  quiesced, \* of each instance, as are readOnly and searchOn
  readOnly,
  searchOn, \* the search module is switched on in CPA's configuration
  \* CPA
  phase,    \* of a replacement
  active,   \* the instance CPA calls
  target,   \* the instance it loads
  closing,  \* instances being shut down
  left      \* how many of each event may still come

lifecycle == <<owner, quiesced, readOnly, searchOn>>
cpa == <<phase, active, target, closing>>
vars == <<routers, file, strayed, up, lifecycle, cpa, left>>

TypeOK ==
  /\ RouterTypeOK
  /\ owner \in Instances \cup {None}
  /\ quiesced \in [Instances -> BOOLEAN] /\ readOnly \in [Instances -> BOOLEAN] /\ searchOn \in [Instances -> BOOLEAN]
  /\ phase \in {"run", "quiesce", "load", "loaded", "rollback"}
  /\ active \in Instances \cup {None} /\ target \in Instances \cup {None} /\ closing \subseteq Instances

Comes(event) == left[event] > 0 /\ left' = [left EXCEPT ![event] = @ - 1]

Init ==
  /\ routers = [i \in Instances |-> None]
  /\ file = DefaultSettings /\ strayed = FALSE /\ up = Channels
  /\ owner = None /\ active = None /\ closing = {}
  /\ quiesced = [i \in Instances |-> FALSE] /\ readOnly = [i \in Instances |-> FALSE]
  /\ searchOn = [i \in Instances |-> TRUE]
  /\ phase = "load" /\ target \in Instances
  /\ left \in Budgets

----------------------------------------------------------------------------
\* Management calls

\* handleManagement holds writeMu shared, which a quiesce holds exclusively.
Admitted_Unlocked(i) == ~quiesced[i]
Admitted(i) == ~quiesced[i] /\ phase # "quiesce"
CanWrite(i) == ~quiesced[i] /\ owner = i

PutSearch(i, request) ==
  /\ i = active /\ phase \in {"run", "quiesce"} /\ Admitted(i) /\ CanWrite(i)
  /\ Comes("update") /\ UpdateBegins(i, request)
  /\ UNCHANGED <<lifecycle, cpa>>

PutSearchSaves(i) ==
  /\ routers[i] # None
  /\ \/ UpdateSaves(i, "ok") /\ UNCHANGED left
     \/ UpdateSaves(i, "fails") /\ Comes("save")
     \/ UpdateSaves(i, "sync") /\ Comes("sync")
  /\ UNCHANGED <<lifecycle, cpa>>

PutSearchSwaps(i) == routers[i] # None /\ UpdateSwaps(i) /\ UNCHANGED <<lifecycle, cpa, left>>

Stopped(r) == [Cancelled(r) EXCEPT !.started = FALSE]

\* syncSearch
Synced(r, on) == IF on THEN [Started(r) EXCEPT !.started = TRUE] ELSE Stopped(r)

\* After an update the probes are matched with the configuration; what is read
\* of it may be replaced before Start or Stop gets mu.
PutSearchMatches(i) ==
  LET r == routers[i]
  IN  /\ r # None
      /\ \/ /\ r.call.at = "matching"
            /\ routers' = [routers EXCEPT ![i].call = [at |-> "syncing", on |-> searchOn[i] /\ ~quiesced[i]]]
         \/ /\ r.call.at = "syncing" /\ MuFree(r)
            /\ routers' = [routers EXCEPT ![i] = [Synced(r, r.call.on) EXCEPT !.call = NoCall]]
      /\ UNCHANGED <<file, strayed, up, lifecycle, cpa, left>>

----------------------------------------------------------------------------
\* configure and resume

\* A first registration, or one that reaches an instance which gave the
\* directory up: everything is read from the files.
Register ==
  /\ phase = "load" /\ owner = None
  /\ owner' = target /\ phase' = "loaded"
  /\ routers' = [routers EXCEPT ![target] = Synced(Opened(file), searchOn[target])]
  /\ quiesced' = [quiesced EXCEPT ![target] = FALSE] /\ readOnly' = [readOnly EXCEPT ![target] = FALSE]
  /\ UNCHANGED <<file, strayed, up, searchOn, active, target, closing, left>>

\* The lock is taken or the files do not load: the registration fails, closed.
RegisterFails ==
  /\ phase = "load"
  /\ IF owner # None THEN UNCHANGED left ELSE Comes("load")
  /\ phase' = IF active = None THEN "load" ELSE "rollback"
  /\ UNCHANGED <<routers, file, strayed, up, lifecycle, active, target, closing>>

Claims_OnceOnly(i) == owner = i \/ (owner = None /\ ~readOnly[i])

\* claimDataDirectory
Claims(i) == owner \in {None, i}

\* A config apply, or the end of a rollback; a configuration that is not
\* valid keeps the last one.  Without the lock the instance is read-only.
Reconfigure(on) ==
  /\ phase \in {"run", "rollback"} /\ active # None /\ MuFree(routers[active])
  /\ IF phase = "rollback" \/ readOnly[active] THEN UNCHANGED left ELSE Comes("configure")
  /\ phase' = "run" /\ target' = None
  /\ IF Claims(active)
     THEN /\ owner' = active
          /\ searchOn' = [searchOn EXCEPT ![active] = on]
          /\ quiesced' = [quiesced EXCEPT ![active] = FALSE] /\ readOnly' = [readOnly EXCEPT ![active] = FALSE]
          /\ routers' = [routers EXCEPT ![active] = Synced(@, on)]
     ELSE /\ readOnly' = [readOnly EXCEPT ![active] = TRUE]
          /\ UNCHANGED <<owner, searchOn, quiesced, routers>>
  /\ UNCHANGED <<file, strayed, up, active, closing>>

----------------------------------------------------------------------------
\* Hot replacement

\* quiesce takes writeMu, so no management call is under way, and stops the
\* router; an instance without the directory has nothing to hand off.
QuiesceBegins(n) ==
  /\ phase = "run" /\ active # None /\ Comes("replace")
  /\ target' = n
  /\ IF owner # active
     THEN phase' = "load" /\ UNCHANGED routers
     ELSE /\ MuFree(routers[active]) /\ routers[active].call = NoCall
          /\ phase' = "quiesce"
          /\ routers' = [routers EXCEPT ![active] = Stopped(@)]
  /\ UNCHANGED <<file, strayed, up, lifecycle, active, closing>>

\* The cut, the journal and the statistics are written, and the directory is
\* given up; or one of them fails, and the instance serves on.
QuiesceEnds ==
  /\ phase = "quiesce" /\ Gone(routers[active])
  /\ \/ /\ phase' = "load" /\ owner' = None
        /\ quiesced' = [quiesced EXCEPT ![active] = TRUE]
        /\ UNCHANGED <<routers, target, left>>
     \/ /\ Comes("quiesce") /\ MuFree(routers[active])
        /\ phase' = "run" /\ target' = None
        /\ routers' = [routers EXCEPT ![active] = Synced(@, searchOn[active])]
        /\ UNCHANGED <<owner, quiesced>>
  /\ UNCHANGED <<file, strayed, up, readOnly, searchOn, active, closing>>

Switch ==
  /\ phase = "loaded"
  /\ active' = target /\ target' = None /\ phase' = "run"
  /\ UNCHANGED <<routers, file, strayed, up, lifecycle, closing, left>>

\* CPA shuts the new instance down, waits a while for it and rolls back.
Discard ==
  /\ phase = "loaded" /\ active \notin {None, target} /\ Comes("discard")
  /\ closing' = closing \cup {target} /\ target' = None /\ phase' = "rollback"
  /\ routers' = [routers EXCEPT ![target] = Stopped(@)]
  /\ UNCHANGED <<file, strayed, up, lifecycle, active>>

\* Shutdown gives the directory up last.
ShutdownEnds(i) ==
  /\ i \in closing /\ Gone(routers[i])
  /\ closing' = closing \ {i}
  /\ owner' = IF owner = i THEN None ELSE owner
  /\ UNCHANGED <<routers, file, strayed, up, quiesced, readOnly, searchOn, phase, active, target, left>>

Crash ==
  /\ Comes("crash")
  /\ routers' = [i \in Instances |-> None] /\ strayed' = FALSE
  /\ owner' = None /\ active' = None /\ closing' = {}
  /\ quiesced' = [i \in Instances |-> FALSE] /\ readOnly' = [i \in Instances |-> FALSE]
  /\ phase' = "load" /\ target' \in Instances
  /\ UNCHANGED <<file, up, searchOn>>

----------------------------------------------------------------------------

Serves(i) == i = active /\ phase = "run"

Probes(i) ==
  /\ routers[i] # None
  /\ routers[i].loop # None
  /\ \/ Loops(i) /\ UNCHANGED left
     \/ LoopAnswered(i, TRUE) /\ UNCHANGED left
     \/ LoopAnswered(i, FALSE) /\ Comes("unreachable")
  /\ UNCHANGED <<lifecycle, cpa>>

Searches(i) ==
  /\ Serves(i)
  /\ \/ Route(i) /\ UNCHANGED left
     \/ SearchesPause(i) /\ Comes("pause")
  /\ UNCHANGED <<lifecycle, cpa>>

Upstream(c) == ChannelFlips(c) /\ Comes("flip") /\ UNCHANGED <<lifecycle, cpa>>

Next ==
  \/ \E i \in Instances :
       \/ \E request \in Requests : PutSearch(i, request)
       \/ PutSearchSaves(i) \/ PutSearchSwaps(i) \/ PutSearchMatches(i)
       \/ Probes(i) \/ Searches(i) \/ ShutdownEnds(i) \/ QuiesceBegins(i)
  \/ \E c \in Channels : Upstream(c)
  \/ \E on \in BOOLEAN : Reconfigure(on)
  \/ Register \/ RegisterFails \/ QuiesceEnds \/ Switch \/ Discard \/ Crash

\* The probe loop and the calls under way go on, and so does CPA: it ends a
\* replacement it began and applies its configuration again some time.
Fairness ==
  /\ \A i \in Instances : WF_vars(Probes(i)) /\ WF_vars(PutSearchSaves(i)) /\ WF_vars(PutSearchSwaps(i)) /\ WF_vars(PutSearchMatches(i))
                          /\ WF_vars(ShutdownEnds(i))
  /\ WF_vars(Register \/ RegisterFails) /\ WF_vars(QuiesceEnds) /\ WF_vars(Switch \/ Discard)
  /\ WF_vars((phase = "rollback" \/ (active # None /\ readOnly[active])) /\ \E on \in BOOLEAN : Reconfigure(on))

Spec == Init /\ [][Next]_vars
FairSpec == Spec /\ Fairness

----------------------------------------------------------------------------
\* Properties

\* The settings an instance serves with are the saved ones, through saves,
\* replacements, rollbacks and read-only times, unless a save failed after
\* its rename: a call that passed the check of quiesced is over before the
\* next instance reads the file.
SettingsAreSaved ==
  \A i \in Instances :
    owner = i /\ routers[i] # None /\ ~strayed => Updating(routers[i]) \/ routers[i].settings = file

\* Between two rounds searches go to a channel the latest round saw well, or
\* every channel failed in it; and no channel counts as failing while nothing
\* probes it, for nothing could tell that it recovered.
Between(loop) == IF loop = None THEN FALSE ELSE loop.at = "wait" /\ ~loop.cancelled
RoutesToProbed ==
  \A i \in {j \in Instances : routers[j] # None} :
    LET r == routers[i]
    IN  /\ Probing(r.settings) \/ \A c \in Channels : ~r.live[c].unhealthy
        /\ Between(r.loop) =>
             \/ Chosen(r) \in r.loop.probed /\ r.live[Chosen(r)].probe # "failed"
             \/ \A c \in Listed(r.settings) \ r.settings.forced : c \in r.loop.probed /\ r.live[c].unhealthy

\* The probes of the instance that serves run if the search module is switched
\* on, but while a call is about to match them.
ProbesMatch(i) ==
  Serves(i) /\ owner = i /\ routers[i].call = NoCall => routers[i].started = searchOn[i]
ProbesMatchSettings == \A i \in Instances : ProbesMatch(i)

\* Searches end up on a channel that answers, if there is one, once settings
\* and channels stay as they are, whatever replacements and saves came before.
Probed(r) == Probing(r.settings) /\ ~(r.settings.pauses /\ r.quiet)
Answering(r) == up \cap (Listed(r.settings) \ r.settings.forced)
Well(i) ==
  Serves(i) /\ owner = i /\ searchOn[i] /\ ProbesMatch(i) =>
    LET r == routers[i]
    IN  r.call = NoCall /\ Probed(r) /\ Answering(r) # {} => Chosen(r) \in Answering(r)
FailsOver == \A i \in Instances : <>[]Well(i)

\* An instance that could not take the directory back after a rollback does
\* so once it is free and CPA applies its configuration.
ReadOnlyEnds == \A i \in Instances : active = i /\ readOnly[i] ~> (active = i => ~readOnly[i])
===============================================================================
