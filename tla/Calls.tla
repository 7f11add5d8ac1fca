--------------------------------- MODULE Calls ---------------------------------
(***************************************************************************)
(* The calls of one key, from admission to billing (internal/policy:       *)
(* auth.go, routes.go, limiter.go, billing.go): the requests per minute,   *)
(* the prepaid balance, and the media generations, which are billed per    *)
(* call when a usage record carries the trace id that was admitted.  A hot *)
(* replacement hands the generations and what the quiesced instance still  *)
(* bills to the newer one through the journal.                             *)
(*                                                                         *)
(* The key is enabled and has a header or a query key; every charge is     *)
(* Cost (Charges computes them).  The hand-over itself, its failures and   *)
(* its rollback are Handoff's: here it succeeds, and the newer instance    *)
(* follows the journal to its last line.  The clock does not go back.      *)
(***************************************************************************)
EXTENDS Balance, MediaTraces

CONSTANTS
  RPM,         \* requests a minute
  Minute,
  Cost,        \* charge of a call
  Credit,      \* the balance at the start
  MaxInflight, \* calls CPA has under way at once
  MaxRecords   \* bound: usage records that carry one trace id

RateWindow == [start : Nat, count : 0..RPM]

ASSUME CallsAssumption ==
  /\ RPM \in Nat \ {0} /\ Minute \in Nat \ {0} /\ Cost \in Nat \ {0}
  /\ Credit \in Nat /\ MaxInflight \in Nat \ {0} /\ MaxRecords \in Nat \ {0}
  /\ None \notin Nat \cup Generations \cup RateWindow

VARIABLES
  clock,
  running,     \* the instance that owns the ledger, "serving", and the
               \* quiesced one CPA still calls, "late"
  behind,      \* the balance late goes by
  journal,     \* lines of late that serving has not followed yet
  calls,       \* calls admitted and not billed yet, but generations
  generations, \* history: the media generations of the key
  astray       \* history: calls late admitted, and records it billed

callVars == <<clock, running, behind, journal, calls, generations, astray>>
vars == <<balanceVars, left, callVars>>

Places == {"serving", "late"}

(* called: CPA may call it, which a quiesced one is until the newer one stops
   to follow it; passed: history, when requests passed the limiter. *)
IsInstance(i) ==
  /\ i = [called |-> i.called, window |-> i.window, traces |-> i.traces, passed |-> i.passed]
  /\ i.called \in BOOLEAN /\ i.window \in RateWindow \cup {None} /\ IsTraces(i.traces) /\ i.passed \in Seq(Nat)
NewInstance(traces) == [called |-> TRUE, window |-> None, traces |-> traces, passed |-> <<>>]
Gone == [called |-> FALSE, window |-> None, traces |-> NoTraces, passed |-> <<>>]

\* shared: replacements that left it with two instances; lost: a crash took it.
Generation == [at : Nat \cup {None}, billed : Nat, records : Nat, shared : Nat, lost : BOOLEAN]
NewGeneration == [at |-> None, billed |-> 0, records |-> 0, shared |-> 0, lost |-> FALSE]

\* A journal line: a generation, or a billed record.
Line == [at : Nat, trace : Generations \cup {None}]

TypeOK ==
  /\ BalanceTypeOK
  /\ clock \in Nat /\ \A where \in Places : IsInstance(running[where])
  /\ behind \in Int /\ journal \in Seq(Line) /\ calls \in 0..MaxInflight /\ astray \in Nat
  /\ generations \in [Generations -> Generation]

----------------------------------------------------------------------------
\* Where a request is admitted (routes.go)

Request(method, route, header) == [method |-> method, route |-> route, header |-> header]

(* Every kind of request but model lists, which are not admitted.  A route is
   a media generation, another one CPA intercepts, the responses socket, the
   result of a video, or one CPA does not intercept: "other images" is a
   generation of those.  A turn of a socket reaches the interceptor alone. *)
AllRequests ==
  {Request(method, route, header) : method \in {"GET", "POST"}, header \in BOOLEAN,
                                    route \in {"generation", "intercepted", "responses", "result", "other", "other images"}}
    \cup {Request("turn", "responses", TRUE)}

\* admissionStageFor: the interceptor can answer 429, but sees headers only.
Stage(request) ==
  CASE request.method = "turn" -> "interceptor"
    [] ~request.header -> "auth"
    [] request.method = "POST" /\ request.route \in {"generation", "intercepted", "responses"} -> "interceptor"
    [] request.method = "GET" /\ request.route = "responses" -> "quota"
    [] request.method = "GET" /\ request.route = "result" -> "interceptor"
    [] OTHER -> "auth"

\* Authenticate refuses a query key where the interceptor has to see it.
Refused(request) ==
  ~request.header /\ \/ request.route \in {"generation", "other images"}
                     \/ request.method = "GET" /\ request.route = "responses"

CountsRate(request) == Stage(request) # "quota"
ChecksQuota(request) == request.route # "result"

----------------------------------------------------------------------------
\* The requests per minute (limiter.go)

\* A window starts at the first request after the last one ended.
Window(window) ==
  IF window = None THEN [start |-> clock, count |-> 0]
  ELSE IF clock - window.start >= Minute \/ clock < window.start THEN [start |-> clock, count |-> 0]
  ELSE window

Allows(window) == Window(window).count < RPM
Counted_Restarted(window) == [start |-> clock, count |-> IF Allows(window) THEN 1 ELSE 0]
Counted(window) == IF Allows(window) THEN [Window(window) EXCEPT !.count = @ + 1] ELSE Window(window)

Limited(instance, request) ==
  IF ~CountsRate(request) THEN instance
  ELSE [instance EXCEPT !.window = Counted(@), !.passed = IF Allows(instance.window) THEN Append(@, clock) ELSE @]

----------------------------------------------------------------------------
\* Admission

\* CPA calls the active instance, or for a while the one before it.
Called(where) == IF where = "late" THEN running["late"].called ELSE up

Nano(where) == IF where = "late" THEN behind ELSE mem.nano

\* admit: the rate, which a request without balance has used up all the same.
Admits(where, request) ==
  /\ ~Refused(request)
  /\ CountsRate(request) => Allows(running[where].window)
  /\ ChecksQuota(request) => Positive(Nano(where))

\* A socket's turns reach a model; its handshake and the results do not.
ReachesModel(request) == request.method # "GET" /\ request.route # "result"

Pending == {g \in Generations : /\ generations[g].at # None /\ ~generations[g].lost
                                /\ generations[g].billed = 0 /\ generations[g].records < MaxRecords}
Inflight == calls + Cardinality(Pending)

\* Any request but a generation at the interceptor, refused or let through.
Requests(where, request) ==
  LET starts == Admits(where, request) /\ ReachesModel(request)
  IN  /\ Called(where) /\ Comes("call")
      /\ request.route = "generation" => Stage(request) # "interceptor"
      /\ starts => Inflight < MaxInflight
      /\ calls' = IF starts THEN calls + 1 ELSE calls
      /\ running' = [running EXCEPT ![where] = IF Refused(request) THEN @ ELSE Limited(@, request)]
      /\ astray' = IF starts /\ where = "late" THEN astray + 1 ELSE astray
      /\ UNCHANGED <<balanceVars, clock, behind, journal, generations>>

Generates == Request("POST", "generation", TRUE)

\* AdmitIntercepted of a media generation remembers its trace; a quiesced
\* instance journals it too.
GenerationStarts(where, g) ==
  LET limited == Limited(running[where], Generates)
  IN  /\ Called(where) /\ Comes("generation")
      /\ generations[g].at = None /\ Inflight < MaxInflight
      /\ IF Admits(where, Generates)
         THEN /\ running' = [running EXCEPT ![where] = [limited EXCEPT !.traces = Remembered(limited.traces, g, clock)]]
              /\ generations' = [generations EXCEPT ![g].at = clock, ![g].shared = IF where = "late" THEN 1 ELSE 0]
              /\ IF where = "late"
                 THEN astray' = astray + 1 /\ journal' = Append(journal, [at |-> clock, trace |-> g])
                 ELSE UNCHANGED <<astray, journal>>
         ELSE running' = [running EXCEPT ![where] = limited] /\ UNCHANGED <<generations, journal, astray>>
      /\ UNCHANGED <<balanceVars, clock, behind, calls>>

ResetRPM ==
  /\ up /\ running["serving"].window # None /\ Comes("reset")
  /\ running' = [running EXCEPT !["serving"].window = None, !["serving"].passed = <<>>]
  /\ UNCHANGED <<balanceVars, clock, behind, journal, calls, generations, astray>>

----------------------------------------------------------------------------
\* Usage records

\* record and journalUsage.
Charge(where) ==
  IF where = "late"
  THEN /\ behind' = behind - Cost /\ astray' = astray + 1
       /\ journal' = Append(journal, [at |-> clock, trace |-> None])
       /\ UNCHANGED balanceVars
  ELSE Deduct(Cost) /\ UNCHANGED <<behind, astray, journal>>

NoCharge == UNCHANGED <<balanceVars, behind, astray, journal>>

\* A call's record is charged by its tokens, unless the call failed.
CallEnds(where) ==
  /\ Called(where) /\ calls > 0
  /\ calls' = calls - 1
  /\ Charge(where) \/ NoCharge
  /\ UNCHANGED <<clock, running, generations, left>>

Spent_Kept(traces, g) == Trimmed(traces, clock)
Spent(traces, g) == Taken(traces, g, clock)

\* A record that carries the trace id of a generation: the generation's own,
\* or one more.  One that failed leaves the trace.
GenerationRecord(where, g, failed) ==
  LET traces == running[where].traces
      billed == ~failed /\ Contained(traces, g, clock)
  IN  /\ Called(where)
      /\ generations[g].at # None /\ ~generations[g].lost /\ generations[g].records < MaxRecords
      /\ IF generations[g].records = 0 THEN UNCHANGED left ELSE Comes("again")
      /\ generations' = [generations EXCEPT ![g].records = @ + 1, ![g].billed = IF billed THEN @ + 1 ELSE @]
      /\ running' = [running EXCEPT ![where].traces = IF failed THEN @ ELSE Spent(@, g)]
      /\ IF billed THEN Charge(where) ELSE NoCharge
      /\ UNCHANGED <<clock, calls>>

----------------------------------------------------------------------------
\* Hot replacement

\* One line after the other; those without a generation bring none.
Adopted(traces, lines) ==
  LET adopt[n \in 0..Len(lines)] ==
        IF n = 0 THEN traces
        ELSE IF lines[n].trace = None THEN adopt[n - 1]
        ELSE RememberedAt(adopt[n - 1], lines[n].trace, lines[n].at, clock)
  IN  adopt[Len(lines)]

\* Quiesce writes the cut and journals the generations that await a record;
\* the newer instance loads the one and replays the other.
HandOver ==
  LET old == running["serving"]
      order == Trimmed(old.traces, clock).order
      lines == [n \in DOMAIN order |-> [at |-> order[n].at, trace |-> IF n \in Live(old.traces, clock) THEN order[n].id ELSE None]]
  IN  /\ up /\ plan = None /\ ~running["late"].called /\ Comes("hand over")
      /\ running' = [late |-> old, serving |-> NewInstance(Adopted(NoTraces, lines))]
      /\ behind' = mem.nano
      /\ disk' = mem /\ dirty' = FALSE /\ revised' = FALSE
      /\ generations' = [g \in Generations |-> [generations[g] EXCEPT !.shared = IF Contained(old.traces, g, clock) THEN @ + 1 ELSE @]]
      /\ UNCHANGED <<up, mem, plan, answers, clock, journal, calls, astray>>

\* followHandoff: whole lines, once each.
Follow ==
  /\ up /\ journal # <<>>
  /\ journal' = <<>>
  /\ running' = [running EXCEPT !["serving"].traces = Adopted(@, journal)]
  /\ LET records == {n \in DOMAIN journal : journal[n].trace = None}
     IN  IF records = {} THEN UNCHANGED balanceVars ELSE Deduct(Cost * Cardinality(records))
  /\ UNCHANGED <<left, clock, behind, calls, generations, astray>>

FollowEnds ==
  /\ running["late"].called /\ journal = <<>>
  /\ running' = [running EXCEPT !["late"] = Gone] /\ behind' = 0
  /\ UNCHANGED <<balanceVars, left, clock, journal, calls, generations, astray>>

----------------------------------------------------------------------------

Tick == Comes("tick") /\ clock' = clock + 1 /\ UNCHANGED <<balanceVars, running, behind, journal, calls, generations, astray>>

Dies ==
  /\ Crash
  /\ running' = [serving |-> NewInstance(NoTraces), late |-> Gone] /\ behind' = 0 /\ journal' = <<>> /\ calls' = 0
  /\ generations' = [g \in Generations |-> [generations[g] EXCEPT !.lost = @ \/ generations[g].at # None]]
  /\ UNCHANGED <<clock, astray>>

Init ==
  /\ BalanceInit(Credit)
  /\ clock = 0 /\ running = [serving |-> NewInstance(NoTraces), late |-> Gone] /\ behind = 0
  /\ journal = <<>> /\ calls = 0 /\ astray = 0
  /\ generations = [g \in Generations |-> NewGeneration]

Balances ==
  /\ \/ \E id \in Ids \cup {NoId} :
          \/ \E amount \in Amounts : Adjust(id, amount) \/ AdjustFails(id, amount)
          \/ Duplicate(id)
     \/ PlanFlush \/ FlushWrites \/ FlushFails \/ Restart
  /\ UNCHANGED callVars

Next ==
  \/ Balances
  \/ \E where \in Places :
       \/ \E request \in AllRequests : Requests(where, request)
       \/ \E g \in Generations :
            \/ GenerationStarts(where, g)
            \/ \E failed \in BOOLEAN : GenerationRecord(where, g, failed)
       \/ CallEnds(where)
  \/ ResetRPM \/ HandOver \/ Follow \/ FollowEnds \/ Tick \/ Dies

Spec == Init /\ [][Next]_vars

----------------------------------------------------------------------------
\* Properties

(* Calls take a balance below zero only by what was in flight when it ran out
   (balance.go:14), and by what the quiesced instance of a replacement admits
   or bills, a generation twice even: it does not learn what the newer one
   bills, which in turn has not followed its journal yet. *)
BilledAgain == {g \in Generations : generations[g].billed > 1}
OverdrawnByInflight ==
  up => mem.nano + mem.debited > -Cost * (MaxInflight + astray + Cardinality(BilledAgain))

(* A generation is billed when its record comes within the hour: the instance
   that gets it knows the trace, or follows the line that brings it, across
   records that failed, replacements and fresher generations, unless as many
   as it remembers were admitted since. *)
GenerationsAreRemembered ==
  up => \A g \in Generations :
    /\ generations[g].at # None /\ ~generations[g].lost /\ generations[g].billed = 0
    /\ ~Expired(generations[g].at, clock)
    /\ Cardinality({h \in Generations \ {g} : generations[h].at # None /\ generations[h].at >= generations[g].at}) < Capacity
    => Contained(running["serving"].traces, g, clock) \/ \E n \in DOMAIN journal : journal[n].trace = g

(* However many records carry its trace id, an instance bills a generation
   once (README.md:80); once more only for every replacement that left it with
   both instances, as a record the quiesced one bills does not take its trace
   from the newer one. *)
GenerationBilledOnce ==
  \A g \in Generations : generations[g].billed <= 1 + generations[g].shared

(* In no minute does an instance let more than twice the requests per minute
   pass, unless an administrator resets them. *)
RateHolds ==
  \A where \in Places :
    LET passed == running[where].passed
    IN  \A n \in DOMAIN passed : n + 2 * RPM \in DOMAIN passed => passed[n + 2 * RPM] - passed[n] >= Minute
===============================================================================
