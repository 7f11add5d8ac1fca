------------------------------- MODULE Verdicts -------------------------------
(***************************************************************************)
(* What the inspection concludes from its rounds (internal/quality:        *)
(* inspection.go): the share of a round each channel gets, the verdicts of *)
(* a day, the best channel of a group, what needs attention, when the      *)
(* schedule runs next and what the file keeps.                             *)
(*                                                                         *)
(* Times are ticks, a group is a model with an effort, and an answer is    *)
(* right or wrong.  The order of the lists and the errors' texts are left  *)
(* out, and clock changes.                                                 *)
(***************************************************************************)
EXTENDS Integers, Sequences, FiniteSets, FiniteSetsExt, SequencesExt

CONSTANTS
  AuthIndexes,     \* the channels of CPA
  ModelEfforts,    \* the models and efforts of the groups
  Never,           \* the schedule is off
  DayLength,       \* ticks of a day
  Retention,       \* inspectionRetention
  AnswerRetention, \* inspectionAnswerRetention
  MaxAnswers,      \* bound: answers of a channel
  MaxRuns          \* bound: questions of a round

ASSUME VerdictsAssumption ==
  /\ IsFiniteSet(AuthIndexes) /\ IsFiniteSet(ModelEfforts)
  /\ ModelEfforts \cap (AuthIndexes \X ModelEfforts) = {}
  /\ DayLength \in Nat \ {0} /\ AnswerRetention \in Nat /\ Retention \in Nat
  /\ DayLength <= AnswerRetention /\ AnswerRetention <= Retention
  /\ MaxAnswers \in Nat /\ MaxRuns \in Nat

VARIABLE shown \* what a part of the page is computed from

----------------------------------------------------------------------------
\* One channel of a round

\* What CPA answers a question with.
Outcomes == {"right", "wrong", "error", "not_serving"}
Number(outcomes, some) == Cardinality({n \in DOMAIN outcomes : outcomes[n] \in some})

\* roundItem; misses: the questions whose wrong answer is kept.
NoItem == [answered |-> 0, correct |-> 0, failed |-> 0, skipped |-> "", misses |-> {}]

(* inspect: the questions one after another; a channel without the model is
   asked once, and later such answers are failures like others. *)
Inspected(outcomes) ==
  IF Len(outcomes) > 0 /\ outcomes[1] = "not_serving" THEN [NoItem EXCEPT !.skipped = "not_serving"]
  ELSE [answered |-> Number(outcomes, {"right", "wrong"}), correct |-> Number(outcomes, {"right"}),
        failed |-> Number(outcomes, {"error", "not_serving"}), skipped |-> "",
        misses |-> {n \in DOMAIN outcomes : outcomes[n] = "wrong"}]

\* How CPA lists a channel; startRound asks one that is available.
Listings == {"available", "unavailable", "disabled", "missing"}

(* startRound and runRound: the group's channels each have an item, skipped if
   they cannot be asked; of the others those asked that have the model. *)
Items(members, ignored, listing, outcomes) ==
  LET item(c) == IF listing[c] = "available" THEN Inspected(outcomes[c]) ELSE [NoItem EXCEPT !.skipped = listing[c]]
      found == {c \in AuthIndexes \ (members \cup ignored) :
                  listing[c] = "available" /\ item(c).skipped # "not_serving"}
  IN  [c \in members \cup found |-> item(c)]

----------------------------------------------------------------------------
\* Rounds: when they started, and an item for each channel and group of a key

(* saveInspectionLocked: the file keeps the rounds from the first that is
   young enough, and the wrong answers for a shorter time. *)
Retained(rounds, now) ==
  LET young == {n \in DOMAIN rounds : rounds[n].started >= now - Retention}
      kept == IF young = {} THEN <<>> ELSE SubSeq(rounds, Min(young), Len(rounds))
      Aged(round) ==
        IF round.started >= now - AnswerRetention THEN round
        ELSE [round EXCEPT !.items = [k \in DOMAIN round.items |-> [round.items[k] EXCEPT !.misses = {}]]]
  IN  [n \in DOMAIN kept |-> Aged(kept[n])]

OnDay(rounds, day) == {n \in DOMAIN rounds : rounds[n].started \div DayLength = day}
Recent(rounds, now) == {n \in DOMAIN rounds : rounds[n].started >= now - DayLength}

\* InspectionCell: a channel's items of some rounds, added up.
Total(items) ==
  [answered |-> MapThenSumSet(LAMBDA n : items[n].answered, DOMAIN items),
   correct |-> MapThenSumSet(LAMBDA n : items[n].correct, DOMAIN items),
   failed |-> MapThenSumSet(LAMBDA n : items[n].failed, DOMAIN items)]
Cells(rounds, some) ==
  [k \in UNION {DOMAIN rounds[n].items : n \in some} |->
     Total([n \in {m \in some : k \in DOMAIN rounds[m].items} |-> rounds[n].items[k]])]

----------------------------------------------------------------------------
\* Verdicts

\* inspectionVerdict.
Verdict(answered, correct, failed) ==
  CASE answered = 0 -> IF failed > 0 THEN "failed" ELSE "skipped"
    [] answered > 0 /\ 3 * correct >= 2 * answered -> "ok"
    [] answered > 0 /\ 3 * correct < 2 * answered /\ 3 * correct >= answered -> "suspect"
    [] OTHER -> "degraded"

Better_MoreRight(cell, best) ==
  \/ best.answered = 0
  \/ cell.correct > best.correct \/ (cell.correct = best.correct /\ cell.answered > best.answered)

\* A higher share of right answers; on a tie, more answers.
Better(cell, best) ==
  LET more == cell.correct * best.answered - best.correct * cell.answered
  IN  best.answered = 0 \/ more > 0 \/ (more = 0 /\ cell.answered > best.answered)

(* bestOf of one group: it goes through the channels in the order of a Go map,
   which is any. *)
NoBest == [channels |-> 0, answered |-> 0, correct |-> 0]
Challenged(best, cell) ==
  IF Better(cell, best)
  THEN [channels |-> best.channels + 1, answered |-> cell.answered, correct |-> cell.correct]
  ELSE [best EXCEPT !.channels = @ + 1]
BestInOrder(cells, order) == FoldLeft(LAMBDA best, k : Challenged(best, cells[k]), NoBest, order)

AnsweredIn(cells, group) == {k \in DOMAIN cells : k[2] = group /\ cells[k].answered > 0}
BestOf(cells, group) == BestInOrder(cells, SetToSeq(AnsweredIn(cells, group)))

\* Two or more channels answered and even the best is not ok.
Low(best) == best.channels >= 2 /\ Verdict(best.answered, best.correct, 0) # "ok"

\* Inspection: one day of the page.
DayView(rounds, day) ==
  LET cells == Cells(rounds, OnDay(rounds, day))
  IN  [verdicts |-> [k \in DOMAIN cells |-> Verdict(cells[k].answered, cells[k].correct, cells[k].failed)],
       groups |-> [g \in {h \in ModelEfforts : AnsweredIn(cells, h) # {}} |-> BestOf(cells, g)]]

(* Attention: of the last 24 hours, a low group stands in for its channels,
   which share the same cause. *)
Attention(rounds, now) ==
  LET cells == Cells(rounds, Recent(rounds, now))
      low == {g \in ModelEfforts : Low(BestOf(cells, g))}
      judged(k) == Verdict(cells[k].answered, cells[k].correct, 0)
  IN  {[of |-> g, verdict |-> "group_low"] : g \in low}
      \cup {[of |-> k, verdict |-> judged(k)] :
              k \in {j \in DOMAIN cells : j[2] \notin low /\ judged(j) \in {"degraded", "suspect"}}}

----------------------------------------------------------------------------
\* The schedule

\* clockOn.
On(day, time) == day * DayLength + time

\* dueSlot: the latest of today's times that has come, if no round ran for it.
Due(now, times, done) ==
  LET come == {t \in times : On(now \div DayLength, t) <= now}
  IN  IF come = {} THEN {} ELSE {On(now \div DayLength, Max(come))} \ done

(* nextRunLocked: now while a slot is due, else the first time to come today
   or tomorrow. *)
NextRun(now, enabled, times, done) ==
  LET coming == {at \in {On(now \div DayLength + day, t) : day \in {0, 1}, t \in times} : at > now}
  IN  IF ~enabled THEN Never ELSE IF Due(now, times, done) # {} THEN now ELSE Min(coming)

----------------------------------------------------------------------------
\* What the page is computed from: the answers of a group's channels, the
\* recorded rounds, or the schedule and the slots that have had a round

Counts == {count \in [answered : 0..MaxAnswers, correct : 0..MaxAnswers] : count.correct <= count.answered}

\* What a round of a group may come to, with so many questions.
RoundItems(runs) ==
  LET items == {Items(members, ignored, listing, outcomes) :
                  members \in SUBSET AuthIndexes, ignored \in SUBSET AuthIndexes,
                  listing \in [AuthIndexes -> Listings], outcomes \in [AuthIndexes -> UNION {[1..n -> Outcomes] : n \in 0..runs}]}
  IN  {[k \in (DOMAIN item) \X ModelEfforts |-> item[k[1]]] : item \in items}

\* Two rounds, the second of today.
Today == 3 * DayLength

Nothing == [of |-> "nothing"]
Shows ==
  \/ \E cells \in [1..3 -> Counts] : shown' = [of |-> "group", cells |-> cells]
  \/ \E at \in {Today, Today - 1, Today - DayLength}, first \in RoundItems(MaxRuns), second \in RoundItems(1) :
       shown' = [of |-> "rounds", rounds |-> <<[started |-> at, items |-> first], [started |-> Today, items |-> second]>>]
  \/ \E now \in DayLength..(2 * DayLength - 1), times \in (SUBSET (0..(DayLength - 1))) \ {{}} :
       \E done \in SUBSET {at \in {On(day, t) : day \in {0, 1}, t \in times} : at <= now} :
         shown' = [of |-> "schedule", now |-> now, times |-> times, done |-> done]

----------------------------------------------------------------------------
\* Properties

(* A group's best channel does not depend on the order of a Go map, and the
   group is low exactly if two or more channels answered and none of them is
   ok (README.md:174; inspection.go:531): a channel with few answers, all
   right, is not hidden by one with many. *)
BestIsBest(cells) ==
  LET answered == {c \in DOMAIN cells : cells[c].answered > 0}
      best == BestInOrder(cells, SetToSeq(answered))
      ok == {c \in answered : Verdict(cells[c].answered, cells[c].correct, 0) = "ok"}
  IN  /\ \A order \in SetToSeqs(answered) : BestInOrder(cells, order) = best
      /\ Low(best) <=> Cardinality(answered) >= 2 /\ ok = {}

(* A channel the last day's answers judge degraded or suspect is listed, by
   itself or by its low group and never by both, and neither lists one that is
   ok (inspection.go:738).  The page's day says the same of the rounds of a
   day, and what the file no longer keeps was not needed. *)
AttentionCovers(rounds) ==
  LET now == Today + 1
      cells == Cells(rounds, Recent(rounds, now))
      list == {entry.of : entry \in Attention(rounds, now)}
      day == DayView(rounds, 3)
      judged(k) == Verdict(cells[k].answered, cells[k].correct, cells[k].failed)
  IN  /\ \A k \in DOMAIN cells :
           /\ judged(k) \in {"degraded", "suspect"} => Cardinality({k, k[2]} \cap list) = 1
           /\ judged(k) = "ok" => {k, k[2]} \cap list = {}
      /\ Recent(rounds, now) = OnDay(rounds, 3) =>
           /\ \A k \in DOMAIN cells : day.verdicts[k] = judged(k)
           /\ {g \in DOMAIN day.groups : Low(day.groups[g])} = list \cap ModelEfforts
      /\ Attention(Retained(rounds, now), now) = Attention(rounds, now)

(* The time the page announces is right: until then no slot is due, and at
   that time one is (inspection.go:658). *)
NextRunIsDue(now, times, done) ==
  LET next == NextRun(now, TRUE, times, done)
  IN  /\ next >= now /\ Due(next, times, done) # {}
      /\ \A at \in now..(next - 1) : Due(at, times, done) = {}

\* Each of them, of whatever the page is computed from.
PageIsRight ==
  /\ shown.of = "group" => BestIsBest(shown.cells)
  /\ shown.of = "rounds" => AttentionCovers(shown.rounds)
  /\ shown.of = "schedule" => NextRunIsDue(shown.now, shown.times, shown.done)
===============================================================================
