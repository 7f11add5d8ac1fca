------------------------------- MODULE Adapters -------------------------------
(***************************************************************************)
(* The adapter rules (internal/adapt: Manager; the handlers of             *)
(* internal/plugin: console.go, app.go): operators create, edit and delete *)
(* rules and delete channels with theirs, while attempts are rewritten by  *)
(* the rules of the moment and counted.                                    *)
(*                                                                         *)
(* mu is held from a change's check to its end; attempts take the book     *)
(* without it, and the hits have a lock of their own.  A deletion of a     *)
(* channel is about one that left CPA's configuration; its statistics are  *)
(* ChannelStats'.  Plugin has the check that this instance may write.      *)
(***************************************************************************)
EXTENDS Rewrites

CONSTANTS
  Operators,   \* management calls under way at once
  Drafts,      \* rules without id an operator may send
  Attempts,    \* attempts under way at once
  Requests,    \* [channel, path, body] of attempts
  RuleFailures \* what may fail: a save ("rules"), or the directory sync after its
               \* rename ("rules.sync")

ASSUME AdaptersAssumption ==
  /\ \A draft \in Drafts :
       /\ DOMAIN draft = {"id", "channel", "kind", "paths", "field", "value", "overwrite", "enabled"}
       /\ draft.id = NoId /\ draft.overwrite \in BOOLEAN
  /\ NoId \notin Operators
  /\ RuleFailures \subseteq {"rules", "rules.sync"}

VARIABLES
  rules,    \* the Manager's, in the order of their creation
  book,     \* the rules attempts are rewritten by
  hits,     \* attempts counted, of each rule that has a counter
  ruleFile,
  steps,    \* of each operator's call
  mu,       \* the operator that holds it, or NoId
  attempts, \* of each attempt, what is still to be counted
  \* history
  named,    \* ids ever given
  counted,  \* attempts a rule changed, since the start
  answered, \* of each id, the rule the last answer left, or NoId
  unsure,   \* ids whose rule in the file no answer is about
  wrong,    \* rules a channel's deletion left or took though no call changed them meanwhile
  ruleCalls, ruleAttempts \* bounds: calls and attempts to come

ruleHistory == <<named, counted, answered, unsure, wrong>>
adapterVars == <<rules, book, hits, ruleFile, steps, mu, attempts, ruleHistory, ruleCalls, ruleAttempts>>

Ids(list) == {list[n].id : n \in DOMAIN list}
At(list, id) == CHOOSE n \in DOMAIN list : list[n].id = id
Find(list, id) == IF id \in Ids(list) THEN list[At(list, id)] ELSE NoId

(* An operator's call. rule: what it sends; id: the rule it changes; next: the
   list it saved; todo: what of memory it has still to change.  Of a channel's
   deletion: left, what is left of the list it read, and, as history, the
   rules other calls changed since. *)
Rest == [at |-> "idle", op |-> "none", rule |-> NoId, id |-> NoId, next |-> <<>>, todo |-> <<>>,
         channel |-> NoId, left |-> <<>>, touched |-> {}]

IsKept(rule) == rule = Normalized(rule) /\ Accepted(rule) /\ rule.id \in RuleIds
AdaptersTypeOK ==
  /\ \A n \in DOMAIN rules : IsKept(rules[n])
  /\ DOMAIN hits \subseteq RuleIds /\ \A id \in DOMAIN hits : hits[id] \in Nat
  /\ \A o \in Operators : steps[o].at \in {"idle", "read", "waits", "saved"} /\ DOMAIN steps[o] = DOMAIN Rest
  /\ mu \in Operators \cup {NoId}
  /\ \A t \in Attempts : attempts[t] \subseteq RuleIds
  /\ named \subseteq RuleIds /\ counted \in [RuleIds -> Nat] /\ unsure \subseteq RuleIds /\ wrong \subseteq RuleIds
  /\ ruleCalls \in Nat /\ ruleAttempts \in Nat

AdaptersInit ==
  /\ rules = <<>> /\ book = <<>> /\ hits = <<>> /\ ruleFile = <<>>
  /\ steps = [o \in Operators |-> Rest] /\ mu = NoId
  /\ attempts = [t \in Attempts |-> {}]
  /\ named = {} /\ counted = [id \in RuleIds |-> 0] /\ answered = [id \in RuleIds |-> NoId]
  /\ unsure = {} /\ wrong = {}

----------------------------------------------------------------------------
\* A call arrives: POST or DELETE /adapters, or DELETE /channels

Arrives(o, step) ==
  /\ steps[o] = Rest /\ ruleCalls > 0
  /\ steps' = [steps EXCEPT ![o] = step] /\ ruleCalls' = ruleCalls - 1
  /\ UNCHANGED <<rules, book, hits, ruleFile, mu, attempts, ruleHistory, ruleAttempts>>

\* A draft with an id edits that rule, which may be gone.
UpsertArrives(o) ==
  \E draft \in Drafts, id \in named \cup {NoId} :
    /\ Accepted(draft)
    /\ Arrives(o, [Rest EXCEPT !.at = "waits", !.op = IF id = NoId THEN "create" ELSE "edit",
                               !.rule = Normalized(draft), !.id = id])

DeleteArrives(o) == \E id \in named : Arrives(o, [Rest EXCEPT !.at = "waits", !.op = "delete", !.id = id])

\* channelPatchMu lets one at a time through; its statistics are gone by now.
ChannelDeleteArrives(o) ==
  /\ \A p \in Operators : steps[p].channel = NoId
  /\ \E c \in Channels : Arrives(o, [Rest EXCEPT !.at = "read", !.channel = c])

\* Where a channel's rules are in a list.
Of(channel, list) == {n \in DOMAIN list : list[n].channel = channel}

\* A channel's deletion goes on with its next rule.
Continues(step) ==
  LET found == Of(step.channel, step.left)
      n == Min(found)
  IN  IF found = {} THEN Rest
      ELSE [Rest EXCEPT !.at = "waits", !.op = "delete", !.id = step.left[n].id, !.channel = step.channel,
                        !.left = SubSeq(step.left, n + 1, Len(step.left)), !.touched = step.touched]

\* The rules of a channel that is gone, by now.
Left(step, list) ==
  IF step.channel = NoId \/ Of(step.channel, step.left) # {} THEN {}
  ELSE {list[n].id : n \in Of(step.channel, list)} \ step.touched

\* Rules: a list of the moment.
ChannelDeleteReads(o) ==
  /\ steps[o].at = "read" /\ mu = NoId
  /\ steps' = [steps EXCEPT ![o] = Continues([@ EXCEPT !.left = rules, !.touched = {}])]
  /\ UNCHANGED <<rules, book, hits, ruleFile, mu, attempts, ruleHistory, ruleCalls, ruleAttempts>>

----------------------------------------------------------------------------
\* Upsert and Delete

Full_OneMore == Len(rules) > MaxRules
Full == Len(rules) >= MaxRules

\* ErrNotFound, which ends a channel's deletion too, or too many rules.
Refuses(step) == IF step.op = "create" THEN Full ELSE step.id \notin Ids(rules)

\* The list with the change.
With(step, id) ==
  CASE step.op = "create" -> Append(rules, [step.rule EXCEPT !.id = id])
    [] step.op = "edit" -> [rules EXCEPT ![At(rules, id)] = [step.rule EXCEPT !.id = id]]
    [] step.op = "delete" -> RemoveAt(rules, At(rules, id))

(* The counter of a new rule comes before the book that has the rule, and goes
   after the book without it. *)
Order_BookFirst(op) == IF op = "edit" THEN <<"book">> ELSE <<"book", "hits">>
Order(op) == CASE op = "create" -> <<"hits", "book">> [] op = "edit" -> <<"book">> [] op = "delete" -> <<"book", "hits">>

\* A new id is one nobody ever had.
SaveRules(o) ==
  LET step == steps[o]
  IN  /\ step.at = "waits" /\ mu = NoId /\ ~Refuses(step)
      /\ \E id \in IF step.op = "create" THEN RuleIds \ named ELSE {step.id} :
           /\ ruleFile' = With(step, id) /\ unsure' = {id}
           /\ steps' = [steps EXCEPT ![o] = [@ EXCEPT !.at = "saved", !.id = id, !.next = With(step, id), !.todo = Order(step.op)]]
           /\ named' = named \cup {id}
      /\ mu' = o
      /\ UNCHANGED <<rules, book, hits, attempts, counted, answered, wrong, ruleCalls, ruleAttempts>>

\* The call is refused, or its write fails: before its rename, or after it.
RuleFails(o) ==
  LET step == steps[o]
  IN  /\ step.at = "waits" /\ mu = NoId
      /\ \/ Refuses(step) /\ UNCHANGED <<ruleFile, unsure, named>>
         \/ "rules" \in RuleFailures /\ ~Refuses(step) /\ UNCHANGED <<ruleFile, unsure, named>>
         \/ /\ "rules.sync" \in RuleFailures /\ ~Refuses(step)
            /\ \E id \in IF step.op = "create" THEN RuleIds \ named ELSE {step.id} :
                 ruleFile' = With(step, id) /\ unsure' = {id} /\ named' = named \cup {id}
      /\ steps' = [steps EXCEPT ![o] = Rest]
      /\ UNCHANGED <<rules, book, hits, mu, attempts, counted, answered, wrong, ruleCalls, ruleAttempts>>

\* One more of the changes to memory is made; the last one answers the call.
Goes(o, list) ==
  LET step == steps[o]
      last == Len(step.todo) = 1
  IN  /\ steps' = IF ~last THEN [steps EXCEPT ![o].todo = Tail(@)]
                  ELSE [p \in Operators |-> IF p = o THEN Continues(step)
                                            ELSE IF steps[p] = Rest THEN Rest ELSE [steps[p] EXCEPT !.touched = @ \cup {step.id}]]
      /\ IF last THEN /\ mu' = NoId /\ unsure' = {}
                      /\ answered' = [answered EXCEPT ![step.id] = Find(list, step.id)]
                      /\ wrong' = wrong \cup Left(step, list)
                 ELSE UNCHANGED <<mu, unsure, answered, wrong>>
      /\ UNCHANGED <<ruleFile, attempts, named, counted, ruleCalls, ruleAttempts>>

Publishes(o) ==
  /\ steps[o].at = "saved" /\ Head(steps[o].todo) = "book"
  /\ rules' = steps[o].next /\ book' = steps[o].next
  /\ Goes(o, steps[o].next) /\ UNCHANGED hits

Counter(o) ==
  /\ steps[o].at = "saved" /\ Head(steps[o].todo) = "hits"
  /\ hits' = IF steps[o].op = "create"
             THEN [id \in DOMAIN hits \cup {steps[o].id} |-> IF id = steps[o].id THEN 0 ELSE hits[id]]
             ELSE [id \in DOMAIN hits \ {steps[o].id} |-> hits[id]]
  /\ Goes(o, rules) /\ UNCHANGED <<rules, book>>

----------------------------------------------------------------------------
\* Attempts (adaptAttempt)

AttemptMatches(t) ==
  /\ attempts[t] = {} /\ ruleAttempts > 0
  /\ \E r \in Requests : attempts' = [attempts EXCEPT ![t] = Rewritten(book, r.channel, r.path, r.body).applied]
  /\ ruleAttempts' = ruleAttempts - 1
  /\ UNCHANGED <<rules, book, hits, ruleFile, steps, mu, ruleHistory, ruleCalls>>

\* RecordHits skips a rule without a counter: one deleted since.
Recorded(ids) == [id \in DOMAIN hits |-> IF id \in ids THEN hits[id] + 1 ELSE hits[id]]
AttemptCounts(t) ==
  /\ attempts[t] # {}
  /\ hits' = Recorded(attempts[t])
  /\ counted' = [id \in RuleIds |-> IF id \in attempts[t] THEN counted[id] + 1 ELSE counted[id]]
  /\ attempts' = [attempts EXCEPT ![t] = {}]
  /\ UNCHANGED <<rules, book, ruleFile, steps, mu, named, answered, unsure, wrong, ruleCalls, ruleAttempts>>

----------------------------------------------------------------------------
\* Crash and restart

AdaptersCrash ==
  /\ rules' = <<>> /\ book' = <<>> /\ hits' = <<>>
  /\ steps' = [o \in Operators |-> Rest] /\ mu' = NoId /\ attempts' = [t \in Attempts |-> {}]
  /\ UNCHANGED <<ruleFile, ruleHistory, ruleCalls, ruleAttempts>>

\* NewManager.
AdaptersRestart ==
  /\ rules' = Loaded(ruleFile) /\ book' = Loaded(ruleFile)
  /\ hits' = [id \in Ids(ruleFile) |-> 0] /\ counted' = [id \in RuleIds |-> 0]
  /\ answered' = [id \in RuleIds |-> Find(Loaded(ruleFile), id)] /\ unsure' = {}
  /\ UNCHANGED <<ruleFile, steps, mu, attempts, named, wrong, ruleCalls, ruleAttempts>>

AdaptersNext ==
  \/ \E o \in Operators :
       \/ UpsertArrives(o) \/ DeleteArrives(o) \/ ChannelDeleteArrives(o) \/ ChannelDeleteReads(o)
       \/ SaveRules(o) \/ RuleFails(o) \/ Publishes(o) \/ Counter(o)
  \/ \E t \in Attempts : AttemptMatches(t) \/ AttemptCounts(t)

----------------------------------------------------------------------------
\* Properties

(* What an operator was answered is what the file holds: a rule whose change
   failed or is under way may be either, and no other.  The file passes the
   checks it is loaded with (adapt.go "a hand-edited file cannot bypass it"),
   and a channel whose deletion was answered has no rules but those another
   call changed meanwhile (console.go "its statistics, metadata and the
   adapter rules bound to it"). *)
RulesAreKept ==
  /\ Loads(ruleFile)
  /\ \A id \in RuleIds \ unsure : Find(ruleFile, id) = answered[id]
  /\ wrong = {}

(* A rule that attempts are rewritten by has a counter, and the counter tells
   how many attempts it changed, also those it changed while it was created;
   only rules that exist, or are about to or did just now, have one. *)
HitsAreCounted ==
  /\ Ids(book) \subseteq DOMAIN hits
  /\ DOMAIN hits \subseteq Ids(book) \cup (IF mu = NoId THEN {} ELSE {steps[mu].id})
  /\ \A id \in Ids(book) : hits[id] = counted[id]
===============================================================================
