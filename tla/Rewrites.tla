------------------------------- MODULE Rewrites -------------------------------
(***************************************************************************)
(* What a rule of a channel does to the body of an attempt, and which      *)
(* rules are accepted (internal/adapt).                                    *)
(*                                                                         *)
(* A body is a function from its top-level fields to JSON values; a value  *)
(* is a string, a list, an object, one that cannot be read, or other.      *)
(* Texts are what is left after trimming and lowercasing; their characters *)
(* and lengths, and the note, are left out.                                *)
(***************************************************************************)
EXTENDS Naturals, Sequences, FiniteSets, SequencesExt

CONSTANTS
  RuleIds,   \* r_ and 16 digits
  Channels,  \* auth_index
  NoId, NoField, NoValue,
  EditPaths, \* where the images of an edit are moved by default
  MaxRules,  \* maxRules
  MaxPaths   \* maxPaths

ASSUME RewritesAssumption ==
  /\ NoId \notin RuleIds \cup Channels /\ IsFiniteSet(EditPaths) /\ EditPaths # {}
  /\ Cardinality(EditPaths) <= MaxPaths
  /\ MaxRules \in Nat /\ MaxPaths \in Nat

Text(text) == [is |-> "string", text |-> text]
List(elements) == [is |-> "list", elements |-> elements]
Object(members) == [is |-> "object", members |-> members]
Unreadable == [is |-> "unreadable"]
Null == [is |-> "null"]
Other == [is |-> "other"]

----------------------------------------------------------------------------
\* edits_image_field

NonEmpty(value) == IF value.is = "string" THEN value.text # "" ELSE FALSE
Member(object, key) == IF key \in DOMAIN object.members THEN object.members[key] ELSE Other

\* image_url of an element, or the url inside it.
Primary(element) ==
  LET value == Member(element, "image_url")
  IN  IF value.is = "object" THEN Member(value, "url") ELSE value

Readable(element) == element.is # "unreadable" /\ (element.is = "object" => Member(element, "image_url").is # "unreadable")

\* imageURL of an element that is readable: none, or one.
ImageURL(element) ==
  CASE NonEmpty(element) -> <<element>>
    [] element.is = "object" ->
         IF NonEmpty(Primary(element)) THEN <<Primary(element)>>
         ELSE IF NonEmpty(Member(element, "url")) THEN <<Member(element, "url")>> ELSE <<>>
    [] OTHER -> <<>>

ImageURLs(elements) == FoldLeft(LAMBDA urls, element : urls \o ImageURL(element), <<>>, elements)

MovesImages(doc) ==
  /\ "image" \notin DOMAIN doc /\ "images" \in DOMAIN doc
  /\ doc["images"].is = "list"
  /\ LET elements == doc["images"].elements
     IN  (\A n \in DOMAIN elements : Readable(elements[n])) /\ ImageURLs(elements) # <<>>

\* One image becomes a string, several a list.
ImagesMoved(doc) ==
  LET urls == ImageURLs(doc["images"].elements)
  IN  [f \in (DOMAIN doc \ {"images"}) \cup {"image"} |->
         IF f # "image" THEN doc[f] ELSE IF Len(urls) = 1 THEN urls[1] ELSE List(urls)]

----------------------------------------------------------------------------
\* Rules

Kinds == {"edits_image_field", "set_field", "delete_field"}
DefaultPaths(kind) == IF kind = "edits_image_field" THEN EditPaths ELSE {}

\* action.apply: whether the body changes, and to what.
Changes(rule, doc) ==
  CASE rule.kind = "edits_image_field" -> MovesImages(doc)
    [] rule.kind = "set_field" -> rule.field \in DOMAIN doc => rule.overwrite /\ doc[rule.field] # rule.value
    [] rule.kind = "delete_field" -> rule.field \in DOMAIN doc
Changed(rule, doc) ==
  CASE rule.kind = "edits_image_field" -> ImagesMoved(doc)
    [] rule.kind = "set_field" -> [f \in DOMAIN doc \cup {rule.field} |-> IF f = rule.field THEN rule.value ELSE doc[f]]
    [] rule.kind = "delete_field" -> [f \in DOMAIN doc \ {rule.field} |-> doc[f]]

\* newAction and normalizeRule; null is no value.
Normalized(rule) ==
  [rule EXCEPT !.paths = IF @ = {} THEN DefaultPaths(rule.kind) ELSE @,
               !.value = IF @ = Null THEN NoValue ELSE @,
               !.overwrite = @ /\ rule.kind = "set_field"]
Accepted(rule) ==
  LET new == Normalized(rule)
  IN  /\ new.channel \in Channels /\ new.kind \in Kinds
      /\ new.field # NoField <=> new.kind # "edits_image_field"
      /\ new.value # NoValue <=> new.kind = "set_field"
      /\ new.paths # {} /\ Cardinality(new.paths) <= MaxPaths

\* loadRules: what is in the file passes the checks of a new rule.
Loads(rules) ==
  /\ Len(rules) <= MaxRules
  /\ \A n \in DOMAIN rules : Accepted(rules[n]) /\ rules[n].id \in RuleIds
  /\ \A m, n \in DOMAIN rules : rules[m].id = rules[n].id => m = n
Loaded(rules) == [n \in DOMAIN rules |-> Normalized(rules[n])]

\* newBook and Match: an enabled rule of the channel that is for the path.
Matches(rule, channel, path) == rule.enabled /\ rule.channel = channel /\ path \in rule.paths

(* Book.Apply on a body that is an object, each rule on what the ones before
   it left; applied: the rules that changed it. *)
Rewritten(book, channel, path, body) ==
  LET Applies(n, d) == Matches(book[n], channel, path) /\ Changes(book[n], d)
      doc[n \in 0..Len(book)] ==
        IF n = 0 THEN body ELSE IF Applies(n, doc[n - 1]) THEN Changed(book[n], doc[n - 1]) ELSE doc[n - 1]
  IN  [doc |-> doc[Len(book)], applied |-> {book[n].id : n \in {k \in DOMAIN book : Applies(k, doc[k - 1])}}]
===============================================================================
