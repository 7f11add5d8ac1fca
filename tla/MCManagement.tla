---------------------------- MODULE MCManagement ----------------------------
(***************************************************************************)
(* A small instance of Management: two of each kind of call at once.       *)
(***************************************************************************)
EXTENDS Management

CONSTANTS c1, c2, edits

Set(channel, value, overwrite) ==
  [id |-> NoId, channel |-> channel, kind |-> "set_field", paths |-> {edits}, field |-> "size", value |-> value,
   overwrite |-> overwrite, enabled |-> TRUE]
Move == [Set(c1, NoValue, FALSE) EXCEPT !.kind = "edits_image_field", !.paths = {}, !.field = NoField]
Delete(channel) == [Set(channel, Null, TRUE) EXCEPT !.kind = "delete_field", !.field = "images"]
MCDrafts == {Set(c1, Text("a"), TRUE), Move, [Delete(c2) EXCEPT !.enabled = FALSE], Set(c1, NoValue, FALSE)}

Elements == <<Object([image_url |-> Object([url |-> Text("u")])]), Text(""), Object([image_url |-> Null, url |-> Text("v")])>>
MCRequests ==
  {[channel |-> c, path |-> edits, body |-> body] : c \in {c1, c2},
     body \in {[images |-> List(Elements)], [size |-> Text("a")], [image |-> Text("u"), images |-> List(<<Unreadable>>)]}}

\* Calls of keys, calls of rules and attempts, or some of each.
MCShares ==
  {[keys |-> 4, rules |-> 0, attempts |-> 0], [keys |-> 0, rules |-> 3, attempts |-> 1],
   [keys |-> 1, rules |-> 1, attempts |-> 1]}
===============================================================================
