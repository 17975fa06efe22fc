----------------------------- MODULE JSONParsing -----------------------------
(***************************************************************************)
(* json_callback of JSONParsing.c: what the parser's callbacks do to the   *)
(* one static work item and to the first queue.                            *)
(*                                                                         *)
(* The value of a field is abstracted to where it came from: a field of    *)
(* the work item holds the number of the JSON object that last wrote it,   *)
(* 0 before any did.                                                       *)
(***************************************************************************)
EXTENDS Integers, Sequences, SequencesExt

\* How the text of a field can look.  A bad number is one of which strtod or
\* strtoull converts only the first part.
Numbers == {"int", "float", "bad_int", "bad_float"}
Forms == [p : Numbers \cup {"absent"}, s : {"known", "unknown", "absent"},
          t : Numbers \cup {"absent"}, v : Numbers \cup {"absent"}]

\* The forms of each field that the callback writes to the work item: the
\* symbols of symbols_list, and not t written as a float.
Converted == [p |-> Numbers, s |-> {"known"}, t |-> {"int", "bad_int"}, v |-> Numbers]

Bad == {"bad_int", "bad_float"}

\* What lejp_parse reports: the start of the input, and the start, the fields
\* and the end of an object of the array "data"; n is what the event is about.
Event(reason, path, form, n) == [reason |-> reason, path |-> path, form |-> form, n |-> n]

START(n) == Event("START", "none", "none", n)

\* The events of object o, the n-th one, with the fields in the order in which
\* the server sends them.  A field that is absent has an event of that form,
\* which is none to json_callback.
ObjectEvents(o, n) ==
  LET Value(f) == Event("VAL", f, o[f], n)
  IN  <<Event("OBJECT_START", "data[]", "none", n),
        Value("p"), Value("s"), Value("t"), Value("v"),
        Event("OBJECT_END", "data[]", "none", n)>>

EventsPerObject == 6

\* How many events a message of objects has.
AllEvents(objects) == EventsPerObject * Len(objects)

\* The events of a message of objects that follow the first n objects.
MessageEvents(objects, n) ==
  [i \in 1..AllEvents(objects) |->
     LET k == ((i - 1) \div EventsPerObject) + 1
     IN  ObjectEvents(objects[k], n + k)[((i - 1) % EventsPerObject) + 1]]

-----------------------------------------------------------------------------
\* The static variables, and the trades that queue_add was called with, when n
\* objects have been sent and r fragments received.
WorkItems(n, r) == [p : 0..n, s : 0..n, t : 0..n, v : 0..n, event_time : 0..r]
JsonStates(n, r) ==
  [item : WorkItems(n, r), trade_is_valid : BOOLEAN, added : Seq(WorkItems(n, r))]

InitialJson ==
  [item |-> [p |-> 0, s |-> 0, t |-> 0, v |-> 0, event_time |-> 0],
   trade_is_valid |-> TRUE, added |-> <<>>]

\* Mutant: a trade is not assumed valid again when its object starts.
json_callback_invalid(j, e) ==
  CASE e.reason = "START" -> [j EXCEPT !.item.event_time = e.n]
    [] e.reason = "VAL" /\ e.form \in Converted[e.path] ->
         [j EXCEPT !.item[e.path] = e.n, !.trade_is_valid = @ /\ e.form \notin Bad]
    [] e.reason = "OBJECT_END" /\ j.trade_is_valid ->
         [j EXCEPT !.added = Append(@, j.item)]
    [] OTHER -> j

json_callback(j, e) ==
  CASE e.reason = "START" -> [j EXCEPT !.item.event_time = e.n]
    [] e.reason = "OBJECT_START" -> [j EXCEPT !.trade_is_valid = TRUE]
    [] e.reason = "VAL" /\ e.form \in Converted[e.path] ->
         [j EXCEPT !.item[e.path] = e.n, !.trade_is_valid = @ /\ e.form \notin Bad]
    [] e.reason = "OBJECT_END" /\ j.trade_is_valid ->
         [j EXCEPT !.added = Append(@, j.item)]
    [] OTHER -> j

\* A parser constructed anew reads a fragment: the r-th one received.
lejp_parse(j, r, events) == FoldLeft(json_callback, j, <<START(r)>> \o events)
=============================================================================
