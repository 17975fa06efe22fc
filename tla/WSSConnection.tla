---------------------------- MODULE WSSConnection ----------------------------
(***************************************************************************)
(* The loop of the WSSClient thread against a network that fails: the      *)
(* contexts finnhub_connection_setup creates, the callbacks of             *)
(* libwebsockets, and the messages, which may arrive in fragments.  The    *)
(* queues are left out (Pipeline has them): what counts here is which      *)
(* trades json_callback hands to queue_add.                                *)
(***************************************************************************)
EXTENDS FiniteSets, JSONParsing

CONSTANTS
  Objects,      (* the forms of trade objects the server sends             *)
  MaxObjects,   (* bound: objects sent                                     *)
  MaxBatch,     (* bound: objects in one message                           *)
  MaxReceives,  (* bound: fragments received                               *)
  MaxContexts   (* bound: contexts that exist at a time                    *)

ASSUME ConnectionAssumption ==
  /\ Objects \subseteq Forms
  /\ {MaxObjects, MaxBatch, MaxReceives, MaxContexts} \subseteq Nat

VARIABLES
  pc,                 (* where the thread is: "connect" (the outer loop's  *)
                      (* test), "service", "loop" (the inner loop's tests), *)
                      (* "destroy" or "returned"                           *)
  contexts,           (* lws contexts that exist                           *)
  failures,           (* history: connects that failed                     *)
  link,               (* the websocket: "down", "opening" or "open"        *)
  connection_closed, exit_flag,   (* the flags of those names              *)
  json,               (* the static variables of json_callback             *)
  rest,               (* whether the rest of a message is to arrive        *)
  sent,               (* objects sent so far; numbers them                 *)
  last                (* history: the last message, as [objects, before,   *)
                      (* cut, arrived, first, receives]: its objects, those *)
                      (* sent before it, the events of its first fragment, *)
                      (* those that have arrived, and how many fragments   *)
                      (* had been received with its first one and by now   *)

sessionvars == <<contexts, failures>>
jsonvars == <<json, rest, sent, last>>
vars == <<pc, sessionvars, link, connection_closed, exit_flag, jsonvars>>

Init ==
  /\ pc = "connect"
  /\ contexts = 0 /\ failures = 0
  /\ link = "down"
  /\ connection_closed = FALSE /\ exit_flag = 0
  /\ json = InitialJson
  /\ rest = FALSE
  /\ sent = 0
  /\ last = [objects |-> <<>>, before |-> 0, cut |-> 0, arrived |-> 0,
             first |-> 0, receives |-> 0]

Goto(from, to) == pc = from /\ pc' = to

-----------------------------------------------------------------------------
(* finnhub_connection_setup, when the exit order is not given.  If no      *)
(* context can be created nothing changes: the thread sleeps and retries.  *)

\* The callback may report an error; lws_context_destroy is called with NULL.
setup_failed ==
  /\ exit_flag = 0
  /\ contexts < MaxContexts
  /\ Goto("connect", "connect")
  /\ contexts' = contexts + 1
  /\ failures' = failures + 1
  /\ connection_closed' \in {connection_closed, TRUE}
  /\ UNCHANGED <<link, exit_flag, jsonvars>>

\* An error that is met in the call itself makes it return NULL, which is
\* setup_failed (lws-client.h has this); a later one comes from lws_service.
setup_done ==
  /\ exit_flag = 0
  /\ contexts < MaxContexts
  /\ Goto("connect", "service")
  /\ contexts' = contexts + 1
  /\ link' = "opening"
  /\ connection_closed' = FALSE
  /\ UNCHANGED <<failures, exit_flag, jsonvars>>

-----------------------------------------------------------------------------
(* lws_callback, called by lws_service.                                    *)

\* Any of the subscriptions may fail.
client_established ==
  /\ link = "opening"
  /\ Goto("service", "loop")
  /\ link' = "open"
  /\ connection_closed' \in BOOLEAN
  /\ UNCHANGED <<sessionvars, exit_flag, jsonvars>>

\* Mutant: the error is only reported.
client_connection_error_ignored ==
  /\ link = "opening"
  /\ Goto("service", "loop")
  /\ link' = "down"
  /\ UNCHANGED <<sessionvars, connection_closed, exit_flag, jsonvars>>

client_connection_error ==
  /\ link = "opening"
  /\ Goto("service", "loop")
  /\ link' = "down"
  /\ connection_closed' = TRUE
  /\ UNCHANGED <<sessionvars, exit_flag, jsonvars>>

\* The first fragment of a message, perhaps all of it.  The parser gets as far
\* as cut events: there the fragment ends (more is to come, or it was the
\* whole message), or it is no JSON any more.
client_receive ==
  /\ link = "open" /\ ~ rest
  /\ last.receives < MaxReceives
  /\ Goto("service", "loop")
  /\ \E objects \in SeqOf(Objects, MaxBatch) :
       LET events == MessageEvents(objects, sent)
       IN  /\ sent + Len(objects) <= MaxObjects
           /\ sent' = sent + Len(objects)
           /\ \E cut \in 0..Len(events) :
                /\ last' = [objects |-> objects, before |-> sent,
                            cut |-> cut, arrived |-> cut,
                            first |-> last.receives + 1, receives |-> last.receives + 1]
                /\ rest' \in {FALSE, cut < Len(events)}
                /\ json' = lejp_parse([json EXCEPT !.added = <<>>],
                                      last.receives + 1, SubSeq(events, 1, cut))
  /\ UNCHANGED <<sessionvars, link, connection_closed, exit_flag>>

\* More of a message, perhaps all the rest of it: the parser is a new one, to
\* which it is either no JSON or JSON without the array "data".
client_receive_rest ==
  /\ link = "open" /\ rest
  /\ last.receives < MaxReceives
  /\ Goto("service", "loop")
  /\ rest' \in BOOLEAN
  /\ last' = [last EXCEPT !.receives = @ + 1,
                          !.arrived = IF rest' THEN @ ELSE AllEvents(last.objects)]
  /\ json' = lejp_parse(json, last.receives + 1, <<>>)
  /\ UNCHANGED <<sessionvars, link, connection_closed, exit_flag, sent>>

client_closed ==
  /\ link = "open"
  /\ Goto("service", "loop")
  /\ link' = "down"
  /\ connection_closed' = TRUE
  /\ rest' = FALSE
  /\ UNCHANGED <<sessionvars, exit_flag, json, sent, last>>

\* lws_service returns without a callback of interest.
service_idle ==
  /\ Goto("service", "loop")
  /\ UNCHANGED <<sessionvars, link, connection_closed, exit_flag, jsonvars>>

-----------------------------------------------------------------------------
(* The loops of WSSClient.                                                 *)

loop_test ==
  /\ \/ exit_flag = 0 /\ ~ connection_closed /\ Goto("loop", "service")
     \/ (exit_flag = 1 \/ connection_closed) /\ Goto("loop", "destroy")
  /\ UNCHANGED <<sessionvars, link, connection_closed, exit_flag, jsonvars>>

\* Mutant: a connection that broke is forgotten with its context.
destroy_intended ==
  /\ Goto("destroy", "connect")
  /\ contexts' = IF exit_flag = 1 THEN contexts - 1 ELSE contexts
  /\ link' = "down"
  /\ connection_closed' = TRUE
  /\ rest' = FALSE
  /\ UNCHANGED <<failures, exit_flag, json, sent, last>>

\* Mutant: the closing callback destroys the context, too.
destroy_twice ==
  /\ Goto("destroy", "connect")
  /\ contexts' = contexts - IF link = "open" THEN 2 ELSE 1
  /\ link' = "down"
  /\ connection_closed' = TRUE
  /\ rest' = FALSE
  /\ UNCHANGED <<failures, exit_flag, json, sent, last>>

\* lws_context_destroy ends the connection if it is still there, with the
\* callbacks that come with it.
destroy ==
  /\ Goto("destroy", "connect")
  /\ contexts' = contexts - 1
  /\ link' = "down"
  /\ connection_closed' \in {connection_closed \/ link = "open",
                             connection_closed \/ link # "down"}
  /\ rest' = FALSE
  /\ UNCHANGED <<failures, exit_flag, json, sent, last>>

wss_return ==
  /\ exit_flag = 1
  /\ Goto("connect", "returned")
  /\ UNCHANGED <<sessionvars, link, connection_closed, exit_flag, jsonvars>>

\* SIGINT or the hour limit, at any time.
order_exit ==
  /\ exit_flag = 0
  /\ exit_flag' = 1
  /\ UNCHANGED <<pc, sessionvars, link, connection_closed, jsonvars>>

WSSClient ==
  \/ setup_failed
  \/ setup_done
  \/ client_established
  \/ client_connection_error
  \/ client_receive
  \/ client_receive_rest
  \/ client_closed
  \/ service_idle
  \/ loop_test
  \/ destroy
  \/ wss_return

Next == WSSClient \/ order_exit

Spec == Init /\ [][Next]_vars

-----------------------------------------------------------------------------
(* Correctness                                                             *)

\* The types of the variables.
TypeOK ==
  /\ pc \in {"connect", "service", "loop", "destroy", "returned"}
  /\ contexts \in 0..MaxContexts /\ failures \in Nat
  /\ link \in {"down", "opening", "open"}
  /\ {connection_closed, rest} \subseteq BOOLEAN /\ exit_flag \in 0..1
  /\ sent \in 0..MaxObjects
  /\ last \in [objects : Seq(Objects), before : 0..sent, cut : Nat, arrived : Nat,
               first : 0..MaxReceives, receives : 0..MaxReceives]
  /\ json \in JsonStates(sent, last.receives)

\* Whether an object has no bad number where json_callback looks for one.
Sound(o) == \A f \in DOMAIN Converted : o[f] \notin Converted[f] \cap Bad

\* The sound ones of objects that end within the first cut events.
Accepted(objects, cut) ==
  {k \in DOMAIN objects : EventsPerObject * k <= cut /\ Sound(objects[k])}

\* That item has the fields of object o, the m-th one sent, and the time at
\* which the r-th fragment was received.
IsTrade(item, o, m, r) ==
  /\ item.event_time = r
  /\ \A f \in DOMAIN Converted : o[f] \in Converted[f] => item[f] = m

\* That the trades added are the accepted objects in order: with n sent before
\* the message, its k-th object is the (n + k)-th one.
Faithful(added, objects, n, cut, r) ==
  LET accepted == Accepted(objects, cut)
      Place(k) == Cardinality({i \in accepted : i <= k})
  IN  /\ Len(added) = Cardinality(accepted)
      /\ \A k \in accepted : IsTrade(added[Place(k)], objects[k], n + k, r)

\* Whatever came before - bad numbers, unknown symbols, messages broken off in
\* the middle of a trade - the trades added for a message are its sound
\* objects, in order and none twice, from the first one to some point that is
\* not before the end of its first fragment and not after what has arrived;
\* each has its own value in every field that its object has, and the time at
\* which the message began to arrive.
TradesFaithful ==
  \E cut \in last.cut..last.arrived :
    Faithful(json.added, last.objects, last.before, cut, last.first)

\* "adds all trades received to the 1st pipeline stage queue"
\* (ThreadRoutines.h:59-60), "each trade object found is added"
\* (JSONParsing.h:28): once a whole message has arrived, each of its sound
\* objects has been added.  It does not hold for a message that arrives in
\* fragments: lws_callback constructs a new parser for each.
AllTradesAdded ==
  last.arrived = AllEvents(last.objects)
    => Len(json.added) = Cardinality(Accepted(last.objects, last.arrived))

-----------------------------------------------------------------------------
\* Whether the thread has a connection, which it services or is to destroy.
Connected == pc \in {"service", "loop", "destroy"}

\* The context of the connection exists as long as the thread uses it, and
\* however often the connection breaks and is set up again, no more contexts
\* pile up than connects have failed.
ContextsBounded ==
  /\ Connected => contexts >= 1
  /\ contexts <= failures + IF Connected THEN 1 ELSE 0

\* The thread never services a connection that is over, which no callback
\* would end, although the flag that tells it so is reset after the setup.
ServesLiveConnection == pc = "service" => link # "down"
=============================================================================
