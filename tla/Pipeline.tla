------------------------------ MODULE Pipeline ------------------------------
(***************************************************************************)
(* The whole program at run time: the WSSClient thread and the SIGALRM     *)
(* handler produce into api_queue, the Writer threads move every item from *)
(* api_queue to calculation_queue and log the trades, the Calculator       *)
(* consumes calculation_queue, SIGINT or the hour limit gives the exit     *)
(* order, and main joins the threads.                                      *)
(*                                                                         *)
(* Both queues are instances of PCQueue.  A thread calls a queue operation *)
(* with the action of that name and goes on when the operation is over.    *)
(* What a thread does between two accesses to shared state is one step.    *)
(***************************************************************************)
EXTENDS Integers, Sequences, FiniteSets, Functions

CONSTANTS
  Writers,                 (* the Writer threads                           *)
  wss, calculator, main,   (* the other threads                            *)
  Interrupts,              (* the SIGINTs; each names its handler's run    *)
  QUEUE_SIZE,              (* slots of each queue                          *)
  MINUTES_PER_HOUR,        (* the literal 60 of send_directive_to_queue    *)
  PROGRAM_MAX_HOUR_LIMIT,  (* hours until the program ends by itself       *)
  MaxTrades,               (* bound: trades the server sends               *)
  MaxBatch,                (* bound: trades in one message                 *)
  MaxTicks,                (* bound: deliveries of SIGALRM                 *)
  MaxHandlers,             (* bound: signal handlers active at a time      *)
  SpuriousWakeups,         (* whether pthread_cond_wait returns unsignalled *)
  NoThread, NoItem

ASSUME PipelineAssumption ==
  /\ QUEUE_SIZE \in Nat \ {0}
  /\ MINUTES_PER_HOUR \in Nat \ {0}
  /\ {PROGRAM_MAX_HOUR_LIMIT, MaxTrades, MaxBatch, MaxTicks, MaxHandlers}
       \subseteq Nat
  /\ SpuriousWakeups \in BOOLEAN
  /\ wss \notin {calculator, main, NoThread}
  /\ calculator \notin {main, NoThread} /\ main # NoThread
  /\ {wss, calculator, main, NoThread} \cap (Writers \cup Interrupts \cup 1..MaxTicks) = {}
  /\ (Writers \cup Interrupts) \cap 1..MaxTicks = {} /\ Writers \cap Interrupts = {}
  /\ IsFiniteSet(Writers) /\ IsFiniteSet(Interrupts)

VARIABLES
  api_queue, api_op,           (* the first queue and its users' progress  *)
  calculation_queue, calc_op,  (* the second queue and its users' progress *)
  pc,                (* where each thread is in its routine                *)
  frames,            (* the handlers active on each thread, innermost first *)
  link,              (* the websocket: "down", "opening" or "open"         *)
  sigint_bound,      (* signal(SIGINT, close_connection_interrupt) was done *)
  message,           (* trades of the received message still to parse      *)
  trades,            (* trades received so far; names them                 *)
  clock,             (* minute_counter and hour_counter, and the number of *)
                     (* SIGALRMs so far                                    *)
  entered,           (* history: what entered api_queue, in order          *)
  trade_logs,        (* per trade: its lines in the log files              *)
  computed           (* history: what the Calculator handled, in order     *)

queues == <<api_queue, api_op, calculation_queue, calc_op>>
wssvars == <<link, sigint_bound, message, trades>>
sigvars == <<frames, clock>>
vars == <<queues, pc, wssvars, sigvars, entered, trade_logs, computed>>

-----------------------------------------------------------------------------
(* Work items.  v tells trades and directives apart; id numbers each kind. *)

DIRECTIVE_CALCULATE_MINUTE == -1

\* The n-th trade received; m, the trades received before, names its message.
Trade(n, m) == [v |-> 1, id |-> n, msg |-> m]

Directive(n) == [v |-> DIRECTIVE_CALCULATE_MINUTE, id |-> n, msg |-> 0]

WorkItem == {Trade(n, m) : n \in 1..MaxTrades, m \in 0..MaxTrades}
            \cup {Directive(n) : n \in 1..MaxTicks}

IsTrade(i) == i.v > DIRECTIVE_CALCULATE_MINUTE

-----------------------------------------------------------------------------
(* The two queues.                                                         *)

\* The runs of send_directive_to_queue, numbered like their directives.
Alarms == 1..MaxTicks

\* The threads that signals may interrupt.
Hosts == Writers \cup {wss, calculator, main}

ApiThreads == Writers \cup {wss} \cup Alarms \cup Interrupts

Api == INSTANCE PCQueue WITH
  queue <- api_queue, op <- api_op, Items <- WorkItem,
  Threads <- ApiThreads, Producers <- {wss} \cup Alarms, Consumers <- Writers

CalcThreads == Writers \cup {calculator}

Calc == INSTANCE PCQueue WITH
  queue <- calculation_queue, op <- calc_op, Items <- WorkItem,
  Threads <- CalcThreads, Producers <- Writers, Consumers <- {calculator}

Init ==
  /\ Api!Init
  /\ Calc!Init
  /\ pc = [t \in Hosts \cup Alarms \cup Interrupts |->
            IF t = wss THEN "connect" ELSE "start"]
  /\ frames = [t \in Hosts |-> <<>>]
  /\ link = "down"
  /\ sigint_bound = FALSE
  /\ message = <<>>
  /\ trades = 0
  /\ clock = [minute_counter |-> 0, hour_counter |-> 0, ticks |-> 0]
  /\ entered = <<>>
  /\ trade_logs = [n \in 1..MaxTrades |-> 0]
  /\ computed = <<>>

-----------------------------------------------------------------------------
(* What the threads' routines have in common.                              *)

\* A thread runs its innermost handler; the code below waits for its return.
Running(t) ==
  IF t \in Hosts THEN frames[t] = <<>>
  ELSE \E host \in Hosts : frames[host] # <<>> /\ Head(frames[host]) = t

Goto(t, from, to) ==
  /\ Running(t)
  /\ pc[t] = from
  /\ pc' = [pc EXCEPT ![t] = to]

\* A thread goes on with the operation it has called on a queue.
ApiContinue(t) ==
  /\ Running(t)
  /\ Api!Continue(t)
  /\ entered' = IF api_op[t].pc = "add_loop" /\ api_op'[t].pc = "add_signal"
                THEN Append(entered, api_op[t].arg) ELSE entered
  /\ UNCHANGED <<calculation_queue, calc_op, pc, wssvars, sigvars, trade_logs, computed>>

CalcContinue(t) ==
  /\ Running(t)
  /\ Calc!Continue(t)
  /\ UNCHANGED <<api_queue, api_op, pc, wssvars, sigvars, entered, trade_logs, computed>>

\* What a step on api_queue, on calculation_queue or on neither leaves alone.
OnlyApi == UNCHANGED <<calculation_queue, calc_op, entered, trade_logs, computed>>
OnlyCalc == UNCHANGED <<api_queue, api_op, wssvars, sigvars, entered>>
NoQueue == UNCHANGED <<queues, entered, trade_logs, computed>>

-----------------------------------------------------------------------------
(* WSSClient and lws_callback.                                             *)

\* The loop test and finnhub_connection_setup.  A failed setup sleeps a second
\* and comes back here with nothing changed.
finnhub_connection_setup ==
  /\ api_queue.exit_flag = 0
  /\ Goto(wss, "connect", "service")
  /\ link' = "opening"
  /\ sigint_bound' = TRUE
  /\ NoQueue /\ UNCHANGED <<message, trades, sigvars>>

\* Mutant: the service loop does not look at the exit order.
LoopTest_deaf(from, connection, closed) ==
  /\ link' = connection
  /\ \/ ~ closed /\ Goto(wss, from, "service")
     \/ closed /\ Goto(wss, from, IF connection = "open" THEN "destroy" ELSE "connect")
  /\ UNCHANGED <<sigint_bound, message, trades, sigvars>>

\* The rest of a turn of the service loop after a callback that leaves the
\* connection and the flag like this: the two tests, and lws_context_destroy
\* if the loop ends and no connection is open.
LoopTest(from, connection, closed) ==
  /\ link' = connection
  /\ \/ /\ api_queue.exit_flag = 0 /\ ~ closed
        /\ Goto(wss, from, "service")
     \/ /\ api_queue.exit_flag = 1 \/ closed
        /\ connection = "open"
        /\ Goto(wss, from, "destroy")
     \/ /\ api_queue.exit_flag = 1 \/ closed
        /\ connection # "open"
        /\ Goto(wss, from, "connect")
  /\ UNCHANGED <<sigint_bound, message, trades, sigvars>>

\* Whether every subscription was written: any of the writes may fail.
subscribe_to_symbols == BOOLEAN

\* lws_service calls back at most once per call, here: the handshake is over.
client_established ==
  /\ link = "opening"
  /\ \E subscribed \in subscribe_to_symbols : LoopTest("service", "open", ~ subscribed)
  /\ NoQueue

client_connection_error ==
  /\ link = "opening"
  /\ LoopTest("service", "down", TRUE)
  /\ NoQueue

\* A message with trades.  (One without, such as a ping, adds nothing.)
client_receive ==
  /\ link = "open"
  /\ Goto(wss, "service", "receive")
  /\ \E n \in 1..MaxBatch :
       /\ trades + n <= MaxTrades
       /\ trades' = trades + n
       /\ message' = [k \in 1..n |-> Trade(trades + k, trades)]
  /\ NoQueue /\ UNCHANGED <<link, sigint_bound, sigvars>>

\* Mutant: the lock is tried and its failure ignored.
receive_trylock ==
  /\ Goto(wss, "receive", "parse")
  /\ Api!Idle(wss)
  /\ api_queue' = [api_queue EXCEPT !.producer_lock = wss]
  /\ UNCHANGED <<api_op, calculation_queue, calc_op, entered, trade_logs, computed,
                 wssvars, sigvars>>

receive_lock ==
  /\ Goto(wss, "receive", "parse")
  /\ Api!producer_lock(wss)
  /\ OnlyApi /\ UNCHANGED <<wssvars, sigvars>>

\* lejp_parse calls json_callback, which adds each trade of the message.
json_callback ==
  /\ message # <<>>
  /\ Goto(wss, "parse", "parse")
  /\ Api!queue_add(wss, Head(message))
  /\ message' = Tail(message)
  /\ OnlyApi /\ UNCHANGED <<link, sigint_bound, trades, sigvars>>

receive_unlock ==
  /\ message = <<>>
  /\ LoopTest("parse", link, FALSE)
  /\ Api!producer_unlock(wss)
  /\ OnlyApi

\* lws_service returns without a callback of interest.
service_idle ==
  /\ LoopTest("service", link, FALSE)
  /\ NoQueue

\* The connection closes, by itself or in lws_context_destroy; either way the
\* service loop is over.  If the callback sees the exit order, it goes on to
\* signal not_empty, without the mutex.
client_closed ==
  /\ link = "open"
  /\ LET next == IF api_queue.exit_flag = 1 THEN "closed_signal" ELSE "connect"
     IN  Goto(wss, "service", next) \/ Goto(wss, "destroy", next)
  /\ link' = "down"
  /\ NoQueue /\ UNCHANGED <<sigint_bound, message, trades, sigvars>>

closed_signal ==
  /\ Goto(wss, "closed_signal", "connect")
  /\ Api!bare_signal(wss)
  /\ OnlyApi /\ UNCHANGED <<wssvars, sigvars>>

wss_notify ==
  /\ api_queue.exit_flag = 1
  /\ Goto(wss, "connect", "notify")
  /\ Api!notify_if_empty(wss)
  /\ OnlyApi /\ UNCHANGED <<wssvars, sigvars>>

wss_return ==
  /\ Api!Idle(wss)
  /\ Goto(wss, "notify", "returned")
  /\ NoQueue /\ UNCHANGED <<wssvars, sigvars>>

WSSClient ==
  \/ finnhub_connection_setup
  \/ client_established
  \/ client_connection_error
  \/ client_receive
  \/ receive_lock
  \/ json_callback
  \/ receive_unlock
  \/ service_idle
  \/ client_closed
  \/ closed_signal
  \/ wss_notify
  \/ wss_return

-----------------------------------------------------------------------------
(* Writer and Calculator.                                                  *)

\* Mutant: the next item is taken before the last one is handed on.
writer_remove_early(w) ==
  /\ \/ Goto(w, "start", "remove")
     \/ Goto(w, "forward", "remove")
  /\ Api!queue_remove(w)
  /\ OnlyApi /\ UNCHANGED <<wssvars, sigvars>>

\* The top of the loop; the value that queue_add returned is not looked at.
writer_remove(w) ==
  /\ Calc!Idle(w)
  /\ \/ Goto(w, "start", "remove")
     \/ Goto(w, "forward", "remove")
  /\ Api!queue_remove(w)
  /\ OnlyApi /\ UNCHANGED <<wssvars, sigvars>>

\* One line in the file of the symbol, under the mutex of that file.
write_trade_to_file(item) == trade_logs' = [trade_logs EXCEPT ![item.id] = @ + 1]

\* Mutant: the test for a trade is the wrong way round.
writer_forward_inverted(w) ==
  LET item == api_op[w].item
  IN  /\ Api!Idle(w)
      /\ api_op[w].ret = 0
      /\ Goto(w, "remove", "forward")
      /\ IF IsTrade(item) THEN UNCHANGED trade_logs ELSE write_trade_to_file(item)
      /\ Calc!queue_add(w, item)
      /\ OnlyCalc /\ UNCHANGED computed

\* A trade is logged, a directive is not, and both go on to the next queue.
writer_forward(w) ==
  LET item == api_op[w].item
  IN  /\ Api!Idle(w)
      /\ api_op[w].ret = 0
      /\ Goto(w, "remove", "forward")
      /\ IF IsTrade(item) THEN write_trade_to_file(item) ELSE UNCHANGED trade_logs
      /\ Calc!queue_add(w, item)
      /\ OnlyCalc /\ UNCHANGED computed

writer_pass_exit(w) ==
  /\ Api!Idle(w)
  /\ api_op[w].ret = -1
  /\ Goto(w, "remove", "pass_signal")
  /\ Calc!set_exit_flag(w)
  /\ OnlyCalc /\ UNCHANGED <<trade_logs, computed>>

\* Mutant: the flag is taken back once it was passed on.
writer_return_cleared(w) ==
  /\ Goto(w, "pass_signal", "returned")
  /\ Calc!Idle(w)
  /\ calculation_queue' = [calculation_queue EXCEPT !.exit_flag = 0]
  /\ UNCHANGED calc_op
  /\ OnlyCalc /\ UNCHANGED <<trade_logs, computed>>

writer_return(w) ==
  /\ Goto(w, "pass_signal", "returned")
  /\ Calc!bare_signal(w)
  /\ OnlyCalc /\ UNCHANGED <<trade_logs, computed>>

Writer(w) ==
  \/ writer_remove(w)
  \/ writer_forward(w)
  \/ writer_pass_exit(w)
  \/ writer_return(w)

calculator_start ==
  /\ Goto(calculator, "start", "remove")
  /\ Calc!queue_remove(calculator)
  /\ OnlyCalc /\ UNCHANGED <<trade_logs, computed>>

\* add_trade_to_buffers or write_and_reset_buffers, and the next queue_remove.
calculator_compute ==
  /\ calc_op[calculator].ret = 0
  /\ Goto(calculator, "remove", "remove")
  /\ computed' = Append(computed, calc_op[calculator].item)
  /\ Calc!queue_remove(calculator)
  /\ OnlyCalc /\ UNCHANGED trade_logs

calculator_return ==
  /\ Calc!Idle(calculator)
  /\ calc_op[calculator].ret = -1
  /\ Goto(calculator, "remove", "returned")
  /\ NoQueue /\ UNCHANGED <<wssvars, sigvars>>

Calculator ==
  \/ calculator_start
  \/ calculator_compute
  \/ calculator_return

-----------------------------------------------------------------------------
(* The handlers, and main.                                                 *)

\* A signal whose handlers are Kind runs handler h on main, or, while a run of
\* its handler on main blocks it there, on any thread that does not block it.
Deliver(h, Kind) ==
  /\ pc[main] # "exited"
  /\ Cardinality({a \in Alarms \cup Interrupts : pc[a] \notin {"start", "done"}})
       < MaxHandlers
  /\ \E t \in Hosts :
       /\ t = main \/ Range(frames[main]) \cap Kind # {}
       /\ Range(frames[t]) \cap Kind = {}
       /\ pc[t] # "returned"
       /\ frames' = [frames EXCEPT ![t] = <<h>> \o @]

Return(h) ==
  \E t \in Hosts :
    /\ frames[t] # <<>> /\ Head(frames[t]) = h
    /\ frames' = [frames EXCEPT ![t] = Tail(@)]

\* Mutant: the minute counter never starts over.
CountMinute_unwrapped(c) ==
  [minute_counter |-> c.minute_counter + 1,
   hour_counter |-> c.hour_counter + (c.minute_counter + 1) \div MINUTES_PER_HOUR,
   ticks |-> c.ticks + 1]

CountMinute(c) ==
  [minute_counter |-> (c.minute_counter + 1) % MINUTES_PER_HOUR,
   hour_counter |-> c.hour_counter + (c.minute_counter + 1) \div MINUTES_PER_HOUR,
   ticks |-> c.ticks + 1]

\* The minute timer expires: send_directive_to_queue begins and counts.
SIGALRM ==
  LET h == clock.ticks + 1
  IN  /\ h \in Alarms
      /\ Deliver(h, Alarms)
      /\ pc' = [pc EXCEPT ![h] = "lock"]
      /\ clock' = CountMinute(clock)
      /\ NoQueue /\ UNCHANGED wssvars

\* Mutant: the directive does not wait for the end of a message.
directive_unlocked(h) ==
  /\ Goto(h, "lock", "add")
  /\ NoQueue /\ UNCHANGED <<wssvars, sigvars>>

directive_lock(h) ==
  /\ Goto(h, "lock", "add")
  /\ Api!producer_lock(h)
  /\ OnlyApi /\ UNCHANGED <<wssvars, sigvars>>

directive_add(h) ==
  /\ Goto(h, "add", "added")
  /\ Api!queue_add(h, Directive(h))
  /\ OnlyApi /\ UNCHANGED <<wssvars, sigvars>>

\* The hour limit: the exit order is given without the mutex.
directive_limit(h) ==
  /\ clock.hour_counter = PROGRAM_MAX_HOUR_LIMIT
  /\ Goto(h, "added", "unlock")
  /\ Api!set_exit_flag(h)
  /\ OnlyApi /\ UNCHANGED <<wssvars, sigvars>>

directive_unlock(h) ==
  /\ \/ clock.hour_counter # PROGRAM_MAX_HOUR_LIMIT /\ Goto(h, "added", "done")
     \/ Goto(h, "unlock", "done")
  /\ Api!producer_unlock(h)
  /\ Return(h)
  /\ OnlyApi /\ UNCHANGED <<wssvars, clock>>

send_directive_to_queue(h) ==
  \/ directive_lock(h)
  \/ directive_add(h)
  \/ directive_limit(h)
  \/ directive_unlock(h)

\* The user interrupts the program: close_connection_interrupt begins.
SIGINT(i) ==
  /\ sigint_bound
  /\ pc[i] = "start"
  /\ Deliver(i, Interrupts)
  /\ pc' = [pc EXCEPT ![i] = "exit"]
  /\ Api!order_exit(i)
  /\ OnlyApi /\ UNCHANGED <<wssvars, clock>>

close_connection_interrupt(i) ==
  /\ Api!Idle(i)
  /\ Goto(i, "exit", "done")
  /\ Return(i)
  /\ NoQueue /\ UNCHANGED <<wssvars, clock>>

\* The joins, and the closing of the files.
main_exit ==
  /\ \A t \in Writers \cup {wss, calculator} : pc[t] = "returned"
  /\ Goto(main, "start", "exited")
  /\ NoQueue /\ UNCHANGED <<wssvars, sigvars>>

-----------------------------------------------------------------------------
Spurious ==
  /\ SpuriousWakeups
  /\ \/ /\ \E t \in ApiThreads : Api!SpuriousWakeup(t)
        /\ UNCHANGED <<calculation_queue, calc_op>>
     \/ /\ \E t \in CalcThreads : Calc!SpuriousWakeup(t)
        /\ UNCHANGED <<api_queue, api_op>>
  /\ UNCHANGED <<pc, wssvars, sigvars, entered, trade_logs, computed>>

Next ==
  \/ WSSClient
  \/ \E w \in Writers : Writer(w)
  \/ Calculator
  \/ SIGALRM
  \/ \E h \in Alarms : send_directive_to_queue(h)
  \/ \E i \in Interrupts : SIGINT(i) \/ close_connection_interrupt(i)
  \/ main_exit
  \/ \E t \in ApiThreads : ApiContinue(t)
  \/ \E t \in CalcThreads : CalcContinue(t)
  \/ Spurious

Spec == Init /\ [][Next]_vars

\* What the WSSClient thread does of its own: all but the service loop's
\* callbacks, which are up to the server.
WSSOwn == service_idle \/ (pc[wss] # "service" /\ WSSClient)

\* A thread or handler that can run does run, whatever the others do.  The
\* signals and what the server sends come or do not come.
Fairness ==
  /\ WF_vars(WSSOwn \/ ApiContinue(wss))
  /\ \A w \in Writers : WF_vars(Writer(w) \/ ApiContinue(w) \/ CalcContinue(w))
  /\ WF_vars(Calculator \/ CalcContinue(calculator))
  /\ \A h \in Alarms : WF_vars(send_directive_to_queue(h) \/ ApiContinue(h))
  /\ \A i \in Interrupts : WF_vars(close_connection_interrupt(i) \/ ApiContinue(i))
  /\ WF_vars(main_exit)

FairSpec == Spec /\ Fairness

-----------------------------------------------------------------------------
(* Correctness                                                             *)

\* The types of the state that is not in the queues.
TypeOK ==
  /\ pc \in [Hosts \cup Alarms \cup Interrupts ->
              {"start", "connect", "service", "receive", "parse",
               "closed_signal", "destroy", "notify",
               "remove", "forward", "pass_signal", "lock", "add", "added",
               "unlock", "exit", "done", "returned", "exited"}]
  /\ frames \in [Hosts -> Seq(Alarms \cup Interrupts)]
  /\ link \in {"down", "opening", "open"}
  /\ sigint_bound \in BOOLEAN
  /\ Range(message) \subseteq WorkItem
  /\ trades \in 0..MaxTrades
  /\ clock \in [minute_counter : 0..(MINUTES_PER_HOUR - 1),
                hour_counter : 0..MaxTicks, ticks : 0..MaxTicks]
  /\ trade_logs \in [1..MaxTrades -> Nat]
  /\ Range(entered) \cup Range(computed) \subseteq WorkItem

\* The program uses its two queues only through the operations that PCQueue
\* specifies, so whatever is proved of PCQueue holds of both.
ApiQueueSpec == Api!Spec
CalcQueueSpec == Calc!Spec

\* The item a Writer has removed and not yet logged, and the one it is adding.
Taken(w) == IF /\ pc[w] = "remove" /\ api_op[w].ret = 0
               /\ api_op[w].pc \in {"remove_signal", "idle"}
            THEN {api_op[w].item} ELSE {}
Adding(w) == IF pc[w] = "forward" /\ Calc!Call(w) = "add"
             THEN {calc_op[w].arg} ELSE {}
Held == UNION {Taken(w) \cup Adding(w) : w \in Writers}

\* What went through calculation_queue, in order, what is in it included.
Forwarded ==
  computed
  \o (IF /\ pc[calculator] = "remove" /\ calc_op[calculator].ret = 0
         /\ calc_op[calculator].pc \in {"remove_signal", "idle"}
      THEN <<calc_op[calculator].item>> ELSE <<>>)
  \o Calc!Contents

\* What entered api_queue and is nowhere any more.
Lost == Range(entered) \ (Range(Api!Contents) \cup Held \cup Range(Forwarded))

\* Across two queues and all the hands between them an item is never in two
\* places and never comes from nowhere.
NoDuplication ==
  LET placed == Range(Api!Contents \o Forwarded)
      of(w) == Taken(w) \cup Adding(w)
  IN  /\ IsInjective(entered) /\ IsInjective(Api!Contents \o Forwarded)
      /\ \A w \in Writers : of(w) \cap placed = {}
      /\ \A w, x \in Writers : w # x => of(w) \cap of(x) = {}
      /\ placed \cup Held \subseteq Range(entered)

\* Items are lost only after a Writer found api_queue empty under the exit
\* order, and even a lost trade is in its log file: the logs have one line for
\* each trade that left api_queue and is past its Writer's write, no other.
LossOnlyAtExit ==
  /\ Lost # {} => \E w \in Writers : pc[w] \in {"pass_signal", "returned"}
  /\ LET unwritten == Range(Api!Contents) \cup UNION {Taken(w) : w \in Writers}
     IN  \A i \in Range(entered) :
           IsTrade(i) => trade_logs[i.id] = IF i \in unwritten THEN 0 ELSE 1

\* When main returns, at most one item for each Writer that entered api_queue
\* was not computed: each Writer but the first to leave can lose the one it
\* carries, and one producer, asleep on not_full when the order came, can still
\* insert when nobody is left to take it.
BoundedLossAtExit ==
  pc[main] = "exited" =>
    Cardinality(Range(entered) \ Range(computed)) <= Cardinality(Writers)

\* producer_lock: between two trades of one message nothing else enters
\* api_queue, and the directive of a minute never splits a message.
MessagesUnbroken ==
  \A j, l \in 1..Len(entered) : \A k \in j..l :
    IsTrade(entered[j]) /\ IsTrade(entered[l]) /\ entered[j].msg = entered[l].msg
      => IsTrade(entered[k]) /\ entered[k].msg = entered[j].msg

Rank(i) == CHOOSE k \in 1..Len(entered) : entered[k] = i

\* An item overtakes, on its way to the Calculator, at most one item for each
\* other Writer.  (With one Writer the order is that of api_queue.)
BoundedOvertaking ==
  \A k \in 1..Len(Forwarded) :
    LET Behind == Range(SubSeq(Forwarded, k + 1, Len(Forwarded)))
                  \cup Held \cup Range(Api!Contents)
    IN  Cardinality({i \in Behind : Rank(i) < Rank(Forwarded[k])})
          <= Cardinality(Writers) - 1

\* Once SIGINT is handled or the hour limit is reached, the WSSClient and every
\* Writer return, asleep or blocked as they may be, as long as no signal arrives
\* during a handler (MaxHandlers = 1; InterruptOrdersExit is about the others).
ExitReachesWriters ==
  (\E i \in Interrupts : pc[i] = "exit") \/ api_queue.exit_flag = 1
    ~> \A t \in Writers \cup {wss} : pc[t] = "returned"

\* Until an exit order is given the Calculator catches up again and again with
\* all that entered api_queue, as long as no signal arrives during a handler
\* (MaxHandlers = 1).
EveryItemComputed ==
  []<>(Len(computed) = Len(entered) \/ api_queue.exit_flag = 1)

\* SIGINT "asserts the exit_flag for graceful exit" (WSSHandling.h:91).
InterruptOrdersExit ==
  (\E i \in Interrupts : pc[i] = "exit") ~> api_queue.exit_flag = 1

\* A Writer told to exit must "pass the signal to next stage"
\* (ThreadRoutines.c:66): the Calculator returns after the exit order.
ExitReachesCalculator ==
  calculation_queue.exit_flag = 1 ~> pc[calculator] = "returned"

\* A Writer "passes the data to the 2nd pipeline stage queue for further
\* processing" (ThreadRoutines.h:71): nothing is lost.
NothingLost == Lost = {}
=============================================================================
