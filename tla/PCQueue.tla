------------------------------- MODULE PCQueue -------------------------------
(***************************************************************************)
(* The producer-consumer queue: queue_init, queue_add and queue_remove of  *)
(* PCQueue.c, and every other access the program makes to the fields of a  *)
(* PCQueue (the exit orders, the bare signals, the producer lock).         *)
(*                                                                         *)
(* One step is what one thread does between two points where another       *)
(* thread can observe it: taking the mutex, deciding under the mutex,      *)
(* going to sleep on a condition, signalling one.  The code that runs      *)
(* under the mutex up to its release is one step, except that exit_flag    *)
(* is also written without the mutex, so the test of it and the sleep it   *)
(* leads to are two steps.                                                 *)
(***************************************************************************)
EXTENDS Integers, Sequences, FiniteSets

CONSTANTS
  Threads,    (* every thread of control that touches the queue            *)
  Producers,  (* the ones that call queue_add                              *)
  Consumers,  (* the ones that call queue_remove                           *)
  Items,      (* the work items                                            *)
  QUEUE_SIZE, (* slots in the ring                                         *)
  NoThread,   (* the owner of a free mutex                                 *)
  NoItem      (* the content of a slot or variable never written           *)

ASSUME QueueAssumption ==
  /\ QUEUE_SIZE \in Nat \ {0}
  /\ Producers \subseteq Threads
  /\ Consumers \subseteq Threads
  /\ NoThread \notin Threads
  /\ IsFiniteSet(Threads)

VARIABLES
  queue,      (* the PCQueue struct; a condition is the set of its sleepers *)
  op          (* per thread: where it is in a queue operation (pc), the    *)
              (* item it adds (arg), the item it last removed (item) and   *)
              (* the value its last call returned (ret)                    *)

vars == <<queue, op>>

\* queue_init.  not_empty is never initialised (not_full is, twice): malloc
\* hands out zeroed memory this early in main, which is what
\* pthread_cond_init would have stored, so no thread sleeps on it.
Init ==
  /\ queue = [buffer |-> [s \in 0..(QUEUE_SIZE - 1) |-> NoItem],
              head |-> 0, tail |-> 0, full |-> 0, empty |-> 1,
              mut |-> NoThread, not_full |-> {}, not_empty |-> {},
              exit_flag |-> 0, producer_lock |-> NoThread]
  /\ op = [t \in Threads |->
            [pc |-> "idle", arg |-> NoItem, item |-> NoItem, ret |-> 0]]

Idle(t) == op[t].pc = "idle"

-----------------------------------------------------------------------------
(* The mutex and the conditions, as pthreads defines them.                 *)

\* Where a thread continues once it has the mutex.  A thread that sleeps in
\* pthread_cond_wait takes the mutex again before the call returns.
AfterLock ==
  [add_lock |-> "add_check", add_sleep |-> "add_loop",
   remove_lock |-> "remove_loop", remove_sleep |-> "remove_loop",
   exit_lock |-> "exit_set", notify_lock |-> "notify"]

pthread_mutex_lock(t) ==
  /\ op[t].pc \in DOMAIN AfterLock
  /\ t \notin queue.not_full \cup queue.not_empty
  /\ queue.mut = NoThread
  /\ queue' = [queue EXCEPT !.mut = t]
  /\ op' = [op EXCEPT ![t].pc = AfterLock[op[t].pc]]

\* The sleepers that may be left after one pthread_cond_signal.
WakeOne(S) == IF S = {} THEN {S} ELSE {S \ {w} : w \in S}

signal_not_empty == \E S \in WakeOne(queue.not_empty) :
  queue' = [queue EXCEPT !.not_empty = S]

signal_not_full == \E S \in WakeOne(queue.not_full) :
  queue' = [queue EXCEPT !.not_full = S]

\* POSIX lets pthread_cond_wait return without a signal.
SpuriousWakeup(t) ==
  /\ t \in queue.not_full \cup queue.not_empty
  /\ queue' = [queue EXCEPT !.not_full = @ \ {t}, !.not_empty = @ \ {t}]
  /\ UNCHANGED op

-----------------------------------------------------------------------------
(* queue_add                                                               *)

queue_add(t, i) ==
  /\ Idle(t)
  /\ op' = [op EXCEPT ![t] = [@ EXCEPT !.pc = "add_lock", !.arg = i]]
  /\ UNCHANGED queue

\* The exit order was given before this thread had the mutex: return -1.
add_refused(t) ==
  /\ op[t].pc = "add_check"
  /\ queue.exit_flag = 1
  /\ queue' = [queue EXCEPT !.mut = NoThread]
  /\ op' = [op EXCEPT ![t] = [@ EXCEPT !.pc = "idle", !.ret = -1]]

add_admitted(t) ==
  /\ op[t].pc = "add_check"
  /\ queue.exit_flag = 0
  /\ op' = [op EXCEPT ![t].pc = "add_loop"]
  /\ UNCHANGED queue

add_sleep(t) ==
  /\ op[t].pc = "add_loop"
  /\ queue.full = 1
  /\ queue' = [queue EXCEPT !.mut = NoThread, !.not_full = @ \cup {t}]
  /\ op' = [op EXCEPT ![t].pc = "add_sleep"]

\* Mutant: tail runs past the last slot.
add_insert_unwrapped(t) ==
  /\ op[t].pc = "add_loop"
  /\ queue.full = 0
  /\ queue' = [queue EXCEPT !.buffer[queue.tail] = op[t].arg,
                            !.tail = @ + 1,
                            !.full = IF queue.tail + 1 = queue.head THEN 1 ELSE @,
                            !.empty = 0, !.mut = NoThread]
  /\ op' = [op EXCEPT ![t] = [@ EXCEPT !.pc = "add_signal", !.ret = 0]]

\* Mutant: tail moves before the slot is written.
add_insert_moved(t) ==
  LET next == (queue.tail + 1) % QUEUE_SIZE
  IN  /\ op[t].pc = "add_loop"
      /\ queue.full = 0
      /\ queue' = [queue EXCEPT !.buffer[next] = op[t].arg, !.tail = next,
                                !.full = IF next = queue.head THEN 1 ELSE @,
                                !.empty = 0, !.mut = NoThread]
      /\ op' = [op EXCEPT ![t] = [@ EXCEPT !.pc = "add_signal", !.ret = 0]]

add_insert(t) ==
  LET next == (queue.tail + 1) % QUEUE_SIZE
  IN  /\ op[t].pc = "add_loop"
      /\ queue.full = 0
      /\ queue' = [queue EXCEPT
                    !.buffer[queue.tail] = op[t].arg,
                    !.tail = next,
                    !.full = IF next = queue.head THEN 1 ELSE @,
                    !.empty = 0,
                    !.mut = NoThread]
      /\ op' = [op EXCEPT ![t] = [@ EXCEPT !.pc = "add_signal", !.ret = 0]]

\* Mutant: the wrong condition is signalled.
add_signal_not_full(t) ==
  /\ op[t].pc = "add_signal"
  /\ signal_not_full
  /\ op' = [op EXCEPT ![t].pc = "idle"]

\* Mutant: nobody is signalled.
add_signal_none(t) ==
  /\ op[t].pc = "add_signal"
  /\ UNCHANGED queue
  /\ op' = [op EXCEPT ![t].pc = "idle"]

add_signal(t) ==
  /\ op[t].pc = "add_signal"
  /\ signal_not_empty
  /\ op' = [op EXCEPT ![t].pc = "idle"]

-----------------------------------------------------------------------------
(* queue_remove                                                            *)

queue_remove(t) ==
  /\ Idle(t)
  /\ op' = [op EXCEPT ![t].pc = "remove_lock"]
  /\ UNCHANGED queue

\* Mutant: full is not lowered.
remove_take_full(t) ==
  LET next == (queue.head + 1) % QUEUE_SIZE
  IN  /\ op[t].pc = "remove_loop"
      /\ queue.empty = 0
      /\ queue' = [queue EXCEPT !.head = next, !.mut = NoThread,
                                !.empty = IF queue.tail = next THEN 1 ELSE @]
      /\ op' = [op EXCEPT ![t] = [@ EXCEPT !.pc = "remove_signal", !.ret = 0,
                                            !.item = queue.buffer[queue.head]]]

\* Mutant: empty is not raised by the last item.
remove_take_not_empty(t) ==
  /\ op[t].pc = "remove_loop"
  /\ queue.empty = 0
  /\ queue' = [queue EXCEPT !.head = (@ + 1) % QUEUE_SIZE, !.full = 0, !.mut = NoThread]
  /\ op' = [op EXCEPT ![t] = [@ EXCEPT !.pc = "remove_signal", !.ret = 0,
                                        !.item = queue.buffer[queue.head]]]

\* Mutant: the item is read after head has moved.
remove_take_next(t) ==
  LET next == (queue.head + 1) % QUEUE_SIZE
  IN  /\ op[t].pc = "remove_loop"
      /\ queue.empty = 0
      /\ queue' = [queue EXCEPT !.head = next, !.full = 0, !.mut = NoThread,
                                !.empty = IF queue.tail = next THEN 1 ELSE @]
      /\ op' = [op EXCEPT ![t] = [@ EXCEPT !.pc = "remove_signal", !.ret = 0,
                                            !.item = queue.buffer[next]]]

remove_take(t) ==
  LET next == (queue.head + 1) % QUEUE_SIZE
  IN  /\ op[t].pc = "remove_loop"
      /\ queue.empty = 0
      /\ queue' = [queue EXCEPT
                    !.head = next,
                    !.empty = IF queue.tail = next THEN 1 ELSE @,
                    !.full = 0,
                    !.mut = NoThread]
      /\ op' = [op EXCEPT ![t] = [@ EXCEPT !.pc = "remove_signal", !.ret = 0,
                                            !.item = queue.buffer[queue.head]]]

\* Mutant: the early return keeps the mutex.
remove_refused_locked(t) ==
  /\ op[t].pc = "remove_loop"
  /\ queue.empty = 1
  /\ queue.exit_flag = 1
  /\ UNCHANGED queue
  /\ op' = [op EXCEPT ![t] = [@ EXCEPT !.pc = "remove_exit", !.ret = -1]]

\* Mutant: the exit order ends the consumer although items are left.
remove_refused_early(t) ==
  /\ op[t].pc = "remove_loop"
  /\ queue.exit_flag = 1
  /\ queue' = [queue EXCEPT !.mut = NoThread]
  /\ op' = [op EXCEPT ![t] = [@ EXCEPT !.pc = "remove_exit", !.ret = -1]]

\* Empty, and the exit order was given: return -1 and wake one more consumer.
remove_refused(t) ==
  /\ op[t].pc = "remove_loop"
  /\ queue.empty = 1
  /\ queue.exit_flag = 1
  /\ queue' = [queue EXCEPT !.mut = NoThread]
  /\ op' = [op EXCEPT ![t] = [@ EXCEPT !.pc = "remove_exit", !.ret = -1]]

\* Empty and no exit order seen: the mutex is still held ...
remove_wait(t) ==
  /\ op[t].pc = "remove_loop"
  /\ queue.empty = 1
  /\ queue.exit_flag = 0
  /\ op' = [op EXCEPT ![t].pc = "remove_wait"]
  /\ UNCHANGED queue

\* ... and pthread_cond_wait releases it and sleeps in one step.
remove_sleep(t) ==
  /\ op[t].pc = "remove_wait"
  /\ queue' = [queue EXCEPT !.mut = NoThread, !.not_empty = @ \cup {t}]
  /\ op' = [op EXCEPT ![t].pc = "remove_sleep"]

\* Mutant: the wrong condition is signalled.
remove_signal_not_empty(t) ==
  /\ op[t].pc = "remove_signal"
  /\ signal_not_empty
  /\ op' = [op EXCEPT ![t].pc = "idle"]

remove_signal(t) ==
  /\ op[t].pc = "remove_signal"
  /\ signal_not_full
  /\ op' = [op EXCEPT ![t].pc = "idle"]

\* Mutant: the other consumers are not told.
remove_exit_silent(t) ==
  /\ op[t].pc = "remove_exit"
  /\ UNCHANGED queue
  /\ op' = [op EXCEPT ![t].pc = "idle"]

remove_exit(t) ==
  /\ op[t].pc = "remove_exit"
  /\ signal_not_empty
  /\ op' = [op EXCEPT ![t].pc = "idle"]

-----------------------------------------------------------------------------
(* Accesses to the struct from outside PCQueue.c                           *)

\* close_connection_interrupt orders the exit under the mutex, and signals
\* nobody.
order_exit(t) ==
  /\ Idle(t)
  /\ op' = [op EXCEPT ![t].pc = "exit_lock"]
  /\ UNCHANGED queue

exit_set(t) ==
  /\ op[t].pc = "exit_set"
  /\ queue' = [queue EXCEPT !.exit_flag = 1, !.mut = NoThread]
  /\ op' = [op EXCEPT ![t].pc = "idle"]

\* send_directive_to_queue (on api_queue) and Writer (on calculation_queue)
\* write the flag without the mutex.
set_exit_flag(t) ==
  /\ Idle(t)
  /\ queue' = [queue EXCEPT !.exit_flag = 1]
  /\ UNCHANGED op

\* Writer and lws_callback signal not_empty without the mutex.
bare_signal(t) ==
  /\ Idle(t)
  /\ signal_not_empty
  /\ UNCHANGED op

\* WSSClient, before it returns: under the mutex, signal not_empty if the
\* queue is empty.
notify_if_empty(t) ==
  /\ Idle(t)
  /\ op' = [op EXCEPT ![t].pc = "notify_lock"]
  /\ UNCHANGED queue

notify(t) ==
  /\ op[t].pc = "notify"
  /\ \E S \in IF queue.empty = 1 THEN WakeOne(queue.not_empty)
                                 ELSE {queue.not_empty} :
       queue' = [queue EXCEPT !.not_empty = S, !.mut = NoThread]
  /\ op' = [op EXCEPT ![t].pc = "idle"]

\* The producers hold this mutex over a whole message or a whole directive.
producer_lock(t) ==
  /\ Idle(t)
  /\ queue.producer_lock = NoThread
  /\ queue' = [queue EXCEPT !.producer_lock = t]
  /\ UNCHANGED op

producer_unlock(t) ==
  /\ Idle(t)
  /\ queue.producer_lock = t
  /\ queue' = [queue EXCEPT !.producer_lock = NoThread]
  /\ UNCHANGED op

-----------------------------------------------------------------------------
\* The rest of an operation that thread t has begun.
Continue(t) ==
  \/ pthread_mutex_lock(t)
  \/ add_refused(t)
  \/ add_admitted(t)
  \/ add_sleep(t)
  \/ add_insert(t)
  \/ add_signal(t)
  \/ remove_take(t)
  \/ remove_refused(t)
  \/ remove_wait(t)
  \/ remove_sleep(t)
  \/ remove_signal(t)
  \/ remove_exit(t)
  \/ exit_set(t)
  \/ notify(t)

\* What a thread outside any operation may begin.
Begin(t) ==
  \/ t \in Producers /\ \E i \in Items : queue_add(t, i)
  \/ t \in Consumers /\ queue_remove(t)
  \/ order_exit(t)
  \/ set_exit_flag(t)
  \/ bare_signal(t)
  \/ notify_if_empty(t)
  \/ producer_lock(t)
  \/ producer_unlock(t)

Next == \E t \in Threads : Begin(t) \/ Continue(t) \/ SpuriousWakeup(t)

Spec == Init /\ [][Next]_vars

-----------------------------------------------------------------------------
(* Correctness                                                             *)

Locations ==
  {"idle", "add_lock", "add_check", "add_loop", "add_sleep", "add_signal",
   "remove_lock", "remove_loop", "remove_wait", "remove_sleep",
   "remove_signal", "remove_exit", "exit_lock", "exit_set", "notify_lock",
   "notify"}

\* The locations of a thread that owns the mutex.
Critical ==
  {"add_check", "add_loop", "remove_loop", "remove_wait", "exit_set", "notify"}

QueueType ==
  [buffer : [0..(QUEUE_SIZE - 1) -> Items \cup {NoItem}],
   head : 0..(QUEUE_SIZE - 1), tail : 0..(QUEUE_SIZE - 1),
   full : {0, 1}, empty : {0, 1}, mut : Threads \cup {NoThread},
   not_full : SUBSET Threads, not_empty : SUBSET Threads,
   exit_flag : {0, 1}, producer_lock : Threads \cup {NoThread}]

OpType == [pc : Locations, arg : Items \cup {NoItem},
           item : Items \cup {NoItem}, ret : {0, -1}]

\* The type of the struct and of the threads' progress in their operations.
TypeOK == queue \in QueueType /\ op \in [Threads -> OpType]

\* queue.mut protects the struct: the threads inside the critical sections of
\* PCQueue.c, close_connection_interrupt and WSSClient are exactly its owner,
\* so never two, and a thread asleep in pthread_cond_wait is outside them.
MutualExclusion ==
  /\ \A t \in Threads : op[t].pc \in Critical <=> queue.mut = t
  /\ \A t \in queue.not_full : op[t].pc = "add_sleep"
  /\ \A t \in queue.not_empty : op[t].pc = "remove_sleep"

\* The flags tell the two meanings of head = tail apart: of full and empty,
\* one is raised when the indices meet and none otherwise, whatever order of
\* adds and removes moved them.
RingInv == queue.full + queue.empty = IF queue.head = queue.tail THEN 1 ELSE 0

\* The items between head and tail, the oldest first.
Slot(k) == IF queue.head + k < QUEUE_SIZE THEN queue.head + k
                                          ELSE queue.head + k - QUEUE_SIZE

Count == IF queue.full = 1 THEN QUEUE_SIZE
         ELSE IF queue.head <= queue.tail THEN queue.tail - queue.head
         ELSE queue.tail - queue.head + QUEUE_SIZE

Contents == [k \in 1..Count |-> queue.buffer[Slot(k - 1)]]

\* The abstract view of a thread: its call counts as pending until the step
\* that decides the outcome.
Call(t) ==
  IF op[t].pc \in {"add_lock", "add_check", "add_loop", "add_sleep"}
  THEN "add"
  ELSE IF op[t].pc \in {"remove_lock", "remove_loop", "remove_wait", "remove_sleep"}
  THEN "remove"
  ELSE "none"

Client == [t \in Threads |-> [call |-> Call(t), arg |-> op[t].arg,
                              item |-> op[t].item, ret |-> op[t].ret]]

Abs == INSTANCE BoundedQueue WITH
  Capacity  <- QUEUE_SIZE,
  contents  <- Contents,
  exit_flag <- queue.exit_flag,
  client    <- Client

\* queue_add and queue_remove on the ring are the one-step Add and Remove of a
\* bounded FIFO: nothing is lost, duplicated, reordered or overwritten,
\* whichever threads interleave, and -1 is returned only as BoundedQueue says.
ImplementsBoundedQueue == Abs!Spec

\* No consumer is handed a slot that nobody wrote: what lies between head and
\* tail, what is being added and what was just taken are work items.
ItemsWritten ==
  /\ \A k \in 1..Len(Contents) : Contents[k] \in Items
  /\ \A t \in Threads : Call(t) = "add" => op[t].arg \in Items
  /\ \A t \in Threads : op[t].pc = "remove_signal" => op[t].item \in Items

\* The threads at a location, and those that are up and will test the queue
\* again: in the loop, or woken and on the way to it.
At(location) == {t \in Threads : op[t].pc = location}
Up(waiters, loop, sleep) == At(loop) \cup (At(sleep) \ waiters)

\* No lost wakeup on not_empty: while a consumer sleeps, every queued item has
\* a signal on its way (the add that has unlocked but not signalled yet) or a
\* consumer that is up and will test the queue again.
NoStrandedItem ==
  queue.not_empty # {} =>
    Count <= Cardinality(At("add_signal"))
             + Cardinality(Up(queue.not_empty, "remove_loop", "remove_sleep"))

\* No lost wakeup on not_full: while a producer sleeps, every free slot has a
\* signal on its way or a producer that is up and past the exit test.
NoStrandedSlot ==
  queue.not_full # {} =>
    QUEUE_SIZE - Count
      <= Cardinality(At("remove_signal"))
         + Cardinality(Up(queue.not_full, "add_loop", "add_sleep"))
=============================================================================
