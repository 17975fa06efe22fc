---------------------------- MODULE PCQueueProofs ----------------------------
(***************************************************************************)
(* Proofs about PCQueue for every set of threads and every QUEUE_SIZE.     *)
(***************************************************************************)
EXTENDS PCQueue, SequenceTheorems, TLAPS

\* Both indices move to the next slot, or wrap from the last one to slot 0.
LEMMA NextIndex ==
  ASSUME NEW N \in Nat \ {0}, NEW i \in 0..(N - 1)
  PROVE  (i + 1) % N = IF i + 1 = N THEN 0 ELSE i + 1
<1>1. CASE i + 1 = N
  BY <1>1
<1>2. CASE i + 1 < N
  BY <1>2
<1> QED
  BY <1>1, <1>2

\* pthread_cond_signal adds nobody to the sleepers.
LEMMA WakeOneSubset ==
  ASSUME NEW X, NEW S \in WakeOne(X)
  PROVE  S \subseteq X
BY DEF WakeOne

\* A step that signals not_empty changes its sleepers only.
LEMMA SignalNotEmpty ==
  ASSUME signal_not_empty
  PROVE  \E S \in SUBSET queue.not_empty :
           queue' = [queue EXCEPT !.not_empty = S]
BY WakeOneSubset DEF signal_not_empty

\* A step that signals not_full changes its sleepers only.
LEMMA SignalNotFull ==
  ASSUME signal_not_full
  PROVE  \E S \in SUBSET queue.not_full :
           queue' = [queue EXCEPT !.not_full = S]
BY WakeOneSubset DEF signal_not_full

\* So does the notification of WSSClient, which also gives the mutex back.
LEMMA NotifyWakes ==
  ASSUME NEW t \in Threads, notify(t)
  PROVE  \E S \in SUBSET queue.not_empty :
           queue' = [queue EXCEPT !.not_empty = S, !.mut = NoThread]
<1>1. PICK S : /\ S \in WakeOne(queue.not_empty) \/ S = queue.not_empty
               /\ queue' = [queue EXCEPT !.not_empty = S, !.mut = NoThread]
  BY DEF notify
<1>2. S \in SUBSET queue.not_empty
  BY <1>1, WakeOneSubset
<1> QED
  BY <1>1, <1>2

\* The type part that concerns the threads: whatever a thread does, it ends at
\* a location of the code with an argument, an item and a value of their types.
LEMMA OpTypeStep ==
  ASSUME TypeOK, NEW t \in Threads, Begin(t) \/ Continue(t)
  PROVE  op' \in [Threads -> OpType]
<1> USE DEF TypeOK, OpType
<1>1. ASSUME NEW l \in Locations, op' = [op EXCEPT ![t].pc = l]
      PROVE  op' \in [Threads -> OpType]
  BY <1>1
<1>2. CASE pthread_mutex_lock(t)
  <2>1. AfterLock[op[t].pc] \in Locations
    BY <1>2 DEF pthread_mutex_lock, AfterLock, Locations
  <2> QED
    BY <1>1, <1>2, <2>1 DEF pthread_mutex_lock
<1>3. CASE \E i \in Items : queue_add(t, i)
  <2>1. PICK i \in Items : op' = [op EXCEPT ![t] = [@ EXCEPT !.pc = "add_lock", !.arg = i]]
    BY <1>3 DEF queue_add
  <2>2. "add_lock" \in Locations
    BY DEF Locations
  <2> QED
    BY <2>1, <2>2
<1>4. ASSUME NEW l \in Locations, NEW r \in {0, -1},
             op' = [op EXCEPT ![t] = [@ EXCEPT !.pc = l, !.ret = r]]
      PROVE  op' \in [Threads -> OpType]
  BY <1>4
<1>5. CASE add_insert(t) \/ add_refused(t) \/ remove_refused(t)
  <2>1. \E l \in Locations, r \in {0, -1} :
          op' = [op EXCEPT ![t] = [@ EXCEPT !.pc = l, !.ret = r]]
    BY <1>5 DEF add_insert, add_refused, remove_refused, Locations
  <2> QED
    BY <1>4, <2>1
<1>6. CASE remove_take(t)
  <2>1. PICK i \in Items \cup {NoItem} :
          op' = [op EXCEPT ![t] = [@ EXCEPT !.pc = "remove_signal", !.ret = 0,
                                            !.item = i]]
    <3>1. queue.buffer[queue.head] \in Items \cup {NoItem}
      BY DEF QueueType
    <3> QED
      BY <1>6, <3>1 DEF remove_take
  <2> QED
    BY <2>1, ZenonT(30) DEF Locations
<1>7. CASE bare_signal(t) \/ set_exit_flag(t) \/ producer_lock(t)
           \/ producer_unlock(t)
  BY <1>7 DEF bare_signal, set_exit_flag, producer_lock, producer_unlock
<1>8. CASE \E l \in Locations : op' = [op EXCEPT ![t].pc = l]
  BY <1>1, <1>8
<1>9. \/ queue_remove(t) \/ order_exit(t) \/ notify_if_empty(t)
      \/ add_admitted(t) \/ add_sleep(t) \/ add_signal(t)
      \/ remove_wait(t) \/ remove_sleep(t) \/ remove_signal(t) \/ remove_exit(t)
      \/ exit_set(t) \/ notify(t)
      => \E l \in Locations : op' = [op EXCEPT ![t].pc = l]
  BY DEF queue_remove, order_exit, notify_if_empty, add_admitted, add_sleep,
     add_signal, remove_wait, remove_sleep, remove_signal, remove_exit,
     exit_set, notify, Locations
<1> QED
  BY <1>2, <1>3, <1>4, <1>5, <1>6, <1>7, <1>8, <1>9 DEF Begin, Continue

\* The type part that concerns the struct: head and tail stay inside the ring,
\* only threads own or wait for what the struct holds.
LEMMA QueueTypeStep ==
  ASSUME TypeOK, NEW t \in Threads, Begin(t) \/ Continue(t)
  PROVE  queue' \in QueueType
<1> USE QueueAssumption DEF TypeOK, QueueType
<1>1. CASE UNCHANGED queue
  BY <1>1
<1>2. CASE signal_not_empty
  BY <1>2, SignalNotEmpty
<1>3. CASE signal_not_full
  BY <1>3, SignalNotFull
<1>4. CASE notify(t)
  <2>1. PICK S \in SUBSET queue.not_empty :
          queue' = [queue EXCEPT !.not_empty = S, !.mut = NoThread]
    BY <1>4, NotifyWakes
  <2> QED
    BY <2>1
<1>5. CASE add_insert(t)
  <2>1. op[t].arg \in Items \cup {NoItem}
    BY DEF OpType
  <2>2. (queue.tail + 1) % QUEUE_SIZE \in 0..(QUEUE_SIZE - 1)
    BY NextIndex
  <2>3. PICK n \in 0..(QUEUE_SIZE - 1), f \in {0, 1} :
          queue' = [queue EXCEPT !.buffer[queue.tail] = op[t].arg, !.tail = n,
                                 !.full = f, !.empty = 0, !.mut = NoThread]
    BY <1>5, <2>2 DEF add_insert
  <2> QED
    BY <2>1, <2>3
<1>6. CASE remove_take(t)
  <2>1. (queue.head + 1) % QUEUE_SIZE \in 0..(QUEUE_SIZE - 1)
    BY NextIndex
  <2>2. PICK n \in 0..(QUEUE_SIZE - 1), e \in {0, 1} :
          queue' = [queue EXCEPT !.head = n, !.empty = e, !.full = 0,
                                 !.mut = NoThread]
    BY <1>6, <2>1 DEF remove_take
  <2> QED
    BY <2>2
<1>7. CASE pthread_mutex_lock(t) \/ add_refused(t) \/ remove_refused(t)
  BY <1>7 DEF pthread_mutex_lock, add_refused, remove_refused
<1>8. CASE add_sleep(t)
  BY <1>8 DEF add_sleep
<1>9. CASE remove_sleep(t)
  BY <1>9 DEF remove_sleep
<1>10. CASE exit_set(t) \/ set_exit_flag(t)
  <2>1. CASE exit_set(t)
    BY <2>1 DEF exit_set
  <2>2. CASE set_exit_flag(t)
    BY <2>2 DEF set_exit_flag
  <2> QED
    BY <1>10, <2>1, <2>2
<1>11. CASE producer_lock(t)
  BY <1>11 DEF producer_lock
<1>12. CASE producer_unlock(t)
  BY <1>12 DEF producer_unlock
<1>13. \/ \E i \in Items : queue_add(t, i)
       \/ queue_remove(t) \/ order_exit(t) \/ notify_if_empty(t)
       \/ add_admitted(t) \/ remove_wait(t)
       => UNCHANGED queue
  BY DEF queue_add, queue_remove, order_exit, notify_if_empty, add_admitted,
     remove_wait
<1>14. bare_signal(t) \/ add_signal(t) \/ remove_exit(t) => signal_not_empty
  BY DEF bare_signal, add_signal, remove_exit
<1>15. remove_signal(t) => signal_not_full
  BY DEF remove_signal
<1> QED
  BY <1>1, <1>2, <1>3, <1>4, <1>5, <1>6, <1>7, <1>8, <1>9, <1>10, <1>11,
     <1>12, <1>13, <1>14, <1>15 DEF Begin, Continue

\* Type correctness: every step of every thread keeps the struct and the
\* threads' locations inside their types, so head and tail stay inside the ring.
THEOREM TypeCorrect == Spec => []TypeOK
<1>1. Init => TypeOK
  BY QueueAssumption DEF Init, TypeOK, QueueType, OpType, Locations
<1>2. TypeOK /\ [Next]_vars => TypeOK'
  <2> SUFFICES ASSUME TypeOK, [Next]_vars PROVE TypeOK'
    OBVIOUS
  <2>1. ASSUME NEW t \in Threads, Begin(t) \/ Continue(t) PROVE TypeOK'
    BY <2>1, OpTypeStep, QueueTypeStep DEF TypeOK
  <2>2. ASSUME NEW t \in Threads, SpuriousWakeup(t) PROVE TypeOK'
    BY <2>2 DEF SpuriousWakeup, TypeOK, QueueType
  <2>3. CASE UNCHANGED vars
    BY <2>3 DEF vars, TypeOK
  <2> QED
    BY <2>1, <2>2, <2>3 DEF Next
<1> QED
  BY <1>1, <1>2, PTL DEF Spec

-----------------------------------------------------------------------------
\* What one thread's step does to the locations of all threads, the mutex and
\* the sleepers, for the steps that leave the critical section or never
\* enter it, is enough for mutual exclusion.
LEMMA MutexFrame ==
  ASSUME TypeOK, TypeOK', MutualExclusion, NEW t \in Threads,
         \A s \in Threads \ {t} : op'[s].pc = op[s].pc,
         queue'.not_full \subseteq queue.not_full \cup {t},
         queue'.not_empty \subseteq queue.not_empty \cup {t},
         t \in queue'.not_full => op'[t].pc = "add_sleep",
         t \in queue'.not_empty => op'[t].pc = "remove_sleep",
         \/ queue'.mut = queue.mut /\ (op[t].pc \in Critical <=> op'[t].pc \in Critical)
         \/ op[t].pc \in Critical /\ queue'.mut = NoThread /\ op'[t].pc \notin Critical
         \/ queue.mut = NoThread /\ queue'.mut = t /\ op'[t].pc \in Critical
  PROVE  MutualExclusion'
<1>1. \A s \in Threads : op'[s].pc \in Critical <=> queue'.mut = s
  BY QueueAssumption DEF MutualExclusion
<1>2. \A s \in queue'.not_full : op'[s].pc = "add_sleep"
  BY DEF MutualExclusion, TypeOK, QueueType
<1>3. \A s \in queue'.not_empty : op'[s].pc = "remove_sleep"
  BY DEF MutualExclusion, TypeOK, QueueType
<1> QED
  BY <1>1, <1>2, <1>3 DEF MutualExclusion

\* Mutual exclusion on queue.mut, in PCQueue.c and in the handlers and thread
\* routines that take the same mutex.
THEOREM MutexCorrect == Spec => []MutualExclusion
<1>1. Init => MutualExclusion
  BY QueueAssumption DEF Init, MutualExclusion, Critical
<1>2. TypeOK /\ TypeOK' /\ MutualExclusion /\ [Next]_vars => MutualExclusion'
  <2> SUFFICES ASSUME TypeOK, TypeOK', MutualExclusion, [Next]_vars
               PROVE  MutualExclusion'
    OBVIOUS
  <2> USE DEF TypeOK, QueueType, OpType
  <2>1. ASSUME NEW t \in Threads, Begin(t) \/ Continue(t)
        PROVE  MutualExclusion'
    <3>1. \A s \in Threads \ {t} : op'[s].pc = op[s].pc
      <4>1. CASE Begin(t)
        <5>1. CASE \E i \in Items : queue_add(t, i)
          BY <5>1 DEF queue_add
        <5>2. CASE queue_remove(t) \/ order_exit(t) \/ set_exit_flag(t)
          BY <5>2 DEF queue_remove, order_exit, set_exit_flag
        <5>3. CASE bare_signal(t) \/ notify_if_empty(t)
          BY <5>3 DEF bare_signal, notify_if_empty
        <5>4. CASE producer_lock(t) \/ producer_unlock(t)
          BY <5>4 DEF producer_lock, producer_unlock
        <5> QED
          BY <4>1, <5>1, <5>2, <5>3, <5>4 DEF Begin
      <4>2. CASE pthread_mutex_lock(t)
        BY <4>2 DEF pthread_mutex_lock
      <4>3. CASE add_refused(t) \/ add_admitted(t) \/ add_sleep(t)
        BY <4>3 DEF add_refused, add_admitted, add_sleep
      <4>4. CASE add_insert(t) \/ add_signal(t) \/ exit_set(t) \/ notify(t)
        BY <4>4 DEF add_insert, add_signal, exit_set, notify
      <4>5. CASE remove_take(t) \/ remove_refused(t) \/ remove_wait(t)
        BY <4>5 DEF remove_take, remove_refused, remove_wait
      <4>6. CASE remove_sleep(t) \/ remove_signal(t) \/ remove_exit(t)
        BY <4>6 DEF remove_sleep, remove_signal, remove_exit
      <4> QED
        BY <2>1, <4>1, <4>2, <4>3, <4>4, <4>5, <4>6 DEF Continue
    <3>2. CASE pthread_mutex_lock(t)
      <4>1. op'[t].pc = AfterLock[op[t].pc] /\ queue' = [queue EXCEPT !.mut = t]
        BY <3>2 DEF pthread_mutex_lock
      <4>2. op'[t].pc \in Critical
        BY <3>2, <4>1 DEF pthread_mutex_lock, AfterLock, Critical
      <4> QED
        BY <3>1, <3>2, <4>1, <4>2, MutexFrame DEF pthread_mutex_lock
    <3>3. t \in queue.not_full => op[t].pc = "add_sleep"
      BY DEF MutualExclusion
    <3>4. t \in queue.not_empty => op[t].pc = "remove_sleep"
      BY DEF MutualExclusion
    <3>5. CASE Begin(t)
      <4>1. op[t].pc = "idle"
        BY <3>5 DEF Begin, queue_add, queue_remove, order_exit, set_exit_flag,
           bare_signal, notify_if_empty, producer_lock, producer_unlock, Idle
      <4>2. op'[t].pc \in {"idle", "add_lock", "remove_lock", "exit_lock", "notify_lock"}
        <5>1. CASE \E i \in Items : queue_add(t, i)
          BY <5>1 DEF queue_add
        <5>2. CASE ~ \E i \in Items : queue_add(t, i)
          BY <3>5, <4>1, <5>2 DEF Begin, queue_remove, order_exit,
             set_exit_flag, bare_signal, notify_if_empty, producer_lock,
             producer_unlock
        <5> QED
          BY <5>1, <5>2
      <4>3. /\ queue'.mut = queue.mut
            /\ queue'.not_full \subseteq queue.not_full
            /\ queue'.not_empty \subseteq queue.not_empty
        BY <3>5, SignalNotEmpty DEF Begin, queue_add, queue_remove, order_exit,
           set_exit_flag, bare_signal, notify_if_empty, producer_lock,
           producer_unlock
      <4> QED
        BY <3>1, <3>3, <3>4, <4>1, <4>2, <4>3, MutexFrame DEF Critical
    <3>6. CASE add_admitted(t) \/ remove_wait(t)
      BY <3>1, <3>3, <3>4, <3>6, MutexFrame DEF add_admitted, remove_wait, Critical
    <3>7. CASE add_refused(t) \/ add_insert(t) \/ remove_take(t)
               \/ remove_refused(t) \/ exit_set(t)
      <4>1. op[t].pc \in {"add_check", "add_loop", "remove_loop", "exit_set"}
        BY <3>7 DEF add_refused, add_insert, remove_take, remove_refused, exit_set
      <4>2. op'[t].pc \in {"idle", "add_signal", "remove_signal", "remove_exit"}
        <5>1. CASE add_insert(t)
          BY <5>1 DEF add_insert
        <5>2. CASE remove_take(t)
          BY <5>2 DEF remove_take
        <5>3. CASE add_refused(t)
          BY <5>3 DEF add_refused
        <5>4. CASE remove_refused(t)
          BY <5>4 DEF remove_refused
        <5>5. CASE exit_set(t)
          BY <5>5 DEF exit_set
        <5> QED
          BY <3>7, <5>1, <5>2, <5>3, <5>4, <5>5
      <4>3. /\ queue'.mut = NoThread
            /\ queue'.not_full = queue.not_full
            /\ queue'.not_empty = queue.not_empty
        <5>1. CASE add_insert(t)
          BY <5>1 DEF add_insert
        <5>2. CASE remove_take(t)
          BY <5>2 DEF remove_take
        <5>3. CASE add_refused(t) \/ remove_refused(t)
          BY <5>3 DEF add_refused, remove_refused
        <5>4. CASE exit_set(t)
          BY <5>4 DEF exit_set
        <5> QED
          BY <3>7, <5>1, <5>2, <5>3, <5>4
      <4> QED
        BY <3>1, <3>3, <3>4, <4>1, <4>2, <4>3, MutexFrame DEF Critical
    <3>8. CASE add_sleep(t)
      BY <3>1, <3>3, <3>4, <3>8, MutexFrame DEF add_sleep, Critical
    <3>9. CASE remove_sleep(t)
      BY <3>1, <3>3, <3>4, <3>9, MutexFrame DEF remove_sleep, Critical
    <3>10. CASE add_signal(t) \/ remove_signal(t) \/ remove_exit(t)
      <4>1. /\ queue'.mut = queue.mut
            /\ queue'.not_full \subseteq queue.not_full
            /\ queue'.not_empty \subseteq queue.not_empty
        <5>1. signal_not_empty \/ signal_not_full
          BY <3>10 DEF add_signal, remove_signal, remove_exit
        <5>2. CASE signal_not_empty
          BY <5>2, SignalNotEmpty DEF TypeOK, QueueType
        <5>3. CASE signal_not_full
          BY <5>3, SignalNotFull DEF TypeOK, QueueType
        <5> QED
          BY <5>1, <5>2, <5>3
      <4>2. /\ op[t].pc \in {"add_signal", "remove_signal", "remove_exit"}
            /\ op'[t].pc = "idle"
        BY <3>10 DEF add_signal, remove_signal, remove_exit
      <4> QED
        BY <3>1, <3>3, <3>4, <4>1, <4>2, MutexFrame DEF Critical
    <3>11. CASE notify(t)
      <4>1. PICK S \in SUBSET queue.not_empty :
              queue' = [queue EXCEPT !.not_empty = S, !.mut = NoThread]
        BY <3>11, NotifyWakes
      <4>2. op[t].pc = "notify" /\ op'[t].pc = "idle"
        BY <3>11 DEF notify
      <4> QED
        BY <3>1, <3>3, <3>4, <4>1, <4>2, MutexFrame DEF Critical
    <3> QED
      BY <2>1, <3>2, <3>5, <3>6, <3>7, <3>8, <3>9, <3>10, <3>11 DEF Continue
  <2>2. ASSUME NEW t \in Threads, SpuriousWakeup(t) PROVE MutualExclusion'
    BY <2>2 DEF SpuriousWakeup, MutualExclusion
  <2>3. CASE UNCHANGED vars
    BY <2>3 DEF vars, MutualExclusion
  <2> QED
    BY <2>1, <2>2, <2>3 DEF Next
<1> QED
  BY <1>1, <1>2, TypeCorrect, PTL DEF Spec

-----------------------------------------------------------------------------
\* Only add_insert and remove_take move what the ring holds.
LEMMA RingFrame ==
  ASSUME TypeOK, NEW t \in Threads, Begin(t) \/ Continue(t) \/ SpuriousWakeup(t),
         ~ add_insert(t), ~ remove_take(t)
  PROVE  /\ queue'.buffer = queue.buffer
         /\ queue'.head = queue.head
         /\ queue'.tail = queue.tail
         /\ queue'.full = queue.full
         /\ queue'.empty = queue.empty
<1> USE DEF TypeOK, QueueType
<1>1. CASE notify(t)
  BY <1>1 DEF notify
<1>2. CASE signal_not_empty \/ signal_not_full
  BY <1>2, SignalNotEmpty, SignalNotFull
<1>3. CASE Begin(t)
  BY <1>2, <1>3 DEF Begin, queue_add, queue_remove, order_exit, set_exit_flag,
     bare_signal, notify_if_empty, producer_lock, producer_unlock
<1>4. CASE SpuriousWakeup(t)
  BY <1>4 DEF SpuriousWakeup
<1> QED
  BY <1>1, <1>2, <1>3, <1>4 DEF Continue, pthread_mutex_lock, add_refused,
     add_admitted, add_sleep, add_signal, remove_refused, remove_wait,
     remove_sleep, remove_signal, remove_exit, exit_set

\* The flags of the ring never disagree with its indices.
THEOREM RingCorrect == Spec => []RingInv
<1>1. Init => RingInv
  BY DEF Init, RingInv
<1>2. TypeOK /\ RingInv /\ [Next]_vars => RingInv'
  <2> SUFFICES ASSUME TypeOK, RingInv, [Next]_vars PROVE RingInv'
    OBVIOUS
  <2> USE DEF TypeOK, QueueType, RingInv
  <2>1. ASSUME NEW t \in Threads, add_insert(t) PROVE RingInv'
    BY <2>1 DEF add_insert
  <2>2. ASSUME NEW t \in Threads, remove_take(t) PROVE RingInv'
    BY <2>2 DEF remove_take
  <2>3. ASSUME NEW t \in Threads, Begin(t) \/ Continue(t) \/ SpuriousWakeup(t),
               ~ add_insert(t), ~ remove_take(t)
        PROVE  RingInv'
    BY <2>3, RingFrame
  <2>4. CASE UNCHANGED vars
    BY <2>4 DEF vars
  <2> QED
    BY <2>1, <2>2, <2>3, <2>4 DEF Next
<1> QED
  BY <1>1, <1>2, TypeCorrect, PTL DEF Spec

-----------------------------------------------------------------------------
(* The ring implements the FIFO.                                           *)

\* The ring holds between none and QUEUE_SIZE items, and Contents lists them.
ContentsOK ==
  /\ Count \in 0..QUEUE_SIZE
  /\ queue.empty = 1 <=> Count = 0
  /\ queue.full = 1 <=> Count = QUEUE_SIZE
  /\ Contents \in Seq(Items \cup {NoItem})
  /\ Len(Contents) = Count

\* ContentsOK follows from the types and the agreement of flags and indices.
LEMMA ContentsType == TypeOK /\ RingInv => ContentsOK
<1> SUFFICES ASSUME TypeOK, RingInv PROVE ContentsOK
  OBVIOUS
<1>1. /\ Count \in 0..QUEUE_SIZE
      /\ queue.empty = 1 <=> Count = 0
      /\ queue.full = 1 <=> Count = QUEUE_SIZE
  BY QueueAssumption DEF TypeOK, QueueType, RingInv, Count
<1>2. \A k \in 1..Count : queue.buffer[Slot(k - 1)] \in Items \cup {NoItem}
  <2> TAKE k \in 1..Count
  <2>1. Slot(k - 1) \in 0..(QUEUE_SIZE - 1)
    BY <1>1, QueueAssumption DEF TypeOK, QueueType, Slot
  <2> QED
    BY <2>1 DEF TypeOK, QueueType
<1>3. Contents \in [1..Count -> Items \cup {NoItem}]
  BY <1>2 DEF Contents
<1> QED
  BY <1>1, <1>3 DEF ContentsOK

\* Writing the slot at tail and advancing tail appends to the contents.
LEMMA InsertAppends ==
  ASSUME TypeOK, TypeOK', RingInv, RingInv', NEW t \in Threads, add_insert(t)
  PROVE  /\ Len(Contents) < QUEUE_SIZE
         /\ Contents' = Append(Contents, op[t].arg)
<1>0. /\ QUEUE_SIZE \in Nat \ {0}
      /\ queue.head \in 0..(QUEUE_SIZE - 1)
      /\ queue.tail \in 0..(QUEUE_SIZE - 1)
      /\ queue.full = 0 /\ queue.empty \in {0, 1}
      /\ queue.head = queue.tail => queue.empty = 1
  BY QueueAssumption DEF TypeOK, QueueType, RingInv, add_insert
<1>1. /\ Count \in 0..(QUEUE_SIZE - 1)
      /\ Contents \in Seq(Items \cup {NoItem})
      /\ Len(Contents) = Count
  BY <1>0, ContentsType DEF ContentsOK
<1>2. /\ queue'.buffer = [queue.buffer EXCEPT ![queue.tail] = op[t].arg]
      /\ queue'.head = queue.head
      /\ queue'.tail = IF queue.tail + 1 = QUEUE_SIZE THEN 0 ELSE queue.tail + 1
      /\ queue'.full = IF queue'.tail = queue.head THEN 1 ELSE 0
  <2>1. (queue.tail + 1) % QUEUE_SIZE
        = IF queue.tail + 1 = QUEUE_SIZE THEN 0 ELSE queue.tail + 1
    BY <1>0, NextIndex
  <2> QED
    BY <1>0, <2>1 DEF add_insert, TypeOK, QueueType
<1>3. Count' = Count + 1
  <2>1. CASE queue'.tail = queue.head
    BY <1>0, <1>2, <2>1 DEF Count
  <2>2. CASE queue'.tail # queue.head
    BY <1>0, <1>2, <2>2 DEF Count
  <2> QED
    BY <2>1, <2>2
<1>4. Slot(Count) = queue.tail
  BY <1>0, <1>1 DEF Count, Slot
<1>5. \A k \in 1..Count : Slot(k - 1) # queue.tail /\ Slot(k - 1) \in 0..(QUEUE_SIZE - 1)
  BY <1>0, <1>1, SMTT(30) DEF Count, Slot
<1>6. \A k \in 1..Count' : Slot(k - 1)' = Slot(k - 1)
  BY <1>2 DEF Slot
<1>7. \A k \in 1..(Count + 1) :
        queue'.buffer[Slot(k - 1)] = IF k = Count + 1 THEN op[t].arg
                                     ELSE queue.buffer[Slot(k - 1)]
  BY <1>0, <1>1, <1>2, <1>4, <1>5 DEF TypeOK, QueueType
<1>8. \A k \in 1..(Count + 1) : Contents'[k] = queue'.buffer[Slot(k - 1)]
  BY <1>3, <1>6 DEF Contents
<1>9. \A k \in 1..Count : Contents[k] = queue.buffer[Slot(k - 1)]
  BY DEF Contents
<1>10. Contents' \in Seq(Items \cup {NoItem}) /\ Len(Contents') = Count + 1
  <2>1. (TypeOK /\ RingInv => ContentsOK)'
    BY ContentsType, PTL
  <2> QED
    BY <1>3, <2>1 DEF ContentsOK
<1>11. /\ Append(Contents, op[t].arg) \in Seq(Items \cup {NoItem})
       /\ Len(Append(Contents, op[t].arg)) = Count + 1
       /\ \A k \in 1..Count : Append(Contents, op[t].arg)[k] = Contents[k]
       /\ Append(Contents, op[t].arg)[Count + 1] = op[t].arg
  <2>1. op[t].arg \in Items \cup {NoItem}
    BY DEF TypeOK, OpType
  <2> QED
    BY <1>1, <2>1, AppendProperties
<1>12. \A k \in 1..(Count + 1) : Contents'[k] = Append(Contents, op[t].arg)[k]
  <2> SUFFICES ASSUME NEW k \in 1..(Count + 1)
               PROVE  Contents'[k] = Append(Contents, op[t].arg)[k]
    OBVIOUS
  <2>1. CASE k = Count + 1
    BY <1>7, <1>8, <1>11, <2>1
  <2>2. CASE k \in 1..Count
    BY <1>1, <1>7, <1>8, <1>9, <1>11, <2>2
  <2> QED
    BY <1>1, <2>1, <2>2
<1>13. Contents' = Append(Contents, op[t].arg)
  BY <1>10, <1>11, <1>12, SeqEqual
<1> QED
  BY <1>0, <1>1, <1>13

\* Reading the slot at head and advancing head takes the oldest of the contents.
LEMMA TakeIsHead ==
  ASSUME TypeOK, TypeOK', RingInv, RingInv', NEW t \in Threads, remove_take(t)
  PROVE  /\ Contents # <<>>
         /\ Head(Contents) = queue.buffer[queue.head]
         /\ Contents' = Tail(Contents)
<1>0. /\ QUEUE_SIZE \in Nat \ {0}
      /\ queue.head \in 0..(QUEUE_SIZE - 1)
      /\ queue.tail \in 0..(QUEUE_SIZE - 1)
      /\ queue.full \in {0, 1} /\ queue.empty = 0
      /\ queue.head = queue.tail <=> queue.full = 1
  BY QueueAssumption DEF TypeOK, QueueType, RingInv, remove_take
<1>1. /\ Count \in 1..QUEUE_SIZE
      /\ Contents \in Seq(Items \cup {NoItem})
      /\ Len(Contents) = Count
  BY <1>0, ContentsType DEF ContentsOK
<1>2. /\ queue'.buffer = queue.buffer
      /\ queue'.tail = queue.tail
      /\ queue'.head = IF queue.head + 1 = QUEUE_SIZE THEN 0 ELSE queue.head + 1
      /\ queue'.full = 0
  <2>1. (queue.head + 1) % QUEUE_SIZE
        = IF queue.head + 1 = QUEUE_SIZE THEN 0 ELSE queue.head + 1
    BY <1>0, NextIndex
  <2> QED
    BY <2>1 DEF remove_take, TypeOK, QueueType
<1>3. Count' = Count - 1
  <2>1. CASE queue.full = 1
    BY <1>0, <1>2, <2>1 DEF Count
  <2>2. CASE queue.full = 0 /\ queue.head < queue.tail
    BY <1>0, <1>2, <2>2 DEF Count
  <2>3. CASE queue.full = 0 /\ queue.head > queue.tail
    BY <1>0, <1>2, <2>3 DEF Count
  <2> QED
    BY <1>0, <2>1, <2>2, <2>3
<1>4. \A k \in 1..(Count - 1) : Slot(k - 1)' = Slot(k)
  BY <1>0, <1>1, <1>2, SMTT(30) DEF Slot
<1>5. Slot(0) = queue.head
  BY <1>0 DEF Slot
<1>6. Contents' = [k \in 1..(Count - 1) |-> queue.buffer[Slot(k)]]
  BY <1>2, <1>3, <1>4 DEF Contents
<1>7. \A k \in 1..Count : Contents[k] = queue.buffer[Slot(k - 1)]
  BY DEF Contents
<1>8. Contents # <<>>
  BY <1>1, EmptySeq
<1>9. /\ Tail(Contents) \in Seq(Items \cup {NoItem})
      /\ Len(Tail(Contents)) = Count - 1
      /\ \A k \in 1..(Count - 1) : Tail(Contents)[k] = Contents[k + 1]
  BY <1>1, <1>8, HeadTailProperties
<1>10. Contents' \in Seq(Items \cup {NoItem}) /\ Len(Contents') = Count - 1
  <2>1. (TypeOK /\ RingInv => ContentsOK)'
    BY ContentsType, PTL
  <2> QED
    BY <1>3, <2>1 DEF ContentsOK
<1>11. \A k \in 1..(Count - 1) : Contents'[k] = Tail(Contents)[k]
  BY <1>0, <1>1, <1>6, <1>7, <1>9
<1>12. Contents' = Tail(Contents)
  BY <1>9, <1>10, <1>11, SeqEqual
<1>13. Head(Contents) = queue.buffer[queue.head]
  BY <1>1, <1>5, <1>7
<1> QED
  BY <1>8, <1>12, <1>13

\* A step of thread t shows no other thread's call changing.
LEMMA ClientFrame ==
  ASSUME TypeOK, TypeOK', NEW t \in Threads, Begin(t) \/ Continue(t)
  PROVE  Client' = [Client EXCEPT ![t] = Client'[t]]
<1> USE DEF TypeOK, OpType
<1>1. \A s \in Threads \ {t} : op'[s] = op[s]
  BY DEF Begin, Continue, queue_add, queue_remove, order_exit,
     set_exit_flag, bare_signal, notify_if_empty, producer_lock,
     producer_unlock, pthread_mutex_lock, add_refused, add_admitted,
     add_sleep, add_insert, add_signal, remove_take, remove_refused,
     remove_wait, remove_sleep, remove_signal, remove_exit, exit_set, notify
<1>2. \A s \in Threads \ {t} : Client'[s] = Client[s]
  BY <1>1 DEF Client, Call
<1> QED
  BY <1>2 DEF Client

\* A step that moves no item, gives no exit order and leaves thread t's call as
\* it was changes nothing the abstract queue shows.
LEMMA StutterStep ==
  ASSUME TypeOK, TypeOK', NEW t \in Threads, Begin(t) \/ Continue(t),
         ~ add_insert(t), ~ remove_take(t),
         queue'.exit_flag = queue.exit_flag, Client'[t] = Client[t]
  PROVE  UNCHANGED Abs!vars
<1>1. Client' = Client
  BY ClientFrame DEF Client
<1>2. Contents' = Contents
  BY RingFrame DEF Contents, Count, Slot
<1> QED
  BY <1>1, <1>2 DEF Abs!vars

\* Every step of every thread is a step of the abstract queue or stutters.
LEMMA StepImplements ==
  ASSUME TypeOK, TypeOK', RingInv, RingInv', NEW t \in Threads,
         Begin(t) \/ Continue(t)
  PROVE  Abs!Next \/ UNCHANGED Abs!vars
<1> USE DEF TypeOK, OpType
<1>0. Client' = [Client EXCEPT ![t] = Client'[t]]
  BY ClientFrame
<1>1. Client[t] = [call |-> Call(t), arg |-> op[t].arg,
                   item |-> op[t].item, ret |-> op[t].ret]
  BY DEF Client
<1>2. Client'[t] = [call |-> Call(t)', arg |-> op'[t].arg,
                    item |-> op'[t].item, ret |-> op'[t].ret]
  BY DEF Client
<1>3. ~ add_insert(t) /\ ~ remove_take(t) => Contents' = Contents
  BY RingFrame DEF Contents, Count, Slot
<1>4. CASE add_insert(t)
  <2>1. Call(t) = "add" /\ op'[t] = [op[t] EXCEPT !.pc = "add_signal", !.ret = 0]
    BY <1>4 DEF add_insert, Call
  <2>2. Client'[t] = [call |-> "none", arg |-> Client[t].arg,
                      item |-> Client[t].item, ret |-> 0]
    <3>1. /\ Call(t)' = "none" /\ op'[t].arg = op[t].arg
          /\ op'[t].item = op[t].item /\ op'[t].ret = 0
      BY <2>1 DEF Call
    <3> QED
      BY <1>1, <1>2, <3>1
  <2>3. queue'.exit_flag = queue.exit_flag
    BY <1>4 DEF add_insert, QueueType
  <2>4. Abs!Add(t)
    BY <1>0, <1>1, <1>4, <2>1, <2>2, <2>3, InsertAppends DEF Abs!Add, Abs!Return
  <2>6. Client'[t].call # Client[t].call
    BY <1>1, <2>1, <2>2
  <2> QED
    BY <2>4, <2>6 DEF Abs!Next
<1>5. CASE remove_take(t)
  <2>1. /\ Call(t) = "remove"
        /\ op'[t] = [op[t] EXCEPT !.pc = "remove_signal", !.ret = 0,
                                  !.item = queue.buffer[queue.head]]
    BY <1>5 DEF remove_take, Call
  <2>2. Client'[t] = [call |-> "none", arg |-> Client[t].arg,
                      item |-> queue.buffer[queue.head], ret |-> 0]
    <3>1. /\ Call(t)' = "none" /\ op'[t].arg = op[t].arg
          /\ op'[t].item = queue.buffer[queue.head] /\ op'[t].ret = 0
      BY <2>1 DEF Call
    <3> QED
      BY <1>1, <1>2, <3>1
  <2>3. queue'.exit_flag = queue.exit_flag
    BY <1>5 DEF remove_take, QueueType
  <2>4. /\ Contents # <<>> /\ Contents' = Tail(Contents)
        /\ Head(Contents) = queue.buffer[queue.head]
    BY <1>5, TakeIsHead
  <2>5. Abs!Remove(t)
    BY <1>0, <1>1, <2>1, <2>2, <2>3, <2>4 DEF Abs!Remove, Abs!Return
  <2>6. Client'[t].call # Client[t].call
    BY <1>1, <2>1, <2>2
  <2> QED
    BY <2>5, <2>6 DEF Abs!Next
<1>6. CASE add_refused(t)
  <2>1. Call(t) = "add" /\ op'[t] = [op[t] EXCEPT !.pc = "idle", !.ret = -1]
    BY <1>6 DEF add_refused, Call
  <2>2. Client'[t] = [call |-> "none", arg |-> Client[t].arg,
                      item |-> Client[t].item, ret |-> -1]
    <3>1. /\ Call(t)' = "none" /\ op'[t].arg = op[t].arg
          /\ op'[t].item = op[t].item /\ op'[t].ret = -1
      BY <2>1 DEF Call
    <3> QED
      BY <1>1, <1>2, <3>1
  <2>3. /\ queue.exit_flag = 1 /\ queue'.exit_flag = queue.exit_flag
        /\ ~ add_insert(t) /\ ~ remove_take(t)
    BY <1>6 DEF add_refused, add_insert, remove_take, QueueType
  <2>4. Abs!AddRefused(t)
    BY <1>0, <1>1, <1>3, <2>1, <2>2, <2>3 DEF Abs!AddRefused, Abs!Return
  <2>6. Client'[t].call # Client[t].call
    BY <1>1, <2>1, <2>2
  <2> QED
    BY <2>4, <2>6 DEF Abs!Next
<1>7. CASE remove_refused(t)
  <2>1. Call(t) = "remove" /\ op'[t] = [op[t] EXCEPT !.pc = "remove_exit", !.ret = -1]
    BY <1>7 DEF remove_refused, Call
  <2>2. Client'[t] = [call |-> "none", arg |-> Client[t].arg,
                      item |-> Client[t].item, ret |-> -1]
    <3>1. /\ Call(t)' = "none" /\ op'[t].arg = op[t].arg
          /\ op'[t].item = op[t].item /\ op'[t].ret = -1
      BY <2>1 DEF Call
    <3> QED
      BY <1>1, <1>2, <3>1
  <2>3. /\ queue.exit_flag = 1 /\ queue'.exit_flag = queue.exit_flag
        /\ queue.empty = 1
        /\ ~ add_insert(t) /\ ~ remove_take(t)
    BY <1>7 DEF remove_refused, add_insert, remove_take, QueueType
  <2>4. Contents = <<>>
    BY <2>3, ContentsType, EmptySeq DEF ContentsOK
  <2>5. Abs!RemoveRefused(t)
    BY <1>0, <1>1, <1>3, <2>1, <2>2, <2>3, <2>4 DEF Abs!RemoveRefused, Abs!Return
  <2>6. Client'[t].call # Client[t].call
    BY <1>1, <2>1, <2>2
  <2> QED
    BY <2>5, <2>6 DEF Abs!Next
<1>8. CASE exit_set(t) \/ set_exit_flag(t)
  <2>1. queue'.exit_flag = 1 /\ ~ add_insert(t) /\ ~ remove_take(t)
    BY <1>8 DEF exit_set, set_exit_flag, add_insert, remove_take, Idle, QueueType
  <2>2. Client'[t] = Client[t]
    BY <1>1, <1>2, <1>8 DEF exit_set, set_exit_flag, Call
  <2>3. Client' = Client
    BY <1>0, <2>2 DEF Client
  <2>4. Abs!OrderExit
    BY <1>3, <2>1, <2>3 DEF Abs!OrderExit
  <2> QED
    BY <2>4 DEF Abs!Next
<1>9. CASE \E i \in Items : queue_add(t, i)
  <2>1. PICK i \in Items : queue_add(t, i)
    BY <1>9
  <2>2. /\ Call(t) = "none"
        /\ op'[t] = [op[t] EXCEPT !.pc = "add_lock", !.arg = i]
    BY <2>1 DEF queue_add, Idle, Call
  <2>3. Client'[t] = [call |-> "add", arg |-> i,
                      item |-> Client[t].item, ret |-> Client[t].ret]
    <3>1. /\ Call(t)' = "add" /\ op'[t].arg = i
          /\ op'[t].item = op[t].item /\ op'[t].ret = op[t].ret
      BY <2>2 DEF Call
    <3> QED
      BY <1>1, <1>2, <3>1
  <2>4. UNCHANGED queue /\ ~ add_insert(t) /\ ~ remove_take(t)
    BY <2>1 DEF queue_add, Idle, add_insert, remove_take
  <2>5. Abs!CallAdd(t, i)
    BY <1>0, <1>1, <1>3, <2>2, <2>3, <2>4 DEF Abs!CallAdd
  <2>6. Client'[t].call # Client[t].call
    BY <1>1, <2>2, <2>3
  <2> QED
    BY <2>5, <2>6 DEF Abs!Next
<1>10. CASE queue_remove(t)
  <2>1. Call(t) = "none" /\ op'[t] = [op[t] EXCEPT !.pc = "remove_lock"]
    BY <1>10 DEF queue_remove, Idle, Call
  <2>2. Client'[t] = [Client[t] EXCEPT !.call = "remove"]
    BY <1>1, <1>2, <2>1 DEF Call
  <2>3. UNCHANGED queue /\ ~ add_insert(t) /\ ~ remove_take(t)
    BY <1>10 DEF queue_remove, Idle, add_insert, remove_take
  <2>4. Abs!CallRemove(t)
    BY <1>0, <1>1, <1>3, <2>1, <2>2, <2>3 DEF Abs!CallRemove
  <2>6. Client'[t].call # Client[t].call
    BY <1>1, <2>1, <2>2
  <2> QED
    BY <2>4, <2>6 DEF Abs!Next
<1>11. ASSUME queue'.exit_flag = queue.exit_flag, ~ add_insert(t), ~ remove_take(t),
              op' = op
       PROVE  UNCHANGED Abs!vars
  BY <1>1, <1>2, <1>11, StutterStep DEF Call
<1>12. CASE bare_signal(t) \/ producer_lock(t) \/ producer_unlock(t)
  <2>1. queue'.exit_flag = queue.exit_flag
    BY <1>12, SignalNotEmpty DEF bare_signal, producer_lock, producer_unlock, QueueType
  <2>2. op' = op /\ ~ add_insert(t) /\ ~ remove_take(t)
    BY <1>12 DEF bare_signal, producer_lock, producer_unlock, Idle, add_insert,
       remove_take
  <2> QED
    BY <1>11, <2>1, <2>2
<1>13. ASSUME queue'.exit_flag = queue.exit_flag, ~ add_insert(t), ~ remove_take(t),
              NEW l, op' = [op EXCEPT ![t].pc = l], Call(t)' = Call(t)
       PROVE  UNCHANGED Abs!vars
  BY <1>1, <1>2, <1>13, StutterStep
<1>14. CASE pthread_mutex_lock(t)
  <2>1. /\ queue'.exit_flag = queue.exit_flag
        /\ op[t].pc \in DOMAIN AfterLock
        /\ op' = [op EXCEPT ![t].pc = AfterLock[op[t].pc]]
    BY <1>14 DEF pthread_mutex_lock, QueueType
  <2>2. op'[t].pc = AfterLock[op[t].pc]
    BY <2>1
  <2>3. Call(t)' = Call(t)
    BY <2>1, <2>2 DEF AfterLock, Call
  <2>4. ~ add_insert(t) /\ ~ remove_take(t)
    BY <2>1 DEF add_insert, remove_take, AfterLock
  <2> QED
    BY <1>13, <2>1, <2>3, <2>4
<1>15. CASE order_exit(t) \/ notify_if_empty(t) \/ add_admitted(t) \/ remove_wait(t)
  BY <1>13, <1>15 DEF order_exit, notify_if_empty, add_admitted, remove_wait, Idle,
     Call, add_insert, remove_take
<1>16. CASE add_sleep(t)
  <2>1. queue'.exit_flag = queue.exit_flag
    BY <1>16 DEF add_sleep, QueueType
  <2>2. /\ op' = [op EXCEPT ![t].pc = "add_sleep"] /\ Call(t)' = Call(t)
        /\ ~ remove_take(t)
    BY <1>16 DEF add_sleep, Call, remove_take
  <2>3. ~ add_insert(t)
    BY <1>16 DEF add_sleep, add_insert
  <2> QED
    BY <1>13, <2>1, <2>2, <2>3
<1>17. CASE remove_sleep(t)
  <2>1. queue'.exit_flag = queue.exit_flag
    BY <1>17 DEF remove_sleep, QueueType
  <2>2. /\ op' = [op EXCEPT ![t].pc = "remove_sleep"] /\ Call(t)' = Call(t)
        /\ ~ remove_take(t) /\ ~ add_insert(t)
    BY <1>17 DEF remove_sleep, Call, remove_take, add_insert
  <2> QED
    BY <1>13, <2>1, <2>2
<1>18. CASE add_signal(t) \/ remove_signal(t) \/ remove_exit(t) \/ notify(t)
  <2>1. queue'.exit_flag = queue.exit_flag
    BY <1>18, SignalNotEmpty, SignalNotFull
       DEF add_signal, remove_signal, remove_exit, notify, QueueType
  <2>2. op' = [op EXCEPT ![t].pc = "idle"]
    BY <1>18 DEF add_signal, remove_signal, remove_exit, notify
  <2>3. op[t].pc \in {"add_signal", "remove_signal", "remove_exit", "notify"}
    BY <1>18 DEF add_signal, remove_signal, remove_exit, notify
  <2>4. Call(t)' = Call(t) /\ ~ add_insert(t) /\ ~ remove_take(t)
    BY <2>2, <2>3 DEF Call, add_insert, remove_take
  <2> QED
    BY <1>13, <2>1, <2>2, <2>4
<1> QED
  BY <1>4, <1>5, <1>6, <1>7, <1>8, <1>9, <1>10, <1>12, <1>14, <1>15, <1>16,
     <1>17, <1>18 DEF Begin, Continue

\* queue_add and queue_remove on the ring implement the one-step add and remove
\* of a bounded FIFO with exit order, for any number of threads and any
\* QUEUE_SIZE: no item is lost, duplicated, overwritten or reordered.
THEOREM QueueImplements == Spec => ImplementsBoundedQueue
<1>1. Init => Abs!Init
  <2> SUFFICES ASSUME Init PROVE Abs!Init
    OBVIOUS
  <2>1. Count = 0
    BY QueueAssumption DEF Init, Count
  <2>2. Contents = <<>>
    BY <2>1 DEF Contents
  <2>3. Client = [t \in Threads |->
                   [call |-> "none", arg |-> NoItem, item |-> NoItem, ret |-> 0]]
    BY DEF Init, Client, Call
  <2>4. queue.exit_flag = 0
    BY DEF Init
  <2> QED
    BY <2>2, <2>3, <2>4 DEF Abs!Init
<1>2. TypeOK /\ TypeOK' /\ RingInv /\ RingInv' /\ [Next]_vars => [Abs!Next]_Abs!vars
  <2> SUFFICES ASSUME TypeOK, TypeOK', RingInv, RingInv', [Next]_vars
               PROVE  Abs!Next \/ UNCHANGED Abs!vars
    OBVIOUS
  <2>1. ASSUME NEW t \in Threads, Begin(t) \/ Continue(t)
        PROVE  Abs!Next \/ UNCHANGED Abs!vars
    BY <2>1, StepImplements
  <2>2. ASSUME NEW t \in Threads, SpuriousWakeup(t) PROVE UNCHANGED Abs!vars
    <3>1. /\ queue'.buffer = queue.buffer
          /\ queue'.head = queue.head
          /\ queue'.tail = queue.tail
          /\ queue'.full = queue.full
      BY <2>2 DEF SpuriousWakeup, TypeOK, QueueType
    <3>2. Contents' = Contents
      BY <3>1 DEF Contents, Count, Slot
    <3>3. Client' = Client
      BY <2>2 DEF SpuriousWakeup, Client, Call
    <3>4. queue'.exit_flag = queue.exit_flag
      BY <2>2 DEF SpuriousWakeup, TypeOK, QueueType
    <3> QED
      BY <3>2, <3>3, <3>4 DEF Abs!vars
  <2>3. CASE UNCHANGED vars
    BY <2>3 DEF vars, Abs!vars, Contents, Count, Slot, Client, Call
  <2> QED
    BY <2>1, <2>2, <2>3 DEF Next
<1> QED
  BY <1>1, <1>2, TypeCorrect, RingCorrect, PTL
     DEF Spec, ImplementsBoundedQueue, Abs!Spec
=============================================================================
