------------------------- MODULE PCQueueWakeupProofs -------------------------
(***************************************************************************)
(* No wakeup is lost: proofs of NoStrandedItem and NoStrandedSlot, and of  *)
(* ItemsWritten, for any number of threads and any QUEUE_SIZE.             *)
(***************************************************************************)
EXTENDS PCQueueProofs, FiniteSetTheorems

-----------------------------------------------------------------------------
(* Counting threads.                                                       *)

\* Every set of threads has a number of elements.
LEMMA ThreadCount ==
  ASSUME NEW S \in SUBSET Threads
  PROVE  IsFiniteSet(S) /\ Cardinality(S) \in Nat
BY QueueAssumption, FS_Subset, FS_CardinalityType

\* A set of threads that keeps its elements does not shrink.
LEMMA CountKeep ==
  ASSUME NEW S \in SUBSET Threads, NEW T \in SUBSET Threads, S \subseteq T
  PROVE  Cardinality(S) <= Cardinality(T)
BY ThreadCount, FS_Subset

\* One that keeps its elements and gets a new one grows.
LEMMA CountGain ==
  ASSUME NEW S \in SUBSET Threads, NEW T \in SUBSET Threads,
         NEW x \in Threads \ S, S \cup {x} \subseteq T
  PROVE  Cardinality(S) + 1 <= Cardinality(T)
<1>1. S \cup {x} \in SUBSET Threads
  OBVIOUS
<1>2. Cardinality(S \cup {x}) = Cardinality(S) + 1
  BY ThreadCount, FS_AddElement
<1> QED
  BY <1>1, <1>2, CountKeep

\* One that loses at most one element shrinks by at most one.
LEMMA CountLose ==
  ASSUME NEW S \in SUBSET Threads, NEW T \in SUBSET Threads, NEW x,
         S \ {x} \subseteq T
  PROVE  Cardinality(S) <= Cardinality(T) + 1
<1>1. S \ {x} \in SUBSET Threads
  OBVIOUS
<1>2. /\ Cardinality(S \ {x}) \in Nat /\ Cardinality(S) \in Nat
      /\ Cardinality(T) \in Nat
  BY <1>1, ThreadCount
<1>3. Cardinality(S) <= Cardinality(S \ {x}) + 1
  BY <1>2, ThreadCount, FS_RemoveElement
<1>4. Cardinality(S \ {x}) <= Cardinality(T)
  BY <1>1, CountKeep
<1> QED
  BY <1>2, <1>3, <1>4

-----------------------------------------------------------------------------
(* What a step changes for the other threads, and in the ring.             *)

\* A step of thread t leaves the other threads where they are.
LEMMA OpFrame ==
  ASSUME TypeOK, NEW t \in Threads, Begin(t) \/ Continue(t)
  PROVE  \A s \in Threads \ {t} : op'[s] = op[s]
BY DEF TypeOK, Begin, Continue, queue_add, queue_remove, order_exit,
   set_exit_flag, bare_signal, notify_if_empty, producer_lock,
   producer_unlock, pthread_mutex_lock, add_refused, add_admitted,
   add_sleep, add_insert, add_signal, remove_take, remove_refused,
   remove_wait, remove_sleep, remove_signal, remove_exit, exit_set, notify

\* Only add_insert and remove_take change the number of items, by one.
LEMMA CountStep ==
  ASSUME TypeOK, TypeOK', RingInv, RingInv', NEW t \in Threads,
         Begin(t) \/ Continue(t) \/ SpuriousWakeup(t)
  PROVE  /\ Count \in 0..QUEUE_SIZE /\ Count' \in 0..QUEUE_SIZE
         /\ add_insert(t) => Count' = Count + 1
         /\ remove_take(t) => Count' = Count - 1
         /\ ~ add_insert(t) /\ ~ remove_take(t) => Count' = Count
<1>0. ContentsOK
  BY ContentsType
<1>1. ContentsOK /\ ContentsOK'
  BY <1>0, ContentsType, PTL
<1>2. ASSUME add_insert(t) PROVE Count' = Count + 1
  <2>1. Contents' = Append(Contents, op[t].arg)
    BY <1>2, InsertAppends
  <2>2. Len(Contents') = Len(Contents) + 1
    BY <1>1, <2>1 DEF ContentsOK
  <2> QED
    BY <1>1, <2>2 DEF ContentsOK
<1>3. ASSUME remove_take(t) PROVE Count' = Count - 1
  <2>1. Contents # <<>> /\ Contents' = Tail(Contents)
    BY <1>3, TakeIsHead
  <2>2. Len(Contents') = Len(Contents) - 1
    BY <1>1, <2>1 DEF ContentsOK
  <2> QED
    BY <1>1, <2>2 DEF ContentsOK
<1>4. ASSUME ~ add_insert(t), ~ remove_take(t) PROVE Count' = Count
  BY <1>4, RingFrame DEF Count
<1> QED
  BY <1>1, <1>2, <1>3, <1>4 DEF ContentsOK

\* Only remove_sleep adds a sleeper to not_empty, only add_sleep to not_full.
LEMMA SleeperFrame ==
  ASSUME TypeOK, NEW t \in Threads, Begin(t) \/ Continue(t)
  PROVE  /\ ~ remove_sleep(t) => queue'.not_empty \subseteq queue.not_empty
         /\ ~ add_sleep(t) => queue'.not_full \subseteq queue.not_full
<1> USE DEF TypeOK, QueueType
<1>1. CASE signal_not_empty
  BY <1>1, SignalNotEmpty
<1>2. CASE signal_not_full
  BY <1>2, SignalNotFull
<1>3. CASE notify(t)
  BY <1>3, NotifyWakes
<1>4. CASE Begin(t)
  BY <1>1, <1>4 DEF Begin, queue_add, queue_remove, order_exit, set_exit_flag,
     bare_signal, notify_if_empty, producer_lock, producer_unlock
<1>5. CASE pthread_mutex_lock(t) \/ add_refused(t) \/ add_admitted(t)
           \/ remove_refused(t) \/ remove_wait(t) \/ exit_set(t)
  BY <1>5 DEF pthread_mutex_lock, add_refused, add_admitted, remove_refused,
     remove_wait, exit_set
<1>6. CASE add_insert(t)
  BY <1>6 DEF add_insert
<1>7. CASE remove_take(t)
  BY <1>7 DEF remove_take
<1>8. CASE add_sleep(t)
  BY <1>8 DEF add_sleep
<1>9. CASE remove_sleep(t)
  BY <1>9 DEF remove_sleep
<1>10. CASE add_signal(t) \/ remove_signal(t) \/ remove_exit(t)
  BY <1>1, <1>2, <1>10 DEF add_signal, remove_signal, remove_exit
<1> QED
  BY <1>3, <1>4, <1>5, <1>6, <1>7, <1>8, <1>9, <1>10 DEF Continue

\* A signal to a condition that has sleepers wakes one of them.
LEMMA SignalWakes ==
  ASSUME TypeOK
  PROVE  /\ signal_not_empty /\ queue.not_empty # {} =>
              \E w \in queue.not_empty : queue'.not_empty = queue.not_empty \ {w}
         /\ signal_not_full /\ queue.not_full # {} =>
              \E w \in queue.not_full : queue'.not_full = queue.not_full \ {w}
<1>1. ASSUME signal_not_empty, queue.not_empty # {}
      PROVE  \E w \in queue.not_empty : queue'.not_empty = queue.not_empty \ {w}
  <2>1. PICK S \in WakeOne(queue.not_empty) : queue' = [queue EXCEPT !.not_empty = S]
    BY <1>1 DEF signal_not_empty
  <2>2. queue'.not_empty = S
    BY <2>1 DEF TypeOK, QueueType
  <2> QED
    BY <1>1, <2>1, <2>2 DEF WakeOne
<1>2. ASSUME signal_not_full, queue.not_full # {}
      PROVE  \E w \in queue.not_full : queue'.not_full = queue.not_full \ {w}
  <2>1. PICK S \in WakeOne(queue.not_full) : queue' = [queue EXCEPT !.not_full = S]
    BY <1>2 DEF signal_not_full
  <2>2. queue'.not_full = S
    BY <2>1 DEF TypeOK, QueueType
  <2> QED
    BY <1>2, <2>1, <2>2 DEF WakeOne
<1> QED
  BY <1>1, <1>2

-----------------------------------------------------------------------------
(* not_empty                                                               *)

\* A consumer that has decided to wait holds the mutex, so the queue is still
\* empty when it falls asleep.
WaitIsEmpty == \A t \in Threads : op[t].pc = "remove_wait" => queue.empty = 1

\* WaitIsEmpty is an invariant of PCQueue.
LEMMA WaitCorrect == Spec => []WaitIsEmpty
<1>1. Init => WaitIsEmpty
  BY DEF Init, WaitIsEmpty
<1>2. TypeOK /\ MutualExclusion /\ WaitIsEmpty /\ [Next]_vars => WaitIsEmpty'
  <2> SUFFICES ASSUME TypeOK, MutualExclusion, WaitIsEmpty, [Next]_vars,
                      NEW s \in Threads, op'[s].pc = "remove_wait"
               PROVE  queue'.empty = 1
    BY DEF WaitIsEmpty
  <2>1. ASSUME NEW t \in Threads, Begin(t) \/ Continue(t) PROVE queue'.empty = 1
    <3>1. CASE remove_wait(t)
      BY <3>1 DEF remove_wait
    <3>2. CASE s = t /\ ~ remove_wait(t)
      <4>1. op'[t].pc # "remove_wait"
        <5>1. CASE Begin(t)
          <6>1. op[t].pc = "idle"
            BY <5>1 DEF Begin, queue_add, queue_remove, order_exit,
               set_exit_flag, bare_signal, notify_if_empty, producer_lock,
               producer_unlock, Idle
          <6>2. CASE \E i \in Items : queue_add(t, i)
            BY <6>2 DEF queue_add, TypeOK, OpType
          <6>3. CASE ~ \E i \in Items : queue_add(t, i)
            BY <5>1, <6>1, <6>3 DEF Begin, queue_remove, order_exit,
               set_exit_flag, bare_signal, notify_if_empty, producer_lock,
               producer_unlock, TypeOK, OpType
          <6> QED
            BY <6>2, <6>3
        <5>2. CASE pthread_mutex_lock(t)
          BY <5>2 DEF pthread_mutex_lock, AfterLock, TypeOK, OpType
        <5>3. CASE add_admitted(t) \/ add_sleep(t) \/ remove_sleep(t) \/ exit_set(t)
          BY <5>3 DEF add_admitted, add_sleep, remove_sleep, exit_set, TypeOK, OpType
        <5>4. CASE add_insert(t)
          BY <5>4 DEF add_insert, TypeOK, OpType
        <5>5. CASE remove_take(t)
          BY <5>5 DEF remove_take, TypeOK, OpType
        <5>6. CASE add_refused(t)
          BY <5>6 DEF add_refused, TypeOK, OpType
        <5>8. CASE remove_refused(t)
          BY <5>8 DEF remove_refused, TypeOK, OpType
        <5>7. CASE add_signal(t) \/ remove_signal(t) \/ remove_exit(t) \/ notify(t)
          BY <5>7 DEF add_signal, remove_signal, remove_exit, notify, TypeOK, OpType
        <5> QED
          BY <2>1, <3>2, <5>1, <5>2, <5>3, <5>4, <5>5, <5>6, <5>7, <5>8
             DEF Continue
      <4> QED
        BY <3>2, <4>1
    <3>3. CASE s # t
      <4>1. op[s].pc = "remove_wait"
        BY <2>1, <3>3, OpFrame
      <4>2. queue.mut = s /\ queue.empty = 1
        BY <4>1 DEF MutualExclusion, WaitIsEmpty, Critical
      <4>3. op[t].pc \notin Critical
        BY <3>3, <4>2 DEF MutualExclusion
      <4>4. ~ add_insert(t) /\ ~ remove_take(t)
        BY <4>3 DEF add_insert, remove_take, Critical
      <4> QED
        BY <2>1, <4>2, <4>4, RingFrame
    <3> QED
      BY <3>1, <3>2, <3>3
  <2>2. ASSUME NEW t \in Threads, SpuriousWakeup(t) PROVE queue'.empty = 1
    BY <2>2 DEF SpuriousWakeup, WaitIsEmpty, TypeOK, QueueType
  <2>3. CASE UNCHANGED vars
    BY <2>3 DEF vars, WaitIsEmpty
  <2> QED
    BY <2>1, <2>2, <2>3 DEF Next
<1> QED
  BY <1>1, <1>2, TypeCorrect, MutexCorrect, PTL DEF Spec

\* While a consumer sleeps, the items in the queue are covered by signals on
\* their way and by consumers that are up, for any number of threads.
THEOREM NoItemStranded == Spec => []NoStrandedItem
<1>1. Init => NoStrandedItem
  BY DEF Init, NoStrandedItem
<1>2. TypeOK /\ TypeOK' /\ RingInv /\ RingInv' /\ MutualExclusion /\ WaitIsEmpty
      /\ NoStrandedItem /\ [Next]_vars => NoStrandedItem'
  <2> SUFFICES ASSUME TypeOK, TypeOK', RingInv, RingInv', MutualExclusion,
                      WaitIsEmpty, NoStrandedItem, [Next]_vars,
                      queue'.not_empty # {}
               PROVE  Count' <= Cardinality(At("add_signal"))'
                        + Cardinality(Up(queue.not_empty, "remove_loop", "remove_sleep"))'
    BY DEF NoStrandedItem
  <2> DEFINE A == At("add_signal")
             B == Up(queue.not_empty, "remove_loop", "remove_sleep")
             Goal == Count' <= Cardinality(A') + Cardinality(B')
  <2>1. A \in SUBSET Threads /\ A' \in SUBSET Threads
        /\ B \in SUBSET Threads /\ B' \in SUBSET Threads
    BY DEF At, Up
  <2>2. Cardinality(A) \in Nat /\ Cardinality(A') \in Nat
        /\ Cardinality(B) \in Nat /\ Cardinality(B') \in Nat
    BY <2>1, ThreadCount
  <2>3. queue.not_empty # {} => Count <= Cardinality(A) + Cardinality(B)
    BY DEF NoStrandedItem
  <2> HIDE DEF A, B
  <2>4. ASSUME NEW t \in Threads, Begin(t) \/ Continue(t) PROVE Goal
    <3>1. /\ Count \in 0..QUEUE_SIZE /\ Count' \in 0..QUEUE_SIZE
          /\ add_insert(t) => Count' = Count + 1
          /\ remove_take(t) => Count' = Count - 1
          /\ ~ add_insert(t) /\ ~ remove_take(t) => Count' = Count
      BY <2>4, CountStep
    <3>2. A \ {t} \subseteq A'
      BY <2>4, OpFrame DEF A, At
    <3>3. ASSUME queue'.not_empty \subseteq queue.not_empty
          PROVE  /\ B \ {t} \subseteq B'
                 /\ Count <= Cardinality(A) + Cardinality(B)
      BY <2>3, <2>4, <3>3, OpFrame DEF B, At, Up
    <3>4. ASSUME queue.empty = 1, ~ add_insert(t), ~ remove_take(t) PROVE Goal
      <4>1. Count = 0
        BY <3>4, ContentsType DEF ContentsOK
      <4> QED
        BY <2>2, <3>1, <3>4, <4>1
    <3>5. CASE remove_sleep(t) \/ remove_wait(t) \/ remove_refused(t)
      <4>1. queue.empty = 1
        BY <3>5 DEF remove_sleep, remove_wait, remove_refused, WaitIsEmpty
      <4>2. ~ add_insert(t) /\ ~ remove_take(t)
        BY <3>5, <4>1 DEF remove_sleep, remove_wait, remove_refused, add_insert,
           remove_take
      <4> QED
        BY <3>4, <4>1, <4>2
    <3>6. CASE add_insert(t)
      <4>1. t \notin A /\ t \notin B /\ t \in A'
        BY <3>6 DEF A, B, At, Up, add_insert, TypeOK, OpType
      <4>2. queue'.not_empty \subseteq queue.not_empty
        BY <2>4, <3>6, SleeperFrame DEF add_insert, remove_sleep
      <4>3. Cardinality(A) + 1 <= Cardinality(A')
        BY <2>1, <3>2, <4>1, CountGain
      <4>4. Cardinality(B) <= Cardinality(B')
        BY <2>1, <3>3, <4>1, <4>2, CountKeep
      <4> QED
        BY <2>2, <3>1, <3>3, <3>6, <4>2, <4>3, <4>4
    <3>7. CASE remove_take(t)
      <4>1. t \notin A
        BY <3>7 DEF A, At, remove_take
      <4>2. queue'.not_empty \subseteq queue.not_empty
        BY <2>4, <3>7, SleeperFrame DEF remove_take, remove_sleep
      <4>3. Cardinality(A) <= Cardinality(A')
        BY <2>1, <3>2, <4>1, CountKeep
      <4>4. Cardinality(B) <= Cardinality(B') + 1
        BY <2>1, <3>3, <4>2, CountLose
      <4> QED
        BY <2>2, <3>1, <3>3, <3>7, <4>2, <4>3, <4>4
    <3>8. CASE add_signal(t)
      <4>1. queue'.not_empty \subseteq queue.not_empty
        BY <2>4, <3>8, SleeperFrame DEF add_signal, remove_sleep
      <4>2. PICK w \in queue.not_empty : queue'.not_empty = queue.not_empty \ {w}
        BY <3>8, <4>1, SignalWakes DEF add_signal
      <4>3. op[w].pc = "remove_sleep" /\ w \in Threads /\ w # t
        BY <3>8, <4>2 DEF MutualExclusion, TypeOK, QueueType, add_signal
      <4>4. op'[w].pc = "remove_sleep"
        BY <2>4, <4>3, OpFrame
      <4>5. w \notin B /\ t \notin B /\ w \in B'
        BY <3>8, <4>2, <4>3, <4>4 DEF B, At, Up, add_signal
      <4>6. Cardinality(A) <= Cardinality(A') + 1
        BY <2>1, <3>2, CountLose
      <4>7. Cardinality(B) + 1 <= Cardinality(B')
        BY <2>1, <3>3, <4>1, <4>3, <4>5, CountGain
      <4>8. ~ add_insert(t) /\ ~ remove_take(t)
        BY <3>8 DEF add_signal, add_insert, remove_take
      <4> QED
        BY <2>2, <3>1, <3>3, <4>1, <4>6, <4>7, <4>8
    <3>9. CASE Begin(t) \/ pthread_mutex_lock(t) \/ add_refused(t) \/ add_admitted(t)
               \/ add_sleep(t) \/ remove_signal(t) \/ remove_exit(t) \/ exit_set(t)
               \/ notify(t)
      <4>1. op[t].pc \notin {"add_signal", "remove_loop", "remove_wait"}
            /\ ~ add_insert(t) /\ ~ remove_take(t) /\ ~ remove_sleep(t)
        <5>1. CASE Begin(t)
          <6>1. op[t].pc = "idle"
            BY <5>1 DEF Begin, queue_add, queue_remove, order_exit,
               set_exit_flag, bare_signal, notify_if_empty, producer_lock,
               producer_unlock, Idle
          <6> QED
            BY <6>1 DEF add_insert, remove_take, remove_sleep
        <5>2. CASE pthread_mutex_lock(t)
          BY <5>2 DEF pthread_mutex_lock, AfterLock, add_insert, remove_take, remove_sleep
        <5>3. CASE add_sleep(t)
          BY <5>3 DEF add_sleep, add_insert, remove_take, remove_sleep
        <5>4. CASE add_refused(t) \/ add_admitted(t) \/ remove_signal(t)
                   \/ remove_exit(t) \/ exit_set(t) \/ notify(t)
          BY <5>4 DEF add_refused, add_admitted, remove_signal, remove_exit, exit_set,
             notify, add_insert, remove_take, remove_sleep
        <5> QED
          BY <3>9, <5>1, <5>2, <5>3, <5>4
      <4>2. queue'.not_empty \subseteq queue.not_empty
        BY <2>4, <4>1, SleeperFrame
      <4>3. t \notin A
        BY <4>1 DEF A, At
      <4>4. t \in B => t \in B'
        <5> SUFFICES ASSUME t \in B PROVE t \in B'
          OBVIOUS
        <5>1. op[t].pc = "remove_sleep" /\ t \notin queue.not_empty
          BY <4>1 DEF B, At, Up
        <5>2. pthread_mutex_lock(t)
          <6>1. ~ Begin(t)
            BY <5>1 DEF Begin, queue_add, queue_remove, order_exit,
               set_exit_flag, bare_signal, notify_if_empty, producer_lock,
               producer_unlock, Idle
          <6> QED
            BY <3>9, <5>1, <6>1 DEF add_refused, add_admitted, add_sleep,
               remove_signal, remove_exit, exit_set, notify
        <5>3. op'[t].pc = "remove_loop"
          BY <5>1, <5>2 DEF pthread_mutex_lock, AfterLock, TypeOK, OpType
        <5> QED
          BY <5>3 DEF B, At, Up
      <4>5. Cardinality(A) <= Cardinality(A') /\ Cardinality(B) <= Cardinality(B')
        BY <2>1, <3>2, <3>3, <4>2, <4>3, <4>4, CountKeep
      <4> QED
        BY <2>2, <3>1, <3>3, <4>1, <4>2, <4>5
    <3> QED
      BY <2>4, <3>5, <3>6, <3>7, <3>8, <3>9 DEF Continue
  <2>5. ASSUME NEW t \in Threads, SpuriousWakeup(t) PROVE Goal
    <3>1. Count' = Count /\ Count \in 0..QUEUE_SIZE
      <4>1. ~ add_insert(t) /\ ~ remove_take(t)
        BY <2>5 DEF SpuriousWakeup, MutualExclusion, add_insert, remove_take
      <4> QED
        BY <2>5, <4>1, CountStep
    <3>2. queue'.not_empty = queue.not_empty \ {t} /\ op' = op
      BY <2>5 DEF SpuriousWakeup, TypeOK, QueueType
    <3>3. A \subseteq A' /\ B \subseteq B'
      BY <3>2 DEF A, B, At, Up
    <3>4. Cardinality(A) <= Cardinality(A') /\ Cardinality(B) <= Cardinality(B')
      BY <2>1, <3>3, CountKeep
    <3> QED
      BY <2>2, <2>3, <3>1, <3>2, <3>4
  <2>6. CASE UNCHANGED vars
    BY <2>3, <2>6 DEF vars, A, B, At, Up, Count
  <2> QED
    BY <2>4, <2>5, <2>6 DEF Next, A, B
<1> QED
  BY <1>1, <1>2, TypeCorrect, RingCorrect, MutexCorrect, WaitCorrect, PTL DEF Spec

-----------------------------------------------------------------------------
(* not_full                                                                *)

\* While a producer sleeps, the free slots are covered by signals on their way
\* and by producers that are up, for any number of threads.
THEOREM NoSlotStranded == Spec => []NoStrandedSlot
<1>1. Init => NoStrandedSlot
  BY DEF Init, NoStrandedSlot
<1>2. TypeOK /\ TypeOK' /\ RingInv /\ RingInv' /\ MutualExclusion
      /\ NoStrandedSlot /\ [Next]_vars => NoStrandedSlot'
  <2> SUFFICES ASSUME TypeOK, TypeOK', RingInv, RingInv', MutualExclusion,
                      NoStrandedSlot, [Next]_vars, queue'.not_full # {}
               PROVE  QUEUE_SIZE - Count'
                        <= Cardinality(At("remove_signal"))'
                           + Cardinality(Up(queue.not_full, "add_loop", "add_sleep"))'
    BY DEF NoStrandedSlot
  <2> DEFINE A == At("remove_signal")
             B == Up(queue.not_full, "add_loop", "add_sleep")
             Goal == QUEUE_SIZE - Count' <= Cardinality(A') + Cardinality(B')
  <2>1. A \in SUBSET Threads /\ A' \in SUBSET Threads
        /\ B \in SUBSET Threads /\ B' \in SUBSET Threads
    BY DEF At, Up
  <2>2. Cardinality(A) \in Nat /\ Cardinality(A') \in Nat
        /\ Cardinality(B) \in Nat /\ Cardinality(B') \in Nat /\ QUEUE_SIZE \in Nat
    BY <2>1, ThreadCount, QueueAssumption
  <2>3. queue.not_full # {} => QUEUE_SIZE - Count <= Cardinality(A) + Cardinality(B)
    BY DEF NoStrandedSlot
  <2> HIDE DEF A, B
  <2>4. ASSUME NEW t \in Threads, Begin(t) \/ Continue(t) PROVE Goal
    <3>1. /\ Count \in 0..QUEUE_SIZE /\ Count' \in 0..QUEUE_SIZE
          /\ add_insert(t) => Count' = Count + 1
          /\ remove_take(t) => Count' = Count - 1
          /\ ~ add_insert(t) /\ ~ remove_take(t) => Count' = Count
      BY <2>4, CountStep
    <3>2. A \ {t} \subseteq A'
      BY <2>4, OpFrame DEF A, At
    <3>3. ASSUME queue'.not_full \subseteq queue.not_full
          PROVE  /\ B \ {t} \subseteq B'
                 /\ QUEUE_SIZE - Count <= Cardinality(A) + Cardinality(B)
      BY <2>3, <2>4, <3>3, OpFrame DEF B, At, Up
    <3>4. CASE add_sleep(t)
      <4>1. queue.full = 1 /\ ~ add_insert(t) /\ ~ remove_take(t)
        BY <3>4 DEF add_sleep, add_insert, remove_take
      <4>2. Count = QUEUE_SIZE
        BY <4>1, ContentsType DEF ContentsOK
      <4> QED
        BY <2>2, <3>1, <4>1, <4>2
    <3>5. CASE add_insert(t)
      <4>1. t \notin A /\ ~ add_sleep(t)
        BY <3>5 DEF A, At, add_insert, add_sleep
      <4>2. queue'.not_full \subseteq queue.not_full
        BY <2>4, <4>1, SleeperFrame
      <4>3. Cardinality(A) <= Cardinality(A')
        BY <2>1, <3>2, <4>1, CountKeep
      <4>4. Cardinality(B) <= Cardinality(B') + 1
        BY <2>1, <3>3, <4>2, CountLose
      <4> QED
        BY <2>2, <3>1, <3>3, <3>5, <4>2, <4>3, <4>4
    <3>6. CASE remove_take(t)
      <4>1. t \notin A /\ t \notin B /\ t \in A'
        BY <3>6 DEF A, B, At, Up, remove_take, TypeOK, OpType
      <4>2. queue'.not_full \subseteq queue.not_full
        BY <2>4, <3>6, SleeperFrame DEF remove_take, add_sleep
      <4>3. Cardinality(A) + 1 <= Cardinality(A')
        BY <2>1, <3>2, <4>1, CountGain
      <4>4. Cardinality(B) <= Cardinality(B')
        BY <2>1, <3>3, <4>1, <4>2, CountKeep
      <4> QED
        BY <2>2, <3>1, <3>3, <3>6, <4>2, <4>3, <4>4
    <3>7. CASE remove_signal(t)
      <4>1. queue'.not_full \subseteq queue.not_full
        BY <2>4, <3>7, SleeperFrame DEF remove_signal, add_sleep
      <4>2. PICK w \in queue.not_full : queue'.not_full = queue.not_full \ {w}
        BY <3>7, <4>1, SignalWakes DEF remove_signal
      <4>3. op[w].pc = "add_sleep" /\ w \in Threads /\ w # t
        BY <3>7, <4>2 DEF MutualExclusion, TypeOK, QueueType, remove_signal
      <4>4. op'[w].pc = "add_sleep"
        BY <2>4, <4>3, OpFrame
      <4>5. w \notin B /\ t \notin B /\ w \in B'
        BY <3>7, <4>2, <4>3, <4>4 DEF B, At, Up, remove_signal
      <4>6. Cardinality(A) <= Cardinality(A') + 1
        BY <2>1, <3>2, CountLose
      <4>7. Cardinality(B) + 1 <= Cardinality(B')
        BY <2>1, <3>3, <4>1, <4>3, <4>5, CountGain
      <4>8. ~ add_insert(t) /\ ~ remove_take(t)
        BY <3>7 DEF remove_signal, add_insert, remove_take
      <4> QED
        BY <2>2, <3>1, <3>3, <4>1, <4>6, <4>7, <4>8
    <3>8. CASE Begin(t) \/ pthread_mutex_lock(t) \/ add_refused(t) \/ add_admitted(t)
               \/ add_signal(t) \/ remove_refused(t) \/ remove_wait(t)
               \/ remove_sleep(t) \/ remove_exit(t) \/ exit_set(t) \/ notify(t)
      <4>1. op[t].pc \notin {"remove_signal", "add_loop"}
            /\ ~ add_insert(t) /\ ~ remove_take(t) /\ ~ add_sleep(t)
        <5>1. CASE Begin(t)
          <6>1. op[t].pc = "idle"
            BY <5>1 DEF Begin, queue_add, queue_remove, order_exit,
               set_exit_flag, bare_signal, notify_if_empty, producer_lock,
               producer_unlock, Idle
          <6> QED
            BY <6>1 DEF add_insert, remove_take, add_sleep
        <5>2. CASE pthread_mutex_lock(t)
          BY <5>2 DEF pthread_mutex_lock, AfterLock, add_insert, remove_take, add_sleep
        <5>3. CASE remove_refused(t) \/ remove_wait(t)
          BY <5>3 DEF remove_refused, remove_wait, add_insert, remove_take, add_sleep
        <5>4. CASE add_refused(t) \/ add_admitted(t) \/ add_signal(t)
                   \/ remove_sleep(t) \/ remove_exit(t) \/ exit_set(t) \/ notify(t)
          BY <5>4 DEF add_refused, add_admitted, add_signal, remove_sleep,
             remove_exit, exit_set, notify, add_insert, remove_take, add_sleep
        <5> QED
          BY <3>8, <5>1, <5>2, <5>3, <5>4
      <4>2. queue'.not_full \subseteq queue.not_full
        BY <2>4, <4>1, SleeperFrame
      <4>3. t \notin A
        BY <4>1 DEF A, At
      <4>4. t \in B => t \in B'
        <5> SUFFICES ASSUME t \in B PROVE t \in B'
          OBVIOUS
        <5>1. op[t].pc = "add_sleep" /\ t \notin queue.not_full
          BY <4>1 DEF B, At, Up
        <5>2. pthread_mutex_lock(t)
          <6>1. ~ Begin(t)
            BY <5>1 DEF Begin, queue_add, queue_remove, order_exit,
               set_exit_flag, bare_signal, notify_if_empty, producer_lock,
               producer_unlock, Idle
          <6> QED
            BY <3>8, <5>1, <6>1 DEF add_refused, add_admitted, add_signal,
               remove_refused, remove_wait, remove_sleep, remove_exit, exit_set, notify
        <5>3. op'[t].pc = "add_loop"
          BY <5>1, <5>2 DEF pthread_mutex_lock, AfterLock, TypeOK, OpType
        <5> QED
          BY <5>3 DEF B, At, Up
      <4>5. Cardinality(A) <= Cardinality(A') /\ Cardinality(B) <= Cardinality(B')
        BY <2>1, <3>2, <3>3, <4>2, <4>3, <4>4, CountKeep
      <4> QED
        BY <2>2, <3>1, <3>3, <4>1, <4>2, <4>5
    <3> QED
      BY <2>4, <3>4, <3>5, <3>6, <3>7, <3>8 DEF Continue
  <2>5. ASSUME NEW t \in Threads, SpuriousWakeup(t) PROVE Goal
    <3>1. Count' = Count /\ Count \in 0..QUEUE_SIZE
      <4>1. ~ add_insert(t) /\ ~ remove_take(t)
        BY <2>5 DEF SpuriousWakeup, MutualExclusion, add_insert, remove_take
      <4> QED
        BY <2>5, <4>1, CountStep
    <3>2. queue'.not_full = queue.not_full \ {t} /\ op' = op
      BY <2>5 DEF SpuriousWakeup, TypeOK, QueueType
    <3>3. A \subseteq A' /\ B \subseteq B'
      BY <3>2 DEF A, B, At, Up
    <3>4. Cardinality(A) <= Cardinality(A') /\ Cardinality(B) <= Cardinality(B')
      BY <2>1, <3>3, CountKeep
    <3> QED
      BY <2>2, <2>3, <3>1, <3>2, <3>4
  <2>6. CASE UNCHANGED vars
    BY <2>3, <2>6 DEF vars, A, B, At, Up, Count
  <2> QED
    BY <2>4, <2>5, <2>6 DEF Next, A, B
<1> QED
  BY <1>1, <1>2, TypeCorrect, RingCorrect, MutexCorrect, PTL DEF Spec

-----------------------------------------------------------------------------
(* What a consumer gets.                                                   *)

\* Every step but a call of queue_add keeps what the thread adds, and every step
\* but remove_take what it has removed; no other step gets where they lead.
LEMMA HandsStep ==
  ASSUME TypeOK, NEW t \in Threads, Begin(t) \/ Continue(t)
  PROVE  /\ \/ \E i \in Items : queue_add(t, i)
            \/ op'[t].arg = op[t].arg /\ (Call(t)' = "add" => Call(t) = "add")
         /\ \/ remove_take(t)
            \/ op'[t].item = op[t].item /\ op'[t].pc # "remove_signal"
<1> USE DEF TypeOK, OpType
<1>1. CASE \E i \in Items : queue_add(t, i)
  <2>1. PICK i \in Items : queue_add(t, i)
    BY <1>1
  <2>2. op'[t] = [op[t] EXCEPT !.pc = "add_lock", !.arg = i]
    BY <2>1 DEF queue_add
  <2> QED
    BY <1>1, <2>2
<1>2. CASE bare_signal(t) \/ set_exit_flag(t) \/ producer_lock(t) \/ producer_unlock(t)
  <2>1. op[t].pc = "idle" /\ op' = op
    BY <1>2 DEF bare_signal, set_exit_flag, producer_lock, producer_unlock, Idle
  <2> QED
    BY <2>1 DEF Call
<1>3. CASE queue_remove(t) \/ order_exit(t) \/ notify_if_empty(t)
  BY <1>3 DEF queue_remove, order_exit, notify_if_empty, Call
<1>4. CASE pthread_mutex_lock(t)
  <2>1. op[t].pc \in DOMAIN AfterLock /\ op'[t] = [op[t] EXCEPT !.pc = AfterLock[op[t].pc]]
    BY <1>4 DEF pthread_mutex_lock
  <2> QED
    BY <2>1 DEF AfterLock, Call
<1>5. CASE add_admitted(t) \/ add_sleep(t)
  BY <1>5 DEF add_admitted, add_sleep, Call
<1>6. CASE remove_wait(t) \/ remove_sleep(t) \/ exit_set(t)
  BY <1>6 DEF remove_wait, remove_sleep, exit_set, Call
<1>7. CASE add_refused(t)
  <2>1. op'[t] = [op[t] EXCEPT !.pc = "idle", !.ret = -1]
    BY <1>7 DEF add_refused
  <2> QED
    BY <2>1 DEF Call
<1>8. CASE add_insert(t)
  <2>1. op'[t] = [op[t] EXCEPT !.pc = "add_signal", !.ret = 0]
    BY <1>8 DEF add_insert
  <2> QED
    BY <2>1 DEF Call
<1>9. CASE remove_take(t)
  <2>1. op'[t] = [op[t] EXCEPT !.pc = "remove_signal", !.ret = 0,
                               !.item = queue.buffer[queue.head]]
    BY <1>9 DEF remove_take
  <2> QED
    BY <1>9, <2>1 DEF Call
<1>10. CASE remove_refused(t)
  <2>1. op'[t] = [op[t] EXCEPT !.pc = "remove_exit", !.ret = -1]
    BY <1>10 DEF remove_refused
  <2> QED
    BY <2>1 DEF Call
<1>11. CASE add_signal(t) \/ remove_signal(t) \/ remove_exit(t) \/ notify(t)
  <2>1. op'[t] = [op[t] EXCEPT !.pc = "idle"]
    BY <1>11 DEF add_signal, remove_signal, remove_exit, notify
  <2> QED
    BY <2>1 DEF Call
<1> QED
  BY <1>1, <1>2, <1>3, <1>4, <1>5, <1>6, <1>7, <1>8, <1>9, <1>10, <1>11
     DEF Begin, Continue

\* No consumer is ever handed a slot that nobody wrote, for any number of
\* threads and any QUEUE_SIZE.
THEOREM ItemsCorrect == Spec => []ItemsWritten
<1>1. Init => ItemsWritten
  <2> SUFFICES ASSUME Init PROVE ItemsWritten
    OBVIOUS
  <2>1. Count = 0
    BY QueueAssumption DEF Init, Count
  <2>2. Contents = <<>>
    BY <2>1 DEF Contents
  <2> QED
    BY <2>2 DEF Init, ItemsWritten, Call
<1>2. TypeOK /\ TypeOK' /\ RingInv /\ RingInv' /\ ItemsWritten /\ [Next]_vars
        => ItemsWritten'
  <2> SUFFICES ASSUME TypeOK, TypeOK', RingInv, RingInv', ItemsWritten, [Next]_vars
               PROVE  ItemsWritten'
    OBVIOUS
  <2>0. Contents \in Seq(Items \cup {NoItem})
    BY ContentsType DEF ContentsOK
  <2>1. ASSUME NEW t \in Threads, Begin(t) \/ Continue(t) PROVE ItemsWritten'
    <3>1. \A s \in Threads \ {t} : op'[s] = op[s]
      BY <2>1, OpFrame
    <3>2. \A k \in 1..Len(Contents') : Contents'[k] \in Items
      <4>1. CASE add_insert(t)
        <5>1. op[t].arg \in Items
          BY <4>1 DEF add_insert, ItemsWritten, Call
        <5>2. Contents' = Append(Contents, op[t].arg)
          BY <4>1, InsertAppends
        <5> QED
          BY <2>0, <5>1, <5>2 DEF ItemsWritten
      <4>2. CASE remove_take(t)
        <5>1. Contents # <<>> /\ Contents' = Tail(Contents)
          BY <4>2, TakeIsHead
        <5> QED
          BY <2>0, <5>1 DEF ItemsWritten
      <4>3. CASE ~ add_insert(t) /\ ~ remove_take(t)
        <5>1. Contents' = Contents
          BY <2>1, <4>3, RingFrame DEF Contents, Count, Slot
        <5> QED
          BY <5>1 DEF ItemsWritten
      <4> QED
        BY <4>1, <4>2, <4>3
    <3>3. \A s \in Threads : Call(s)' = "add" => op'[s].arg \in Items
      <4>1. CASE \E i \in Items : queue_add(t, i)
        <5>1. PICK i \in Items : queue_add(t, i)
          BY <4>1
        <5>2. op'[t] = [op[t] EXCEPT !.pc = "add_lock", !.arg = i]
          BY <5>1 DEF queue_add, TypeOK
        <5>3. op'[t].arg = i
          BY <5>2 DEF TypeOK, OpType
        <5> QED
          BY <3>1, <5>3 DEF ItemsWritten, Call
      <4>2. CASE ~ \E i \in Items : queue_add(t, i)
        <5>1. op'[t].arg = op[t].arg /\ (Call(t)' = "add" => Call(t) = "add")
          BY <2>1, <4>2, HandsStep
        <5> QED
          BY <3>1, <5>1 DEF ItemsWritten, Call
      <4> QED
        BY <4>1, <4>2
    <3>4. \A s \in Threads : op'[s].pc = "remove_signal" => op'[s].item \in Items
      <4>1. CASE remove_take(t)
        <5>1. Contents # <<>> /\ Head(Contents) = queue.buffer[queue.head]
          BY <4>1, TakeIsHead
        <5>2. queue.buffer[queue.head] \in Items
          BY <2>0, <5>1 DEF ItemsWritten
        <5>3. op'[t].item = queue.buffer[queue.head]
          BY <4>1 DEF remove_take, TypeOK, OpType
        <5> QED
          BY <3>1, <5>2, <5>3 DEF ItemsWritten
      <4>2. CASE ~ remove_take(t)
        BY <2>1, <3>1, <4>2, HandsStep DEF ItemsWritten
      <4> QED
        BY <4>1, <4>2
    <3> QED
      BY <3>2, <3>3, <3>4 DEF ItemsWritten
  <2>2. ASSUME NEW t \in Threads, SpuriousWakeup(t) PROVE ItemsWritten'
    <3>1. op' = op
      BY <2>2 DEF SpuriousWakeup
    <3>2. Contents' = Contents
      BY <2>2 DEF SpuriousWakeup, TypeOK, QueueType, Contents, Count, Slot
    <3> QED
      BY <3>1, <3>2 DEF ItemsWritten, Call
  <2>3. CASE UNCHANGED vars
    BY <2>3 DEF vars, ItemsWritten, Contents, Count, Slot, Call
  <2> QED
    BY <2>1, <2>2, <2>3 DEF Next
<1> QED
  BY <1>1, <1>2, TypeCorrect, RingCorrect, PTL DEF Spec

\* Where a thread is that called queue_remove and has called nothing since: on
\* its way to an item, past one, or refused.
RemoveCalled(t) ==
  \/ op[t].pc \in {"remove_lock", "remove_loop", "remove_wait", "remove_sleep"}
  \/ op[t].pc = "remove_signal" /\ op[t].ret = 0
  \/ op[t].pc = "remove_exit" /\ op[t].ret = -1
  \/ op[t].pc = "idle" /\ (op[t].ret = 0 => op[t].item \in Items)

\* A call of queue_remove that returns 0 returns an item.
LEMMA RemoveStep ==
  ASSUME TypeOK, ItemsWritten, NEW t \in Threads, RemoveCalled(t), Continue(t)
  PROVE  RemoveCalled(t)'
<1> USE DEF TypeOK, OpType
<1>1. CASE pthread_mutex_lock(t)
  <2>1. /\ op[t].pc \in {"remove_lock", "remove_sleep"}
        /\ op'[t] = [op[t] EXCEPT !.pc = AfterLock[op[t].pc]]
    BY <1>1 DEF pthread_mutex_lock, AfterLock, RemoveCalled
  <2> QED
    BY <2>1 DEF AfterLock, RemoveCalled
<1>2. CASE remove_take(t)
  <2>1. op'[t] = [op[t] EXCEPT !.pc = "remove_signal", !.ret = 0,
                               !.item = queue.buffer[queue.head]]
    BY <1>2 DEF remove_take
  <2> QED
    BY <2>1 DEF RemoveCalled
<1>3. CASE remove_refused(t)
  <2>1. op'[t] = [op[t] EXCEPT !.pc = "remove_exit", !.ret = -1]
    BY <1>3 DEF remove_refused
  <2> QED
    BY <2>1 DEF RemoveCalled
<1>4. CASE remove_wait(t)
  BY <1>4 DEF remove_wait, RemoveCalled
<1>5. CASE remove_sleep(t)
  BY <1>5 DEF remove_sleep, RemoveCalled
<1>6. CASE remove_signal(t)
  <2>1. op[t].item \in Items /\ op'[t] = [op[t] EXCEPT !.pc = "idle"]
    BY <1>6 DEF remove_signal, ItemsWritten
  <2> QED
    BY <2>1 DEF RemoveCalled
<1>7. CASE remove_exit(t)
  <2>1. op[t].ret = -1 /\ op'[t] = [op[t] EXCEPT !.pc = "idle"]
    BY <1>7 DEF remove_exit, RemoveCalled
  <2> QED
    BY <2>1 DEF RemoveCalled
<1> QED
  BY <1>1, <1>2, <1>3, <1>4, <1>5, <1>6, <1>7 DEF Continue, RemoveCalled,
     add_refused, add_admitted, add_sleep, add_insert, add_signal, exit_set, notify

\* A thread that goes on with an operation is in one, and only the producers'
\* own calls touch producer_lock.
LEMMA ContinueFrame ==
  ASSUME TypeOK, NEW t \in Threads
  PROVE  /\ Continue(t) => ~ Idle(t)
         /\ Continue(t) \/ SpuriousWakeup(t) => queue'.producer_lock = queue.producer_lock
<1>1. Continue(t) => ~ Idle(t)
  <2>1. notify(t) => op[t].pc = "notify"
    BY Zenon DEF notify
  <2> QED
    BY <2>1 DEF Continue, Idle, AfterLock, pthread_mutex_lock, add_refused, add_admitted,
       add_sleep, add_insert, add_signal, remove_take, remove_refused,
       remove_wait, remove_sleep, remove_signal, remove_exit, exit_set
<1>2. ASSUME pthread_mutex_lock(t) \/ add_refused(t) \/ add_admitted(t) \/ add_sleep(t)
             \/ add_insert(t) \/ remove_take(t) \/ remove_refused(t) \/ remove_wait(t)
             \/ remove_sleep(t) \/ exit_set(t) \/ SpuriousWakeup(t)
      PROVE  queue'.producer_lock = queue.producer_lock
  BY <1>2 DEF TypeOK, QueueType, pthread_mutex_lock, add_refused, add_admitted,
     add_sleep, add_insert, remove_take, remove_refused, remove_wait, remove_sleep,
     exit_set, SpuriousWakeup
<1>3. ASSUME add_signal(t) \/ remove_signal(t) \/ remove_exit(t)
      PROVE  queue'.producer_lock = queue.producer_lock
  BY <1>3, SignalNotEmpty, SignalNotFull
   DEF TypeOK, QueueType, add_signal, remove_signal, remove_exit
<1>4. ASSUME notify(t) PROVE queue'.producer_lock = queue.producer_lock
  <2>1. PICK S \in SUBSET queue.not_empty :
          queue' = [queue EXCEPT !.not_empty = S, !.mut = NoThread]
    BY <1>4, NotifyWakes
  <2> QED
    BY <2>1 DEF TypeOK, QueueType
<1> QED
  BY <1>1, <1>2, <1>3, <1>4 DEF Continue

\* A thread that begins an operation, or wakes up for nothing, moves no item.
LEMMA ContentsFrame ==
  ASSUME TypeOK, NEW t \in Threads, Begin(t) \/ SpuriousWakeup(t)
  PROVE  Contents' = Contents
<1>1. CASE Begin(t)
  <2>1. Idle(t)
    BY <1>1 DEF Begin, queue_add, queue_remove, order_exit, set_exit_flag, bare_signal,
       notify_if_empty, producer_lock, producer_unlock
  <2>2. ~ add_insert(t) /\ ~ remove_take(t)
    BY <2>1 DEF Idle, add_insert, remove_take
  <2> QED
    BY <1>1, <2>2, RingFrame DEF Contents, Count, Slot
<1>2. CASE SpuriousWakeup(t)
  BY <1>2 DEF SpuriousWakeup, TypeOK, QueueType, Contents, Count, Slot
<1> QED
  BY <1>1, <1>2

\* A thread back from, or about to return from, a queue_remove that gave it an
\* item.
Holds(t) == op[t].ret = 0 /\ op[t].pc \in {"remove_signal", "idle"}

\* What a thread that goes on with an operation moves: the item it adds enters
\* at the end, the first item goes to it, or nothing moves; then, if its add
\* is over, it was refused under the exit order.
LEMMA TransferStep ==
  ASSUME TypeOK, TypeOK', RingInv, RingInv', NEW t \in Threads, Continue(t)
  PROVE  \/ /\ op[t].pc = "add_loop" /\ op'[t].pc = "add_signal"
            /\ Call(t) = "add" /\ Call(t)' # "add"
            /\ Contents' = Append(Contents, op[t].arg)
         \/ /\ op[t].pc = "remove_loop" /\ op'[t].pc = "remove_signal"
            /\ op'[t].ret = 0
            /\ Contents # <<>> /\ op'[t].item = Head(Contents)
            /\ Contents' = Tail(Contents)
         \/ /\ ~ (op[t].pc = "add_loop" /\ op'[t].pc = "add_signal")
            /\ Contents' = Contents
            /\ op'[t].arg = op[t].arg /\ op'[t].item = op[t].item
            /\ \/ Call(t)' = "add" <=> Call(t) = "add"
               \/ Call(t) = "add" /\ queue.exit_flag = 1
            /\ Call(t)' = "add" => Call(t) = "add"
            /\ RemoveCalled(t) => (Holds(t)' <=> Holds(t))
<1> DEFINE Same ==
      /\ op'[t].arg = op[t].arg /\ op'[t].item = op[t].item
      /\ ~ (op[t].pc = "add_loop" /\ op'[t].pc = "add_signal")
      /\ \/ Call(t)' = "add" <=> Call(t) = "add"
         \/ Call(t) = "add" /\ queue.exit_flag = 1
      /\ Call(t)' = "add" => Call(t) = "add"
      /\ RemoveCalled(t) => (Holds(t)' <=> Holds(t))
<1>0. op \in [Threads -> OpType]
  BY DEF TypeOK
<1>1. CASE add_insert(t)
  <2>1. op'[t] = [op[t] EXCEPT !.pc = "add_signal", !.ret = 0] /\ op[t].pc = "add_loop"
    BY <1>0, <1>1 DEF add_insert
  <2>2. op'[t].pc = "add_signal"
    BY <1>0, <2>1 DEF OpType
  <2> QED
    BY <1>1, <2>1, <2>2, InsertAppends DEF Call
<1>2. CASE remove_take(t)
  <2>1. op'[t] = [op[t] EXCEPT !.pc = "remove_signal", !.ret = 0,
                               !.item = queue.buffer[queue.head]]
        /\ op[t].pc = "remove_loop"
    BY <1>0, <1>2 DEF remove_take
  <2>2. /\ op'[t].pc = "remove_signal" /\ op'[t].ret = 0
        /\ op'[t].item = queue.buffer[queue.head]
    BY <1>0, <2>1 DEF OpType
  <2> QED
    BY <1>2, <2>1, <2>2, TakeIsHead
<1>3. CASE ~ add_insert(t) /\ ~ remove_take(t)
  <2>1. Contents' = Contents
    BY <1>3, RingFrame DEF Contents, Count, Slot
  <2>2. ASSUME NEW loc \in Locations, op'[t] = [op[t] EXCEPT !.pc = loc]
        PROVE  /\ op'[t].pc = loc /\ op'[t].arg = op[t].arg
               /\ op'[t].item = op[t].item /\ op'[t].ret = op[t].ret
    BY <1>0, <2>2 DEF OpType
  <2>3. ASSUME NEW loc \in Locations, op'[t] = [op[t] EXCEPT !.pc = loc, !.ret = -1]
        PROVE  /\ op'[t].pc = loc /\ op'[t].arg = op[t].arg
               /\ op'[t].item = op[t].item /\ op'[t].ret = -1
    BY <1>0, <2>3 DEF OpType
  <2> USE DEF Call, Holds, RemoveCalled, Locations
  <2>4. CASE pthread_mutex_lock(t)
    <3>1. op[t].pc \in DOMAIN AfterLock
          /\ op'[t] = [op[t] EXCEPT !.pc = AfterLock[op[t].pc]]
      BY <1>0, <2>4 DEF pthread_mutex_lock
    <3>2. AfterLock[op[t].pc] \in Locations
      BY <3>1 DEF AfterLock
    <3>3. Same
      BY <2>2, <3>1, <3>2 DEF AfterLock
    <3> QED
      BY <2>1, <3>3
  <2>5. CASE add_refused(t)
    <3>1. /\ op[t].pc = "add_check" /\ queue.exit_flag = 1
          /\ op'[t] = [op[t] EXCEPT !.pc = "idle", !.ret = -1]
      BY <1>0, <2>5 DEF add_refused
    <3> QED
      BY <2>1, <2>3, <3>1
  <2>6. CASE remove_refused(t)
    <3>1. /\ op[t].pc = "remove_loop"
          /\ op'[t] = [op[t] EXCEPT !.pc = "remove_exit", !.ret = -1]
      BY <1>0, <2>6 DEF remove_refused
    <3> QED
      BY <2>1, <2>3, <3>1
  <2>7. CASE add_admitted(t) \/ add_sleep(t)
    <3>1. /\ op[t].pc \in {"add_check", "add_loop"}
          /\ \E loc \in {"add_loop", "add_sleep"} : op'[t] = [op[t] EXCEPT !.pc = loc]
      BY <1>0, <2>7 DEF add_admitted, add_sleep
    <3> QED
      BY <2>1, <2>2, <3>1
  <2>8. CASE remove_wait(t) \/ remove_sleep(t)
    <3>1. /\ op[t].pc \in {"remove_loop", "remove_wait"}
          /\ \E loc \in {"remove_wait", "remove_sleep"} : op'[t] = [op[t] EXCEPT !.pc = loc]
      BY <1>0, <2>8 DEF remove_wait, remove_sleep
    <3> QED
      BY <2>1, <2>2, <3>1
  <2>9. CASE add_signal(t) \/ remove_signal(t) \/ remove_exit(t) \/ exit_set(t) \/ notify(t)
    <3>1. /\ op[t].pc \in {"add_signal", "remove_signal", "remove_exit", "exit_set", "notify"}
          /\ op'[t] = [op[t] EXCEPT !.pc = "idle"]
      <4>1. CASE notify(t)
        <5>1. op[t].pc = "notify" /\ op' = [op EXCEPT ![t].pc = "idle"]
          BY <4>1, Zenon DEF notify
        <5> QED
          BY <1>0, <5>1
      <4>2. CASE ~ notify(t)
        BY <1>0, <2>9, <4>2 DEF add_signal, remove_signal, remove_exit, exit_set
      <4> QED
        BY <4>1, <4>2
    <3> QED
      BY <2>1, <2>2, <3>1
  <2> QED
    BY <1>3, <2>4, <2>5, <2>6, <2>7, <2>8, <2>9 DEF Continue
<1> QED
  BY <1>1, <1>2, <1>3

\* A call that a thread goes on with stays what it is until it is over.
LEMMA CallEnds ==
  ASSUME TypeOK, NEW t \in Threads, Continue(t)
  PROVE  Call(t)' \in {Call(t), "none"}
<1>0. op \in [Threads -> OpType]
  BY DEF TypeOK
<1>1. CASE pthread_mutex_lock(t)
  <2>1. op[t].pc \in DOMAIN AfterLock /\ op'[t].pc = AfterLock[op[t].pc]
    BY <1>0, <1>1 DEF pthread_mutex_lock, OpType
  <2> QED
    BY <2>1 DEF AfterLock, Call
<1>2. CASE notify(t)
  <2>1. op' = [op EXCEPT ![t].pc = "idle"]
    BY <1>2, Zenon DEF notify
  <2>2. op'[t].pc = "idle"
    BY <1>0, <2>1 DEF OpType
  <2> QED
    BY <2>2 DEF Call
<1>3. CASE add_admitted(t) \/ add_sleep(t) \/ remove_wait(t) \/ remove_sleep(t)
  <2>1. \/ op[t].pc = "add_check" /\ op'[t].pc = "add_loop"
        \/ op[t].pc = "add_loop" /\ op'[t].pc = "add_sleep"
        \/ op[t].pc = "remove_loop" /\ op'[t].pc = "remove_wait"
        \/ op[t].pc = "remove_wait" /\ op'[t].pc = "remove_sleep"
    BY <1>0, <1>3 DEF OpType, add_admitted, add_sleep, remove_wait, remove_sleep
  <2> QED
    BY <2>1 DEF Call
<1>4. CASE add_signal(t) \/ remove_signal(t) \/ remove_exit(t) \/ exit_set(t)
  <2>1. op'[t].pc = "idle"
    BY <1>0, <1>4 DEF OpType, add_signal, remove_signal, remove_exit, exit_set
  <2> QED
    BY <2>1 DEF Call
<1>5. CASE add_refused(t) \/ remove_refused(t)
  <2>1. \E l \in {"idle", "remove_exit"} : op'[t] = [op[t] EXCEPT !.pc = l, !.ret = -1]
    BY <1>0, <1>5 DEF add_refused, remove_refused
  <2>2. op'[t].pc \in {"idle", "remove_exit"}
    BY <1>0, <2>1 DEF OpType
  <2> QED
    BY <2>2 DEF Call
<1>6. CASE add_insert(t)
  <2>1. op'[t] = [op[t] EXCEPT !.pc = "add_signal", !.ret = 0]
    BY <1>0, <1>6 DEF add_insert
  <2>2. op'[t].pc = "add_signal"
    BY <1>0, <2>1 DEF OpType
  <2> QED
    BY <2>2 DEF Call
<1>7. CASE remove_take(t)
  <2>1. op'[t] = [op[t] EXCEPT !.pc = "remove_signal", !.ret = 0,
                               !.item = queue.buffer[queue.head]]
    BY <1>0, <1>7 DEF remove_take
  <2>2. op'[t].pc = "remove_signal"
    BY <1>0, <2>1 DEF OpType
  <2> QED
    BY <2>2 DEF Call
<1> QED
  BY <1>1, <1>2, <1>3, <1>4, <1>5, <1>6, <1>7 DEF Continue

\* Who calls what.
Callers ==
  \A t \in Threads : /\ Call(t) = "add" => t \in Producers
                     /\ Call(t) = "remove" => t \in Consumers

\* Only producers are ever in queue_add, only consumers in queue_remove.
LEMMA CallersCorrect == Spec => []Callers
<1>1. Init => Callers
  BY DEF Init, Callers, Call
<1>2. TypeOK /\ Callers /\ [Next]_vars => Callers'
  <2> SUFFICES ASSUME TypeOK, Callers, [Next]_vars PROVE Callers'
    OBVIOUS
  <2>0. op \in [Threads -> OpType]
    BY DEF TypeOK
  <2>1. ASSUME NEW t \in Threads, Begin(t) \/ Continue(t) PROVE Callers'
    <3>1. \A s \in Threads \ {t} : op'[s] = op[s]
      BY <2>1, OpFrame
    <3>2. /\ Call(t)' = "add" => t \in Producers
          /\ Call(t)' = "remove" => t \in Consumers
      <4>1. CASE Continue(t)
        BY <4>1, CallEnds DEF Callers
      <4>2. CASE t \in Producers /\ \E i \in Items : queue_add(t, i)
        <5>1. PICK i \in Items : queue_add(t, i)
          BY <4>2
        <5>2. op'[t] = [op[t] EXCEPT !.pc = "add_lock", !.arg = i]
          BY <2>0, <5>1 DEF queue_add
        <5>3. op'[t].pc = "add_lock"
          BY <2>0, <5>2 DEF OpType
        <5> QED
          BY <4>2, <5>3 DEF Call
      <4>3. CASE t \in Consumers /\ queue_remove(t)
        <5>1. op'[t].pc = "remove_lock"
          BY <2>0, <4>3 DEF queue_remove, OpType
        <5> QED
          BY <4>3, <5>1 DEF Call
      <4>4. CASE order_exit(t) \/ notify_if_empty(t)
        <5>1. op'[t].pc \in {"exit_lock", "notify_lock"}
          BY <2>0, <4>4 DEF order_exit, notify_if_empty, OpType
        <5> QED
          BY <5>1 DEF Call
      <4>5. CASE set_exit_flag(t) \/ bare_signal(t) \/ producer_lock(t) \/ producer_unlock(t)
        <5>1. op' = op
          BY <4>5 DEF set_exit_flag, bare_signal, producer_lock, producer_unlock
        <5> QED
          BY <5>1 DEF Callers, Call
      <4> QED
        BY <2>1, <4>1, <4>2, <4>3, <4>4, <4>5 DEF Begin
    <3> QED
      BY <3>1, <3>2 DEF Callers, Call
  <2>2. ASSUME NEW t \in Threads, SpuriousWakeup(t) PROVE Callers'
    <3>1. op' = op
      BY <2>2 DEF SpuriousWakeup
    <3> QED
      BY <3>1 DEF Callers, Call
  <2>3. CASE UNCHANGED vars
    BY <2>3 DEF vars, Callers, Call
  <2> QED
    BY <2>1, <2>2, <2>3 DEF Next
<1> QED
  BY <1>1, <1>2, TypeCorrect, PTL DEF Spec

-----------------------------------------------------------------------------
(* The exit order on a queue whose users never call order_exit.            *)

\* Only order_exit leads to the step that raises the flag inside an operation.
LEMMA ExitFrame ==
  ASSUME TypeOK, NEW t \in Threads, Continue(t), op[t].pc \notin {"exit_lock", "exit_set"}
  PROVE  /\ queue'.exit_flag = queue.exit_flag
         /\ op'[t].pc \notin {"exit_lock", "exit_set"}
<1>0. queue \in QueueType /\ op \in [Threads -> OpType]
  BY DEF TypeOK
<1>1. CASE pthread_mutex_lock(t)
  <2>1. op[t].pc \in DOMAIN AfterLock /\ op'[t].pc = AfterLock[op[t].pc]
    BY <1>0, <1>1 DEF pthread_mutex_lock, OpType
  <2>2. queue'.exit_flag = queue.exit_flag
    BY <1>0, <1>1 DEF pthread_mutex_lock, QueueType
  <2> QED
    BY <2>1, <2>2 DEF AfterLock
<1>2. CASE notify(t)
  <2>1. op' = [op EXCEPT ![t].pc = "idle"]
    BY <1>2, Zenon DEF notify
  <2>2. \E S : queue' = [queue EXCEPT !.not_empty = S, !.mut = NoThread]
    BY <1>2, Zenon DEF notify
  <2> QED
    BY <1>0, <2>1, <2>2 DEF QueueType, OpType
<1>3. CASE add_signal(t) \/ remove_exit(t) \/ remove_signal(t)
  <2>1. op'[t].pc = "idle"
    BY <1>0, <1>3 DEF add_signal, remove_exit, remove_signal, OpType
  <2>2. signal_not_empty \/ signal_not_full
    BY <1>3 DEF add_signal, remove_exit, remove_signal
  <2> QED
    BY <1>0, <2>1, <2>2 DEF signal_not_empty, signal_not_full, QueueType
<1>4. CASE add_refused(t) \/ add_admitted(t) \/ add_sleep(t) \/ add_insert(t)
  <2>1. op'[t].pc \in {"idle", "add_loop", "add_sleep", "add_signal"}
    <3>1. CASE add_refused(t)
      BY <1>0, <3>1 DEF add_refused, OpType
    <3>2. CASE add_admitted(t) \/ add_sleep(t)
      BY <1>0, <3>2 DEF add_admitted, add_sleep, OpType
    <3>3. CASE add_insert(t)
      BY <1>0, <3>3 DEF add_insert, OpType
    <3> QED
      BY <1>4, <3>1, <3>2, <3>3
  <2>2. queue'.exit_flag = queue.exit_flag
    BY <1>0, <1>4 DEF add_refused, add_admitted, add_sleep, add_insert, QueueType
  <2> QED
    BY <2>1, <2>2
<1>5. CASE remove_take(t) \/ remove_refused(t) \/ remove_wait(t) \/ remove_sleep(t)
  <2>1. op'[t].pc \in {"remove_signal", "remove_exit", "remove_wait", "remove_sleep"}
    <3>1. CASE remove_take(t)
      BY <1>0, <3>1 DEF remove_take, OpType
    <3>2. CASE remove_refused(t)
      BY <1>0, <3>2 DEF remove_refused, OpType
    <3>3. CASE remove_wait(t) \/ remove_sleep(t)
      BY <1>0, <3>3 DEF remove_wait, remove_sleep, OpType
    <3> QED
      BY <1>5, <3>1, <3>2, <3>3
  <2>2. queue'.exit_flag = queue.exit_flag
    BY <1>0, <1>5 DEF remove_take, remove_refused, remove_wait, remove_sleep, QueueType
  <2> QED
    BY <2>1, <2>2
<1>6. ~ exit_set(t)
  BY DEF exit_set
<1> QED
  BY <1>1, <1>2, <1>3, <1>4, <1>5, <1>6 DEF Continue

-----------------------------------------------------------------------------
(* The end of a consumer, and the last producers.                          *)

\* The consumer's last call of queue_remove was refused.
Gone(t) == op[t].ret = -1 /\ op[t].pc \in {"remove_exit", "idle"}

\* A consumer is refused once, when the queue is empty under the exit order.
LEMMA RefusalStep ==
  ASSUME TypeOK, RingInv, NEW t \in Threads, RemoveCalled(t), Continue(t)
  PROVE  /\ Gone(t) => Gone(t)'
         /\ Gone(t)' /\ ~ Gone(t) =>
              op[t].pc = "remove_loop" /\ queue.exit_flag = 1 /\ Contents = <<>>
<1> USE DEF TypeOK, OpType
<1>1. CASE pthread_mutex_lock(t)
  <2>1. /\ op[t].pc \in {"remove_lock", "remove_sleep"}
        /\ op'[t] = [op[t] EXCEPT !.pc = AfterLock[op[t].pc]]
    BY <1>1 DEF pthread_mutex_lock, AfterLock, RemoveCalled
  <2> QED
    BY <2>1 DEF AfterLock, Gone
<1>2. CASE remove_take(t)
  <2>1. op[t].pc = "remove_loop" /\ op'[t].pc = "remove_signal"
    BY <1>2 DEF remove_take
  <2> QED
    BY <2>1 DEF Gone
<1>3. CASE remove_refused(t)
  <2>1. op[t].pc = "remove_loop" /\ queue.exit_flag = 1 /\ queue.empty = 1
    BY <1>3 DEF remove_refused
  <2>2. Count = 0
    BY <2>1, QueueAssumption DEF RingInv, Count, QueueType
  <2>3. Contents = <<>>
    BY <2>2 DEF Contents
  <2> QED
    BY <2>1, <2>3 DEF Gone
<1>4. CASE remove_wait(t) \/ remove_sleep(t)
  <2>1. /\ op[t].pc \in {"remove_loop", "remove_wait"}
        /\ op'[t].pc \in {"remove_wait", "remove_sleep"}
    BY <1>4 DEF remove_wait, remove_sleep
  <2> QED
    BY <2>1 DEF Gone
<1>5. CASE remove_signal(t) \/ remove_exit(t)
  <2>1. /\ op[t].pc = "remove_exit" \/ (op[t].pc = "remove_signal" /\ op[t].ret = 0)
        /\ op'[t].pc = "idle" /\ op'[t].ret = op[t].ret
    BY <1>5 DEF remove_signal, remove_exit, RemoveCalled
  <2> QED
    BY <2>1 DEF Gone
<1>6. ~ notify(t)
  <2>1. notify(t) => op[t].pc = "notify"
    BY Zenon DEF notify
  <2> QED
    BY <2>1 DEF RemoveCalled
<1>7. /\ ~ add_refused(t) /\ ~ add_admitted(t) /\ ~ add_sleep(t) /\ ~ add_insert(t)
      /\ ~ add_signal(t) /\ ~ exit_set(t)
  BY DEF RemoveCalled, add_refused, add_admitted, add_sleep, add_insert, add_signal, exit_set
<1> QED
  BY <1>1, <1>2, <1>3, <1>4, <1>5, <1>6, <1>7, Zenon DEF Continue

\* No step takes the exit order back.
LEMMA FlagStays ==
  ASSUME TypeOK, NEW t \in Threads, Begin(t) \/ Continue(t) \/ SpuriousWakeup(t),
         queue.exit_flag = 1
  PROVE  queue'.exit_flag = 1
<1>0. queue \in QueueType /\ op \in [Threads -> OpType]
  BY DEF TypeOK
<1>1. CASE Continue(t) /\ op[t].pc \notin {"exit_lock", "exit_set"}
  BY <1>1, ExitFrame
<1>2. CASE Continue(t) /\ op[t].pc \in {"exit_lock", "exit_set"}
  <2>1. CASE pthread_mutex_lock(t)
    BY <1>0, <2>1 DEF pthread_mutex_lock, QueueType
  <2>2. CASE exit_set(t)
    BY <1>0, <2>2 DEF exit_set, QueueType
  <2>3. ~ notify(t)
    <3>1. notify(t) => op[t].pc = "notify"
      BY Zenon DEF notify
    <3> QED
      BY <1>2, <3>1
  <2>4. /\ ~ add_refused(t) /\ ~ add_admitted(t) /\ ~ add_sleep(t) /\ ~ add_insert(t)
        /\ ~ add_signal(t) /\ ~ remove_take(t) /\ ~ remove_refused(t) /\ ~ remove_wait(t)
        /\ ~ remove_sleep(t) /\ ~ remove_signal(t) /\ ~ remove_exit(t)
    BY <1>2 DEF add_refused, add_admitted, add_sleep, add_insert, add_signal, remove_take,
       remove_refused, remove_wait, remove_sleep, remove_signal, remove_exit
  <2> QED
    BY <1>2, <2>1, <2>2, <2>3, <2>4, Zenon DEF Continue
<1>3. CASE SpuriousWakeup(t)
  BY <1>0, <1>3 DEF SpuriousWakeup, QueueType
<1>4. CASE Begin(t)
  <2>1. CASE bare_signal(t)
    <3>1. signal_not_empty
      BY <2>1 DEF bare_signal
    <3> QED
      BY <1>0, <3>1 DEF signal_not_empty, QueueType
  <2>2. CASE set_exit_flag(t)
    BY <1>0, <2>2 DEF set_exit_flag, QueueType
  <2>3. CASE producer_lock(t) \/ producer_unlock(t)
    BY <1>0, <2>3 DEF producer_lock, producer_unlock, QueueType
  <2>4. CASE (\E i \in Items : queue_add(t, i)) \/ queue_remove(t) \/ order_exit(t)
             \/ notify_if_empty(t)
    <3>1. queue' = queue
      BY <2>4, Zenon DEF queue_add, queue_remove, order_exit, notify_if_empty
    <3> QED
      BY <3>1
  <2> QED
    BY <1>4, <2>1, <2>2, <2>3, <2>4, Zenon DEF Begin
<1> QED
  BY <1>1, <1>2, <1>3, <1>4

\* Under the exit order no producer passes the test of queue_add any more.
LEMMA Admission ==
  ASSUME TypeOK, NEW t \in Threads, Continue(t), op'[t].pc \in {"add_loop", "add_sleep"},
         queue.exit_flag = 1
  PROVE  op[t].pc \in {"add_loop", "add_sleep"}
<1>0. op \in [Threads -> OpType]
  BY DEF TypeOK
<1>1. CASE pthread_mutex_lock(t)
  <2>1. op[t].pc \in DOMAIN AfterLock /\ op'[t].pc = AfterLock[op[t].pc]
    BY <1>0, <1>1 DEF pthread_mutex_lock, OpType
  <2> QED
    BY <2>1 DEF AfterLock
<1>2. CASE notify(t)
  <2>1. op' = [op EXCEPT ![t].pc = "idle"]
    BY <1>2, Zenon DEF notify
  <2> QED
    BY <1>0, <2>1 DEF OpType
<1>3. CASE add_signal(t) \/ remove_exit(t) \/ remove_signal(t) \/ exit_set(t)
  <2>1. op' = [op EXCEPT ![t].pc = "idle"]
    BY <1>3 DEF add_signal, remove_exit, remove_signal, exit_set
  <2> QED
    BY <1>0, <2>1 DEF OpType
<1>4. CASE add_refused(t)
  BY <1>0, <1>4 DEF add_refused, OpType
<1>5. CASE remove_refused(t)
  BY <1>0, <1>5 DEF remove_refused, OpType
<1>6. CASE remove_take(t)
  BY <1>0, <1>6 DEF remove_take, OpType
<1>7. CASE remove_wait(t) \/ remove_sleep(t)
  BY <1>0, <1>7 DEF remove_wait, remove_sleep, OpType
<1>8. CASE add_admitted(t) \/ add_sleep(t) \/ add_insert(t)
  BY <1>8 DEF add_admitted, add_sleep, add_insert
<1> QED
  BY <1>1, <1>2, <1>3, <1>4, <1>5, <1>6, <1>7, <1>8, Zenon DEF Continue

\* Nor does any other step take one past it.
LEMMA AdmissionStep ==
  ASSUME TypeOK, NEW t \in Threads, Begin(t) \/ Continue(t) \/ SpuriousWakeup(t),
         queue.exit_flag = 1, NEW s \in Threads, op'[s].pc \in {"add_loop", "add_sleep"}
  PROVE  op[s].pc \in {"add_loop", "add_sleep"}
<1>0. op \in [Threads -> OpType]
  BY DEF TypeOK
<1>1. CASE SpuriousWakeup(t)
  BY <1>1 DEF SpuriousWakeup
<1>2. CASE s # t /\ (Begin(t) \/ Continue(t))
  BY <1>2, OpFrame
<1>3. CASE s = t /\ Continue(t)
  BY <1>3, Admission
<1>4. CASE s = t /\ Begin(t)
  <2>1. CASE \E i \in Items : queue_add(t, i)
    <3>1. PICK i \in Items : op' = [op EXCEPT ![t] = [@ EXCEPT !.pc = "add_lock", !.arg = i]]
      BY <2>1, Zenon DEF queue_add
    <3>2. op'[t].pc = "add_lock"
      BY <1>0, <3>1 DEF OpType
    <3> QED
      BY <1>4, <3>2
  <2>2. CASE queue_remove(t) \/ order_exit(t) \/ notify_if_empty(t)
    <3>1. op'[t].pc \in {"remove_lock", "exit_lock", "notify_lock"}
      BY <1>0, <2>2 DEF queue_remove, order_exit, notify_if_empty, OpType
    <3> QED
      BY <1>4, <3>1
  <2>3. CASE set_exit_flag(t) \/ bare_signal(t) \/ producer_lock(t) \/ producer_unlock(t)
    <3>1. op' = op
      BY <2>3 DEF set_exit_flag, bare_signal, producer_lock, producer_unlock
    <3> QED
      BY <3>1
  <2> QED
    BY <1>4, <2>1, <2>2, <2>3, Zenon DEF Begin
<1> QED
  BY <1>1, <1>2, <1>3, <1>4, Zenon
=============================================================================
