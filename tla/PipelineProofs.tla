--------------------------- MODULE PipelineProofs ---------------------------
(***************************************************************************)
(* The program uses its two queues only through the operations of PCQueue, *)
(* so what is proved of PCQueue holds of both; the types of the program;   *)
(* and the producer lock keeps the trades of a message together.           *)
(***************************************************************************)
EXTENDS Pipeline, SequenceTheorems, FiniteSetTheorems, TLAPS

-----------------------------------------------------------------------------
(* The theorems about PCQueue, for each of the two queues.                 *)

ApiP == INSTANCE PCQueueWakeupProofs WITH
  queue <- api_queue, op <- api_op, Items <- WorkItem,
  Threads <- ApiThreads, Producers <- {wss} \cup Alarms, Consumers <- Writers

CalcP == INSTANCE PCQueueWakeupProofs WITH
  queue <- calculation_queue, op <- calc_op, Items <- WorkItem,
  Threads <- CalcThreads, Producers <- Writers, Consumers <- {calculator}

\* The threads of each queue are finitely many, and none is the absent owner.
LEMMA QueueThreads ==
  /\ QUEUE_SIZE \in Nat \ {0}
  /\ NoThread \notin ApiThreads /\ IsFiniteSet(ApiThreads)
  /\ NoThread \notin CalcThreads /\ IsFiniteSet(CalcThreads)
<1>1. IsFiniteSet({wss}) /\ IsFiniteSet({calculator})
  BY FS_Singleton
<1>2. IsFiniteSet(Alarms)
  BY PipelineAssumption, FS_Interval DEF Alarms
<1>3. IsFiniteSet(Writers) /\ IsFiniteSet(Interrupts)
  BY PipelineAssumption
<1>4. IsFiniteSet(Writers \cup {calculator}) /\ IsFiniteSet(Writers \cup {wss})
  BY <1>1, <1>3, FS_Union
<1>5. IsFiniteSet((Writers \cup {wss}) \cup Alarms)
  BY <1>2, <1>4, FS_Union
<1>6. IsFiniteSet(((Writers \cup {wss}) \cup Alarms) \cup Interrupts)
  BY <1>3, <1>5, FS_Union
<1> QED
  BY <1>4, <1>6, PipelineAssumption DEF ApiThreads, CalcThreads, Alarms

\* What PCQueue assumes of its constants holds of both queues.
LEMMA ApiQueueAssumption ==
  /\ QUEUE_SIZE \in Nat \ {0}
  /\ {wss} \cup Alarms \subseteq ApiThreads
  /\ Writers \subseteq ApiThreads
  /\ NoThread \notin ApiThreads
  /\ ApiP!IsFiniteSet(ApiThreads)
BY QueueThreads DEF ApiThreads, IsFiniteSet, ApiP!IsFiniteSet

\* The assumption of the queue module, for the queue of the Calculator.
LEMMA CalcQueueAssumption ==
  /\ QUEUE_SIZE \in Nat \ {0}
  /\ Writers \subseteq CalcThreads
  /\ {calculator} \subseteq CalcThreads
  /\ NoThread \notin CalcThreads
  /\ CalcP!IsFiniteSet(CalcThreads)
BY QueueThreads DEF CalcThreads, IsFiniteSet, CalcP!IsFiniteSet

\* ApiP is Api: the definitions of PCQueue are the same through both instances.
LEMMA ApiSame ==
  /\ Api!Init => ApiP!Init
  /\ \A t \in ApiThreads : Api!Continue(t) => ApiP!Continue(t)
  /\ \A t \in ApiThreads : Api!Begin(t) => ApiP!Begin(t)
  /\ \A t \in ApiThreads : Api!SpuriousWakeup(t) => ApiP!SpuriousWakeup(t)
  /\ Api!Next => ApiP!Next
  /\ Api!vars = ApiP!vars
  /\ ApiP!TypeOK <=> Api!TypeOK
  /\ ApiP!RingInv <=> Api!RingInv
  /\ ApiP!ItemsWritten <=> Api!ItemsWritten
  /\ ApiP!Contents = Api!Contents
<1>1. Api!Init => ApiP!Init
  BY DEF Api!Init, ApiP!Init
<1>2. \A t \in ApiThreads : Api!Continue(t) => ApiP!Continue(t)
  BY ZenonT(60)
   DEF Api!Continue, ApiP!Continue, Api!pthread_mutex_lock,
       ApiP!pthread_mutex_lock, Api!add_refused, ApiP!add_refused,
       Api!add_admitted, ApiP!add_admitted, Api!add_sleep, ApiP!add_sleep,
       Api!add_insert, ApiP!add_insert, Api!add_signal, ApiP!add_signal,
       Api!remove_take, ApiP!remove_take, Api!remove_refused,
       ApiP!remove_refused, Api!remove_wait, ApiP!remove_wait,
       Api!remove_sleep, ApiP!remove_sleep, Api!remove_signal,
       ApiP!remove_signal, Api!remove_exit, ApiP!remove_exit, Api!exit_set,
       ApiP!exit_set, Api!notify, ApiP!notify, Api!WakeOne, ApiP!WakeOne,
       Api!signal_not_empty, ApiP!signal_not_empty, Api!signal_not_full,
       ApiP!signal_not_full, Api!AfterLock, ApiP!AfterLock
<1>3. \A t \in ApiThreads : Api!Begin(t) => ApiP!Begin(t)
  BY Zenon
   DEF Api!Begin, ApiP!Begin, Api!queue_add, ApiP!queue_add,
       Api!queue_remove, ApiP!queue_remove, Api!order_exit, ApiP!order_exit,
       Api!set_exit_flag, ApiP!set_exit_flag, Api!bare_signal,
       ApiP!bare_signal, Api!notify_if_empty, ApiP!notify_if_empty,
       Api!producer_lock, ApiP!producer_lock, Api!producer_unlock,
       ApiP!producer_unlock, Api!WakeOne, ApiP!WakeOne, Api!signal_not_empty,
       ApiP!signal_not_empty, Api!Idle, ApiP!Idle
<1>4. \A t \in ApiThreads : Api!SpuriousWakeup(t) => ApiP!SpuriousWakeup(t)
  BY Zenon DEF Api!SpuriousWakeup, ApiP!SpuriousWakeup
<1>5. Api!Next => ApiP!Next
  BY <1>2, <1>3, <1>4, Zenon DEF Api!Next, ApiP!Next
<1>6. Api!vars = ApiP!vars
  BY DEF Api!vars, ApiP!vars
<1>7. ApiP!TypeOK <=> Api!TypeOK
  BY
   DEF Api!TypeOK, ApiP!TypeOK, Api!QueueType, ApiP!QueueType, Api!OpType,
       ApiP!OpType, Api!Locations, ApiP!Locations
<1>8. ApiP!ItemsWritten <=> Api!ItemsWritten
  BY
   DEF Api!ItemsWritten, ApiP!ItemsWritten, Api!Contents, ApiP!Contents,
       Api!Count, ApiP!Count, Api!Slot, ApiP!Slot, Api!Call, ApiP!Call
<1>9. ApiP!Contents = Api!Contents
  BY DEF Api!Contents, ApiP!Contents, Api!Count, ApiP!Count, Api!Slot, ApiP!Slot
<1>10. ApiP!RingInv <=> Api!RingInv
  BY DEF Api!RingInv, ApiP!RingInv
<1> QED
  BY <1>1, <1>2, <1>3, <1>4, <1>5, <1>6, <1>7, <1>8, <1>9, <1>10

\* CalcP is Calc: the definitions of PCQueue are the same through both instances.
LEMMA CalcSame ==
  /\ Calc!Init => CalcP!Init
  /\ \A t \in CalcThreads : Calc!Continue(t) => CalcP!Continue(t)
  /\ \A t \in CalcThreads : Calc!Begin(t) => CalcP!Begin(t)
  /\ \A t \in CalcThreads : Calc!SpuriousWakeup(t) => CalcP!SpuriousWakeup(t)
  /\ Calc!Next => CalcP!Next
  /\ Calc!vars = CalcP!vars
  /\ CalcP!TypeOK <=> Calc!TypeOK
  /\ CalcP!RingInv <=> Calc!RingInv
  /\ CalcP!ItemsWritten <=> Calc!ItemsWritten
  /\ CalcP!Contents = Calc!Contents
<1>1. Calc!Init => CalcP!Init
  BY DEF Calc!Init, CalcP!Init
<1>2. \A t \in CalcThreads : Calc!Continue(t) => CalcP!Continue(t)
  BY ZenonT(60)
   DEF Calc!Continue, CalcP!Continue, Calc!pthread_mutex_lock,
       CalcP!pthread_mutex_lock, Calc!add_refused, CalcP!add_refused,
       Calc!add_admitted, CalcP!add_admitted, Calc!add_sleep,
       CalcP!add_sleep, Calc!add_insert, CalcP!add_insert, Calc!add_signal,
       CalcP!add_signal, Calc!remove_take, CalcP!remove_take,
       Calc!remove_refused, CalcP!remove_refused, Calc!remove_wait,
       CalcP!remove_wait, Calc!remove_sleep, CalcP!remove_sleep,
       Calc!remove_signal, CalcP!remove_signal, Calc!remove_exit,
       CalcP!remove_exit, Calc!exit_set, CalcP!exit_set, Calc!notify,
       CalcP!notify, Calc!WakeOne, CalcP!WakeOne, Calc!signal_not_empty,
       CalcP!signal_not_empty, Calc!signal_not_full, CalcP!signal_not_full,
       Calc!AfterLock, CalcP!AfterLock
<1>3. \A t \in CalcThreads : Calc!Begin(t) => CalcP!Begin(t)
  BY Zenon
   DEF Calc!Begin, CalcP!Begin, Calc!queue_add, CalcP!queue_add,
       Calc!queue_remove, CalcP!queue_remove, Calc!order_exit,
       CalcP!order_exit, Calc!set_exit_flag, CalcP!set_exit_flag,
       Calc!bare_signal, CalcP!bare_signal, Calc!notify_if_empty,
       CalcP!notify_if_empty, Calc!producer_lock, CalcP!producer_lock,
       Calc!producer_unlock, CalcP!producer_unlock, Calc!WakeOne,
       CalcP!WakeOne, Calc!signal_not_empty, CalcP!signal_not_empty,
       Calc!Idle, CalcP!Idle
<1>4. \A t \in CalcThreads : Calc!SpuriousWakeup(t) => CalcP!SpuriousWakeup(t)
  BY Zenon DEF Calc!SpuriousWakeup, CalcP!SpuriousWakeup
<1>5. Calc!Next => CalcP!Next
  BY <1>2, <1>3, <1>4, Zenon DEF Calc!Next, CalcP!Next
<1>6. Calc!vars = CalcP!vars
  BY DEF Calc!vars, CalcP!vars
<1>7. CalcP!TypeOK <=> Calc!TypeOK
  BY
   DEF Calc!TypeOK, CalcP!TypeOK, Calc!QueueType, CalcP!QueueType,
       Calc!OpType, CalcP!OpType, Calc!Locations, CalcP!Locations
<1>8. CalcP!ItemsWritten <=> Calc!ItemsWritten
  BY
   DEF Calc!ItemsWritten, CalcP!ItemsWritten, Calc!Contents, CalcP!Contents,
       Calc!Count, CalcP!Count, Calc!Slot, CalcP!Slot, Calc!Call, CalcP!Call
<1>9. CalcP!Contents = Calc!Contents
  BY DEF Calc!Contents, CalcP!Contents, Calc!Count, CalcP!Count, Calc!Slot, CalcP!Slot
<1>10. CalcP!RingInv <=> Calc!RingInv
  BY DEF Calc!RingInv, CalcP!RingInv
<1> QED
  BY <1>1, <1>2, <1>3, <1>4, <1>5, <1>6, <1>7, <1>8, <1>9, <1>10

-----------------------------------------------------------------------------
(* api_queue                                                               *)

\* The trades of the message at hand are work items.
MessageOK ==
  /\ trades \in 0..MaxTrades
  /\ message \in Seq(WorkItem)

\* The message at hand changes when one is received and when a trade of it is
\* parsed.
LEMMA MessageFrame ==
  ASSUME [Next]_vars, ~ client_receive, ~ json_callback
  PROVE  UNCHANGED <<message, trades>>
<1>1. CASE WSSClient
  BY <1>1 DEF WSSClient, finnhub_connection_setup, client_established,
     client_connection_error, receive_lock, receive_unlock, service_idle,
     client_closed, closed_signal, wss_notify, wss_return, LoopTest, wssvars
<1>2. CASE \E w \in Writers : Writer(w)
  BY <1>2 DEF Writer, writer_remove, writer_forward, writer_pass_exit,
     writer_return, OnlyCalc, wssvars
<1>3. CASE Calculator
  BY <1>3 DEF Calculator, calculator_start, calculator_compute,
     calculator_return, OnlyCalc, wssvars
<1>4. CASE SIGALRM \/ \E h \in Alarms : send_directive_to_queue(h)
  BY <1>4 DEF SIGALRM, send_directive_to_queue, directive_lock, directive_add,
     directive_limit, directive_unlock, wssvars
<1>5. CASE \E i \in Interrupts : SIGINT(i) \/ close_connection_interrupt(i)
  BY <1>5 DEF SIGINT, close_connection_interrupt, wssvars
<1>6. CASE main_exit \/ Spurious \/ (\E t \in ApiThreads : ApiContinue(t))
           \/ (\E t \in CalcThreads : CalcContinue(t)) \/ UNCHANGED vars
  BY <1>6 DEF main_exit, Spurious, ApiContinue, CalcContinue, vars, wssvars
<1> QED
  BY <1>1, <1>2, <1>3, <1>4, <1>5, <1>6 DEF Next

\* What a message holds, when it is received and when it is parsed.
LEMMA MessageStep == MessageOK /\ [Next]_vars => MessageOK'
<1> SUFFICES ASSUME MessageOK, [Next]_vars PROVE MessageOK'
  OBVIOUS
<1>1. CASE client_receive
  <2>1. PICK n \in 1..MaxBatch :
          /\ trades + n <= MaxTrades
          /\ trades' = trades + n
          /\ message' = [k \in 1..n |-> Trade(trades + k, trades)]
    BY <1>1 DEF client_receive
  <2>2. n \in Nat /\ trades' \in 0..MaxTrades
    BY <2>1, PipelineAssumption DEF MessageOK
  <2>3. \A k \in 1..n : Trade(trades + k, trades) \in WorkItem
    <3> TAKE k \in 1..n
    <3>1. trades + k \in 1..MaxTrades /\ trades \in 0..MaxTrades
      BY <2>1, <2>2, PipelineAssumption DEF MessageOK
    <3> QED
      BY <3>1 DEF WorkItem
  <2>4. message' \in [1..n -> WorkItem]
    BY <2>1, <2>3
  <2> QED
    BY <2>2, <2>4 DEF MessageOK
<1>2. CASE json_callback
  BY <1>2 DEF json_callback, MessageOK
<1>3. CASE ~ client_receive /\ ~ json_callback
  BY <1>3, MessageFrame DEF MessageOK
<1> QED
  BY <1>1, <1>2, <1>3

\* Every step of the program is a step of PCQueue on api_queue, or leaves it
\* alone.
LEMMA ApiStep ==
  ASSUME MessageOK, Next
  PROVE  \/ \E t \in ApiThreads : Api!Begin(t) \/ Api!SpuriousWakeup(t)
         \/ \E t \in ApiThreads : ApiContinue(t)
         \/ UNCHANGED Api!vars
<1> DEFINE Begins == \E t \in ApiThreads : Api!Begin(t) \/ Api!SpuriousWakeup(t)
<1> USE DEF Api!vars
<1>0. ASSUME NEW t \in ApiThreads, Api!Begin(t) PROVE Begins
  BY <1>0
<1> HIDE DEF Begins
<1>1. CASE WSSClient
  <2>1. wss \in ApiThreads
    BY DEF ApiThreads
  <2>2. CASE json_callback
    <3>1. Head(message) \in WorkItem
      BY <2>2 DEF json_callback, MessageOK
    <3> QED
      BY <1>0, <2>1, <2>2, <3>1 DEF json_callback, Api!Begin
  <2>3. CASE receive_lock \/ receive_unlock \/ closed_signal \/ wss_notify
    BY <1>0, <2>1, <2>3 DEF receive_lock, receive_unlock, closed_signal, wss_notify,
       Api!Begin
  <2>4. CASE finnhub_connection_setup \/ client_established \/ client_connection_error
             \/ client_receive \/ service_idle \/ client_closed \/ wss_return
    BY <2>4 DEF finnhub_connection_setup, client_established,
       client_connection_error, client_receive, service_idle, client_closed,
       wss_return, NoQueue, queues
  <2> QED
    BY <1>1, <2>2, <2>3, <2>4 DEF WSSClient
<1>2. ASSUME NEW w \in Writers, Writer(w) PROVE Begins \/ UNCHANGED Api!vars
  <2>1. w \in ApiThreads
    BY DEF ApiThreads
  <2>2. CASE writer_remove(w)
    BY <1>0, <2>1, <2>2 DEF writer_remove, Api!Begin
  <2>3. CASE writer_forward(w) \/ writer_pass_exit(w) \/ writer_return(w)
    BY <2>3 DEF writer_forward, writer_pass_exit, writer_return, OnlyCalc
  <2> QED
    BY <1>2, <2>2, <2>3 DEF Writer
<1>3. CASE Calculator
  BY <1>3 DEF Calculator, calculator_start, calculator_compute, calculator_return,
     OnlyCalc, NoQueue, queues
<1>4. CASE SIGALRM
  BY <1>4 DEF SIGALRM, NoQueue, queues
<1>5. ASSUME NEW h \in Alarms, send_directive_to_queue(h) PROVE Begins
  <2>1. h \in ApiThreads /\ Directive(h) \in WorkItem
    BY DEF ApiThreads, WorkItem, Alarms
  <2>2. CASE directive_add(h)
    BY <1>0, <2>1, <2>2 DEF directive_add, Api!Begin
  <2>3. CASE directive_lock(h) \/ directive_limit(h) \/ directive_unlock(h)
    BY <1>0, <2>1, <2>3 DEF directive_lock, directive_limit, directive_unlock, Api!Begin
  <2> QED
    BY <1>5, <2>2, <2>3 DEF send_directive_to_queue
<1>6. ASSUME NEW i \in Interrupts, SIGINT(i) PROVE Begins
  BY <1>0, <1>6 DEF SIGINT, ApiThreads, Api!Begin
<1>7. ASSUME NEW i \in Interrupts, close_connection_interrupt(i)
      PROVE  UNCHANGED Api!vars
  BY <1>7 DEF close_connection_interrupt, NoQueue, queues
<1>8. CASE main_exit
  BY <1>8 DEF main_exit, NoQueue, queues
<1>9. ASSUME NEW t \in ApiThreads, ApiContinue(t) PROVE \E s \in ApiThreads : ApiContinue(s)
  BY <1>9
<1>10. ASSUME NEW t \in CalcThreads, CalcContinue(t) PROVE UNCHANGED Api!vars
  BY <1>10 DEF CalcContinue
<1>11. CASE Spurious
  BY <1>11 DEF Spurious, Begins
<1> QED
  BY <1>1, <1>2, <1>3, <1>4, <1>5, <1>6, <1>7, <1>8, <1>9, <1>10, <1>11 DEF Next, Begins

\* The program works on api_queue only by the operations of PCQueue, for any
\* number of Writers, signals and trades.
THEOREM ApiCorrect == Spec => ApiQueueSpec
<1>1. Init => Api!Init /\ MessageOK
  BY PipelineAssumption DEF Init, MessageOK
<1>2. MessageOK /\ [Next]_vars => [Api!Next]_(Api!vars)
  <2>1. CASE UNCHANGED vars
    BY <2>1 DEF vars, queues, Api!vars
  <2> QED
    BY <2>1, ApiStep DEF Api!Next, ApiContinue
<1> QED
  BY <1>1, <1>2, MessageStep, PTL DEF Spec, ApiQueueSpec, Api!Spec

\* What is proved of PCQueue, for api_queue.
LEMMA ApiInvariants ==
  Spec => [](Api!TypeOK /\ Api!RingInv /\ Api!ItemsWritten /\ ApiP!Callers)
<1>1. Api!Init => ApiP!Init
  BY ApiSame
<1>2. [Api!Next]_(Api!vars) => [ApiP!Next]_(ApiP!vars)
  BY ApiSame DEF Api!vars, ApiP!vars
<1>3. Api!Spec => ApiP!Spec
  BY <1>1, <1>2, PTL DEF Api!Spec, ApiP!Spec, Api!vars, ApiP!vars
<1>4. ApiP!Spec => []ApiP!TypeOK
  BY ApiQueueAssumption, ApiP!TypeCorrect
<1>5. ApiP!Spec => []ApiP!ItemsWritten
  BY ApiQueueAssumption, ApiP!ItemsCorrect
<1>6. ApiP!Spec => []ApiP!RingInv
  BY ApiQueueAssumption, ApiP!RingCorrect
<1>7. ApiP!Spec => []ApiP!Callers
  BY ApiQueueAssumption, ApiP!CallersCorrect
<1>8. /\ ApiP!TypeOK <=> Api!TypeOK
      /\ ApiP!RingInv <=> Api!RingInv
      /\ ApiP!ItemsWritten <=> Api!ItemsWritten
  BY ApiSame
<1> QED
  BY <1>3, <1>4, <1>5, <1>6, <1>7, <1>8, ApiCorrect, PTL DEF ApiQueueSpec

-----------------------------------------------------------------------------
(* The control state of the threads and handlers.                          *)

Location ==
  {"start", "connect", "service", "receive", "parse",
   "closed_signal", "destroy", "notify",
   "remove", "forward", "pass_signal", "lock", "add", "added",
   "unlock", "exit", "done", "returned", "exited"}

\* The types of the control state, and a fact that bounds hour_counter: a
\* counted hour took at least one tick.
ControlOK ==
  /\ pc \in [Hosts \cup Alarms \cup Interrupts -> Location]
  /\ frames \in [Hosts -> Seq(Alarms \cup Interrupts)]
  /\ link \in {"down", "opening", "open"}
  /\ sigint_bound \in BOOLEAN
  /\ clock \in [minute_counter : 0..(MINUTES_PER_HOUR - 1),
                hour_counter : 0..MaxTicks, ticks : 0..MaxTicks]
  /\ clock.hour_counter <= clock.ticks
  /\ trade_logs \in [1..MaxTrades -> Nat]

\* A tick counts one minute, and an hour when the minutes start over.
LEMMA ClockStep ==
  ASSUME ControlOK, SIGALRM
  PROVE  /\ clock' \in [minute_counter : 0..(MINUTES_PER_HOUR - 1),
                        hour_counter : 0..MaxTicks, ticks : 0..MaxTicks]
         /\ clock'.hour_counter <= clock'.ticks
<1> DEFINE m == clock.minute_counter
           N == MINUTES_PER_HOUR
<1>1. /\ m \in 0..(N - 1) /\ N \in Nat \ {0}
      /\ clock.hour_counter \in 0..MaxTicks /\ clock.ticks \in 0..MaxTicks
      /\ clock.hour_counter <= clock.ticks
      /\ clock.ticks + 1 \in 1..MaxTicks /\ MaxTicks \in Nat
  BY PipelineAssumption DEF ControlOK, SIGALRM, Alarms
<1>2. /\ (m + 1) % N \in 0..(N - 1)
      /\ (m + 1) \div N \in 0..1
  <2> HIDE DEF m, N
  <2>1. CASE m + 1 = N
    <3>1. N % N = 0 /\ N \div N = 1
      BY <1>1
    <3> QED
      BY <1>1, <2>1, <3>1
  <2>2. CASE m + 1 < N
    <3>1. m + 1 \in 0..(N - 1)
      BY <1>1, <2>2
    <3>2. (m + 1) % N = m + 1 /\ (m + 1) \div N = 0
      BY <1>1, <3>1
    <3> QED
      BY <1>1, <3>1, <3>2
  <2> QED
    BY <1>1, <2>1, <2>2
<1>3. clock' = [minute_counter |-> (m + 1) % N,
                hour_counter |-> clock.hour_counter + (m + 1) \div N,
                ticks |-> clock.ticks + 1]
  BY DEF SIGALRM, CountMinute
<1> HIDE DEF m, N
<1>4. DEFINE q == (m + 1) \div N
             r == (m + 1) % N
<1>5. q \in 0..1 /\ r \in 0..(N - 1)
  BY <1>2
<1> HIDE DEF q, r
<1>6. clock' = [minute_counter |-> r, hour_counter |-> clock.hour_counter + q,
                ticks |-> clock.ticks + 1]
  BY <1>3 DEF q, r
<1> QED
  BY <1>1, <1>5, <1>6 DEF N

\* A handler that begins or returns leaves stacks of handlers.
LEMMA FramesStep ==
  ASSUME ControlOK
  PROVE  /\ \A h \in Alarms \cup Interrupts : \A Kind :
              Deliver(h, Kind) => frames' \in [Hosts -> Seq(Alarms \cup Interrupts)]
         /\ \A h : Return(h) => frames' \in [Hosts -> Seq(Alarms \cup Interrupts)]
<1>1. ASSUME NEW h \in Alarms \cup Interrupts, NEW Kind, Deliver(h, Kind)
      PROVE  frames' \in [Hosts -> Seq(Alarms \cup Interrupts)]
  <2>1. PICK t \in Hosts : frames' = [frames EXCEPT ![t] = <<h>> \o @]
    BY <1>1 DEF Deliver
  <2>2. frames[t] \in Seq(Alarms \cup Interrupts)
    BY DEF ControlOK
  <2>3. <<h>> \in Seq(Alarms \cup Interrupts)
    OBVIOUS
  <2>4. <<h>> \o frames[t] \in Seq(Alarms \cup Interrupts)
    BY <2>2, <2>3
  <2> QED
    BY <2>1, <2>4 DEF ControlOK
<1>2. ASSUME NEW h, Return(h)
      PROVE  frames' \in [Hosts -> Seq(Alarms \cup Interrupts)]
  <2>1. PICK t \in Hosts :
          frames[t] # <<>> /\ frames' = [frames EXCEPT ![t] = Tail(@)]
    BY <1>2 DEF Return
  <2>2. Tail(frames[t]) \in Seq(Alarms \cup Interrupts)
    BY <2>1 DEF ControlOK
  <2> QED
    BY <2>1, <2>2 DEF ControlOK
<1> QED
  BY <1>1, <1>2

\* Every thread goes from one location of its routine to another.
LEMMA ControlStep == ControlOK /\ [Next]_vars => ControlOK'
<1> SUFFICES ASSUME ControlOK, [Next]_vars PROVE ControlOK'
  OBVIOUS
<1> USE DEF ControlOK
<1>0. /\ wss \in Hosts /\ calculator \in Hosts /\ main \in Hosts
      /\ Writers \subseteq Hosts
  BY DEF Hosts
<1>1. ASSUME NEW t \in Hosts \cup Alarms \cup Interrupts, NEW from, NEW to \in Location,
             Goto(t, from, to)
      PROVE  pc' \in [Hosts \cup Alarms \cup Interrupts -> Location]
  BY <1>1 DEF Goto
<1>2. CASE WSSClient
  <2>1. ASSUME NEW from, NEW connection \in {"down", "opening", "open"},
               NEW closed \in BOOLEAN, LoopTest(from, connection, closed)
        PROVE  /\ pc' \in [Hosts \cup Alarms \cup Interrupts -> Location]
               /\ link' \in {"down", "opening", "open"}
               /\ UNCHANGED <<sigint_bound, frames, clock>>
    <3>1. \E to \in {"service", "destroy", "connect"} : Goto(wss, from, to)
      BY <2>1 DEF LoopTest
    <3> QED
      BY <1>0, <1>1, <2>1, <3>1 DEF LoopTest, sigvars, Location
  <2>2. CASE client_established
    BY <2>1, <2>2 DEF client_established, subscribe_to_symbols, NoQueue
  <2>3. CASE client_connection_error \/ service_idle
    BY <2>1, <2>3 DEF client_connection_error, service_idle, NoQueue
  <2>4. CASE receive_unlock
    BY <2>1, <2>4 DEF receive_unlock, OnlyApi
  <2>5. CASE client_closed
    <3>1. \E from \in {"service", "destroy"}, to \in {"closed_signal", "connect"} :
            Goto(wss, from, to)
      BY <2>5 DEF client_closed
    <3> QED
      BY <1>0, <1>1, <2>5, <3>1 DEF client_closed, NoQueue, sigvars, Location
  <2>6. CASE finnhub_connection_setup
    BY <1>0, <1>1, <2>6 DEF finnhub_connection_setup, NoQueue, sigvars, Location
  <2>7. CASE client_receive
    BY <1>0, <1>1, <2>7 DEF client_receive, NoQueue, sigvars, Location
  <2>8. CASE receive_lock \/ closed_signal \/ wss_notify
    BY <1>0, <1>1, <2>8 DEF receive_lock, closed_signal, wss_notify, OnlyApi,
       wssvars, sigvars, Location
  <2>9. CASE json_callback
    BY <1>0, <1>1, <2>9 DEF json_callback, OnlyApi, sigvars, Location
  <2>10. CASE wss_return
    BY <1>0, <1>1, <2>10 DEF wss_return, NoQueue, wssvars, sigvars, Location
  <2> QED
    BY <1>2, <2>2, <2>3, <2>4, <2>5, <2>6, <2>7, <2>8, <2>9, <2>10 DEF WSSClient
<1>3. ASSUME NEW w \in Writers, Writer(w) PROVE ControlOK'
  <2>1. CASE writer_remove(w)
    BY <1>0, <1>1, <2>1 DEF writer_remove, OnlyApi, wssvars, sigvars, Location
  <2>2. CASE writer_forward(w)
    <3>1. trade_logs' \in [1..MaxTrades -> Nat]
      BY <2>2 DEF writer_forward, write_trade_to_file
    <3> QED
      BY <1>0, <1>1, <2>2, <3>1 DEF writer_forward, OnlyCalc, wssvars, sigvars, Location
  <2>3. CASE writer_pass_exit(w) \/ writer_return(w)
    BY <1>0, <1>1, <2>3 DEF writer_pass_exit, writer_return, OnlyCalc, wssvars,
       sigvars, Location
  <2> QED
    BY <1>3, <2>1, <2>2, <2>3 DEF Writer
<1>4. CASE Calculator
  BY <1>0, <1>1, <1>4 DEF Calculator, calculator_start, calculator_compute,
     calculator_return, OnlyCalc, NoQueue, wssvars, sigvars, Location
<1>5. CASE SIGALRM
  <2>1. clock.ticks + 1 \in Alarms
    BY <1>5 DEF SIGALRM
  <2>2. frames' \in [Hosts -> Seq(Alarms \cup Interrupts)]
    BY <1>5, <2>1, FramesStep DEF SIGALRM
  <2>3. pc' \in [Hosts \cup Alarms \cup Interrupts -> Location]
    BY <1>5, <2>1 DEF SIGALRM, Location
  <2> QED
    BY <1>5, <2>2, <2>3, ClockStep DEF SIGALRM, NoQueue, wssvars
<1>6. ASSUME NEW h \in Alarms, send_directive_to_queue(h) PROVE ControlOK'
  <2>1. CASE directive_lock(h) \/ directive_add(h) \/ directive_limit(h)
    BY <1>1, <2>1 DEF directive_lock, directive_add, directive_limit, OnlyApi,
       wssvars, sigvars, Location
  <2>2. CASE directive_unlock(h)
    <3>1. frames' \in [Hosts -> Seq(Alarms \cup Interrupts)]
      BY <2>2, FramesStep DEF directive_unlock
    <3> QED
      BY <1>1, <2>2, <3>1 DEF directive_unlock, OnlyApi, wssvars, Location
  <2> QED
    BY <1>6, <2>1, <2>2 DEF send_directive_to_queue
<1>7. ASSUME NEW i \in Interrupts, SIGINT(i) PROVE ControlOK'
  <2>1. frames' \in [Hosts -> Seq(Alarms \cup Interrupts)]
    BY <1>7, FramesStep DEF SIGINT
  <2> QED
    BY <1>7, <2>1 DEF SIGINT, OnlyApi, wssvars, Location
<1>8. ASSUME NEW i \in Interrupts, close_connection_interrupt(i) PROVE ControlOK'
  <2>1. frames' \in [Hosts -> Seq(Alarms \cup Interrupts)]
    BY <1>8, FramesStep DEF close_connection_interrupt
  <2> QED
    BY <1>1, <1>8, <2>1 DEF close_connection_interrupt, NoQueue, wssvars, Location
<1>9. CASE main_exit
  BY <1>0, <1>1, <1>9 DEF main_exit, NoQueue, wssvars, sigvars, Location
<1>10. CASE Spurious \/ (\E t \in ApiThreads : ApiContinue(t))
            \/ (\E t \in CalcThreads : CalcContinue(t)) \/ UNCHANGED vars
  BY <1>10 DEF Spurious, ApiContinue, CalcContinue, vars, wssvars, sigvars
<1> QED
  BY <1>2, <1>3, <1>4, <1>5, <1>6, <1>7, <1>8, <1>9, <1>10 DEF Next

-----------------------------------------------------------------------------
(* calculation_queue                                                       *)

\* The progress of a thread on api_queue, and its place in its routine, change
\* only in its own steps.
LEMMA OwnSteps ==
  ASSUME ControlOK, Api!TypeOK, Next, NEW s \in ApiThreads,
         ~ ApiContinue(s),
         s = wss => ~ WSSClient,
         s \in Writers => ~ Writer(s),
         s \in Alarms => ~ send_directive_to_queue(s) /\ ~ (SIGALRM /\ s = clock.ticks + 1),
         s \in Interrupts => ~ SIGINT(s) /\ ~ close_connection_interrupt(s)
  PROVE  api_op'[s] = api_op[s] /\ pc'[s] = pc[s]
<1> USE DEF Goto
<1>0. /\ api_op \in [ApiThreads -> Api!OpType]
      /\ pc \in [Hosts \cup Alarms \cup Interrupts -> Location]
      /\ s \in Hosts \cup Alarms \cup Interrupts
  BY DEF Api!TypeOK, ControlOK, ApiThreads, Hosts
<1>1. CASE WSSClient
  <2>1. CASE json_callback \/ wss_notify
    BY <1>0, <1>1, <2>1 DEF json_callback, wss_notify, Api!queue_add, Api!notify_if_empty
  <2>2. CASE receive_lock \/ closed_signal
    BY <1>0, <1>1, <2>2 DEF receive_lock, closed_signal, Api!producer_lock, Api!bare_signal
  <2>3. CASE receive_unlock
    BY <1>0, <1>1, <2>3 DEF receive_unlock, LoopTest, Api!producer_unlock
  <2>4. CASE client_established
    BY <1>0, <1>1, <2>4 DEF client_established, LoopTest, NoQueue, queues
  <2>5. CASE client_connection_error \/ service_idle
    BY <1>0, <1>1, <2>5 DEF client_connection_error, service_idle, LoopTest, NoQueue, queues
  <2>6. CASE finnhub_connection_setup \/ client_receive \/ client_closed \/ wss_return
    BY <1>0, <1>1, <2>6 DEF finnhub_connection_setup, client_receive, client_closed,
       wss_return, NoQueue, queues
  <2> QED
    BY <1>1, <2>1, <2>2, <2>3, <2>4, <2>5, <2>6 DEF WSSClient
<1>2. ASSUME NEW w \in Writers, Writer(w) PROVE api_op'[s] = api_op[s] /\ pc'[s] = pc[s]
  <2>1. CASE writer_remove(w)
    BY <1>0, <1>2, <2>1 DEF writer_remove, Api!queue_remove
  <2>2. CASE writer_forward(w) \/ writer_pass_exit(w) \/ writer_return(w)
    BY <1>0, <1>2, <2>2 DEF writer_forward, writer_pass_exit, writer_return, OnlyCalc
  <2> QED
    BY <1>2, <2>1, <2>2 DEF Writer
<1>3. CASE Calculator
  BY <1>0, <1>3, PipelineAssumption DEF Calculator, calculator_start, calculator_compute,
     calculator_return, OnlyCalc, NoQueue, queues, ApiThreads, Alarms
<1>4. CASE SIGALRM
  BY <1>0, <1>4 DEF SIGALRM, NoQueue, queues
<1>5. ASSUME NEW h \in Alarms, send_directive_to_queue(h)
      PROVE  api_op'[s] = api_op[s] /\ pc'[s] = pc[s]
  <2>1. CASE directive_add(h)
    BY <1>0, <1>5, <2>1 DEF directive_add, Api!queue_add
  <2>2. CASE directive_lock(h) \/ directive_limit(h) \/ directive_unlock(h)
    BY <1>0, <1>5, <2>2 DEF directive_lock, directive_limit, directive_unlock,
       Api!producer_lock, Api!set_exit_flag, Api!producer_unlock
  <2> QED
    BY <1>5, <2>1, <2>2 DEF send_directive_to_queue
<1>6. ASSUME NEW i \in Interrupts, SIGINT(i) \/ close_connection_interrupt(i)
      PROVE  api_op'[s] = api_op[s] /\ pc'[s] = pc[s]
  BY <1>0, <1>6 DEF SIGINT, close_connection_interrupt, Api!order_exit, NoQueue, queues
<1>7. CASE main_exit
  BY <1>0, <1>7, PipelineAssumption DEF main_exit, NoQueue, queues, ApiThreads, Alarms
<1>8. ASSUME NEW t \in ApiThreads, ApiContinue(t)
      PROVE  api_op'[s] = api_op[s] /\ pc'[s] = pc[s]
  <2>1. t # s
    BY <1>8
  <2>2. api_op'[s] = api_op[s]
    <3>1. ApiP!TypeOK /\ ApiP!Continue(t)
      BY <1>8, ApiSame DEF ApiContinue
    <3> QED
      BY <2>1, <3>1, ApiQueueAssumption, ApiP!OpFrame
  <2> QED
    BY <1>8, <2>2 DEF ApiContinue
<1>9. ASSUME NEW t \in CalcThreads, CalcContinue(t)
      PROVE  api_op'[s] = api_op[s] /\ pc'[s] = pc[s]
  BY <1>9 DEF CalcContinue
<1>10. CASE Spurious
  BY <1>10 DEF Spurious, Api!SpuriousWakeup
<1> QED
  BY <1>1, <1>2, <1>3, <1>4, <1>5, <1>6, <1>7, <1>8, <1>9, <1>10 DEF Next

\* A Writer in queue_remove, or back from it: if the call returns 0, it
\* returns a work item.
WritersRemove == \A w \in Writers : pc[w] = "remove" => ApiP!RemoveCalled(w)

\* Every step keeps this of the Writers' calls of queue_remove.
LEMMA WritersRemoveStep ==
  ControlOK /\ Api!TypeOK /\ Api!ItemsWritten /\ WritersRemove /\ [Next]_vars
    => WritersRemove'
<1> SUFFICES ASSUME ControlOK, Api!TypeOK, Api!ItemsWritten, WritersRemove, [Next]_vars,
                    NEW w \in Writers, pc'[w] = "remove"
             PROVE  ApiP!RemoveCalled(w)'
  BY DEF WritersRemove
<1>0. w \in ApiThreads /\ w # wss /\ w \notin Alarms /\ w \notin Interrupts
  BY PipelineAssumption DEF ApiThreads, Alarms
<1>1. CASE Writer(w)
  <2>1. writer_remove(w)
    BY <1>1 DEF Writer, writer_forward, writer_pass_exit, writer_return, Goto,
       ControlOK, Hosts
  <2> QED
    BY <1>0, <2>1 DEF writer_remove, Api!queue_remove, Api!TypeOK, ApiP!RemoveCalled
<1>2. CASE ApiContinue(w)
  <2>1. ApiP!RemoveCalled(w)
    BY <1>2 DEF ApiContinue, WritersRemove
  <2>2. ApiP!TypeOK /\ ApiP!ItemsWritten /\ ApiP!Continue(w)
    BY <1>0, <1>2, ApiSame DEF ApiContinue
  <2> QED
    BY <1>0, <2>1, <2>2, ApiQueueAssumption, ApiP!RemoveStep
<1>3. CASE UNCHANGED vars
  BY <1>3 DEF vars, queues, WritersRemove, ApiP!RemoveCalled
<1>4. CASE Next /\ ~ Writer(w) /\ ~ ApiContinue(w)
  <2>1. api_op'[w] = api_op[w] /\ pc'[w] = pc[w]
    BY <1>0, <1>4, OwnSteps
  <2> QED
    BY <2>1 DEF WritersRemove, ApiP!RemoveCalled
<1> QED
  BY <1>1, <1>2, <1>3, <1>4

\* Every step of the program is a step of PCQueue on calculation_queue, or
\* leaves it alone.
LEMMA CalcStep ==
  ASSUME WritersRemove, Next
  PROVE  \/ \E t \in CalcThreads : Calc!Begin(t) \/ Calc!SpuriousWakeup(t)
         \/ \E t \in CalcThreads : CalcContinue(t)
         \/ UNCHANGED Calc!vars
<1> DEFINE Begins == \E t \in CalcThreads : Calc!Begin(t) \/ Calc!SpuriousWakeup(t)
<1> USE DEF Calc!vars
<1>0. ASSUME NEW t \in CalcThreads, Calc!Begin(t) PROVE Begins
  BY <1>0
<1> HIDE DEF Begins
<1>1. CASE WSSClient
  BY <1>1 DEF WSSClient, finnhub_connection_setup, client_established,
     client_connection_error, client_receive, receive_lock, json_callback,
     receive_unlock, service_idle, client_closed, closed_signal, wss_notify,
     wss_return, OnlyApi, NoQueue, queues
<1>2. ASSUME NEW w \in Writers, Writer(w) PROVE Begins \/ UNCHANGED Calc!vars
  <2>1. w \in CalcThreads
    BY DEF CalcThreads
  <2>2. CASE writer_forward(w)
    <3>1. api_op[w].item \in WorkItem
      BY <2>2 DEF writer_forward, Goto, Api!Idle, WritersRemove, ApiP!RemoveCalled
    <3> QED
      BY <1>0, <2>1, <2>2, <3>1 DEF writer_forward, Calc!Begin
  <2>3. CASE writer_pass_exit(w) \/ writer_return(w)
    BY <1>0, <2>1, <2>3 DEF writer_pass_exit, writer_return, Calc!Begin
  <2>4. CASE writer_remove(w)
    BY <2>4 DEF writer_remove, OnlyApi
  <2> QED
    BY <1>2, <2>2, <2>3, <2>4 DEF Writer
<1>3. CASE Calculator
  <2>1. calculator \in CalcThreads
    BY DEF CalcThreads
  <2>2. CASE calculator_start \/ calculator_compute
    BY <1>0, <2>1, <2>2 DEF calculator_start, calculator_compute, Calc!Begin
  <2>3. CASE calculator_return
    BY <2>3 DEF calculator_return, NoQueue, queues
  <2> QED
    BY <1>3, <2>2, <2>3 DEF Calculator
<1>4. CASE SIGALRM \/ main_exit
  BY <1>4 DEF SIGALRM, main_exit, NoQueue, queues
<1>5. CASE \E h \in Alarms : send_directive_to_queue(h)
  BY <1>5 DEF send_directive_to_queue, directive_lock, directive_add, directive_limit,
     directive_unlock, OnlyApi
<1>6. CASE \E i \in Interrupts : SIGINT(i) \/ close_connection_interrupt(i)
  BY <1>6 DEF SIGINT, close_connection_interrupt, OnlyApi, NoQueue, queues
<1>7. CASE \E t \in ApiThreads : ApiContinue(t)
  BY <1>7 DEF ApiContinue
<1>8. ASSUME NEW t \in CalcThreads, CalcContinue(t) PROVE \E s \in CalcThreads : CalcContinue(s)
  BY <1>8
<1>9. CASE Spurious
  BY <1>9 DEF Spurious, Begins
<1> QED
  BY <1>1, <1>2, <1>3, <1>4, <1>5, <1>6, <1>7, <1>8, <1>9 DEF Next, Begins

\* The invariants of the control state and of the two queues so far.
LEMMA ControlCorrect == Spec => [](ControlOK /\ MessageOK /\ WritersRemove)
<1>1. ASSUME Init PROVE ControlOK /\ MessageOK
  <2>1. /\ pc \in [Hosts \cup Alarms \cup Interrupts -> Location]
        /\ frames \in [Hosts -> Seq(Alarms \cup Interrupts)]
    BY <1>1 DEF Init, Location
  <2>2. /\ 0 \in 0..(MINUTES_PER_HOUR - 1) /\ 0 \in 0..MaxTicks
        /\ 0 \in 0..MaxTrades
    BY PipelineAssumption
  <2>3. /\ clock \in [minute_counter : 0..(MINUTES_PER_HOUR - 1),
                      hour_counter : 0..MaxTicks, ticks : 0..MaxTicks]
        /\ clock.hour_counter <= clock.ticks
    BY <1>1, <2>2 DEF Init
  <2>4. trade_logs \in [1..MaxTrades -> Nat]
    BY <1>1 DEF Init
  <2>5. link = "down" /\ sigint_bound = FALSE /\ message = <<>> /\ trades = 0
    BY <1>1 DEF Init
  <2>6. message \in Seq(WorkItem)
    BY <2>5
  <2>7. MessageOK
    BY <2>2, <2>5, <2>6 DEF MessageOK
  <2>8. link \in {"down", "opening", "open"} /\ sigint_bound \in BOOLEAN
    BY <2>5
  <2> QED
    BY <2>1, <2>3, <2>4, <2>7, <2>8 DEF ControlOK
<1>2. Init => WritersRemove
  BY DEF Init, WritersRemove, Hosts
<1> QED
  BY <1>1, <1>2, ControlStep, MessageStep, WritersRemoveStep, ApiInvariants, PTL DEF Spec

\* The program works on calculation_queue only by the operations of PCQueue:
\* a Writer passes on nothing but the item it was handed.
THEOREM CalcCorrect == Spec => CalcQueueSpec
<1>1. Init => Calc!Init
  BY DEF Init
<1>2. WritersRemove /\ [Next]_vars => [Calc!Next]_(Calc!vars)
  <2>1. CASE UNCHANGED vars
    BY <2>1 DEF vars, queues, Calc!vars
  <2> QED
    BY <2>1, CalcStep DEF Calc!Next, CalcContinue
<1> QED
  BY <1>1, <1>2, ControlCorrect, PTL DEF Spec, CalcQueueSpec, Calc!Spec

\* What is proved of PCQueue, for calculation_queue.
LEMMA CalcInvariants ==
  Spec => [](Calc!TypeOK /\ Calc!RingInv /\ Calc!ItemsWritten /\ CalcP!Callers)
<1>1. Calc!Init => CalcP!Init
  BY CalcSame
<1>2. [Calc!Next]_(Calc!vars) => [CalcP!Next]_(CalcP!vars)
  BY CalcSame DEF Calc!vars, CalcP!vars
<1>3. Calc!Spec => CalcP!Spec
  BY <1>1, <1>2, PTL DEF Calc!Spec, CalcP!Spec, Calc!vars, CalcP!vars
<1>4. CalcP!Spec => []CalcP!TypeOK
  BY CalcQueueAssumption, CalcP!TypeCorrect
<1>5. CalcP!Spec => []CalcP!ItemsWritten
  BY CalcQueueAssumption, CalcP!ItemsCorrect
<1>6. CalcP!Spec => []CalcP!RingInv
  BY CalcQueueAssumption, CalcP!RingCorrect
<1>7. CalcP!Spec => []CalcP!Callers
  BY CalcQueueAssumption, CalcP!CallersCorrect
<1>8. /\ CalcP!TypeOK <=> Calc!TypeOK
      /\ CalcP!RingInv <=> Calc!RingInv
      /\ CalcP!ItemsWritten <=> Calc!ItemsWritten
  BY CalcSame
<1> QED
  BY <1>3, <1>4, <1>5, <1>6, <1>7, <1>8, CalcCorrect, PTL DEF CalcQueueSpec

-----------------------------------------------------------------------------
(* The types of the program.                                               *)

\* The progress of a thread on calculation_queue, and its place in its
\* routine, change only in its own steps.
LEMMA CalcOwnSteps ==
  ASSUME ControlOK, Calc!TypeOK, Next, NEW s \in CalcThreads,
         ~ CalcContinue(s),
         s = calculator => ~ Calculator,
         s \in Writers => ~ Writer(s)
  PROVE  calc_op'[s] = calc_op[s] /\ pc'[s] = pc[s]
<1> USE DEF Goto
<1>0. /\ calc_op \in [CalcThreads -> Calc!OpType]
      /\ pc \in [Hosts \cup Alarms \cup Interrupts -> Location]
      /\ s \in Hosts \cup Alarms \cup Interrupts
      /\ s \notin {wss, main} \cup Alarms \cup Interrupts
  BY PipelineAssumption DEF Calc!TypeOK, ControlOK, CalcThreads, Hosts, Alarms
<1>1. CASE WSSClient
  <2>1. CASE receive_unlock \/ client_established \/ client_connection_error \/ service_idle
    BY <1>0, <2>1 DEF receive_unlock, client_established, client_connection_error,
       service_idle, LoopTest, OnlyApi, NoQueue, queues
  <2>2. CASE json_callback \/ wss_notify \/ receive_lock \/ closed_signal
    BY <1>0, <2>2 DEF json_callback, wss_notify, receive_lock, closed_signal, OnlyApi
  <2>3. CASE finnhub_connection_setup \/ client_receive \/ client_closed \/ wss_return
    BY <1>0, <2>3 DEF finnhub_connection_setup, client_receive, client_closed,
       wss_return, NoQueue, queues
  <2> QED
    BY <1>1, <2>1, <2>2, <2>3 DEF WSSClient
<1>2. ASSUME NEW w \in Writers, Writer(w)
      PROVE  calc_op'[s] = calc_op[s] /\ pc'[s] = pc[s]
  <2>1. CASE writer_remove(w) \/ writer_pass_exit(w) \/ writer_return(w)
    BY <1>0, <1>2, <2>1 DEF writer_remove, writer_pass_exit, writer_return, OnlyApi,
       Calc!set_exit_flag, Calc!bare_signal
  <2>2. CASE writer_forward(w)
    BY <1>0, <1>2, <2>2 DEF writer_forward, Calc!queue_add
  <2> QED
    BY <1>2, <2>1, <2>2 DEF Writer
<1>3. CASE Calculator
  <2>1. CASE calculator_start \/ calculator_compute
    BY <1>0, <1>3, <2>1 DEF calculator_start, calculator_compute, Calc!queue_remove
  <2>2. CASE calculator_return
    BY <1>0, <1>3, <2>2 DEF calculator_return, NoQueue, queues
  <2> QED
    BY <1>3, <2>1, <2>2 DEF Calculator
<1>4. CASE SIGALRM \/ main_exit
  BY <1>0, <1>4 DEF SIGALRM, main_exit, NoQueue, queues
<1>5. ASSUME NEW h \in Alarms, send_directive_to_queue(h)
      PROVE  calc_op'[s] = calc_op[s] /\ pc'[s] = pc[s]
  BY <1>0, <1>5 DEF send_directive_to_queue, directive_lock, directive_add,
     directive_limit, directive_unlock, OnlyApi
<1>6. ASSUME NEW i \in Interrupts, SIGINT(i) \/ close_connection_interrupt(i)
      PROVE  calc_op'[s] = calc_op[s] /\ pc'[s] = pc[s]
  BY <1>0, <1>6 DEF SIGINT, close_connection_interrupt, OnlyApi, NoQueue, queues
<1>7. ASSUME NEW t \in ApiThreads, ApiContinue(t)
      PROVE  calc_op'[s] = calc_op[s] /\ pc'[s] = pc[s]
  BY <1>7 DEF ApiContinue
<1>8. ASSUME NEW t \in CalcThreads, CalcContinue(t)
      PROVE  calc_op'[s] = calc_op[s] /\ pc'[s] = pc[s]
  <2>1. t # s
    BY <1>8
  <2>2. CalcP!TypeOK /\ CalcP!Continue(t)
    BY <1>8, CalcSame DEF CalcContinue
  <2>3. calc_op'[s] = calc_op[s]
    BY <2>1, <2>2, CalcQueueAssumption, CalcP!OpFrame
  <2> QED
    BY <1>8, <2>3 DEF CalcContinue
<1>9. CASE Spurious
  <2>1. \A t : Calc!SpuriousWakeup(t) => calc_op' = calc_op
    BY DEF Calc!SpuriousWakeup
  <2> QED
    BY <1>9, <2>1 DEF Spurious
<1> QED
  BY <1>1, <1>2, <1>3, <1>4, <1>5, <1>6, <1>7, <1>8, <1>9 DEF Next

\* Only a producer that inserts adds to entered, and only the Calculator adds
\* to computed.
LEMMA EnteredFrame ==
  ASSUME [Next]_vars, ~ \E t \in ApiThreads : ApiContinue(t)
  PROVE  entered' = entered
<1>1. CASE WSSClient
  BY <1>1 DEF WSSClient, finnhub_connection_setup, client_established,
     client_connection_error, client_receive, receive_lock, json_callback,
     receive_unlock, service_idle, client_closed, closed_signal, wss_notify,
     wss_return, OnlyApi, NoQueue
<1>2. CASE \E w \in Writers : Writer(w)
  BY <1>2 DEF Writer, writer_remove, writer_forward, writer_pass_exit, writer_return,
     OnlyApi, OnlyCalc
<1>3. CASE Calculator \/ SIGALRM \/ main_exit
  BY <1>3 DEF Calculator, calculator_start, calculator_compute, calculator_return,
     SIGALRM, main_exit, OnlyCalc, NoQueue
<1>4. CASE \E h \in Alarms : send_directive_to_queue(h)
  BY <1>4 DEF send_directive_to_queue, directive_lock, directive_add, directive_limit,
     directive_unlock, OnlyApi
<1>5. CASE \E i \in Interrupts : SIGINT(i) \/ close_connection_interrupt(i)
  BY <1>5 DEF SIGINT, close_connection_interrupt, OnlyApi, NoQueue
<1>6. CASE (\E t \in CalcThreads : CalcContinue(t)) \/ Spurious \/ UNCHANGED vars
  BY <1>6 DEF CalcContinue, Spurious, vars
<1> QED
  BY <1>1, <1>2, <1>3, <1>4, <1>5, <1>6 DEF Next

\* Only the Calculator changes what was computed.
LEMMA ComputedFrame ==
  ASSUME [Next]_vars, ~ Calculator
  PROVE  computed' = computed
<1>1. CASE WSSClient
  BY <1>1 DEF WSSClient, finnhub_connection_setup, client_established,
     client_connection_error, client_receive, receive_lock, json_callback,
     receive_unlock, service_idle, client_closed, closed_signal, wss_notify,
     wss_return, OnlyApi, NoQueue
<1>2. CASE \E w \in Writers : Writer(w)
  BY <1>2 DEF Writer, writer_remove, writer_forward, writer_pass_exit, writer_return,
     OnlyApi, OnlyCalc
<1>3. CASE SIGALRM \/ main_exit
  BY <1>3 DEF SIGALRM, main_exit, NoQueue
<1>4. CASE \E h \in Alarms : send_directive_to_queue(h)
  BY <1>4 DEF send_directive_to_queue, directive_lock, directive_add, directive_limit,
     directive_unlock, OnlyApi
<1>5. CASE \E i \in Interrupts : SIGINT(i) \/ close_connection_interrupt(i)
  BY <1>5 DEF SIGINT, close_connection_interrupt, OnlyApi, NoQueue
<1>6. CASE (\E t \in CalcThreads : CalcContinue(t)) \/ Spurious \/ UNCHANGED vars
           \/ (\E t \in ApiThreads : ApiContinue(t))
  BY <1>6 DEF CalcContinue, ApiContinue, Spurious, vars
<1> QED
  BY <1>1, <1>2, <1>3, <1>4, <1>5, <1>6 DEF Next

\* What entered api_queue is a sequence of work items.
EnteredOK == entered \in Seq(WorkItem)

\* Every step keeps the items that entered the first queue work items.
LEMMA EnteredStep == Api!ItemsWritten /\ EnteredOK /\ [Next]_vars => EnteredOK'
<1> SUFFICES ASSUME Api!ItemsWritten, EnteredOK, [Next]_vars PROVE EnteredOK'
  OBVIOUS
<1>1. ASSUME NEW t \in ApiThreads, ApiContinue(t) PROVE EnteredOK'
  <2>1. CASE api_op[t].pc = "add_loop" /\ api_op'[t].pc = "add_signal"
    <3>1. api_op[t].arg \in WorkItem
      BY <2>1 DEF Api!ItemsWritten, Api!Call
    <3>2. entered' = Append(entered, api_op[t].arg)
      BY <1>1, <2>1 DEF ApiContinue
    <3> QED
      BY <3>1, <3>2 DEF EnteredOK
  <2>2. CASE ~ (api_op[t].pc = "add_loop" /\ api_op'[t].pc = "add_signal")
    <3>1. entered' = entered
      BY <1>1, <2>2 DEF ApiContinue
    <3> QED
      BY <3>1 DEF EnteredOK
  <2> QED
    BY <2>1, <2>2
<1>2. CASE ~ \E t \in ApiThreads : ApiContinue(t)
  BY <1>2, EnteredFrame DEF EnteredOK
<1> QED
  BY <1>1, <1>2

\* The Calculator in queue_remove, or back from it: if the call returns 0, it
\* returns a work item; so what the Calculator handles are work items.
ComputedOK ==
  /\ pc[calculator] = "remove" => CalcP!RemoveCalled(calculator)
  /\ computed \in Seq(WorkItem)

\* Every step keeps the items that were computed work items.
LEMMA ComputedStep ==
  ControlOK /\ Calc!TypeOK /\ Calc!ItemsWritten /\ ComputedOK /\ [Next]_vars
    => ComputedOK'
<1> SUFFICES ASSUME ControlOK, Calc!TypeOK, Calc!ItemsWritten, ComputedOK, [Next]_vars
             PROVE  ComputedOK'
  OBVIOUS
<1>0. calculator \in CalcThreads /\ calculator \notin Writers
  BY PipelineAssumption DEF CalcThreads
<1>1. CASE calculator_start \/ calculator_compute
  <2>1. calc_op'[calculator].pc = "remove_lock"
    BY <1>0, <1>1 DEF calculator_start, calculator_compute, Calc!queue_remove, Calc!TypeOK,
       Calc!OpType
  <2>2. CASE calculator_start
    BY <2>1, <2>2 DEF calculator_start, ComputedOK, CalcP!RemoveCalled
  <2>3. CASE calculator_compute
    <3>1. calc_op[calculator].item \in WorkItem
      BY <2>3 DEF calculator_compute, Goto, Calc!queue_remove, Calc!Idle, ComputedOK,
         CalcP!RemoveCalled
    <3>2. computed' \in Seq(WorkItem)
      BY <2>3, <3>1 DEF calculator_compute, ComputedOK
    <3> QED
      BY <2>1, <3>2 DEF ComputedOK, CalcP!RemoveCalled
  <2> QED
    BY <1>1, <2>2, <2>3
<1>2. CASE calculator_return
  BY <1>2 DEF calculator_return, NoQueue, Goto, ControlOK, Hosts, ComputedOK
<1>3. CASE CalcContinue(calculator)
  <2>1. UNCHANGED <<pc, computed>>
    BY <1>3 DEF CalcContinue
  <2>2. CalcP!TypeOK /\ CalcP!ItemsWritten /\ CalcP!Continue(calculator)
    BY <1>0, <1>3, CalcSame DEF CalcContinue
  <2>3. pc[calculator] = "remove" => CalcP!RemoveCalled(calculator)'
    BY <1>0, <2>2, CalcQueueAssumption, CalcP!RemoveStep DEF ComputedOK
  <2> QED
    BY <2>1, <2>3 DEF ComputedOK
<1>4. CASE UNCHANGED vars
  BY <1>4 DEF vars, queues, ComputedOK, CalcP!RemoveCalled
<1>5. CASE Next /\ ~ Calculator /\ ~ CalcContinue(calculator)
  <2>1. calc_op'[calculator] = calc_op[calculator] /\ pc'[calculator] = pc[calculator]
    BY <1>0, <1>5, CalcOwnSteps
  <2>2. computed' = computed
    BY <1>5, ComputedFrame
  <2> QED
    BY <2>1, <2>2 DEF ComputedOK, CalcP!RemoveCalled
<1> QED
  BY <1>1, <1>2, <1>3, <1>4, <1>5 DEF Calculator

\* Whatever the threads and handlers do, and in whatever order, the program
\* stays within its types.
THEOREM PipelineTypeCorrect == Spec => []TypeOK
<1>1. Init => EnteredOK /\ ComputedOK
  BY DEF Init, EnteredOK, ComputedOK, Hosts
<1>2. ControlOK /\ MessageOK /\ EnteredOK /\ ComputedOK => TypeOK
  BY DEF ControlOK, MessageOK, EnteredOK, ComputedOK, TypeOK, Location, Range
<1> QED
  BY <1>1, <1>2, EnteredStep, ComputedStep, ControlCorrect, ApiInvariants,
     CalcInvariants, PTL DEF Spec

-----------------------------------------------------------------------------
(* producer_lock keeps the trades of a message together in api_queue, for  *)
(* any number of messages, directives and Writers.                         *)


\* Who holds producer_lock: the WSSClient while it parses a message, and a run
\* of send_directive_to_queue from its lock to its unlock.
LockInv ==
  /\ pc[wss] = "parse" => api_queue.producer_lock = wss
  /\ \A h \in Alarms :
       pc[h] \in {"add", "added", "unlock"} => api_queue.producer_lock = h

\* A run of send_directive_to_queue that no tick has begun has done nothing.
AlarmInv == \A h \in Alarms : h > clock.ticks => pc[h] = "start"

\* The threads that may be in queue_add on api_queue, and where they called it.
AddInv ==
  /\ Api!Call(wss) = "add" => pc[wss] = "parse"
  /\ \A h \in Alarms :
       Api!Call(h) = "add" => pc[h] = "added" /\ api_op[h].arg = Directive(h)
  /\ \A t \in Writers \cup Interrupts : Api!Call(t) # "add"

\* The trades of the message at hand that have not entered api_queue.
Pending == Range(message)
           \cup (IF Api!Call(wss) = "add" THEN {api_op[wss].arg} ELSE {})

\* They are trades, of one message.
PendingInv ==
  /\ \A p \in Pending : p \in WorkItem /\ IsTrade(p) /\ p.msg < trades
  /\ \A p, q \in Pending : p.msg = q.msg

\* If one trade of their message has entered, the WSSClient is parsing and
\* nothing has entered since but trades of that message.
EnteredInv ==
  /\ \A k \in 1..Len(entered) : IsTrade(entered[k]) => entered[k].msg < trades
  /\ \A p \in Pending : \A j \in 1..Len(entered) :
       IsTrade(entered[j]) /\ entered[j].msg = p.msg =>
         /\ pc[wss] = "parse"
         /\ \A k \in j..Len(entered) : IsTrade(entered[k]) /\ entered[k].msg = p.msg

-----------------------------------------------------------------------------
\* producer_lock excludes the WSSClient and the handlers from each other.
LEMMA LockStep ==
  ControlOK /\ Api!TypeOK /\ LockInv /\ [Next]_vars => LockInv'
<1> SUFFICES ASSUME ControlOK, Api!TypeOK, LockInv, [Next]_vars PROVE LockInv'
  OBVIOUS
<1>0. /\ pc \in [Hosts \cup Alarms \cup Interrupts -> Location]
      /\ wss \in Hosts /\ Writers \subseteq Hosts
      /\ calculator \in Hosts /\ main \in Hosts
      /\ wss \notin Writers \cup Alarms \cup Interrupts \cup {calculator, main, NoThread}
      /\ Alarms \cap (Hosts \cup Interrupts) = {} /\ NoThread \notin Alarms
  BY PipelineAssumption DEF ControlOK, Hosts, Alarms
<1>1. api_queue \in Api!QueueType
  BY DEF Api!TypeOK
<1>2. ASSUME api_queue'.producer_lock = api_queue.producer_lock,
             pc'[wss] = "parse" => pc[wss] = "parse",
             \A h \in Alarms : pc'[h] = pc[h]
      PROVE  LockInv'
  BY <1>2 DEF LockInv
<1>3. CASE WSSClient
  <2>1. \A h \in Alarms : pc'[h] = pc[h]
    <3>1. ASSUME NEW from, NEW to, Goto(wss, from, to)
          PROVE  \A h \in Alarms : pc'[h] = pc[h]
      BY <1>0, <3>1 DEF Goto
    <3>2. \E from, to : Goto(wss, from, to)
      BY <1>3 DEF WSSClient, finnhub_connection_setup, client_established,
         client_connection_error, client_receive, receive_lock, json_callback,
         receive_unlock, service_idle, client_closed, closed_signal, wss_notify,
         wss_return, LoopTest
    <3> QED
      BY <3>1, <3>2
  <2>2. CASE receive_lock
    <3>1. api_queue.producer_lock = NoThread /\ api_queue'.producer_lock = wss
      BY <1>1, <2>2 DEF receive_lock, Api!producer_lock, Api!QueueType
    <3> QED
      BY <1>0, <2>1, <3>1 DEF LockInv
  <2>3. CASE receive_unlock
    <3>1. api_queue.producer_lock = wss
      BY <2>3 DEF receive_unlock, Api!producer_unlock
    <3>2. pc'[wss] # "parse"
      BY <1>0, <2>3 DEF receive_unlock, LoopTest, Goto
    <3> QED
      BY <1>0, <2>1, <3>1, <3>2 DEF LockInv
  <2>4. CASE json_callback
    BY <1>2, <2>1, <2>4 DEF json_callback, Api!queue_add, Goto
  <2>5. CASE client_established \/ client_connection_error \/ service_idle
    <3>1. pc'[wss] # "parse"
      BY <1>0, <2>5 DEF client_established, client_connection_error, service_idle,
         LoopTest, Goto
    <3> QED
      BY <1>2, <2>1, <2>5, <3>1 DEF client_established, client_connection_error,
         service_idle, NoQueue, queues
  <2>6. CASE finnhub_connection_setup \/ client_receive \/ client_closed \/ wss_return
    <3>1. pc'[wss] # "parse"
      BY <1>0, <2>6 DEF finnhub_connection_setup, client_receive, client_closed,
         wss_return, Goto
    <3> QED
      BY <1>2, <2>1, <2>6, <3>1 DEF finnhub_connection_setup, client_receive,
         client_closed, wss_return, NoQueue, queues
  <2>7. CASE closed_signal
    <3>1. pc'[wss] # "parse"
      BY <1>0, <2>7 DEF closed_signal, Goto
    <3>2. api_queue'.producer_lock = api_queue.producer_lock
      BY <1>1, <2>7 DEF closed_signal, Api!bare_signal, Api!signal_not_empty, Api!QueueType
    <3> QED
      BY <1>2, <2>1, <3>1, <3>2
  <2>8. CASE wss_notify
    BY <1>0, <1>2, <2>1, <2>8 DEF wss_notify, Api!notify_if_empty, Goto
  <2> QED
    BY <1>3, <2>2, <2>3, <2>4, <2>5, <2>6, <2>7, <2>8 DEF WSSClient
<1>4. ASSUME NEW w \in Writers, Writer(w) PROVE LockInv'
  <2>1. api_queue' = api_queue
    BY <1>4 DEF Writer, writer_remove, writer_forward, writer_pass_exit, writer_return,
       Api!queue_remove, OnlyCalc
  <2>2. \E from, to : Goto(w, from, to)
    BY <1>4 DEF Writer, writer_remove, writer_forward, writer_pass_exit, writer_return
  <2> QED
    BY <1>0, <1>2, <2>1, <2>2 DEF Goto
<1>5. CASE Calculator
  <2>1. api_queue' = api_queue
    BY <1>5 DEF Calculator, calculator_start, calculator_compute, calculator_return,
       OnlyCalc, NoQueue, queues
  <2>2. \E from, to : Goto(calculator, from, to)
    BY <1>5 DEF Calculator, calculator_start, calculator_compute, calculator_return
  <2> QED
    BY <1>0, <1>2, <2>1, <2>2 DEF Goto
<1>6. CASE SIGALRM
  <2>1. PICK h \in Alarms : pc' = [pc EXCEPT ![h] = "lock"]
    BY <1>6 DEF SIGALRM
  <2>2. api_queue' = api_queue
    BY <1>6 DEF SIGALRM, NoQueue, queues
  <2> QED
    BY <1>0, <2>1, <2>2 DEF LockInv
<1>7. ASSUME NEW h \in Alarms, send_directive_to_queue(h) PROVE LockInv'
  <2>0. \A s \in {wss} \cup (Alarms \ {h}) : pc'[s] = pc[s]
    <3>1. \E from, to : Goto(h, from, to)
      BY <1>7 DEF send_directive_to_queue, directive_lock, directive_add,
         directive_limit, directive_unlock
    <3> QED
      BY <1>0, <3>1 DEF Goto
  <2>1. CASE directive_lock(h)
    <3>1. api_queue.producer_lock = NoThread /\ api_queue'.producer_lock = h
      BY <1>1, <2>1 DEF directive_lock, Api!producer_lock, Api!QueueType
    <3> QED
      BY <1>0, <2>0, <3>1 DEF LockInv
  <2>2. CASE directive_add(h) \/ directive_limit(h)
    <3>1. api_queue'.producer_lock = api_queue.producer_lock
      BY <1>1, <2>2 DEF directive_add, directive_limit, Api!queue_add,
         Api!set_exit_flag, Api!QueueType
    <3>2. pc[h] \in {"add", "added"}
      BY <2>2 DEF directive_add, directive_limit, Goto
    <3> QED
      BY <1>0, <2>0, <3>1, <3>2 DEF LockInv
  <2>3. CASE directive_unlock(h)
    <3>1. api_queue.producer_lock = h
      BY <2>3 DEF directive_unlock, Api!producer_unlock
    <3>2. pc'[h] = "done"
      BY <1>0, <2>3 DEF directive_unlock, Goto
    <3> QED
      BY <1>0, <2>0, <3>1, <3>2 DEF LockInv
  <2> QED
    BY <1>7, <2>1, <2>2, <2>3 DEF send_directive_to_queue
<1>8. ASSUME NEW i \in Interrupts, SIGINT(i) \/ close_connection_interrupt(i)
      PROVE  LockInv'
  <2>1. api_queue' = api_queue
    BY <1>8 DEF SIGINT, close_connection_interrupt, Api!order_exit, NoQueue, queues
  <2>2. \E to : pc' = [pc EXCEPT ![i] = to]
    BY <1>8 DEF SIGINT, close_connection_interrupt, Goto
  <2> QED
    BY <1>0, <1>2, <2>1, <2>2
<1>9. CASE main_exit
  BY <1>0, <1>2, <1>9 DEF main_exit, NoQueue, queues, Goto
<1>10. ASSUME NEW t \in ApiThreads, ApiContinue(t) PROVE LockInv'
  <2>1. ApiP!TypeOK /\ ApiP!Continue(t)
    BY <1>10, ApiSame DEF ApiContinue
  <2>2. api_queue'.producer_lock = api_queue.producer_lock
    BY <2>1, ApiQueueAssumption, ApiP!ContinueFrame
  <2> QED
    BY <1>2, <1>10, <2>2 DEF ApiContinue
<1>11. CASE (\E t \in CalcThreads : CalcContinue(t)) \/ UNCHANGED vars
  BY <1>2, <1>11 DEF CalcContinue, vars, queues
<1>12. CASE Spurious
  <2>1. api_queue'.producer_lock = api_queue.producer_lock
    BY <1>1, <1>12 DEF Spurious, Api!SpuriousWakeup, Api!QueueType
  <2> QED
    BY <1>2, <1>12, <2>1 DEF Spurious
<1> QED
  BY <1>3, <1>4, <1>5, <1>6, <1>7, <1>8, <1>9, <1>10, <1>11, <1>12 DEF Next

\* What a step of its own does to the call a thread has on api_queue: it stays
\* or ends, and its argument stays.
LEMMA CallStep ==
  ASSUME Api!TypeOK, NEW t \in ApiThreads, ApiContinue(t)
  PROVE  /\ api_op'[t].arg = api_op[t].arg
         /\ Api!Call(t)' = "add" => Api!Call(t) = "add"
         /\ api_op[t].pc = "add_loop" /\ api_op'[t].pc = "add_signal" =>
              Api!Call(t) = "add" /\ Api!Call(t)' # "add"
<1>1. ApiP!TypeOK /\ ApiP!Continue(t)
  BY ApiSame DEF ApiContinue
<1>2. ~ ApiP!Idle(t)
  BY <1>1, ApiQueueAssumption, ApiP!ContinueFrame
<1>3. ~ \E i \in WorkItem : ApiP!queue_add(t, i)
  BY <1>2 DEF ApiP!queue_add
<1>4. api_op'[t].arg = api_op[t].arg /\ (ApiP!Call(t)' = "add" => ApiP!Call(t) = "add")
  BY <1>1, <1>3, ApiQueueAssumption, ApiP!HandsStep
<1> QED
  BY <1>4 DEF ApiP!Call, Api!Call

\* Only the timer moves the clock.
LEMMA ClockFrame ==
  ASSUME [Next]_vars, ~ SIGALRM
  PROVE  clock' = clock
<1>1. CASE WSSClient
  BY <1>1 DEF WSSClient, finnhub_connection_setup, client_established,
     client_connection_error, client_receive, receive_lock, json_callback,
     receive_unlock, service_idle, client_closed, closed_signal, wss_notify,
     wss_return, LoopTest, sigvars
<1>2. CASE \E w \in Writers : Writer(w)
  BY <1>2 DEF Writer, writer_remove, writer_forward, writer_pass_exit, writer_return,
     OnlyCalc, sigvars
<1>3. CASE Calculator \/ main_exit
  BY <1>3 DEF Calculator, calculator_start, calculator_compute, calculator_return,
     main_exit, OnlyCalc, sigvars
<1>4. CASE \E h \in Alarms : send_directive_to_queue(h)
  BY <1>4 DEF send_directive_to_queue, directive_lock, directive_add, directive_limit,
     directive_unlock, sigvars
<1>5. CASE \E i \in Interrupts : SIGINT(i) \/ close_connection_interrupt(i)
  BY <1>5 DEF SIGINT, close_connection_interrupt
<1>6. CASE (\E t \in CalcThreads : CalcContinue(t)) \/ Spurious \/ UNCHANGED vars
           \/ (\E t \in ApiThreads : ApiContinue(t))
  BY <1>6 DEF CalcContinue, ApiContinue, Spurious, vars, sigvars
<1> QED
  BY <1>1, <1>2, <1>3, <1>4, <1>5, <1>6 DEF Next

\* The handler runs once for each tick.
LEMMA AlarmStep ==
  ControlOK /\ Api!TypeOK /\ AlarmInv /\ [Next]_vars => AlarmInv'
<1> SUFFICES ASSUME ControlOK, Api!TypeOK, AlarmInv, [Next]_vars,
                    NEW h \in Alarms, h > clock'.ticks
             PROVE  pc'[h] = "start"
  BY DEF AlarmInv
<1>0. /\ pc \in [Hosts \cup Alarms \cup Interrupts -> Location]
      /\ h \in ApiThreads /\ h \notin Writers \cup Interrupts /\ h # wss
      /\ clock.ticks \in Int /\ h \in Int
  <2>1. /\ pc \in [Hosts \cup Alarms \cup Interrupts -> Location]
        /\ clock \in [minute_counter : 0..(MINUTES_PER_HOUR - 1),
                      hour_counter : 0..MaxTicks, ticks : 0..MaxTicks]
    BY DEF ControlOK
  <2>2. h \in 1..MaxTicks /\ MaxTicks \in Nat
    BY PipelineAssumption DEF Alarms
  <2>3. clock.ticks \in Int /\ h \in Int
    BY <2>1, <2>2
  <2>4. h \in ApiThreads
    BY DEF ApiThreads
  <2>5. h \notin Writers \cup Interrupts /\ h # wss
    BY <2>2, PipelineAssumption, Zenon
  <2> QED
    BY <2>1, <2>3, <2>4, <2>5
<1>1. CASE SIGALRM
  <2>1. clock'.ticks = clock.ticks + 1 /\ pc' = [pc EXCEPT ![clock.ticks + 1] = "lock"]
    BY <1>1 DEF SIGALRM, CountMinute
  <2> QED
    BY <1>0, <2>1 DEF AlarmInv
<1>2. CASE ~ SIGALRM
  <2>1. pc[h] = "start"
    BY <1>2, ClockFrame DEF AlarmInv
  <2>2. ~ send_directive_to_queue(h)
    BY <2>1 DEF send_directive_to_queue, directive_lock, directive_add,
       directive_limit, directive_unlock, Goto
  <2>3. CASE UNCHANGED vars \/ ApiContinue(h)
    BY <2>1, <2>3 DEF vars, ApiContinue
  <2>4. CASE Next /\ ~ ApiContinue(h)
    BY <1>0, <1>2, <2>1, <2>2, <2>4, OwnSteps
  <2> QED
    BY <2>3, <2>4
<1> QED
  BY <1>1, <1>2

\* Only the WSSClient that parses a message and a handler that holds the lock
\* are ever in queue_add on api_queue.
LEMMA AddStep ==
  ControlOK /\ Api!TypeOK /\ AlarmInv /\ AddInv /\ [Next]_vars => AddInv'
<1> SUFFICES ASSUME ControlOK, Api!TypeOK, AlarmInv, AddInv, [Next]_vars PROVE AddInv'
  OBVIOUS
<1>0. /\ pc \in [Hosts \cup Alarms \cup Interrupts -> Location]
      /\ api_op \in [ApiThreads -> Api!OpType]
      /\ wss \in Hosts /\ wss \in ApiThreads
      /\ wss \notin Writers \cup Alarms \cup Interrupts
      /\ Writers \cup Alarms \cup Interrupts \subseteq ApiThreads
      /\ Alarms \cap (Writers \cup Interrupts) = {} /\ Writers \cap Interrupts = {}
      /\ clock.ticks \in Int
  BY PipelineAssumption DEF Api!TypeOK, ControlOK, ApiThreads, Hosts, Alarms
<1>1. CASE UNCHANGED vars
  BY <1>1 DEF vars, queues, AddInv, Api!Call
<1>2. CASE Next
  <2>1. Api!Call(wss)' = "add" => pc'[wss] = "parse"
    <3>1. CASE WSSClient
      <4>1. CASE json_callback
        BY <1>0, <4>1 DEF json_callback, Goto
      <4>2. CASE wss_notify
        <5>1. api_op'[wss].pc = "notify_lock"
          BY <1>0, <4>2 DEF wss_notify, Api!notify_if_empty, Api!OpType
        <5> QED
          BY <5>1 DEF Api!Call
      <4>3. CASE receive_lock \/ receive_unlock \/ closed_signal
        <5>1. api_op' = api_op /\ Api!Idle(wss)
          BY <4>3 DEF receive_lock, receive_unlock, closed_signal, Api!producer_lock,
             Api!producer_unlock, Api!bare_signal
        <5> QED
          BY <5>1 DEF Api!Call, Api!Idle
      <4>4. CASE client_established \/ client_connection_error \/ service_idle
        <5>1. api_op' = api_op
          BY <4>4 DEF client_established, client_connection_error, service_idle,
             NoQueue, queues
        <5>2. pc[wss] # "parse"
          BY <4>4 DEF client_established, client_connection_error, service_idle,
             LoopTest, Goto
        <5> QED
          BY <5>1, <5>2 DEF AddInv, Api!Call
      <4>5. CASE finnhub_connection_setup \/ client_receive \/ client_closed \/ wss_return
        <5>1. api_op' = api_op
          BY <4>5 DEF finnhub_connection_setup, client_receive, client_closed,
             wss_return, NoQueue, queues
        <5>2. pc[wss] # "parse"
          BY <4>5 DEF finnhub_connection_setup, client_receive, client_closed,
             wss_return, Goto
        <5> QED
          BY <5>1, <5>2 DEF AddInv, Api!Call
      <4> QED
        BY <3>1, <4>1, <4>2, <4>3, <4>4, <4>5 DEF WSSClient
    <3>2. CASE ApiContinue(wss)
      BY <1>0, <3>2, CallStep DEF AddInv, ApiContinue
    <3>3. CASE ~ WSSClient /\ ~ ApiContinue(wss)
      <4>1. api_op'[wss] = api_op[wss] /\ pc'[wss] = pc[wss]
        BY <1>0, <1>2, <3>3, OwnSteps
      <4> QED
        BY <4>1 DEF AddInv, Api!Call
    <3> QED
      BY <3>1, <3>2, <3>3
  <2>2. ASSUME NEW h \in Alarms, Api!Call(h)' = "add"
        PROVE  pc'[h] = "added" /\ api_op'[h].arg = Directive(h)
    <3>1. CASE directive_add(h)
      BY <1>0, <3>1 DEF directive_add, Goto, Api!queue_add, Api!OpType
    <3>2. CASE directive_lock(h) \/ directive_limit(h) \/ directive_unlock(h)
      <4>1. api_op' = api_op /\ Api!Idle(h)
        BY <3>2 DEF directive_lock, directive_limit, directive_unlock,
           Api!producer_lock, Api!set_exit_flag, Api!producer_unlock
      <4> QED
        BY <2>2, <4>1 DEF Api!Call, Api!Idle
    <3>3. CASE SIGALRM /\ h = clock.ticks + 1
      <4>1. api_op' = api_op
        BY <3>3 DEF SIGALRM, NoQueue, queues
      <4>2. Api!Call(h) = "add"
        BY <2>2, <4>1 DEF Api!Call
      <4>3. pc[h] = "start"
        BY <1>0, <3>3 DEF AlarmInv
      <4> QED
        BY <4>2, <4>3 DEF AddInv
    <3>4. CASE ApiContinue(h)
      BY <1>0, <2>2, <3>4, CallStep DEF AddInv, ApiContinue
    <3>5. CASE ~ send_directive_to_queue(h) /\ ~ (SIGALRM /\ h = clock.ticks + 1)
               /\ ~ ApiContinue(h)
      <4>1. api_op'[h] = api_op[h] /\ pc'[h] = pc[h]
        BY <1>0, <1>2, <3>5, OwnSteps
      <4> QED
        BY <2>2, <4>1 DEF AddInv, Api!Call
    <3> QED
      BY <3>1, <3>2, <3>3, <3>4, <3>5 DEF send_directive_to_queue
  <2>3. ASSUME NEW w \in Writers PROVE Api!Call(w)' # "add"
    <3>1. CASE writer_remove(w)
      <4>1. api_op'[w].pc = "remove_lock"
        BY <1>0, <3>1 DEF writer_remove, Api!queue_remove, Api!OpType
      <4> QED
        BY <4>1 DEF Api!Call
    <3>2. CASE writer_forward(w) \/ writer_pass_exit(w) \/ writer_return(w)
      BY <3>2 DEF writer_forward, writer_pass_exit, writer_return, OnlyCalc, AddInv, Api!Call
    <3>3. CASE ApiContinue(w)
      BY <1>0, <3>3, CallStep DEF AddInv
    <3>4. CASE ~ Writer(w) /\ ~ ApiContinue(w)
      <4>1. api_op'[w] = api_op[w]
        BY <1>0, <1>2, <3>4, OwnSteps
      <4> QED
        BY <4>1 DEF AddInv, Api!Call
    <3> QED
      BY <3>1, <3>2, <3>3, <3>4 DEF Writer
  <2>4. ASSUME NEW i \in Interrupts PROVE Api!Call(i)' # "add"
    <3>1. CASE SIGINT(i)
      <4>1. api_op'[i].pc = "exit_lock"
        BY <1>0, <3>1 DEF SIGINT, Api!order_exit, Api!OpType
      <4> QED
        BY <4>1 DEF Api!Call
    <3>2. CASE close_connection_interrupt(i)
      BY <3>2 DEF close_connection_interrupt, NoQueue, queues, AddInv, Api!Call
    <3>3. CASE ApiContinue(i)
      BY <1>0, <3>3, CallStep DEF AddInv
    <3>4. CASE ~ SIGINT(i) /\ ~ close_connection_interrupt(i) /\ ~ ApiContinue(i)
      <4>1. api_op'[i] = api_op[i]
        BY <1>0, <1>2, <3>4, OwnSteps
      <4> QED
        BY <4>1 DEF AddInv, Api!Call
    <3> QED
      BY <3>1, <3>2, <3>3, <3>4
  <2> QED
    BY <2>1, <2>2, <2>3, <2>4 DEF AddInv
<1> QED
  BY <1>1, <1>2

-----------------------------------------------------------------------------
\* But for a message received and a trade parsed, the message and the call of
\* the WSSClient stay, or the call ends.
LEMMA WssCallStep ==
  ASSUME ControlOK, Api!TypeOK, [Next]_vars, ~ client_receive, ~ json_callback
  PROVE  /\ UNCHANGED <<message, trades>>
         /\ Api!Call(wss)' = "add" =>
              Api!Call(wss) = "add" /\ api_op'[wss].arg = api_op[wss].arg
<1>0. /\ wss \in ApiThreads /\ api_op \in [ApiThreads -> Api!OpType]
      /\ wss \notin Writers \cup Alarms \cup Interrupts
      /\ UNCHANGED <<message, trades>>
  BY PipelineAssumption, MessageFrame DEF ApiThreads, Api!TypeOK, Alarms
<1>1. CASE WSSClient
  <2>1. CASE wss_notify
    <3>1. api_op'[wss].pc = "notify_lock"
      BY <1>0, <2>1 DEF wss_notify, Api!notify_if_empty, Api!OpType
    <3> QED
      BY <1>0, <3>1 DEF Api!Call
  <2>2. CASE ~ wss_notify
    <3>1. api_op' = api_op
      BY <1>1, <2>2 DEF WSSClient, finnhub_connection_setup,
         client_established, client_connection_error, receive_lock, receive_unlock,
         service_idle, client_closed, closed_signal, wss_return, NoQueue, queues,
         Api!producer_lock, Api!producer_unlock, Api!bare_signal
    <3> QED
      BY <1>0, <3>1 DEF Api!Call
  <2> QED
    BY <2>1, <2>2
<1>2. CASE ApiContinue(wss)
  BY <1>0, <1>2, CallStep
<1>3. CASE UNCHANGED vars
  BY <1>0, <1>3 DEF vars, queues, Api!Call
<1>4. CASE Next /\ ~ WSSClient /\ ~ ApiContinue(wss)
  <2>1. api_op'[wss] = api_op[wss]
    BY <1>0, <1>4, OwnSteps
  <2> QED
    BY <1>0, <2>1 DEF Api!Call
<1> QED
  BY <1>0, <1>1, <1>2, <1>3, <1>4

\* The trades at hand: those of a message just received, or fewer of the
\* message before the step, none if the WSSClient leaves the message.
LEMMA PendingStep ==
  ASSUME ControlOK, Api!TypeOK, MessageOK, AddInv, [Next]_vars
  PROVE  \/ /\ trades' > trades /\ entered' = entered
            /\ \A p \in Pending' : p \in WorkItem /\ IsTrade(p) /\ p.msg = trades
         \/ /\ trades' = trades
            /\ Pending' \subseteq Pending
            /\ pc[wss] = "parse" /\ pc'[wss] # "parse" => Pending' = {}
<1>0. /\ wss \in ApiThreads /\ api_op \in [ApiThreads -> Api!OpType]
      /\ wss \in Hosts /\ pc \in [Hosts \cup Alarms \cup Interrupts -> Location]
      /\ wss \notin Writers \cup Alarms \cup Interrupts
      /\ message \in Seq(WorkItem)
      /\ trades \in Nat
  BY PipelineAssumption DEF ApiThreads, Api!TypeOK, Hosts, ControlOK, MessageOK, Alarms
<1>1. CASE client_receive
  <2>1. PICK n \in 1..MaxBatch :
          /\ trades + n <= MaxTrades
          /\ trades' = trades + n
          /\ message' = [k \in 1..n |-> Trade(trades + k, trades)]
    BY <1>1 DEF client_receive
  <2>2. entered' = entered /\ api_op' = api_op /\ pc[wss] = "service"
    BY <1>1 DEF client_receive, NoQueue, queues, Goto
  <2>3. Pending' = Range(message')
    BY <2>2 DEF Pending, AddInv, Api!Call
  <2>4. \A k \in 1..n : /\ Trade(trades + k, trades) \in WorkItem
                        /\ IsTrade(Trade(trades + k, trades))
                        /\ Trade(trades + k, trades).msg = trades
    <3> TAKE k \in 1..n
    <3>1. trades + k \in 1..MaxTrades /\ trades \in 0..MaxTrades
      BY <2>1, PipelineAssumption DEF MessageOK
    <3> QED
      BY <3>1 DEF WorkItem, Trade, IsTrade, DIRECTIVE_CALCULATE_MINUTE
  <2>5. trades' > trades
    BY <1>0, <2>1, PipelineAssumption
  <2>6. \A p \in Range(message') : \E k \in 1..n : p = Trade(trades + k, trades)
    BY <2>1 DEF Range
  <2> QED
    BY <2>2, <2>3, <2>4, <2>5, <2>6
<1>2. CASE json_callback
  <2>1. /\ message # <<>> /\ message' = Tail(message) /\ trades' = trades
        /\ api_op'[wss].arg = Head(message) /\ pc'[wss] = "parse"
    BY <1>0, <1>2 DEF json_callback, Api!queue_add, Api!OpType, Goto
  <2>2. Range(Tail(message)) \cup {Head(message)} \subseteq Range(message)
    <3>1. Head(message) = message[1] /\ 1 \in DOMAIN message
      BY <1>0, <2>1
    <3>2. ASSUME NEW k \in DOMAIN Tail(message)
          PROVE  Tail(message)[k] = message[k + 1] /\ k + 1 \in DOMAIN message
      BY <1>0, <2>1
    <3> QED
      BY <3>1, <3>2 DEF Range
  <2> QED
    BY <2>1, <2>2 DEF Pending
<1>3. CASE ~ client_receive /\ ~ json_callback
  <2>1. /\ UNCHANGED <<message, trades>>
        /\ Api!Call(wss)' = "add" =>
             Api!Call(wss) = "add" /\ api_op'[wss].arg = api_op[wss].arg
    BY <1>3, WssCallStep
  <2>2. Pending' \subseteq Pending
    BY <2>1 DEF Pending
  <2>3. ASSUME pc[wss] = "parse", pc'[wss] # "parse" PROVE Pending' = {}
    <3>1. WSSClient
      <4>1. CASE UNCHANGED vars \/ ApiContinue(wss)
        BY <2>3, <4>1 DEF vars, ApiContinue
      <4>2. CASE Next /\ ~ WSSClient /\ ~ ApiContinue(wss)
        BY <1>0, <2>3, <4>2, OwnSteps
      <4> QED
        BY <4>1, <4>2
    <3>2. receive_unlock
      BY <1>3, <2>3, <3>1 DEF WSSClient, finnhub_connection_setup,
         client_established, client_connection_error, receive_lock, service_idle,
         client_closed, closed_signal, wss_notify, wss_return, LoopTest, Goto
    <3>3. message = <<>> /\ api_op' = api_op /\ Api!Idle(wss)
      BY <3>2 DEF receive_unlock, Api!producer_unlock
    <3>4. Api!Call(wss)' # "add"
      BY <3>3 DEF Api!Idle, Api!Call
    <3>5. Range(message') = {}
      BY <2>1, <3>3 DEF Range
    <3> QED
      BY <3>4, <3>5 DEF Pending
  <2> QED
    BY <2>1, <2>2, <2>3
<1> QED
  BY <1>1, <1>2, <1>3

\* What enters api_queue: a trade of the message at hand, while the WSSClient
\* parses it, or a directive, while it does not.
LEMMA InsertKinds ==
  ASSUME ControlOK, Api!TypeOK, LockInv, AddInv, [Next]_vars, entered' # entered
  PROVE  \/ /\ Api!Call(wss) = "add" /\ pc[wss] = "parse" /\ pc'[wss] = "parse"
            /\ entered' = Append(entered, api_op[wss].arg)
            /\ Api!Call(wss)' # "add"
         \/ /\ pc[wss] # "parse"
            /\ \E h \in Alarms :
                 /\ entered' = Append(entered, Directive(h))
                 /\ pc'[h] = "added" /\ Api!Call(h)' # "add"
<1>1. PICK t \in ApiThreads : ApiContinue(t)
  BY EnteredFrame
<1>2. /\ api_op[t].pc = "add_loop" /\ api_op'[t].pc = "add_signal"
      /\ entered' = Append(entered, api_op[t].arg) /\ pc' = pc
  BY <1>1 DEF ApiContinue
<1>3. Api!Call(t) = "add" /\ Api!Call(t)' # "add"
  BY <1>2 DEF Api!Call
<1>4. CASE t = wss
  BY <1>2, <1>3, <1>4 DEF AddInv
<1>5. CASE t \in Alarms
  <2>1. /\ api_queue.producer_lock = t /\ api_op[t].arg = Directive(t)
        /\ pc[t] = "added"
    BY <1>3, <1>5 DEF AddInv, LockInv
  <2>2. t # wss
    BY <1>5, PipelineAssumption DEF Alarms
  <2> QED
    BY <1>2, <1>3, <1>5, <2>1, <2>2 DEF LockInv
<1> QED
  BY <1>3, <1>4, <1>5 DEF AddInv, ApiThreads

\* The trades at hand are of one message, and stay so.
LEMMA PendingInvStep ==
  ControlOK /\ Api!TypeOK /\ MessageOK /\ AddInv /\ PendingInv /\ [Next]_vars
    => PendingInv'
<1> SUFFICES ASSUME ControlOK, Api!TypeOK, MessageOK, AddInv, PendingInv, [Next]_vars
             PROVE  PendingInv'
  OBVIOUS
<1>1. CASE /\ trades' > trades
           /\ \A p \in Pending' : p \in WorkItem /\ IsTrade(p) /\ p.msg = trades
  BY <1>1 DEF PendingInv
<1>2. CASE trades' = trades /\ Pending' \subseteq Pending
  BY <1>2 DEF PendingInv
<1> QED
  BY <1>1, <1>2, PendingStep

\* The trades of the message at hand that have entered are the last that have,
\* and the messages before are whole.
LEMMA EnteredInvStep ==
  ASSUME ControlOK, Api!TypeOK, MessageOK, EnteredOK, LockInv, AddInv, PendingInv,
         EnteredInv, MessagesUnbroken, [Next]_vars
  PROVE  EnteredInv' /\ MessagesUnbroken'
<1> DEFINE n == Len(entered)
<1>0. n \in Nat /\ DOMAIN entered = 1..n /\ trades \in Nat
  BY DEF EnteredOK, MessageOK
<1>1. CASE entered' = entered
  <2>1. MessagesUnbroken'
    BY <1>1 DEF MessagesUnbroken
  <2>2. \A k \in 1..n : IsTrade(entered[k]) => entered[k].msg \in Int
    <3> SUFFICES ASSUME NEW k \in 1..n PROVE entered[k].msg \in Int
      OBVIOUS
    <3>1. entered[k] \in WorkItem
      BY <1>0 DEF EnteredOK
    <3> QED
      BY <3>1 DEF WorkItem, Trade, Directive
  <2>3. CASE /\ trades' > trades
             /\ \A p \in Pending' : p.msg = trades
    <3>1. trades' \in Int
      BY <2>3, MessageStep DEF MessageOK
    <3>2. \A k \in 1..n : IsTrade(entered[k]) =>
            entered[k].msg < trades' /\ entered[k].msg # trades
      BY <1>0, <2>2, <2>3, <3>1 DEF EnteredInv
    <3> QED
      BY <1>1, <2>1, <2>3, <3>2 DEF EnteredInv
  <2>4. CASE /\ trades' = trades /\ Pending' \subseteq Pending
             /\ pc[wss] = "parse" /\ pc'[wss] # "parse" => Pending' = {}
    BY <1>1, <2>1, <2>4 DEF EnteredInv
  <2> QED
    BY <2>3, <2>4, PendingStep
<1>2. CASE /\ entered' # entered
           /\ Api!Call(wss) = "add" /\ pc[wss] = "parse" /\ pc'[wss] = "parse"
           /\ entered' = Append(entered, api_op[wss].arg)
  <2> DEFINE x == api_op[wss].arg
  <2>1. x \in Pending /\ x \in WorkItem /\ IsTrade(x) /\ x.msg < trades
    BY <1>2 DEF Pending, PendingInv
  <2>2. trades' = trades /\ Pending' \subseteq Pending
    BY <1>2, PendingStep
  <2>3. /\ Len(entered') = n + 1
        /\ entered'[n + 1] = x
        /\ \A k \in 1..n : entered'[k] = entered[k]
    BY <1>2, <2>1 DEF EnteredOK
  <2>4. \A p \in Pending' : p.msg = x.msg
    BY <2>1, <2>2 DEF PendingInv
  <2> HIDE DEF n, x
  <2>5. \A j \in 1..n : IsTrade(entered[j]) /\ entered[j].msg = x.msg =>
          \A k \in j..n : IsTrade(entered[k]) /\ entered[k].msg = x.msg
    BY <2>1 DEF EnteredInv, n
  <2>6. \A j \in 1..(n + 1) : IsTrade(entered'[j]) /\ entered'[j].msg = x.msg =>
          \A k \in j..(n + 1) : IsTrade(entered'[k]) /\ entered'[k].msg = x.msg
    BY <1>0, <2>1, <2>3, <2>5
  <2>7. EnteredInv'
    <3>1. \A k \in 1..(n + 1) : IsTrade(entered'[k]) => entered'[k].msg < trades'
      BY <1>0, <2>1, <2>2, <2>3 DEF EnteredInv, n
    <3> QED
      BY <1>2, <2>3, <2>4, <2>6, <3>1 DEF EnteredInv
  <2>8. MessagesUnbroken'
    <3> SUFFICES ASSUME NEW j \in 1..(n + 1), NEW l \in 1..(n + 1), NEW k \in j..l,
                        IsTrade(entered'[j]), IsTrade(entered'[l]),
                        entered'[j].msg = entered'[l].msg
                 PROVE  IsTrade(entered'[k]) /\ entered'[k].msg = entered'[j].msg
      BY <2>3 DEF MessagesUnbroken
    <3>1. CASE l = n + 1
      BY <1>0, <2>3, <2>6, <3>1
    <3>2. CASE l \in 1..n
      <4>1. j \in 1..n /\ k \in 1..n
        BY <1>0, <3>2
      <4> QED
        BY <2>3, <3>2, <4>1 DEF MessagesUnbroken, n
    <3> QED
      BY <1>0, <3>1, <3>2
  <2> QED
    BY <2>7, <2>8
<1>3. CASE /\ entered' # entered
           /\ pc[wss] # "parse"
           /\ \E h \in Alarms : entered' = Append(entered, Directive(h))
  <2>1. PICK h \in Alarms : entered' = Append(entered, Directive(h))
    BY <1>3
  <2>2. trades' = trades /\ Pending' \subseteq Pending
    BY <1>3, PendingStep
  <2>3. ~ IsTrade(Directive(h))
    BY DEF IsTrade, Directive, DIRECTIVE_CALCULATE_MINUTE
  <2>4. /\ Len(entered') = n + 1
        /\ entered'[n + 1] = Directive(h)
        /\ \A k \in 1..n : entered'[k] = entered[k]
    BY <2>1 DEF EnteredOK
  <2> HIDE DEF n
  <2>5. \A k \in 1..(n + 1) : IsTrade(entered'[k]) => k \in 1..n
    BY <1>0, <2>3, <2>4
  <2>6. EnteredInv'
    <3>1. \A k \in 1..(n + 1) : IsTrade(entered'[k]) => entered'[k].msg < trades'
      BY <2>2, <2>4, <2>5 DEF EnteredInv, n
    <3>2. \A p \in Pending' : \A j \in 1..(n + 1) :
            ~ (IsTrade(entered'[j]) /\ entered'[j].msg = p.msg)
      BY <1>3, <2>2, <2>4, <2>5 DEF EnteredInv, n
    <3> QED
      BY <2>4, <3>1, <3>2 DEF EnteredInv
  <2>7. MessagesUnbroken'
    <3> SUFFICES ASSUME NEW j \in 1..(n + 1), NEW l \in 1..(n + 1), NEW k \in j..l,
                        IsTrade(entered'[j]), IsTrade(entered'[l]),
                        entered'[j].msg = entered'[l].msg
                 PROVE  IsTrade(entered'[k]) /\ entered'[k].msg = entered'[j].msg
      BY <2>4 DEF MessagesUnbroken
    <3>1. j \in 1..n /\ l \in 1..n
      BY <2>5
    <3>2. k \in 1..n
      BY <1>0, <3>1
    <3> QED
      BY <2>4, <3>1, <3>2 DEF MessagesUnbroken, n
  <2> QED
    BY <2>6, <2>7
<1> QED
  BY <1>1, <1>2, <1>3, InsertKinds

\* The trades of a message enter api_queue one after the other, with nothing
\* between them: no trade of another message and no directive of a minute.
THEOREM MessagesCorrect == Spec => []MessagesUnbroken
<1>1. ASSUME Init PROVE LockInv /\ AlarmInv /\ AddInv /\ PendingInv
  <2>1. /\ pc[wss] = "connect" /\ \A h \in Alarms : pc[h] = "start"
        /\ message = <<>>
    BY <1>1, PipelineAssumption DEF Init, Hosts, Alarms
  <2>2. \A t \in ApiThreads : Api!Call(t) # "add"
    BY <1>1 DEF Init, Api!Init, Api!Call
  <2>3. Pending = {}
    BY <2>1, <2>2 DEF Pending, ApiThreads, Range
  <2> QED
    BY <2>1, <2>2, <2>3 DEF LockInv, AlarmInv, AddInv, PendingInv, ApiThreads
<1>2. ASSUME Init PROVE EnteredOK /\ EnteredInv /\ MessagesUnbroken
  BY <1>1, <1>2 DEF Init, EnteredOK, EnteredInv, MessagesUnbroken
<1> QED
  BY <1>1, <1>2, LockStep, AlarmStep, AddStep, PendingInvStep, EnteredInvStep,
     EnteredStep, ControlCorrect, ApiInvariants, PTL DEF Spec
=============================================================================
