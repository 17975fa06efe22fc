------------------------- MODULE PipelineFlowProofs -------------------------
(***************************************************************************)
(* The way of an item from api_queue to the Calculator: it is never in two *)
(* places, it is lost only at the exit, and it is logged once.             *)
(***************************************************************************)
EXTENDS PipelineProofs

-----------------------------------------------------------------------------
(* Sequences without repetitions.                                          *)

\* An element at the end.
LEMMA AppendRange ==
  ASSUME NEW S, NEW s \in Seq(S), NEW x \in S
  PROVE  /\ Range(Append(s, x)) = Range(s) \cup {x}
         /\ IsInjective(s) /\ x \notin Range(s) => IsInjective(Append(s, x))
<1>1. /\ DOMAIN Append(s, x) = 1..(Len(s) + 1) /\ DOMAIN s = 1..Len(s)
      /\ Append(s, x)[Len(s) + 1] = x
      /\ \A k \in 1..Len(s) : Append(s, x)[k] = s[k]
      /\ Len(s) \in Nat
  OBVIOUS
<1>2. Range(Append(s, x)) = Range(s) \cup {x}
  <2>1. ASSUME NEW y \in Range(Append(s, x)) PROVE y \in Range(s) \cup {x}
    BY <1>1, <2>1 DEF Range
  <2>2. ASSUME NEW y \in Range(s) \cup {x} PROVE y \in Range(Append(s, x))
    BY <1>1, <2>2 DEF Range
  <2> QED
    BY <2>1, <2>2
<1>3. ASSUME IsInjective(s), x \notin Range(s) PROVE IsInjective(Append(s, x))
  BY <1>1, <1>3 DEF Range, IsInjective
<1> QED
  BY <1>2, <1>3

\* An element taken from the front.
LEMMA TailRange ==
  ASSUME NEW S, NEW s \in Seq(S), s # <<>>
  PROVE  /\ Range(s) = Range(Tail(s)) \cup {Head(s)}
         /\ IsInjective(s) => IsInjective(Tail(s)) /\ Head(s) \notin Range(Tail(s))
<1>1. /\ DOMAIN Tail(s) = 1..(Len(s) - 1) /\ DOMAIN s = 1..Len(s)
      /\ Head(s) = s[1]
      /\ \A k \in 1..(Len(s) - 1) : Tail(s)[k] = s[k + 1]
      /\ Len(s) \in Nat \ {0}
  OBVIOUS
<1>2. Range(s) = Range(Tail(s)) \cup {Head(s)}
  <2>1. ASSUME NEW y \in Range(s) PROVE y \in Range(Tail(s)) \cup {Head(s)}
    <3>1. PICK k \in 1..Len(s) : y = s[k]
      BY <1>1 DEF Range
    <3>2. CASE k = 1
      BY <1>1, <3>1, <3>2
    <3>3. CASE k # 1
      <4>1. k - 1 \in 1..(Len(s) - 1) /\ Tail(s)[k - 1] = y
        BY <1>1, <3>1, <3>3
      <4> QED
        BY <1>1, <4>1 DEF Range
    <3> QED
      BY <3>2, <3>3
  <2>2. ASSUME NEW y \in Range(Tail(s)) \cup {Head(s)} PROVE y \in Range(s)
    BY <1>1, <2>2 DEF Range
  <2> QED
    BY <2>1, <2>2
<1>3. ASSUME IsInjective(s) PROVE IsInjective(Tail(s)) /\ Head(s) \notin Range(Tail(s))
  BY <1>1, <1>3, SMTT(30) DEF Range, IsInjective
<1> QED
  BY <1>2, <1>3

\* Two sequences, one after the other.
LEMMA ConcatRange ==
  ASSUME NEW S, NEW s \in Seq(S), NEW t \in Seq(S)
  PROVE  /\ Range(s \o t) = Range(s) \cup Range(t)
         /\ IsInjective(s) /\ IsInjective(t) /\ Range(s) \cap Range(t) = {}
              => IsInjective(s \o t)
<1>1. /\ DOMAIN (s \o t) = 1..(Len(s) + Len(t))
      /\ DOMAIN s = 1..Len(s) /\ DOMAIN t = 1..Len(t)
      /\ Len(s) \in Nat /\ Len(t) \in Nat
      /\ \A k \in 1..Len(s) : (s \o t)[k] = s[k]
      /\ \A k \in 1..Len(t) : (s \o t)[Len(s) + k] = t[k]
  OBVIOUS
<1>2. \A k \in 1..(Len(s) + Len(t)) : k \notin 1..Len(s) =>
        k - Len(s) \in 1..Len(t) /\ (s \o t)[k] = t[k - Len(s)]
  BY <1>1
<1>3. Range(s \o t) = Range(s) \cup Range(t)
  <2>1. ASSUME NEW y \in Range(s \o t) PROVE y \in Range(s) \cup Range(t)
    BY <1>1, <1>2, <2>1 DEF Range
  <2>2. ASSUME NEW y \in Range(s) PROVE y \in Range(s \o t)
    BY <1>1, <2>2 DEF Range
  <2>3. ASSUME NEW y \in Range(t) PROVE y \in Range(s \o t)
    <3>1. PICK k \in 1..Len(t) : y = t[k]
      BY <1>1 DEF Range
    <3>2. Len(s) + k \in 1..(Len(s) + Len(t))
      BY <1>1
    <3> QED
      BY <1>1, <3>1, <3>2 DEF Range
  <2> QED
    BY <2>1, <2>2, <2>3
<1>4. ASSUME IsInjective(s), IsInjective(t), Range(s) \cap Range(t) = {},
             NEW a \in DOMAIN (s \o t), NEW b \in DOMAIN (s \o t),
             (s \o t)[a] = (s \o t)[b]
      PROVE  a = b
  <2>1. CASE a \in 1..Len(s) /\ b \in 1..Len(s)
    BY <1>1, <1>4, <2>1 DEF IsInjective
  <2>2. CASE a \notin 1..Len(s) /\ b \notin 1..Len(s)
    <3>1. a - Len(s) = b - Len(s)
      BY <1>1, <1>2, <1>4, <2>2 DEF IsInjective
    <3> QED
      BY <1>1, <1>4, <3>1
  <2>3. ASSUME NEW c \in 1..Len(s), NEW d \in 1..(Len(s) + Len(t)), d \notin 1..Len(s)
        PROVE  (s \o t)[c] # (s \o t)[d]
    <3>1. (s \o t)[c] \in Range(s)
      BY <1>1, Zenon DEF Range
    <3>2. d - Len(s) \in 1..Len(t) /\ (s \o t)[d] = t[d - Len(s)]
      BY <1>2, <2>3, Zenon
    <3>3. (s \o t)[d] \in Range(t)
      BY <1>1, <3>2, Zenon DEF Range
    <3> QED
      BY <1>4, <3>1, <3>3, Zenon
  <2>4. a \in 1..(Len(s) + Len(t)) /\ b \in 1..(Len(s) + Len(t))
    BY <1>1, <1>4, Zenon
  <2> QED
    BY <1>4, <2>1, <2>2, <2>3, <2>4, Zenon
<1> QED
  BY <1>3, <1>4 DEF IsInjective

\* What goes from the middle to the first sequence, or from the last to the
\* middle, leaves the whole as it was.
LEMMA ConcatShift ==
  ASSUME NEW S, NEW s \in Seq(S), NEW t \in Seq(S), NEW x \in S
  PROVE  /\ (Append(s, x) \o <<>>) \o t = (s \o <<x>>) \o t
         /\ t # <<>> => (s \o <<Head(t)>>) \o Tail(t) = (s \o <<>>) \o t
         /\ (s \o <<>>) \o Append(t, x) = Append((s \o <<>>) \o t, x)
         /\ \A y \in S : (s \o <<y>>) \o Append(t, x) = Append((s \o <<y>>) \o t, x)
<1>1. (Append(s, x) \o <<>>) \o t = (s \o <<x>>) \o t
  OBVIOUS
<1>2. ASSUME t # <<>> PROVE (s \o <<Head(t)>>) \o Tail(t) = (s \o <<>>) \o t
  BY <1>2
<1>3. (s \o <<>>) \o Append(t, x) = Append((s \o <<>>) \o t, x)
  OBVIOUS
<1>4. ASSUME NEW y \in S PROVE (s \o <<y>>) \o Append(t, x) = Append((s \o <<y>>) \o t, x)
  OBVIOUS
<1> QED
  BY <1>1, <1>2, <1>3, <1>4

-----------------------------------------------------------------------------
(* Every item enters api_queue once.                                       *)

\* Trades are numbered in the order they are received, and enter in it.
IdInv ==
  /\ \A i \in Range(entered) : IsTrade(i) =>
       /\ i.id <= trades
       /\ \A p \in Pending : i.id < p.id
       /\ \A j \in Range(entered) : IsTrade(j) /\ i.id = j.id => i = j
  /\ \A p \in Pending : p.id <= trades
  /\ \A a, b \in DOMAIN message : a < b => message[a].id < message[b].id
  /\ Api!Call(wss) = "add" =>
       \A a \in DOMAIN message : api_op[wss].arg.id < message[a].id

\* The directive of a handler that has not begun or finished its queue_add.
DirectiveInv ==
  \A h \in Alarms :
    pc[h] \in {"start", "lock", "add"} \/ Api!Call(h) = "add"
      => Directive(h) \notin Range(entered)

\* The fields of a work item.
LEMMA WorkItemFields ==
  ASSUME NEW i \in WorkItem
  PROVE  /\ i.id \in Int /\ i.msg \in Int
         /\ IsTrade(i) => i.id \in 1..MaxTrades
<1>1. CASE \E n \in 1..MaxTrades, m \in 0..MaxTrades : i = Trade(n, m)
  BY <1>1 DEF Trade
<1>2. CASE \E n \in 1..MaxTicks : i = Directive(n)
  BY <1>2 DEF Directive, IsTrade, DIRECTIVE_CALCULATE_MINUTE
<1> QED
  BY <1>1, <1>2 DEF WorkItem

\* Trades keep their order.
LEMMA IdStep ==
  ControlOK /\ Api!TypeOK /\ MessageOK /\ EnteredOK /\ LockInv /\ AddInv /\ PendingInv
  /\ PendingInv' /\ IdInv /\ [Next]_vars
    => IdInv'
<1> SUFFICES ASSUME ControlOK, Api!TypeOK, MessageOK, EnteredOK, LockInv, AddInv,
                    PendingInv, PendingInv', IdInv, [Next]_vars
             PROVE  IdInv'
  OBVIOUS
<1>0. /\ wss \in ApiThreads /\ api_op \in [ApiThreads -> Api!OpType]
      /\ message \in Seq(WorkItem) /\ trades \in Nat
      /\ \A i \in Range(entered) : i \in WorkItem /\ i.id \in Int
      /\ \A p \in Pending : p.id \in Int
  BY WorkItemFields DEF ApiThreads, Api!TypeOK, MessageOK, EnteredOK, PendingInv, Range
<1>1. CASE client_receive
  <2>1. PICK n \in 1..MaxBatch :
          /\ trades' = trades + n
          /\ message' = [k \in 1..n |-> Trade(trades + k, trades)]
    BY <1>1 DEF client_receive
  <2>2. entered' = entered /\ api_op' = api_op /\ pc[wss] = "service" /\ n \in Nat
    BY <1>1, PipelineAssumption DEF client_receive, NoQueue, queues, Goto
  <2>3. Api!Call(wss)' # "add"
    BY <2>2 DEF AddInv, Api!Call
  <2>4. DOMAIN message' = 1..n /\ \A k \in 1..n : message'[k].id = trades + k
    BY <2>1 DEF Trade
  <2>5. \A p \in Pending' : \E k \in 1..n : p.id = trades + k
    BY <2>3, <2>4 DEF Pending, Range
  <2>6. \A p \in Pending' : trades < p.id /\ p.id <= trades'
    BY <1>0, <2>1, <2>2, <2>5
  <2>7. \A i \in Range(entered') : IsTrade(i) =>
          /\ i.id <= trades'
          /\ \A p \in Pending' : i.id < p.id
          /\ \A j \in Range(entered') : IsTrade(j) /\ i.id = j.id => i = j
    <3>1. ASSUME NEW i \in Range(entered), IsTrade(i)
          PROVE  i.id <= trades' /\ \A p \in Pending' : i.id < p.id
      <4>1. i.id <= trades /\ i.id \in Int
        BY <1>0, <3>1 DEF IdInv
      <4>2. \A p \in Pending' : p.id \in Int
        BY <2>5, <1>0, <2>2
      <4> QED
        BY <1>0, <2>1, <2>2, <2>6, <4>1, <4>2
    <3> QED
      BY <2>2, <3>1 DEF IdInv
  <2>8. \A a, b \in DOMAIN message' : a < b => message'[a].id < message'[b].id
    BY <1>0, <2>2, <2>4
  <2> QED
    BY <2>3, <2>6, <2>7, <2>8 DEF IdInv
<1>2. CASE json_callback
  <2>1. /\ message # <<>> /\ message' = Tail(message) /\ trades' = trades
        /\ entered' = entered
        /\ api_op'[wss].arg = Head(message)
    BY <1>0, <1>2 DEF json_callback, Api!queue_add, Api!OpType, OnlyApi
  <2>2. Pending' \subseteq Pending
    BY <1>0, <2>1, PendingStep
  <2>3. /\ DOMAIN message' = 1..(Len(message) - 1) /\ DOMAIN message = 1..Len(message)
        /\ Head(message) = message[1] /\ Len(message) \in Nat \ {0}
        /\ \A k \in 1..(Len(message) - 1) : message'[k] = message[k + 1]
    BY <1>0, <2>1
  <2>4. \A a, b \in DOMAIN message' : a < b => message'[a].id < message'[b].id
    <3> SUFFICES ASSUME NEW a \in DOMAIN message', NEW b \in DOMAIN message', a < b
                 PROVE  message'[a].id < message'[b].id
      OBVIOUS
    <3>1. /\ a + 1 \in DOMAIN message /\ b + 1 \in DOMAIN message /\ a + 1 < b + 1
          /\ message'[a] = message[a + 1] /\ message'[b] = message[b + 1]
      BY <2>3
    <3>2. message[a + 1].id < message[b + 1].id
      BY <3>1 DEF IdInv
    <3> QED
      BY <3>1, <3>2
  <2>5. \A a \in DOMAIN message' : api_op'[wss].arg.id < message'[a].id
    BY <2>1, <2>3 DEF IdInv
  <2> QED
    BY <2>1, <2>2, <2>4, <2>5 DEF IdInv
<1>3. CASE ~ client_receive /\ ~ json_callback
  <2>1. /\ message' = message /\ trades' = trades
        /\ Api!Call(wss)' = "add" =>
             Api!Call(wss) = "add" /\ api_op'[wss].arg = api_op[wss].arg
    BY <1>3, WssCallStep
  <2>2. Pending' \subseteq Pending
    BY <2>1 DEF Pending
  <2>3. CASE entered' = entered
    BY <2>1, <2>2, <2>3 DEF IdInv
  <2>4. CASE /\ Api!Call(wss) = "add" /\ Api!Call(wss)' # "add"
             /\ entered' = Append(entered, api_op[wss].arg)
    <3> DEFINE x == api_op[wss].arg
    <3>1. x \in Pending /\ x \in WorkItem
      BY <2>4 DEF Pending, PendingInv
    <3>2. Range(entered') = Range(entered) \cup {x}
      BY <2>4, <3>1, AppendRange DEF EnteredOK
    <3>3. \A p \in Pending' : x.id < p.id
      BY <2>1, <2>4 DEF Pending, Range, IdInv
    <3>4. x.id <= trades /\ \A i \in Range(entered) : IsTrade(i) => i.id < x.id
      BY <3>1 DEF IdInv
    <3> HIDE DEF x
    <3>5. x.id \in Int
      BY <1>0, <3>1
    <3>6. \A i \in Range(entered) : IsTrade(i) => i.id # x.id
      BY <1>0, <3>4, <3>5
    <3> QED
      BY <2>1, <2>2, <2>4, <3>2, <3>3, <3>4, <3>6 DEF IdInv
  <2>5. CASE \E h \in Alarms : entered' = Append(entered, Directive(h))
    <3>1. PICK h \in Alarms : entered' = Append(entered, Directive(h))
      BY <2>5
    <3>2. Directive(h) \in WorkItem /\ ~ IsTrade(Directive(h))
      BY DEF WorkItem, Alarms, IsTrade, Directive, DIRECTIVE_CALCULATE_MINUTE
    <3>3. Range(entered') = Range(entered) \cup {Directive(h)}
      BY <3>1, <3>2, AppendRange DEF EnteredOK
    <3> QED
      BY <2>1, <2>2, <3>2, <3>3 DEF IdInv
  <2> QED
    BY <2>3, <2>4, <2>5, InsertKinds
<1> QED
  BY <1>1, <1>2, <1>3

\* A directive enters once, in the queue_add of its handler.
LEMMA DirectiveStep ==
  ControlOK /\ Api!TypeOK /\ EnteredOK /\ LockInv /\ AlarmInv /\ AddInv /\ PendingInv
  /\ DirectiveInv /\ [Next]_vars
    => DirectiveInv'
<1> SUFFICES ASSUME ControlOK, Api!TypeOK, EnteredOK, LockInv, AlarmInv, AddInv, PendingInv,
                    DirectiveInv, [Next]_vars, NEW h \in Alarms,
                    pc'[h] \in {"start", "lock", "add"} \/ Api!Call(h)' = "add"
             PROVE  Directive(h) \notin Range(entered')
  BY DEF DirectiveInv
<1>0. /\ pc \in [Hosts \cup Alarms \cup Interrupts -> Location]
      /\ api_op \in [ApiThreads -> Api!OpType]
      /\ h \in ApiThreads /\ h \notin Writers \cup Interrupts /\ h # wss
      /\ clock.ticks \in Int /\ h \in Int
  BY PipelineAssumption DEF ControlOK, Api!TypeOK, ApiThreads, Alarms
<1>1. Directive(h) \notin Range(entered)
  <2>1. CASE send_directive_to_queue(h)
    <3>1. CASE directive_lock(h) \/ directive_add(h)
      BY <3>1 DEF directive_lock, directive_add, Goto, DirectiveInv
    <3>2. CASE directive_limit(h) \/ directive_unlock(h)
      <4>1. pc'[h] \in {"unlock", "done"}
        BY <1>0, <3>2 DEF directive_limit, directive_unlock, Goto
      <4>2. api_op' = api_op /\ Api!Idle(h)
        BY <3>2 DEF directive_limit, directive_unlock, Api!set_exit_flag,
           Api!producer_unlock
      <4> QED
        BY <4>1, <4>2 DEF Api!Idle, Api!Call
    <3> QED
      BY <2>1, <3>1, <3>2 DEF send_directive_to_queue
  <2>2. CASE SIGALRM /\ h = clock.ticks + 1
    BY <1>0, <2>2 DEF AlarmInv, DirectiveInv
  <2>3. CASE ApiContinue(h)
    BY <1>0, <2>3, CallStep DEF ApiContinue, DirectiveInv
  <2>4. CASE UNCHANGED vars
    BY <2>4 DEF vars, queues, Api!Call, DirectiveInv
  <2>5. CASE Next /\ ~ send_directive_to_queue(h) /\ ~ (SIGALRM /\ h = clock.ticks + 1)
             /\ ~ ApiContinue(h)
    <3>1. api_op'[h] = api_op[h] /\ pc'[h] = pc[h]
      BY <1>0, <2>5, OwnSteps
    <3> QED
      BY <3>1 DEF Api!Call, DirectiveInv
  <2> QED
    BY <2>1, <2>2, <2>3, <2>4, <2>5
<1>2. CASE entered' = entered
  BY <1>1, <1>2
<1>3. CASE Api!Call(wss) = "add" /\ entered' = Append(entered, api_op[wss].arg)
  <2>1. api_op[wss].arg \in WorkItem /\ IsTrade(api_op[wss].arg)
    BY <1>3 DEF Pending, PendingInv
  <2>2. ~ IsTrade(Directive(h))
    BY DEF IsTrade, Directive, DIRECTIVE_CALCULATE_MINUTE
  <2>3. Range(entered') = Range(entered) \cup {api_op[wss].arg}
    BY <1>3, <2>1, AppendRange DEF EnteredOK
  <2> QED
    BY <1>1, <2>1, <2>2, <2>3
<1>4. CASE \E g \in Alarms : /\ entered' = Append(entered, Directive(g))
                             /\ pc'[g] = "added" /\ Api!Call(g)' # "add"
  <2>1. PICK g \in Alarms : /\ entered' = Append(entered, Directive(g))
                            /\ pc'[g] = "added" /\ Api!Call(g)' # "add"
    BY <1>4
  <2>2. g # h
    BY <2>1
  <2>3. Directive(g) \in WorkItem /\ Directive(g) # Directive(h)
    BY <2>2 DEF WorkItem, Alarms, Directive
  <2>4. Range(entered') = Range(entered) \cup {Directive(g)}
    BY <2>1, <2>3, AppendRange DEF EnteredOK
  <2> QED
    BY <1>1, <2>3, <2>4
<1> QED
  BY <1>2, <1>3, <1>4, InsertKinds

-----------------------------------------------------------------------------
(* The steps that move an item.                                            *)

\* A thread in a queue operation is where its routine calls that operation.
BusyInv ==
  /\ \A w \in Writers : /\ Api!Call(w) = "remove" => pc[w] = "remove"
                        /\ Calc!Call(w) = "add" => pc[w] = "forward"
  /\ Calc!Call(calculator) = "remove" => pc[calculator] = "remove"

\* Every step keeps the operations with the routines that call them.
LEMMA BusyStep ==
  ControlOK /\ Api!TypeOK /\ Calc!TypeOK /\ BusyInv /\ [Next]_vars => BusyInv'
<1> SUFFICES ASSUME ControlOK, Api!TypeOK, Calc!TypeOK, BusyInv, [Next]_vars PROVE BusyInv'
  OBVIOUS
<1>0. /\ pc \in [Hosts \cup Alarms \cup Interrupts -> Location]
      /\ api_op \in [ApiThreads -> Api!OpType]
      /\ calc_op \in [CalcThreads -> Calc!OpType]
      /\ Writers \subseteq ApiThreads /\ Writers \subseteq CalcThreads
      /\ Writers \subseteq Hosts
      /\ calculator \in CalcThreads /\ calculator \notin Writers
      /\ Writers \cap ({wss} \cup Alarms \cup Interrupts) = {}
  BY PipelineAssumption DEF ControlOK, Api!TypeOK, Calc!TypeOK, ApiThreads, CalcThreads,
     Hosts, Alarms
<1>1. CASE UNCHANGED vars
  BY <1>1 DEF vars, queues, BusyInv, Api!Call, Calc!Call
<1>2. ASSUME Next, NEW w \in Writers
      PROVE  /\ Api!Call(w)' = "remove" => pc'[w] = "remove"
             /\ Calc!Call(w)' = "add" => pc'[w] = "forward"
  <2>1. CASE writer_remove(w)
    <3>1. /\ pc'[w] = "remove" /\ Calc!Idle(w) /\ calc_op' = calc_op
      BY <1>0, <2>1 DEF writer_remove, Goto, OnlyApi
    <3> QED
      BY <3>1 DEF Calc!Idle, Calc!Call
  <2>2. CASE writer_forward(w)
    <3>1. pc'[w] = "forward" /\ Api!Idle(w) /\ api_op' = api_op
      BY <1>0, <2>2 DEF writer_forward, Goto, OnlyCalc
    <3> QED
      BY <3>1 DEF Api!Idle, Api!Call
  <2>3. CASE writer_pass_exit(w) \/ writer_return(w)
    <3>1. /\ Calc!Idle(w) /\ calc_op' = calc_op /\ api_op' = api_op
          /\ Api!Idle(w) \/ pc[w] = "pass_signal"
      BY <2>3 DEF writer_pass_exit, writer_return, OnlyCalc, Goto, Calc!set_exit_flag,
         Calc!bare_signal
    <3> QED
      BY <3>1 DEF Api!Idle, Api!Call, Calc!Idle, Calc!Call, BusyInv
  <2>4. CASE ~ Writer(w)
    <3>1. CASE ApiContinue(w)
      <4>1. ApiP!TypeOK /\ ApiP!Continue(w)
        BY <1>0, <3>1, ApiSame DEF ApiContinue
      <4>2. ApiP!Call(w)' \in {ApiP!Call(w), "none"}
        BY <1>0, <4>1, ApiQueueAssumption, ApiP!CallEnds
      <4>3. pc' = pc /\ calc_op' = calc_op
        BY <3>1 DEF ApiContinue
      <4> QED
        BY <4>2, <4>3 DEF BusyInv, Api!Call, ApiP!Call, Calc!Call
    <3>2. CASE CalcContinue(w)
      <4>1. CalcP!TypeOK /\ CalcP!Continue(w)
        BY <1>0, <3>2, CalcSame DEF CalcContinue
      <4>2. CalcP!Call(w)' \in {CalcP!Call(w), "none"}
        BY <1>0, <4>1, CalcQueueAssumption, CalcP!CallEnds
      <4>3. pc' = pc /\ api_op' = api_op
        BY <3>2 DEF CalcContinue
      <4> QED
        BY <4>2, <4>3 DEF BusyInv, Calc!Call, CalcP!Call, Api!Call
    <3>3. CASE ~ ApiContinue(w) /\ ~ CalcContinue(w)
      <4>1. api_op'[w] = api_op[w] /\ pc'[w] = pc[w]
        BY <1>0, <1>2, <2>4, <3>3, OwnSteps
      <4>2. calc_op'[w] = calc_op[w]
        BY <1>0, <1>2, <2>4, <3>3, CalcOwnSteps
      <4> QED
        BY <4>1, <4>2 DEF BusyInv, Calc!Call, Api!Call
    <3> QED
      BY <3>1, <3>2, <3>3
  <2> QED
    BY <2>1, <2>2, <2>3, <2>4 DEF Writer
<1>3. ASSUME Next PROVE Calc!Call(calculator)' = "remove" => pc'[calculator] = "remove"
  <2>1. CASE calculator_start \/ calculator_compute
    BY <1>0, <2>1 DEF calculator_start, calculator_compute, Goto, Hosts
  <2>2. CASE calculator_return
    <3>1. Calc!Idle(calculator) /\ calc_op' = calc_op
      BY <2>2 DEF calculator_return, NoQueue, queues
    <3> QED
      BY <3>1 DEF Calc!Idle, Calc!Call
  <2>3. CASE CalcContinue(calculator)
    <3>1. CalcP!TypeOK /\ CalcP!Continue(calculator)
      BY <1>0, <2>3, CalcSame DEF CalcContinue
    <3>2. CalcP!Call(calculator)' \in {CalcP!Call(calculator), "none"}
      BY <1>0, <3>1, CalcQueueAssumption, CalcP!CallEnds
    <3> QED
      BY <2>3, <3>2 DEF BusyInv, Calc!Call, CalcP!Call, CalcContinue
  <2>4. CASE ~ Calculator /\ ~ CalcContinue(calculator)
    <3>1. calc_op'[calculator] = calc_op[calculator] /\ pc'[calculator] = pc[calculator]
      BY <1>0, <1>3, <2>4, CalcOwnSteps
    <3> QED
      BY <3>1 DEF BusyInv, Calc!Call
  <2> QED
    BY <2>1, <2>2, <2>3, <2>4 DEF Calculator
<1> QED
  BY <1>1, <1>2, <1>3 DEF BusyInv

\* The Writers of W keep what they have in hand.
HandsKept(W) == \A w \in W : Taken(w)' = Taken(w) /\ Adding(w)' = Adding(w)

\* An item enters api_queue.
Enter(x) ==
  /\ Api!Contents' = Append(Api!Contents, x)
  /\ entered' = Append(entered, x)
  /\ HandsKept(Writers)
  /\ Forwarded' = Forwarded /\ trade_logs' = trade_logs

\* A Writer takes the first item of api_queue.
Take(w) ==
  /\ Api!Contents # <<>>
  /\ Api!Contents' = Tail(Api!Contents)
  /\ Taken(w) = {} /\ Taken(w)' = {Head(Api!Contents)} /\ Adding(w)' = Adding(w)
  /\ HandsKept(Writers \ {w})
  /\ Forwarded' = Forwarded /\ entered' = entered /\ trade_logs' = trade_logs

\* A Writer logs the item it has taken and begins to add it.
LogAndAdd(w, x) ==
  /\ Taken(w) = {x} /\ Taken(w)' = {}
  /\ Adding(w) = {} /\ Adding(w)' = {x}
  /\ HandsKept(Writers \ {w})
  /\ IF IsTrade(x) THEN write_trade_to_file(x) ELSE trade_logs' = trade_logs
  /\ Api!Contents' = Api!Contents /\ Forwarded' = Forwarded /\ entered' = entered

\* The item a Writer adds goes to the end of calculation_queue.
Pass(w, x) ==
  /\ Adding(w) = {x} /\ Adding(w)' = {} /\ Taken(w)' = Taken(w)
  /\ HandsKept(Writers \ {w})
  /\ Forwarded' = Append(Forwarded, x)
  /\ Api!Contents' = Api!Contents /\ entered' = entered /\ trade_logs' = trade_logs

\* The item a Writer adds is refused, under the exit order.
Drop(w) ==
  /\ calculation_queue.exit_flag = 1
  /\ Adding(w)' = {} /\ Taken(w)' = Taken(w)
  /\ HandsKept(Writers \ {w})
  /\ Api!Contents' = Api!Contents /\ Forwarded' = Forwarded
  /\ entered' = entered /\ trade_logs' = trade_logs

\* No item moves.
Stay ==
  /\ HandsKept(Writers)
  /\ Api!Contents' = Api!Contents /\ Forwarded' = Forwarded
  /\ entered' = entered /\ trade_logs' = trade_logs

\* All that is known of the two queues and their users.
UsersInv ==
  /\ ControlOK /\ MessageOK /\ EnteredOK /\ ComputedOK /\ WritersRemove /\ BusyInv
  /\ Api!TypeOK /\ Api!RingInv /\ Api!ItemsWritten /\ ApiP!Callers
  /\ Calc!TypeOK /\ Calc!RingInv /\ Calc!ItemsWritten /\ CalcP!Callers

\* The contents of the queues are sequences.
LEMMA ContentsSeq ==
  ASSUME UsersInv
  PROVE  /\ Api!Contents \in Seq(WorkItem) /\ Calc!Contents \in Seq(WorkItem)
         /\ computed \in Seq(WorkItem)
<1>1. ApiP!TypeOK /\ ApiP!RingInv /\ CalcP!TypeOK /\ CalcP!RingInv
  BY ApiSame, CalcSame DEF UsersInv
<1>2. ApiP!Contents \in Seq(WorkItem \cup {NoItem})
  BY <1>1, ApiQueueAssumption, ApiP!ContentsType DEF ApiP!ContentsOK
<1>3. CalcP!Contents \in Seq(WorkItem \cup {NoItem})
  BY <1>1, CalcQueueAssumption, CalcP!ContentsType DEF CalcP!ContentsOK
<1>4. /\ \A k \in 1..Len(Api!Contents) : Api!Contents[k] \in WorkItem
      /\ \A k \in 1..Len(Calc!Contents) : Calc!Contents[k] \in WorkItem
  BY DEF UsersInv, Api!ItemsWritten, Calc!ItemsWritten
<1>5. Api!Contents \in Seq(WorkItem \cup {NoItem}) /\ Calc!Contents \in Seq(WorkItem \cup {NoItem})
  BY <1>2, <1>3, ApiSame, CalcSame
<1>6. ASSUME NEW S, NEW T, NEW s \in Seq(T), \A k \in 1..Len(s) : s[k] \in S
      PROVE  s \in Seq(S)
  BY <1>6
<1>7. Api!Contents \in Seq(WorkItem)
  BY <1>4, <1>5, <1>6, Zenon
<1>8. Calc!Contents \in Seq(WorkItem)
  BY <1>4, <1>5, <1>6, Zenon
<1> QED
  BY <1>7, <1>8, Zenon DEF UsersInv, ComputedOK

\* The item the Calculator has removed and not yet handled.
InHand ==
  IF /\ pc[calculator] = "remove" /\ calc_op[calculator].ret = 0
     /\ calc_op[calculator].pc \in {"remove_signal", "idle"}
  THEN <<calc_op[calculator].item>> ELSE <<>>

\* It is a work item, so what went through calculation_queue are work items.
LEMMA ForwardedSeq ==
  ASSUME UsersInv
  PROVE  /\ Forwarded = (computed \o InHand) \o Calc!Contents
         /\ InHand = <<>> \/ \E x \in WorkItem : InHand = <<x>>
         /\ Forwarded \in Seq(WorkItem)
<1>1. Forwarded = (computed \o InHand) \o Calc!Contents
  BY DEF Forwarded, InHand
<1>2. InHand = <<>> \/ \E x \in WorkItem : InHand = <<x>>
  <2>1. CASE InHand # <<>>
    <3>1. /\ pc[calculator] = "remove" /\ calc_op[calculator].ret = 0
          /\ calc_op[calculator].pc \in {"remove_signal", "idle"}
          /\ InHand = <<calc_op[calculator].item>>
      BY <2>1 DEF InHand
    <3>2. calculator \in CalcThreads
      BY DEF CalcThreads
    <3>3. calc_op[calculator].item \in WorkItem
      BY <3>1, <3>2 DEF UsersInv, ComputedOK, CalcP!RemoveCalled, Calc!ItemsWritten
    <3> QED
      BY <3>1, <3>3
  <2> QED
    BY <2>1
<1>3. InHand \in Seq(WorkItem)
  <2>1. CASE InHand = <<>>
    BY <2>1
  <2>2. ASSUME NEW x \in WorkItem, InHand = <<x>> PROVE InHand \in Seq(WorkItem)
    <3>1. <<x>> \in Seq(WorkItem)
      OBVIOUS
    <3> QED
      BY <2>2, <3>1
  <2> QED
    BY <1>2, <2>1, <2>2
<1> QED
  BY <1>1, <1>2, <1>3, ContentsSeq

\* Only a thread that goes on with an operation on a queue changes what is in
\* it.
LEMMA QueueFrame ==
  ASSUME UsersInv, [Next]_vars
  PROVE  /\ ~ (\E t \in ApiThreads : ApiContinue(t)) => Api!Contents' = Api!Contents
         /\ ~ (\E t \in CalcThreads : CalcContinue(t)) => Calc!Contents' = Calc!Contents
<1>1. ApiP!TypeOK /\ CalcP!TypeOK
  BY ApiSame, CalcSame DEF UsersInv
<1>2. CASE UNCHANGED vars
  BY <1>2 DEF vars, queues, Api!Contents, Api!Count, Api!Slot, Calc!Contents, Calc!Count,
     Calc!Slot
<1>3. ASSUME Next, ~ \E t \in ApiThreads : ApiContinue(t)
      PROVE  Api!Contents' = Api!Contents
  <2>1. CASE UNCHANGED Api!vars
    BY <2>1 DEF Api!vars, Api!Contents, Api!Count, Api!Slot
  <2>2. ASSUME NEW t \in ApiThreads, Api!Begin(t) \/ Api!SpuriousWakeup(t)
        PROVE  Api!Contents' = Api!Contents
    <3>1. ApiP!Begin(t) \/ ApiP!SpuriousWakeup(t)
      BY <2>2, ApiSame
    <3>2. ApiP!Contents' = ApiP!Contents
      BY <1>1, <3>1, ApiQueueAssumption, ApiP!ContentsFrame
    <3> QED
      BY <3>2 DEF ApiP!Contents, ApiP!Count, ApiP!Slot, Api!Contents, Api!Count, Api!Slot
  <2> QED
    BY <1>3, <2>1, <2>2, ApiStep DEF UsersInv
<1>4. ASSUME Next, ~ \E t \in CalcThreads : CalcContinue(t)
      PROVE  Calc!Contents' = Calc!Contents
  <2>1. CASE UNCHANGED Calc!vars
    BY <2>1 DEF Calc!vars, Calc!Contents, Calc!Count, Calc!Slot
  <2>2. ASSUME NEW t \in CalcThreads, Calc!Begin(t) \/ Calc!SpuriousWakeup(t)
        PROVE  Calc!Contents' = Calc!Contents
    <3>1. CalcP!Begin(t) \/ CalcP!SpuriousWakeup(t)
      BY <2>2, CalcSame
    <3>2. CalcP!Contents' = CalcP!Contents
      BY <1>1, <3>1, CalcQueueAssumption, CalcP!ContentsFrame
    <3> QED
      BY <3>2 DEF CalcP!Contents, CalcP!Count, CalcP!Slot, Calc!Contents, Calc!Count,
         Calc!Slot
  <2> QED
    BY <1>4, <2>1, <2>2, CalcStep DEF UsersInv
<1> QED
  BY <1>2, <1>3, <1>4

-----------------------------------------------------------------------------
(* What a step does with the items.                                        *)

\* A Writer's hands, in terms of its calls.
LEMMA Hands ==
  ASSUME NEW w
  PROVE  /\ Taken(w) = IF pc[w] = "remove" /\ ApiP!Holds(w) THEN {api_op[w].item} ELSE {}
         /\ Taken(w)' = IF pc'[w] = "remove" /\ ApiP!Holds(w)'
                        THEN {api_op'[w].item} ELSE {}
BY DEF Taken, ApiP!Holds

\* What holds of Api and Calc before and after a step holds of ApiP and CalcP.
LEMMA ProofInstances ==
  ASSUME UsersInv, UsersInv'
  PROVE  /\ ApiP!TypeOK /\ ApiP!TypeOK' /\ ApiP!RingInv /\ ApiP!RingInv'
         /\ ApiP!Contents = Api!Contents /\ ApiP!Contents' = Api!Contents'
         /\ CalcP!TypeOK /\ CalcP!TypeOK' /\ CalcP!RingInv /\ CalcP!RingInv'
         /\ CalcP!Contents = Calc!Contents /\ CalcP!Contents' = Calc!Contents'
<1>1. Api!TypeOK' /\ Api!RingInv' /\ Calc!TypeOK' /\ Calc!RingInv'
  BY DEF UsersInv
<1>2. ApiP!TypeOK' /\ ApiP!RingInv'
  BY <1>1 DEF Api!TypeOK, ApiP!TypeOK, Api!QueueType, ApiP!QueueType, Api!OpType,
     ApiP!OpType, Api!Locations, ApiP!Locations, Api!RingInv, ApiP!RingInv
<1>3. CalcP!TypeOK' /\ CalcP!RingInv'
  BY <1>1 DEF Calc!TypeOK, CalcP!TypeOK, Calc!QueueType, CalcP!QueueType, Calc!OpType,
     CalcP!OpType, Calc!Locations, CalcP!Locations, Calc!RingInv, CalcP!RingInv
<1>4. ApiP!Contents' = Api!Contents' /\ CalcP!Contents' = Calc!Contents'
  BY DEF Api!Contents, ApiP!Contents, Api!Count, ApiP!Count, Api!Slot, ApiP!Slot,
     Calc!Contents, CalcP!Contents, Calc!Count, CalcP!Count, Calc!Slot, CalcP!Slot
<1>5. ApiP!TypeOK /\ ApiP!RingInv /\ ApiP!Contents = Api!Contents
  BY ApiSame DEF UsersInv
<1>6. CalcP!TypeOK /\ CalcP!RingInv /\ CalcP!Contents = Calc!Contents
  BY CalcSame DEF UsersInv
<1> QED
  BY <1>2, <1>3, <1>4, <1>5, <1>6

\* A thread that goes on with an operation on api_queue.
LEMMA ApiFlow ==
  ASSUME UsersInv, UsersInv', AddInv, NEW t \in ApiThreads, ApiContinue(t)
  PROVE  (\E x \in WorkItem : Enter(x)) \/ (\E w \in Writers : Take(w)) \/ Stay
<1>1. /\ ApiP!TypeOK /\ ApiP!TypeOK' /\ ApiP!RingInv /\ ApiP!RingInv'
      /\ ApiP!Continue(t)
      /\ ApiP!Contents = Api!Contents /\ ApiP!Contents' = Api!Contents'
  BY ApiSame, ProofInstances DEF ApiContinue
<1>2. /\ UNCHANGED <<calculation_queue, calc_op, pc, trade_logs, computed>>
      /\ entered' = IF api_op[t].pc = "add_loop" /\ api_op'[t].pc = "add_signal"
                    THEN Append(entered, api_op[t].arg) ELSE entered
  BY DEF ApiContinue
<1>3. Forwarded' = Forwarded
  BY <1>2 DEF Forwarded, Calc!Contents, Calc!Count, Calc!Slot
<1>4. ASSUME NEW w \in Writers, w # t
      PROVE  Taken(w)' = Taken(w) /\ Adding(w)' = Adding(w)
  <2>1. api_op'[w] = api_op[w]
    BY <1>1, <1>4, ApiQueueAssumption, ApiP!OpFrame DEF ApiThreads
  <2> QED
    BY <1>2, <2>1 DEF Taken, Adding, Calc!Call
<1>5. ASSUME NEW w \in Writers PROVE Adding(w)' = Adding(w)
  BY <1>2 DEF Adding, Calc!Call
<1>6. CASE /\ api_op[t].pc = "add_loop" /\ api_op'[t].pc = "add_signal"
           /\ ApiP!Call(t) = "add"
           /\ ApiP!Contents' = Append(ApiP!Contents, api_op[t].arg)
  <2>1. t \notin Writers
    BY <1>6 DEF AddInv, Api!Call, ApiP!Call
  <2>2. api_op[t].arg \in WorkItem
    BY <1>6 DEF UsersInv, Api!ItemsWritten, Api!Call, ApiP!Call
  <2>3. Enter(api_op[t].arg)
    BY <1>1, <1>2, <1>3, <1>4, <1>6, <2>1 DEF Enter, HandsKept
  <2> QED
    BY <2>2, <2>3
<1>7. CASE /\ api_op[t].pc = "remove_loop" /\ api_op'[t].pc = "remove_signal"
           /\ api_op'[t].ret = 0
           /\ ApiP!Contents # <<>> /\ api_op'[t].item = Head(ApiP!Contents)
           /\ ApiP!Contents' = Tail(ApiP!Contents)
  <2>1. ApiP!Call(t) = "remove" /\ Api!Call(t) = "remove"
    BY <1>7 DEF ApiP!Call, Api!Call
  <2>2. t \in Writers
    BY <2>1 DEF UsersInv, ApiP!Callers
  <2>3. pc[t] = "remove" /\ pc'[t] = "remove"
    BY <1>2, <2>1, <2>2 DEF UsersInv, BusyInv
  <2>4. Taken(t) = {} /\ Taken(t)' = {Head(Api!Contents)}
    BY <1>1, <1>7, <2>3 DEF Taken
  <2>5. Take(t)
    BY <1>1, <1>2, <1>3, <1>4, <1>5, <1>7, <2>2, <2>4 DEF Take, HandsKept
  <2> QED
    BY <2>2, <2>5
<1>8. CASE /\ ~ (api_op[t].pc = "add_loop" /\ api_op'[t].pc = "add_signal")
           /\ ApiP!Contents' = ApiP!Contents
           /\ api_op'[t].item = api_op[t].item
           /\ ApiP!RemoveCalled(t) => (ApiP!Holds(t)' <=> ApiP!Holds(t))
  <2>1. ASSUME t \in Writers PROVE Taken(t)' = Taken(t)
    <3>1. pc[t] = "remove" => (ApiP!Holds(t)' <=> ApiP!Holds(t))
      BY <1>8, <2>1 DEF UsersInv, WritersRemove
    <3>2. pc'[t] = pc[t]
      BY <1>2
    <3> QED
      BY <1>8, <3>1, <3>2, Hands
  <2>2. HandsKept(Writers)
    BY <1>4, <1>5, <2>1 DEF HandsKept
  <2> QED
    BY <1>1, <1>2, <1>3, <1>8, <2>2 DEF Stay
<1> QED
  BY <1>1, <1>6, <1>7, <1>8, ApiQueueAssumption, ApiP!TransferStep

\* A thread that goes on with an operation on calculation_queue.
LEMMA CalcFlow ==
  ASSUME UsersInv, UsersInv', NEW t \in CalcThreads, CalcContinue(t)
  PROVE  (\E w \in Writers : (\E x \in WorkItem : Pass(w, x)) \/ Drop(w)) \/ Stay
<1>1. /\ CalcP!TypeOK /\ CalcP!TypeOK' /\ CalcP!RingInv /\ CalcP!RingInv'
      /\ CalcP!Continue(t)
      /\ CalcP!Contents = Calc!Contents /\ CalcP!Contents' = Calc!Contents'
  BY CalcSame, ProofInstances DEF CalcContinue
<1>2. UNCHANGED <<api_queue, api_op, pc, entered, trade_logs, computed>>
  BY DEF CalcContinue
<1>3. Api!Contents' = Api!Contents
  BY <1>2 DEF Api!Contents, Api!Count, Api!Slot
<1>4. \A w \in Writers : Taken(w)' = Taken(w)
  BY <1>2 DEF Taken
<1>5. \A s \in CalcThreads \ {t} : calc_op'[s] = calc_op[s]
  BY <1>1, CalcQueueAssumption, CalcP!OpFrame
<1>6. \A w \in Writers \ {t} : Adding(w)' = Adding(w)
  BY <1>2, <1>5 DEF Adding, Calc!Call, CalcThreads
<1>7. calculator \notin Writers /\ calculator \in CalcThreads
  BY PipelineAssumption DEF CalcThreads
<1>8. /\ Forwarded = (computed \o InHand) \o Calc!Contents
      /\ Forwarded' = (computed \o InHand') \o Calc!Contents'
      /\ computed \in Seq(WorkItem) /\ Calc!Contents \in Seq(WorkItem)
      /\ InHand = <<>> \/ \E x \in WorkItem : InHand = <<x>>
  BY <1>2, ForwardedSeq, ContentsSeq DEF Forwarded, InHand
<1>9. t # calculator => InHand' = InHand
  BY <1>2, <1>5, <1>7 DEF InHand
<1>10. CASE /\ CalcP!Call(t) = "add" /\ CalcP!Call(t)' # "add"
            /\ CalcP!Contents' = Append(CalcP!Contents, calc_op[t].arg)
  <2>1. Calc!Call(t) = "add" /\ Calc!Call(t)' # "add"
    BY <1>10 DEF Calc!Call, CalcP!Call
  <2>2. t \in Writers /\ t # calculator
    BY <1>7, <1>10 DEF UsersInv, CalcP!Callers
  <2>3. calc_op[t].arg \in WorkItem
    BY <2>1 DEF UsersInv, Calc!ItemsWritten
  <2>4. Adding(t) = {calc_op[t].arg} /\ Adding(t)' = {}
    BY <2>1, <2>2 DEF Adding, UsersInv, BusyInv
  <2>5. Forwarded' = Append(Forwarded, calc_op[t].arg)
    <3> DEFINE x == calc_op[t].arg
               q == Calc!Contents
    <3>1. InHand' = InHand /\ Calc!Contents' = Append(q, x)
      BY <1>1, <1>9, <1>10, <2>2, Zenon
    <3>2. Forwarded' = (computed \o InHand) \o Append(q, x)
      BY <1>8, <3>1, Zenon
    <3>3. q \in Seq(WorkItem) /\ x \in WorkItem /\ computed \in Seq(WorkItem)
      BY <1>8, <2>3, Zenon
    <3> HIDE DEF x, q
    <3>4. (computed \o InHand) \o Append(q, x) = Append((computed \o InHand) \o q, x)
      <4>1. CASE InHand = <<>>
        <5>1. (computed \o <<>>) \o Append(q, x) = Append((computed \o <<>>) \o q, x)
          BY <3>3, ConcatShift
        <5> QED
          BY <4>1, <5>1, Zenon
      <4>2. ASSUME NEW y \in WorkItem, InHand = <<y>>
            PROVE  (computed \o InHand) \o Append(q, x) = Append((computed \o InHand) \o q, x)
        <5>1. (computed \o <<y>>) \o Append(q, x) = Append((computed \o <<y>>) \o q, x)
          BY <3>3, ConcatShift
        <5> QED
          BY <4>2, <5>1, Zenon
      <4> QED
        BY <1>8, <4>1, <4>2, Zenon
    <3> QED
      BY <1>8, <3>2, <3>4, Zenon DEF x, q
  <2>6. Pass(t, calc_op[t].arg)
    BY <1>2, <1>3, <1>4, <1>6, <2>2, <2>4, <2>5 DEF Pass, HandsKept
  <2> QED
    BY <2>2, <2>3, <2>6
<1>11. CASE /\ calc_op[t].pc = "remove_loop" /\ calc_op'[t].pc = "remove_signal"
            /\ calc_op'[t].ret = 0
            /\ CalcP!Contents # <<>> /\ calc_op'[t].item = Head(CalcP!Contents)
            /\ CalcP!Contents' = Tail(CalcP!Contents)
  <2>1. CalcP!Call(t) = "remove" /\ Calc!Call(t) = "remove"
    BY <1>11 DEF CalcP!Call, Calc!Call
  <2>2. t = calculator
    BY <2>1 DEF UsersInv, CalcP!Callers
  <2>3. pc[t] = "remove" /\ pc'[t] = "remove"
    BY <1>2, <2>1, <2>2 DEF UsersInv, BusyInv
  <2>4. InHand = <<>> /\ InHand' = <<Head(Calc!Contents)>>
    BY <1>1, <1>11, <2>2, <2>3 DEF InHand
  <2>5. Head(Calc!Contents) \in WorkItem
    BY <1>1, <1>8, <1>11
  <2>6. Forwarded' = Forwarded
    BY <1>1, <1>8, <1>11, <2>4, <2>5, ConcatShift
  <2> QED
    BY <1>2, <1>3, <1>4, <1>6, <1>7, <2>2, <2>6 DEF Stay, HandsKept
<1>12. CASE /\ CalcP!Contents' = CalcP!Contents
            /\ calc_op'[t].arg = calc_op[t].arg /\ calc_op'[t].item = calc_op[t].item
            /\ \/ CalcP!Call(t)' = "add" <=> CalcP!Call(t) = "add"
               \/ CalcP!Call(t) = "add" /\ calculation_queue.exit_flag = 1
            /\ CalcP!RemoveCalled(t) => (CalcP!Holds(t)' <=> CalcP!Holds(t))
  <2>1. InHand' = InHand
    <3>1. CASE t = calculator
      <4>1. pc[t] = "remove" => (CalcP!Holds(t)' <=> CalcP!Holds(t))
        BY <1>12, <3>1 DEF UsersInv, ComputedOK
      <4> QED
        BY <1>2, <1>12, <3>1, <4>1 DEF InHand, CalcP!Holds
    <3> QED
      BY <1>9, <3>1
  <2>2. Forwarded' = Forwarded
    BY <1>1, <1>8, <1>12, <2>1
  <2>3. CASE t \in Writers => Adding(t)' = Adding(t)
    BY <1>2, <1>3, <1>4, <1>6, <2>2, <2>3 DEF Stay, HandsKept
  <2>4. CASE t \in Writers /\ Adding(t)' # Adding(t)
    <3>1. ~ (Calc!Call(t)' = "add" <=> Calc!Call(t) = "add")
      BY <1>2, <1>12, <2>4 DEF Adding
    <3>2. CalcP!Call(t) = "add" /\ calculation_queue.exit_flag = 1
          /\ Calc!Call(t)' # "add"
      BY <1>12, <3>1 DEF Calc!Call, CalcP!Call
    <3>3. Adding(t)' = {}
      BY <3>2 DEF Adding
    <3>4. Drop(t)
      BY <1>2, <1>3, <1>4, <1>6, <2>2, <2>4, <3>2, <3>3 DEF Drop, HandsKept
    <3> QED
      BY <2>4, <3>4
  <2> QED
    BY <2>3, <2>4
<1> QED
  BY <1>1, <1>10, <1>11, <1>12, CalcQueueAssumption, CalcP!TransferStep

\* Only a Writer that forwards a trade writes to the logs.
LEMMA LogsFrame ==
  ASSUME [Next]_vars, ~ \E w \in Writers : Writer(w)
  PROVE  trade_logs' = trade_logs
<1>1. CASE WSSClient
  BY <1>1 DEF WSSClient, finnhub_connection_setup, client_established,
     client_connection_error, client_receive, receive_lock, json_callback,
     receive_unlock, service_idle, client_closed, closed_signal, wss_notify,
     wss_return, OnlyApi, NoQueue
<1>2. CASE Calculator \/ SIGALRM \/ main_exit
  BY <1>2 DEF Calculator, calculator_start, calculator_compute, calculator_return,
     SIGALRM, main_exit, NoQueue
<1>3. CASE \E h \in Alarms : send_directive_to_queue(h)
  BY <1>3 DEF send_directive_to_queue, directive_lock, directive_add, directive_limit,
     directive_unlock, OnlyApi
<1>4. CASE \E i \in Interrupts : SIGINT(i) \/ close_connection_interrupt(i)
  BY <1>4 DEF SIGINT, close_connection_interrupt, OnlyApi, NoQueue
<1>5. CASE (\E t \in CalcThreads : CalcContinue(t)) \/ Spurious \/ UNCHANGED vars
           \/ (\E t \in ApiThreads : ApiContinue(t))
  BY <1>5 DEF CalcContinue, ApiContinue, Spurious, vars
<1> QED
  BY <1>1, <1>2, <1>3, <1>4, <1>5 DEF Next

\* A step of a Writer's routine moves no item but the one it forwards.
LEMMA WriterFlow ==
  ASSUME UsersInv, Next, NEW w \in Writers, Writer(w),
         Api!Contents' = Api!Contents, Calc!Contents' = Calc!Contents
  PROVE  (\E x \in WorkItem : LogAndAdd(w, x)) \/ Stay
<1>0. /\ pc \in [Hosts \cup Alarms \cup Interrupts -> Location]
      /\ api_op \in [ApiThreads -> Api!OpType]
      /\ calc_op \in [CalcThreads -> Calc!OpType]
      /\ w \in Hosts /\ w \in ApiThreads /\ w \in CalcThreads
      /\ Writers \subseteq Hosts /\ calculator \in Hosts /\ calculator # w
      /\ calculator \in CalcThreads
  BY PipelineAssumption DEF UsersInv, ControlOK, Api!TypeOK, Calc!TypeOK, Hosts,
     ApiThreads, CalcThreads
<1>1. computed' = computed /\ entered' = entered
  BY DEF Writer, writer_remove, writer_forward, writer_pass_exit, writer_return,
     OnlyApi, OnlyCalc
<1>2. \A s \in Writers \cup {calculator} : s # w => pc'[s] = pc[s]
  BY <1>0 DEF Writer, writer_remove, writer_forward, writer_pass_exit, writer_return, Goto
<1>3. \A s \in Writers : s # w => api_op'[s] = api_op[s]
  BY <1>0 DEF Writer, writer_remove, writer_forward, writer_pass_exit, writer_return,
     OnlyCalc, Api!queue_remove, ApiThreads
<1>4. \A s \in Writers \cup {calculator} : s # w => calc_op'[s] = calc_op[s]
  BY <1>0 DEF Writer, writer_remove, writer_forward, writer_pass_exit, writer_return,
     OnlyApi, Calc!queue_add, Calc!set_exit_flag, Calc!bare_signal, CalcThreads
<1>5. HandsKept(Writers \ {w})
  BY <1>2, <1>3, <1>4 DEF HandsKept, Taken, Adding, Calc!Call
<1>6. Forwarded' = Forwarded
  BY <1>0, <1>1, <1>2, <1>4 DEF Forwarded
<1>7. CASE writer_forward(w)
  <2> DEFINE x == api_op[w].item
  <2>1. /\ api_op[w].pc = "idle" /\ api_op[w].ret = 0 /\ pc[w] = "remove"
        /\ pc'[w] = "forward" /\ Calc!queue_add(w, x)
        /\ IF IsTrade(x) THEN write_trade_to_file(x) ELSE trade_logs' = trade_logs
    BY <1>0, <1>7 DEF writer_forward, Goto, Api!Idle
  <2>2. x \in WorkItem
    BY <2>1 DEF UsersInv, WritersRemove, ApiP!RemoveCalled
  <2>3. calc_op'[w].pc = "add_lock" /\ calc_op'[w].arg = x
    BY <1>0, <2>1 DEF Calc!queue_add, Calc!OpType
  <2>4. Taken(w) = {x} /\ Taken(w)' = {}
    BY <2>1 DEF Taken
  <2>5. Adding(w) = {} /\ Adding(w)' = {x}
    BY <2>1, <2>3 DEF Adding, Calc!Call
  <2>6. LogAndAdd(w, x)
    BY <1>1, <1>5, <1>6, <2>1, <2>4, <2>5 DEF LogAndAdd
  <2> QED
    BY <2>2, <2>6
<1>8. CASE ~ writer_forward(w)
  <2>1. trade_logs' = trade_logs
    BY <1>8 DEF Writer, writer_remove, writer_pass_exit, writer_return, OnlyApi
  <2>2. Taken(w)' = Taken(w) /\ Adding(w)' = Adding(w)
    <3>1. CASE writer_remove(w)
      <4>1. /\ Calc!Idle(w) /\ pc[w] # "remove" /\ pc'[w] = "remove"
            /\ Api!queue_remove(w)
        BY <1>0, <3>1 DEF writer_remove, Goto
      <4>2. api_op'[w].pc = "remove_lock"
        BY <1>0, <4>1 DEF Api!queue_remove, Api!OpType
      <4> QED
        BY <4>1, <4>2 DEF Taken, Adding, Calc!Idle, Calc!Call
    <3>2. CASE writer_pass_exit(w) \/ writer_return(w)
      <4>1. /\ pc'[w] \notin {"remove", "forward"} /\ pc[w] # "forward"
            /\ pc[w] = "remove" => api_op[w].ret # 0
        BY <1>0, <3>2 DEF writer_pass_exit, writer_return, Goto
      <4> QED
        BY <4>1 DEF Taken, Adding
    <3> QED
      BY <1>8, <3>1, <3>2 DEF Writer
  <2> QED
    BY <1>1, <1>5, <1>6, <2>1, <2>2 DEF Stay, HandsKept
<1> QED
  BY <1>7, <1>8

\* Nor does a step of the Calculator's routine: what it has in hand goes to
\* what it has computed.
LEMMA CalculatorFlow ==
  ASSUME UsersInv, Next, Calculator,
         Api!Contents' = Api!Contents, Calc!Contents' = Calc!Contents
  PROVE  Stay
<1>0. /\ pc \in [Hosts \cup Alarms \cup Interrupts -> Location]
      /\ calc_op \in [CalcThreads -> Calc!OpType]
      /\ Writers \subseteq Hosts /\ calculator \in Hosts /\ calculator \notin Writers
      /\ calculator \in CalcThreads /\ Writers \subseteq CalcThreads
  BY PipelineAssumption DEF UsersInv, ControlOK, Calc!TypeOK, Hosts, CalcThreads
<1>1. UNCHANGED <<entered, trade_logs, api_op>>
  BY DEF Calculator, calculator_start, calculator_compute, calculator_return, OnlyCalc,
     NoQueue, queues
<1>2. \A w \in Writers : pc'[w] = pc[w] /\ calc_op'[w] = calc_op[w]
  BY <1>0 DEF Calculator, calculator_start, calculator_compute, calculator_return, Goto,
     NoQueue, queues, Calc!queue_remove
<1>3. HandsKept(Writers)
  BY <1>1, <1>2 DEF HandsKept, Taken, Adding, Calc!Call
<1>4. /\ Forwarded = (computed \o InHand) \o Calc!Contents
      /\ Forwarded' = (computed' \o InHand') \o Calc!Contents
      /\ computed \in Seq(WorkItem) /\ Calc!Contents \in Seq(WorkItem)
  BY ForwardedSeq, ContentsSeq DEF Forwarded, InHand
<1>5. CASE calculator_compute
  <2> DEFINE x == calc_op[calculator].item
  <2>1. /\ calc_op[calculator].pc = "idle" /\ calc_op[calculator].ret = 0
        /\ pc[calculator] = "remove" /\ computed' = Append(computed, x)
        /\ Calc!queue_remove(calculator)
    BY <1>5 DEF calculator_compute, Goto, Calc!queue_remove, Calc!Idle
  <2>2. calc_op'[calculator].pc = "remove_lock"
    BY <1>0, <2>1 DEF Calc!queue_remove, Calc!OpType
  <2>3. InHand = <<x>> /\ InHand' = <<>>
    BY <2>1, <2>2 DEF InHand
  <2>4. x \in WorkItem
    BY <2>1 DEF UsersInv, ComputedOK, CalcP!RemoveCalled
  <2>5. Forwarded' = Forwarded
    BY <1>4, <2>1, <2>3, <2>4, ConcatShift
  <2> QED
    BY <1>1, <1>3, <2>5 DEF Stay
<1>6. CASE ~ calculator_compute
  <2>1. computed' = computed
    BY <1>6 DEF Calculator, calculator_start, calculator_return, NoQueue
  <2>2. InHand = <<>> /\ InHand' = <<>>
    <3>1. CASE calculator_start
      <4>1. pc[calculator] = "start" /\ Calc!queue_remove(calculator)
        BY <3>1 DEF calculator_start, Goto
      <4>2. calc_op'[calculator].pc = "remove_lock"
        BY <1>0, <4>1 DEF Calc!queue_remove, Calc!OpType
      <4> QED
        BY <4>1, <4>2 DEF InHand
    <3>2. CASE calculator_return
      <4>1. calc_op[calculator].ret = -1 /\ pc'[calculator] = "returned"
        BY <1>0, <3>2 DEF calculator_return, Goto
      <4> QED
        BY <4>1 DEF InHand
    <3> QED
      BY <1>6, <3>1, <3>2 DEF Calculator
  <2> QED
    BY <1>1, <1>3, <1>4, <2>1, <2>2 DEF Stay
<1> QED
  BY <1>5, <1>6

\* Every step moves one item or none.
LEMMA FlowStep ==
  ASSUME UsersInv, UsersInv', AddInv, [Next]_vars
  PROVE  \/ \E x \in WorkItem : Enter(x)
         \/ \E w \in Writers : \/ Take(w) \/ Drop(w)
                               \/ \E x \in WorkItem : LogAndAdd(w, x) \/ Pass(w, x)
         \/ Stay
<1>1. CASE \E t \in ApiThreads : ApiContinue(t)
  BY <1>1, ApiFlow
<1>2. CASE \E t \in CalcThreads : CalcContinue(t)
  BY <1>2, CalcFlow
<1>3. CASE UNCHANGED vars
  BY <1>3 DEF vars, queues, Stay, HandsKept, Taken, Adding, Calc!Call, Forwarded,
     Api!Contents, Api!Count, Api!Slot, Calc!Contents, Calc!Count, Calc!Slot
<1>4. CASE /\ Next
           /\ ~ \E t \in ApiThreads : ApiContinue(t)
           /\ ~ \E t \in CalcThreads : CalcContinue(t)
  <2>1. Api!Contents' = Api!Contents /\ Calc!Contents' = Calc!Contents
    BY <1>4, QueueFrame
  <2>2. CASE \E w \in Writers : Writer(w)
    BY <1>4, <2>1, <2>2, WriterFlow
  <2>3. CASE Calculator
    BY <1>4, <2>1, <2>3, CalculatorFlow
  <2>4. CASE ~ Calculator /\ ~ \E w \in Writers : Writer(w)
    <3>1. entered' = entered /\ computed' = computed /\ trade_logs' = trade_logs
      BY <1>4, <2>4, EnteredFrame, ComputedFrame, LogsFrame
    <3>2. calc_op'[calculator] = calc_op[calculator] /\ pc'[calculator] = pc[calculator]
      <4>1. calculator \in CalcThreads /\ calculator \notin Writers
        BY PipelineAssumption DEF CalcThreads
      <4> QED
        BY <1>4, <2>4, <4>1, CalcOwnSteps DEF UsersInv
    <3>3. ASSUME NEW w \in Writers
          PROVE  api_op'[w] = api_op[w] /\ calc_op'[w] = calc_op[w] /\ pc'[w] = pc[w]
      <4>1. /\ w \in ApiThreads /\ w \in CalcThreads /\ w \notin {wss, calculator}
            /\ w \notin Alarms \cup Interrupts
        BY PipelineAssumption DEF ApiThreads, CalcThreads, Alarms
      <4>2. calc_op'[w] = calc_op[w]
        BY <1>4, <2>4, <4>1, CalcOwnSteps DEF UsersInv
      <4>3. api_op'[w] = api_op[w] /\ pc'[w] = pc[w]
        BY <1>4, <2>4, <4>1, OwnSteps DEF UsersInv
      <4> QED
        BY <4>2, <4>3
    <3>4. HandsKept(Writers)
      BY <3>3 DEF HandsKept, Taken, Adding, Calc!Call
    <3>5. Forwarded' = Forwarded
      BY <2>1, <3>1, <3>2 DEF Forwarded
    <3> QED
      BY <2>1, <3>1, <3>4, <3>5 DEF Stay
  <2> QED
    BY <2>2, <2>3, <2>4
<1> QED
  BY <1>1, <1>2, <1>3, <1>4

-----------------------------------------------------------------------------
(* The exit order on calculation_queue.                                    *)

\* A Writer that leaves its loop does not come back.
Leaving(w) == pc[w] \in {"pass_signal", "returned"}

\* Only a Writer that leaves gives it.
ExitInv ==
  /\ \A t \in CalcThreads : calc_op[t].pc \notin {"exit_lock", "exit_set"}
  /\ calculation_queue.exit_flag = 1 => \E w \in Writers : Leaving(w)

\* A Writer that left its loop stays out of it.
LEMMA LeavingStep ==
  ASSUME UsersInv, [Next]_vars, NEW w \in Writers, Leaving(w)
  PROVE  Leaving(w)'
<1>0. /\ pc \in [Hosts \cup Alarms \cup Interrupts -> Location] /\ w \in Hosts
      /\ w \in CalcThreads /\ w # calculator
  BY PipelineAssumption DEF UsersInv, ControlOK, Hosts, CalcThreads
<1>1. CASE UNCHANGED vars \/ CalcContinue(w)
  BY <1>1 DEF vars, CalcContinue, Leaving
<1>2. CASE Writer(w)
  BY <1>0, <1>2 DEF Writer, writer_remove, writer_forward, writer_pass_exit, writer_return,
     Goto, Leaving
<1>3. CASE Next /\ ~ Writer(w) /\ ~ CalcContinue(w)
  <2>1. pc'[w] = pc[w]
    BY <1>0, <1>3, CalcOwnSteps DEF UsersInv
  <2> QED
    BY <2>1 DEF Leaving
<1> QED
  BY <1>1, <1>2, <1>3

\* No other step than writer_pass_exit gives it.
LEMMA FlagFrame ==
  ASSUME UsersInv, [Next]_vars, ~ \E w \in Writers : writer_pass_exit(w),
         ~ \E t \in CalcThreads : CalcContinue(t)
  PROVE  calculation_queue'.exit_flag = calculation_queue.exit_flag
<1>0. calculation_queue \in Calc!QueueType
  BY DEF UsersInv, Calc!TypeOK
<1>1. CASE WSSClient
  BY <1>1 DEF WSSClient, finnhub_connection_setup, client_established,
     client_connection_error, client_receive, receive_lock, json_callback,
     receive_unlock, service_idle, client_closed, closed_signal, wss_notify,
     wss_return, OnlyApi, NoQueue, queues
<1>2. CASE Calculator \/ SIGALRM \/ main_exit
  BY <1>2 DEF Calculator, calculator_start, calculator_compute, calculator_return,
     Calc!queue_remove, SIGALRM, main_exit, NoQueue, queues
<1>3. CASE \E h \in Alarms : send_directive_to_queue(h)
  BY <1>3 DEF send_directive_to_queue, directive_lock, directive_add, directive_limit,
     directive_unlock, OnlyApi
<1>4. CASE \E i \in Interrupts : SIGINT(i) \/ close_connection_interrupt(i)
  BY <1>4 DEF SIGINT, close_connection_interrupt, OnlyApi, NoQueue, queues
<1>5. CASE (\E t \in ApiThreads : ApiContinue(t)) \/ UNCHANGED vars
  BY <1>5 DEF ApiContinue, vars, queues
<1>6. CASE Spurious
  BY <1>0, <1>6 DEF Spurious, Calc!SpuriousWakeup, Calc!QueueType
<1>7. ASSUME NEW w \in Writers, Writer(w)
      PROVE  calculation_queue'.exit_flag = calculation_queue.exit_flag
  <2>1. CASE writer_remove(w) \/ writer_forward(w)
    BY <2>1 DEF writer_remove, writer_forward, OnlyApi, Calc!queue_add
  <2>2. CASE writer_return(w)
    <3>1. Calc!signal_not_empty
      BY <2>2 DEF writer_return, Calc!bare_signal
    <3> QED
      BY <1>0, <3>1 DEF Calc!signal_not_empty, Calc!QueueType
  <2> QED
    BY <1>7, <2>1, <2>2 DEF Writer
<1> QED
  BY <1>1, <1>2, <1>3, <1>4, <1>5, <1>6, <1>7 DEF Next

\* Every step keeps what is known of the exit order.
LEMMA ExitStep ==
  UsersInv /\ ExitInv /\ [Next]_vars => ExitInv'
<1> SUFFICES ASSUME UsersInv, ExitInv, [Next]_vars PROVE ExitInv'
  OBVIOUS
<1>0. /\ pc \in [Hosts \cup Alarms \cup Interrupts -> Location] /\ Writers \subseteq Hosts
      /\ calc_op \in [CalcThreads -> Calc!OpType]
      /\ calculator \notin Writers
  BY PipelineAssumption DEF UsersInv, ControlOK, Hosts, Calc!TypeOK
<1>1. ASSUME NEW t \in CalcThreads, CalcContinue(t)
      PROVE  /\ calculation_queue'.exit_flag = calculation_queue.exit_flag
             /\ calc_op'[t].pc \notin {"exit_lock", "exit_set"}
  <2>1. CalcP!TypeOK /\ CalcP!Continue(t)
    BY <1>1, CalcSame DEF CalcContinue, UsersInv
  <2> QED
    BY <2>1, CalcQueueAssumption, CalcP!ExitFrame DEF ExitInv
<1>2. ASSUME NEW t \in CalcThreads PROVE calc_op'[t].pc \notin {"exit_lock", "exit_set"}
  <2>1. CASE CalcContinue(t)
    BY <1>1, <2>1
  <2>2. CASE UNCHANGED vars
    BY <2>2 DEF vars, queues, ExitInv
  <2>3. CASE t \in Writers /\ Writer(t)
    <3>1. calc_op'[t] = calc_op[t] \/ calc_op'[t].pc = "add_lock"
      BY <1>0, <2>3 DEF Writer, writer_remove, writer_forward, writer_pass_exit,
         writer_return, OnlyApi, Calc!queue_add, Calc!set_exit_flag, Calc!bare_signal,
         Calc!OpType
    <3> QED
      BY <3>1 DEF ExitInv
  <2>4. CASE t = calculator /\ Calculator
    <3>1. calc_op'[t] = calc_op[t] \/ calc_op'[t].pc = "remove_lock"
      BY <1>0, <2>4 DEF Calculator, calculator_start, calculator_compute,
         calculator_return, NoQueue, queues, Calc!queue_remove, Calc!OpType
    <3> QED
      BY <3>1 DEF ExitInv
  <2>5. CASE /\ Next /\ ~ CalcContinue(t) /\ ~ (t \in Writers /\ Writer(t))
             /\ ~ (t = calculator /\ Calculator)
    <3>1. calc_op'[t] = calc_op[t]
      BY <2>5, CalcOwnSteps DEF UsersInv
    <3> QED
      BY <3>1 DEF ExitInv
  <2> QED
    BY <2>1, <2>2, <2>3, <2>4, <2>5
<1>3. ASSUME calculation_queue'.exit_flag = 1 PROVE \E w \in Writers : Leaving(w)'
  <2>1. ASSUME NEW w \in Writers, writer_pass_exit(w) PROVE Leaving(w)'
    BY <1>0, <2>1 DEF writer_pass_exit, Goto, Leaving
  <2>2. CASE ~ \E w \in Writers : writer_pass_exit(w)
    <3>1. calculation_queue.exit_flag = 1
      BY <1>1, <1>3, <2>2, FlagFrame
    <3>2. PICK w \in Writers : Leaving(w)
      BY <3>1 DEF ExitInv
    <3> QED
      BY <3>2, LeavingStep
  <2> QED
    BY <2>1, <2>2
<1> QED
  BY <1>2, <1>3 DEF ExitInv

-----------------------------------------------------------------------------
(* Nowhere twice.                                                          *)

Hand(w) == Taken(w) \cup Adding(w)

\* The places an item can be in are disjoint, each holds it once, and all they
\* hold has entered.
DupInv ==
  /\ IsInjective(entered) /\ IsInjective(Api!Contents) /\ IsInjective(Forwarded)
  /\ Range(Api!Contents) \cap Range(Forwarded) = {}
  /\ \A w \in Writers : Hand(w) \cap (Range(Api!Contents) \cup Range(Forwarded)) = {}
  /\ \A v, w \in Writers : v # w => Hand(v) \cap Hand(w) = {}
  /\ Range(Api!Contents) \cup Range(Forwarded) \subseteq Range(entered)
  /\ \A w \in Writers : Hand(w) \subseteq Range(entered)

\* What enters has not entered before: a trade is new by its number, and a
\* directive by its handler's, which adds it once.
LEMMA Fresh ==
  ASSUME UsersInv, LockInv, AddInv, PendingInv, IdInv, DirectiveInv, [Next]_vars,
         NEW x \in WorkItem, Enter(x)
  PROVE  /\ x \notin Range(entered)
         /\ IsTrade(x) => \A i \in Range(entered) : IsTrade(i) => i.id # x.id
<1>0. entered \in Seq(WorkItem) /\ entered' = Append(entered, x)
  BY DEF UsersInv, EnteredOK, Enter
<1>1. entered' # entered
  BY <1>0
<1>2. \A y \in WorkItem : entered' = Append(entered, y) => x = y
  <2>1. \A y \in WorkItem : Append(entered, y)[Len(entered) + 1] = y
    BY <1>0
  <2> QED
    BY <1>0, <2>1
<1>3. \A i \in Range(entered) : i \in WorkItem /\ i.id \in Int
  BY <1>0, WorkItemFields DEF Range
<1>4. CASE /\ Api!Call(wss) = "add"
           /\ entered' = Append(entered, api_op[wss].arg)
  <2>0. api_op[wss].arg \in WorkItem
    BY <1>4 DEF UsersInv, Api!ItemsWritten, ApiThreads
  <2>1. x = api_op[wss].arg /\ x \in Pending
    BY <1>2, <1>4, <2>0 DEF Pending
  <2>2. IsTrade(x)
    BY <2>1 DEF PendingInv
  <2>3. \A i \in Range(entered) : IsTrade(i) => i.id < x.id
    BY <2>1 DEF IdInv
  <2>4. \A i \in Range(entered) : IsTrade(i) => i.id # x.id
    BY <1>3, <2>3
  <2> QED
    BY <2>2, <2>4
<1>5. ASSUME NEW h \in Alarms, entered' = Append(entered, Directive(h)),
             Api!Call(h) = "add"
      PROVE  x \notin Range(entered) /\ ~ IsTrade(x)
  <2>1. x = Directive(h)
    BY <1>2, <1>5 DEF WorkItem, Alarms
  <2>2. ~ IsTrade(x)
    BY <2>1 DEF Directive, IsTrade, DIRECTIVE_CALCULATE_MINUTE
  <2> QED
    BY <1>5, <2>1, <2>2 DEF DirectiveInv
<1>6. PICK t \in ApiThreads : ApiContinue(t)
  BY <1>1, EnteredFrame
<1>7. /\ Api!Call(t) = "add" /\ entered' = Append(entered, api_op[t].arg)
  BY <1>1, <1>6 DEF ApiContinue, Api!Call
<1>8. CASE t \in Alarms
  <2>1. api_op[t].arg = Directive(t)
    BY <1>7, <1>8 DEF AddInv
  <2> QED
    BY <1>5, <1>7, <1>8, <2>1
<1>9. CASE t = wss
  BY <1>4, <1>7, <1>9
<1> QED
  BY <1>7, <1>8, <1>9 DEF AddInv, ApiThreads

\* A Writer that adds an item has taken no other.
LEMMA OneHand == \A w : Taken(w) = {} \/ Adding(w) = {}
BY DEF Taken, Adding

\* Hands that are kept keep what they hold.
LEMMA HandsFrame ==
  ASSUME NEW W, HandsKept(W)
  PROVE  \A w \in W : Hand(w)' = Hand(w)
BY DEF HandsKept, Hand

\* An item moves from one place to the next.
LEMMA DupStep ==
  ASSUME UsersInv, UsersInv', LockInv, AddInv, PendingInv, IdInv, DirectiveInv, DupInv,
         [Next]_vars
  PROVE  DupInv'
<1>0. /\ entered \in Seq(WorkItem) /\ Api!Contents \in Seq(WorkItem)
      /\ Forwarded \in Seq(WorkItem)
  BY ContentsSeq, ForwardedSeq DEF UsersInv, EnteredOK
<1>1. ASSUME NEW x \in WorkItem, Enter(x) PROVE DupInv'
  <2>1. x \notin Range(entered)
    BY <1>1, Fresh
  <2>2. /\ Range(entered') = Range(entered) \cup {x} /\ IsInjective(entered')
    BY <1>0, <1>1, <2>1, AppendRange DEF DupInv, Enter
  <2>3. /\ Range(Api!Contents') = Range(Api!Contents) \cup {x}
        /\ IsInjective(Api!Contents')
    BY <1>0, <1>1, <2>1, AppendRange DEF DupInv, Enter
  <2>4. \A w \in Writers : Hand(w)' = Hand(w)
    BY <1>1, HandsFrame DEF Enter
  <2>5. Forwarded' = Forwarded
    BY <1>1 DEF Enter
  <2> QED
    BY <2>1, <2>2, <2>3, <2>4, <2>5 DEF DupInv
<1>2. ASSUME NEW w \in Writers, Take(w) PROVE DupInv'
  <2> DEFINE x == Head(Api!Contents)
  <2>1. /\ Range(Api!Contents) = Range(Api!Contents') \cup {x}
        /\ IsInjective(Api!Contents') /\ x \notin Range(Api!Contents')
    BY <1>0, <1>2, TailRange DEF DupInv, Take
  <2>2. Hand(w)' = Hand(w) \cup {x}
    BY <1>2 DEF Take, Hand
  <2>3. \A v \in Writers \ {w} : Hand(v)' = Hand(v)
    BY <1>2, HandsFrame DEF Take
  <2>4. Forwarded' = Forwarded /\ entered' = entered
    BY <1>2 DEF Take
  <2> HIDE DEF x
  <2> QED
    BY <2>1, <2>2, <2>3, <2>4 DEF DupInv
<1>3. ASSUME NEW w \in Writers, NEW x \in WorkItem, LogAndAdd(w, x) PROVE DupInv'
  <2>1. Hand(w)' = Hand(w)
    BY <1>3 DEF LogAndAdd, Hand
  <2>2. \A v \in Writers \ {w} : Hand(v)' = Hand(v)
    BY <1>3, HandsFrame DEF LogAndAdd
  <2>3. \A v \in Writers : Hand(v)' = Hand(v)
    BY <2>1, <2>2
  <2>4. Api!Contents' = Api!Contents /\ Forwarded' = Forwarded /\ entered' = entered
    BY <1>3 DEF LogAndAdd
  <2> QED
    BY <2>3, <2>4 DEF DupInv
<1>4. ASSUME NEW w \in Writers, NEW x \in WorkItem, Pass(w, x) PROVE DupInv'
  <2>1. Hand(w) = {x} /\ Hand(w)' = {}
    BY <1>4, OneHand DEF Pass, Hand
  <2>2. \A v \in Writers \ {w} : Hand(v)' = Hand(v)
    BY <1>4, HandsFrame DEF Pass
  <2>3. x \notin Range(Forwarded)
    BY <2>1 DEF DupInv
  <2>4. Range(Forwarded') = Range(Forwarded) \cup {x} /\ IsInjective(Forwarded')
    BY <1>0, <1>4, <2>3, AppendRange DEF DupInv, Pass
  <2>5. Api!Contents' = Api!Contents /\ entered' = entered
    BY <1>4 DEF Pass
  <2> QED
    BY <2>1, <2>2, <2>4, <2>5 DEF DupInv
<1>5. ASSUME NEW w \in Writers, Drop(w) PROVE DupInv'
  <2>1. Hand(w)' \subseteq Hand(w)
    BY <1>5 DEF Drop, Hand
  <2>2. \A v \in Writers \ {w} : Hand(v)' = Hand(v)
    BY <1>5, HandsFrame DEF Drop
  <2>3. \A v \in Writers : Hand(v)' \subseteq Hand(v)
    BY <2>1, <2>2
  <2>4. Api!Contents' = Api!Contents /\ Forwarded' = Forwarded /\ entered' = entered
    BY <1>5 DEF Drop
  <2> QED
    BY <2>3, <2>4 DEF DupInv
<1>6. CASE Stay
  <2>1. \A v \in Writers : Hand(v)' = Hand(v)
    BY <1>6, HandsFrame DEF Stay
  <2>2. Api!Contents' = Api!Contents /\ Forwarded' = Forwarded /\ entered' = entered
    BY <1>6 DEF Stay
  <2> QED
    BY <2>1, <2>2 DEF DupInv
<1> QED
  BY <1>1, <1>2, <1>3, <1>4, <1>5, <1>6, FlowStep

\* The invariants of the flow hold initially.
LEMMA FlowInit ==
  ASSUME Init
  PROVE  /\ EnteredOK /\ ComputedOK /\ BusyInv /\ LockInv /\ AlarmInv /\ AddInv
         /\ PendingInv /\ IdInv /\ DirectiveInv /\ ExitInv
         /\ Api!Contents = <<>> /\ Forwarded = <<>> /\ entered = <<>>
         /\ \A w \in Writers : Taken(w) = {} /\ Adding(w) = {}
<1>1. /\ pc[wss] = "connect" /\ \A h \in Alarms : pc[h] = "start"
      /\ \A w \in Writers : pc[w] = "start"
      /\ pc[calculator] = "start"
      /\ message = <<>> /\ entered = <<>> /\ computed = <<>>
  BY PipelineAssumption DEF Init, Hosts, Alarms
<1>2. /\ \A t \in ApiThreads : Api!Call(t) = "none"
      /\ \A t \in CalcThreads : Calc!Call(t) = "none" /\ calc_op[t].pc = "idle"
      /\ calculation_queue.exit_flag = 0
  BY DEF Init, Api!Init, Api!Call, Calc!Init, Calc!Call
<1>3. Api!Contents = <<>> /\ Calc!Contents = <<>>
  <2>1. ApiP!Init /\ CalcP!Init
    BY ApiSame, CalcSame DEF Init
  <2>2. Api!Count = 0 /\ Calc!Count = 0
    BY DEF Init, Api!Init, Calc!Init, Api!Count, Calc!Count
  <2> QED
    BY <2>2 DEF Api!Contents, Calc!Contents
<1>4. Pending = {}
  BY <1>1, <1>2 DEF Pending, ApiThreads, Range
<1>5. Forwarded = <<>>
  BY <1>1, <1>3 DEF Forwarded
<1>6. EnteredOK /\ ComputedOK
  BY <1>1 DEF EnteredOK, ComputedOK
<1>7. LockInv /\ AlarmInv /\ AddInv /\ PendingInv /\ BusyInv
  BY <1>1, <1>2, <1>4 DEF LockInv, AlarmInv, AddInv, PendingInv, BusyInv, ApiThreads,
     CalcThreads
<1>8. IdInv /\ DirectiveInv /\ ExitInv
  BY <1>1, <1>2, <1>4 DEF IdInv, DirectiveInv, ExitInv, ApiThreads, Range
<1>9. \A w \in Writers : Taken(w) = {} /\ Adding(w) = {}
  BY <1>1 DEF Taken, Adding
<1> QED
  BY <1>1, <1>3, <1>5, <1>6, <1>7, <1>8, <1>9

\* What the proofs below rest on.
FlowInv ==
  UsersInv /\ LockInv /\ AddInv /\ PendingInv /\ IdInv /\ DirectiveInv /\ ExitInv /\ DupInv

\* The conjunction the flow of items is argued from is an invariant.
LEMMA FlowCorrect == Spec => []FlowInv
<1> DEFINE Base == /\ ControlOK /\ MessageOK /\ WritersRemove
                   /\ Api!TypeOK /\ Api!RingInv /\ Api!ItemsWritten /\ ApiP!Callers
                   /\ Calc!TypeOK /\ Calc!RingInv /\ Calc!ItemsWritten /\ CalcP!Callers
<1>1. Spec => []Base
  BY ControlCorrect, ApiInvariants, CalcInvariants, PTL
<1>2. Spec => [](EnteredOK /\ ComputedOK /\ BusyInv)
  <2>1. Init => EnteredOK /\ ComputedOK /\ BusyInv
    BY FlowInit
  <2>2. Base /\ EnteredOK /\ ComputedOK /\ BusyInv /\ [Next]_vars
          => (EnteredOK /\ ComputedOK /\ BusyInv)'
    BY EnteredStep, ComputedStep, BusyStep
  <2> QED
    BY <1>1, <2>1, <2>2, PTL DEF Spec
<1>3. Base /\ EnteredOK /\ ComputedOK /\ BusyInv => UsersInv
  BY DEF UsersInv
<1>4. Spec => []UsersInv
  BY <1>1, <1>2, <1>3, PTL
<1>5. Spec => [](LockInv /\ AlarmInv /\ AddInv /\ PendingInv)
  <2>1. Init => LockInv /\ AlarmInv /\ AddInv /\ PendingInv
    BY FlowInit
  <2>2. UsersInv /\ LockInv /\ AlarmInv /\ AddInv /\ PendingInv /\ [Next]_vars
          => (LockInv /\ AlarmInv /\ AddInv /\ PendingInv)'
    BY LockStep, AlarmStep, AddStep, PendingInvStep DEF UsersInv
  <2> QED
    BY <1>4, <2>1, <2>2, PTL DEF Spec
<1>6. Spec => [](IdInv /\ DirectiveInv /\ ExitInv)
  <2>1. Init => IdInv /\ DirectiveInv /\ ExitInv
    BY FlowInit
  <2>2. UsersInv /\ LockInv /\ AlarmInv /\ AddInv /\ PendingInv /\ PendingInv'
        /\ IdInv /\ DirectiveInv /\ ExitInv /\ [Next]_vars
          => (IdInv /\ DirectiveInv /\ ExitInv)'
    BY IdStep, DirectiveStep, ExitStep DEF UsersInv
  <2> QED
    BY <1>4, <1>5, <2>1, <2>2, PTL DEF Spec
<1>7. Spec => []DupInv
  <2>1. ASSUME Init PROVE DupInv
    <3>1. /\ Api!Contents = <<>> /\ Forwarded = <<>> /\ entered = <<>>
          /\ \A w \in Writers : Hand(w) = {}
      BY <2>1, FlowInit DEF Hand
    <3> QED
      BY <3>1 DEF DupInv, IsInjective, Range
  <2>2. UsersInv /\ UsersInv' /\ LockInv /\ AddInv /\ PendingInv /\ IdInv
        /\ DirectiveInv /\ DupInv /\ [Next]_vars
          => DupInv'
    BY DupStep
  <2> QED
    BY <1>4, <1>5, <1>6, <2>1, <2>2, PTL DEF Spec
<1> QED
  BY <1>4, <1>5, <1>6, <1>7, PTL DEF FlowInv

\* With any number of Writers, trades and signals, whatever the interleaving,
\* no item is in two places of the pipeline at once, nor in one place twice,
\* and none is there that did not enter api_queue.
THEOREM NoDuplicationCorrect == Spec => []NoDuplication
<1>1. ASSUME FlowInv PROVE NoDuplication
  <2>0. UsersInv /\ DupInv
    BY <1>1 DEF FlowInv
  <2>1. Api!Contents \in Seq(WorkItem) /\ Forwarded \in Seq(WorkItem)
    BY <2>0, ContentsSeq, ForwardedSeq
  <2>2. /\ Range(Api!Contents \o Forwarded) = Range(Api!Contents) \cup Range(Forwarded)
        /\ IsInjective(Api!Contents \o Forwarded)
    BY <2>0, <2>1, ConcatRange DEF DupInv
  <2>3. Held \subseteq Range(entered)
    BY <2>0 DEF DupInv, Hand, Held
  <2> QED
    BY <2>0, <2>2, <2>3 DEF DupInv, Hand, NoDuplication
<1> QED
  BY <1>1, FlowCorrect, PTL

-----------------------------------------------------------------------------
(* What is lost, and what is logged.                                       *)

\* The items no Writer has logged or passed over yet.
Unwritten == Range(Api!Contents) \cup UNION {Taken(w) : w \in Writers}

LostInv == Lost # {} => \E w \in Writers : Leaving(w)

\* A trade has one line, or none while it is unwritten or has not entered.
LogInv ==
  /\ \A i \in Range(entered) :
       IsTrade(i) => trade_logs[i.id] = IF i \in Unwritten THEN 0 ELSE 1
  /\ \A n \in 1..MaxTrades :
       (\A i \in Range(entered) : IsTrade(i) => i.id # n) => trade_logs[n] = 0

\* Items get lost only by a Writer that leaves with the exit order.
LEMMA LostStep ==
  ASSUME FlowInv, FlowInv', LostInv, [Next]_vars
  PROVE  LostInv'
<1>0. /\ UsersInv /\ UsersInv' /\ AddInv /\ ExitInv
      /\ entered \in Seq(WorkItem) /\ Api!Contents \in Seq(WorkItem)
      /\ Forwarded \in Seq(WorkItem)
  BY ContentsSeq, ForwardedSeq DEF FlowInv, UsersInv, EnteredOK
<1>1. Lost = {i \in Range(entered) :
               /\ i \notin Range(Api!Contents) /\ i \notin Range(Forwarded)
               /\ \A w \in Writers : i \notin Taken(w) /\ i \notin Adding(w)}
  BY DEF Lost, Held
<1>2. Lost' = {i \in Range(entered') :
                /\ i \notin Range(Api!Contents') /\ i \notin Range(Forwarded')
                /\ \A w \in Writers : i \notin Taken(w)' /\ i \notin Adding(w)'}
  BY DEF Lost, Held
<1>3. CASE Lost' \subseteq Lost
  BY <1>0, <1>3, LeavingStep DEF LostInv
<1>4. ASSUME NEW w \in Writers, Drop(w) PROVE LostInv'
  BY <1>0, <1>4, LeavingStep DEF LostInv, Drop, ExitInv
<1>5. ASSUME NEW x \in WorkItem, Enter(x) PROVE Lost' \subseteq Lost
  <2>1. /\ Range(entered') = Range(entered) \cup {x}
        /\ Range(Api!Contents') = Range(Api!Contents) \cup {x}
    BY <1>0, <1>5, AppendRange DEF Enter
  <2> QED
    BY <1>1, <1>2, <1>5, <2>1 DEF Enter, HandsKept
<1>6. ASSUME NEW w \in Writers, Take(w) PROVE Lost' \subseteq Lost
  <2> DEFINE x == Head(Api!Contents)
  <2>1. Range(Api!Contents) = Range(Api!Contents') \cup {x}
    BY <1>0, <1>6, TailRange DEF Take
  <2>2. /\ Taken(w) = {} /\ Taken(w)' = {x} /\ Adding(w)' = Adding(w)
        /\ HandsKept(Writers \ {w}) /\ Forwarded' = Forwarded /\ entered' = entered
    BY <1>6 DEF Take
  <2> HIDE DEF x
  <2> QED
    BY <1>1, <1>2, <2>1, <2>2 DEF HandsKept
<1>7. ASSUME NEW w \in Writers, NEW x \in WorkItem, LogAndAdd(w, x)
      PROVE  Lost' \subseteq Lost
  <2>1. /\ Taken(w) = {x} /\ Adding(w) = {} /\ Adding(w)' = {x}
        /\ HandsKept(Writers \ {w}) /\ Forwarded' = Forwarded /\ entered' = entered
        /\ Api!Contents' = Api!Contents
    BY <1>7 DEF LogAndAdd
  <2> QED
    BY <1>1, <1>2, <2>1 DEF HandsKept
<1>8. ASSUME NEW w \in Writers, NEW x \in WorkItem, Pass(w, x) PROVE Lost' \subseteq Lost
  <2>1. Range(Forwarded') = Range(Forwarded) \cup {x}
    BY <1>0, <1>8, AppendRange DEF Pass
  <2>2. /\ Adding(w) = {x} /\ Taken(w)' = Taken(w) /\ HandsKept(Writers \ {w})
        /\ entered' = entered /\ Api!Contents' = Api!Contents
    BY <1>8 DEF Pass
  <2> QED
    BY <1>1, <1>2, <2>1, <2>2 DEF HandsKept
<1>9. CASE Stay
  <2>1. Lost' = Lost
    BY <1>1, <1>2, <1>9 DEF Stay, HandsKept
  <2> QED
    BY <1>3, <2>1
<1> QED
  BY <1>0, <1>3, <1>4, <1>5, <1>6, <1>7, <1>8, <1>9, FlowStep

\* Every step writes no trade and no directive to its file a second time.
LEMMA LogStep ==
  ASSUME FlowInv, FlowInv', LogInv, [Next]_vars
  PROVE  LogInv'
<1>0. /\ UsersInv /\ UsersInv' /\ LockInv /\ AddInv /\ PendingInv /\ IdInv /\ DirectiveInv
      /\ DupInv
      /\ entered \in Seq(WorkItem) /\ Api!Contents \in Seq(WorkItem)
      /\ trade_logs \in [1..MaxTrades -> Nat]
  BY ContentsSeq DEF FlowInv, UsersInv, EnteredOK, ControlOK
<1>1. \A i \in Range(entered) : i \in WorkItem /\ (IsTrade(i) => i.id \in 1..MaxTrades)
  BY <1>0, WorkItemFields DEF Range
<1>2. ASSUME Unwritten' = Unwritten, entered' = entered, trade_logs' = trade_logs
      PROVE  LogInv'
  BY <1>2 DEF LogInv
<1>3. ASSUME NEW x \in WorkItem, Enter(x) PROVE LogInv'
  <2>1. /\ x \notin Range(entered)
        /\ IsTrade(x) => \A i \in Range(entered) : IsTrade(i) => i.id # x.id
    BY <1>0, <1>3, Fresh
  <2>2. /\ Range(entered') = Range(entered) \cup {x}
        /\ Range(Api!Contents') = Range(Api!Contents) \cup {x}
        /\ trade_logs' = trade_logs
    BY <1>0, <1>3, AppendRange DEF Enter
  <2>3. Unwritten' = Unwritten \cup {x}
    BY <1>3, <2>2 DEF Unwritten, Enter, HandsKept
  <2>4. IsTrade(x) => trade_logs[x.id] = 0
    BY <2>1, WorkItemFields DEF LogInv
  <2> QED
    BY <2>1, <2>2, <2>3, <2>4 DEF LogInv
<1>4. ASSUME NEW w \in Writers, Take(w) PROVE LogInv'
  <2> DEFINE x == Head(Api!Contents)
  <2>1. Range(Api!Contents) = Range(Api!Contents') \cup {x}
    BY <1>0, <1>4, TailRange DEF Take
  <2>2. /\ Taken(w) = {} /\ Taken(w)' = {x}
        /\ \A v \in Writers \ {w} : Taken(v)' = Taken(v)
        /\ entered' = entered /\ trade_logs' = trade_logs
    BY <1>4 DEF Take, HandsKept
  <2> HIDE DEF x
  <2>3. Unwritten' = Unwritten
    BY <2>1, <2>2 DEF Unwritten
  <2> QED
    BY <1>2, <2>2, <2>3
<1>5. ASSUME NEW w \in Writers, NEW x \in WorkItem, LogAndAdd(w, x) PROVE LogInv'
  <2>1. /\ Taken(w) = {x} /\ Taken(w)' = {}
        /\ \A v \in Writers \ {w} : Taken(v)' = Taken(v)
        /\ Api!Contents' = Api!Contents /\ entered' = entered
        /\ IF IsTrade(x) THEN write_trade_to_file(x) ELSE trade_logs' = trade_logs
    BY <1>5 DEF LogAndAdd, HandsKept
  <2>2. /\ x \in Range(entered) /\ x \notin Range(Api!Contents)
        /\ \A v \in Writers \ {w} : x \notin Taken(v)
    BY <1>0, <2>1 DEF DupInv, Hand
  <2>3. x \in Unwritten /\ Unwritten' = Unwritten \ {x}
    BY <2>1, <2>2 DEF Unwritten
  <2>4. CASE ~ IsTrade(x)
    BY <2>1, <2>3, <2>4 DEF LogInv
  <2>5. CASE IsTrade(x)
    <3>1. x.id \in 1..MaxTrades /\ trade_logs[x.id] = 0
      BY <2>2, <2>3, <2>5, WorkItemFields DEF LogInv
    <3>2. /\ trade_logs'[x.id] = 1
          /\ \A n \in 1..MaxTrades : n # x.id => trade_logs'[n] = trade_logs[n]
      <4>1. trade_logs' = [trade_logs EXCEPT ![x.id] = trade_logs[x.id] + 1]
        BY <2>1, <2>5 DEF write_trade_to_file
      <4> QED
        BY <1>0, <3>1, <4>1
    <3>3. \A i \in Range(entered) : IsTrade(i) /\ i # x => i.id # x.id
      BY <1>0, <2>2, <2>5 DEF IdInv
    <3>4. \A i \in Range(entered) :
            IsTrade(i) => trade_logs'[i.id] = IF i \in Unwritten' THEN 0 ELSE 1
      BY <1>1, <2>3, <3>2, <3>3 DEF LogInv
    <3>5. \A n \in 1..MaxTrades :
            (\A i \in Range(entered) : IsTrade(i) => i.id # n) => trade_logs'[n] = 0
      BY <2>2, <2>5, <3>2 DEF LogInv
    <3> QED
      BY <2>1, <3>4, <3>5 DEF LogInv
  <2> QED
    BY <2>4, <2>5
<1>6. ASSUME NEW w \in Writers,
             Drop(w) \/ \E x \in WorkItem : Pass(w, x)
      PROVE  LogInv'
  <2>1. /\ \A v \in Writers : Taken(v)' = Taken(v)
        /\ Api!Contents' = Api!Contents
        /\ entered' = entered /\ trade_logs' = trade_logs
    BY <1>6 DEF Drop, Pass, HandsKept
  <2>2. Unwritten' = Unwritten
    BY <2>1 DEF Unwritten
  <2> QED
    BY <1>2, <2>1, <2>2
<1>7. CASE Stay
  <2>1. Unwritten' = Unwritten
    BY <1>7 DEF Unwritten, Stay, HandsKept
  <2> QED
    BY <1>2, <1>7, <2>1 DEF Stay
<1> QED
  BY <1>0, <1>3, <1>4, <1>5, <1>6, <1>7, FlowStep

\* An item that entered api_queue is lost only after a Writer has left its
\* loop, and every trade is logged once: when its Writer has taken it, before
\* it goes on, even if it is then refused.
THEOREM LossCorrect == Spec => []LossOnlyAtExit
<1>1. ASSUME Init PROVE LostInv /\ LogInv
  <2>1. /\ entered = <<>> /\ trade_logs = [n \in 1..MaxTrades |-> 0]
    BY <1>1 DEF Init
  <2>2. Range(entered) = {}
    BY <2>1 DEF Range
  <2> QED
    BY <2>1, <2>2 DEF LostInv, LogInv, Lost
<1>2. FlowInv /\ FlowInv' /\ LostInv /\ LogInv /\ [Next]_vars => (LostInv /\ LogInv)'
  BY LostStep, LogStep
<1>3. LostInv /\ LogInv => LossOnlyAtExit
  BY DEF LostInv, LogInv, LossOnlyAtExit, Leaving, Unwritten
<1> QED
  BY <1>1, <1>2, <1>3, FlowCorrect, PTL DEF Spec
=============================================================================
