------------------------- MODULE WSSConnectionProofs -------------------------
(***************************************************************************)
(* Proofs about the loop of the WSSClient thread: its contexts, the        *)
(* connection it services and the trades json_callback adds, for any       *)
(* bounds and any forms of trades.                                         *)
(***************************************************************************)
EXTENDS WSSConnection, FiniteSetTheorems, SequenceTheorems, NaturalsInduction,
        WellFoundedInduction, TLAPS

-----------------------------------------------------------------------------
(* The contexts.                                                           *)

\* The counters are numbers, and the contexts are bounded.
ContextInv == contexts \in Nat /\ failures \in Nat /\ ContextsBounded

\* Every step keeps the bound: a context is created by the two outcomes of
\* the setup and destroyed on the way back to it.
LEMMA ContextStep == ContextInv /\ [Next]_vars => ContextInv'
<1> SUFFICES ASSUME ContextInv, [Next]_vars
             PROVE  ContextInv'
  OBVIOUS
<1> USE DEF ContextInv, ContextsBounded, Connected, Goto
<1>1. CASE setup_failed
  BY <1>1 DEF setup_failed
<1>2. CASE setup_done
  BY <1>2 DEF setup_done
<1>3. CASE client_established
  BY <1>3 DEF client_established, sessionvars
<1>4. CASE client_connection_error
  BY <1>4 DEF client_connection_error, sessionvars
<1>5. CASE client_receive
  BY <1>5 DEF client_receive, sessionvars
<1>6. CASE client_receive_rest
  BY <1>6 DEF client_receive_rest, sessionvars
<1>7. CASE client_closed
  BY <1>7 DEF client_closed, sessionvars
<1>8. CASE service_idle
  BY <1>8 DEF service_idle, sessionvars
<1>9. CASE loop_test
  BY <1>9 DEF loop_test, sessionvars
<1>10. CASE destroy
  BY <1>10 DEF destroy
<1>11. CASE wss_return
  BY <1>11 DEF wss_return, sessionvars
<1>12. CASE order_exit
  BY <1>12 DEF order_exit, sessionvars
<1>13. CASE UNCHANGED vars
  BY <1>13 DEF vars, sessionvars
<1> QED
  BY <1>1, <1>2, <1>3, <1>4, <1>5, <1>6, <1>7, <1>8, <1>9, <1>10, <1>11, <1>12, <1>13
     DEF Next, WSSClient

\* However often the connection breaks and is set up again, the thread uses a
\* context that exists, and the others are no more than the failed connects.
THEOREM ContextsCorrect == Spec => []ContextsBounded
<1>1. Init => ContextInv
  BY DEF Init, ContextInv, ContextsBounded, Connected
<1>2. ContextInv => ContextsBounded
  BY DEF ContextInv
<1> QED
  BY <1>1, <1>2, ContextStep, PTL DEF Spec

-----------------------------------------------------------------------------
(* The connection.                                                         *)

\* A connection that is over has set the flag before the inner loop tests it.
LinkInv ==
  /\ ServesLiveConnection
  /\ pc = "loop" /\ link = "down" => connection_closed

\* Every step keeps it: a callback that takes the connection down sets the flag.
LEMMA LinkStep == LinkInv /\ [Next]_vars => LinkInv'
<1> SUFFICES ASSUME LinkInv, [Next]_vars
             PROVE  LinkInv'
  OBVIOUS
<1> USE DEF LinkInv, ServesLiveConnection, Goto
<1>1. CASE setup_failed
  BY <1>1 DEF setup_failed
<1>2. CASE setup_done
  BY <1>2 DEF setup_done
<1>3. CASE client_established
  BY <1>3 DEF client_established
<1>4. CASE client_connection_error
  BY <1>4 DEF client_connection_error
<1>5. CASE client_receive
  BY <1>5 DEF client_receive
<1>6. CASE client_receive_rest
  BY <1>6 DEF client_receive_rest
<1>7. CASE client_closed
  BY <1>7 DEF client_closed
<1>8. CASE service_idle
  BY <1>8 DEF service_idle
<1>9. CASE loop_test
  BY <1>9 DEF loop_test
<1>10. CASE destroy
  BY <1>10 DEF destroy
<1>11. CASE wss_return
  BY <1>11 DEF wss_return
<1>12. CASE order_exit
  BY <1>12 DEF order_exit
<1>13. CASE UNCHANGED vars
  BY <1>13 DEF vars
<1> QED
  BY <1>1, <1>2, <1>3, <1>4, <1>5, <1>6, <1>7, <1>8, <1>9, <1>10, <1>11, <1>12, <1>13
     DEF Next, WSSClient

\* lws_service is never called for a connection that is over.
THEOREM LinkCorrect == Spec => []ServesLiveConnection
<1>1. Init => LinkInv
  BY DEF Init, LinkInv, ServesLiveConnection
<1>2. LinkInv => ServesLiveConnection
  BY DEF LinkInv
<1> QED
  BY <1>1, <1>2, LinkStep, PTL DEF Spec

-----------------------------------------------------------------------------
(* What FoldLeft of the community modules computes: the states of the      *)
(* parser after each event, one from the other.                            *)

\* A set of subsets of a finite set has a smallest member: the form of
\* induction the lemmas about the fold use.
LEMMA SmallestSubset ==
  ASSUME NEW D, IsFiniteSet(D), NEW T, T \subseteq SUBSET D, T # {}
  PROVE  \E t \in T : \A s \in T : ~ (s \subseteq t /\ s # t)
<1>1. IsWellFoundedOn(StrictSubsetOrdering(D), FiniteSubsetsOf(D))
  BY FS_StrictSubsetOrderingWellFounded
<1>2. FiniteSubsetsOf(D) = SUBSET D
  BY FS_FiniteSubsetsOfFinite
<1>3. PICK t \in T : \A s \in T : ~ (<<s, t>> \in StrictSubsetOrdering(D))
  BY <1>1, <1>2, WFMin
<1> QED
  BY <1>3 DEF StrictSubsetOrdering

\* A set of natural numbers has a smallest member.
LEMMA SmallestNumber ==
  ASSUME NEW T, T \subseteq Nat, T # {}
  PROVE  \E t \in T : \A s \in T : t <= s
<1>1. PICK t \in T : \A s \in T : <<s, t>> \notin OpToRel(<, Nat)
  BY NatLessThanWellFounded, WFMin
<1>2. ASSUME NEW s \in T
      PROVE  t <= s
  <2>1. <<s, t>> \notin OpToRel(<, Nat)
    BY <1>1
  <2> QED
    BY <2>1 DEF OpToRel
<1> QED
  BY <1>2

\* The largest index of a set of indices, which FoldLeft takes out of it next.
LEMMA MaxIndex ==
  ASSUME NEW n \in Nat, NEW s, s \subseteq 1..n, s # {}
  PROVE  Max(s) \in s /\ \A x \in s : x <= Max(s)
<1> DEFINE T == {m \in 0..n : \A x \in s : x <= m}
<1>1. T \subseteq Nat /\ n \in T
  OBVIOUS
<1>2. PICK m \in T : \A k \in T : m <= k
  <2> HIDE DEF T
  <2> QED
    BY <1>1, SmallestNumber
<1>3. m \in s
  <2> SUFFICES ASSUME m \notin s
               PROVE  FALSE
    OBVIOUS
  <2>1. \A x \in s : x <= m - 1 /\ x >= 1
    OBVIOUS
  <2>2. m - 1 \in 0..n
    <3>1. PICK x \in s : x >= 1 /\ x <= m - 1
      BY <2>1
    <3>2. x \in Int /\ m \in 0..n
      OBVIOUS
    <3> QED
      BY <3>1, <3>2
  <2>3. m - 1 \in T
    BY <2>1, <2>2
  <2> QED
    BY <1>2, <2>3
<1>4. \E x \in s : \A y \in s : x >= y
  BY <1>3
<1> QED
  BY <1>4 DEF Max

\* What the lemmas about the fold need of a set of indices.
Indices(D) == IsFiniteSet(D) /\ \A s \in SUBSET D : s # {} => Max(s) \in s

\* The indices of a sequence are such a set.
LEMMA SequenceIndices ==
  ASSUME NEW n \in Nat
  PROVE  Indices(1..n)
<1>1. IsFiniteSet(1..n)
  BY FS_Interval
<1>2. \A s \in SUBSET (1..n) : s # {} => Max(s) \in s
  BY MaxIndex
<1> QED
  BY <1>1, <1>2 DEF Indices

\* And so is a part of it.
LEMMA IndicesSubset ==
  ASSUME NEW D, Indices(D), NEW s, s \subseteq D
  PROVE  Indices(s)
BY FS_Subset DEF Indices

\* iter of Folds!MapThenFoldSet, as FoldLeft uses it: the states of the parser
\* from j on after the events of seq whose indices are in a set.
IsIter(j, seq, D, iter) ==
  iter = [s \in SUBSET D |->
            IF s = {} THEN j ELSE json_callback(iter[s \ {Max(s)}], seq[Max(s)])]

\* Two iterations of the same fold agree wherever both are defined.
LEMMA IterUnique ==
  ASSUME NEW j, NEW seq, NEW D1, NEW D2, NEW g1, NEW g2, Indices(D1),
         IsIter(j, seq, D1, g1), IsIter(j, seq, D2, g2),
         NEW s, s \subseteq D1, s \subseteq D2
  PROVE  g1[s] = g2[s]
<1> DEFINE T == {t \in SUBSET s : g1[t] # g2[t]}
<1> SUFFICES ASSUME T # {}
             PROVE  FALSE
  OBVIOUS
<1>1. T \subseteq SUBSET D1 /\ IsFiniteSet(D1)
  BY DEF Indices
<1>2. PICK t \in T : \A u \in T : ~ (u \subseteq t /\ u # t)
  <2> HIDE DEF T
  <2> QED
    BY <1>1, SmallestSubset
<1>3. t \in SUBSET D1 /\ t \in SUBSET D2 /\ t \subseteq s
  OBVIOUS
<1>4. /\ g1[t] = IF t = {} THEN j ELSE json_callback(g1[t \ {Max(t)}], seq[Max(t)])
      /\ g2[t] = IF t = {} THEN j ELSE json_callback(g2[t \ {Max(t)}], seq[Max(t)])
  BY <1>3 DEF IsIter
<1>5. t # {} => Max(t) \in t
  BY <1>3 DEF Indices
<1>6. t # {} => g1[t \ {Max(t)}] = g2[t \ {Max(t)}]
  BY <1>2, <1>3, <1>5
<1> QED
  BY <1>4, <1>6

\* The iteration exists for every set of indices.
LEMMA IterExists ==
  ASSUME NEW j, NEW seq, NEW D, Indices(D)
  PROVE  \E g : IsIter(j, seq, D, g)
<1> DEFINE T == {t \in SUBSET D : ~ \E g : IsIter(j, seq, t, g)}
<1> SUFFICES ASSUME T # {}
             PROVE  FALSE
  OBVIOUS
<1>1. PICK t \in T : \A u \in T : ~ (u \subseteq t /\ u # t)
  <2>1. T \subseteq SUBSET D /\ IsFiniteSet(D)
    BY DEF Indices
  <2> HIDE DEF T
  <2> QED
    BY <2>1, SmallestSubset
<1>2. t \subseteq D /\ ~ \E g : IsIter(j, seq, t, g)
  OBVIOUS
<1> DEFINE H(s) == CHOOSE h : IsIter(j, seq, s, h)
           g == [s \in SUBSET t |->
                   IF s = {} THEN j
                   ELSE json_callback(H(s \ {Max(s)})[s \ {Max(s)}], seq[Max(s)])]
<1>3. ASSUME NEW s, s \subseteq t, s # t
      PROVE  IsIter(j, seq, s, H(s))
  BY <1>1, <1>2, <1>3
<1> HIDE DEF H, T
<1>4. ASSUME NEW s \in SUBSET t, s # {}
      PROVE  g[s \ {Max(s)}] = H(s \ {Max(s)})[s \ {Max(s)}]
  <2> DEFINE u == s \ {Max(s)}
             v == u \ {Max(u)}
  <2>1. u \subseteq t /\ u # t /\ v \subseteq u /\ u \subseteq D
    BY <1>2, <1>4 DEF Indices
  <2> HIDE DEF u
  <2>2. IsIter(j, seq, u, H(u))
    BY <1>3, <2>1
  <2>3. H(u)[u] = IF u = {} THEN j ELSE json_callback(H(u)[v], seq[Max(u)])
    BY <2>2 DEF IsIter
  <2>4. g[u] = IF u = {} THEN j ELSE json_callback(H(v)[v], seq[Max(u)])
    BY <2>1
  <2>5. H(u)[v] = H(v)[v]
    <3>1. IsIter(j, seq, v, H(v))
      BY <1>3, <2>1
    <3>2. Indices(u)
      BY <2>1, IndicesSubset
    <3> HIDE DEF v
    <3> QED
      BY <2>1, <2>2, <3>1, <3>2, IterUnique
  <2> HIDE DEF v
  <2> QED
    BY <2>3, <2>4, <2>5 DEF u
<1>5. IsIter(j, seq, t, g)
  <2>1. \A s \in SUBSET t :
          g[s] = IF s = {} THEN j ELSE json_callback(g[s \ {Max(s)}], seq[Max(s)])
    BY <1>4
  <2> QED
    BY <2>1 DEF IsIter
<1> QED
  BY <1>2, <1>5

\* FoldLeft is the value of the iteration.
LEMMA FoldIsIter ==
  ASSUME NEW j, NEW seq, Indices(DOMAIN seq)
  PROVE  \E g : /\ IsIter(j, seq, DOMAIN seq, g)
                /\ FoldLeft(json_callback, j, seq) = g[DOMAIN seq]
<1> DEFINE D == DOMAIN seq
           h == CHOOSE h : h = [s \in SUBSET D |->
                  IF s = {} THEN j ELSE json_callback(h[s \ {Max(s)}], seq[Max(s)])]
<1>1. IsIter(j, seq, D, h)
  <2>1. PICK g : IsIter(j, seq, D, g)
    BY IterExists
  <2>2. g = [s \in SUBSET D |->
               IF s = {} THEN j ELSE json_callback(g[s \ {Max(s)}], seq[Max(s)])]
    BY <2>1 DEF IsIter
  <2>3. h = [s \in SUBSET D |->
               IF s = {} THEN j ELSE json_callback(h[s \ {Max(s)}], seq[Max(s)])]
    BY <2>2
  <2> HIDE DEF h
  <2> QED
    BY <2>3 DEF IsIter
<1>2. FoldLeft(json_callback, j, seq) = h[D]
  BY DEF FoldLeft, MapThenFoldSet
<1> QED
  BY <1>1, <1>2

\* That f has the states of the parser after each event of a fragment: the first
\* one after the START, and each one from the one before.
IsRun(f, j, r, events) ==
  /\ f[0] = json_callback(j, START(r))
  /\ \A k \in 1..Len(events) : f[k] = json_callback(f[k - 1], events[k])
  /\ lejp_parse(j, r, events) = f[Len(events)]

\* There is such a run for every fragment.
LEMMA ParserStates ==
  ASSUME NEW j, NEW r, NEW S, NEW events \in Seq(S)
  PROVE  \E f : IsRun(f, j, r, events)
<1> DEFINE m == Len(events)
<1>0. m \in Nat
  OBVIOUS
<1> DEFINE seq == <<START(r)>> \o events
<1>1. DOMAIN seq = 1..(m + 1)
  OBVIOUS
<1>2. seq[1] = START(r) /\ \A k \in 1..m : seq[k + 1] = events[k]
  OBVIOUS
<1>3. Indices(DOMAIN seq)
  BY <1>1, SequenceIndices
<1> HIDE DEF seq
<1>4. PICK g : IsIter(j, seq, 1..(m + 1), g) /\ FoldLeft(json_callback, j, seq) = g[1..(m + 1)]
  BY <1>1, <1>3, FoldIsIter
<1> DEFINE f == [k \in 0..m |-> g[1..(k + 1)]]
<1>5. ASSUME NEW k \in 0..m
      PROVE  g[1..(k + 1)] = json_callback(g[1..k], seq[k + 1])
  <2> DEFINE s == 1..(k + 1)
  <2>1. s \subseteq 1..(m + 1) /\ s # {}
    <3>1. 1 \in s
      OBVIOUS
    <3>2. \A x \in s : x \in 1..(m + 1)
      OBVIOUS
    <3> QED
      BY <3>1, <3>2
  <2>2. Max(s) = k + 1
    <3>1. k + 1 \in Nat
      OBVIOUS
    <3>2. Max(s) \in s /\ \A x \in s : x <= Max(s)
      BY <2>1, <3>1, MaxIndex
    <3> QED
      BY <3>2
  <2>3. s \ {k + 1} = 1..k
    <3>1. k \in Nat
      OBVIOUS
    <3>2. ASSUME NEW x
          PROVE  x \in s \ {k + 1} <=> x \in 1..k
      BY <3>1
    <3> HIDE DEF s
    <3> QED
      BY <3>2
  <2>4. g[s] = IF s = {} THEN j ELSE json_callback(g[s \ {Max(s)}], seq[Max(s)])
    <3> HIDE DEF s
    <3> QED
      BY <1>4, <2>1 DEF IsIter
  <2> QED
    BY <2>1, <2>2, <2>3, <2>4
<1>6. g[1..0] = j
  <2>1. 1..0 = {} /\ {} \subseteq 1..(m + 1)
    OBVIOUS
  <2> QED
    BY <1>4, <2>1 DEF IsIter
<1>7. f[0] = json_callback(j, START(r))
  <2>1. 0 \in 0..m /\ 0 + 1 = 1
    OBVIOUS
  <2>2. f[0] = g[1..(0 + 1)]
    BY <2>1
  <2>3. g[1..(0 + 1)] = json_callback(g[1..0], seq[0 + 1])
    BY <1>5, <2>1
  <2> HIDE DEF f
  <2> QED
    BY <1>2, <1>6, <2>1, <2>2, <2>3
<1>8. ASSUME NEW k \in 1..m
      PROVE  f[k] = json_callback(f[k - 1], events[k])
  <2>1. k \in 0..m /\ k - 1 \in 0..m /\ (k - 1) + 1 = k
    OBVIOUS
  <2>2. seq[k + 1] = events[k]
    BY <1>2
  <2>3. f[k - 1] = g[1..k]
    BY <2>1
  <2>4. f[k] = g[1..(k + 1)]
    BY <2>1
  <2>5. g[1..(k + 1)] = json_callback(g[1..k], seq[k + 1])
    BY <1>5, <2>1
  <2> HIDE DEF f
  <2> QED
    BY <2>2, <2>3, <2>4, <2>5
<1>9. lejp_parse(j, r, events) = f[m]
  <2>1. lejp_parse(j, r, events) = FoldLeft(json_callback, j, seq)
    BY DEF lejp_parse, seq
  <2>2. f[m] = g[1..(m + 1)]
    OBVIOUS
  <2> QED
    BY <1>4, <2>1, <2>2
<1> HIDE DEF f
<1>10. IsRun(f, j, r, events)
  BY <1>7, <1>8, <1>9 DEF IsRun, m
<1> QED
  BY <1>10

-----------------------------------------------------------------------------
(* What json_callback does for each event.                                 *)

\* The fields json_callback converts.
LEMMA ConvertedFields == DOMAIN Converted = {"p", "s", "t", "v"}
BY DEF Converted

\* The event at an index of a message is the one of its object.
LEMMA EventAt ==
  ASSUME NEW objects \in Seq(Forms), NEW n \in Nat, NEW q \in 1..Len(objects), NEW i \in 1..6
  PROVE  MessageEvents(objects, n)[6 * (q - 1) + i] = ObjectEvents(objects[q], n + q)[i]
<1> DEFINE e == 6 * (q - 1) + i
<1>1. e \in 1..(6 * Len(objects))
  OBVIOUS
<1>2. ((e - 1) \div 6) + 1 = q /\ ((e - 1) % 6) + 1 = i
  OBVIOUS
<1> HIDE DEF e
<1>3. MessageEvents(objects, n)[e]
        = ObjectEvents(objects[((e - 1) \div 6) + 1], n + (((e - 1) \div 6) + 1))
            [((e - 1) % 6) + 1]
  BY <1>1 DEF MessageEvents, AllEvents, EventsPerObject
<1> QED
  BY <1>2, <1>3 DEF e

\* The start of the input sets the time of the work item.
LEMMA StartCallback ==
  ASSUME NEW N \in Nat, NEW r \in Nat, NEW j \in JsonStates(N, r),
         NEW k, k = json_callback(j, START(r))
  PROVE  /\ k \in JsonStates(N, r)
         /\ k.item.event_time = r
         /\ k.added = j.added
<1>1. k = [j EXCEPT !.item.event_time = r]
  BY DEF json_callback, START, Event
<1> DEFINE item == [j.item EXCEPT !.event_time = r]
<1>2. k = [j EXCEPT !.item = item]
  BY <1>1
<1>3. item \in WorkItems(N, r) /\ item.event_time = r
  <2>1. j.item \in WorkItems(N, r)
    BY DEF JsonStates
  <2> QED
    BY <2>1 DEF WorkItems
<1> HIDE DEF item
<1>4. /\ k \in JsonStates(N, r)
      /\ k.item = item
      /\ k.added = j.added
  BY <1>2, <1>3 DEF JsonStates
<1> QED
  BY <1>3, <1>4

\* The start of an object makes the trade a valid one.
LEMMA ObjectStartCallback ==
  ASSUME NEW N \in Nat, NEW r \in Nat, NEW j \in JsonStates(N, r), NEW m,
         NEW k, k = json_callback(j, Event("OBJECT_START", "data[]", "none", m))
  PROVE  /\ k \in JsonStates(N, r)
         /\ k.item = j.item
         /\ k.trade_is_valid
         /\ k.added = j.added
<1>1. k = [j EXCEPT !.trade_is_valid = TRUE]
  BY DEF json_callback, Event
<1>2. /\ k \in JsonStates(N, r)
      /\ k.item = j.item
      /\ k.trade_is_valid
      /\ k.added = j.added
  BY <1>1 DEF JsonStates
<1> QED
  BY <1>2

\* A bad value of a field, which is converted.
BadValue(f, form) == form \in Converted[f] \cap Bad

\* A bad value makes the trade invalid.
LEMMA ValidCallback ==
  ASSUME NEW N \in Nat, NEW r \in Nat, NEW j \in JsonStates(N, r), NEW m,
         NEW f \in DOMAIN Converted, NEW form,
         NEW k, k = json_callback(j, Event("VAL", f, form, m))
  PROVE  k.trade_is_valid <=> j.trade_is_valid /\ ~ BadValue(f, form)
<1>1. CASE form \in Converted[f]
  <2>1. k = [j EXCEPT !.item[f] = m, !.trade_is_valid = @ /\ form \notin Bad]
    BY <1>1 DEF json_callback, Event
  <2>2. k.trade_is_valid = (j.trade_is_valid /\ form \notin Bad)
    BY <2>1, ConvertedFields DEF JsonStates
  <2> QED
    BY <1>1, <2>2, Zenon DEF BadValue
<1>2. CASE form \notin Converted[f]
  <2>1. k = j
    BY <1>2 DEF json_callback, Event
  <2> QED
    BY <1>2, <2>1, Zenon DEF BadValue
<1> QED
  BY <1>1, <1>2, Zenon

\* A value is written to its field of the work item if it is converted.
LEMMA ValueCallback ==
  ASSUME NEW N \in Nat, NEW r \in Nat, NEW j \in JsonStates(N, r), NEW m \in 0..N,
         NEW f \in {"p", "s", "t", "v"}, NEW form,
         NEW k, k = json_callback(j, Event("VAL", f, form, m))
  PROVE  /\ k \in JsonStates(N, r)
         /\ k.item.event_time = j.item.event_time
         /\ k.item[f] = IF form \in Converted[f] THEN m ELSE j.item[f]
         /\ \A g \in {"p", "s", "t", "v"} \ {f} : k.item[g] = j.item[g]
         /\ k.added = j.added
<1>1. CASE form \in Converted[f]
  <2>1. k = [j EXCEPT !.item[f] = m, !.trade_is_valid = @ /\ form \notin Bad]
    BY <1>1 DEF json_callback, Event
  <2>2. /\ k.item = [j.item EXCEPT ![f] = m]
        /\ k.trade_is_valid = (j.trade_is_valid /\ form \notin Bad)
        /\ k.added = j.added
    BY <2>1 DEF JsonStates
  <2>3. k \in JsonStates(N, r)
    <3>1. k.item \in WorkItems(N, r)
      <4>1. j.item \in WorkItems(N, r)
        BY DEF JsonStates
      <4> QED
        BY <2>2, <4>1 DEF WorkItems
    <3>2. k.trade_is_valid \in BOOLEAN
      BY <2>2, Zenon
    <3>3. k.added \in Seq(WorkItems(N, r))
      BY <2>2 DEF JsonStates
    <3>4. k = [item |-> k.item, trade_is_valid |-> k.trade_is_valid, added |-> k.added]
      BY <2>1 DEF JsonStates
    <3> QED
      BY <3>1, <3>2, <3>3, <3>4 DEF JsonStates
  <2>4. j.item \in WorkItems(N, r)
    BY DEF JsonStates
  <2>5. /\ k.item.event_time = j.item.event_time
        /\ k.item[f] = m
        /\ \A g \in {"p", "s", "t", "v"} \ {f} : k.item[g] = j.item[g]
    BY <2>2, <2>4 DEF WorkItems
  <2> QED
    BY <1>1, <2>2, <2>3, <2>5
<1>2. CASE form \notin Converted[f]
  <2>1. k = j
    BY <1>2 DEF json_callback, Event
  <2> QED
    BY <1>2, <2>1
<1> QED
  BY <1>1, <1>2

\* The end of an object adds the work item if the trade is valid.
LEMMA ObjectEndCallback ==
  ASSUME NEW N \in Nat, NEW r \in Nat, NEW j \in JsonStates(N, r), NEW m,
         NEW k, k = json_callback(j, Event("OBJECT_END", "data[]", "none", m))
  PROVE  /\ k \in JsonStates(N, r)
         /\ k.item = j.item
         /\ k.added = IF j.trade_is_valid THEN Append(j.added, j.item) ELSE j.added
<1>1. CASE j.trade_is_valid
  <2>1. k = [j EXCEPT !.added = Append(j.added, j.item)]
    BY <1>1 DEF json_callback, Event
  <2>2. j.item \in WorkItems(N, r) /\ j.added \in Seq(WorkItems(N, r))
    BY DEF JsonStates
  <2>3. Append(j.added, j.item) \in Seq(WorkItems(N, r))
    BY <2>2
  <2>4. /\ k \in JsonStates(N, r)
        /\ k.item = j.item
        /\ k.added = Append(j.added, j.item)
    BY <2>1, <2>3 DEF JsonStates
  <2> QED
    BY <1>1, <2>4
<1>2. CASE ~ j.trade_is_valid
  <2>1. k = j
    BY <1>2 DEF json_callback, Event
  <2> QED
    BY <1>2, <2>1
<1> QED
  BY <1>1, <1>2

\* That j1 to j6 are the states of the parser after the events of object o, the
\* m-th one, which begins in the state j0.
ObjectRun(o, m, j0, j1, j2, j3, j4, j5, j6) ==
  /\ j1 = json_callback(j0, ObjectEvents(o, m)[1])
  /\ j2 = json_callback(j1, ObjectEvents(o, m)[2])
  /\ j3 = json_callback(j2, ObjectEvents(o, m)[3])
  /\ j4 = json_callback(j3, ObjectEvents(o, m)[4])
  /\ j5 = json_callback(j4, ObjectEvents(o, m)[5])
  /\ j6 = json_callback(j5, ObjectEvents(o, m)[6])

\* The states of the parser during object o, the m-th one, which begins in the
\* state j0: nothing is added before its end, which adds the work item if the
\* object is sound.  Then the work item has the number of the object in every
\* field the object has, and what it had before in the others.
LEMMA ObjectStates ==
  ASSUME NEW N \in Nat, NEW r \in Nat, NEW o \in Forms, NEW m \in 0..N,
         NEW j0 \in JsonStates(N, r), NEW j1, NEW j2, NEW j3, NEW j4, NEW j5, NEW j6,
         ObjectRun(o, m, j0, j1, j2, j3, j4, j5, j6)
  PROVE  /\ \A j \in {j1, j2, j3, j4, j5} : j \in JsonStates(N, r) /\ j.added = j0.added
         /\ j6 \in JsonStates(N, r)
         /\ j6.item = j5.item
         /\ j6.added = IF Sound(o) THEN Append(j0.added, j5.item) ELSE j0.added
         /\ j5.item.event_time = j0.item.event_time
         /\ \A f \in {"p", "s", "t", "v"} :
              j5.item[f] = IF o[f] \in Converted[f] THEN m ELSE j0.item[f]
<1>1. /\ j1 = json_callback(j0, Event("OBJECT_START", "data[]", "none", m))
      /\ j2 = json_callback(j1, Event("VAL", "p", o["p"], m))
      /\ j3 = json_callback(j2, Event("VAL", "s", o["s"], m))
      /\ j4 = json_callback(j3, Event("VAL", "t", o["t"], m))
      /\ j5 = json_callback(j4, Event("VAL", "v", o["v"], m))
      /\ j6 = json_callback(j5, Event("OBJECT_END", "data[]", "none", m))
  BY DEF ObjectRun, ObjectEvents
<1>2. /\ j1 \in JsonStates(N, r) /\ j1.item = j0.item /\ j1.added = j0.added
      /\ j1.trade_is_valid
  <2>1. j1 = json_callback(j0, Event("OBJECT_START", "data[]", "none", m))
    BY <1>1
  <2>2. /\ j1 \in JsonStates(N, r)
        /\ j1.item = j0.item
        /\ j1.trade_is_valid
        /\ j1.added = j0.added
    BY <2>1, ObjectStartCallback
  <2> QED
    BY <2>2, Zenon
<1>3. /\ j2 \in JsonStates(N, r)
      /\ j2.item.event_time = j1.item.event_time
      /\ j2.item["p"] = IF o["p"] \in Converted["p"] THEN m ELSE j1.item["p"]
      /\ \A g \in {"p", "s", "t", "v"} \ {"p"} : j2.item[g] = j1.item[g]
      /\ j2.added = j1.added
  <2>1. "p" \in {"p", "s", "t", "v"}
    OBVIOUS
  <2>2. j2 = json_callback(j1, Event("VAL", "p", o["p"], m))
    BY <1>1
  <2>3. j1 \in JsonStates(N, r)
    BY <1>2
  <2> QED
    BY <2>1, <2>2, <2>3, ValueCallback
<1>4. /\ j3 \in JsonStates(N, r)
      /\ j3.item.event_time = j2.item.event_time
      /\ j3.item["s"] = IF o["s"] \in Converted["s"] THEN m ELSE j2.item["s"]
      /\ \A g \in {"p", "s", "t", "v"} \ {"s"} : j3.item[g] = j2.item[g]
      /\ j3.added = j2.added
  <2>1. "s" \in {"p", "s", "t", "v"}
    OBVIOUS
  <2>2. j3 = json_callback(j2, Event("VAL", "s", o["s"], m))
    BY <1>1
  <2>3. j2 \in JsonStates(N, r)
    BY <1>3
  <2> QED
    BY <2>1, <2>2, <2>3, ValueCallback
<1>5. /\ j4 \in JsonStates(N, r)
      /\ j4.item.event_time = j3.item.event_time
      /\ j4.item["t"] = IF o["t"] \in Converted["t"] THEN m ELSE j3.item["t"]
      /\ \A g \in {"p", "s", "t", "v"} \ {"t"} : j4.item[g] = j3.item[g]
      /\ j4.added = j3.added
  <2>1. "t" \in {"p", "s", "t", "v"}
    OBVIOUS
  <2>2. j4 = json_callback(j3, Event("VAL", "t", o["t"], m))
    BY <1>1
  <2>3. j3 \in JsonStates(N, r)
    BY <1>4
  <2> QED
    BY <2>1, <2>2, <2>3, ValueCallback
<1>6. /\ j5 \in JsonStates(N, r)
      /\ j5.item.event_time = j4.item.event_time
      /\ j5.item["v"] = IF o["v"] \in Converted["v"] THEN m ELSE j4.item["v"]
      /\ \A g \in {"p", "s", "t", "v"} \ {"v"} : j5.item[g] = j4.item[g]
      /\ j5.added = j4.added
  <2>1. "v" \in {"p", "s", "t", "v"}
    OBVIOUS
  <2>2. j5 = json_callback(j4, Event("VAL", "v", o["v"], m))
    BY <1>1
  <2>3. j4 \in JsonStates(N, r)
    BY <1>5
  <2> QED
    BY <2>1, <2>2, <2>3, ValueCallback
<1>7. /\ j6 \in JsonStates(N, r)
      /\ j6.item = j5.item
      /\ j6.added = IF j5.trade_is_valid THEN Append(j5.added, j5.item) ELSE j5.added
  BY <1>1, <1>6, ObjectEndCallback
<1>8. Sound(o) <=> /\ ~ BadValue("p", o["p"]) /\ ~ BadValue("s", o["s"])
                   /\ ~ BadValue("t", o["t"]) /\ ~ BadValue("v", o["v"])
  BY ConvertedFields DEF Sound, BadValue
<1>9. j5.trade_is_valid <=> Sound(o)
  <2>1. j2.trade_is_valid <=> j1.trade_is_valid /\ ~ BadValue("p", o["p"])
    <3>1. "p" \in DOMAIN Converted
      BY ConvertedFields
    <3>2. j2 = json_callback(j1, Event("VAL", "p", o["p"], m))
      BY <1>1
    <3>3. j1 \in JsonStates(N, r)
      BY <1>2
    <3> QED
      BY <3>1, <3>2, <3>3, ValidCallback
  <2>2. j3.trade_is_valid <=> j2.trade_is_valid /\ ~ BadValue("s", o["s"])
    <3>1. "s" \in DOMAIN Converted
      BY ConvertedFields
    <3>2. j3 = json_callback(j2, Event("VAL", "s", o["s"], m))
      BY <1>1
    <3>3. j2 \in JsonStates(N, r)
      BY <1>3
    <3> QED
      BY <3>1, <3>2, <3>3, ValidCallback
  <2>3. j4.trade_is_valid <=> j3.trade_is_valid /\ ~ BadValue("t", o["t"])
    <3>1. "t" \in DOMAIN Converted
      BY ConvertedFields
    <3>2. j4 = json_callback(j3, Event("VAL", "t", o["t"], m))
      BY <1>1
    <3>3. j3 \in JsonStates(N, r)
      BY <1>4
    <3> QED
      BY <3>1, <3>2, <3>3, ValidCallback
  <2>4. j5.trade_is_valid <=> j4.trade_is_valid /\ ~ BadValue("v", o["v"])
    <3>1. "v" \in DOMAIN Converted
      BY ConvertedFields
    <3>2. j5 = json_callback(j4, Event("VAL", "v", o["v"], m))
      BY <1>1
    <3>3. j4 \in JsonStates(N, r)
      BY <1>5
    <3> QED
      BY <3>1, <3>2, <3>3, ValidCallback
  <2> QED
    BY <1>2, <1>8, <2>1, <2>2, <2>3, <2>4, Zenon
<1>10. ASSUME NEW f \in {"p", "s", "t", "v"}
       PROVE  j5.item[f] = IF o[f] \in Converted[f] THEN m ELSE j0.item[f]
  <2>1. CASE f = "p"
    BY <1>2, <1>3, <1>4, <1>5, <1>6, <2>1
  <2>2. CASE f = "s"
    BY <1>2, <1>3, <1>4, <1>5, <1>6, <2>2
  <2>3. CASE f = "t"
    BY <1>2, <1>3, <1>4, <1>5, <1>6, <2>3
  <2>4. CASE f = "v"
    BY <1>2, <1>3, <1>4, <1>5, <1>6, <2>4
  <2> QED
    BY <2>1, <2>2, <2>3, <2>4
<1>11. j5.added = j0.added /\ j5.item.event_time = j0.item.event_time
  BY <1>2, <1>3, <1>4, <1>5, <1>6
<1>12. j6.added = IF Sound(o) THEN Append(j0.added, j5.item) ELSE j0.added
  BY <1>7, <1>9, <1>11
<1>13. \A j \in {j1, j2, j3, j4, j5} : j \in JsonStates(N, r) /\ j.added = j0.added
  BY <1>2, <1>3, <1>4, <1>5, <1>6
<1> QED
  BY <1>7, <1>10, <1>11, <1>12, <1>13

-----------------------------------------------------------------------------
(* The trades of a fragment.                                               *)

\* Whole objects: how many end within cut events, and that one more does.
LEMMA AcceptedWhole ==
  ASSUME NEW objects \in Seq(Forms), NEW q \in Nat
  PROVE  /\ Accepted(objects, 6 * q) \subseteq 1..q
         /\ IsFiniteSet(Accepted(objects, 6 * q))
<1>1. Accepted(objects, 6 * q) \subseteq 1..q
  BY DEF Accepted, EventsPerObject
<1>2. IsFiniteSet(1..q)
  BY FS_Interval
<1> QED
  BY <1>1, <1>2, FS_Subset

\* An object that is cut off is not accepted.
LEMMA AcceptedPart ==
  ASSUME NEW objects \in Seq(Forms), NEW q \in Nat, NEW i \in 0..5
  PROVE  Accepted(objects, 6 * q + i) = Accepted(objects, 6 * q)
<1>1. ASSUME NEW k \in Nat
      PROVE  6 * k <= 6 * q + i <=> 6 * k <= 6 * q
  OBVIOUS
<1>2. DOMAIN objects \subseteq Nat
  OBVIOUS
<1> QED
  BY <1>1, <1>2 DEF Accepted, EventsPerObject

\* The next object that ends is accepted if it is sound.
LEMMA AcceptedNext ==
  ASSUME NEW objects \in Seq(Forms), NEW q \in Nat, q + 1 \in 1..Len(objects)
  PROVE  Accepted(objects, 6 * (q + 1))
           = IF Sound(objects[q + 1]) THEN Accepted(objects, 6 * q) \cup {q + 1}
                                      ELSE Accepted(objects, 6 * q)
<1>1. ASSUME NEW k \in Nat
      PROVE  6 * k <= 6 * (q + 1) <=> (6 * k <= 6 * q \/ k = q + 1)
  OBVIOUS
<1>2. DOMAIN objects \subseteq Nat /\ q + 1 \in DOMAIN objects /\ ~ 6 * (q + 1) <= 6 * q
  OBVIOUS
<1> DEFINE P(k) == Sound(objects[k])
<1>3. ASSUME NEW k
      PROVE  k \in Accepted(objects, 6 * (q + 1))
               <=> k \in Accepted(objects, 6 * q) \/ (k = q + 1 /\ P(q + 1))
  <2>1. k \in Accepted(objects, 6 * (q + 1))
          <=> k \in DOMAIN objects /\ 6 * k <= 6 * (q + 1) /\ P(k)
    BY DEF Accepted, EventsPerObject
  <2>2. k \in Accepted(objects, 6 * q) <=> k \in DOMAIN objects /\ 6 * k <= 6 * q /\ P(k)
    BY DEF Accepted, EventsPerObject
  <2> HIDE DEF P
  <2> QED
    BY <1>1, <1>2, <2>1, <2>2
<1> QED
  BY <1>3

\* The trades stay faithful over the next object that ends.
LEMMA FaithfulNext ==
  ASSUME NEW objects \in Seq(Forms), NEW n \in Nat, NEW r, NEW q \in Nat,
         q + 1 \in 1..Len(objects), NEW S, NEW added \in Seq(S), NEW item \in S,
         Faithful(added, objects, n, 6 * q, r),
         IsTrade(item, objects[q + 1], n + (q + 1), r)
  PROVE  Faithful(IF Sound(objects[q + 1]) THEN Append(added, item) ELSE added,
                  objects, n, 6 * (q + 1), r)
<1>1. CASE ~ Sound(objects[q + 1])
  <2>1. Accepted(objects, 6 * (q + 1)) = Accepted(objects, 6 * q)
    BY <1>1, AcceptedNext
  <2> QED
    BY <1>1, <2>1 DEF Faithful
<1>2. CASE Sound(objects[q + 1])
  <2> DEFINE A == Accepted(objects, 6 * q)
             B == Accepted(objects, 6 * (q + 1))
             w == Append(added, item)
  <2>1. B = A \cup {q + 1}
    BY <1>2, AcceptedNext
  <2>2. A \subseteq 1..q /\ IsFiniteSet(A)
    BY AcceptedWhole
  <2>3. /\ Len(added) = Cardinality(A)
        /\ \A k \in A : IsTrade(added[Cardinality({i \in A : i <= k})], objects[k], n + k, r)
    BY DEF Faithful
  <2> HIDE DEF A, B
  <2>4. Cardinality(A) \in Nat
    BY <2>2, FS_CardinalityType
  <2>5. Cardinality(B) = Cardinality(A) + 1
    <3>1. q + 1 \notin A
      BY <2>2
    <3> QED
      BY <2>1, <2>2, <3>1, FS_AddElement
  <2>6. /\ Len(w) = Cardinality(A) + 1
        /\ w[Cardinality(A) + 1] = item
        /\ \A x \in 1..Cardinality(A) : w[x] = added[x]
    BY <2>3, <2>4
  <2> HIDE DEF w
  <2>7. ASSUME NEW k \in B
        PROVE  IsTrade(w[Cardinality({i \in B : i <= k})], objects[k], n + k, r)
    <3>1. CASE k = q + 1
      <4>1. {i \in B : i <= k} = B
        <5>1. \A i \in B : i <= q + 1
          BY <2>1, <2>2
        <5> QED
          BY <3>1, <5>1
      <4> QED
        BY <2>5, <2>6, <3>1, <4>1
    <3>2. CASE k \in A
      <4> DEFINE C == {i \in A : i <= k}
      <4>1. {i \in B : i <= k} = C
        BY <2>1, <2>2, <3>2
      <4>2. C \subseteq A /\ k \in C
        BY <2>2, <3>2
      <4> HIDE DEF C
      <4>3. IsFiniteSet(C) /\ Cardinality(C) <= Cardinality(A)
        BY <2>2, <4>2, FS_Subset
      <4>4. Cardinality(C) \in Nat /\ Cardinality(C) # 0
        BY <4>2, <4>3, FS_CardinalityType, FS_EmptySet
      <4>5. Cardinality(C) \in 1..Cardinality(A)
        BY <2>4, <4>3, <4>4
      <4>6. IsTrade(added[Cardinality(C)], objects[k], n + k, r)
        BY <2>3, <3>2 DEF C
      <4> QED
        BY <2>6, <4>1, <4>5, <4>6
    <3> QED
      BY <2>1, <3>1, <3>2
  <2>8. Faithful(w, objects, n, 6 * (q + 1), r)
    BY <2>5, <2>6, <2>7 DEF Faithful, B
  <2> QED
    BY <1>2, <2>8 DEF w
<1> QED
  BY <1>1, <1>2

\* What holds of the parser when q objects of a message have ended, with n sent
\* before it.
Parsed(j, objects, n, q, r) ==
  /\ j \in JsonStates(n + q, r)
  /\ j.item.event_time = r
  /\ Faithful(j.added, objects, n, 6 * q, r)

\* The states of the parser with a larger bound.
LEMMA JsonStatesGrow ==
  ASSUME NEW N1 \in Nat, NEW N2 \in Nat, N1 <= N2, NEW r1 \in Nat, NEW r2 \in Nat, r1 <= r2
  PROVE  JsonStates(N1, r1) \subseteq JsonStates(N2, r2)
<1>1. WorkItems(N1, r1) \subseteq WorkItems(N2, r2)
  <2>1. 0..N1 \subseteq 0..N2 /\ 0..r1 \subseteq 0..r2
    OBVIOUS
  <2> QED
    BY <2>1 DEF WorkItems
<1>2. Seq(WorkItems(N1, r1)) \subseteq Seq(WorkItems(N2, r2))
  BY <1>1
<1> QED
  BY <1>1, <1>2 DEF JsonStates

\* One more object: the states within it have nothing more added, and the one
\* at its end is again as it should be.
ObjectParsed(objects, n, q, r, j0, j1, j2, j3, j4, j5, j6) ==
  /\ \A j \in {j0, j1, j2, j3, j4, j5} :
       j \in JsonStates(n + (q + 1), r) /\ j.added = j0.added
  /\ Parsed(j6, objects, n, q + 1, r)

\* So it is with every object.
LEMMA ParsedNext ==
  ASSUME NEW objects \in Seq(Forms), NEW n \in Nat, NEW r \in Nat, NEW q \in Nat,
         q + 1 \in 1..Len(objects),
         NEW j0, NEW j1, NEW j2, NEW j3, NEW j4, NEW j5, NEW j6,
         Parsed(j0, objects, n, q, r),
         ObjectRun(objects[q + 1], n + (q + 1), j0, j1, j2, j3, j4, j5, j6)
  PROVE  ObjectParsed(objects, n, q, r, j0, j1, j2, j3, j4, j5, j6)
<1> DEFINE N == n + (q + 1)
           o == objects[q + 1]
<1>1. j0 \in JsonStates(n + q, r) /\ j0.item.event_time = r
  BY DEF Parsed
<1>2. Faithful(j0.added, objects, n, 6 * q, r)
  BY DEF Parsed
<1>3. N \in Nat /\ n + q \in Nat /\ n + q <= N /\ r <= r /\ N \in 0..N
  OBVIOUS
<1>4. o \in Forms
  OBVIOUS
<1>5. j0 \in JsonStates(N, r)
  <2> HIDE DEF N
  <2> QED
    BY <1>1, <1>3, JsonStatesGrow
<1>6. /\ \A j \in {j1, j2, j3, j4, j5} : j \in JsonStates(N, r) /\ j.added = j0.added
      /\ j6 \in JsonStates(N, r)
      /\ j6.item = j5.item
      /\ j6.added = IF Sound(o) THEN Append(j0.added, j5.item) ELSE j0.added
      /\ j5.item.event_time = j0.item.event_time
      /\ \A f \in {"p", "s", "t", "v"} :
           j5.item[f] = IF o[f] \in Converted[f] THEN N ELSE j0.item[f]
  <2>1. ObjectRun(o, N, j0, j1, j2, j3, j4, j5, j6)
    OBVIOUS
  <2> HIDE DEF N, o
  <2> QED
    BY <1>3, <1>4, <1>5, <2>1, ObjectStates, SMTT(30)
<1>7. IsTrade(j5.item, o, N, r)
  <2> HIDE DEF N, o
  <2> QED
    BY <1>1, <1>6, ConvertedFields DEF IsTrade
<1>8. j0.added \in Seq(WorkItems(N, r)) /\ j5.item \in WorkItems(N, r)
  <2>1. j5 \in JsonStates(N, r)
    BY <1>6
  <2> QED
    BY <1>5, <2>1 DEF JsonStates
<1>9. Faithful(j6.added, objects, n, 6 * (q + 1), r)
  <2> DEFINE W == WorkItems(N, r)
  <2>1. j0.added \in Seq(W) /\ j5.item \in W
    BY <1>8
  <2> HIDE DEF W
  <2>2. Faithful(IF Sound(o) THEN Append(j0.added, j5.item) ELSE j0.added,
                 objects, n, 6 * (q + 1), r)
    BY <1>2, <1>7, <2>1, FaithfulNext
  <2> HIDE DEF o, N
  <2> QED
    BY <1>6, <2>2
<1>10. Parsed(j6, objects, n, q + 1, r)
  BY <1>1, <1>6, <1>9 DEF Parsed
<1> QED
  BY <1>5, <1>6, <1>10 DEF ObjectParsed

\* The events of a message, and of a fragment of it.
LEMMA FragmentEvents ==
  ASSUME NEW objects \in Seq(Forms), NEW n \in Nat, NEW cut \in 0..(6 * Len(objects))
  PROVE  LET events == MessageEvents(objects, n)
             fragment == SubSeq(events, 1, cut)
             S == {events[i] : i \in 1..(6 * Len(objects))}
         IN  /\ Len(events) = 6 * Len(objects)
             /\ fragment \in Seq(S)
             /\ Len(fragment) = cut
             /\ \A i \in 1..cut : fragment[i] = events[i]
<1> DEFINE events == MessageEvents(objects, n)
           L == 6 * Len(objects)
           S == {events[i] : i \in 1..L}
<1>1. L \in Nat /\ cut \in 0..L
  OBVIOUS
<1>2. events = [i \in 1..L |-> events[i]]
  BY DEF MessageEvents, AllEvents, EventsPerObject
<1> HIDE DEF events, L
<1>3. events \in Seq(S) /\ Len(events) = L
  BY <1>1, <1>2
<1> HIDE DEF S
<1>4. /\ SubSeq(events, 1, cut) \in Seq(S)
      /\ Len(SubSeq(events, 1, cut)) = cut
      /\ \A i \in 1..cut : SubSeq(events, 1, cut)[i] = events[i]
  BY <1>1, <1>3
<1> QED
  BY <1>3, <1>4 DEF events, L, S

\* The parser of a fragment adds what it should, whatever the work item held.
LEMMA ParseFaithful ==
  ASSUME NEW objects \in Seq(Forms), NEW n \in Nat, NEW r \in Nat,
         NEW cut \in 0..(6 * Len(objects)), NEW j \in JsonStates(n, r), j.added = <<>>,
         NEW k, k = lejp_parse(j, r, SubSeq(MessageEvents(objects, n), 1, cut))
  PROVE  /\ k \in JsonStates(n + Len(objects), r)
         /\ Faithful(k.added, objects, n, cut, r)
<1> DEFINE events == MessageEvents(objects, n)
           fragment == SubSeq(events, 1, cut)
           S == {events[i] : i \in 1..(6 * Len(objects))}
           L == Len(objects)
<1>1. L \in Nat /\ cut \in Nat /\ cut <= 6 * L
  OBVIOUS
<1>2. /\ fragment \in Seq(S) /\ Len(fragment) = cut
      /\ \A i \in 1..cut : fragment[i] = events[i]
  BY FragmentEvents
<1>3. k = lejp_parse(j, r, fragment)
  OBVIOUS
<1>4. \A q \in 1..L : \A i \in 1..6 :
        events[6 * (q - 1) + i] = ObjectEvents(objects[q], n + q)[i]
  BY EventAt
<1> HIDE DEF events, fragment, S, L
<1>5. PICK f : /\ f[0] = json_callback(j, START(r))
               /\ \A i \in 1..cut : f[i] = json_callback(f[i - 1], fragment[i])
               /\ k = f[cut]
  <2>1. cut \in Nat /\ fragment \in Seq(S) /\ Len(fragment) = cut
    BY <1>1, <1>2
  <2>2. PICK f : IsRun(f, j, r, fragment)
    BY <2>1, ParserStates
  <2>3. /\ f[0] = json_callback(j, START(r))
        /\ \A i \in 1..cut : f[i] = json_callback(f[i - 1], fragment[i])
        /\ k = f[cut]
    BY <1>3, <2>1, <2>2, Zenon DEF IsRun
  <2> QED
    BY <2>3
<1>6. Parsed(f[0], objects, n, 0, r)
  <2>1. f[0] \in JsonStates(n, r) /\ f[0].item.event_time = r /\ f[0].added = <<>>
    BY <1>5, StartCallback
  <2>2. Accepted(objects, 6 * 0) = {}
    <3>1. Accepted(objects, 6 * 0) \subseteq 1..0
      BY AcceptedWhole
    <3> QED
      BY <3>1
  <2>3. Faithful(<<>>, objects, n, 6 * 0, r)
    BY <2>2, FS_EmptySet DEF Faithful
  <2>4. n + 0 = n
    OBVIOUS
  <2> QED
    BY <2>1, <2>3, <2>4 DEF Parsed
<1>7. ASSUME NEW q \in Nat, q + 1 <= L, NEW i \in 1..6, 6 * q + i <= cut
      PROVE  f[6 * q + i] = json_callback(f[6 * q + (i - 1)],
                                          ObjectEvents(objects[q + 1], n + (q + 1))[i])
  <2>1. 6 * q + i \in 1..cut /\ (6 * q + i) - 1 = 6 * q + (i - 1)
    BY <1>1, <1>7
  <2>2. f[6 * q + i] = json_callback(f[6 * q + (i - 1)], events[6 * q + i])
    BY <1>2, <1>5, <2>1
  <2>3. q + 1 \in 1..L /\ 6 * ((q + 1) - 1) + i = 6 * q + i
    BY <1>1, <1>7
  <2>4. events[6 * q + i] = ObjectEvents(objects[q + 1], n + (q + 1))[i]
    BY <1>4, <2>3
  <2> QED
    BY <2>2, <2>4
<1>8. ASSUME NEW q \in Nat, 6 * (q + 1) <= cut, Parsed(f[6 * q], objects, n, q, r)
      PROVE  Parsed(f[6 * (q + 1)], objects, n, q + 1, r)
  <2>1. q + 1 <= L /\ q + 1 \in 1..Len(objects) /\ 6 * q + 6 <= cut
    BY <1>1, <1>8 DEF L
  <2>2. ObjectRun(objects[q + 1], n + (q + 1), f[6 * q], f[6 * q + 1], f[6 * q + 2],
                  f[6 * q + 3], f[6 * q + 4], f[6 * q + 5], f[6 * q + 6])
    <3> DEFINE e(i) == ObjectEvents(objects[q + 1], n + (q + 1))[i]
    <3>1. \A i \in 1..6 : f[6 * q + i] = json_callback(f[6 * q + (i - 1)], e(i))
      <4> SUFFICES ASSUME NEW i \in 1..6
                   PROVE  f[6 * q + i] = json_callback(f[6 * q + (i - 1)], e(i))
        OBVIOUS
      <4>1. 6 * q + i <= cut
        BY <1>1, <2>1
      <4> QED
        BY <1>7, <2>1, <4>1, Zenon
    <3> HIDE DEF e
    <3>2. /\ f[6 * q + 1] = json_callback(f[6 * q], e(1))
          /\ f[6 * q + 2] = json_callback(f[6 * q + 1], e(2))
          /\ f[6 * q + 3] = json_callback(f[6 * q + 2], e(3))
          /\ f[6 * q + 4] = json_callback(f[6 * q + 3], e(4))
          /\ f[6 * q + 5] = json_callback(f[6 * q + 4], e(5))
          /\ f[6 * q + 6] = json_callback(f[6 * q + 5], e(6))
      BY <3>1
    <3> QED
      BY <3>2 DEF ObjectRun, e
  <2>3. Parsed(f[6 * q + 6], objects, n, q + 1, r)
    <3>1. ObjectParsed(objects, n, q, r, f[6 * q], f[6 * q + 1], f[6 * q + 2],
                       f[6 * q + 3], f[6 * q + 4], f[6 * q + 5], f[6 * q + 6])
      BY <1>8, <2>1, <2>2, ParsedNext
    <3> QED
      BY <3>1 DEF ObjectParsed
  <2>4. 6 * q + 6 = 6 * (q + 1)
    OBVIOUS
  <2> QED
    BY <2>3, <2>4
<1>9. ASSUME NEW q \in Nat, 6 * q <= cut
      PROVE  Parsed(f[6 * q], objects, n, q, r)
  <2> DEFINE T == {x \in Nat : 6 * x <= cut /\ ~ Parsed(f[6 * x], objects, n, x, r)}
  <2> SUFFICES ASSUME T # {}
               PROVE  FALSE
    BY <1>9
  <2>1. PICK t \in T : \A s \in T : t <= s
    <3>1. T \subseteq Nat
      OBVIOUS
    <3> HIDE DEF T
    <3> QED
      BY <3>1, SmallestNumber
  <2>2. t \in Nat /\ 6 * t <= cut /\ ~ Parsed(f[6 * t], objects, n, t, r)
    OBVIOUS
  <2>3. t # 0
    BY <1>6, <2>2
  <2>4. PICK u \in Nat : t = u + 1
    <3>1. t - 1 \in Nat /\ t = (t - 1) + 1
      BY <2>2, <2>3
    <3> QED
      BY <3>1
  <2>5. 6 * u <= cut /\ u \notin T
    BY <1>1, <2>1, <2>2, <2>4
  <2>6. Parsed(f[6 * u], objects, n, u, r)
    BY <2>5
  <2> HIDE DEF T
  <2> QED
    BY <1>8, <2>2, <2>4, <2>6
<1>10. PICK q \in Nat, i \in 0..5 : cut = 6 * q + i
  <2>1. cut \div 6 \in Nat /\ cut % 6 \in 0..5 /\ cut = 6 * (cut \div 6) + (cut % 6)
    BY <1>1
  <2> QED
    BY <2>1
<1>11. Parsed(f[6 * q], objects, n, q, r)
  BY <1>9, <1>10
<1>12. Accepted(objects, cut) = Accepted(objects, 6 * q)
  BY <1>10, AcceptedPart
<1>13. q <= L
  BY <1>1, <1>10
<1>14. k \in JsonStates(n + L, r) /\ k.added = f[6 * q].added
  <2>1. CASE i = 0
    <3>1. k = f[6 * q] /\ f[6 * q] \in JsonStates(n + q, r)
      BY <1>1, <1>5, <1>10, <1>11, <2>1 DEF Parsed
    <3>2. n + q \in Nat /\ n + L \in Nat /\ n + q <= n + L /\ r <= r
      BY <1>1, <1>13
    <3> QED
      BY <3>1, <3>2, JsonStatesGrow
  <2>2. CASE i # 0
    <3> DEFINE e(x) == ObjectEvents(objects[q + 1], n + (q + 1))[x]
               j0 == f[6 * q]
               j1 == json_callback(j0, e(1))
               j2 == json_callback(j1, e(2))
               j3 == json_callback(j2, e(3))
               j4 == json_callback(j3, e(4))
               j5 == json_callback(j4, e(5))
               j6 == json_callback(j5, e(6))
    <3>1. q + 1 <= L /\ q + 1 \in 1..Len(objects) /\ i \in 1..5
      BY <1>1, <1>10, <2>2 DEF L
    <3>2. ObjectRun(objects[q + 1], n + (q + 1), j0, j1, j2, j3, j4, j5, j6)
      BY DEF ObjectRun
    <3>3. \A x \in 1..6 :
            6 * q + x <= cut => f[6 * q + x] = json_callback(f[6 * q + (x - 1)], e(x))
      BY <1>7, <3>1
    <3>4. \A x \in 1..i : 6 * q + x <= cut
      BY <1>10
    <3> HIDE DEF e
    <3>5. /\ f[6 * q + 1] = j1
          /\ i >= 2 => f[6 * q + 2] = json_callback(f[6 * q + 1], e(2))
          /\ i >= 3 => f[6 * q + 3] = json_callback(f[6 * q + 2], e(3))
          /\ i >= 4 => f[6 * q + 4] = json_callback(f[6 * q + 3], e(4))
          /\ i >= 5 => f[6 * q + 5] = json_callback(f[6 * q + 4], e(5))
      <4>1. ASSUME NEW x \in 1..i
            PROVE  f[6 * q + x] = json_callback(f[6 * q + (x - 1)], e(x))
        <5>1. x \in 1..6
          BY <3>1
        <5> QED
          BY <3>3, <3>4, <5>1, Zenon
      <4>2. f[6 * q + 1] = json_callback(f[6 * q], e(1))
        <5>1. 1 \in 1..i /\ 6 * q + (1 - 1) = 6 * q
          BY <3>1
        <5>2. f[6 * q + 1] = json_callback(f[6 * q + (1 - 1)], e(1))
          BY <4>1, <5>1
        <5> QED
          BY <5>1, <5>2
      <4>3. i >= 2 => f[6 * q + 2] = json_callback(f[6 * q + 1], e(2))
        BY <3>1, <4>1
      <4>4. i >= 3 => f[6 * q + 3] = json_callback(f[6 * q + 2], e(3))
        BY <3>1, <4>1
      <4>5. i >= 4 => f[6 * q + 4] = json_callback(f[6 * q + 3], e(4))
        BY <3>1, <4>1
      <4>6. i >= 5 => f[6 * q + 5] = json_callback(f[6 * q + 4], e(5))
        BY <3>1, <4>1
      <4> QED
        BY <4>2, <4>3, <4>4, <4>5, <4>6
    <3>6. k \in {j1, j2, j3, j4, j5}
      <4>1. k = f[6 * q + i]
        BY <1>5, <1>10
      <4>2. CASE i = 1
        BY <3>5, <4>1, <4>2
      <4>3. CASE i = 2
        BY <3>5, <4>1, <4>3
      <4>4. CASE i = 3
        BY <3>5, <4>1, <4>4
      <4>5. CASE i = 4
        BY <3>5, <4>1, <4>5
      <4>6. CASE i = 5
        BY <3>5, <4>1, <4>6
      <4> QED
        BY <3>1, <4>2, <4>3, <4>4, <4>5, <4>6
    <3> HIDE DEF j0, j1, j2, j3, j4, j5, j6
    <3>7. \A x \in {j0, j1, j2, j3, j4, j5} :
            x \in JsonStates(n + (q + 1), r) /\ x.added = j0.added
      <4>1. Parsed(j0, objects, n, q, r)
        BY <1>11 DEF j0
      <4>2. ObjectParsed(objects, n, q, r, j0, j1, j2, j3, j4, j5, j6)
        BY <3>1, <3>2, <4>1, ParsedNext
      <4> QED
        BY <4>2 DEF ObjectParsed
    <3>8. n + (q + 1) \in Nat /\ n + L \in Nat /\ n + (q + 1) <= n + L /\ r <= r
      BY <1>1, <3>1
    <3>9. k \in JsonStates(n + (q + 1), r) /\ k.added = j0.added
      BY <3>6, <3>7
    <3>10. k \in JsonStates(n + L, r)
      BY <3>8, <3>9, JsonStatesGrow
    <3> QED
      BY <3>9, <3>10 DEF j0
  <2> QED
    BY <2>1, <2>2
<1>15. Faithful(k.added, objects, n, cut, r)
  <2>1. Faithful(f[6 * q].added, objects, n, 6 * q, r)
    BY <1>11 DEF Parsed
  <2> QED
    BY <1>12, <1>14, <2>1 DEF Faithful
<1> QED
  BY <1>14, <1>15 DEF L

-----------------------------------------------------------------------------
(* The types, and the trades.                                              *)

\* What the actions other than the receiving ones touch.
ThreadType ==
  /\ pc \in {"connect", "service", "loop", "destroy", "returned"}
  /\ link \in {"down", "opening", "open"}
  /\ connection_closed \in BOOLEAN /\ rest \in BOOLEAN /\ exit_flag \in 0..1

\* The contexts stay within their bound.
ContextBound == ContextInv /\ contexts <= MaxContexts

\* The types of the history of the messages.
Messages(n) ==
  [objects : Seq(Objects), before : 0..n, cut : Nat, arrived : Nat,
   first : 0..MaxReceives, receives : 0..MaxReceives]

\* The objects, the message and the work item.  The trades added are those of
\* the first fragment of the message: this much is inductive.
JsonInv ==
  /\ sent \in 0..MaxObjects
  /\ last \in Messages(sent)
  /\ last.cut <= last.arrived /\ last.cut <= AllEvents(last.objects)
  /\ json \in JsonStates(sent, last.receives)
  /\ Faithful(json.added, last.objects, last.before, last.cut, last.first)

\* The flags and the places of the thread keep their types.
LEMMA ThreadTypeStep == ThreadType /\ [Next]_vars => ThreadType'
<1> SUFFICES ASSUME ThreadType, [Next]_vars
             PROVE  ThreadType'
  OBVIOUS
<1> USE DEF ThreadType, Goto
<1>1. CASE setup_failed
  BY <1>1 DEF setup_failed, jsonvars
<1>2. CASE setup_done
  BY <1>2 DEF setup_done, jsonvars
<1>3. CASE client_established
  BY <1>3 DEF client_established, jsonvars
<1>4. CASE client_connection_error
  BY <1>4 DEF client_connection_error, jsonvars
<1>5. CASE client_receive
  <2>1. pc' = "loop" /\ UNCHANGED <<link, connection_closed, exit_flag>>
    BY <1>5 DEF client_receive
  <2>2. rest' \in BOOLEAN
    <3>1. PICK objects \in SeqOf(Objects, MaxBatch) :
            \E cut \in 0..Len(MessageEvents(objects, sent)) :
              rest' \in {FALSE, cut < Len(MessageEvents(objects, sent))}
      BY <1>5 DEF client_receive
    <3>2. objects \in Seq(Objects)
      BY ConnectionAssumption DEF SeqOf
    <3>3. PICK L \in Nat : L = Len(MessageEvents(objects, sent))
      BY <3>2 DEF MessageEvents, AllEvents, EventsPerObject
    <3>4. PICK cut \in 0..L : rest' = FALSE \/ rest' = (cut < L)
      BY <3>1, <3>3
    <3>5. CASE cut < L
      <4>1. rest' = FALSE \/ rest' = TRUE
        BY <3>4, <3>5
      <4> QED
        BY <4>1, Zenon
    <3>6. CASE ~ (cut < L)
      <4>1. (cut < L) = FALSE
        BY <3>6
      <4>2. rest' = FALSE
        BY <3>4, <4>1, Zenon
      <4> QED
        BY <4>2, Zenon
    <3> QED
      BY <3>5, <3>6
  <2> QED
    BY <2>1, <2>2
<1>6. CASE client_receive_rest
  BY <1>6 DEF client_receive_rest
<1>7. CASE client_closed
  BY <1>7 DEF client_closed
<1>8. CASE service_idle
  BY <1>8 DEF service_idle, jsonvars
<1>9. CASE loop_test
  BY <1>9 DEF loop_test, jsonvars
<1>10. CASE destroy
  <2>1. connection_closed' \in BOOLEAN
    BY <1>10, Zenon DEF destroy
  <2>2. pc' = "connect" /\ link' = "down" /\ rest' = FALSE /\ exit_flag' = exit_flag
    BY <1>10 DEF destroy
  <2> QED
    BY <2>1, <2>2
<1>11. CASE wss_return
  BY <1>11 DEF wss_return, jsonvars
<1>12. CASE order_exit
  BY <1>12 DEF order_exit, jsonvars
<1>13. CASE UNCHANGED vars
  BY <1>13 DEF vars, jsonvars
<1> QED
  BY <1>1, <1>2, <1>3, <1>4, <1>5, <1>6, <1>7, <1>8, <1>9, <1>10, <1>11, <1>12, <1>13
     DEF Next, WSSClient

\* A context is only created below the bound.
LEMMA ContextBoundStep == ContextBound /\ [Next]_vars => ContextBound'
<1> SUFFICES ASSUME ContextBound, [Next]_vars
             PROVE  contexts' <= MaxContexts
  BY ContextStep DEF ContextBound
<1>0. contexts \in Int /\ contexts <= MaxContexts /\ MaxContexts \in Nat
  BY ConnectionAssumption DEF ContextBound, ContextInv
<1>1. CASE setup_failed
  BY <1>0, <1>1 DEF setup_failed
<1>2. CASE setup_done
  BY <1>0, <1>2 DEF setup_done
<1>3. CASE destroy
  BY <1>0, <1>3 DEF destroy
<1>4. CASE UNCHANGED contexts
  BY <1>0, <1>4
<1> QED
  BY <1>1, <1>2, <1>3, <1>4
     DEF Next, WSSClient, client_established, client_connection_error, client_receive,
         client_receive_rest, client_closed, service_idle, loop_test, wss_return,
         order_exit, vars, sessionvars

\* A fragment leaves the work item and the added trades as they should be.
LEMMA FragmentStep ==
  ASSUME JsonInv, NEW objects \in Seq(Objects), NEW n \in Nat, n = sent,
         NEW R \in Nat, R = last.receives + 1,
         NEW cut \in 0..(6 * Len(objects)), NEW j, j = [json EXCEPT !.added = <<>>],
         NEW k, k = lejp_parse(j, R, SubSeq(MessageEvents(objects, n), 1, cut))
  PROVE  /\ k \in JsonStates(n + Len(objects), R)
         /\ Faithful(k.added, objects, n, cut, R)
<1>1. objects \in Seq(Forms)
  <2>1. Objects \subseteq Forms
    BY ConnectionAssumption
  <2> HIDE DEF Forms
  <2> QED
    BY <2>1
<1>2. last.receives \in Nat
  BY ConnectionAssumption DEF JsonInv, Messages
<1>3. PICK r \in Nat : r = last.receives
  BY <1>2
<1>4. json \in JsonStates(n, r)
  BY <1>3 DEF JsonInv
<1>5. r <= R /\ n <= n
  BY <1>3
<1>6. json \in JsonStates(n, R)
  BY <1>3, <1>4, <1>5, JsonStatesGrow
<1>7. j \in JsonStates(n, R) /\ j.added = <<>>
  <2>1. <<>> \in Seq(WorkItems(n, R))
    OBVIOUS
  <2> QED
    BY <1>6, <2>1 DEF JsonStates
<1> QED
  BY <1>1, <1>7, ParseFaithful

\* Every step keeps the types and the trades: only the receiving callbacks touch
\* them, and each starts from a work item the invariant describes.
LEMMA JsonStep == JsonInv /\ [Next]_vars => JsonInv'
<1> SUFFICES ASSUME JsonInv, [Next]_vars
             PROVE  JsonInv'
  OBVIOUS
<1>0. sent \in 0..MaxObjects /\ MaxObjects \in Nat /\ MaxReceives \in Nat
  BY ConnectionAssumption DEF JsonInv
<1>1. CASE client_receive
  <2>1. PICK objects \in SeqOf(Objects, MaxBatch) :
          /\ sent + Len(objects) <= MaxObjects
          /\ sent' = sent + Len(objects)
          /\ \E cut \in 0..Len(MessageEvents(objects, sent)) :
               /\ last' = [objects |-> objects, before |-> sent,
                           cut |-> cut, arrived |-> cut,
                           first |-> last.receives + 1, receives |-> last.receives + 1]
               /\ json' = lejp_parse([json EXCEPT !.added = <<>>], last.receives + 1,
                                     SubSeq(MessageEvents(objects, sent), 1, cut))
    BY <1>1, Zenon DEF client_receive
  <2>2. PICK cut \in 0..Len(MessageEvents(objects, sent)) :
          /\ last' = [objects |-> objects, before |-> sent,
                      cut |-> cut, arrived |-> cut,
                      first |-> last.receives + 1, receives |-> last.receives + 1]
          /\ json' = lejp_parse([json EXCEPT !.added = <<>>], last.receives + 1,
                                SubSeq(MessageEvents(objects, sent), 1, cut))
    BY <2>1
  <2>3. PICK n \in Nat : n = sent
    BY <1>0
  <2>4. last.receives \in 0..MaxReceives /\ last.receives < MaxReceives
    BY <1>1 DEF JsonInv, Messages, client_receive
  <2>5. PICK R \in 0..MaxReceives : R = last.receives + 1
    BY <1>0, <2>4
  <2>6. PICK j : j = [json EXCEPT !.added = <<>>]
    OBVIOUS
  <2>7. objects \in Seq(Objects)
    BY ConnectionAssumption DEF SeqOf
  <2>8. cut \in 0..(6 * Len(objects))
    <3>1. Len(MessageEvents(objects, n)) = 6 * Len(objects)
      BY <2>7 DEF MessageEvents, AllEvents, EventsPerObject
    <3> QED
      BY <2>3, <3>1
  <2>9. PICK k : k = lejp_parse(j, R, SubSeq(MessageEvents(objects, n), 1, cut))
    OBVIOUS
  <2>10. json' = k
    BY <2>2, <2>3, <2>5, <2>6, <2>9
  <2>11. /\ k \in JsonStates(n + Len(objects), R)
         /\ Faithful(k.added, objects, n, cut, R)
    <3>1. R \in Nat
      BY <1>0
    <3> QED
      BY <2>3, <2>5, <2>6, <2>7, <2>8, <2>9, <3>1, FragmentStep
  <2>12. last' = [objects |-> objects, before |-> n, cut |-> cut, arrived |-> cut,
                  first |-> R, receives |-> R]
    BY <2>2, <2>3, <2>5
  <2>13. sent' \in 0..MaxObjects /\ sent' = n + Len(objects) /\ n \in 0..sent'
    BY <1>0, <2>1, <2>3, <2>7
  <2>14. cut \in Nat /\ cut <= AllEvents(objects)
    BY <2>7, <2>8 DEF AllEvents, EventsPerObject
  <2>15. /\ last'.objects = objects /\ last'.before = n
         /\ last'.cut = cut /\ last'.arrived = cut
         /\ last'.first = R /\ last'.receives = R
    BY <2>12
  <2>16. last' \in Messages(sent')
    BY <2>5, <2>7, <2>12, <2>13, <2>14 DEF Messages
  <2>17. last'.cut <= last'.arrived /\ last'.cut <= AllEvents(last'.objects)
    BY <2>14, <2>15
  <2>18. json' \in JsonStates(sent', last'.receives)
    BY <2>10, <2>11, <2>13, <2>15
  <2>19. Faithful(json'.added, last'.objects, last'.before, last'.cut, last'.first)
    BY <2>10, <2>11, <2>15
  <2> QED
    BY <2>13, <2>16, <2>17, <2>18, <2>19 DEF JsonInv
<1>2. CASE client_receive_rest
  <2>1. /\ last' = [last EXCEPT !.receives = @ + 1,
                                !.arrived = IF rest' THEN @ ELSE AllEvents(last.objects)]
        /\ json' = lejp_parse(json, last.receives + 1, <<>>)
        /\ sent' = sent
        /\ last.receives < MaxReceives
    BY <1>2 DEF client_receive_rest
  <2>2. PICK n \in Nat : n = sent
    BY <1>0
  <2>3. /\ last \in Messages(sent)
        /\ last.cut <= last.arrived /\ last.cut <= AllEvents(last.objects)
    BY DEF JsonInv
  <2>4. PICK r \in 0..MaxReceives : r = last.receives
    BY <2>3 DEF Messages
  <2>5. PICK R \in 0..MaxReceives : R = r + 1
    BY <1>0, <2>1, <2>4
  <2>6. AllEvents(last.objects) \in Nat
    <3>1. Len(last.objects) \in Nat
      BY <2>3 DEF Messages
    <3> QED
      BY <3>1 DEF AllEvents, EventsPerObject
  <2>7. PICK arrived \in Nat : arrived = IF rest' THEN last.arrived ELSE AllEvents(last.objects)
    BY <2>3, <2>6 DEF Messages
  <2>8. /\ last'.objects = last.objects /\ last'.before = last.before
        /\ last'.cut = last.cut /\ last'.first = last.first
        /\ last'.arrived = arrived /\ last'.receives = R
    BY <2>1, <2>3, <2>4, <2>5, <2>7 DEF Messages
  <2>9. last' \in Messages(sent')
    <3>1. last' = [last EXCEPT !.receives = R, !.arrived = arrived]
      BY <2>1, <2>3, <2>4, <2>5, <2>7 DEF Messages
    <3> QED
      BY <2>1, <2>3, <3>1 DEF Messages
  <2>10. last'.cut <= last'.arrived /\ last'.cut <= AllEvents(last'.objects)
    BY <2>3, <2>7, <2>8
  <2>11. PICK j : j = json
    OBVIOUS
  <2>12. PICK k : k = lejp_parse(j, R, <<>>)
    OBVIOUS
  <2>13. j \in JsonStates(n, R)
    <3>1. r \in Nat /\ R \in Nat /\ r <= R /\ n <= n
      BY <1>0, <2>5
    <3>2. j \in JsonStates(n, r)
      BY <2>2, <2>4, <2>11 DEF JsonInv
    <3> QED
      BY <3>1, <3>2, JsonStatesGrow
  <2>14. k = json_callback(j, START(R))
    <3>1. <<>> \in Seq({}) /\ Len(<<>>) = 0
      OBVIOUS
    <3>2. PICK f : IsRun(f, j, R, <<>>)
      BY <3>1, ParserStates
    <3> QED
      BY <2>12, <3>1, <3>2 DEF IsRun
  <2>15. k \in JsonStates(n, R) /\ k.added = j.added
    <3>1. R \in Nat
      BY <1>0
    <3> QED
      BY <2>13, <2>14, <3>1, StartCallback
  <2>16. json' = k
    BY <2>1, <2>4, <2>5, <2>11, <2>12
  <2>17. json' \in JsonStates(sent', last'.receives)
    BY <2>1, <2>2, <2>8, <2>15, <2>16
  <2>18. Faithful(json'.added, last'.objects, last'.before, last'.cut, last'.first)
    <3>1. Faithful(json.added, last.objects, last.before, last.cut, last.first)
      BY DEF JsonInv
    <3> QED
      BY <2>8, <2>11, <2>15, <2>16, <3>1
  <2>19. sent' \in 0..MaxObjects
    BY <1>0, <2>1
  <2> QED
    BY <2>9, <2>10, <2>17, <2>18, <2>19 DEF JsonInv
<1>3. CASE UNCHANGED <<json, sent, last>>
  BY <1>3 DEF JsonInv, Messages
<1> QED
  BY <1>1, <1>2, <1>3
     DEF Next, WSSClient, setup_failed, setup_done, client_established,
         client_connection_error, client_closed, service_idle, loop_test, destroy,
         wss_return, order_exit, vars, jsonvars

\* Before anything is received there is nothing to be faithful to.
LEMMA JsonInit == Init => JsonInv
<1> SUFFICES ASSUME Init
             PROVE  JsonInv
  OBVIOUS
<1>1. /\ sent = 0 /\ json = InitialJson
      /\ last = [objects |-> <<>>, before |-> 0, cut |-> 0, arrived |-> 0,
                 first |-> 0, receives |-> 0]
  BY DEF Init
<1>2. json \in JsonStates(0, 0) /\ json.added = <<>>
  BY <1>1 DEF InitialJson, JsonStates, WorkItems
<1>3. Accepted(<<>>, 0) = {}
  BY DEF Accepted
<1>4. Faithful(json.added, last.objects, last.before, last.cut, last.first)
  <2>1. Faithful(<<>>, <<>>, 0, 0, 0)
    BY <1>3, FS_EmptySet DEF Faithful
  <2> QED
    BY <1>1, <1>2, <2>1
<1>5. <<>> \in Seq(Objects)
  OBVIOUS
<1>6. last.cut <= last.arrived /\ last.cut <= AllEvents(last.objects)
  BY <1>1 DEF AllEvents, EventsPerObject
<1> QED
  BY <1>1, <1>2, <1>4, <1>5, <1>6, ConnectionAssumption DEF JsonInv, Messages

\* The trades json_callback adds for a message are its sound objects in order,
\* up to the end of its first fragment or beyond: for messages of any length
\* and forms, cut anywhere, whatever the work item held before.
THEOREM TradesCorrect == Spec => []TradesFaithful
<1>1. JsonInv => TradesFaithful
  <2> SUFFICES ASSUME JsonInv
               PROVE  TradesFaithful
    OBVIOUS
  <2>1. last.cut \in last.cut..last.arrived
    BY DEF JsonInv, Messages
  <2>2. Faithful(json.added, last.objects, last.before, last.cut, last.first)
    BY DEF JsonInv
  <2> QED
    BY <2>1, <2>2, Zenon DEF TradesFaithful
<1> QED
  BY <1>1, JsonInit, JsonStep, PTL DEF Spec

\* The variables keep their types: the work item never holds the number of an
\* object that was not sent, and the contexts stay within their bound.
THEOREM TypeCorrect == Spec => []TypeOK
<1>1. Init => ThreadType
  <2> SUFFICES ASSUME Init
               PROVE  ThreadType
    OBVIOUS
  <2>1. connection_closed \in BOOLEAN /\ rest \in BOOLEAN
    BY Zenon DEF Init
  <2>2. pc = "connect" /\ link = "down" /\ exit_flag = 0
    BY DEF Init
  <2> QED
    BY <2>1, <2>2 DEF ThreadType
<1>2. Init => ContextBound
  BY ConnectionAssumption DEF Init, ContextBound, ContextInv, ContextsBounded, Connected
<1>3. ThreadType /\ ContextBound /\ JsonInv => TypeOK
  <2> SUFFICES ASSUME ThreadType, ContextBound, JsonInv
               PROVE  TypeOK
    OBVIOUS
  <2>1. contexts \in 0..MaxContexts /\ failures \in Nat
    BY ConnectionAssumption DEF ContextBound, ContextInv
  <2>2. {connection_closed, rest} \subseteq BOOLEAN
    BY Zenon DEF ThreadType
  <2> QED
    BY <2>1, <2>2 DEF TypeOK, ThreadType, JsonInv, Messages
<1> QED
  BY <1>1, <1>2, <1>3, ThreadTypeStep, ContextBoundStep, JsonInit, JsonStep, PTL DEF Spec
=============================================================================
