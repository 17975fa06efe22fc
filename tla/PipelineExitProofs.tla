------------------------- MODULE PipelineExitProofs -------------------------
(***************************************************************************)
(* Two bounds on what the Writers do to the items between the queues: how  *)
(* many an item overtakes, and how many are lost when the program exits.   *)
(***************************************************************************)
EXTENDS PipelineFlowProofs

-----------------------------------------------------------------------------
(* Counting.                                                               *)

\* With one item at most for each of finitely many holders there are no more
\* items than holders.
LEMMA OneEach ==
  ASSUME NEW W, IsFiniteSet(W), NEW S, NEW H,
         \A i \in S : \E w \in W : i \in H[w],
         \A w \in W : \A i, j \in H[w] : i = j
  PROVE  /\ IsFiniteSet(S) /\ Cardinality(S) \in Nat
         /\ Cardinality(W) \in Nat /\ Cardinality(S) <= Cardinality(W)
<1> DEFINE f == [i \in S |-> CHOOSE w \in W : i \in H[w]]
<1>1. ASSUME NEW i \in S PROVE f[i] \in W /\ i \in H[f[i]]
  OBVIOUS
<1>2. f \in [S -> W]
  BY <1>1
<1>3. ASSUME NEW i \in S, NEW j \in S, f[i] = f[j] PROVE i = j
  BY <1>1, <1>3
<1>4. f \in Injection(S, W)
  BY <1>2, <1>3 DEF Injection, IsInjective
<1> HIDE DEF f
<1>5. IsFiniteSet(S) /\ Cardinality(S) <= Cardinality(W)
  BY <1>4, FS_Injection
<1> QED
  BY <1>5, FS_CardinalityType

\* What entered api_queue is finitely many.
LEMMA RangeFinite ==
  ASSUME NEW S, NEW s \in Seq(S)
  PROVE  IsFiniteSet(Range(s))
<1>0. DOMAIN s = 1..Len(s) /\ Len(s) \in Nat /\ s = [k \in DOMAIN s |-> s[k]]
  OBVIOUS
<1>1. /\ s \in [DOMAIN s -> Range(s)]
      /\ \A x \in Range(s) : \E k \in DOMAIN s : s[k] = x
  <2> DEFINE R == Range(s)
  <2>1. /\ \A k \in DOMAIN s : s[k] \in R
        /\ \A x \in R : \E k \in DOMAIN s : s[k] = x
    BY DEF Range
  <2> HIDE DEF R
  <2>2. s \in [DOMAIN s -> R]
    BY <1>0, <2>1, Zenon
  <2> QED
    BY <2>1, <2>2, Zenon DEF R
<1>2. s \in Surjection(1..Len(s), Range(s))
  <2>1. s \in Surjection(DOMAIN s, Range(s))
    BY <1>1, Zenon DEF Surjection
  <2> QED
    BY <1>0, <2>1, Zenon
<1>3. IsFiniteSet(1..Len(s))
  <2>1. 1 \in Int /\ Len(s) \in Int
    OBVIOUS
  <2> QED
    BY <2>1, FS_Interval
<1> QED
  BY <1>2, <1>3, FS_Surjection

-----------------------------------------------------------------------------
(* How many items an item overtakes.                                       *)

\* i entered api_queue before j.
Earlier(i, j) ==
  \E a, b \in 1..Len(entered) : a < b /\ entered[a] = i /\ entered[b] = j

\* What is behind the k-th item that went through calculation_queue.
Behind(k) ==
  {Forwarded[l] : l \in (k + 1)..Len(Forwarded)}
  \cup Range(Api!Contents) \cup (UNION {Hand(w) : w \in Writers})

\* The items it has overtaken.
Overtaken(k) == {i \in Behind(k) : Earlier(i, Forwarded[k])}

\* api_queue holds the last items that entered, in their order.
SuffixInv ==
  /\ Len(Api!Contents) <= Len(entered)
  /\ \A j \in 1..Len(Api!Contents) :
       Api!Contents[j] = entered[(Len(entered) - Len(Api!Contents)) + j]

OvertakeInv ==
  \A k \in 1..Len(Forwarded) :
    IsFiniteSet(Overtaken(k)) /\ Cardinality(Overtaken(k)) <= Cardinality(Writers) - 1

\* Items enter api_queue and leave it in the same order.
LEMMA SuffixStep ==
  ASSUME FlowInv, FlowInv', SuffixInv, [Next]_vars
  PROVE  SuffixInv'
<1>0. /\ UsersInv /\ UsersInv' /\ AddInv
      /\ entered \in Seq(WorkItem) /\ Api!Contents \in Seq(WorkItem)
  BY ContentsSeq DEF FlowInv, UsersInv, EnteredOK
<1>1. CASE Api!Contents' = Api!Contents /\ entered' = entered
  BY <1>1 DEF SuffixInv
<1>2. ASSUME NEW x \in WorkItem, Enter(x) PROVE SuffixInv'
  <2> DEFINE q == Api!Contents
  <2>1. Api!Contents' = Append(q, x) /\ entered' = Append(entered, x)
    BY <1>2 DEF Enter
  <2>2. q \in Seq(WorkItem)
    BY <1>0
  <2>3. Len(q) <= Len(entered)
        /\ \A j \in 1..Len(q) : q[j] = entered[(Len(entered) - Len(q)) + j]
    BY DEF SuffixInv
  <2> HIDE DEF q
  <2>4. Len(Append(q, x)) <= Len(Append(entered, x))
    BY <1>0, <2>2, <2>3
  <2>5. ASSUME NEW j \in 1..Len(Append(q, x))
        PROVE  Append(q, x)[j] =
                 Append(entered, x)[(Len(Append(entered, x)) - Len(Append(q, x))) + j]
    <3> DEFINE n == Len(entered)
    <3>1. /\ n \in Nat /\ Len(q) \in Nat /\ Len(q) <= n
          /\ Len(Append(q, x)) = Len(q) + 1 /\ Len(Append(entered, x)) = n + 1
          /\ Append(q, x)[Len(q) + 1] = x /\ Append(entered, x)[n + 1] = x
          /\ \A k \in 1..Len(q) : Append(q, x)[k] = q[k]
          /\ \A k \in 1..n : Append(entered, x)[k] = entered[k]
      BY <1>0, <2>2, <2>3
    <3>2. CASE j = Len(q) + 1
      <4>1. ((n + 1) - (Len(q) + 1)) + j = n + 1
        BY <3>1, <3>2
      <4> QED
        BY <3>1, <3>2, <4>1, Zenon
    <3>3. CASE j # Len(q) + 1
      <4>1. /\ j \in 1..Len(q) /\ ((n + 1) - (Len(q) + 1)) + j = (n - Len(q)) + j
            /\ (n - Len(q)) + j \in 1..n
        BY <3>1, <3>3
      <4> QED
        BY <2>3, <3>1, <4>1, Zenon
    <3> QED
      BY <3>2, <3>3
  <2> QED
    BY <2>1, <2>4, <2>5, Zenon DEF SuffixInv
<1>3. ASSUME NEW w \in Writers, Take(w) PROVE SuffixInv'
  <2> DEFINE q == Api!Contents
  <2>1. q # <<>> /\ Api!Contents' = Tail(q) /\ entered' = entered
    BY <1>3 DEF Take
  <2>2. q \in Seq(WorkItem)
    BY <1>0
  <2>3. Len(q) <= Len(entered)
        /\ \A j \in 1..Len(q) : q[j] = entered[(Len(entered) - Len(q)) + j]
    BY DEF SuffixInv
  <2> HIDE DEF q
  <2>4. Len(Tail(q)) <= Len(entered)
    BY <1>0, <2>1, <2>2, <2>3
  <2>5. ASSUME NEW j \in 1..Len(Tail(q))
        PROVE  Tail(q)[j] = entered[(Len(entered) - Len(Tail(q))) + j]
    <3>1. j + 1 \in 1..Len(q) /\ Tail(q)[j] = q[j + 1] /\ Len(Tail(q)) = Len(q) - 1
      BY <2>1, <2>2
    <3>2. q[j + 1] = entered[(Len(entered) - Len(q)) + (j + 1)]
      BY <2>3, <3>1
    <3>3. (Len(entered) - Len(q)) + (j + 1) = (Len(entered) - (Len(q) - 1)) + j
      BY <1>0, <2>2
    <3> QED
      BY <3>1, <3>2, <3>3
  <2> QED
    BY <2>1, <2>4, <2>5, Zenon DEF SuffixInv
<1>4. ASSUME NEW w \in Writers, Drop(w) \/ \E x \in WorkItem : LogAndAdd(w, x) \/ Pass(w, x)
      PROVE  Api!Contents' = Api!Contents /\ entered' = entered
  BY <1>4 DEF Drop, LogAndAdd, Pass
<1>5. ASSUME Stay PROVE Api!Contents' = Api!Contents /\ entered' = entered
  BY <1>5 DEF Stay
<1> QED
  BY <1>0, <1>1, <1>2, <1>3, <1>4, <1>5, FlowStep

\* What is in hand or went through calculation_queue entered before all that is
\* still in api_queue.
LEMMA QueueLast ==
  ASSUME FlowInv, SuffixInv, NEW i \in Range(Api!Contents), NEW j, Earlier(i, j)
  PROVE  j \in Range(Api!Contents)
<1>0. /\ DupInv /\ entered \in Seq(WorkItem) /\ Api!Contents \in Seq(WorkItem)
  BY ContentsSeq DEF FlowInv, UsersInv, EnteredOK
<1>1. PICK a \in 1..Len(entered), b \in 1..Len(entered) :
        a < b /\ entered[a] = i /\ entered[b] = j
  BY DEF Earlier
<1> DEFINE q == Api!Contents
           d == Len(entered) - Len(q)
<1>2. /\ q \in Seq(WorkItem) /\ i \in Range(q) /\ Len(q) <= Len(entered)
      /\ \A k \in 1..Len(q) : q[k] = entered[d + k]
  BY <1>0 DEF SuffixInv
<1> HIDE DEF q
<1>3. PICK k \in 1..Len(q) : q[k] = i
  BY <1>2 DEF Range
<1>4. d \in Nat /\ d + k \in 1..Len(entered) /\ entered[d + k] = i
  BY <1>0, <1>2, <1>3
<1>5. a = d + k
  <2>1. DOMAIN entered = 1..Len(entered)
    BY <1>0
  <2> QED
    BY <1>0, <1>1, <1>4, <2>1, Zenon DEF DupInv, IsInjective
<1>6. b - d \in 1..Len(q) /\ d + (b - d) = b
  BY <1>0, <1>1, <1>2, <1>4, <1>5
<1>7. q[b - d] = j
  BY <1>1, <1>2, <1>6
<1>8. j \in Range(q)
  BY <1>2, <1>6, <1>7 DEF Range
<1> QED
  BY <1>8 DEF q

\* What enters has no effect on who was earlier.
LEMMA EarlierStep ==
  ASSUME entered \in Seq(WorkItem), NEW x \in WorkItem, x \notin Range(entered),
         entered' = Append(entered, x), NEW i, NEW j \in Range(entered), Earlier(i, j)'
  PROVE  Earlier(i, j)
<1>1. PICK a \in 1..Len(entered'), b \in 1..Len(entered') :
        a < b /\ entered'[a] = i /\ entered'[b] = j
  BY DEF Earlier
<1>2. /\ Len(entered') = Len(entered) + 1 /\ Len(entered) \in Nat
      /\ entered'[Len(entered) + 1] = x
      /\ \A k \in 1..Len(entered) : entered'[k] = entered[k]
  OBVIOUS
<1>3. b # Len(entered) + 1
  BY <1>1, <1>2
<1>4. a \in 1..Len(entered) /\ b \in 1..Len(entered)
  BY <1>1, <1>2, <1>3
<1> QED
  BY <1>1, <1>2, <1>4, Zenon DEF Earlier

\* In every state finitely many items are overtaken.
LEMMA OvertakenFinite ==
  ASSUME FlowInv, NEW k \in 1..Len(Forwarded)
  PROVE  /\ IsFiniteSet(Overtaken(k))
         /\ Forwarded[k] \in Range(Forwarded) /\ Forwarded[k] \in Range(entered)
<1>0. /\ DupInv /\ entered \in Seq(WorkItem) /\ Forwarded \in Seq(WorkItem)
  BY ForwardedSeq DEF FlowInv, UsersInv, EnteredOK
<1>1. Forwarded[k] \in Range(Forwarded)
  BY <1>0 DEF Range
<1>2. Overtaken(k) \subseteq Range(entered)
  BY <1>0 DEF Overtaken, Earlier, Range
<1> QED
  BY <1>0, <1>1, <1>2, RangeFinite, FS_Subset DEF DupInv

\* What is behind an item, element by element.
LEMMA BehindIs ==
  /\ \A k, i : i \in Behind(k) <=>
       \/ \E l \in (k + 1)..Len(Forwarded) : i = Forwarded[l]
       \/ \E w \in Writers : i \in Hand(w)
       \/ i \in Range(Api!Contents)
  /\ \A k, i : i \in Behind(k)' <=>
       \/ \E l \in (k + 1)..Len(Forwarded') : i = Forwarded'[l]
       \/ \E w \in Writers : i \in Hand(w)'
       \/ i \in Range(Api!Contents')
<1>1. ASSUME NEW k, NEW i
      PROVE  i \in Behind(k) <=>
               \/ \E l \in (k + 1)..Len(Forwarded) : i = Forwarded[l]
               \/ \E w \in Writers : i \in Hand(w)
               \/ i \in Range(Api!Contents)
  BY DEF Behind
<1>2. ASSUME NEW k, NEW i
      PROVE  i \in Behind(k)' <=>
               \/ \E l \in (k + 1)..Len(Forwarded') : i = Forwarded'[l]
               \/ \E w \in Writers : i \in Hand(w)'
               \/ i \in Range(Api!Contents')
  BY DEF Behind
<1> QED
  BY <1>1, <1>2, Zenon

\* A set that does not grow keeps its bound.
LEMMA OvertakenShrinks ==
  ASSUME OvertakeInv, NEW k \in 1..Len(Forwarded), Overtaken(k)' \subseteq Overtaken(k)
  PROVE  /\ IsFiniteSet(Overtaken(k)')
         /\ Cardinality(Overtaken(k)') <= Cardinality(Writers) - 1
<1>1. IsFiniteSet(Overtaken(k)) /\ Cardinality(Overtaken(k)) <= Cardinality(Writers) - 1
  BY DEF OvertakeInv
<1>2. Cardinality(Writers) \in Nat
  BY PipelineAssumption, FS_CardinalityType
<1> DEFINE S == Overtaken(k)
           T == Overtaken(k)'
<1>3. IsFiniteSet(S) /\ T \subseteq S
  BY <1>1
<1>4. Cardinality(S) <= Cardinality(Writers) - 1
  BY <1>1
<1> HIDE DEF S, T
<1>5. IsFiniteSet(T) /\ Cardinality(T) <= Cardinality(S)
  BY <1>3, FS_Subset
<1>6. Cardinality(S) \in Nat /\ Cardinality(T) \in Nat
  BY <1>3, <1>5, FS_CardinalityType
<1>7. Cardinality(T) <= Cardinality(Writers) - 1
  BY <1>2, <1>4, <1>5, <1>6
<1> QED
  BY <1>5, <1>7 DEF T

\* An item passes when its Writer adds it, and passes at most what the other
\* Writers have in hand then; nothing gets ahead of it later.
LEMMA OvertakeStep ==
  ASSUME FlowInv, FlowInv', SuffixInv, OvertakeInv, [Next]_vars
  PROVE  OvertakeInv'
<1>0. /\ UsersInv /\ UsersInv' /\ AddInv /\ DupInv /\ LockInv /\ PendingInv /\ IdInv
      /\ DirectiveInv
      /\ entered \in Seq(WorkItem) /\ Api!Contents \in Seq(WorkItem)
      /\ Forwarded \in Seq(WorkItem)
  BY ContentsSeq, ForwardedSeq DEF FlowInv, UsersInv, EnteredOK
<1>1. ASSUME Forwarded' = Forwarded,
             \A k \in 1..Len(Forwarded) : Overtaken(k)' \subseteq Overtaken(k)
      PROVE  OvertakeInv'
  BY <1>1, OvertakenShrinks DEF OvertakeInv
<1>2. ASSUME NEW x \in WorkItem, Enter(x), NEW k \in 1..Len(Forwarded)
      PROVE  Overtaken(k)' \subseteq Overtaken(k)
  <2>1. x \notin Range(entered)
    BY <1>0, <1>2, Fresh
  <2>2. entered' = Append(entered, x) /\ Forwarded' = Forwarded
    BY <1>2 DEF Enter
  <2>3. Behind(k)' = Behind(k) \cup {x}
    <3>1. Range(Api!Contents') = Range(Api!Contents) \cup {x}
      BY <1>0, <1>2, AppendRange DEF Enter
    <3>2. \A w \in Writers : Hand(w)' = Hand(w)
      BY <1>2, HandsFrame DEF Enter
    <3>3. \A i : i \in Behind(k)' <=> i \in Behind(k) \cup {x}
      BY <2>2, <3>1, <3>2, BehindIs
    <3> QED
      BY <3>3, Zenon
  <2>4. Forwarded[k] \in Range(entered)
    BY OvertakenFinite
  <2>5. ASSUME NEW i \in Overtaken(k)' PROVE i \in Overtaken(k)
    <3>1. Earlier(i, Forwarded[k])' /\ i \in Behind(k) \cup {x}
      BY <2>2, <2>3, <2>5 DEF Overtaken
    <3>2. Earlier(i, Forwarded[k])
      <4>1. PICK j \in Range(entered) : j = Forwarded[k]
        BY <2>4
      <4>2. Earlier(i, j)'
        BY <2>2, <3>1, <4>1 DEF Earlier
      <4>3. Earlier(i, j)
        BY <1>0, <2>1, <2>2, <4>2, EarlierStep
      <4> QED
        BY <4>1, <4>3
    <3>3. i # x
      BY <1>0, <2>1, <3>2 DEF Earlier, Range
    <3> QED
      BY <3>1, <3>2, <3>3 DEF Overtaken
  <2> QED
    BY <2>5
<1>3. ASSUME entered' = entered, NEW k \in 1..Len(Forwarded), Forwarded'[k] = Forwarded[k],
             Behind(k)' \subseteq Behind(k)
      PROVE  Overtaken(k)' \subseteq Overtaken(k)
  BY <1>3 DEF Overtaken, Earlier
<1>4. ASSUME NEW w \in Writers, Take(w), NEW k \in 1..Len(Forwarded)
      PROVE  Behind(k)' \subseteq Behind(k)
  <2> DEFINE x == Head(Api!Contents)
  <2>1. Range(Api!Contents) = Range(Api!Contents') \cup {x}
    BY <1>0, <1>4, TailRange DEF Take
  <2>2. /\ Hand(w)' = Hand(w) \cup {x} /\ \A v \in Writers \ {w} : Hand(v)' = Hand(v)
        /\ Forwarded' = Forwarded
    BY <1>4, HandsFrame DEF Take, Hand
  <2> HIDE DEF x
  <2> QED
    BY <2>1, <2>2, BehindIs
<1>5. ASSUME NEW w \in Writers, NEW k \in 1..Len(Forwarded),
             Stay \/ Drop(w) \/ \E x \in WorkItem : LogAndAdd(w, x)
      PROVE  Behind(k)' \subseteq Behind(k)
  <2>1. /\ \A v \in Writers : Hand(v)' \subseteq Hand(v)
        /\ Forwarded' = Forwarded /\ Api!Contents' = Api!Contents
    BY <1>5 DEF Stay, Drop, LogAndAdd, HandsKept, Hand
  <2> QED
    BY <2>1 DEF Behind
<1>6. ASSUME NEW w \in Writers, NEW x \in WorkItem, Pass(w, x) PROVE OvertakeInv'
  <2>0. /\ Forwarded' = Append(Forwarded, x) /\ entered' = entered
        /\ Api!Contents' = Api!Contents
        /\ Hand(w) = {x} /\ Hand(w)' = {} /\ \A v \in Writers \ {w} : Hand(v)' = Hand(v)
    BY <1>6, OneHand, HandsFrame DEF Pass, Hand
  <2>1. /\ Len(Forwarded') = Len(Forwarded) + 1 /\ Len(Forwarded) \in Nat
        /\ Forwarded'[Len(Forwarded) + 1] = x
        /\ \A l \in 1..Len(Forwarded) : Forwarded'[l] = Forwarded[l]
    BY <1>0, <2>0
  <2>2. ASSUME NEW k \in 1..Len(Forwarded)
        PROVE  IsFiniteSet(Overtaken(k)')
               /\ Cardinality(Overtaken(k)') <= Cardinality(Writers) - 1
    <3>1. \A l \in (k + 1)..(Len(Forwarded) + 1) :
            Forwarded'[l] = x \/ \E m \in (k + 1)..Len(Forwarded) : Forwarded'[l] = Forwarded[m]
      BY <2>1
    <3>2. x \in Behind(k)
      BY <2>0 DEF Behind
    <3>3. Behind(k)' \subseteq Behind(k)
      <4>1. \A l \in (k + 1)..Len(Forwarded') : Forwarded'[l] \in Behind(k)
        BY <2>1, <3>1, <3>2, BehindIs
      <4>2. \A v \in Writers : Hand(v)' \subseteq Behind(k)
        BY <2>0, BehindIs
      <4>3. Range(Api!Contents') \subseteq Behind(k)
        BY <2>0, BehindIs
      <4> QED
        BY <4>1, <4>2, <4>3, BehindIs
    <3>4. Overtaken(k)' \subseteq Overtaken(k)
      BY <1>3, <2>0, <2>1, <3>3
    <3> QED
      BY <3>4, OvertakenShrinks
  <2>3. ASSUME NEW k, k = Len(Forwarded) + 1
        PROVE  IsFiniteSet(Overtaken(k)')
               /\ Cardinality(Overtaken(k)') <= Cardinality(Writers) - 1
    <3>1. \A i \in Behind(k)' : \/ i \in Range(Api!Contents)
                                \/ \E v \in Writers \ {w} : i \in Hand(v)
      <4>1. (k + 1)..Len(Forwarded') = {}
        BY <2>1, <2>3
      <4> QED
        BY <2>0, <4>1, BehindIs
    <3>2. x \notin Range(Api!Contents)
      BY <1>0, <2>0 DEF DupInv
    <3>3. ASSUME NEW i \in Overtaken(k)' PROVE \E v \in Writers \ {w} : i \in Hand(v)
      <4>1. i \in Behind(k)' /\ Earlier(i, x)
        BY <2>0, <2>1, <2>3, <3>3 DEF Overtaken, Earlier
      <4> QED
        BY <3>1, <3>2, <4>1, QueueLast
    <3> DEFINE W == Writers \ {w}
               H == [v \in W |-> Hand(v)]
               S == Overtaken(k)'
    <3>4. IsFiniteSet(W) /\ Cardinality(W) = Cardinality(Writers) - 1
      BY PipelineAssumption, FS_RemoveElement
    <3>5. \A i \in S : \E v \in W : i \in H[v]
      BY <3>3
    <3>6. \A v \in W : \A i, j \in H[v] : i = j
      <4>1. \A v \in W : \A i, j \in Hand(v) : i = j
        BY OneHand DEF Hand, Taken, Adding
      <4> QED
        BY <4>1
    <3> HIDE DEF W, H, S
    <3>7. IsFiniteSet(S) /\ Cardinality(S) <= Cardinality(W)
      BY <3>4, <3>5, <3>6, OneEach
    <3> QED
      BY <3>4, <3>7 DEF S
  <2>4. \A k \in 1..Len(Forwarded') : k \in 1..Len(Forwarded) \/ k = Len(Forwarded) + 1
    BY <2>1
  <2> QED
    BY <2>2, <2>3, <2>4 DEF OvertakeInv
<1>7. CASE \E x \in WorkItem : Enter(x)
  BY <1>1, <1>2, <1>7 DEF Enter
<1>8. CASE \E w \in Writers : Take(w)
  BY <1>1, <1>3, <1>4, <1>8 DEF Take
<1>9. ASSUME NEW w \in Writers, Drop(w) \/ \E x \in WorkItem : LogAndAdd(w, x)
      PROVE  OvertakeInv'
  <2>1. Forwarded' = Forwarded /\ entered' = entered
    BY <1>9 DEF Drop, LogAndAdd
  <2> QED
    BY <1>1, <1>3, <1>5, <1>9, <2>1
<1>10. CASE Stay
  <2>1. /\ \A v \in Writers : Hand(v)' = Hand(v)
        /\ Forwarded' = Forwarded /\ Api!Contents' = Api!Contents /\ entered' = entered
    BY <1>10, HandsFrame DEF Stay
  <2>2. \A k : Behind(k)' \subseteq Behind(k)
    BY <2>1 DEF Behind
  <2> QED
    BY <1>1, <1>3, <2>1, <2>2
<1> QED
  BY <1>0, <1>6, <1>7, <1>8, <1>9, <1>10, FlowStep

\* With any number of Writers an item overtakes, on its way to the Calculator,
\* at most one item for each other Writer, whatever the threads do.
THEOREM OvertakingCorrect == Spec => []BoundedOvertaking
<1>1. ASSUME Init PROVE SuffixInv /\ OvertakeInv
  <2>1. Api!Contents = <<>> /\ Forwarded = <<>> /\ entered = <<>>
    BY <1>1, FlowInit
  <2>2. Len(Api!Contents) = 0 /\ Len(entered) = 0 /\ Len(Forwarded) = 0
    BY <2>1
  <2> QED
    BY <2>2 DEF SuffixInv, OvertakeInv
<1>2. FlowInv /\ FlowInv' /\ SuffixInv /\ OvertakeInv /\ [Next]_vars
        => (SuffixInv /\ OvertakeInv)'
  BY SuffixStep, OvertakeStep
<1>3. ASSUME FlowInv, OvertakeInv PROVE BoundedOvertaking
  <2>0. /\ DupInv /\ entered \in Seq(WorkItem) /\ Forwarded \in Seq(WorkItem)
    BY <1>3, ForwardedSeq DEF FlowInv, UsersInv, EnteredOK
  <2>1. ASSUME NEW i \in Range(entered)
        PROVE  Rank(i) \in 1..Len(entered) /\ entered[Rank(i)] = i
    BY <2>0 DEF Rank, Range
  <2>2. ASSUME NEW i \in Range(entered), NEW j \in Range(entered), Rank(i) < Rank(j)
        PROVE  Earlier(i, j)
    BY <2>1, <2>2 DEF Earlier
  <2>3. ASSUME NEW k \in 1..Len(Forwarded),
               NEW B, B = Range(SubSeq(Forwarded, k + 1, Len(Forwarded)))
                          \cup Held \cup Range(Api!Contents)
        PROVE  Cardinality({i \in B : Rank(i) < Rank(Forwarded[k])})
                 <= Cardinality(Writers) - 1
    <3> DEFINE S == {i \in B : Rank(i) < Rank(Forwarded[k])}
               T == Overtaken(k)
               s == SubSeq(Forwarded, k + 1, Len(Forwarded))
    <3>1. \A i \in Range(s) : \E l \in (k + 1)..Len(Forwarded) : i = Forwarded[l]
      <4>1. /\ s \in Seq(WorkItem) /\ Len(s) = Len(Forwarded) - k
            /\ \A m \in 1..(Len(Forwarded) - k) : s[m] = Forwarded[k + m]
        BY <2>0
      <4> HIDE DEF s
      <4>2. \A i \in Range(s) : \E m \in 1..(Len(Forwarded) - k) : i = Forwarded[k + m]
        BY <4>1 DEF Range
      <4>3. \A m \in 1..(Len(Forwarded) - k) : k + m \in (k + 1)..Len(Forwarded)
        BY <2>0
      <4> QED
        BY <4>2, <4>3, Zenon
    <3>2. \A i \in Held : \E w \in Writers : i \in Hand(w)
      BY DEF Held, Hand
    <3>3. B \subseteq Behind(k)
      BY <2>3, <3>1, <3>2, BehindIs
    <3>4. Behind(k) \subseteq Range(entered)
      <4>1. \A l \in (k + 1)..Len(Forwarded) : Forwarded[l] \in Range(Forwarded)
        BY <2>0 DEF Range
      <4> QED
        BY <2>0, <4>1, BehindIs DEF DupInv
    <3>5. Forwarded[k] \in Range(entered)
      BY <1>3, OvertakenFinite
    <3>6. S \subseteq T
      BY <2>2, <3>3, <3>4, <3>5 DEF Overtaken
    <3>7. IsFiniteSet(T) /\ Cardinality(T) <= Cardinality(Writers) - 1
      BY <1>3 DEF OvertakeInv
    <3>8. Cardinality(Writers) \in Nat
      BY PipelineAssumption, FS_CardinalityType
    <3> HIDE DEF S, T
    <3>9. IsFiniteSet(S) /\ Cardinality(S) <= Cardinality(T)
      BY <3>6, <3>7, FS_Subset
    <3>10. Cardinality(S) \in Nat /\ Cardinality(T) \in Nat
      BY <3>7, <3>9, FS_CardinalityType
    <3>11. Cardinality(S) <= Cardinality(Writers) - 1
      BY <3>7, <3>8, <3>9, <3>10
    <3> QED
      BY <3>11 DEF S
  <2> QED
    BY <2>3, Zenon DEF BoundedOvertaking
<1> QED
  BY <1>1, <1>2, <1>3, FlowCorrect, PTL DEF Spec

-----------------------------------------------------------------------------
(* The exit orders, from api_queue to main.                                *)

\* A Writer was told to exit, or the Calculator.
Refused(w) == Leaving(w) \/ (pc[w] = "remove" /\ ApiP!Gone(w))
CalcRefused ==
  pc[calculator] = "returned" \/ (pc[calculator] = "remove" /\ CalcP!Gone(calculator))

\* Nobody is told to exit without an order, and main returns last.
OrderInv ==
  /\ \A w \in Writers : Refused(w) => api_queue.exit_flag = 1
  /\ CalcRefused => calculation_queue.exit_flag = 1
  /\ pc[main] = "exited" => pc[calculator] = "returned"

\* No step takes an exit order back.
LEMMA OrderStays ==
  ASSUME UsersInv, [Next]_vars
  PROVE  /\ api_queue.exit_flag = 1 => api_queue'.exit_flag = 1
         /\ calculation_queue.exit_flag = 1 => calculation_queue'.exit_flag = 1
<1>0. /\ MessageOK /\ WritersRemove /\ ApiP!TypeOK /\ CalcP!TypeOK
  BY ApiSame, CalcSame DEF UsersInv
<1>1. CASE UNCHANGED vars
  BY <1>1 DEF vars, queues
<1>2. ASSUME Next, api_queue.exit_flag = 1 PROVE api_queue'.exit_flag = 1
  <2>1. CASE UNCHANGED Api!vars
    BY <1>2, <2>1 DEF Api!vars
  <2>2. ASSUME NEW t \in ApiThreads,
               Api!Begin(t) \/ Api!SpuriousWakeup(t) \/ ApiContinue(t)
        PROVE  api_queue'.exit_flag = 1
    <3>1. ApiP!Begin(t) \/ ApiP!Continue(t) \/ ApiP!SpuriousWakeup(t)
      BY <2>2, ApiSame DEF ApiContinue
    <3> QED
      BY <1>0, <1>2, <3>1, ApiQueueAssumption, ApiP!FlagStays
  <2> QED
    BY <1>0, <1>2, <2>1, <2>2, ApiStep
<1>3. ASSUME Next, calculation_queue.exit_flag = 1 PROVE calculation_queue'.exit_flag = 1
  <2>1. CASE UNCHANGED Calc!vars
    BY <1>3, <2>1 DEF Calc!vars
  <2>2. ASSUME NEW t \in CalcThreads,
               Calc!Begin(t) \/ Calc!SpuriousWakeup(t) \/ CalcContinue(t)
        PROVE  calculation_queue'.exit_flag = 1
    <3>1. CalcP!Begin(t) \/ CalcP!Continue(t) \/ CalcP!SpuriousWakeup(t)
      BY <2>2, CalcSame DEF CalcContinue
    <3> QED
      BY <1>0, <1>3, <3>1, CalcQueueAssumption, CalcP!FlagStays
  <2> QED
    BY <1>0, <1>3, <2>1, <2>2, CalcStep
<1> QED
  BY <1>1, <1>2, <1>3

\* A Writer is told to exit when it finds api_queue empty under the exit order,
\* with nothing in hand; nothing comes after that but its return.
LEMMA RefusedStep ==
  ASSUME UsersInv, [Next]_vars, NEW w \in Writers
  PROVE  /\ Refused(w) => Refused(w)'
         /\ Refused(w)' /\ ~ Refused(w) =>
              /\ ApiContinue(w) /\ api_queue.exit_flag = 1 /\ Api!Contents = <<>>
              /\ pc[w] = "remove" /\ api_op[w].pc = "remove_loop"
<1>0. /\ pc \in [Hosts \cup Alarms \cup Interrupts -> Location]
      /\ api_op \in [ApiThreads -> Api!OpType]
      /\ w \in Hosts /\ w \in ApiThreads /\ w # wss /\ w \notin Alarms \cup Interrupts
  BY PipelineAssumption DEF UsersInv, ControlOK, Api!TypeOK, Hosts, ApiThreads, Alarms
<1>1. CASE UNCHANGED vars
  BY <1>1 DEF vars, queues, Refused, Leaving, ApiP!Gone
<1>2. CASE ApiContinue(w)
  <2>1. ApiP!TypeOK /\ ApiP!RingInv /\ ApiP!Continue(w) /\ ApiP!Contents = Api!Contents
    BY <1>0, <1>2, ApiSame DEF ApiContinue, UsersInv
  <2>2. pc' = pc
    BY <1>2 DEF ApiContinue
  <2>3. CASE pc[w] = "remove"
    <3>1. ApiP!RemoveCalled(w)
      BY <2>3 DEF UsersInv, WritersRemove
    <3>2. /\ ApiP!Gone(w) => ApiP!Gone(w)'
          /\ ApiP!Gone(w)' /\ ~ ApiP!Gone(w) =>
               /\ api_op[w].pc = "remove_loop" /\ api_queue.exit_flag = 1
               /\ ApiP!Contents = <<>>
      BY <1>0, <2>1, <3>1, ApiQueueAssumption, ApiP!RefusalStep
    <3> QED
      BY <1>2, <2>1, <2>2, <2>3, <3>2 DEF Refused, Leaving
  <2>4. CASE pc[w] # "remove"
    BY <2>2, <2>4 DEF Refused, Leaving
  <2> QED
    BY <2>3, <2>4
<1>3. CASE writer_remove(w)
  <2>1. pc[w] \in {"start", "forward"} /\ pc'[w] = "remove"
    BY <1>0, <1>3 DEF writer_remove, Goto
  <2>2. api_op'[w].pc = "remove_lock"
    BY <1>0, <1>3 DEF writer_remove, Api!queue_remove, Api!OpType
  <2> QED
    BY <2>1, <2>2 DEF Refused, Leaving, ApiP!Gone
<1>4. CASE writer_forward(w)
  <2>1. pc[w] = "remove" /\ pc'[w] = "forward" /\ api_op[w].ret = 0
    BY <1>0, <1>4 DEF writer_forward, Goto
  <2> QED
    BY <2>1 DEF Refused, Leaving, ApiP!Gone
<1>5. CASE writer_pass_exit(w)
  <2>1. /\ pc[w] = "remove" /\ pc'[w] = "pass_signal" /\ api_op[w].ret = -1
        /\ api_op[w].pc = "idle"
    BY <1>0, <1>5 DEF writer_pass_exit, Goto, Api!Idle
  <2> QED
    BY <2>1 DEF Refused, Leaving, ApiP!Gone
<1>6. CASE writer_return(w)
  <2>1. pc[w] = "pass_signal" /\ pc'[w] = "returned"
    BY <1>0, <1>6 DEF writer_return, Goto
  <2> QED
    BY <2>1 DEF Refused, Leaving
<1>7. CASE Next /\ ~ Writer(w) /\ ~ ApiContinue(w)
  <2>1. api_op'[w] = api_op[w] /\ pc'[w] = pc[w]
    BY <1>0, <1>7, OwnSteps DEF UsersInv
  <2> QED
    BY <2>1 DEF Refused, Leaving, ApiP!Gone
<1> QED
  BY <1>1, <1>2, <1>3, <1>4, <1>5, <1>6, <1>7 DEF Writer

\* The Calculator is told to exit when it has computed all that went through
\* calculation_queue, and computes nothing any more.
LEMMA CalcRefusedStep ==
  ASSUME UsersInv, [Next]_vars
  PROVE  /\ CalcRefused => CalcRefused' /\ computed' = computed
         /\ CalcRefused' /\ ~ CalcRefused =>
              /\ CalcContinue(calculator) /\ calculation_queue.exit_flag = 1
              /\ computed' = computed /\ Forwarded = computed
         /\ pc[calculator] = "returned" => pc'[calculator] = "returned"
<1>0. /\ pc \in [Hosts \cup Alarms \cup Interrupts -> Location]
      /\ calc_op \in [CalcThreads -> Calc!OpType]
      /\ calculator \in Hosts /\ calculator \in CalcThreads /\ calculator \notin Writers
  BY PipelineAssumption DEF UsersInv, ControlOK, Calc!TypeOK, Hosts, CalcThreads
<1>1. CASE UNCHANGED vars
  BY <1>1 DEF vars, queues, CalcRefused, CalcP!Gone
<1>2. CASE CalcContinue(calculator)
  <2>1. /\ CalcP!TypeOK /\ CalcP!RingInv /\ CalcP!Continue(calculator)
        /\ CalcP!Contents = Calc!Contents
    BY <1>0, <1>2, CalcSame DEF CalcContinue, UsersInv
  <2>2. pc' = pc /\ computed' = computed
    BY <1>2 DEF CalcContinue
  <2>3. CASE pc[calculator] = "remove"
    <3>1. CalcP!RemoveCalled(calculator)
      BY <2>3 DEF UsersInv, ComputedOK
    <3>2. /\ CalcP!Gone(calculator) => CalcP!Gone(calculator)'
          /\ CalcP!Gone(calculator)' /\ ~ CalcP!Gone(calculator) =>
               /\ calc_op[calculator].pc = "remove_loop"
               /\ calculation_queue.exit_flag = 1 /\ CalcP!Contents = <<>>
      BY <1>0, <2>1, <3>1, CalcQueueAssumption, CalcP!RefusalStep
    <3>3. ASSUME calc_op[calculator].pc = "remove_loop", Calc!Contents = <<>>
          PROVE  Forwarded = computed
      <4>1. Forwarded = (computed \o InHand) \o Calc!Contents /\ computed \in Seq(WorkItem)
        BY ForwardedSeq, ContentsSeq
      <4>2. InHand = <<>>
        BY <3>3 DEF InHand
      <4>3. (computed \o <<>>) \o <<>> = computed
        BY <4>1
      <4> QED
        BY <3>3, <4>1, <4>2, <4>3, Zenon
    <3> QED
      BY <1>2, <2>1, <2>2, <2>3, <3>2, <3>3 DEF CalcRefused
  <2>4. CASE pc[calculator] # "remove"
    BY <2>2, <2>4 DEF CalcRefused
  <2> QED
    BY <2>2, <2>3, <2>4
<1>3. CASE calculator_start
  <2>1. pc[calculator] = "start" /\ pc'[calculator] = "remove"
    BY <1>0, <1>3 DEF calculator_start, Goto
  <2>2. calc_op'[calculator].pc = "remove_lock"
    BY <1>0, <1>3 DEF calculator_start, Calc!queue_remove, Calc!OpType
  <2> QED
    BY <2>1, <2>2 DEF CalcRefused, CalcP!Gone
<1>4. CASE calculator_compute
  <2>1. pc[calculator] = "remove" /\ pc'[calculator] = "remove" /\ calc_op[calculator].ret = 0
    BY <1>0, <1>4 DEF calculator_compute, Goto
  <2>2. calc_op'[calculator].pc = "remove_lock"
    BY <1>0, <1>4 DEF calculator_compute, Calc!queue_remove, Calc!OpType
  <2> QED
    BY <2>1, <2>2 DEF CalcRefused, CalcP!Gone
<1>5. CASE calculator_return
  <2>1. /\ pc[calculator] = "remove" /\ pc'[calculator] = "returned"
        /\ calc_op[calculator].ret = -1 /\ calc_op[calculator].pc = "idle"
        /\ computed' = computed
    BY <1>0, <1>5 DEF calculator_return, Goto, Calc!Idle, NoQueue
  <2> QED
    BY <2>1 DEF CalcRefused, CalcP!Gone
<1>6. CASE Next /\ ~ Calculator /\ ~ CalcContinue(calculator)
  <2>1. calc_op'[calculator] = calc_op[calculator] /\ pc'[calculator] = pc[calculator]
    BY <1>0, <1>6, CalcOwnSteps DEF UsersInv
  <2>2. computed' = computed
    BY <1>6, ComputedFrame
  <2> QED
    BY <2>1, <2>2 DEF CalcRefused, CalcP!Gone
<1> QED
  BY <1>1, <1>2, <1>3, <1>4, <1>5, <1>6 DEF Calculator

\* Only the joins and the end of main move main on.
LEMMA MainFrame ==
  ASSUME UsersInv, [Next]_vars, ~ main_exit
  PROVE  pc'[main] = pc[main]
<1>0. /\ pc \in [Hosts \cup Alarms \cup Interrupts -> Location] /\ main \in Hosts
      /\ main \notin Writers \cup Alarms \cup Interrupts \cup {wss, calculator}
  BY PipelineAssumption DEF UsersInv, ControlOK, Hosts, Alarms
<1>1. CASE WSSClient
  <2>1. \E from, to : Goto(wss, from, to)
    BY <1>1, Zenon DEF WSSClient, finnhub_connection_setup, client_established,
       client_connection_error, client_receive, receive_lock, json_callback,
       receive_unlock, service_idle, client_closed, closed_signal, wss_notify,
       wss_return, LoopTest
  <2> QED
    BY <1>0, <2>1 DEF Goto
<1>2. ASSUME NEW w \in Writers, Writer(w) PROVE pc'[main] = pc[main]
  BY <1>0, <1>2 DEF Writer, writer_remove, writer_forward, writer_pass_exit, writer_return,
     Goto
<1>3. CASE Calculator
  BY <1>0, <1>3 DEF Calculator, calculator_start, calculator_compute, calculator_return, Goto
<1>4. CASE SIGALRM
  BY <1>0, <1>4 DEF SIGALRM
<1>5. ASSUME NEW h \in Alarms, send_directive_to_queue(h) PROVE pc'[main] = pc[main]
  BY <1>0, <1>5 DEF send_directive_to_queue, directive_lock, directive_add, directive_limit,
     directive_unlock, Goto
<1>6. ASSUME NEW i \in Interrupts, SIGINT(i) \/ close_connection_interrupt(i)
      PROVE  pc'[main] = pc[main]
  BY <1>0, <1>6 DEF SIGINT, close_connection_interrupt, Goto
<1>7. CASE (\E t \in CalcThreads : CalcContinue(t)) \/ Spurious \/ UNCHANGED vars
           \/ (\E t \in ApiThreads : ApiContinue(t))
  BY <1>7 DEF CalcContinue, ApiContinue, Spurious, vars
<1> QED
  BY <1>1, <1>2, <1>3, <1>4, <1>5, <1>6, <1>7 DEF Next

\* Every step keeps the chain of orders.
LEMMA OrderStep ==
  ASSUME UsersInv, OrderInv, [Next]_vars
  PROVE  OrderInv'
<1>1. ASSUME NEW w \in Writers, Refused(w)' PROVE api_queue'.exit_flag = 1
  BY <1>1, RefusedStep, OrderStays DEF OrderInv
<1>2. ASSUME CalcRefused' PROVE calculation_queue'.exit_flag = 1
  BY <1>2, CalcRefusedStep, OrderStays DEF OrderInv
<1>3. ASSUME pc'[main] = "exited" PROVE pc'[calculator] = "returned"
  <2>1. CASE main_exit
    BY <2>1, CalcRefusedStep DEF main_exit
  <2>2. CASE ~ main_exit
    BY <1>3, <2>2, MainFrame, CalcRefusedStep DEF OrderInv
  <2> QED
    BY <2>1, <2>2
<1> QED
  BY <1>1, <1>2, <1>3 DEF OrderInv

-----------------------------------------------------------------------------
(* How many items are lost at the exit.                                    *)

\* The producers that are past the test of the exit order in queue_add.
PastTest == {t \in ApiThreads : api_op[t].pc \in {"add_loop", "add_sleep"}}

\* What entered and is not computed, or on its way there.
Risk == Range(entered) \ (IF CalcRefused THEN Range(computed) ELSE Range(Forwarded))

\* Once a Writer was told to exit, each other Writer has one item to lose, and
\* the producer that is past the test one more to insert.
LossInv ==
  (\E w \in Writers : Refused(w)) =>
    Cardinality(Risk) + Cardinality(PastTest) <= Cardinality(Writers)

PastInv ==
  IsFiniteSet(PastTest) /\ Cardinality(PastTest) \in Nat /\ Cardinality(PastTest) <= 1

\* producer_lock lets one producer past the test.
LEMMA PastTestOne == FlowInv => PastInv
<1> SUFFICES ASSUME FlowInv PROVE PastInv
  OBVIOUS
<1>0. UsersInv /\ LockInv /\ AddInv
  BY DEF FlowInv
<1>1. IsFiniteSet(ApiThreads)
  BY QueueThreads
<1>2. IsFiniteSet(PastTest) /\ Cardinality(PastTest) \in Nat
  <2>1. PastTest \subseteq ApiThreads
    BY DEF PastTest
  <2> QED
    BY <1>1, <2>1, FS_Subset, FS_CardinalityType
<1>3. ASSUME NEW t \in PastTest PROVE api_queue.producer_lock = t
  <2>1. t \in ApiThreads /\ Api!Call(t) = "add"
    BY <1>3 DEF PastTest, Api!Call
  <2>2. CASE t = wss
    BY <1>0, <2>1, <2>2 DEF AddInv, LockInv
  <2>3. CASE t \in Alarms
    BY <1>0, <2>1, <2>3 DEF AddInv, LockInv
  <2> QED
    BY <1>0, <2>1, <2>2, <2>3 DEF ApiThreads, AddInv
<1>4. CASE PastTest = {}
  <2>1. Cardinality(PastTest) = 0
    BY <1>4, FS_EmptySet
  <2> QED
    BY <1>2, <2>1 DEF PastInv
<1>5. ASSUME NEW t \in PastTest PROVE Cardinality(PastTest) <= 1
  <2>1. PastTest = {t}
    BY <1>3, <1>5
  <2>2. Cardinality({t}) = 1
    BY FS_Singleton
  <2> QED
    BY <2>1, <2>2
<1> QED
  BY <1>2, <1>4, <1>5 DEF PastInv

\* Under the exit order no other follows.
LEMMA PastTestStep ==
  ASSUME UsersInv, [Next]_vars, api_queue.exit_flag = 1
  PROVE  PastTest' \subseteq PastTest
<1>0. MessageOK /\ ApiP!TypeOK
  BY ApiSame DEF UsersInv
<1> SUFFICES ASSUME NEW s \in ApiThreads, api_op'[s].pc \in {"add_loop", "add_sleep"}
             PROVE  api_op[s].pc \in {"add_loop", "add_sleep"}
  BY DEF PastTest
<1>1. CASE UNCHANGED vars
  BY <1>1 DEF vars, queues
<1>2. CASE UNCHANGED Api!vars
  BY <1>2 DEF Api!vars
<1>3. ASSUME NEW t \in ApiThreads, Api!Begin(t) \/ Api!SpuriousWakeup(t) \/ ApiContinue(t)
      PROVE  api_op[s].pc \in {"add_loop", "add_sleep"}
  <2>1. ApiP!Begin(t) \/ ApiP!Continue(t) \/ ApiP!SpuriousWakeup(t)
    BY <1>3, ApiSame DEF ApiContinue
  <2> QED
    BY <1>0, <2>1, ApiQueueAssumption, ApiP!AdmissionStep
<1> QED
  BY <1>0, <1>1, <1>2, <1>3, ApiStep

\* Items at risk are finitely many.
LEMMA RiskFinite ==
  ASSUME UsersInv
  PROVE  IsFiniteSet(Risk) /\ Cardinality(Risk) \in Nat
<1>1. IsFiniteSet(Range(entered))
  BY RangeFinite DEF UsersInv, EnteredOK
<1>2. Risk \subseteq Range(entered)
  BY DEF Risk
<1> QED
  BY <1>1, <1>2, FS_Subset, FS_CardinalityType

\* Only what enters is new at risk.
LEMMA RiskStep ==
  ASSUME FlowInv, FlowInv', [Next]_vars
  PROVE  \/ Risk' \subseteq Risk
         \/ \E x \in WorkItem : Enter(x) /\ Risk' \subseteq Risk \cup {x}
<1>0. /\ UsersInv /\ UsersInv' /\ AddInv
      /\ entered \in Seq(WorkItem) /\ Forwarded \in Seq(WorkItem)
  BY ForwardedSeq DEF FlowInv, UsersInv, EnteredOK
<1>1. ASSUME NEW E, Range(entered') \subseteq Range(entered) \cup E,
             Range(Forwarded) \subseteq Range(Forwarded')
      PROVE  Risk' \subseteq Risk \cup E
  <2>1. CASE CalcRefused
    BY <1>0, <1>1, <2>1, CalcRefusedStep DEF Risk
  <2>2. CASE ~ CalcRefused /\ ~ CalcRefused'
    BY <1>1, <2>2 DEF Risk
  <2>3. CASE ~ CalcRefused /\ CalcRefused'
    <3>1. computed' = computed /\ Forwarded = computed
      BY <1>0, <2>3, CalcRefusedStep
    <3> QED
      BY <1>1, <2>3, <3>1 DEF Risk
  <2> QED
    BY <2>1, <2>2, <2>3
<1>2. ASSUME NEW x \in WorkItem, Enter(x)
      PROVE  Risk' \subseteq Risk \cup {x}
  <2>1. Range(entered') = Range(entered) \cup {x} /\ Forwarded' = Forwarded
    BY <1>0, <1>2, AppendRange DEF Enter
  <2> QED
    BY <1>1, <2>1
<1>3. ASSUME NEW w \in Writers, NEW x \in WorkItem, Pass(w, x)
      PROVE  Risk' \subseteq Risk
  <2>1. /\ Range(Forwarded') = Range(Forwarded) \cup {x} /\ entered' = entered
    BY <1>0, <1>3, AppendRange DEF Pass
  <2>2. Risk' \subseteq Risk \cup {}
    BY <1>1, <2>1
  <2> QED
    BY <2>2
<1>4. ASSUME entered' = entered, Forwarded' = Forwarded PROVE Risk' \subseteq Risk
  <2>1. Risk' \subseteq Risk \cup {}
    BY <1>1, <1>4
  <2> QED
    BY <2>1
<1>5. ASSUME NEW w \in Writers, Take(w) \/ Drop(w) \/ \E x \in WorkItem : LogAndAdd(w, x)
      PROVE  entered' = entered /\ Forwarded' = Forwarded
  BY <1>5 DEF Take, Drop, LogAndAdd
<1>6. ASSUME Stay PROVE entered' = entered /\ Forwarded' = Forwarded
  BY <1>6 DEF Stay
<1> QED
  BY <1>0, <1>2, <1>3, <1>4, <1>5, <1>6, FlowStep

\* The first Writer told to exit leaves at most one item at risk for each of
\* the others; later ones only trade the producer's turn for its item.
LEMMA LossStep ==
  ASSUME FlowInv, FlowInv', PastInv, PastInv', LostInv, OrderInv, LossInv, [Next]_vars
  PROVE  LossInv'
<1>0. /\ UsersInv /\ UsersInv' /\ LockInv /\ AddInv /\ PendingInv /\ IdInv /\ DirectiveInv
      /\ ExitInv
      /\ entered \in Seq(WorkItem)
  BY DEF FlowInv, UsersInv, EnteredOK
<1> DEFINE r == Cardinality(Risk)
           p == Cardinality(PastTest)
           r1 == Cardinality(Risk')
           p1 == Cardinality(PastTest')
           n == Cardinality(Writers)
<1>1. /\ IsFiniteSet(Risk) /\ IsFiniteSet(Risk')
      /\ IsFiniteSet(PastTest) /\ IsFiniteSet(PastTest')
      /\ r \in Nat /\ r1 \in Nat /\ p \in Nat /\ p1 \in Nat /\ p1 <= 1
  <2>1. IsFiniteSet(Risk) /\ r \in Nat
    BY <1>0, RiskFinite
  <2>2. IsFiniteSet(Range(entered'))
    <3>1. entered' \in Seq(WorkItem)
      BY <1>0 DEF UsersInv, EnteredOK
    <3> QED
      BY <3>1, RangeFinite
  <2>3. IsFiniteSet(Risk') /\ r1 \in Nat
    <3>1. Risk' \subseteq Range(entered')
      BY DEF Risk
    <3> QED
      BY <2>2, <3>1, FS_Subset, FS_CardinalityType
  <2>4. IsFiniteSet(PastTest) /\ p \in Nat
    BY DEF PastInv
  <2>5. IsFiniteSet(PastTest') /\ p1 \in Nat /\ p1 <= 1
    BY DEF PastInv
  <2> QED
    BY <2>1, <2>3, <2>4, <2>5
<1>2. n \in Nat
  BY PipelineAssumption, FS_CardinalityType
<1>3. SUFFICES ASSUME \E w \in Writers : Refused(w)' PROVE r1 + p1 <= n
  BY DEF LossInv
<1>4. CASE \E w \in Writers : Refused(w)
  <2>1. r + p <= n /\ api_queue.exit_flag = 1
    BY <1>4 DEF LossInv, OrderInv
  <2>2. PastTest' \subseteq PastTest
    BY <1>0, <2>1, PastTestStep
  <2>3. p1 <= p
    BY <1>1, <2>2, FS_Subset
  <2>4. CASE Risk' \subseteq Risk
    <3>1. r1 <= r
      BY <1>1, <2>4, FS_Subset
    <3> HIDE DEF r, p, r1, p1, n
    <3> QED
      BY <1>1, <1>2, <2>1, <2>3, <3>1
  <2>5. ASSUME NEW x \in WorkItem, Enter(x), Risk' \subseteq Risk \cup {x}
        PROVE  r1 + p1 <= n
    <3>1. entered' # entered
      BY <1>0, <2>5 DEF Enter
    <3>2. PICK t \in ApiThreads : ApiContinue(t)
      BY <3>1, EnteredFrame
    <3>3. api_op[t].pc = "add_loop" /\ api_op'[t].pc = "add_signal"
      BY <3>1, <3>2 DEF ApiContinue
    <3>4. t \in PastTest /\ PastTest' \subseteq PastTest \ {t}
      BY <2>2, <3>3 DEF PastTest
    <3>5. p1 <= p - 1
      <4> DEFINE S == PastTest
                 T == PastTest'
      <4>1. IsFiniteSet(S) /\ t \in S /\ T \subseteq S \ {t}
        BY <1>1, <3>4
      <4> HIDE DEF S, T
      <4>2. IsFiniteSet(S \ {t}) /\ Cardinality(S \ {t}) = Cardinality(S) - 1
        BY <4>1, FS_RemoveElement
      <4>3. Cardinality(T) <= Cardinality(S \ {t})
        BY <4>1, <4>2, FS_Subset
      <4> QED
        BY <4>2, <4>3 DEF S, T
    <3>6. r1 <= r + 1
      <4> DEFINE S == Risk
                 T == Risk'
      <4>1. IsFiniteSet(S) /\ T \subseteq S \cup {x} /\ Cardinality(S) \in Nat
        BY <1>1, <2>5
      <4> HIDE DEF S, T
      <4>2. IsFiniteSet(S \cup {x}) /\ Cardinality(S \cup {x}) <= Cardinality(S) + 1
        <5>1. IsFiniteSet(S)
          BY <4>1
        <5>2. /\ IsFiniteSet(S \cup {x})
              /\ Cardinality(S \cup {x}) =
                   IF x \in S THEN Cardinality(S) ELSE Cardinality(S) + 1
          BY <5>1, FS_AddElement
        <5> QED
          BY <4>1, <5>2
      <4>3. IsFiniteSet(T) /\ Cardinality(T) <= Cardinality(S \cup {x})
        BY <4>1, <4>2, FS_Subset
      <4>4. Cardinality(T) \in Nat /\ Cardinality(S \cup {x}) \in Nat
        BY <4>2, <4>3, FS_CardinalityType
      <4>5. Cardinality(T) <= Cardinality(S) + 1
        BY <4>1, <4>2, <4>3, <4>4
      <4> QED
        BY <4>5 DEF S, T
    <3> HIDE DEF r, p, r1, p1, n
    <3> QED
      BY <1>1, <1>2, <2>1, <3>5, <3>6
  <2> QED
    BY <2>4, <2>5, RiskStep
<1>5. CASE ~ \E w \in Writers : Refused(w)
  <2>1. PICK w \in Writers : Refused(w)'
    BY <1>3
  <2>2. /\ ApiContinue(w) /\ Api!Contents = <<>>
        /\ pc[w] = "remove" /\ api_op[w].pc = "remove_loop"
    BY <1>0, <1>5, <2>1, RefusedStep
  <2>3. /\ entered' = entered /\ UNCHANGED <<pc, calculation_queue, calc_op, computed>>
    BY <2>2 DEF ApiContinue
  <2>4. ~ \E v \in Writers : Leaving(v)
    BY <1>5 DEF Refused
  <2>5. ~ CalcRefused /\ ~ CalcRefused'
    BY <1>0, <2>3, <2>4 DEF OrderInv, ExitInv, CalcRefused, CalcP!Gone
  <2>6. Lost = {}
    BY <2>4 DEF LostInv
  <2>7. Forwarded' = Forwarded
    BY <2>3 DEF Forwarded, Calc!Contents, Calc!Count, Calc!Slot
  <2>8. Range(Api!Contents) = {}
    BY <2>2 DEF Range
  <2>9. Hand(w) = {}
    BY <2>2 DEF Hand, Taken, Adding
  <2>10. ASSUME NEW i \in Risk' PROVE \E v \in Writers \ {w} : i \in Hand(v)
    <3>1. i \in Range(entered) /\ i \notin Range(Forwarded)
      BY <2>3, <2>5, <2>7, <2>10 DEF Risk
    <3>2. i \in Held
      BY <2>6, <2>8, <3>1 DEF Lost
    <3> QED
      BY <2>9, <3>2 DEF Held, Hand
  <2>11. r1 <= n - 1
    <3> DEFINE W == Writers \ {w}
               H == [v \in W |-> Hand(v)]
               S == Risk'
    <3>1. IsFiniteSet(W) /\ Cardinality(W) = Cardinality(Writers) - 1
      BY PipelineAssumption, FS_RemoveElement
    <3>2. \A i \in S : \E v \in W : i \in H[v]
      BY <2>10
    <3>3. \A v \in W : \A i, j \in H[v] : i = j
      <4>1. \A v \in W : \A i, j \in Hand(v) : i = j
        BY OneHand DEF Hand, Taken, Adding
      <4> QED
        BY <4>1
    <3> HIDE DEF W, H, S
    <3>4. Cardinality(S) <= Cardinality(W)
      BY <3>1, <3>2, <3>3, OneEach
    <3> QED
      BY <3>1, <3>4 DEF S
  <2> HIDE DEF r, p, r1, p1, n
  <2> QED
    BY <1>1, <1>2, <2>11
<1> QED
  BY <1>4, <1>5

\* With any number of Writers, when main returns at most one item for each
\* Writer that entered api_queue was not computed, however the exit order, the
\* Writers, a producer asleep on not_full and the Calculator interleave.
THEOREM BoundedLossCorrect == Spec => []BoundedLossAtExit
<1>1. ASSUME Init PROVE LostInv /\ OrderInv /\ LossInv
  <2>1. /\ \A w \in Writers : pc[w] = "start"
        /\ pc[calculator] = "start" /\ pc[main] = "start"
    BY <1>1, PipelineAssumption DEF Init, Hosts, Alarms
  <2>2. Range(entered) = {}
    BY <1>1 DEF Init, Range
  <2> QED
    BY <2>1, <2>2 DEF LostInv, Lost, OrderInv, LossInv, Refused, CalcRefused, Leaving
<1>2. FlowInv /\ FlowInv' /\ PastInv /\ PastInv' /\ LostInv /\ OrderInv /\ LossInv
      /\ [Next]_vars
        => (LostInv /\ OrderInv /\ LossInv)'
  <2>1. FlowInv => UsersInv
    BY DEF FlowInv
  <2> QED
    BY <2>1, LostStep, OrderStep, LossStep
<1>3. ASSUME FlowInv, OrderInv, LossInv PROVE BoundedLossAtExit
  <2> SUFFICES ASSUME pc[main] = "exited"
               PROVE  Cardinality(Range(entered) \ Range(computed)) <= Cardinality(Writers)
    BY DEF BoundedLossAtExit
  <2>0. UsersInv /\ ExitInv
    BY <1>3 DEF FlowInv
  <2>1. CalcRefused /\ calculation_queue.exit_flag = 1
    BY <1>3 DEF OrderInv, CalcRefused
  <2>2. \E w \in Writers : Refused(w)
    BY <2>0, <2>1 DEF ExitInv, Refused
  <2>3. Cardinality(Risk) + Cardinality(PastTest) <= Cardinality(Writers)
    BY <1>3, <2>2 DEF LossInv
  <2>4. Cardinality(Risk) \in Nat /\ Cardinality(PastTest) \in Nat
    BY <1>3, <2>0, RiskFinite, PastTestOne DEF PastInv
  <2>5. Cardinality(Writers) \in Nat
    BY PipelineAssumption, FS_CardinalityType
  <2>6. Cardinality(Risk) <= Cardinality(Writers)
    BY <2>3, <2>4, <2>5
  <2>7. Risk = Range(entered) \ Range(computed)
    BY <2>1 DEF Risk
  <2> QED
    BY <2>6, <2>7
<1> QED
  BY <1>1, <1>2, <1>3, FlowCorrect, PastTestOne, PTL DEF Spec
=============================================================================
