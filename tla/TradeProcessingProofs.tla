------------------------ MODULE TradeProcessingProofs ------------------------
(***************************************************************************)
(* Proofs about the Calculator's buffers.  First what a sum of             *)
(* Functions!SumFunction is, then the candlesticks, the window and the     *)
(* rows against the history of the trades.                                 *)
(***************************************************************************)
EXTENDS TradeProcessing, FiniteSets, FiniteSetTheorems, WellFoundedInduction, TLAPS

\* A set of subsets of a finite set has a smallest member: the form of
\* induction the lemmas about sums use.
LEMMA SmallestSubset ==
  ASSUME NEW D, IsFiniteSet(D), NEW T, T \subseteq SUBSET D, T # {}
  PROVE  \E t \in T : \A s \in T : ~ (s \subseteq t /\ s # t)
<1>1. IsWellFoundedOn(StrictSubsetOrdering(D), FiniteSubsetsOf(D))
  BY FS_StrictSubsetOrderingWellFounded
<1>2. FiniteSubsetsOf(D) = SUBSET D
  BY FS_FiniteSubsetsOfFinite
<1>3. PICK t \in T : \A s \in T : ~ (<<s, t>> \in StrictSubsetOrdering(D))
  BY <1>1, <1>2, WFMin
<1> QED
  BY <1>3 DEF StrictSubsetOrdering

\* The element SumFunctionOnSet takes out of a set next.
Pick(s) == CHOOSE x \in s : TRUE

\* iter of Folds!MapThenFoldSet, as SumFunctionOnSet uses it: the sums of f
\* over the subsets of D.
IsIter(f, D, iter) ==
  iter = [s \in SUBSET D |-> IF s = {} THEN 0 ELSE f[Pick(s)] + iter[s \ {Pick(s)}]]

\* The element FoldFunction takes next is one of the set.
LEMMA PickInSet ==
  ASSUME NEW s, s # {}
  PROVE  Pick(s) \in s
BY DEF Pick

\* Two iterations of the same sum agree wherever both are defined.
LEMMA IterUnique ==
  ASSUME NEW f, NEW D1, NEW D2, NEW g1, NEW g2, IsFiniteSet(D1),
         IsIter(f, D1, g1), IsIter(f, D2, g2), NEW s, s \subseteq D1, s \subseteq D2
  PROVE  g1[s] = g2[s]
<1> DEFINE T == {t \in SUBSET s : g1[t] # g2[t]}
<1> SUFFICES ASSUME T # {}
             PROVE  FALSE
  OBVIOUS
<1>1. T \subseteq SUBSET D1
  OBVIOUS
<1>2. PICK t \in T : \A u \in T : ~ (u \subseteq t /\ u # t)
  <2> HIDE DEF T
  <2> QED
    BY <1>1, SmallestSubset
<1>3. t \in SUBSET D1 /\ t \in SUBSET D2 /\ t \subseteq s
  OBVIOUS
<1>4. /\ g1[t] = IF t = {} THEN 0 ELSE f[Pick(t)] + g1[t \ {Pick(t)}]
      /\ g2[t] = IF t = {} THEN 0 ELSE f[Pick(t)] + g2[t \ {Pick(t)}]
  BY <1>3 DEF IsIter
<1>5. t # {} => g1[t \ {Pick(t)}] = g2[t \ {Pick(t)}]
  BY <1>2, <1>3, PickInSet
<1> QED
  BY <1>4, <1>5

\* The iteration exists for every finite set.
LEMMA IterExists ==
  ASSUME NEW f, NEW D, IsFiniteSet(D)
  PROVE  \E g : IsIter(f, D, g)
<1> DEFINE T == {t \in SUBSET D : ~ \E g : IsIter(f, t, g)}
<1> SUFFICES ASSUME T # {}
             PROVE  FALSE
  OBVIOUS
<1>1. PICK t \in T : \A u \in T : ~ (u \subseteq t /\ u # t)
  <2>1. T \subseteq SUBSET D
    OBVIOUS
  <2> HIDE DEF T
  <2> QED
    BY <2>1, SmallestSubset
<1>2. t \subseteq D /\ ~ \E g : IsIter(f, t, g)
  OBVIOUS
<1> DEFINE H(s) == CHOOSE h : IsIter(f, s, h)
           g == [s \in SUBSET t |-> IF s = {} THEN 0
                                    ELSE f[Pick(s)] + H(s \ {Pick(s)})[s \ {Pick(s)}]]
<1>3. ASSUME NEW s, s \subseteq t, s # t
      PROVE  IsIter(f, s, H(s))
  BY <1>1, <1>2, <1>3
<1> HIDE DEF H, T
<1>4. ASSUME NEW s \in SUBSET t, s # {}
      PROVE  g[s \ {Pick(s)}] = H(s \ {Pick(s)})[s \ {Pick(s)}]
  <2> DEFINE u == s \ {Pick(s)}
             v == u \ {Pick(u)}
  <2>1. u \subseteq t /\ u # t /\ v \subseteq u
    BY <1>4, PickInSet
  <2>2. IsFiniteSet(u)
    BY <1>2, <2>1, FS_Subset
  <2>3. IsIter(f, u, H(u))
    BY <1>3, <2>1
  <2>4. H(u)[u] = IF u = {} THEN 0 ELSE f[Pick(u)] + H(u)[v]
    <3> HIDE DEF u
    <3> QED
      BY <2>3 DEF IsIter
  <2>5. g[u] = IF u = {} THEN 0 ELSE f[Pick(u)] + H(v)[v]
    <3> HIDE DEF u
    <3> QED
      BY <2>1
  <2>6. H(u)[v] = H(v)[v]
    <3>1. IsIter(f, v, H(v))
      BY <1>3, <2>1
    <3> HIDE DEF u, v
    <3> QED
      BY <2>1, <2>2, <2>3, <3>1, IterUnique
  <2> HIDE DEF v
  <2> QED
    BY <2>4, <2>5, <2>6
<1>5. IsIter(f, t, g)
  <2>1. \A s \in SUBSET t : g[s] = IF s = {} THEN 0 ELSE f[Pick(s)] + g[s \ {Pick(s)}]
    BY <1>4
  <2> QED
    BY <2>1 DEF IsIter
<1> QED
  BY <1>2, <1>5

\* The sum of the community modules is the value of the iteration.
LEMMA SumIsIter ==
  ASSUME NEW f, NEW D, IsFiniteSet(D)
  PROVE  \E g : IsIter(f, D, g) /\ SumFunctionOnSet(f, D) = g[D]
<1> DEFINE h == CHOOSE h : h = [s \in SUBSET D |-> IF s = {} THEN 0
                          ELSE f[CHOOSE y \in s : TRUE] + h[s \ {CHOOSE y \in s : TRUE}]]
<1>1. IsIter(f, D, h)
  <2>1. \E g : g = [s \in SUBSET D |-> IF s = {} THEN 0
                    ELSE f[CHOOSE y \in s : TRUE] + g[s \ {CHOOSE y \in s : TRUE}]]
    <3>1. PICK g : IsIter(f, D, g)
      BY IterExists
    <3>2. g = [s \in SUBSET D |-> IF s = {} THEN 0
               ELSE f[CHOOSE y \in s : TRUE] + g[s \ {CHOOSE y \in s : TRUE}]]
      BY <3>1 DEF IsIter, Pick
    <3> QED
      BY <3>2
  <2>2. h = [s \in SUBSET D |-> IF s = {} THEN 0
             ELSE f[CHOOSE y \in s : TRUE] + h[s \ {CHOOSE y \in s : TRUE}]]
    BY <2>1
  <2> HIDE DEF h
  <2> QED
    BY <2>2 DEF IsIter, Pick
<1>2. SumFunctionOnSet(f, D) = h[D]
  BY DEF SumFunctionOnSet, FoldFunctionOnSet, MapThenFoldSet
<1> QED
  BY <1>1, <1>2

\* One step of a sum.
LEMMA SumUnfold ==
  ASSUME NEW f, NEW D, IsFiniteSet(D)
  PROVE  SumFunctionOnSet(f, D)
           = IF D = {} THEN 0 ELSE f[Pick(D)] + SumFunctionOnSet(f, D \ {Pick(D)})
<1>1. PICK g : IsIter(f, D, g) /\ SumFunctionOnSet(f, D) = g[D]
  BY SumIsIter
<1>2. CASE D = {}
  BY <1>1, <1>2 DEF IsIter
<1>3. CASE D # {}
  <2> DEFINE E == D \ {Pick(D)}
  <2>1. IsFiniteSet(E)
    BY FS_Subset
  <2>2. PICK h : IsIter(f, E, h) /\ SumFunctionOnSet(f, E) = h[E]
    BY <2>1, SumIsIter
  <2>3. g[D] = f[Pick(D)] + g[E]
    BY <1>1, <1>3 DEF IsIter
  <2>4. E \subseteq D
    OBVIOUS
  <2>5. g[E] = h[E]
    <3> HIDE DEF E
    <3> QED
      BY <1>1, <2>2, <2>4, IterUnique
  <2> QED
    BY <1>1, <1>3, <2>2, <2>3, <2>5
<1> QED
  BY <1>2, <1>3

\* The sum of integers is an integer.
LEMMA SumType ==
  ASSUME NEW f, NEW D, IsFiniteSet(D), \A x \in D : f[x] \in Int
  PROVE  SumFunctionOnSet(f, D) \in Int
<1> DEFINE T == {t \in SUBSET D : SumFunctionOnSet(f, t) \notin Int}
<1> SUFFICES ASSUME T # {}
             PROVE  FALSE
  OBVIOUS
<1>1. PICK t \in T : \A u \in T : ~ (u \subseteq t /\ u # t)
  <2>1. T \subseteq SUBSET D
    OBVIOUS
  <2> HIDE DEF T
  <2> QED
    BY <2>1, SmallestSubset
<1>2. t \subseteq D /\ SumFunctionOnSet(f, t) \notin Int
  OBVIOUS
<1>3. SumFunctionOnSet(f, t)
        = IF t = {} THEN 0 ELSE f[Pick(t)] + SumFunctionOnSet(f, t \ {Pick(t)})
  BY <1>2, FS_Subset, SumUnfold
<1>4. t # {}
  BY <1>2, <1>3
<1>5. Pick(t) \in t
  BY <1>4, PickInSet
<1>6. SumFunctionOnSet(f, t \ {Pick(t)}) \in Int
  BY <1>1, <1>2, <1>5
<1> QED
  BY <1>2, <1>3, <1>4, <1>5, <1>6

\* A sum depends on nothing but its terms.
LEMMA SumSame ==
  ASSUME NEW f, NEW h, NEW D, IsFiniteSet(D), \A x \in D : f[x] = h[x]
  PROVE  SumFunctionOnSet(f, D) = SumFunctionOnSet(h, D)
<1> DEFINE T == {t \in SUBSET D : SumFunctionOnSet(f, t) # SumFunctionOnSet(h, t)}
<1> SUFFICES ASSUME T # {}
             PROVE  FALSE
  OBVIOUS
<1>1. PICK t \in T : \A u \in T : ~ (u \subseteq t /\ u # t)
  <2>1. T \subseteq SUBSET D
    OBVIOUS
  <2> HIDE DEF T
  <2> QED
    BY <2>1, SmallestSubset
<1>2. t \subseteq D /\ SumFunctionOnSet(f, t) # SumFunctionOnSet(h, t)
  OBVIOUS
<1>3. IsFiniteSet(t)
  BY <1>2, FS_Subset
<1>4. /\ SumFunctionOnSet(f, t)
           = IF t = {} THEN 0 ELSE f[Pick(t)] + SumFunctionOnSet(f, t \ {Pick(t)})
      /\ SumFunctionOnSet(h, t)
           = IF t = {} THEN 0 ELSE h[Pick(t)] + SumFunctionOnSet(h, t \ {Pick(t)})
  BY <1>3, SumUnfold
<1>5. t # {} /\ Pick(t) \in t
  BY <1>2, <1>4, PickInSet
<1>6. SumFunctionOnSet(f, t \ {Pick(t)}) = SumFunctionOnSet(h, t \ {Pick(t)})
  BY <1>1, <1>2, <1>5
<1> QED
  BY <1>2, <1>4, <1>5, <1>6

\* Any term can be taken out of a sum first: the order does not matter.
LEMMA SumRemove ==
  ASSUME NEW f, NEW D, IsFiniteSet(D), \A x \in D : f[x] \in Int, NEW e \in D
  PROVE  SumFunctionOnSet(f, D) = f[e] + SumFunctionOnSet(f, D \ {e})
<1> DEFINE Holds(t, x) == SumFunctionOnSet(f, t) = f[x] + SumFunctionOnSet(f, t \ {x})
           T == {t \in SUBSET D : \E x \in t : ~ Holds(t, x)}
<1> SUFFICES ASSUME T # {}
             PROVE  FALSE
  OBVIOUS
<1>1. PICK t \in T : \A u \in T : ~ (u \subseteq t /\ u # t)
  <2>1. T \subseteq SUBSET D
    OBVIOUS
  <2> HIDE DEF T
  <2> QED
    BY <2>1, SmallestSubset
<1>2. PICK x \in t : ~ Holds(t, x)
  OBVIOUS
<1>3. t \subseteq D /\ IsFiniteSet(t)
  BY FS_Subset
<1>4. ASSUME NEW u, u \subseteq t, u # t, NEW y \in u
      PROVE  SumFunctionOnSet(f, u) = f[y] + SumFunctionOnSet(f, u \ {y})
  BY <1>1, <1>3, <1>4
<1> DEFINE c == Pick(t)
           rest == SumFunctionOnSet(f, (t \ {c}) \ {x})
<1>5. c \in t
  BY PickInSet
<1>6. SumFunctionOnSet(f, t) = f[c] + SumFunctionOnSet(f, t \ {c})
  BY <1>3, SumUnfold
<1>7. c # x
  BY <1>2, <1>6
<1> HIDE DEF c
<1>8. SumFunctionOnSet(f, t \ {c}) = f[x] + rest
  BY <1>4, <1>5, <1>7
<1>9. SumFunctionOnSet(f, t \ {x}) = f[c] + rest
  <2>1. (t \ {x}) \ {c} = (t \ {c}) \ {x}
    OBVIOUS
  <2>2. SumFunctionOnSet(f, t \ {x}) = f[c] + SumFunctionOnSet(f, (t \ {x}) \ {c})
    BY <1>4, <1>5, <1>7
  <2> QED
    BY <2>1, <2>2
<1>10. rest \in Int
  <2>1. (t \ {c}) \ {x} \subseteq D
    BY <1>3
  <2>2. IsFiniteSet((t \ {c}) \ {x})
    BY <2>1, FS_Subset
  <2> QED
    BY <2>1, <2>2, SumType
<1>11. f[c] \in Int /\ f[x] \in Int
  BY <1>3, <1>5
<1> HIDE DEF rest
<1>12. f[c] + (f[x] + rest) = f[x] + (f[c] + rest)
  BY <1>10, <1>11
<1> QED
  BY <1>2, <1>6, <1>8, <1>9, <1>12

\* A sum after one term has changed.
LEMMA SumExcept ==
  ASSUME NEW D, IsFiniteSet(D), NEW f \in [D -> Int], NEW e \in D, NEW x \in Int
  PROVE  SumFunction([f EXCEPT ![e] = x]) = SumFunction(f) - f[e] + x
<1> DEFINE h == [f EXCEPT ![e] = x]
           rest == SumFunctionOnSet(f, D \ {e})
<1>1. IsFiniteSet(D \ {e})
  BY FS_Subset
<1>2. SumFunctionOnSet(f, D) = f[e] + rest
  BY SumRemove
<1>3. h \in [D -> Int] /\ h[e] = x /\ \A y \in D \ {e} : h[y] = f[y]
  OBVIOUS
<1> HIDE DEF h
<1>4. SumFunctionOnSet(h, D) = x + SumFunctionOnSet(h, D \ {e})
  BY <1>3, SumRemove
<1>5. SumFunctionOnSet(h, D \ {e}) = rest
  BY <1>1, <1>3, SumSame
<1>6. rest \in Int /\ f[e] \in Int
  BY <1>1, SumType
<1>7. DOMAIN f = D /\ DOMAIN h = D
  BY <1>3
<1> HIDE DEF rest
<1>8. SumFunctionOnSet(h, D) = SumFunctionOnSet(f, D) - f[e] + x
  BY <1>2, <1>4, <1>5, <1>6
<1> QED
  BY <1>7, <1>8 DEF SumFunction, h

\* The sum of no terms, and of functions that have the same terms.
LEMMA SumEmpty ==
  ASSUME NEW f, DOMAIN f = {}
  PROVE  SumFunction(f) = 0
BY FS_EmptySet, SumUnfold DEF SumFunction

\* Equal terms have an equal sum.
LEMMA SumEqual ==
  ASSUME NEW f, NEW h, IsFiniteSet(DOMAIN f), DOMAIN f = DOMAIN h,
         \A x \in DOMAIN f : f[x] = h[x]
  PROVE  SumFunction(f) = SumFunction(h)
BY SumSame DEF SumFunction

\* h has the terms of f, which are over D, and one more, for e.
Extends(h, f, D, e) ==
  /\ IsFiniteSet(D) /\ e \notin D
  /\ DOMAIN f = D /\ DOMAIN h = D \cup {e}
  /\ h[e] \in Int
  /\ \A x \in D : f[x] \in Int /\ h[x] = f[x]

\* A sum after a term has been added.
LEMMA SumExtend ==
  ASSUME NEW D, NEW e, NEW f, NEW h, Extends(h, f, D, e)
  PROVE  SumFunction(h) = SumFunction(f) + h[e]
<1> USE DEF Extends
<1>1. IsFiniteSet(D \cup {e})
  BY FS_AddElement
<1>2. SumFunctionOnSet(h, D \cup {e}) = h[e] + SumFunctionOnSet(h, (D \cup {e}) \ {e})
  BY <1>1, SumRemove
<1>3. (D \cup {e}) \ {e} = D
  OBVIOUS
<1>4. SumFunctionOnSet(h, D) = SumFunctionOnSet(f, D)
  BY SumSame
<1>5. SumFunctionOnSet(f, D) \in Int /\ h[e] \in Int
  <2>1. \A x \in D : f[x] \in Int
    OBVIOUS
  <2>2. h[e] \in Int
    OBVIOUS
  <2> QED
    BY <2>1, <2>2, SumType
<1>6. SumFunctionOnSet(h, D \cup {e}) = SumFunctionOnSet(f, D) + h[e]
  <2>1. SumFunctionOnSet(h, D \cup {e}) = h[e] + SumFunctionOnSet(f, D)
    BY <1>2, <1>3, <1>4, Zenon
  <2> QED
    BY <1>5, <2>1
<1>7. DOMAIN h = D \cup {e} /\ DOMAIN f = D
  OBVIOUS
<1> QED
  BY <1>6, <1>7 DEF SumFunction

-----------------------------------------------------------------------------
(* The history and the two actions.                                        *)

Trade == [p : Prices, v : Volumes]

\* All symbols have the same minutes.
HistoryType ==
  /\ trades \in [Symbols -> Seq(Seq(Trade))]
  /\ Minute \in Nat \ {0}
  /\ \A s \in Symbols : Len(trades[s]) = Minute

\* The constants as the provers need them.
LEMMA Constants ==
  /\ 0 \in Symbols /\ WINDOW \in Nat \ {0} /\ CANDLESTICK_IS_EMPTY = -1
  /\ \A p \in Prices : p \in Int /\ p > -1
  /\ \A v \in Volumes : v \in Int /\ v >= 0
BY TradeAssumption DEF Symbols, CANDLESTICK_IS_EMPTY

\* The types the fields of a buffer have: of any double, and without NaN.
Numeric(T) == T = Int \/ T = Double

\* Sums of doubles are doubles, and sums of integers are integers.
LEMMA NumericSums ==
  ASSUME NEW T, Numeric(T), NEW x \in T, NEW y \in T
  PROVE  Plus(x, y) \in T /\ Minus(x, y) \in T
<1>1. CASE T = Int
  BY <1>1, TradeAssumption DEF Plus, Minus
<1>2. CASE T = Double
  <2>1. CASE NaN \in {x, y}
    BY <1>2, <2>1 DEF Plus, Minus, Double
  <2>2. CASE NaN \notin {x, y}
    BY <1>2, <2>2 DEF Plus, Minus, Double
  <2> QED
    BY <2>1, <2>2
<1> QED
  BY <1>1, <1>2 DEF Numeric

\* Without NaN the sums are those of integers.
LEMMA IntSums ==
  ASSUME NEW x \in Int, NEW y \in Int
  PROVE  Plus(x, y) = x + y /\ Minus(x, y) = x - y
BY TradeAssumption DEF Plus, Minus

\* Both types of a buffer, as TypeOK has them.
LEMMA BufferTypes ==
  ASSUME TypeOK, NEW s \in Symbols
  PROVE  /\ buffers[s].candlestick \in CandlestickOf(Double)
         /\ buffers[s].avg_info \in MovingAverageInfoOf(Double)
         /\ s # 0 => /\ buffers[s].candlestick \in CandlestickOf(Int)
                     /\ buffers[s].avg_info \in MovingAverageInfoOf(Int)
<1>1. buffers[s] \in CalculatorBufferOf(Double)
  BY DEF TypeOK
<1>2. s # 0 => buffers[s] \in CalculatorBufferOf(Int)
  BY DEF TypeOK
<1> QED
  BY <1>1, <1>2 DEF CalculatorBufferOf

\* The candlestick after a trade, field by field.
LEMMA AfterTradeFields ==
  ASSUME NEW T, Numeric(T), NEW c \in CandlestickOf(T), NEW p \in Prices, NEW v \in Volumes
  PROVE  LET d == AfterTrade(c, p, v)
         IN  /\ d \in CandlestickOf(T)
             /\ d.volume = Plus(c.volume, v)
             /\ d.close = p
             /\ c.open > -1 => /\ d.open = c.open
                               /\ d.max = IF p > c.max THEN p ELSE c.max
                               /\ d.min = IF p <= c.max /\ p < c.min THEN p ELSE c.min
             /\ ~ (c.open > -1) => d.open = p /\ d.max = p /\ d.min = p
<1> DEFINE t == Traded(c, p)
           d == AfterTrade(c, p, v)
<1>0. p \in Int /\ v \in Int /\ Weight(v) * p \in Int
  <2>1. p \in Int /\ v \in Int
    BY Constants
  <2>2. Weight(v) \in Int
    BY <2>1 DEF Weight
  <2> QED
    BY <2>1, <2>2
<1>9. p \in T /\ v \in T /\ Weight(v) * p \in T
  BY <1>0 DEF Numeric, Double
<1>1. /\ t \in CandlestickOf(T) /\ t.volume = c.volume /\ t.close = p
      /\ c.open > -1 => /\ t.open = c.open
                        /\ t.max = IF p > c.max THEN p ELSE c.max
                        /\ t.min = IF p <= c.max /\ p < c.min THEN p ELSE c.min
      /\ ~ (c.open > -1) => t.open = p /\ t.max = p /\ t.min = p
  BY <1>0, <1>9, Constants DEF Traded, CandlestickOf
<1> DEFINE w == Weight(v) * p
<1>2. d = [t EXCEPT !.volume = Plus(@, v), !.weighted_price = Plus(@, w)]
  BY DEF AfterTrade
<1> HIDE DEF t, w, d
<1>3. w \in T
  BY <1>9 DEF w
<1>4. /\ d \in CandlestickOf(T) /\ d.volume = Plus(t.volume, v) /\ d.close = t.close
      /\ d.open = t.open /\ d.max = t.max /\ d.min = t.min
  <2>1. t \in CandlestickOf(T) /\ v \in T
    BY <1>9, <1>1
  <2> DEFINE x == Plus(t.volume, v)
             y == Plus(t.weighted_price, w)
  <2>5. x \in T /\ y \in T
    <3>1. t.volume \in T /\ t.weighted_price \in T
      BY <2>1 DEF CandlestickOf
    <3> QED
      BY <1>3, <2>1, <3>1, NumericSums
  <2>6. d = [t EXCEPT !.volume = x, !.weighted_price = y]
    BY <1>2
  <2> HIDE DEF x, y
  <2>2. d = [max |-> t.max, min |-> t.min, open |-> t.open, close |-> t.close,
             volume |-> x, weighted_price |-> y]
    BY <2>1, <2>6 DEF CandlestickOf
  <2>3. /\ d.volume = x /\ d.close = t.close
        /\ d.open = t.open /\ d.max = t.max /\ d.min = t.min
    BY <2>2
  <2>4. d \in CandlestickOf(T)
    BY <2>1, <2>2, <2>5 DEF CandlestickOf
  <2> QED
    BY <2>3, <2>4 DEF x
<1> QED
  BY <1>1, <1>4 DEF d

\* What add_trade_to_buffers changes: the candlestick of the symbol and its
\* current minute.
LEMMA TradeFrame ==
  ASSUME HistoryType, TypeOK, NEW s \in Symbols, NEW p \in Prices, NEW v \in Volumes,
         add_trade_to_buffers(s, p, v)
  PROVE  /\ Minute' = Minute
         /\ trades' \in [Symbols -> Seq(Seq(Trade))]
         /\ \A r \in Symbols : Len(trades'[r]) = Len(trades[r])
         /\ \A r \in Symbols \ {s} : trades'[r] = trades[r] /\ buffers'[r] = buffers[r]
         /\ \A m \in 1..Minute : m # Minute => trades'[s][m] = trades[s][m]
         /\ trades'[s][Minute] = Append(trades[s][Minute], [p |-> p, v |-> v])
         /\ buffers'[s].avg_info = buffers[s].avg_info
         /\ buffers'[s].candlestick = AfterTrade(buffers[s].candlestick, p, v)
         /\ TypeOK'
         /\ UNCHANGED <<candle_row, avg_row>>
<1> DEFINE now == trades[s][Minute]
           new == Append(now, [p |-> p, v |-> v])
           M == Minute
           c == AfterTrade(buffers[s].candlestick, p, v)
<1>0. M \in 1..Len(trades[s]) /\ trades[s] \in Seq(Seq(Trade)) /\ now \in Seq(Trade)
  <2>1. M \in 1..Len(trades[s]) /\ trades[s] \in Seq(Seq(Trade))
    BY DEF HistoryType
  <2> HIDE DEF M
  <2>2. trades[s][M] \in Seq(Trade)
    BY <2>1
  <2> QED
    BY <2>1, <2>2 DEF M
<1>1. new \in Seq(Trade)
  <2>1. [p |-> p, v |-> v] \in Trade
    BY DEF Trade
  <2> HIDE DEF now
  <2> QED
    BY <1>0, <2>1
<1>2. trades' = [trades EXCEPT ![s] = [trades[s] EXCEPT ![M] = new]]
  BY DEF add_trade_to_buffers
<1>3. buffers' = [buffers EXCEPT ![s] = [buffers[s] EXCEPT !.candlestick = c]]
  BY DEF add_trade_to_buffers
<1>4. UNCHANGED <<candle_row, avg_row>>
  BY DEF add_trade_to_buffers
<1> DEFINE t == [trades[s] EXCEPT ![M] = new]
<1>5. /\ t \in Seq(Seq(Trade)) /\ Len(t) = Len(trades[s]) /\ t[M] = new
      /\ \A m \in 1..Len(trades[s]) : m # M => t[m] = trades[s][m]
  <2> HIDE DEF M, new, now
  <2> QED
    BY <1>0, <1>1
<1>6. trades' = [trades EXCEPT ![s] = t]
  BY <1>2
<1>7. /\ trades' \in [Symbols -> Seq(Seq(Trade))]
      /\ \A r \in Symbols : Len(trades'[r]) = Len(trades[r])
      /\ \A r \in Symbols \ {s} : trades'[r] = trades[r]
      /\ trades'[s] = t
  <2> HIDE DEF t
  <2> QED
    BY <1>5, <1>6 DEF HistoryType
<1>8. Minute' = Minute
  BY <1>7, Constants DEF Minute
<1>9. /\ \A m \in 1..Minute : m # Minute => trades'[s][m] = trades[s][m]
      /\ trades'[s][Minute] = new
  <2> HIDE DEF t, new, now
  <2> QED
    BY <1>5, <1>7 DEF HistoryType
<1>10. /\ \A r \in Symbols \ {s} : buffers'[r] = buffers[r]
       /\ buffers'[s].avg_info = buffers[s].avg_info
       /\ buffers'[s].candlestick = c
       /\ TypeOK'
  <2>1. /\ c \in CandlestickOf(Double)
        /\ s # 0 => c \in CandlestickOf(Int)
    BY BufferTypes, AfterTradeFields DEF Numeric
  <2> HIDE DEF c
  <2>2. DOMAIN buffers = Symbols /\ buffers[s] \in CalculatorBufferOf(Double)
    BY DEF TypeOK
  <2>3. buffers'[s] = [buffers[s] EXCEPT !.candlestick = c]
    BY <1>3, <2>2
  <2>4. buffers'[s] = [candlestick |-> c, avg_info |-> buffers[s].avg_info]
    BY <2>2, <2>3 DEF CalculatorBufferOf
  <2>5. /\ buffers'[s].avg_info = buffers[s].avg_info
        /\ buffers'[s].candlestick = c
    BY <2>4
  <2>6. \A r \in Symbols \ {s} : buffers'[r] = buffers[r]
    BY <1>3
  <2>7. /\ buffers'[s] \in CalculatorBufferOf(Double)
        /\ s # 0 => buffers'[s] \in CalculatorBufferOf(Int)
    BY <2>1, <2>4, BufferTypes DEF CalculatorBufferOf
  <2>8. buffers' = [r \in Symbols |-> buffers'[r]]
    BY <1>3, <2>2
  <2>9. \A r \in Symbols :
          /\ buffers'[r] \in CalculatorBufferOf(Double)
          /\ r # 0 => buffers'[r] \in CalculatorBufferOf(Int)
    BY <2>6, <2>7 DEF TypeOK
  <2>10. TypeOK'
    BY <2>8, <2>9 DEF TypeOK
  <2> QED
    BY <2>5, <2>6, <2>10
<1> QED
  BY <1>4, <1>7, <1>8, <1>9, <1>10

\* The averages part after a directive, field by field.
LEMMA AdvanceFields ==
  ASSUME NEW T, Numeric(T), NEW a \in MovingAverageInfoOf(T), NEW c \in CandlestickOf(T)
  PROVE  LET b == Advance(a, c)
             o == a.oldest_index
         IN  /\ b \in MovingAverageInfoOf(T)
             /\ b.oldest_index = (o + 1) % WINDOW
             /\ b.minute_volumes = [a.minute_volumes EXCEPT ![o] = c.volume]
             /\ b.weighted_prices = [a.weighted_prices EXCEPT ![o] = c.weighted_price]
             /\ b.total_15min_volume
                  = Plus(Minus(a.total_15min_volume, a.minute_volumes[o]), c.volume)
             /\ b.total_15min_weighted_price
                  = Plus(Minus(a.total_15min_weighted_price, a.weighted_prices[o]),
                         c.weighted_price)
<1> DEFINE o == a.oldest_index
           volumes == [a.minute_volumes EXCEPT ![o] = c.volume]
           weighted == [a.weighted_prices EXCEPT ![o] = c.weighted_price]
           total == Plus(Minus(a.total_15min_volume, a.minute_volumes[o]), c.volume)
           totalw == Plus(Minus(a.total_15min_weighted_price, a.weighted_prices[o]),
                          c.weighted_price)
           next == (o + 1) % WINDOW
           r == Replace(a, c)
           b == Advance(a, c)
<1>1. /\ o \in 0..(WINDOW - 1) /\ a.total_15min_volume \in T
      /\ a.total_15min_weighted_price \in T
      /\ a.minute_volumes \in [0..(WINDOW - 1) -> T]
      /\ a.weighted_prices \in [0..(WINDOW - 1) -> T]
      /\ c.volume \in T /\ c.weighted_price \in T
  BY DEF MovingAverageInfoOf, CandlestickOf
<1>2. /\ volumes \in [0..(WINDOW - 1) -> T]
      /\ weighted \in [0..(WINDOW - 1) -> T]
      /\ total \in T /\ totalw \in T
  <2>1. volumes \in [0..(WINDOW - 1) -> T] /\ weighted \in [0..(WINDOW - 1) -> T]
    <3> HIDE DEF o
    <3> QED
      BY <1>1
  <2>2. a.minute_volumes[o] \in T /\ a.weighted_prices[o] \in T
    <3> HIDE DEF o
    <3> QED
      BY <1>1
  <2>5. /\ Minus(a.total_15min_volume, a.minute_volumes[o]) \in T
        /\ Minus(a.total_15min_weighted_price, a.weighted_prices[o]) \in T
    BY <1>1, <2>2, NumericSums
  <2>3. total \in T
    BY <1>1, <2>5, NumericSums
  <2>4. totalw \in T
    BY <1>1, <2>5, NumericSums
  <2> QED
    BY <2>1, <2>3, <2>4
<1>3. next \in 0..(WINDOW - 1)
  <2>1. o + 1 \in Nat /\ WINDOW \in Nat \ {0}
    BY <1>1, Constants, SMTT(30)
  <2> DEFINE k == o + 1
  <2> HIDE DEF k
  <2>2. k % WINDOW \in 0..(WINDOW - 1)
    BY <2>1 DEF k
  <2> QED
    BY <2>2 DEF k
<1>4. r = [a EXCEPT !.total_15min_volume = total, !.minute_volumes = volumes,
                    !.total_15min_weighted_price = totalw, !.weighted_prices = weighted]
  BY DEF Replace
<1>5. b = [r EXCEPT !.oldest_index = (r.oldest_index + 1) % WINDOW]
  BY DEF Advance
<1> HIDE DEF volumes, weighted, total, totalw, next, r, b
<1>6. r = [total_15min_volume |-> total, minute_volumes |-> volumes,
           total_15min_weighted_price |-> totalw, weighted_prices |-> weighted,
           oldest_index |-> o]
  BY <1>4 DEF MovingAverageInfoOf
<1>7. b = [total_15min_volume |-> total, minute_volumes |-> volumes,
           total_15min_weighted_price |-> totalw, weighted_prices |-> weighted,
           oldest_index |-> next]
  BY <1>5, <1>6 DEF next
<1>8. b \in MovingAverageInfoOf(T)
  BY <1>2, <1>3, <1>7 DEF MovingAverageInfoOf
<1>9. /\ b.oldest_index = next /\ b.minute_volumes = volumes
      /\ b.weighted_prices = weighted /\ b.total_15min_volume = total
      /\ b.total_15min_weighted_price = totalw
  BY <1>7
<1> QED
  BY <1>8, <1>9 DEF b, next, volumes, weighted, total, totalw

\* A candlestick that is marked empty keeps its close.
LEMMA ResetFields ==
  ASSUME NEW T, Numeric(T), NEW c \in CandlestickOf(T)
  PROVE  /\ Reset(c) \in CandlestickOf(T)
         /\ Reset(c).open = -1 /\ Reset(c).volume = 0 /\ Reset(c).close = c.close
<1> DEFINE e == CANDLESTICK_IS_EMPTY
           zero == 0
           d == Reset(c)
<1>1. d = [c EXCEPT !.open = e, !.volume = zero]
  BY DEF Reset
<1>2. e = -1 /\ zero = 0 /\ e \in Int /\ zero \in T
  BY Constants DEF Numeric, Double
<1> HIDE DEF e, zero, d
<1>3. d = [max |-> c.max, min |-> c.min, open |-> e, close |-> c.close,
           volume |-> zero, weighted_price |-> c.weighted_price]
  BY <1>1 DEF CandlestickOf
<1>4. d.open = e /\ d.volume = zero /\ d.close = c.close
  BY <1>3
<1>5. d \in CandlestickOf(T)
  BY <1>2, <1>3 DEF CandlestickOf
<1> QED
  BY <1>2, <1>4, <1>5 DEF d

\* What write_and_reset_buffers does for each symbol: the minute is over.
LEMMA DirectiveFrame ==
  ASSUME HistoryType, TypeOK, write_and_reset_buffers
  PROVE  /\ Minute' = Minute + 1
         /\ HistoryType' /\ TypeOK'
         /\ \A s \in Symbols :
              /\ \A m \in 1..Minute : trades'[s][m] = trades[s][m]
              /\ trades'[s][Minute + 1] = <<>>
              /\ buffers'[s].candlestick = Reset(buffers[s].candlestick)
              /\ buffers'[s].avg_info
                   = Advance(buffers[s].avg_info, buffers[s].candlestick)
              /\ candle_row'[s] = CandleRow(buffers[s].candlestick)
              /\ avg_row'[s] =
                   <<[average |-> MovingAverage(buffers'[s].avg_info, buffers[s].candlestick),
                      volume |-> buffers'[s].avg_info.total_15min_volume]>>
<1>1. ASSUME NEW s \in Symbols
      PROVE  /\ trades'[s] = Append(trades[s], <<>>)
             /\ buffers'[s] = [candlestick |-> Reset(buffers[s].candlestick),
                               avg_info |-> Advance(buffers[s].avg_info,
                                                    buffers[s].candlestick)]
             /\ candle_row'[s] = CandleRow(buffers[s].candlestick)
             /\ avg_row'[s] =
                  <<[average |-> MovingAverage(Advance(buffers[s].avg_info,
                                                       buffers[s].candlestick),
                                               buffers[s].candlestick),
                     volume |-> Advance(buffers[s].avg_info,
                                        buffers[s].candlestick).total_15min_volume]>>
  BY DEF write_and_reset_buffers
<1>2. ASSUME NEW s \in Symbols
      PROVE  /\ trades'[s] \in Seq(Seq(Trade)) /\ Len(trades'[s]) = Minute + 1
             /\ \A m \in 1..Minute : trades'[s][m] = trades[s][m]
             /\ trades'[s][Minute + 1] = <<>>
  <2>1. trades[s] \in Seq(Seq(Trade)) /\ Len(trades[s]) = Minute
    BY DEF HistoryType
  <2>2. <<>> \in Seq(Trade)
    OBVIOUS
  <2>3. trades'[s] = Append(trades[s], <<>>)
    BY <1>1
  <2> DEFINE x == <<>>
  <2>4. x \in Seq(Trade) /\ trades'[s] = Append(trades[s], x)
    BY <2>2, <2>3
  <2>5. Minute \in Nat
    BY DEF HistoryType
  <2> HIDE DEF x
  <2>6. trades'[s] \in Seq(Seq(Trade)) /\ Len(trades'[s]) = Minute + 1
    BY <2>1, <2>4
  <2>7. /\ \A m \in 1..Minute : trades'[s][m] = trades[s][m]
        /\ trades'[s][Minute + 1] = x
    BY <2>1, <2>4, <2>5
  <2> QED
    BY <2>6, <2>7 DEF x
<1>3. Minute' = Minute + 1
  BY <1>2, Constants DEF Minute
<1>4. HistoryType'
  <2>1. trades' = [s \in Symbols |-> trades'[s]]
    BY DEF write_and_reset_buffers
  <2>2. trades' \in [Symbols -> Seq(Seq(Trade))]
    BY <1>2, <2>1
  <2>3. Minute' \in Nat \ {0}
    BY <1>3 DEF HistoryType
  <2> QED
    BY <1>2, <1>3, <2>2, <2>3 DEF HistoryType
<1>5. ASSUME NEW s \in Symbols, NEW T, Numeric(T),
             buffers[s].candlestick \in CandlestickOf(T),
             buffers[s].avg_info \in MovingAverageInfoOf(T)
      PROVE  buffers'[s] \in CalculatorBufferOf(T)
  <2>2. Reset(buffers[s].candlestick) \in CandlestickOf(T)
    BY <1>5, ResetFields
  <2>3. Advance(buffers[s].avg_info, buffers[s].candlestick) \in MovingAverageInfoOf(T)
    BY <1>5, AdvanceFields
  <2>4. buffers'[s] = [candlestick |-> Reset(buffers[s].candlestick),
                       avg_info |-> Advance(buffers[s].avg_info, buffers[s].candlestick)]
    BY <1>1
  <2> QED
    BY <2>2, <2>3, <2>4 DEF CalculatorBufferOf
<1>6. TypeOK'
  <2>1. buffers' = [s \in Symbols |-> buffers'[s]]
    BY DEF write_and_reset_buffers
  <2>2. \A s \in Symbols :
          /\ buffers'[s] \in CalculatorBufferOf(Double)
          /\ s # 0 => buffers'[s] \in CalculatorBufferOf(Int)
    BY <1>5, BufferTypes DEF Numeric
  <2> QED
    BY <2>1, <2>2 DEF TypeOK
<1>7. ASSUME NEW s \in Symbols
      PROVE  /\ buffers'[s].candlestick = Reset(buffers[s].candlestick)
             /\ buffers'[s].avg_info = Advance(buffers[s].avg_info, buffers[s].candlestick)
  <2>1. buffers'[s] = [candlestick |-> Reset(buffers[s].candlestick),
                       avg_info |-> Advance(buffers[s].avg_info, buffers[s].candlestick)]
    BY <1>1
  <2> QED
    BY <2>1
<1> QED
  BY <1>1, <1>2, <1>3, <1>4, <1>6, <1>7

-----------------------------------------------------------------------------
(* The volume of a minute.                                                 *)

\* A minute without trades has no volume.
LEMMA VolumeEmpty == Volume(<<>>) = 0
<1> DEFINE f == [k \in DOMAIN <<>> |-> <<>>[k].v]
<1>1. DOMAIN f = {}
  OBVIOUS
<1> HIDE DEF f
<1>2. SumFunction(f) = 0
  BY <1>1, SumEmpty
<1> QED
  BY <1>2 DEF Volume, f

\* The volume of a minute is an integer.
LEMMA VolumeType ==
  ASSUME NEW minute \in Seq(Trade)
  PROVE  Volume(minute) \in Int
<1> DEFINE f == [k \in DOMAIN minute |-> minute[k].v]
<1>1. IsFiniteSet(DOMAIN f)
  <2>1. DOMAIN f = 1..Len(minute) /\ Len(minute) \in Int
    OBVIOUS
  <2> QED
    BY <2>1, FS_Interval
<1>2. \A k \in DOMAIN f : f[k] \in Int
  <2>1. \A k \in DOMAIN minute : minute[k] \in Trade
    OBVIOUS
  <2>2. \A x \in Trade : x.v \in Int
    BY Constants DEF Trade
  <2> QED
    BY <2>1, <2>2
<1> HIDE DEF f
<1>3. SumFunctionOnSet(f, DOMAIN f) \in Int
  BY <1>1, <1>2, SumType
<1> QED
  BY <1>3 DEF Volume, SumFunction, f

\* A trade adds its volume to the minute.
LEMMA VolumeExtend ==
  ASSUME NEW minute, NEW next, NEW n \in Nat, DOMAIN minute = 1..n, DOMAIN next = 1..(n + 1),
         \A k \in 1..n : next[k] = minute[k] /\ minute[k].v \in Int, next[n + 1].v \in Int
  PROVE  Volume(next) = Volume(minute) + next[n + 1].v
<1> DEFINE f == [k \in DOMAIN minute |-> minute[k].v]
           h == [k \in DOMAIN next |-> next[k].v]
           D == 1..n
           e == n + 1
<1>1. 1..(n + 1) = D \cup {e} /\ e \notin D
  OBVIOUS
<1>2. DOMAIN f = D /\ DOMAIN h = D \cup {e}
  BY <1>1
<1>3. \A k \in D : f[k] \in Int /\ h[k] = f[k]
  BY <1>1
<1>4. h[e] = next[n + 1].v
  BY <1>1
<1>5. IsFiniteSet(D)
  BY FS_Interval
<1> HIDE DEF f, h, D, e
<1>6. SumFunction(h) = SumFunction(f) + h[e]
  <2>1. Extends(h, f, D, e)
    BY <1>1, <1>2, <1>3, <1>4, <1>5 DEF Extends
  <2> QED
    BY <2>1, SumExtend
<1> QED
  BY <1>4, <1>6 DEF Volume, f, h

\* A trade adds its volume to the minute.
LEMMA VolumeAppend ==
  ASSUME NEW minute \in Seq(Trade), NEW t \in Trade
  PROVE  Volume(Append(minute, t)) = Volume(minute) + t.v
<1> DEFINE n == Len(minute)
           next == Append(minute, t)
<1>1. /\ n \in Nat /\ DOMAIN minute = 1..n /\ DOMAIN next = 1..(n + 1)
      /\ next[n + 1] = t /\ \A k \in 1..n : next[k] = minute[k]
  OBVIOUS
<1>2. \A x \in Trade : x.v \in Int
  BY Constants DEF Trade
<1>3. \A k \in 1..n : minute[k].v \in Int
  BY <1>2
<1> HIDE DEF n, next
<1>4. Volume(next) = Volume(minute) + next[n + 1].v
  BY <1>1, <1>2, <1>3, VolumeExtend
<1> QED
  BY <1>1, <1>4 DEF next

-----------------------------------------------------------------------------
(* The candlestick of the current minute.                                  *)

\* The first part of CandleMatchesTrades, for one candlestick.
CandleOf(c, minute) ==
  /\ c.open = -1 <=> minute = <<>>
  /\ minute # <<>> => IsCandleOf(c, minute)

\* A trade makes the candlestick of a minute the one of the minute with it.
LEMMA CandleTrade ==
  ASSUME NEW c \in CandlestickOf(Double), NEW minute \in Seq(Trade), CandleOf(c, minute),
         NEW p \in Prices, NEW v \in Volumes
  PROVE  CandleOf(AfterTrade(c, p, v), Append(minute, [p |-> p, v |-> v]))
<1> DEFINE d == AfterTrade(c, p, v)
           t == [p |-> p, v |-> v]
           next == Append(minute, t)
           n == Len(minute)
           prices == {minute[k].p : k \in DOMAIN minute}
           nextprices == {next[k].p : k \in DOMAIN next}
<1>1. /\ d.close = p
      /\ c.open > -1 => /\ d.open = c.open
                        /\ d.max = IF p > c.max THEN p ELSE c.max
                        /\ d.min = IF p <= c.max /\ p < c.min THEN p ELSE c.min
      /\ ~ (c.open > -1) => d.open = p /\ d.max = p /\ d.min = p
  BY AfterTradeFields DEF Numeric
<1>2. p \in Int /\ p > -1 /\ t.p = p /\ t \in Trade
  BY Constants DEF Trade
<1> HIDE DEF t, d
<1>3. /\ n \in Nat /\ DOMAIN minute = 1..n /\ DOMAIN next = 1..(n + 1)
      /\ next[n + 1] = t /\ \A k \in 1..n : next[k] = minute[k]
      /\ Len(next) = n + 1 /\ next # <<>>
  BY <1>2
<1>4. n = 0 <=> minute = <<>>
  OBVIOUS
<1>5. \A k \in 1..n : minute[k].p \in Prices
  <2>1. \A k \in 1..n : minute[k] \in Trade
    OBVIOUS
  <2> QED
    BY <2>1 DEF Trade
<1> HIDE DEF next, n
<1>6. nextprices = prices \cup {p}
  <2>1. 1..(n + 1) = (1..n) \cup {n + 1}
    BY <1>3
  <2> QED
    BY <1>2, <1>3, <2>1
<1>7. next[Len(next)].p = p
  BY <1>2, <1>3
<1>8. CASE minute = <<>>
  <2>1. prices = {}
    BY <1>3, <1>4, <1>8
  <2>2. next[1].p = p
    BY <1>2, <1>3, <1>4, <1>8
  <2>3. d.open = p /\ d.max = p /\ d.min = p
    BY <1>1, <1>8 DEF CandleOf, CandlestickOf
  <2>4. \A q \in nextprices : d.min <= q /\ q <= d.max
    <3>1. nextprices = {p}
      <4> HIDE DEF prices, nextprices
      <4> QED
        BY <1>6, <2>1
    <3> HIDE DEF nextprices
    <3> QED
      BY <1>2, <2>3, <3>1
  <2>5. {d.max, d.min} \subseteq nextprices
    BY <1>6, <2>3
  <2>6. d.open # -1
    BY <1>2, <2>3
  <2> HIDE DEF nextprices
  <2>7. IsCandleOf(d, next)
    BY <1>1, <1>7, <2>2, <2>3, <2>4, <2>5 DEF IsCandleOf, nextprices
  <2> QED
    BY <1>3, <2>6, <2>7 DEF CandleOf, d, next, t
<1>9. CASE minute # <<>>
  <2>0. n \in 1..n /\ 1 \in 1..n
    BY <1>3, <1>4, <1>9
  <2>1. /\ c.open = minute[1].p /\ {c.max, c.min} \subseteq prices
        /\ \A q \in prices : c.min <= q /\ q <= c.max
    BY <1>9 DEF CandleOf, IsCandleOf
  <2>2. \A q \in prices : q \in Int /\ q > -1
    BY <1>3, <1>5, Constants
  <2>3. c.open > -1
    BY <1>5, <2>0, <2>1, Constants
  <2>4. next[1].p = c.open
    BY <1>3, <2>0, <2>1
  <2>5. /\ d.open = c.open /\ d.max = IF p > c.max THEN p ELSE c.max
        /\ d.min = IF p <= c.max /\ p < c.min THEN p ELSE c.min
    BY <1>1, <2>3
  <2>6. c.max \in Int /\ c.min \in Int /\ c.min <= c.max
    BY <2>1, <2>2
  <2> HIDE DEF prices, nextprices
  <2>7. {d.max, d.min} \subseteq nextprices
    BY <1>6, <2>1, <2>5
  <2>8. \A q \in nextprices : d.min <= q /\ q <= d.max
    BY <1>2, <1>6, <2>1, <2>2, <2>5, <2>6
  <2>9. IsCandleOf(d, next)
    BY <1>1, <1>7, <2>4, <2>5, <2>7, <2>8 DEF IsCandleOf, nextprices
  <2>10. d.open # -1
    BY <2>3, <2>5
  <2> QED
    BY <1>3, <2>9, <2>10 DEF CandleOf, d, next, t
<1> QED
  BY <1>8, <1>9

-----------------------------------------------------------------------------
(* The close of the latest minute with trades.                             *)

\* A set of numbers up to n has a largest member.
LEMMA Largest ==
  ASSUME NEW n \in Nat, NEW S, S \subseteq 1..n, S # {}
  PROVE  \E m \in S : \A k \in S : k <= m
<1> DEFINE T == {i \in Nat : n - i \in S}
<1>1. T # {}
  <2>1. PICK m \in S : TRUE
    OBVIOUS
  <2>2. m \in 1..n
    BY <2>1
  <2>3. n - m \in Nat /\ n - (n - m) = m
    BY <2>2
  <2>4. n - m \in T
    BY <2>1, <2>3
  <2> QED
    BY <2>4
<1>2. PICK i \in T : \A j \in T : ~ (<<j, i>> \in OpToRel(<, Nat))
  <2>1. T \subseteq Nat
    OBVIOUS
  <2>2. IsWellFoundedOn(OpToRel(<, Nat), Nat)
    BY NatLessThanWellFounded
  <2> HIDE DEF T
  <2> QED
    BY <1>1, <2>1, <2>2, WFMin
<1>3. \A j \in T : ~ (j < i)
  <2> HIDE DEF T
  <2>1. T \subseteq Nat
    BY DEF T
  <2> QED
    BY <1>2, <2>1 DEF OpToRel
<1>4. n - i \in S /\ i \in Nat
  OBVIOUS
<1>5. ASSUME NEW k \in S
      PROVE  k <= n - i
  <2>1. k \in 1..n
    OBVIOUS
  <2>2. n - k \in Nat /\ n - (n - k) = k
    BY <2>1
  <2>3. n - k \in T
    BY <2>2
  <2>4. ~ (n - k < i)
    BY <1>3, <2>3
  <2> QED
    BY <1>4, <2>1, <2>4
<1> QED
  BY <1>4, <1>5

\* The last close is about the first n minutes only.
LEMMA LastCloseSame ==
  ASSUME NEW n \in Nat, NEW h, NEW g, \A m \in 1..n : g[m] = h[m]
  PROVE  TradedMinutes(g, n) = TradedMinutes(h, n) /\ LastClose(g, n) = LastClose(h, n)
<1>1. TradedMinutes(g, n) = TradedMinutes(h, n)
  BY DEF TradedMinutes
<1> DEFINE S == TradedMinutes(h, n)
           latest == CHOOSE m \in S : \A k \in S : k <= m
<1>2. S \subseteq 1..n
  BY DEF TradedMinutes
<1> HIDE DEF S
<1>3. ASSUME S # {}
      PROVE  latest \in S
  <2>1. \E m \in S : \A k \in S : k <= m
    BY <1>2, <1>3, Largest
  <2> QED
    BY <2>1
<1> HIDE DEF latest
<1>4. S # {} => g[latest] = h[latest]
  BY <1>2, <1>3
<1>5. LastClose(h, n) = IF S = {} THEN CANDLESTICK_IS_EMPTY
                        ELSE h[latest][Len(h[latest])].p
  BY DEF LastClose, S, latest
<1>6. LastClose(g, n) = IF S = {} THEN CANDLESTICK_IS_EMPTY
                        ELSE g[latest][Len(g[latest])].p
  BY <1>1 DEF LastClose, S, latest
<1> QED
  BY <1>1, <1>4, <1>5, <1>6

\* A minute with trades gives the last close ...
LEMMA LastCloseTraded ==
  ASSUME NEW n \in Nat \ {0}, NEW h, h[n] # <<>>
  PROVE  n \in TradedMinutes(h, n) /\ LastClose(h, n) = h[n][Len(h[n])].p
<1> DEFINE S == TradedMinutes(h, n)
           latest == CHOOSE m \in S : \A k \in S : k <= m
<1>1. n \in S /\ \A k \in S : k \in Int /\ k <= n
  BY DEF TradedMinutes
<1> HIDE DEF S
<1>2. latest \in S /\ \A k \in S : k <= latest
  BY <1>1
<1> HIDE DEF latest
<1>3. latest = n
  BY <1>1, <1>2
<1>4. LastClose(h, n) = IF S = {} THEN CANDLESTICK_IS_EMPTY
                        ELSE h[latest][Len(h[latest])].p
  BY DEF LastClose, S, latest
<1> QED
  BY <1>1, <1>3, <1>4 DEF S

\* ... and a minute without leaves it.
LEMMA LastCloseQuiet ==
  ASSUME NEW n \in Nat, NEW h, h[n + 1] = <<>>
  PROVE  /\ TradedMinutes(h, n + 1) = TradedMinutes(h, n)
         /\ LastClose(h, n + 1) = LastClose(h, n)
<1>1. TradedMinutes(h, n + 1) = TradedMinutes(h, n)
  <2>1. 1..(n + 1) = (1..n) \cup {n + 1}
    OBVIOUS
  <2> QED
    BY <2>1 DEF TradedMinutes
<1> DEFINE S == TradedMinutes(h, n)
           latest == CHOOSE m \in S : \A k \in S : k <= m
<1> HIDE DEF S, latest
<1>2. LastClose(h, n) = IF S = {} THEN CANDLESTICK_IS_EMPTY
                        ELSE h[latest][Len(h[latest])].p
  BY DEF LastClose, S, latest
<1>3. LastClose(h, n + 1) = IF S = {} THEN CANDLESTICK_IS_EMPTY
                            ELSE h[latest][Len(h[latest])].p
  <2> DEFINE next == n + 1
  <2>1. TradedMinutes(h, next) = TradedMinutes(h, n)
    BY <1>1
  <2> HIDE DEF next
  <2>2. LastClose(h, next) = IF S = {} THEN CANDLESTICK_IS_EMPTY
                             ELSE h[latest][Len(h[latest])].p
    BY <2>1 DEF LastClose, S, latest
  <2> QED
    BY <2>2 DEF next
<1> QED
  BY <1>1, <1>2, <1>3

-----------------------------------------------------------------------------
(* The candlesticks against the history.                                   *)

CandleInv == \A s \in Symbols : CandleOf(buffers[s].candlestick, trades[s][Minute])

VolumeInv ==
  \A s \in Symbols :
    ~ Tainted(s) => buffers[s].candlestick.volume = Volume(trades[s][Minute])

\* The close outlives its minute.
CloseInv ==
  \A s \in Symbols :
    /\ buffers[s].candlestick.close = LastClose(trades[s], Minute)
    /\ TradedMinutes(trades[s], Minute) # {} => buffers[s].candlestick.close \in Prices

BufferInv == HistoryType /\ TypeOK /\ CandleInv /\ VolumeInv /\ CloseInv

\* The history of a symbol.
LEMMA HistoryOf ==
  ASSUME HistoryType, NEW s \in Symbols
  PROVE  /\ Minute \in Nat \ {0} /\ trades[s] \in Seq(Seq(Trade)) /\ Len(trades[s]) = Minute
         /\ \A m \in 1..Minute : trades[s][m] \in Seq(Trade)
<1>1. Minute \in Nat \ {0} /\ trades[s] \in Seq(Seq(Trade)) /\ Len(trades[s]) = Minute
  BY DEF HistoryType
<1>2. ASSUME NEW m \in 1..Len(trades[s])
      PROVE  trades[s][m] \in Seq(Trade)
  BY <1>1
<1> QED
  BY <1>1, <1>2

\* A trade keeps the invariant of the buffers.
LEMMA BufferTrade ==
  ASSUME BufferInv, NEW s \in Symbols, NEW p \in Prices, NEW v \in Volumes,
         add_trade_to_buffers(s, p, v)
  PROVE  BufferInv'
<1> DEFINE t == [p |-> p, v |-> v]
           now == trades[s][Minute]
           c == buffers[s].candlestick
           d == AfterTrade(c, p, v)
<1>0. HistoryType /\ TypeOK
  BY DEF BufferInv
<1>1. /\ Minute' = Minute
      /\ trades' \in [Symbols -> Seq(Seq(Trade))]
      /\ \A r \in Symbols : Len(trades'[r]) = Len(trades[r])
      /\ \A r \in Symbols \ {s} : trades'[r] = trades[r] /\ buffers'[r] = buffers[r]
      /\ trades'[s][Minute] = Append(now, t)
      /\ buffers'[s].candlestick = d
      /\ TypeOK'
  BY <1>0, TradeFrame
<1>2. HistoryType'
  BY <1>0, <1>1 DEF HistoryType
<1>3. now \in Seq(Trade) /\ c \in CandlestickOf(Double) /\ t \in Trade /\ Minute \in Nat \ {0}
  <2>1. Minute \in 1..Minute /\ Minute \in Nat \ {0}
    BY <1>0, HistoryOf
  <2>2. now \in Seq(Trade)
    BY <1>0, <2>1, HistoryOf
  <2>3. c \in CandlestickOf(Double)
    BY <1>0, BufferTypes
  <2> QED
    BY <2>1, <2>2, <2>3 DEF Trade
<1>4. d.close = p /\ d.volume = Plus(c.volume, v)
  BY <1>3, AfterTradeFields DEF Numeric
<1>5. CandleOf(d, Append(now, t))
  <2>1. CandleOf(c, now)
    BY DEF BufferInv, CandleInv
  <2> QED
    BY <1>3, <2>1, CandleTrade
<1>6. Volume(Append(now, t)) = Volume(now) + v
  <2>1. t.v = v
    OBVIOUS
  <2> HIDE DEF t
  <2> QED
    BY <1>3, <2>1, VolumeAppend
<1>7. /\ TradedMinutes(trades'[s], Minute) # {}
      /\ LastClose(trades'[s], Minute) = p
  <2> DEFINE h == trades'[s]
             new == Append(now, t)
  <2>1. h[Minute] = new /\ new # <<>> /\ new[Len(new)] = t
    <3>1. h[Minute] = new
      BY <1>1
    <3>2. new # <<>> /\ new[Len(new)] = t
      <4> HIDE DEF now, t
      <4> QED
        BY <1>3
    <3> QED
      BY <3>1, <3>2
  <2>2. t.p = p
    OBVIOUS
  <2> HIDE DEF h, new, t
  <2>3. Minute \in TradedMinutes(h, Minute) /\ LastClose(h, Minute) = h[Minute][Len(h[Minute])].p
    BY <1>3, <2>1, LastCloseTraded
  <2> QED
    BY <2>1, <2>2, <2>3 DEF h
<1> HIDE DEF d, t, now, c
<1>8. CandleInv'
  <2> SUFFICES ASSUME NEW r \in Symbols
               PROVE  CandleOf(buffers'[r].candlestick, trades'[r][Minute])
    BY <1>1 DEF CandleInv
  <2>1. CASE r = s
    BY <1>1, <1>5, <2>1
  <2>2. CASE r # s
    BY <1>1, <2>2 DEF BufferInv, CandleInv
  <2> QED
    BY <2>1, <2>2
<1>9. VolumeInv'
  <2> SUFFICES ASSUME NEW r \in Symbols, ~ (r = 0 /\ Minute = 1)
               PROVE  buffers'[r].candlestick.volume = Volume(trades'[r][Minute])
    BY <1>1 DEF VolumeInv, Tainted
  <2>1. buffers[r].candlestick.volume = Volume(trades[r][Minute])
    BY DEF BufferInv, VolumeInv, Tainted
  <2>2. CASE r = s
    <3>1. c.volume = Volume(now)
      BY <2>1, <2>2 DEF c, now
    <3>2. Volume(now) \in Int /\ v \in Int
      BY <1>3, VolumeType, Constants
    <3>3. Plus(c.volume, v) = c.volume + v
      BY <3>1, <3>2, IntSums
    <3> QED
      BY <1>1, <1>4, <1>6, <2>2, <3>1, <3>3
  <2>3. CASE r # s
    BY <1>1, <2>1, <2>3
  <2> QED
    BY <2>2, <2>3
<1>10. CloseInv'
  <2> SUFFICES ASSUME NEW r \in Symbols
               PROVE  /\ buffers'[r].candlestick.close = LastClose(trades'[r], Minute)
                      /\ TradedMinutes(trades'[r], Minute) # {} =>
                           buffers'[r].candlestick.close \in Prices
    BY <1>1 DEF CloseInv
  <2>1. CASE r = s
    BY <1>1, <1>4, <1>7, <2>1
  <2>2. CASE r # s
    BY <1>1, <2>2 DEF BufferInv, CloseInv
  <2> QED
    BY <2>1, <2>2
<1> QED
  BY <1>1, <1>2, <1>8, <1>9, <1>10 DEF BufferInv

\* A directive keeps the invariant of the buffers.
LEMMA BufferDirective ==
  ASSUME BufferInv, write_and_reset_buffers
  PROVE  BufferInv'
<1>0. HistoryType /\ TypeOK
  BY DEF BufferInv
<1>1. /\ Minute' = Minute + 1 /\ HistoryType' /\ TypeOK'
      /\ \A s \in Symbols :
           /\ \A m \in 1..Minute : trades'[s][m] = trades[s][m]
           /\ trades'[s][Minute + 1] = <<>>
           /\ buffers'[s].candlestick = Reset(buffers[s].candlestick)
  BY <1>0, DirectiveFrame
<1>2. Minute \in Nat \ {0}
  BY <1>0, HistoryOf, Constants
<1>3. ASSUME NEW s \in Symbols
      PROVE  /\ buffers'[s].candlestick.open = -1
             /\ buffers'[s].candlestick.volume = 0
             /\ buffers'[s].candlestick.close = buffers[s].candlestick.close
  <2>1. buffers[s].candlestick \in CandlestickOf(Double)
    BY <1>0, BufferTypes
  <2> QED
    BY <1>1, <2>1, ResetFields DEF Numeric
<1>4. CandleInv'
  BY <1>1, <1>3 DEF CandleInv, CandleOf
<1>5. VolumeInv'
  BY <1>1, <1>3, VolumeEmpty DEF VolumeInv
<1>6. CloseInv'
  <2> SUFFICES ASSUME NEW s \in Symbols
               PROVE  /\ buffers'[s].candlestick.close = LastClose(trades'[s], Minute + 1)
                      /\ TradedMinutes(trades'[s], Minute + 1) # {} =>
                           buffers'[s].candlestick.close \in Prices
    BY <1>1 DEF CloseInv
  <2> DEFINE h == trades[s]
             g == trades'[s]
             n == Minute
  <2>1. n \in Nat /\ (\A m \in 1..n : g[m] = h[m]) /\ g[n + 1] = <<>>
    BY <1>1, <1>2
  <2>2. /\ buffers'[s].candlestick.close = LastClose(h, n)
        /\ TradedMinutes(h, n) # {} => buffers'[s].candlestick.close \in Prices
    BY <1>3 DEF BufferInv, CloseInv
  <2> HIDE DEF h, g, n
  <2>3. TradedMinutes(g, n + 1) = TradedMinutes(g, n) /\ LastClose(g, n + 1) = LastClose(g, n)
    BY <2>1, LastCloseQuiet
  <2>4. TradedMinutes(g, n) = TradedMinutes(h, n) /\ LastClose(g, n) = LastClose(h, n)
    BY <2>1, LastCloseSame
  <2>5. /\ buffers'[s].candlestick.close = LastClose(g, n + 1)
        /\ TradedMinutes(g, n + 1) # {} => buffers'[s].candlestick.close \in Prices
    BY <2>2, <2>3, <2>4
  <2> QED
    BY <2>5 DEF g, n
<1> QED
  BY <1>1, <1>4, <1>5, <1>6 DEF BufferInv

\* init_calculator_buffers establishes the invariant of the buffers.
LEMMA BufferInit == Init => BufferInv
<1> SUFFICES ASSUME Init
             PROVE  BufferInv
  OBVIOUS
<1>1. PICK g \in Garbage : buffers = [s \in Symbols |->
        [candlestick |->
           LET field == IF s = 0 THEN g ELSE 0
           IN  [max |-> field, min |-> field,
                open |-> CANDLESTICK_IS_EMPTY, close |-> CANDLESTICK_IS_EMPTY,
                volume |-> field, weighted_price |-> field],
         avg_info |->
           [total_15min_volume |-> 0,
            minute_volumes |-> [m \in 0..(WINDOW - 1) |-> 0],
            total_15min_weighted_price |-> 0,
            weighted_prices |-> [m \in 0..(WINDOW - 1) |-> 0],
            oldest_index |-> 0]]]
  BY DEF Init, init_calculator_buffers
<1> DEFINE field(s) == IF s = 0 THEN g ELSE 0
           candle(s) == [max |-> field(s), min |-> field(s),
                         open |-> CANDLESTICK_IS_EMPTY, close |-> CANDLESTICK_IS_EMPTY,
                         volume |-> field(s), weighted_price |-> field(s)]
           zeros == [m \in 0..(WINDOW - 1) |-> 0]
           info == [total_15min_volume |-> 0, minute_volumes |-> zeros,
                    total_15min_weighted_price |-> 0, weighted_prices |-> zeros,
                    oldest_index |-> 0]
<1>2. buffers = [s \in Symbols |-> [candlestick |-> candle(s), avg_info |-> info]]
  BY <1>1
<1>3. ASSUME NEW T, Numeric(T)
      PROVE  info \in MovingAverageInfoOf(T)
  <2>1. 0 \in T /\ 0 \in 0..(WINDOW - 1)
    BY <1>3, Constants DEF Numeric, Double
  <2>2. zeros \in [0..(WINDOW - 1) -> T]
    BY <2>1
  <2> HIDE DEF zeros
  <2> QED
    BY <2>1, <2>2 DEF MovingAverageInfoOf
<1>4. ASSUME NEW s \in Symbols
      PROVE  /\ candle(s) \in CandlestickOf(Double)
             /\ s # 0 => candle(s) \in CandlestickOf(Int)
             /\ candle(s).open = -1 /\ candle(s).close = -1
             /\ s # 0 => candle(s).volume = 0
  <2>1. field(s) \in Double /\ (s # 0 => field(s) = 0)
    BY TradeAssumption DEF Double
  <2>2. CANDLESTICK_IS_EMPTY \in Int /\ CANDLESTICK_IS_EMPTY = -1
    BY Constants
  <2> HIDE DEF field
  <2> QED
    BY <2>1, <2>2 DEF CandlestickOf
<1> HIDE DEF info, candle
<1>5. TypeOK
  <2>1. info \in MovingAverageInfoOf(Double) /\ info \in MovingAverageInfoOf(Int)
    BY <1>3 DEF Numeric
  <2>2. \A s \in Symbols : buffers[s] = [candlestick |-> candle(s), avg_info |-> info]
    BY <1>2
  <2>3. \A s \in Symbols :
          /\ buffers[s] \in CalculatorBufferOf(Double)
          /\ s # 0 => buffers[s] \in CalculatorBufferOf(Int)
    <3> SUFFICES ASSUME NEW s \in Symbols
                 PROVE  /\ buffers[s] \in CalculatorBufferOf(Double)
                        /\ s # 0 => buffers[s] \in CalculatorBufferOf(Int)
      OBVIOUS
    <3>1. candle(s) \in CandlestickOf(Double) /\ (s # 0 => candle(s) \in CandlestickOf(Int))
      BY <1>4
    <3>2. buffers[s] = [candlestick |-> candle(s), avg_info |-> info]
      BY <2>2
    <3> QED
      BY <2>1, <3>1, <3>2 DEF CalculatorBufferOf
  <2> QED
    BY <1>2, <2>3 DEF TypeOK
<1>6. \A s \in Symbols : buffers[s].candlestick = candle(s)
  BY <1>2
<1>7. ASSUME NEW s \in Symbols
      PROVE  trades[s] = << <<>> >> /\ trades[s] \in Seq(Seq(Trade))
             /\ Len(trades[s]) = 1 /\ trades[s][1] = <<>>
  BY DEF Init
<1>8. Minute = 1
  BY <1>7, Constants DEF Minute
<1>9. HistoryType
  <2>1. trades \in [Symbols -> Seq(Seq(Trade))]
    BY <1>7 DEF Init
  <2> QED
    BY <1>7, <1>8, <2>1 DEF HistoryType
<1>10. CandleInv
  BY <1>4, <1>6, <1>7, <1>8 DEF CandleInv, CandleOf
<1>11. VolumeInv
  BY <1>4, <1>6, <1>7, <1>8, VolumeEmpty DEF VolumeInv, Tainted
<1>12. CloseInv
  <2> SUFFICES ASSUME NEW s \in Symbols
               PROVE  TradedMinutes(trades[s], 1) = {} /\ LastClose(trades[s], 1) = -1
    BY <1>4, <1>6, <1>8 DEF CloseInv
  <2>1. TradedMinutes(trades[s], 1) = {}
    BY <1>7 DEF TradedMinutes
  <2> QED
    BY <2>1, Constants DEF LastClose
<1> QED
  BY <1>5, <1>9, <1>10, <1>11, <1>12 DEF BufferInv

\* A trade and a directive keep the invariant of the buffers.
LEMMA BufferStep == BufferInv /\ [Next]_vars => BufferInv'
<1> SUFFICES ASSUME BufferInv, [Next]_vars
             PROVE  BufferInv'
  OBVIOUS
<1>1. CASE UNCHANGED vars
  BY <1>1 DEF vars, BufferInv, HistoryType, TypeOK, CandleInv, VolumeInv, CloseInv, Minute,
     Tainted
<1>2. CASE Next
  BY <1>2, BufferTrade, BufferDirective DEF Next
<1> QED
  BY <1>1, <1>2

\* The buffers keep the types of the structs of TradeProcessing.h; oldest_index
\* stays inside the window, so that no slot outside the ring is written.
THEOREM TradeTypeCorrect == Spec => []TypeOK
<1>1. BufferInv => TypeOK
  BY DEF BufferInv
<1> QED
  BY <1>1, BufferInit, BufferStep, PTL DEF Spec

\* add_trade_to_buffers keeps, for any number of symbols and any trades, the
\* candlestick of the current minute what the trades of the minute make it.
THEOREM CandleCorrect == Spec => []CandleMatchesTrades
<1>1. BufferInv => CandleMatchesTrades
  BY Constants DEF BufferInv, CandleInv, VolumeInv, CandleOf, CandleMatchesTrades
<1> QED
  BY <1>1, BufferInit, BufferStep, PTL DEF Spec

-----------------------------------------------------------------------------
(* The rows of the candlestick files.                                      *)

\* What RowMatchesTrades says of one symbol once its minutes up to n are over;
\* tainted if the volume of the n-th is not to be trusted.
RowOf(rows, history, n, tainted) ==
  IF TradedMinutes(history, n) = {} THEN rows = <<>>
  ELSE /\ IF history[n] # <<>>
          THEN IsCandleOf(rows[1], history[n])
          ELSE {rows[1].open, rows[1].max, rows[1].min, rows[1].close}
                 = {LastClose(history, n)}
       /\ ~ tainted => rows[1].volume = Volume(history[n])

RowInv ==
  Minute > 1 =>
    \A s \in Symbols :
      RowOf(candle_row[s], trades[s], Minute - 1, ~ (s # 0 \/ Minute > 2))

\* A row is about the minutes up to n.
LEMMA RowSame ==
  ASSUME NEW n \in Nat \ {0}, NEW rows, NEW h, NEW g, NEW tainted,
         \A m \in 1..n : g[m] = h[m], RowOf(rows, h, n, tainted)
  PROVE  RowOf(rows, g, n, tainted)
<1>1. TradedMinutes(g, n) = TradedMinutes(h, n) /\ LastClose(g, n) = LastClose(h, n)
  BY LastCloseSame
<1>2. g[n] = h[n]
  OBVIOUS
<1> QED
  BY <1>1, <1>2 DEF RowOf

\* The row of a candlestick that matches its minute and has the last close.
LEMMA RowWritten ==
  ASSUME NEW n \in Nat \ {0}, NEW h, NEW tainted, NEW c \in CandlestickOf(Double),
         h[n] \in Seq(Trade),
         CandleOf(c, h[n]), c.close = LastClose(h, n),
         TradedMinutes(h, n) # {} => c.close \in Prices,
         ~ tainted => c.volume = Volume(h[n])
  PROVE  RowOf(CandleRow(c), h, n, tainted)
<1>1. CASE h[n] # <<>>
  <2>1. c.open = h[n][1].p /\ h[n][1].p \in Prices
    <3>1. c.open = h[n][1].p
      BY <1>1 DEF CandleOf, IsCandleOf
    <3>2. h[n][1] \in Trade
      BY <1>1
    <3> QED
      BY <3>1, <3>2 DEF Trade
  <2>2. c.open > -1
    BY <2>1, Constants
  <2> DEFINE row == [open |-> c.open, max |-> c.max, min |-> c.min, close |-> c.close,
                     volume |-> c.volume]
  <2>3. CandleRow(c) = <<row>>
    BY <2>2, Constants DEF CandleRow
  <2>4. /\ row.open = c.open /\ row.max = c.max /\ row.min = c.min
        /\ row.close = c.close /\ row.volume = c.volume
    OBVIOUS
  <2> HIDE DEF row
  <2>5. IsCandleOf(row, h[n])
    BY <1>1, <2>4 DEF CandleOf, IsCandleOf
  <2>6. TradedMinutes(h, n) # {}
    BY <1>1, LastCloseTraded
  <2> QED
    BY <1>1, <2>3, <2>4, <2>5, <2>6 DEF RowOf
<1>2. CASE h[n] = <<>>
  <2>1. ~ (c.open > -1)
    BY <1>2 DEF CandleOf
  <2>2. CASE TradedMinutes(h, n) = {}
    <3>1. c.close = -1
      BY <2>2, Constants DEF LastClose
    <3>2. CandleRow(c) = <<>>
      BY <2>1, <3>1, Constants DEF CandleRow
    <3> QED
      BY <2>2, <3>2 DEF RowOf
  <2>3. CASE TradedMinutes(h, n) # {}
    <3>1. c.close > -1
      BY <2>3, Constants
    <3> DEFINE row == [open |-> c.close, max |-> c.close, min |-> c.close,
                       close |-> c.close, volume |-> c.volume]
    <3>2. CandleRow(c) = <<row>>
      BY <2>1, <3>1, Constants DEF CandleRow
    <3>3. /\ row.open = c.close /\ row.max = c.close /\ row.min = c.close
          /\ row.close = c.close /\ row.volume = c.volume
      OBVIOUS
    <3> HIDE DEF row
    <3> QED
      BY <1>2, <2>3, <3>2, <3>3 DEF RowOf
  <2> QED
    BY <2>2, <2>3
<1> QED
  BY <1>1, <1>2

\* Every step keeps the last candlestick row that of the last minute.
LEMMA RowStep == BufferInv /\ RowInv /\ [Next]_vars => RowInv'
<1> SUFFICES ASSUME BufferInv, RowInv, [Next]_vars
             PROVE  RowInv'
  OBVIOUS
<1>0. HistoryType /\ TypeOK /\ Minute \in Nat \ {0}
  BY HistoryOf, Constants DEF BufferInv
<1>1. ASSUME NEW s \in Symbols, NEW p \in Prices, NEW v \in Volumes,
             add_trade_to_buffers(s, p, v)
      PROVE  RowInv'
  <2>1. /\ Minute' = Minute /\ candle_row' = candle_row
        /\ \A r \in Symbols \ {s} : trades'[r] = trades[r]
        /\ \A m \in 1..Minute : m # Minute => trades'[s][m] = trades[s][m]
    BY <1>0, <1>1, TradeFrame
  <2> SUFFICES ASSUME Minute > 1, NEW r \in Symbols
               PROVE  RowOf(candle_row[r], trades'[r], Minute - 1, ~ (r # 0 \/ Minute > 2))
    BY <2>1 DEF RowInv
  <2>2. RowOf(candle_row[r], trades[r], Minute - 1, ~ (r # 0 \/ Minute > 2))
    BY DEF RowInv
  <2>3. CASE r = s
    <3> DEFINE n == Minute - 1
               h == trades[r]
               g == trades'[r]
               tainted == ~ (r # 0 \/ Minute > 2)
    <3>1. n \in Nat \ {0} /\ \A m \in 1..n : g[m] = h[m]
      BY <1>0, <2>1, <2>3
    <3>2. RowOf(candle_row[r], h, n, tainted)
      BY <2>2
    <3> HIDE DEF n, h, g, tainted
    <3>3. RowOf(candle_row[r], g, n, tainted)
      BY <3>1, <3>2, RowSame
    <3> QED
      BY <3>3 DEF n, g, tainted
  <2>4. CASE r # s
    BY <2>1, <2>2, <2>4
  <2> QED
    BY <2>3, <2>4
<1>2. CASE write_and_reset_buffers
  <2>1. /\ Minute' = Minute + 1
        /\ \A s \in Symbols :
             /\ \A m \in 1..Minute : trades'[s][m] = trades[s][m]
             /\ candle_row'[s] = CandleRow(buffers[s].candlestick)
    BY <1>0, <1>2, DirectiveFrame
  <2> SUFFICES ASSUME NEW s \in Symbols
               PROVE  RowOf(candle_row'[s], trades'[s], Minute,
                            ~ (s # 0 \/ Minute + 1 > 2))
    <3>1. Minute' - 1 = Minute
      BY <1>0, <2>1
    <3> QED
      BY <2>1, <3>1 DEF RowInv
  <2> DEFINE n == Minute
             h == trades[s]
             g == trades'[s]
             c == buffers[s].candlestick
             tainted == ~ (s # 0 \/ Minute + 1 > 2)
  <2>2. /\ n \in Nat \ {0} /\ c \in CandlestickOf(Double) /\ h[n] \in Seq(Trade)
        /\ CandleOf(c, h[n]) /\ c.close = LastClose(h, n)
        /\ TradedMinutes(h, n) # {} => c.close \in Prices
    <3>1. c \in CandlestickOf(Double)
      BY <1>0, BufferTypes
    <3>2. n \in 1..n
      BY <1>0
    <3>3. h[n] \in Seq(Trade)
      BY <1>0, <3>2, HistoryOf
    <3> QED
      BY <1>0, <3>1, <3>3 DEF BufferInv, CandleInv, CloseInv
  <2>3. ~ tainted => c.volume = Volume(h[n])
    BY <1>0 DEF BufferInv, VolumeInv, Tainted
  <2>4. candle_row'[s] = CandleRow(c) /\ \A m \in 1..n : g[m] = h[m]
    BY <2>1
  <2> HIDE DEF n, h, g, c, tainted
  <2>5. RowOf(CandleRow(c), h, n, tainted)
    BY <2>2, <2>3, RowWritten
  <2>6. RowOf(candle_row'[s], g, n, tainted)
    BY <2>2, <2>4, <2>5, RowSame
  <2> QED
    BY <2>6 DEF n, g, tainted
<1>3. CASE UNCHANGED vars
  BY <1>3 DEF vars, RowInv, Minute
<1> QED
  BY <1>1, <1>2, <1>3 DEF Next

\* A directive writes what the ended minute of each symbol was, or repeats the
\* last close, or writes nothing, as the history has it.
THEOREM RowsCorrect == Spec => []RowMatchesTrades
<1>1. Init => RowInv
  BY Constants, BufferInit DEF Init, RowInv, Minute
<1>2. RowInv => RowMatchesTrades
  BY DEF RowInv, RowOf, RowMatchesTrades
<1> QED
  BY <1>1, <1>2, BufferInit, BufferStep, RowStep, PTL DEF Spec

-----------------------------------------------------------------------------
(* Remainders, for the slots of the ring.                                  *)

\* Division with remainder.
LEMMA Remainder ==
  ASSUME NEW x \in Nat, NEW D \in Nat \ {0}
  PROVE  x % D \in 0..(D - 1) /\ \E q \in Nat : x = q * D + (x % D)
<1>1. x % D \in 0..(D - 1)
  OBVIOUS
<1>2. x = D * (x \div D) + (x % D)
  OBVIOUS
<1>3. x \div D \in Nat
  OBVIOUS
<1>4. x = (x \div D) * D + (x % D)
  BY <1>2, <1>3
<1> QED
  BY <1>1, <1>3, <1>4

\* The remainder is determined by the division with rest.
LEMMA RemainderUnique ==
  ASSUME NEW x \in Nat, NEW D \in Nat \ {0}, NEW a \in Nat, NEW r \in 0..(D - 1),
         x = a * D + r
  PROVE  x % D = r
<1> DEFINE m == x % D
<1>1. PICK q \in Nat : x = q * D + m
  BY Remainder
<1>2. m \in 0..(D - 1)
  BY Remainder
<1> HIDE DEF m
<1>3. (a - q) * D = m - r
  BY <1>1, <1>2
<1>4. CASE a - q >= 1
  <2>1. (a - q) * D >= D
    BY <1>4
  <2> QED
    BY <1>2, <1>3, <2>1
<1>5. CASE a - q <= -1
  <2>1. (q - a) * D >= D
    BY <1>5
  <2>2. (a - q) * D = - ((q - a) * D)
    OBVIOUS
  <2> QED
    BY <1>2, <1>3, <2>1, <2>2
<1>6. CASE a = q
  <2>1. m = r
    BY <1>1, <1>2, <1>6
  <2> QED
    BY <2>1 DEF m
<1> QED
  BY <1>4, <1>5, <1>6

\* A step around the ring.
LEMMA RemainderNext ==
  ASSUME NEW x \in Nat, NEW D \in Nat \ {0}
  PROVE  ((x % D) + 1) % D = (x + 1) % D
<1> DEFINE r == x % D
<1>1. PICK q \in Nat : x = q * D + r
  BY Remainder
<1>2. r \in 0..(D - 1)
  BY Remainder
<1> HIDE DEF r
<1>3. CASE r + 1 <= D - 1
  <2>1. r + 1 \in 0..(D - 1) /\ x + 1 \in Nat /\ r + 1 \in Nat
    BY <1>2, <1>3
  <2>2. x + 1 = q * D + (r + 1) /\ r + 1 = 0 * D + (r + 1)
    BY <1>1, <1>2
  <2>3. (x + 1) % D = r + 1
    BY <2>1, <2>2, RemainderUnique
  <2>4. (r + 1) % D = r + 1
    BY <2>1, <2>2, RemainderUnique
  <2> QED
    BY <2>3, <2>4 DEF r
<1>4. CASE r + 1 = D
  <2>1. 0 \in 0..(D - 1) /\ x + 1 \in Nat /\ D \in Nat /\ q + 1 \in Nat /\ 1 \in Nat
    OBVIOUS
  <2>2. x + 1 = (q + 1) * D + 0 /\ D = 1 * D + 0
    BY <1>1, <1>2, <1>4
  <2>3. (x + 1) % D = 0
    BY <2>1, <2>2, RemainderUnique
  <2>4. D % D = 0
    BY <2>1, <2>2, RemainderUnique
  <2> QED
    BY <1>4, <2>3, <2>4 DEF r
<1> QED
  BY <1>2, <1>3, <1>4

\* Once around the ring.
LEMMA RemainderAround ==
  ASSUME NEW x \in Nat, NEW D \in Nat \ {0}
  PROVE  (x + D) % D = x % D
<1> DEFINE r == x % D
<1>1. PICK q \in Nat : x = q * D + r
  BY Remainder
<1>2. r \in 0..(D - 1)
  BY Remainder
<1> HIDE DEF r
<1>3. x + D \in Nat /\ q + 1 \in Nat /\ x + D = (q + 1) * D + r
  BY <1>1, <1>2
<1>4. (x + D) % D = r
  BY <1>2, <1>3, RemainderUnique
<1> QED
  BY <1>4 DEF r

\* Less than once around.
LEMMA RemainderDistinct ==
  ASSUME NEW x \in Nat, NEW y \in Nat, NEW D \in Nat \ {0}, x < y, y < x + D
  PROVE  x % D # y % D
<1> SUFFICES ASSUME x % D = y % D
             PROVE  FALSE
  OBVIOUS
<1> DEFINE r == x % D
<1>1. PICK q \in Nat : x = q * D + r
  BY Remainder
<1>2. PICK u \in Nat : y = u * D + r
  <2>1. PICK u \in Nat : y = u * D + (y % D)
    BY Remainder
  <2> QED
    BY <2>1
<1>3. r \in 0..(D - 1)
  BY Remainder
<1> HIDE DEF r
<1>4. y - x = (u - q) * D
  BY <1>1, <1>2, <1>3
<1>5. CASE u - q >= 1
  <2>1. (u - q) * D >= D
    BY <1>5
  <2> QED
    BY <1>4, <2>1
<1>6. CASE u - q <= 0
  <2>1. (u - q) * D <= 0
    BY <1>6
  <2> QED
    BY <1>4, <2>1
<1> QED
  BY <1>5, <1>6

-----------------------------------------------------------------------------
(* The window.                                                             *)

\* The slot of a minute.
Slot(m) == (m - 1) % WINDOW

\* The minutes in the window when minute n runs, as LastMinutes has them.
Window(n) == {m \in 1..(n - 1) : m >= n - WINDOW}

\* What the ring says of the minutes in the window.
InRing(a, n) == [m \in Window(n) |-> a.minute_volumes[Slot(m)]]

\* The totals are the sums of the ring.
SumsOf(a) ==
  /\ a.total_15min_volume = SumFunction(a.minute_volumes)
  /\ a.total_15min_weighted_price = SumFunction(a.weighted_prices)

\* The ring when minute n runs: where its minutes are, that the slots no minute
\* was put in are 0, and that the total is that of the minutes.
RingOf(a, n) ==
  /\ a.oldest_index = Slot(n)
  /\ \A i \in 0..(WINDOW - 1) : i >= n - 1 => a.minute_volumes[i] = 0
  /\ a.total_15min_volume = SumFunction(InRing(a, n))

\* A symbol has the volumes of its minutes in the ring.
VolumesOf(a, history, n) ==
  \A m \in Window(n) : a.minute_volumes[Slot(m)] = Volume(history[m])

WindowInv ==
  \A s \in Symbols \ {0} :
    /\ SumsOf(buffers[s].avg_info)
    /\ RingOf(buffers[s].avg_info, Minute)
    /\ VolumesOf(buffers[s].avg_info, trades[s], Minute)

\* The averages part of a symbol without NaN after a directive.
LEMMA AdvanceInts ==
  ASSUME NEW a \in MovingAverageInfoOf(Int), NEW c \in CandlestickOf(Int)
  PROVE  LET b == Advance(a, c)
             o == a.oldest_index
         IN  /\ b.oldest_index = (o + 1) % WINDOW
             /\ b.minute_volumes = [a.minute_volumes EXCEPT ![o] = c.volume]
             /\ b.weighted_prices = [a.weighted_prices EXCEPT ![o] = c.weighted_price]
             /\ b.total_15min_volume
                  = a.total_15min_volume - a.minute_volumes[o] + c.volume
             /\ b.total_15min_weighted_price
                  = a.total_15min_weighted_price - a.weighted_prices[o] + c.weighted_price
<1> DEFINE o == a.oldest_index
           b == Advance(a, c)
<1>0. Numeric(Int)
  BY DEF Numeric
<1>1. /\ b.oldest_index = (o + 1) % WINDOW
      /\ b.minute_volumes = [a.minute_volumes EXCEPT ![o] = c.volume]
      /\ b.weighted_prices = [a.weighted_prices EXCEPT ![o] = c.weighted_price]
      /\ b.total_15min_volume
           = Plus(Minus(a.total_15min_volume, a.minute_volumes[o]), c.volume)
      /\ b.total_15min_weighted_price
           = Plus(Minus(a.total_15min_weighted_price, a.weighted_prices[o]), c.weighted_price)
  BY <1>0, AdvanceFields
<1>2. /\ a.total_15min_volume \in Int /\ a.total_15min_weighted_price \in Int
      /\ c.volume \in Int /\ c.weighted_price \in Int
      /\ a.minute_volumes[o] \in Int /\ a.weighted_prices[o] \in Int
  BY DEF MovingAverageInfoOf, CandlestickOf
<1> DEFINE x == a.minute_volumes[o]
           y == a.weighted_prices[o]
           t == a.total_15min_volume
           u == a.total_15min_weighted_price
<1>5. t \in Int /\ u \in Int /\ x \in Int /\ y \in Int
  BY <1>2
<1> HIDE DEF b, x, y, t, u
<1>3. Minus(t, x) = t - x /\ Minus(u, y) = u - y /\ t - x \in Int /\ u - y \in Int
  BY <1>5, IntSums
<1>4. Plus(t - x, c.volume) = t - x + c.volume
      /\ Plus(u - y, c.weighted_price) = u - y + c.weighted_price
  BY <1>2, <1>3, IntSums
<1> QED
  BY <1>1, <1>3, <1>4 DEF b, t, u, x, y

\* A directive corrects the totals by what it takes out of the ring and puts in.
LEMMA SumsStep ==
  ASSUME NEW a \in MovingAverageInfoOf(Int), NEW c \in CandlestickOf(Int), SumsOf(a)
  PROVE  SumsOf(Advance(a, c))
<1> DEFINE b == Advance(a, c)
           o == a.oldest_index
           D == 0..(WINDOW - 1)
           x == c.volume
           w == c.weighted_price
           f == a.minute_volumes
           g == a.weighted_prices
<1>1. /\ b.minute_volumes = [f EXCEPT ![o] = x]
      /\ b.weighted_prices = [g EXCEPT ![o] = w]
      /\ b.total_15min_volume = a.total_15min_volume - f[o] + x
      /\ b.total_15min_weighted_price = a.total_15min_weighted_price - g[o] + w
  BY AdvanceInts
<1>2. o \in D /\ f \in [D -> Int] /\ g \in [D -> Int] /\ x \in Int /\ w \in Int
  BY DEF MovingAverageInfoOf, CandlestickOf
<1>3. IsFiniteSet(D)
  BY FS_Interval, Constants
<1>4. /\ a.total_15min_volume = SumFunction(f)
      /\ a.total_15min_weighted_price = SumFunction(g)
  BY DEF SumsOf
<1> HIDE DEF b, o, D, x, w, f, g
<1>5. SumFunction([f EXCEPT ![o] = x]) = SumFunction(f) - f[o] + x
  BY <1>2, <1>3, SumExcept
<1>6. SumFunction([g EXCEPT ![o] = w]) = SumFunction(g) - g[o] + w
  BY <1>2, <1>3, SumExcept
<1> QED
  BY <1>1, <1>4, <1>5, <1>6 DEF SumsOf, b

\* The window moves on by a minute: the one that ended comes in, and the one
\* that is in its slot goes.
LEMMA InWindow ==
  ASSUME NEW n, NEW m
  PROVE  m \in Window(n) <=> m \in 1..(n - 1) /\ m >= n - WINDOW
BY DEF Window

\* The next minute enters the window as the oldest one leaves it and its slot.
LEMMA WindowMoves ==
  ASSUME NEW n \in Nat \ {0}
  PROVE  LET kept == Window(n + 1) \ {n}
         IN  /\ IsFiniteSet(kept) /\ n \notin kept /\ Window(n + 1) = kept \cup {n}
             /\ \A m \in kept : m \in Window(n) /\ Slot(m) # Slot(n)
             /\ n > WINDOW => /\ Window(n) = kept \cup {n - WINDOW}
                              /\ n - WINDOW \notin kept
                              /\ Slot(n - WINDOW) = Slot(n)
             /\ n <= WINDOW => Window(n) = kept /\ Slot(n) = n - 1
<1> DEFINE W == WINDOW
           kept == Window(n + 1) \ {n}
<1>0. W \in Nat \ {0}
  BY Constants
<1>1. \A m : m \in Window(n + 1) <=> m \in 1..n /\ m >= (n + 1) - W
  <2>1. 1..((n + 1) - 1) = 1..n
    <3> DEFINE k == (n + 1) - 1
    <3>1. k = n
      OBVIOUS
    <3> HIDE DEF k
    <3>2. 1..k = 1..n
      BY <3>1, Zenon
    <3> QED
      BY <3>2 DEF k
  <2> SUFFICES ASSUME NEW m
               PROVE  m \in Window(n + 1) <=> m \in 1..n /\ m >= (n + 1) - W
    OBVIOUS
  <2>2. m \in Window(n + 1) <=> m \in 1..((n + 1) - 1) /\ m >= (n + 1) - W
    BY InWindow
  <2>3. m \in 1..((n + 1) - 1) <=> m \in 1..n
    BY <2>1
  <2> QED
    BY <2>2, <2>3, Zenon
<1>2. \A m : m \in Window(n) <=> m \in 1..(n - 1) /\ m >= n - W
  BY DEF Window
<1> HIDE DEF W
<1>3. \A m : m \in kept <=> m \in 1..n /\ m # n /\ m >= (n + 1) - W
  BY <1>1
<1> HIDE DEF kept
<1>4. IsFiniteSet(kept)
  <2>1. kept \subseteq 1..n
    BY <1>3
  <2>2. IsFiniteSet(1..n)
    BY FS_Interval
  <2> QED
    BY <2>1, <2>2, FS_Subset
<1>5. n \notin kept /\ Window(n + 1) = kept \cup {n}
  <2>1. n \notin kept
    BY <1>3
  <2>2. n \in Window(n + 1)
    BY <1>0, <1>1
  <2> QED
    BY <2>1, <2>2 DEF kept
<1>6. ASSUME NEW m \in kept
      PROVE  m \in Window(n) /\ Slot(m) # Slot(n)
  <2>1. m \in 1..n /\ m # n /\ m >= (n + 1) - W
    BY <1>3
  <2>2. m \in Window(n)
    BY <1>0, <1>2, <2>1
  <2>3. m - 1 \in Nat /\ n - 1 \in Nat /\ m - 1 < n - 1 /\ n - 1 < (m - 1) + W
    BY <1>0, <2>1
  <2>4. (m - 1) % W # (n - 1) % W
    BY <1>0, <2>3, RemainderDistinct
  <2> QED
    BY <2>2, <2>4 DEF Slot, W
<1>7. ASSUME n > W
      PROVE  /\ Window(n) = kept \cup {n - W} /\ n - W \notin kept
             /\ Slot(n - W) = Slot(n)
  <2>1. n - W \in Window(n) /\ n - W \notin kept
    BY <1>0, <1>2, <1>3, <1>7
  <2>2. \A m \in Window(n) : m \in kept \/ m = n - W
    BY <1>0, <1>2, <1>3
  <2>3. Window(n) = kept \cup {n - W}
    BY <1>6, <2>1, <2>2
  <2>4. (n - W) - 1 \in Nat /\ ((n - W) - 1) + W = n - 1
    BY <1>0, <1>7
  <2>5. ((n - W) - 1) % W = (n - 1) % W
    <3> DEFINE y == (n - W) - 1
    <3>1. y \in Nat /\ y + W = n - 1
      BY <2>4
    <3> HIDE DEF y
    <3>2. (y + W) % W = y % W
      BY <1>0, <3>1, RemainderAround
    <3> QED
      BY <3>1, <3>2 DEF y
  <2> QED
    BY <2>1, <2>3, <2>5 DEF Slot, W
<1>8. ASSUME n <= W
      PROVE  Window(n) = kept /\ Slot(n) = n - 1
  <2>1. \A m \in Window(n) : m \in kept
    BY <1>0, <1>2, <1>3, <1>8
  <2>2. n - 1 \in 0..(W - 1) /\ n - 1 \in Nat /\ n - 1 = 0 * W + (n - 1)
    BY <1>0, <1>8
  <2>3. (n - 1) % W = n - 1
    BY <1>0, <2>2, RemainderUnique
  <2> QED
    BY <1>6, <2>1, <2>3 DEF Slot, W
<1> QED
  BY <1>4, <1>5, <1>6, <1>7, <1>8 DEF kept, W

\* The slot of a minute is one of the ring.
LEMMA SlotInRing ==
  ASSUME NEW m \in Nat \ {0}
  PROVE  Slot(m) \in 0..(WINDOW - 1)
<1>1. m - 1 \in Nat
  OBVIOUS
<1> QED
  BY <1>1, Constants, Remainder DEF Slot

\* A directive puts the ended minute into the ring and keeps the total right.
LEMMA RingStep ==
  ASSUME NEW n \in Nat \ {0}, NEW a \in MovingAverageInfoOf(Int),
         NEW c \in CandlestickOf(Int), RingOf(a, n)
  PROVE  RingOf(Advance(a, c), n + 1)
<1> DEFINE b == Advance(a, c)
           o == Slot(n)
           D == 0..(WINDOW - 1)
           f == a.minute_volumes
           kept == Window(n + 1) \ {n}
           F == [m \in kept |-> f[Slot(m)]]
           G == InRing(b, n + 1)
           x == c.volume
           total == a.total_15min_volume
<1>1. /\ b.oldest_index = (a.oldest_index + 1) % WINDOW
      /\ b.minute_volumes = [f EXCEPT ![a.oldest_index] = x]
      /\ b.total_15min_volume = total - f[a.oldest_index] + x
  BY AdvanceInts
<1>2. /\ a.oldest_index = o /\ total = SumFunction(InRing(a, n))
      /\ \A i \in D : i >= n - 1 => f[i] = 0
  BY DEF RingOf
<1>3. f \in [D -> Int] /\ x \in Int /\ total \in Int /\ o \in D
  BY SlotInRing DEF MovingAverageInfoOf, CandlestickOf
<1>4. /\ IsFiniteSet(kept) /\ n \notin kept /\ Window(n + 1) = kept \cup {n}
      /\ \A m \in kept : m \in Window(n) /\ Slot(m) # o
  BY WindowMoves
<1>5. /\ n > WINDOW => /\ Window(n) = kept \cup {n - WINDOW}
                       /\ n - WINDOW \notin kept /\ Slot(n - WINDOW) = o
      /\ n <= WINDOW => Window(n) = kept /\ o = n - 1
  BY WindowMoves
<1>6. \A m \in Window(n) : Slot(m) \in D
  <2>1. \A m \in Window(n) : m \in Nat \ {0}
    BY InWindow
  <2> QED
    BY <2>1, SlotInRing
<1>7. n \in Nat /\ WINDOW \in Nat
  BY Constants
<1> DEFINE bo == b.oldest_index
           bf == b.minute_volumes
           bt == b.total_15min_volume
<1> HIDE DEF o, D, f, kept, x, total, bo, bf, bt
<1>8. /\ bo = (o + 1) % WINDOW /\ bf = [f EXCEPT ![o] = x] /\ bt = total - f[o] + x
  BY <1>1, <1>2 DEF bo, bf, bt
<1>9. bf[o] = x /\ \A i \in D : i # o => bf[i] = f[i]
  BY <1>3, <1>8
<1>10. \A m \in kept : Slot(m) \in D /\ bf[Slot(m)] = f[Slot(m)] /\ f[Slot(m)] \in Int
  BY <1>3, <1>4, <1>6, <1>9
<1>11. total = SumFunction(F) + f[o]
  <2>1. CASE n > WINDOW
    <3> DEFINE e == n - WINDOW
               H == InRing(a, n)
    <3>1. Window(n) = kept \cup {e} /\ e \notin kept /\ Slot(e) = o
      BY <1>5, <2>1
    <3>2. H = [m \in Window(n) |-> f[Slot(m)]]
      BY DEF InRing, f
    <3> HIDE DEF e, H
    <3>3. Extends(H, F, kept, e) /\ H[e] = f[o]
      BY <1>3, <1>4, <1>10, <3>1, <3>2 DEF Extends
    <3>4. SumFunction(H) = SumFunction(F) + H[e]
      BY <3>3, SumExtend
    <3> QED
      BY <1>2, <3>3, <3>4 DEF H
  <2>2. CASE n <= WINDOW
    <3>1. InRing(a, n) = F
      BY <1>5, <2>2 DEF InRing, f
    <3>2. f[o] = 0
      <4>1. o = n - 1
        BY <1>5, <2>2
      <4> QED
        BY <1>2, <1>3, <1>7, <4>1
    <3>3. total = SumFunction(F)
      BY <1>2, <3>1
    <3> QED
      BY <1>3, <3>2, <3>3
  <2> QED
    BY <1>7, <2>1, <2>2
<1>12. SumFunction(G) = SumFunction(F) + x
  <2>1. G = [m \in kept \cup {n} |-> bf[Slot(m)]]
    BY <1>4 DEF InRing, bf
  <2>2. G[n] = x
    BY <1>9, <2>1 DEF o
  <2> HIDE DEF G
  <2>3. Extends(G, F, kept, n)
    BY <1>3, <1>4, <1>10, <2>1, <2>2 DEF Extends
  <2> QED
    BY <2>2, <2>3, SumExtend
<1>13. bt = SumFunction(G)
  <2>1. f[o] \in Int
    BY <1>3
  <2>2. SumFunction(F) \in Int
    <3>1. DOMAIN F = kept /\ \A m \in kept : F[m] \in Int
      BY <1>10
    <3> HIDE DEF F
    <3> QED
      BY <1>4, <3>1, SumType DEF SumFunction
  <2> DEFINE SF == SumFunction(F)
             fo == f[o]
  <2>3. /\ SF \in Int /\ fo \in Int /\ x \in Int /\ total = SF + fo
        /\ bt = total - fo + x /\ SumFunction(G) = SF + x
    BY <1>3, <1>8, <1>11, <1>12, <2>1, <2>2
  <2> HIDE DEF SF, fo, F, G
  <2> QED
    BY <2>3
<1>14. bo = Slot(n + 1)
  <2>1. n - 1 \in Nat /\ (n - 1) + 1 = n /\ (n + 1) - 1 = n
    OBVIOUS
  <2>2. (((n - 1) % WINDOW) + 1) % WINDOW = ((n - 1) + 1) % WINDOW
    BY <2>1, Constants, RemainderNext
  <2> QED
    BY <1>8, <2>1, <2>2 DEF Slot, o
<1>15. ASSUME NEW i \in D, i >= (n + 1) - 1
       PROVE  bf[i] = 0
  <2>1. i \in 0..(WINDOW - 1) /\ i >= n
    BY <1>15 DEF D
  <2>2. n <= WINDOW /\ i >= n - 1
    BY <1>7, <2>1
  <2>3. i # o
    BY <1>5, <1>7, <2>1, <2>2
  <2> QED
    BY <1>2, <1>9, <2>2, <2>3
<1> QED
  BY <1>13, <1>14, <1>15 DEF RingOf, bo, bf, bt, D

\* A directive writes the volume of the minute to the slot of the minute.
LEMMA VolumesStep ==
  ASSUME NEW n \in Nat \ {0}, NEW a \in MovingAverageInfoOf(Int),
         NEW c \in CandlestickOf(Int), NEW h, NEW g, a.oldest_index = Slot(n),
         VolumesOf(a, h, n), c.volume = Volume(h[n]), \A m \in 1..n : g[m] = h[m]
  PROVE  VolumesOf(Advance(a, c), g, n + 1)
<1> DEFINE f == a.minute_volumes
           bf == Advance(a, c).minute_volumes
           o == Slot(n)
           D == 0..(WINDOW - 1)
<1>1. bf = [f EXCEPT ![o] = c.volume]
  <2>1. Advance(a, c).minute_volumes = [a.minute_volumes EXCEPT ![a.oldest_index] = c.volume]
    BY AdvanceInts, Zenon
  <2>2. a.oldest_index = o
    OBVIOUS
  <2> QED
    BY <2>1, <2>2, Zenon
<1>2. f \in [D -> Int] /\ o \in D
  BY SlotInRing DEF MovingAverageInfoOf
<1> SUFFICES ASSUME NEW m \in Window(n + 1)
             PROVE  bf[Slot(m)] = Volume(g[m])
  BY DEF VolumesOf
<1>3. m \in 1..n /\ g[m] = h[m]
  <2>1. m \in 1..((n + 1) - 1)
    BY InWindow
  <2> QED
    BY <2>1
<1> HIDE DEF f, bf, o, D
<1>4. CASE m = n
  <2>1. bf[o] = c.volume
    BY <1>1, <1>2
  <2>2. c.volume = Volume(h[n])
    BY <1>4
  <2> QED
    BY <1>3, <1>4, <2>1, <2>2 DEF o
<1>5. CASE m # n
  <2>1. m \in Window(n) /\ Slot(m) # o
    BY <1>5, WindowMoves DEF o
  <2>2. Slot(m) \in D
    BY <1>3, SlotInRing DEF D
  <2>3. f[Slot(m)] = Volume(h[m])
    BY <2>1 DEF VolumesOf, f
  <2> QED
    BY <1>1, <1>2, <1>3, <2>1, <2>2, <2>3
<1> QED
  BY <1>4, <1>5

\* Every step keeps the window: a trade does not touch it, a directive moves it.
LEMMA WindowStep == BufferInv /\ WindowInv /\ [Next]_vars => WindowInv'
<1> SUFFICES ASSUME BufferInv, WindowInv, [Next]_vars
             PROVE  WindowInv'
  OBVIOUS
<1>0. HistoryType /\ TypeOK /\ Minute \in Nat \ {0}
  BY HistoryOf, Constants DEF BufferInv
<1>1. ASSUME NEW s \in Symbols, NEW p \in Prices, NEW v \in Volumes,
             add_trade_to_buffers(s, p, v)
      PROVE  WindowInv'
  <2>1. /\ Minute' = Minute
        /\ \A r \in Symbols \ {s} : trades'[r] = trades[r] /\ buffers'[r] = buffers[r]
        /\ \A m \in 1..Minute : m # Minute => trades'[s][m] = trades[s][m]
        /\ buffers'[s].avg_info = buffers[s].avg_info
    BY <1>0, <1>1, TradeFrame
  <2> SUFFICES ASSUME NEW r \in Symbols \ {0}
               PROVE  /\ buffers'[r].avg_info = buffers[r].avg_info
                      /\ VolumesOf(buffers[r].avg_info, trades'[r], Minute)
    BY <2>1 DEF WindowInv
  <2>2. buffers'[r].avg_info = buffers[r].avg_info
    BY <2>1
  <2>3. \A m \in Window(Minute) : trades'[r][m] = trades[r][m]
    <3>1. \A m \in Window(Minute) : m \in 1..Minute /\ m # Minute
      BY <1>0, InWindow
    <3> QED
      BY <2>1, <3>1
  <2>4. VolumesOf(buffers[r].avg_info, trades[r], Minute)
    BY DEF WindowInv
  <2> QED
    BY <2>2, <2>3, <2>4 DEF VolumesOf
<1>2. CASE write_and_reset_buffers
  <2>1. /\ Minute' = Minute + 1
        /\ \A s \in Symbols :
             /\ \A m \in 1..Minute : trades'[s][m] = trades[s][m]
             /\ buffers'[s].avg_info = Advance(buffers[s].avg_info, buffers[s].candlestick)
    BY <1>0, <1>2, DirectiveFrame
  <2> SUFFICES ASSUME NEW s \in Symbols \ {0}
               PROVE  /\ SumsOf(buffers'[s].avg_info)
                      /\ RingOf(buffers'[s].avg_info, Minute + 1)
                      /\ VolumesOf(buffers'[s].avg_info, trades'[s], Minute + 1)
    BY <2>1 DEF WindowInv
  <2> DEFINE a == buffers[s].avg_info
             c == buffers[s].candlestick
             n == Minute
             h == trades[s]
             g == trades'[s]
  <2>2. a \in MovingAverageInfoOf(Int) /\ c \in CandlestickOf(Int) /\ n \in Nat \ {0}
    BY <1>0, BufferTypes
  <2>3. SumsOf(a) /\ RingOf(a, n) /\ VolumesOf(a, h, n)
    BY DEF WindowInv
  <2>4. c.volume = Volume(h[n])
    BY DEF BufferInv, VolumeInv, Tainted
  <2>5. \A m \in 1..n : g[m] = h[m]
    BY <2>1
  <2>6. a.oldest_index = Slot(n)
    BY <2>3 DEF RingOf
  <2> HIDE DEF a, c, n, h, g
  <2>7. SumsOf(Advance(a, c))
    BY <2>2, <2>3, SumsStep
  <2>8. RingOf(Advance(a, c), n + 1)
    BY <2>2, <2>3, RingStep
  <2>9. VolumesOf(Advance(a, c), g, n + 1)
    BY <2>2, <2>3, <2>4, <2>5, <2>6, VolumesStep
  <2>10. buffers'[s].avg_info = Advance(a, c)
    BY <2>1 DEF a, c
  <2> QED
    BY <2>7, <2>8, <2>9, <2>10 DEF n, g
<1>3. CASE UNCHANGED vars
  BY <1>3 DEF vars, WindowInv, Minute
<1> QED
  BY <1>1, <1>2, <1>3 DEF Next

\* A sum of zeros.
LEMMA SumZeros ==
  ASSUME NEW f, NEW D, IsFiniteSet(D), \A x \in D : f[x] = 0
  PROVE  SumFunctionOnSet(f, D) = 0
<1> DEFINE T == {t \in SUBSET D : SumFunctionOnSet(f, t) # 0}
<1> SUFFICES ASSUME T # {}
             PROVE  FALSE
  OBVIOUS
<1>1. PICK t \in T : \A u \in T : ~ (u \subseteq t /\ u # t)
  <2>1. T \subseteq SUBSET D
    OBVIOUS
  <2> HIDE DEF T
  <2> QED
    BY <2>1, SmallestSubset
<1>2. t \subseteq D /\ SumFunctionOnSet(f, t) # 0
  OBVIOUS
<1>3. SumFunctionOnSet(f, t)
        = IF t = {} THEN 0 ELSE f[Pick(t)] + SumFunctionOnSet(f, t \ {Pick(t)})
  BY <1>2, FS_Subset, SumUnfold
<1>4. t # {} /\ Pick(t) \in t
  BY <1>2, <1>3, PickInSet
<1>5. SumFunctionOnSet(f, t \ {Pick(t)}) = 0
  BY <1>1, <1>2, <1>4
<1> QED
  BY <1>2, <1>3, <1>4, <1>5

\* init_calculator_buffers leaves an empty window and a ring of zeros.
LEMMA WindowInit == Init => WindowInv
<1> SUFFICES ASSUME Init, NEW s \in Symbols
             PROVE  /\ SumsOf(buffers[s].avg_info)
                    /\ RingOf(buffers[s].avg_info, Minute)
                    /\ VolumesOf(buffers[s].avg_info, trades[s], Minute)
  BY DEF WindowInv
<1> DEFINE a == buffers[s].avg_info
           zeros == [m \in 0..(WINDOW - 1) |-> 0]
<1>1. /\ a.total_15min_volume = 0 /\ a.total_15min_weighted_price = 0
      /\ a.minute_volumes = zeros /\ a.weighted_prices = zeros /\ a.oldest_index = 0
  <2> DEFINE info == [total_15min_volume |-> 0, minute_volumes |-> zeros,
                      total_15min_weighted_price |-> 0, weighted_prices |-> zeros,
                      oldest_index |-> 0]
  <2>1. a = info
    <3>1. PICK g \in Garbage : buffers = [r \in Symbols |->
            [candlestick |->
               LET field == IF r = 0 THEN g ELSE 0
               IN  [max |-> field, min |-> field,
                    open |-> CANDLESTICK_IS_EMPTY, close |-> CANDLESTICK_IS_EMPTY,
                    volume |-> field, weighted_price |-> field],
             avg_info |-> info]]
      BY DEF Init, init_calculator_buffers
    <3> DEFINE field == IF s = 0 THEN g ELSE 0
               candle == [max |-> field, min |-> field,
                          open |-> CANDLESTICK_IS_EMPTY, close |-> CANDLESTICK_IS_EMPTY,
                          volume |-> field, weighted_price |-> field]
    <3> HIDE DEF info
    <3>2. buffers[s] = [candlestick |-> candle, avg_info |-> info]
      BY <3>1
    <3> HIDE DEF candle
    <3> QED
      BY <3>2
  <2> HIDE DEF zeros, a
  <2> QED
    BY <2>1
<1>2. Minute = 1
  BY Constants DEF Init, Minute
<1>3. SumFunction(zeros) = 0
  <2>1. IsFiniteSet(0..(WINDOW - 1))
    BY Constants, FS_Interval
  <2>2. DOMAIN zeros = 0..(WINDOW - 1) /\ \A x \in 0..(WINDOW - 1) : zeros[x] = 0
    OBVIOUS
  <2> HIDE DEF zeros
  <2> QED
    BY <2>1, <2>2, SumZeros DEF SumFunction
<1>4. SumsOf(a)
  BY <1>1, <1>3 DEF SumsOf
<1>5. Window(1) = {}
  BY DEF Window
<1>6. RingOf(a, 1)
  <2>1. SumFunction(InRing(a, 1)) = 0
    <3>1. DOMAIN InRing(a, 1) = {}
      BY <1>5 DEF InRing
    <3> QED
      BY <3>1, SumEmpty
  <2>2. Slot(1) = 0
    <3>1. 0 = 0 * WINDOW + 0 /\ 0 \in 0..(WINDOW - 1)
      BY Constants
    <3>2. 0 % WINDOW = 0
      BY <3>1, Constants, RemainderUnique
    <3> QED
      BY <3>2 DEF Slot
  <2> HIDE DEF a
  <2> QED
    BY <1>1, <2>1, <2>2 DEF RingOf
<1>7. VolumesOf(a, trades[s], 1)
  BY <1>5 DEF VolumesOf
<1> QED
  BY <1>2, <1>4, <1>6, <1>7

\* What the invariant says in the words of WindowMatchesTrades.
LEMMA WindowTotal ==
  ASSUME BufferInv, WindowInv, NEW s \in Symbols \ {0}
  PROVE  buffers[s].avg_info.total_15min_volume = WindowVolume(s)
<1> DEFINE a == buffers[s].avg_info
           f == InRing(a, Minute)
           h == [m \in LastMinutes |-> Volume(trades[s][m])]
<1>1. LastMinutes = Window(Minute)
  BY DEF LastMinutes, Window
<1>2. a.total_15min_volume = SumFunction(f) /\ VolumesOf(a, trades[s], Minute)
  BY DEF WindowInv, RingOf
<1>3. DOMAIN f = LastMinutes /\ DOMAIN h = LastMinutes
  BY <1>1 DEF InRing
<1>4. IsFiniteSet(LastMinutes)
  <2>1. Minute \in Nat
    BY HistoryOf, Constants DEF BufferInv
  <2>2. IsFiniteSet(1..(Minute - 1))
    BY <2>1, FS_Interval
  <2>3. LastMinutes \subseteq 1..(Minute - 1)
    BY DEF LastMinutes
  <2> QED
    BY <2>2, <2>3, FS_Subset
<1>5. \A m \in LastMinutes : f[m] = h[m]
  BY <1>1, <1>2 DEF InRing, VolumesOf
<1> HIDE DEF f, h
<1>6. SumFunction(f) = SumFunction(h)
  BY <1>3, <1>4, <1>5, SumEqual
<1> QED
  BY <1>2, <1>6 DEF h, WindowVolume

\* The running totals are the sums of the ring, and the total volume is that of
\* the trades of the last WINDOW minutes, for every size of the window, every
\* symbol but the first, whatever that one found on the stack, and after any
\* number of minutes.
THEOREM WindowCorrect == Spec => []WindowMatchesTrades
<1>1. BufferInv /\ WindowInv => WindowMatchesTrades
  <2> SUFFICES ASSUME BufferInv, WindowInv
               PROVE  WindowMatchesTrades
    OBVIOUS
  <2> QED
    BY WindowTotal DEF WindowInv, SumsOf, WindowMatchesTrades
<1> QED
  BY <1>1, BufferInit, BufferStep, WindowInit, WindowStep, PTL DEF Spec

-----------------------------------------------------------------------------
(* The rows of the average files.                                          *)

\* The last row of averages has the total, and in a quiet window the last close.
AverageInv ==
  Minute > 1 =>
    \A s \in Symbols :
      LET total == buffers[s].avg_info.total_15min_volume
      IN  /\ avg_row[s][1].volume = total
          /\ total = 0 =>
               avg_row[s][1].average = [num |-> LastClose(trades[s], Minute - 1), den |-> 1]

\* Every step keeps the last row of the average files that of the window.
LEMMA AverageStep == BufferInv /\ AverageInv /\ [Next]_vars => AverageInv'
<1> SUFFICES ASSUME BufferInv, AverageInv, [Next]_vars
             PROVE  AverageInv'
  OBVIOUS
<1>0. HistoryType /\ TypeOK /\ Minute \in Nat \ {0}
  BY HistoryOf, Constants DEF BufferInv
<1>1. ASSUME NEW s \in Symbols, NEW p \in Prices, NEW v \in Volumes,
             add_trade_to_buffers(s, p, v)
      PROVE  AverageInv'
  <2>1. /\ Minute' = Minute /\ avg_row' = avg_row
        /\ \A r \in Symbols \ {s} : trades'[r] = trades[r] /\ buffers'[r] = buffers[r]
        /\ \A m \in 1..Minute : m # Minute => trades'[s][m] = trades[s][m]
        /\ buffers'[s].avg_info = buffers[s].avg_info
    BY <1>0, <1>1, TradeFrame
  <2> SUFFICES ASSUME Minute > 1, NEW r \in Symbols
               PROVE  /\ buffers'[r].avg_info = buffers[r].avg_info
                      /\ LastClose(trades'[r], Minute - 1) = LastClose(trades[r], Minute - 1)
    BY <2>1 DEF AverageInv
  <2>2. buffers'[r].avg_info = buffers[r].avg_info
    BY <2>1
  <2> DEFINE n == Minute - 1
             h == trades[r]
             g == trades'[r]
  <2>3. n \in Nat /\ \A m \in 1..n : g[m] = h[m]
    BY <1>0, <2>1
  <2> HIDE DEF n, h, g
  <2>4. LastClose(g, n) = LastClose(h, n)
    BY <2>3, LastCloseSame
  <2> QED
    BY <2>2, <2>4 DEF n, h, g
<1>2. CASE write_and_reset_buffers
  <2>1. /\ Minute' = Minute + 1
        /\ \A s \in Symbols :
             /\ \A m \in 1..Minute : trades'[s][m] = trades[s][m]
             /\ avg_row'[s] =
                  <<[average |-> MovingAverage(buffers'[s].avg_info, buffers[s].candlestick),
                     volume |-> buffers'[s].avg_info.total_15min_volume]>>
    BY <1>0, <1>2, DirectiveFrame
  <2> SUFFICES ASSUME NEW s \in Symbols
               PROVE  LET total == buffers'[s].avg_info.total_15min_volume
                      IN  /\ avg_row'[s][1].volume = total
                          /\ total = 0 =>
                               avg_row'[s][1].average
                                 = [num |-> LastClose(trades'[s], Minute), den |-> 1]
    <3>1. Minute' - 1 = Minute
      BY <1>0, <2>1
    <3> QED
      BY <3>1 DEF AverageInv
  <2> DEFINE a == buffers'[s].avg_info
             c == buffers[s].candlestick
             n == Minute
             h == trades[s]
             g == trades'[s]
  <2>2. avg_row'[s][1].volume = a.total_15min_volume
        /\ avg_row'[s][1].average = MovingAverage(a, c)
    <3> DEFINE average == MovingAverage(a, c)
               total == a.total_15min_volume
               row == [average |-> average, volume |-> total]
    <3>1. avg_row'[s] = <<row>>
      BY <2>1, Zenon
    <3> HIDE DEF average, total
    <3>2. row.volume = total /\ row.average = average
      OBVIOUS
    <3> HIDE DEF row
    <3>3. avg_row'[s][1] = row
      BY <3>1
    <3> QED
      BY <3>2, <3>3 DEF average, total
  <2>3. n \in Nat /\ \A m \in 1..n : g[m] = h[m]
    BY <1>0, <2>1
  <2>4. c.close = LastClose(h, n)
    BY DEF BufferInv, CloseInv
  <2> HIDE DEF a, c, n, h, g
  <2>5. LastClose(g, n) = LastClose(h, n)
    BY <2>3, LastCloseSame
  <2>6. a.total_15min_volume = 0 => MovingAverage(a, c) = [num |-> LastClose(g, n), den |-> 1]
    BY <2>4, <2>5 DEF MovingAverage
  <2> QED
    BY <2>2, <2>6 DEF a, n, g
<1>3. CASE UNCHANGED vars
  BY <1>3 DEF vars, AverageInv, Minute
<1> QED
  BY <1>1, <1>2, <1>3 DEF Next

\* The row of averages has the volume of the last WINDOW minutes, and for a
\* window without volume the last close, for every symbol but the first.
THEOREM AverageCorrect == Spec => []QuietWindowAverage
<1>1. Init => AverageInv
  BY Constants DEF Init, AverageInv, Minute
<1>2. BufferInv /\ WindowInv /\ AverageInv => QuietWindowAverage
  <2> SUFFICES ASSUME BufferInv, WindowInv, AverageInv, Minute > 1, NEW s \in Symbols \ {0}
               PROVE  /\ avg_row[s][1].volume = WindowVolume(s)
                      /\ WindowVolume(s) = 0 =>
                           avg_row[s][1].average
                             = [num |-> LastClose(trades[s], Minute - 1), den |-> 1]
    BY DEF QuietWindowAverage
  <2>1. buffers[s].avg_info.total_15min_volume = WindowVolume(s)
    BY WindowTotal
  <2> QED
    BY <2>1 DEF AverageInv
<1> QED
  BY <1>1, <1>2, BufferInit, BufferStep, WindowInit, WindowStep, AverageStep, PTL DEF Spec
=============================================================================
