--------------------------- MODULE TradeProcessing ---------------------------
(***************************************************************************)
(* The Calculator's buffers (TradeProcessing.c): a candlestick for the     *)
(* current minute and a ring with the totals of the last minutes, for each *)
(* symbol.  Prices and volumes are integers here, and a double is one or   *)
(* NaN; the rounding of doubles is not modelled.                           *)
(***************************************************************************)
EXTENDS Integers, Sequences, Functions

CONSTANTS
  SYMBOL_COUNT,  (* symbols, numbered from 0                               *)
  WINDOW,        (* the literal 15: minutes in the moving average          *)
  Prices,        (* prices of trades                                       *)
  Volumes,       (* volumes of trades; forex trades have volume 0          *)
  NaN,           (* a double that spoils every sum it gets into: not a     *)
                 (* number, infinite, or so large that it absorbs the rest *)
  Garbage        (* what memory that was never written may hold            *)

CANDLESTICK_IS_EMPTY == -1

Double == Int \cup {NaN}

ASSUME TradeAssumption ==
  /\ SYMBOL_COUNT \in Nat \ {0}
  /\ WINDOW \in Nat \ {0}
  /\ Prices \subseteq {p \in Int : p > CANDLESTICK_IS_EMPTY}
  /\ Volumes \subseteq Nat
  /\ NaN \notin Int
  /\ Garbage \subseteq Double /\ Garbage # {}

Symbols == 0..(SYMBOL_COUNT - 1)

VARIABLES
  buffers,    (* the CalculatorBuffer of each symbol                       *)
  candle_row, (* per symbol: what the last directive wrote to its          *)
              (* candlestick file, <<>> if nothing                         *)
  avg_row,    (* per symbol: what the last directive wrote to its average  *)
              (* file, <<>> before the first one                           *)
  trades      (* history, per symbol: one sequence of trades per minute,   *)
              (* the current minute last                                   *)

vars == <<buffers, candle_row, avg_row, trades>>

Minute == Len(trades[0])

\* The + and - of doubles.
Plus(x, y) == IF NaN \in {x, y} THEN NaN ELSE x + y

Minus(x, y) == IF NaN \in {x, y} THEN NaN ELSE x - y

-----------------------------------------------------------------------------
\* init_calculator_buffers clears sizeof(CalculatorBuffer) bytes from each
\* avg_info on: that averages part and the candlestick of the next symbol.
\* The candlestick of symbol 0 is left as it was on the stack of main, except
\* for open and close.  For the last symbol the bytes after the array are
\* cleared instead of a candlestick; they belong to main and are not modelled.
init_calculator_buffers ==
  \E g \in Garbage :
    buffers = [s \in Symbols |->
      [candlestick |->
         LET field == IF s = 0 THEN g ELSE 0
         IN  [max |-> field, min |-> field,
              open |-> CANDLESTICK_IS_EMPTY, close |-> CANDLESTICK_IS_EMPTY,
              volume |-> field, weighted_price |-> field],
       avg_info |->
         [total_15min_volume |-> 0,
          minute_volumes |-> [m \in 0..(WINDOW - 1) |-> 0],
          total_15min_weighted_price |-> 0,
          weighted_prices |-> [m \in 0..(WINDOW - 1) |-> 0],
          oldest_index |-> 0]]]

Init ==
  /\ init_calculator_buffers
  /\ candle_row = [s \in Symbols |-> <<>>]
  /\ avg_row = [s \in Symbols |-> <<>>]
  /\ trades = [s \in Symbols |-> << <<>> >>]

-----------------------------------------------------------------------------
\* The prices after a trade at p: the first of a minute sets all four.
Traded(c, p) ==
  IF c.open > CANDLESTICK_IS_EMPTY
  THEN [c EXCEPT !.max = IF p > @ THEN p ELSE @,
                 !.min = IF p <= c.max /\ p < @ THEN p ELSE @,
                 !.close = p]
  ELSE [c EXCEPT !.open = p, !.close = p, !.max = p, !.min = p]

\* A trade without volume weighs 1.
Weight(v) == IF v = 0 THEN 1 ELSE v

AfterTrade(c, p, v) ==
  [Traded(c, p) EXCEPT !.volume = Plus(@, v),
                          !.weighted_price = Plus(@, Weight(v) * p)]

add_trade_to_buffers(s, p, v) ==
  /\ buffers' = [buffers EXCEPT ![s].candlestick = AfterTrade(@, p, v)]
  /\ trades' = [trades EXCEPT ![s][Minute] = Append(@, [p |-> p, v |-> v])]
  /\ UNCHANGED <<candle_row, avg_row>>

-----------------------------------------------------------------------------
\* Mutant: the slot is overwritten before the total is corrected.
ReplaceTooEarly(a, c) ==
  [a EXCEPT !.minute_volumes[a.oldest_index] = c.volume,
            !.weighted_prices[a.oldest_index] = c.weighted_price]

\* The minute replaces the oldest one of the window ...
Replace(a, c) ==
  LET oldest == a.oldest_index
  IN  [a EXCEPT !.total_15min_volume =
                  Plus(Minus(@, a.minute_volumes[oldest]), c.volume),
                !.minute_volumes[oldest] = c.volume,
                !.total_15min_weighted_price =
                  Plus(Minus(@, a.weighted_prices[oldest]), c.weighted_price),
                !.weighted_prices[oldest] = c.weighted_price]

\* Mutant: the index runs past the last minute.
AdvanceUnwrapped(a, c) == [Replace(a, c) EXCEPT !.oldest_index = @ + 1]

\* ... and the next one becomes the oldest.
Advance(a, c) == [Replace(a, c) EXCEPT !.oldest_index = (@ + 1) % WINDOW]

\* Mutant: a quiet window falls back on the open price.
MovingAverageOpen(a, c) ==
  IF a.total_15min_volume = 0
  THEN [num |-> c.open, den |-> 1]
  ELSE [num |-> a.total_15min_weighted_price, den |-> a.total_15min_volume]

\* A moving average is a quotient of sums, kept as the pair of them.  With NaN
\* for a total it may come out as anything.
MovingAverage(a, c) ==
  IF a.total_15min_volume = 0
  THEN [num |-> c.close, den |-> 1]
  ELSE [num |-> a.total_15min_weighted_price, den |-> a.total_15min_volume]

\* Mutant: a minute without trades repeats the extremes of an older one.
CandleRowStale(c) ==
  IF c.close > CANDLESTICK_IS_EMPTY
  THEN <<[open |-> c.close, max |-> c.max, min |-> c.min, close |-> c.close,
          volume |-> c.volume]>>
  ELSE <<>>

\* A minute without trades repeats the last close; before the first trade
\* there is no row.
CandleRow(c) ==
  IF c.open > CANDLESTICK_IS_EMPTY
  THEN <<[open |-> c.open, max |-> c.max, min |-> c.min, close |-> c.close,
          volume |-> c.volume]>>
  ELSE IF c.close > CANDLESTICK_IS_EMPTY
  THEN <<[open |-> c.close, max |-> c.close, min |-> c.close, close |-> c.close,
          volume |-> c.volume]>>
  ELSE <<>>

\* Mutant: the candlestick is not marked empty.
ResetVolumeOnly(c) == [c EXCEPT !.volume = 0]

Reset(c) == [c EXCEPT !.open = CANDLESTICK_IS_EMPTY, !.volume = 0]

write_and_reset_buffers ==
  LET averages(s) == Advance(buffers[s].avg_info, buffers[s].candlestick)
  IN  /\ buffers' = [s \in Symbols |->
           [candlestick |-> Reset(buffers[s].candlestick), avg_info |-> averages(s)]]
      /\ avg_row' = [s \in Symbols |->
           <<[average |-> MovingAverage(averages(s), buffers[s].candlestick),
              volume |-> averages(s).total_15min_volume]>>]
      /\ candle_row' = [s \in Symbols |-> CandleRow(buffers[s].candlestick)]
      /\ trades' = [s \in Symbols |-> Append(trades[s], <<>>)]

-----------------------------------------------------------------------------
\* The Calculator handles trades and directives as they come.
Next ==
  \/ \E s \in Symbols, p \in Prices, v \in Volumes : add_trade_to_buffers(s, p, v)
  \/ write_and_reset_buffers

Spec == Init /\ [][Next]_vars

-----------------------------------------------------------------------------
(* Correctness.  The reference is the history of the trades.               *)

CandlestickOf(T) == [max : T, min : T, open : Int, close : Int,
                     volume : T, weighted_price : T]

MovingAverageInfoOf(T) ==
  [total_15min_volume : T, minute_volumes : [0..(WINDOW - 1) -> T],
   total_15min_weighted_price : T, weighted_prices : [0..(WINDOW - 1) -> T],
   oldest_index : 0..(WINDOW - 1)]

CalculatorBufferOf(T) ==
  [candlestick : CandlestickOf(T), avg_info : MovingAverageInfoOf(T)]

\* The structs of TradeProcessing.h: oldest_index stays inside the window, and
\* what symbol 0 found on the stack never gets into another symbol.
TypeOK ==
  /\ buffers \in [Symbols -> CalculatorBufferOf(Double)]
  /\ \A s \in Symbols \ {0} : buffers[s] \in CalculatorBufferOf(Int)

Volume(minute) == SumFunction([k \in DOMAIN minute |-> minute[k].v])

WeightedPrice(minute) ==
  SumFunction([k \in DOMAIN minute |-> Weight(minute[k].v) * minute[k].p])

\* Candlestick c, but for its volume, is the one of a minute with these trades.
IsCandleOf(c, minute) ==
  LET prices == {minute[k].p : k \in DOMAIN minute}
  IN  /\ c.open = minute[1].p
      /\ c.close = minute[Len(minute)].p
      /\ {c.max, c.min} \subseteq prices
      /\ \A p \in prices : c.min <= p /\ p <= c.max

\* What was on the stack of main is still in the current minute of symbol s.
Tainted(s) == s = 0 /\ Minute = 1

\* While a minute runs its candlestick is the summary of the trades so far,
\* for trades with and without volume, after minutes with and without trades.
CandleMatchesTrades ==
  \A s \in Symbols :
    LET c == buffers[s].candlestick
        now == trades[s][Minute]
    IN  /\ c.open = CANDLESTICK_IS_EMPTY <=> now = <<>>
        /\ now # <<>> => IsCandleOf(c, now)
        /\ ~ Tainted(s) => c.volume = Volume(now)

\* The minutes a window holds, the current one not counted.
LastMinutes == {m \in 1..(Minute - 1) : m >= Minute - WINDOW}

WindowVolume(s) == SumFunction([m \in LastMinutes |-> Volume(trades[s][m])])

\* The running totals, corrected by one minute at a time, are the sums of the
\* ring at every moment, and the volume is that of the last WINDOW minutes: for
\* every symbol that init_calculator_buffers has cleared, which symbol 0 is not.
WindowMatchesTrades ==
  \A s \in Symbols \ {0} :
    LET a == buffers[s].avg_info
    IN  /\ a.total_15min_volume = SumFunction(a.minute_volumes)
        /\ a.total_15min_weighted_price = SumFunction(a.weighted_prices)
        /\ a.total_15min_volume = WindowVolume(s)

\* The minutes of a history, up to n, that have trades, and the price of the
\* latest of those trades.
TradedMinutes(history, n) == {m \in 1..n : history[m] # <<>>}

LastClose(history, n) ==
  LET traded == TradedMinutes(history, n)
      latest == CHOOSE m \in traded : \A k \in traded : k <= m
  IN  IF traded = {} THEN CANDLESTICK_IS_EMPTY
      ELSE history[latest][Len(history[latest])].p

\* A directive writes the candlestick of the minute that ended; for a minute
\* without trades, a flat one at the close of the latest minute that had some;
\* and nothing for a symbol that has never traded.
RowMatchesTrades ==
  Minute > 1 =>
    \A s \in Symbols :
      LET ended == trades[s][Minute - 1]
          row == candle_row[s][1]
      IN  IF TradedMinutes(trades[s], Minute - 1) = {} THEN candle_row[s] = <<>>
          ELSE /\ IF ended # <<>>
                  THEN IsCandleOf(row, ended)
                  ELSE {row.open, row.max, row.min, row.close}
                         = {LastClose(trades[s], Minute - 1)}
               /\ s # 0 \/ Minute > 2 => row.volume = Volume(ended)

\* The row of averages has the volume of the window; if that is 0, the average
\* is the last close "for continuity" (TradeProcessing.c:107), however long ago
\* it was, and CANDLESTICK_IS_EMPTY for a symbol that has never traded.  Symbol 0
\* is left out, as in WindowMatchesTrades.
QuietWindowAverage ==
  Minute > 1 =>
    \A s \in Symbols \ {0} :
      /\ avg_row[s][1].volume = WindowVolume(s)
      /\ WindowVolume(s) = 0 =>
           avg_row[s][1].average = [num |-> LastClose(trades[s], Minute - 1), den |-> 1]

\* "Sum of (p[i]*v[i]) of all trades in interval." (TradeProcessing.h:44)
WeightedPriceOfInterval ==
  \A s \in Symbols \ {0} :
    buffers[s].candlestick.weighted_price = WeightedPrice(trades[s][Minute])
=============================================================================
