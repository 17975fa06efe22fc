-------------------------- MODULE MCTradeProcessing --------------------------
(***************************************************************************)
(* TradeProcessing for TLC, with bounded runs.                             *)
(***************************************************************************)
EXTENDS TradeProcessing

CONSTANTS
  MaxTrades,   (* bound: trades in a behaviour                             *)
  MaxMinutes   (* bound: directives in a behaviour                         *)

VARIABLE count (* trades so far *)

MCInit == Init /\ count = 0

MCNext ==
  \/ /\ count < MaxTrades
     /\ \E s \in Symbols, p \in Prices, v \in Volumes : add_trade_to_buffers(s, p, v)
     /\ count' = count + 1
  \/ /\ Minute <= MaxMinutes
     /\ write_and_reset_buffers
     /\ UNCHANGED count

MCSpec == MCInit /\ [][MCNext]_<<vars, count>>
=============================================================================
