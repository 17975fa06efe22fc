--------------------------- MODULE MCWSSConnection ---------------------------
(***************************************************************************)
(* WSSConnection for TLC.                                                  *)
(***************************************************************************)
EXTENDS WSSConnection

\* A sound trade, one of an unknown symbol, one without volume, one with a bad
\* price, and one with a time that is no integer.
MCObjects ==
  {[p |-> "float", s |-> "known",   t |-> "int",   v |-> "int"],
   [p |-> "int",   s |-> "unknown", t |-> "int",   v |-> "float"],
   [p |-> "float", s |-> "known",   t |-> "int",   v |-> "absent"],
   [p |-> "bad_float", s |-> "known", t |-> "int", v |-> "int"],
   [p |-> "float", s |-> "known",   t |-> "bad_float", v |-> "int"]}
=============================================================================
