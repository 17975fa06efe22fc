------------------------------ MODULE MCStartup ------------------------------
(***************************************************************************)
(* Startup for TLC.                                                        *)
(***************************************************************************)
EXTENDS Startup, TLC

\* Every time of the first minute.
MCStartTimes == 0..(Minute - 1)

\* Nothing orders the symbols' files.
Symmetry == Permutations(Symbols)
=============================================================================
