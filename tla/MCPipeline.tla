----------------------------- MODULE MCPipeline -----------------------------
(***************************************************************************)
(* Pipeline for TLC.                                                       *)
(***************************************************************************)
EXTENDS Pipeline, TLC

\* The Writers run the same routine, the SIGINTs the same handler, and nothing
\* orders them.
Symmetry == Permutations(Writers) \cup Permutations(Interrupts)
=============================================================================
