------------------------------ MODULE MCPCQueue ------------------------------
(***************************************************************************)
(* PCQueue on its own, used the way the program uses it: producers add     *)
(* numbered items, consumers remove until they are told to stop, and the   *)
(* remaining threads give the exit order and wake consumers.               *)
(***************************************************************************)
EXTENDS PCQueue, TLC

CONSTANTS
  MaxAdds,      (* bound: calls of queue_add in one behaviour              *)
  MaxSpurious   (* bound: wakeups without a signal in one behaviour        *)

VARIABLES
  added,        (* calls of queue_add so far; also names the items         *)
  spurious      (* wakeups without a signal so far                         *)

mcvars == <<vars, added, spurious>>

MCItems == 1..MaxAdds

Others == Threads \ (Producers \cup Consumers)

MCInit == Init /\ added = 0 /\ spurious = 0

\* Only the threads that the program has do so write the exit flag.
MCBegin(t) ==
  \/ /\ t \in Producers
     /\ added < MaxAdds
     /\ queue_add(t, added + 1)
     /\ added' = added + 1
  \/ /\ t \in Consumers
     /\ op[t].ret = 0
     /\ queue_remove(t)
     /\ UNCHANGED added
  \/ /\ t \in Others
     /\ \/ order_exit(t)
        \/ set_exit_flag(t)
        \/ bare_signal(t)
        \/ notify_if_empty(t)
     /\ UNCHANGED added

MCNext ==
  \E t \in Threads :
    \/ MCBegin(t) /\ UNCHANGED spurious
    \/ Continue(t) /\ UNCHANGED <<added, spurious>>
    \/ /\ spurious < MaxSpurious
       /\ SpuriousWakeup(t)
       /\ spurious' = spurious + 1
       /\ UNCHANGED added

MCSpec == MCInit /\ [][MCNext]_mcvars

Symmetry == Permutations(Producers) \cup Permutations(Consumers)
=============================================================================
