---------------------------- MODULE BoundedQueue ----------------------------
(***************************************************************************)
(* What a PCQueue promises to the threads that use it: a bounded FIFO      *)
(* whose add and remove take effect in one step, and an exit order after   *)
(* which an add may be refused at once and a remove is refused only when   *)
(* nothing is left to take.  There is no ring, mutex or condition here.    *)
(***************************************************************************)
EXTENDS Integers, Sequences

CONSTANTS
  Threads,    (* every thread of control that touches the queue            *)
  Items,      (* the work items                                            *)
  Capacity,   (* the most items the queue holds                            *)
  NoItem      (* what a thread holds before its first remove               *)

VARIABLES
  contents,   (* the queued items, the oldest first                        *)
  exit_flag,  (* 1 once the exit order was given                           *)
  client      (* per thread: call without an outcome yet, its argument,    *)
              (* the item last removed and the last return value           *)

vars == <<contents, exit_flag, client>>

Init ==
  /\ contents = <<>>
  /\ exit_flag = 0
  /\ client = [t \in Threads |->
                [call |-> "none", arg |-> NoItem, item |-> NoItem, ret |-> 0]]

\* The call of thread t is decided: it holds this item and returns this value.
Return(t, item, ret) ==
  client' = [client EXCEPT ![t] = [call |-> "none", arg |-> @.arg,
                                   item |-> item, ret |-> ret]]

CallAdd(t, i) ==
  /\ client[t].call = "none"
  /\ client' = [client EXCEPT ![t] = [call |-> "add", arg |-> i,
                                      item |-> @.item, ret |-> @.ret]]
  /\ UNCHANGED <<contents, exit_flag>>

CallRemove(t) ==
  /\ client[t].call = "none"
  /\ client' = [client EXCEPT ![t].call = "remove"]
  /\ UNCHANGED <<contents, exit_flag>>

Add(t) ==
  /\ client[t].call = "add"
  /\ Len(contents) < Capacity
  /\ contents' = Append(contents, client[t].arg)
  /\ Return(t, client[t].item, 0)
  /\ UNCHANGED exit_flag

AddRefused(t) ==
  /\ client[t].call = "add"
  /\ exit_flag = 1
  /\ Return(t, client[t].item, -1)
  /\ UNCHANGED <<contents, exit_flag>>

Remove(t) ==
  /\ client[t].call = "remove"
  /\ contents # <<>>
  /\ contents' = Tail(contents)
  /\ Return(t, Head(contents), 0)
  /\ UNCHANGED exit_flag

RemoveRefused(t) ==
  /\ client[t].call = "remove"
  /\ exit_flag = 1
  /\ contents = <<>>
  /\ Return(t, client[t].item, -1)
  /\ UNCHANGED <<contents, exit_flag>>

OrderExit ==
  /\ exit_flag' = 1
  /\ UNCHANGED <<contents, client>>

\* Every step of a thread makes or decides a call.  (The first conjunct adds
\* nothing; it lets TLC pass over the other threads.)
Next ==
  \/ \E t \in Threads :
       /\ client'[t].call # client[t].call
       /\ \/ \E i \in Items : CallAdd(t, i)
          \/ CallRemove(t)
          \/ Add(t)
          \/ AddRefused(t)
          \/ Remove(t)
          \/ RemoveRefused(t)
  \/ OrderExit

Spec == Init /\ [][Next]_vars
=============================================================================
