------------------------------- MODULE Startup -------------------------------
(***************************************************************************)
(* main from its start to its end: the files that SystemHandling.c opens   *)
(* and closes, the threads as far as they use those files, and the minute  *)
(* timer of setup_timer with the labels that send_directive_to_queue gives *)
(* to the minutes.                                                         *)
(*                                                                         *)
(* Time is the wall clock, in the unit of which a second has MICROS; it    *)
(* goes on between any two steps.  What main does between two system calls *)
(* that fail or read the clock is one step.                                *)
(***************************************************************************)
EXTENDS Integers, Sequences

CONSTANTS
  Symbols,     (* symbols_list                                             *)
  Writers,     (* the Writers, which have a delay log each                 *)
  SECONDS,     (* the seconds of a minute: the literals 59 + 1 and 60      *)
  MICROS,      (* the microseconds of a second: the literal 1e6            *)
  StartTimes,  (* the times at which the program may be started            *)
  MaxTime      (* bound: the time at which observation ends                *)

ASSUME StartupAssumption ==
  /\ SECONDS \in Nat \ {0} /\ MICROS \in Nat \ {0}
  /\ MaxTime \in Nat /\ StartTimes \subseteq 0..MaxTime

VARIABLES
  pc,       (* what main does next, or how the program ended               *)
  files,    (* per folder and file: "unopened", "open", "null" or "closed" *)
  threads,  (* "none", "running" or "returned"                             *)
  now,      (* the time                                                    *)
  timer,    (* the timer: armed, the time of the next expiry, and what     *)
            (* setup_timer read from the clock (read) and how long ago that *)
            (* was when it armed the timer (delay)                         *)
  pending,  (* the times of the expiries whose SIGALRM is not delivered;   *)
            (* all but the first are merged into it                        *)
  labels    (* per delivered SIGALRM: the time of the expiry, the time of  *)
            (* its delivery (at), and the label of its directive           *)

timevars == <<now, timer, pending, labels>>
vars == <<pc, files, threads, timevars>>

Minute == SECONDS * MICROS
MinuteOf(time) == time \div Minute

Batches == {"trade_logs", "candlesticks", "moving_avg"}
Folders == Batches \cup {"delays"}
FilesOf(folder) == IF folder = "delays" THEN Writers \cup {"calculator"} ELSE Symbols
AllFiles(folder, status) == [f \in FilesOf(folder) |-> status]

Init ==
  /\ pc = "delays"
  /\ files = [folder \in Folders |-> AllFiles(folder, "unopened")]
  /\ threads = "none"
  /\ now \in StartTimes
  /\ timer = [armed |-> FALSE, expiry |-> 0, read |-> 0, delay |-> 0]
  /\ pending = <<>>
  /\ labels = <<>>

Goto(from, to) == pc = from /\ pc' = to

\* exit was called, main returned, or a thread used a stream that is not open.
Over == pc \in {"exited", "ended", "crashed"}

-----------------------------------------------------------------------------
(* SystemHandling.c: each call may exit, if the folder cannot be created.  *)

\* What main does after it has opened a folder.
AfterOpen == [delays |-> "trade_logs", trade_logs |-> "candlesticks",
              candlesticks |-> "moving_avg", moving_avg |-> "threads"]

\* The first file that cannot be opened ends the program.
open_delay_files ==
  /\ \/ Goto("delays", "exited") /\ UNCHANGED files
     \/ /\ Goto("delays", AfterOpen["delays"])
        /\ files' = [files EXCEPT !["delays"] = AllFiles("delays", "open")]
  /\ UNCHANGED <<threads, timevars>>

\* The test for a failed fopen looks at the array, which is never NULL, and
\* not at its element: the batch goes on with a NULL stream in it.
open_csv_batch(folder) ==
  /\ \/ Goto(folder, "exited") /\ UNCHANGED files
     \/ /\ Goto(folder, AfterOpen[folder])
        /\ \E failed \in SUBSET Symbols :
             files' = [files EXCEPT ![folder] =
                        [s \in Symbols |-> IF s \in failed THEN "null" ELSE "open"]]
  /\ UNCHANGED <<threads, timevars>>

start_threads ==
  /\ Goto("threads", "timer")
  /\ threads' = "running"
  /\ UNCHANGED <<files, timevars>>

-----------------------------------------------------------------------------
(* setup_timer                                                             *)

\* signal and gettimeofday.
setup_timer_read ==
  /\ Goto("timer", "arm")
  /\ timer' = [timer EXCEPT !.read = now]
  /\ UNCHANGED <<files, threads, now, pending, labels>>

\* Mutant: the delay counts to the second after the minute.
it_value_late(read) ==
  [tv_sec |-> SECONDS - ((read \div MICROS) % SECONDS), tv_usec |-> MICROS - (read % MICROS)]

\* The initial delay, from the time read from the clock.
it_value(read) ==
  [tv_sec |-> SECONDS - 1 - ((read \div MICROS) % SECONDS), tv_usec |-> MICROS - (read % MICROS)]

\* setitimer refuses a tv_usec of a whole second or more, and setup_timer exits.
setup_timer_arm ==
  LET v == it_value(timer.read)
  IN  /\ \/ /\ v.tv_usec >= MICROS
            /\ Goto("arm", "exited")
            /\ UNCHANGED timer
         \/ /\ v.tv_usec < MICROS
            /\ Goto("arm", "join")
            /\ timer' = [timer EXCEPT !.armed = TRUE, !.delay = now - timer.read,
                                      !.expiry = now + v.tv_sec * MICROS + v.tv_usec]
      /\ UNCHANGED <<files, threads, now, pending, labels>>

-----------------------------------------------------------------------------
(* The clock, the timer and the handler.                                   *)

Tick ==
  /\ ~ Over
  /\ now < MaxTime
  /\ timer.armed => now < timer.expiry
  /\ now' = now + 1
  /\ UNCHANGED <<pc, files, threads, timer, pending, labels>>

Expire ==
  /\ ~ Over
  /\ timer.armed /\ now = timer.expiry
  /\ timer' = [timer EXCEPT !.expiry = @ + Minute]
  /\ pending' = Append(pending, now)
  /\ UNCHANGED <<pc, files, threads, now, labels>>

\* Mutant: a minute gets the label of the minute that begins.
MinuteLabel_begun(time) == MinuteOf(time)

\* Mutant: a minute gets the label of the one before.
MinuteLabel_past(time) == MinuteOf(time) - 2

MinuteLabel(time) == MinuteOf(time) - 1

\* SIGALRM is delivered and the handler reads the clock.
send_directive_to_queue ==
  /\ ~ Over
  /\ pending # <<>>
  /\ labels' = Append(labels, [expiry |-> Head(pending), at |-> now,
                               label |-> MinuteLabel(now)])
  /\ pending' = <<>>
  /\ UNCHANGED <<pc, files, threads, now, timer>>

-----------------------------------------------------------------------------
(* The threads, and the end of main.                                       *)

\* A Writer or the Calculator prints to its files; an open one takes it.
print_line ==
  /\ ~ Over
  /\ threads = "running"
  /\ \E folder \in Folders : \E f \in FilesOf(folder) : files[folder][f] # "open"
  /\ pc' = "crashed"
  /\ UNCHANGED <<files, threads, timevars>>

\* The exit order has gone through the pipeline.
threads_return ==
  /\ ~ Over
  /\ threads = "running"
  /\ threads' = "returned"
  /\ UNCHANGED <<pc, files, timevars>>

\* Mutant: main does not wait for its threads.
join_none ==
  /\ Goto("join", "close")
  /\ UNCHANGED <<files, threads, timevars>>

join ==
  /\ threads = "returned"
  /\ Goto("join", "close")
  /\ UNCHANGED <<files, threads, timevars>>

\* close_csv_batch for each batch, and close_delay_files; fclose does not take
\* a NULL stream.
close_files ==
  /\ \/ /\ \A folder \in Folders : files[folder] = AllFiles(folder, "open")
        /\ Goto("close", "report")
        /\ files' = [folder \in Folders |-> AllFiles(folder, "closed")]
     \/ /\ \E folder \in Folders : files[folder] # AllFiles(folder, "open")
        /\ Goto("close", "crashed")
        /\ UNCHANGED files
  /\ UNCHANGED <<threads, timevars>>

\* getrusage, the last lines of output, and the return from main.
report ==
  /\ Goto("report", "ended")
  /\ UNCHANGED <<files, threads, timevars>>

Next ==
  \/ open_delay_files
  \/ \E folder \in Batches : open_csv_batch(folder)
  \/ start_threads
  \/ setup_timer_read
  \/ setup_timer_arm
  \/ Tick
  \/ Expire
  \/ send_directive_to_queue
  \/ print_line
  \/ threads_return
  \/ join
  \/ close_files
  \/ report

Spec == Init /\ [][Next]_vars

-----------------------------------------------------------------------------
(* Correctness                                                             *)

\* The types of the variables.
TypeOK ==
  /\ pc \in Folders \cup {"threads", "timer", "arm", "join", "close", "report",
                          "exited", "ended", "crashed"}
  /\ \A folder \in Folders :
       files[folder] \in [FilesOf(folder) -> {"unopened", "open", "null", "closed"}]
  /\ threads \in {"none", "running", "returned"}
  /\ now \in 0..MaxTime
  /\ timer \in [armed : BOOLEAN, expiry : Nat, read : 0..MaxTime, delay : 0..MaxTime]
  /\ pending \in Seq(0..MaxTime)
  /\ labels \in Seq([expiry : 0..MaxTime, at : 0..MaxTime, label : Nat])

\* A stream that is not open is used only after an fopen for a batch failed
\* unnoticed: a failed delay log ends the program before any thread runs, and
\* no file is closed under a thread that may still print to it.
CrashOnlyByUnnoticedOpen ==
  pc = "crashed" => \E batch \in Batches, s \in Symbols : files[batch][s] = "null"

\* Every expiry comes at the start of a minute, late by no more than what
\* passed between the reading of the clock and the arming of the timer; the
\* program gives up over the timer only if it read a whole second.
TimerOnTheMinute ==
  /\ timer.armed => (timer.expiry - timer.delay) % Minute = 0
  /\ pc = "exited" /\ threads # "none" => timer.read % MICROS = 0

\* The directives name consecutive minutes, the first of them the one in which
\* the timer was set up, as long as the timer is armed within a minute and each
\* SIGALRM is delivered in the minute in which it was due: none is skipped or
\* named twice when the timer expires a little late each time.
MinutesLabelled ==
  /\ timer.delay < Minute
  /\ \A k \in 1..Len(labels) : MinuteOf(labels[k].at) = MinuteOf(labels[k].expiry)
  => \A k \in 1..Len(labels) : labels[k].label = MinuteOf(timer.read) + k - 1
=============================================================================
