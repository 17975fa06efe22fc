--------------------------- MODULE StartupProofs ---------------------------
(***************************************************************************)
(* Proofs about Startup: no stream is used that is not open but for an     *)
(* fopen that failed unnoticed, a program that ends has closed its files,  *)
(* and the timer names the minutes in order.                               *)
(***************************************************************************)
EXTENDS Startup, TLAPS

-----------------------------------------------------------------------------
(* The files and the threads.                                              *)

\* The files are functions on their folders.
FilesType ==
  /\ files = [folder \in Folders |-> files[folder]]
  /\ \A folder \in Folders :
       files[folder] \in [FilesOf(folder) -> {"unopened", "open", "null", "closed"}]

\* What main does once a folder is open, as long as it is.
Started == {"threads", "timer", "arm", "join", "close"}

BatchOpened(batch) == \A s \in Symbols : files[batch][s] \in {"open", "null"}

\* The folders are opened in this order and closed after the last use.
FilesInv ==
  /\ pc \in {"trade_logs", "candlesticks", "moving_avg"} \cup Started
       => files["delays"] = AllFiles("delays", "open")
  /\ pc \in {"candlesticks", "moving_avg"} \cup Started => BatchOpened("trade_logs")
  /\ pc \in {"moving_avg"} \cup Started => BatchOpened("candlesticks")
  /\ pc \in Started => BatchOpened("moving_avg")
  /\ pc \in {"report", "ended"} =>
       \A folder \in Folders : files[folder] = AllFiles(folder, "closed")

\* Threads run only between their creation and the joins.
ThreadsInv ==
  /\ pc \in Folders \cup {"threads"} => threads = "none"
  /\ pc \in {"close", "report", "ended"} => threads = "returned"
  /\ threads \in {"none", "running", "returned"}
  /\ pc \in Folders \cup {"threads", "timer", "arm", "join", "close", "report",
                          "exited", "ended", "crashed"}

MainInv == FilesType /\ FilesInv /\ ThreadsInv /\ CrashOnlyByUnnoticedOpen

\* Every step keeps what main has done so far.
LEMMA MainStep == MainInv /\ [Next]_vars => MainInv'
<1> SUFFICES ASSUME MainInv, [Next]_vars PROVE MainInv'
  OBVIOUS
<1> USE DEF MainInv, Batches, Folders, Started
<1>0. DOMAIN files = Folders
  BY DEF FilesType
<1>1. CASE open_delay_files
  <2>1. pc = "delays"
    BY <1>1 DEF open_delay_files, Goto
  <2>2. CASE pc' = "exited" /\ files' = files
    BY <1>1, <2>1, <2>2 DEF open_delay_files, FilesType, FilesInv, ThreadsInv,
       CrashOnlyByUnnoticedOpen
  <2>3. CASE /\ pc' = "trade_logs"
             /\ files' = [files EXCEPT !["delays"] = AllFiles("delays", "open")]
    <3>1. /\ files'["delays"] = AllFiles("delays", "open")
          /\ \A folder \in Batches : files'[folder] = files[folder]
          /\ DOMAIN files' = Folders
      BY <1>0, <2>3
    <3>2. FilesType'
      <4>1. files' = [folder \in Folders |-> files'[folder]]
        BY <2>3 DEF FilesType
      <4> QED
        BY <3>1, <4>1 DEF FilesType, AllFiles, FilesOf
    <3> QED
      BY <1>1, <2>1, <2>3, <3>1, <3>2 DEF open_delay_files, FilesInv, ThreadsInv,
         CrashOnlyByUnnoticedOpen
  <2> QED
    BY <1>1, <2>2, <2>3 DEF open_delay_files, Goto, AfterOpen
<1>2. ASSUME NEW folder \in Batches, open_csv_batch(folder) PROVE MainInv'
  <2>1. pc = folder /\ threads' = threads
    BY <1>2 DEF open_csv_batch, Goto
  <2>2. CASE pc' = "exited" /\ files' = files
    BY <2>1, <2>2 DEF FilesType, FilesInv, ThreadsInv, CrashOnlyByUnnoticedOpen
  <2>3. ASSUME pc' = AfterOpen[folder], NEW failed \in SUBSET Symbols,
               files' = [files EXCEPT ![folder] =
                          [s \in Symbols |-> IF s \in failed THEN "null" ELSE "open"]]
        PROVE  MainInv'
    <3>1. /\ files'[folder] = [s \in Symbols |-> IF s \in failed THEN "null" ELSE "open"]
          /\ \A other \in Folders \ {folder} : files'[other] = files[other]
          /\ DOMAIN files' = Folders
      BY <1>0, <2>3
    <3>2. FilesType'
      <4>1. files' = [other \in Folders |-> files'[other]]
        BY <2>3 DEF FilesType
      <4>2. files'[folder] \in [FilesOf(folder) -> {"unopened", "open", "null", "closed"}]
        BY <3>1 DEF FilesOf
      <4> QED
        BY <3>1, <4>1, <4>2 DEF FilesType
    <3>3. BatchOpened(folder)'
      BY <3>1 DEF BatchOpened
    <3>4. \A other \in Batches \ {folder} : BatchOpened(other) => BatchOpened(other)'
      BY <3>1 DEF BatchOpened
    <3>5. files'["delays"] = files["delays"]
      BY <3>1
    <3>6. CASE folder = "trade_logs"
      BY <2>1, <2>3, <3>2, <3>3, <3>4, <3>5, <3>6 DEF AfterOpen, FilesInv, ThreadsInv,
         CrashOnlyByUnnoticedOpen
    <3>7. CASE folder = "candlesticks"
      BY <2>1, <2>3, <3>2, <3>3, <3>4, <3>5, <3>7 DEF AfterOpen, FilesInv, ThreadsInv,
         CrashOnlyByUnnoticedOpen
    <3>8. CASE folder = "moving_avg"
      BY <2>1, <2>3, <3>2, <3>3, <3>4, <3>5, <3>8 DEF AfterOpen, FilesInv, ThreadsInv,
         CrashOnlyByUnnoticedOpen
    <3> QED
      BY <3>6, <3>7, <3>8
  <2> QED
    BY <1>2, <2>2, <2>3 DEF open_csv_batch, Goto
<1>3. CASE start_threads \/ setup_timer_read \/ setup_timer_arm \/ threads_return
           \/ join \/ Tick \/ Expire \/ send_directive_to_queue \/ UNCHANGED vars
  <2>1. files' = files
    BY <1>3 DEF start_threads, setup_timer_read, setup_timer_arm, threads_return, join,
       Tick, Expire, send_directive_to_queue, vars
  <2>2. FilesType' /\ \A batch \in Batches : BatchOpened(batch) => BatchOpened(batch)'
    BY <2>1 DEF FilesType, BatchOpened
  <2>3. \/ pc' = pc /\ threads' = threads
        \/ pc = "threads" /\ pc' = "timer" /\ threads' = "running"
        \/ pc = "timer" /\ pc' = "arm" /\ threads' = threads
        \/ pc = "arm" /\ pc' \in {"exited", "join"} /\ threads' = threads
        \/ pc = "join" /\ pc' = "close" /\ threads = "returned" /\ threads' = threads
        \/ threads = "running" /\ threads' = "returned" /\ pc' = pc
    BY <1>3 DEF start_threads, setup_timer_read, setup_timer_arm, threads_return, join,
       Tick, Expire, send_directive_to_queue, vars, Goto
  <2> QED
    BY <2>1, <2>2, <2>3 DEF FilesInv, ThreadsInv, CrashOnlyByUnnoticedOpen
<1>4. CASE print_line
  <2>1. /\ pc \in {"timer", "arm", "join"} /\ pc' = "crashed" /\ files' = files
        /\ threads' = threads
    BY <1>4 DEF print_line, Over, ThreadsInv
  <2>2. PICK folder \in Folders : \E f \in FilesOf(folder) : files[folder][f] # "open"
    BY <1>4 DEF print_line
  <2>3. folder # "delays"
    BY <2>1, <2>2 DEF FilesInv, AllFiles
  <2>4. \E s \in Symbols : files[folder][s] = "null"
    BY <2>1, <2>2, <2>3 DEF FilesInv, FilesOf, BatchOpened
  <2>5. CrashOnlyByUnnoticedOpen'
    BY <2>1, <2>3, <2>4 DEF CrashOnlyByUnnoticedOpen
  <2> QED
    BY <2>1, <2>5 DEF FilesType, FilesInv, ThreadsInv
<1>5. CASE close_files
  <2>1. pc = "close" /\ threads' = threads
    BY <1>5 DEF close_files, Goto
  <2>2. CASE /\ pc' = "report"
             /\ files' = [folder \in Folders |-> AllFiles(folder, "closed")]
    <3>1. FilesType'
      BY <2>2 DEF FilesType, AllFiles
    <3> QED
      BY <2>1, <2>2, <3>1 DEF FilesInv, ThreadsInv, CrashOnlyByUnnoticedOpen
  <2>3. ASSUME NEW folder \in Folders, files[folder] # AllFiles(folder, "open"),
               pc' = "crashed", files' = files
        PROVE  MainInv'
    <3>1. folder # "delays"
      BY <2>1, <2>3 DEF FilesInv
    <3>2. PICK s \in Symbols : files[folder][s] # "open"
      BY <2>3, <3>1 DEF FilesType, FilesOf, AllFiles
    <3>3. files[folder][s] = "null"
      BY <2>1, <3>1, <3>2 DEF FilesInv, BatchOpened
    <3>4. CrashOnlyByUnnoticedOpen'
      BY <2>3, <3>1, <3>3 DEF CrashOnlyByUnnoticedOpen
    <3> QED
      BY <2>1, <2>3, <3>4 DEF FilesType, FilesInv, ThreadsInv
  <2> QED
    BY <1>5, <2>2, <2>3 DEF close_files, Goto
<1>6. CASE report
  BY <1>6 DEF report, Goto, FilesType, FilesInv, ThreadsInv, CrashOnlyByUnnoticedOpen
<1> QED
  BY <1>1, <1>2, <1>3, <1>4, <1>5, <1>6 DEF Next

\* MainInv holds in every reachable state.
LEMMA MainCorrect == Spec => []MainInv
<1>1. ASSUME Init PROVE MainInv
  <2>1. FilesType
    BY <1>1 DEF Init, FilesType, AllFiles
  <2> QED
    BY <1>1, <2>1 DEF Init, MainInv, FilesInv, ThreadsInv, CrashOnlyByUnnoticedOpen,
       Folders, Batches, Started
<1> QED
  BY <1>1, MainStep, PTL DEF Spec

\* However many symbols and Writers, a stream that is not open is used only if
\* an fopen of a batch failed unnoticed: the delay logs are checked, and no
\* file is closed before the threads that print to it have been joined.
THEOREM CrashCorrect == Spec => []CrashOnlyByUnnoticedOpen
BY MainCorrect, PTL DEF MainInv

-----------------------------------------------------------------------------
(* Arithmetic.                                                             *)

\* Division with remainder.
LEMMA DivRem ==
  ASSUME NEW x \in Nat, NEW D \in Nat \ {0}
  PROVE  /\ x \div D \in Nat /\ x % D \in 0..(D - 1)
         /\ x = (x \div D) * D + (x % D)
<1>1. x % D \in 0..(D - 1)
  OBVIOUS
<1>2. x = D * (x \div D) + (x % D)
  OBVIOUS
<1>3. x \div D \in Int
  OBVIOUS
<1>4. x \div D >= 0
  OBVIOUS
<1> QED
  BY <1>1, <1>2, <1>3, <1>4

\* Quotient and remainder are determined by the division with rest.
LEMMA DivUnique ==
  ASSUME NEW a \in Nat, NEW D \in Nat \ {0}, NEW r \in 0..(D - 1)
  PROVE  (a * D + r) \div D = a /\ (a * D + r) % D = r
<1> DEFINE x == a * D + r
           q == x \div D
           m == x % D
<1>1. x \in Nat
  OBVIOUS
<1>2. q \in Nat /\ m \in 0..(D - 1) /\ x = q * D + m
  BY <1>1, DivRem
<1>3. (a - q) * D = m - r
  BY <1>2
<1> HIDE DEF q, m
<1>4. CASE a - q >= 1
  <2>1. (a - q) * D >= D
    BY <1>2, <1>4
  <2> QED
    BY <1>2, <1>3, <2>1
<1>5. CASE a - q <= -1
  <2>1. (q - a) * D >= D
    BY <1>2, <1>5
  <2>2. (a - q) * D = - ((q - a) * D)
    BY <1>2
  <2> QED
    BY <1>2, <1>3, <2>1, <2>2
<1>6. a = q
  BY <1>2, <1>4, <1>5
<1>7. m = r
  BY <1>2, <1>6
<1> QED
  BY <1>6, <1>7 DEF q, m

\* The quotient reaches every factor the dividend reaches.
LEMMA DivBound ==
  ASSUME NEW x \in Nat, NEW k \in Nat, NEW D \in Nat \ {0}, x >= k * D
  PROVE  x \div D >= k
<1> DEFINE q == x \div D
           m == x % D
<1>1. q \in Nat /\ m \in 0..(D - 1) /\ x = q * D + m
  BY DivRem
<1> HIDE DEF q, m
<1>2. CASE k - q >= 1
  <2>1. (k - q) * D >= D
    BY <1>1, <1>2
  <2>2. (k - q) * D <= m
    BY <1>1
  <2> QED
    BY <1>1, <2>1, <2>2
<1> QED
  BY <1>1, <1>2 DEF q

\* The initial delay leads from the time read to the next minute.
LEMMA ItValue ==
  ASSUME NEW read \in Nat
  PROVE  /\ it_value(read).tv_sec \in Nat
         /\ it_value(read).tv_usec \in 1..MICROS
         /\ it_value(read).tv_usec >= MICROS => read % MICROS = 0
         /\ it_value(read).tv_sec * MICROS + it_value(read).tv_usec
              = (MinuteOf(read) + 1) * Minute - read
<1> DEFINE q == read \div MICROS
           m == read % MICROS
           a == q \div SECONDS
           b == q % SECONDS
<1>0. SECONDS \in Nat \ {0} /\ MICROS \in Nat \ {0}
  BY StartupAssumption
<1>1. q \in Nat /\ m \in 0..(MICROS - 1) /\ read = q * MICROS + m
  BY <1>0, DivRem
<1>2. a \in Nat /\ b \in 0..(SECONDS - 1) /\ q = a * SECONDS + b
  BY <1>0, <1>1, DivRem
<1>3. it_value(read).tv_sec = SECONDS - 1 - b /\ it_value(read).tv_usec = MICROS - m
  BY DEF it_value
<1> HIDE DEF q, m, a, b
<1>4. Minute \in Nat \ {0} /\ Minute = SECONDS * MICROS
  BY <1>0 DEF Minute
<1>5. b * MICROS + m \in 0..(Minute - 1)
  <2>1. b * MICROS <= (SECONDS - 1) * MICROS
    BY <1>0, <1>2
  <2>2. b * MICROS \in Nat /\ (SECONDS - 1) * MICROS = Minute - MICROS
    BY <1>0, <1>2, <1>4
  <2> QED
    BY <1>0, <1>1, <1>4, <2>1, <2>2
<1>6. read = a * Minute + (b * MICROS + m)
  BY <1>0, <1>1, <1>2, <1>4
<1>7. MinuteOf(read) = a
  BY <1>2, <1>4, <1>5, <1>6, DivUnique DEF MinuteOf
<1>8. (SECONDS - 1 - b) * MICROS = Minute - MICROS - b * MICROS
  BY <1>0, <1>2, <1>4
<1>9. (MinuteOf(read) + 1) * Minute - read = Minute - (b * MICROS + m)
  BY <1>2, <1>4, <1>5, <1>6, <1>7
<1>10. it_value(read).tv_sec * MICROS + it_value(read).tv_usec
         = (MinuteOf(read) + 1) * Minute - read
  <2>1. b * MICROS \in Nat
    BY <1>0, <1>2
  <2> QED
    BY <1>0, <1>1, <1>3, <1>4, <1>8, <1>9, <2>1
<1>11. /\ it_value(read).tv_sec \in Nat /\ it_value(read).tv_usec \in 1..MICROS
       /\ it_value(read).tv_usec >= MICROS => m = 0
  BY <1>0, <1>1, <1>2, <1>3
<1> QED
  BY <1>10, <1>11 DEF m

-----------------------------------------------------------------------------
(* The timer.                                                              *)

TimerType ==
  /\ now \in 0..MaxTime
  /\ timer \in [armed : BOOLEAN, expiry : Nat, read : 0..MaxTime, delay : 0..MaxTime]
  /\ pending \in Seq(0..MaxTime)
  /\ labels \in Seq([expiry : 0..MaxTime, at : 0..MaxTime, label : Nat])

\* Until main has armed the timer nothing expires; then every expiry is the
\* delay after a full minute, and after the minute in which the clock was read.
TimerInv ==
  /\ timer.read <= now
  /\ pc \in Folders \cup {"threads", "timer", "arm"} => ~ timer.armed
  /\ ~ timer.armed => timer.delay = 0 /\ pending = <<>> /\ labels = <<>>
  /\ timer.armed =>
       /\ now <= timer.expiry
       /\ \E k \in Nat \ {0} : timer.expiry = k * Minute + timer.delay
  /\ \A j \in 1..Len(pending) : Minute <= pending[j] /\ pending[j] <= now
  /\ pc = "exited" /\ threads # "none" => timer.read % MICROS = 0

\* The elements of a sequence are of its set.
LEMMA ElementOf ==
  ASSUME NEW S, NEW s \in Seq(S), NEW i \in 1..Len(s)
  PROVE  s[i] \in S
OBVIOUS

\* setup_timer_arm: an armed timer expires as long after the next full minute
\* as it was armed after the clock was read.
LEMMA ArmStep ==
  ASSUME TimerType, TimerInv, setup_timer_arm, timer' # timer
  PROVE  /\ timer'.armed = TRUE /\ timer'.read = timer.read
         /\ timer' \in [armed : BOOLEAN, expiry : Nat, read : 0..MaxTime, delay : 0..MaxTime]
         /\ timer'.expiry = (MinuteOf(timer.read) + 1) * Minute + timer'.delay
         /\ now <= timer'.expiry
<1>0. /\ Minute \in Nat \ {0} /\ MaxTime \in Nat /\ MICROS \in Nat \ {0}
      /\ now \in 0..MaxTime
      /\ timer \in [armed : BOOLEAN, expiry : Nat, read : 0..MaxTime, delay : 0..MaxTime]
  BY StartupAssumption DEF Minute, TimerType
<1> DEFINE v == it_value(timer.read)
<1>1. /\ v.tv_sec \in Nat /\ v.tv_usec \in 1..MICROS
      /\ v.tv_sec * MICROS + v.tv_usec = (MinuteOf(timer.read) + 1) * Minute - timer.read
  BY <1>0, ItValue
<1>2. MinuteOf(timer.read) \in Nat
  BY <1>0, DivRem DEF MinuteOf
<1>3. timer' = [timer EXCEPT !.armed = TRUE, !.delay = now - timer.read,
                             !.expiry = now + v.tv_sec * MICROS + v.tv_usec]
  BY DEF setup_timer_arm
<1>4. v.tv_sec * MICROS \in Nat
  BY <1>0, <1>1
<1>5. /\ timer'.armed = TRUE /\ timer'.delay = now - timer.read
      /\ timer'.expiry = now + v.tv_sec * MICROS + v.tv_usec
      /\ timer'.read = timer.read
  BY <1>0, <1>3
<1>6. now - timer.read \in 0..MaxTime
  BY <1>0 DEF TimerInv
<1>7. now + v.tv_sec * MICROS + v.tv_usec \in Nat
  BY <1>0, <1>1, <1>4
<1>8. timer' \in [armed : BOOLEAN, expiry : Nat, read : 0..MaxTime, delay : 0..MaxTime]
  <2>1. timer' = [armed |-> TRUE, expiry |-> now + v.tv_sec * MICROS + v.tv_usec,
                  read |-> timer.read, delay |-> now - timer.read]
    BY <1>0, <1>3
  <2> HIDE DEF v
  <2> QED
    BY <1>0, <1>6, <1>7, <2>1
<1>9. timer'.expiry = (MinuteOf(timer.read) + 1) * Minute + timer'.delay
  <2>1. (MinuteOf(timer.read) + 1) * Minute \in Nat
    BY <1>0, <1>2
  <2>2. v.tv_sec * MICROS + v.tv_usec = (MinuteOf(timer.read) + 1) * Minute - timer.read
    BY <1>1
  <2>3. v.tv_usec \in Nat /\ timer.read \in Int
    BY <1>0, <1>1
  <2> DEFINE A == (MinuteOf(timer.read) + 1) * Minute
             B == v.tv_sec * MICROS
  <2>4. A \in Int /\ B \in Int /\ B + v.tv_usec = A - timer.read
        /\ timer'.expiry = now + B + v.tv_usec /\ timer'.delay = now - timer.read
    BY <1>4, <1>5, <2>1, <2>2
  <2>5. now + B + v.tv_usec = A + (now - timer.read)
    <3> DEFINE u == v.tv_usec
               r == timer.read
               n == now
    <3>1. n \in Int /\ u \in Int /\ r \in Int /\ A \in Int /\ B \in Int
      BY <1>0, <2>3, <2>4
    <3>2. B + u = A - r
      BY <2>4
    <3>3. n + B + u = A + (n - r)
      <4> HIDE DEF u, r, n, A, B, v
      <4> QED
        BY <3>1, <3>2
    <3> QED
      BY <3>3
  <2> QED
    BY <2>4, <2>5 DEF A
<1>10. now <= timer'.expiry
  BY <1>0, <1>1, <1>4, <1>5
<1> QED
  BY <1>5, <1>8, <1>9, <1>10

\* Every step keeps the state of the timer well formed.
LEMMA TimerStep ==
  ASSUME MainInv, TimerType, TimerInv, [Next]_vars
  PROVE  TimerType' /\ TimerInv'
<1>0. /\ Minute \in Nat \ {0} /\ MaxTime \in Nat /\ MICROS \in Nat \ {0}
      /\ now \in 0..MaxTime
      /\ timer \in [armed : BOOLEAN, expiry : Nat, read : 0..MaxTime, delay : 0..MaxTime]
  BY StartupAssumption DEF Minute, TimerType
<1>1. CASE setup_timer_read
  <2>1. /\ pc = "timer" /\ pc' = "arm" /\ timer' = [timer EXCEPT !.read = now]
        /\ UNCHANGED <<threads, now, pending, labels>>
    BY <1>1 DEF setup_timer_read, Goto
  <2>2. ~ timer.armed
    BY <2>1 DEF TimerInv
  <2>3. timer' = [armed |-> timer.armed, expiry |-> timer.expiry, read |-> now,
                  delay |-> timer.delay]
    BY <1>0, <2>1
  <2>4. /\ timer'.armed = timer.armed /\ timer'.delay = timer.delay /\ timer'.read = now
        /\ timer' \in [armed : BOOLEAN, expiry : Nat, read : 0..MaxTime, delay : 0..MaxTime]
    BY <1>0, <2>3
  <2> QED
    BY <1>0, <2>1, <2>2, <2>4 DEF TimerType, TimerInv
<1>2. CASE setup_timer_arm
  <2> DEFINE v == it_value(timer.read)
  <2>1. /\ v.tv_usec \in 1..MICROS
        /\ v.tv_usec >= MICROS => timer.read % MICROS = 0
    BY <1>0, ItValue
  <2>2. MinuteOf(timer.read) \in Nat
    BY <1>0, DivRem DEF MinuteOf
  <2>3. pc = "arm" /\ ~ timer.armed /\ pending = <<>> /\ labels = <<>>
    BY <1>2 DEF setup_timer_arm, Goto, TimerInv
  <2>4. UNCHANGED <<threads, now, pending, labels>>
    BY <1>2 DEF setup_timer_arm
  <2>5. CASE v.tv_usec >= MICROS /\ pc' = "exited" /\ timer' = timer
    BY <2>1, <2>3, <2>4, <2>5 DEF TimerType, TimerInv, Folders, Batches
  <2>6. CASE pc' = "join" /\ timer' # timer
    <3>1. MinuteOf(timer.read) + 1 \in Nat \ {0}
      BY <2>2
    <3>2. /\ timer'.armed = TRUE /\ timer'.read = timer.read /\ now <= timer'.expiry
          /\ timer' \in [armed : BOOLEAN, expiry : Nat, read : 0..MaxTime, delay : 0..MaxTime]
          /\ timer'.expiry = (MinuteOf(timer.read) + 1) * Minute + timer'.delay
      BY <1>2, <2>6, ArmStep
    <3>3. \E k \in Nat \ {0} : timer'.expiry = k * Minute + timer'.delay
      BY <3>1, <3>2
    <3> QED
      BY <1>0, <2>3, <2>4, <2>6, <3>2, <3>3 DEF TimerType, TimerInv, Folders, Batches
  <2>7. v.tv_usec < MICROS => timer' # timer
    <3> SUFFICES ASSUME v.tv_usec < MICROS
                 PROVE  timer' # timer
      OBVIOUS
    <3>1. timer' = [timer EXCEPT !.armed = TRUE, !.delay = now - timer.read,
                                 !.expiry = now + v.tv_sec * MICROS + v.tv_usec]
      BY <1>0, <1>2, <2>1 DEF setup_timer_arm
    <3>2. timer'.armed = TRUE
      <4> HIDE DEF v
      <4> QED
        BY <1>0, <3>1
    <3> QED
      BY <2>3, <3>2
  <2> QED
    BY <1>2, <2>5, <2>6, <2>7 DEF setup_timer_arm, Goto
<1>3. CASE Tick
  <2>1. /\ now' = now + 1 /\ now < MaxTime /\ (timer.armed => now < timer.expiry)
        /\ UNCHANGED <<pc, threads, timer, pending, labels>>
    BY <1>3 DEF Tick
  <2>2. now' \in 0..MaxTime
    BY <1>0, <2>1
  <2>3. timer.armed => now' <= timer.expiry
    BY <1>0, <2>1
  <2>4. timer.read <= now'
    BY <1>0, <2>1 DEF TimerInv
  <2>5. \A j \in 1..Len(pending) : Minute <= pending[j] /\ pending[j] <= now'
    <3> SUFFICES ASSUME NEW j \in 1..Len(pending)
                 PROVE  Minute <= pending[j] /\ pending[j] <= now'
      OBVIOUS
    <3>1. Minute <= pending[j] /\ pending[j] <= now
      BY DEF TimerInv
    <3>2. pending[j] \in 0..MaxTime
      BY ElementOf DEF TimerType
    <3>3. pending[j] \in Int /\ now \in Int /\ now <= now'
      BY <1>0, <2>1, <3>2
    <3>4. now' \in Int
      BY <2>2
    <3> QED
      BY <3>1, <3>3, <3>4
  <2> QED
    BY <2>1, <2>2, <2>3, <2>4, <2>5 DEF TimerType, TimerInv
<1>4. CASE Expire
  <2>1. /\ timer.armed /\ now = timer.expiry
        /\ timer' = [timer EXCEPT !.expiry = timer.expiry + Minute]
        /\ pending' = Append(pending, now)
        /\ UNCHANGED <<pc, threads, now, labels>>
    BY <1>4 DEF Expire
  <2>2. /\ timer'.armed = TRUE /\ timer'.delay = timer.delay
        /\ timer'.expiry = timer.expiry + Minute /\ timer'.read = timer.read
        /\ timer' \in [armed : BOOLEAN, expiry : Nat, read : 0..MaxTime, delay : 0..MaxTime]
    BY <1>0, <2>1
  <2>3. PICK k \in Nat \ {0} : timer.expiry = k * Minute + timer.delay
    BY <2>1 DEF TimerInv
  <2>4. timer'.expiry = (k + 1) * Minute + timer'.delay /\ k + 1 \in Nat \ {0}
    BY <1>0, <2>2, <2>3
  <2>5. Minute <= now
    <3>1. k * Minute >= Minute
      BY <1>0
    <3> QED
      BY <1>0, <2>1, <2>3, <3>1
  <2>6. pending' \in Seq(0..MaxTime)
    BY <1>0, <2>1 DEF TimerType
  <2>7. \A j \in 1..Len(pending') : Minute <= pending'[j] /\ pending'[j] <= now
    <3>1. Len(pending') = Len(pending) + 1 /\ Len(pending) \in Nat
      BY <1>0, <2>1 DEF TimerType
    <3>2. \A j \in 1..(Len(pending) + 1) :
            pending'[j] = IF j = Len(pending) + 1 THEN now ELSE pending[j]
      BY <1>0, <2>1 DEF TimerType
    <3>3. \A j \in 1..Len(pending) : Minute <= pending[j] /\ pending[j] <= now
      BY DEF TimerInv
    <3> QED
      BY <1>0, <2>5, <3>1, <3>2, <3>3
  <2>8. now <= timer'.expiry
    BY <1>0, <2>1, <2>2
  <2> QED
    BY <1>0, <2>1, <2>2, <2>4, <2>6, <2>7, <2>8 DEF TimerType, TimerInv
<1>5. CASE send_directive_to_queue
  <2> DEFINE l == [expiry |-> Head(pending), at |-> now, label |-> MinuteLabel(now)]
  <2>1. /\ pending # <<>> /\ labels' = Append(labels, l) /\ pending' = <<>>
        /\ UNCHANGED <<pc, threads, now, timer>>
    BY <1>5 DEF send_directive_to_queue
  <2>2. /\ Head(pending) = pending[1] /\ 1 \in 1..Len(pending)
        /\ Head(pending) \in 0..MaxTime
    <3>1. pending \in Seq(0..MaxTime)
      BY DEF TimerType
    <3>2. Head(pending) = pending[1]
      BY <2>1, <3>1
    <3>3. 1 \in 1..Len(pending)
      BY <2>1, <3>1
    <3>4. pending[1] \in 0..MaxTime
      BY <3>1, <3>3, ElementOf
    <3> QED
      BY <3>2, <3>3, <3>4
  <2>3. now >= 1 * Minute
    <3>1. Minute <= pending[1] /\ pending[1] <= now
      BY <2>2 DEF TimerInv
    <3>2. pending[1] \in Int
      <4>1. pending[1] \in 0..MaxTime
        BY <2>2
      <4> QED
        BY <1>0, <4>1
    <3> QED
      BY <1>0, <3>1, <3>2
  <2>4. MinuteOf(now) >= 1 /\ MinuteOf(now) \in Nat
    <3>1. now \in Nat /\ 1 \in Int
      BY <1>0
    <3>2. now \div Minute \in Nat
      BY <1>0, <3>1, DivRem
    <3>3. now \div Minute >= 1
      BY <1>0, <2>3, <3>1, DivBound
    <3> QED
      BY <3>2, <3>3 DEF MinuteOf
  <2>5. l \in [expiry : 0..MaxTime, at : 0..MaxTime, label : Nat]
    BY <1>0, <2>2, <2>4 DEF MinuteLabel
  <2>6. labels' \in Seq([expiry : 0..MaxTime, at : 0..MaxTime, label : Nat])
    BY <2>1, <2>5 DEF TimerType
  <2>7. timer.armed
    BY <2>1 DEF TimerInv
  <2> QED
    BY <2>1, <2>6, <2>7 DEF TimerType, TimerInv
<1>6. CASE UNCHANGED timevars
  <2>1. UNCHANGED <<now, timer, pending, labels>>
    BY <1>6 DEF timevars
  <2>2. pc' \in Folders \cup {"threads", "timer", "arm"} =>
          pc \in Folders \cup {"threads", "timer", "arm"}
    <3>1. CASE UNCHANGED vars
      BY <3>1 DEF vars
    <3>2. CASE Next
      BY <1>6, <3>2 DEF Next, open_delay_files, open_csv_batch, start_threads,
         setup_timer_read, setup_timer_arm, Tick, Expire, send_directive_to_queue,
         print_line, threads_return, join, close_files, report, Goto, AfterOpen,
         Folders, Batches
    <3> QED
      BY <3>1, <3>2
  <2>3. pc' = "exited" /\ threads' # "none" =>
          (pc = "exited" /\ threads # "none") \/ setup_timer_arm
    <3>1. CASE UNCHANGED vars
      BY <3>1 DEF vars
    <3>2. CASE Next
      BY <3>2 DEF Next, open_delay_files, open_csv_batch, start_threads,
         setup_timer_read, Tick, Expire, send_directive_to_queue,
         print_line, threads_return, join, close_files, report, Goto, Over,
         Folders, Batches, MainInv, ThreadsInv
    <3> QED
      BY <3>1, <3>2
  <2> QED
    BY <1>2, <2>1, <2>2, <2>3 DEF TimerType, TimerInv
<1>7. CASE ~ UNCHANGED timevars
  BY <1>1, <1>2, <1>3, <1>4, <1>5, <1>7 DEF Next, vars, open_delay_files, open_csv_batch,
     start_threads, print_line, threads_return, join, close_files, report
<1> QED
  BY <1>6, <1>7

-----------------------------------------------------------------------------
(* The labels of the minutes.                                              *)

\* What Append does, whatever is appended.
LEMMA AppendElement ==
  ASSUME NEW S, NEW s \in Seq(S), NEW e
  PROVE  /\ Len(Append(s, e)) = Len(s) + 1
         /\ \A k \in 1..(Len(s) + 1) :
              Append(s, e)[k] = IF k = Len(s) + 1 THEN e ELSE s[k]
<1>1. s \in Seq(S \cup {e})
  OBVIOUS
<1> QED
  BY <1>1

\* What MinutesLabelled assumes of the history.
Timely ==
  /\ timer.delay < Minute
  /\ \A k \in 1..Len(labels) : MinuteOf(labels[k].at) = MinuteOf(labels[k].expiry)

\* As long as the deliveries are timely, the expiries are numbered through from
\* the minute in which the clock was read: first those that have their label,
\* then the pending ones, then the next.
LabelInv ==
  timer.armed /\ Timely =>
    /\ timer.expiry
         = (MinuteOf(timer.read) + Len(labels) + Len(pending) + 1) * Minute + timer.delay
    /\ \A j \in 1..Len(pending) :
         pending[j] = (MinuteOf(timer.read) + Len(labels) + j) * Minute + timer.delay
    /\ \A k \in 1..Len(labels) : labels[k].label = MinuteOf(timer.read) + k - 1

\* Every step keeps the numbering, a delivery in another minute ends it.
LEMMA LabelStep ==
  ASSUME MainInv, TimerType, TimerInv, LabelInv, [Next]_vars
  PROVE  LabelInv'
<1>0. /\ Minute \in Nat \ {0} /\ MaxTime \in Nat
      /\ now \in 0..MaxTime
      /\ timer \in [armed : BOOLEAN, expiry : Nat, read : 0..MaxTime, delay : 0..MaxTime]
      /\ pending \in Seq(0..MaxTime)
      /\ labels \in Seq([expiry : 0..MaxTime, at : 0..MaxTime, label : Nat])
      /\ Len(pending) \in Nat /\ Len(labels) \in Nat
  BY StartupAssumption DEF Minute, TimerType
<1> DEFINE r == MinuteOf(timer.read)
           L == Len(labels)
           n == Len(pending)
<1>1. r \in Nat
  BY <1>0, DivRem, SMTT(30) DEF MinuteOf
<1>2. CASE setup_timer_read
  BY <1>0, <1>2 DEF setup_timer_read, Goto, TimerInv, LabelInv, Folders, Batches
<1>3. CASE setup_timer_arm
  <2>1. pending' = <<>> /\ labels' = <<>>
    BY <1>3 DEF setup_timer_arm, Goto, TimerInv
  <2>2. CASE timer' = timer
    BY <1>3, <2>2 DEF setup_timer_arm, Goto, TimerInv, LabelInv
  <2>3. CASE timer' # timer
    <3>1. /\ timer'.read = timer.read
          /\ timer'.expiry = (MinuteOf(timer.read) + 1) * Minute + timer'.delay
      BY <1>3, <2>3, ArmStep
    <3>2. Len(pending') = 0 /\ Len(labels') = 0
      BY <2>1
    <3>3. MinuteOf(timer'.read) + Len(labels') + Len(pending') + 1 = MinuteOf(timer.read) + 1
      BY <1>1, <3>1, <3>2
    <3> QED
      BY <3>1, <3>2, <3>3 DEF LabelInv
  <2> QED
    BY <2>2, <2>3
<1>4. CASE Expire
  <2>1. /\ timer.armed /\ now = timer.expiry
        /\ timer' = [timer EXCEPT !.expiry = timer.expiry + Minute]
        /\ pending' = Append(pending, now) /\ labels' = labels
    BY <1>4 DEF Expire
  <2>2. /\ timer'.armed = timer.armed /\ timer'.delay = timer.delay
        /\ timer'.expiry = timer.expiry + Minute /\ timer'.read = timer.read
    BY <1>0, <2>1
  <2>3. /\ Len(pending') = n + 1
        /\ \A j \in 1..(n + 1) : pending'[j] = IF j = n + 1 THEN now ELSE pending[j]
    BY <1>0, <2>1
  <2> SUFFICES ASSUME Timely'
               PROVE  /\ timer'.expiry = (r + L + (n + 1) + 1) * Minute + timer.delay
                      /\ \A j \in 1..(n + 1) : pending'[j] = (r + L + j) * Minute + timer.delay
                      /\ \A k \in 1..L : labels[k].label = r + k - 1
    BY <2>1, <2>2, <2>3 DEF LabelInv
  <2>4. Timely
    BY <2>1, <2>2 DEF Timely
  <2>5. /\ timer.expiry = (r + L + n + 1) * Minute + timer.delay
        /\ \A j \in 1..n : pending[j] = (r + L + j) * Minute + timer.delay
        /\ \A k \in 1..L : labels[k].label = r + k - 1
    BY <2>1, <2>4 DEF LabelInv
  <2>6. (r + L + (n + 1) + 1) * Minute + timer.delay
          = ((r + L + n + 1) * Minute + timer.delay) + Minute
    <3>1. r + L + (n + 1) + 1 = (r + L + n + 1) + 1
      BY <1>0, <1>1
    <3>2. ((r + L + n + 1) + 1) * Minute = (r + L + n + 1) * Minute + Minute
      <4>1. r + L + n + 1 \in Int
        BY <1>0, <1>1
      <4> HIDE DEF r, L, n
      <4> QED
        BY <1>0, <4>1
    <3>3. (r + L + n + 1) * Minute \in Int /\ timer.delay \in Int
      BY <1>0, <1>1
    <3> HIDE DEF r, L, n
    <3> QED
      BY <1>0, <3>1, <3>2, <3>3
  <2>7. ASSUME NEW j \in 1..(n + 1)
        PROVE  pending'[j] = (r + L + j) * Minute + timer.delay
    <3>1. CASE j = n + 1
      <4>1. pending'[j] = now
        BY <2>3, <3>1
      <4>2. r + L + j = r + L + n + 1
        BY <1>0, <1>1, <3>1
      <4> QED
        BY <2>1, <2>5, <4>1, <4>2
    <3>2. CASE j # n + 1
      <4>1. j \in 1..n
        BY <1>0, <3>2
      <4> QED
        BY <2>3, <2>5, <3>2, <4>1
    <3> QED
      BY <3>1, <3>2
  <2> QED
    BY <2>2, <2>5, <2>6, <2>7
<1>5. CASE send_directive_to_queue
  <2> DEFINE l == [expiry |-> Head(pending), at |-> now, label |-> MinuteLabel(now)]
  <2>1. /\ pending # <<>> /\ labels' = Append(labels, l) /\ pending' = <<>>
        /\ UNCHANGED <<now, timer>>
    BY <1>5 DEF send_directive_to_queue
  <2>2. /\ Len(labels') = L + 1 /\ Len(pending') = 0
        /\ \A k \in 1..(L + 1) : labels'[k] = IF k = L + 1 THEN l ELSE labels[k]
    <3> HIDE DEF l
    <3> QED
      BY <1>0, <2>1, AppendElement
  <2>3. timer.armed /\ n >= 1
    BY <1>0, <2>1 DEF TimerInv
  <2> SUFFICES ASSUME Timely'
               PROVE  /\ timer.expiry = (r + (L + 1) + 0 + 1) * Minute + timer.delay
                      /\ \A k \in 1..(L + 1) : labels'[k].label = r + k - 1
    BY <2>1, <2>2, <2>3 DEF LabelInv
  <2>4. ASSUME NEW k \in 1..L
        PROVE  labels'[k] = labels[k] /\ k \in 1..Len(labels')
    <3>1. L \in Nat
      BY <1>0
    <3> HIDE DEF L, n, r, l
    <3>2. k \in 1..(L + 1) /\ k # L + 1
      BY <2>4, <3>1
    <3> QED
      BY <2>2, <3>2
  <2>5. Timely
    BY <2>1, <2>4 DEF Timely
  <2>6. /\ timer.expiry = (r + L + n + 1) * Minute + timer.delay
        /\ \A j \in 1..n : pending[j] = (r + L + j) * Minute + timer.delay
        /\ \A k \in 1..L : labels[k].label = r + k - 1
    BY <2>3, <2>5 DEF LabelInv
  <2>7. timer.delay \in 0..(Minute - 1)
    BY <1>0, <2>5 DEF Timely
  <2>8. MinuteOf(Head(pending)) = r + L + 1
    <3>1. Head(pending) = pending[1] /\ 1 \in 1..n
      BY <1>0, <2>1
    <3>2. Head(pending) = (r + L + 1) * Minute + timer.delay
      BY <2>6, <3>1
    <3>3. r + L + 1 \in Nat
      BY <1>0, <1>1
    <3> HIDE DEF r, L, n
    <3> QED
      BY <1>0, <2>7, <3>2, <3>3, DivUnique, ZenonT(30) DEF MinuteOf
  <2>9. MinuteOf(now) = r + L + 1
    <3>1. L + 1 \in 1..Len(labels') /\ labels'[L + 1] = l
      <4> HIDE DEF l
      <4> QED
        BY <1>0, <2>2
    <3>2. MinuteOf(labels'[L + 1].at) = MinuteOf(labels'[L + 1].expiry)
      BY <3>1 DEF Timely, MinuteOf, Minute
    <3> QED
      BY <2>8, <3>1, <3>2
  <2>10. n = 1
    <3>1. n \in 1..n
      BY <1>0, <2>3
    <3>2. now >= pending[n] /\ pending[n] = (r + L + n) * Minute + timer.delay
      BY <2>6, <3>1 DEF TimerInv
    <3>3. r + L + n \in Nat /\ (r + L + n) * Minute \in Nat /\ now \in Nat
      BY <1>0, <1>1
    <3>4. now >= (r + L + n) * Minute
      <4> HIDE DEF r, L, n
      <4> QED
        BY <1>0, <2>7, <3>2, <3>3, SMTT(30)
    <3>5. MinuteOf(now) >= r + L + n
      <4> HIDE DEF r, L, n
      <4> QED
        BY <1>0, <3>3, <3>4, DivBound DEF MinuteOf
    <3>6. r \in Nat /\ L \in Nat /\ n \in Nat
      BY <1>0, <1>1
    <3> HIDE DEF r, L, n
    <3> QED
      BY <2>3, <2>9, <3>5, <3>6
  <2>11. timer.expiry = (r + (L + 1) + 0 + 1) * Minute + timer.delay
    <3>1. r + (L + 1) + 0 + 1 = r + L + n + 1
      BY <1>0, <1>1, <2>10
    <3> QED
      BY <2>6, <3>1
  <2>12. ASSUME NEW k \in 1..(L + 1)
         PROVE  labels'[k].label = r + k - 1
    <3>1. CASE k = L + 1
      <4>1. labels'[k].label = MinuteOf(now) - 1
        BY <2>2, <3>1 DEF MinuteLabel
      <4> QED
        BY <1>0, <1>1, <2>9, <3>1, <4>1
    <3>2. CASE k # L + 1
      <4>1. k \in 1..L
        BY <1>0, <3>2
      <4> QED
        BY <2>4, <2>6, <4>1
    <3> QED
      BY <3>1, <3>2
  <2> QED
    BY <2>11, <2>12
<1>6. CASE UNCHANGED <<timer, pending, labels>>
  BY <1>6 DEF LabelInv, Timely
<1> QED
  BY <1>2, <1>3, <1>4, <1>5, <1>6 DEF Next, vars, timevars, open_delay_files, open_csv_batch,
     start_threads, Tick, print_line, threads_return, join, close_files, report

-----------------------------------------------------------------------------
(* The theorems about the timer.                                           *)

\* The three invariants together.
LEMMA StartupCorrect == Spec => [](MainInv /\ TimerType /\ TimerInv /\ LabelInv)
<1>1. Init => TimerType /\ TimerInv /\ LabelInv
  BY StartupAssumption DEF Init, TimerType, TimerInv, LabelInv
<1>2. MainInv /\ (TimerType /\ TimerInv /\ LabelInv) /\ [Next]_vars
        => (TimerType /\ TimerInv /\ LabelInv)'
  BY TimerStep, LabelStep
<1> QED
  BY <1>1, <1>2, MainCorrect, PTL DEF Spec

\* The variables of main, the files, the clock, the timer and the directives
\* have the types TypeOK gives; in particular every label is a minute that has
\* begun, never the one before the start of time.
THEOREM StartupTypeCorrect == Spec => []TypeOK
<1> DEFINE PcType == pc \in Folders \cup {"threads", "timer", "arm", "join", "close",
                                       "report", "exited", "ended", "crashed"}
           ThreadsType == threads \in {"none", "running", "returned"}
<1>1. Init => PcType /\ ThreadsType
  BY DEF Init, Folders
<1>2. PcType /\ ThreadsType /\ [Next]_vars => PcType' /\ ThreadsType'
  BY DEF Next, vars, timevars, open_delay_files, open_csv_batch, start_threads,
     setup_timer_read, setup_timer_arm, Tick, Expire, send_directive_to_queue,
     print_line, threads_return, join, close_files, report, Goto, AfterOpen,
     Folders, Batches
<1>3. MainInv /\ TimerType /\ PcType /\ ThreadsType => TypeOK
  BY DEF MainInv, FilesType, TimerType, TypeOK
<1> QED
  BY <1>1, <1>2, <1>3, StartupCorrect, PTL DEF Spec

\* setup_timer arms the timer so that every expiry, the first one and the ones
\* interval after interval, comes on the full minute, late by what passed
\* between gettimeofday and setitimer; it exits only on a whole second.
THEOREM TimerCorrect == Spec => []TimerOnTheMinute
<1>1. TimerType /\ TimerInv => TimerOnTheMinute
  <2> SUFFICES ASSUME TimerType, TimerInv
               PROVE  TimerOnTheMinute
    OBVIOUS
  <2>1. ASSUME timer.armed
        PROVE  (timer.expiry - timer.delay) % Minute = 0
    <3>0. Minute \in Nat \ {0}
      BY StartupAssumption DEF Minute
    <3>1. PICK k \in Nat \ {0} : timer.expiry = k * Minute + timer.delay
      BY <2>1 DEF TimerInv
    <3>2. timer.delay \in Int /\ k * Minute \in Int
      BY <3>0, StartupAssumption DEF TimerType
    <3>3. timer.expiry - timer.delay = k * Minute + 0
      BY <3>1, <3>2
    <3>4. k \in Nat /\ 0 \in 0..(Minute - 1)
      BY <3>0
    <3>5. (k * Minute + 0) % Minute = 0
      BY <3>0, <3>4, DivUnique
    <3> QED
      BY <3>3, <3>5
  <2> QED
    BY <2>1 DEF TimerInv, TimerOnTheMinute
<1> QED
  BY <1>1, StartupCorrect, PTL

\* When the timer is armed within a minute of the reading of the clock and
\* every SIGALRM is delivered in the minute in which it was due, the handler
\* names every minute once and in order, from the one of the start.
THEOREM LabelsCorrect == Spec => []MinutesLabelled
<1>1. TimerType /\ TimerInv /\ LabelInv => MinutesLabelled
  <2> SUFFICES ASSUME TimerType, TimerInv, LabelInv
               PROVE  MinutesLabelled
    OBVIOUS
  <2>1. CASE timer.armed
    BY <2>1 DEF LabelInv, Timely, MinutesLabelled
  <2>2. CASE ~ timer.armed
    BY <2>2 DEF TimerInv, MinutesLabelled
  <2> QED
    BY <2>1, <2>2
<1> QED
  BY <1>1, StartupCorrect, PTL
=============================================================================
