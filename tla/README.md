# Verification of rt-stock-statistics

The program subscribes to a stock-trade websocket, logs every trade, and writes
one candlestick and one moving average per symbol and minute. It is a pipeline
of threads over two bounded queues, with two signal handlers that act on the
first queue. This directory models that pipeline in TLA+, checks it with TLC on
small instances and proves all of its safety properties for every instance with
TLAPS.

## 1. Inventory

| Component | Source | State | Operations | Status |
|---|---|---|---|---|
| Queue | `PCQueue.c/.h` | ring `buffer`, `head`, `tail`, `full`, `empty`, `mut`, `not_full`, `not_empty`, `exit_flag`, `producer_lock` | `queue_init`, `queue_add`, `queue_remove` (`queue_destory` is never called) | modelled, proved |
| Thread routines | `ThreadRoutines.c` | position in each loop | `WSSClient`, `Writer` (2 threads), `Calculator` | modelled, safety proved |
| Signal handlers | `WSSHandling.c` | `minute_counter`, `hour_counter` | `send_directive_to_queue` (SIGALRM), `close_connection_interrupt` (SIGINT) | modelled, safety proved |
| Websocket callbacks | `WSSHandling.c` | `connection_closed`, the connection and its context | `lws_callback`, `finnhub_connection_setup`, `subscribe_to_symbols` | modelled, safety proved |
| Statistics | `TradeProcessing.c` | `CalculatorBuffer` per symbol | `init_calculator_buffers`, `add_trade_to_buffers`, `write_and_reset_buffers`, `write_trade_to_file` | modelled, proved |
| JSON parsing | `JSONParsing.c` | static work item, symbol list | `json_callback`, `construct_parser` | modelled, proved |
| Startup and shutdown | `main.c`, `SystemHandling.c` | open files | `main`, `open_csv_batch`, `open_delay_files`, closing | modelled, proved |
| Minute timer | `setup_timer` | the interval timer | `setup_timer`, expiries, labels of minutes | modelled, proved |
| CPU usage report | `main.c` | none | formatting | a step of `Startup` |
| libwebsockets, OpenSSL | `cross-compile/` | | third party | external |
| Session data | `session_data/` | | recorded output | no |

**Interaction.** `WSSClient` calls `lws_service`, which calls `lws_callback`;
for a received message that holds `api_queue.producer_lock` while
`json_callback` adds every trade to `api_queue`. SIGALRM, once a minute, adds a
*directive* to the same queue under the same lock. Each `Writer` removes an item,
logs it if it is a trade, and adds it to `calculation_queue`. The `Calculator`
removes items: a trade goes into the buffers, a directive writes and resets
them. The exit order is `api_queue.exit_flag`, raised by SIGINT (under the mutex,
signalling nobody) or at the hour limit (without the mutex). It travels by
return values (-1 from `queue_remove`), by `calculation_queue.exit_flag`, which
the Writers raise without a mutex, and by signals to `not_empty` from
`lws_callback`, `WSSClient`, `queue_remove` and `Writer`. `main` joins all threads.

**What is hard.** Signals sent after the unlock and flags written without the
mutex; a wakeup that must be handed from consumer to consumer; two Writers that
can overtake each other; an exit order that meets items still in flight; handlers
that take a mutex the code they interrupted may hold, on whichever thread the
kernel chose; running totals corrected by differences in a ring; memory that is
used before it is initialised; static variables that carry a broken message into
the next one; files that fail to open; a timer armed a little after the clock was
read.

**What makes each part correct.**
- Queue: a bounded FIFO, linearizable; no lost wakeup on either condition.
- Pipeline: no item is duplicated or invented; none is lost before the exit; a
  message is not split by a directive; overtaking is bounded by the number of
  Writers; every item is computed; the exit order reaches every thread.
- Statistics: candlestick, window and rows agree with the history of the trades.
- Connection and parsing: each sound trade is handed on with its own values,
  whatever came before it; every connection that is over is given up.
- Startup: files are open exactly while threads may use them; the timer expires
  on the minute and every minute gets its own label.

`PROJECT.json` lists the hazards line by line.

## 2. Modules

| Module | What it is |
|---|---|
| `BoundedQueue` | abstract specification: a FIFO of bounded capacity, operations that take effect in one step, an exit order |
| `PCQueue` | `PCQueue.c` and every access other files make to a queue's fields; refines `BoundedQueue` |
| `PCQueueProofs` | types, mutual exclusion, the ring and the refinement of `BoundedQueue` |
| `PCQueueWakeupProofs` | no lost wakeup, no slot read before it is written; what a step moves |
| `MCPCQueue` | two producers, two consumers and an exiting thread, for TLC |
| `Pipeline` | all threads and handlers over two instances of `PCQueue` |
| `PipelineProofs` | the program uses both queues as `PCQueue` says; its types; no directive inside a message |
| `PipelineFlowProofs` | no item twice or from nowhere, none lost before the exit |
| `PipelineExitProofs` | how many items are overtaken, and how many are lost at the exit |
| `MCPipeline` | `Pipeline` with the symmetry of the Writers, for TLC |
| `JSONParsing` | `json_callback` as an operator on its static variables, and the events of a message |
| `WSSConnection` | the loop of `WSSClient` against a network that fails; extends `JSONParsing` |
| `WSSConnectionProofs` | contexts and connections; the trades of a fragment |
| `MCWSSConnection` | `WSSConnection` with five forms of trade objects, for TLC |
| `Startup` | `main` from start to end: files, threads, timer |
| `StartupProofs` | files, threads, timer and labels |
| `MCStartup` | `Startup` from every time of a minute, for TLC |
| `TradeProcessing` | the Calculator's buffers |
| `TradeProcessingProofs` | candlesticks, window and rows against the history of the trades |
| `MCTradeProcessing` | `TradeProcessing` with bounded behaviours, for TLC |

### PCQueue

`queue` is the struct, field by field; a condition variable is the set of its
sleepers. `op[t]` is the position of thread `t` inside a queue operation, with its
argument, the item it last removed and its return value.

A step is what a thread does between two points where another can observe it.
Code that runs under the mutex up to the unlock is one step, with two exceptions
that matter because `exit_flag` is also written without the mutex: in `queue_add`
the test of the flag (`add_refused`, `add_admitted`) is a step of its own, and in
`queue_remove` the test (`remove_wait`) and `pthread_cond_wait` (`remove_sleep`) are
two steps. `pthread_cond_signal` comes after the unlock (`add_signal`,
`remove_signal`, `remove_exit`), as in the code. `pthread_mutex_lock` also ends
a `pthread_cond_wait`. `SpuriousWakeup` is what POSIX allows.

`not_empty` is never passed to `pthread_cond_init` (`not_full` is, twice). `Init`
models it as initialised: the memory is fresh from `malloc` and zero, which is
what the initialiser stores on Linux.

### Pipeline

`api_queue` and `calculation_queue` are two instances of `PCQueue`; the actions of
`Pipeline` call its operations. `pc` holds each thread's place in its routine.
Every delivery of a signal is a run of its handler with a name of its own (a
number for SIGALRM, a member of `Interrupts` for SIGINT) and is a thread of
control for the queue, but it runs on a thread of the program: `frames` has the
stack of handlers of each thread, and only the innermost one runs (`Running`), so
a handler that waits for a mutex held by the code below it waits for ever, as in
the program. `signal` of glibc blocks a signal while its handler runs, on that
thread only. The kernel delivers to `main` unless `main` blocks the signal, and
otherwise to any thread that does not (`Deliver`); so a second SIGINT, or a SIGALRM
that finds the last minute's handler still at work, can interrupt a Writer or the
WSSClient inside a queue operation. `MaxHandlers` bounds the handlers active at a
time.

- `finnhub_connection_setup` covers the outer loop test, the setup and binding
  SIGINT. A failed setup sleeps and comes back to the same test with nothing
  changed, which is a stuttering step.
- `client_established`, `client_connection_error`, `client_receive`, `service_idle`
  and `client_closed` are one call of `lws_service` each with at most one callback;
  `LoopTest` is the rest of the turn, with both tests of the loop. `connection_closed`
  is what the callback of the turn leaves in it; that nothing else keeps it alive
  from one connection to the next is a matter of `WSSConnection`.
- A message carries 1 to `MaxBatch` trades; one without trades changes nothing.
- `writer_forward` is the write and the call of `queue_add`; the write is to a file
  only reached under the mutex of that file, so no other thread observes its middle.
- `entered`, `trade_logs` and `computed` are histories the properties use;
  `trade_logs` counts the lines written for each trade.

### JSONParsing and WSSConnection

The value of a field is abstracted to the number of the object it came from, so a
work item shows for each field whether it is the trade's own or left over. A
message is a sequence of objects; `MessageEvents` lists what lejp reports for it,
six events per object (an absent field has an event of that form, which
`json_callback` ignores), and a fragment is a prefix of that list, of any length.
`json_callback` is folded over the events. `lws_callback` constructs the parser anew after every fragment,
so the rest of a message is read by a parser that expects the start of one and
reports nothing of the array `data`. `last` is the history of the message: its objects,
where its first fragment ended and how much of it has arrived.

`WSSConnection` has the contexts (`lws_create_context`, the destroy after a failed
connect, which passes NULL, and the destroy after the service loop), the callbacks
and the two loops. `connection_closed` may be written by an error callback during
the setup, and then libwebsockets returns NULL from the connect (`setup_failed`): an error
met in the call scrubs the connection (`lws-client.h`, lines 159-169), any later one is
reported from `lws_service`. What `Pipeline` has of the same
loop is its effect on the queues.

### Startup

`files` has the stream of every file of the four folders. A folder that cannot be
created and a delay log that cannot be opened end the program; a failed `fopen` of
a batch leaves a NULL stream, because the test looks at the array. `print_line` is
a thread printing to a stream that is not open. Time passes between any two steps
(`Tick`); `setup_timer_read` and `setup_timer_arm` are separate, and `setitimer`
refuses a `tv_usec` of 1000000, which the code computes when the microseconds are 0.
SIGALRM may be delivered late, and expiries while one is pending are merged.

### TradeProcessing

Prices and volumes are integers, and a double is an integer or `NaN`, which every sum it
gets into keeps; the average is kept as the pair of its sums, so no rounding is modelled.
`WINDOW` is the literal 15 of the code.
`init_calculator_buffers` has the code's `memset`: it starts at `avg_info` with the
size of the whole struct, so it clears the next symbol's candlestick and leaves
that of symbol 0 as it was on the stack (`Garbage`, a number or `NaN`), except `open` and
`close`. Nothing is claimed of the totals of symbol 0.
`trades` is the history the properties are stated against.

## 3. Runs

| Run | Bounds | Result |
|---|---|---|
| `queue` | 2 producers, 2 consumers, 1 other thread, 2 slots, 3 adds, 1 spurious wakeup | pass |
| `pipeline` | 2 Writers, 1 slot per queue, 3 trades, 1 SIGINT, spurious wakeups | pass |
| `pipeline_exit` | 2 Writers, 1 trade, 1 SIGINT | pass |
| `pipeline_limit` | 1 Writer, 2 trades in one or two messages, 2 directives, the second at the hour limit (hours of 2 minutes) | pass |
| `pipeline_nested` | 1 Writer, 1 directive, 1 SIGINT | violation |
| `pipeline_wakeup` | 2 Writers, 1 SIGINT | violation |
| `pipeline_loss` | 2 Writers, 1 trade, 1 directive at the hour limit | violation |
| `trades` | 2 symbols, window of 2 minutes, 4 directives, 3 trades of 3 prices and 2 volumes | pass |
| `trades_weight` | as `trades`, 2 directives, 2 trades | violation |
| `connection` | 3 objects of 5 forms in messages of up to 2, 3 fragments cut anywhere, 2 contexts | pass |
| `connection_fragment` | as `connection` | violation |
| `startup` | 2 symbols, 1 Writer, minutes of 3 seconds of 2 units, every start in a minute, 20 units | pass |

**Why the bounds are enough for the questions.** The queue has two consumers so
that signals can reach the wrong sleeper, and more adds than slots so that the
ring wraps and both conditions have sleepers. In the pipeline the queues have one
slot, which makes both "full" and "empty" reachable with two items. Two trades of one
message and a directive are what it takes to split a message; two Writers, as in the
program, and three items are what it takes for one item to overtake and for a second
one to be held back. `pipeline` has one item more than `BoundedLossAtExit` lets be lost, and
reaches a loss of two: one that a Writer carried and one that a producer, asleep on
`not_full` when the order came, inserted when nobody was left. Each pipeline run has the
part of the environment that its question is about; the safety properties are proved for
the whole of it (section 5). In `trades`, four directives let the ring of two minutes wrap twice, and three prices
distinguish open, close, maximum and minimum; the memory that is never initialised holds
0, a number, or `NaN`. In `connection`, three objects are a
broken one, a cut one and a sound one after them. In `startup`, a second of two
units has a whole and a broken reading of the clock, and three minutes pass, enough
for a late SIGALRM, a merged one and a punctual one after it.

**Deadlock.** `queue` checks it: `bare_signal` of the other thread is always
possible there. The remaining runs say `CHECK_DEADLOCK FALSE`: the program
ends (`main_exit`), the bounds stop the environment, and the blocked states that
matter are the subject of `ExitReachesWriters`, `EveryItemComputed` and the
violation runs.

**What the passing runs show.**
- `queue`: the ring is a bounded FIFO (`ImplementsBoundedQueue`), and no wakeup is
  lost: while a consumer sleeps, every queued item has a signal on its way or a
  consumer that is awake (`NoStrandedItem`; `NoStrandedSlot` for the producers).
- `pipeline`: no item is in two places or from nowhere (`NoDuplication`); an item
  overtakes at most one item per other Writer (`BoundedOvertaking`); when `main` returns
  at most one item per Writer has not been computed (`BoundedLossAtExit`): what another
  Writer carried, or what a producer that slept on `not_full` inserted after the exit
  order.
- `pipeline_exit`: SIGINT makes `WSSClient` and both Writers return, provided no signal
  arrives during a handler; items are lost only after a Writer has begun to leave, and
  the logs are complete even then (`LossOnlyAtExit`).
- `pipeline_limit`: a directive never splits a message (`MessagesUnbroken`); the hour
  limit makes `WSSClient` and the Writer return; until an exit order is given the
  Calculator catches up with all that entered `api_queue`, again and again
  (`EveryItemComputed`), under the same proviso. The program uses both queues as
  `PCQueue` specifies (`ApiQueueSpec`, `CalcQueueSpec`), so the theorems apply to both;
  for handlers that interrupt handlers, on any thread, this is proved and not run.
- `trades`: candlesticks and written rows agree with the trades, also for quiet minutes
  and symbols that never traded. The totals of the window do for every symbol but the
  first, whose first minute begins with what was on the stack.
- `connection`: whatever came before, the trades added for a message are its sound
  objects in order, at least as far as its first fragment goes, each with its own value
  in every field it has (`TradesFaithful`; nothing is said of the other fields); the context in use exists and no more pile up than
  connects failed (`ContextsBounded`); the loop never services a connection that is over
  (`ServesLiveConnection`).
- `startup`: no file is closed under a running thread; expiries come on the minute plus
  the delay of the setup; consecutive directives name consecutive minutes as long as
  SIGALRM is not a minute late. `TimerOnTheMinute` allows that the program exits if the
  clock reads a whole second in `setup_timer`, and `CrashOnlyByUnnoticedOpen` a crash
  after an `fopen` of a batch that failed unnoticed.

**What the violations show.** Each is one property that a comment of the code
states; the findings in `PROJECT.json` quote it.
- `pipeline_wakeup`: the Writers raise `calculation_queue.exit_flag` and signal
  without the mutex. If both fall between the Calculator's test and its
  `pthread_cond_wait`, the Calculator sleeps for ever and `main` never joins it.
- `pipeline_loss`: a Writer that finds `api_queue` empty closes `calculation_queue`
  while the other still carries an item, whose `queue_add` is refused and not noticed.
- `pipeline_nested`: SIGINT during `queue_add` in the SIGALRM handler waits for a
  mutex that its own thread holds.
- `trades_weight`: `weighted_price` is not reset with the minute, so the moving
  average keeps growing.
- `connection_fragment`: the parser is constructed anew for every fragment, and the trades
  of a message that do not end in the first one are dropped.

**Other divergences.** Four more places do not do what the comments say. No property
asserts what the code does there; the passing ones are stated so that they would hold of
corrected code as well.
- `TradeProcessing.c:41`: what the stack of `main` held as the volume of symbol 0 is counted
  as volume of its first minute (`TradeProcessing.h:95`: "Each field is 0").
- `JSONParsing.c:40`: a trade whose object lacks a field, or whose symbol is unknown, is
  added with what an earlier trade left in the static work item (`TradeProcessing.h:23`:
  "Represents all info regarding 1 trade.").
- `WSSHandling.c:128`: after a failed connect the context is not destroyed, because the
  variable that is passed has not been assigned yet (`WSSHandling.c:127`: "Deallocate the
  context that was created.").
- `SystemHandling.c:21`: a failed `fopen` of a batch goes unnoticed and the threads start
  (`SystemHandling.h:27`: "-1 on any failed open").

## 4. Fairness

`FairSpec` of `Pipeline` has weak fairness for each thread and each handler, the queue
operation it is in included: a thread that stays able to run runs, which any preemptive scheduler gives. Signals
and what the server sends are not fair: they come or do not come. Weak fairness
of a mutex is not assumed separately; the lock step is part of `Continue(t)` of
the waiting thread, and the queue is used finitely often within the bounds.
Of the WSSClient thread, what is fair is its own code (`WSSOwn`), which includes that
`lws_service` returns, with or without a callback: without that an exit order would
never be noticed. That the server connects, sends or closes is never assumed.
Spurious wakeups are off in the fair runs: they would
only help.

`pipeline_exit` and `pipeline_limit` have `MaxHandlers = 1`. Without that bound both
fail for the reason `pipeline_nested` shows: a handler waits for a mutex that the
code it interrupted holds. Two SIGALRMs do it too, if the first one's handler is
blocked for a minute and the second interrupts a thread inside `queue_remove`.

## 5. Proofs

Every theorem is `Spec => []P` (or `Spec => RefinedSpec`) for a property `P` that a run
checks, and holds for every value of the constants that satisfies the module's
assumption.

| Module | Theorem | Property |
|---|---|---|
| `PCQueueProofs` | `TypeCorrect`, `MutexCorrect`, `RingCorrect` | `TypeOK`, `MutualExclusion`, `RingInv` |
| | `QueueImplements` | `ImplementsBoundedQueue` |
| `PCQueueWakeupProofs` | `NoItemStranded`, `NoSlotStranded` | `NoStrandedItem`, `NoStrandedSlot` |
| | `ItemsCorrect` | `ItemsWritten` |
| `PipelineProofs` | `ApiCorrect`, `CalcCorrect` | `ApiQueueSpec`, `CalcQueueSpec` |
| | `PipelineTypeCorrect` | `TypeOK` |
| | `MessagesCorrect` | `MessagesUnbroken` |
| `PipelineFlowProofs` | `NoDuplicationCorrect`, `LossCorrect` | `NoDuplication`, `LossOnlyAtExit` |
| `PipelineExitProofs` | `OvertakingCorrect`, `BoundedLossCorrect` | `BoundedOvertaking`, `BoundedLossAtExit` |
| `StartupProofs` | `StartupTypeCorrect` | `TypeOK` |
| | `CrashCorrect` | `CrashOnlyByUnnoticedOpen` |
| | `TimerCorrect`, `LabelsCorrect` | `TimerOnTheMinute`, `MinutesLabelled` |
| `TradeProcessingProofs` | `TradeTypeCorrect` | `TypeOK` |
| | `CandleCorrect`, `RowsCorrect` | `CandleMatchesTrades`, `RowMatchesTrades` |
| | `WindowCorrect`, `AverageCorrect` | `WindowMatchesTrades`, `QuietWindowAverage` |
| `WSSConnectionProofs` | `ContextsCorrect`, `LinkCorrect` | `ContextsBounded`, `ServesLiveConnection` |
| | `TypeCorrect`, `TradesCorrect` | `TypeOK`, `TradesFaithful` |

**Assumptions.** `QueueAssumption`: at least one slot, finitely many threads.
`PipelineAssumption`: the same, at least one minute per hour, and that the names of the
threads and handlers are distinct. `StartupAssumption`: seconds and minutes are not
empty. `TradeAssumption`: at least one symbol and a window of at least one minute,
prices above `CANDLESTICK_IS_EMPTY`, volumes not negative, whole numbers; uninitialised
memory holds any of them or `NaN`.
`ConnectionAssumption`: the objects have one of the forms of `JSONParsing`. The bounds
(`MaxTrades`, `MaxTicks`, ...) are any natural numbers.

### The queue

`TypeOK` is inductive by itself and includes that `head` and `tail` stay in the
ring. `MutualExclusion` is inductive over `TypeOK`: it equates the owner of the mutex
with the threads in a critical section, and places sleepers outside. `RingInv`
(of `full` and `empty`, exactly one is raised if `head = tail` and none otherwise)
is inductive over `TypeOK`; it makes `Count`, and so the sequence `Contents`,
well-defined.

The refinement maps the ring to `Contents` (the slots from `head` on, the oldest
first) and each thread to a pending call or none (`Client`). `InsertAppends` and
`TakeIsHead` say that `add_insert` appends to `Contents` and `remove_take` takes its
head; both need `RingInv`, because `head = tail` alone does not tell an empty ring
from a full one. `StepImplements` has one case per action: the steps that decide
an outcome are the abstract `Add`, `AddRefused`, `Remove`, `RemoveRefused`, the
calls are `CallAdd` and `CallRemove`, raising the flag is `OrderExit`, and the rest
(locks, sleeps, wakeups, signals) leave the abstract state alone.

That no wakeup is lost is a count: the items in the queue are at most the adds that
have not signalled yet plus the consumers that are up. `CountKeep`, `CountGain` and
`CountLose` bound how a step changes the size of a set of threads. An add raises both
sides by one; its signal moves one thread from "asleep" to "up" if there is a sleeper;
a remove lowers both. The one step that lowers only the right side is a consumer
falling asleep, and it is safe because the queue is empty then: `WaitIsEmpty` says so
of the consumer between its test and its sleep, which holds because it keeps the mutex.
The producers' side is the mirror image.

### The pipeline

`PipelineProofs` instantiates the proofs about `PCQueue` for each queue and shows that
each action of the program is a call, a continuation, a wakeup or a bare write of that
queue, or does not touch it. A handler is a thread of control of its own for the queue,
so the argument does not depend on the thread it runs on. The queue's step conditions
ask for the caller to be idle and for the argument to be a work item; hence the
invariants `MessageOK`, `WritersRemove` and `ComputedOK` (what a call that returned 0
left behind is a work item, which rests on `ItemsWritten`).

`MessagesUnbroken` needs three strengthenings. `LockInv`: the WSSClient has
`producer_lock` while it parses, and a handler from its lock to its unlock. `AddInv`:
only these two are in `queue_add`, and only there. `EnteredInv`: if a trade of the
message at hand has entered, nothing has entered since but trades of that message.

`PipelineFlowProofs` first sorts the steps of the program by what they move (`Enter`,
`Take`, `LogAndAdd`, `Pass`, `Drop`, `Stay`): `FlowStep`, that each step is one of them, has the
cases of the actions, and the invariants are then proved once per kind of movement.
`DupInv` is `NoDuplication` place by place; it needs that an item enters once (`IdInv`:
trades are numbered in the order in which they are parsed; `DirectiveInv`: a handler
that has not finished its add has not entered its directive). `ExitInv` says that
`calculation_queue` is closed only by a Writer that leaves, which makes `Drop` the only
loss.

`BoundedOvertaking` needs `SuffixInv`: `api_queue` holds the last items that entered, in
their order, so nothing in it is earlier than an item that has left it. An item that a
Writer forwards has therefore overtaken at most what the other Writers have in their
hands, one item each (`OneEach`), and nothing joins what it has overtaken afterwards
(`OvertakenShrinks`): whoever enters later is later, and a move from a hand to
`calculation_queue` leaves the item behind it.

`BoundedLossAtExit` is about the program's last moments, so its invariant starts at
the first one: `LossInv` says that from the moment a Writer is told to exit, the items
at risk (entered and not forwarded; once the Calculator was told to exit, not
computed) and the producers past the test of `exit_flag` in `queue_add` are at most as
many as the Writers. When that moment comes, `api_queue` is empty and the Writer's
hands are, so the items at risk are in the hands of the other Writers, and
`producer_lock` lets one producer at most be past the test (`PastInv`). After it the
flag stays up (`OrderStays`): no other producer passes the test, an insertion moves one
from the second number to the first, and a Calculator that is told to exit has found
`calculation_queue` empty, so that all that was forwarded is computed. `OrderInv` has
that nobody is told to exit without an order and that `main` returns after the
Calculator.

### Startup and connection

`MainInv` follows `main`: which folders are open at each of its steps, and that threads
run only between creation and join. `TimerInv` keeps every expiry a multiple of the
minute plus the delay of the setup; `LabelInv` numbers the labels, the pending
expiries and the next one in one line from the minute in which the clock was read,
as long as every SIGALRM was handled in its minute. The arithmetic of `\div` and `%`
is in the lemmas `DivRem`, `DivUnique` and `DivBound`.

`ContextInv` is `ContextsBounded` with types. `LinkInv` adds that a connection that
is over has raised `connection_closed` before the inner loop tests it.

`TradesFaithful` says that the trades added reach up to *some* point between the end of the
first fragment and what has arrived. The invariant (`JsonInv`) is that this point is the
end of the first fragment, which the parser of a later fragment does not change. What is
hard is inside the step, a fold over the events of a fragment. `ParserStates` unfolds
`FoldLeft` of the community modules: there is a function of the states of the parser after each event, the first one after the START and each one
`json_callback` of the one before. It rests on `IterExists` and `IterUnique`, that the
recursive function in the definition of the fold exists and is determined, proved by a
smallest counterexample. `ObjectStates` follows the six events of one object through
`json_callback`; `ParsedNext` concludes that what holds after `q` objects (`Parsed`)
holds after `q + 1`, and that the states in between have added nothing; `ParseFaithful`
puts a fragment together from its whole objects and the one it cuts off.

### The statistics

`BufferInv` relates candlestick, volume and close of every symbol to the history of
the trades; `RowInv` and `AverageInv` do it for the written rows. The window has three
parts, for each symbol but the first: `SumsOf` (the totals are the sums of the ring), `RingOf` (the total is the
sum over the last `WINDOW` minutes, the minute `m` being in slot `(m - 1) % WINDOW`,
and slots not written yet are 0) and `VolumesOf` (each of these slots has the volume of
its minute). `WindowMoves` says which minute enters and which leaves, and that they
share a slot.

Sums are the community modules' `SumFunction`. The library's induction theorems
cannot be instantiated here, so the facts about sums (`SumUnfold`, `SumRemove`,
`SumExcept`, `SumExtend`) are proved by a smallest counterexample: a set that refutes the
claim has a subset that is minimal with respect to `\subseteq` (`SmallestSubset`, from the
well-foundedness theorems), and removing one element of it contradicts minimality.

### Only model-checked

Liveness (`ExitReachesWriters` and `EveryItemComputed`): fairness and ENABLED are beyond
the prover. So are the properties of the violation runs, which do not hold. Every
invariant of a passing run has a theorem.

## 6. Not modelled

- Rounding of doubles (a total volume that should be 0 is compared with 0), delays
  and the text of the files. A double that no subtraction takes out of a sum again (not
  a number, infinite or very large) is `NaN`; it can only come from memory that was never
  initialised.
- The bytes of `main`'s stack behind the last symbol's buffer, which the `memset` of
  `init_calculator_buffers` clears: what lies there is up to the compiler.
- An error callback during a connect that nevertheless returns a connection: the vendored
  `lws-client.h` (lines 159-169) has that such an error ends in NULL being returned.
- The syntax of JSON: lejp decides where an object or a number ends. Nested objects
  inside a trade are not sent by the server.
- Steps of the wall clock, which would make two directives name the same minute or
  leave one out.
- SIGINT before it is bound (the default action ends the program).
- `pthread_create` and memory allocation do not fail; the code does not look.
- Writes of `exit_flag` are atomic: it is an aligned `int`.
- libwebsockets, OpenSSL and the headers under `cross-compile/` are third party, and
  `session_data/` is recorded output.

## 7. What is left

The model is complete but for section 6, and the safety properties are proved. What could
be added: the steps of the wall clock in `Startup`, and the rounding of doubles, for
which TLA+ has no ready theory.
