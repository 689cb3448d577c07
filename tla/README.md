# A TLA+ model of Echo-Web-Server

This directory holds a specification of the Echo web server, of its concurrent
core above all: TLA+ modules translated from the C++ sources, TLC configurations that
check them on small instances, and proofs that TLAPS checks for every size.
`PROJECT.json` maps every definition to the lines it models.

## The system

| Component | State | Operations | Used by |
|---|---|---|---|
| Web server, `include/web_server.h` | `users_`, `timer_`, `epoller_`, `listener_`, `mtx_` | `Start` (the event loop), `OnListenEvent`, `OnCloseEvent`, `OnReceiveEvent`, `OnSendEvent`, `AddClient`, `CloseClient`, `MarkClientAsToBeClosed`, `ReceiveFrom`, `SendTo`, `Process` | `main` |
| Epoller, `containers/epoller` | the kernel's interest set and the fetched events | `Wait`, `Add/Modify/DeleteFileDescriptor` | server |
| Connection, `http.h`, `http.cpp` | socket, read and write buffers, mapped file, `keep_alive_` | `Receive`, `Process`, `Send`, `Close` | server (workers) |
| Heap timer, `containers/heap_timer.h` | `nodes_` (heap), `key_to_idx_` | `Push`, `Adjust`, `Remove`, `Tick`, `ToNextTick`, `Invoke`, `Clear` | server |
| Thread pool, `containers/thread_pool` | `tasks_`, `threads_`, `closed_`, a condition variable | `Start`, `Push`, `ExecProc`, `Close` | server |
| Blocking deque, `containers/block_deque.h` | `deq_`, `closed_`, two condition variables | `PushBack`, `PushFront`, `Pop`, `Flush`, `Clear`, `Close` | logger |
| Logger, `log.h`, `src/log` | level, appenders, event deque, writer thread | `Log`, `SyncLog`, `AsyncLogProc`, `Add/Remove/ClearAppenders`, `SetLevel` | everybody |
| Log manager, `log.cpp`, `config_init.*` | `loggers_` | `FindLogger`, `RemoveLogger`, `InitConfig`, the configuration listener | logger users |
| Configuration, `config.h` | variables with listeners | `SetValue`, `AddListener`, `Lookup`, `LoadYaml` | `main`, log manager |
| Buffer, `containers/buffer` | bytes, read and write positions | `Append`, `Retrieve`, `MakeSpace`, `ReadFrom`, `WriteTo` | connection, parser |
| Request and response, `src/http` | parser state, headers, form data; status, file | `Parse`, `Build` | connection |
| Formatter, `src/log/field.cpp` | a list of fields | `ParsePattern`, `RawFieldsToFormatFields`, `Format` | appenders |
| Utilities, `util.cpp` | a mapped file | `ReplaceAllSubstring`, `SplitStringToLines`, checks of YAML nodes | response, configuration |
| I/O, IP addresses, `main` | none that matters | wrappers, formatting, set-up | |

The main thread alone adds and removes clients. It pops expired timers, waits
in `epoll_wait`, and hands a readable or writable client to the thread pool as
a task that shares the ownership of its connection. A worker receives or
sends, processes the request and re-arms the client's one-shot registration;
when something fails, or the client does not keep alive, it sets the alive time
of the client to zero, and the main thread removes it in its next iteration.
All of them log, possibly through a queue and a writer thread. The loggers come
from a table, and a listener of the configuration variable `loggers` replaces
them, one by one, in the thread that sets the variable.

What is hard here: timers that race with queued and running tasks; one-shot
events as the only protection of a connection; descriptors that the kernel
reuses; exceptions that abandon a batch of fetched events; condition variables
(lost wake-ups, closing, spurious wake-ups, time-outs); an atomic flag used in
and out of a critical section; a heap with an index that must not drift apart;
a mutex held across a blocking call; a variable that is told under one lock and
set under another; objects that are replaced while others use them. `PROJECT.json` lists these hazards with
the lines where they bite and the properties that watch them.

## The modules

| Module | Models | Composition |
|---|---|---|
| `WebServer` | the reactor: main thread, workers, kernel | uses the promises of `HeapTimer` (an expired node can be taken) and `ThreadPool` (tasks start in order) |
| `HeapTimer` | the heap, its index, the operations | implements `TimerQueue` |
| `TimerQueue` | abstract: a map from keys to times, earliest first | |
| `ThreadPool` | users, threads, `Start` and `Close` | implements `TaskQueue` when it is started on an empty list |
| `TaskQueue` | abstract: tasks start in order, each once, none while closed and none of those that `Close` leaves | |
| `BlockDeque` | producers and consumers of the deque | |
| `Logger` | threads that log, the writer, the destructor | uses what `BlockDeque` establishes |
| `Buffer` | the byte buffer and the I/O objects that fill and empty it | implements `ByteQueue` |
| `ByteQueue` | abstract: bytes are taken in the order they were put | |
| `HttpConnection` | one connection: receive, parse, build, send | uses `WebServer` (one thread at a time) and `Buffer` (buffers are queues) |
| `Config` | the table of variables, their listeners, loading a file | |
| `LogManager` | the table of loggers and the listener that replaces them | extends `Config`; of a logger it keeps what `Logger` does not: its settings and references |
| `UrlEncodedForm` | decoding and splitting of a form, and its grammar | `MCText` compares the two |
| `LogPattern` | the parser of log patterns | |
| `PageText` | placeholders, lines and length of a generated page | |
| `WebServerProofs`, `HeapTimerProofs`, `ThreadPoolProofs`, `BlockDequeProofs`, `LoggerProofs`, `BufferProofs` | theorems about the module of that name | |
| `HttpConnectionProofs` | theorems about `HttpConnection` and about the texts (`MCText`) | the second use what the first know of concatenations |
| `LogManagerProofs` | theorems about `Config` and about `LogManager` | the second rest on the first |
| `MC...` | the modules that TLC runs | |

In every module a critical section is one action, unless it reads something
that is also written outside of the mutex. Definitions commented as *Defect*
are wrong variants of the definition that follows them; no specification uses
them. They show that the properties notice such a change of the code.

**WebServer.** `users`, `timer`, `epoll` are `users_`, `timer_` and the epoll
set, indexed by socket. A timer is `live`, `late` (its alive time has passed)
or `zero` (marked). `mainPc` is the place of the main thread in `Start`: `tick`
and `callback` in `ToNextTick`, `wait`, `dispatch` and `accept`; `batch` is
what `Wait` fetched. `pc` and `job` are the step and the connection of each
worker. A connection is open while the table, a task or a worker has a pointer
to it (`Held`), and its descriptor is reused only then. `TickPop` and
`CloseClient` are two steps, as the callback takes the mutex that `Tick` does
not have. `Process` fails with a null pointer when the socket is no longer in
epoll, because `ReceiveFrom` and `SendTo` have moved the pointer into the call.
A worker that marks while the main thread is in `Tick` is a data race:
`TimerRace` ends the behaviour, and nothing is claimed after it. Every accepted
connection is a new member of `Conns`, so that the length of a behaviour in
clients is bounded and its length in requests is not. With `Timely` a task
(from the queue to its end) never lasts longer than the alive time, which is 60
seconds by default; without it a worker may also stay in `Receive` for ever.

**HeapTimer.** The heap operations are functions on a record of nodes and
index, iteration by iteration (`UpStep`, `DownStep`). Expiration times are
natural numbers, with ties. `fired` shows the key that `Tick` popped, so that
the refinement cannot mistake an expiration for a removal. `Invoke` assumes that
the callback leaves the timer alone, as the code keeps the index of the node across
it; nobody in the program calls `Invoke`.

**ThreadPool.** `closed_` is atomic, and `Start` writes it without the mutex:
the two readings in `ExecProc` are two actions (`TestPredicate`, `TakeTask`),
with the mutex held between them. Taking the front of an empty list is
undefined behaviour and ends the behaviour. `Close` leaves the tasks in the list,
and a second `Start` finds them. `TaskQueue` promises what the comment of `Close`
does, that they are not executed; `OpensWithTasks` is the one step of the pool that
breaks the promise, and `ImplementsQueue` names it as its only exception.

**BlockDeque.** The elements do not matter to blocking; the deque is its size.
A timed `Pop` may expire; any waiting thread may wake for no reason.

**Logger.** `accepted` and `written` are histories. A null appender, which
`RemoveAppender` can leave, crashes the process when the next event is written.

**Buffer.** `mem` is `buf_` as a function on its cells with the two positions,
and an operation of the class is an operator on such a record, so that `Append`
is `EnsureWriteableSize`, a copy and `HasWritten`, as in the code. `Scatter` is
the `readv` of `io.cpp` into the writable space and an additional area. `op`
shows the bytes that a call put or took, which is what the refinement compares;
`peak` remembers the most bytes that had to fit at once. Callers respect the
assertions of `Retrieve` and `HasWritten`.

**HttpConnection.** A line is sent as two pieces and a CRLF, and a receive may
end between any two of them. Whole lines are accepted as the patterns of
`request.cpp` accept them. A status line or a header that is cut may still
match its pattern (`GET / HTTP/1`), so that the parser accepts it or throws;
what it has set before it throws remains, as the code reads `keep_alive_` from
it. A line that throws stays in the buffer. `file` is the response whose file
is mapped. `wire` is what the client gets, piece by piece, and each piece names
its response. A receive that ends between CR and LF is not distinguished: the
parser then sees a cut line, of which the model has both outcomes. `marked` is
the end: the server closes such a client.

**Config.** `vars_` is the table and `store` every variable ever created, as a
variable that lost the race of two `Lookup`s lives on in the hands of its
creator. `call` is the `Lookup` or the `SetValue` that a thread is in. `SetValue`
is one step for the comparison under the shared lock, one for each listener and
one for the assignment, which waits until no thread holds the shared lock.
`load` maps the members of a YAML file that are still to be set to their texts;
a member that cannot be converted throws, and the ones behind it, in the order
of their names (`IsFirst`), keep their values. The text of a number is a sequence of digits, signs,
blanks and other characters, converted as `operator>>` does it, which skips blanks,
takes a sign and ignores what follows the digits. `known`, `raced` and `disputed` are histories: what each listener was
told last, who created a variable too late, and which variables were changed by
two threads at once since the last change that was made alone.

**LogManager.** A YAML node is a function from fields to texts or nodes, and
`ToLoggers` reads it as the converters of `config_init.h` do; what comes out is a
set of `LoggerConfigs`. `Strings` are the patterns and names of files in it. The
listener is a
job of the thread in `SetValue`, one step per call that it makes: `RemoveLogger`,
`FindNewLogger`, `SetDefaultFormatter`, `ClearAppenders`, `AddAppender`. The last
one is two critical sections of the logger, `GetDefaultFormatter` and
`AddAppender`, in one step: the formatter changes between them only when a second
listener works on the same logger, a case that the properties excuse. `ptr`
and the table are the shared pointers to a logger; where the last one goes
(`ReleasedBy`), an asynchronous logger is closed and its writer joined, under the
mutex of the manager when `RemoveLogger` did it. `Log` on a full queue while the
writer has an event in its hand is the deadlock described below; the threads it
stops are `stuck`. A pattern that the formatter refuses, or a file that cannot
be opened, ends the program (`terminated`), as the listener is `noexcept`.

**UrlEncodedForm, LogPattern, PageText.** Texts are sequences of characters and
exceptions are values. A loop of the code is a step on the variables that it
keeps (`DecodeStep`, `FieldStep`, `ReplaceStep` and so on) and a recursive
function that applies it once for every character, more often than the loop
runs; a loop that is over, or has thrown, stays as it is. The map of a form is a
set of pairs. `Form` in `UrlEncodedForm` is written from the other side, by
positions and without a loop: the segments between ampersands, and in each the
last mark before its end and the mark before that one. `kept` is the one point
where libraries may differ: whether `emplace`, when the key is there already, has
moved the key away. A symbol of a page is a character, the key of a parameter or
the sign that begins or ends a placeholder. The parameters are a sequence, in
whichever order the unordered map has them, and their values are any texts, as
they are what clients post; `PutParamIntoHTML` is the loop of the function of that
name and of `AddParamContent`.

## The runs

| Run | Shows |
|---|---|
| `WebServerSafety` | client table, epoll set and timers agree (`KeysAgree`); no descriptor is reused under a pointer to its old connection (`SocketOwnership`); a connection is armed, fetched, queued once or run by one worker (`Exclusive`); a marked client never gets new time (`NeverRevived`). Tasks may be arbitrarily late. |
| `WebServerTimely` | if tasks end within the alive time: no assertion fails, no moved pointer is used, marked clients are removed, clients whose events an exception dropped are removed by their timer |
| `WebServerLateMark` | violated: a late worker marks a client that the timer has removed, and the assertion in `MarkClientAsToBeClosed` fails |
| `BlockDeque` | capacity, no lost wake-up of consumers or producers, `Close` ends `Pop`, a push gets its place |
| `ThreadPool` | no lost wake-up; tasks in order, each once, and none of those that `Close` left (`ImplementsQueue`), unless the pool is opened with tasks in its list (`OpensWithTasks`); a pushed task is started, `Close` ends the threads; only a second `Start` can make a thread take a task that is not there (`TakesOnlyTasks`) |
| `HeapTimer` | index and heap agree, the assertions hold with ties, earliest first (`TimerQueue`), `ToNextTick` never sleeps past the earliest timer |
| `Logger` | nothing lost, doubled or reordered; events are written unless the logger is destroyed or stuck; the destructor ends |
| `Buffer` | a queue of bytes (`ByteQueue`), below twice the most it had to hold (`BoundedGrowth`) |
| `HttpConnection` | the responses on the wire are complete and in order, without the file of another request (`WellFramed`); bytes left by a parse error are not answered for ever (`AnsweringEnds`); a form is answered without its input only if a part of it had not arrived or the next request followed it directly (`InputIsEchoed`) |
| `Config` | lookups of one name agree, but for the loser of a race (`OneVariablePerName`); listeners know the value of their variable although it is told and set under different locks, and although other listeners throw (`ListenersKnow`) |
| `LogManager` | the table holds the loggers that are configured, with their level, capacity, pattern and appenders, of which those without a formatter of their own have the pattern (`ConfiguredAsWritten`); a logger in use is never changed by a later configuration (`CompleteIsKept`); the mutex of the manager is released (`ManagerIsFreed`) and `SetValue` ends (`SetValueEnds`) |
| `Text` | forms are read as the grammar says (`FormIsRead`), patterns lose no character (`PatternIsKept`), and pages have every placeholder replaced, one parameter after another, and the content length of their bytes (`PageIsWhole`), for every short text |

### Bounds

* WebServer: two sockets, so that events of a batch depend on each other; three
  connections in the safety run, so that a descriptor is reused while a late
  worker lives; two workers, enough for two workers on one connection. The live
  run has two connections. Sockets, connections and workers are symmetric.
* HeapTimer: five nodes, the least heap in which a node with two children is
  below the root; four time points, hence ties and orders of every kind.
* ThreadPool: two threads per `Start` and two `Start`s, two users, three tasks.
* BlockDeque: three producers and three consumers on two places: two waiters
  and one newcomer on each side.
* Logger: two threads, four events, one of them of a lower level, capacity two.
* Buffer: two bytes, at most four of them stored, chunks of up to three, an
  initial size and an additional area of two: every order of fitting, compacting
  and resizing, and reads that fill the area. The memory is not bounded by a
  constant but by `BoundedGrowth`.
* HttpConnection: two requests out of four kinds (page, file, missing file,
  form), cut anywhere between pieces; files of two pieces, so that a send stops inside one.
  At most four answers, a bound that a fair run would not get past: if the
  server could reach it, `AnsweringEnds` would fail.
* Config: two threads, two names and two variables, so that two threads race for
  one name; two listeners, one of which always throws; three changes, so that one
  made alone follows two made at once (`MaxSets`); files with a member that is no
  number, before or behind a good one, one that is too large, one followed by
  other characters, and texts with blanks and signs.
* LogManager: one user and one thread that configures (either may set the
  variable), the root logger and another one, two changes, an asynchronous
  logger with a queue of one; a file of two loggers, one with a level that does
  not exist, one with a bad pattern and one whose appender has a formatter of its
  own. Users create loggers only while there
  are fewer than `MaxLoggers`.
* Text: forms of up to six characters out of `% & + = a 2` and of up to eleven
  out of `& = a`, enough for three keys, of which two are equal; each form both
  as it stands and with every character encoded. Patterns of up to seven
  characters. Pages of up to six symbols out of CR, LF and those of the
  placeholders of a name and a message, enough for both of them or one twice; the
  parameters in both orders, with values that are empty, line ends, a whole
  placeholder or either part of one.
* `WebServerLateMark`, which expects a violation, has the least instance that shows
  it.

### Fairness

Weak fairness of threads that can run: the operating system schedules them.
The main thread always gets out of `epoll_wait` in the model. In the code the
waiting time is the time to the earliest timer, and 0 without timers, so that
it ends by itself; a marked client is seen after it at the latest. The clock
advances (`TimeElapses`). Nothing obliges clients to connect, producers or
consumers to begin a call, a timed wait to expire, a condition variable to
wake a thread spuriously, or anybody to call `Close` or destroy a logger. In
`AddClient` a client that keeps connecting could keep the main thread in its
accept loop; with a finite set of connections this does not happen.
In `HttpConnection` the worker runs, and a client that does not read is closed
by its timer; nothing obliges a client to send.
In `LogManager` threads that are in a call, and writers, go on when they can;
nothing obliges a thread to begin a call. The lock of a variable is free
infinitely often in the model, because changes are bounded; a shared mutex that
prefers readers could starve `SetValue` if readers never paused.

A logger may stop on a full queue, a connection ends, a program stops making
changes and a text reaches its full length, hence `CHECK_DEADLOCK FALSE` there.

## The proofs

`WebServerProofs` proves, for any sets of sockets, connections and workers:

| Theorem | States |
|---|---|
| `TypeCorrect` | the type invariant |
| `OneThreadPerConnection` | `Exclusive` |
| `SocketsAreOwned` | `SocketOwnership` |
| `TablesAgree` | `KeysAgree` |
| `MarksAreFinal` | the action property `NeverRevived` |
| `ServerSurvives` | with `Timely`: `NoAssertionFails` |
| `NoMovedPointer` | with `Timely`: `NoNullClient` |

The assumptions are that `NoSocket` and `NoConn` are no members of the sets and
`Timely` is Boolean; nothing has to be finite. The inductive invariant `Inv`
adds to the properties what they rest on:

* `Callback`: the callback of a timer runs on a client that is in the table;
* `Registered`: the table maps a socket to the connection that was created on
  it, and waiting connections have no socket;
* `Employed` and `Connected`: a worker that is not idle has a connection, and
  whatever is held has a socket;
* `Fetched`: a fetched event has disarmed its socket, and is gone before the
  timers are looked at again;
* `Doomed`: a marked client is disarmed, not fetched, not queued and not run.

`Exclusive` alone is not inductive: that an armed socket has no task needs the
fact that the worker on it is the one of the client in the table
(`SocketOwnership`, lemma `WorkerOwns`). `NeverRevived` follows from `Doomed`.
The last two need one more invariant, `ServedInTime`: while a client is
queued or run, its timer is live and it is in the table; `Timely` is used in
the step `TimeElapses` only, and `PushTask` is where the code restores it.

`BlockDequeProofs` proves, for any finite sets of producers and consumers and
any capacity of at least one:

| Theorem | States |
|---|---|
| `TypeCorrect` | the type invariant |
| `CapacityKept` | `WithinCapacity` |
| `NoLostElement` | `ConsumersNotified` |
| `NoLostPlace` | `ProducersNotified` |
| `CloseWakesConsumers` | `NoConsumerSleepsInClosed` |

The conjunction of the five is inductive. The argument counts: a push makes
one element and, when it leaves a consumer asleep, has woken one more (lemma
`NotifyWakes`); a consumer that takes an element leaves the woken ones, at most
one fewer (`TurnAway`); expiry and spurious wake-ups only add (`WakeOne`); a
consumer goes to sleep on an empty deque only. The producers are the mirror
image, except that `Clear` frees places without a notification. The sets must
be finite because the argument compares cardinalities.

`BufferProofs` proves, for any set of bytes with a zero, any sizes and any
chunks:

| Theorem | States |
|---|---|
| `TypeCorrect` | the positions stay in order and inside the memory |
| `SpaceIsReused` | `BoundedGrowth` |
| `BufferIsQueue` | `Spec => Queue!Spec`, the refinement of `ByteQueue` |

`TypeOK` and `BoundedGrowth` are inductive together. The refinement is built up
as the code is: making room keeps the readable bytes (`ResizeKeeps`,
`CompactKeeps`, `EnsureKeeps`), a copy behind them puts bytes (`AppendPuts`),
and a scatter read is two puts in order (`ScatterPuts`). Growth uses that a
buffer is resized only when the bytes in it and the new ones fill more than the
whole memory: then `write_pos` is at most the old size, which is below the new
peak.

`ThreadPoolProofs` proves, for any finite set of threads, any number of threads
per `Start`, any users and any tasks:

| Theorem | States |
|---|---|
| `TypeCorrect` | the type invariant |
| `NoLostWakeup` | `TasksNotified` |
| `NoEmptyTake` | `TakesOnlyTasks` |
| `Refinement` | `ImplementsQueue`, the refinement of `TaskQueue` |

Wake-ups are counted as in the deque, with the difference that a thread keeps
the mutex between its two readings of `closed_`: it counts as awake in both.
That it finds a task at the second reading needs `SeesATask`: up to the second
`Start`, the holder of the mutex (`OneHolder`) of an open pool has seen a task
that nobody else can take. A pool that was closed in between was open before,
so opening it again is a second `Start`; `OrderedByStarts` counts the threads
ordered so far to tell the first from the second. The refinement needs
`OnePlace`: a task is with one user, once in the list or with one thread, which
is what "each once" rests on. The queue of `TaskQueue` is the list while the pool
is open and empty while it is closed; `Start` is a step of it if the list is empty,
and the exception that `ImplementsQueue` names if not.

`HeapTimerProofs` proves, for any keys, any times and any size of the heap:

| Theorem | States |
|---|---|
| `HeapInvariance` | the nodes are in heap order and the map leads to them |
| `MapAgrees` | `IndexAgrees` |
| `LiftedToTop` | `NoAssertionFails` |
| `TimerRefinement` | `Spec => Queue!Spec`, the refinement of `TimerQueue` |
| `IntervalIsRight` | the action property `IntervalReachesEarliest` |

`HeapInv` says that the heap is `Good` (the map leads from each key to the one
node that carries it) and `Sorted` (no node is before its parent). Inside an
operation one node is out of order, and the loops have invariants of their own:
`Rising` (all but that node are in order, and its children are after its
parent) and `Sinking` (the same but for its children). An iteration keeps the
map, the invariant and the time of every key, and moves the node strictly
towards the root or away from it, or stops with a sorted heap (`UpStepKeeps`,
`DownStepKeeps`); the number of nodes bounds the iterations. That the root is
before every other node (`TopIsLeast`) is what the refinement and the interval
use, and what the assertions of a removal need: the node that was set to the
least time is at the root afterwards, also where other nodes have that time.

`LoggerProofs` proves, for any threads, events, appenders and capacity:

| Theorem | States |
|---|---|
| `TypeCorrect` | the type invariant |
| `NoEventLost` | `NothingLost` |
| `StuckForGood` | `[][Stuck => Stuck']_vars`: the deadlock below is for ever |

The inductive invariant adds who holds the mutex between two steps (`MutexKept`:
only a thread that waits for room), that the writer has an event in hand from
`Pop` until it is written (`HandHeld`) and that a synchronous logger has neither
queue nor writer (`NoWriterNoQueue`). Of the types it has those of the
variables that events pass through; the others are an invariant of their own
(`AppendersStep`: what `remove_if` leaves in the list comes from the list, or is
null).

`HttpConnectionProofs` proves about `HttpConnection`, for any requests and sizes
of files:

| Theorem | States |
|---|---|
| `FrameInvariance` | what was written, the write buffer and the rest of the mapped file are together what the answers promised |
| `ResponsesAreFramed` | `WellFramed` |

`WellFramed` alone says nothing of what is still to be written. `Balanced` does:
between requests everything promised is on the wire and the write buffer is
empty; while a request is parsed no file is mapped, as `Process` has unmapped
it; while the response is sent the three parts add up to what was promised, so
that a short write moves the border between them and nothing else.

and about `MCText`, for texts of any length over any characters:

| Theorem | States |
|---|---|
| `PatternsAreKept` | `PatternIsKept` |
| `PagesAreWhole` | `PageIsWhole` |
| `FormsAreRead` | `FormIsRead` |

The runs of `MCText` are trivial, as its steps only add characters; the theorems
are about what the loops compute of a text, and each loop has an invariant that
speaks of its n-th iteration:

* `FieldInv` and `PatternInv`: the fields found so far and the raw text behind
  them print what has been read, no two raw fields follow each other, and the
  position is beyond n or at the end;
* `SplitUpTo`: the lines found so far are what has been read without its line
  ends, and the text that is left is the rest;
* `SubUpTo`: what is written is the text up to m with every occurrence replaced
  (`Sub`, position by position), no occurrence lies across m, and the rest is
  left. Nothing is assumed of the value. The placeholder must not overlap itself
  (`OccursApart`), which it cannot because it begins with a sign that it does not
  have a second time (`Distinct`); `FilledIs` carries this over the loop over the
  parameters, each of which works on what the ones before it have left;
* `Decoded`: after m iterations m characters of the client are decoded, however
  many bytes each of them took (`HexIs` is the arithmetic of a byte and its two
  digits);
* `FormInv`: before it reads the character at b the loop has thrown exactly if the
  grammar refuses a segment that ends before b; if not, the part begins behind
  the last mark before b, the map has the pairs of the segments that end
  before b and whose keys are new, and the key is that between the last two
  marks, empty, or one that `emplace` has left (`KeyIs`).

That the loop's own characters change under it (a plus becomes a space in the
text that is read) is in `Seen`: only characters before b, and no mark among
them.

`LogManagerProofs` proves, for any threads, names, values, listeners and files,
about `Config`:

| Theorem | States |
|---|---|
| `LookupsAgree` | `OneVariablePerName` |
| `ListenersAreTold` | `ListenersKnow` |

and, for any finite sets of threads and names of loggers and any
configurations, about `LogManager`:

| Theorem | States |
|---|---|
| `LoggersAsWritten` | `ConfiguredAsWritten` |
| `ConfiguredStays` | the action property `CompleteIsKept` |

For `Config` the invariant says of a `SetValue` that is alone with its variable
(`AloneIsAlone`) what it has told to whom: each listener that is not on its list
knows the new value, and if it changes nothing, the listeners are as it found
them (`AloneTells`). `TellsListeners` is where the shared lock is used: no
listener comes or goes while somebody tells them. `HoldsRegistered` is the
claim about lookups: a thread has the variable of the table, or created its own
too late.

For `LogManager` the composition keeps that invariant, and `Faithful` relates
the table to the variable in every phase of a change made alone: before the
listener begins the old value is in force; while it runs, each configuration of
the new value is still waiting, is in force, or is the one at work, of which
`PartlyConfigured` says how far it is, down to the appenders that are left;
afterwards the new value is in force. What it says of the appenders is
more than the property does: each was made from its configuration and the pattern
of the logger (`MadeFrom`), with or without a formatter of its own. It rests on the listener having a
logger of the right name that the table refers to (`JobHasLogger`,
`TableHasLoggers`). `CompleteIsKept` rests on `CompleteIsLeft`: a listener
neither has, nor finds after its removal, a logger that was configured to the
end. That loggers in use stay open (`ReferredIsOpen`) is needed for both, as a
name may be removed and created again.

### Assumptions

Each module names what it assumes of its constants; TLC evaluates all of it in
the runs. Most say that a null value is no member of a set or a bound is a
number. The others:

* `DocumentAssumption`: `Names` has the names of all members of the files. Which
  of them have a variable, and when, is up to the threads; `LoadYaml` skips the
  others.
* `LoggersAssumption`: the values of the variable `loggers`, and what its text
  converts to, are sets of `LoggerConfigs` or an error: the type of the variable
  in `config_init.cpp`.
* `FiniteAssumption`: finitely many threads and names of loggers, because the
  number of references to a logger is compared with one.
* `TimesAssumption`: time points are natural numbers, that is, no timer expires
  before the zero of the clock (its start), to which the code sets a node in
  order to lift it to the top. A timer may have that time too, which is a tie.
* `SizeAssumption`: a mapped file is not empty (`mmap` refuses an empty one).
* `FormAssumption`: the characters of forms are bytes, and the percent sign is
  among those that a client may encode, as it must.
* `PatternAssumption`: the percent sign and the braces are no letters
  (`std::isalpha`), and every type of a field has a name (`field.cpp`).
* `PageAssumption`: the values of parameters are texts, and no key is the sign that
  begins a placeholder.

### Induction

A loop that runs as long as the data say is a recursive function in `HeapTimer`
and in the modules of texts, and `FlattenSeq` is one in the library. What they compute is proved by induction
on numbers in a first-order form: a set that has 0, and with each number the
next one, has all of them (`Induction`), because the least number that it lacks
could not exist (`<` on the naturals is well-founded). The recursive functions
exist for the same reason (`UpExists`, `DownExists`, `SumsExist`), which has to be
shown before anything is said of them. For the texts this is done once for all
loops: `LoopExists` gives the states that a loop goes through, for a step given
as a function, and `LoopInvariant` the induction, for an invariant given as a set
of states for each iteration.

### Only model-checked

Liveness, in every module, and whatever needs `ENABLED`. Every other property that
a run expects to hold is stated by a theorem, all invariants, all refinements and
all action properties, but one: `InputIsEchoed`, which depends on where requests
begin and end in the stream of bytes.

## What the models found

Where the code does something else than an assertion, a comment or the README of
the repository says. In the server:

* A worker that outlives the alive time of its client marks a client without a
  timer, and the assertion of `web_server.h:259` fails. The run `WebServerLateMark`
  shows it; the finding is in `PROJECT.json`.
* A peer that closes its side while its request is received keeps a worker in
  the loop of `Receive` for ever (`http.cpp:202`): the read returns 0 and never
  throws. The timer removes the client from the table, but the worker keeps the
  connection and its socket. The model has this worker (`"spin"`), and the safety
  properties hold beside it; no property says that a queued task is taken or a
  removed client disconnected, as neither is so.
* A `POST` whose bytes arrive in two receives is answered after the first, as if
  it had no input: `Parse` takes what has been received for the whole request
  (`request.cpp:110`). `InputIsEchoed` says when this can happen, and that nothing
  else loses the input.

In the containers and the logger:

* After `Close` and `Start`, a pool executes the tasks that were left, although
  `thread_pool.h:66` says "The remaining tasks will not be executed."
  (`OpensWithTasks`), and a thread of the first `Start` may take the front of an
  empty list (`TakesOnlyTasks`). The program starts its pool once.
* With a full queue, `Log` waits for room with the mutex that the writer needs to
  write the event it has already popped (`log.cpp:192`): both wait for ever
  (the theorem `StuckForGood`). `LoggedUnlessStuck` and `SetValueEnds` exclude this
  case by name.

In the configuration:

* A pattern that the formatter refuses, or a log file that cannot be opened,
  ends the program, as the listener is a `noexcept` lambda
  (`config_init.cpp:32`), although `SetValue` is prepared to catch what a
  listener throws.
* A thread that looks for a logger between its removal and its creation by the
  listener creates it, synchronous and with the default level; the configured
  level and capacity are then ignored (`excused` in `ConfiguredAsWritten`).
* Of two threads that look up a new name at once, one keeps a variable that is
  not in the table, and so would its listeners (`raced` in
  `OneVariablePerName`).
* Two threads that set one variable at once may leave its listeners with the
  other value (`disputed`), until the next change.
* An appender with a field `formatter` is always refused, unless it has a field
  `formatters` too (`config_init.h:103`); and then it is not used, as the listener
  gives every appender the default formatter (`config_init.cpp:56`), although
  `config_init.h:45` calls it optional and `log.h:341-343` keeps the default for
  appenders without one. `ConfiguredAsWritten` claims nothing of such a formatter.
* A number followed by other characters is accepted; `loggers` that were set
  before `InitConfig` stay unconfigured, as the comment of `InitConfig` warns.

In the texts: a form is decoded before it is split, so that an encoded `&` or `=`
separates; the last value of a form must not be empty while the others may be; a
key that comes twice keeps its first value, but is refused at the end; `%%` in a
log pattern is no escape for a percent sign; the decoder takes `%2%` for the
character 2; a posted placeholder is replaced as if it were part
of the page, or not, with the order of an unordered map.

And what no part of this program provokes: `Clear` of the deque wakes no
producer; a producer that meets a full closed deque waits for ever;
`RemoveAppender` leaves a null pointer or the appender itself in the list.

## Not modelled

* `WebServer::Close`, which only the destructor calls, and `InitNetwork` and the
  builder, which run once before anything else.
* The regular expressions of status lines and headers: that a cut line may or may
  not match is a choice of `HttpConnection`.
* What fields of log events, headers, pages of errors and addresses look like,
  and every conversion of the configuration back to text (`ToString`,
  `ToYamlString`): they change no state.
* Converters of maps and of sequences other than those of the loggers: the program
  has no such variables.
* The key of a listener is a static counter of all variables of one type, taken
  under the lock of one of them: a data race between variables that this program
  does not provoke, as each type has one variable with listeners at most.
* `main`: one order of the calls that `Config` and `LogManager` allow.

## Plan

Every component that runs beside another one is modelled and checked, and every
safety property that TLC checks, of them and of the texts, is proved but for
`InputIsEchoed`. What is left:

1. A proof of `InputIsEchoed`.
2. `WebServer::Close` beside a running `Start`.
