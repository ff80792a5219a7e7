# A TLA+ verification of OsterLib

OsterLib is a general-purpose C++ library. Its network library holds most of
what is hard to test: worker threads that serve non-blocking sockets through
epoll, a mailbox of commands between clients and workers, buffers and a
deserializer that survive partial reads and writes, requests and tasks with
promises, an acceptor with a thread and a mutex. Around it stand the sequences
of time steps with their calendar arithmetic and the command line with its
history. This project models these parts, checks them with TLC on small
instances and proves the safety properties of the network core, of the time
sequences and of the history with TLAPS for every value of the constants. Paths are relative to the repository;
`PROJECT.json` maps every definition to its lines.

## 1. The system

| part | state it keeps | operations | interacts with |
|---|---|---|---|
| `RingBuffer` | `head_`, `tail_`, `full_`, storage | push, insert, read, commit, resize | filled by `readv`, emptied by the deserializer |
| `VectorizedBuffer` | deques of vectors and iovecs, `active_el_` | push, consume, compact, clear | written by `send_vectorized` |
| `ConnectionIO` | the two buffers of a connection | `send`, `send_rest`, `receive` | switches Out and In at its worker |
| process (`AbstractConnectionProcess`) | requests, tasks | `on_init_connection`, `on_read`, `on_write`, ... | called by the worker, uses `ConnectionIO` |
| `Multiplexor` | epoll set, eventfd | add, modify, remove, wait, interrupt | one per worker and per acceptor |
| `AbstractWorker` / `Worker` | `connections_`, `cmds_`, `w_cmds_`, thread | execute commands, handle events, stop | commands from clients, events from epoll |
| commands | a promise each | `AddConnection`, `AttachConnection`, `AttachProcess`, `RequestData`, `TaskDone`, `ShutdownConnection`, `RemoveConnection`, ... | executed by the worker thread |
| `ThreadPool`, `AbstractClient`, `ConnectionHandle` | workers; ids | choose a worker, push commands, wait for answers | push to mailboxes |
| `ConnectionAcceptor`, `AbstractServer` | listening socket, thread, mutex | launch, accept, stop | attaches connections to workers |
| serialization, frames | a stream with what it has read so far | encode, decode, resume, sizes | used by `ConnectionIO` and for files |
| `Socket` | a descriptor | open, move, close, options | owned by the table, commands and the acceptor |
| `TimeInterval`, `TimeSequence`, `TimePeriod` | ends, step, count | push, extend, bound, index, intersect, text and JSON | independent of the network |
| command line (`CLIHandler`, line editor) | line, cursor, history, screen | keys, completion, history file | independent of the network |
| geometry, algebra, images, utilities | none or plain records | pure functions and I/O | independent of the network |

What is hard:

* **Concurrency.** Clients push under a mutex and wake the worker *after* the
  unlock; the worker drains the eventfd outside the lock. Destructors join.
* **Order.** epoll reports a batch of events; commands are executed before them,
  so an event can find its connection removed, closed or given a process.
* **Failure in the middle.** A callback can fail after the process, the io and
  the registration are in place. A `writev` can take part, block or fail.
* **Two copies of one fact.** The interest in events lives in the table and in
  epoll; a `std::error_code` passed by reference through a whole round decides
  whether the second copy follows the first.
* **Resumption.** A message arrives in pieces; the deserializer remembers how far
  it got and must forget it for the next message.
* **Time-outs.** A caller gives up while its command or its answer is on the way.
* **Two threads, two waits.** `stop` holds the mutex while it joins a thread that
  takes the same mutex.
* **Numbers that are used again.** The kernel hands a closed descriptor out at
  once, while commands, events and handles still speak of its former owner.
* **Limits.** Full rings, full kernel buffers, `size_t(-1)`, ends of months,
  leap days, the last column of the terminal.

What makes each part correct: a ring is a FIFO queue; a send buffer offers each
byte once and in order; a connection with bytes to send is woken for them and
one without is not; a worker loses no wakeup and no command, and obeys Stop; the
table and epoll agree, dead entries go, live ones stay; what is received is what
was sent; a request gets its own answer, or an error; a process made for a
connection reaches it, and closing a server returns; a socket owns the
descriptor of its own connection and gives it back; a time sequence is a grid;
the screen shows the line and the history keeps it. `PROJECT.json` lists the
hazards, each at its line with the properties that cover it.

## 2. The modules

| module | models | proofs |
|---|---|---|
| `ByteQueue` | abstract specification: a bounded FIFO queue | |
| `RingBuffer` | `buffers/ring_buffer.h`; implements `ByteQueue` | `ConnectionProofs` |
| `VectorizedBuffer` | `buffers/vectorized_buffer.{h,cpp}`, `send_vectorized` | `ConnectionProofs` |
| `SendPath` | the sending side of `ConnectionIO` with `enable_writing` and the error handlers | `ConnectionProofs` |
| `WorkerLoop` | mailbox, thread loop and destructor of a worker | `WorkerLoopProofs` |
| `WorkerTable` | `connections_`, epoll, the commands and `Worker::run` | `WorkerTableProofs` |
| `Descriptors` | `Socket`, the descriptors of the kernel, the registrations, handles used from outside | `DescriptorsProofs` |
| `StreamSerializer` | `serialization.h`, frames, the serialized types | |
| `ReceivePath` | the receiving side of `ConnectionIO`, files | |
| `Requests` | `AbstractClient`, the queue of requests, promises, the tasks of a server's process | `RequestsProofs` |
| `Acceptor` | `AbstractServer`, `ConnectionAcceptor`, `ThreadPool` | `AcceptorProofs` |
| `Calendar`, `TimeSequence` | `types/time_interval.h` | `TimeSequenceProofs` |
| `TimeText`, `TimePeriod` | positions, JSON and text of sequences; `types/time_period.{h,cpp}` | `TimeSequenceProofs` |
| `Terminal`, `LineHistory`, `LineEdit` | a VT100 screen (external); the history and its file; the line editor under `CLIHandler` | `LineEditProofs` |

They fit together by abstraction. `VectorizedBuffer` shows that the send buffer
is a sequence of bytes, which `SendPath` takes it to be. `SendPath` looks inside
a callback, which is one step of `WorkerTable`. `WorkerLoop` shows that commands
arrive in push order, so `WorkerTable` takes all of them in one step; `Requests`,
`Acceptor` and `Descriptors` take a mailbox to be a queue for the same reason.
`RingBuffer` shows that the ring is a queue, which `ReceivePath` takes it to be.
`WorkerTable` keeps whether an entry's socket is valid, `Descriptors` which
descriptor it holds.

Operators named `X_Something` directly before `X` are deliberate faults: each is
`X` with one plausible bug, used to see that a property can fail.

### RingBuffer

`head`, `tail`, `full` and the storage are the class's members; each member
function that changes them is an action. Elements that never were written hold
`Blank`. The refinement mapping to `ByteQueue` is the sequence the iterators
visit. `extract_front` and `extract_back` are called by nobody and are wrong;
they have a specification of their own (`SpecExtract`).

### VectorizedBuffer

Bytes are numbered in push order and a byte's number serves as its address.
`Gather` is the kernel taking bytes of one iovec; `ConsumeWhole` and
`ConsumePart` are iterations of `consume`. On EAGAIN the code passes -1 to
`consume`: `left = Huge`, and the whole buffer counts as given up.

### SendPath

One connection: `unsent` (send buffer), `wire` (what `writev` took), `room` (the
kernel's), `tab` and `ep` (Out in the table and in epoll), `err` (the error code
of the running callback). `faults` remembers what went wrong, so that a property
can name the error paths on which the code gives a guarantee up.

### WorkerLoop

A `lock_guard` block is one step and the wakeup after it another. `efd` is the
eventfd; `seen` tells whether this `epoll_wait` reported it, because only then
it is read to zero. The worker's own pushes (`SelfPush`) are single steps:
nothing else of the worker runs between them, and the clients cannot see it.

### WorkerTable

`tab[c]` is the `ConnectionState` entry (state, process, io, socket, events),
`reg[c]` the epoll registration, `link[c]` the network's end of the connection,
`pending` the batch of events, `stale` whether the loop's `error_code` is still
set. `marks` is history: why a connection may go. A callback may leave `tab` and
`reg` different when it met an error (`AfterCallback`, mark "torn"). A callback
without its io fails the assertion of `io_context()` and ends the program
(`Aborted`). With `"client"` in `Roles` connections are made by
`connectInternal`, with `"server"` by `attachConnectionInternal`.

### Descriptors

A `Socket` is its `fd_`, in a command or in the table; `os` is what the kernel has
open and registered, and for which connection it was opened. Numbers are given
out again, lowest first, as soon as they are closed. Every action is one command, one event
or one call on a handle, with all the closes and destructors it runs. Calls on a
handle take no lock; they are modelled while the worker waits.

### StreamSerializer and ReceivePath

A type is a descriptor (`num`, `dur`, `seq`, `map`, `opt`, `var`, `pair`, `array`,
`struct`, ...), a value a tree, a number `SizeWidth` digits in base `Base`. The
stream keeps what `Deserializer` keeps between calls: the position, the range of
passed bytes, the registered sizes and indexes. `Serialize`, `Deserialize` and
the size functions have one operator per specialisation. `ReceivePath` puts
dialogues of messages through the ring, through a caller's own view, or through
a file. The network cuts messages anywhere. The code does not survive every cut and
every order of values, and the model follows it there too: into wrong values, into a
wait for bytes that came long ago, into the end of the program (`Running`). Two
predicates name these cases for the properties: `torn`, history, that a piece ended
where the reader does not resume (anywhere but between the numbers of one value of a
type that counts what it has read), and `Spoilt`, that the messages before leave the
stream or the ring in a state which spoils the value. Section 5 says what happens then.

### Requests

One caller that connects, adds a process, makes requests with time-outs and
disconnects; its worker with the process and its queue; the link; and a server's
process that answers from tasks, on threads of their own or synchronously.
The two processes are those of `tests/network_test.cpp:20-80`: the client writes its
request and completes it on the answer (its branch for a wrong value is left out), the
server answers when the task is done.

A write of the client (`SendInternal`) takes some messages and perhaps a part of the
next; or would block, which empties `send_buffer_` and is reported as success
(`Blocks`); or is refused with ENOBUFS, which leaves the bytes, the error and an Out
interest that epoll does not have (`Refused`); or meets a broken link. The error left
by a refused write is what `push_request` returns to the command, which then sets the
promise of a request that stays in the queue (`Emplaced`). A write of the server goes
through or not (`unsent`). History, for the properties: `orphans` are the requests
whose command has reported such an error, `dropped` and `cut` tell that bytes were
dropped and in the middle of a message (what follows is `Garbage` to the reader),
`aborted` that a promise was set twice, in a `noexcept` function; `lost` remembers
requests whose process was destroyed with them (their promises break).

### Acceptor

The owner configures, launches, sets the process of new connections, gives old
ones a process, collapses, removes, closes, and may configure again. `m` is the
mutex of the acceptor. The accept thread opens its socket, waits, accepts once
per event, hands the connection to the next worker and then its process. A
worker only enters, serves or drops the connection. The listening socket is
edge-triggered: an arrival raises the one event there is (`edge`), whether it is
raised already or not. `Pending` counts the accepts still to come, `Heard` says of a
client that they reach it in the backlog; `missed` remembers who was in the backlog
when an accept failed, which takes an event and no connection.

### Calendar, TimeSequence, TimeText, TimePeriod

Instants are seconds; the C++ calendar is written out in `Calendar` (external)
and `DateTimeDiff` is translated case by case. A sequence is built by one of the
constructors and then pushed to, bounded, extended, reset. A count is the code's
`uint32_t`: `Kept` keeps a negative difference modulo `CountLimit`, which is 2^32 in the
code and so much smaller in the instance that TLC's integers hold it. The instants are
within the years of `std::chrono::year`, a `short`; the steps offered have no
negative fields (`StepsAssumption`). Years that months take back are a step of no
length, by which nothing can be divided: `Plain` leaves them out. `TimeText` has the
positions of a sequence within an interval and the JSON and text forms, `TimePeriod`
the period with its carrying constructor. Text is modelled by its fields and
units, not by characters.

### LineEdit

`linenoise.c` is vendored but compiled into the library (`CMakeLists.txt:24`) and
is the whole of the command line's state. One action per key or group of keys,
with the refresh it ends in written to `Terminal`, which knows columns, wrapping
and erasing. Control characters the editor has no case for (`Controls`: Tab when there is
nothing to complete, Ctrl-J, and one for all that draw nothing) are inserted like any
other character; `control` remembers that one was drawn as itself, as a terminal answers a tab or a line feed
by moving its cursor. A NUL is not typed, a carriage return only comes from a line read
without a terminal. Saving the history takes the steps the code takes: the open,
which empties the file or is refused (`HistoryOpen`), what the stream passes on before it
is closed (`HistoryFlush`: any part of the text), and the close, which writes the rest or
cannot (`HistoryClose`). The process may end between any two of them. `saved` is the
line that a complete save put into the file last, `excuse` why the line entered last may
not be: the open was refused, the writing fell short, or the process ended before the
close. `Restart` loads the history file as `CLIHandler` does: `fgets` reads
a line of the file in parts of `LINENOISE_MAX_LINE - 1` characters, each an entry
of its own. Only a line that was not typed in the editor can be longer than that
(`InputPlain`), and `EnteredSurvives` is not about those.

## 3. The runs

| run | instance | shows |
|---|---|---|
| `ring_buffer` | capacities 1-4, batches up to 5, two values | the ring is a FIFO queue; segments partition the storage |
| `vectorized_buffer` | 6 bytes in every split | iovecs stay valid; bytes offered once, in order; `send_vectorized` returns |
| `send_path` | 4 bytes, kernel buffer of 2 | order; Out armed while there are bytes, but for named errors; every byte reaches the kernel unless a write blocks or fails |
| `worker_loop` | 2 clients, 2 pushes each and by the worker | no lost wakeup; push order |
| `worker_loop_live` | 2 clients, 1 push each | commands are served, the destructor returns |
| `worker_table` | 2 connections, both roles, 3 commands | table and epoll agree; no drop without reason; dead entries are erased; handshakes complete |
| `descriptors` | 2 connections, 2 descriptors, 2 calls | each socket owns its own descriptor; none leaks; nothing reaches another connection; a connection that is down gives its descriptor back |
| `receive_path` | dialogues over every modelled type, cut anywhere; rings of 4 and 12 bytes, view, file | what is received is what was sent; sizes agree with the bytes; a complete message is taken; the ring is not left full; each but for the cases named |
| `client_requests` | 2 requests, both kinds of tasks, time-outs, writes cut, blocked and refused, a link that breaks | no request forgotten; until a command reports an error for a request that stays queued: own answers, promises set once, `on_task_done` finds its result; every request ends unless a write blocked or was refused for good |
| `acceptor` | 3 peers, 2 workers | a process made reaches the worker that has the connection; a client that an event was raised for is accepted, whatever becomes of those before it, unless the server stops or an accept fails; close returns but for one embrace |
| `time_sequence` | instants around a leap day and a new year, steps of hours, days and months | pushes keep to the grid; counts are greatest; extensions keep the grid; a bound returns exactly the points inside, but for three cases; positions lie inside; JSON and text are read back; periods agree with differences |
| `line_edit` | lines of 4 characters, 3 columns, 7 settings | the screen shows the line; Enter leaves the history as it was plus the line; a saved line is loaded after a restart, and one that is not saved has a reason |

**Bounds.** A ring of capacity 4 with batches of 5 has every relation of head,
tail and wrap, batches that do not fit included. Six bytes give three iovecs with
a cut in each. A kernel buffer smaller than the data makes writes partial and
blocked. Two pushes by each of three threads overlap in the mailbox in every way;
`MaxStops` bounds the clients' waiting Stops, of which one is executed per round.
In the table, three commands make a connection, give it a process and meet its
pending events; two connections share the stale error and the batch. The proofs
of these modules need none of these bounds. Two descriptors for two connections
make every number be given out again. Twelve bytes of ring hold any one message of the
instance and less than two of the longer ones; four are fewer than most messages have,
so that a read fills the ring. Two requests have one on its way and one queued or
given up by its caller, and meet every case that the properties except (an orphan, a
promise set twice, a foreign answer, a `TaskDone` too early, a request that never
ends); `MaxOnWay` messages may be on their way when a write event comes. Three peers arrive
singly and together, and meet both workers. Lines of four characters on three columns fill
a row exactly, wrap, and reach the length the buffer allows; a history of two drops its
oldest entry. Each setting has its own characters and numbers of characters and lines
typed (`chars`, `typed`, `inputs`), so that control characters, and several lines with what they leave in
the history and the file, are each met without the product of all. Symmetry is used
in `worker_loop` only.

**Fairness.** Worker steps and the step from unlock to wakeup are weakly fair: an
OS thread that can run does. Nothing is assumed of the 3 s timeout of `wait`, of
socket traffic, or that clients push or stop. In `SendPath` the peer keeps
reading, callbacks end, `on_write` calls `send_rest` (as every process of the
repository does), and epoll, being level-triggered, does not pass over a
writable registered socket for ever (strong fairness, because other callbacks
can use the room up in between). `WorkerTable` assumes the same of `Report`. In
`Requests` workers serve their mailboxes and ready descriptors, a writable socket that
epoll has registered for Out is reported, and tasks return; what a write does is never
promised, so it may block or be refused every time, but one that takes a part of a
message is followed by the next. The link may break and callers may give up at any
time. In `Acceptor` the closing owner and the accept thread
run; in `Descriptors` the worker runs.

**Deadlock** is checked everywhere; a finished or aborted program stutters in an
action of its own.

## 4. The proofs

All are of the form: an inductive invariant `IndInv`, with `Init => IndInv`,
`IndInv /\ [Next]_vars => IndInv'` one action at a time, and `IndInv => P`.

* `ConnectionProofs`, the buffers and the sending side of one connection. The ring,
  for every capacity and element type: the occupied cells are `(head + i) % cap`,
  so the arithmetic lemmas about `%` come first; refinement of `ByteQueue` maps
  each operation to the queue's. The send buffer: the iovecs form a chain, each
  starting where its predecessor's vector ends; `Position` ties the kernel's place
  in the chain to the bytes counted, which is what makes cut and count agree in
  `consume`. The sending side: the stream is strictly increasing, and table and
  epoll agree on Out unless a fault that can separate them happened; `OutArmed`
  and `NoSpin` need that agreement, since `enable_writing` looks at the table only.
* `WorkerLoopProofs`: for any number of clients. The wakeup invariant must speak
  of the steps between `wait` and the drain, where a command may be queued with
  the eventfd already cleared: it is then still to be drained in this round.
* `WorkerTableProofs`: for any set of connections. `Fine` says of one connection
  what its entry, registration, link, events, history and waiting commands have
  to do with each other; `OneConnection` reduces every step to the connection it
  touches. Needed beyond the properties: a broken link, a "Bad" event and a
  waiting Shutdown each have a reason, and a process on a connecting socket came
  early.
* `RequestsProofs`: for every number of requests, tasks on threads or synchronous.
  The invariant has two parts. `Basic` holds whatever the writes do: the types, and
  that a request is in one place only (`Somewhere`), from which the first half of
  `NotForgotten` follows. `Calm` holds until a command reports an error for a request
  that stays queued (`orphans = {} => Calm`): what waits in the mailbox is ordered
  (`MailInv`: the connection before the process, the process before the requests),
  and one request at most is on its way, in the send buffer, the socket, its task or
  its answer, and is the active one (`Good`, `Fits`, `Flow`, `ServerInv`). `OwnAnswer`
  follows because an answer can only meet the request it was made for; `TaskDoneReady`
  needs `Flow`: without it a second task could start before the result of the first
  is fetched. An orphan is where the code leaves `Calm`: its promise is set, so
  `next_request` takes the next one while the orphan is on its way.
* `AcceptorProofs`: for every finite set of clients, any number of workers and
  calls. A connection in the accept thread's hand is with the worker `next - 1`
  names or in that worker's mailbox (`Handed`); so `AttachProcess` is appended
  behind its `AttachConnection`, and a mailbox that grows at one end and is
  executed at the other keeps the two in order (`GrownKeeps`, `TailKeeps`).
  `EventInv` says that the accepts to come (`Pending`) are never more than the
  backlog holds, so every accept finds a connection (`AcceptFindsOne`): where the
  listening socket is a blocking one, `stop` never joins a thread that is held in it.
* `DescriptorsProofs`: for every number of connections, descriptors and calls.
  Commands taken and commands queued are one sequence (`Cmds`). A connection is
  created by one command, before its entry (`CreatedOnce`), so it never has two
  Sockets; each Socket's descriptor is open, registered and used in the name of
  its connection (`Owned`), and a descriptor without Socket is closed
  (`Accounted`). Every action uses, closes or opens one descriptor: the lemmas
  `Gained` and `GivenUp` say what that does to the others, `Reaches` and `Frees`
  that the code's calls are of that kind. All three properties follow.

* `LineEditProofs`: for every alphabet, width, prompt, completion callback and length
  of the history. The screen is left out by `Same`: no refresh changes the line. The
  invariant says that the text with its zero fits the buffer, the cursor is in it
  and `history_index` names an entry (`WithinArrays`); that while a line is edited
  the history ends with the entry made for it, and is otherwise the one the line
  started from unless a history key was used (`HistoryOfInput`); and, step by step of a save
  (`FileOfInput`), that the line to be saved ends the history from the moment it is added until the
  file is closed, that a line which is saved ends the file, and that one which is not has
  its excuse. Such a line is the last that a restart loads, in whatever parts `fgets` reads the lines before
  it: both the loop of `fgets` and the one that adds the parts are recursive functions of
  a length, about which the prover can do induction over `0 .. n`.
* `TimeSequenceProofs`: for all instants, steps and counts, of any size. The
  calendar comes first: `year_month_day` inverts `sys_days` (`DateIs`), months begin
  in order at least 28 days apart (`MonthsInOrder`), and each is as long as
  `getDaysInMonth` says (`MonthLength`). `AddMonths` then only moves the number
  of the month, whatever date the 31st of a short month denotes. From there:
  `MonthsFit` says that `MonthsBetween` is the greatest number of months that fits
  (`CountIsGreatest` for divided steps); `Regular`, that points grow with their index
  and that the count to an instant is the index of the last point not after it,
  which is what `bound_by_interval` and the positions cut at; `ComputedExact`, that
  a count without error leaves no remainder, so that an extended sequence ends on
  the grid. For the bounds, `Span` and `CutPoints` say which points a sequence cut at two
  indexes has, and `BoundCuts` which of the code's three ways takes which; the points
  inside an interval are then those between the two indexes (`PointsUpTo`), and where
  there are none the count is the greatest the word holds. The invariant needed of the object is that its ends are in order
  (`InOrder`). For the pushes it says more (`Tracking`): the ends are instants that
  were given, a sequence without a step is one instant, and one with a step has each
  of its points among the given instants and each of these among its points
  (`Grid`). It speaks of what lies so many steps from the first (`Reach`), so that a
  push before the first shifts every number by one (`GridBefore`) and a push after
  the last adds one (`GridAfter`). What remains is that the two ways of the code to
  make a step agree: the first push divides (`FirstIsStep`), the later ones
  subtract dates (`DifferenceIsStep`), and both give one step exactly.

Assumptions are those of the modules on their constants (bounds are naturals,
`Self` is no client, `NoEntry` no entry, `Huge` exceeds every byte count, there
is a worker and there are finitely many clients; the history holds two entries at
least, completions fit the buffer; instants lie in the years 1970 to 32767, steps
have no negative fields, counts are 1, 2 or 4, and the points of a sequence are fewer than half
of what its count can hold).

Proved but not among the runs' properties are the type invariants, `WithinArrays`
and `FullOnlyWhenMeeting`, `ReadersAgree`, `RestIsUnwritten`, `NoEmptyRest`,
`NothingDropped`, `NoSpin`, `NothingAfterStop`, `ZombieQueued`, `NoIdleIn`,
`InOrder` and `AcceptFindsOne`.

Model-checked only: all liveness properties (TLAPS does neither fairness nor
`ENABLED`); the properties of `ReceivePath`, because `StreamSerializer` is recursive
over types and values by `RECURSIVE` operators, which the prover does not take;
`ScreenShowsLine`, what rows and columns hold after each refresh, whose proof is
an induction over everything written to the terminal; and `ReadsBack`, whose text
is a fold over units and whose values carry over into one another in the
constructor of differences (14 months are read back as a year and two).

## 5. What the models show the code to do

Disagreements with what the code's comments, assertions and tests say. The first
six can be seen with TLC by adding the formula given as an invariant.

* `SendPath`, `Stream = [i \in 1..accepted |-> i]`: a `writev` that would block
  passes -1 to `consume` (`send.cpp:25`) and so empties the send buffer, and
  success is reported. `tests/network_test.cpp:232` expects every request to arrive.
* `WorkerTable` with four commands, `~Aborted`: when `on_init_connection` fails the
  entry stays Active until its removal is executed; a second process is accepted
  and called without its io, against `assert(io_)` at `abstractprocess.h:788`.
* `WorkerTable`, no `Cmd("remove", c)` in the queue without "asked", "lost" or
  "failed" in `marks[c]`: the missing braces of `if(err)` (`threadpool.cpp:365`) drop an
  established connection whose process was attached while it was connecting.
* `RingBuffer` with `SpecExtract`, `FullOnlyWhenMeeting`: `extract_front` and
  `extract_back` leave `full_` set although `head_` and `tail_` no longer meet
  (the comment at `ring_buffer.h:329`). Nothing calls them.
* `ReceivePath`, `CompleteIsTaken` without `~torn`: a pair cut between its
  members is read from its first member again (`serialization.h:287`) and is short
  for ever; `tests/serialization.cpp:902` expects a value that came in pieces to be
  complete with its last piece.
* `ReceivePath`, `Running`: a number received on its own moves `end` and not `begin`
  (`serialization.h:109`). The next view takes the number's bytes for passed bytes of the
  next value (`push_view` sets `iterator` to `begin`): a range then looks for a registered size that is not there
  and `registered_.at` ends the program, an optional or a variant takes the object's
  present state for what it has read. `tests/serialization.cpp:894` reads a bool between
  two values from such a stream and expects the second to be right; it is, because a
  bool is shorter than the index that follows it.

What else the models had to follow, by part:

* **Receiving.** The ring shows the bytes of an incomplete number a second time
  with the next segment, so a cut inside a number corrupts it. `std::array`,
  `forward_list` and nested vectors do not resume. Several values in one `receive`
  start again each time, and when one of them is more than a number its bytes are not
  taken off the ring (`connectionIO.h:72` commits what is flushed, and a finished value
  has flushed itself): the next message starts with them. `max_serial_size` of a
  pair adds and wraps around where all other types saturate (`serialization.h:362`), so a pair with a vector or
  a string has the greatest size of its other member less one, and `deserialize_from_file` reads too little. `reset_all` leaves the iterator. Messages sent before the
  last one was taken are dropped or repeated, so the peer of the model waits.
  A full ring switches In off and nothing switches it on; it is full only after a
  message of the two kinds above.
* **Descriptors.** A registration that epoll refuses is undone by `remove`, which
  resets `errno`: the error becomes 0 and the connection is kept unheard. The
  `shutdown_*` functions report a stale `errno`, so a remove usually takes the path of
  an error. `is_non_block` sets the mode it asks for.
* **Requests.** An event that establishes a connection destroys a process attached
  before. A `make_connection` that fails leaves its promise unset, and an error of
  `connect` is hidden by a second `err`. The result of a Sync task is lost by
  `get_result_timeout`. A write refused with ENOBUFS leaves its error set
  (`connectionIO.h:99-101`), and `push_request` returns it although the request is
  queued: the command sets the promise, the caller is told of an error, and the request
  goes out with the next write. Its answer then sets the promise a second time, which
  throws in a `noexcept` function and ends the program; or, when another request has
  been made active in between, is taken for the answer to that one; or the server,
  with two requests at once, meets a `TaskDone` before the task's result. All three are
  seen with TLC when `c.orphans = {}` is removed from `OwnAnswer` and `TaskDoneReady`.
  A write that would block drops its bytes (the first item above), so that a request
  may end neither with an answer nor an error: `RequestEnds` without `Stuck` shows it.
* **Acceptor.** `stop` joins with `m_` held while the accept thread may be about
  to take it (`connection.cpp:243`): `CloseReturns` names this embrace. `set_process`
  and `collapse` walk the tables of running workers without a lock. One
  accept is made per event of the edge-triggered listening socket: of several
  connections that arrive before the event is taken the oldest is accepted, and as many
  clients as were left wait from then on, each until later arrivals bring more events.
  A failed accept has the same effect. `HeardIsAccepted` promises these clients nothing; with
  `peers[p] = "queued"` in place of `Heard(p)` TLC shows one that waits for ever.
* **Time.** Hours within a month are split wrongly (`time_interval.h:358-371` takes
  hours off a value that is already in hours), so that the first push of an instant
  less than an hour further in the day makes a step that loses the minutes:
  `PushedIsGrid` asks for one time of day (`SameTime`). A leap first year is counted
  twice, `operator+` drops the time of day and wraps months without the year;
  "Remainders are not allowed" (`time_interval.h:1007`) is not kept, and
  `extend_by_interval` accepts intervals off the grid. `bound_by_interval` leaves out the point at
  which the interval begins (but for the first); with no point inside, it returns the
  two points around the interval and the count 2^32 - 1 (`time_interval.h:808-814`); and for
  an interval that begins at or after the second point and reaches the end, it returns the part of
  the sequence before the interval (`time_interval.h:793-796`). `BoundOnGrid` states each of the three as what the code does. Those cases are excluded by name
  in the properties (`pure`, `Sound`, `SameTime`, equal days of the month and times of day). JSON does not hold the
  step: two steps of 30 days from January 1 to March 1 1996 load as months. Minutes
  and seconds are printed from the hours; "s" is read as days. A period's unit
  that overflows overwrites the larger one.
* **Command line.** A line of the greatest length loses its last character when
  recalled and is loaded back as two entries. Editing a recalled entry overwrites
  it. Ctrl-C leaves the empty entry it started with. `linenoiseHistorySave` empties the
  file before it writes and its result is not looked at (`CLInavig.cpp:24`): a process
  that ends in between, or a full disk, loses the history of all sessions, and nobody is told.
  A tab or a line feed in the line is drawn as itself, and the columns counted are no longer
  those of the screen.

## 6. What is not modelled, and what is left to do

Not modelled, inside the modelled parts: a close from inside a callback (it frees
the entry in use); a multiplexor or a worker that could not be created; a second
launch without configure; `request_stop` of a running task; `get_null_aligned_tp`
(reads uninitialised values); the hashes; raw mode, the width query and the
key-code printer of the editor; a prompt as wide as the terminal; a completion
longer than the buffer; a NUL in a line.

Left out: addresses and settings (records and wrappers of library calls, whose
outcomes are choices of the actions that use them), `send_file` (used by nothing),
geometry, linear algebra, interpolation, images, rectangles (floating point),
byte order and number formats (bit patterns of one word), JSON and crypto helpers,
compression and logging (library calls and I/O), and `arch/` (superseded code
outside the build).

Every safety property that the runs check is proved but for those of `ReceivePath`,
`ScreenShowsLine` and `ReadsBack`. Left to do for these: size functions and
deserializers as recursive functions of a type's depth, rows of the screen as
a function of the text they show, and units of text as a record instead of a fold.
