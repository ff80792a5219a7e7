---------------------------- MODULE Descriptors ----------------------------
(***************************************************************************)
(* The descriptors behind the connections of one worker: network::Socket   *)
(* (commonsocket.h, commonsocket.cpp), which owns one and is moved from    *)
(* the accept thread into a command and from the command into the table;   *)
(* Multiplexor, which registers descriptors with epoll (multiplexor.cpp);  *)
(* and everything that reaches a descriptor through a ConnectionHandle.    *)
(* The numbers are few and the kernel gives the lowest free one, so a      *)
(* descriptor that is closed is soon that of another connection.           *)
(*                                                                         *)
(* The interest in events and the processes are WorkerTable's; here a      *)
(* registration is the id it carries.  A Socket is its fd_.  The calls     *)
(* close, shutdown and set_option run on the caller's thread without a     *)
(* lock: the model makes such a call while the worker waits, which is all  *)
(* the code allows without a data race.                                    *)
(***************************************************************************)
EXTENDS Naturals, Sequences

CONSTANTS MaxConn,      \* bound: handles made
          MaxFd,        \* descriptors the process may still open
          MaxPush       \* bound: later commands and calls of callers

ASSUME BoundsAssumption == /\ MaxConn \in Nat /\ MaxPush \in Nat
                           /\ MaxFd \in Nat \ {0}

Conn == 1..MaxConn
Fds == 1..MaxFd
NoFd == 0               \* the code's -1
None == 0               \* no connection; ids start at 1
NoEntry == [state |-> "None", fd |-> NoFd]

VARIABLES
    os,         \* the kernel: see NewOs
    tab,        \* connections_: state_ of the Connection and fd_ of the Socket
    queue,      \* cmds_; a command has the Socket it carries
    todo,       \* handle_pending's list
    pending,    \* the events wait() returned: sets of [id, bad]
    pc,         \* the worker: "wait", "cmds", "events" or "gone"
    next,       \* id_counter
    npush,      \* calls made
    unheard     \* history: connections epoll refused to register

vars == <<os, tab, queue, todo, pending, pc, next, npush, unheard>>

-----------------------------------------------------------------------------
(* The kernel.  file: the connection a descriptor was opened for; reg: the
   id it is registered with; done: the connections in whose name options were
   set or the descriptor was shut down; down: shut down, or its peer gone;
   nonblock: O_NONBLOCK is set. *)

NewOs == [file |-> [f \in Fds |-> None], reg |-> [f \in Fds |-> None],
          done |-> [f \in Fds |-> {}], down |-> {}, nonblock |-> {}]

Free(o) == {f \in Fds : o.file[f] = None}
Opened(o, f, c) == [o EXCEPT !.file[f] = c]
Released_(o, f) == [file |-> [o.file EXCEPT ![f] = None], reg |-> [o.reg EXCEPT ![f] = None],
                    done |-> [o.done EXCEPT ![f] = {}], down |-> o.down \ {f},
                    nonblock |-> o.nonblock \ {f}]

-----------------------------------------------------------------------------
(* Socket. *)

(* Fault: the Socket moved from keeps its descriptor. *)
Move_Copies(f) == [to |-> f, from |-> f]

(* The move constructor and assignment. *)
Move(f) == [to |-> f, from |-> NoFd]

close(o, f) == IF f # NoFd THEN Released_(o, f) ELSE o

(* Fault: the destructor leaves the descriptor open. *)
Destroyed_Open(o, f) == o

(* The destructor. *)
Destroyed(o, f) == close(o, f)

(* socket(): the Socket of a new descriptor, if there is one: the lowest. *)
socket(o, c) == {[os |-> Opened(o, f, c), fd |-> f] :
                    f \in {f \in Free(o) : \A g \in Free(o) : f <= g}}

set_no_block(o, f) == IF f = NoFd THEN o ELSE [o EXCEPT !.nonblock = @ \cup {f}]

(* Asking sets the flag as well. *)
is_non_block(o, f) == [os |-> set_no_block(o, f), result |-> f \in o.nonblock]

(* One option, set in the name of `c`, which setsockopt may refuse. *)
SetOption(o, f, c) ==
    {o} \cup (IF f = NoFd THEN {} ELSE {[o EXCEPT !.done[f] = @ \cup {c}]})

(* The options up to the first one refused, or all. *)
set_options(o, f, c) == UNION {SetOption(p, f, c) : p \in SetOption(o, f, c)}

(* shutdown_all: the call fails on a socket that is not connected (any more).
   The error is errno's, whoever set it: one that succeeds may report it. *)
shutdown_all(o, f, c) ==
    {[os |-> o, err |-> TRUE]}
        \cup (IF f = NoFd THEN {}
              ELSE {[os |-> [o EXCEPT !.done[f] = @ \cup {c}, !.down = @ \cup {f}], err |-> e] :
                        e \in BOOLEAN})

-----------------------------------------------------------------------------
(* Multiplexor: the outcomes of each call. *)

remove(o, f) == IF f = NoFd THEN o ELSE [o EXCEPT !.reg[f] = None]

(* Fault: the event carries the descriptor, as the acceptor's does. *)
EventData_Fd(c, f) == f

(* EventHandle(hconn.id(), ...). *)
EventData(c, f) == c

(* A failed add takes the descriptor out of epoll.  If it was not in, that
   fails as well and resets errno, and the error returned is none. *)
add(o, f, c) ==
    IF f = NoFd THEN {[os |-> o, ok |-> FALSE, err |-> TRUE]}
    ELSE IF o.reg[f] # None THEN {[os |-> remove(o, f), ok |-> FALSE, err |-> TRUE]}
    ELSE {[os |-> [o EXCEPT !.reg[f] = EventData(c, f)], ok |-> TRUE, err |-> FALSE],
          [os |-> o, ok |-> FALSE, err |-> FALSE]}

modify(o, f, c) ==
    IF f # NoFd /\ o.reg[f] # None
    THEN [os |-> [o EXCEPT !.reg[f] = EventData(c, f)], ok |-> TRUE]
    ELSE [os |-> o, ok |-> FALSE]

-----------------------------------------------------------------------------
Command(op, c, f) == [op |-> op, id |-> c, fd |-> f]

Init == /\ os = NewOs
        /\ tab = [c \in Conn |-> NoEntry]
        /\ queue = <<>> /\ todo = <<>> /\ pending = {}
        /\ pc = "wait"
        /\ next = 1 /\ npush = 0 /\ unheard = {}

Has(c) == tab[c] # NoEntry
Store(c, state, f) == tab' = [tab EXCEPT ![c] = [state |-> state, fd |-> f]]
Erase(c) == tab' = [tab EXCEPT ![c] = NoEntry]
Push(op, c) == queue' = Append(queue, Command(op, c, NoFd))

-----------------------------------------------------------------------------
(* Callers, the accept thread, peers. *)

Called == pc # "gone" /\ npush < MaxPush /\ npush' = npush + 1

(* A new handle and its AddConnection. *)
AddConnection ==
    /\ pc # "gone" /\ next <= MaxConn /\ next' = next + 1
    /\ Push("add", next)
    /\ UNCHANGED <<os, tab, todo, pending, pc, npush, unheard>>

(* Commands on a handle: ModifyConnection, ShutDownConnection and
   RemoveConnection.  One pushed while others are executed is left for later:
   executing pushes nothing, so it is as well pushed when that is done. *)
execute_command(op, c) ==
    /\ Called /\ pc # "cmds" /\ c < next
    /\ Push(op, c)
    /\ UNCHANGED <<os, tab, todo, pending, pc, next, unheard>>

(* The calls a handle makes on the worker's table, on the caller's thread. *)
Direct(c) == Called /\ pc = "wait" /\ Has(c) /\ UNCHANGED <<todo, pending, pc, next, unheard>>

(* AbstractWorker::set_options, and set_option for one. *)
Settable(c) == tab[c].state \in {"Active", "Connecting"}
worker_set_options(c) == /\ Direct(c) /\ Settable(c)
                         /\ os' \in set_options(os, tab[c].fd, c)
                         /\ UNCHANGED <<tab, queue>>
worker_set_option(c) == /\ Direct(c) /\ Settable(c)
                        /\ os' \in SetOption(os, tab[c].fd, c)
                        /\ UNCHANGED <<tab, queue>>

(* shutdown_connection of a connection in the table. *)
Shut(c) == /\ Store(c, "Shutdowned", tab[c].fd)
           /\ \E r \in shutdown_all(os, tab[c].fd, c) : os' = r.os

close_connection(c) == /\ os' = Destroyed(close(remove(os, tab[c].fd), tab[c].fd), NoFd)
                       /\ Erase(c)

(* ConnectionHandle::shutdown and close. *)
handle_shutdown(c) == Direct(c) /\ Shut(c) /\ UNCHANGED queue
handle_close(c) == Direct(c) /\ close_connection(c) /\ UNCHANGED queue

(* ThreadPool::attach_connection: the Socket is moved into the command. *)
attach_connection(c, f) == queue' = Append(queue, Command("attach", c, Move(f).to))

(* ConnectionAcceptor::accept: the Socket of the new descriptor is given away,
   unless an option is refused: then it is closed again, and nothing is left. *)
accept ==
    /\ pc # "gone" /\ next <= MaxConn /\ next' = next + 1
    /\ \E s \in socket(os, next) : \E o \in set_options(set_no_block(s.os, s.fd), s.fd, next) :
          /\ attach_connection(next, s.fd)
          /\ os' = Destroyed(o, Move(s.fd).from)
    /\ UNCHANGED <<tab, todo, pending, pc, npush, unheard>>

(* A peer resets or leaves. *)
PeerGone(f) ==
    /\ os.file[f] # None /\ f \notin os.down
    /\ os' = [os EXCEPT !.down = @ \cup {f}]
    /\ UNCHANGED <<tab, queue, todo, pending, pc, next, npush, unheard>>

-----------------------------------------------------------------------------
(* The worker. *)

(* wait(): what is down is reported, of the others any. *)
wait ==
    /\ pc = "wait" /\ pc' = "cmds"
    /\ LET ready == {f \in Fds : os.reg[f] # None}
       IN  \E io \in SUBSET (ready \ os.down) :
             pending' = {[id |-> os.reg[f], bad |-> f \in os.down] : f \in io \cup (ready \cap os.down)}
    /\ todo' = queue /\ queue' = <<>>
    /\ UNCHANGED <<os, tab, next, npush, unheard>>

(* The command at the head, of which `f` is the Socket; it is destroyed when
   it has been executed, with what is left in it. *)
Take(op, c, f) == /\ pc = "cmds" /\ todo # <<>> /\ todo' = Tail(todo)
                  /\ Head(todo) = Command(op, c, f)

(* AddConnection: socket(), connectInternal.  `f` is the Socket moved into
   the entry.  The socket cannot be made ... *)
AddConnection_NoSocket(c) ==
    /\ Take("add", c, NoFd)
    /\ UNCHANGED <<os, tab, queue, pending, pc, next, npush, unheard>>

(* ... or it is not registered or not connected, and destroyed ... *)
connectInternal_Fails(c) ==
    /\ Take("add", c, NoFd)
    /\ \E s \in socket(os, c) : \E r \in add(set_no_block(s.os, s.fd), Move(s.fd).to, c) :
          os' = Destroyed(Destroyed(r.os, Move(s.fd).to), Move(s.fd).from)
    /\ UNCHANGED <<tab, queue, pending, pc, next, npush, unheard>>

(* ... or connected at once, or EINPROGRESS. *)
connectInternal(c) ==
    /\ Take("add", c, NoFd)
    /\ \E s \in socket(os, c) : \E r \in add(set_no_block(s.os, s.fd), Move(s.fd).to, c) :
          /\ r.ok
          /\ os' = Destroyed(r.os, Move(s.fd).from)
          /\ \E state \in {"Active", "Connecting"} :
                /\ Store(c, state, Move(s.fd).to)
                /\ UNCHANGED <<queue, pending, pc, next, npush, unheard>>

(* attachConnectionInternal looks at the error and not at the result: a
   connection epoll refused gets its entry. *)
attachConnectionInternal(c, f) ==
    /\ Take("attach", c, f)
    /\ \E r \in add(os, f, c) :
          IF r.err
          THEN os' = Destroyed(r.os, f) /\ UNCHANGED <<tab, unheard>>
          ELSE /\ os' = Destroyed(is_non_block(r.os, Move(f).to).os, Move(f).from)
               /\ Store(c, "Active", Move(f).to)
               /\ unheard' = IF r.ok THEN unheard ELSE unheard \cup {c}
    /\ UNCHANGED <<queue, pending, pc, next, npush>>

(* A command on a connection that is not in the table: no_such_device. *)
CommandRefused(op, c) ==
    /\ Take(op, c, NoFd) /\ ~Has(c)
    /\ UNCHANGED <<os, tab, queue, pending, pc, next, npush, unheard>>

modifyConnectionInternal(c) ==
    /\ Take("modify", c, NoFd) /\ Has(c)
    /\ os' \in set_options(os, tab[c].fd, c)
    /\ UNCHANGED <<tab, queue, pending, pc, next, npush, unheard>>

(* Fault: what is shut down is taken out of epoll. *)
shutdown_connection_Untracks(c) ==
    /\ Take("shutdown", c, NoFd) /\ Has(c)
    /\ Store(c, "Shutdowned", tab[c].fd)
    /\ \E r \in shutdown_all(os, tab[c].fd, c) : os' = remove(r.os, tab[c].fd)
    /\ UNCHANGED <<queue, pending, pc, next, npush, unheard>>

shutdown_connection(c) ==
    /\ Take("shutdown", c, NoFd) /\ Has(c) /\ Shut(c)
    /\ UNCHANGED <<queue, pending, pc, next, npush, unheard>>

(* With an error the entry is only extracted, and its destructor closes. *)
removeConnectionInternal(c) ==
    /\ Take("remove", c, NoFd) /\ Has(c)
    /\ \E r \in shutdown_all(os, tab[c].fd, c) :
          os' = IF r.err THEN Destroyed(r.os, tab[c].fd)
                ELSE Destroyed(close(remove(r.os, tab[c].fd), tab[c].fd), NoFd)
    /\ Erase(c)
    /\ UNCHANGED <<queue, pending, pc, next, npush, unheard>>

(* The socket is closed, its entry left to the RemoveConnection pushed. *)
Abandon(c, state) ==
    /\ os' = close(os, tab[c].fd)
    /\ Store(c, state, NoFd)
    /\ Push("remove", c)

CommandsDone == /\ pc = "cmds" /\ todo = <<>> /\ pc' = "events"
                /\ UNCHANGED <<os, tab, queue, todo, pending, next, npush, unheard>>

-----------------------------------------------------------------------------
(* Worker::run for each event. *)

Event(c, bad) == /\ pc = "events" /\ [id |-> c, bad |-> bad] \in pending
                 /\ pending' = pending \ {[id |-> c, bad |-> bad]}

(* The connection was removed since. *)
EventGone(c, bad) ==
    /\ Event(c, bad) /\ ~Has(c)
    /\ UNCHANGED <<os, tab, queue, todo, pc, next, npush, unheard>>

(* handle_events: Error or HangUp.  With an error left over the entry is
   erased as well. *)
handle_events(c) ==
    /\ Event(c, TRUE) /\ Has(c)
    /\ os' = close(os, tab[c].fd)
    /\ Push("remove", c)
    /\ Store(c, "Closed", NoFd) \/ Erase(c)
    /\ UNCHANGED <<todo, pc, next, npush, unheard>>

(* A handshake has ended: Active, or a RemoveConnection is pushed, which also
   happens to a connection that has a process already; when that fails to
   start the socket is closed. *)
Established(c) ==
    /\ Event(c, FALSE) /\ Has(c) /\ tab[c].state = "Connecting"
    /\ \/ /\ modify(os, tab[c].fd, c).ok
          /\ os' = modify(os, tab[c].fd, c).os
          /\ Store(c, "Active", tab[c].fd)
          /\ UNCHANGED queue \/ Push("remove", c)
       \/ modify(os, tab[c].fd, c).ok /\ Abandon(c, "Active")
       \/ UNCHANGED <<os, tab>> /\ Push("remove", c)
    /\ UNCHANGED <<todo, pc, next, npush, unheard>>

(* The process handles the event and may switch its interest: enable_writing
   and enable_readable ... *)
handle_event(c) ==
    /\ Event(c, FALSE) /\ Has(c)
    /\ os' \in {os, modify(os, tab[c].fd, c).os}
    /\ UNCHANGED <<tab, queue, todo, pc, next, npush, unheard>>

(* ... or fails. *)
handle_event_Fails(c) ==
    /\ Event(c, FALSE) /\ Has(c)
    /\ Abandon(c, tab[c].state)
    /\ UNCHANGED <<todo, pc, next, npush, unheard>>

EventsDone == /\ pc = "events" /\ pending = {} /\ pc' = "wait"
              /\ UNCHANGED <<os, tab, queue, todo, pending, next, npush, unheard>>

(* ~Worker, once the thread has been joined: the commands that are left and
   the entries are destroyed, each with its Socket, and the multiplexor. *)
Sockets == {tab[c].fd : c \in Conn} \cup {queue[i].fd : i \in DOMAIN queue}
AfterAll(f) == IF f \in Sockets THEN Destroyed(os, f) ELSE os
WorkerDestroyed ==
    /\ pc = "wait" /\ pc' = "gone"
    /\ os' = [file |-> [f \in Fds |-> AfterAll(f).file[f]], reg |-> [f \in Fds |-> None],
              done |-> [f \in Fds |-> AfterAll(f).done[f]],
              down |-> {f \in Fds : f \in AfterAll(f).down},
              nonblock |-> {f \in Fds : f \in AfterAll(f).nonblock}]
    /\ tab' = [c \in Conn |-> NoEntry] /\ queue' = <<>>
    /\ UNCHANGED <<todo, pending, next, npush, unheard>>

Gone == pc = "gone" /\ UNCHANGED vars

-----------------------------------------------------------------------------
Execute(c) ==
    \/ AddConnection_NoSocket(c) \/ connectInternal_Fails(c) \/ connectInternal(c)
    \/ \E f \in Fds : attachConnectionInternal(c, f)
    \/ \E op \in {"modify", "shutdown", "remove"} : CommandRefused(op, c)
    \/ modifyConnectionInternal(c) \/ shutdown_connection(c) \/ removeConnectionInternal(c)

Run(c) == \/ \E bad \in BOOLEAN : EventGone(c, bad)
          \/ handle_events(c) \/ Established(c) \/ handle_event(c) \/ handle_event_Fails(c)

Worker == \/ wait \/ CommandsDone \/ EventsDone
          \/ \E c \in Conn : Execute(c) \/ Run(c)

Others == \/ AddConnection \/ accept
          \/ \E c \in Conn, op \in {"modify", "shutdown", "remove"} : execute_command(op, c)
          \/ \E c \in Conn : \/ worker_set_options(c) \/ worker_set_option(c)
                             \/ handle_shutdown(c) \/ handle_close(c)
          \/ \E f \in Fds : PeerGone(f)

Next == Worker \/ Others \/ WorkerDestroyed \/ Gone

Spec == Init /\ [][Next]_vars

(* The thread's loop runs as long as the worker lives. *)
FairSpec == Spec /\ WF_vars(Worker)

-----------------------------------------------------------------------------
(* The Socket objects: of commands and of entries. *)
Holders == {<<"entry", c>> : c \in {c \in Conn : tab[c].fd # NoFd}}
           \cup {<<"queued", i>> : i \in {i \in DOMAIN queue : queue[i].fd # NoFd}}
           \cup {<<"taken", i>> : i \in {i \in DOMAIN todo : todo[i].fd # NoFd}}
Held(h) == CASE h[1] = "entry" -> [fd |-> tab[h[2]].fd, id |-> h[2]]
             [] h[1] = "queued" -> [fd |-> queue[h[2]].fd, id |-> queue[h[2]].id]
             [] h[1] = "taken" -> [fd |-> todo[h[2]].fd, id |-> todo[h[2]].id]

(* A Socket holds an open descriptor, the one opened for its connection, and
   no other Socket holds it: through all moves, failures and reuse of the
   number nothing is closed twice or for another (Socket's move and close).
   None of them blocks, or one would stop its worker (set_no_block). *)
OwnDescriptor ==
    /\ \A h \in Holders : os.file[Held(h).fd] = Held(h).id /\ Held(h).fd \in os.nonblock
    /\ \A h1, h2 \in Holders : Held(h1).fd = Held(h2).fd => h1 = h2

(* Every open descriptor is some Socket's: commands that are refused, entries
   that are erased and a worker that is destroyed leave none behind
   (~Socket, removeConnectionInternal). *)
NothingLeaks == \A f \in Fds : os.file[f] # None => \E h \in Holders : Held(h).fd = f

(* What reaches a descriptor through a handle (its registration, options, a
   shutdown) is meant for the connection it is open for, not for one that had
   the number before: EventHandle and every command carry the id. *)
ReachesOwn == \A f \in Fds : /\ os.done[f] \subseteq {os.file[f]}
                             /\ os.reg[f] \in {None, os.file[f]}

(* A connection that is shut down or whose peer is gone gives its descriptor
   back: epoll reports it and the worker closes it (Worker::run), unless epoll
   refused to register it (Multiplexor::add). *)
DescriptorFreed ==
    \A c \in Conn : (\E f \in Fds : os.file[f] = c /\ f \in os.down)
                        ~> (c \in unheard \/ \A f \in Fds : os.file[f] # c)
=============================================================================
