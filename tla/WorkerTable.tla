---------------------------- MODULE WorkerTable ----------------------------
(***************************************************************************)
(* The connections of one network::Worker: the table connections_, the     *)
(* epoll registrations that go with it, the commands that change them      *)
(* (threadpool.cpp, worker/command.cpp) and the handling of events         *)
(* (Worker::run, AbstractWorker::handle_events).  Only the worker thread   *)
(* touches the table; clients push commands and the network changes under  *)
(* it at any time.  How commands get from a client to the thread is in     *)
(* WorkerLoop, so draining the queue is one step here.                     *)
(*                                                                         *)
(* A callback of a process is one step: it may switch the interest in      *)
(* events and ends with an error or without.  SendPath looks inside it.    *)
(* Only In and Out are kept of that interest: epoll reports Error and      *)
(* HangUp unasked, here as "Bad", and nothing registers CanReadButHangUp.  *)
(***************************************************************************)
EXTENDS Naturals, Sequences, Functions

CONSTANTS Conn,         \* connection ids
          Roles,        \* "client": AddConnection, "server": AttachConnection
          MaxPush,      \* bound: commands pushed by clients
          NoEntry

ASSUME RolesAssumption == Roles \subseteq {"client", "server"}
ASSUME MaxPushAssumption == MaxPush \in Nat

Interest == {"In", "Out"}

(* ConnectionState; io and proc tell whether the pointers are set, sock
   whether the socket is still valid. *)
Entry == [state : {"Connecting", "Active", "Shutdowned", "Closed"},
          proc : BOOLEAN, io : BOOLEAN, sock : BOOLEAN, ev : SUBSET Interest]

ASSUME NoEntryAssumption == NoEntry \notin Entry

(* The commands that concern the table: "add" (AddConnection or
   AttachConnection), "process" (AttachProcess), "call" (RequestData or
   TaskDone, which call the process), "shutdown" and "remove". *)
Op == {"add", "process", "call", "shutdown", "remove"}
Command == [op : Op, id : Conn]
Cmd(op, c) == [op |-> op, id |-> c]

(* What has happened to a connection, for the properties: made by a client,
   asked to go by a client, lost by the network, failed in a callback, given
   a process while Connecting, connected at once, called without its io, its
   interest in the table and in epoll set apart by a callback. *)
Mark == {"made", "asked", "lost", "failed", "early", "sync", "null", "torn"}

VARIABLES
    tab,        \* connections_
    reg,        \* the events registered with epoll
    link,       \* the network's end: "none", "pending", "up" or "down"
    queue,      \* cmds_
    todo,       \* handle_pending's local list
    pending,    \* the events wait() returned and run() has not handled
    pc,         \* "wait", "cmds" or "events"
    stale,      \* the error_code of the loop is set
    npush,      \* commands pushed by clients
    marks       \* history

vars == <<tab, reg, link, queue, todo, pending, pc, stale, npush, marks>>

TypeOK == /\ tab \in [Conn -> Entry \cup {NoEntry}]
          /\ reg \in [Conn -> SUBSET Interest]
          /\ link \in [Conn -> {"none", "pending", "up", "down"}]
          /\ queue \in Seq(Command) /\ todo \in Seq(Command)
          /\ pending \in [Conn -> SUBSET (Interest \cup {"Bad"})]
          /\ pc \in {"wait", "cmds", "events"}
          /\ stale \in BOOLEAN
          /\ npush \in 0..MaxPush
          /\ marks \in [Conn -> SUBSET Mark]

Init == /\ tab = [c \in Conn |-> NoEntry]
        /\ reg = [c \in Conn |-> {}]
        /\ link = [c \in Conn |-> "none"]
        /\ queue = <<>> /\ todo = <<>>
        /\ pending = [c \in Conn |-> {}]
        /\ pc = "wait" /\ stale = FALSE
        /\ npush = 0
        /\ marks = [c \in Conn |-> {}]

Has(c) == tab[c] # NoEntry

(* Every callback of a process goes through io_context(), whose assertion
   that the process has its io ends the program. *)
Aborted == \E c \in Conn : "null" \in marks[c]

-----------------------------------------------------------------------------
(* Clients and the network. *)

(* A client pushes a command with the handle of a connection: the first one
   makes it, the others need the handle.  Requests are for client processes;
   a finished task calls any process. *)
Push(op, c) ==
    /\ ~Aborted
    /\ npush < MaxPush /\ npush' = npush + 1
    /\ (op = "add") = ("made" \notin marks[c])
    /\ queue' = Append(queue, Cmd(op, c))
    /\ marks' = [marks EXCEPT ![c] = @ \cup (CASE op = "add" -> {"made"}
                                               [] op \in {"shutdown", "remove"} -> {"asked"}
                                               [] OTHER -> {})]
    /\ UNCHANGED <<tab, reg, link, todo, pending, pc, stale>>

(* A handshake ends; a link breaks (refused, reset, both ways closed). *)
LinkUp(c) == /\ ~Aborted /\ link[c] = "pending"
             /\ link' = [link EXCEPT ![c] = "up"]
             /\ UNCHANGED <<tab, reg, queue, todo, pending, pc, stale, npush, marks>>
LinkDown(c) == /\ ~Aborted /\ link[c] \in {"pending", "up"}
               /\ link' = [link EXCEPT ![c] = "down"]
               /\ marks' = [marks EXCEPT ![c] = @ \cup {"lost"}]
               /\ UNCHANGED <<tab, reg, queue, todo, pending, pc, stale, npush>>

-----------------------------------------------------------------------------
(* Pieces of the handlers. *)

Store(c, e) == tab' = [tab EXCEPT ![c] = e]
Register(c, ev) == reg' = [reg EXCEPT ![c] = ev]
Note(c, m) == marks' = [marks EXCEPT ![c] = @ \cup m]

(* Fault: the entry of the closed socket is left to nobody. *)
Abandon_NoRemove(c, state, ev) ==
    /\ Store(c, [state |-> state, proc |-> FALSE, io |-> FALSE, sock |-> FALSE, ev |-> ev])
    /\ Register(c, {})
    /\ link' = [link EXCEPT ![c] = "none"]
    /\ UNCHANGED queue

(* Closing the socket, which takes it out of epoll, with its process and its
   io; the entry stays until the RemoveConnection pushed here. *)
Abandon(c, state, ev) ==
    /\ Store(c, [state |-> state, proc |-> FALSE, io |-> FALSE, sock |-> FALSE, ev |-> ev])
    /\ Register(c, {})
    /\ link' = [link EXCEPT ![c] = "none"]
    /\ queue' = Append(queue, Cmd("remove", c))

(* The interest a callback leaves in the table, `tab`, and in epoll, `ep`.
   enable_writing and enable_readable compute the new events from the table
   and give them to epoll; the table follows only if the error_code they were
   handed is clear.  Out is switched both ways, In only off and only with an
   error: on a full receive buffer.  The two are then torn apart. *)
OutWays(t) == {t \ {"Out"}, t \cup {"Out"}}
AfterCallback(t, r) ==
    {[tab |-> t, ep |-> r]}
        \cup {[tab |-> n, ep |-> p] : n \in OutWays(t), p \in OutWays(t)}
        \cup {[tab |-> n, ep |-> n \ {"In"}] : n \in OutWays(t)}
Torn(x) == IF x.tab = x.ep THEN {} ELSE {"torn"}

-----------------------------------------------------------------------------
(* The worker thread: wait(). *)

(* epoll reports a registered socket: what it is registered for while the
   link is up, error and hang-up when it is down. *)
Report(c) ==
    /\ ~Aborted /\ pc = "wait" /\ pending[c] = {}
    /\ Has(c) /\ tab[c].sock
    /\ \E e \in (SUBSET reg[c]) \cup {{"Bad"}} :
          /\ e # {}
          /\ IF link[c] = "down" THEN e = {"Bad"} ELSE link[c] = "up" /\ e # {"Bad"}
          /\ pending' = [pending EXCEPT ![c] = e]
    /\ UNCHANGED <<tab, reg, link, queue, todo, pc, stale, npush, marks>>

(* wait() returns; without any event it may have timed out, which clears the
   error.  handle_pending takes all commands. *)
WaitReturns ==
    /\ ~Aborted /\ pc = "wait" /\ pc' = "cmds"
    /\ todo' = queue /\ queue' = <<>>
    /\ stale' \in {stale, stale /\ \E c \in Conn : pending[c] # {}}
    /\ UNCHANGED <<tab, reg, link, pending, npush, marks>>

-----------------------------------------------------------------------------
(* The worker thread: commands, in order. *)

Take(op, c) == /\ ~Aborted /\ pc = "cmds" /\ todo # <<>> /\ Head(todo) = Cmd(op, c)
               /\ todo' = Tail(todo)

(* The socket could not be made, set up, added to epoll or connected. *)
AddFails(c) == /\ Take("add", c)
               /\ UNCHANGED <<tab, reg, link, queue, pending, pc, stale, npush, marks>>

NewEntry(state, ev) == [state |-> state, proc |-> FALSE, io |-> TRUE, sock |-> TRUE, ev |-> ev]

(* connectInternal, connected at once ... *)
connectInternal_Now(c) ==
    /\ "client" \in Roles /\ Take("add", c)
    /\ Store(c, NewEntry("Active", {"In"})) /\ Register(c, {"In"})
    /\ link' = [link EXCEPT ![c] = "up"]
    /\ Note(c, {"sync"})
    /\ UNCHANGED <<queue, pending, pc, stale, npush>>

(* ... or EINPROGRESS. *)
connectInternal(c) ==
    /\ "client" \in Roles /\ Take("add", c)
    /\ Store(c, NewEntry("Connecting", {"Out"})) /\ Register(c, {"Out"})
    /\ link' = [link EXCEPT ![c] = "pending"]
    /\ UNCHANGED <<queue, pending, pc, stale, npush, marks>>

(* An accepted socket: nothing but errors until it gets a process. *)
attachConnectionInternal(c) ==
    /\ "server" \in Roles /\ Take("add", c)
    /\ Store(c, NewEntry("Active", {})) /\ Register(c, {})
    /\ link' = [link EXCEPT ![c] = "up"]
    /\ UNCHANGED <<queue, pending, pc, stale, npush, marks>>

(* shutdown, remove from epoll, close, erase; a socket that is closed
   already fails the shutdown and is erased all the same. *)
removeConnectionInternal(c) ==
    /\ Take("remove", c)
    /\ Store(c, NoEntry) /\ Register(c, {})
    /\ link' = [link EXCEPT ![c] = "none"]
    /\ UNCHANGED <<queue, pending, pc, stale, npush, marks>>

shutdown_connection(c) ==
    /\ Take("shutdown", c)
    /\ IF Has(c)
       THEN /\ Store(c, [tab[c] EXCEPT !.state = "Shutdowned"])
            /\ link' = IF tab[c].sock THEN [link EXCEPT ![c] = "down"] ELSE link
       ELSE UNCHANGED <<tab, link>>
    /\ UNCHANGED <<reg, queue, pending, pc, stale, npush, marks>>

Attachable(c) == Has(c) /\ tab[c].state \in {"Active", "Connecting"}

(* addConnectionProcessInternal without a connection in a fit state ... *)
AttachProcessRefused(c) ==
    /\ Take("process", c) /\ ~Attachable(c)
    /\ UNCHANGED <<tab, reg, link, queue, pending, pc, stale, npush, marks>>

WithProcess(c) == [tab[c] EXCEPT !.proc = TRUE, !.ev = (@ \ {"Out"}) \cup {"In"}]
Early(c) == IF tab[c].state = "Connecting" THEN {"early"} ELSE {}

NullCall(c) == IF tab[c].io THEN {} ELSE {"null"}

(* ... of an entry whose socket is closed already: the process is in place
   when modify_tracking_event fails ... *)
AttachProcessClosed(c) ==
    /\ Take("process", c) /\ Attachable(c) /\ ~tab[c].sock
    /\ Store(c, WithProcess(c))
    /\ UNCHANGED <<reg, link, queue, pending, pc, stale, npush, marks>>

(* ... and of an open one, whose on_init_connection succeeds ... *)
AttachProcess(c) ==
    /\ Take("process", c) /\ Attachable(c) /\ tab[c].sock
    /\ \E x \in AfterCallback(WithProcess(c).ev, WithProcess(c).ev) :
          /\ Store(c, [WithProcess(c) EXCEPT !.ev = x.tab])
          /\ Register(c, x.ep)
          /\ Note(c, Early(c) \cup NullCall(c) \cup Torn(x))
    /\ UNCHANGED <<link, queue, pending, pc, stale, npush>>

(* ... or fails: the state is left as it is. *)
AttachProcessFails(c) ==
    /\ Take("process", c) /\ Attachable(c) /\ tab[c].sock
    /\ \E ev \in OutWays(WithProcess(c).ev) : Abandon(c, tab[c].state, ev)
    /\ Note(c, {"failed"} \cup Early(c) \cup NullCall(c))
    /\ UNCHANGED <<pending, pc, stale, npush>>

(* RequestData and TaskDone: the process is called, and an error goes to the
   command. *)
CallProcess(c) ==
    /\ Take("call", c)
    /\ IF Has(c) /\ tab[c].proc
       THEN \E x \in AfterCallback(tab[c].ev, reg[c]) :
                /\ Store(c, [tab[c] EXCEPT !.ev = x.tab])
                /\ Register(c, IF tab[c].sock THEN x.ep ELSE {})
                /\ Note(c, NullCall(c) \cup Torn(x))
       ELSE UNCHANGED <<tab, reg, marks>>
    /\ UNCHANGED <<link, queue, pending, pc, stale, npush>>

CommandsDone == /\ ~Aborted /\ pc = "cmds" /\ todo = <<>>
                /\ pc' = "events"
                /\ UNCHANGED <<tab, reg, link, queue, todo, pending, stale, npush, marks>>

-----------------------------------------------------------------------------
(* The worker thread: Worker::run for each event. *)

Event(c, e) == /\ ~Aborted /\ pc = "events" /\ pending[c] = e /\ e # {}
               /\ pending' = [pending EXCEPT ![c] = {}]

(* The connection was removed after epoll reported it. *)
RunGone(c, e) ==
    /\ Event(c, e) /\ ~Has(c)
    /\ stale' = TRUE
    /\ UNCHANGED <<tab, reg, link, queue, todo, pc, npush, marks>>

(* Error or HangUp.  With an error left over from an earlier event the entry
   is erased at once; the RemoveConnection will then find nothing. *)
handle_events(c, e) ==
    /\ Event(c, e) /\ Has(c) /\ "Bad" \in e
    /\ IF stale
       THEN /\ Store(c, NoEntry) /\ Register(c, {})
            /\ link' = [link EXCEPT ![c] = "none"]
            /\ queue' = Append(queue, Cmd("remove", c))
       ELSE Abandon(c, "Closed", tab[c].ev)
    /\ UNCHANGED <<todo, pc, stale, npush, marks>>

Establishing(c, e) == Has(c) /\ tab[c].state = "Connecting" /\ "Bad" \notin e /\ "Out" \in e

(* The socket is writable but has an error, or was closed by a command since. *)
EstablishFails(c, e) ==
    /\ Event(c, e) /\ Establishing(c, e) /\ (tab[c].sock => link[c] = "down")
    /\ queue' = Append(queue, Cmd("remove", c))
    /\ stale' = ~tab[c].sock
    /\ UNCHANGED <<tab, reg, link, todo, pc, npush, marks>>

(* Fault: the registration changes, events_handled_ does not. *)
Establish_KeepsEvents(c, e) ==
    /\ Event(c, e) /\ Establishing(c, e) /\ tab[c].sock /\ link[c] = "up" /\ ~tab[c].proc
    /\ Store(c, [tab[c] EXCEPT !.state = "Active"]) /\ Register(c, {})
    /\ stale' = FALSE
    /\ UNCHANGED <<link, queue, todo, pc, npush, marks>>

(* Fault: the state is not changed. *)
Establish_KeepsState(c, e) ==
    /\ Event(c, e) /\ Establishing(c, e) /\ tab[c].sock /\ link[c] = "up" /\ ~tab[c].proc
    /\ Store(c, [tab[c] EXCEPT !.ev = {}]) /\ Register(c, {})
    /\ stale' = FALSE
    /\ UNCHANGED <<link, queue, todo, pc, npush, marks>>

(* The connection is established; without a process that is all ... *)
Establish(c, e) ==
    /\ Event(c, e) /\ Establishing(c, e) /\ tab[c].sock /\ link[c] = "up" /\ ~tab[c].proc
    /\ Store(c, [tab[c] EXCEPT !.state = "Active", !.ev = {}]) /\ Register(c, {})
    /\ stale' = FALSE
    /\ UNCHANGED <<link, queue, todo, pc, npush, marks>>

(* ... and with one, on_init_connection is called; only the close that
   follows depends on its error, the rest of the clean-up is always done. *)
EstablishWithProcess(c, e) ==
    /\ Event(c, e) /\ Establishing(c, e) /\ tab[c].sock /\ link[c] = "up" /\ tab[c].proc
    /\ \E fails \in BOOLEAN, x \in AfterCallback({}, {}) :
          /\ stale' = fails
          /\ IF fails
             THEN /\ Abandon(c, "Active", x.tab)
                  /\ Note(c, NullCall(c) \cup {"failed"})
             ELSE /\ Store(c, [state |-> "Active", proc |-> FALSE, io |-> FALSE,
                               sock |-> TRUE, ev |-> x.tab])
                  /\ Register(c, x.ep)
                  /\ Note(c, NullCall(c) \cup Torn(x))
                  /\ queue' = Append(queue, Cmd("remove", c))
                  /\ UNCHANGED link
    /\ UNCHANGED <<todo, pc, npush>>

Ordinary(c, e) == Has(c) /\ "Bad" \notin e /\ ~Establishing(c, e)

(* Fault: an error that says to try again ends the connection. *)
RunProcess_SoftDrops(c, e) ==
    /\ Event(c, e) /\ Ordinary(c, e) /\ tab[c].proc
    /\ \E ev \in OutWays(tab[c].ev) : Abandon(c, tab[c].state, ev)
    /\ UNCHANGED <<todo, pc, stale, npush, marks>>

(* Any other event goes to the process, if there is one: it copes with it ... *)
RunProcess(c, e) ==
    /\ Event(c, e) /\ Ordinary(c, e)
    /\ IF tab[c].proc
       THEN \E x \in AfterCallback(tab[c].ev, reg[c]) :
                /\ Store(c, [tab[c] EXCEPT !.ev = x.tab])
                /\ Register(c, IF tab[c].sock THEN x.ep ELSE {})
                /\ Note(c, NullCall(c) \cup Torn(x))
       ELSE UNCHANGED <<tab, reg, marks>>
    /\ UNCHANGED <<link, queue, todo, pc, stale, npush>>

(* ... or fails, with an error that is none of the soft ones. *)
RunProcessFails(c, e) ==
    /\ Event(c, e) /\ Ordinary(c, e) /\ tab[c].proc
    /\ \E ev \in OutWays(tab[c].ev) : Abandon(c, tab[c].state, ev)
    /\ Note(c, {"failed"} \cup NullCall(c))
    /\ UNCHANGED <<todo, pc, stale, npush>>

EventsDone == /\ ~Aborted /\ pc = "events" /\ \A c \in Conn : pending[c] = {}
              /\ pc' = "wait"
              /\ UNCHANGED <<tab, reg, link, queue, todo, pending, stale, npush, marks>>

-----------------------------------------------------------------------------
RunEvent(c, e) == \/ RunGone(c, e) \/ handle_events(c, e)
                  \/ EstablishFails(c, e) \/ Establish(c, e) \/ EstablishWithProcess(c, e)
                  \/ RunProcess(c, e) \/ RunProcessFails(c, e)

Execute(c) == \/ AddFails(c) \/ connectInternal_Now(c) \/ connectInternal(c)
              \/ attachConnectionInternal(c) \/ removeConnectionInternal(c)
              \/ shutdown_connection(c)
              \/ AttachProcessRefused(c) \/ AttachProcessClosed(c)
              \/ AttachProcess(c) \/ AttachProcessFails(c)
              \/ CallProcess(c)

Worker == \/ WaitReturns \/ CommandsDone \/ EventsDone
          \/ \E c \in Conn : \/ Report(c) \/ Execute(c)
                             \/ \E e \in SUBSET (Interest \cup {"Bad"}) : RunEvent(c, e)

Network(c) == LinkUp(c) \/ LinkDown(c)

Next == \/ Worker
        \/ \E c \in Conn : Network(c) \/ \E op \in Op : Push(op, c)
        \/ Aborted /\ UNCHANGED vars

(* The thread runs, and epoll does not pass over a socket for ever. *)
Fairness == /\ WF_vars(WaitReturns \/ CommandsDone \/ EventsDone)
            /\ \A c \in Conn : /\ WF_vars(Execute(c))
                               /\ WF_vars(\E e \in SUBSET (Interest \cup {"Bad"}) : RunEvent(c, e))
                               /\ SF_vars(Report(c))

Spec == Init /\ [][Next]_vars
FairSpec == Spec /\ Fairness

-----------------------------------------------------------------------------
(* The commands that were pushed and not executed yet. *)
Unexecuted == Range(queue) \cup Range(todo)
Queued(cmd) == cmd \in Unexecuted

(* epoll and the table agree on what a connection waits for, through the
   steps of its life, until a callback that met an error sets them apart:
   enable_writing and enable_readable look at the table only and would
   otherwise skip a change that is needed.  A closed socket is registered for
   nothing. *)
InterestAgrees ==
    \A c \in Conn : IF Has(c) /\ tab[c].sock
                    THEN reg[c] = tab[c].ev \/ "torn" \in marks[c]
                    ELSE reg[c] = {}

(* An entry whose socket was closed is not forgotten: the command that erases
   it is on its way. *)
ZombieQueued == \A c \in Conn : Has(c) /\ ~tab[c].sock => Queued(Cmd("remove", c))

(* The worker drops a connection only when a client asked for it, the network
   lost it or its process failed; or when it got its process while it was
   still connecting. *)
DroppedForAReason ==
    \A c \in Conn : Queued(Cmd("remove", c))
                        => marks[c] \cap {"asked", "lost", "failed", "early"} # {}

(* A connection without a process is not registered for In, which epoll would
   report for ever with nobody to read; but one that connected at once is. *)
NoIdleIn == \A c \in Conn : "In" \in reg[c] => tab[c].proc \/ "sync" \in marks[c]

(* An entry whose socket was closed is erased in the end. *)
ZombieGone == \A c \in Conn : (Has(c) /\ ~tab[c].sock) ~> (~Has(c) \/ Aborted)

(* A handshake that succeeds makes the connection Active, unless a process
   was attached before. *)
Established == \A c \in Conn :
    (Has(c) /\ tab[c].state = "Connecting" /\ link[c] = "up")
        ~> (~Has(c) \/ tab[c].state # "Connecting" \/ "early" \in marks[c] \/ Aborted)

=============================================================================
