------------------------------ MODULE Requests ------------------------------
(***************************************************************************)
(* A client's requests, from the call to the answer.  A caller connects,   *)
(* attaches a requestable process and makes requests one after another,    *)
(* waiting for each with a time-out.  Every call becomes a command in the  *)
(* mailbox of the client's worker, with a promise that its execution sets. *)
(* The worker hands a request to the process of the connection, which      *)
(* queues it, sends one at a time and completes it with the answer.  On    *)
(* the server, a process works each request off in a task and answers when *)
(* the worker is told that the task is done.                               *)
(*                                                                         *)
(* A command or an event is one step of its worker (WorkerLoop shows how   *)
(* they are fetched, WorkerTable what happens to the table, SendPath how   *)
(* bytes are written).  A write may take some messages and a part of the   *)
(* next, be refused with ENOBUFS, or block, which empties send_buffer_.    *)
(* The processes are those of the library's test: a client's on_write      *)
(* sends the next request, its on_read takes an answer.                    *)
(***************************************************************************)
EXTENDS Naturals, Sequences, SequencesExt, FiniteSets

CONSTANTS MaxRequests,  \* how many requests the caller makes
          MaxOnWay,     \* bound: messages on their way at a write event
          TaskModes     \* how the server's tasks run: "Thread", "Sync"

ASSUME RequestsAssumption ==
    /\ MaxRequests \in Nat \ {0} /\ MaxOnWay \in Nat
    /\ TaskModes \subseteq {"Thread", "Sync"}

Requests == 1..MaxRequests
Garbage == MaxRequests + 1                    \* what is read behind a cut message
Messages == Requests \union {Garbage}
Nobody == 0                                   \* active_request_ is null
Connection == 0                               \* the promise of AddConnection

VARIABLES pc,           \* where the caller is
          mail,         \* cmds_ of the client's worker
          conn,         \* the connection in the client's table
          proc,         \* whether it has a process
          link,         \* the TCP connection, as both ends see it
          c,            \* the process and the promises, see Client
          toServer,     \* requests written to the socket
          toClient,     \* answers written to the socket
          server,       \* the server's process, see Server
          smail,        \* cmds_ of the server's worker
          lost          \* requests that died with the client's process

vars == <<pc, mail, conn, proc, link, c, toServer, toClient, server, smail, lost>>

(* requests_, active_request_, the messages in send_buffer_, whether a     *)
(* part of the first of them is written, whether the rest of a message was *)
(* dropped, which garbles all that follow it, the Out interest ("deaf" is  *)
(* Out in the table but not in epoll), the error of the call of on_write   *)
(* under way and what it has written, the promises ("unset" until          *)
(* set_error) and whose answer a request holds.  For the properties:       *)
(* whether bytes were ever dropped, the requests whose command has         *)
(* reported an error though the process has them, and whether a promise    *)
(* was set twice, which ends the program.                                  *)
Client == [queue |-> <<>>, active |-> Nobody, buffer |-> <<>>, begun |-> FALSE,
           cut |-> FALSE, out |-> "off", err |-> "none", written |-> <<>>,
           promise |-> [x \in Requests \union {Connection} |-> "unset"],
           answer |-> [r \in Requests |-> Nobody],
           dropped |-> FALSE, orphans |-> {}, aborted |-> FALSE]

(* The mode, the state of task_ and the request it works on, the state of  *)
(* a task it has replaced and that is being joined, whether TaskDone ever  *)
(* met a task that was not ready, and whether an answer was dropped.       *)
Server == [alive |-> FALSE, mode |-> "Thread", task |-> "none", request |-> Nobody,
           old |-> "none", early |-> FALSE, unsent |-> FALSE]

---------------------------------------------------------------------------
(* Commands and promises.                                                  *)

(* A promise can be set once; the second time throws in a noexcept function. *)
set_error(p, x, err) ==
    IF p.promise[x] = "unset" THEN [p EXCEPT !.promise[x] = err]
    ELSE [p EXCEPT !.aborted = TRUE]

ready(p, x) == p.promise[x] # "unset"

(* A command is its kind and, for a request, which. *)
push_command(kind, r) == mail' = Append(mail, <<kind, r>>)

(* The command at the head of the mailbox is executed. *)
Executes(kind, r) == mail # <<>> /\ Head(mail) = <<kind, r>> /\ mail' = Tail(mail)

---------------------------------------------------------------------------
(* The requestable process.                                                *)

is_active_request(p) == p.active # Nobody /\ ~ready(p, p.active)

complete_current_request(p, err) ==
    [(IF p.active = Nobody THEN p ELSE set_error(p, p.active, err))
       EXCEPT !.active = Nobody]

at_fatal_error(p) ==
    [complete_current_request(p, "error") EXCEPT !.buffer = <<>>, !.begun = FALSE, !.err = "none"]

(* A write of send_buffer_.  enable_writable(true) does nothing while the   *)
(* table has Out.                                                          *)
Armed(p) == IF p.out = "off" THEN "on" ELSE p.out

(* What the server will read of the message x. *)
AsRead(p, x) == IF p.cut THEN Garbage ELSE x

(* The socket takes n messages, and of the next one a part if it is begun. *)
Takes(p, n, begun) ==
    LET rest == SubSeq(p.buffer, n + 1, Len(p.buffer))
    IN  [p EXCEPT !.buffer = rest, !.begun = begun, !.err = "none",
                  !.out = IF rest = <<>> THEN "off" ELSE Armed(p),
                  !.written = @ \o [i \in 1..n |-> AsRead(p, p.buffer[i])]]

(* EAGAIN: consume(-1) empties the buffer, and the error is cleared. *)
Blocks(p) ==
    [p EXCEPT !.buffer = <<>>, !.begun = FALSE, !.cut = @ \/ p.begun, !.err = "none",
              !.out = Armed(p), !.dropped = TRUE]

(* ENOBUFS: the buffer stays, epoll hears no Out any more. *)
Refused(p) == [p EXCEPT !.err = "nobufs", !.out = "deaf"]

(* Any other error: the buffer is emptied. *)
Breaks(p) == [p EXCEPT !.buffer = <<>>, !.begun = FALSE, !.err = "hard", !.out = "deaf"]

(* The outcomes of __send_internal__ on a link that is up or not. *)
SendInternal(p, up) ==
    IF ~up THEN {Breaks(p)}
    ELSE {Takes(p, n, n < Len(p.buffer)) : n \in 0..Len(p.buffer)}
         \union {Takes(p, n, FALSE) : n \in 1..Len(p.buffer)}
         \union {Blocks(p), Refused(p)}

send_rest(p, up) == IF p.buffer = <<>> THEN {p} ELSE SendInternal(p, up)

send(p, up) == SendInternal([p EXCEPT !.buffer = Append(@, p.active)], up)

handle_sending_error(p) ==
    IF p.err = "hard" THEN at_fatal_error(p) ELSE [p EXCEPT !.err = "none"]

(* next_request finds one, be it the active one again if it is ready. *)
HasNext(p) == ~is_active_request(p) /\ (p.queue # <<>> \/ p.active # Nobody)

next_request(p) ==
    IF p.queue = <<>> THEN p
    ELSE [p EXCEPT !.active = Head(p.queue), !.queue = Tail(p.queue)]

(* on_write after send_rest: the error of a refused write is left standing *)
(* unless another request is sent.                                         *)
SendNext(p, up) ==
    IF p.err = "hard" THEN {at_fatal_error(p)}
    ELSE IF HasNext(p) THEN {handle_sending_error(q) : q \in send(next_request(p), up)}
    ELSE {p}

on_write(p, up) ==
    UNION {SendNext(q, up) : q \in send_rest([p EXCEPT !.err = "none"], up)}

on_write_Twice(p, up) == UNION {on_write(q, up) : q \in on_write(p, up)}

(* push_request calls on_push_request, and unless that has failed the      *)
(* command calls it again.                                                 *)
push_request(p, r, up) ==
    UNION {IF q.err = "none" THEN on_write(q, up) ELSE {q} :
              q \in on_write([p EXCEPT !.queue = Append(@, r)], up)}

(* fault: the answer completes the request and nothing starts the next *)
on_read_NoNext(p, a, up) ==
    IF a = Nobody THEN {at_fatal_error(p)}
    ELSE {complete_current_request([p EXCEPT !.answer[p.active] = a], "ok")}

(* Takes an answer for the active request, or the news that the link is    *)
(* broken (Nobody), and goes on with on_write.                             *)
on_read(p, a, up) ==
    IF a = Nobody THEN on_write(at_fatal_error(p), up)
    ELSE on_write_Twice(complete_current_request([p EXCEPT !.answer[p.active] = a], "ok"), up)

(* What the process wrote reaches the server. *)
Becomes(p) ==
    /\ c' = [p EXCEPT !.written = <<>>, !.err = "none"]
    /\ toServer' = toServer \o p.written

(* The process and its requests are destroyed; nobody sets their promises. *)
ResetProcess(p) ==
    /\ c' = [p EXCEPT !.queue = <<>>, !.active = Nobody, !.buffer = <<>>, !.begun = FALSE,
                      !.err = "none", !.written = <<>>]
    /\ lost' = lost \union (Range(p.queue) \union ({p.active} \ {Nobody}))
    /\ proc' = FALSE

---------------------------------------------------------------------------
Init ==
    /\ pc = <<"start", 0>> /\ mail = <<>> /\ conn = "none" /\ proc = FALSE
    /\ link = "none" /\ c = Client
    /\ toServer = <<>> /\ toClient = <<>> /\ smail = <<>> /\ lost = {}
    /\ server \in {[Server EXCEPT !.mode = m] : m \in TaskModes}

---------------------------------------------------------------------------
(* The caller.                                                             *)

CallerKeeps == UNCHANGED <<conn, proc, link, c, toServer, toClient, server, smail, lost>>

connect ==
    /\ pc = <<"start", 0>>
    /\ pc' = <<"connecting", 0>> /\ push_command("AddConnection", 0) /\ CallerKeeps

(* The wait ends when the promise is set or after the time-out.  A command *)
(* that has been executed counts as successful whatever its error was;     *)
(* otherwise error() is asked, and by then the command may be done.        *)
connect_Returns ==
    /\ pc[1] \in {"connecting", "late"}
    /\ pc' = CASE pc[1] = "connecting" /\ ready(c, Connection) -> <<"handle", 0>>
               [] pc[1] = "connecting" /\ ~ready(c, Connection) -> <<"late", 0>>
               [] OTHER -> <<"no handle", 0>>
    /\ UNCHANGED mail /\ CallerKeeps

add_process ==
    /\ pc = <<"handle", 0>>
    /\ pc' = <<"calls", 1>> /\ push_command("AttachProcess", 0) /\ CallerKeeps

request ==
    /\ pc[1] = "calls" /\ pc[2] \in Requests
    /\ pc' = <<"waits", pc[2]>> /\ push_command("RequestData", pc[2]) /\ CallerKeeps

(* fault: a wait that has timed out gives the request on its way up *)
wait_ready_Cancels ==
    /\ pc[1] = "waits"
    /\ pc' = <<"calls", pc[2] + 1>>
    /\ c' = IF c.active = pc[2] THEN complete_current_request(c, "error") ELSE c
    /\ UNCHANGED <<mail, conn, proc, link, toServer, toClient, server, smail, lost>>

(* wait_ready: answered or not, the caller goes on. *)
wait_ready ==
    /\ pc[1] = "waits"
    /\ pc' = <<"calls", pc[2] + 1>> /\ UNCHANGED mail /\ CallerKeeps

(* A RequestStop through the handle, before the connection is closed. *)
request_stop ==
    /\ pc[1] = "calls"
    /\ pc' = <<"stopping", 0>> /\ push_command("RequestStop", 0) /\ CallerKeeps

disconnect ==
    /\ pc[1] = "stopping"
    /\ pc' = <<"end", 0>> /\ push_command("RemoveConnection", 0) /\ CallerKeeps

---------------------------------------------------------------------------
(* The client's worker.                                                    *)

(* A failed address or socket sets the error; make_connection that fails   *)
(* sets nothing; a connect that fails at once is reported as a success.    *)
AddConnection(outcome) ==
    /\ Executes("AddConnection", 0)
    /\ conn' = IF outcome \in {"active", "connecting"} THEN outcome ELSE "none"
    /\ link' = IF outcome \in {"active", "connecting"} THEN "up" ELSE "none"
    /\ server' = [server EXCEPT !.alive = (link' = "up")]
    /\ c' = CASE outcome = "silent" -> c
              [] outcome = "no socket" -> set_error(c, Connection, "error")
              [] OTHER -> set_error(c, Connection, "ok")
    /\ UNCHANGED <<pc, proc, toServer, toClient, smail, lost>>

AttachProcess ==
    /\ Executes("AttachProcess", 0)
    /\ IF conn \in {"active", "connecting"}
       THEN proc' = TRUE
       ELSE UNCHANGED proc
    /\ UNCHANGED <<pc, conn, link, c, toServer, toClient, server, smail, lost>>

(* An error of push_request is the command's, which sets its promise and  *)
(* leaves the request where it is.                                         *)
Emplaced(r) ==
    IF conn = "none" \/ ~proc THEN {set_error(c, r, "error")}
    ELSE {IF p.err = "none" THEN p
          ELSE [set_error(p, r, "error") EXCEPT !.orphans = @ \union {r}] :
             p \in push_request(c, r, link = "up")}

(* emplace_request_to_process: no connection and no process are errors. *)
RequestData(r) ==
    /\ Executes("RequestData", r)
    /\ \E p \in Emplaced(r) : Becomes(p)
    /\ UNCHANGED <<pc, conn, proc, link, toClient, server, smail, lost>>

(* stop_process asks the task of the process to stop: a requestable        *)
(* process has none, and its requests go on.                               *)
RequestStop ==
    /\ Executes("RequestStop", 0)
    /\ UNCHANGED <<pc, conn, proc, link, c, toServer, toClient, server, smail, lost>>

(* Asked for by the caller or by an event: shuts the socket down and takes *)
(* the connection and its process from the table.                          *)
RemoveConnection ==
    /\ Executes("RemoveConnection", 0)
    /\ ResetProcess(c)
    /\ conn' = "none" /\ link' = IF conn = "none" THEN link ELSE "down"
    /\ UNCHANGED <<pc, toServer, toClient, server, smail>>

(* The Out event of a connection that was connecting.  A process that was  *)
(* attached in the meantime is destroyed, its connection removed.          *)
Established ==
    /\ conn = "connecting" /\ link = "up"
    /\ proc => c.out = "on"
    /\ conn' = "active"
    /\ IF proc THEN ResetProcess(c) /\ push_command("RemoveConnection", 0)
       ELSE UNCHANGED <<c, lost, proc, mail>>
    /\ UNCHANGED <<pc, link, toServer, toClient, server, smail>>

(* A process attached too early serves a connection that never leaves      *)
(* Connecting, as long as its writes are taken at once.                    *)
Serves == proc /\ conn \in {"active", "connecting"}

(* What a read finds: an answer or, when the link is broken, an error. *)
Readable(a) == \/ toClient # <<>> /\ a = Head(toClient) /\ toClient' = Tail(toClient)
               \/ toClient = <<>> /\ link = "down" /\ a = Nobody /\ UNCHANGED toClient

ReadEvent(a) ==
    /\ Serves /\ is_active_request(c) /\ Readable(a)
    /\ \E p \in on_read(c, a, link = "up") : Becomes(p)
    /\ UNCHANGED <<pc, mail, conn, proc, link, server, smail, lost>>

WriteEvent ==
    /\ ~c.aborted /\ proc /\ conn = "active" /\ c.out = "on" /\ link = "up"
    /\ Len(c.buffer) + Len(toServer) + Len(smail) + Len(toClient) <= MaxOnWay
    /\ \E p \in on_write(c, TRUE) : Becomes(p)
    /\ UNCHANGED <<pc, mail, conn, proc, link, toClient, server, smail, lost>>

(* CanReadButHangUp has the process read first; then, and with Error and   *)
(* HangUp, the socket is closed, the process destroyed and the connection  *)
(* removed.                                                                *)
HangUp(a) ==
    /\ conn \in {"active", "connecting"} /\ link = "down"
    /\ \/ /\ proc /\ is_active_request(c) /\ Readable(a)
          /\ \E p \in on_read(c, a, FALSE) : ResetProcess(p)
       \/ a = Nobody /\ ResetProcess(c) /\ UNCHANGED toClient
    /\ conn' = "closed" /\ push_command("RemoveConnection", 0)
    /\ UNCHANGED <<pc, link, toServer, server, smail>>

---------------------------------------------------------------------------
(* The server's process and its task.                                      *)

ServerKeeps == UNCHANGED <<pc, mail, conn, proc, link, c, lost>>

Joined == server.old \in {"none", "done"}

(* An answer to the request r is written, unless the write blocks or fails. *)
Answers(r, written) ==
    toClient' = IF link = "up" /\ written THEN Append(toClient, r) ELSE toClient

(* emplace_task: the new thread starts, then the worker joins the one of   *)
(* the task before.  A Sync task runs on this thread when its result is    *)
(* asked for, its function sends the answer and no callback is called (the *)
(* result itself is lost: the branch of get_result_timeout that runs the   *)
(* task returns nullptr).                                                  *)
emplace_task(written) ==
    /\ server.alive /\ Joined /\ link = "up" /\ toServer # <<>>
    /\ toServer' = Tail(toServer)
    /\ IF server.mode = "Sync"
       THEN /\ server' = [server EXCEPT !.request = Head(toServer), !.old = server.task,
                                        !.task = "done", !.unsent = @ \/ ~written]
            /\ Answers(Head(toServer), written)
       ELSE /\ server' = [server EXCEPT !.request = Head(toServer), !.old = server.task,
                                        !.task = "running"]
            /\ UNCHANGED toClient
    /\ UNCHANGED smail /\ ServerKeeps

(* fault: the callback runs before the result is there *)
TaskReturns_CallsFirst(t) ==
    /\ server[t] = "running"
    /\ server' = [server EXCEPT ![t] = "late"]
    /\ smail' = Append(smail, "TaskDone")
    /\ UNCHANGED <<toServer, toClient>> /\ ServerKeeps

(* The function of a task returns, its promise is set ... *)
TaskReturns(t) ==
    /\ server[t] = "running"
    /\ server' = [server EXCEPT ![t] = "set"]
    /\ UNCHANGED <<toServer, toClient, smail>> /\ ServerKeeps

(* fault: the task was emplaced without a callback *)
TaskCallback_None(t) ==
    /\ server[t] = "set"
    /\ server' = [server EXCEPT ![t] = "done"]
    /\ UNCHANGED <<toServer, toClient, smail>> /\ ServerKeeps

(* ... and then the callback tells the worker. *)
TaskCallback(t) ==
    /\ server[t] = "set"
    /\ server' = [server EXCEPT ![t] = "done"]
    /\ smail' = Append(smail, "TaskDone")
    /\ UNCHANGED <<toServer, toClient>> /\ ServerKeeps

TaskReady == server.task \in {"set", "done"}

(* The command TaskDone: on_task_done fetches the result and answers. *)
TaskDone(written) ==
    /\ smail # <<>> /\ Joined
    /\ smail' = Tail(smail)
    /\ IF server.alive /\ server.task # "none"
       THEN /\ server' = [server EXCEPT !.early = @ \/ ~TaskReady, !.unsent = @ \/ ~written]
            /\ Answers(server.request, written)
       ELSE UNCHANGED <<server, toClient>>
    /\ UNCHANGED toServer /\ ServerKeeps

(* The end of the connection destroys the process, which joins its task. *)
ServerHangUp ==
    /\ server.alive /\ Joined /\ link = "down" /\ server.task \in {"none", "done"}
    /\ server' = [server EXCEPT !.alive = FALSE, !.task = "none"]
    /\ toServer' = <<>>
    /\ UNCHANGED <<toClient, smail>> /\ ServerKeeps

(* The network fails, or the peer goes away. *)
LinkBreaks ==
    /\ link = "up" /\ link' = "down" /\ toClient' \in {toClient, <<>>}
    /\ UNCHANGED <<pc, mail, conn, proc, c, toServer, server, smail, lost>>

---------------------------------------------------------------------------
Outcomes == {"active", "connecting", "no socket", "silent", "unreachable"}

Caller ==
    /\ ~c.aborted
    /\ connect \/ connect_Returns \/ add_process \/ request \/ wait_ready
       \/ request_stop \/ disconnect

Worker ==
    /\ ~c.aborted
    /\ \/ AttachProcess \/ RequestStop \/ RemoveConnection \/ Established
       \/ \E o \in Outcomes : AddConnection(o)
       \/ \E r \in Requests : RequestData(r)
       \/ \E a \in Messages \union {Nobody} : ReadEvent(a) \/ HangUp(a)

ServerWorker == \/ \E written \in BOOLEAN : emplace_task(written) \/ TaskDone(written)
                \/ ServerHangUp

Task == \E t \in {"task", "old"} : TaskReturns(t) \/ TaskCallback(t)

(* Nothing is left to do, or the program has ended. *)
Idle == /\ (mail = <<>> /\ toServer = <<>> /\ smail = <<>>) \/ c.aborted
        /\ UNCHANGED vars

Next == Caller \/ Worker \/ WriteEvent \/ ServerWorker \/ Task \/ LinkBreaks \/ Idle

Spec == Init /\ [][Next]_vars

(* The workers serve their mailboxes and the ready descriptors, a write    *)
(* that takes a part of a message is followed by one that does more, and   *)
(* tasks return.                                                           *)
FairSpec ==
    /\ Spec
    /\ WF_vars(Worker) /\ WF_vars(WriteEvent) /\ WF_vars(ServerWorker)
    /\ WF_vars(Task)

---------------------------------------------------------------------------
(* What must hold.                                                         *)

Mailed(r) == <<"RequestData", r>> \in Range(mail)

(* A request that succeeded holds the answer to it and not to an earlier   *)
(* one: next_request keeps one request on its way, a caller that has given *)
(* up waiting leaves its request where it is.  And no promise is set by    *)
(* two of the answer, the fatal error and the failed command.  It holds as *)
(* long as no command reports an error for a request that stays queued.    *)
OwnAnswer ==
    c.orphans = {} => /\ \A r \in Requests : c.promise[r] = "ok" => c.answer[r] = r
                      /\ ~c.aborted

(* While the process lives, a request it was given is queued or active     *)
(* until its promise is set, whatever happens to the writes; and, while    *)
(* commands tell the truth, requests queue up only behind one that is on   *)
(* its way, so the end of each starts the next.                            *)
NotForgotten ==
    /\ \A r \in Requests : ready(c, r) \/ Mailed(r) \/ r \in lost \/ pc[2] < r
                             \/ r = c.active \/ r \in Range(c.queue) \/ pc = <<"calls", r>>
                             \/ pc[1] \in {"stopping", "end"}
    /\ c.orphans = {} /\ Serves /\ link = "up" /\ c.queue # <<>> => is_active_request(c)

(* What the assertion in TaskDone demands: on_task_done is called when the *)
(* result of the task is there.  Two requests on their way at once break   *)
(* it, which takes a command that has reported an error for one of them.   *)
TaskDoneReady == c.orphans = {} => ~server.early

(* What a write that did not go through leaves behind: bytes dropped at    *)
(* either end, or kept where no event will ask for them again.             *)
Stuck == \/ c.dropped \/ server.unsent
         \/ c.buffer # <<>> /\ c.out = "deaf"

(* Every request the worker has been given ends with an answer or an       *)
(* error, unless its connection ends and takes the process along, a write  *)
(* has blocked or was refused for good, or the program has ended.          *)
RequestEnds ==
    \A r \in Requests : Mailed(r) ~> (ready(c, r) \/ r \in lost \/ Stuck \/ c.aborted)
=============================================================================
