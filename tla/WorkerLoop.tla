----------------------------- MODULE WorkerLoop -----------------------------
(***************************************************************************)
(* The mailbox of network::AbstractWorker and the thread that serves it:   *)
(* push_command(s), command_worker and wake_event on the side of the       *)
(* clients, __thread_launch__ with wait, handle_worker_commands,           *)
(* handle_pending and the event handlers on the side of the worker, and    *)
(* the destructor that stops and joins it.  A lock_guard block is one      *)
(* step; what follows the unlock is another.  Commands are identities: what*)
(* executing one does is in module WorkerTable.                            *)
(***************************************************************************)
EXTENDS Naturals, Sequences

CONSTANTS Client,       \* the threads that push commands
          Self,         \* the worker thread as a pusher of commands
          MaxPush       \* bound: commands pushed by one thread

ASSUME ClientAssumption == Self \notin Client
ASSUME MaxPushAssumption == MaxPush \in Nat

Pusher == Client \cup {Self}
Command == Pusher \X (1..MaxPush)

VARIABLES
    cmds,       \* cmds_: the queue of commands, under m_
    wcmds,      \* number of Stops in w_cmds_, under m_
    efd,        \* the eventfd of the multiplexor is readable
    stopReq,    \* the stop state of thread_
    pc,         \* where the worker thread is
    seen,       \* the eventfd is among the events wait() is looking at
    batch,      \* handle_pending's local list
    cpc,        \* where each client is: "idle" or about to "wake"
    owner,      \* where the destructor ~Worker is
    npushed,    \* how many commands each thread has pushed
    log,        \* history: the commands in the order of their push
    done        \* history: the commands in the order of their execution

mailbox == <<cmds, wcmds, npushed, log>>
vars == <<cmds, wcmds, efd, stopReq, pc, seen, batch, cpc, owner, npushed, log, done>>

WorkerPC == {"loop", "wait", "clear", "wcmds", "check", "drain", "exec", "run", "end"}

TypeOK ==
    /\ cmds \in Seq(Command) /\ batch \in Seq(Command)
    /\ log \in Seq(Command) /\ done \in Seq(Command)
    /\ wcmds \in Nat
    /\ efd \in BOOLEAN /\ stopReq \in BOOLEAN /\ seen \in BOOLEAN
    /\ pc \in WorkerPC
    /\ cpc \in [Client -> {"idle", "wake"}]
    /\ owner \in {"alive", "wake", "join", "joined"}
    /\ npushed \in [Pusher -> 0..MaxPush]

Init ==
    /\ cmds = <<>> /\ batch = <<>> /\ log = <<>> /\ done = <<>>
    /\ wcmds = 0
    /\ efd = FALSE /\ stopReq = FALSE /\ seen = FALSE
    /\ pc = "loop"
    /\ cpc = [c \in Client |-> "idle"]
    /\ owner = "alive"
    /\ npushed = [p \in Pusher |-> 0]

-----------------------------------------------------------------------------
(* The clients. *)

(* `n` commands of thread p enter the queue in one critical section. *)
Enqueue(p, n) ==
    LET new == [i \in 1..n |-> <<p, npushed[p] + i>>]
    IN  /\ npushed[p] + n <= MaxPush
        /\ cmds' = cmds \o new
        /\ log' = log \o new
        /\ npushed' = [npushed EXCEPT ![p] = @ + n]

(* Fault: the push is not followed by a wakeup. *)
push_command_NoWake(c) == /\ cpc[c] = "idle" /\ owner # "joined"
                          /\ Enqueue(c, 1)
                          /\ UNCHANGED <<wcmds, efd, stopReq, pc, seen, batch, cpc, owner, done>>

push_command(c) == /\ cpc[c] = "idle" /\ owner # "joined"
                   /\ Enqueue(c, 1)
                   /\ cpc' = [cpc EXCEPT ![c] = "wake"]
                   /\ UNCHANGED <<wcmds, efd, stopReq, pc, seen, batch, owner, done>>

push_commands(c) == /\ cpc[c] = "idle" /\ owner # "joined"
                    /\ Enqueue(c, 2)
                    /\ cpc' = [cpc EXCEPT ![c] = "wake"]
                    /\ UNCHANGED <<wcmds, efd, stopReq, pc, seen, batch, owner, done>>

(* ThreadPool::stop, by any client. *)
MaxStops == 2               \* bound: Stops waiting in w_cmds_
command_worker(c) == /\ cpc[c] = "idle" /\ owner # "joined"
                     /\ wcmds < MaxStops
                     /\ wcmds' = wcmds + 1
                     /\ cpc' = [cpc EXCEPT ![c] = "wake"]
                     /\ UNCHANGED <<cmds, npushed, log, efd, stopReq, pc, seen, batch, owner, done>>

wake_event(c) == /\ cpc[c] = "wake"
                 /\ efd' = TRUE
                 /\ cpc' = [cpc EXCEPT ![c] = "idle"]
                 /\ UNCHANGED <<mailbox, stopReq, pc, seen, batch, owner, done>>

(* Fault: ~Worker queues Stop behind the worker's back. *)
OwnerStop_NoWake == /\ owner = "alive"
                    /\ wcmds' = wcmds + 1
                    /\ owner' = "join"
                    /\ UNCHANGED <<cmds, npushed, log, efd, stopReq, pc, seen, batch, cpc, done>>

(* ~Worker: command_worker(Stop) in two steps, then join. *)
OwnerStop == /\ owner = "alive"
             /\ wcmds' = wcmds + 1
             /\ owner' = "wake"
             /\ UNCHANGED <<cmds, npushed, log, efd, stopReq, pc, seen, batch, cpc, done>>
OwnerWake == /\ owner = "wake"
             /\ efd' = TRUE
             /\ owner' = "join"
             /\ UNCHANGED <<mailbox, stopReq, pc, seen, batch, cpc, done>>
OwnerJoin == /\ owner = "join" /\ pc = "end"
             /\ owner' = "joined"
             /\ UNCHANGED <<mailbox, efd, stopReq, pc, seen, batch, cpc, done>>

-----------------------------------------------------------------------------
(* The worker thread. *)

LoopTest == /\ pc = "loop"
            /\ pc' = IF stopReq THEN "end" ELSE "wait"
            /\ UNCHANGED <<mailbox, efd, stopReq, seen, batch, cpc, owner, done>>

(* epoll_wait returns because the eventfd is readable ... *)
WaitInterrupted == /\ pc = "wait" /\ efd
                   /\ seen' = TRUE
                   /\ pc' = "clear"
                   /\ UNCHANGED <<mailbox, efd, stopReq, batch, cpc, owner, done>>

(* ... or after 3 s, or with socket events that fill the array of events. *)
WaitOther == /\ pc = "wait"
             /\ seen' = FALSE
             /\ pc' = "clear"
             /\ UNCHANGED <<mailbox, efd, stopReq, batch, cpc, owner, done>>

(* wait() reads the eventfd to zero when it was reported. *)
ClearEventfd == /\ pc = "clear"
                /\ efd' = (efd /\ ~seen)
                /\ pc' = "wcmds"
                /\ UNCHANGED <<mailbox, stopReq, seen, batch, cpc, owner, done>>

(* One worker command per turn.  stop() holds m_ throughout: it asks every
   process to stop, requests the stop of the thread and wakes it. *)
handle_worker_commands ==
    /\ pc = "wcmds"
    /\ pc' = "check"
    /\ IF wcmds = 0 THEN UNCHANGED <<wcmds, stopReq, efd>>
       ELSE wcmds' = wcmds - 1 /\ stopReq' = TRUE /\ efd' = TRUE
    /\ UNCHANGED <<cmds, npushed, log, seen, batch, cpc, owner, done>>

CheckStop == /\ pc = "check"
             /\ pc' = IF stopReq THEN "end" ELSE "drain"
             /\ UNCHANGED <<mailbox, efd, stopReq, seen, batch, cpc, owner, done>>

(* Fault: the newest command is taken. *)
extract_command_Newest ==
    /\ pc = "drain"
    /\ IF cmds = <<>> THEN pc' = "exec" /\ UNCHANGED <<cmds, batch>>
       ELSE /\ batch' = Append(batch, cmds[Len(cmds)])
            /\ cmds' = SubSeq(cmds, 1, Len(cmds) - 1)
            /\ UNCHANGED pc
    /\ UNCHANGED <<wcmds, npushed, log, efd, stopReq, seen, cpc, owner, done>>

(* handle_pending takes one command per critical section until there is
   none ... *)
extract_command ==
    /\ pc = "drain"
    /\ IF cmds = <<>> THEN pc' = "exec" /\ UNCHANGED <<cmds, batch>>
       ELSE batch' = Append(batch, Head(cmds)) /\ cmds' = Tail(cmds) /\ UNCHANGED pc
    /\ UNCHANGED <<wcmds, npushed, log, efd, stopReq, seen, cpc, owner, done>>

(* The worker may push a RemoveConnection to itself and wake itself. *)
SelfPush == \/ UNCHANGED <<cmds, npushed, log, efd>>
            \/ Enqueue(Self, 1) /\ efd' = TRUE

(* ... and then executes what it took. *)
Execute == /\ pc = "exec" /\ batch # <<>>
           /\ done' = Append(done, Head(batch))
           /\ batch' = Tail(batch)
           /\ SelfPush
           /\ UNCHANGED <<wcmds, stopReq, pc, seen, cpc, owner>>
ExecuteEnd == /\ pc = "exec" /\ batch = <<>>
              /\ pc' = "run"
              /\ UNCHANGED <<mailbox, efd, stopReq, seen, batch, cpc, owner, done>>

(* run() on one event, or the end of the events. *)
RunEvent == /\ pc = "run"
            /\ SelfPush
            /\ UNCHANGED <<wcmds, stopReq, pc, seen, batch, cpc, owner, done>>
RunEnd == /\ pc = "run"
          /\ pc' = "loop"
          /\ UNCHANGED <<mailbox, efd, stopReq, seen, batch, cpc, owner, done>>

-----------------------------------------------------------------------------
ClientNext == \E c \in Client : \/ push_command(c) \/ push_commands(c)
                                \/ command_worker(c) \/ wake_event(c)
OwnerNext == OwnerStop \/ OwnerWake \/ OwnerJoin
WorkerNext == \/ LoopTest \/ WaitInterrupted \/ WaitOther \/ ClearEventfd
              \/ handle_worker_commands \/ CheckStop \/ extract_command
              \/ Execute \/ ExecuteEnd \/ RunEvent \/ RunEnd

(* Everything has ended. *)
Terminated == /\ owner = "joined" /\ \A c \in Client : cpc[c] = "idle"
              /\ UNCHANGED vars

Next == ClientNext \/ OwnerNext \/ WorkerNext \/ Terminated

(* The worker thread is scheduled and a thread inside push_command reaches its
   wake_event.  Nothing is assumed of the 3 s timeout or of socket traffic: a
   worker that no one wakes may sleep for ever. *)
Fairness ==
    /\ WF_vars(LoopTest) /\ WF_vars(WaitInterrupted) /\ WF_vars(ClearEventfd)
    /\ WF_vars(handle_worker_commands) /\ WF_vars(CheckStop)
    /\ WF_vars(extract_command) /\ WF_vars(Execute) /\ WF_vars(ExecuteEnd)
    /\ WF_vars(RunEnd)
    /\ \A c \in Client : WF_vars(wake_event(c))
    /\ WF_vars(OwnerWake) /\ WF_vars(OwnerJoin)

Spec == Init /\ [][Next]_vars
FairSpec == Spec /\ Fairness

-----------------------------------------------------------------------------
(* No wakeup is lost: while the worker waits, a queued command or Stop has
   its wakeup in the eventfd, or its pusher is between the unlock and
   wake_event. *)
NoLostWakeup ==
    pc = "wait" /\ (cmds # <<>> \/ wcmds > 0)
        => efd \/ owner = "wake" \/ \E c \in Client : cpc[c] = "wake"

(* Every command pushed is, exactly once and in the order of the pushes,
   executed, taken, or still queued. *)
InPushOrder == log = done \o batch \o cmds

(* Once a stop has been requested nothing more is executed: the commands
   still queued are abandoned. *)
NothingAfterStop == [][stopReq => done' = done]_vars

(* A pushed command is eventually executed, by the wakeup of its own push,
   unless the worker is stopped first. *)
CommandServed ==
    \A p \in Pusher : \A i \in 1..MaxPush :
        (npushed[p] >= i) ~> (stopReq \/ \E k \in DOMAIN done : done[k] = <<p, i>>)

(* The destructor does not hang: once it has queued Stop, join returns. *)
DestructorReturns == owner # "alive" ~> owner = "joined"
=============================================================================
