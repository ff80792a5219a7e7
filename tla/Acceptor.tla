------------------------------ MODULE Acceptor ------------------------------
(***************************************************************************)
(* A server from configure to close: the thread that accepts connections,  *)
(* the pool of workers it hands them to, and the owner that sets the       *)
(* process of new connections, gives old ones a process, collapses and     *)
(* closes the server.  The owner and the accept thread share m_, the       *)
(* accept thread and the workers the mailboxes of the workers.             *)
(*                                                                         *)
(* The owner launches a server once for each configure without error; a    *)
(* closed server may be configured again.  What a worker does with a       *)
(* command is WorkerTable's subject: here it only enters a connection,     *)
(* gives it a process or drops it.                                         *)
(***************************************************************************)
EXTENDS Naturals, Sequences, SequencesExt, FiniteSets

CONSTANTS Peers,       \* clients that connect to the server, each once
          NumWorkers,  \* num_threads_pool_
          MaxCalls     \* how often the owner calls set_process or collapse

ASSUME AcceptorAssumption ==
    NumWorkers \in Nat \ {0} /\ MaxCalls \in Nat /\ IsFiniteSet(Peers)

Workers == 0..(NumWorkers - 1)
NoPeer == "no peer"

VARIABLES owner,    \* where the owner is
          calls,    \* how many calls it has made
          m,        \* who holds m_
          fabrique, \* process_fabrique_ is set
          thread,   \* where the accept thread is
          accepted, \* the connection it is working on
          stop,     \* its stop has been requested
          eventfd,  \* the interruptor of its multiplexor
          listening,\* listen has succeeded
          edge,     \* epoll has an In event of the listening socket to report
          backlog,  \* connections the kernel holds for accept
          next,     \* next_worker_
          mail,     \* cmds_ of every worker
          table,    \* connections_ of every worker: those with and without a process
          peers,    \* what has become of each client, see Fate
          missed    \* clients waiting in the backlog since an accept failed

vars == <<owner, calls, m, fabrique, thread, accepted, stop, eventfd, listening,
          edge, backlog, next, mail, table, peers, missed>>

ownerVars == <<owner, calls>>
threadVars == <<thread, accepted, stop, eventfd>>
kernelVars == <<listening, edge, backlog, missed>>
poolVars == <<next, mail, table>>

(* A client is away, queued, attached (handed over), made (a process was   *)
(* made for it) or gone.                                                   *)
Fate == {"away", "queued", "attached", "made", "gone"}

Init ==
    /\ owner = "new" /\ calls = 0 /\ m = "free" /\ fabrique = FALSE
    /\ thread = "none" /\ accepted = NoPeer /\ stop = FALSE /\ eventfd = FALSE
    /\ listening = FALSE /\ edge = FALSE /\ backlog = <<>> /\ missed = {}
    /\ next = 0 /\ mail = [w \in Workers |-> <<>>]
    /\ table = [w \in Workers |-> [idle |-> {}, served |-> {}]]
    /\ peers = [p \in Peers |-> "away"]

Connections(w) == table[w].idle \union table[w].served

---------------------------------------------------------------------------
(* The owner.                                                              *)

(* A server without acceptor gets a new pool, whose workers are started,   *)
(* and a new acceptor.  (A configure that fails leaves none of it behind;  *)
(* one on a configured server is refused.)                                 *)
configure ==
    /\ owner \in {"new", "closed"}
    /\ owner' = "configured" /\ thread' = "none" /\ accepted' = NoPeer
    /\ stop' = FALSE /\ eventfd' = FALSE /\ fabrique' = FALSE /\ next' = 0
    /\ UNCHANGED <<calls, m, kernelVars, mail, table, peers>>

launch ==
    /\ owner = "configured" /\ m = "free"
    /\ owner' = "open" /\ thread' = "socket"
    /\ UNCHANGED <<calls, m, fabrique, accepted, stop, eventfd, kernelVars, poolVars, peers>>

set_processes_at_connections ==
    /\ owner \in {"configured", "open"} /\ m = "free" /\ ~fabrique
    /\ fabrique' = TRUE
    /\ UNCHANGED <<ownerVars, m, threadVars, kernelVars, poolVars, peers>>

(* set_process and collapse push a command for every connection they find. *)
(* They walk the tables without a lock, so that a worker may insert and    *)
(* erase meanwhile: which connections they meet is open.                   *)
ForConnections(kind) ==
    /\ owner = "open" /\ calls < MaxCalls /\ calls' = calls + 1
    /\ \E met \in SUBSET UNION {Connections(w) : w \in Workers} :
         mail' = [w \in Workers |->
                    mail[w] \o SetToSeq({<<kind, p>> : p \in met \intersect Connections(w)})]
    /\ UNCHANGED <<owner, m, fabrique, threadVars, kernelVars, next, table, peers>>

set_process == ForConnections("AttachProcess")
collapse == ForConnections("RequestStop")

remove_connection(w, p) ==
    /\ owner = "open" /\ calls < MaxCalls /\ calls' = calls + 1
    /\ p \in Connections(w)
    /\ mail' = [mail EXCEPT ![w] = Append(@, <<"RemoveConnection", p>>)]
    /\ UNCHANGED <<owner, m, fabrique, threadVars, kernelVars, next, table, peers>>

(* close: stop() takes m_, requests the stop, interrupts the wait and      *)
(* joins, all with m_ held ...                                             *)
stop_Lock ==
    /\ owner = "open" /\ m = "free"
    /\ owner' = "locked" /\ m' = "owner" /\ stop' = TRUE
    /\ UNCHANGED <<calls, fabrique, thread, accepted, eventfd, kernelVars, poolVars, peers>>

(* A server that was not launched has no thread to stop. *)
stop_Unlaunched ==
    /\ owner = "configured" /\ owner' = "stopped"
    /\ UNCHANGED <<calls, m, fabrique, threadVars, kernelVars, poolVars, peers>>

(* fault: the wait is not interrupted *)
stop_Interrupt_None ==
    /\ owner = "locked" /\ owner' = "joins"
    /\ UNCHANGED <<calls, m, fabrique, threadVars, kernelVars, poolVars, peers>>

stop_Interrupt ==
    /\ owner = "locked" /\ owner' = "joins" /\ eventfd' = TRUE
    /\ UNCHANGED <<calls, m, fabrique, thread, accepted, stop, kernelVars, poolVars, peers>>

stop_Join ==
    /\ owner = "joins" /\ thread = "ended"
    /\ owner' = "stopped" /\ m' = "free"
    /\ UNCHANGED <<calls, fabrique, threadVars, kernelVars, poolVars, peers>>

(* ... then graceful_close takes the socket away ... *)
graceful_close ==
    /\ owner = "stopped" /\ m = "free"
    /\ owner' = "pool" /\ listening' = FALSE /\ edge' = FALSE /\ backlog' = <<>> /\ missed' = {}
    /\ peers' = [p \in Peers |-> IF peers[p] = "queued" THEN "gone" ELSE peers[p]]
    /\ UNCHANGED <<calls, m, fabrique, threadVars, poolVars>>

(* ... and the pool is destroyed with its workers, whose threads are       *)
(* stopped and joined; what is left in their mailboxes goes with them.     *)
DestroyPool ==
    /\ owner = "pool" /\ owner' = "closed"
    /\ mail' = [w \in Workers |-> <<>>]
    /\ table' = [w \in Workers |-> [idle |-> {}, served |-> {}]]
    /\ peers' = [p \in Peers |-> IF peers[p] = "away" THEN "away" ELSE "gone"]
    /\ UNCHANGED <<calls, m, fabrique, threadVars, kernelVars, next>>

---------------------------------------------------------------------------
(* The accept thread.                                                      *)

(* make_socket, add and listen.  Without a socket the thread ends; an      *)
(* error of listen is ignored, and the thread waits for nothing.           *)
OpenSocket(outcome) ==
    /\ thread = "socket"
    /\ thread' = IF outcome = "no socket" THEN "ended" ELSE "test"
    /\ listening' = (outcome = "listens")
    /\ UNCHANGED <<ownerVars, m, fabrique, accepted, stop, eventfd, edge, backlog, missed,
                   poolVars, peers>>

TestStop ==
    /\ thread \in {"test", "event"} /\ stop
    /\ thread' = "ended"
    /\ UNCHANGED <<ownerVars, m, fabrique, accepted, stop, eventfd, kernelVars, poolVars, peers>>

(* The event handler's wait without a time-out: an interrupt is swallowed  *)
(* and only sends the thread round.                                        *)
wait ==
    /\ (thread = "test" /\ ~stop) \/ thread = "wait"
    /\ IF edge \/ eventfd
       THEN /\ thread' = IF edge THEN "event" ELSE "test"
            /\ edge' = FALSE /\ eventfd' = FALSE
       ELSE thread' = "wait" /\ UNCHANGED <<edge, eventfd>>
    /\ UNCHANGED <<ownerVars, m, fabrique, accepted, stop, listening, backlog, missed, poolVars, peers>>

Index == next % NumWorkers

(* One accept per event.  attach_connection gives the connection to the    *)
(* next worker in turn.                                                    *)
accept ==
    /\ thread = "event" /\ ~stop /\ backlog # <<>>
    /\ LET p == Head(backlog) IN
         /\ accepted' = p /\ peers' = [peers EXCEPT ![p] = "attached"] /\ missed' = missed \ {p}
         /\ mail' = [mail EXCEPT ![Index] = Append(@, <<"AttachConnection", p>>)]
    /\ next' = next + 1 /\ backlog' = Tail(backlog) /\ thread' = "fabrique"
    /\ UNCHANGED <<ownerVars, m, fabrique, stop, eventfd, listening, edge, table>>

(* fault: a connection that cannot be set up ends the loop *)
accept_Fails_Returns(taken) ==
    /\ thread = "event" /\ ~stop
    /\ IF taken /\ backlog # <<>>
       THEN /\ peers' = [peers EXCEPT ![Head(backlog)] = "gone"] /\ thread' = "ended"
            /\ backlog' = Tail(backlog) /\ missed' = missed \ {Head(backlog)}
       ELSE /\ missed' = missed \union Range(backlog) /\ thread' = "test"
            /\ UNCHANGED <<peers, backlog>>
    /\ UNCHANGED <<ownerVars, m, fabrique, accepted, stop, eventfd, listening, edge, poolVars>>

(* accept_error_handling, when accept fails; and the options of a socket   *)
(* that cannot be set, which drop it.                                      *)
accept_Fails(taken) ==
    /\ thread = "event" /\ ~stop /\ thread' = "test"
    /\ IF taken /\ backlog # <<>>
       THEN /\ peers' = [peers EXCEPT ![Head(backlog)] = "gone"]
            /\ backlog' = Tail(backlog) /\ missed' = missed \ {Head(backlog)}
       ELSE missed' = missed \union Range(backlog) /\ UNCHANGED <<peers, backlog>>
    /\ UNCHANGED <<ownerVars, m, fabrique, accepted, stop, eventfd, listening, edge, poolVars>>

(* The process is made with m_ held for a moment. *)
make_process ==
    /\ thread = "fabrique" /\ m = "free"
    /\ IF fabrique
       THEN /\ thread' = "process"
            /\ peers' = [peers EXCEPT ![accepted] = IF @ = "attached" THEN "made" ELSE @]
       ELSE thread' = "test" /\ UNCHANGED peers
    /\ UNCHANGED <<ownerVars, m, fabrique, accepted, stop, eventfd, kernelVars, poolVars>>

(* fault: the process goes to the worker whose turn is next *)
AttachMade_Next ==
    /\ thread = "process" /\ thread' = "test"
    /\ mail' = [mail EXCEPT ![Index] = Append(@, <<"AttachProcess", accepted>>)]
    /\ UNCHANGED <<ownerVars, m, fabrique, accepted, stop, eventfd, kernelVars, next, table, peers>>

(* The handle knows the worker the connection was given to. *)
AttachMade ==
    /\ thread = "process" /\ thread' = "test"
    /\ LET w == (next - 1) % NumWorkers
       IN  mail' = [mail EXCEPT ![w] = Append(@, <<"AttachProcess", accepted>>)]
    /\ UNCHANGED <<ownerVars, m, fabrique, accepted, stop, eventfd, kernelVars, next, table, peers>>

---------------------------------------------------------------------------
(* The clients, the kernel and the workers.                                *)

(* Edge-triggered: an arrival raises the event, or finds it raised. *)
Arrive(p) ==
    /\ peers[p] = "away" /\ listening
    /\ peers' = [peers EXCEPT ![p] = "queued"] /\ backlog' = Append(backlog, p)
    /\ edge' = TRUE
    /\ UNCHANGED <<ownerVars, m, fabrique, threadVars, listening, missed, poolVars>>

Alive == owner \notin {"new", "closed"}

(* A worker's next command. *)
Execute(w) ==
    /\ Alive /\ mail[w] # <<>>
    /\ mail' = [mail EXCEPT ![w] = Tail(@)]
    /\ LET kind == Head(mail[w])[1]
           p == Head(mail[w])[2]
           t == table[w]
       IN  CASE kind = "AttachConnection" ->
                  /\ table' = [table EXCEPT ![w] = [idle |-> t.idle \union {p}, served |-> t.served]]
                  /\ UNCHANGED peers
             [] kind = "AttachProcess" /\ p \in Connections(w) ->
                  /\ table' = [table EXCEPT ![w] = [idle |-> t.idle \ {p},
                                                    served |-> t.served \union {p}]]
                  /\ UNCHANGED peers
             [] kind = "RemoveConnection" /\ p \in Connections(w) ->
                  /\ table' = [table EXCEPT ![w] = [idle |-> t.idle \ {p}, served |-> t.served \ {p}]]
                  /\ peers' = [peers EXCEPT ![p] = "gone"]
             [] OTHER -> UNCHANGED <<table, peers>>
    /\ UNCHANGED <<ownerVars, m, fabrique, threadVars, kernelVars, next>>

(* A client leaves; its worker drops the connection. *)
Leave(w, p) ==
    /\ Alive /\ p \in Connections(w)
    /\ table' = [table EXCEPT ![w] = [idle |-> table[w].idle \ {p}, served |-> table[w].served \ {p}]]
    /\ peers' = [peers EXCEPT ![p] = "gone"]
    /\ UNCHANGED <<ownerVars, m, fabrique, threadVars, kernelVars, next, mail>>

---------------------------------------------------------------------------
AcceptThread ==
    \/ \E o \in {"listens", "deaf", "no socket"} : OpenSocket(o)
    \/ TestStop \/ wait \/ accept \/ make_process \/ AttachMade
    \/ \E taken \in BOOLEAN : accept_Fails(taken)

Closing == stop_Interrupt \/ stop_Join \/ graceful_close \/ DestroyPool

Idle == UNCHANGED vars

Next ==
    \/ configure \/ launch \/ stop_Unlaunched
    \/ set_processes_at_connections \/ set_process \/ collapse \/ stop_Lock \/ Closing \/ AcceptThread
    \/ \E p \in Peers : Arrive(p)
    \/ \E w \in Workers : Execute(w) \/ (\E p \in Peers : Leave(w, p) \/ remove_connection(w, p))
    \/ Idle

Spec == Init /\ [][Next]_vars

(* Threads run: the closing owner and the accept thread take their steps. *)
FairSpec == Spec /\ WF_vars(Closing) /\ WF_vars(AcceptThread)

---------------------------------------------------------------------------
(* What must hold.                                                         *)

Queued(w, kind, p) == \E i \in 1..Len(mail[w]) : mail[w][i] = <<kind, p>>

(* A connection for which the accept thread has made a process gets it:    *)
(* until it has, the process is in the thread's hands or in the mailbox of *)
(* the worker that has the connection or has it queued before.             *)
MadeIsServed ==
    \A p \in Peers : peers[p] = "made" =>
        \/ thread = "process" /\ accepted = p
        \/ \E w \in Workers :
             \/ p \in table[w].served
             \/ p \in table[w].idle /\ Queued(w, "AttachProcess", p)
             \/ \E i, j \in 1..Len(mail[w]) :
                  i < j /\ mail[w][i] = <<"AttachConnection", p>> /\ mail[w][j] = <<"AttachProcess", p>>

(* The accepts to come: an event raised or taken is good for one. *)
Pending == (IF edge THEN 1 ELSE 0) + (IF thread = "event" THEN 1 ELSE 0)

(* As many accepts are to come as it takes to reach the client p. *)
Heard(p) == \E i \in 1..Len(backlog) : backlog[i] = p /\ i <= Pending

(* A client that an accept to come will reach is accepted, or dropped,     *)
(* whatever becomes of the ones before it, unless the server is stopped or *)
(* an accept fails while it waits.  A client whose arrival only found an   *)
(* event raised is not promised anything: one accept per event of the      *)
(* edge-triggered socket never catches up with it.                         *)
HeardIsAccepted ==
    \A p \in Peers : Heard(p) ~> (peers[p] # "queued" \/ stop \/ p \in missed)

(* The owner and the accept thread wait for each other: stop joins with m_ *)
(* held, and the thread needs m_ for the process of its connection.        *)
Embraced == owner = "joins" /\ thread = "fabrique"

(* A close that has begun comes to its end, whatever the accept thread was *)
(* doing, but for the one deadly embrace.                                  *)
CloseReturns == owner = "locked" ~> (owner = "closed" \/ Embraced)
=============================================================================
