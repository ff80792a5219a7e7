------------------------------ MODULE SendPath ------------------------------
(***************************************************************************)
(* The sending side of one connection: ConnectionIO::send, send_rest and   *)
(* __send_internal__ (connectionIO.h), send_vectorized (send.cpp), the     *)
(* switching of the Out interest in AbstractWorker::enable_writing and the *)
(* multiplexor, the error handlers a process inherits (abstractprocess.h)  *)
(* and what Worker::run does with the error a callback leaves.  All of it  *)
(* runs on the worker thread; the kernel and the peer run beside it.       *)
(*                                                                         *)
(* Bytes are numbered in the order send() accepted them.  The buffer of    *)
(* buffers is the sequence of its bytes: module VectorizedBuffer shows     *)
(* that it behaves as one.                                                 *)
(***************************************************************************)
EXTENDS Naturals, Sequences

CONSTANTS MaxAccepted,  \* bound: bytes accepted in all
          Room          \* bytes the kernel buffers for the socket

ASSUME MaxAcceptedAssumption == MaxAccepted \in Nat
ASSUME RoomAssumption == Room \in Nat \ {0}

(* Values of a std::error_code: EINPROGRESS is treated everywhere as EAGAIN,
   and every other error ends in the default case of each switch. *)
Error == {"none", "again", "nobufs", "hard"}

(* What may have gone wrong so far: a result of writev, a failed
   serialization, or an error that receive() left for the sender to find. *)
Fault == {"again", "nobufs", "hard", "serialize", "recv_again", "recv_nobufs", "recv_hard"}

RecvFault == [again |-> "recv_again", nobufs |-> "recv_nobufs", hard |-> "recv_hard"]

VARIABLES
    unsent,     \* bytes in send_buffer_, from active_el_ on
    accepted,   \* how many bytes send() has accepted
    wire,       \* history: the bytes writev took, in order
    room,       \* free space in the kernel's buffer
    tab,        \* Out is in events_handled_ of the connection's table entry
    ep,         \* Out is in the events registered with epoll
    open,       \* the socket is valid and the process exists
    cb,         \* a callback of the process is running: "idle", "out" or "in"
    err,        \* the error_code passed through that callback
    faults      \* history: what has gone wrong so far

sendVars == <<unsent, accepted, wire, room, tab, ep, open, cb, err, faults>>

SendTypeOK == /\ unsent \in Seq(1..MaxAccepted) /\ wire \in Seq(1..MaxAccepted)
              /\ accepted \in 0..MaxAccepted
              /\ room \in 0..Room
              /\ tab \in BOOLEAN /\ ep \in BOOLEAN /\ open \in BOOLEAN
              /\ cb \in {"idle", "out", "in"}
              /\ err \in Error
              /\ faults \subseteq Fault

(* A process has just been attached: addConnectionProcessInternal leaves Out
   out of both. *)
SendInit == /\ unsent = <<>> /\ wire = <<>> /\ accepted = 0
            /\ room = Room
            /\ tab = FALSE /\ ep = FALSE /\ open = TRUE
            /\ cb = "idle" /\ err = "none" /\ faults = {}

-----------------------------------------------------------------------------
(* enable_writing returns at once when the table already has the wanted
   value.  Otherwise it modifies the registration; the table follows only if
   the error_code it was handed is clear, and modify() does not clear it. *)
EnableTab(t, on, e) == IF e = "none" THEN on ELSE t
EnableEp(t, p, on) == IF t = on THEN p ELSE on

(* Fault: what writev took stays in the buffer. *)
Writev_Repeats(pending, k) ==
    /\ k <= room
    /\ wire' = wire \o SubSeq(pending, 1, k)
    /\ unsent' = pending
    /\ room' = room - k

(* writev takes the k first bytes; consume and compact drop them. *)
Writev(pending, k) ==
    /\ k <= room
    /\ wire' = wire \o SubSeq(pending, 1, k)
    /\ unsent' = SubSeq(pending, k + 1, Len(pending))
    /\ room' = room - k

(* Fault: Out is switched off after every successful writev. *)
SendSome_Disarms(pending) ==
    LET t1 == EnableTab(tab, TRUE, err)
        p1 == EnableEp(tab, ep, TRUE)
    IN  \E k \in 1..Len(pending) :
            /\ Writev(pending, k)
            /\ err' = "none"
            /\ tab' = EnableTab(t1, FALSE, "none") /\ ep' = EnableEp(t1, p1, FALSE)
            /\ UNCHANGED faults

(* __send_internal__ with bytes to write: Out on, then writev succeeds, and
   Out goes off again when nothing is left ... *)
SendSome(pending) ==
    LET t1 == EnableTab(tab, TRUE, err)
        p1 == EnableEp(tab, ep, TRUE)
    IN  \E k \in 1..Len(pending) :
            /\ Writev(pending, k)
            /\ err' = "none"
            /\ IF k = Len(pending)
               THEN tab' = EnableTab(t1, FALSE, "none") /\ ep' = EnableEp(t1, p1, FALSE)
               ELSE tab' = t1 /\ ep' = p1
            /\ UNCHANGED faults

(* ... or would block: consume is given -1, which as a size_t is more than
   every byte there is, so the buffer is emptied; the error is cleared and
   Out stays on ... *)
SendBlocked(pending) ==
    /\ room = 0
    /\ unsent' = <<>>
    /\ tab' = EnableTab(tab, TRUE, err) /\ ep' = EnableEp(tab, ep, TRUE)
    /\ err' = "none"
    /\ faults' = faults \cup {"again"}
    /\ UNCHANGED <<wire, room>>

(* ... or fails: the bytes stay, Out is switched off with the error still
   set. *)
SendFailed(pending) ==
    LET t1 == EnableTab(tab, TRUE, err)
        p1 == EnableEp(tab, ep, TRUE)
    IN  \E e \in {"nobufs", "hard"} :
            /\ unsent' = pending
            /\ err' = e
            /\ tab' = EnableTab(t1, FALSE, e) /\ ep' = EnableEp(t1, p1, FALSE)
            /\ faults' = faults \cup {e}
            /\ UNCHANGED <<wire, room>>

SendInternal(pending) == SendSome(pending) \/ SendBlocked(pending) \/ SendFailed(pending)

-----------------------------------------------------------------------------
(* Callbacks of the process.  epoll reports Out while it is registered and
   the kernel has room; every process then calls send_rest first.  A callback
   may also start for another reason: In, a command, a finished task. *)
OutEvent == /\ open /\ cb = "idle" /\ ep /\ room > 0
            /\ cb' = "out" /\ err' = "none"
            /\ UNCHANGED <<unsent, accepted, wire, room, tab, ep, open, faults>>

OtherCallback == /\ open /\ cb = "idle"
                 /\ cb' = "in" /\ err' = "none"
                 /\ UNCHANGED <<unsent, accepted, wire, room, tab, ep, open, faults>>

(* In on_read, receive() may leave an error behind: a frame that is not
   complete yet gives EAGAIN. *)
ReceiveLeavesError == /\ cb = "in" /\ err = "none"
                      /\ \E e \in {"again", "nobufs", "hard"} :
                            /\ err' = e
                            /\ faults' = faults \cup {RecvFault[e]}
                      /\ UNCHANGED <<unsent, accepted, wire, room, tab, ep, open, cb>>

(* send() of a value of n bytes. *)
send(n) == /\ cb = "in" /\ accepted + n <= MaxAccepted
           /\ accepted' = accepted + n
           /\ SendInternal(unsent \o [i \in 1..n |-> accepted + i])
           /\ UNCHANGED <<open, cb>>

(* send() of a value that cannot be serialized. *)
SendUnserializable == /\ cb = "in"
                      /\ tab' = EnableTab(tab, FALSE, err)
                      /\ ep' = EnableEp(tab, ep, FALSE)
                      /\ err' = "hard"
                      /\ faults' = faults \cup {"serialize"}
                      /\ UNCHANGED <<unsent, accepted, wire, room, open, cb>>

(* Fault: the rest waits for the next value. *)
send_rest_Waits == /\ cb \in {"out", "in"} /\ cb' = "in"
                   /\ UNCHANGED <<unsent, wire, room, tab, ep, err, faults, accepted, open>>

send_rest == /\ cb \in {"out", "in"} /\ cb' = "in"
             /\ IF unsent = <<>>
                THEN UNCHANGED <<unsent, wire, room, tab, ep, err, faults>>
                ELSE SendInternal(unsent)
             /\ UNCHANGED <<accepted, open>>

(* The handlers a process inherits.  handle_sending_error switches Out off
   on ENOBUFS, with the error still set, and so does the handle_receive_error
   of AbstractConnectionProcess; that of a requestable process does not. *)
handle_sending_error == /\ cb = "in" /\ err # "none"
                        /\ ep' = IF err = "nobufs" THEN EnableEp(tab, ep, FALSE) ELSE ep
                        /\ err' = "none"
                        /\ UNCHANGED <<unsent, accepted, wire, room, tab, open, cb, faults>>

handle_receive_error == /\ cb = "in" /\ err # "none"
                        /\ err' = "none"
                        /\ UNCHANGED <<unsent, accepted, wire, room, tab, ep, open, cb, faults>>

(* The end of a callback that Worker::run made: any error but the three soft
   ones closes the socket and destroys the process. *)
EventDone == /\ cb = "in"
             /\ cb' = "idle"
             /\ open' = (err # "hard")
             /\ ep' = (ep /\ err # "hard")
             /\ err' = "none"
             /\ UNCHANGED <<unsent, accepted, wire, room, tab, faults>>

(* The end of one that a command made: the error goes to the command. *)
CommandDone == /\ cb = "in"
               /\ cb' = "idle"
               /\ err' = "none"
               /\ UNCHANGED <<unsent, accepted, wire, room, tab, ep, open, faults>>

(* The peer acknowledges some bytes. *)
PeerReads == /\ room < Room
             /\ room' = room + 1
             /\ UNCHANGED <<unsent, accepted, wire, tab, ep, open, cb, err, faults>>

MaxValue == 2           \* bound: bytes of one value
CallbackDone == EventDone \/ CommandDone
Closed == ~open /\ UNCHANGED sendVars

SendNext == \/ OutEvent \/ OtherCallback \/ ReceiveLeavesError
            \/ \E n \in 1..MaxValue : send(n)
            \/ SendUnserializable \/ send_rest \/ handle_sending_error \/ handle_receive_error
            \/ CallbackDone \/ PeerReads \/ Closed

(* The peer keeps reading, a callback ends, on_write calls send_rest, and
   epoll reports a socket that is writable again and again. *)
Fairness == /\ WF_sendVars(PeerReads)
            /\ WF_sendVars(CallbackDone)
            /\ WF_sendVars(cb = "out" /\ send_rest)
            /\ SF_sendVars(OutEvent)

SendSpec == SendInit /\ [][SendNext]_sendVars
SendFairSpec == SendSpec /\ Fairness

-----------------------------------------------------------------------------
Stream == wire \o unsent

(* The peer never sees a byte twice or two bytes out of order, whatever
   fails: what was written and what is still buffered is in the order in which
   send() accepted it. *)
InOrder == \A i, j \in 1..Len(Stream) : i < j => Stream[i] < Stream[j]

(* No accepted byte disappears, through partial writes, failed writes and
   failed serializations alike, unless a write would have blocked. *)
NothingDropped == "again" \notin faults => Stream = [i \in 1..accepted |-> i]

(* Between callbacks a connection with bytes to write is registered for Out,
   so that the rest will be sent: partial writes and blocked writes never
   lose the interest.  A failed writev, a value that cannot be serialized and
   the handler of a full receive buffer do. *)
Disarming == {"nobufs", "hard", "serialize", "recv_nobufs"}
OutArmed == open /\ cb = "idle" /\ unsent # <<>> /\ faults \cap Disarming = {} => ep

(* Between callbacks a connection with nothing to write is not registered for
   Out: the level-triggered event would be reported for ever.  It is once a
   write has blocked, and once send() was called with an error_code that is
   already set. *)
Spinning == {"again", "serialize", "recv_again", "recv_nobufs", "recv_hard"}
NoSpin == cb = "idle" /\ unsent = <<>> /\ faults \cap Spinning = {} => ~ep

(* Every accepted byte reaches the kernel in the end, as long as the peer
   reads, the connection stays open and no write blocks or fails. *)
Delivered ==
    \A b \in 1..MaxAccepted :
        (accepted >= b) ~> \/ \E i \in DOMAIN wire : wire[i] = b
                           \/ faults \cap ({"again"} \cup Disarming) # {}
                           \/ ~open

=============================================================================
