-------------------------- MODULE VectorizedBuffer --------------------------
(***************************************************************************)
(* network::VectorizedBuffer, the queue of serialized values a connection  *)
(* has still to write, with its one writer send_vectorized (send.cpp).     *)
(*                                                                         *)
(* The bytes are numbered in the order of their push, and the number of a  *)
(* byte serves as its address: the vectors in the deque never move, so     *)
(* bufs[i] owns the addresses first..first+size-1 and the pointer iov_base *)
(* is one of them.  The loops of the kernel over the iovecs and of consume *)
(* are taken one iteration at a time.                                      *)
(***************************************************************************)
EXTENDS Naturals, Sequences

CONSTANTS MaxBytes,     \* bound: bytes pushed in all
          Huge          \* size_t(-1)

ASSUME SizeAssumption == MaxBytes \in Nat /\ Huge \in Nat /\ MaxBytes < Huge

VARIABLES
    vbuf,       \* vbuf_: the iovecs
    bufs,       \* bufs_: the vectors they point into
    active,     \* active_el_: iovecs already consumed
    pushed,     \* bytes pushed so far
    next,       \* history: the first byte neither written nor given up
    pc,         \* "idle", or where send_vectorized is
    idx,        \* writev: how many iovecs the kernel has finished with
    left,       \* writev: bytes taken so far; consume: bytes_sent
    stand       \* the argument `stand` of send_vectorized

vbBuffer == <<vbuf, bufs, active>>
vbVars == <<vbuf, bufs, active, pushed, next, pc, idx, left, stand>>

Iovec == [base : 1..MaxBytes + 1, len : 0..MaxBytes]
Vector == [first : 1..MaxBytes, size : 0..MaxBytes]

VBTypeOK == /\ vbuf \in Seq(Iovec) /\ bufs \in Seq(Vector)
            /\ active \in Nat /\ active <= Len(vbuf)
            /\ pushed \in 0..MaxBytes /\ next \in 1..MaxBytes + 1
            /\ pc \in {"idle", "writev", "consume"}
            /\ idx \in Nat /\ left \in Nat /\ stand \in BOOLEAN

VBInit == /\ vbuf = <<>> /\ bufs = <<>> /\ active = 0
          /\ pushed = 0 /\ next = 1
          /\ pc = "idle" /\ idx = 0 /\ left = 0 /\ stand = FALSE

has_to_write == active < Len(vbuf)

(* How many iovecs remaining() reports: it counts the vectors. *)
Remaining == Len(bufs) - active

-----------------------------------------------------------------------------

(* serialize() hands over n bytes; nothing happens when there is none. *)
push_buffer(n) ==
    /\ pc = "idle" /\ pushed + n <= MaxBytes
    /\ IF n = 0
       THEN UNCHANGED <<vbuf, bufs>>
       ELSE /\ bufs' = Append(bufs, [first |-> pushed + 1, size |-> n])
            /\ vbuf' = Append(vbuf, [base |-> pushed + 1, len |-> n])
    /\ pushed' = pushed + n
    /\ UNCHANGED <<active, next, pc, idx, left, stand>>

clear_buffer ==
    /\ pc = "idle"
    /\ vbuf' = <<>> /\ bufs' = <<>> /\ active' = 0
    /\ next' = pushed + 1
    /\ UNCHANGED <<pushed, pc, idx, left, stand>>

(* Fault: only the iovecs are erased. *)
Erase_Half ==
    /\ vbuf' = SubSeq(vbuf, active + 1, Len(vbuf))
    /\ bufs' = bufs
    /\ active' = 0

(* The body of compact(). *)
Erase ==
    /\ vbuf' = SubSeq(vbuf, active + 1, Len(vbuf))
    /\ bufs' = SubSeq(bufs, active + 1, Len(bufs))
    /\ active' = 0

(* compact() from ConnectionIO::clear_send_buffer. *)
compact == /\ pc = "idle"
           /\ Erase
           /\ UNCHANGED <<pushed, next, pc, idx, left, stand>>

-----------------------------------------------------------------------------
(* Fault: writev is given the iovecs from the first one on. *)
SendBegin_FromFirst(s) ==
    /\ pc = "idle" /\ has_to_write
    /\ pc' = "writev" /\ idx' = 0 /\ left' = 0 /\ stand' = s
    /\ UNCHANGED <<vbBuffer, pushed, next>>

(* send_vectorized: nothing to do without an active element or when writev
   fails for good; EAGAIN and EINPROGRESS hand the result -1 to consume. *)
SendBegin(s) == /\ pc = "idle" /\ has_to_write
                /\ pc' = "writev" /\ idx' = active /\ left' = 0 /\ stand' = s
                /\ UNCHANGED <<vbBuffer, pushed, next>>

WouldBlock == /\ pc = "writev" /\ left = 0
              /\ pc' = "consume" /\ left' = Huge
              /\ next' = pushed + 1
              /\ UNCHANGED <<vbBuffer, pushed, idx, stand>>

WriteFails == /\ pc = "writev" /\ left = 0
              /\ pc' = "idle"
              /\ UNCHANGED <<vbBuffer, pushed, next, idx, left, stand>>

(* The kernel takes n bytes of the next of the iovecs it was given, and goes
   on only if that was all of it. *)
GatherSome(n) ==
    /\ pc = "writev" /\ idx < active + Remaining /\ n <= vbuf[idx + 1].len
    /\ left' = left + n
    /\ next' = vbuf[idx + 1].base + n
    /\ IF n = vbuf[idx + 1].len
       THEN idx' = idx + 1 /\ UNCHANGED pc
       ELSE pc' = "consume" /\ UNCHANGED idx
    /\ UNCHANGED <<vbBuffer, pushed, stand>>

Gathered == /\ pc = "writev" /\ left > 0
            /\ pc' = "consume"
            /\ UNCHANGED <<vbBuffer, pushed, next, idx, left, stand>>

(* Fault: active_el_ is not advanced. *)
ConsumeWhole_Stuck ==
    /\ pc = "consume" /\ left > 0 /\ has_to_write
    /\ left >= vbuf[active + 1].len
    /\ UNCHANGED vbVars

(* One iteration of consume(): the iovec is used up ... *)
ConsumeWhole ==
    /\ pc = "consume" /\ left > 0 /\ has_to_write
    /\ left >= vbuf[active + 1].len
    /\ left' = left - vbuf[active + 1].len
    /\ active' = active + 1
    /\ UNCHANGED <<vbuf, bufs, pushed, next, pc, idx, stand>>

(* ... or cut. *)
ConsumePart ==
    /\ pc = "consume" /\ left > 0 /\ has_to_write
    /\ left < vbuf[active + 1].len
    /\ vbuf' = [vbuf EXCEPT ![active + 1] = [base |-> @.base + left, len |-> @.len - left]]
    /\ left' = 0
    /\ UNCHANGED <<bufs, active, pushed, next, pc, idx, stand>>

(* The loop ends, and unless it is to stand the buffer is compacted. *)
Consumed ==
    /\ pc = "consume" /\ (left = 0 \/ ~has_to_write)
    /\ pc' = "idle"
    /\ IF stand THEN UNCHANGED vbBuffer ELSE Erase
    /\ UNCHANGED <<pushed, next, idx, left, stand>>

-----------------------------------------------------------------------------
Write == \/ WouldBlock \/ WriteFails \/ Gathered
         \/ \E n \in 1..MaxBytes : GatherSome(n)
         \/ ConsumeWhole \/ ConsumePart \/ Consumed

VBNext == \/ \E n \in 0..MaxBytes : push_buffer(n)
          \/ clear_buffer \/ compact
          \/ \E s \in BOOLEAN : SendBegin(s)
          \/ Write

VBSpec == VBInit /\ [][VBNext]_vbVars
VBFairSpec == VBSpec /\ WF_vbVars(Write)

-----------------------------------------------------------------------------
(* Every iovec is the tail of its own vector, through every cut and every
   erasure: no pointer dangles, and the count that remaining() takes from the
   vectors is the number of iovecs. *)
OwnTail == /\ Len(vbuf) = Len(bufs)
           /\ \A i \in 1..Len(vbuf) :
                 /\ bufs[i].first <= vbuf[i].base
                 /\ vbuf[i].base + vbuf[i].len = bufs[i].first + bufs[i].size

(* What the kernel reads next is the byte that follows the last one written,
   across the iovecs and across partial writes. *)
ReadsNext == pc = "writev" /\ idx < active + Remaining
                 => idx < Len(vbuf) /\ vbuf[idx + 1].base = next

(* Between two calls the active iovecs are exactly the bytes not yet written
   or given up: they start at the next one, follow each other without a gap
   and end with the last one pushed. *)
Start(i) == IF i < Len(vbuf) THEN vbuf[i + 1].base ELSE pushed + 1
RestIsUnwritten ==
    pc = "idle" => /\ Start(active) = next
                   /\ \A i \in active + 1..Len(vbuf) : vbuf[i].base + vbuf[i].len = Start(i)

(* No active iovec is empty: writev would return 0 for it and neither consume
   it nor report an error. *)
NoEmptyRest == \A i \in active + 1..Len(vbuf) : vbuf[i].len > 0

(* send_vectorized always returns: consume() terminates, with the result of a
   partial write as well as with -1. *)
SendReturns == pc # "idle" ~> pc = "idle"
=============================================================================
