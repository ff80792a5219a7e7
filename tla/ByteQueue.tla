----------------------------- MODULE ByteQueue -----------------------------
(***************************************************************************)
(* What the library's bounded byte buffers promise: a FIFO queue of at     *)
(* most `cap` elements.  Module RingBuffer implements it.                  *)
(***************************************************************************)
EXTENDS Naturals, Sequences

CONSTANTS Value,        \* what one cell of a buffer holds
          Batches,      \* the sequences of values a producer may offer at once
          Capacities    \* the capacities a buffer may be given

VARIABLES queue,        \* the stored elements, oldest first
          cap,          \* the current capacity
          call          \* the last operation and its argument

vars == <<queue, cap, call>>

Init == queue = <<>> /\ cap \in Capacities /\ call = <<"reset", cap>>

(* As many of the elements of `s`, in order, as fit. *)
Enqueue(s) ==
    LET free == cap - Len(queue)
        n == IF Len(s) <= free THEN Len(s) ELSE free
    IN  /\ queue' = queue \o SubSeq(s, 1, n)
        /\ cap' = cap
        /\ call' = <<"insert", s>>

(* The n oldest elements leave, or all when there are fewer. *)
Dequeue(n) ==
    LET k == IF n > Len(queue) THEN Len(queue) ELSE n
    IN  /\ queue' = SubSeq(queue, k + 1, Len(queue))
        /\ cap' = cap
        /\ call' = <<"read", n>>

Reset(c) == queue' = <<>> /\ cap' = c /\ call' = <<"reset", c>>

Next == \/ \E s \in Batches : Enqueue(s)
        \/ \E n \in 1..(cap + 1) : Dequeue(n)
        \/ \E c \in Capacities : Reset(c)

Spec == Init /\ [][Next]_vars
=============================================================================
