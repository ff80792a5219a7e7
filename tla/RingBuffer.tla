----------------------------- MODULE RingBuffer -----------------------------
(***************************************************************************)
(* network::RingBuffer<T> (include/OsterLib/network/buffers/ring_buffer.h):*)
(* the fixed-capacity ring every connection receives into.  The three      *)
(* fields head_, tail_ and full_ and the storage buffer_ are the state;    *)
(* every member function that changes them is one action.                  *)
(***************************************************************************)
EXTENDS Naturals, Sequences

CONSTANTS Value,        \* the element type T
          Blank,        \* T{}, what resize() puts in new cells
          Batches,      \* the containers insert() and readv() may be given
          Capacities    \* the arguments of set_capacity()

ASSUME ValueAssumption == Blank \in Value
ASSUME BatchesAssumption == /\ Batches \subseteq Seq(Value)
                            /\ \A v \in Value : <<v>> \in Batches
ASSUME CapacitiesAssumption == Capacities \subseteq Nat \ {0}

VARIABLES buffer,       \* buffer_: a function on 0..cap-1
          cap,          \* buffer_.size(), which capacity() returns
          head,         \* head_: index of the first element to read
          tail,         \* tail_: index of the first free cell
          full,         \* full_: tells full from empty when head_ = tail_
          call          \* history: the last operation and its argument

vars == <<buffer, cap, head, tail, full, call>>

TypeOK == /\ cap \in Capacities
          /\ buffer \in [0..(cap - 1) -> Value]
          /\ head \in 0..(cap - 1)
          /\ tail \in 0..(cap - 1)
          /\ full \in BOOLEAN

-----------------------------------------------------------------------------
(* The observers. *)

size == IF full THEN cap
        ELSE IF tail >= head THEN tail - head
        ELSE (cap - head) + tail

empty == ~full /\ head = tail

data_at(i) == buffer[(head + i) % cap]

(* What iterating from begin() to end() yields. *)
Contents == [i \in 1..size |-> data_at(i - 1)]

(* An iovec or a span: `len` cells from index `base`. *)
Segment(base, len) == [base |-> base, len |-> len]
NoSegment == Segment(0, 0)
Cells(seg) == {i \in 0..(cap - 1) : seg.base <= i /\ i < seg.base + seg.len}

(* Fault: the segment before head_ is forgotten. *)
write_vectored_OneSegment ==
    IF full THEN <<NoSegment, NoSegment>>
    ELSE IF head <= tail THEN <<Segment(tail, cap - tail), NoSegment>>
         ELSE <<Segment(tail, head - tail), NoSegment>>

(* The free cells, as at most two segments to write into. *)
write_vectored ==
    IF full THEN <<NoSegment, NoSegment>>
    ELSE IF head <= tail
         THEN <<Segment(tail, cap - tail),
                IF head > 0 THEN Segment(0, head) ELSE NoSegment>>
         ELSE <<Segment(tail, head - tail), NoSegment>>

(* The occupied cells, as at most two segments to send from. *)
read_vectored ==
    IF empty THEN <<NoSegment, NoSegment>>
    ELSE IF head < tail THEN <<Segment(head, tail - head), NoSegment>>
         ELSE <<Segment(head, cap - head), Segment(0, tail)>>

(* The spans handed to the deserializer.  An empty buffer takes the early
   return and yields the whole storage, twice. *)
data ==
    IF empty THEN <<Segment(0, cap), Segment(0, cap)>>
    ELSE IF head < tail THEN <<Segment(head, tail - head), NoSegment>>
         ELSE <<Segment(head, cap - head), Segment(0, tail)>>

(* The cell that holds the k-th element (from 0) of a pair of segments. *)
CellOf(segs, k) == IF k < segs[1].len THEN segs[1].base + k
                   ELSE segs[2].base + (k - segs[1].len)

(* The elements of a pair of segments, first segment first. *)
Gather(segs) == [i \in 1..(segs[1].len + segs[2].len) |-> buffer[CellOf(segs, i - 1)]]

-----------------------------------------------------------------------------
(* The operations. *)

Init == /\ cap \in Capacities
        /\ buffer = [i \in 0..(cap - 1) |-> Blank]
        /\ head = 0 /\ tail = 0 /\ full = FALSE
        /\ call = <<"reset", cap>>

set_capacity(n) ==
    /\ cap' = n
    /\ buffer' = [i \in 0..(n - 1) |-> IF i < cap THEN buffer[i] ELSE Blank]
    /\ head' = 0 /\ tail' = 0 /\ full' = FALSE
    /\ call' = <<"reset", n>>

clear == /\ head' = 0 /\ tail' = 0 /\ full' = FALSE
         /\ call' = <<"reset", cap>>
         /\ UNCHANGED <<buffer, cap>>

pop_front == /\ ~empty
             /\ head' = (head + 1) % cap
             /\ full' = FALSE
             /\ call' = <<"read", 1>>
             /\ UNCHANGED <<buffer, cap, tail>>

push_back(v) == /\ ~full
                /\ buffer' = [buffer EXCEPT ![tail] = v]
                /\ tail' = IF tail = cap - 1 THEN 0 ELSE tail + 1
                /\ full' = (tail' = head)
                /\ call' = <<"insert", <<v>>>>
                /\ UNCHANGED <<cap, head>>

(* Advances tail_ over n > 0 freshly written cells, at most the free ones. *)
commit_write(n) ==
    LET k == IF n > cap - size THEN cap - size ELSE n
    IN  /\ tail' = (tail + k) % cap
        /\ full' = (tail' = head)
        /\ UNCHANGED <<cap, head>>

(* Fault: the second segment is filled from the container's begin() again. *)
Scatter_Restart(s, n) ==
    LET segs == write_vectored
    IN  [c \in 0..(cap - 1) |->
            IF \E k \in 0..(n - 1) : CellOf(segs, k) = c
            THEN LET k == CHOOSE k \in 0..(n - 1) : CellOf(segs, k) = c
                 IN  s[1 + IF k < segs[1].len THEN k ELSE k - segs[1].len]
            ELSE buffer[c]]

(* std::copy, or the kernel's readv, of the first n elements of s into the
   free segments. *)
Scatter(s, n) ==
    LET segs == write_vectored
    IN  [c \in 0..(cap - 1) |->
            IF \E k \in 0..(n - 1) : CellOf(segs, k) = c
            THEN s[1 + CHOOSE k \in 0..(n - 1) : CellOf(segs, k) = c]
            ELSE buffer[c]]

(* insert(s); receive_to_ring_buffer has the same effect when the socket
   holds s.  commit_write(0) returns at once. *)
insert(s) ==
    LET segs == write_vectored
        free == segs[1].len + segs[2].len
        n == IF Len(s) <= free THEN Len(s) ELSE free
    IN  /\ n > 0
        /\ buffer' = Scatter(s, n)
        /\ commit_write(n)
        /\ call' = <<"insert", s>>

(* Forgets the n > 0 oldest elements, at most all of them. *)
commit_read(n) ==
    LET k == IF n > size THEN size ELSE n
    IN  /\ head' = (head + k) % cap
        /\ full' = FALSE
        /\ call' = <<"read", n>>
        /\ UNCHANGED <<buffer, cap, tail>>

MaxCommit == cap + 1        \* one more than can ever be stored

Next == \/ \E n \in Capacities : set_capacity(n)
        \/ clear
        \/ pop_front
        \/ \E v \in Value : push_back(v)
        \/ \E s \in Batches : insert(s)
        \/ \E n \in 1..MaxCommit : commit_read(n)

Spec == Init /\ [][Next]_vars

-----------------------------------------------------------------------------
(* The two extracting operations, which nothing in the library calls.  The
   storage a swap leaves behind is whatever the caller's variable held. *)

(* `if(head_==buffer_.size()-1);` has an empty body: head_ is 0 afterwards. *)
extract_front(v) == /\ ~empty
                    /\ buffer' = [buffer EXCEPT ![head] = v]
                    /\ head' = 0
                    /\ UNCHANGED <<cap, tail, full, call>>

(* With tail_ = 0 the element read is buffer_[-1]: no cell of the model. *)
extract_back(v) == /\ ~empty
                   /\ buffer' = IF tail = 0 THEN buffer
                                ELSE [buffer EXCEPT ![tail - 1] = v]
                   /\ tail' = IF tail = 0 THEN cap ELSE tail - 1
                   /\ UNCHANGED <<cap, head, full, call>>

(* Stops once tail_ is no longer an index: what push_back does then is
   undefined. *)
NextExtract == /\ tail < cap
               /\ Next \/ \E v \in Value : extract_front(v) \/ extract_back(v)
SpecExtract == Init /\ [][NextExtract]_vars

-----------------------------------------------------------------------------
(* The properties. *)

(* full_ is needed only to tell full from empty, so it is set only while
   head_ and tail_ meet: the field comment of full_. *)
FullOnlyWhenMeeting == full => head = tail

(* write_vectored() and read_vectored() split the storage: every cell is in
   exactly one of the four segments, so readv never writes over data that has
   not been consumed and no cell is lost to both sides. *)
SegmentsPartition ==
    LET w == write_vectored
        r == read_vectored
    IN  /\ Cells(w[1]) \cup Cells(w[2]) \cup Cells(r[1]) \cup Cells(r[2]) = 0..(cap - 1)
        /\ Cells(w[1]) \cap Cells(w[2]) = {}
        /\ Cells(r[1]) \cap Cells(r[2]) = {}
        /\ (Cells(w[1]) \cup Cells(w[2])) \cap (Cells(r[1]) \cup Cells(r[2])) = {}

(* The three ways to read the ring agree, in order: the segments writev sends
   from, the spans the deserializer is given, and the iterators.  data() is
   left out when the ring is empty, where it yields stale cells. *)
ReadersAgree == /\ Gather(read_vectored) = Contents
                /\ ~empty => Gather(data) = Contents

(* The ring is a FIFO queue: Contents starts empty, insertion appends the
   longest prefix that fits, consumption drops a prefix, and nothing else
   ever changes it. *)
Queue == INSTANCE ByteQueue WITH queue <- Contents
ImplementsQueue == Queue!Spec
=============================================================================
