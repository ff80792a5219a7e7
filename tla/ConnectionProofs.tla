-------------------------- MODULE ConnectionProofs --------------------------
(***************************************************************************)
(* Proofs about the buffers of a connection and its sending side:          *)
(* RingBuffer for every element type, every set of batches and every       *)
(* capacity, VectorizedBuffer for any number of bytes and any division of  *)
(* them into values and writes, and SendPath for every kernel buffer size  *)
(* and every number of bytes.                                              *)
(***************************************************************************)
EXTENDS RingBuffer, VectorizedBuffer, SendPath, SequenceTheorems, TLAPS

-----------------------------------------------------------------------------
(* RingBuffer *)

(* Indices are advanced by at most one turn, so a remainder is one
   subtraction. *)
LEMMA OneTurn ==
  ASSUME NEW c \in Nat \ {0}, NEW a \in Nat, a < c + c
  PROVE  a % c = IF a < c THEN a ELSE a - c
  OBVIOUS

(* An index advanced by at most one turn. *)
LEMMA Advance ==
  ASSUME NEW c \in Nat \ {0}, NEW i \in 0..(c - 1), NEW k \in 0..c
  PROVE  /\ (i + k) % c = IF i + k < c THEN i + k ELSE (i + k) - c
         /\ (i + k) % c \in 0..(c - 1)
  <1>1. i + k \in Nat /\ i + k < c + c
    OBVIOUS
  <1>2. (i + k) % c = IF i + k < c THEN i + k ELSE (i + k) - c
    BY <1>1, OneTurn
  <1>. QED BY <1>2

(* The inductive invariant: the indices are cells and full_ is set only
   while they meet. *)
IndInv == TypeOK /\ FullOnlyWhenMeeting

(* The capacity of a buffer in a typed state. *)
LEMMA CapPositive ==
  ASSUME TypeOK PROVE cap \in Nat \ {0}
  BY CapacitiesAssumption DEF TypeOK

(* size() is a number of elements the storage can hold, and is 0 exactly
   when empty() says so. *)
LEMMA SizeBounds ==
  ASSUME IndInv
  PROVE  size \in 0..cap /\ (size = 0 <=> empty) /\ (size = cap <=> full)
  BY CapPositive DEF IndInv, TypeOK, size, empty, FullOnlyWhenMeeting

(* The free segments hold exactly the elements that still fit, and each of
   their positions is a cell. *)
LEMMA FreeSegments ==
  ASSUME IndInv
  PROVE  /\ write_vectored[1].len \in 0..cap
         /\ write_vectored[2].len \in 0..cap
         /\ write_vectored[1].len + write_vectored[2].len = cap - size
         /\ \A k \in 0..(cap - size - 1) :
               CellOf(write_vectored, k) = (tail + k) % cap
  <1>0. cap \in Nat \ {0}
    BY CapPositive DEF IndInv
  <1>. USE <1>0
  <1>1. CASE full
    BY <1>1 DEF IndInv, TypeOK, write_vectored, NoSegment, Segment, CellOf, size
  <1>2. CASE ~full /\ head <= tail
    <2>1. write_vectored = <<Segment(tail, cap - tail), IF head > 0 THEN Segment(0, head) ELSE NoSegment>>
      BY <1>2 DEF write_vectored
    <2>2. /\ write_vectored[1] = [base |-> tail, len |-> cap - tail]
          /\ write_vectored[2] = [base |-> 0, len |-> head]
      BY <2>1, <1>2 DEF IndInv, TypeOK, NoSegment, Segment
    <2>3. size = tail - head
      BY <1>2 DEF IndInv, TypeOK, size
    <2>4. ASSUME NEW k \in 0..(cap - size - 1)
          PROVE  CellOf(write_vectored, k) = (tail + k) % cap
      <3>1. tail + k \in Nat /\ tail + k < cap + cap
        BY <2>3, <2>4, <1>2 DEF IndInv, TypeOK
      <3>2. (tail + k) % cap = IF tail + k < cap THEN tail + k ELSE (tail + k) - cap
        BY <3>1, OneTurn
      <3>. QED BY <3>2, <2>2, <2>3, <2>4, <1>2 DEF IndInv, TypeOK, CellOf
    <2>. QED BY <2>2, <2>3, <2>4, <1>2 DEF IndInv, TypeOK
  <1>3. CASE ~full /\ head > tail
    <2>1. /\ write_vectored[1] = [base |-> tail, len |-> head - tail]
          /\ write_vectored[2] = [base |-> 0, len |-> 0]
      BY <1>3 DEF IndInv, TypeOK, write_vectored, NoSegment, Segment
    <2>2. size = (cap - head) + tail
      BY <1>3 DEF IndInv, TypeOK, size
    <2>3. ASSUME NEW k \in 0..(cap - size - 1)
          PROVE  CellOf(write_vectored, k) = (tail + k) % cap
      <3>1. tail + k \in Nat /\ tail + k < cap
        BY <2>2, <2>3, <1>3 DEF IndInv, TypeOK
      <3>2. (tail + k) % cap = tail + k
        BY <3>1, OneTurn
      <3>. QED BY <3>1, <3>2, <2>1, <2>2, <2>3, <1>3 DEF IndInv, TypeOK, CellOf
    <2>. QED BY <2>1, <2>2, <2>3, <1>3 DEF IndInv, TypeOK
  <1>. QED BY <1>1, <1>2, <1>3 DEF IndInv, TypeOK

(* Every operation preserves the invariant. *)
LEMMA StepIndInv ==
  ASSUME IndInv, Next
  PROVE  IndInv'
  <1>0. cap \in Nat \ {0} /\ size \in 0..cap
    BY CapPositive, SizeBounds DEF IndInv
  <1>1. ASSUME NEW n \in Capacities, set_capacity(n) PROVE IndInv'
    <2>1. n \in Nat \ {0}
      BY CapacitiesAssumption
    <2>2. buffer' \in [0..(cap' - 1) -> Value]
      BY <1>0, <1>1, <2>1, ValueAssumption DEF IndInv, TypeOK, set_capacity
    <2>3. cap' \in Capacities /\ 0 \in 0..(cap' - 1)
      BY <1>1, <2>1 DEF set_capacity
    <2>. QED BY <1>1, <2>2, <2>3, Zenon
         DEF IndInv, TypeOK, FullOnlyWhenMeeting, set_capacity
  <1>2. CASE clear
    <2>1. 0 \in 0..(cap - 1)
      BY <1>0
    <2>. QED BY <1>2, <2>1, Zenon DEF IndInv, TypeOK, FullOnlyWhenMeeting, clear
  <1>3. CASE pop_front
    <2>1. (head + 1) % cap \in 0..(cap - 1)
      BY <1>0, OneTurn DEF IndInv, TypeOK
    <2>. QED BY <1>0, <1>3, <2>1 DEF IndInv, TypeOK, FullOnlyWhenMeeting, pop_front
  <1>4. ASSUME NEW v \in Value, push_back(v) PROVE IndInv'
    BY <1>0, <1>4 DEF IndInv, TypeOK, FullOnlyWhenMeeting, push_back
  <1>5. ASSUME NEW s \in Batches, insert(s) PROVE IndInv'
    <2>1. PICK n \in 1..(cap - size) : /\ n <= Len(s)
                                       /\ buffer' = Scatter(s, n)
                                       /\ commit_write(n)
      BY <1>0, <1>5, FreeSegments, BatchesAssumption DEF insert
    <2>2. (tail + n) % cap \in 0..(cap - 1)
      BY <1>0, OneTurn DEF IndInv, TypeOK
    <2>3. tail' = (tail + n) % cap /\ full' = (tail' = head) /\ UNCHANGED <<cap, head>>
      BY <1>0, <2>1 DEF commit_write
    <2>4. Scatter(s, n) \in [0..(cap - 1) -> Value]
      <3>. SUFFICES ASSUME NEW c \in 0..(cap - 1)
                    PROVE  Scatter(s, n)[c] \in Value
        BY DEF Scatter
      <3>1. CASE \E k \in 0..(n - 1) : CellOf(write_vectored, k) = c
        <4>. DEFINE j == CHOOSE k \in 0..(n - 1) : CellOf(write_vectored, k) = c
        <4>1. j \in 0..(n - 1)
          BY <3>1
        <4>2. s \in Seq(Value) /\ 1 + j \in 1..Len(s)
          BY <1>0, <2>1, <4>1, BatchesAssumption
        <4>3. Scatter(s, n)[c] = s[1 + j]
          BY <3>1 DEF Scatter
        <4>. QED BY <4>2, <4>3
      <3>2. CASE ~ \E k \in 0..(n - 1) : CellOf(write_vectored, k) = c
        BY <3>2 DEF Scatter, IndInv, TypeOK
      <3>. QED BY <3>1, <3>2
    <2>. QED BY <1>0, <2>1, <2>2, <2>3, <2>4 DEF IndInv, TypeOK, FullOnlyWhenMeeting
  <1>6. ASSUME NEW n \in 1..MaxCommit, commit_read(n) PROVE IndInv'
    <2>1. PICK k \in 0..cap : head' = (head + k) % cap
      BY <1>0, <1>6 DEF commit_read, MaxCommit
    <2>2. (head + k) % cap \in 0..(cap - 1)
      BY <1>0, OneTurn DEF IndInv, TypeOK
    <2>. QED BY <1>0, <1>6, <2>1, <2>2 DEF IndInv, TypeOK, FullOnlyWhenMeeting, commit_read
  <1>. QED BY <1>1, <1>2, <1>3, <1>4, <1>5, <1>6 DEF Next

(* The initial ring satisfies the invariant. *)
LEMMA InitIndInv ==
  ASSUME Init PROVE IndInv
  <1>1. cap \in Nat \ {0}
    BY CapacitiesAssumption DEF Init
  <1>2. 0 \in 0..(cap - 1)
    BY <1>1
  <1>. QED BY <1>2, ValueAssumption, Zenon DEF Init, IndInv, TypeOK, FullOnlyWhenMeeting

(* Every reachable ring has both indices on cells and full_ set only while
   they meet. *)
THEOREM Invariance == Spec => []IndInv
  <1>1. Init => IndInv
    BY InitIndInv
  <1>2. IndInv /\ [Next]_vars => IndInv'
    <2>. SUFFICES ASSUME IndInv, [Next]_vars PROVE IndInv'
      OBVIOUS
    <2>1. CASE Next
      BY <2>1, StepIndInv
    <2>2. CASE UNCHANGED vars
      BY <2>2, Zenon DEF vars, IndInv, TypeOK, FullOnlyWhenMeeting
    <2>. QED BY <2>1, <2>2
  <1>. QED BY <1>1, <1>2, PTL DEF Spec

(* Type correctness of the ring: no operation ever moves an index out of the
   storage, whatever the capacity. *)
THEOREM TypeCorrect == Spec => []TypeOK
  <1>1. IndInv => TypeOK
    BY DEF IndInv
  <1>. QED BY <1>1, Invariance, PTL

(* The field comment of full_ holds of every operation but the extracting
   ones. *)
THEOREM FullIsOneBit == Spec => []FullOnlyWhenMeeting
  <1>1. IndInv => FullOnlyWhenMeeting
    BY DEF IndInv
  <1>. QED BY <1>1, Invariance, PTL

(* The segments given to readv and writev never overlap and lose no cell. *)
THEOREM NoOverlap == Spec => []SegmentsPartition
  <1>1. ASSUME IndInv PROVE SegmentsPartition
    <2>0. cap \in Nat \ {0}
      BY <1>1, CapPositive DEF IndInv
    <2>1. CASE full
      BY <1>1, <2>0, <2>1 DEF IndInv, TypeOK, FullOnlyWhenMeeting, SegmentsPartition,
           write_vectored, read_vectored, empty, NoSegment, Segment, Cells
    <2>2. CASE ~full /\ head = tail
      BY <1>1, <2>0, <2>2 DEF IndInv, TypeOK, SegmentsPartition,
           write_vectored, read_vectored, empty, NoSegment, Segment, Cells
    <2>3. CASE ~full /\ head < tail
      BY <1>1, <2>0, <2>3 DEF IndInv, TypeOK, SegmentsPartition,
           write_vectored, read_vectored, empty, NoSegment, Segment, Cells
    <2>4. CASE ~full /\ head > tail
      BY <1>1, <2>0, <2>4 DEF IndInv, TypeOK, SegmentsPartition,
           write_vectored, read_vectored, empty, NoSegment, Segment, Cells
    <2>. QED BY <1>1, <2>1, <2>2, <2>3, <2>4 DEF IndInv, TypeOK
  <1>. QED BY <1>1, Invariance, PTL

(* The segments to send from hold size() elements, in the order of the
   iterators. *)
LEMMA UsedSegments ==
  ASSUME IndInv
  PROVE  Gather(read_vectored) = Contents
  <1>0. cap \in Nat \ {0} /\ head \in 0..(cap - 1) /\ tail \in 0..(cap - 1)
    BY CapPositive DEF IndInv, TypeOK
  <1>1. ASSUME NEW k \in Nat, k < cap
        PROVE  (head + k) % cap = IF head + k < cap THEN head + k ELSE (head + k) - cap
    <2>1. k \in 0..cap
      BY <1>0, <1>1
    <2>. QED BY <1>0, <2>1, Advance
  <1>2. CASE empty
    <2>1. read_vectored[1].len + read_vectored[2].len = 0 /\ size = 0
      BY <1>0, <1>2 DEF read_vectored, NoSegment, Segment, size, empty
    <2>. QED BY <2>1 DEF Gather, Contents
  <1>3. CASE ~empty /\ head < tail
    <2>1. /\ read_vectored[1] = [base |-> head, len |-> tail - head]
          /\ read_vectored[2] = [base |-> 0, len |-> 0]
      BY <1>3 DEF read_vectored, NoSegment, Segment
    <2>2. size = tail - head
      BY <1>0, <1>3 DEF IndInv, FullOnlyWhenMeeting, size
    <2>3. ASSUME NEW i \in 1..size PROVE CellOf(read_vectored, i - 1) = (head + (i - 1)) % cap
      <3>1. i - 1 \in Nat /\ i - 1 < cap /\ i - 1 < tail - head
        BY <1>0, <2>2
      <3>. QED BY <1>0, <1>1, <2>1, <3>1 DEF CellOf
    <2>4. read_vectored[1].len + read_vectored[2].len = size
      BY <1>0, <2>1, <2>2
    <2>. QED BY <2>3, <2>4 DEF Gather, Contents, data_at
  <1>4. CASE ~empty /\ ~(head < tail)
    <2>1. /\ read_vectored[1] = [base |-> head, len |-> cap - head]
          /\ read_vectored[2] = [base |-> 0, len |-> tail]
      BY <1>4 DEF read_vectored, Segment
    <2>2. size = (cap - head) + tail
      BY <1>0, <1>4 DEF IndInv, FullOnlyWhenMeeting, size, empty
    <2>3. ASSUME NEW i \in 1..size PROVE CellOf(read_vectored, i - 1) = (head + (i - 1)) % cap
      <3>1. i - 1 \in Nat /\ i - 1 < cap
        BY <1>0, <1>4, <2>2
      <3>. QED BY <1>0, <1>1, <1>4, <2>1, <3>1 DEF CellOf
    <2>4. read_vectored[1].len + read_vectored[2].len = size
      BY <1>0, <2>1, <2>2
    <2>. QED BY <2>3, <2>4 DEF Gather, Contents, data_at
  <1>. QED BY <1>2, <1>3, <1>4

(* writev, the deserializer and the iterators see the same bytes in the same
   order, whatever the capacity and however the ring wrapped. *)
THEOREM ReadersSeeTheSame == Spec => []ReadersAgree
  <1>1. ASSUME IndInv PROVE ReadersAgree
    <2>1. ~empty => data = read_vectored
      BY DEF data, read_vectored
    <2>. QED BY <1>1, <2>1, UsedSegments DEF ReadersAgree
  <1>. QED BY <1>1, Invariance, PTL

-----------------------------------------------------------------------------
(* The refinement: Contents behaves as a FIFO queue. *)

(* Two advances of an index are one. *)
LEMMA AdvanceTwice ==
  ASSUME NEW c \in Nat \ {0}, NEW i \in 0..(c - 1), NEW k \in Nat, NEW j \in Nat, k + j <= c
  PROVE  (((i + k) % c) + j) % c = (i + (k + j)) % c
  <1>0. k \in 0..c /\ j \in 0..c /\ k + j \in 0..c
    OBVIOUS
  <1>1. (i + k) % c = IF i + k < c THEN i + k ELSE (i + k) - c
    BY <1>0, Advance
  <1>2. (i + (k + j)) % c = IF i + (k + j) < c THEN i + (k + j) ELSE (i + (k + j)) - c
    BY <1>0, Advance
  <1>3. (i + k) % c \in 0..(c - 1)
    BY <1>1
  <1>4. (((i + k) % c) + j) % c = IF ((i + k) % c) + j < c THEN ((i + k) % c) + j ELSE (((i + k) % c) + j) - c
    BY <1>0, <1>3, Advance
  <1>. QED BY <1>1, <1>2, <1>4

(* Distinct offsets below one turn reach distinct cells. *)
LEMMA AdvanceInjective ==
  ASSUME NEW c \in Nat \ {0}, NEW i \in 0..(c - 1),
         NEW k \in 0..(c - 1), NEW j \in 0..(c - 1), (i + k) % c = (i + j) % c
  PROVE  k = j
  <1>0. k \in 0..c /\ j \in 0..c
    OBVIOUS
  <1>1. (i + k) % c = IF i + k < c THEN i + k ELSE (i + k) - c
    BY <1>0, Advance
  <1>2. (i + j) % c = IF i + j < c THEN i + j ELSE (i + j) - c
    BY <1>0, Advance
  <1>. QED BY <1>1, <1>2

(* tail_ is head_ advanced by size(). *)
LEMMA TailFromHead ==
  ASSUME IndInv PROVE tail = (head + size) % cap
  <1>1. cap \in Nat \ {0} /\ size \in 0..cap
    BY CapPositive, SizeBounds DEF IndInv
  <1>2. (head + size) % cap = IF head + size < cap THEN head + size ELSE (head + size) - cap
    BY <1>1, Advance DEF IndInv, TypeOK
  <1>. QED BY <1>1, <1>2 DEF IndInv, TypeOK, FullOnlyWhenMeeting, size

(* size() is determined by the two indices and full_: an advance of head_ by
   k stored elements shrinks it by k. *)
LEMMA SizeAfterRead ==
  ASSUME IndInv, NEW k \in 0..size, k > 0 \/ ~full, cap' = cap, tail' = tail, full' = FALSE,
         head' = (head + k) % cap
  PROVE  size' = size - k
  <1>1. cap \in Nat \ {0} /\ size \in 0..cap
    BY CapPositive, SizeBounds DEF IndInv
  <1>0. head \in 0..(cap - 1) /\ k \in 0..cap
    BY <1>1 DEF IndInv, TypeOK
  <1>2. (head + k) % cap = IF head + k < cap THEN head + k ELSE (head + k) - cap
    BY <1>0, <1>1, Advance
  <1>. QED BY <1>1, <1>2 DEF IndInv, TypeOK, FullOnlyWhenMeeting, size

(* An advance of tail_ by k free cells grows it by k. *)
LEMMA SizeAfterWrite ==
  ASSUME IndInv, NEW k \in 1..(cap - size), cap' = cap, head' = head,
         tail' = (tail + k) % cap, full' = (tail' = head)
  PROVE  size' = size + k
  <1>1. cap \in Nat \ {0} /\ size \in 0..cap
    BY CapPositive, SizeBounds DEF IndInv
  <1>0. tail \in 0..(cap - 1) /\ k \in 0..cap
    BY <1>1 DEF IndInv, TypeOK
  <1>2. (tail + k) % cap = IF tail + k < cap THEN tail + k ELSE (tail + k) - cap
    BY <1>0, <1>1, Advance
  <1>3. ~full /\ head \in 0..(cap - 1) /\ size = IF tail >= head THEN tail - head ELSE (cap - head) + tail
    BY <1>1 DEF IndInv, TypeOK, size
  <1>4. CASE tail' = head
    <2>1. full'
      BY <1>4
    <2>2. size' = cap
      BY <2>1 DEF size
    <2>. QED BY <1>0, <1>1, <1>2, <1>3, <1>4, <2>2
  <1>5. CASE tail' # head
    <2>1. ~full'
      BY <1>5
    <2>2. size' = IF tail' >= head THEN tail' - head ELSE (cap - head) + tail'
      BY <2>1 DEF size
    <2>. QED BY <1>0, <1>1, <1>2, <1>3, <1>5, <2>2
  <1>. QED BY <1>4, <1>5

(* Contents is a sequence of values of length size(). *)
LEMMA ContentsType ==
  ASSUME IndInv PROVE Contents \in Seq(Value) /\ Len(Contents) = size /\ size \in Nat
  <1>1. cap \in Nat \ {0} /\ size \in 0..cap
    BY CapPositive, SizeBounds DEF IndInv
  <1>2. ASSUME NEW i \in 1..size PROVE data_at(i - 1) \in Value
    <2>1. (head + (i - 1)) % cap \in 0..(cap - 1)
      BY <1>1, Advance DEF IndInv, TypeOK
    <2>. QED BY <2>1 DEF data_at, IndInv, TypeOK
  <1>. QED BY <1>1, <1>2 DEF Contents

(* Advancing head_ over k stored elements removes the k oldest. *)
LEMMA ReadIsDequeue ==
  ASSUME IndInv, NEW k \in 0..size, k > 0 \/ ~full,
         cap' = cap, buffer' = buffer, tail' = tail, full' = FALSE,
         head' = (head + k) % cap
  PROVE  Contents' = SubSeq(Contents, k + 1, Len(Contents))
  <1>1. cap \in Nat \ {0} /\ size \in 0..cap /\ head \in 0..(cap - 1)
    BY CapPositive, SizeBounds DEF IndInv, TypeOK
  <1>2. size' = size - k
    BY SizeAfterRead
  <1>3. Contents \in Seq(Value) /\ Len(Contents) = size
    BY ContentsType
  <1>4. Contents' = [i \in 1..(size - k) |-> buffer[(head' + (i - 1)) % cap]]
    BY <1>2 DEF Contents, data_at
  <1>5. ASSUME NEW i \in 1..(size - k)
        PROVE  buffer[(head' + (i - 1)) % cap] = Contents[i + k]
    <2>1. (head' + (i - 1)) % cap = (head + (k + (i - 1))) % cap
      BY <1>1, <1>5, AdvanceTwice
    <2>2. i + k \in 1..size /\ k + (i - 1) = (i + k) - 1
      BY <1>1, <1>5
    <2>. QED BY <2>1, <2>2 DEF Contents, data_at
  <1>6. SubSeq(Contents, k + 1, Len(Contents)) = [i \in 1..(size - k) |-> Contents[i + k]]
    BY <1>1, <1>3
  <1>. QED BY <1>4, <1>5, <1>6

(* Writing the first n elements of s from tail_ on and advancing tail_ over
   them appends them. *)
LEMMA WriteIsEnqueue ==
  ASSUME IndInv, NEW s \in Seq(Value), NEW n \in 1..(cap - size), n <= Len(s),
         \A j \in 0..(n - 1) : buffer'[(tail + j) % cap] = s[1 + j],
         \A c \in 0..(cap - 1) : (\A j \in 0..(n - 1) : (tail + j) % cap # c) => buffer'[c] = buffer[c],
         cap' = cap, head' = head, tail' = (tail + n) % cap, full' = (tail' = head)
  PROVE  Contents' = Contents \o SubSeq(s, 1, n)
  <1>1. cap \in Nat \ {0} /\ size \in 0..cap /\ head \in 0..(cap - 1)
    BY CapPositive, SizeBounds DEF IndInv, TypeOK
  <1>2. size' = size + n
    BY SizeAfterWrite
  <1>3. Contents \in Seq(Value) /\ Len(Contents) = size
    BY ContentsType
  <1>4. Contents' = [i \in 1..(size + n) |-> buffer'[(head + (i - 1)) % cap]]
    BY <1>2 DEF Contents, data_at
  <1>5. ASSUME NEW j \in Nat, size + j < cap
        PROVE  (tail + j) % cap = (head + (size + j)) % cap
    <2>1. size \in Nat /\ size + j <= cap
      BY <1>1, <1>5
    <2>2. (((head + size) % cap) + j) % cap = (head + (size + j)) % cap
      BY <1>1, <2>1, AdvanceTwice
    <2>. QED BY <2>2, TailFromHead
  <1>6. ASSUME NEW i \in 1..size PROVE buffer'[(head + (i - 1)) % cap] = Contents[i]
    <2>1. ASSUME NEW j \in 0..(n - 1) PROVE (tail + j) % cap # (head + (i - 1)) % cap
      <3>1. (tail + j) % cap = (head + (size + j)) % cap
        BY <1>1, <1>5
      <3>2. i - 1 \in 0..(cap - 1) /\ size + j \in 0..(cap - 1) /\ i - 1 # size + j
        BY <1>1
      <3>. QED BY <1>1, <3>1, <3>2, AdvanceInjective
    <2>2. i - 1 \in 0..cap
      BY <1>1
    <2>3. (head + (i - 1)) % cap \in 0..(cap - 1)
      BY <1>1, <2>2, Advance
    <2>. QED BY <2>1, <2>3 DEF Contents, data_at
  <1>7. ASSUME NEW i \in (size + 1)..(size + n)
        PROVE  buffer'[(head + (i - 1)) % cap] = s[i - size]
    <2>. DEFINE j == i - size - 1
    <2>1. j \in 0..(n - 1) /\ size + j < cap /\ size + j = i - 1 /\ 1 + j = i - size
      BY <1>1
    <2>2. (tail + j) % cap = (head + (i - 1)) % cap
      BY <2>1, <1>5
    <2>. QED BY <2>1, <2>2
  <1>8. Contents \o SubSeq(s, 1, n)
          = [i \in 1..(size + n) |-> IF i <= size THEN Contents[i] ELSE s[i - size]]
    <2>. DEFINE sub == SubSeq(s, 1, n)
    <2>1. sub \in Seq(Value) /\ Len(sub) = n /\ \A i \in 1..n : sub[i] = s[i]
      BY <1>1, SubSeqProperties
    <2>. HIDE DEF sub
    <2>2. /\ Contents \o sub \in Seq(Value)
          /\ Len(Contents \o sub) = size + n
          /\ \A i \in 1..(size + n) :
                (Contents \o sub)[i] = IF i <= size THEN Contents[i] ELSE sub[i - size]
      BY <1>1, <1>3, <2>1, ConcatProperties
    <2>3. ASSUME NEW i \in 1..(size + n), ~(i <= size) PROVE sub[i - size] = s[i - size]
      BY <1>1, <2>1, <2>3
    <2>4. Contents \o sub = [i \in 1..Len(Contents \o sub) |-> (Contents \o sub)[i]]
      BY <2>2, LenProperties, Zenon
    <2>. QED BY <2>2, <2>3, <2>4 DEF sub
  <1>9. ASSUME NEW i \in 1..(size + n)
        PROVE  buffer'[(head + (i - 1)) % cap] = IF i <= size THEN Contents[i] ELSE s[i - size]
    <2>1. CASE i <= size
      BY <1>1, <1>6, <2>1
    <2>2. CASE i > size
      <3>1. i \in (size + 1)..(size + n)
        BY <1>1, <2>2
      <3>2. buffer'[(head + (i - 1)) % cap] = s[i - size]
        BY <1>7, <3>1, Zenon
      <3>3. ~(i <= size)
        BY <1>1, <2>2
      <3>. QED BY <3>2, <3>3, Zenon
    <2>. QED BY <1>1, <2>1, <2>2
  <1>. QED BY <1>4, <1>8, <1>9

(* Every operation on the ring is an operation on the queue, or none. *)
LEMMA StepSimulation ==
  ASSUME IndInv, Next
  PROVE  Queue!Next
  <1>1. cap \in Nat \ {0} /\ size \in 0..cap /\ head \in 0..(cap - 1) /\ tail \in 0..(cap - 1)
    BY CapPositive, SizeBounds DEF IndInv, TypeOK
  <1>2. Contents \in Seq(Value) /\ Len(Contents) = size
    BY ContentsType
  <1>3. ASSUME NEW n \in Capacities, set_capacity(n) PROVE Queue!Next
    <2>1. head' = 0 /\ tail' = 0 /\ full' = FALSE /\ cap' = n
      BY <1>3 DEF set_capacity
    <2>2. size' = 0
      BY <2>1 DEF size
    <2>3. Contents' = <<>>
      BY <2>2 DEF Contents
    <2>4. call' = <<"reset", n>>
      BY <1>3 DEF set_capacity
    <2>. QED BY <2>1, <2>3, <2>4 DEF Queue!Next, Queue!Reset
  <1>4. CASE clear
    <2>1. head' = 0 /\ tail' = 0 /\ full' = FALSE /\ cap' = cap
      BY <1>4 DEF clear
    <2>2. size' = 0
      BY <2>1 DEF size
    <2>3. Contents' = <<>>
      BY <2>2 DEF Contents
    <2>4. cap \in Capacities
      BY DEF IndInv, TypeOK
    <2>5. call' = <<"reset", cap>>
      BY <1>4 DEF clear
    <2>. QED BY <2>1, <2>3, <2>4, <2>5 DEF Queue!Next, Queue!Reset
  <1>5. CASE pop_front
    <2>1. PICK k \in 0..size : k = 1 /\ k > 0
      BY <1>1, <1>5, SizeBounds DEF pop_front
    <2>3. cap' = cap /\ buffer' = buffer /\ tail' = tail /\ full' = FALSE /\ head' = (head + k) % cap
      BY <1>5, <2>1 DEF pop_front
    <2>2. Contents' = SubSeq(Contents, k + 1, Len(Contents))
      BY <2>1, <2>3, ReadIsDequeue
    <2>4. call' = <<"read", k>>
      BY <1>5, <2>1 DEF pop_front
    <2>5. Queue!Dequeue(k)
      BY <1>1, <1>2, <2>1, <2>2, <2>3, <2>4 DEF Queue!Dequeue
    <2>6. k \in 1..(cap + 1)
      BY <1>1, <2>1
    <2>. QED BY <2>5, <2>6 DEF Queue!Next
  <1>6. ASSUME NEW v \in Value, push_back(v) PROVE Queue!Next
    <2>1. size < cap
      BY <1>1, <1>6, SizeBounds DEF push_back
    <2>2. tail' = (tail + 1) % cap
      <3>1. 1 \in 0..cap
        BY <1>1
      <3>2. (tail + 1) % cap = IF tail + 1 < cap THEN tail + 1 ELSE (tail + 1) - cap
        BY <1>1, <3>1, Advance
      <3>. QED BY <1>1, <1>6, <3>2 DEF push_back
    <2>3. tail % cap = tail /\ tail + 0 = tail
      BY <1>1
    <2>4. \A j \in 0..(1 - 1) : (tail + j) % cap = tail /\ <<v>>[1 + j] = v
      BY <1>1, <2>3
    <2>5. /\ \A j \in 0..(1 - 1) : buffer'[(tail + j) % cap] = <<v>>[1 + j]
          /\ \A c \in 0..(cap - 1) :
                (\A j \in 0..(1 - 1) : (tail + j) % cap # c) => buffer'[c] = buffer[c]
      <3>1. buffer' = [buffer EXCEPT ![tail] = v] /\ DOMAIN buffer = 0..(cap - 1)
        BY <1>6 DEF push_back, IndInv, TypeOK
      <3>2. 0 \in 0..(1 - 1)
        OBVIOUS
      <3>. QED BY <1>1, <2>4, <3>1, <3>2, Zenon
    <2>6. <<v>> \in Seq(Value) /\ Len(<<v>>) = 1 /\ 1 \in 1..(cap - size) /\ 1 <= Len(<<v>>)
      BY <1>1, <2>1
    <2>7. cap' = cap /\ head' = head /\ full' = (tail' = head)
      BY <1>6 DEF push_back
    <2>8. Contents' = Contents \o SubSeq(<<v>>, 1, 1)
      BY <2>2, <2>5, <2>6, <2>7, WriteIsEnqueue, Zenon
    <2>9. Queue!Enqueue(<<v>>)
      <3>1. call' = <<"insert", <<v>>>>
        BY <1>6 DEF push_back
      <3>2. Len(<<v>>) <= cap - Len(Contents)
        BY <1>1, <1>2, <2>1, <2>6
      <3>. QED BY <2>6, <2>7, <2>8, <3>1, <3>2 DEF Queue!Enqueue
    <2>. QED BY <2>9, BatchesAssumption DEF Queue!Next
  <1>7. ASSUME NEW s \in Batches, insert(s) PROVE Queue!Next
    <2>. DEFINE n == IF Len(s) <= cap - size THEN Len(s) ELSE cap - size
    <2>0. s \in Seq(Value)
      BY BatchesAssumption
    <2>1. n \in 1..(cap - size) /\ n <= Len(s) /\ buffer' = Scatter(s, n) /\ commit_write(n)
      BY <1>1, <1>7, <2>0, FreeSegments DEF insert
    <2>. HIDE DEF n
    <2>2. tail' = (tail + n) % cap /\ full' = (tail' = head) /\ cap' = cap /\ head' = head
      BY <1>1, <2>1 DEF commit_write
    <2>3. \A k \in 0..(n - 1) : CellOf(write_vectored, k) = (tail + k) % cap
      BY <1>1, <2>1, FreeSegments
    <2>4. ASSUME NEW j \in 0..(n - 1) PROVE buffer'[(tail + j) % cap] = s[1 + j]
      <3>. DEFINE c == (tail + j) % cap
                  i == CHOOSE k \in 0..(n - 1) : CellOf(write_vectored, k) = c
      <3>1. j \in 0..cap /\ j \in 0..(cap - 1)
        BY <1>1, <2>1
      <3>2. c \in 0..(cap - 1)
        BY <1>1, <3>1, Advance
      <3>3. CellOf(write_vectored, j) = c
        BY <2>3, <2>4
      <3>4. i \in 0..(n - 1) /\ CellOf(write_vectored, i) = c
        BY <3>3
      <3>. HIDE DEF i
      <3>5. i \in 0..(cap - 1) /\ (tail + i) % cap = (tail + j) % cap
        BY <1>1, <2>1, <2>3, <3>4
      <3>6. i = j
        BY <1>1, <3>1, <3>5, AdvanceInjective
      <3>7. Scatter(s, n)[c] = s[1 + i]
        BY <3>2, <3>3 DEF Scatter, i
      <3>. QED BY <2>1, <3>6, <3>7
    <2>5. ASSUME NEW c \in 0..(cap - 1), \A j \in 0..(n - 1) : (tail + j) % cap # c
          PROVE  buffer'[c] = buffer[c]
      BY <2>1, <2>3, <2>5 DEF Scatter
    <2>6. Contents' = Contents \o SubSeq(s, 1, n)
      BY <2>0, <2>1, <2>2, <2>4, <2>5, WriteIsEnqueue
    <2>7. Queue!Enqueue(s)
      <3>1. call' = <<"insert", s>>
        BY <1>7 DEF insert
      <3>. QED BY <1>2, <2>2, <2>6, <3>1 DEF Queue!Enqueue, n
    <2>. QED BY <2>7 DEF Queue!Next
  <1>8. ASSUME NEW n \in 1..MaxCommit, commit_read(n) PROVE Queue!Next
    <2>. DEFINE k == IF n > size THEN size ELSE n
    <2>1. k \in 0..size /\ (k > 0 \/ ~full)
      BY <1>1, <1>8, SizeBounds DEF MaxCommit
    <2>2. head' = (head + k) % cap /\ full' = FALSE /\ buffer' = buffer /\ cap' = cap /\ tail' = tail
      BY <1>8 DEF commit_read
    <2>. HIDE DEF k
    <2>3. Contents' = SubSeq(Contents, k + 1, Len(Contents))
      BY <2>1, <2>2, ReadIsDequeue
    <2>4. call' = <<"read", n>>
      BY <1>8 DEF commit_read
    <2>5. Queue!Dequeue(n)
      BY <1>2, <2>2, <2>3, <2>4 DEF Queue!Dequeue, k
    <2>. QED BY <2>5 DEF Queue!Next, MaxCommit
  <1>. QED BY <1>3, <1>4, <1>5, <1>6, <1>7, <1>8 DEF Next

(* RingBuffer implements ByteQueue: for every capacity and every sequence of
   operations, what the iterators yield changes as a FIFO queue does. *)
THEOREM Refinement == Spec => ImplementsQueue
  <1>1. Init => Queue!Init
    <2>. SUFFICES ASSUME Init PROVE Queue!Init
      OBVIOUS
    <2>1. size = 0
      BY DEF Init, size
    <2>. QED BY <2>1 DEF Init, Queue!Init, Contents
  <1>2. IndInv /\ [Next]_vars => [Queue!Next]_(Queue!vars)
    <2>. SUFFICES ASSUME IndInv, [Next]_vars PROVE [Queue!Next]_(Queue!vars)
      OBVIOUS
    <2>1. CASE Next
      BY <2>1, StepSimulation
    <2>2. CASE UNCHANGED vars
      BY <2>2 DEF vars, Queue!vars, Contents, size, data_at
    <2>. QED BY <2>1, <2>2
  <1>. QED BY <1>1, <1>2, Invariance, PTL DEF Spec, ImplementsQueue, Queue!Spec

-----------------------------------------------------------------------------
(* VectorizedBuffer *)

(* The invariant: the active iovecs form one chain that ends with the last
   byte pushed; and wherever send_vectorized is, the first
   active iovec, the bytes it still has to consume and the kernel's position
   add up. *)
Chain == \A i \in active + 1..Len(vbuf) : vbuf[i].base + vbuf[i].len = Start(i)
InPushed == \A i \in 1..Len(vbuf) : vbuf[i].base <= pushed + 1
Position ==
    /\ next <= pushed + 1
    /\ pc = "idle" => Start(active) = next
    /\ pc = "writev" => /\ active <= idx /\ idx <= Len(vbuf) /\ active < Len(vbuf)
                        /\ Start(idx) = next /\ Start(active) + left = next
    /\ pc = "consume" => \/ Start(active) + left = next
                         \/ next = pushed + 1 /\ Start(active) + left > next
VBIndInv == VBTypeOK /\ OwnTail /\ Chain /\ InPushed /\ NoEmptyRest /\ Position

(* The facts about one iovec that the provers need. *)
LEMMA Element ==
  ASSUME VBTypeOK, NEW i \in 1..Len(vbuf)
  PROVE  /\ vbuf[i] \in Iovec /\ vbuf[i].base \in Nat /\ vbuf[i].len \in Nat
         /\ vbuf[i] = [base |-> vbuf[i].base, len |-> vbuf[i].len]
         /\ Len(vbuf) \in Nat
  <1>1. vbuf[i] \in Iovec /\ Len(vbuf) \in Nat
    BY ElementOfSeq, LenProperties DEF VBTypeOK
  <1>. QED BY <1>1, SizeAssumption DEF Iovec

(* Erasing the consumed iovecs and vectors keeps the shape, and the first
   active byte. *)
LEMMA EraseShape ==
  ASSUME VBTypeOK, OwnTail, Chain, InPushed, NoEmptyRest, Erase, pushed' = pushed
  PROVE  /\ vbuf' \in Seq(Iovec) /\ bufs' \in Seq(Vector)
         /\ active' \in Nat /\ active' <= Len(vbuf')
         /\ OwnTail' /\ Chain' /\ InPushed' /\ NoEmptyRest'
         /\ Start(active)' = Start(active)
  <1>. DEFINE n == Len(vbuf) - active
  <1>1. /\ Len(vbuf) \in Nat /\ Len(bufs) = Len(vbuf) /\ active \in Nat /\ n \in Nat
        /\ vbuf \in Seq(Iovec) /\ bufs \in Seq(Vector)
    BY LenProperties DEF VBTypeOK, OwnTail
  <1>2. vbuf' \in Seq(Iovec) /\ Len(vbuf') = n /\ \A i \in 1..n : vbuf'[i] = vbuf[active + i]
    BY <1>1, SubSeqProperties DEF Erase
  <1>3. bufs' \in Seq(Vector) /\ Len(bufs') = n /\ \A i \in 1..n : bufs'[i] = bufs[active + i]
    BY <1>1, SubSeqProperties DEF Erase
  <1>4. active' = 0
    BY DEF Erase
  <1>5. \A i \in 1..n : active + i \in 1..Len(vbuf)
    BY <1>1
  <1>6. OwnTail'
    BY <1>2, <1>3, <1>5 DEF OwnTail
  <1>7. ASSUME NEW i \in 0..n PROVE Start(i)' = Start(active + i)
    <2>1. CASE i < n
      <3>1. i + 1 \in 1..n /\ active + i < Len(vbuf) /\ active + (i + 1) = active + i + 1
        BY <1>1, <2>1
      <3>. QED BY <1>2, <2>1, <3>1 DEF Start
    <2>2. CASE i = n
      BY <1>1, <1>2, <2>2 DEF Start
    <2>. QED BY <1>1, <2>1, <2>2
  <1>8. Chain'
    <2>. SUFFICES ASSUME NEW i \in 1..n PROVE vbuf'[i].base + vbuf'[i].len = Start(i)'
      BY <1>2, <1>4 DEF Chain
    <2>1. i \in 0..n /\ active + i \in active + 1..Len(vbuf)
      BY <1>1
    <2>. QED BY <1>2, <1>5, <1>7, <2>1 DEF Chain
  <1>9. InPushed'
    BY <1>2, <1>5 DEF InPushed
  <1>10. NoEmptyRest'
    <2>. SUFFICES ASSUME NEW i \in 1..n PROVE vbuf'[i].len > 0
      BY <1>2, <1>4 DEF NoEmptyRest
    <2>1. active + i \in active + 1..Len(vbuf)
      BY <1>1
    <2>. QED BY <1>2, <2>1 DEF NoEmptyRest
  <1>11. Start(0)' = Start(active)
    <2>1. 0 \in 0..n /\ active + 0 = active
      BY <1>1
    <2>. QED BY <1>7, <2>1
  <1>12. Start(active)' = Start(active)
    BY <1>4, <1>11 DEF Start
  <1>. QED BY <1>1, <1>2, <1>3, <1>4, <1>6, <1>8, <1>9, <1>10, <1>12

(* Every step preserves the invariant. *)
LEMMA VBStep ==
  ASSUME VBIndInv, [VBNext]_vbVars
  PROVE  VBIndInv'
  <1>. USE SizeAssumption
  <1>. VBTypeOK /\ OwnTail /\ Chain /\ InPushed /\ NoEmptyRest /\ Position
    BY DEF VBIndInv
  <1>0. /\ Len(vbuf) \in Nat /\ Len(bufs) = Len(vbuf) /\ active \in Nat /\ active <= Len(vbuf)
        /\ pushed \in Nat /\ next \in Nat /\ left \in Nat /\ idx \in Nat
    BY LenProperties DEF VBTypeOK, OwnTail
  <1>1. ASSUME NEW n \in 0..MaxBytes, push_buffer(n) PROVE VBIndInv'
    <2>1. /\ pc = "idle" /\ pushed + n <= MaxBytes /\ pushed' = pushed + n
          /\ UNCHANGED <<active, next, pc, idx, left, stand>>
      BY <1>1 DEF push_buffer
    <2>2. CASE n = 0
      <3>1. UNCHANGED vbVars
        BY <1>0, <1>1, <2>1, <2>2 DEF push_buffer, vbVars
      <3>. QED BY <3>1 DEF vbVars, VBIndInv, VBTypeOK, OwnTail, Chain, InPushed, NoEmptyRest, Position, Start
    <2>3. CASE n # 0
      <3>. DEFINE v == [base |-> pushed + 1, len |-> n]
                  b == [first |-> pushed + 1, size |-> n]
      <3>1. bufs' = Append(bufs, b) /\ vbuf' = Append(vbuf, v)
        BY <1>1, <2>3 DEF push_buffer
      <3>2. v \in Iovec /\ b \in Vector /\ vbuf \in Seq(Iovec) /\ bufs \in Seq(Vector)
        BY <1>0, <2>1, <2>3 DEF VBTypeOK, Iovec, Vector
      <3>3. /\ vbuf' \in Seq(Iovec) /\ Len(vbuf') = Len(vbuf) + 1
            /\ \A i \in 1..Len(vbuf) : vbuf'[i] = vbuf[i]
            /\ vbuf'[Len(vbuf) + 1] = v
        BY <1>0, <3>1, <3>2, AppendProperties
      <3>4. /\ bufs' \in Seq(Vector) /\ Len(bufs') = Len(bufs) + 1
            /\ \A i \in 1..Len(bufs) : bufs'[i] = bufs[i]
            /\ bufs'[Len(bufs) + 1] = b
        BY <1>0, <3>1, <3>2, AppendProperties
      <3>5. VBTypeOK'
        BY <1>0, <2>1, <3>3, <3>4 DEF VBTypeOK
      <3>6. \A i \in 1..(Len(vbuf) + 1) : i \in 1..Len(vbuf) \/ i = Len(vbuf) + 1
        BY <1>0
      <3>7. OwnTail'
        <4>. SUFFICES ASSUME NEW i \in 1..(Len(vbuf) + 1)
                      PROVE  /\ bufs'[i].first <= vbuf'[i].base
                             /\ vbuf'[i].base + vbuf'[i].len = bufs'[i].first + bufs'[i].size
          BY <1>0, <3>3, <3>4 DEF OwnTail
        <4>1. CASE i \in 1..Len(vbuf)
          BY <1>0, <3>3, <3>4, <4>1 DEF OwnTail
        <4>2. CASE i = Len(vbuf) + 1
          <5>1. vbuf'[i] = v /\ bufs'[i] = b
            BY <1>0, <3>3, <3>4, <4>2
          <5>. QED BY <1>0, <5>1
        <4>. QED BY <3>6, <4>1, <4>2
      <3>8. ASSUME NEW i \in 0..Len(vbuf) PROVE Start(i)' = Start(i)
        <4>1. CASE i < Len(vbuf)
          <5>1. i + 1 \in 1..Len(vbuf)
            BY <1>0, <4>1
          <5>. QED BY <1>0, <3>3, <4>1, <5>1 DEF Start
        <4>2. CASE i = Len(vbuf)
          BY <1>0, <3>3, <4>2 DEF Start
        <4>. QED BY <1>0, <4>1, <4>2
      <3>9. Chain'
        <4>. SUFFICES ASSUME NEW i \in active + 1..(Len(vbuf) + 1)
                      PROVE  vbuf'[i].base + vbuf'[i].len = Start(i)'
          BY <2>1, <3>3 DEF Chain
        <4>1. CASE i <= Len(vbuf)
          <5>1. i \in 0..Len(vbuf) /\ i \in 1..Len(vbuf) /\ i \in active + 1..Len(vbuf)
            BY <1>0, <4>1
          <5>. QED BY <3>3, <3>8, <4>1, <5>1 DEF Chain
        <4>2. CASE i = Len(vbuf) + 1
          <5>1. vbuf'[i].base = pushed + 1 /\ vbuf'[i].len = n
            BY <3>3, <4>2
          <5>2. Start(i)' = pushed' + 1
            BY <1>0, <3>3, <4>2 DEF Start
          <5>. QED BY <1>0, <2>1, <5>1, <5>2
        <4>. QED BY <1>0, <4>1, <4>2
      <3>10. InPushed'
        <4>. SUFFICES ASSUME NEW i \in 1..(Len(vbuf) + 1) PROVE vbuf'[i].base <= pushed' + 1
          BY <3>3 DEF InPushed
        <4>1. CASE i \in 1..Len(vbuf)
          <5>1. vbuf'[i] = vbuf[i] /\ vbuf[i].base \in Nat /\ vbuf[i].base <= pushed + 1
            BY <3>3, <4>1, Element DEF InPushed
          <5>. QED BY <1>0, <2>1, <5>1
        <4>2. CASE i = Len(vbuf) + 1
          <5>1. vbuf'[i].base = pushed + 1
            BY <3>3, <4>2
          <5>. QED BY <1>0, <2>1, <5>1
        <4>. QED BY <3>6, <4>1, <4>2
      <3>11. NoEmptyRest'
        <4>. SUFFICES ASSUME NEW i \in active + 1..(Len(vbuf) + 1) PROVE vbuf'[i].len > 0
          BY <2>1, <3>3 DEF NoEmptyRest
        <4>1. CASE i = Len(vbuf) + 1
          BY <2>3, <3>3, <4>1
        <4>2. CASE i # Len(vbuf) + 1
          <5>1. i \in 1..Len(vbuf) /\ i \in active + 1..Len(vbuf)
            BY <1>0, <4>2
          <5>. QED BY <3>3, <5>1 DEF NoEmptyRest
        <4>. QED BY <4>1, <4>2
      <3>12. Position'
        <4>1. Start(active)' = Start(active)
          <5>1. active \in 0..Len(vbuf)
            BY <1>0
          <5>2. Start(active)' = IF active' < Len(vbuf') THEN vbuf'[active' + 1].base ELSE pushed' + 1
            BY DEF Start
          <5>. QED BY <2>1, <3>8, <5>1 DEF Start
        <4>. QED BY <1>0, <2>1, <4>1 DEF Position
      <3>. QED BY <3>5, <3>7, <3>9, <3>10, <3>11, <3>12 DEF VBIndInv
    <2>. QED BY <2>2, <2>3
  <1>2. CASE clear_buffer
    <2>1. /\ vbuf' = <<>> /\ bufs' = <<>> /\ active' = 0 /\ next' = pushed + 1
          /\ pc = "idle" /\ UNCHANGED <<pushed, pc, idx, left, stand>>
      BY <1>2 DEF clear_buffer
    <2>2. Len(vbuf') = 0 /\ Len(bufs') = 0 /\ vbuf' \in Seq(Iovec) /\ bufs' \in Seq(Vector)
      BY <2>1
    <2>3. VBTypeOK'
      BY <1>0, <2>1, <2>2 DEF VBTypeOK
    <2>4. OwnTail' /\ Chain' /\ InPushed' /\ NoEmptyRest'
      BY <2>1, <2>2 DEF OwnTail, Chain, InPushed, NoEmptyRest
    <2>5. Start(active)' = pushed + 1
      BY <2>1, <2>2 DEF Start
    <2>. QED BY <2>1, <2>3, <2>4, <2>5 DEF VBIndInv, Position
  <1>3. CASE compact
    <2>1. Erase /\ pc = "idle" /\ UNCHANGED <<pushed, next, pc, idx, left, stand>>
      BY <1>3 DEF compact
    <2>. QED BY <2>1, EraseShape DEF VBIndInv, VBTypeOK, Position
  <1>4. CASE Consumed
    <2>1. /\ pc = "consume" /\ (left = 0 \/ ~has_to_write) /\ pc' = "idle"
          /\ UNCHANGED <<pushed, next, idx, left, stand>>
      BY <1>4 DEF Consumed
    <2>2. Start(active) = next
      <3>1. CASE left = 0
        <4>1. Start(active) \in Nat /\ Start(active) <= pushed + 1
          <5>1. CASE active < Len(vbuf)
            <6>1. active + 1 \in 1..Len(vbuf)
              BY <1>0, <5>1
            <6>. QED BY <5>1, <6>1, Element DEF Start, InPushed
          <5>2. CASE ~(active < Len(vbuf))
            BY <1>0, <5>2 DEF Start
          <5>. QED BY <5>1, <5>2
        <4>. QED BY <1>0, <2>1, <3>1, <4>1 DEF Position
      <3>2. CASE ~has_to_write
        <4>1. Start(active) = pushed + 1
          BY <3>2 DEF has_to_write, Start
        <4>. QED BY <1>0, <2>1, <4>1 DEF Position
      <3>. QED BY <2>1, <3>1, <3>2
    <2>3. CASE stand
      <3>1. UNCHANGED vbBuffer
        BY <1>4, <2>3 DEF Consumed
      <3>. QED BY <1>0, <2>1, <2>2, <3>1
           DEF vbBuffer, VBIndInv, VBTypeOK, OwnTail, Chain, InPushed, NoEmptyRest, Position, Start
    <2>4. CASE ~stand
      <3>1. Erase
        BY <1>4, <2>4 DEF Consumed
      <3>2. VBTypeOK'
        BY <2>1, <3>1, EraseShape DEF VBTypeOK
      <3>. QED BY <2>1, <2>2, <3>1, <3>2, EraseShape DEF VBIndInv, Position
    <2>. QED BY <2>3, <2>4 DEF VBTypeOK
  <1>5. ASSUME UNCHANGED <<vbBuffer, pushed>> PROVE OwnTail' /\ Chain' /\ InPushed' /\ NoEmptyRest'
    BY <1>5 DEF vbBuffer, OwnTail, Chain, InPushed, NoEmptyRest, Start
  <1>6. ASSUME UNCHANGED <<vbBuffer, pushed>> PROVE Start(active)' = Start(active)
    BY <1>6 DEF vbBuffer, Start
  <1>7. ASSUME NEW s \in BOOLEAN, SendBegin(s) PROVE VBIndInv'
    <2>1. /\ pc = "idle" /\ active < Len(vbuf) /\ pc' = "writev" /\ idx' = active /\ left' = 0
          /\ stand' = s /\ UNCHANGED <<vbBuffer, pushed, next>>
      BY <1>7 DEF SendBegin, has_to_write
    <2>2. VBTypeOK'
      BY <1>0, <2>1 DEF VBTypeOK, vbBuffer
    <2>3. Start(idx)' = Start(active) /\ Start(active) = next
      BY <2>1 DEF Position, Start, vbBuffer
    <2>4. Position'
      BY <1>0, <1>6, <2>1, <2>3 DEF Position, vbBuffer
    <2>. QED BY <1>5, <2>1, <2>2, <2>4 DEF VBIndInv
  <1>8. CASE WouldBlock
    <2>1. /\ pc = "writev" /\ pc' = "consume" /\ left' = Huge /\ next' = pushed + 1
          /\ UNCHANGED <<vbBuffer, pushed, idx, stand>>
      BY <1>8 DEF WouldBlock
    <2>2. VBTypeOK'
      BY <1>0, <2>1 DEF VBTypeOK, vbBuffer
    <2>3. Start(active) \in Nat /\ Start(active) >= 1
      <3>1. active + 1 \in 1..Len(vbuf)
        BY <1>0, <2>1 DEF Position
      <3>2. vbuf[active + 1] \in Iovec
        BY <3>1, Element
      <3>. QED BY <2>1, <3>2 DEF Position, Start, Iovec
    <2>4. pushed + 1 < 1 + Huge
      BY <1>0 DEF VBTypeOK
    <2>5. Position'
      BY <1>0, <1>6, <2>1, <2>3, <2>4 DEF Position
    <2>. QED BY <1>5, <2>1, <2>2, <2>5 DEF VBIndInv
  <1>9. CASE WriteFails
    <2>1. /\ pc = "writev" /\ left = 0 /\ pc' = "idle"
          /\ UNCHANGED <<vbBuffer, pushed, next, idx, left, stand>>
      BY <1>9 DEF WriteFails
    <2>2. VBTypeOK'
      BY <2>1 DEF VBTypeOK, vbBuffer
    <2>3. Start(active) = next
      <3>1. active + 1 \in 1..Len(vbuf)
        BY <1>0, <2>1 DEF Position
      <3>2. Start(active) = vbuf[active + 1].base /\ Start(active) + left = next
        BY <2>1 DEF Position, Start
      <3>3. vbuf[active + 1].base \in Nat
        BY <3>1, Element
      <3>. QED BY <2>1, <3>2, <3>3
    <2>4. Position'
      BY <1>6, <2>1, <2>3 DEF Position
    <2>. QED BY <1>5, <2>1, <2>2, <2>4 DEF VBIndInv
  <1>10. CASE Gathered
    <2>1. /\ pc = "writev" /\ pc' = "consume"
          /\ UNCHANGED <<vbBuffer, pushed, next, idx, left, stand>>
      BY <1>10 DEF Gathered
    <2>2. VBTypeOK'
      BY <2>1 DEF VBTypeOK, vbBuffer
    <2>4. Position'
      BY <1>6, <2>1 DEF Position
    <2>. QED BY <1>5, <2>1, <2>2, <2>4 DEF VBIndInv
  <1>11. ASSUME NEW n \in 1..MaxBytes, GatherSome(n) PROVE VBIndInv'
    <2>1. /\ pc = "writev" /\ idx < Len(vbuf) /\ n <= vbuf[idx + 1].len
          /\ left' = left + n /\ next' = vbuf[idx + 1].base + n
          /\ UNCHANGED <<vbBuffer, pushed, stand>>
      BY <1>0, <1>11 DEF GatherSome, Remaining
    <2>2. /\ idx + 1 \in 1..Len(vbuf) /\ vbuf[idx + 1].base \in Nat /\ vbuf[idx + 1].len \in Nat
          /\ vbuf[idx + 1].base = next
          /\ vbuf[idx + 1].base + vbuf[idx + 1].len = Start(idx + 1)
      <3>1. idx + 1 \in 1..Len(vbuf) /\ idx + 1 \in active + 1..Len(vbuf)
        BY <1>0, <2>1 DEF Position
      <3>2. vbuf[idx + 1].base = next
        BY <2>1 DEF Position, Start
      <3>. QED BY <3>1, <3>2, Element DEF Chain
    <2>3. Start(idx + 1) <= pushed + 1
      <3>1. CASE idx + 1 < Len(vbuf)
        <4>1. idx + 1 + 1 \in 1..Len(vbuf)
          BY <1>0, <3>1
        <4>. QED BY <3>1, <4>1 DEF Start, InPushed
      <3>2. CASE ~(idx + 1 < Len(vbuf))
        BY <1>0, <3>2 DEF Start
      <3>. QED BY <3>1, <3>2
    <2>4. next' <= pushed + 1 /\ next' = next + n /\ next' \in 1..MaxBytes + 1
      <3>1. next' = vbuf[idx + 1].base + n /\ next' = next + n /\ n \in Nat /\ n >= 1
        BY <2>1, <2>2
      <3>2. vbuf[idx + 1].base + n <= vbuf[idx + 1].base + vbuf[idx + 1].len
        BY <2>1, <2>2, <3>1
      <3>3. pushed <= MaxBytes
        BY DEF VBTypeOK
      <3>4. next' <= pushed + 1
        BY <1>0, <2>2, <2>3, <3>1, <3>2
      <3>. QED BY <1>0, <3>1, <3>3, <3>4
    <2>5. /\ active < Len(vbuf) /\ active <= idx /\ Start(active) + left = next
          /\ Start(active) \in Nat
      <3>1. active + 1 \in 1..Len(vbuf)
        BY <1>0, <2>1 DEF Position
      <3>. QED BY <2>1, <3>1, Element DEF Position, Start
    <2>6. CASE n = vbuf[idx + 1].len
      <3>1. idx' = idx + 1 /\ pc' = pc
        BY <1>11, <2>6 DEF GatherSome
      <3>2. VBTypeOK'
        BY <1>0, <2>1, <2>4, <3>1 DEF VBTypeOK, vbBuffer
      <3>3. Start(idx)' = next'
        <4>1. Start(idx)' = Start(idx + 1)
          BY <2>1, <3>1 DEF Start, vbBuffer
        <4>. QED BY <2>1, <2>2, <2>6, <4>1
      <3>4. Start(active)' + left' = next'
        BY <1>0, <1>6, <2>1, <2>4, <2>5
      <3>5. Position'
        BY <1>0, <2>1, <2>4, <2>5, <3>1, <3>3, <3>4 DEF Position, vbBuffer
      <3>. QED BY <1>5, <2>1, <3>2, <3>5 DEF VBIndInv
    <2>7. CASE n # vbuf[idx + 1].len
      <3>1. idx' = idx /\ pc' = "consume"
        BY <1>11, <2>7 DEF GatherSome
      <3>2. VBTypeOK'
        BY <1>0, <2>1, <2>4, <3>1 DEF VBTypeOK, vbBuffer
      <3>4. Start(active)' + left' = next'
        BY <1>0, <1>6, <2>1, <2>4, <2>5
      <3>5. Position'
        BY <2>1, <2>4, <3>1, <3>4 DEF Position
      <3>. QED BY <1>5, <2>1, <3>2, <3>5 DEF VBIndInv
    <2>. QED BY <2>6, <2>7
  <1>12. CASE ConsumeWhole
    <2>1. /\ pc = "consume" /\ active < Len(vbuf) /\ left >= vbuf[active + 1].len
          /\ left' = left - vbuf[active + 1].len /\ active' = active + 1
          /\ UNCHANGED <<vbuf, bufs, pushed, next, pc, idx, stand>>
      BY <1>12 DEF ConsumeWhole, has_to_write
    <2>2. /\ active + 1 \in 1..Len(vbuf) /\ vbuf[active + 1].base \in Nat /\ vbuf[active + 1].len \in Nat
          /\ vbuf[active + 1].base = Start(active)
          /\ vbuf[active + 1].base + vbuf[active + 1].len = Start(active + 1)
      <3>1. active + 1 \in 1..Len(vbuf) /\ active + 1 \in active + 1..Len(vbuf)
        BY <1>0, <2>1
      <3>2. vbuf[active + 1].base = Start(active)
        BY <2>1 DEF Start
      <3>. QED BY <3>1, <3>2, Element DEF Chain
    <2>3. VBTypeOK'
      BY <1>0, <2>1, <2>2 DEF VBTypeOK
    <2>4. OwnTail' /\ Chain' /\ InPushed'
      <3>1. \A i \in active' + 1..Len(vbuf') : i \in active + 1..Len(vbuf)
        BY <1>0, <2>1
      <3>. QED BY <2>1, <3>1 DEF OwnTail, Chain, InPushed, Start
    <2>5. NoEmptyRest'
      BY <1>0, <2>1 DEF NoEmptyRest
    <2>6. Start(active)' = Start(active + 1)
      BY <2>1 DEF Start
    <2>7. Start(active)' + left' = Start(active) + left
      BY <1>0, <2>1, <2>2, <2>6
    <2>8. Position'
      BY <2>1, <2>7 DEF Position
    <2>. QED BY <2>3, <2>4, <2>5, <2>8 DEF VBIndInv
  <1>13. CASE ConsumePart
    <2>. DEFINE a == active + 1
                w == [base |-> vbuf[a].base + left, len |-> vbuf[a].len - left]
    <2>1. /\ pc = "consume" /\ active < Len(vbuf) /\ left < vbuf[a].len /\ left > 0
          /\ vbuf' = [vbuf EXCEPT ![a] = w] /\ left' = 0
          /\ UNCHANGED <<bufs, active, pushed, next, pc, idx, stand>>
      BY <1>13 DEF ConsumePart, has_to_write
    <2>2. /\ a \in 1..Len(vbuf) /\ vbuf[a] \in Iovec /\ vbuf[a].base \in Nat /\ vbuf[a].len \in Nat
          /\ vbuf[a].base = Start(active)
          /\ vbuf[a].base + vbuf[a].len = Start(a)
      <3>1. a \in 1..Len(vbuf) /\ a \in active + 1..Len(vbuf)
        BY <1>0, <2>1
      <3>2. vbuf[a].base = Start(active)
        BY <2>1 DEF Start
      <3>. QED BY <3>1, <3>2, Element DEF Chain
    <2>3. Start(a) <= pushed + 1
      <3>1. CASE a < Len(vbuf)
        <4>1. a + 1 \in 1..Len(vbuf)
          BY <1>0, <3>1
        <4>. QED BY <3>1, <4>1 DEF Start, InPushed
      <3>2. CASE ~(a < Len(vbuf))
        BY <1>0, <3>2 DEF Start
      <3>. QED BY <3>1, <3>2
    <2>4. w \in Iovec /\ w.len > 0 /\ w.base <= pushed + 1
      BY <1>0, <2>1, <2>2, <2>3 DEF Iovec, VBTypeOK
    <2>5. /\ vbuf' \in Seq(Iovec) /\ Len(vbuf') = Len(vbuf)
          /\ \A i \in 1..Len(vbuf) : vbuf'[i] = IF i = a THEN w ELSE vbuf[i]
      BY <2>1, <2>2, <2>4, ExceptSeq DEF VBTypeOK
    <2>6. VBTypeOK'
      BY <1>0, <2>1, <2>5 DEF VBTypeOK
    <2>7. w.base = vbuf[a].base + left /\ w.len = vbuf[a].len - left
      OBVIOUS
    <2>. HIDE DEF w, a
    <2>8. w.base + w.len = vbuf[a].base + vbuf[a].len /\ vbuf[a].base <= w.base
      BY <1>0, <2>1, <2>2, <2>7
    <2>9. OwnTail'
      <3>1. ASSUME NEW i \in 1..Len(vbuf)
            PROVE  /\ bufs'[i].first <= vbuf'[i].base
                   /\ vbuf'[i].base + vbuf'[i].len = bufs'[i].first + bufs'[i].size
        <4>1. CASE i = a
          <5>1. bufs[i] \in Vector
            BY <1>0, ElementOfSeq DEF VBTypeOK
          <5>2. bufs[i].first \in Nat /\ w.base \in Nat
            BY <2>4, <5>1 DEF Vector, Iovec
          <5>3. bufs[i].first <= vbuf[i].base /\ vbuf[i].base + vbuf[i].len = bufs[i].first + bufs[i].size
            BY DEF OwnTail
          <5>. QED BY <2>1, <2>2, <2>5, <2>8, <4>1, <5>2, <5>3
        <4>2. CASE i # a
          BY <2>1, <2>5, <4>2 DEF OwnTail
        <4>. QED BY <4>1, <4>2
      <3>. QED BY <1>0, <2>1, <2>5, <3>1 DEF OwnTail
    <2>10. ASSUME NEW i \in a..Len(vbuf) PROVE Start(i)' = Start(i)
      <3>1. CASE i < Len(vbuf)
        <4>1. i + 1 \in 1..Len(vbuf) /\ i + 1 # a
          BY <1>0, <2>2, <3>1
        <4>. QED BY <2>1, <2>5, <3>1, <4>1 DEF Start
      <3>2. CASE ~(i < Len(vbuf))
        BY <2>1, <2>5, <3>2 DEF Start
      <3>. QED BY <3>1, <3>2
    <2>11. Chain'
      <3>. SUFFICES ASSUME NEW i \in a..Len(vbuf) PROVE vbuf'[i].base + vbuf'[i].len = Start(i)'
        BY <2>1, <2>5 DEF Chain, a
      <3>1. i \in 1..Len(vbuf) /\ vbuf[i].base + vbuf[i].len = Start(i)
        BY <1>0 DEF a, Chain
      <3>2. CASE i = a
        BY <2>5, <2>8, <2>10, <3>1, <3>2
      <3>3. CASE i # a
        BY <2>5, <2>10, <3>1, <3>3
      <3>. QED BY <3>2, <3>3
    <2>12. InPushed'
      BY <2>1, <2>4, <2>5 DEF InPushed
    <2>13. NoEmptyRest'
      <3>. SUFFICES ASSUME NEW i \in active + 1..Len(vbuf) PROVE vbuf'[i].len > 0
        BY <2>1, <2>5 DEF NoEmptyRest
      <3>1. i \in 1..Len(vbuf)
        BY <1>0
      <3>. QED BY <2>4, <2>5, <3>1 DEF NoEmptyRest
    <2>14. Position'
      <3>1. Start(active)' = w.base
        <4>1. active' < Len(vbuf') /\ vbuf'[active' + 1] = w
          BY <2>1, <2>2, <2>5 DEF a
        <4>. QED BY <4>1 DEF Start
      <3>2. Start(active) + left = next
        <4>1. vbuf[a].base + left < Start(a)
          BY <1>0, <2>1, <2>2
        <4>. QED BY <1>0, <2>1, <2>2, <2>3, <4>1 DEF Position
      <3>. QED BY <1>0, <2>1, <2>2, <2>4, <2>7, <3>1, <3>2 DEF Position
    <2>. QED BY <2>6, <2>9, <2>11, <2>12, <2>13, <2>14 DEF VBIndInv
  <1>14. CASE UNCHANGED vbVars
    BY <1>14 DEF vbVars, VBIndInv, VBTypeOK, OwnTail, Chain, InPushed, NoEmptyRest, Position, Start
  <1>. QED BY <1>1, <1>2, <1>3, <1>4, <1>7, <1>8, <1>9, <1>10, <1>11, <1>12, <1>13, <1>14 DEF VBNext, Write

-----------------------------------------------------------------------------
(* The invariant holds of every state of the vbBuffer. *)
THEOREM VBInvariance == VBSpec => []VBIndInv
  <1>1. VBInit => VBIndInv
    <2>. SUFFICES ASSUME VBInit PROVE VBIndInv
      OBVIOUS
    <2>1. vbuf = <<>> /\ Len(vbuf) = 0 /\ Len(bufs) = 0
      BY DEF VBInit
    <2>2. VBTypeOK
      <3>1. <<>> \in Seq(Iovec) /\ <<>> \in Seq(Vector) /\ 0 \in 0..MaxBytes /\ 1 \in 1..MaxBytes + 1
        BY SizeAssumption
      <3>2. 0 \in Nat /\ 0 <= Len(vbuf)
        BY <2>1
      <3>. QED BY <2>1, <3>1, <3>2, Zenon DEF VBInit, VBTypeOK
    <2>. QED BY <2>1, <2>2 DEF VBInit, VBIndInv, OwnTail, Chain, InPushed, NoEmptyRest, Position, Start
  <1>. QED BY <1>1, VBStep, PTL DEF VBSpec

(* The iovecs handed to writev never point outside their own vector. *)
THEOREM PointersValid == VBSpec => []OwnTail
  <1>1. VBIndInv => OwnTail
    BY DEF VBIndInv
  <1>. QED BY <1>1, VBInvariance, PTL

(* The kernel always reads the byte that follows the last one written. *)
THEOREM WritesContinue == VBSpec => []ReadsNext
  <1>1. VBIndInv => ReadsNext
    <2>. SUFFICES ASSUME VBIndInv, pc = "writev", idx < active + Remaining
                  PROVE  idx < Len(vbuf) /\ vbuf[idx + 1].base = next
      BY DEF ReadsNext
    <2>1. Len(vbuf) \in Nat /\ Len(bufs) = Len(vbuf) /\ active \in Nat
      BY LenProperties DEF VBIndInv, VBTypeOK, OwnTail
    <2>2. idx < Len(vbuf)
      BY <2>1 DEF Remaining
    <2>. QED BY <2>2 DEF VBIndInv, Position, Start
  <1>. QED BY <1>1, VBInvariance, PTL

(* Between two calls the active iovecs are the unwritten bytes, all of them
   and in order. *)
THEOREM RestExact == VBSpec => []RestIsUnwritten
  <1>1. VBIndInv => RestIsUnwritten
    BY DEF VBIndInv, Chain, Position, RestIsUnwritten
  <1>. QED BY <1>1, VBInvariance, PTL

(* No active iovec is empty. *)
THEOREM RestNonEmpty == VBSpec => []NoEmptyRest
  <1>1. VBIndInv => NoEmptyRest
    BY DEF VBIndInv
  <1>. QED BY <1>1, VBInvariance, PTL

-----------------------------------------------------------------------------
(* SendPath *)

(* Sequences of bytes. *)

Increasing(s) == \A i, j \in 1..Len(s) : i < j => s[i] < s[j]
Below(s, n) == \A i \in 1..Len(s) : s[i] <= n
Iota(n) == [i \in 1..n |-> i]
Fresh(c, n) == [i \in 1..n |-> c + i]
Take(p, k) == SubSeq(p, 1, k)
Drop(p, k) == SubSeq(p, k + 1, Len(p))
Cat(s, t) == s \o t

(* Cutting a sequence in two and putting the pieces behind another one. *)
LEMMA Cut ==
  ASSUME NEW S, NEW w \in Seq(S), NEW p \in Seq(S), NEW k \in 1..Len(p)
  PROVE  /\ Cat(w, Take(p, k)) \in Seq(S)
         /\ Drop(p, k) \in Seq(S)
         /\ Cat(Cat(w, Take(p, k)), Drop(p, k)) = Cat(w, p)
         /\ Drop(p, k) = <<>> <=> k = Len(p)
  <1>. DEFINE a == SubSeq(p, 1, k)
              b == SubSeq(p, k + 1, Len(p))
              c == w \o a
              l == c \o b
              r == w \o p
  <1>1. Len(p) \in Nat /\ Len(w) \in Nat /\ k \in Nat /\ 1 <= k /\ k <= Len(p)
    BY LenProperties
  <1>2. a \in Seq(S) /\ Len(a) = k /\ \A i \in 1..k : a[i] = p[i]
    BY <1>1, SubSeqProperties
  <1>3. b \in Seq(S) /\ Len(b) = Len(p) - k /\ \A i \in 1..(Len(p) - k) : b[i] = p[k + i]
    BY <1>1, SubSeqProperties
  <1>6. /\ r \in Seq(S) /\ Len(r) = Len(w) + Len(p)
        /\ \A i \in 1..(Len(w) + Len(p)) : r[i] = IF i <= Len(w) THEN w[i] ELSE p[i - Len(w)]
    BY ConcatProperties
  <1>. HIDE DEF a, b, r
  <1>10. b = <<>> <=> Len(b) = 0
    BY <1>3, EmptySeq
  <1>9. b = <<>> <=> k = Len(p)
    BY <1>1, <1>3, <1>10
  <1>4. /\ c \in Seq(S) /\ Len(c) = Len(w) + Len(a)
        /\ \A i \in 1..(Len(w) + Len(a)) : c[i] = IF i <= Len(w) THEN w[i] ELSE a[i - Len(w)]
    BY <1>2, ConcatProperties
  <1>. HIDE DEF c
  <1>5. /\ l \in Seq(S) /\ Len(l) = Len(c) + Len(b)
        /\ \A i \in 1..(Len(c) + Len(b)) : l[i] = IF i <= Len(c) THEN c[i] ELSE b[i - Len(c)]
    <2>1. c \in Seq(S) /\ b \in Seq(S)
      BY <1>3, <1>4
    <2>. QED BY <2>1, ConcatProperties
  <1>. HIDE DEF l
  <1>7. ASSUME NEW i \in 1..Len(l) PROVE l[i] = r[i]
    <2>1. i \in 1..(Len(w) + Len(p)) /\ Len(c) = Len(w) + k /\ Len(l) = Len(w) + Len(p)
      BY <1>1, <1>2, <1>3, <1>4, <1>5
    <2>2. CASE i <= Len(w)
      <3>1. i \in 1..(Len(w) + Len(a)) /\ i <= Len(c)
        BY <1>1, <1>2, <2>1, <2>2
      <3>2. c[i] = w[i] /\ r[i] = w[i]
        BY <1>4, <1>6, <2>1, <2>2, <3>1
      <3>3. l[i] = c[i]
        BY <1>5, <3>1
      <3>. QED BY <3>2, <3>3
    <2>3. CASE Len(w) < i /\ i <= Len(w) + k
      <3>1. i - Len(w) \in 1..k
        BY <1>1, <2>1, <2>3
      <3>2. l[i] = c[i] /\ c[i] = a[i - Len(w)] /\ r[i] = p[i - Len(w)]
        BY <1>1, <1>2, <1>4, <1>5, <1>6, <2>1, <2>3
      <3>. QED BY <1>2, <3>1, <3>2
    <2>4. CASE Len(w) + k < i
      <3>1. i - (Len(w) + k) \in 1..(Len(p) - k) /\ k + (i - (Len(w) + k)) = i - Len(w)
        BY <1>1, <2>1, <2>4
      <3>3. ~(i <= Len(c)) /\ ~(i <= Len(w)) /\ Len(c) = Len(w) + k /\ i \in 1..(Len(c) + Len(b))
        BY <1>1, <1>3, <1>5, <2>1, <2>4
      <3>4. l[i] = b[i - Len(c)]
        BY <1>5, <3>3
      <3>5. r[i] = p[i - Len(w)]
        BY <1>6, <2>1, <3>3
      <3>2. l[i] = b[i - (Len(w) + k)] /\ r[i] = p[i - Len(w)]
        BY <3>3, <3>4, <3>5
      <3>. QED BY <1>3, <3>1, <3>2
    <2>. QED BY <1>1, <2>1, <2>2, <2>3, <2>4
  <1>8. l = r
    <2>1. Len(l) = Len(r)
      BY <1>1, <1>2, <1>3, <1>4, <1>5, <1>6
    <2>2. l \in Seq(S) /\ r \in Seq(S)
      BY <1>5, <1>6
    <2>. QED BY <1>7, <2>1, <2>2, SeqEqual
  <1>. QED BY <1>3, <1>4, <1>8, <1>9 DEF a, b, c, l, r, Cat, Take, Drop

(* Concatenation is associative. *)
LEMMA Assoc ==
  ASSUME NEW S, NEW s \in Seq(S), NEW t \in Seq(S), NEW u \in Seq(S)
  PROVE  Cat(Cat(s, t), u) = Cat(s, Cat(t, u))
  BY ConcatAssociative DEF Cat

(* n fresh bytes behind an increasing stream. *)
LEMMA Extend ==
  ASSUME NEW M \in Nat, NEW s \in Seq(1..M), NEW c \in Nat, NEW n \in Nat \ {0}, c + n <= M,
         Increasing(s), Below(s, c)
  PROVE  /\ Cat(s, Fresh(c, n)) \in Seq(1..M)
         /\ Increasing(Cat(s, Fresh(c, n)))
         /\ Below(Cat(s, Fresh(c, n)), c + n)
         /\ s = Iota(c) => Cat(s, Fresh(c, n)) = Iota(c + n)
  <1>. DEFINE t == [i \in 1..n |-> c + i]
              r == s \o t
  <1>1. t \in Seq(1..M) /\ Len(t) = n /\ \A i \in 1..n : t[i] = c + i
    OBVIOUS
  <1>. HIDE DEF t
  <1>2. /\ r \in Seq(1..M) /\ Len(r) = Len(s) + Len(t) /\ Len(s) \in Nat
        /\ \A i \in 1..(Len(s) + Len(t)) : r[i] = IF i <= Len(s) THEN s[i] ELSE t[i - Len(s)]
    BY <1>1, ConcatProperties, LenProperties
  <1>3. \A i \in 1..Len(s) : s[i] \in 1..M
    BY ElementOfSeq
  <1>. HIDE DEF r
  <1>4. ASSUME NEW i \in 1..(Len(s) + n)
        PROVE  r[i] = IF i <= Len(s) THEN s[i] ELSE c + (i - Len(s))
    <2>1. CASE i <= Len(s)
      BY <1>1, <1>2, <2>1
    <2>2. CASE ~(i <= Len(s))
      <3>1. i - Len(s) \in 1..n
        BY <1>2, <2>2
      <3>2. r[i] = t[i - Len(s)]
        BY <1>1, <1>2, <2>2
      <3>. QED BY <1>1, <2>2, <3>1, <3>2
    <2>. QED BY <2>1, <2>2
  <1>5. Increasing(r)
    <2>. SUFFICES ASSUME NEW i \in 1..Len(r), NEW j \in 1..Len(r), i < j PROVE r[i] < r[j]
      BY DEF Increasing
    <2>1. i \in 1..(Len(s) + n) /\ j \in 1..(Len(s) + n)
      BY <1>1, <1>2
    <2>2. CASE j <= Len(s)
      BY <1>2, <1>4, <2>1, <2>2 DEF Increasing
    <2>3. CASE i <= Len(s) /\ ~(j <= Len(s))
      <3>1. r[i] = s[i] /\ s[i] \in 1..M /\ s[i] <= c
        BY <1>2, <1>3, <1>4, <2>1, <2>3 DEF Below
      <3>2. r[j] = c + (j - Len(s)) /\ j - Len(s) > 0
        BY <1>2, <1>4, <2>1, <2>3
      <3>. QED BY <1>2, <2>1, <3>1, <3>2
    <2>4. CASE ~(i <= Len(s))
      BY <1>2, <1>4, <2>1, <2>4
    <2>. QED BY <1>2, <2>1, <2>2, <2>3, <2>4
  <1>6. Below(r, c + n)
    <2>. SUFFICES ASSUME NEW i \in 1..(Len(s) + n) PROVE r[i] <= c + n
      BY <1>1, <1>2 DEF Below
    <2>1. CASE i <= Len(s)
      <3>1. r[i] = s[i] /\ s[i] \in 1..M /\ s[i] <= c
        BY <1>2, <1>3, <1>4, <2>1 DEF Below
      <3>. QED BY <3>1
    <2>2. CASE ~(i <= Len(s))
      BY <1>2, <1>4, <2>2
    <2>. QED BY <2>1, <2>2
  <1>7. ASSUME s = Iota(c) PROVE r = Iota(c + n)
    <2>1. Len(s) = c /\ \A i \in 1..c : s[i] = i
      BY <1>7 DEF Iota
    <2>2. Iota(c + n) \in Seq(1..M) /\ Len(Iota(c + n)) = c + n /\ \A i \in 1..(c + n) : Iota(c + n)[i] = i
      BY DEF Iota
    <2>3. ASSUME NEW i \in 1..(c + n) PROVE r[i] = i
      <3>1. i \in 1..(Len(s) + n)
        BY <2>1
      <3>2. CASE i <= c
        <4>1. r[i] = s[i] /\ i \in 1..c
          BY <1>4, <2>1, <3>1, <3>2
        <4>. QED BY <2>1, <4>1
      <3>3. CASE ~(i <= c)
        <4>1. r[i] = c + (i - c)
          BY <1>4, <2>1, <3>1, <3>3
        <4>. QED BY <4>1
      <3>. QED BY <3>2, <3>3
    <2>4. Len(r) = c + n
      BY <1>1, <1>2, <2>1
    <2>5. \A i \in 1..Len(r) : r[i] = Iota(c + n)[i]
      BY <2>2, <2>3, <2>4
    <2>. QED BY <1>2, <2>2, <2>4, <2>5, SeqEqual
  <1>. QED BY <1>2, <1>5, <1>6, <1>7, Zenon DEF r, t, Cat, Fresh

(* What is before a position of an increasing stream is increasing. *)
LEMMA Front ==
  ASSUME NEW M \in Nat, NEW w \in Seq(1..M), NEW p \in Seq(1..M), NEW c \in Nat,
         Increasing(w \o p), Below(w \o p, c)
  PROVE  Increasing(w) /\ Below(w, c)
  <1>. DEFINE r == w \o p
  <1>1. Len(w) \in Nat /\ Len(p) \in Nat /\ Len(r) = Len(w) + Len(p)
    BY ConcatProperties, LenProperties
  <1>2. \A i \in 1..Len(w) : r[i] = w[i]
    BY ConcatProperties, LenProperties
  <1>3. \A i \in 1..Len(w) : i \in 1..Len(r)
    BY <1>1
  <1>4. Increasing(r) /\ Below(r, c)
    OBVIOUS
  <1>. HIDE DEF r
  <1>. QED BY <1>2, <1>3, <1>4 DEF Increasing, Below

-----------------------------------------------------------------------------
(* The invariant.  InOrder needs that no byte is above `accepted`.  OutArmed
   and NoSpin rest on how the table and the registration of Out relate, also
   inside callbacks: without a disarming fault the registration has what the
   table has, and without a spinning fault the table has what the
   registration has, Out is in the table only while there are bytes, and an
   error can be pending only after Out was put there.  A process runs a
   callback only while it exists. *)
StreamInv == Increasing(Stream) /\ Below(Stream, accepted) /\ NothingDropped
ErrInv == err = "nobufs" => faults \cap Disarming # {}
ArmInv == open /\ faults \cap Disarming = {} => (tab => ep) /\ (unsent # <<>> => ep)
SpinInv == faults \cap Spinning = {}
               => (ep => tab) /\ (tab => unsent # <<>>) /\ (err # "none" => tab)
OpenInv == cb # "idle" => open
SendIndInv == SendTypeOK /\ StreamInv /\ ErrInv /\ ArmInv /\ SpinInv /\ OpenInv

(* What a call of __send_internal__ with bytes to write does to the types and
   to the stream. *)
LEMMA SendTypes ==
  ASSUME SendTypeOK, NEW pending \in Seq(1..MaxAccepted), pending # <<>>, SendInternal(pending)
  PROVE  /\ unsent' \in Seq(1..MaxAccepted) /\ wire' \in Seq(1..MaxAccepted) /\ room' \in 0..Room
         /\ tab' \in BOOLEAN /\ ep' \in BOOLEAN /\ err' \in Error /\ faults' \subseteq Fault
         /\ \/ wire' \o unsent' = wire \o pending /\ ("again" \in faults' <=> "again" \in faults)
            \/ wire' = wire /\ unsent' = <<>> /\ "again" \in faults'
  <1>. USE RoomAssumption
  <1>1. \A t, on \in BOOLEAN : \A e : EnableTab(t, on, e) \in BOOLEAN
    BY DEF EnableTab
  <1>2. \A t, q, on \in BOOLEAN : EnableEp(t, q, on) \in BOOLEAN
    BY DEF EnableEp
  <1>3. EnableTab(tab, TRUE, err) \in BOOLEAN /\ EnableEp(tab, ep, TRUE) \in BOOLEAN
    BY <1>1, <1>2 DEF SendTypeOK
  <1>4. CASE SendSome(pending)
    <2>1. PICK k \in 1..Len(pending) : /\ Writev(pending, k) /\ err' = "none" /\ faults' = faults
                                        /\ tab' \in BOOLEAN /\ ep' \in BOOLEAN
      BY <1>1, <1>2, <1>3, <1>4 DEF SendSome
    <2>2. wire \in Seq(1..MaxAccepted)
      BY DEF SendTypeOK
    <2>3. /\ wire' = Cat(wire, Take(pending, k)) /\ unsent' = Drop(pending, k)
          /\ k <= room /\ room' = room - k
      BY <2>1 DEF Writev, Cat, Take, Drop
    <2>4. /\ wire' \in Seq(1..MaxAccepted) /\ unsent' \in Seq(1..MaxAccepted)
          /\ wire' \o unsent' = wire \o pending
      <3>1. /\ Cat(wire, Take(pending, k)) \in Seq(1..MaxAccepted)
            /\ Drop(pending, k) \in Seq(1..MaxAccepted)
            /\ Cat(Cat(wire, Take(pending, k)), Drop(pending, k)) = Cat(wire, pending)
        <4>. HIDE RoomAssumption
        <4>1. Cat(wire, Take(pending, k)) \in Seq(1..MaxAccepted)
          BY <2>2, Cut
        <4>2. Drop(pending, k) \in Seq(1..MaxAccepted)
          BY <2>2, Cut
        <4>3. Cat(Cat(wire, Take(pending, k)), Drop(pending, k)) = Cat(wire, pending)
          BY <2>2, Cut
        <4>. QED BY <4>1, <4>2, <4>3
      <3>2. Cat(wire', unsent') = Cat(wire, pending)
        BY <2>3, <3>1, Zenon
      <3>. QED BY <2>3, <3>1, <3>2, Zenon DEF Cat
    <2>5. room' \in 0..Room
      <3>1. Len(pending) \in Nat
        BY LenProperties
      <3>. QED BY <2>3, <3>1 DEF SendTypeOK
    <2>. QED BY <2>1, <2>4, <2>5 DEF SendTypeOK, Error
  <1>5. CASE SendBlocked(pending)
    <2>1. /\ unsent' = <<>> /\ wire' = wire /\ room' = room /\ err' = "none"
          /\ faults' = faults \cup {"again"} /\ tab' \in BOOLEAN /\ ep' \in BOOLEAN
      BY <1>3, <1>5, Zenon DEF SendBlocked
    <2>2. unsent' \in Seq(1..MaxAccepted) /\ err' \in Error /\ faults' \subseteq Fault /\ "again" \in faults'
      BY <2>1 DEF SendTypeOK, Error, Fault
    <2>. QED BY <2>1, <2>2, Zenon DEF SendTypeOK
  <1>6. CASE SendFailed(pending)
    <2>1. PICK e \in {"nobufs", "hard"} :
             /\ unsent' = pending /\ err' = e /\ faults' = faults \cup {e}
             /\ tab' \in BOOLEAN /\ ep' \in BOOLEAN /\ wire' = wire /\ room' = room
      BY <1>1, <1>2, <1>3, <1>6 DEF SendFailed
    <2>. QED BY <2>1 DEF SendTypeOK, Error, Fault
  <1>. QED BY <1>4, <1>5, <1>6 DEF SendInternal

(* ... and to the two records of the Out interest. *)
LEMMA SendInterest ==
  ASSUME SendTypeOK, ErrInv, ArmInv, SpinInv, open' = open,
         NEW pending \in Seq(1..MaxAccepted), pending # <<>>, SendInternal(pending)
  PROVE  ErrInv' /\ ArmInv' /\ SpinInv'
  <1>. USE DEF EnableTab, EnableEp
  <1>. tab \in BOOLEAN /\ ep \in BOOLEAN
    BY DEF SendTypeOK
  <1>1. CASE SendSome(pending)
    <2>1. PICK k \in 1..Len(pending) :
             /\ Writev(pending, k) /\ err' = "none" /\ faults' = faults
             /\ IF k = Len(pending)
                THEN /\ tab' = EnableTab(EnableTab(tab, TRUE, err), FALSE, "none")
                     /\ ep' = EnableEp(EnableTab(tab, TRUE, err), EnableEp(tab, ep, TRUE), FALSE)
                ELSE tab' = EnableTab(tab, TRUE, err) /\ ep' = EnableEp(tab, ep, TRUE)
      BY <1>1 DEF SendSome
    <2>2. unsent' = <<>> <=> k = Len(pending)
      <3>1. unsent' = Drop(pending, k) /\ wire \in Seq(1..MaxAccepted)
        BY <2>1 DEF Writev, SendTypeOK, Drop
      <3>. QED BY <3>1, Cut, Zenon
    <2>3. ErrInv'
      BY <2>1 DEF ErrInv
    <2>4. ArmInv'
      BY <2>1, <2>2 DEF ArmInv
    <2>5. SpinInv'
      BY <2>1, <2>2 DEF SpinInv
    <2>. QED BY <2>3, <2>4, <2>5
  <1>2. CASE SendBlocked(pending)
    <2>1. "again" \in faults' /\ "again" \in Spinning /\ err' = "none" /\ unsent' = <<>>
      BY <1>2 DEF SendBlocked, Spinning
    <2>2. tab' = EnableTab(tab, TRUE, err) /\ ep' = EnableEp(tab, ep, TRUE) /\ faults \subseteq faults'
      BY <1>2 DEF SendBlocked
    <2>3. ErrInv' /\ SpinInv'
      BY <2>1 DEF ErrInv, SpinInv
    <2>4. ArmInv'
      <3>1. faults' \cap Disarming = {} => faults \cap Disarming = {}
        BY <2>2
      <3>. QED BY <2>1, <2>2, <3>1 DEF ArmInv
    <2>. QED BY <2>3, <2>4
  <1>3. CASE SendFailed(pending)
    <2>1. PICK e \in {"nobufs", "hard"} :
             /\ unsent' = pending /\ err' = e /\ faults' = faults \cup {e}
             /\ tab' = EnableTab(EnableTab(tab, TRUE, err), FALSE, e)
             /\ ep' = EnableEp(EnableTab(tab, TRUE, err), EnableEp(tab, ep, TRUE), FALSE)
      BY <1>3 DEF SendFailed
    <2>2. e \in faults' /\ e \in Disarming
      BY <2>1 DEF Disarming
    <2>3. ErrInv' /\ ArmInv'
      BY <2>2 DEF ErrInv, ArmInv
    <2>4. SpinInv'
      <3>1. faults' \cap Spinning = {} => faults \cap Spinning = {}
        BY <2>1
      <3>. QED BY <2>1, <3>1 DEF SpinInv
    <2>. QED BY <2>3, <2>4
  <1>. QED BY <1>1, <1>2, <1>3 DEF SendInternal

(* Every step preserves the invariant. *)
LEMMA SendStep ==
  ASSUME SendIndInv, [SendNext]_sendVars
  PROVE  SendIndInv'
  <1>. USE RoomAssumption, MaxAcceptedAssumption
  <1>. SendTypeOK /\ StreamInv /\ ErrInv /\ ArmInv /\ SpinInv /\ OpenInv
    BY DEF SendIndInv
  <1>1. ASSUME NEW n \in 1..MaxValue, send(n) PROVE SendIndInv'
    <2>. DEFINE fresh == [i \in 1..n |-> accepted + i]
    <2>1. /\ accepted' = accepted + n /\ accepted + n <= MaxAccepted /\ cb' = cb /\ open' = open
          /\ SendInternal(unsent \o fresh)
      BY <1>1 DEF send
    <2>2. n \in Nat \ {0} /\ accepted \in Nat /\ unsent \in Seq(1..MaxAccepted) /\ wire \in Seq(1..MaxAccepted)
      BY DEF SendTypeOK, MaxValue
    <2>3. fresh \in Seq(1..MaxAccepted) /\ Len(fresh) = n
      BY <2>1, <2>2
    <2>4. Stream \in Seq(1..MaxAccepted) /\ Increasing(Stream) /\ Below(Stream, accepted)
      BY <2>2, ConcatProperties DEF Stream, StreamInv
    <2>5. /\ Stream \o fresh \in Seq(1..MaxAccepted) /\ Increasing(Stream \o fresh)
          /\ Below(Stream \o fresh, accepted + n)
          /\ Stream = Iota(accepted) => Stream \o fresh = Iota(accepted + n)
      <3>1. MaxAccepted \in Nat /\ accepted + n <= MaxAccepted
        BY <2>1
      <3>2. /\ Cat(Stream, Fresh(accepted, n)) \in Seq(1..MaxAccepted)
            /\ Increasing(Cat(Stream, Fresh(accepted, n)))
            /\ Below(Cat(Stream, Fresh(accepted, n)), accepted + n)
            /\ Stream = Iota(accepted) => Cat(Stream, Fresh(accepted, n)) = Iota(accepted + n)
        BY <2>2, <2>4, <3>1, Extend, Zenon
      <3>. QED BY <3>2, Zenon DEF Cat, Fresh
    <2>. HIDE DEF fresh
    <2>6. PICK pending \in Seq(1..MaxAccepted) : pending = unsent \o fresh /\ pending # <<>>
      <3>1. unsent \o fresh \in Seq(1..MaxAccepted) /\ Len(unsent \o fresh) = Len(unsent) + n
        BY <2>2, <2>3, ConcatProperties
      <3>2. unsent \o fresh # <<>>
        BY <2>2, <3>1, LenProperties
      <3>. QED BY <3>1, <3>2
    <2>7. Stream \o fresh = wire \o pending
      <3>1. Cat(Cat(wire, unsent), fresh) = Cat(wire, Cat(unsent, fresh))
        BY <2>2, <2>3, Assoc
      <3>. QED BY <2>6, <3>1, Zenon DEF Cat, Stream
    <2>8. /\ unsent' \in Seq(1..MaxAccepted) /\ wire' \in Seq(1..MaxAccepted) /\ room' \in 0..Room
          /\ tab' \in BOOLEAN /\ ep' \in BOOLEAN /\ err' \in Error /\ faults' \subseteq Fault
          /\ \/ wire' \o unsent' = wire \o pending /\ ("again" \in faults' <=> "again" \in faults)
             \/ wire' = wire /\ unsent' = <<>> /\ "again" \in faults'
      BY <2>1, <2>6, SendTypes, Zenon
    <2>9. SendTypeOK'
      BY <2>1, <2>2, <2>8 DEF SendTypeOK
    <2>10. ErrInv' /\ ArmInv' /\ SpinInv'
      <3>1. SendInternal(pending) /\ pending # <<>> /\ open' = open
        BY <2>1, <2>6
      <3>. QED BY <3>1, SendInterest, Zenon
    <2>11. StreamInv'
      <3>1. CASE wire' \o unsent' = wire \o pending /\ ("again" \in faults' <=> "again" \in faults)
        BY <2>1, <2>5, <2>7, <3>1 DEF StreamInv, NothingDropped, Stream, Iota
      <3>2. CASE wire' = wire /\ unsent' = <<>> /\ "again" \in faults'
        <4>1. Increasing(wire) /\ Below(wire, accepted)
          BY <2>2, <2>4, Front DEF Stream
        <4>2. Stream' = wire
          BY <2>2, <3>2, ConcatEmptySeq DEF Stream
        <4>3. Below(wire, accepted')
          <5>1. \A i \in 1..Len(wire) : wire[i] \in 1..MaxAccepted
            BY <2>2, ElementOfSeq
          <5>. QED BY <2>1, <2>2, <4>1, <5>1 DEF Below
        <4>. QED BY <3>2, <4>1, <4>2, <4>3 DEF StreamInv, NothingDropped
      <3>. QED BY <2>8, <3>1, <3>2
    <2>. QED BY <2>1, <2>9, <2>10, <2>11 DEF SendIndInv, OpenInv
  <1>2. CASE send_rest
    <2>1. CASE unsent = <<>>
      <3>1. UNCHANGED <<unsent, wire, room, tab, ep, err, faults, accepted, open>> /\ cb' = "in"
        BY <1>2, <2>1, Zenon DEF send_rest
      <3>2. SendTypeOK' /\ ErrInv' /\ ArmInv' /\ SpinInv'
        BY <3>1 DEF SendTypeOK, ErrInv, ArmInv, SpinInv
      <3>3. StreamInv' /\ OpenInv'
        BY <1>2, <3>1 DEF StreamInv, NothingDropped, Stream, OpenInv, send_rest
      <3>. QED BY <3>2, <3>3 DEF SendIndInv
    <2>2. CASE unsent # <<>>
      <3>1. accepted' = accepted /\ cb' = "in" /\ open' = open /\ SendInternal(unsent)
        BY <1>2, <2>2, Zenon DEF send_rest
      <3>2. unsent \in Seq(1..MaxAccepted) /\ wire \in Seq(1..MaxAccepted) /\ accepted \in Nat
        BY DEF SendTypeOK
      <3>3. /\ unsent' \in Seq(1..MaxAccepted) /\ wire' \in Seq(1..MaxAccepted) /\ room' \in 0..Room
            /\ tab' \in BOOLEAN /\ ep' \in BOOLEAN /\ err' \in Error /\ faults' \subseteq Fault
            /\ \/ wire' \o unsent' = wire \o unsent /\ ("again" \in faults' <=> "again" \in faults)
               \/ wire' = wire /\ unsent' = <<>> /\ "again" \in faults'
        BY <2>2, <3>1, <3>2, SendTypes, Zenon
      <3>4. SendTypeOK'
        BY <3>1, <3>3 DEF SendTypeOK
      <3>5. ErrInv' /\ ArmInv' /\ SpinInv'
        BY <2>2, <3>1, <3>2, SendInterest, Zenon
      <3>6. StreamInv'
        <4>1. CASE wire' \o unsent' = wire \o unsent /\ ("again" \in faults' <=> "again" \in faults)
          BY <3>1, <4>1, Zenon DEF StreamInv, NothingDropped, Stream
        <4>2. CASE wire' = wire /\ unsent' = <<>> /\ "again" \in faults'
          <5>1. Increasing(wire) /\ Below(wire, accepted)
            BY <3>2, Front DEF Stream, StreamInv
          <5>2. Stream' = wire
            BY <3>2, <4>2, ConcatEmptySeq DEF Stream
          <5>. QED BY <3>1, <4>2, <5>1, <5>2, Zenon DEF StreamInv, NothingDropped
        <4>. QED BY <3>3, <4>1, <4>2
      <3>7. OpenInv'
        BY <1>2 DEF OpenInv, send_rest
      <3>. QED BY <3>4, <3>5, <3>6, <3>7 DEF SendIndInv
    <2>. QED BY <2>1, <2>2
  <1>3. ASSUME UNCHANGED <<unsent, accepted, wire, room>>, faults \subseteq faults',
               "again" \in faults' => "again" \in faults
        PROVE  StreamInv'
    BY <1>3, Zenon DEF StreamInv, NothingDropped, Stream
  <1>. USE DEF SendIndInv
  <1>4. CASE OutEvent \/ OtherCallback \/ PeerReads
    <2>1. SendTypeOK' /\ faults' = faults /\ UNCHANGED <<unsent, accepted, wire, tab, ep, open>>
      BY <1>4 DEF OutEvent, OtherCallback, PeerReads, SendTypeOK, Error
    <2>2. err' \in {"none", err}
      BY <1>4 DEF OutEvent, OtherCallback, PeerReads
    <2>3. StreamInv'
      BY <2>1, Zenon DEF StreamInv, NothingDropped, Stream
    <2>4. OpenInv'
      BY <1>4 DEF OpenInv, OutEvent, OtherCallback, PeerReads
    <2>. QED BY <2>1, <2>2, <2>3, <2>4 DEF ErrInv, ArmInv, SpinInv
  <1>5. CASE ReceiveLeavesError
    <2>1. PICK e \in {"again", "nobufs", "hard"} : err' = e /\ faults' = faults \cup {RecvFault[e]}
      BY <1>5 DEF ReceiveLeavesError
    <2>2. UNCHANGED <<unsent, accepted, wire, room, tab, ep, open, cb>>
      BY <1>5 DEF ReceiveLeavesError
    <2>3. /\ RecvFault[e] \in Fault /\ RecvFault[e] \in Spinning /\ RecvFault[e] # "again"
          /\ e = "nobufs" => RecvFault[e] \in Disarming
      BY DEF RecvFault, Fault, Spinning, Disarming
    <2>4. SendTypeOK'
      BY <2>1, <2>2, <2>3 DEF SendTypeOK, Error
    <2>5. StreamInv'
      BY <1>3, <2>1, <2>2, <2>3
    <2>6. ErrInv' /\ SpinInv'
      BY <2>1, <2>3 DEF ErrInv, SpinInv
    <2>7. ArmInv'
      <3>1. faults' \cap Disarming = {} => faults \cap Disarming = {}
        BY <2>1
      <3>. QED BY <2>2, <3>1 DEF ArmInv
    <2>. QED BY <2>2, <2>4, <2>5, <2>6, <2>7 DEF OpenInv
  <1>6. CASE SendUnserializable
    <2>1. /\ UNCHANGED <<unsent, accepted, wire, room, open, cb>> /\ err' = "hard"
          /\ faults' = faults \cup {"serialize"}
      BY <1>6 DEF SendUnserializable
    <2>2. tab' \in BOOLEAN /\ ep' \in BOOLEAN
      BY <1>6 DEF SendUnserializable, EnableTab, EnableEp, SendTypeOK
    <2>3. "serialize" \in Disarming /\ "serialize" \in Spinning /\ "serialize" \in Fault
      BY DEF Disarming, Spinning, Fault
    <2>4. SendTypeOK'
      BY <2>1, <2>2, <2>3 DEF SendTypeOK, Error
    <2>5. StreamInv'
      BY <1>3, <2>1
    <2>6. ErrInv' /\ SpinInv' /\ ArmInv'
      BY <2>1, <2>3 DEF ErrInv, SpinInv, ArmInv
    <2>. QED BY <2>1, <2>4, <2>5, <2>6 DEF OpenInv
  <1>7. CASE handle_sending_error \/ handle_receive_error
    <2>1. /\ UNCHANGED <<unsent, accepted, wire, room, tab, open, cb, faults>> /\ err' = "none"
          /\ ep' = ep \/ (err = "nobufs" /\ ep' = EnableEp(tab, ep, FALSE))
      BY <1>7, Zenon DEF handle_sending_error, handle_receive_error
    <2>2. ep' \in BOOLEAN /\ (ep' => ep)
      BY <2>1 DEF EnableEp, SendTypeOK
    <2>3. SendTypeOK'
      BY <2>1, <2>2 DEF SendTypeOK, Error
    <2>4. StreamInv'
      BY <1>3, <2>1
    <2>5. ErrInv' /\ SpinInv'
      BY <2>1, <2>2 DEF ErrInv, SpinInv
    <2>6. ArmInv'
      BY <2>1 DEF ArmInv, ErrInv
    <2>. QED BY <2>1, <2>3, <2>4, <2>5, <2>6 DEF OpenInv
  <1>8. CASE EventDone \/ CommandDone
    <2>1. /\ UNCHANGED <<unsent, accepted, wire, room, tab, faults>> /\ err' = "none" /\ cb' = "idle"
          /\ \/ open' = open /\ ep' = ep
             \/ open' = (err # "hard") /\ ep' = (ep /\ err # "hard")
      BY <1>8 DEF EventDone, CommandDone
    <2>2. open' \in BOOLEAN /\ ep' \in BOOLEAN /\ (ep' => ep)
      <3>1. open \in BOOLEAN /\ ep \in BOOLEAN
        BY DEF SendTypeOK
      <3>2. CASE open' = open /\ ep' = ep
        BY <3>1, <3>2
      <3>3. CASE open' = (err # "hard") /\ ep' = (ep /\ err # "hard")
        BY <3>1, <3>3
      <3>. QED BY <2>1, <3>2, <3>3
    <2>3. SendTypeOK'
      BY <2>1, <2>2 DEF SendTypeOK, Error
    <2>4. StreamInv'
      BY <1>3, <2>1
    <2>5. ErrInv' /\ SpinInv'
      BY <2>1, <2>2 DEF ErrInv, SpinInv
    <2>6. ArmInv'
      <3>1. open' => ep' = ep /\ (open \/ err # "hard")
        BY <2>1 DEF SendTypeOK
      <3>2. open
        BY <1>8 DEF OpenInv, EventDone, CommandDone
      <3>. QED BY <2>1, <3>1, <3>2 DEF ArmInv
    <2>. QED BY <2>1, <2>3, <2>4, <2>5, <2>6 DEF OpenInv
  <1>9. CASE UNCHANGED sendVars
    BY <1>9 DEF sendVars, SendTypeOK, StreamInv, ErrInv, ArmInv, SpinInv, OpenInv, NothingDropped, Stream
  <1>. QED BY <1>1, <1>2, <1>4, <1>5, <1>6, <1>7, <1>8, <1>9 DEF SendNext, CallbackDone, Closed

-----------------------------------------------------------------------------
(* The invariant holds of every state the sending side of a connection can
   reach. *)
THEOREM SendInvariance == SendSpec => []SendIndInv
  <1>1. SendInit => SendIndInv
    <2>. SUFFICES ASSUME SendInit PROVE SendIndInv
      OBVIOUS
    <2>. USE MaxAcceptedAssumption, RoomAssumption
    <2>1. SendTypeOK
      <3>1. <<>> \in Seq(1..MaxAccepted) /\ 0 \in 0..MaxAccepted /\ Room \in 0..Room
        OBVIOUS
      <3>. QED BY <3>1, Zenon DEF SendInit, SendTypeOK, Error, Fault
    <2>2. Stream = <<>> /\ Iota(0) = <<>>
      <3>1. <<>> \in Seq(Nat)
        OBVIOUS
      <3>2. <<>> \o <<>> = <<>>
        BY <3>1, ConcatEmptySeq
      <3>3. Iota(0) \in Seq(Nat) /\ Len(Iota(0)) = 0
        BY DEF Iota
      <3>. QED BY <3>2, <3>3, EmptySeq DEF SendInit, Stream
    <2>3. StreamInv
      BY <2>2 DEF SendInit, StreamInv, NothingDropped, Increasing, Below, Iota
    <2>. QED BY <2>1, <2>3 DEF SendInit, SendIndInv, ErrInv, ArmInv, SpinInv, OpenInv
  <1>. QED BY <1>1, SendStep, PTL DEF SendSpec

(* Every variable of the sending side keeps its type: the kernel never holds
   more than its buffer and no byte is counted that was not accepted. *)
THEOREM SendTypeCorrect == SendSpec => []SendTypeOK
  <1>1. SendIndInv => SendTypeOK
    BY DEF SendIndInv
  <1>. QED BY <1>1, SendInvariance, PTL

(* What writev was given and what is still buffered is in the order in which
   send() accepted it, without repetition, after any sequence of partial,
   blocked and failed writes. *)
THEOREM BytesInOrder == SendSpec => []InOrder
  <1>1. SendIndInv => InOrder
    BY DEF SendIndInv, StreamInv, Increasing, InOrder
  <1>. QED BY <1>1, SendInvariance, PTL

(* Until a write would have blocked, written and buffered bytes are exactly
   the accepted ones: no other failure loses one. *)
THEOREM NoByteDropped == SendSpec => []NothingDropped
  <1>1. SendIndInv => NothingDropped
    BY DEF SendIndInv, StreamInv
  <1>. QED BY <1>1, SendInvariance, PTL

(* Bytes left over by a partial or blocked write keep the connection
   registered for Out. *)
THEOREM InterestKept == SendSpec => []OutArmed
  <1>1. SendIndInv => OutArmed
    BY DEF SendIndInv, ArmInv, OutArmed
  <1>. QED BY <1>1, SendInvariance, PTL

(* A connection that has written everything is not registered for Out. *)
THEOREM NoBusyOut == SendSpec => []NoSpin
  <1>1. SendIndInv => NoSpin
    BY DEF SendIndInv, SpinInv, NoSpin
  <1>. QED BY <1>1, SendInvariance, PTL
=============================================================================
