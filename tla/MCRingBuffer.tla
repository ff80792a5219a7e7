---------------------------- MODULE MCRingBuffer ----------------------------
(* Instance of RingBuffer for TLC. *)
EXTENDS RingBuffer

CONSTANT MaxBatch           \* longest container offered at once

MCBatches == UNION {[1..n -> Value] : n \in 0..MaxBatch}
=============================================================================
