---------------------------- MODULE MCWorkerLoop ----------------------------
(* Instance of WorkerLoop for TLC.  The clients are interchangeable in the
   safety run. *)
EXTENDS WorkerLoop, TLC

Symmetric == Permutations(Client)
=============================================================================
