-------------------------------- MODULE MCQmt --------------------------------
(***************************************************************************)
(* QmtPipeline for TLC.  Three files are the least cpu_verify_args admits  *)
(* in queue mode; the thread counts and limits come from the .cfg.         *)
(***************************************************************************)
EXTENDS QmtPipeline, TLC

CONSTANTS r1, r2, w1, w2, x1, x2

OneReader == {r1}
TwoReaders == {r1, r2}
OneWorker == {w1}
TwoWorkers == {w1, w2}
OneWriter == {x1}
TwoWriters == {x1, x2}

(* The first image alone is larger than MaxMem = 3, the other two fit      *)
(* together.                                                               *)
MixedMem == [f \in File |-> IF f = 0 THEN 4 ELSE 1]

Symmetry ==
  Permutations(TwoReaders) \union Permutations(TwoWorkers) \union Permutations(TwoWriters)
=============================================================================
