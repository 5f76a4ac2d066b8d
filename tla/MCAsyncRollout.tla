--------------------------- MODULE MCAsyncRollout ---------------------------
(* Small instances of AsyncRollout for TLC: training batches occupy every   *)
(* worker, evaluation batches only the first.                               *)
EXTENDS AsyncRollout

MCBatchOf == [train |-> NumWorkers, eval |-> 1]
=============================================================================
