--------------------------- MODULE PretrainSampler ---------------------------
(***************************************************************************)
(* The batch sampler of one data-parallel rank of the Megatron trainers    *)
(* (src/swift/megatron/trainers/batch_sampler.py).  A sampler counts the    *)
(* samples all ranks have consumed, and every pass over it (an epoch of    *)
(* cyclic_iter) begins with that count: the epoch is the quotient, the     *)
(* place in it the remainder by the samples an epoch uses.                 *)
(*                                                                         *)
(* A sample is <<epoch, position>>.  The shuffle of an epoch is the same   *)
(* permutation on every rank (it is seeded with the epoch), so a position  *)
(* in the shuffled order stands for the sample at it.                      *)
(***************************************************************************)
EXTENDS Integers

CONSTANTS Total,        \* len(train_dataset)
          MicroBatch,   \* micro_batch_size
          DataParallel  \* data_parallel_size

ASSUME SamplerAssumption ==
  /\ MicroBatch \in Nat \ {0}
  /\ DataParallel \in Nat \ {0}
  /\ Total \in Nat /\ Total >= MicroBatch * DataParallel

DPRanks == 0 .. DataParallel - 1

(* micro_batch_times_data_parallel_size *)
GlobalMicro == MicroBatch * DataParallel

(* active_total_samples: what is left of the dataset without its last,     *)
(* incomplete batch.                                                       *)
ActiveTotal == Total - (Total % GlobalMicro)

(* What the indices of a rank range over: its own bucket when the dataset  *)
(* is sharded, else the whole dataset in micro-batches, of which it takes  *)
(* every DataParallel-th.                                                  *)
BucketSize == (Total \div GlobalMicro) * MicroBatch
FullBucketSize == (Total \div MicroBatch) * MicroBatch

(* len(idx_range) of the rank from an offset in the epoch on.              *)
IndicesLeft(sharding, rank, offset) ==
  IF sharding
  THEN BucketSize - offset \div DataParallel
  ELSE LET left == FullBucketSize - offset - rank
       IN  IF left <= 0 THEN 0 ELSE (left + DataParallel - 1) \div DataParallel

(* idx_range[j] *)
IndexAt(sharding, rank, offset, j) ==
  IF sharding THEN rank * BucketSize + offset \div DataParallel + j
              ELSE offset + rank + j * DataParallel

(* A sampler: the samples consumed so far, and the pass in progress, its   *)
(* epoch, the offset it began at and the batches it has yielded.           *)
NewPass(consumed) == [consumed |-> consumed,
                      epoch |-> consumed \div ActiveTotal,
                      offset |-> consumed % ActiveTotal,
                      yielded |-> 0]

(* The last batch if not complete is dropped.                              *)
HasBatch(sharding, rank, s) ==
  (s.yielded + 1) * MicroBatch <= IndicesLeft(sharding, rank, s.offset)

(* The samples of the next batch, and the sampler after it.                *)
BatchOf(sharding, rank, s) ==
  {<<s.epoch, IndexAt(sharding, rank, s.offset, j)>> :
     j \in s.yielded * MicroBatch .. (s.yielded + 1) * MicroBatch - 1}

Yielded(s) == [s EXCEPT !.consumed = @ + GlobalMicro, !.yielded = @ + 1]

(* cyclic_iter: a pass that is over is followed by the next one.           *)
Turned(sharding, rank, s) ==
  IF HasBatch(sharding, rank, s) THEN s ELSE NewPass(s.consumed)
=============================================================================
