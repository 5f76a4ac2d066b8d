-------------------------- MODULE MCNcclCheckpoint --------------------------
(* Small instances of NcclCheckpoint for TLC.                              *)
EXTENDS NcclCheckpoint, TLC

CONSTANTS MaxWeights, Sizes

(* Every stream of at most MaxWeights weights of the given sizes.          *)
MCStreams == UNION {[1 .. n -> Sizes] : n \in 0 .. MaxWeights}

Symmetry == Permutations(Receivers)
=============================================================================
