---------------------------- MODULE MCBucketIpc ----------------------------
(* Small instances of BucketIpc for TLC.                                   *)
EXTENDS BucketIpc, TLC

CONSTANTS MaxWeights, Sizes

(* Every stream of at most MaxWeights weights of the given sizes.          *)
MCStreams == UNION {[1 .. n -> Sizes] : n \in 0 .. MaxWeights}

Symmetry == Permutations(Ranks \ {Driver})
=============================================================================
