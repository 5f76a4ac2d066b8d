------------------------- MODULE MCMegatronTrainer -------------------------
(* Small instances of MegatronTrainer for TLC: two ranks, epochs of two     *)
(* batches, and more saves than save_total_limit keeps.                     *)
EXTENDS MegatronTrainer

MCScores == {1, 2}
=============================================================================
