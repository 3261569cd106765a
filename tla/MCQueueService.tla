--------------------------- MODULE MCQueueService ---------------------------
(* Symmetry for the safety run of QueueService: job, worker and call ids are *)
(* only compared for equality.                                               *)
EXTENDS QueueService, TLC

Symmetry == Permutations(Jobs) \union Permutations(Workers) \union Permutations(Calls)
=============================================================================
