--------------------------- MODULE MCOperationQueue ---------------------------
(* Instances of OperationQueue, with its history, for TLC.                   *)
EXTENDS OperationQueueHistory, TLC

Symmetry ==
  Permutations(Queues) \union Permutations(CoroOps)
    \union Permutations(Ops \ CoroOps)
===============================================================================
