-------------------------- MODULE MCStaticThreadPool --------------------------
(* Instances of StaticThreadPool for TLC.                                   *)
EXTENDS StaticThreadPool, TLC

\* Workers, guests, and the operations that are not coroutines, are
\* interchangeable; the runs that check liveness do not use this.
Symmetry ==
  Permutations(Workers) \union Permutations(Guests)
    \union Permutations(Ops \ CoroOps)
===============================================================================
