------------------------------ MODULE MCFastMutex ------------------------------
(* Instances of FastMutex for TLC.                                          *)
EXTENDS FastMutex, TLC

Symmetry == Permutations(Threads)
===============================================================================
