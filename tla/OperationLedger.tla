---------------------------- MODULE OperationLedger ----------------------------
(***************************************************************************)
(* What an iol::static_thread_pool promises about the operations submitted *)
(* to it, whatever queue holds them and whichever thread runs them.        *)
(***************************************************************************)
EXTENDS Integers, FiniteSets

CONSTANTS
  Ops,     \* the operations that may be submitted
  Width    \* the number of threads that serve them

VARIABLES
  open,    \* the pool has not been stopped
  grace,   \* how many operations may still begin once it has
  fate     \* of each operation

vars == <<open, grace, fate>>

In(f) == {o \in Ops : fate[o] = f}

Moved(os, from, to) ==
  /\ os \subseteq In(from)
  /\ fate' = [o \in Ops |-> IF o \in os THEN to ELSE fate[o]]

\* The grace never grows back, and is not touched while the pool is open.
GraceRunsDown == grace' \in 0..grace /\ (open => grace' = grace)

Init ==
  /\ open = TRUE
  /\ grace = 2 * Width
  /\ fate = [o \in Ops |-> "new"]

Accept(o) == Moved({o}, "new", "queued") /\ UNCHANGED <<open, grace>>

Begin(o) ==
  /\ Cardinality(In("running")) < Width
  /\ Moved({o}, "queued", "running")
  /\ GraceRunsDown
  /\ ~open => grace' < grace
  /\ UNCHANGED open

Finish(o) ==
  /\ Moved({o}, "running", "done")
  /\ GraceRunsDown
  /\ UNCHANGED open

Close ==
  /\ open /\ open' = FALSE
  /\ grace' \in 0..grace
  /\ UNCHANGED fate

\* Operations that will not run any more are destroyed.
Lose ==
  /\ ~open
  /\ \E os \in SUBSET In("queued") : Moved(os, "queued", "lost")
  /\ UNCHANGED <<open, grace>>

Next ==
  \/ \E o \in Ops : Accept(o) \/ Begin(o) \/ Finish(o)
  \/ Close \/ Lose

Spec == Init /\ [][Next]_vars
===============================================================================
