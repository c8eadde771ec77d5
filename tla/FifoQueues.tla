------------------------------ MODULE FifoQueues ------------------------------
(***************************************************************************)
(* What an iol::detail::operation_queue promises: each queue is a sequence *)
(* of operations, first in first out, and each operation is in at most one *)
(* place.                                                                  *)
(***************************************************************************)
EXTENDS Sequences, Functions

CONSTANTS Queues, Ops

VARIABLES
  contents,   \* of each queue
  held        \* the operations the program has

vars == <<contents, held>>

Queued == UNION {Range(contents[q]) : q \in Queues}

Init == contents = [q \in Queues |-> <<>>] /\ held = {}

Take(o) == o \notin held \union Queued /\ held' = held \union {o} /\ UNCHANGED contents

Drop(o) == o \in held /\ held' = held \ {o} /\ UNCHANGED contents

Enqueue(q, o) ==
  /\ o \in held /\ held' = held \ {o}
  /\ contents' = [contents EXCEPT ![q] = Append(@, o)]

Splice(q, r) ==
  /\ q # r
  /\ contents' = [contents EXCEPT ![q] = @ \o contents[r], ![r] = <<>>]
  /\ UNCHANGED held

Deque(q) ==
  /\ contents[q] # <<>>
  /\ contents' = [contents EXCEPT ![q] = Tail(@)]
  /\ held' = held \union {Head(contents[q])}

Swap(q, r) ==
  /\ contents' = [contents EXCEPT ![q] = contents[r], ![r] = contents[q]]
  /\ UNCHANGED held

\* What q had is lost with it.
Move(q, r) ==
  /\ q # r
  /\ contents' = [contents EXCEPT ![q] = contents[r], ![r] = <<>>]
  /\ UNCHANGED held

Clear(q) == contents' = [contents EXCEPT ![q] = <<>>] /\ UNCHANGED held

Next ==
  \/ \E o \in Ops : Take(o) \/ Drop(o)
  \/ \E q \in Queues : Deque(q) \/ Clear(q) \/ \E o \in Ops : Enqueue(q, o)
  \/ \E q, r \in Queues : Splice(q, r) \/ Swap(q, r) \/ Move(q, r)

Spec == Init /\ [][Next]_vars
===============================================================================
