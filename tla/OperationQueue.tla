---------------------------- MODULE OperationQueue ----------------------------
(***************************************************************************)
(* iol::detail::operation_queue (src/operation_queue.cpp) on the heap: a   *)
(* queue owns its first operation by head_, each operation the next one,   *)
(* and tail_ is the address of the pointer at the end of that chain.       *)
(*                                                                         *)
(* Every pointer that owns an operation is a cell: head_ of the queue q is *)
(* the cell q, next of the operation o is the cell o.                      *)
(***************************************************************************)
CONSTANTS
  Queues,    \* storage for queues, temporary ones included
  Ops,       \* storage for operations
  CoroOps,   \* those that lie in the frame of a coroutine
  Null

Cells == Queues \union Ops

ASSUME QueueAssumption ==
  /\ Queues \intersect Ops = {}
  /\ CoroOps \subseteq Ops
  /\ Null \notin Cells

VARIABLES
  next,    \* what each cell owns: head_ of a queue, next of an operation
  tail,    \* tail_ of each queue, a cell
  phase    \* of the life of each queue and operation

vars == <<next, tail, phase>>

\* An operation that no queue owns is alive: the program has it.  An operation
\* is adrift when the queue that owned it has died but its frame has not.
QueuePhases == {"dead", "alive", "dying"}
OpPhases == QueuePhases \union {"queued", "adrift"}

Init ==
  /\ next = [c \in Cells |-> Null]
  /\ tail = [q \in Queues |-> q]
  /\ phase = [c \in Cells |-> "dead"]

Alive(c) == phase[c] = "alive"

Becomes(c, p) == phase' = [phase EXCEPT ![c] = p]

Empty(q) == tail[q] = q
-------------------------------------------------------------------------------
\* A new queue, or an operation from make_operation or co_await schedule().
Construct(c) ==
  /\ phase[c] = "dead" /\ Becomes(c, "alive")
  /\ next' = [next EXCEPT ![c] = Null]
  /\ tail' = IF c \in Queues THEN [tail EXCEPT ![c] = c] ELSE tail

Enqueue_AtHead(q, o) ==
  /\ Alive(q) /\ Alive(o) /\ Becomes(o, "queued")
  /\ next' = [next EXCEPT ![q] = o, ![o] = next[q]]
  /\ tail' = [tail EXCEPT ![q] = IF Empty(q) THEN o ELSE @]

Enqueue(q, o) ==
  /\ Alive(q) /\ Alive(o) /\ Becomes(o, "queued")
  /\ next' = [next EXCEPT ![tail[q]] = o]
  /\ tail' = [tail EXCEPT ![q] = o]

\* enqueue(operation_queue&&): the chain of r goes behind that of q.
Splice_KeepTail(q, r) ==
  /\ Alive(q) /\ Alive(r) /\ q # r /\ ~Empty(r)
  /\ next' = [next EXCEPT ![tail[q]] = next[r], ![r] = Null]
  /\ tail' = [tail EXCEPT ![q] = tail[r]]
  /\ UNCHANGED phase

Splice(q, r) ==
  /\ Alive(q) /\ Alive(r) /\ q # r /\ ~Empty(r)
  /\ next' = [next EXCEPT ![tail[q]] = next[r], ![r] = Null]
  /\ tail' = [tail EXCEPT ![q] = tail[r], ![r] = r]
  /\ UNCHANGED phase

\* deque() of a queue that is not empty, which asserts that it has a head_: its
\* new head_ is the old one's next.
Deque_KeepNext(q) ==
  LET first == next[q] IN
  /\ Alive(q) /\ ~Empty(q) /\ first # Null
  /\ next' = [next EXCEPT ![q] = next[first]]
  /\ tail' = [tail EXCEPT ![q] = IF next'[q] # Null THEN @ ELSE q]
  /\ Becomes(first, "alive")

Deque(q) ==
  LET first == next[q] IN
  /\ Alive(q) /\ ~Empty(q) /\ first # Null
  /\ next' = [next EXCEPT ![q] = next[first], ![first] = Null]
  /\ tail' = [tail EXCEPT ![q] = IF next'[q] # Null THEN @ ELSE q]
  /\ Becomes(first, "alive")

\* The tail_ of a queue that receives a head and the tail that belongs to it.
TailFor_Moved(q, head, t) == t
TailFor(q, head, t) == IF head # Null THEN t ELSE q

Swap(q, r) ==
  /\ Alive(q) /\ Alive(r) /\ q # r
  /\ next' = [next EXCEPT ![q] = next[r], ![r] = next[q]]
  /\ tail' = [tail EXCEPT ![q] = TailFor(q, next[r], tail[r]),
                          ![r] = TailFor(r, next[q], tail[q])]
  /\ UNCHANGED phase

\* The move constructor.
MoveConstruct(q, r) ==
  /\ phase[q] = "dead" /\ Becomes(q, "alive") /\ Alive(r)
  /\ next' = [next EXCEPT ![q] = next[r], ![r] = Null]
  /\ tail' = [tail EXCEPT ![q] = TailFor(q, next[r], tail[r]), ![r] = r]

\* Move assignment: tmp is moved from r, swapped with q, and dies.
MoveAssign(q, r, tmp) ==
  /\ Alive(q) /\ Alive(r) /\ q # r
  /\ phase[tmp] = "dead" /\ Becomes(tmp, "dying")
  /\ next' = [next EXCEPT ![q] = next[r], ![tmp] = next[q], ![r] = Null]
  /\ tail' = [tail EXCEPT ![q] = TailFor(q, next[r], tail[r]),
                          ![tmp] = TailFor(tmp, next[q], tail[q]), ![r] = r]
-------------------------------------------------------------------------------
\* The destructor of a queue; of an operation the program has, by its invoke;
\* of the frame that holds an operation which is adrift.
Destroy(c) ==
  /\ phase[c] \in {"alive", "adrift"} /\ Becomes(c, "dying")
  /\ UNCHANGED <<next, tail>>

\* operation_destroyer on what a dying cell owns.  Deleting an operation
\* destroys its next in turn; a coroutine's operation does nothing.
Unwind(c) ==
  LET first == next[c]
      spared == first \in CoroOps
  IN
  /\ phase[c] = "dying" /\ first # Null
  /\ next' = IF spared THEN [next EXCEPT ![c] = Null]
             ELSE [next EXCEPT ![c] = next[first], ![first] = Null]
  /\ Becomes(first, IF spared THEN "adrift" ELSE "dead")
  /\ UNCHANGED tail

Destroyed(c) ==
  /\ phase[c] = "dying" /\ next[c] = Null /\ Becomes(c, "dead")
  /\ UNCHANGED <<next, tail>>

Next ==
  \/ \E c \in Cells : Construct(c) \/ Destroy(c) \/ Unwind(c) \/ Destroyed(c)
  \/ \E q \in Queues : Deque(q) \/ \E o \in Ops : Enqueue(q, o)
  \/ \E q, r \in Queues : Splice(q, r) \/ Swap(q, r) \/ MoveConstruct(q, r)
  \/ \E q, r, tmp \in Queues : MoveAssign(q, r, tmp)

Spec == Init /\ [][Next]_vars
-------------------------------------------------------------------------------
TypeOK ==
  /\ next \in [Cells -> Ops \union {Null}]
  /\ tail \in [Queues -> Cells]
  /\ phase \in [Cells -> OpPhases]
  /\ \A q \in Queues : phase[q] \in QueuePhases

(* tail_ always is the address of a null pointer: enqueue(), which moves an  *)
(* operation into it, never destroys the rest of a queue.                    *)
TailsAreNull == \A q \in Queues : Alive(q) => next[tail[q]] = Null

(* An operation that the program has taken from a queue owns nothing: what   *)
(* it runs and deletes does not take the queue behind it along.              *)
TakenAreDetached == \A o \in Ops : Alive(o) => next[o] = Null

(* An operation is owned by at most one cell, and by one exactly while it is *)
(* queued: none is invoked or deleted twice, none is lost without a frame to *)
(* hold it, and none is owned by a queue after its memory has been freed.    *)
OwnedOnce ==
  \A o \in Ops :
    /\ \A c, d \in Cells : next[c] = o /\ next[d] = o => c = d
    /\ phase[o] = "queued" <=> \E c \in Cells : next[c] = o

(* empty(), which compares tail_, agrees with head_: deque()'s assertion     *)
(* holds whenever its caller has asked empty().                              *)
EmptyAgrees == \A q \in Queues : Alive(q) => (Empty(q) <=> next[q] = Null)
===============================================================================
