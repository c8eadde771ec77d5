------------------------- MODULE OperationQueueHistory -------------------------
(***************************************************************************)
(* OperationQueue with a history variable: the operations each cell owns,  *)
(* directly or through others, as a sequence.  Nothing reads it, so the    *)
(* behaviours are those of OperationQueue; it is the refinement mapping to *)
(* FifoQueues.                                                             *)
(***************************************************************************)
EXTENDS OperationQueue, Sequences, Integers, Functions

VARIABLE contents

HInit == Init /\ contents = [c \in Cells |-> <<>>]

HEnqueue(q, o) ==
  Enqueue(q, o) /\ contents' = [contents EXCEPT ![q] = Append(@, o)]

HSplice(q, r) ==
  /\ Splice(q, r)
  /\ contents' = [contents EXCEPT ![q] = @ \o contents[r], ![r] = <<>>]

HDeque(q) == Deque(q) /\ contents' = [contents EXCEPT ![q] = Tail(@)]

HSwap(q, r) ==
  /\ Swap(q, r)
  /\ contents' = [contents EXCEPT ![q] = contents[r], ![r] = contents[q]]

HMoveConstruct(q, r) ==
  /\ MoveConstruct(q, r)
  /\ contents' = [contents EXCEPT ![q] = contents[r], ![r] = <<>>]

HMoveAssign(q, r, tmp) ==
  /\ MoveAssign(q, r, tmp)
  /\ contents' = [contents EXCEPT ![q] = contents[r], ![tmp] = contents[q],
                                  ![r] = <<>>]

HUnwind(c) ==
  /\ Unwind(c)
  /\ contents' =
       IF next[c] \in CoroOps
       THEN [contents EXCEPT ![c] = <<>>, ![next[c]] = Tail(contents[c])]
       ELSE [contents EXCEPT ![c] = Tail(@)]

HNext ==
  \/ \E c \in Cells :
       \/ (Construct(c) \/ Destroy(c) \/ Destroyed(c)) /\ UNCHANGED contents
       \/ HUnwind(c)
  \/ \E q \in Queues : HDeque(q) \/ \E o \in Ops : HEnqueue(q, o)
  \/ \E q, r \in Queues : HSplice(q, r) \/ HSwap(q, r) \/ HMoveConstruct(q, r)
  \/ \E q, r, tmp \in Queues : HMoveAssign(q, r, tmp)

HSpec == HInit /\ [][HNext]_<<vars, contents>>
-------------------------------------------------------------------------------
Cell(c, i) == IF i = 0 THEN c ELSE contents[c][i]

(* The cells of a chain, from the one that owns its first operation to the   *)
(* null pointer at its end, which is where tail_ of a live queue points.     *)
Linked ==
  \A c \in Cells : phase[c] # "queued" =>
    /\ \A i \in 0..Len(contents[c]) :
         next[Cell(c, i)] = IF i = Len(contents[c]) THEN Null
                            ELSE contents[c][i + 1]
    /\ c \in Queues /\ Alive(c) => tail[c] = Cell(c, Len(contents[c]))

\* A chain hangs on a queue or a frame that is not dead, and on nothing else.
Rooted ==
  \A c \in Cells :
    /\ contents[c] # <<>> =>
         phase[c] \in {"dying", "adrift"} \/ (c \in Queues /\ Alive(c))
    /\ \A i \in DOMAIN contents[c] : phase[contents[c][i]] = "queued"

\* No operation is at two places.
Apart ==
  \A c, d \in Cells : \A i \in DOMAIN contents[c], j \in DOMAIN contents[d] :
    contents[c][i] = contents[d][j] => c = d /\ i = j

\* Every queued operation is in some chain.
Covered ==
  \A o \in Ops : phase[o] = "queued" => \E c \in Cells : o \in Range(contents[c])

(* Seen through the history, the queues are the sequences of FifoQueues, and *)
(* a queue that is being destroyed is empty at once.                         *)
Shown == [q \in Queues |-> IF Alive(q) THEN contents[q] ELSE <<>>]
Held == {o \in Ops : Alive(o)}

Fifo == INSTANCE FifoQueues WITH contents <- Shown, held <- Held

ImplementsFifo == Fifo!Spec
===============================================================================
