-------------------------------- MODULE RunLoop --------------------------------
(***************************************************************************)
(* iol::execution::run_loop (src/execution/run_loop.cpp): a list of        *)
(* operation states, linked through them, that run() executes one by one.  *)
(*                                                                         *)
(* head_ is the cell Loop, next_ of the operation state o the cell o, and  *)
(* tail_ the address of a cell.  What a function does under mut_ is one    *)
(* step; everything it reads or writes there is under mut_ everywhere.     *)
(***************************************************************************)
EXTENDS Integers, Sequences, FiniteSets

CONSTANTS
  Ops,    \* the operation states of schedule() on this loop
  Loop, Null

Cells == {Loop} \union Ops

ASSUME LoopAssumption == Loop \notin Ops /\ Null \notin Cells

VARIABLES
  state,    \* state_, and the loop's life
  n_work,   \* n_work_
  next,     \* head_ and each next_
  tail,     \* tail_
  place,    \* where each operation state is
  contents  \* history: the operations in the list, the first to run first

loopVars == <<state, n_work, next, tail, place, contents>>

LoopInit ==
  /\ state = "none"
  /\ n_work = 0
  /\ next = [c \in Cells |-> Null]
  /\ tail = Loop
  /\ place = [o \in Ops |-> "new"]
  /\ contents = <<>>

Construct == state = "none" /\ state' = "running" /\ UNCHANGED <<n_work, next, tail, place, contents>>

\* The destructor: std::terminate unless the loop is finished and empty.
Destruct ==
  /\ state' = IF n_work # 0 \/ state = "running" THEN "terminated" ELSE "destroyed"
  /\ UNCHANGED <<n_work, next, tail, place, contents>>

PushBack_KeepTail(o) ==
  /\ place[o] = "new" /\ place' = [place EXCEPT ![o] = "queued"]
  /\ n_work' = n_work + 1
  /\ next' = [next EXCEPT ![tail] = o]
  /\ contents' = Append(contents, o)
  /\ UNCHANGED <<state, tail>>

PushBack(o) ==
  /\ place[o] = "new" /\ place' = [place EXCEPT ![o] = "queued"]
  /\ n_work' = n_work + 1
  /\ next' = [next EXCEPT ![tail] = o]
  /\ contents' = Append(contents, o)
  /\ tail' = o
  /\ UNCHANGED state

\* finish(); when it comes too late there is no loop to change.
SetFinishing ==
  /\ state' = IF state = "destroyed" THEN state ELSE "finishing"
  /\ UNCHANGED <<n_work, next, tail, place, contents>>

\* The predicate of cv_.wait in pop_front().
Ready_Work == n_work > 0
Ready == n_work > 0 \/ state = "finishing"

\* pop_front() returns null.
NoMore_Finishing == state = "finishing"
NoMore == Ready /\ n_work = 0

PopFront_KeepTail(o) ==
  /\ Ready /\ ~NoMore /\ o = next[Loop]
  /\ n_work' = n_work - 1
  /\ next' = [next EXCEPT ![Loop] = next[o]]
  /\ place' = [place EXCEPT ![o] = "running"] /\ contents' = Tail(contents)
  /\ UNCHANGED <<state, tail>>

PopFront_NullTail(o) ==
  /\ Ready /\ ~NoMore /\ o = next[Loop]
  /\ n_work' = n_work - 1
  /\ next' = [next EXCEPT ![Loop] = next[o]]
  /\ tail' = IF next[o] # Null THEN tail ELSE Null
  /\ place' = [place EXCEPT ![o] = "running"] /\ contents' = Tail(contents)
  /\ UNCHANGED state

PopFront(o) ==
  /\ Ready /\ ~NoMore /\ o = next[Loop]
  /\ n_work' = n_work - 1
  /\ next' = [next EXCEPT ![Loop] = next[o]]
  /\ tail' = IF next[o] # Null THEN tail ELSE Loop
  /\ place' = [place EXCEPT ![o] = "running"] /\ contents' = Tail(contents)
  /\ UNCHANGED state
-------------------------------------------------------------------------------
LoopTypeOK ==
  /\ state \in {"none", "running", "finishing", "destroyed", "terminated"}
  /\ n_work \in Nat
  /\ next \in [Cells -> Ops \union {Null}]
  /\ tail \in Cells
  /\ place \in [Ops -> {"new", "queued", "running", "done"}]
  /\ contents \in Seq(Ops)

CellAt(i) == IF i = 0 THEN Loop ELSE contents[i]

(* From head_ on the n_work_ operations that are queued are linked, each     *)
(* once, in the order in which they came, and tail_ is the address of the    *)
(* null pointer behind the last: never one inside an operation state that    *)
(* has been taken off, and may be gone.                                      *)
ListIntact ==
  /\ n_work = Len(contents)
  /\ \A i \in 1..Len(contents) : next[CellAt(i - 1)] = contents[i]
  /\ tail = CellAt(Len(contents)) /\ next[tail] = Null
  /\ \A o \in Ops : place[o] = "queued" <=> \E i \in 1..Len(contents) : contents[i] = o
  /\ \A i, j \in 1..Len(contents) : contents[i] = contents[j] => i = j

(* Operations run in the order in which they were started: the one that      *)
(* pop_front() takes has been in the list for longest.                       *)
LoopIsFifo ==
  [][\A o \in Ops : place[o] = "queued" /\ place'[o] # "queued" =>
       place'[o] = "running" /\ o = contents[1]]_loopVars
===============================================================================
