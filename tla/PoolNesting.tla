------------------------------ MODULE PoolNesting ------------------------------
(***************************************************************************)
(* Several static_thread_pools and the threads in their attach(): the      *)
(* stack of thread_storage that a thread keeps (static_thread_pool.cpp,    *)
(* lines 12-29), and what an operation that runs on one pool's thread does *)
(* to another pool.  How one pool serves its queue is in StaticThreadPool. *)
(***************************************************************************)
EXTENDS Integers, Sequences, SequencesExt

CONSTANTS Pools, Threads, Ops, NoPool, NoOp,
          MaxDepth     \* how deep attach() is nested

VARIABLES
  main_queue,   \* main_operation_queue_ of each pool
  storages,     \* of each thread; the last is thread_storage::top
  home,         \* history: the pool each operation was given to
  crashed

vars == <<main_queue, storages, home, crashed>>

Init ==
  /\ main_queue = [p \in Pools |-> <<>>]
  /\ storages = [t \in Threads |-> <<>>]
  /\ home = [o \in Ops |-> NoPool]
  /\ crashed = FALSE

Top(t) == storages[t][Len(storages[t])]
SetTop(t, storage) == storages' = [storages EXCEPT ![t][Len(storages[t])] = storage]

\* Code of the program runs: outside of all pools, or in an operation.
InProgram(t) == ~crashed /\ (storages[t] # <<>> => Top(t).op # NoOp)
InAttach(t) == ~crashed /\ storages[t] # <<>> /\ Top(t).op = NoOp
-------------------------------------------------------------------------------
Attach(t, p) ==
  /\ InProgram(t) /\ Len(storages[t]) < MaxDepth
  /\ storages' = [storages EXCEPT ![t] =
                    Append(@, [pool_id |-> p, operation_queue |-> <<>>, op |-> NoOp])]
  /\ UNCHANGED <<main_queue, home, crashed>>

\* ~thread_storage; the pool was stopped or its work is done.
Leave(t) ==
  /\ InAttach(t) /\ storages' = [storages EXCEPT ![t] = Front(@)]
  /\ UNCHANGED <<main_queue, home, crashed>>

Invoke(t) ==
  LET p == Top(t).pool_id
  IN /\ InAttach(t) /\ main_queue[p] # <<>>
     /\ main_queue' = [main_queue EXCEPT ![p] = Tail(@)]
     /\ SetTop(t, [Top(t) EXCEPT !.op = Head(main_queue[p])])
     /\ UNCHANGED <<home, crashed>>

\* A single continuation is invoked at once, several go to the pool.
Return(t) ==
  LET queue == Top(t).operation_queue
  IN /\ InProgram(t) /\ storages[t] # <<>>
     /\ SetTop(t, [Top(t) EXCEPT !.operation_queue = <<>>,
                                 !.op = IF Len(queue) = 1 THEN Head(queue) ELSE NoOp])
     /\ main_queue' = IF Len(queue) = 1 THEN main_queue
                      ELSE [main_queue EXCEPT ![Top(t).pool_id] = @ \o queue]
     /\ UNCHANGED <<home, crashed>>
-------------------------------------------------------------------------------
(* The loop increments the pointer to the top storage where it should follow *)
(* previous_storage: behind an object that is of another pool it reads what  *)
(* is not there.  Unoptimised builds crash, optimised ones return true.      *)
running_in_this_thread(t, p) ==
  IF storages[t] = <<>> THEN {"false"}
  ELSE IF Top(t).pool_id = p THEN {"true"} ELSE {"true", "crash"}

EnqueueOperation(p, o) ==
  /\ home[o] = NoPool /\ home' = [home EXCEPT ![o] = p]
  /\ main_queue' = [main_queue EXCEPT ![p] = Append(@, o)]
  /\ UNCHANGED <<storages, crashed>>

EnqueueContinuation(t, p, o) ==
  /\ home[o] = NoPool /\ home' = [home EXCEPT ![o] = p]
  /\ SetTop(t, [Top(t) EXCEPT !.operation_queue = Append(@, o)])
  /\ UNCHANGED <<main_queue, crashed>>

Post(t, p, o) == InProgram(t) /\ EnqueueOperation(p, o)

Defer(t, p, o) ==
  /\ InProgram(t)
  /\ \/ "true" \in running_in_this_thread(t, p) /\ EnqueueContinuation(t, p, o)
     \/ "false" \in running_in_this_thread(t, p) /\ EnqueueOperation(p, o)
     \/ /\ "crash" \in running_in_this_thread(t, p) /\ crashed' = TRUE
        /\ UNCHANGED <<main_queue, storages, home>>

Next ==
  \E t \in Threads :
    \/ Leave(t) \/ Invoke(t) \/ Return(t)
    \/ \E p \in Pools :
         Attach(t, p) \/ \E o \in Ops : Post(t, p, o) \/ Defer(t, p, o)

Spec == Init /\ [][Next]_vars
-------------------------------------------------------------------------------
(* What enqueue_continuation() asserts (static_thread_pool.cpp:181), and its  *)
(* declaration asks for: it is called on a thread of this pool, whose storage *)
(* gets the continuation.  An operation of one pool that defers to another    *)
(* breaks it.                                                                 *)
ContinuationsAtHome ==
  \A t \in Threads, p \in Pools : \A i \in DOMAIN storages[t] :
    storages[t][i].pool_id = p =>
      \A o \in ToSet(storages[t][i].operation_queue) : home[o] = p
===============================================================================
