--------------------------- MODULE StaticThreadPool ---------------------------
(***************************************************************************)
(* iol::static_thread_pool (src/static_thread_pool.cpp and its header).    *)
(*                                                                         *)
(* Threads that have entered attach() serve one queue of operations under  *)
(* a mutex and a condition variable; an operation that runs may defer      *)
(* continuations to its own thread; clients post, stop, wait and destroy.  *)
(*                                                                         *)
(* A critical section that only takes the mutex, changes the queue and     *)
(* releases it is one step.  The mutex is a variable because attach()      *)
(* holds it across the test of its predicate and the moment it falls       *)
(* asleep, while running_ and work_count_ change without it.               *)
(***************************************************************************)
EXTENDS Integers, Sequences, FiniteSets, Functions

CONSTANTS
  Workers,   \* the threads the constructor creates (threads_)
  Guests,    \* threads of the program that call attach() themselves
  Clients,   \* threads of the program that call the pool from outside
  Owner,     \* the client that constructs and destroys the pool
  Ops,       \* the operations the program may submit
  CoroOps,   \* those that are co_await schedule() of a coroutine
  NoThread, NoOp

Threads == Workers \union Guests
Actors == Threads \union Clients

ASSUME PoolAssumption ==
  /\ IsFiniteSet(Threads) /\ IsFiniteSet(Ops)
  /\ Workers # {}                   \* n_threads ? n_threads : 1
  /\ Workers \intersect Guests = {}
  /\ Threads \intersect Clients = {}
  /\ Owner \in Clients
  /\ CoroOps \subseteq Ops
  /\ NoThread \notin Threads /\ NoOp \notin Ops

VARIABLES
  running,     \* running_
  work_count,  \* work_count_
  main_queue,  \* main_operation_queue_
  mut,         \* the thread of attach() that holds mut_, or NoThread
  threads,     \* threads_: joinable, not moved out by wait()
  pc,          \* where each thread is in attach()
  local,       \* thread_storage::operation_queue
  count,       \* thread_storage::operation_count
  op,          \* the operation a thread invokes
  signal,      \* the notify_one / notify_all an actor has yet to perform
  call,        \* the call of the pool's interface a client is in
  joining,     \* the threads a client's wait() has moved out of threads_
  fate         \* what has become of each operation

vars == <<running, work_count, main_queue, mut, threads, pc, local, count, op,
          signal, call, joining, fate>>

Labels == {"idle", "lock", "check", "block", "asleep", "take", "pop", "run",
           "local_pop", "run_local", "local_check", "settle", "wake_all",
           "relock", "leaving", "exited"}
Calls == {"ctor", "ctor_join", "idle", "wait_release", "wait_join",
          "dtor_join", "gone"}
Fates == {"new", "live", "done", "dropped", "leaked"}
Signals == {"none", "one", "all"}
-------------------------------------------------------------------------------
IsRunning == running /\ work_count > 0

\* The predicate of cv_.wait.
Ready_Any == TRUE                    \* a wait without a predicate
Ready_Stopped == ~IsRunning          \* a predicate without the queue
Ready == ~IsRunning \/ main_queue # <<>>

\* There are more operations than the one a thread takes (more_ops).
MoreOps_Never == FALSE
MoreOps == Tail(main_queue) # <<>>

\* The work count after a thread has run an operation and its chain of single
\* continuations: its own unit of work pays for one continuation.
Settled_NoSurplus(t) == work_count - 1
Settled_KeepsUnit(t) == work_count + count[t] - (IF count[t] = 0 THEN 0 ELSE 1)
Settled(t) == work_count + count[t] - 1

Goto(t, from, to) == pc[t] = from /\ pc' = [pc EXCEPT ![t] = to]

InOperation(t) == pc[t] \in {"run", "run_local"} /\ signal[t] = "none"

Alive == call[Owner] \in {"idle", "wait_release", "wait_join"}

Calling(c) == Alive /\ call[c] = "idle" /\ signal[c] = "none"

\* join() of each thread of a vector.
Exited_First(ts) == ts = {} \/ \E t \in ts : pc[t] = "exited"
Exited(ts) == \A t \in ts : pc[t] = "exited"

\* Destroying a queue destroys its head, and each operation the next one; a
\* coroutine's operation ignores that (invoke_impl): it and the rest are leaked.
Leaked(queue) ==
  {queue[i] : i \in {j \in DOMAIN queue : \E k \in 1..j : queue[k] \in CoroOps}}

Destroyed(queue) ==
  [o \in Ops |-> CASE o \in Leaked(queue) -> "leaked"
                  [] o \in Range(queue) \ Leaked(queue) -> "dropped"
                  [] OTHER -> fate[o]]

Init ==
  /\ running = TRUE
  /\ work_count = 1
  /\ main_queue = <<>>
  /\ mut = NoThread
  /\ threads = {}
  /\ pc = [t \in Threads |-> "idle"]
  /\ local = [t \in Threads |-> <<>>]
  /\ count = [t \in Threads |-> 0]
  /\ op = [t \in Threads |-> NoOp]
  /\ signal = [a \in Actors |-> "none"]
  /\ call = [c \in Clients |-> IF c = Owner THEN "ctor" ELSE "idle"]
  /\ joining = [c \in Clients |-> {}]
  /\ fate = [o \in Ops |-> "new"]
-------------------------------------------------------------------------------
(* The condition variable.                                                 *)

NotifyOne(a) ==
  /\ signal[a] = "one"
  /\ signal' = [signal EXCEPT ![a] = "none"]
  /\ \/ /\ \A t \in Threads : pc[t] # "asleep"
        /\ UNCHANGED pc
     \/ \E t \in Threads : Goto(t, "asleep", "lock")
  /\ UNCHANGED <<running, work_count, main_queue, mut, threads, local, count,
                 op, call, joining, fate>>

NotifyAll(a) ==
  /\ signal[a] = "all"
  /\ signal' = [signal EXCEPT ![a] = "none"]
  /\ pc' = [t \in Threads |-> IF pc[t] = "asleep" THEN "lock" ELSE pc[t]]
  /\ UNCHANGED <<running, work_count, main_queue, mut, threads, local, count,
                 op, call, joining, fate>>

SpuriousWakeup(t) ==
  /\ Goto(t, "asleep", "lock")
  /\ UNCHANGED <<running, work_count, main_queue, mut, threads, local, count,
                 op, signal, call, joining, fate>>
-------------------------------------------------------------------------------
(* attach().                                                               *)

Attach(g) ==
  /\ Alive
  /\ Goto(g, "idle", "lock")
  /\ UNCHANGED <<running, work_count, main_queue, mut, threads, local, count,
                 op, signal, call, joining, fate>>

Lock(t) ==
  /\ mut = NoThread /\ mut' = t
  /\ Goto(t, "lock", "check")
  /\ UNCHANGED <<running, work_count, main_queue, threads, local, count, op,
                 signal, call, joining, fate>>

\* Tests the predicate of cv_.wait: no thread takes the mutex until the
\* outcome has been acted upon.
Check(t) ==
  /\ Goto(t, "check", IF Ready THEN "take" ELSE "block")
  /\ UNCHANGED <<running, work_count, main_queue, mut, threads, local, count,
                 op, signal, call, joining, fate>>

\* cv_.wait releases the mutex and sleeps, whatever has changed since Check.
Block(t) ==
  /\ Goto(t, "block", "asleep")
  /\ mut' = NoThread
  /\ UNCHANGED <<running, work_count, main_queue, threads, local, count, op,
                 signal, call, joining, fate>>

\* The second test of is_running(), after cv_.wait has returned.
Take(t) ==
  /\ Goto(t, "take", IF IsRunning THEN "pop" ELSE "leaving")
  /\ mut' = IF IsRunning THEN mut ELSE NoThread
  /\ UNCHANGED <<running, work_count, main_queue, threads, local, count, op,
                 signal, call, joining, fate>>

Pop(t) ==
  /\ main_queue # <<>>
  /\ Goto(t, "pop", "run")
  /\ op' = [op EXCEPT ![t] = Head(main_queue)]
  /\ main_queue' = Tail(main_queue)
  /\ mut' = NoThread
  /\ signal' = [signal EXCEPT
                 ![t] = IF MoreOps THEN "one" ELSE "none"]
  /\ UNCHANGED <<running, work_count, threads, local, count, call, joining,
                 fate>>

\* The operation returns.  The first continuation is invoked unconditionally,
\* any later one after a look at running_ (LocalCheck).
Return(t) ==
  /\ InOperation(t)
  /\ fate' = [fate EXCEPT ![op[t]] = "done"]
  /\ pc' = [pc EXCEPT ![t] = IF count[t] # 1 THEN "settle"
                             ELSE IF @ = "run" THEN "local_pop"
                             ELSE "local_check"]
  /\ UNCHANGED <<running, work_count, main_queue, mut, threads, local, count,
                 op, signal, call, joining>>

LocalCheck_Always(t) ==
  /\ Goto(t, "local_check", "local_pop")
  /\ UNCHANGED <<running, work_count, main_queue, mut, threads, local, count,
                 op, signal, call, joining, fate>>

LocalCheck(t) ==
  /\ Goto(t, "local_check", IF running THEN "local_pop" ELSE "leaving")
  /\ UNCHANGED <<running, work_count, main_queue, mut, threads, local, count,
                 op, signal, call, joining, fate>>

\* invoke_local.
LocalPop(t) ==
  /\ local[t] # <<>>
  /\ Goto(t, "local_pop", "run_local")
  /\ op' = [op EXCEPT ![t] = Head(local[t])]
  /\ local' = [local EXCEPT ![t] = Tail(@)]
  /\ count' = [count EXCEPT ![t] = 0]
  /\ UNCHANGED <<running, work_count, main_queue, mut, threads, signal, call,
                 joining, fate>>

\* Several continuations: the operation's own unit of work pays for one of
\* them.  None: the unit is given back, and the last one ends the pool.
Settle(t) ==
  /\ work_count' = Settled(t)
  /\ count' = [count EXCEPT ![t] = 0]
  /\ op' = [op EXCEPT ![t] = NoOp]
  /\ Goto(t, "settle",
          IF count[t] = 0 /\ Settled(t) = 0 THEN "wake_all" ELSE "relock")
  /\ UNCHANGED <<running, main_queue, mut, threads, local, signal, call,
                 joining, fate>>

\* work_count_ has reached zero: notify_all and return.
WakeAll(t) ==
  /\ Goto(t, "wake_all", "leaving")
  /\ signal' = [signal EXCEPT ![t] = "all"]
  /\ UNCHANGED <<running, work_count, main_queue, mut, threads, local, count,
                 op, call, joining, fate>>

Relock(t) ==
  /\ mut = NoThread /\ mut' = t
  /\ Goto(t, "relock", "check")
  /\ main_queue' = main_queue \o local[t]
  /\ local' = [local EXCEPT ![t] = <<>>]
  /\ UNCHANGED <<running, work_count, threads, count, op, signal, call,
                 joining, fate>>

\* attach() returns: ~thread_storage destroys the local queue.  A guest may
\* attach again.
Leave(t) ==
  /\ signal[t] = "none"
  /\ Goto(t, "leaving", IF t \in Guests THEN "idle" ELSE "exited")
  /\ fate' = Destroyed(local[t])
  /\ local' = [local EXCEPT ![t] = <<>>]
  /\ count' = [count EXCEPT ![t] = 0]
  /\ op' = [op EXCEPT ![t] = NoOp]
  /\ UNCHANGED <<running, work_count, main_queue, mut, threads, signal, call,
                 joining>>
-------------------------------------------------------------------------------
(* The interface, called by clients and by operations that run.            *)

\* enqueue_operation: the notify_one comes after the critical section.
EnqueueOperation(a, o) ==
  /\ fate[o] = "new" /\ fate' = [fate EXCEPT ![o] = "live"]
  /\ mut = NoThread
  /\ main_queue' = Append(main_queue, o)
  /\ work_count' = work_count + 1
  /\ signal' = [signal EXCEPT ![a] = "one"]
  /\ UNCHANGED <<running, mut, threads, pc, local, count, op, call, joining>>

\* enqueue_continuation, of the thread's own storage.
EnqueueContinuation(t, o) ==
  /\ fate[o] = "new" /\ fate' = [fate EXCEPT ![o] = "live"]
  /\ local' = [local EXCEPT ![t] = Append(@, o)]
  /\ count' = [count EXCEPT ![t] = @ + 1]
  /\ UNCHANGED <<running, work_count, main_queue, mut, threads, pc, op,
                 signal, call, joining>>

\* Outside the pool post, defer and co_await schedule() all enqueue.
Submit(c, o) == Calling(c) /\ o \notin CoroOps /\ EnqueueOperation(c, o)
Schedule(c, o) == Calling(c) /\ o \in CoroOps /\ EnqueueOperation(c, o)

\* On a thread of the pool post enqueues, defer makes a continuation, and
\* co_await schedule() is ready at once, which changes nothing.
Post(t, o) == InOperation(t) /\ o \notin CoroOps /\ EnqueueOperation(t, o)
Defer(t, o) == InOperation(t) /\ o \notin CoroOps /\ EnqueueContinuation(t, o)

Stop(a) ==
  /\ IF a \in Clients THEN Calling(a) ELSE InOperation(a)
  /\ running' = FALSE
  /\ signal' = [signal EXCEPT ![a] = "all"]
  /\ UNCHANGED <<work_count, main_queue, mut, threads, pc, local, count, op,
                 call, joining, fate>>

\* wait(): moves threads_ out under the mutex; a later call finds none.
WaitMove(c) ==
  /\ Calling(c) /\ mut = NoThread
  /\ threads # {} /\ threads' = {}
  /\ joining' = [joining EXCEPT ![c] = threads]
  /\ call' = [call EXCEPT ![c] = "wait_release"]
  /\ UNCHANGED <<running, work_count, main_queue, mut, pc, local, count, op,
                 signal, fate>>

\* Gives back the constructor's unit of work, without the mutex.
WaitRelease(c) ==
  /\ call[c] = "wait_release" /\ call' = [call EXCEPT ![c] = "wait_join"]
  /\ work_count' = work_count - 1
  /\ signal' = [signal EXCEPT ![c] = "all"]
  /\ UNCHANGED <<running, main_queue, mut, threads, pc, local, count, op,
                 joining, fate>>

WaitJoin(c) ==
  /\ call[c] = "wait_join" /\ call' = [call EXCEPT ![c] = "idle"]
  /\ signal[c] = "none"
  /\ Exited(joining[c])
  /\ joining' = [joining EXCEPT ![c] = {}]
  /\ UNCHANGED <<running, work_count, main_queue, mut, threads, pc, local,
                 count, op, signal, fate>>
-------------------------------------------------------------------------------
(* Construction and destruction.                                           *)

SpawnThread(w) ==
  /\ call[Owner] = "ctor" /\ w \notin threads
  /\ threads' = threads \union {w}
  /\ Goto(w, "idle", "lock")
  /\ call' = [call EXCEPT ![Owner] = IF threads' = Workers THEN "idle" ELSE @]
  /\ UNCHANGED <<running, work_count, main_queue, mut, local, count, op,
                 signal, joining, fate>>

\* Clears running_ under the mutex, then notify_all.
Shutdown_Unlocked(to) ==
  /\ running' = FALSE
  /\ signal' = [signal EXCEPT ![Owner] = "all"]
  /\ call' = [call EXCEPT ![Owner] = to]
  /\ UNCHANGED <<work_count, main_queue, mut, threads, pc, local, count, op,
                 joining, fate>>

Shutdown(to) ==
  /\ mut = NoThread
  /\ running' = FALSE
  /\ signal' = [signal EXCEPT ![Owner] = "all"]
  /\ call' = [call EXCEPT ![Owner] = to]
  /\ UNCHANGED <<work_count, main_queue, mut, threads, pc, local, count, op,
                 joining, fate>>

\* emplace_back throws: the threads there are must be stopped and joined.
SpawnFails == call[Owner] = "ctor" /\ Shutdown("ctor_join")

\* ~static_thread_pool: the program must have left the pool.
Destroy ==
  /\ Calling(Owner)
  /\ \A c \in Clients : call[c] = "idle" /\ signal[c] = "none"
  /\ \A g \in Guests : pc[g] = "idle"
  /\ Shutdown("dtor_join")

\* The joins end, and the members are destroyed.
Joined ==
  /\ call[Owner] \in {"ctor_join", "dtor_join"} /\ signal[Owner] = "none"
  /\ Exited(threads)
  /\ call' = [call EXCEPT ![Owner] = "gone"]
  /\ fate' = Destroyed(main_queue)
  /\ main_queue' = <<>>
  /\ UNCHANGED <<running, work_count, mut, threads, pc, local, count, op,
                 signal, joining>>
-------------------------------------------------------------------------------
AttachStep(t) ==
  \/ Lock(t) \/ Check(t) \/ Block(t) \/ Take(t) \/ Pop(t)
  \/ Return(t) \/ LocalCheck(t) \/ LocalPop(t)
  \/ Settle(t) \/ WakeAll(t) \/ Relock(t) \/ Leave(t)

OperationCall(t) ==
  \/ \E o \in Ops : Post(t, o) \/ Defer(t, o)
  \/ Stop(t)

ClientCall(c) ==
  \/ \E o \in Ops : Submit(c, o) \/ Schedule(c, o)
  \/ Stop(c) \/ WaitMove(c)

ClientStep(c) == WaitRelease(c) \/ WaitJoin(c)

OwnerStep == (\E w \in Workers : SpawnThread(w)) \/ SpawnFails \/ Joined

Next ==
  \/ \E a \in Actors : NotifyOne(a) \/ NotifyAll(a)
  \/ \E t \in Threads : AttachStep(t) \/ OperationCall(t) \/ SpuriousWakeup(t)
  \/ \E g \in Guests : Attach(g)
  \/ \E c \in Clients : ClientCall(c) \/ ClientStep(c)
  \/ OwnerStep \/ Destroy

Spec == Init /\ [][Next]_vars

(* Threads are scheduled, mutexes are granted in the end to a thread that    *)
(* keeps asking, operations return.  No client has to call anything.         *)
Fairness ==
  /\ \A a \in Actors : WF_vars(NotifyOne(a) \/ NotifyAll(a))
  /\ \A t \in Threads :
       /\ SF_vars(Lock(t) \/ Relock(t))
       /\ SF_vars(Return(t))
       /\ WF_vars(Check(t) \/ Block(t) \/ Take(t) \/ Pop(t) \/ LocalCheck(t)
                   \/ LocalPop(t) \/ Settle(t) \/ WakeAll(t) \/ Leave(t))
  /\ \A c \in Clients : WF_vars(ClientStep(c))
  /\ WF_vars(Joined)

FairSpec == Spec /\ Fairness
-------------------------------------------------------------------------------
TypeOK ==
  /\ running \in BOOLEAN
  /\ work_count \in Nat
  /\ main_queue \in Seq(Ops)
  /\ mut \in Threads \union {NoThread}
  /\ threads \subseteq Workers
  /\ pc \in [Threads -> Labels]
  /\ local \in [Threads -> Seq(Ops)]
  /\ count \in [Threads -> Nat]
  /\ op \in [Threads -> Ops \union {NoOp}]
  /\ signal \in [Actors -> Signals]
  /\ call \in [Clients -> Calls]
  /\ joining \in [Clients -> SUBSET Workers]
  /\ fate \in [Ops -> Fates]

\* A thread has a unit of work from the moment it takes an operation until it
\* settles; the constructor has one until wait() gives it back.
HoldsUnit(t) ==
  pc[t] \in {"run", "local_pop", "run_local", "local_check", "settle"}

OwnUnit ==
  IF \/ call[Owner] = "ctor" \/ threads # {}
     \/ \E c \in Clients : call[c] = "wait_release"
  THEN 1 ELSE 0

\* The operations the units of work outside the queue stand for.
Carried(t) ==
  IF HoldsUnit(t) THEN {op[t]} ELSE {o \in Range(local[t]) : pc[t] = "relock"}

Counted == Range(main_queue) \union UNION {Carried(t) : t \in Threads}

(* work_count_, which is changed by half of the code without the mutex and    *)
(* carries a unit over from an operation to its continuations, is exactly the *)
(* number of operations that are queued or being worked on, plus the unit of  *)
(* the constructor.  After a stop it may be more (a continuation is dropped   *)
(* with its thread's unit), never less: the size_t cannot wrap below zero.    *)
WorkCountExact ==
  /\ work_count >= OwnUnit + Cardinality(Counted)
  /\ running => work_count = OwnUnit + Cardinality(Counted)

(* deque() is only called on a queue that is not empty (IOL_ASSERT(head_)),   *)
(* though attach() looks at is_running() twice and at the queue once; and     *)
(* "count is > 1" wherever attach() says so.                                  *)
AssertionsHold ==
  \A t \in Threads :
    /\ pc[t] = "pop" => main_queue # <<>>
    /\ pc[t] = "local_pop" => local[t] # <<>>
    /\ pc[t] = "settle" => count[t] # 1

(* No thread sleeps beside a queue with work in a running pool, unless        *)
(* somebody is about to look at the queue or to notify: one notify_one for    *)
(* each post and one for each thread that leaves operations behind suffice.   *)
NoStrandedWork ==
  (IsRunning /\ main_queue # <<>> /\ \E t \in Threads : pc[t] = "asleep")
    => \/ \E a \in Actors : signal[a] # "none"
       \/ \E t \in Threads :
            pc[t] \in {"lock", "relock", "check", "take", "pop"}

(* Once the destructor, or the constructor's catch, has notified, no thread   *)
(* is asleep or about to be: the joins cannot wait for a missed wakeup.       *)
ShutdownReachesSleepers ==
  call[Owner] \in {"ctor_join", "dtor_join", "gone"} /\ signal[Owner] = "none"
    => \A t \in Threads : pc[t] \notin {"block", "asleep"}

(* Whichever of wait() and the destructor joined them, no thread is still     *)
(* in attach(), about to notify or about to destroy its storage, when the     *)
(* pool's members are destroyed.                                              *)
NothingAfterDestroy ==
  call[Owner] = "gone" =>
    /\ mut = NoThread
    /\ \A t \in Threads : pc[t] \in {"idle", "exited"} /\ signal[t] = "none"

(* wait() of a pool that is not stopped returns when every operation has run, *)
(* the continuations of continuations included, if no other client posts.     *)
WaitDrains ==
  [][\A c \in Clients : WaitJoin(c) /\ running /\ Clients = {c}
       => \A o \in Ops : fate[o] \in {"new", "done"}]_vars

(* A started operation runs alone on its thread and finishes before another   *)
(* begins; a submitted one is begun at most once; it is lost only after a     *)
(* stop; and after a stop each thread begins at most two more.                *)
BusyWith(t) == IF pc[t] \in {"run", "run_local"} THEN {op[t]} ELSE {}

LedgerFate ==
  [o \in Ops |->
     CASE fate[o] = "live" ->
            IF \E t \in Threads : o \in BusyWith(t) THEN "running" ELSE "queued"
       [] fate[o] \in {"dropped", "leaked"} -> "lost"
       [] OTHER -> fate[o]]

At(labels) == Cardinality({t \in Threads : pc[t] \in labels})

LedgerGrace ==
  IF running THEN 2 * Cardinality(Threads)
  ELSE 2 * At({"pop"}) + At({"run", "local_pop"})

Ledger == INSTANCE OperationLedger WITH
  Width <- Cardinality(Threads),
  open <- running,
  fate <- LedgerFate,
  grace <- LedgerGrace

ImplementsLedger == Ledger!Spec

(* An operation that is submitted while some thread is in attach() is begun   *)
(* and finished, or the pool is stopped.                                      *)
Staffed ==
  \E t \in Threads : pc[t] \notin {"idle", "wake_all", "leaving", "exited"}

Served ==
  \A o \in Ops : (fate[o] = "live" /\ Staffed) ~> (fate[o] # "live" \/ ~running)

(* The destructor, and the constructor that fails, return.                    *)
ShutdownReturns ==
  (call[Owner] \in {"ctor_join", "dtor_join"}) ~> (call[Owner] = "gone")

(* work_count_ and running_ change outside the mutex in wait(), in stop() and *)
(* when a thread settles, so a notify_all may come between a thread's test of *)
(* its predicate and its sleep; nobody will notify it again.  This is the     *)
(* only way in which wait() does not return.                                  *)
MissedWakeup ==
  /\ ~IsRunning
  /\ \E t \in Threads : pc[t] = "asleep"
  /\ \A t \in Threads : pc[t] # "wake_all"
  /\ \A a \in Actors : signal[a] # "all"

WaitReturns ==
  \A c \in Clients :
    (call[c] = "wait_join") ~> (call[c] = "idle" \/ MissedWakeup)
===============================================================================
