# A verification development for iol

iol is a C++20 library of two halves: coroutine tools (`awaitable`, `generator`,
`sync_wait`) with a thread pool to run on, and an implementation of
senders and receivers (`iol::execution`) with a `run_loop`. This directory holds
TLA+ models of its concurrent and pointer-level core and of what it computes with types,
the TLC configurations that check them, and proofs that TLAPS checks.

Paths below are relative to `src/`, the root of the library's sources.

## Inventory

| component | state | operations | what makes it correct |
|---|---|---|---|
| `static_thread_pool` (`src/static_thread_pool.cpp`, `include/iol/static_thread_pool.hpp`) | `running_`, `work_count_` (atomics), `main_operation_queue_`, `mut_`, `cv_`, `threads_`; for each attached thread `thread_storage` | construct, `attach`, `post`, `defer`, `schedule`, `stop`, `wait`, destroy | work count exact, nothing run twice or lost, no thread asleep beside work, shutdown and `wait` end, nobody touches a dead pool |
| `operation_queue` (`src/operation_queue.cpp`, `detail/operation_base.hpp`, `detail/allocation_utility.hpp`) | `head_`, `tail_`, `next` of each operation | enqueue one, enqueue a queue, `deque`, `empty`, `swap`, moves, destruction | the pointers are a first-in first-out sequence, each operation owned once |
| `fast_mutex` (`src/fast_mutex.cpp`) | one 32-bit word and the kernel's futex queue | `lock`, `try_lock`, `unlock` | mutual exclusion, hand-over to a waiter |
| `run_loop` (`src/execution/run_loop.cpp`) | `head_`, `tail_`, `n_work_`, `state_`, `mut_`, `cv_` | `run`, `finish`, `push_back`, `pop_front`, destroy | first-in first-out, drained when `run` returns, nobody touches a dead loop |
| `execution::sync_wait` | the variant for the result, a `run_loop` | connect, start, run, the three completions | returns what the sender completed with, once |
| `simple_manual_reset_event` | one word and the futex queue | `set`, `reset`, `wait`, `is_set` | no missed wakeup, `wait` returns only when set |
| `sync_wait` of awaitables (`sync_wait.hpp`, `detail/sync_wait_task.hpp`) | the event, the task's value or exception | start, wait, `get_value` | the value outlives the read, the event outlives `set` |
| `awaitable` | continuation, result; without symmetric transfer an atomic flag | `co_await`, final suspend, moves, destroy | the awaiting coroutine is resumed once, after the result is there |
| `generator` | the coroutine handle, the address of the value | `begin`, `++`, `*`, moves, destroy | no resume of a coroutine that is done, no read of a dead value |
| `then`, `read`, `just*`, adaptors | receivers and values | one completion in, one out | exactly one completion |
| `completion_signatures`, `meta` | none (types) | type-level functions | the signatures are those the adaptor can send; lists are not cut wrongly |
| customisation points, queries, traits, concepts | none | overload resolution | compile-time only |

How they interact. The pool owns one `operation_queue` under `mut_` and each attached
thread has another one that only it uses; an operation that runs may call the pool
again (`post`, `defer`, `stop`). A coroutine's operation lies in the coroutine's own
frame, a function's in allocated memory: the queue destroys both through `invoke`
with a null owner. `execution::sync_wait` drives a `run_loop` on the calling thread while
other threads complete the sender and call `finish`. `sync_wait` of an awaitable
blocks on a `simple_manual_reset_event` that the awaited coroutine sets, perhaps on a pool
thread. `fast_mutex` is used by nothing else in the library.

What is hard. Half of the pool's writes to `running_` and `work_count_` are not
under the mutex its condition variable waits with. A unit of work is handed from an
operation to its continuations. `wait()` empties `threads_`, so that destruction joins
nobody. The queue keeps the address of the pointer at its end, across moves and
splices. Futexes may return for no reason. Several objects are destroyed by the
thread they have just woken. The repository's one test program
(`test/main.cpp`) exercises none of this, so `PROJECT.json` lists these places as hazards.
The types are hard in their own way: the compiler computes them, lists are taken in pieces of
ten, six and five, and whether an expression is rejected softly, loudly or not at all
decides what a program may write.

## Modules

| module | what it is |
|---|---|
| `StaticThreadPool` | the pool: threads in `attach()`, clients, operations that call back |
| `OperationLedger` | what the pool promises about operations; the pool implements it |
| `MCStaticThreadPool` | symmetry for the runs of the pool |
| `StaticThreadPoolProofs` | its inductive invariants, seven theorems and the refinement of `OperationLedger` |
| `OperationQueue` | the linked list as pointers on the heap |
| `FifoQueues` | what it promises: sequences |
| `OperationQueueHistory` | the list with a history variable, the refinement mapping to `FifoQueues` |
| `MCOperationQueue` | symmetry |
| `OperationQueueProofs` | the invariant of the heap, four safety theorems, the refinement |
| `FastMutex`, `MCFastMutex`, `FastMutexProofs` | the futex mutex, its runs and proofs |
| `RunLoop` | the loop's list and its functions, one operator for each |
| `SyncWait` | `execution::sync_wait`, its thread, and a sender on other threads, composed with `RunLoop` |
| `SyncWaitProofs` | their inductive invariant and seven theorems |
| `ManualResetEvent`, `ManualResetEventProofs` | the event over a futex; two theorems |
| `Awaitable` | coroutines that await one another, on the stacks of threads |
| `SyncWaitTask` | `sync_wait` of an awaitable: composes `Awaitable` and `ManualResetEvent` |
| `SyncWaitTaskProofs` | the inductive invariant of both and eight theorems |
| `Generator`, `GeneratorProofs` | generator objects, their coroutines and the loops that read them; two theorems |
| `PoolNesting` | the stack of storages of a thread that is in `attach()` of several pools |
| `Meta`, `MCMeta` | the operators on lists of types, and every list they are applied to |
| `Signatures` | completion signatures: what they must be and how an adaptor's are computed |
| `Pipeline`, `MCPipeline` | senders written with closures, connected, started and completed; its senders and functions |
| `PipelineProofs` | what the operators on lists and signatures compute, what becomes of a signal, and four theorems |

### StaticThreadPool

`Workers` are the threads the constructor creates, `Guests` threads of the program that
call `attach()`, `Clients` other threads, of which `Owner` constructs and destroys
the pool. `pc[t]` is where a thread is in `attach()` (lines 98-135): one action
for each stretch between two points at which another thread can interfere.

- `Lock`, `Check`, `Block` split `cv_.wait`: the predicate is tested with the mutex held
  and the thread sleeps in a later step, and what changes without the mutex changes in
  between. That is where notifications are missed.
- `Take` is the second `is_running()`, `Pop` the `deque()` and `unlock`, with `more_ops`
  kept as a `signal` the thread has yet to send.
- The two loads of `is_running()` are one evaluation. That loses nothing:
  `running_` only goes to false, and `work_count_`, once zero, is
  raised again only under the mutex that the thread holds.
- `Return`, `LocalCheck`, `LocalPop` are lines 115-122 and `invoke_local`; `Settle`,
  `WakeAll`, `Relock` lines 124-134; `Leave` the destructor of `thread_storage` and
  its queue.
- While an operation runs (`run`, `run_local`) it may `Post`, `Defer` and `Stop`, in any order
  and number the operations left allow: the environment's choice.
- A critical section that takes the mutex, changes the queue and releases it is one
  step (`EnqueueOperation`, `WaitMove`, `Shutdown`); the `fetch_add` within it too,
  as nobody decides anything between the two. The notification after it is a step of its own,
  `NotifyOne` or `NotifyAll`, taken later.
- `fate` is a history of each operation. `Destroyed` is what the destruction of a queue
  does: functions are deleted one after the other; a coroutine's operation ignores the
  call (line 42), so it and what hangs behind it are leaked.
- `Destroy` is enabled when the other clients are out of the pool and no guest is
  attached: what any C++ object requires of its user. It does not require that
  `wait()` was called.

Left out: `wait()` on a pool thread (it joins itself), exceptions that leave an operation,
allocation failure. `attach()` to one pool inside an operation of another is the
subject of `PoolNesting`.

### PoolNesting

A thread that calls `attach()` while it is in an operation of another pool has a `thread_storage`
for each, linked through `previous_storage`. `storages[t]` is that list, with the pool, the
local queue and the operation of each. `Attach` and `Leave` are the constructor and
destructor of a storage, `Invoke` and `Return` the part of `attach()` around an operation. The
pool's counts and its sleeping are left to `StaticThreadPool`: a thread leaves when it
likes. `running_in_this_thread` is the loop as it is written, which increments the
pointer to the storage instead of following `previous_storage`, so behind a storage of another pool
it reads what is not there: the outcome is a set, with the two that builds of the function produce
(optimised, the loop has no other exit than `return true`). `home` remembers where an
operation was meant to run.

### OperationQueue

A *cell* is a pointer that owns an operation: `head_` of a queue or `next` of an
operation. `next[c]` is what the cell `c` owns, `tail[q]` the cell whose address `tail_` is. All
the operations of `operation_queue.cpp` are actions on these pointers. Destruction is taken apart:
`Destroy` begins it, each `Unwind` frees one operation of the chain and moves what it owned
up (the recursion of `operation_destroyer`), `Destroyed` ends it. An operation
in a coroutine's frame is spared: it stays *adrift*, with its chain, until the
frame is destroyed. The temporary of a move assignment is a queue of its own that dies.

Left out: destroying a coroutine's frame while its operation is queued (the
user's error; the queue would own freed memory).

`OperationQueueHistory` adds `contents`, the sequence of operations that hang on each cell.
No guard reads it, so each behaviour of `OperationQueue` has one with
it. Its `Fifo` maps live queues to `contents`, dying ones to the empty
sequence, and the operations that are alive to those the program holds.

### FastMutex

The Linux build. The word is 0, 1 (locked) or 2 (locked, perhaps waited for). Each
atomic access is a step: `Lock` is the compare-exchange at line 45, `Exchange` those at 48 and
51, `FutexWait` the kernel's check of the word, `Interrupt` a signal, `TryLoad` and
`TryLock` the two halves of `try_lock`, `Unlock` the `fetch_sub` and `FutexWake` the system
call. `scoped_lock` adds a flag that only its owner uses; `cond_var::wait` is
declared and never defined.

### RunLoop and SyncWait

`RunLoop` has the loop's variables and what each function does to them while it
holds `mut_`: `PushBack`, `SetFinishing`, `PopFront`, with `Ready` for the predicate of
the wait and `NoMore` for the null that ends `run()`. `head_` is the cell `Loop`, the
`next_` of an operation state the cell of its name, `tail` the cell whose address `tail_` is.
`Construct` and `Destruct` begin and end its life; the destructor terminates the
program when the loop is not finished or not empty. `contents` is a history variable, the
operations in the list from first to last, that no guard reads: `ListIntact` says
that the pointers are those of `contents`.

`SyncWait` extends it with the threads. `pc` is where the waiter is: in `connect`, in `start`,
in `run()`, asleep, inside an operation that it executes, past `run()`. `call[a]` is
where the thread `a` is in `push_back` or in a completion: a completion stores, finishes and notifies in
three steps, and `push_back`'s notification is a step after the list has changed. When the value's
constructor throws, `set_value` calls `set_error`, which finishes and notifies, and then
finishes and notifies again (`AfterFinish`).

The sender is any that follows the rules of senders. `working` is the set of threads that have a
part of its work: a thread may pass it on to another thread (`PassOn`), to an
operation on the loop (`Schedule`), or leave it to the others; who has the last of it completes
(`Complete`), once. Operations of nobody (`Detached`) are scheduled by what keeps
the loop alive, or by an operation that is running.

Left out: several threads in `run()` at once; destroying an operation state that is
queued (the user's error); stop tokens, which the library does not have.

### ManualResetEvent, Awaitable and SyncWaitTask

`ManualResetEvent` is the build over a futex. (The other one does not compile: `wait()` falls
through to `local::futex`, which is declared for Linux only, so its `reset()`, which stores
`true`, never runs.) `Set` is the store and `Wake` the system call; `Load`, `FutexWait` and
`Interrupt` are those of `wait()`. `seen` is a history variable.

`Awaitable` keeps each coroutine's frame (`life`), its promise (`continuation`, `state`,
`storage`), the coroutine it is waiting for (`awaits`), and each thread's `stack` of coroutines.
`symmetric` is the build, chosen in `Init`. With symmetric transfer a coroutine replaces
the one that resumes it on the stack. Without it (`GCC` unless optimised,
`config.hpp`) `await_suspend` resumes the awaited coroutine on top of itself and, when that returns, stores the
continuation (`Store`) and exchanges the flag (`Exchange`); the final suspend point
exchanges it too (`Final`), on whatever thread the coroutine has ended. A coroutine that ran
to its end is below the one it resumes until that returns (`Resumed`), by when its frame
may be gone. `Park` and `Unpark` stand for all other things a coroutine may await, a
pool's `schedule()` for example.

`SyncWaitTask` adds the thread that calls `sync_wait`, and `Root`, the coroutine of
`make_sync_wait_task`, which sets the event when it is suspended for the last time (`Notify`,
`Notified`). `GetValue` reads the result and destroys everything.

Left out: moving and swapping awaitables, `co_await` of an empty one (asserted
against), two coroutines that await the same one at once (the second overwrites `continuation_`;
no user may do it), and what a value is beyond value or error.

### Generator

`handle[g]` is `handle_` of each object, `life[f]` each coroutine's frame, `yielded[f]` how many
values it has yielded: `value_` points to the operand of that `co_yield`. The actions on
objects are the five of the class (`Default`, `Call`, `MoveConstruct`, `Assign`, `Swap`) and
the destructor. The assignment takes its argument by value and swaps, so that
an assignment to itself is a move out and back; `Assign` is the whole of it. A loop `for (auto&& v : g)` is
`Begin` or `BeginAtEnd`, then `Enter` (the comparison with `end()`, and `*`), `Advance`, and
`Leave` or `Break`. `Resume` is what the coroutine does until it suspends again: yields, ends, or
throws. `begin()` lets the exception through; `operator++` is `noexcept`, and the program ends.
Resuming or reading a frame that is gone or done is undefined: it makes `outcome` "undefined",
and nothing comes after it.

The program keeps the rules of ranges: one loop at a time reads a coroutine, nobody destroys it
meanwhile. It may move, assign and swap the objects in the middle of a loop.

Left out: copies of an iterator, which share its coroutine and its position; a
generator's value beyond its number.

### Meta, Signatures and Pipeline

These three model what the compiler computes. A list of types is a record of a template and a
sequence; a template that is applied to types is an operator on their sequence. What
is rejected, by a requires-clause or by an error, is the value `IllFormed`.

`Meta` has the operators of `meta.hpp` under their names. The four implementations of
`m_fold`, the six-at-a-time of `m_concat` and the five-at-a-time of `m_transform` are there as the
pieces they take a list in (`Pieces`, `Joined`, `Columns` and `ManyColumns`): that is where a
list could lose a type. Where the code recurses, the model has a recursive function over a domain that it
names, so that it can be reasoned about. `MCMeta` builds every list of its `Items` and states what
each operator makes of it: `ListSpec` pushes types to either end.

`Signatures` translates `completion_signatures.hpp`: the concept of a signature, `value_types` and
`error_types` of a list, and `make_completion_signatures`, with the three things it may be: a list
of signatures, a type that stands for "depends on the environment", or an error.

`Pipeline` writes senders. `Close`, `ComposeAfter`, `ComposeBefore` and `Pipe` are
`then(f)`, the two `operator|` between closures and the one between a sender and a closure, in
any nesting. The checks of `sender`, `then` and `connect` are the guards; `via` and `Route` are the
receiver adaptor's decision for each signal: its own member, the receiver below, or
nothing. `Connect`, `Queue`, `Start` and the steps of a signal run the operation: `just`, `read`, `schedule` and
senders of the program complete, each function is called or passed by, may throw, and the
signal comes to the receiver at the end.

Left out: `then` customised by a sender or a completion scheduler (nothing in the library does
it), closures of more than one argument, an adaptor without a base receiver, queries that
receivers and environments forward, what values are beyond their types.

## Runs

| run | instance | question |
|---|---|---|
| `pool_safety` | 2 workers, 2 clients, 3 function operations, 1 coroutine's; about 139,000 states | six invariants and `ImplementsLedger` |
| `pool_liveness` | 1 worker, 1 guest, 1 client, 3 operations, fair; about 54,000 states | are operations served, do destruction and `wait()` return, and `wait()` only when all has run |
| `mutex_safety` | 5 threads; 435 states | mutual exclusion; the word's range; what a contended unlock leaves |
| `mutex_handover` | 3 threads, fair | the hand-over, which the code does not perform |
| `queue_heap` | 3 queues, 2 heap operations and 1 coroutine's; about 7,700 states | five properties of the list |
| `sync_wait` | the waiter, 2 helpers, 2 operations of the sender, 2 detached, fair; about 120,000 states | the list and its order, the result, what is left when `run()` returns, who comes too late, and does `sync_wait` return |
| `event` | 3 threads, fair; 572 states | does `wait()` return for an event that is set, and only then |
| `task` | the waiter, 2 threads, 3 coroutines and the root, both builds, fair; about 37,000 states | resumption, lifetimes and results of coroutines, and the end of `sync_wait` |
| `meta` | every list of up to 16 of 2 types; 65,536 states up to symmetry | do the operators agree with their plain definitions |
| `pipeline` | 12 senders, 4 functions, up to 3 of them in a pipeline, 2 environments; about 7,200 states | are the signatures exact, and is what is delivered declared |
| `generator` | 3 objects, 2 coroutines of up to 2 values, 2 loops; about 40,000 states | ownership of frames, each value read once |
| `pool_nesting` | 2 pools, 2 threads, 3 operations, two pools deep | does a continuation stay with its pool, which it does not |

The bounds. The number of operations is the pool's only bound: each is submitted
once, so the work count, the queues and the counters are bounded by it and no
guard needs a cap. (`MaxDepth`, `MaxSize`, `MaxFns` and `MaxYields` cap what a program may
nest, write or yield in the other models.) Four operations give an operation that defers two
continuations, one of which defers again while the main queue is not empty, which is the
longest distinct path through lines 115-135. Two workers give one that sleeps, or is about
to, while the other settles; a second client gives `stop()` against `wait()`. The coroutine's
operation is there for the queue that is destroyed. A guest (`pool_liveness`) leaves
and attaches again, which a worker cannot. Three queues are what a move assignment with
its temporary needs, and with three operations a splice joins chains of lengths 2
and 1, or 1 and 2. Five threads at the mutex are a holder, two waiters and two in `try_lock`.
For the loop, four operations give lists of up to three behind one that runs, pushed by it
and by two other threads, before and after `finish`.
Three coroutines give a chain of three, or one that awaits two in turn, each of which may end on
the thread that awaits it, on another before the exchange, or on another after it; the
waiter's own thread only runs what `start()` runs on it. No counter needs a bound there either.
Sixteen types are a list of ten, five and one, the longest path through `m_fold`, and cut into lists of
one they are concatenated in three rounds. Three functions give a closure of two composed with a
third in both nestings, and a function behind one that throws. Three objects are an
assignment, its source and a third that holds another handle; two values are one that is
read before a loop is left and one after.

`CHECK_DEADLOCK FALSE` is set where the system may stop: a pool that is gone, a `sync_wait` that
has returned, a `wait()` that a missed wakeup hangs, a mutex that nobody can lock, a list of
full length, a pipeline that has completed or was rejected, a program that was terminated. In
`queue_heap` and `event` deadlock is checked.

### What they show

- The work count is exact, whoever posts, defers, waits and stops: it is the
  operations queued or worked on, and the constructor's unit. After `stop()` a thread
  may drop continuations with its unit, so it is at least that.
- `wait()` hangs in one way only. `wait()`, `stop()` and the last settling thread change what the
  predicate reads and notify without `mut_`, so the `notify_all` can come between a
  thread's test and its sleep. `WaitReturns` says that `wait()` returns unless
  exactly this happened (`MissedWakeup`); with two workers the shortest way there is
  nine steps. The destructor and the constructor's catch store under the mutex,
  and `ShutdownReachesSleepers` shows that this is enough.
- After a `stop()` each thread begins at most two more operations (`grace` in
  `OperationLedger`): one it had taken and one continuation, which line 118 invokes
  without a look at `running_`.
- A `fast_mutex` that was contended once is lost. `unlock()` subtracts 1 from 2; the waiter
  it wakes exchanges the 1 that is left, takes it for a holder, and sleeps. `mutex_handover` shows
  it, and `ContentionIsFinal` is the same as a safety property: from then on the word
  says locked and nobody is the holder. Mutual exclusion holds nevertheless.
- `sync_wait` never misses a wakeup, as everything its predicate reads changes under
  the mutex, and when `run()` returns every operation has been executed, those too that
  were pushed after `finish`. The price is at the other end: `finish()` and `push_back()`
  notify after they have released the mutex, and `LateCallers` bounds what can reach a loop
  that has been destroyed. It is that one notification; only when a value's
  constructor throws it is a whole second `finish()`, which locks a mutex that may be gone.
- If `connect` throws, the loop's destructor finds it running and terminates the program
  (`ReturnsDrained` has this as its only exception).
- The handshake of `awaitable` without symmetric transfer is right: of the two exchanges the second
  goes on, with the result there and the continuation stored, and neither touches the
  frame after its exchange. Both builds pass the same properties.
- `sync_wait` of an awaitable may return while the thread that set the event has not yet made its
  system call; it then wakes at the address of an event that is gone, and touches nothing else
  (`ReturnsAlone`).
- `running_in_this_thread` is wrong for a thread that is in two pools. `pool_nesting` shows a thread
  of one pool whose operation defers to another pool: the continuation lands in the first
  pool's storage, which runs it, while the second neither counts nor runs it (or the
  program crashes). `enqueue_continuation` asserts that this cannot be.
- Generators own their frames exactly once through moves, swaps and assignments, those to
  itself and those in the middle of a loop included, and loops that are left early and begun again
  go on behind the value they read last: `begin()` resumes.
- The type lists survive the pieces they are taken in. The empty list is the trap: it cannot be
  filtered, as no lists at all cannot be concatenated, nor counted, as the counter is then a `const`
  object whose conversion to a number is not a `const` member.
- The signatures of `then` are exactly what it can send, and a signal that reaches a receiver is one
  that the sender below declared. But `then` is rejected on a sender that lists no value or no
  error signature, as filtering an empty list is an error; a sender of the program that
  never fails cannot be adapted.

### Fairness

The pool: weak fairness for pending notifications, for the steps of `attach()` that need
no mutex, for the clients' steps inside `wait()` and for the joins; strong fairness for taking the
mutex (other threads take and release it all the time, and a `std::mutex` gives it
in the end to a thread that keeps asking) and for the return of an operation, which calls the
pool and is not enabled while a notification is pending. None for any call a client may make, for
spurious wakeups or for the creation of threads. The mutex: weak fairness for the steps inside
`lock`, `try_lock` and `unlock` and for the end of a critical section; nobody has to call
`lock`, and no signal has to come. `sync_wait`: weak fairness for the waiter's steps (construction,
`run()`, the return of an operation that has nothing left to do) and for each thread inside
a completion or `push_back`. None for the sender's work: whether it
completes is its own affair, and `CompletionReturns` starts when it has. Coroutines: weak fairness
for each thread inside the library's functions and for the waiter, none for what a coroutine's
body does nor for resuming one that is suspended elsewhere. The event: weak fairness inside `set`
and `wait`. Generators, pipelines, lists and nested pools have safety properties only.

## Proofs

All theorems are for every value of the constants, under the assumptions `PoolAssumption` (the
sets of threads and operations are finite, disjoint where they must be, and there is a
worker), `QueueAssumption`, `LoopAssumption` and `SyncWaitAssumption` (what has different names is
different), `GeneratorAssumption` (no coroutine is null), `SignaturesAssumption` and `PipelineAssumption` (`IllFormed`
is no type, list or sender, `void` is nothing that is sent, and functions and base senders are what
they are said to be), `MetaAssumption` (`IllFormed` is no item, truth value, number or list),
`AwaitableAssumption` and `TaskAssumption` (`Root` is
not one of the coroutines, `Main` is, and the `Waiter` is a thread), and none for the mutex and the event.

**Pool.** `TypeCorrect`, `WorkCountIsExact`, `AssertionsDoHold`, `NothingStranded`,
`ShutdownReaches`, `DestroyedAlone`. The work count is the hard one. That it is a natural number
depends on its being exact, so types and count are one induction. The count is
exact only because no operation is at two places: the invariant says of each operation
which queue, thread or place of work it is at, that a thread's `operation_count` is the
length of its local queue until a continuation is taken from it, and where in `attach()` it
may be non-zero. Cardinalities of the set of counted operations are then
followed through each action. `AssertionsDoHold` needs that the mutex is held from `Check` to
`Pop`. `NothingStranded` needs, in addition, who is bound to notify.

`WaitDoesDrain` and `PoolImplementsLedger` need that nothing is forgotten, which the count
alone does not say. `PlacedInv`: a live operation is in the main queue, in a thread's local queue
or in a thread's hands. `LossInv`: while the pool runs no operation is lost, and a thread
leaves `attach()` with an empty local queue. `DrainInv`: a worker goes away from a running pool
only after `wait()` has given back the constructor's unit, and as long as the only client is in `wait()`, only when
the count is zero; by `UnitInv` nothing is counted then. As `wait()` joins at least one worker,
no operation is left when it returns.

The refinement maps `open` to `running`, an operation to `running` if a thread is in
its body, and `grace` to the number of operations that threads past their checks may
still begin: two for a thread in `pop`, one for a thread in an operation or in `local_pop`, and
two for each thread while the pool is open. Beginning and finishing, posting and deferring, a stop
and the destruction of a queue each are a step of the ledger, every other action is a stutter. After a stop
beginning an operation takes one from the grace, and finishing it never adds to it. That an operation is begun alone on its
thread is `PlacedInv` with `CountInv`'s disjoint places, that it is lost only after a stop
`LossInv`. No assumption is added to those of the count.

**Mutex.** `MutexTypeCorrect` and `MutexExcludes` share an invariant: a holder means that the word
is not 0, and there is one at most. `ContentionEndsMutex` is an action property.

**Event.** `WaitSeesTheSet`: while the event is set each thread in `wait()` has been marked, by
`set()` or when it called. `NoLostWakeup`: a thread that sleeps on a set event has another
with its `futex_wake` before it. The system call compares the word and goes to sleep in one
step, so a sleeper found 0, and whoever stored the 1 since has not woken anybody yet.

**Queue.** `HeapInv` says that the pointers are those of `contents` (`Linked`), that chains
hang on nothing dead and only queued operations are in them (`Rooted`), and that no
operation is at two positions (`Apart`). None is inductive without the others: a splice writes through
`tail_`, which is the right cell by `Linked`, and no other chain's by `Apart` and `Rooted`.
Two lemmas carry most of the steps: `Rerooted` (whole chains change their owner:
swap, moves, begin and end of destruction) and `Beheaded` (a first operation goes: `deque`
and both kinds of `Unwind`). `TailsNull`, `TakenDetached` and `EmptyIsRight` follow;
`OwnedExactlyOnce` needs `Covered` too, that a queued operation is in some
chain. `QueuesAreFifo` maps each step to one of `FifoQueues` or to a stutter. These theorems are about
`HSpec`; the history is written by every action and read by none, so they hold of
`Spec`.

**Run loop and sync_wait.** `WaitInv` is about three things. The list: `LoopInv`
says that pointers and history agree and that a new operation state has no successor;
`PushBackIntact` and `PopFrontIntact` prove it for the two functions that change the list, and
that `pop_front()` takes the first. The call: `Phases` ties the place of the waiter to the life of the
loop, and `Executing` says that an operation is running only in `execute`, one at most, and that
once the sender has completed none of its own is queued. The completion: by `Completing` one thread at
most is in a completion, it has stored before it finishes, and only a value that threw
finishes twice. `RunReturnsDrained` needs all three: `finishing` means that the sender has
completed, and an empty list that nothing is queued. `ListStaysIntact`, `RunsInOrder`,
`ResultIsAlwaysRight`, `OnlyLateNotifications` and `WaitTypeCorrect` come from the same invariant.
`WakeupIsPending` adds `WakeupPending`: while the waiter sleeps with an operation in the list or the loop
finished, a thread is between its change and its notification; and a sender that has completed has a
thread in its completion until the loop is finished. With it `CompletionReturns` needs nothing but that
the threads named go on.

**Awaitables and their sync_wait.** `TaskInv` holds in both builds. `Stacks` says that a coroutine has one
entry in all stacks, apart from one that it leaves while it resumes another; `StepsStacks` is what replacing the
last entry of a stack does to that, and every action goes through it. `Lives` ties an entry to its frame, and
`Owned` says that a coroutine which has begun is awaited by its owner. `Handshake` is the heart of it: as long
as the awaiting coroutine is on a stack the flag is set exactly if the awaited one has passed its final
exchange, and once it is not, the continuation is stored and nobody has passed. So the second to come finds
the flag and the first does not, and one of them resumes. `Chained` says that those that live are a chain from
`Root`; it grows and shrinks at its end (`ChainGrows`, `ChainPops`). When `Root` is at its final suspend point
the chain is `Root` alone (`RootLast`), which is why nothing outlives `sync_wait`. `Called` relates
`Root`, the event and the thread that waits. From it come `TaskTypeCorrect`, `NeverTwoRunners`,
`FramesStayAlive`, `NothingOutlivesSyncWait` and `AwaitSeesResult`, an action property.

That nobody is left waiting takes two more invariants and the event. `Resumable`: a coroutine that
has begun and awaits no other is in its body on some stack or suspended in something that resumes it. `Signalled`: when
`Root` is over, the event is set or a thread is about to. `TaskKeepsEvent` shows that `sync_wait` takes the event's
steps and no others, so `NoLostWakeup`, proved of the event alone, holds inside it. `NoCoroutineIsStuck`: one whose
awaited coroutine has returned has one of the two still in the handshake. `SyncWaitWaitsForSomeone`: the waiter
waits for a set event or for coroutines of which one will go on, and never sleeps on a set event
without a wakeup due.

**Generator.** `FramesAreOwned` needs that a coroutine has one loop at a time (`OneLoop`) and that in a
loop's body it stands at a `co_yield` (`AtYield`). `EachValueReadOnce` adds that the number of values
yielded is the number read, but for the one that a loop is about to read.

**Signatures.** `SignaturesAreExact` is for any types and functions, and for senders nested as deeply as
`MaxFns` says. What the
compiler computes is a composition of operators on lists, so most of it is lemmas that say what
each returns. `ConcatIs`: `m_concat`, which takes six lists at a time, gives all of them in order, by induction
over the rounds. `KeptIs` and `UniqueIs`: filtering keeps what is asked for, in order and only if there is
something to filter, and `m_unique` leaves each type once. From these come the values and errors of a list of
signatures, and `ThenIs`, what `then` lists above it. `ThenOf` says that a sender with one function
more has the signatures of `then` over those of the sender, by induction over the functions. The invariant `WritingInv` says
that `sender` is one of `Senders` or rejected, and a closure is one of `Closures`, however it was composed;
`ApplyIs` that what a closure makes of a sender is a sender again, by induction over its size. Induction is over
numbers throughout: that the natural numbers are well-founded is a fact the library states without an operator
as a parameter, so a set of numbers can stand for the predicate.

`DeliveredWasDeclared` follows a signal from there. `Writes` says of a closure which functions it adds to any
sender, so that `sender` is always what is written, in order (`ComposeWrites`). `RouteAt` unfolds the receivers'
decision, which looks ahead to the end: by `TakenIsKnown` a value that is taken at the start comes
through to a value that the end declares, and by `KnownBelow` each sender below it then has
signatures, those on a `read()` included, which were accepted unseen. With `DeclaredAbove`, which is `ThenIs` for one
function, `Arrives` is kept by every step of a signal (`NextArrives`): it is declared below its receiver and
taken there, and as long as it is a value every function behind it was
called. Errors and stopped pass each function and are declared to the end (`OthersPass`). That a value fits the one tuple
of `sync_wait` is `OneValue`.

**Lists.** `PiecesInvariant` and `SelectionsInvariant` are for any `Items` and lists of any length. `ListSpec`
adds nothing but that
the list is an `m_list` of items (`ListTypeOK`); the rest is what the operators do with one.

A list is cut (`CutAt`) by `Pieces` as well as by `Rows`: each piece ends where the next begins and the last
where the list does.
`CutChain` puts pieces behind each other again, `PiecesCut` shows by induction over what is left
that tens, a five and the rest are such a cut, and `RowsCut` that rows are. A fold over pieces is then a
fold over each with the value so far (`PushedAllIs`, `PushedPiecesIs`), so `FoldIs`: folding
with `m_push_back` gives the list back. `ConcatIs` joins rows. For `m_transform` the value is a list of columns:
`ColumnsAre` has those of the first five lists, `BesideAllIs` and `ManyColumnsAre` put each list of each piece
beside them, and `TransformIs` says that lists of one size become their columns, however many there
are. Which rows have one size is arithmetic (`RowEnds`).

`Selects` says that a list has the types at some positions in their order. `SelectsMore` adds a position behind the
others; with it `UniqueSelects` and `KeptIs` are inductions over the list. `WithoutIs` and `CountIs` then split the
positions between filter and count, and `OrAndIs` and `ShortCircuits` are about the first value that is not false.

Only model-checked, and why:

- Liveness under fairness (`Served`, `ShutdownReturns`, `WaitReturns`, `CompletionReturns`, `Released`,
  `CompletionResumes`): TLAPS does not reason about fairness. What can go wrong
  there is a lost wakeup or a forgotten operation; that no state has either is proved (`NothingStranded`,
  `NoLostWakeup`, `WakeupIsPending`, `NoCoroutineIsStuck`, `SyncWaitWaitsForSomeone`). TLC checks the rest,
  that what is due is done.
- `HandOver` and `ContinuationsAtHome`, which the code violates; the second is all that `PoolNesting`
  is asked.

## Not modelled

- `static_thread_pool`: `wait()` called by one of the pool's own threads joins that thread, which the
  standard forbids; an exception out of an operation ends the process on a worker and unwinds a
  guest's `attach()` with its unit of work. Both are errors of the user with one outcome each.
- `fast_mutex`: `scoped_lock` is sequential, `cond_var::wait` has no definition.
- `awaitable`: moves and swaps of the handle, and `co_await` of an empty one, which is asserted against.
- `then` through customisations, closures of several arguments, `sync_wait_with_variant`, which is
  only declared.
- Customisation points, queries, concepts, traits and configuration macros beyond what `Pipeline`
  asks of them: the compiler resolves them and they keep no state.
- The test program and the build.
- The depth of the recursion that destroys a long queue, which no small instance reaches.
