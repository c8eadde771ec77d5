------------------------------ MODULE SyncWaitTask ------------------------------
(***************************************************************************)
(* iol::sync_wait (sync_wait.hpp, detail/sync_wait_task.hpp): the thread   *)
(* Waiter resumes the coroutine Root, which awaits Main and sets an event  *)
(* at its end, on whatever thread that is; the Waiter waits for the event  *)
(* and destroys it with Root's frame.                                      *)
(***************************************************************************)
EXTENDS Awaitable

CONSTANTS
  Waiter,
  Main   \* the awaitable that sync_wait is called with

ASSUME TaskAssumption == Waiter \in Threads /\ Main \in Coroutines

VARIABLES
  event_state, at, seen,   \* the event
  pc,      \* where the Waiter is in sync_wait
  result   \* what sync_wait has returned or thrown

INSTANCE ManualResetEvent

event == <<event_state, at, seen>>
vars == <<frameVars, event, pc, result>>

Init ==
  /\ symmetric \in BOOLEAN
  /\ life = [c \in Frames |-> IF c \in {Root, Main} THEN "initial" ELSE "none"]
  /\ owner = [c \in Coroutines |-> IF c = Main THEN Root ELSE None]
  /\ continuation = [c \in Coroutines |-> None]
  /\ state = [c \in Coroutines |-> FALSE]
  /\ storage = [c \in Frames |-> "empty"]
  /\ awaits = [c \in Frames |-> None]
  /\ parked = {}
  /\ stack = [t \in Threads |-> <<>>]
  /\ EventInit
  /\ pc = "start" /\ result = "none"

Pc(from, to) == pc = from /\ pc' = to
-------------------------------------------------------------------------------
(* sync_wait on the Waiter.                                                *)

Start ==
  /\ Pc("start", "started")
  /\ life' = [life EXCEPT ![Root] = "alive"]
  /\ stack' = [stack EXCEPT ![Waiter] = << <<Root, "body">> >>]
  /\ UNCHANGED <<symmetric, owner, continuation, state, storage, awaits, parked, event, result>>

Started ==
  /\ Pc("started", "wait") /\ stack[Waiter] = <<>> /\ Wait(Waiter)
  /\ UNCHANGED <<frameVars, result>>

Waits ==
  /\ Load(Waiter) \/ FutexWait(Waiter)
  /\ UNCHANGED <<frameVars, pc, result>>

Interrupted == Interrupt(Waiter) /\ UNCHANGED <<frameVars, pc, result>>

\* get_value(), and the destructors of the task, the event and the argument.
GetValue ==
  /\ Pc("wait", "returned") /\ at[Waiter] = "idle"
  /\ result' = storage[Root]
  /\ life' = [life EXCEPT ![Root] = "gone", ![Main] = "gone"]
  /\ UNCHANGED <<symmetric, owner, continuation, state, storage, awaits, parked, stack, event>>
-------------------------------------------------------------------------------
(* Root: co_yield co_await awaitable.                                      *)

AwaitMain(t) == Await(t, Root, Main) /\ UNCHANGED <<event, pc, result>>

\* yield_value with the address of the value, return_void, or unhandled_exception.
Yield(t) ==
  /\ Runs(t, Root, "body") /\ life[Main] = "final"
  /\ life' = [life EXCEPT ![Root] = "final"]
  /\ storage' = [storage EXCEPT ![Root] = storage[Main]]
  /\ Steps(t, << <<Root, "notify">> >>)
  /\ UNCHANGED <<symmetric, owner, continuation, state, awaits, parked, event, pc, result>>

\* sync_wait_notify_awaiter: the promise is read before set().
Notify(t) ==
  /\ Runs(t, Root, "notify") /\ Set(t)
  /\ Steps(t, << <<Root, "setting">> >>)
  /\ UNCHANGED <<symmetric, life, owner, continuation, state, storage, awaits, parked, pc, result>>

Notified(t) ==
  /\ Runs(t, Root, "setting") /\ Wake(t)
  /\ Steps(t, <<>>)
  /\ UNCHANGED <<symmetric, life, owner, continuation, state, storage, awaits, parked, pc, result>>
-------------------------------------------------------------------------------
\* The Waiter is busy with sync_wait and resumes nothing but what start() does.
Others(t) ==
  /\ Body(t) \/ Proceeds(t) \/ \E c \in Coroutines : t # Waiter /\ Unpark(t, c)
  /\ UNCHANGED <<event, pc, result>>

Next ==
  \/ Start \/ Started \/ Waits \/ Interrupted \/ GetValue
  \/ \E t \in Threads : AwaitMain(t) \/ Yield(t) \/ Notify(t) \/ Notified(t) \/ Others(t)

Spec == Init /\ [][Next]_vars

(* A thread goes on where no coroutine's own code decides: in the library's   *)
(* functions and in sync_wait.  A coroutine need not return, nor be resumed   *)
(* by what it has been suspended in.                                          *)
FairSpec ==
  /\ Spec
  /\ WF_vars(Start \/ Started \/ Waits \/ GetValue)
  /\ \A t \in Threads :
       WF_vars((Proceeds(t) /\ UNCHANGED <<event, pc, result>>)
               \/ AwaitMain(t) \/ Yield(t) \/ Notify(t) \/ Notified(t))
-------------------------------------------------------------------------------
TypeOK ==
  /\ AwaitableTypeOK /\ EventTypeOK
  /\ pc \in {"start", "started", "wait", "returned"}
  /\ result \in {"none", "empty", "value", "error"}

(* sync_wait returns what Main has completed with.  By then no coroutine is   *)
(* suspended anywhere or runs; what threads have left to do is to return and  *)
(* at most one system call, whose argument is the address of an event that is *)
(* gone.                                                                      *)
ReturnsAlone ==
  pc = "returned" =>
    /\ result = storage[Main] /\ result # "empty"
    /\ parked = {} /\ \A c \in Frames : Entries(c) = {} /\ awaits[c] = None
    /\ Cardinality({t \in Threads : at[t] # "idle"}) <= 1

(* A coroutine that has returned resumes the one that awaits it, and the last *)
(* of all sync_wait, whichever of the two comes first to the exchange or to   *)
(* the futex.                                                                 *)
CompletionResumes ==
  /\ \A c \in Coroutines : (life[c] = "final") ~> \A k \in Frames : awaits[k] # c
  /\ (life[Root] = "final") ~> (pc = "returned")
===============================================================================
