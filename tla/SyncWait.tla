-------------------------------- MODULE SyncWait --------------------------------
(***************************************************************************)
(* iol::execution::sync_wait (execution/sync_wait.hpp) on a RunLoop: one   *)
(* thread connects a sender, starts it and runs the loop until the sender  *)
(* has completed, on that thread or on another.                            *)
(*                                                                         *)
(* The sender is any that keeps the rules of its kind: its work is passed  *)
(* on between threads and operations of the loop, and whoever has the last *)
(* of it completes the receiver, once.  Operations that are not part of it *)
(* may be scheduled by what is running.                                    *)
(***************************************************************************)
EXTENDS RunLoop

CONSTANTS
  Waiter,     \* the thread that calls sync_wait
  Helpers,    \* threads the sender uses
  Detached    \* the operations that are not part of the sender

Actors == {Waiter} \union Helpers

ASSUME SyncWaitAssumption == Waiter \notin Helpers /\ Detached \subseteq Ops

VARIABLES
  pc,        \* where the waiter is in sync_wait and run()
  call,      \* where each thread is in push_back, finish or a completion
  working,   \* the threads that have a part of the sender's work
  sent,      \* what the sender has completed with
  stored,    \* storage_
  result     \* what sync_wait has returned

vars == <<loopVars, pc, call, working, sent, stored, result>>

Labels == {"begin", "connect", "start", "run", "asleep", "execute", "leave",
           "returned", "threw"}
Calls == {"none", "store", "finish", "notify_one", "notify_all",
          "finish_again", "notify_again"}

\* A value is stored, or its constructor throws.
Completions == {"value", "bad_value", "error", "stopped"}

Init ==
  /\ LoopInit
  /\ pc = "begin"
  /\ call = [a \in Actors |-> "none"]
  /\ working = {}
  /\ sent = "none" /\ stored = "nothing" /\ result = "none"

Waits(from, to) == pc = from /\ pc' = to
Calls_(a, from, to) == call[a] = from /\ call' = [call EXCEPT ![a] = to]
-------------------------------------------------------------------------------
(* sync_wait on its thread.                                                *)

Begin ==
  /\ Waits("begin", "connect") /\ Construct
  /\ UNCHANGED <<call, working, sent, stored, result>>

Connect ==
  /\ Waits("connect", "start") /\ working' = {Waiter}
  /\ UNCHANGED <<loopVars, call, sent, stored, result>>

\* connect() throws, and the loop is destroyed as it is.
ConnectThrows ==
  /\ Waits("connect", "threw") /\ Destruct
  /\ UNCHANGED <<call, working, sent, stored, result>>

\* start() returns: the sender has completed or is somewhere else.
Started ==
  /\ Waits("start", "run") /\ Waiter \notin working /\ call[Waiter] = "none"
  /\ UNCHANGED <<loopVars, call, working, sent, stored, result>>

Sleep ==
  /\ Waits("run", "asleep") /\ ~Ready
  /\ UNCHANGED <<loopVars, call, working, sent, stored, result>>

SpuriousWakeup ==
  /\ Waits("asleep", "run")
  /\ UNCHANGED <<loopVars, call, working, sent, stored, result>>

Pop(o) ==
  /\ Waits("run", "execute") /\ PopFront(o)
  /\ working' = IF o \in Detached THEN working ELSE working \union {Waiter}
  /\ UNCHANGED <<call, sent, stored, result>>

Executed(o) ==
  /\ Waits("execute", "run") /\ Waiter \notin working /\ call[Waiter] = "none"
  /\ place[o] = "running" /\ place' = [place EXCEPT ![o] = "done"]
  /\ UNCHANGED <<state, n_work, next, tail, contents, call, working, sent, stored, result>>

Leave ==
  /\ Waits("run", "leave") /\ NoMore
  /\ UNCHANGED <<loopVars, call, working, sent, stored, result>>

\* By storage_.index(); the loop is destroyed on the way out.
Return ==
  /\ Waits("leave", "returned") /\ Destruct
  /\ result' = CASE stored = "exception" -> "rethrown"
                 [] stored = "value" -> "value"
                 [] OTHER -> "nullopt"
  /\ UNCHANGED <<call, working, sent, stored>>
-------------------------------------------------------------------------------
(* The sender's work, and what else runs.                                  *)

Free(a) == call[a] = "none" /\ sent = "none" /\ a \in working

\* The thread keeps a part of the work or is left without.
KeepsOrLeaves(a) == working' \in {working, working \ {a}}

Schedule(a, o) ==
  /\ o \notin Detached /\ Free(a) /\ PushBack(o)
  /\ Calls_(a, "none", "notify_one")
  /\ KeepsOrLeaves(a)
  /\ UNCHANGED <<pc, sent, stored, result>>

\* Only while the loop cannot be gone: by what keeps sync_wait from returning.
ScheduleDetached(a, o) ==
  /\ o \in Detached /\ (Free(a) \/ (a = Waiter /\ pc = "execute")) /\ PushBack(o)
  /\ Calls_(a, "none", "notify_one")
  /\ UNCHANGED <<pc, working, sent, stored, result>>

\* The sender goes on on another thread, or on both.
PassOn(a, h) ==
  /\ Free(a) /\ h \notin working /\ call[h] = "none"
  /\ working' \in {working \union {h}, (working \ {a}) \union {h}}
  /\ UNCHANGED <<loopVars, pc, call, sent, stored, result>>

Carried(a) == working # {a} \/ \E o \in Ops \ Detached : place[o] = "queued"

LeaveToOthers(a) ==
  /\ Free(a) /\ Carried(a) /\ working' = working \ {a}
  /\ UNCHANGED <<loopVars, pc, call, sent, stored, result>>

Complete(a, how) ==
  /\ Free(a) /\ ~Carried(a) /\ working' = {}
  /\ sent' = how
  /\ Calls_(a, "none", IF how = "stopped" THEN "finish" ELSE "store")
  /\ UNCHANGED <<loopVars, pc, stored, result>>
-------------------------------------------------------------------------------
(* The functions they call.                                                *)

\* set_value and set_error: emplace in storage_.
Store_Keeps(a) ==
  /\ Calls_(a, "store", "finish")
  /\ stored' = IF sent = "value" THEN "value" ELSE stored
  /\ UNCHANGED <<loopVars, pc, working, sent, result>>

Store(a) ==
  /\ Calls_(a, "store", "finish")
  /\ stored' = IF sent = "value" THEN "value" ELSE "exception"
  /\ UNCHANGED <<loopVars, pc, working, sent, result>>

\* When storing throws, set_value has called set_error, and finishes again.
Finish(a) ==
  /\ \/ Calls_(a, "finish", "notify_all")
     \/ Calls_(a, "finish_again", "notify_again")
  /\ SetFinishing
  /\ UNCHANGED <<pc, working, sent, stored, result>>

AfterFinish_Twice == "finish_again"
AfterFinish == IF sent = "bad_value" THEN "finish_again" ELSE "none"

Notify(a) ==
  /\ \/ Calls_(a, "notify_one", "none")
     \/ Calls_(a, "notify_all", AfterFinish)
     \/ Calls_(a, "notify_again", "none")
  /\ pc' = IF pc = "asleep" THEN "run" ELSE pc
  /\ UNCHANGED <<loopVars, working, sent, stored, result>>

Next ==
  \/ Begin \/ Connect \/ ConnectThrows \/ Started \/ Sleep \/ SpuriousWakeup
  \/ Leave \/ Return
  \/ \E o \in Ops : Pop(o) \/ Executed(o)
  \/ \E a \in Actors :
       \/ \E o \in Ops : Schedule(a, o) \/ ScheduleDetached(a, o)
       \/ \E h \in Helpers : PassOn(a, h)
       \/ \E how \in Completions : Complete(a, how)
       \/ LeaveToOthers(a) \/ Store(a) \/ Finish(a) \/ Notify(a)

Spec == Init /\ [][Next]_vars

(* Threads go on inside sync_wait, finish() and the like, and an operation   *)
(* that is executed returns when it has nothing left to do.  Whether the     *)
(* sender ever completes is its own affair.                                  *)
FairSpec ==
  /\ Spec
  /\ WF_vars(Begin \/ Started \/ Leave \/ Return \/ \E o \in Ops : Pop(o) \/ Executed(o))
  /\ \A a \in Actors : WF_vars(Store(a) \/ Finish(a) \/ Notify(a))
-------------------------------------------------------------------------------
TypeOK ==
  /\ LoopTypeOK
  /\ pc \in Labels /\ call \in [Actors -> Calls]
  /\ working \subseteq Actors
  /\ sent \in Completions \union {"none"}
  /\ stored \in {"nothing", "value", "exception"}
  /\ result \in {"none", "value", "rethrown", "nullopt"}

(* When run() is over all operations have been executed, those included that *)
(* were scheduled while the loop was finishing, nobody works on the sender,  *)
(* and the loop's destructor does not terminate the program, which it does   *)
(* only when connect() has thrown.                                           *)
ReturnsDrained ==
  /\ pc \in {"leave", "returned"} =>
       sent # "none" /\ working = {} /\ \A o \in Ops : place[o] \in {"new", "done"}
  /\ state = "terminated" => pc = "threw"

(* sync_wait returns what the sender has completed with, whichever thread    *)
(* has stored it: a value, an exception (that of the value's constructor     *)
(* too), or nothing if it was stopped.                                       *)
ResultIsRight ==
  pc = "returned" =>
    result = CASE sent = "value" -> "value"
               [] sent = "stopped" -> "nullopt"
               [] OTHER -> "rethrown"

(* push_back() and finish() notify after they have released the mutex, and   *)
(* the thread they wake destroys the loop: that notification is all that can *)
(* come too late, except that a value whose constructor throws finishes the  *)
(* loop a second time.                                                       *)
LateCallers ==
  state = "destroyed" =>
    \A a \in Actors :
      \/ call[a] \in {"none", "notify_one", "notify_all"}
      \/ sent = "bad_value" /\ call[a] \in {"finish_again", "notify_again"}

(* Once the sender has completed, on whatever thread, sync_wait returns: no  *)
(* wakeup is missed, as all that the predicate reads changes under mut_.     *)
CompletionReturns == (sent # "none") ~> (pc = "returned")
===============================================================================
