--------------------------- MODULE ManualResetEvent ---------------------------
(***************************************************************************)
(* iol::detail::simple_manual_reset_event (simple_manual_reset_event.cpp)  *)
(* in its build over a Linux futex, the only one that compiles: line 76    *)
(* calls the function that is declared for Linux alone.                    *)
(***************************************************************************)
EXTENDS Integers

CONSTANT Threads

VARIABLES
  event_state,   \* state_
  at,            \* where each thread is in set() or wait()
  seen           \* history: the event has been set since the thread's last call of wait()

eventVars == <<event_state, at, seen>>

Waiting == {"load", "futex", "asleep"}

EventInit ==
  /\ event_state = 0
  /\ at = [t \in Threads |-> "idle"]
  /\ seen = [t \in Threads |-> FALSE]

Goes(t, from, to) == at[t] = from /\ at' = [at EXCEPT ![t] = to]

\* set(): the store; the system call follows in Wake.
Set(t) ==
  /\ Goes(t, "idle", "wake") /\ event_state' = 1
  /\ seen' = [u \in Threads |-> TRUE]

Wake_One(t) ==
  /\ at[t] = "wake"
  /\ \/ \E u \in Threads : at[u] = "asleep" /\ at' = [at EXCEPT ![t] = "idle", ![u] = "load"]
     \/ (\A u \in Threads : at[u] # "asleep") /\ at' = [at EXCEPT ![t] = "idle"]
  /\ UNCHANGED <<event_state, seen>>

\* FUTEX_WAKE_PRIVATE of all.
Wake(t) ==
  /\ at[t] = "wake"
  /\ at' = [u \in Threads |-> IF u = t THEN "idle" ELSE IF at[u] = "asleep" THEN "load" ELSE at[u]]
  /\ UNCHANGED <<event_state, seen>>

Reset(t) ==
  /\ at[t] = "idle" /\ event_state' = 0
  /\ UNCHANGED <<at, seen>>

\* wait() begins.
Wait(t) ==
  /\ Goes(t, "idle", "load")
  /\ seen' = [seen EXCEPT ![t] = event_state = 1]
  /\ UNCHANGED event_state

Load(t) ==
  /\ Goes(t, "load", IF event_state = 1 THEN "idle" ELSE "futex")
  /\ UNCHANGED <<event_state, seen>>

\* FUTEX_WAIT_PRIVATE compares the word with the 0 that was loaded: EAGAIN ends wait().
FutexWait(t) ==
  /\ Goes(t, "futex", IF event_state # 0 THEN "idle" ELSE "asleep")
  /\ UNCHANGED <<event_state, seen>>

Interrupt_Ends(t) ==
  /\ Goes(t, "asleep", "idle")
  /\ UNCHANGED <<event_state, seen>>

\* The system call returns for no reason, or with EINTR.
Interrupt(t) ==
  /\ Goes(t, "asleep", "load")
  /\ UNCHANGED <<event_state, seen>>

EventNext ==
  \E t \in Threads :
    Set(t) \/ Wake(t) \/ Reset(t) \/ Wait(t) \/ Load(t) \/ FutexWait(t) \/ Interrupt(t)

EventSpec == EventInit /\ [][EventNext]_eventVars

(* A thread inside set() or wait() goes on; nobody has to call them.       *)
FairEventSpec ==
  /\ EventSpec
  /\ \A t \in Threads : WF_eventVars(Wake(t) \/ Load(t) \/ FutexWait(t))
-------------------------------------------------------------------------------
EventTypeOK ==
  /\ event_state \in {0, 1}
  /\ at \in [Threads -> Waiting \union {"idle", "wake"}]
  /\ seen \in [Threads -> BOOLEAN]

(* wait() returns only if the event was set at some time since it was called: *)
(* neither an interrupted system call nor one that returns for no reason ends *)
(* it.  It may have been reset meanwhile.                                     *)
WaitSeesSet ==
  [][\A t \in Threads : at[t] \in Waiting /\ at'[t] = "idle" => seen[t]]_eventVars

(* An event that is set and left so releases every thread that waits for it, *)
(* whether it was about to sleep or asleep.                                   *)
Released ==
  <>[](event_state = 1) => \A t \in Threads : at[t] \in Waiting ~> at[t] = "idle"
===============================================================================
