------------------------------- MODULE FastMutex -------------------------------
(***************************************************************************)
(* iol::detail::fast_mutex (src/fast_mutex.cpp, the Linux build): a mutex  *)
(* in one word, 0 unlocked, 1 locked, 2 locked and perhaps waited for, and *)
(* the kernel's futex queue of that word.                                  *)
(***************************************************************************)
EXTENDS Integers, FiniteSets

CONSTANT Threads

VARIABLES
  state,   \* state_
  pc       \* where each thread is in lock(), try_lock() or unlock()

vars == <<state, pc>>

Labels == {"idle", "exchange", "wait", "asleep", "try", "critical", "wake"}

At(label) == {t \in Threads : pc[t] = label}

Goto(t, from, to) == pc[t] = from /\ pc' = [pc EXCEPT ![t] = to]

Init == state = 0 /\ pc = [t \in Threads |-> "idle"]
-------------------------------------------------------------------------------
(* cmpxchg(0, 1) at the head of lock().                                    *)
Lock(t) ==
  /\ Goto(t, "idle", IF state = 0 THEN "critical"
                     ELSE IF state = 2 THEN "wait" ELSE "exchange")
  /\ state' = IF state = 0 THEN 1 ELSE state

\* Whether the value that exchange(2) returns makes the thread the holder.
Acquires_Unmarked(old) == old # 2
Acquires(old) == old = 0

Exchange(t) ==
  /\ Goto(t, "exchange", IF Acquires(state) THEN "critical" ELSE "wait")
  /\ state' = 2

\* FUTEX_WAIT sleeps only if the word is still 2.
FutexWait(t) ==
  /\ Goto(t, "wait", IF state = 2 THEN "asleep" ELSE "exchange")
  /\ UNCHANGED state

\* A signal: futex returns although nobody has woken the thread.
Interrupt(t) == Goto(t, "asleep", "exchange") /\ UNCHANGED state

\* try_lock() loads the word first; a thread that does not see 0 is back.
TryLoad(t) == state = 0 /\ Goto(t, "idle", "try") /\ UNCHANGED state

\* cmpxchg(0, 1) == 0 in try_lock().
TryLock_Store(t) == Goto(t, "try", "critical") /\ state' = 1
TryLock(t) ==
  /\ Goto(t, "try", IF state = 0 THEN "critical" ELSE "idle")
  /\ state' = IF state = 0 THEN 1 ELSE state

\* fetch_sub(1): from 2 it leaves 1.
Unlock(t) ==
  /\ Goto(t, "critical", IF state # 1 THEN "wake" ELSE "idle")
  /\ state' = state - 1

FutexWake(t) ==
  /\ pc[t] = "wake"
  /\ \/ At("asleep") = {} /\ pc' = [pc EXCEPT ![t] = "idle"]
     \/ \E u \in At("asleep") :
          pc' = [pc EXCEPT ![t] = "idle", ![u] = "exchange"]
  /\ UNCHANGED state

Next ==
  \E t \in Threads :
    \/ Lock(t) \/ Exchange(t) \/ FutexWait(t) \/ Interrupt(t)
    \/ TryLoad(t) \/ TryLock(t) \/ Unlock(t) \/ FutexWake(t)

Spec == Init /\ [][Next]_vars

(* Threads are scheduled and critical sections end; nobody has to lock.    *)
FairSpec ==
  /\ Spec
  /\ \A t \in Threads :
       WF_vars(Exchange(t) \/ FutexWait(t) \/ TryLock(t) \/ Unlock(t)
                \/ FutexWake(t))
-------------------------------------------------------------------------------
TypeOK == state \in 0..2 /\ pc \in [Threads -> Labels]

(* No two threads are between the return of lock(), or of a try_lock() that *)
(* succeeds, and unlock(), though both touch the word in two steps.         *)
MutualExclusion == \A t, u \in At("critical") : t = u

\* The word says locked, and no thread is the holder.
Abandoned == state # 0 /\ At("critical") = {}

(* A thread that exchanges a 1 away goes to sleep, whoever left the 1: once  *)
(* unlock() has found a 2 and left a 1, nobody locks the mutex any more.     *)
ContentionIsFinal ==
  [][Abandoned \/ (state = 2 /\ \E t \in Threads : Unlock(t)) => Abandoned']_vars

Waiting == At("exchange") \union At("wait") \union At("asleep")

(* unlock(), "We could either wake one up or wake up several?": while it is  *)
(* about to wake a waiting thread, some thread will hold the mutex again.    *)
HandOver ==
  (At("wake") # {} /\ Waiting # {}) ~> (At("critical") # {})
===============================================================================
