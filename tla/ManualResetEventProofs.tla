------------------------- MODULE ManualResetEventProofs -------------------------
(***************************************************************************)
(* For any number of threads: the types of ManualResetEvent, that wait()   *)
(* returns only for an event that has been set, and that no wakeup is lost.*)
(***************************************************************************)
EXTENDS ManualResetEvent, TLAPS

(* An event that is set has been seen so by every thread in wait(): set()  *)
(* marks them all, and wait() starts with what it finds.                   *)
MarkedWhileSet == event_state = 1 => \A t \in Threads : at[t] \in Waiting => seen[t]

EventInv == EventTypeOK /\ MarkedWhileSet

LEMMA InitMarked == EventInit => EventInv
  BY DEF EventInit, EventInv, EventTypeOK, MarkedWhileSet, Waiting

(* Each action keeps the types, and the mark of each thread that waits.    *)
LEMMA StepMarked == EventInv /\ [EventNext]_eventVars => EventInv'
<1> SUFFICES ASSUME EventInv, [EventNext]_eventVars PROVE EventInv'
  OBVIOUS
<1> USE DEF EventInv, EventTypeOK, MarkedWhileSet, Waiting
<1>1. CASE UNCHANGED eventVars
  BY <1>1 DEF eventVars
<1>2. ASSUME NEW t \in Threads, Set(t) PROVE EventInv'
  BY <1>2 DEF Set, Goes
<1>3. ASSUME NEW t \in Threads, Wake(t) PROVE EventInv'
  BY <1>3 DEF Wake
<1>4. ASSUME NEW t \in Threads, Reset(t) PROVE EventInv'
  BY <1>4 DEF Reset
<1>5. ASSUME NEW t \in Threads, Wait(t) PROVE EventInv'
  BY <1>5 DEF Wait, Goes
<1>6. ASSUME NEW t \in Threads, Load(t) PROVE EventInv'
  BY <1>6 DEF Load, Goes
<1>7. ASSUME NEW t \in Threads, FutexWait(t) PROVE EventInv'
  BY <1>7 DEF FutexWait, Goes
<1>8. ASSUME NEW t \in Threads, Interrupt(t) PROVE EventInv'
  BY <1>8 DEF Interrupt, Goes
<1>9. QED
  BY <1>1, <1>2, <1>3, <1>4, <1>5, <1>6, <1>7, <1>8 DEF EventNext

LEMMA AlwaysMarked == EventSpec => []EventInv
  BY InitMarked, StepMarked, PTL DEF EventSpec

(* For any number of threads the variables of the event keep their types.  *)
THEOREM EventTypeCorrect == EventSpec => []EventTypeOK
<1>1. EventInv => EventTypeOK
  BY DEF EventInv
<1>2. QED
  BY <1>1, AlwaysMarked, PTL

(* For any number of threads in set(), reset() and wait(): wait() returns    *)
(* only if the event was set at some time since it was called.  Only Load and *)
(* FutexWait end it, and both when the word is 1.                             *)
THEOREM WaitSeesTheSet == EventSpec => WaitSeesSet
<1> DEFINE Seen == \A t \in Threads : at[t] \in Waiting /\ at'[t] = "idle" => seen[t]
<1>1. EventInv /\ [EventNext]_eventVars => [Seen]_eventVars
  <2> SUFFICES ASSUME EventInv, EventNext, NEW u \in Threads, at[u] \in Waiting, at'[u] = "idle"
               PROVE seen[u]
    BY DEF EventNext
  <2> USE DEF EventInv, EventTypeOK, MarkedWhileSet, Waiting
  <2>1. PICK t \in Threads : Set(t) \/ Wake(t) \/ Reset(t) \/ Wait(t) \/ Load(t) \/ FutexWait(t)
                             \/ Interrupt(t)
    BY DEF EventNext
  <2>2. CASE Load(t) \/ FutexWait(t)
    BY <2>2 DEF Load, FutexWait, Goes
  <2>3. CASE Wake(t)
    BY <2>3 DEF Wake
  <2>4. CASE Set(t) \/ Reset(t) \/ Wait(t) \/ Interrupt(t)
    BY <2>4 DEF Set, Reset, Wait, Interrupt, Goes
  <2>5. QED
    BY <2>1, <2>2, <2>3, <2>4
<1>2. QED
  BY <1>1, AlwaysMarked, PTL DEF EventSpec, WaitSeesSet

(* A thread that sleeps on an event that is set is about to be woken.  The   *)
(* futex puts it to sleep only while the word is 0, and whoever has stored   *)
(* the 1 since has its system call before it.                                *)
WakeupComes ==
  event_state = 1 => \A t \in Threads : at[t] = "asleep" => \E u \in Threads : at[u] = "wake"

LEMMA StepWakes == EventInv /\ WakeupComes /\ [EventNext]_eventVars => WakeupComes'
<1> SUFFICES ASSUME EventInv, WakeupComes, [EventNext]_eventVars,
                    event_state' = 1, NEW t \in Threads, at'[t] = "asleep"
             PROVE  \E u \in Threads : at'[u] = "wake"
  BY DEF WakeupComes
<1> USE DEF EventInv, EventTypeOK, WakeupComes, Waiting, Goes
<1>1. CASE UNCHANGED eventVars
  BY <1>1 DEF eventVars
<1>2. ASSUME NEW v \in Threads, Set(v) PROVE at'[v] = "wake"
  BY <1>2 DEF Set
<1>3. ASSUME NEW v \in Threads, Wake(v) PROVE FALSE
  BY <1>3 DEF Wake
<1>4. ASSUME NEW v \in Threads, Reset(v) PROVE FALSE
  BY <1>4 DEF Reset
<1>5. ASSUME NEW v \in Threads, Wait(v) \/ Load(v) \/ FutexWait(v) \/ Interrupt(v)
      PROVE  \E u \in Threads : at'[u] = "wake"
  <2>1. at[t] = "asleep" /\ event_state = 1
    BY <1>5 DEF Wait, Load, FutexWait, Interrupt
  <2>2. PICK u \in Threads : at[u] = "wake"
    BY <2>1
  <2> QED BY <1>5, <2>2 DEF Wait, Load, FutexWait, Interrupt
<1> QED BY <1>1, <1>2, <1>3, <1>4, <1>5 DEF EventNext

(* For any number of threads no wakeup is lost: set() and wait() may be      *)
(* interleaved in any way, between the load and the system call too.  It is  *)
(* the safe half of Released, which adds that the system call is made.       *)
THEOREM NoLostWakeup == EventSpec => []WakeupComes
<1>1. EventInit => WakeupComes
  BY DEF EventInit, WakeupComes
<1> QED BY <1>1, StepWakes, AlwaysMarked, PTL DEF EventSpec
===============================================================================
