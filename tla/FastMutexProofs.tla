---------------------------- MODULE FastMutexProofs ----------------------------
(***************************************************************************)
(* What is proved of FastMutex, for every set of threads.                  *)
(***************************************************************************)
EXTENDS FastMutex, TLAPS

(* The strengthening of MutualExclusion: a holder's word is not 0, so that   *)
(* neither cmpxchg nor exchange lets a second thread in, and unlock() does   *)
(* not wrap it around.                                                       *)
HolderMarked == state = 0 => At("critical") = {}

MutexInv == TypeOK /\ HolderMarked /\ MutualExclusion

LEMMA InitMutex == Init => MutexInv
  BY DEF Init, MutexInv, TypeOK, HolderMarked, MutualExclusion, At, Labels

LEMMA NextMutex == MutexInv /\ [Next]_vars => MutexInv'
<1> SUFFICES ASSUME MutexInv, [Next]_vars PROVE MutexInv'
  OBVIOUS
<1> USE DEF MutexInv, TypeOK, HolderMarked, MutualExclusion, At, Labels, Goto
<1>1. ASSUME NEW t \in Threads, Lock(t) PROVE MutexInv'
  BY <1>1 DEF Lock
<1>2. ASSUME NEW t \in Threads, Exchange(t) PROVE MutexInv'
  BY <1>2 DEF Exchange, Acquires
<1>3. ASSUME NEW t \in Threads, FutexWait(t) PROVE MutexInv'
  BY <1>3 DEF FutexWait
<1>4. ASSUME NEW t \in Threads, Interrupt(t) PROVE MutexInv'
  BY <1>4 DEF Interrupt
<1>5. ASSUME NEW t \in Threads, TryLoad(t) PROVE MutexInv'
  BY <1>5 DEF TryLoad
<1>6. ASSUME NEW t \in Threads, TryLock(t) PROVE MutexInv'
  BY <1>6 DEF TryLock
<1>7. ASSUME NEW t \in Threads, Unlock(t) PROVE MutexInv'
  BY <1>7 DEF Unlock
<1>8. ASSUME NEW t \in Threads, FutexWake(t) PROVE MutexInv'
  BY <1>8 DEF FutexWake
<1>9. CASE UNCHANGED vars BY <1>9 DEF vars
<1> QED BY <1>1, <1>2, <1>3, <1>4, <1>5, <1>6, <1>7, <1>8, <1>9 DEF Next

LEMMA MutexInvariant == Spec => []MutexInv
  BY InitMutex, NextMutex, PTL DEF Spec

(* The word is 0, 1 or 2 in every state: fetch_sub(1) never wraps it.        *)
THEOREM MutexTypeCorrect == Spec => []TypeOK
  BY MutexInvariant, PTL DEF MutexInv

(* lock() and try_lock() exclude one another, for any number of threads.     *)
THEOREM MutexExcludes == Spec => []MutualExclusion
  BY MutexInvariant, PTL DEF MutexInv

(* The step of ContentionIsFinal: no action takes the mutex from a word that *)
(* is not 0, and only a holder lowers it.                                    *)
LEMMA StaysAbandoned ==
  MutexInv /\ [Next]_vars
    => [Abandoned \/ (state = 2 /\ \E t \in Threads : Unlock(t)) => Abandoned']_vars
<1> SUFFICES ASSUME MutexInv, Next,
                    Abandoned \/ (state = 2 /\ \E t \in Threads : Unlock(t))
             PROVE  Abandoned'
  OBVIOUS
<1> USE DEF MutexInv, TypeOK, HolderMarked, MutualExclusion, At, Labels, Goto, Abandoned
<1>1. CASE state = 2 /\ \E t \in Threads : Unlock(t)
  BY <1>1 DEF Unlock
<1>2. CASE Abandoned
  <2>1. ASSUME NEW t \in Threads, Lock(t) PROVE Abandoned'
    BY <1>2, <2>1 DEF Lock
  <2>2. ASSUME NEW t \in Threads, Exchange(t) PROVE Abandoned'
    BY <1>2, <2>2 DEF Exchange, Acquires
  <2>3. ASSUME NEW t \in Threads, TryLock(t) PROVE Abandoned'
    BY <1>2, <2>3 DEF TryLock
  <2>4. ASSUME NEW t \in Threads, Unlock(t) PROVE Abandoned'
    BY <1>2, <2>4 DEF Unlock
  <2>5. ASSUME NEW t \in Threads,
               FutexWait(t) \/ Interrupt(t) \/ TryLoad(t) \/ FutexWake(t)
        PROVE  Abandoned'
    BY <1>2, <2>5 DEF FutexWait, Interrupt, TryLoad, FutexWake
  <2> QED BY <2>1, <2>2, <2>3, <2>4, <2>5 DEF Next
<1> QED BY <1>1, <1>2

(* After one contended unlock() the mutex is never held again, whatever the  *)
(* threads do: with NextMutex, the whole of the hand-over defect.            *)
THEOREM ContentionEndsMutex == Spec => ContentionIsFinal
  BY MutexInvariant, StaysAbandoned, PTL DEF Spec, ContentionIsFinal
===============================================================================
