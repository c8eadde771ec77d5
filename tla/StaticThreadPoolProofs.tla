------------------------ MODULE StaticThreadPoolProofs ------------------------
(***************************************************************************)
(* What holds of the pool for every number of threads, clients and         *)
(* operations.                                                             *)
(***************************************************************************)
EXTENDS StaticThreadPool, FiniteSetTheorems, SequenceTheorems, TLAPS

(* TypeOK, but for work_count, which is only known not to wrap below zero    *)
(* once it is known to count something.                                      *)
TypeInv ==
  /\ running \in BOOLEAN
  /\ work_count \in Int
  /\ main_queue \in Seq(Ops)
  /\ mut \in Threads \union {NoThread}
  /\ threads \in SUBSET Workers
  /\ pc \in [Threads -> Labels]
  /\ local \in [Threads -> Seq(Ops)]
  /\ count \in [Threads -> Nat]
  /\ op \in [Threads -> Ops \union {NoOp}]
  /\ signal \in [Actors -> Signals]
  /\ call \in [Clients -> Calls]
  /\ joining \in [Clients -> SUBSET Workers]
  /\ fate \in [Ops -> Fates]

\* attach() holds the mutex from Lock to Block, Take's return, or Pop.
MutexInv ==
  \A t \in Threads : pc[t] \in {"check", "block", "take", "pop"} <=> mut = t

\* operation_count is the length of the thread's queue until the thread settles.
LocalInv ==
  \A t \in Threads :
    /\ HoldsUnit(t) => count[t] = Len(local[t])
    /\ pc[t] \in {"local_pop", "local_check"} => count[t] = 1
    /\ pc[t] = "settle" => count[t] # 1
    /\ ~HoldsUnit(t) /\ pc[t] # "leaving" => count[t] = 0
    /\ ~HoldsUnit(t) /\ pc[t] \notin {"relock", "leaving"} => local[t] = <<>>

\* A call in progress is a call of a pool that exists.
CallInv ==
  /\ \A c \in Clients : call[c] \in {"ctor", "ctor_join", "dtor_join", "gone"} => c = Owner
  /\ ~Alive => \A c \in Clients \ {Owner} : call[c] = "idle" /\ signal[c] = "none"
  /\ ~Alive => \A g \in Guests : pc[g] = "idle"
  /\ call[Owner] = "ctor" => signal[Owner] = "none"

\* From the moment running_ is cleared under the mutex, no thread falls asleep.
ShutdownInv ==
  call[Owner] \in {"ctor_join", "dtor_join", "gone"} =>
    /\ ~running
    /\ signal[Owner] \in {"none", "all"}
    /\ \A t \in Threads : pc[t] # "block"
    /\ signal[Owner] = "none" => \A t \in Threads : pc[t] # "asleep"

\* No operation is in two places, and every operation in one is live; that of a
\* thread that has finished it is done, and keeps its unit until it settles.
HomeInv ==
  /\ IsInjective(main_queue)
  /\ \A o \in Range(main_queue) : fate[o] = "live"
  /\ \A t \in Threads :
       /\ IsInjective(local[t])
       /\ \A o \in Range(local[t]) : fate[o] = "live" /\ o \notin Range(main_queue)
       /\ HoldsUnit(t) =>
            /\ op[t] \in Ops \ Range(main_queue)
            /\ fate[op[t]] = IF pc[t] \in {"run", "run_local"} THEN "live" ELSE "done"
  /\ \A t, u \in Threads : HoldsUnit(t) => op[t] \notin Range(local[u])
  /\ \A t, u \in Threads : t # u =>
       /\ \A o \in Range(local[t]) : o \notin Range(local[u])
       /\ HoldsUnit(t) /\ HoldsUnit(u) => op[t] # op[u]

\* One call of wait() at most has the constructor's unit to give back.
WaitInv ==
  \A c \in Clients : call[c] = "wait_release" =>
    /\ Alive
    /\ threads = {}
    /\ \A d \in Clients : call[d] = "wait_release" => d = c

\* The threads of the pool that are in attach() are those somebody will join.
JoinInv ==
  /\ \A c \in Clients : call[c] \notin {"wait_release", "wait_join"} => joining[c] = {}
  /\ \A w \in Workers :
       \/ pc[w] \in {"idle", "exited"}
       \/ w \in threads
       \/ \E c \in Clients : w \in joining[c]
  /\ \A t \in Threads : signal[t] # "none" => pc[t] \in {"run", "run_local", "leaving"}
  /\ call[Owner] = "gone" => \A t \in Threads : pc[t] \in {"idle", "exited"}

\* What cv_.wait has tested still holds when attach() acts on it.
PredicateInv ==
  \A t \in Threads :
    /\ pc[t] = "take" => Ready
    /\ pc[t] = "pop" => main_queue # <<>>

\* A thread falls asleep beside an empty queue.
SleepInv ==
  /\ \A t \in Threads : pc[t] = "block" => main_queue = <<>>
  /\ NoStrandedWork
-------------------------------------------------------------------------------
LEMMA InitType == Init => TypeInv
  BY PoolAssumption
  DEF Init, TypeInv, Threads, Actors, Labels, Signals, Calls, Fates

\* Destroying a queue leaves every operation with a fate.
LEMMA DestroyedType ==
  ASSUME TypeInv, NEW queue \in Seq(Ops)
  PROVE  Destroyed(queue) \in [Ops -> Fates]
  BY DEF Destroyed, TypeInv, Fates

\* Every action keeps every variable in its type.
LEMMA NextType ==
  ASSUME TypeInv, [Next]_vars
  PROVE  TypeInv'
<1> USE PoolAssumption DEF TypeInv, Goto, Labels, Signals, Calls
<1>1. ASSUME NEW a \in Actors, NotifyOne(a) PROVE TypeInv'
  BY <1>1 DEF NotifyOne
<1>2. ASSUME NEW a \in Actors, NotifyAll(a) PROVE TypeInv'
  BY <1>2 DEF NotifyAll
<1>3. ASSUME NEW t \in Threads, AttachStep(t) PROVE TypeInv'
  <2>1. CASE Lock(t) BY <2>1 DEF Lock
  <2>2. CASE Check(t) BY <2>2 DEF Check
  <2>3. CASE Block(t) BY <2>3 DEF Block
  <2>4. CASE Take(t) BY <2>4 DEF Take
  <2>5. CASE Pop(t)
    <3>1. Head(main_queue) \in Ops /\ Tail(main_queue) \in Seq(Ops)
      BY <2>5, HeadTailProperties DEF Pop
    <3> QED BY <2>5, <3>1 DEF Pop, Actors
  <2>6. CASE Return(t) BY <2>6 DEF Return, InOperation, Fates
  <2>7. CASE LocalCheck(t) BY <2>7 DEF LocalCheck
  <2>8. CASE LocalPop(t)
    <3>1. Head(local[t]) \in Ops /\ Tail(local[t]) \in Seq(Ops)
      BY <2>8, HeadTailProperties DEF LocalPop
    <3> QED BY <2>8, <3>1 DEF LocalPop
  <2>9. CASE Settle(t) BY <2>9 DEF Settle, Settled
  <2>10. CASE WakeAll(t) BY <2>10 DEF WakeAll
  <2>11. CASE Relock(t)
    <3>1. main_queue \o local[t] \in Seq(Ops)
      BY ConcatProperties
    <3> QED BY <2>11, <3>1, EmptySeq DEF Relock
  <2>12. CASE Leave(t)
    <3>1. Destroyed(local[t]) \in [Ops -> Fates]
      BY DestroyedType
    <3> QED BY <2>12, <3>1, EmptySeq DEF Leave
  <2> QED BY <1>3, <2>1, <2>2, <2>3, <2>4, <2>5, <2>6, <2>7, <2>8, <2>9, <2>10,
             <2>11, <2>12 DEF AttachStep
<1>4. ASSUME NEW a \in Actors, NEW o \in Ops, EnqueueOperation(a, o) PROVE TypeInv'
  <2>1. Append(main_queue, o) \in Seq(Ops)
    BY AppendProperties
  <2> QED BY <1>4, <2>1 DEF EnqueueOperation, Fates
<1>5. ASSUME NEW t \in Threads, NEW o \in Ops, EnqueueContinuation(t, o) PROVE TypeInv'
  <2>1. Append(local[t], o) \in Seq(Ops)
    BY AppendProperties
  <2> QED BY <1>5, <2>1 DEF EnqueueContinuation, Fates
<1>6. ASSUME NEW a \in Actors, Stop(a) PROVE TypeInv'
  BY <1>6 DEF Stop
<1>7. ASSUME NEW t \in Threads, OperationCall(t) PROVE TypeInv'
  BY <1>4, <1>5, <1>6, <1>7 DEF OperationCall, Post, Defer, Actors
<1>8. ASSUME NEW t \in Threads, SpuriousWakeup(t) \/ Attach(t) PROVE TypeInv'
  BY <1>8 DEF SpuriousWakeup, Attach
<1>9. ASSUME NEW c \in Clients, ClientCall(c) PROVE TypeInv'
  <2>1. CASE WaitMove(c) BY <2>1 DEF WaitMove
  <2> QED BY <1>4, <1>6, <1>9, <2>1 DEF ClientCall, Submit, Schedule, Actors
<1>10. ASSUME NEW c \in Clients, ClientStep(c) PROVE TypeInv'
  <2>1. CASE WaitRelease(c) BY <2>1 DEF WaitRelease, Actors
  <2>2. CASE WaitJoin(c) BY <2>2 DEF WaitJoin
  <2> QED BY <1>10, <2>1, <2>2 DEF ClientStep
<1>11. ASSUME NEW to \in Calls, Shutdown(to) PROVE TypeInv'
  BY <1>11 DEF Shutdown, Actors
<1>12. CASE OwnerStep \/ Destroy
  <2>1. ASSUME NEW w \in Workers, SpawnThread(w) PROVE TypeInv'
    BY <2>1 DEF SpawnThread, Threads
  <2>2. CASE Joined
    <3>1. Destroyed(main_queue) \in [Ops -> Fates]
      BY DestroyedType
    <3> QED BY <2>2, <3>1, EmptySeq DEF Joined
  <2> QED BY <1>11, <1>12, <2>1, <2>2 DEF OwnerStep, SpawnFails, Destroy
<1>13. CASE UNCHANGED vars
  BY <1>13 DEF vars
<1> QED
  BY <1>1, <1>2, <1>3, <1>7, <1>8, <1>9, <1>10, <1>12, <1>13 DEF Next, Threads

-------------------------------------------------------------------------------
LEMMA InitMutex == Init => MutexInv
  BY PoolAssumption DEF Init, MutexInv

\* Only attach() takes and releases mut_ over more than one step.
LEMMA NextMutex ==
  ASSUME TypeInv, MutexInv, [Next]_vars
  PROVE  MutexInv'
<1> USE PoolAssumption DEF TypeInv, MutexInv, Goto
<1>1. ASSUME NEW t \in Threads, AttachStep(t) PROVE MutexInv'
  <2>1. CASE Lock(t) BY <2>1 DEF Lock
  <2>7. CASE Check(t) BY <2>7 DEF Check
  <2>8. CASE Block(t) BY <2>8 DEF Block
  <2>2. CASE Take(t) \/ Pop(t) BY <2>2 DEF Take, Pop
  <2>3. CASE Return(t) \/ LocalCheck(t) \/ LocalPop(t)
    BY <2>3 DEF Return, InOperation, LocalCheck, LocalPop
  <2>4. CASE Settle(t) \/ WakeAll(t) BY <2>4 DEF Settle, WakeAll
  <2>5. CASE Relock(t) BY <2>5 DEF Relock
  <2>6. CASE Leave(t) BY <2>6 DEF Leave
  <2> QED BY <1>1, <2>1, <2>2, <2>3, <2>4, <2>5, <2>6, <2>7, <2>8 DEF AttachStep
<1>2. ASSUME NEW a \in Actors, NotifyOne(a) \/ NotifyAll(a) PROVE MutexInv'
  BY <1>2 DEF NotifyOne, NotifyAll
<1>3. ASSUME NEW t \in Threads, SpuriousWakeup(t) \/ Attach(t) PROVE MutexInv'
  BY <1>3 DEF SpuriousWakeup, Attach
<1>4. ASSUME NEW t \in Threads, OperationCall(t) PROVE MutexInv'
  BY <1>4 DEF OperationCall, Post, Defer, Stop, EnqueueOperation, EnqueueContinuation
<1>5. ASSUME NEW c \in Clients, ClientCall(c) \/ ClientStep(c) PROVE MutexInv'
  BY <1>5 DEF ClientCall, Submit, Schedule, EnqueueOperation, Stop, WaitMove, ClientStep,
              WaitRelease, WaitJoin
<1>6. CASE OwnerStep \/ Destroy
  <2>1. ASSUME NEW w \in Workers, SpawnThread(w) PROVE MutexInv'
    BY <2>1 DEF SpawnThread, Threads
  <2> QED BY <1>6, <2>1 DEF OwnerStep, SpawnFails, Destroy, Shutdown, Joined
<1>7. CASE UNCHANGED vars
  BY <1>7 DEF vars
<1> QED
  BY <1>1, <1>2, <1>3, <1>4, <1>5, <1>6, <1>7 DEF Next, Threads
-------------------------------------------------------------------------------
LEMMA InitCall == Init => CallInv
  BY PoolAssumption DEF Init, CallInv, Alive, Threads, Actors

\* Calls only begin while the pool is alive, and it is destroyed when there are none.
LEMMA NextCall ==
  ASSUME TypeInv, CallInv, [Next]_vars
  PROVE  CallInv'
<1> USE PoolAssumption DEF TypeInv, CallInv, Alive, Goto, Threads, Actors
<1>1. ASSUME NEW t \in Threads, AttachStep(t) PROVE CallInv'
  <2>1. CASE Lock(t) \/ Check(t) \/ Block(t) BY <2>1 DEF Lock, Check, Block
  <2>2. CASE Take(t) \/ Pop(t) BY <2>2 DEF Take, Pop
  <2>3. CASE Return(t) \/ LocalCheck(t) \/ LocalPop(t)
    BY <2>3 DEF Return, InOperation, LocalCheck, LocalPop
  <2>4. CASE Settle(t) \/ WakeAll(t) BY <2>4 DEF Settle, WakeAll
  <2>5. CASE Relock(t) BY <2>5 DEF Relock
  <2>6. CASE Leave(t) BY <2>6 DEF Leave
  <2> QED BY <1>1, <2>1, <2>2, <2>3, <2>4, <2>5, <2>6 DEF AttachStep
<1>2. ASSUME NEW a \in Actors, NotifyOne(a) \/ NotifyAll(a) PROVE CallInv'
  BY <1>2 DEF NotifyOne, NotifyAll
<1>3. ASSUME NEW t \in Threads, SpuriousWakeup(t) PROVE CallInv'
  BY <1>3 DEF SpuriousWakeup
<1>4. ASSUME NEW g \in Guests, Attach(g) PROVE CallInv'
  BY <1>4 DEF Attach
<1>5. ASSUME NEW t \in Threads, OperationCall(t) PROVE CallInv'
  BY <1>5 DEF OperationCall, Post, Defer, Stop, EnqueueOperation, EnqueueContinuation
<1>6. ASSUME NEW c \in Clients, ClientCall(c) \/ ClientStep(c) PROVE CallInv'
  BY <1>6 DEF ClientCall, Submit, Schedule, EnqueueOperation, Stop, WaitMove, ClientStep,
              WaitRelease, WaitJoin, Calling
<1>7. CASE OwnerStep \/ Destroy
  <2>1. ASSUME NEW w \in Workers, SpawnThread(w) PROVE CallInv'
    BY <2>1 DEF SpawnThread
  <2>2. CASE SpawnFails BY <2>2 DEF SpawnFails, Shutdown
  <2>3. CASE Joined BY <2>3 DEF Joined
  <2>4. CASE Destroy BY <2>4 DEF Destroy, Shutdown
  <2> QED BY <1>7, <2>1, <2>2, <2>3, <2>4 DEF OwnerStep
<1>8. CASE UNCHANGED vars
  BY <1>8 DEF vars
<1> QED
  BY <1>1, <1>2, <1>3, <1>4, <1>5, <1>6, <1>7, <1>8 DEF Next
-------------------------------------------------------------------------------
LEMMA InitShutdown == Init => ShutdownInv
  BY PoolAssumption DEF Init, ShutdownInv

\* running_ is cleared when no thread is between its test and its sleep; from
\* then on the test sends every thread out of attach().
LEMMA NextShutdown ==
  ASSUME TypeInv, MutexInv, CallInv, ShutdownInv, [Next]_vars
  PROVE  ShutdownInv'
<1> USE PoolAssumption DEF TypeInv, ShutdownInv, Goto, Threads, Actors
<1>1. ASSUME NEW t \in Threads, AttachStep(t) PROVE ShutdownInv'
  <2>1. CASE Lock(t) BY <2>1 DEF Lock
  <2>2. CASE Check(t) BY <2>2 DEF Check, Ready, IsRunning
  <2>3. CASE Block(t) BY <2>3 DEF Block
  <2>4. CASE Take(t) \/ Pop(t) BY <2>4 DEF Take, Pop
  <2>5. CASE Return(t) \/ LocalCheck(t) \/ LocalPop(t)
    BY <2>5 DEF Return, InOperation, LocalCheck, LocalPop
  <2>6. CASE Settle(t) \/ WakeAll(t) BY <2>6 DEF Settle, WakeAll
  <2>7. CASE Relock(t) BY <2>7 DEF Relock
  <2>8. CASE Leave(t) BY <2>8 DEF Leave
  <2> QED BY <1>1, <2>1, <2>2, <2>3, <2>4, <2>5, <2>6, <2>7, <2>8 DEF AttachStep
<1>2. ASSUME NEW a \in Actors, NotifyOne(a) PROVE ShutdownInv'
  BY <1>2 DEF NotifyOne
<1>3. ASSUME NEW a \in Actors, NotifyAll(a) PROVE ShutdownInv'
  BY <1>3 DEF NotifyAll
<1>4. ASSUME NEW t \in Threads, SpuriousWakeup(t) \/ Attach(t) PROVE ShutdownInv'
  BY <1>4 DEF SpuriousWakeup, Attach
<1>5. ASSUME NEW t \in Threads, OperationCall(t) PROVE ShutdownInv'
  BY <1>5 DEF OperationCall, Post, Defer, Stop, EnqueueOperation, EnqueueContinuation
<1>6. ASSUME NEW c \in Clients, ClientCall(c) \/ ClientStep(c) PROVE ShutdownInv'
  BY <1>6 DEF ClientCall, Submit, Schedule, EnqueueOperation, Stop, WaitMove, ClientStep,
              WaitRelease, WaitJoin, Calling, Alive
<1>7. CASE OwnerStep \/ Destroy
  <2>1. ASSUME NEW w \in Workers, SpawnThread(w) PROVE ShutdownInv'
    BY <2>1 DEF SpawnThread
  <2>2. ASSUME NEW to, Shutdown(to) PROVE ShutdownInv'
    BY <2>2 DEF Shutdown, MutexInv
  <2>3. CASE Joined BY <2>3 DEF Joined
  <2> QED BY <1>7, <2>1, <2>2, <2>3 DEF OwnerStep, SpawnFails, Destroy
<1>8. CASE UNCHANGED vars
  BY <1>8 DEF vars
<1> QED
  BY <1>1, <1>2, <1>3, <1>4, <1>5, <1>6, <1>7, <1>8 DEF Next

(* After the notify_all of the destructor, or of the constructor's catch, no *)
(* thread is asleep in attach() or about to be, so that the joins that       *)
(* follow cannot wait for a wakeup that was missed.                          *)
THEOREM ShutdownReaches == Spec => []ShutdownReachesSleepers
<1> DEFINE IInv == TypeInv /\ MutexInv /\ CallInv /\ ShutdownInv
<1>1. Init => IInv
  BY InitType, InitMutex, InitCall, InitShutdown
<1>2. IInv /\ [Next]_vars => IInv'
  BY NextType, NextMutex, NextCall, NextShutdown
<1>3. IInv => ShutdownReachesSleepers
  BY DEF ShutdownInv, ShutdownReachesSleepers
<1> QED BY <1>1, <1>2, <1>3, PTL DEF Spec
-------------------------------------------------------------------------------
(* Sequences without duplicates.                                             *)

LEMMA RangeEmpty == Range(<<>>) = {} /\ IsInjective(<<>>)
  BY DEF Range, IsInjective

LEMMA RangeTail ==
  ASSUME NEW S, NEW s \in Seq(S), s # <<>>
  PROVE  /\ Range(s) = {Head(s)} \union Range(Tail(s))
         /\ IsInjective(s) => IsInjective(Tail(s)) /\ Head(s) \notin Range(Tail(s))
<1>1. /\ Len(s) \in Nat \ {0}
      /\ DOMAIN s = 1..Len(s)
      /\ Tail(s) \in Seq(S)
      /\ Len(Tail(s)) = Len(s) - 1
      /\ DOMAIN Tail(s) = 1..(Len(s) - 1)
      /\ Head(s) = s[1]
      /\ \A i \in 1..(Len(s) - 1) : Tail(s)[i] = s[i + 1]
  BY HeadTailProperties, LenProperties, EmptySeq
<1>2. \A i \in 1..Len(s) : i = 1 \/ i - 1 \in 1..(Len(s) - 1)
  BY <1>1
<1>3. \A i \in 1..Len(s) : i # 1 => s[i] = Tail(s)[i - 1]
  BY <1>1, <1>2
<1>4. Range(s) \subseteq {Head(s)} \union Range(Tail(s))
  <2> SUFFICES ASSUME NEW i \in 1..Len(s), i # 1 PROVE s[i] \in Range(Tail(s))
    BY <1>1 DEF Range
  <2>1. i - 1 \in DOMAIN Tail(s) /\ s[i] = Tail(s)[i - 1]
    BY <1>1, <1>2, <1>3
  <2> QED BY <2>1 DEF Range
<1>5. {Head(s)} \union Range(Tail(s)) \subseteq Range(s)
  BY <1>1 DEF Range
<1>6. IsInjective(s) => IsInjective(Tail(s)) /\ Head(s) \notin Range(Tail(s))
  BY <1>1 DEF IsInjective, Range
<1> QED BY <1>4, <1>5, <1>6

LEMMA RangeConcat ==
  ASSUME NEW S, NEW s1 \in Seq(S), NEW s2 \in Seq(S)
  PROVE  /\ Range(s1 \o s2) = Range(s1) \union Range(s2)
         /\ IsInjective(s1) /\ IsInjective(s2) /\ (\A o \in Range(s2) : o \notin Range(s1))
              => IsInjective(s1 \o s2)
<1>1. /\ DOMAIN s1 = 1..Len(s1) /\ DOMAIN s2 = 1..Len(s2)
      /\ Len(s1) \in Nat /\ Len(s2) \in Nat
      /\ DOMAIN (s1 \o s2) = 1..(Len(s1) + Len(s2))
      /\ \A i \in 1..(Len(s1) + Len(s2)) :
           (s1 \o s2)[i] = IF i <= Len(s1) THEN s1[i] ELSE s2[i - Len(s1)]
  BY ConcatProperties, LenProperties
<1>2. \A i \in 1..(Len(s1) + Len(s2)) : i > Len(s1) => i - Len(s1) \in 1..Len(s2)
  BY <1>1
<1>3. Range(s1 \o s2) \subseteq Range(s1) \union Range(s2)
  BY <1>1, <1>2 DEF Range
<1>4. Range(s1) \subseteq Range(s1 \o s2)
  BY <1>1 DEF Range
<1>5. \A j \in 1..Len(s2) : /\ j + Len(s1) \in 1..(Len(s1) + Len(s2))
                            /\ (s1 \o s2)[j + Len(s1)] = s2[j]
  BY <1>1
<1>6. Range(s2) \subseteq Range(s1 \o s2)
  BY ZenonT(60), <1>1, <1>5 DEF Range
<1>7. ASSUME IsInjective(s1), IsInjective(s2), \A o \in Range(s2) : o \notin Range(s1)
      PROVE  IsInjective(s1 \o s2)
  <2> SUFFICES ASSUME NEW i \in 1..(Len(s1) + Len(s2)), NEW j \in 1..(Len(s1) + Len(s2)),
                      (s1 \o s2)[i] = (s1 \o s2)[j]
               PROVE  i = j
    BY <1>1 DEF IsInjective
  <2>1. CASE i <= Len(s1) /\ j <= Len(s1) BY <1>1, <1>7, <2>1 DEF IsInjective
  <2>2. CASE i > Len(s1) /\ j > Len(s1)
    <3>1. i - Len(s1) = j - Len(s1)
      BY SMTT(30), <1>1, <1>2, <1>7, <2>2 DEF IsInjective
    <3> QED BY <1>1, <3>1
  <2>3. ASSUME NEW m \in 1..Len(s1), NEW n \in 1..Len(s2) PROVE s1[m] # s2[n]
    BY <1>1, <1>7 DEF Range
  <2>4. CASE i <= Len(s1) /\ j > Len(s1) BY <1>1, <1>2, <2>3, <2>4
  <2>5. CASE i > Len(s1) /\ j <= Len(s1) BY <1>1, <1>2, <2>3, <2>5
  <2> QED BY <1>1, <2>1, <2>2, <2>4, <2>5
<1> QED BY <1>3, <1>4, <1>6, <1>7

LEMMA RangeAppend ==
  ASSUME NEW S, NEW s \in Seq(S), NEW e \in S
  PROVE  /\ Range(Append(s, e)) = Range(s) \union {e}
         /\ IsInjective(s) /\ e \notin Range(s) => IsInjective(Append(s, e))
<1>1. <<e>> \in Seq(S) /\ Append(s, e) = s \o <<e>>
  BY AppendIsConcat
<1>2. Range(<<e>>) = {e} /\ IsInjective(<<e>>)
  BY DEF Range, IsInjective
<1> QED BY SMTT(30), <1>1, <1>2, RangeConcat

LEMMA RangeCardinality ==
  ASSUME NEW S, NEW s \in Seq(S), IsInjective(s)
  PROVE  IsFiniteSet(Range(s)) /\ Cardinality(Range(s)) = Len(s)
<1>1. s \in [1..Len(s) -> Range(s)] /\ Len(s) \in Nat /\ DOMAIN s = 1..Len(s)
  BY LenProperties DEF Range
<1>2. s \in Bijection(1..Len(s), Range(s))
  BY <1>1 DEF Bijection, Injection, Surjection, IsInjective, Range
<1>3. IsFiniteSet(1..Len(s)) /\ Cardinality(1..Len(s)) = Len(s)
  <2>1. 1 \in Int /\ Len(s) \in Int /\ (IF 1 > Len(s) THEN 0 ELSE Len(s) - 1 + 1) = Len(s)
    BY <1>1
  <2> QED BY <2>1, FS_Interval, Zenon
<1>4. ExistsBijection(1..Len(s), Range(s))
  BY <1>2 DEF ExistsBijection
<1> QED BY <1>3, <1>4, FS_Bijection
-------------------------------------------------------------------------------
LEMMA InitLocal == Init => LocalInv
  BY PoolAssumption DEF Init, LocalInv, HoldsUnit

\* Only the thread itself touches its queue and its count.
LEMMA NextLocal ==
  ASSUME TypeInv, MutexInv, LocalInv, [Next]_vars
  PROVE  LocalInv'
<1> USE PoolAssumption DEF TypeInv, LocalInv, HoldsUnit, Goto, Threads, Actors
<1>1. ASSUME NEW t \in Threads, AttachStep(t) PROVE LocalInv'
  <2>1. CASE Lock(t) BY <2>1 DEF Lock
  <2>2. CASE Check(t) BY <2>2 DEF Check
  <2>3. CASE Block(t) BY <2>3 DEF Block
  <2>4. CASE Take(t) BY <2>4 DEF Take
  <2>5. CASE Pop(t)
    <3>1. Len(local[t]) = 0 BY <2>5, EmptySeq DEF Pop
    <3> QED BY <2>5, <3>1 DEF Pop
  <2>6. CASE Return(t) BY <2>6 DEF Return, InOperation
  <2>7. CASE LocalCheck(t) BY <2>7 DEF LocalCheck
  <2>8. CASE LocalPop(t)
    <3>1. local[t] \in Seq(Ops) /\ local[t] # <<>> /\ Len(local[t]) = 1
      BY <2>8 DEF LocalPop
    <3>2. Len(Tail(local[t])) = 0
      BY <3>1, HeadTailProperties
    <3> QED BY <2>8, <3>2 DEF LocalPop
  <2>9. CASE Settle(t)
    <3>1. count[t] = 0 => local[t] = <<>>
      BY <2>9, EmptySeq DEF Settle
    <3> QED BY <2>9, <3>1 DEF Settle
  <2>10. CASE WakeAll(t) BY <2>10 DEF WakeAll
  <2>11. CASE Relock(t) BY <2>11 DEF Relock
  <2>12. CASE Leave(t) BY <2>12 DEF Leave
  <2> QED BY <1>1, <2>1, <2>2, <2>3, <2>4, <2>5, <2>6, <2>7, <2>8, <2>9, <2>10,
             <2>11, <2>12 DEF AttachStep
<1>2. ASSUME NEW a \in Actors, NotifyOne(a) PROVE LocalInv'
  BY <1>2 DEF NotifyOne
<1>3. ASSUME NEW a \in Actors, NotifyAll(a) PROVE LocalInv'
  BY <1>3 DEF NotifyAll
<1>4. ASSUME NEW t \in Threads, SpuriousWakeup(t) \/ Attach(t) PROVE LocalInv'
  BY <1>4 DEF SpuriousWakeup, Attach
<1>5. ASSUME NEW t \in Threads, OperationCall(t) PROVE LocalInv'
  <2>1. ASSUME NEW o \in Ops, Defer(t, o) PROVE LocalInv'
    <3>1. Len(Append(local[t], o)) = Len(local[t]) + 1
      BY AppendProperties
    <3> QED BY <2>1, <3>1 DEF Defer, EnqueueContinuation, InOperation
  <2>2. ASSUME NEW o \in Ops, Post(t, o) PROVE LocalInv'
    BY <2>2 DEF Post, EnqueueOperation
  <2> QED BY <1>5, <2>1, <2>2 DEF OperationCall, Stop
<1>6. ASSUME NEW c \in Clients, ClientCall(c) \/ ClientStep(c) PROVE LocalInv'
  BY <1>6 DEF ClientCall, Submit, Schedule, EnqueueOperation, Stop, WaitMove, ClientStep,
              WaitRelease, WaitJoin
<1>7. CASE OwnerStep \/ Destroy
  <2>1. ASSUME NEW w \in Workers, SpawnThread(w) PROVE LocalInv'
    BY <2>1 DEF SpawnThread
  <2> QED BY <1>7, <2>1 DEF OwnerStep, SpawnFails, Destroy, Shutdown, Joined
<1>8. CASE UNCHANGED vars
  BY <1>8 DEF vars
<1> QED
  BY <1>1, <1>2, <1>3, <1>4, <1>5, <1>6, <1>7, <1>8 DEF Next
-------------------------------------------------------------------------------
LEMMA InitWait == Init => WaitInv
  BY PoolAssumption DEF Init, WaitInv

\* threads_ is moved out under the mutex, so a second call of wait() finds none.
LEMMA NextWait ==
  ASSUME TypeInv, CallInv, WaitInv, [Next]_vars
  PROVE  WaitInv'
<1> USE PoolAssumption DEF TypeInv, CallInv, WaitInv, Alive, Threads, Actors
<1>1. ASSUME NEW t \in Threads, AttachStep(t) PROVE WaitInv'
  BY <1>1 DEF AttachStep, Lock, Check, Block, Take, Pop, Return, LocalCheck, LocalPop,
              Settle, WakeAll, Relock, Leave
<1>2. ASSUME NEW a \in Actors, NotifyOne(a) \/ NotifyAll(a) PROVE WaitInv'
  BY <1>2 DEF NotifyOne, NotifyAll
<1>3. ASSUME NEW t \in Threads, SpuriousWakeup(t) \/ Attach(t) PROVE WaitInv'
  BY <1>3 DEF SpuriousWakeup, Attach
<1>4. ASSUME NEW t \in Threads, OperationCall(t) PROVE WaitInv'
  BY <1>4 DEF OperationCall, Post, Defer, Stop, EnqueueOperation, EnqueueContinuation
<1>5. ASSUME NEW c \in Clients, ClientCall(c) \/ ClientStep(c) PROVE WaitInv'
  <2>1. CASE WaitMove(c) BY <2>1 DEF WaitMove, Calling
  <2>2. CASE ClientStep(c) BY <2>2 DEF ClientStep, WaitRelease, WaitJoin
  <2> QED BY <1>5, <2>1, <2>2 DEF ClientCall, Submit, Schedule, EnqueueOperation, Stop
<1>6. CASE OwnerStep \/ Destroy
  <2>1. ASSUME NEW w \in Workers, SpawnThread(w) PROVE WaitInv'
    BY <2>1 DEF SpawnThread
  <2>2. CASE SpawnFails BY <2>2 DEF SpawnFails, Shutdown
  <2>3. CASE Joined BY <2>3 DEF Joined
  <2>4. CASE Destroy BY <2>4 DEF Destroy, Shutdown
  <2> QED BY <1>6, <2>1, <2>2, <2>3, <2>4 DEF OwnerStep
<1>7. CASE UNCHANGED vars
  BY <1>7 DEF vars
<1> QED
  BY <1>1, <1>2, <1>3, <1>4, <1>5, <1>6, <1>7 DEF Next
-------------------------------------------------------------------------------
LEMMA InitHome == Init => HomeInv
  BY PoolAssumption, RangeEmpty DEF Init, HomeInv, HoldsUnit

\* The steps that move no operation.
LEMMA HomeFrame ==
  ASSUME HomeInv, UNCHANGED <<main_queue, local, fate>>,
         \A t \in Threads : HoldsUnit(t)' =>
           /\ HoldsUnit(t)
           /\ op'[t] = op[t]
           /\ pc'[t] \in {"run", "run_local"} <=> pc[t] \in {"run", "run_local"}
  PROVE  HomeInv'
  BY DEF HomeInv

\* Destroying a queue decides the fate of its operations only.
LEMMA DestroyedElsewhere ==
  ASSUME NEW queue, NEW o \in Ops, o \notin Range(queue)
  PROVE  Destroyed(queue)[o] = fate[o]
  BY DEF Destroyed, Leaked, Range

\* A new operation gets its first home, a queued one moves from its home to the next.
LEMMA NextHome ==
  ASSUME TypeInv, LocalInv, HomeInv, [Next]_vars
  PROVE  HomeInv'
<1> USE DEF TypeInv
<1>1. ASSUME NEW t \in Threads, AttachStep(t) PROVE HomeInv'
  <2>1. CASE Lock(t) \/ Check(t) \/ Block(t) \/ Take(t) \/ LocalCheck(t) \/ WakeAll(t)
    BY <2>1, HomeFrame
    DEF Lock, Check, Block, Take, LocalCheck, WakeAll, Goto, HoldsUnit
  <2>2. CASE Settle(t)
    BY <2>2, HomeFrame DEF Settle, Goto, HoldsUnit
  <2>3. CASE Pop(t)
    <3>1. /\ Range(main_queue) = {Head(main_queue)} \union Range(Tail(main_queue))
          /\ IsInjective(Tail(main_queue)) /\ Head(main_queue) \notin Range(Tail(main_queue))
          /\ Head(main_queue) \in Ops
      BY <2>3, RangeTail, HeadTailProperties DEF Pop, HomeInv
    <3> QED BY <2>3, <3>1 DEF Pop, Goto, HoldsUnit, HomeInv
  <2>4. CASE Return(t)
    BY <2>4 DEF Return, InOperation, HoldsUnit, HomeInv
  <2>5. CASE LocalPop(t)
    <3>1. /\ Range(local[t]) = {Head(local[t])} \union Range(Tail(local[t]))
          /\ IsInjective(Tail(local[t])) /\ Head(local[t]) \notin Range(Tail(local[t]))
          /\ Head(local[t]) \in Ops
      BY <2>5, RangeTail, HeadTailProperties DEF LocalPop, HomeInv
    <3> QED BY <2>5, <3>1 DEF LocalPop, Goto, HoldsUnit, HomeInv
  <2>6. CASE Relock(t)
    <3>1. /\ Range(main_queue \o local[t]) = Range(main_queue) \union Range(local[t])
          /\ IsInjective(main_queue \o local[t])
      BY <2>6, RangeConcat DEF HomeInv
    <3> QED BY <2>6, <3>1, RangeEmpty DEF Relock, Goto, HoldsUnit, HomeInv
  <2>7. CASE Leave(t)
    <3>1. \A o \in Ops : o \notin Range(local[t]) => fate'[o] = fate[o]
      BY <2>7, DestroyedElsewhere DEF Leave
    <3>2. \A u \in Threads : Range(local[u]) \subseteq Ops
      BY LenProperties DEF Range
    <3>3. Range(main_queue) \subseteq Ops
      BY LenProperties DEF Range
    <3> QED BY <2>7, <3>1, <3>2, <3>3, RangeEmpty DEF Leave, Goto, HoldsUnit, HomeInv
  <2> QED BY <1>1, <2>1, <2>2, <2>3, <2>4, <2>5, <2>6, <2>7 DEF AttachStep
<1>2. ASSUME NEW a \in Actors, NotifyOne(a) \/ NotifyAll(a) PROVE HomeInv'
  BY <1>2, HomeFrame DEF NotifyOne, NotifyAll, Goto, HoldsUnit
<1>3. ASSUME NEW t \in Threads, SpuriousWakeup(t) \/ Attach(t) PROVE HomeInv'
  BY <1>3, HomeFrame DEF SpuriousWakeup, Attach, Goto, HoldsUnit
<1>4. ASSUME NEW a \in Actors, NEW o \in Ops, EnqueueOperation(a, o) PROVE HomeInv'
  <2>1. /\ Range(Append(main_queue, o)) = Range(main_queue) \union {o}
        /\ IsInjective(Append(main_queue, o))
    BY <1>4, RangeAppend DEF EnqueueOperation, HomeInv
  <2> QED BY <1>4, <2>1 DEF EnqueueOperation, HoldsUnit, HomeInv
<1>5. ASSUME NEW t \in Threads, NEW o \in Ops, EnqueueContinuation(t, o) PROVE HomeInv'
  <2>1. /\ Range(Append(local[t], o)) = Range(local[t]) \union {o}
        /\ IsInjective(Append(local[t], o))
    BY <1>5, RangeAppend DEF EnqueueContinuation, HomeInv
  <2> QED BY <1>5, <2>1 DEF EnqueueContinuation, HoldsUnit, HomeInv
<1>6. ASSUME NEW a \in Actors, Stop(a) PROVE HomeInv'
  BY <1>6, HomeFrame DEF Stop, HoldsUnit
<1>7. ASSUME NEW t \in Threads, OperationCall(t) PROVE HomeInv'
  BY <1>4, <1>5, <1>6, <1>7 DEF OperationCall, Post, Defer, Actors
<1>8. ASSUME NEW c \in Clients, ClientCall(c) \/ ClientStep(c) PROVE HomeInv'
  <2>1. CASE WaitMove(c) \/ ClientStep(c)
    BY <2>1, HomeFrame DEF WaitMove, ClientStep, WaitRelease, WaitJoin, HoldsUnit
  <2> QED BY <1>4, <1>6, <1>8, <2>1 DEF ClientCall, Submit, Schedule, Actors
<1>9. CASE OwnerStep \/ Destroy
  <2>1. ASSUME NEW w \in Workers, SpawnThread(w) PROVE HomeInv'
    BY <2>1, HomeFrame DEF SpawnThread, Goto, HoldsUnit, Threads
  <2>2. ASSUME NEW to, Shutdown(to) PROVE HomeInv'
    BY <2>2, HomeFrame DEF Shutdown, HoldsUnit
  <2>3. CASE Joined
    <3>1. \A o \in Ops : o \notin Range(main_queue) => fate'[o] = fate[o]
      BY <2>3, DestroyedElsewhere DEF Joined
    <3>2. \A u \in Threads : Range(local[u]) \subseteq Ops
      BY LenProperties DEF Range
    <3> QED BY <2>3, <3>1, <3>2, RangeEmpty DEF Joined, HoldsUnit, HomeInv
  <2> QED BY <1>9, <2>1, <2>2, <2>3 DEF OwnerStep, SpawnFails, Destroy
<1>10. CASE UNCHANGED vars
  BY <1>10, HomeFrame DEF vars, HoldsUnit
<1> QED
  BY <1>1, <1>2, <1>3, <1>7, <1>8, <1>9, <1>10 DEF Next, Threads
-------------------------------------------------------------------------------
(* The units of work of the threads but t, and of the queue.                 *)
Others(t) == UNION {Carried(u) : u \in Threads \ {t}}
Rest(t) == Range(main_queue) \union Others(t)

LEMMA DisjointCardinality ==
  ASSUME NEW R, NEW C, IsFiniteSet(R), IsFiniteSet(C), \A o \in C : o \notin R
  PROVE  /\ IsFiniteSet(R \union C)
         /\ Cardinality(R \union C) = Cardinality(R) + Cardinality(C)
         /\ Cardinality(R) \in Nat
         /\ Cardinality(C) \in Nat
<1>1. Cardinality(R \intersect C) = 0
  <2>1. R \intersect C = {}
    OBVIOUS
  <2> QED BY <2>1, FS_EmptySet, Zenon
<1>2. Cardinality(R) \in Nat /\ Cardinality(C) \in Nat
  BY FS_CardinalityType
<1>3. /\ IsFiniteSet(R \union C)
      /\ Cardinality(R \union C)
           = Cardinality(R) + Cardinality(C) - Cardinality(R \intersect C)
  BY FS_Union
<1> QED BY <1>1, <1>2, <1>3

LEMMA CountedFinite ==
  ASSUME TypeInv, HomeInv
  PROVE  Counted \in SUBSET Ops /\ IsFiniteSet(Counted) /\ Cardinality(Counted) \in Nat
<1>1. Range(main_queue) \subseteq Ops /\ \A t \in Threads : Range(local[t]) \subseteq Ops
  BY LenProperties DEF TypeInv, Range
<1>2. Counted \subseteq Ops
  BY <1>1 DEF Counted, Carried, HomeInv
<1>3. IsFiniteSet(Ops)
  BY PoolAssumption
<1>4. IsFiniteSet(Counted)
  BY <1>2, <1>3, FS_Subset
<1> QED BY <1>2, <1>4, FS_CardinalityType

LEMMA CountedSplit ==
  ASSUME TypeInv, HomeInv, NEW t \in Threads
  PROVE  /\ Counted = Rest(t) \union Carried(t)
         /\ IsFiniteSet(Rest(t))
         /\ \A o \in Range(local[t]) : o \notin Rest(t)
         /\ HoldsUnit(t) => op[t] \notin Rest(t)
<1>1. Counted = Rest(t) \union Carried(t)
  BY DEF Counted, Rest, Others
<1>2. IsFiniteSet(Rest(t))
  <2>1. Rest(t) \in SUBSET Counted
    BY <1>1
  <2>2. IsFiniteSet(Counted)
    BY CountedFinite
  <2> QED BY <2>1, <2>2, FS_Subset
<1>3. \A o \in Range(local[t]) : o \notin Rest(t)
  BY DEF Rest, Others, Carried, HomeInv
<1>4. HoldsUnit(t) => op[t] \notin Rest(t)
  BY DEF Rest, Others, Carried, HomeInv
<1> QED BY <1>1, <1>2, <1>3, <1>4

\* A thread that holds a unit exchanges it for the operations of a set.
LEMMA Exchange ==
  ASSUME TypeInv, HomeInv, NEW t \in Threads, HoldsUnit(t), NEW C, IsFiniteSet(C),
         \A o \in C : o \notin Rest(t), Counted' = Rest(t) \union C
  PROVE  /\ Cardinality(Counted') = Cardinality(Counted) - 1 + Cardinality(C)
         /\ Cardinality(Counted) \in Nat /\ Cardinality(C) \in Nat
<1>1. Carried(t) = {op[t]} /\ IsFiniteSet({op[t]}) /\ Cardinality({op[t]}) = 1
  BY FS_Singleton, Zenon DEF Carried
<1>2. Cardinality(Counted) = Cardinality(Rest(t)) + 1
  BY <1>1, CountedSplit, DisjointCardinality
<1>3. /\ Cardinality(Counted') = Cardinality(Rest(t)) + Cardinality(C)
      /\ Cardinality(Rest(t)) \in Nat /\ Cardinality(C) \in Nat
  BY CountedSplit, DisjointCardinality
<1> QED BY <1>2, <1>3

LEMMA InitCount == Init => WorkCountExact
<1> SUFFICES ASSUME Init PROVE WorkCountExact
  OBVIOUS
<1>1. Counted = {}
  BY RangeEmpty DEF Init, Counted, Carried, HoldsUnit
<1>2. Cardinality(Counted) = 0
  BY <1>1, FS_EmptySet
<1>3. OwnUnit = 1 /\ work_count = 1
  BY PoolAssumption DEF Init, OwnUnit
<1> QED BY <1>2, <1>3 DEF WorkCountExact

\* A step that moves no unit of work.
LEMMA CountFrame ==
  ASSUME TypeInv, HomeInv, WorkCountExact, Counted' = Counted, OwnUnit' = OwnUnit,
         work_count' = work_count, running' => running
  PROVE  WorkCountExact'
  BY DEF WorkCountExact

LEMMA CarriedFrame ==
  ASSUME main_queue' = main_queue, \A t \in Threads : Carried(t)' = Carried(t)
  PROVE  Counted' = Counted
  BY DEF Counted

\* A step of one thread.
LEMMA CountedStep ==
  ASSUME NEW t \in Threads, \A u \in Threads \ {t} : Carried(u)' = Carried(u)
  PROVE  Counted' = Range(main_queue') \union Others(t) \union Carried(t)'
<1>1. Counted' = Range(main_queue') \union UNION {Carried(u)' : u \in Threads}
  BY DEF Counted
<1>2. UNION {Carried(u)' : u \in Threads} = Others(t) \union Carried(t)'
  BY DEF Others
<1> QED BY <1>1, <1>2

\* What attach() does to the count.
LEMMA AttachCount ==
  ASSUME TypeInv, LocalInv, HomeInv, WorkCountExact, NEW t \in Threads, AttachStep(t)
  PROVE  WorkCountExact'
<1> USE DEF TypeInv
<1>1. CASE Lock(t) \/ Check(t) \/ Block(t) \/ Take(t) \/ WakeAll(t)
  <2>1. Counted' = Counted
    BY ZenonT(60), <1>1, CarriedFrame
    DEF Lock, Check, Block, Take, WakeAll, Goto, Carried, HoldsUnit
  <2> QED BY <1>1, <2>1, CountFrame DEF Lock, Check, Block, Take, WakeAll, OwnUnit
<1>2. CASE Pop(t)
  <2>1. Range(main_queue) = {Head(main_queue)} \union Range(Tail(main_queue))
    BY <1>2, RangeTail DEF Pop
  <2>2. Carried(t) = {} /\ Carried(t)' = {Head(main_queue)}
    BY <1>2 DEF Pop, Goto, Carried, HoldsUnit
  <2>3. \A u \in Threads \ {t} : Carried(u)' = Carried(u)
    BY <1>2 DEF Pop, Goto, Carried, HoldsUnit
  <2>4. Counted' = Counted
    <3>1. Counted' = Range(main_queue') \union Others(t) \union Carried(t)'
      BY <2>3, CountedStep
    <3>2. Counted = Range(main_queue) \union Others(t) \union Carried(t)
      BY CountedSplit DEF Rest
    <3>3. Range(main_queue) = {Head(main_queue)} \union Range(main_queue')
      BY <1>2, <2>1 DEF Pop
    <3> QED BY <2>2, <3>1, <3>2, <3>3
  <2> QED BY <1>2, <2>4, CountFrame DEF Pop, OwnUnit
<1>3. CASE Return(t)
  <2>1. Counted' = Counted
    BY <1>3, CarriedFrame DEF Return, InOperation, Carried, HoldsUnit
  <2> QED BY <1>3, <2>1, CountFrame DEF Return, OwnUnit
<1>4. CASE LocalCheck(t)
  <2>1. CASE running
    <3>1. Counted' = Counted
      BY <1>4, <2>1, CarriedFrame DEF LocalCheck, Goto, Carried, HoldsUnit
    <3> QED BY <1>4, <3>1, CountFrame DEF LocalCheck, OwnUnit
  <2>2. CASE ~running
    <3>1. /\ \A u \in Threads \ {t} : Carried(u)' = Carried(u)
          /\ Carried(t)' = {} /\ main_queue' = main_queue
      BY <1>4, <2>2 DEF LocalCheck, Goto, Carried, HoldsUnit
    <3>2. Counted' = Rest(t) \union {}
      BY <3>1, CountedStep DEF Rest
    <3>3. HoldsUnit(t)
      BY <1>4 DEF LocalCheck, Goto, HoldsUnit
    <3>4. /\ Cardinality(Counted') = Cardinality(Counted) - 1 + Cardinality({})
          /\ Cardinality({}) = 0 /\ Cardinality(Counted) \in Nat
      BY <3>2, <3>3, Exchange, FS_EmptySet
    <3>5. OwnUnit' = OwnUnit /\ work_count' = work_count /\ ~running'
      BY <1>4, <2>2 DEF LocalCheck, OwnUnit
    <3> QED BY <3>4, <3>5 DEF WorkCountExact, OwnUnit
  <2> QED BY <2>1, <2>2
<1>5. CASE LocalPop(t)
  <2>1. Head(local[t]) \in Range(local[t])
    BY <1>5, RangeTail DEF LocalPop
  <2>2. /\ \A u \in Threads \ {t} : Carried(u)' = Carried(u)
        /\ Carried(t)' = {Head(local[t])} /\ main_queue' = main_queue
    BY <1>5 DEF LocalPop, Goto, Carried, HoldsUnit
  <2>3. Counted' = Rest(t) \union {Head(local[t])} /\ HoldsUnit(t)
    BY <1>5, <2>2, CountedStep DEF LocalPop, Goto, Rest, HoldsUnit
  <2>4. IsFiniteSet({Head(local[t])}) /\ Cardinality({Head(local[t])}) = 1
    BY FS_Singleton
  <2>5. /\ Cardinality(Counted') = Cardinality(Counted) - 1 + Cardinality({Head(local[t])})
        /\ Cardinality(Counted) \in Nat
    BY <2>1, <2>3, <2>4, Exchange, CountedSplit
  <2>6. OwnUnit' = OwnUnit /\ work_count' = work_count /\ running' = running
    BY <1>5 DEF LocalPop, OwnUnit
  <2> QED BY <2>4, <2>5, <2>6 DEF WorkCountExact, OwnUnit
<1>6. CASE Settle(t)
  <2>1. /\ HoldsUnit(t)
        /\ IsFiniteSet(Range(local[t])) /\ Cardinality(Range(local[t])) = count[t]
    BY <1>6, RangeCardinality DEF Settle, Goto, HoldsUnit, LocalInv, HomeInv
  <2>2. count[t] = 0 => Range(local[t]) = {}
    BY <2>1, FS_EmptySet
  <2>3. /\ \A u \in Threads \ {t} : Carried(u)' = Carried(u)
        /\ Carried(t)' = Range(local[t]) /\ main_queue' = main_queue
    BY <1>6, <2>2 DEF Settle, Goto, Carried, HoldsUnit
  <2>4. Counted' = Rest(t) \union Range(local[t])
    BY <2>3, CountedStep DEF Rest
  <2>5. /\ Cardinality(Counted') = Cardinality(Counted) - 1 + count[t]
        /\ Cardinality(Counted) \in Nat
    BY <2>1, <2>4, Exchange, CountedSplit
  <2>6. /\ OwnUnit' = OwnUnit /\ running' = running
        /\ work_count' = work_count + count[t] - 1
    BY <1>6 DEF Settle, Settled, OwnUnit
  <2>7. OwnUnit \in Nat /\ count[t] \in Nat /\ work_count \in Int
    BY DEF OwnUnit
  <2> QED BY SMTT(30), <2>5, <2>6, <2>7 DEF WorkCountExact
<1>7. CASE Relock(t)
  <2>1. Range(main_queue \o local[t]) = Range(main_queue) \union Range(local[t])
    BY RangeConcat
  <2>2. Carried(t) = Range(local[t]) /\ Carried(t)' = {}
    BY <1>7 DEF Relock, Goto, Carried, HoldsUnit
  <2>3. \A u \in Threads \ {t} : Carried(u)' = Carried(u)
    BY <1>7 DEF Relock, Goto, Carried, HoldsUnit
  <2>4. Counted' = Counted
    <3>1. Counted' = Range(main_queue') \union Others(t) \union Carried(t)'
      BY <2>3, CountedStep
    <3>2. Counted = Range(main_queue) \union Others(t) \union Carried(t)
      BY CountedSplit DEF Rest
    <3>3. Range(main_queue') = Range(main_queue) \union Range(local[t])
      BY <1>7, <2>1 DEF Relock
    <3> QED BY <2>2, <3>1, <3>2, <3>3
  <2> QED BY <1>7, <2>4, CountFrame DEF Relock, OwnUnit
<1>8. CASE Leave(t)
  <2>1. Counted' = Counted
    BY <1>8, CarriedFrame DEF Leave, Goto, Carried, HoldsUnit
  <2> QED BY <1>8, <2>1, CountFrame DEF Leave, OwnUnit
<1> QED BY <1>1, <1>2, <1>3, <1>4, <1>5, <1>6, <1>7, <1>8 DEF AttachStep

LEMMA EnqueueCount ==
  ASSUME TypeInv, HomeInv, WorkCountExact, NEW a \in Actors, NEW o \in Ops,
         EnqueueOperation(a, o)
  PROVE  WorkCountExact'
<1> USE DEF TypeInv
<1>1. Counted' = Counted \union {o}
  <2>1. Range(Append(main_queue, o)) = Range(main_queue) \union {o}
    BY RangeAppend
  <2>2. \A t \in Threads : Carried(t)' = Carried(t)
    BY DEF EnqueueOperation, Carried, HoldsUnit
  <2> QED BY <2>1, <2>2 DEF EnqueueOperation, Counted
<1>2. o \notin Counted
  BY DEF EnqueueOperation, Counted, Carried, HomeInv
<1>3. Cardinality(Counted') = Cardinality(Counted) + 1 /\ Cardinality(Counted) \in Nat
  BY <1>1, <1>2, CountedFinite, FS_AddElement
<1>4. OwnUnit' = OwnUnit /\ work_count' = work_count + 1 /\ running' = running
  BY DEF EnqueueOperation, OwnUnit
<1> QED BY <1>3, <1>4 DEF WorkCountExact, OwnUnit

\* Units are only made and given back with the operations they stand for.
LEMMA NextCount ==
  ASSUME TypeInv, CallInv, ShutdownInv, LocalInv, HomeInv, WaitInv, WorkCountExact,
         [Next]_vars
  PROVE  WorkCountExact'
<1> USE DEF TypeInv
<1>1. ASSUME NEW t \in Threads, AttachStep(t) PROVE WorkCountExact'
  BY <1>1, AttachCount
<1>2. ASSUME NEW a \in Actors, NotifyOne(a) \/ NotifyAll(a) PROVE WorkCountExact'
  <2>1. Counted' = Counted
    BY <1>2, CarriedFrame DEF NotifyOne, NotifyAll, Goto, Carried, HoldsUnit
  <2> QED BY <1>2, <2>1, CountFrame DEF NotifyOne, NotifyAll, OwnUnit
<1>3. ASSUME NEW t \in Threads, SpuriousWakeup(t) \/ Attach(t) PROVE WorkCountExact'
  <2>1. Counted' = Counted
    BY <1>3, CarriedFrame DEF SpuriousWakeup, Attach, Goto, Carried, HoldsUnit
  <2> QED BY <1>3, <2>1, CountFrame DEF SpuriousWakeup, Attach, OwnUnit
<1>4. ASSUME NEW t \in Threads, NEW o \in Ops, Defer(t, o) PROVE WorkCountExact'
  <2>1. Counted' = Counted
    BY <1>4, CarriedFrame
    DEF Defer, InOperation, EnqueueContinuation, Carried, HoldsUnit
  <2> QED BY <1>4, <2>1, CountFrame DEF Defer, EnqueueContinuation, OwnUnit
<1>5. ASSUME NEW a \in Actors, Stop(a) PROVE WorkCountExact'
  <2>1. Counted' = Counted
    BY <1>5, CarriedFrame DEF Stop, Carried, HoldsUnit
  <2> QED BY <1>5, <2>1, CountFrame DEF Stop, OwnUnit
<1>6. ASSUME NEW t \in Threads, OperationCall(t) PROVE WorkCountExact'
  BY <1>4, <1>5, <1>6, EnqueueCount DEF OperationCall, Post, Actors
<1>7. ASSUME NEW c \in Clients, ClientCall(c) PROVE WorkCountExact'
  <2>1. CASE WaitMove(c)
    <3>1. Counted' = Counted
      BY <2>1, CarriedFrame DEF WaitMove, Carried, HoldsUnit
    <3>2. OwnUnit = 1 /\ OwnUnit' = 1
      BY <2>1 DEF WaitMove, OwnUnit
    <3> QED BY <2>1, <3>1, <3>2, CountFrame DEF WaitMove
  <2> QED BY <1>5, <1>7, <2>1, EnqueueCount DEF ClientCall, Submit, Schedule, Actors
<1>8. ASSUME NEW c \in Clients, WaitRelease(c) PROVE WorkCountExact'
  <2>1. Counted' = Counted
    BY <1>8, CarriedFrame DEF WaitRelease, Carried, HoldsUnit
  <2>2. OwnUnit = 1
    BY <1>8 DEF WaitRelease, OwnUnit
  <2>3. OwnUnit' = 0
    BY <1>8, PoolAssumption DEF WaitRelease, OwnUnit, WaitInv, Alive
  <2>4. work_count' = work_count - 1 /\ running' = running /\ Cardinality(Counted) \in Nat
    BY <1>8, CountedFinite DEF WaitRelease
  <2> QED BY <2>1, <2>2, <2>3, <2>4 DEF WorkCountExact
<1>9. ASSUME NEW c \in Clients, WaitJoin(c) PROVE WorkCountExact'
  <2>1. Counted' = Counted
    BY <1>9, CarriedFrame DEF WaitJoin, Carried, HoldsUnit
  <2>2. OwnUnit' = OwnUnit
    BY <1>9, PoolAssumption DEF WaitJoin, OwnUnit, CallInv
  <2> QED BY <1>9, <2>1, <2>2, CountFrame DEF WaitJoin
<1>10. ASSUME NEW w \in Workers, SpawnThread(w) PROVE WorkCountExact'
  <2>1. Counted' = Counted
    BY <1>10, CarriedFrame DEF SpawnThread, Goto, Carried, HoldsUnit, Threads
  <2>2. OwnUnit = 1 /\ OwnUnit' = 1
    BY <1>10 DEF SpawnThread, OwnUnit
  <2> QED BY <1>10, <2>1, <2>2, CountFrame DEF SpawnThread
<1>11. ASSUME NEW to, Shutdown(to), to \in {"ctor_join", "dtor_join"} PROVE WorkCountExact'
  <2>1. Counted' = Counted
    BY <1>11, CarriedFrame DEF Shutdown, Carried, HoldsUnit
  <2>2. OwnUnit' <= OwnUnit /\ OwnUnit \in Nat /\ OwnUnit' \in Nat
    BY <1>11, PoolAssumption DEF Shutdown, OwnUnit
  <2>3. work_count' = work_count /\ ~running' /\ Cardinality(Counted) \in Nat
    BY <1>11, CountedFinite DEF Shutdown
  <2> QED BY <2>1, <2>2, <2>3 DEF WorkCountExact
<1>12. CASE Joined
  <2>1. Counted' \in SUBSET Counted
    BY <1>12, RangeEmpty DEF Joined, Counted, Carried, HoldsUnit
  <2>2. Cardinality(Counted') <= Cardinality(Counted) /\ IsFiniteSet(Counted')
    BY <2>1, CountedFinite, FS_Subset
  <2>3. Cardinality(Counted) \in Nat /\ Cardinality(Counted') \in Nat
    BY <2>2, CountedFinite, FS_CardinalityType
  <2>4. OwnUnit' <= OwnUnit /\ OwnUnit \in Nat /\ OwnUnit' \in Nat
    BY <1>12, PoolAssumption DEF Joined, OwnUnit
  <2>5. work_count' = work_count /\ ~running'
    BY <1>12 DEF Joined, ShutdownInv
  <2> QED BY <2>2, <2>3, <2>4, <2>5 DEF WorkCountExact
<1>13. CASE OwnerStep \/ Destroy
  BY <1>10, <1>11, <1>12, <1>13 DEF OwnerStep, SpawnFails, Destroy
<1>14. CASE UNCHANGED vars
  <2>1. Counted' = Counted
    BY <1>14, CarriedFrame DEF vars, Carried, HoldsUnit
  <2> QED BY <1>14, <2>1, CountFrame DEF vars, OwnUnit
<1> QED
  BY <1>1, <1>2, <1>3, <1>6, <1>7, <1>8, <1>9, <1>13, <1>14 DEF Next, ClientStep, Threads

CountInv ==
  /\ TypeInv /\ MutexInv /\ CallInv /\ ShutdownInv
  /\ LocalInv /\ HomeInv /\ WaitInv /\ WorkCountExact

LEMMA CountInvariant == Spec => []CountInv
<1>1. Init => CountInv
  BY InitType, InitMutex, InitCall, InitShutdown, InitLocal, InitHome, InitWait, InitCount
  DEF CountInv
<1>2. CountInv /\ [Next]_vars => CountInv'
  BY NextType, NextMutex, NextCall, NextShutdown, NextLocal, NextHome, NextWait, NextCount
  DEF CountInv
<1> QED BY <1>1, <1>2, PTL DEF Spec

(* work_count_ counts the operations queued and in hand, and the unit of the *)
(* constructor: exactly until a stop, at least as many after it.             *)
THEOREM WorkCountIsExact == Spec => []WorkCountExact
  BY CountInvariant, PTL DEF CountInv

\* The size_t does not wrap below zero.
LEMMA CountIsNatural == CountInv => work_count \in Nat
<1> SUFFICES ASSUME CountInv PROVE work_count \in Nat
  OBVIOUS
<1>1. OwnUnit \in Nat /\ Cardinality(Counted) \in Nat
  BY CountedFinite DEF CountInv, OwnUnit
<1> QED BY <1>1 DEF CountInv, WorkCountExact, TypeInv

(* Every variable has its type; in particular work_count_ never wraps.       *)
THEOREM TypeCorrect == Spec => []TypeOK
<1>1. CountInv => TypeOK
  BY CountIsNatural DEF CountInv, TypeInv, TypeOK
<1> QED BY <1>1, CountInvariant, PTL
-------------------------------------------------------------------------------
LEMMA InitJoin == Init => JoinInv
  BY PoolAssumption DEF Init, JoinInv, Threads, Actors

\* A worker leaves threads_ for the local vector of one wait(), and that when it
\* has been joined.
LEMMA NextJoin ==
  ASSUME TypeInv, CallInv, JoinInv, [Next]_vars
  PROVE  JoinInv'
<1> USE PoolAssumption DEF TypeInv, JoinInv, Goto, Threads, Actors
<1>1. ASSUME NEW t \in Threads, AttachStep(t) PROVE JoinInv'
  <2>1. CASE Lock(t) BY <2>1 DEF Lock
  <2>2. CASE Check(t) BY <2>2 DEF Check
  <2>3. CASE Block(t) BY <2>3 DEF Block
  <2>4. CASE Take(t) BY <2>4 DEF Take
  <2>5. CASE Pop(t) BY <2>5 DEF Pop
  <2>6. CASE Return(t) BY <2>6 DEF Return, InOperation
  <2>7. CASE LocalCheck(t) BY <2>7 DEF LocalCheck
  <2>8. CASE LocalPop(t) BY <2>8 DEF LocalPop
  <2>9. CASE Settle(t) BY <2>9 DEF Settle
  <2>10. CASE WakeAll(t) BY <2>10 DEF WakeAll
  <2>11. CASE Relock(t) BY <2>11 DEF Relock
  <2>12. CASE Leave(t) BY <2>12 DEF Leave
  <2> QED BY <1>1, <2>1, <2>2, <2>3, <2>4, <2>5, <2>6, <2>7, <2>8, <2>9, <2>10,
             <2>11, <2>12 DEF AttachStep
<1>2. ASSUME NEW a \in Actors, NotifyOne(a) PROVE JoinInv'
  BY <1>2 DEF NotifyOne
<1>3. ASSUME NEW a \in Actors, NotifyAll(a) PROVE JoinInv'
  BY <1>3 DEF NotifyAll
<1>4. ASSUME NEW t \in Threads, SpuriousWakeup(t) PROVE JoinInv'
  BY <1>4 DEF SpuriousWakeup
<1>5. ASSUME NEW g \in Guests, Attach(g) PROVE JoinInv'
  BY ZenonT(60), <1>5 DEF Attach, Alive
<1>6. ASSUME NEW t \in Threads, OperationCall(t) PROVE JoinInv'
  BY <1>6 DEF OperationCall, Post, Defer, Stop, EnqueueOperation, EnqueueContinuation,
              InOperation
<1>7. ASSUME NEW c \in Clients, ClientCall(c) PROVE JoinInv'
  <2>1. CASE WaitMove(c) BY <2>1 DEF WaitMove, Calling, Alive
  <2>2. ASSUME NEW o \in Ops, Submit(c, o) \/ Schedule(c, o) PROVE JoinInv'
    BY <2>2 DEF Submit, Schedule, EnqueueOperation
  <2> QED BY <1>7, <2>1, <2>2 DEF ClientCall, Stop
<1>8. ASSUME NEW c \in Clients, ClientStep(c) PROVE JoinInv'
  <2>1. CASE WaitRelease(c) BY <2>1 DEF WaitRelease
  <2>2. CASE WaitJoin(c) BY <2>2 DEF WaitJoin, Exited
  <2> QED BY <1>8, <2>1, <2>2 DEF ClientStep
<1>9. CASE OwnerStep \/ Destroy
  <2>1. ASSUME NEW w \in Workers, SpawnThread(w) PROVE JoinInv'
    BY <2>1 DEF SpawnThread
  <2>2. ASSUME NEW to \in {"ctor_join", "dtor_join"}, Shutdown(to),
               call[Owner] \in {"ctor", "idle"}
        PROVE  JoinInv'
    BY <2>2 DEF Shutdown
  <2>3. CASE Joined
    <3>1. \A g \in Guests : pc[g] = "idle"
      BY <2>3 DEF Joined, CallInv, Alive
    <3>2. \A c \in Clients : joining[c] = {}
      BY <2>3 DEF Joined, CallInv, Alive
    <3>3. \A w \in Workers : pc[w] \in {"idle", "exited"}
      BY <2>3, <3>2 DEF Joined, Exited
    <3> QED BY <2>3, <3>1, <3>2, <3>3 DEF Joined
  <2> QED BY <1>9, <2>1, <2>2, <2>3 DEF OwnerStep, SpawnFails, Destroy, Calling
<1>10. CASE UNCHANGED vars
  BY <1>10 DEF vars
<1> QED
  BY <1>1, <1>2, <1>3, <1>4, <1>5, <1>6, <1>7, <1>8, <1>9, <1>10 DEF Next
-------------------------------------------------------------------------------
LEMMA InitPredicate == Init => PredicateInv
  BY PoolAssumption DEF Init, PredicateInv

\* While a thread holds a unit of work, the count is positive: no thread that
\* settles can make is_running() true again for a thread that has seen it false.
LEMMA HolderCounts ==
  ASSUME CountInv, NEW t \in Threads, HoldsUnit(t)
  PROVE  work_count >= 1
<1>1. op[t] \in Counted
  BY DEF Counted, Carried
<1>2. IsFiniteSet(Counted) /\ Cardinality(Counted) \in Nat
  BY CountedFinite DEF CountInv
<1>3. Cardinality(Counted) # 0
  BY <1>1, <1>2, FS_EmptySet
<1>4. OwnUnit \in Nat
  BY DEF OwnUnit
<1> QED BY <1>2, <1>3, <1>4 DEF CountInv, WorkCountExact, TypeInv

LEMMA NextPredicate ==
  ASSUME CountInv, JoinInv, JoinInv', PredicateInv, [Next]_vars
  PROVE  PredicateInv'
<1> USE PoolAssumption DEF CountInv, TypeInv, MutexInv, PredicateInv, Ready, IsRunning,
        Goto, Threads, Actors
<1>1. ASSUME NEW t \in Threads, AttachStep(t) PROVE PredicateInv'
  <2>1. CASE Lock(t) BY <2>1 DEF Lock
  <2>2. CASE Check(t) BY <2>2 DEF Check
  <2>3. CASE Block(t) BY <2>3 DEF Block
  <2>4. CASE Take(t) BY <2>4 DEF Take
  <2>5. CASE Pop(t) BY <2>5 DEF Pop
  <2>6. CASE Return(t) BY <2>6 DEF Return
  <2>7. CASE LocalCheck(t) BY <2>7 DEF LocalCheck
  <2>8. CASE LocalPop(t) BY <2>8 DEF LocalPop
  <2>9. CASE Settle(t)
    <3>1. work_count >= 1
      BY <2>9, HolderCounts DEF Settle, HoldsUnit
    <3> QED BY <2>9, <3>1 DEF Settle
  <2>10. CASE WakeAll(t) BY <2>10 DEF WakeAll
  <2>11. CASE Relock(t) BY <2>11 DEF Relock
  <2>12. CASE Leave(t) BY <2>12 DEF Leave
  <2> QED BY <1>1, <2>1, <2>2, <2>3, <2>4, <2>5, <2>6, <2>7, <2>8, <2>9, <2>10,
             <2>11, <2>12 DEF AttachStep
<1>2. ASSUME NEW a \in Actors, NotifyOne(a) PROVE PredicateInv'
  BY <1>2 DEF NotifyOne
<1>3. ASSUME NEW a \in Actors, NotifyAll(a) PROVE PredicateInv'
  BY <1>3 DEF NotifyAll
<1>4. ASSUME NEW t \in Threads, SpuriousWakeup(t) \/ Attach(t) PROVE PredicateInv'
  BY <1>4 DEF SpuriousWakeup, Attach
<1>5. ASSUME NEW a \in Actors, NEW o \in Ops, EnqueueOperation(a, o) PROVE PredicateInv'
  BY <1>5 DEF EnqueueOperation
<1>6. ASSUME NEW t \in Threads, OperationCall(t) PROVE PredicateInv'
  BY <1>5, <1>6 DEF OperationCall, Post, Defer, Stop, EnqueueContinuation
<1>7. ASSUME NEW c \in Clients, ClientCall(c) \/ ClientStep(c) PROVE PredicateInv'
  <2>1. CASE WaitMove(c) BY <2>1 DEF WaitMove
  <2>2. CASE ClientStep(c) BY <2>2 DEF ClientStep, WaitRelease, WaitJoin
  <2> QED BY <1>5, <1>7, <2>1, <2>2 DEF ClientCall, Submit, Schedule, Stop
<1>8. CASE OwnerStep \/ Destroy
  <2>1. ASSUME NEW w \in Workers, SpawnThread(w) PROVE PredicateInv'
    BY <2>1 DEF SpawnThread
  <2>2. ASSUME NEW to, Shutdown(to) PROVE PredicateInv'
    BY <2>2 DEF Shutdown
  <2>3. CASE Joined
    BY <2>3 DEF Joined, JoinInv
  <2> QED BY <1>8, <2>1, <2>2, <2>3 DEF OwnerStep, SpawnFails, Destroy
<1>9. CASE UNCHANGED vars
  BY <1>9 DEF vars
<1> QED
  BY <1>1, <1>2, <1>3, <1>4, <1>6, <1>7, <1>8, <1>9 DEF Next

PoolInv == CountInv /\ JoinInv /\ PredicateInv

LEMMA PoolInvariant == Spec => []PoolInv
<1>1. Init => JoinInv /\ PredicateInv
  BY InitJoin, InitPredicate
<1>2. CountInv /\ CountInv' /\ JoinInv /\ PredicateInv /\ [Next]_vars
        => JoinInv' /\ PredicateInv'
  BY NextJoin, NextPredicate DEF CountInv
<1> QED BY <1>1, <1>2, CountInvariant, PTL DEF Spec, PoolInv

(* deque() is never called on an empty queue, and a thread never settles     *)
(* with exactly one continuation.                                            *)
THEOREM AssertionsDoHold == Spec => []AssertionsHold
<1>1. PoolInv => AssertionsHold
  <2> SUFFICES ASSUME PoolInv, NEW t \in Threads
               PROVE  /\ pc[t] = "pop" => main_queue # <<>>
                      /\ pc[t] = "local_pop" => local[t] # <<>>
                      /\ pc[t] = "settle" => count[t] # 1
    BY DEF AssertionsHold
  <2>1. pc[t] = "local_pop" => Len(local[t]) = 1
    BY DEF PoolInv, CountInv, LocalInv, HoldsUnit
  <2> QED BY <2>1, EmptySeq DEF PoolInv, CountInv, LocalInv, PredicateInv
<1> QED BY <1>1, PoolInvariant, PTL

(* When the members of the pool are destroyed no thread is inside attach().  *)
THEOREM DestroyedAlone == Spec => []NothingAfterDestroy
<1>1. PoolInv => NothingAfterDestroy
  BY DEF PoolInv, CountInv, JoinInv, MutexInv, TypeInv, NothingAfterDestroy, Actors, Signals
<1> QED BY <1>1, PoolInvariant, PTL
-------------------------------------------------------------------------------
LEMMA InitSleep == Init => SleepInv
  BY PoolAssumption DEF Init, SleepInv, NoStrandedWork

\* Whoever leaves work in the queue, or puts it there, notifies or looks again.
LEMMA NextSleep ==
  ASSUME PoolInv, SleepInv, [Next]_vars
  PROVE  SleepInv'
<1> USE PoolAssumption DEF PoolInv, CountInv, TypeInv, MutexInv, SleepInv, NoStrandedWork,
        IsRunning, Goto, Threads, Actors
<1>1. ASSUME NEW t \in Threads, AttachStep(t) PROVE SleepInv'
  <2>1. CASE Lock(t) BY <2>1 DEF Lock
  <2>2. CASE Check(t) BY <2>2 DEF Check, Ready
  <2>3. CASE Block(t) BY <2>3 DEF Block
  <2>4. CASE Take(t) BY <2>4 DEF Take
  <2>5. CASE Pop(t)
    <3>1. MoreOps => signal'[t] # "none"
      BY <2>5 DEF Pop
    <3>2. ~MoreOps => main_queue' = <<>>
      BY <2>5 DEF Pop, MoreOps
    <3>3. \A u \in Threads : pc'[u] # "block"
      BY <2>5 DEF Pop
    <3> QED BY <3>1, <3>2, <3>3
  <2>6. CASE Return(t) BY <2>6 DEF Return, InOperation
  <2>7. CASE LocalCheck(t) BY <2>7 DEF LocalCheck
  <2>8. CASE LocalPop(t) BY <2>8 DEF LocalPop
  <2>9. CASE Settle(t)
    <3>1. work_count >= 1
      BY <2>9, HolderCounts DEF Settle, HoldsUnit
    <3> QED BY <2>9, <3>1 DEF Settle
  <2>10. CASE WakeAll(t) BY <2>10 DEF WakeAll
  <2>11. CASE Relock(t) BY <2>11 DEF Relock
  <2>12. CASE Leave(t) BY <2>12 DEF Leave
  <2> QED BY <1>1, <2>1, <2>2, <2>3, <2>4, <2>5, <2>6, <2>7, <2>8, <2>9, <2>10,
             <2>11, <2>12 DEF AttachStep
<1>2. ASSUME NEW a \in Actors, NotifyOne(a) PROVE SleepInv'
  BY <1>2 DEF NotifyOne
<1>3. ASSUME NEW a \in Actors, NotifyAll(a) PROVE SleepInv'
  BY <1>3 DEF NotifyAll
<1>4. ASSUME NEW t \in Threads, SpuriousWakeup(t) \/ Attach(t) PROVE SleepInv'
  <2>1. /\ pc'[t] = "lock"
        /\ \A u \in Threads : pc'[u] = "block" => pc[u] = "block"
    BY <1>4 DEF SpuriousWakeup, Attach
  <2>2. main_queue' = main_queue
    BY <1>4 DEF SpuriousWakeup, Attach
  <2> QED BY <2>1, <2>2
<1>5. ASSUME NEW a \in Actors, NEW o \in Ops, EnqueueOperation(a, o) PROVE SleepInv'
  <2>1. signal'[a] = "one"
    BY <1>5 DEF EnqueueOperation
  <2>2. \A t \in Threads : pc'[t] # "block"
    BY <1>5 DEF EnqueueOperation
  <2> QED BY <2>1, <2>2
<1>6. ASSUME NEW t \in Threads, OperationCall(t) PROVE SleepInv'
  <2>1. ASSUME NEW o \in Ops, Post(t, o) PROVE SleepInv'
    BY <1>5, <2>1 DEF Post
  <2>2. ASSUME NEW o \in Ops, Defer(t, o) PROVE SleepInv'
    BY <2>2 DEF Defer, EnqueueContinuation
  <2>3. CASE Stop(t) BY <2>3 DEF Stop
  <2> QED BY <1>6, <2>1, <2>2, <2>3 DEF OperationCall
<1>7. ASSUME NEW c \in Clients, ClientCall(c) \/ ClientStep(c) PROVE SleepInv'
  <2>1. CASE WaitMove(c) BY <2>1 DEF WaitMove
  <2>2. CASE ClientStep(c) BY <2>2 DEF ClientStep, WaitRelease, WaitJoin
  <2> QED BY <1>5, <1>7, <2>1, <2>2 DEF ClientCall, Submit, Schedule, Stop
<1>8. CASE OwnerStep \/ Destroy
  <2>1. ASSUME NEW w \in Workers, SpawnThread(w) PROVE SleepInv'
    BY <2>1 DEF SpawnThread
  <2>2. ASSUME NEW to, Shutdown(to) PROVE SleepInv'
    BY <2>2 DEF Shutdown
  <2>3. CASE Joined BY <2>3 DEF Joined
  <2> QED BY <1>8, <2>1, <2>2, <2>3 DEF OwnerStep, SpawnFails, Destroy
<1>9. CASE UNCHANGED vars
  BY <1>9 DEF vars
<1> QED
  BY <1>1, <1>2, <1>3, <1>4, <1>6, <1>7, <1>8, <1>9 DEF Next

(* While a running pool has work in its queue and a thread asleep, somebody  *)
(* is about to notify or to look at the queue.                               *)
THEOREM NothingStranded == Spec => []NoStrandedWork
<1>1. Init => SleepInv
  BY InitSleep
<1>2. PoolInv /\ SleepInv /\ [Next]_vars => SleepInv'
  BY NextSleep
<1>3. SleepInv => NoStrandedWork
  BY DEF SleepInv
<1> QED BY <1>1, <1>2, <1>3, PoolInvariant, PTL DEF Spec
-------------------------------------------------------------------------------
\* The thread is inside the invocation of its operation.
Invokes(t) == pc[t] \in {"run", "run_local"}

\* Every live operation is somewhere: no step forgets one.
HeldBy(t, o) == o \in Range(local[t]) \/ (Invokes(t) /\ op[t] = o)

PlacedInv ==
  \A o \in Ops : fate[o] = "live" =>
    o \in Range(main_queue) \/ \E t \in Threads : HeldBy(t, o)

\* In a pool that is not stopped no operation is lost, and no thread leaves
\* continuations behind.
LossInv ==
  running =>
    /\ \A o \in Ops : fate[o] \notin {"dropped", "leaked"}
    /\ \A t \in Threads : pc[t] = "leaving" => local[t] = <<>>

LEMMA InitPlaced == Init => PlacedInv /\ LossInv
  BY PoolAssumption DEF Init, PlacedInv, LossInv

\* The steps that move no operation.
LEMMA PlacedFrame ==
  ASSUME PlacedInv, UNCHANGED <<main_queue, local, fate>>,
         \A t \in Threads : Invokes(t) => Invokes(t)' /\ op'[t] = op[t]
  PROVE  PlacedInv'
  BY DEF PlacedInv, HeldBy

\* The steps of one thread.
LEMMA PlacedStep ==
  ASSUME PlacedInv, NEW t \in Threads,
         \A u \in Threads \ {t} : pc'[u] = pc[u] /\ op'[u] = op[u] /\ local'[u] = local[u],
         \A o \in Ops : fate'[o] = "live" =>
           /\ fate[o] = "live"
           /\ o \in Range(main_queue) \/ HeldBy(t, o)
                => o \in Range(main_queue') \/ HeldBy(t, o)'
  PROVE  PlacedInv'
<1> SUFFICES ASSUME NEW o \in Ops, fate'[o] = "live"
             PROVE  o \in Range(main_queue') \/ \E u \in Threads : HeldBy(u, o)'
  BY DEF PlacedInv
<1>1. CASE o \in Range(main_queue) \/ HeldBy(t, o)
  BY <1>1
<1>2. CASE \E u \in Threads \ {t} : HeldBy(u, o)
  BY <1>2 DEF HeldBy, Invokes
<1> QED BY <1>1, <1>2 DEF PlacedInv

LEMMA LossFrame ==
  ASSUME LossInv, fate' = fate, running' => running,
         \A t \in Threads : pc'[t] = "leaving" =>
           ~running' \/ local'[t] = <<>> \/ (pc[t] = "leaving" /\ local'[t] = local[t])
  PROVE  LossInv'
  BY DEF LossInv

\* What Destroyed does to the operations of the queue.
LEMMA DestroyedInside ==
  ASSUME NEW queue, NEW o \in Ops, o \in Range(queue)
  PROVE  Destroyed(queue)[o] \in {"dropped", "leaked"}
  BY DEF Destroyed, Leaked, Range

LEMMA AttachPlaced ==
  ASSUME TypeInv, LocalInv, HomeInv, PlacedInv, LossInv, NEW t \in Threads, AttachStep(t)
  PROVE  PlacedInv' /\ LossInv'
<1> USE DEF TypeInv
<1>1. CASE Lock(t) \/ Check(t) \/ Block(t) \/ WakeAll(t)
  <2>1. PlacedInv'
    BY <1>1, PlacedFrame DEF Lock, Check, Block, WakeAll, Goto, Invokes
  <2>2. pc[t] = "wake_all" => local[t] = <<>>
    BY DEF LocalInv, HoldsUnit
  <2>3. LossInv'
    BY <1>1, <2>2, LossFrame DEF Lock, Check, Block, WakeAll, Goto
  <2> QED BY <2>1, <2>3
<1>2. CASE Take(t) \/ LocalCheck(t)
  <2>1. PlacedInv'
    BY <1>2, PlacedFrame DEF Take, LocalCheck, Goto, Invokes
  <2>2. pc[t] = "take" => local[t] = <<>>
    BY DEF LocalInv, HoldsUnit
  <2>3. LossInv'
    BY <1>2, <2>2, LossFrame DEF Take, LocalCheck, Goto
  <2> QED BY <2>1, <2>3
<1>3. CASE Pop(t)
  <2>1. Range(main_queue) = {Head(main_queue)} \union Range(main_queue')
    BY <1>3, RangeTail DEF Pop
  <2>2. /\ pc[t] = "pop" /\ pc'[t] = "run" /\ op'[t] = Head(main_queue)
        /\ local' = local /\ fate' = fate
        /\ \A u \in Threads \ {t} : pc'[u] = pc[u] /\ op'[u] = op[u]
    BY <1>3 DEF Pop, Goto
  <2>3. PlacedInv'
    BY <2>1, <2>2, PlacedStep DEF HeldBy, Invokes
  <2>4. LossInv'
    BY <1>3, LossFrame DEF Pop, Goto
  <2> QED BY <2>3, <2>4
<1>4. CASE Return(t)
  <2>1. /\ Invokes(t) /\ main_queue' = main_queue /\ local' = local /\ op' = op
        /\ fate' = [fate EXCEPT ![op[t]] = "done"] /\ running' = running
        /\ pc'[t] # "leaving"
        /\ \A u \in Threads \ {t} : pc'[u] = pc[u]
    BY <1>4 DEF Return, InOperation, Invokes
  <2>2. op[t] \in Ops
    BY <2>1 DEF HomeInv, HoldsUnit, Invokes
  <2>3. PlacedInv'
    BY <2>1, <2>2, PlacedStep DEF HeldBy, Invokes
  <2>4. LossInv'
    BY <2>1, <2>2 DEF LossInv
  <2> QED BY <2>3, <2>4
<1>5. CASE LocalPop(t)
  <2>1. Range(local[t]) = {Head(local[t])} \union Range(Tail(local[t]))
    BY <1>5, RangeTail DEF LocalPop
  <2>2. /\ pc[t] = "local_pop" /\ pc'[t] = "run_local" /\ op'[t] = Head(local[t])
        /\ main_queue' = main_queue /\ fate' = fate /\ running' = running
        /\ local'[t] = Tail(local[t])
        /\ \A u \in Threads \ {t} : pc'[u] = pc[u] /\ op'[u] = op[u] /\ local'[u] = local[u]
    BY <1>5 DEF LocalPop, Goto
  <2>3. PlacedInv'
    BY <2>1, <2>2, PlacedStep DEF HeldBy, Invokes
  <2>4. LossInv'
    BY <2>2, LossFrame
  <2> QED BY <2>3, <2>4
<1>6. CASE Settle(t)
  <2>1. PlacedInv'
    BY <1>6, PlacedFrame DEF Settle, Goto, Invokes
  <2>2. LossInv'
    BY <1>6, LossFrame DEF Settle, Goto
  <2> QED BY <2>1, <2>2
<1>7. CASE Relock(t)
  <2>1. Range(main_queue') = Range(main_queue) \union Range(local[t])
    BY <1>7, RangeConcat DEF Relock
  <2>2. /\ pc[t] = "relock" /\ pc'[t] = "check" /\ op' = op
        /\ fate' = fate /\ running' = running
        /\ \A u \in Threads \ {t} : pc'[u] = pc[u] /\ local'[u] = local[u]
    BY <1>7 DEF Relock, Goto
  <2>3. PlacedInv'
    BY <2>1, <2>2, PlacedStep DEF HeldBy, Invokes
  <2>4. LossInv'
    BY <2>2, LossFrame
  <2> QED BY <2>3, <2>4
<1>8. CASE Leave(t)
  <2>1. /\ pc[t] = "leaving" /\ pc'[t] # "leaving"
        /\ main_queue' = main_queue /\ running' = running
        /\ fate' = Destroyed(local[t])
        /\ \A u \in Threads \ {t} : pc'[u] = pc[u] /\ local'[u] = local[u] /\ op'[u] = op[u]
    BY <1>8 DEF Leave, Goto
  <2>2. \A o \in Ops : o \in Range(local[t]) => fate'[o] \in {"dropped", "leaked"}
    BY <2>1, DestroyedInside
  <2>3. \A o \in Ops : o \notin Range(local[t]) => fate'[o] = fate[o]
    BY <2>1, DestroyedElsewhere
  <2>4. PlacedInv'
    <3>1. \A o \in Ops : fate'[o] = "live" => fate[o] = "live" /\ ~HeldBy(t, o)
      BY <2>1, <2>2, <2>3 DEF HeldBy, Invokes
    <3> QED BY <2>1, <3>1, PlacedStep
  <2>5. LossInv'
    BY <2>1, <2>3, RangeEmpty DEF LossInv
  <2> QED BY <2>4, <2>5
<1> QED BY <1>1, <1>2, <1>3, <1>4, <1>5, <1>6, <1>7, <1>8 DEF AttachStep

LEMMA EnqueuePlaced ==
  ASSUME TypeInv, PlacedInv, LossInv, NEW a \in Actors, NEW o \in Ops, EnqueueOperation(a, o)
  PROVE  PlacedInv' /\ LossInv'
<1>1. Range(main_queue') = Range(main_queue) \union {o}
  BY RangeAppend DEF EnqueueOperation, TypeInv
<1>2. /\ fate' = [fate EXCEPT ![o] = "live"] /\ running' = running
      /\ pc' = pc /\ op' = op /\ local' = local
  BY DEF EnqueueOperation
<1>3. PlacedInv'
  BY <1>1, <1>2 DEF PlacedInv, HeldBy, Invokes, TypeInv
<1>4. LossInv'
  BY <1>2 DEF LossInv, TypeInv
<1> QED BY <1>3, <1>4

LEMMA ContinuationPlaced ==
  ASSUME TypeInv, PlacedInv, LossInv, NEW t \in Threads, NEW o \in Ops,
         EnqueueContinuation(t, o), Invokes(t)
  PROVE  PlacedInv' /\ LossInv'
<1>1. Range(local'[t]) = Range(local[t]) \union {o}
  BY RangeAppend DEF EnqueueContinuation, TypeInv
<1>2. /\ fate' = [fate EXCEPT ![o] = "live"] /\ running' = running
      /\ pc' = pc /\ op' = op /\ main_queue' = main_queue
      /\ \A u \in Threads \ {t} : local'[u] = local[u]
  BY DEF EnqueueContinuation, TypeInv
<1>3. PlacedInv'
  BY <1>1, <1>2 DEF PlacedInv, HeldBy, Invokes, TypeInv
<1>4. LossInv'
  BY <1>2 DEF LossInv, TypeInv, Invokes
<1> QED BY <1>3, <1>4

\* An operation is put somewhere when it becomes live, and only a stop lets one go.
LEMMA NextPlaced ==
  ASSUME TypeInv, CallInv, ShutdownInv, LocalInv, HomeInv, PlacedInv, LossInv, [Next]_vars
  PROVE  PlacedInv' /\ LossInv'
<1> USE DEF TypeInv
<1>1. ASSUME NEW t \in Threads, AttachStep(t) PROVE PlacedInv' /\ LossInv'
  BY <1>1, AttachPlaced
<1>2. ASSUME NEW a \in Actors, NotifyOne(a) \/ NotifyAll(a) PROVE PlacedInv' /\ LossInv'
  <2>1. \A t \in Threads : pc'[t] = pc[t] \/ (pc[t] = "asleep" /\ pc'[t] = "lock")
    BY <1>2 DEF NotifyOne, NotifyAll, Goto
  <2>2. UNCHANGED <<main_queue, local, fate, op, running>>
    BY <1>2 DEF NotifyOne, NotifyAll
  <2> QED BY <2>1, <2>2, PlacedFrame, LossFrame DEF Invokes
<1>3. ASSUME NEW t \in Threads, SpuriousWakeup(t) \/ Attach(t) PROVE PlacedInv' /\ LossInv'
  <2>1. \A u \in Threads :
          pc'[u] = pc[u] \/ (pc[u] \in {"idle", "asleep"} /\ pc'[u] = "lock")
    BY <1>3 DEF SpuriousWakeup, Attach, Goto
  <2>2. UNCHANGED <<main_queue, local, fate, op, running>>
    BY <1>3 DEF SpuriousWakeup, Attach
  <2> QED BY <2>1, <2>2, PlacedFrame, LossFrame DEF Invokes
<1>4. ASSUME NEW a \in Actors, Stop(a) PROVE PlacedInv' /\ LossInv'
  <2>1. UNCHANGED <<main_queue, local, fate, op, pc>> /\ ~running'
    BY <1>4 DEF Stop
  <2> QED BY <2>1, PlacedFrame DEF Invokes, LossInv
<1>5. ASSUME NEW t \in Threads, OperationCall(t) PROVE PlacedInv' /\ LossInv'
  <2>1. ASSUME NEW o \in Ops, Post(t, o) PROVE PlacedInv' /\ LossInv'
    BY <2>1, EnqueuePlaced DEF Post, Actors
  <2>2. ASSUME NEW o \in Ops, Defer(t, o) PROVE PlacedInv' /\ LossInv'
    BY <2>2, ContinuationPlaced DEF Defer, InOperation, Invokes
  <2> QED BY <1>4, <1>5, <2>1, <2>2 DEF OperationCall, Actors
<1>6. ASSUME NEW c \in Clients, ClientCall(c) PROVE PlacedInv' /\ LossInv'
  <2>1. CASE WaitMove(c)
    <3>1. UNCHANGED <<main_queue, local, fate, op, pc, running>>
      BY <2>1 DEF WaitMove
    <3> QED BY <3>1, PlacedFrame, LossFrame DEF Invokes
  <2> QED BY <1>4, <1>6, <2>1, EnqueuePlaced DEF ClientCall, Submit, Schedule, Actors
<1>7. ASSUME NEW c \in Clients, ClientStep(c) PROVE PlacedInv' /\ LossInv'
  <2>1. UNCHANGED <<main_queue, local, fate, op, pc, running>>
    BY <1>7 DEF ClientStep, WaitRelease, WaitJoin
  <2> QED BY <2>1, PlacedFrame, LossFrame DEF Invokes
<1>8. ASSUME NEW w \in Workers, SpawnThread(w) PROVE PlacedInv' /\ LossInv'
  <2>1. \A t \in Threads : pc'[t] = pc[t] \/ (pc[t] = "idle" /\ pc'[t] = "lock")
    BY <1>8 DEF SpawnThread, Goto, Threads
  <2>2. UNCHANGED <<main_queue, local, fate, op, running>>
    BY <1>8 DEF SpawnThread
  <2> QED BY <2>1, <2>2, PlacedFrame, LossFrame DEF Invokes
<1>9. ASSUME NEW to, Shutdown(to) PROVE PlacedInv' /\ LossInv'
  <2>1. UNCHANGED <<main_queue, local, fate, op, pc>> /\ ~running'
    BY <1>9 DEF Shutdown
  <2> QED BY <2>1, PlacedFrame DEF Invokes, LossInv
<1>10. CASE Joined
  <2>1. UNCHANGED <<local, op, pc>> /\ fate' = Destroyed(main_queue) /\ ~running'
    BY <1>10 DEF Joined, ShutdownInv
  <2>2. \A o \in Ops : IF o \in Range(main_queue) THEN fate'[o] \in {"dropped", "leaked"}
                       ELSE fate'[o] = fate[o]
    BY <2>1, DestroyedInside, DestroyedElsewhere
  <2>3. PlacedInv'
    BY <2>1, <2>2 DEF PlacedInv, HeldBy, Invokes
  <2>4. LossInv'
    BY <2>1 DEF LossInv
  <2> QED BY <2>3, <2>4
<1>11. CASE UNCHANGED vars
  BY <1>11, PlacedFrame, LossFrame DEF vars, Invokes
<1> QED
  BY <1>1, <1>2, <1>3, <1>5, <1>6, <1>7, <1>8, <1>9, <1>10, <1>11
  DEF Next, OwnerStep, SpawnFails, Destroy, Threads

-------------------------------------------------------------------------------
\* The thread is on its way out of attach(), or out.
Away(t) == pc[t] \in {"wake_all", "leaving", "exited"}

\* A worker goes away from a running pool only when nothing is left to count, and
\* while the only client is in wait() nothing comes to be counted again.
DrainInv ==
  /\ \A c \in Clients : call[c] \in {"wait_release", "wait_join"} => joining[c] # {}
  /\ running /\ OwnUnit = 1 => \A w \in Workers : ~Away(w)
  /\ running /\ Clients = {Owner} /\ call[Owner] = "wait_join"
       => \A w \in Workers : Away(w) => work_count = 0

LEMMA InitDrain == Init => DrainInv
  BY PoolAssumption DEF Init, DrainInv, Away, Threads

\* The steps that send no worker away and leave the count and the calls alone.
LEMMA DrainFrame ==
  ASSUME DrainInv, UNCHANGED <<work_count, call, joining>>,
         running' => running, OwnUnit' = 1 => OwnUnit = 1,
         \A w \in Workers : Away(w)' => Away(w)
  PROVE  DrainInv'
  BY DEF DrainInv

\* A count of zero is seen in a running pool only when nothing is left.
UnitInv == running /\ work_count = 0 => OwnUnit = 0 /\ Counted = {}

LEMMA UnitCounts == CountInv => UnitInv
<1> SUFFICES ASSUME CountInv, running, work_count = 0
             PROVE  OwnUnit = 0 /\ Counted = {}
  BY DEF UnitInv
<1>1. OwnUnit \in Nat
  BY DEF OwnUnit
<1>2. IsFiniteSet(Counted) /\ Cardinality(Counted) \in Nat
  BY CountedFinite DEF CountInv
<1>3. Cardinality(Counted) = 0 /\ OwnUnit = 0
  BY <1>1, <1>2 DEF CountInv, WorkCountExact
<1> QED BY <1>2, <1>3, FS_EmptySet

LEMMA AttachDrain ==
  ASSUME CountInv, UnitInv, UnitInv', DrainInv, NEW t \in Threads, AttachStep(t)
  PROVE  DrainInv'
<1> USE DEF CountInv, TypeInv
<1>1. CASE Lock(t) \/ Check(t) \/ Block(t) \/ Pop(t) \/ LocalPop(t) \/ Relock(t)
  <2>1. /\ UNCHANGED <<work_count, call, joining, running, threads>>
        /\ \A w \in Threads : Away(w)' => Away(w)
    BY <1>1 DEF Lock, Check, Block, Pop, LocalPop, Relock, Goto, Away
  <2> QED BY <2>1, DrainFrame DEF OwnUnit, Threads
<1>2. CASE Return(t)
  <2>1. /\ UNCHANGED <<work_count, call, joining, running, threads>>
        /\ \A w \in Threads : Away(w)' => Away(w)
    BY <1>2 DEF Return, Away
  <2> QED BY <2>1, DrainFrame DEF OwnUnit, Threads
<1>3. CASE WakeAll(t) \/ Leave(t)
  <2>1. /\ UNCHANGED <<work_count, call, joining, running, threads>>
        /\ \A w \in Threads : Away(w)' => Away(w)
    BY <1>3 DEF WakeAll, Leave, Goto, Away
  <2> QED BY <2>1, DrainFrame DEF OwnUnit, Threads
<1>4. CASE Take(t) \/ LocalCheck(t)
  <2>1. UNCHANGED <<work_count, call, joining, running, threads>>
    BY <1>4 DEF Take, LocalCheck
  <2>2. \A w \in Threads : Away(w)' => Away(w) \/ ~running \/ work_count <= 0
    BY <1>4 DEF Take, LocalCheck, Goto, Away, IsRunning
  <2>3. CASE ~running
    BY <2>1, <2>3 DEF DrainInv
  <2>4. CASE running /\ work_count >= 1
    BY <2>1, <2>2, <2>4, DrainFrame DEF OwnUnit, Threads
  <2>5. CASE running /\ work_count = 0
    <3>1. OwnUnit = 0 /\ OwnUnit' = 0
      BY <2>1, <2>5 DEF OwnUnit, UnitInv
    <3> QED BY <2>1, <2>5, <3>1 DEF DrainInv
  <2> QED BY <2>3, <2>4, <2>5, CountIsNatural
<1>5. CASE Settle(t)
  <2>1. UNCHANGED <<call, joining, running, threads>> /\ OwnUnit' = OwnUnit
    BY <1>5 DEF Settle, OwnUnit
  <2>2. \A w \in Threads : Away(w)' => Away(w) \/ work_count' = 0
    BY <1>5 DEF Settle, Goto, Away
  <2>3. work_count >= 1
    BY <1>5, HolderCounts DEF Settle, Goto, HoldsUnit
  <2>4. running /\ work_count' = 0 => OwnUnit = 0
    BY <2>1 DEF UnitInv
  <2>5. Workers \subseteq Threads
    BY DEF Threads
  <2> QED BY <2>1, <2>2, <2>3, <2>4, <2>5 DEF DrainInv
<1> QED BY <1>1, <1>2, <1>3, <1>4, <1>5 DEF AttachStep

LEMMA NextDrain ==
  ASSUME CountInv, UnitInv, UnitInv', DrainInv, [Next]_vars
  PROVE  DrainInv'
<1> USE DEF CountInv, TypeInv
<1>1. ASSUME NEW t \in Threads, AttachStep(t) PROVE DrainInv'
  BY <1>1, AttachDrain
<1>2. ASSUME NEW a \in Actors, NotifyOne(a) \/ NotifyAll(a) PROVE DrainInv'
  <2>1. /\ UNCHANGED <<work_count, call, joining, running, threads>>
        /\ \A w \in Threads : Away(w)' => Away(w)
    BY <1>2 DEF NotifyOne, NotifyAll, Goto, Away
  <2> QED BY <2>1, DrainFrame DEF OwnUnit, Threads
<1>3. ASSUME NEW t \in Threads, SpuriousWakeup(t) \/ Attach(t) PROVE DrainInv'
  <2>1. /\ UNCHANGED <<work_count, call, joining, running, threads>>
        /\ \A w \in Threads : Away(w)' => Away(w)
    BY <1>3 DEF SpuriousWakeup, Attach, Goto, Away
  <2> QED BY <2>1, DrainFrame DEF OwnUnit, Threads
<1>4. ASSUME NEW a \in Actors, Stop(a) PROVE DrainInv'
  <2>1. UNCHANGED <<call, joining>> /\ ~running'
    BY <1>4 DEF Stop
  <2> QED BY <2>1 DEF DrainInv
<1>5. ASSUME NEW a \in Actors, NEW o \in Ops, EnqueueOperation(a, o),
             work_count >= 1 \/ call[Owner] = "idle" \/ Clients # {Owner}
      PROVE  DrainInv'
  <2>1. UNCHANGED <<call, joining, running, threads, pc>> /\ OwnUnit' = OwnUnit
    BY <1>5 DEF EnqueueOperation, OwnUnit
  <2>2. \A w \in Workers : Away(w)' = Away(w)
    BY <2>1 DEF Away
  <2>3. work_count # 0 \/ call[Owner] # "wait_join" \/ Clients # {Owner}
    BY <1>5
  <2> QED BY <2>1, <2>2, <2>3 DEF DrainInv
<1>6. ASSUME NEW t \in Threads, OperationCall(t) PROVE DrainInv'
  <2>1. ASSUME NEW o \in Ops, Post(t, o) PROVE DrainInv'
    <3>1. work_count >= 1
      BY <2>1, HolderCounts DEF Post, InOperation, HoldsUnit
    <3> QED BY <1>5, <2>1, <3>1 DEF Post, Actors
  <2>2. ASSUME NEW o \in Ops, Defer(t, o) PROVE DrainInv'
    <3>1. UNCHANGED <<work_count, call, joining, running, threads, pc>>
      BY <2>2 DEF Defer, EnqueueContinuation
    <3> QED BY <3>1, DrainFrame DEF OwnUnit, Away
  <2> QED BY <1>4, <1>6, <2>1, <2>2 DEF OperationCall, Actors
<1>7. ASSUME NEW c \in Clients, ClientCall(c) PROVE DrainInv'
  <2>1. CASE WaitMove(c)
    <3>1. /\ UNCHANGED <<work_count, running, pc>>
          /\ call[c] = "idle" /\ call' = [call EXCEPT ![c] = "wait_release"]
          /\ threads # {} /\ joining' = [joining EXCEPT ![c] = threads]
      BY <2>1 DEF WaitMove, Calling
    <3>2. OwnUnit = 1
      BY <3>1 DEF OwnUnit
    <3>3. \A w \in Workers : Away(w)' = Away(w)
      BY <3>1 DEF Away
    <3>4. running' => \A w \in Workers : ~Away(w)'
      BY <3>1, <3>2, <3>3 DEF DrainInv
    <3>5. \A d \in Clients : call'[d] \in {"wait_release", "wait_join"} => joining'[d] # {}
      BY <3>1 DEF DrainInv
    <3> QED BY <3>4, <3>5 DEF DrainInv
  <2>2. ASSUME NEW o \in Ops, Submit(c, o) \/ Schedule(c, o) PROVE DrainInv'
    <3>1. call[Owner] = "idle" \/ Clients # {Owner}
      BY <2>2 DEF Submit, Schedule, Calling
    <3> QED BY <1>5, <2>2, <3>1 DEF Submit, Schedule, Actors
  <2> QED BY <1>4, <1>7, <2>1, <2>2 DEF ClientCall, Actors
<1>8. ASSUME NEW c \in Clients, WaitRelease(c) PROVE DrainInv'
  <2>1. /\ UNCHANGED <<running, pc, joining, threads>>
        /\ call[c] = "wait_release" /\ call' = [call EXCEPT ![c] = "wait_join"]
    BY <1>8 DEF WaitRelease
  <2>2. OwnUnit = 1
    BY <2>1 DEF OwnUnit
  <2>3. \A w \in Workers : Away(w)' = Away(w)
    BY <2>1 DEF Away
  <2>4. running' => \A w \in Workers : ~Away(w)'
    BY <2>1, <2>2, <2>3 DEF DrainInv
  <2>5. \A d \in Clients : call'[d] \in {"wait_release", "wait_join"} => joining'[d] # {}
    BY <2>1 DEF DrainInv
  <2> QED BY <2>4, <2>5 DEF DrainInv
<1>9. ASSUME NEW c \in Clients, WaitJoin(c) PROVE DrainInv'
  <2>1. /\ UNCHANGED <<running, pc, threads, work_count>>
        /\ call[c] = "wait_join" /\ call' = [call EXCEPT ![c] = "idle"]
        /\ joining' = [joining EXCEPT ![c] = {}]
    BY <1>9 DEF WaitJoin
  <2>2. \A w \in Workers : Away(w)' = Away(w)
    BY <2>1 DEF Away
  <2>3. OwnUnit' = OwnUnit
    BY <2>1, PoolAssumption DEF OwnUnit, CallInv
  <2>4. \A d \in Clients : call'[d] \in {"wait_release", "wait_join"} => joining'[d] # {}
    BY <2>1 DEF DrainInv
  <2>5. call'[Owner] = "wait_join" => call[Owner] = "wait_join"
    BY <2>1, PoolAssumption
  <2> QED BY <2>1, <2>2, <2>3, <2>4, <2>5 DEF DrainInv
<1>10. ASSUME NEW w \in Workers, SpawnThread(w) PROVE DrainInv'
  <2>1. /\ UNCHANGED <<work_count, running, joining>>
        /\ call[Owner] = "ctor"
        /\ call' = [call EXCEPT ![Owner] = "ctor"] \/ call' = [call EXCEPT ![Owner] = "idle"]
        /\ \A v \in Threads : Away(v)' => Away(v)
    BY <1>10 DEF SpawnThread, Goto, Away, Threads
  <2>2. OwnUnit = 1 /\ Workers \subseteq Threads
    BY <2>1 DEF OwnUnit, Threads
  <2>3. running' => \A v \in Workers : ~Away(v)'
    BY <2>1, <2>2 DEF DrainInv
  <2>4. call'[Owner] # "wait_join"
    BY <2>1, PoolAssumption
  <2>5. \A d \in Clients : call'[d] \in {"wait_release", "wait_join"} => joining'[d] # {}
    BY <2>1 DEF DrainInv
  <2> QED BY <2>3, <2>4, <2>5 DEF DrainInv
<1>11. ASSUME NEW to \in {"ctor_join", "dtor_join"}, Shutdown(to) PROVE DrainInv'
  <2>1. UNCHANGED joining /\ ~running' /\ call' = [call EXCEPT ![Owner] = to]
    BY <1>11 DEF Shutdown
  <2> QED BY <2>1 DEF DrainInv
<1>12. CASE Joined
  <2>1. UNCHANGED joining /\ ~running' /\ call' = [call EXCEPT ![Owner] = "gone"]
    BY <1>12 DEF Joined, ShutdownInv
  <2> QED BY <2>1 DEF DrainInv
<1>13. CASE UNCHANGED vars
  BY <1>13, DrainFrame DEF vars, OwnUnit, Away
<1> QED
  BY <1>1, <1>2, <1>3, <1>6, <1>7, <1>8, <1>9, <1>10, <1>11, <1>12, <1>13
  DEF Next, ClientStep, OwnerStep, SpawnFails, Destroy, Threads

\* Nothing is left to count, so nothing is left.
LEMMA NothingLeft ==
  ASSUME CountInv, PlacedInv, LossInv, running, Counted = {}, NEW o \in Ops
  PROVE  fate[o] \in {"new", "done"}
<1>1. fate[o] \in {"new", "live", "done"}
  BY DEF CountInv, TypeInv, LossInv, Fates
<1>2. \A t \in Threads : ~HoldsUnit(t) /\ Carried(t) = {}
  BY DEF Counted, Carried
<1>3. \A t \in Threads : ~HeldBy(t, o)
  <2> SUFFICES ASSUME NEW t \in Threads, HeldBy(t, o) PROVE FALSE
    OBVIOUS
  <2>1. o \in Range(local[t])
    BY <1>2 DEF HeldBy, Invokes, HoldsUnit
  <2>2. local[t] # <<>>
    BY <2>1, RangeEmpty
  <2>3. pc[t] = "relock"
    BY <1>2, <2>2 DEF CountInv, LocalInv, LossInv
  <2> QED BY <1>2, <2>1, <2>3 DEF Carried
<1>4. o \notin Range(main_queue)
  BY DEF Counted
<1> QED BY <1>1, <1>3, <1>4 DEF PlacedInv

(* wait() of the only client returns from a pool that is not stopped only    *)
(* when every operation that was submitted has run to its end.               *)
THEOREM WaitDoesDrain == Spec => WaitDrains
<1> DEFINE IInv == PlacedInv /\ LossInv /\ DrainInv
<1>1. Init => IInv
  BY InitPlaced, InitDrain
<1>2. PoolInv /\ UnitInv /\ UnitInv' /\ IInv /\ [Next]_vars => IInv'
  BY NextPlaced, NextDrain DEF PoolInv, CountInv
<1>3. PoolInv => UnitInv
  BY UnitCounts DEF PoolInv
<1>4. PoolInv /\ UnitInv /\ IInv /\ [Next]_vars
        => [\A c \in Clients : WaitJoin(c) /\ running /\ Clients = {c}
              => \A o \in Ops : fate[o] \in {"new", "done"}]_vars
  <2> SUFFICES ASSUME PoolInv, UnitInv, IInv,
                      NEW c \in Clients, WaitJoin(c), running, Clients = {c},
                      NEW o \in Ops
               PROVE  fate[o] \in {"new", "done"}
    OBVIOUS
  <2>1. c = Owner /\ call[Owner] = "wait_join" /\ Exited(joining[Owner])
    BY PoolAssumption DEF WaitJoin
  <2>2. PICK w \in joining[Owner] : w \in Workers
    BY <2>1 DEF DrainInv, PoolInv, CountInv, TypeInv
  <2>3. Away(w)
    BY <2>1, <2>2 DEF Exited, Away
  <2>4. work_count = 0
    BY <2>1, <2>2, <2>3 DEF DrainInv
  <2>5. Counted = {}
    BY <2>4 DEF UnitInv
  <2> QED BY <2>5, NothingLeft DEF PoolInv
<1> QED BY <1>1, <1>2, <1>3, <1>4, PoolInvariant, PTL DEF Spec, WaitDrains
-------------------------------------------------------------------------------
(* The refinement of OperationLedger.                                        *)

Busy(o) == \E t \in Threads : o \in BusyWith(t)

\* An operation that a thread invokes is live, and of that thread alone.
LEMMA BusyHome ==
  ASSUME TypeInv, HomeInv, NEW t \in Threads, NEW o \in BusyWith(t)
  PROVE  /\ o \in Ops /\ fate[o] = "live" /\ o = op[t] /\ Invokes(t)
         /\ o \notin Range(main_queue)
         /\ \A u \in Threads : o \notin Range(local[u]) /\ (o \in BusyWith(u) => u = t)
<1>1. o = op[t] /\ pc[t] \in {"run", "run_local"}
  BY DEF BusyWith
<1>2. \A u \in Threads : o \in BusyWith(u) => HoldsUnit(u) /\ op[u] = o
  BY DEF BusyWith, HoldsUnit
<1> QED BY <1>1, <1>2 DEF HomeInv, Invokes

LEMMA LedgerFateIs ==
  ASSUME NEW o \in Ops
  PROVE  LedgerFate[o] = IF fate[o] = "live" THEN IF Busy(o) THEN "running" ELSE "queued"
                         ELSE IF fate[o] \in {"dropped", "leaked"} THEN "lost"
                         ELSE fate[o]
  BY DEF LedgerFate, Busy

LEMMA LedgerFateBecomes ==
  ASSUME NEW o \in Ops
  PROVE  LedgerFate'[o] = IF fate'[o] = "live" THEN IF Busy(o)' THEN "running" ELSE "queued"
                          ELSE IF fate'[o] \in {"dropped", "leaked"} THEN "lost"
                          ELSE fate'[o]
  BY DEF LedgerFate, Busy

\* A step that moves the operations of a set, and no others.
LEMMA LedgerMoved ==
  ASSUME NEW os \in SUBSET Ops, NEW from, NEW to,
         \A o \in os : LedgerFate[o] = from /\ LedgerFate'[o] = to,
         \A o \in Ops \ os : fate'[o] = fate[o] /\ Busy(o)' = Busy(o)
  PROVE  Ledger!Moved(os, from, to)
<1>1. \A o \in Ops \ os : LedgerFate'[o] = LedgerFate[o]
  BY LedgerFateIs, LedgerFateBecomes
<1>2. LedgerFate' = [o \in Ops |-> LedgerFate'[o]]
  BY DEF LedgerFate
<1>3. LedgerFate' = [o \in Ops |-> IF o \in os THEN to ELSE LedgerFate[o]]
  BY <1>1, <1>2
<1> QED BY <1>3 DEF Ledger!Moved, Ledger!In

LEMMA LedgerFateSame ==
  ASSUME \A o \in Ops : fate'[o] = fate[o] /\ Busy(o)' = Busy(o)
  PROVE  LedgerFate' = LedgerFate
<1>1. \A o \in Ops : LedgerFate'[o] = LedgerFate[o]
  BY LedgerFateIs, LedgerFateBecomes
<1> QED BY <1>1 DEF LedgerFate
-------------------------------------------------------------------------------
(* The threads at some of the labels.                                        *)

LEMMA AtFinite ==
  ASSUME NEW labels
  PROVE  /\ IsFiniteSet({t \in Threads : pc[t] \in labels})
         /\ At(labels) \in Nat
<1>1. {t \in Threads : pc[t] \in labels} \in SUBSET Threads /\ IsFiniteSet(Threads)
  BY PoolAssumption
<1>2. IsFiniteSet({t \in Threads : pc[t] \in labels})
  BY <1>1, FS_Subset
<1> QED BY <1>2, FS_CardinalityType DEF At

LEMMA AtSame ==
  ASSUME NEW CONSTANT labels, \A t \in Threads : pc'[t] \in labels <=> pc[t] \in labels
  PROVE  At(labels)' = At(labels)
  BY DEF At

LEMMA AtLeft ==
  ASSUME NEW CONSTANT labels, NEW t \in Threads, pc[t] \in labels, pc'[t] \notin labels,
         \A u \in Threads \ {t} : pc'[u] = pc[u]
  PROVE  At(labels)' = At(labels) - 1
<1>1. {u \in Threads : pc'[u] \in labels} = {u \in Threads : pc[u] \in labels} \ {t}
  OBVIOUS
<1> QED BY <1>1, AtFinite, FS_RemoveElement DEF At

LEMMA AtEntered ==
  ASSUME NEW CONSTANT labels, NEW t \in Threads, pc[t] \notin labels, pc'[t] \in labels,
         \A u \in Threads \ {t} : pc'[u] = pc[u]
  PROVE  At(labels)' = At(labels) + 1
<1>1. {u \in Threads : pc'[u] \in labels} = {u \in Threads : pc[u] \in labels} \union {t}
  OBVIOUS
<1>2. t \notin {u \in Threads : pc[u] \in labels}
  OBVIOUS
<1>3. Cardinality({u \in Threads : pc[u] \in labels} \union {t})
        = Cardinality({u \in Threads : pc[u] \in labels}) + 1
  BY <1>2, AtFinite, FS_AddElement, Zenon
<1> QED BY <1>1, <1>3 DEF At

LEMMA AtSomewhere ==
  ASSUME NEW labels, NEW t \in Threads, pc[t] \in labels
  PROVE  At(labels) # 0
<1>1. t \in {u \in Threads : pc[u] \in labels}
  OBVIOUS
<1> QED BY <1>1, AtFinite, FS_EmptySet DEF At

\* A thread is at one place only.
LEMMA AtBound ==
  /\ At({"pop"}) \in Nat /\ At({"run", "local_pop"}) \in Nat
  /\ Cardinality(Threads) \in Nat
  /\ At({"pop"}) + At({"run", "local_pop"}) <= Cardinality(Threads)
<1> DEFINE P == {t \in Threads : pc[t] \in {"pop"}}
           R == {t \in Threads : pc[t] \in {"run", "local_pop"}}
<1>1. IsFiniteSet(P) /\ IsFiniteSet(R) /\ IsFiniteSet(Threads)
  BY AtFinite, PoolAssumption
<1>2. \A t \in R : t \notin P
  OBVIOUS
<1>3. Cardinality(P \union R) = Cardinality(P) + Cardinality(R)
  <2> HIDE DEF P, R
  <2> QED BY <1>1, <1>2, DisjointCardinality
<1>4. P \union R \in SUBSET Threads
  OBVIOUS
<1>5. Cardinality(P \union R) <= Cardinality(Threads) /\ Cardinality(Threads) \in Nat
  BY <1>1, <1>4, FS_Subset, FS_CardinalityType
<1>6. At({"pop"}) = Cardinality(P) /\ At({"run", "local_pop"}) = Cardinality(R)
  BY DEF At
<1> QED BY <1>3, <1>5, <1>6, AtFinite

LEMMA GraceType == LedgerGrace \in Nat /\ LedgerGrace <= 2 * Cardinality(Threads)
  BY AtBound DEF LedgerGrace

\* A step after which a thread is at "pop", or at "run" or "local_pop", only if
\* it was before.
LEMMA GraceSame ==
  ASSUME running' = running,
         \A t \in Threads : \/ pc'[t] = pc[t]
                            \/ running
                            \/ pc[t] \notin {"pop", "run", "local_pop"}
                                 /\ pc'[t] \notin {"pop", "run", "local_pop"}
                            \/ pc[t] = "run" /\ pc'[t] = "local_pop"
  PROVE  LedgerGrace' = LedgerGrace
<1>1. CASE running
  BY <1>1 DEF LedgerGrace
<1>2. CASE ~running
  <2>1. At({"pop"})' = At({"pop"})
    BY <1>2, AtSame
  <2>2. At({"run", "local_pop"})' = At({"run", "local_pop"})
    BY <1>2, AtSame
  <2> QED BY <1>2, <2>1, <2>2 DEF LedgerGrace
<1> QED BY <1>1, <1>2

-------------------------------------------------------------------------------
(* Each step of the pool is a step of the ledger, or none.                   *)

LedgerStep == [Ledger!Next]_(Ledger!vars)

LEMMA LedgerStutter ==
  ASSUME running' = running, LedgerGrace' = LedgerGrace, LedgerFate' = LedgerFate
  PROVE  LedgerStep
  BY DEF LedgerStep, Ledger!vars

\* A step that submits, starts, ends and loses no operation.
LEMMA LedgerQuiet ==
  ASSUME running' = running, fate' = fate,
         \A t \in Threads : BusyWith(t)' = BusyWith(t),
         \A t \in Threads : \/ pc'[t] = pc[t]
                            \/ running
                            \/ pc[t] \notin {"pop", "run", "local_pop"}
                                 /\ pc'[t] \notin {"pop", "run", "local_pop"}
  PROVE  LedgerStep
<1>1. \A o \in Ops : Busy(o)' = Busy(o)
  BY DEF Busy
<1> QED BY <1>1, LedgerStutter, LedgerFateSame, GraceSame

\* The ledger counts with the Cardinality of its own FiniteSets.
LEMMA LedgerCardinality ==
  ASSUME NEW S
  PROVE  Ledger!Cardinality(S) = Cardinality(S)
  BY Zenon DEF Ledger!Cardinality, Cardinality, Ledger!IsFiniteSet, IsFiniteSet

\* The thread that starts an operation was not invoking one.
LEMMA RunningBound ==
  ASSUME TypeInv, HomeInv, NEW t \in Threads, ~Invokes(t)
  PROVE  Cardinality(Ledger!In("running")) < Cardinality(Threads)
<1> DEFINE R == Ledger!In("running")
           g == [o \in R |-> CHOOSE u \in Threads : o \in BusyWith(u)]
<1>1. \A o \in R : o \in Ops /\ Busy(o)
  BY LedgerFateIs DEF Ledger!In, TypeInv, Fates
<1>2. \A o \in R : g[o] \in Threads /\ o \in BusyWith(g[o])
  BY <1>1 DEF Busy
<1>3. \A o \in R : g[o] \in Threads \ {t} /\ o = op[g[o]]
  BY <1>2 DEF BusyWith, Invokes
<1>4. g \in Injection(R, Threads \ {t})
  BY <1>3 DEF Injection, IsInjective
<1>5. /\ IsFiniteSet(Threads \ {t}) /\ Cardinality(Threads \ {t}) = Cardinality(Threads) - 1
      /\ Cardinality(Threads) \in Nat
  BY PoolAssumption, FS_RemoveElement, FS_CardinalityType
<1>6. Cardinality(R) <= Cardinality(Threads \ {t}) /\ IsFiniteSet(R)
  BY <1>4, <1>5, FS_Injection
<1>7. Cardinality(R) \in Nat
  BY <1>6, FS_CardinalityType
<1> QED BY <1>5, <1>6, <1>7

\* EnqueueOperation and EnqueueContinuation.
LEMMA LedgerAccept ==
  ASSUME TypeInv, HomeInv, NEW o \in Ops, fate[o] = "new",
         fate' = [fate EXCEPT ![o] = "live"], UNCHANGED <<running, pc, op>>
  PROVE  LedgerStep
<1>1. \A x \in Ops : Busy(x)' = Busy(x)
  BY DEF Busy, BusyWith
<1>2. ~Busy(o)
  BY BusyHome DEF Busy
<1>3. LedgerFate[o] = "new" /\ LedgerFate'[o] = "queued"
  BY <1>1, <1>2, LedgerFateIs, LedgerFateBecomes DEF TypeInv
<1>4. \A x \in Ops \ {o} : fate'[x] = fate[x]
  BY DEF TypeInv
<1>5. Ledger!Moved({o}, "new", "queued")
  BY <1>1, <1>3, <1>4, LedgerMoved
<1>6. LedgerGrace' = LedgerGrace
  BY GraceSame
<1> QED BY <1>5, <1>6 DEF LedgerStep, Ledger!Next, Ledger!Accept

\* Pop and LocalPop.
LEMMA LedgerBegin ==
  ASSUME TypeInv, HomeInv, NEW t \in Threads, NEW o \in Ops,
         o \in Range(main_queue) \/ o \in Range(local[t]),
         UNCHANGED <<running, fate>>, op'[t] = o,
         \A u \in Threads \ {t} : pc'[u] = pc[u] /\ op'[u] = op[u],
         \/ pc[t] = "pop" /\ pc'[t] = "run"
         \/ pc[t] = "local_pop" /\ pc'[t] = "run_local"
  PROVE  LedgerStep
<1>1. ~Invokes(t) /\ BusyWith(t) = {} /\ BusyWith(t)' = {o}
  BY DEF Invokes, BusyWith
<1>2. \A u \in Threads \ {t} : BusyWith(u)' = BusyWith(u)
  BY DEF BusyWith
<1>3. fate[o] = "live" /\ ~Busy(o)
  BY BusyHome DEF Busy, HomeInv
<1>4. Busy(o)' /\ \A x \in Ops \ {o} : Busy(x)' = Busy(x)
  BY <1>1, <1>2 DEF Busy
<1>5. LedgerFate[o] = "queued" /\ LedgerFate'[o] = "running"
  BY <1>3, <1>4, LedgerFateIs, LedgerFateBecomes
<1>6. Ledger!Moved({o}, "queued", "running")
  BY <1>4, <1>5, LedgerMoved
<1>7. Cardinality(Ledger!In("running")) < Cardinality(Threads)
  BY <1>1, RunningBound
<1>8. LedgerGrace \in Nat /\ running => LedgerGrace' = LedgerGrace
  BY GraceType DEF LedgerGrace
<1>9. ~running => LedgerGrace' = LedgerGrace - 1 /\ LedgerGrace' \in Nat
  <2> SUFFICES ASSUME ~running PROVE LedgerGrace' = LedgerGrace - 1 /\ LedgerGrace' \in Nat
    OBVIOUS
  <2>1. CASE pc[t] = "pop" /\ pc'[t] = "run"
    <3>1. At({"pop"})' = At({"pop"}) - 1
      BY <2>1, AtLeft
    <3>2. At({"run", "local_pop"})' = At({"run", "local_pop"}) + 1
      BY <2>1, AtEntered
    <3>3. At({"pop"}) \in Nat /\ At({"pop"}) # 0 /\ At({"run", "local_pop"}) \in Nat
      BY <2>1, AtSomewhere, AtFinite
    <3> QED BY <3>1, <3>2, <3>3 DEF LedgerGrace
  <2>2. CASE pc[t] = "local_pop" /\ pc'[t] = "run_local"
    <3>1. At({"pop"})' = At({"pop"})
      BY <2>2, AtSame
    <3>2. At({"run", "local_pop"})' = At({"run", "local_pop"}) - 1
      BY <2>2, AtLeft
    <3>3. At({"run", "local_pop"}) \in Nat /\ At({"run", "local_pop"}) # 0 /\ At({"pop"}) \in Nat
      BY <2>2, AtSomewhere, AtFinite
    <3> QED BY <3>1, <3>2, <3>3 DEF LedgerGrace
  <2> QED BY <2>1, <2>2
<1>10. Ledger!GraceRunsDown /\ (~running => LedgerGrace' < LedgerGrace)
  BY <1>8, <1>9, GraceType DEF Ledger!GraceRunsDown
<1>11. Ledger!Begin(o)
  BY <1>6, <1>7, <1>10, LedgerCardinality DEF Ledger!Begin
<1> QED BY <1>11 DEF LedgerStep, Ledger!Next

\* Return.
LEMMA LedgerFinish ==
  ASSUME TypeInv, HomeInv, NEW t \in Threads, Return(t)
  PROVE  LedgerStep
<1>1. /\ Invokes(t) /\ UNCHANGED <<running, op>>
      /\ fate' = [fate EXCEPT ![op[t]] = "done"]
      /\ pc[t] = "run" => pc'[t] \in {"settle", "local_pop"}
      /\ pc[t] = "run_local" => pc'[t] \in {"settle", "local_check"}
      /\ \A u \in Threads \ {t} : pc'[u] = pc[u]
  BY DEF Return, InOperation, Invokes, TypeInv
<1>2. op[t] \in BusyWith(t) /\ BusyWith(t)' = {}
  BY <1>1 DEF BusyWith, Invokes
<1>3. \A u \in Threads \ {t} : BusyWith(u)' = BusyWith(u)
  BY <1>1 DEF BusyWith
<1>4. op[t] \in Ops /\ fate[op[t]] = "live" /\ Busy(op[t])
  BY <1>2, BusyHome DEF Busy
<1>5. \A x \in Ops \ {op[t]} : fate'[x] = fate[x] /\ Busy(x)' = Busy(x)
  <2>1. \A x \in Ops \ {op[t]} : x \notin BusyWith(t) /\ x \notin BusyWith(t)'
    BY <1>2 DEF BusyWith
  <2>2. \A x \in Ops \ {op[t]} : Busy(x)' = Busy(x)
    BY <1>3, <2>1 DEF Busy
  <2>3. \A x \in Ops \ {op[t]} : fate'[x] = fate[x]
    BY <1>1 DEF TypeInv
  <2> QED BY <2>2, <2>3
<1>6. LedgerFate[op[t]] = "running" /\ LedgerFate'[op[t]] = "done"
  BY <1>1, <1>4, LedgerFateIs, LedgerFateBecomes DEF TypeInv
<1>7. Ledger!Moved({op[t]}, "running", "done")
  BY <1>4, <1>5, <1>6, LedgerMoved
<1>8. Ledger!GraceRunsDown
  <2>1. CASE running \/ pc'[t] = "local_pop" \/ pc[t] = "run_local"
    <3>1. LedgerGrace' = LedgerGrace
      BY <1>1, <2>1, GraceSame DEF Invokes
    <3> QED BY <3>1, GraceType DEF Ledger!GraceRunsDown
  <2>2. CASE ~running /\ pc[t] = "run" /\ pc'[t] = "settle"
    <3>1. At({"pop"})' = At({"pop"})
      BY <1>1, <2>2, AtSame
    <3>2. At({"run", "local_pop"})' = At({"run", "local_pop"}) - 1
      BY <1>1, <2>2, AtLeft
    <3>3. At({"run", "local_pop"}) \in Nat /\ At({"run", "local_pop"}) # 0 /\ At({"pop"}) \in Nat
      BY <2>2, AtSomewhere, AtFinite
    <3> QED BY <1>1, <2>2, <3>1, <3>2, <3>3 DEF LedgerGrace, Ledger!GraceRunsDown
  <2> QED BY <1>1, <2>1, <2>2 DEF Invokes
<1>9. Ledger!Finish(op[t])
  BY <1>1, <1>7, <1>8 DEF Ledger!Finish
<1> QED BY <1>4, <1>9 DEF LedgerStep, Ledger!Next

\* Stop and Shutdown.
LEMMA LedgerClose ==
  ASSUME TypeInv, running' = FALSE, UNCHANGED <<pc, op, fate>>
  PROVE  LedgerStep
<1>1. \A o \in Ops : Busy(o)' = Busy(o)
  BY DEF Busy, BusyWith
<1>2. LedgerFate' = LedgerFate
  BY <1>1, LedgerFateSame
<1>3. CASE running
  <2>1. At({"pop"})' = At({"pop"}) /\ At({"run", "local_pop"})' = At({"run", "local_pop"})
    BY AtSame
  <2>2. LedgerGrace' \in 0 .. LedgerGrace
    BY <1>3, <2>1, AtBound DEF LedgerGrace
  <2>3. Ledger!Close
    BY <1>2, <1>3, <2>2 DEF Ledger!Close, TypeInv
  <2> QED BY <2>3 DEF LedgerStep, Ledger!Next
<1>4. CASE ~running
  BY <1>2, <1>4, GraceSame, LedgerStutter DEF TypeInv
<1> QED BY <1>3, <1>4

\* Leave and Joined.
LEMMA LedgerLose ==
  ASSUME TypeInv, HomeInv, NEW queue \in Seq(Ops), queue = <<>> \/ ~running,
         queue = main_queue \/ \E t \in Threads : queue = local[t],
         fate' = Destroyed(queue), running' = running,
         \A t \in Threads : BusyWith(t)' = BusyWith(t),
         \A t \in Threads : \/ pc'[t] = pc[t]
                            \/ pc[t] \notin {"pop", "run", "local_pop"}
                                 /\ pc'[t] \notin {"pop", "run", "local_pop"}
  PROVE  LedgerStep
<1>1. \A o \in Ops : Busy(o)' = Busy(o)
  BY DEF Busy
<1>2. LedgerGrace' = LedgerGrace
  BY GraceSame
<1>3. \A o \in Ops \ Range(queue) : fate'[o] = fate[o]
  BY DestroyedElsewhere
<1>4. \A o \in Range(queue) : fate[o] = "live" /\ ~Busy(o)
  BY BusyHome DEF Busy, HomeInv
<1>5. Range(queue) \in SUBSET Ops
  BY LenProperties DEF Range
<1>6. \A o \in Range(queue) : LedgerFate[o] = "queued" /\ LedgerFate'[o] = "lost"
  BY <1>4, <1>5, DestroyedInside, LedgerFateIs, LedgerFateBecomes
<1>7. CASE queue = <<>>
  BY <1>1, <1>2, <1>3, <1>7, RangeEmpty, LedgerFateSame, LedgerStutter
<1>8. CASE ~running
  <2>1. Ledger!Moved(Range(queue), "queued", "lost")
    BY <1>1, <1>3, <1>5, <1>6, LedgerMoved
  <2>2. Range(queue) \in SUBSET Ledger!In("queued")
    BY <1>5, <1>6 DEF Ledger!In
  <2> QED BY <1>2, <1>8, <2>1, <2>2 DEF LedgerStep, Ledger!Next, Ledger!Lose
<1> QED BY <1>7, <1>8

LEMMA LedgerAttach ==
  ASSUME PoolInv, LossInv, NEW t \in Threads, AttachStep(t)
  PROVE  LedgerStep
<1> USE DEF PoolInv, CountInv, TypeInv
<1>1. CASE Lock(t) \/ Check(t) \/ Block(t) \/ Settle(t) \/ WakeAll(t) \/ Relock(t)
  <2>1. UNCHANGED <<running, fate>>
    BY <1>1 DEF Lock, Check, Block, Settle, WakeAll, Relock
  <2>2. \A u \in Threads : \/ pc'[u] = pc[u] /\ (Invokes(u) => op'[u] = op[u])
                           \/ /\ pc[u] \notin {"pop", "run", "run_local", "local_pop"}
                              /\ pc'[u] \notin {"pop", "run", "run_local", "local_pop"}
    BY <1>1 DEF Lock, Check, Block, Settle, WakeAll, Relock, Goto, Invokes
  <2>3. \A u \in Threads : BusyWith(u)' = BusyWith(u)
    BY <2>2 DEF BusyWith, Invokes
  <2> QED BY <2>1, <2>2, <2>3, LedgerQuiet
<1>2. CASE Take(t) \/ LocalCheck(t)
  <2>1. UNCHANGED <<running, fate, op>>
    BY <1>2 DEF Take, LocalCheck
  <2>2. /\ \A u \in Threads \ {t} : pc'[u] = pc[u]
        /\ pc[t] \in {"take", "local_check"}
        /\ pc'[t] \in {"pop", "local_pop", "leaving"}
        /\ pc'[t] # "leaving" => running
    BY <1>2 DEF Take, LocalCheck, Goto, IsRunning
  <2>3. \A u \in Threads : BusyWith(u)' = BusyWith(u)
    BY <2>1, <2>2 DEF BusyWith
  <2> QED BY <2>1, <2>2, <2>3, LedgerQuiet
<1>3. CASE Pop(t)
  <2>1. Head(main_queue) \in Ops /\ Head(main_queue) \in Range(main_queue)
    BY <1>3, RangeTail, HeadTailProperties DEF Pop
  <2>2. /\ UNCHANGED <<running, fate>> /\ op'[t] = Head(main_queue)
        /\ pc[t] = "pop" /\ pc'[t] = "run"
        /\ \A u \in Threads \ {t} : pc'[u] = pc[u] /\ op'[u] = op[u]
    BY <1>3 DEF Pop, Goto
  <2> HIDE DEF PoolInv, CountInv, TypeInv
  <2> QED BY <2>1, <2>2, LedgerBegin DEF PoolInv, CountInv
<1>4. CASE LocalPop(t)
  <2>1. Head(local[t]) \in Ops /\ Head(local[t]) \in Range(local[t])
    BY <1>4, RangeTail, HeadTailProperties DEF LocalPop
  <2>2. /\ UNCHANGED <<running, fate>> /\ op'[t] = Head(local[t])
        /\ pc[t] = "local_pop" /\ pc'[t] = "run_local"
        /\ \A u \in Threads \ {t} : pc'[u] = pc[u] /\ op'[u] = op[u]
    BY <1>4 DEF LocalPop, Goto
  <2> HIDE DEF PoolInv, CountInv, TypeInv
  <2> QED BY <2>1, <2>2, LedgerBegin DEF PoolInv, CountInv
<1>5. CASE Return(t)
  BY <1>5, LedgerFinish
<1>6. CASE Leave(t)
  <2>1. local[t] = <<>> \/ ~running
    BY <1>6 DEF Leave, Goto, LossInv
  <2>2. /\ fate' = Destroyed(local[t]) /\ running' = running
        /\ pc[t] = "leaving" /\ pc'[t] \in {"idle", "exited"}
        /\ \A u \in Threads \ {t} : pc'[u] = pc[u] /\ op'[u] = op[u]
    BY <1>6 DEF Leave, Goto
  <2>3. \A u \in Threads : BusyWith(u)' = BusyWith(u)
    BY <2>2 DEF BusyWith
  <2>4. local[t] \in Seq(Ops)
    OBVIOUS
  <2> HIDE DEF PoolInv, CountInv, TypeInv
  <2> QED BY <2>1, <2>2, <2>3, <2>4, LedgerLose DEF PoolInv, CountInv
<1> QED BY <1>1, <1>2, <1>3, <1>4, <1>5, <1>6 DEF AttachStep

LEMMA NextLedger ==
  ASSUME PoolInv, LossInv, [Next]_vars
  PROVE  LedgerStep
<1> USE DEF PoolInv, CountInv
<1>1. ASSUME NEW t \in Threads, AttachStep(t) PROVE LedgerStep
  BY <1>1, LedgerAttach
<1>2. ASSUME NEW a \in Actors, NotifyOne(a) \/ NotifyAll(a) PROVE LedgerStep
  <2>1. UNCHANGED <<running, fate, op>>
    BY <1>2 DEF NotifyOne, NotifyAll
  <2>2. \A t \in Threads : pc'[t] = pc[t] \/ (pc[t] = "asleep" /\ pc'[t] = "lock")
    BY <1>2 DEF NotifyOne, NotifyAll, Goto, TypeInv
  <2>3. \A t \in Threads : BusyWith(t)' = BusyWith(t)
    BY <2>1, <2>2 DEF BusyWith
  <2> QED BY <2>1, <2>2, <2>3, LedgerQuiet
<1>3. ASSUME NEW t \in Threads, SpuriousWakeup(t) \/ Attach(t) PROVE LedgerStep
  <2>1. UNCHANGED <<running, fate, op>>
    BY <1>3 DEF SpuriousWakeup, Attach
  <2>2. \A u \in Threads : pc'[u] = pc[u] \/ (pc[u] \in {"asleep", "idle"} /\ pc'[u] = "lock")
    BY <1>3 DEF SpuriousWakeup, Attach, Goto, TypeInv
  <2>3. \A u \in Threads : BusyWith(u)' = BusyWith(u)
    BY <2>1, <2>2 DEF BusyWith
  <2> QED BY <2>1, <2>2, <2>3, LedgerQuiet
<1>4. ASSUME NEW o \in Ops, NEW a \in Actors, EnqueueOperation(a, o) PROVE LedgerStep
  BY <1>4, LedgerAccept DEF EnqueueOperation
<1>5. ASSUME NEW o \in Ops, NEW t \in Threads, EnqueueContinuation(t, o) PROVE LedgerStep
  BY <1>5, LedgerAccept DEF EnqueueContinuation
<1>6. ASSUME NEW a \in Actors, Stop(a) PROVE LedgerStep
  BY <1>6, LedgerClose DEF Stop
<1>7. ASSUME NEW t \in Threads, OperationCall(t) PROVE LedgerStep
  BY <1>4, <1>5, <1>6, <1>7 DEF OperationCall, Post, Defer, Actors
<1>8. ASSUME NEW c \in Clients, ClientCall(c) \/ ClientStep(c) PROVE LedgerStep
  <2>1. CASE WaitMove(c) \/ ClientStep(c)
    <3>1. UNCHANGED <<running, fate, op, pc>>
      BY <2>1 DEF WaitMove, ClientStep, WaitRelease, WaitJoin
    <3>2. \A t \in Threads : BusyWith(t)' = BusyWith(t)
      BY <3>1 DEF BusyWith
    <3> QED BY <3>1, <3>2, LedgerQuiet
  <2> QED BY <1>4, <1>6, <1>8, <2>1 DEF ClientCall, Submit, Schedule, Actors
<1>9. ASSUME NEW w \in Workers, SpawnThread(w) PROVE LedgerStep
  <2>1. UNCHANGED <<running, fate, op>>
    BY <1>9 DEF SpawnThread
  <2>2. \A t \in Threads : pc'[t] = pc[t] \/ (pc[t] = "idle" /\ pc'[t] = "lock")
    BY <1>9 DEF SpawnThread, Goto, TypeInv, Threads
  <2>3. \A t \in Threads : BusyWith(t)' = BusyWith(t)
    BY <2>1, <2>2 DEF BusyWith
  <2> QED BY <2>1, <2>2, <2>3, LedgerQuiet
<1>10. ASSUME NEW to, Shutdown(to) PROVE LedgerStep
  BY <1>10, LedgerClose DEF Shutdown
<1>11. CASE Joined
  <2>1. ~running /\ main_queue \in Seq(Ops)
    BY <1>11 DEF Joined, ShutdownInv, TypeInv
  <2>2. fate' = Destroyed(main_queue) /\ UNCHANGED <<running, pc, op>>
    BY <1>11 DEF Joined
  <2>3. \A t \in Threads : BusyWith(t)' = BusyWith(t)
    BY <2>2 DEF BusyWith
  <2> QED BY <2>1, <2>2, <2>3, LedgerLose
<1>12. CASE UNCHANGED vars
  <2>1. UNCHANGED <<running, fate, op, pc>>
    BY <1>12 DEF vars
  <2>2. \A t \in Threads : BusyWith(t)' = BusyWith(t)
    BY <2>1 DEF BusyWith
  <2> QED BY <2>1, <2>2, LedgerQuiet
<1> QED
  BY <1>1, <1>2, <1>3, <1>7, <1>8, <1>9, <1>10, <1>11, <1>12
  DEF Next, OwnerStep, SpawnFails, Destroy, Threads

LEMMA InitLedger == Init => Ledger!Init
<1> SUFFICES ASSUME Init PROVE Ledger!Init
  OBVIOUS
<1>1. \A o \in Ops : LedgerFate[o] = "new"
  BY LedgerFateIs DEF Init
<1>2. LedgerFate = [o \in Ops |-> "new"]
  BY <1>1 DEF LedgerFate
<1>3. running = TRUE /\ LedgerGrace = 2 * Cardinality(Threads)
  BY DEF Init, LedgerGrace
<1> QED BY <1>2, <1>3 DEF Ledger!Init

(* The pool implements the ledger of operations: an operation is begun at    *)
(* most once, by a thread that has nothing else to run; it is lost only      *)
(* after a stop; and after a stop each thread begins two more at most.       *)
THEOREM PoolImplementsLedger == Spec => ImplementsLedger
<1>1. Init => PlacedInv /\ LossInv /\ Ledger!Init
  BY InitPlaced, InitLedger
<1>2. PoolInv /\ PlacedInv /\ LossInv /\ [Next]_vars => PlacedInv' /\ LossInv'
  BY NextPlaced DEF PoolInv, CountInv
<1>3. PoolInv /\ LossInv /\ [Next]_vars => [Ledger!Next]_(Ledger!vars)
  BY NextLedger DEF LedgerStep
<1> QED BY <1>1, <1>2, <1>3, PoolInvariant, PTL DEF Spec, ImplementsLedger, Ledger!Spec
===============================================================================
