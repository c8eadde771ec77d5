---------------------------- MODULE SyncWaitProofs ----------------------------
(***************************************************************************)
(* What is proved of RunLoop and SyncWait, for every set of operations and *)
(* of threads that the sender uses.                                        *)
(***************************************************************************)
EXTENDS SyncWait, TLAPS

(* The list by itself: every function of the loop leaves it intact.  A new  *)
(* operation state has no successor.                                        *)
LoopInv ==
  LoopTypeOK /\ ListIntact /\ \A o \in Ops : place[o] = "new" => next[o] = Null

LEMMA LoopInitIntact == LoopInit => LoopInv
  BY LoopAssumption DEF LoopInit, LoopInv, LoopTypeOK, ListIntact, CellAt, Cells

LEMMA PushBackIntact ==
  ASSUME LoopInv, NEW o \in Ops, PushBack(o)
  PROVE  LoopInv'
<1> USE LoopAssumption DEF LoopInv, LoopTypeOK, PushBack, Cells
<1>0. PICK n \in Nat : n = Len(contents)
  OBVIOUS
<1> USE <1>0
<1>1. /\ Len(contents') = n + 1 /\ contents' \in Seq(Ops)
      /\ contents'[n + 1] = o /\ \A i \in 1..n : contents'[i] = contents[i]
  OBVIOUS
<1>2. \A i \in 0..n : CellAt(i)' = CellAt(i) /\ CellAt(i) \in Cells
  BY <1>1 DEF CellAt
<1>3. \A i \in 1..n : contents[i] # o /\ CellAt(i) = contents[i]
  BY DEF ListIntact, CellAt
<1>4. tail = CellAt(n) /\ next[tail] = Null /\ next[o] = Null /\ tail # o
  BY <1>2, <1>3 DEF ListIntact, CellAt
<1>5. CellAt(n + 1)' = o
  BY <1>1 DEF CellAt
<1>6. \A i \in 0..n - 1 : CellAt(i) # tail
  BY <1>4 DEF ListIntact, CellAt
<1>7. LoopTypeOK'
  BY <1>1
<1>8. n_work' = Len(contents') /\ tail' = CellAt(Len(contents))' /\ next'[tail'] = Null
  BY <1>1, <1>4, <1>5 DEF ListIntact
<1>9. \A i \in 1..n + 1 : next'[CellAt(i - 1)'] = contents'[i]
  <2> SUFFICES ASSUME NEW i \in 1..n + 1 PROVE next'[CellAt(i - 1)'] = contents'[i]
    OBVIOUS
  <2>1. CellAt(i - 1)' = CellAt(i - 1) /\ CellAt(i - 1) \in Cells
    BY <1>2
  <2>2. CASE i = n + 1
    BY <2>1, <2>2, <1>1, <1>4
  <2>3. CASE i # n + 1
    <3>1. i \in 1..n /\ CellAt(i - 1) # tail /\ next[CellAt(i - 1)] = contents[i]
      BY <2>3, <1>6 DEF ListIntact
    <3> QED BY <3>1, <2>1, <1>1
  <2> QED BY <2>2, <2>3
<1>10. \A p \in Ops : place'[p] = "queued" <=> \E i \in 1..n + 1 : contents'[i] = p
  <2> SUFFICES ASSUME NEW p \in Ops
               PROVE place'[p] = "queued" <=> \E i \in 1..n + 1 : contents'[i] = p
    OBVIOUS
  <2>1. CASE p = o BY <2>1, <1>1
  <2>2. CASE p # o
    <3>1. place'[p] = place[p]
      BY <2>2
    <3>2. (\E i \in 1..n + 1 : contents'[i] = p) <=> \E i \in 1..n : contents[i] = p
      BY <2>2, <1>1
    <3> QED BY <3>1, <3>2 DEF ListIntact
  <2> QED BY <2>1, <2>2
<1>11. \A i, j \in 1..n + 1 : contents'[i] = contents'[j] => i = j
  BY <1>1, <1>3 DEF ListIntact
<1>12. \A p \in Ops : place'[p] = "new" => next'[p] = Null
  <2> SUFFICES ASSUME NEW p \in Ops, place'[p] = "new" PROVE next'[p] = Null
    OBVIOUS
  <2>1. p # o /\ place[p] = "new"
    OBVIOUS
  <2>2. p # tail
    BY <2>1, <1>4, <1>3, LoopAssumption DEF ListIntact, CellAt
  <2> QED BY <2>1, <2>2
<1>13. ListIntact'
  BY <1>1, <1>8, <1>9, <1>10, <1>11 DEF ListIntact
<1> QED BY <1>7, <1>12, <1>13

LEMMA PopFrontIntact ==
  ASSUME LoopInv, NEW o \in Ops, PopFront(o)
  PROVE  LoopInv' /\ place[o] = "queued" /\ o = contents[1]
<1> USE LoopAssumption DEF LoopInv, LoopTypeOK, PopFront, Cells
<1>0. PICK n \in Nat : n = Len(contents)
  OBVIOUS
<1> USE <1>0
<1>1. n > 0 /\ n_work = n
  BY DEF Ready, NoMore, ListIntact
<1>2. o = contents[1] /\ place[o] = "queued"
  BY <1>1 DEF ListIntact, CellAt
<1>3. /\ Len(contents') = n - 1 /\ contents' \in Seq(Ops)
      /\ \A i \in 1..n - 1 : contents'[i] = contents[i + 1]
  BY <1>1
<1>link. \A i \in 1..n - 1 : next[contents[i]] = contents[i + 1]
  <2> SUFFICES ASSUME NEW i \in 1..n - 1 PROVE next[contents[i]] = contents[i + 1]
    OBVIOUS
  <2>1. next[CellAt((i + 1) - 1)] = contents[i + 1]
    BY DEF ListIntact
  <2>2. CellAt((i + 1) - 1) = contents[i]
    BY DEF CellAt
  <2> QED BY <2>1, <2>2
<1>4. next[o] = IF n = 1 THEN Null ELSE contents[2]
  BY <1>1, <1>2, <1>link DEF ListIntact, CellAt
<1>5. CellAt(n - 1)' = IF n = 1 THEN Loop ELSE CellAt(n)
  BY <1>1, <1>3 DEF CellAt
<1>6. tail' = CellAt(Len(contents))' /\ next'[tail'] = Null
  <2>1. CASE n = 1
    BY <2>1, <1>1, <1>3, <1>4, <1>5
  <2>2. CASE n # 1
    <3>1. next[o] # Null /\ tail' = tail /\ tail = contents[n] /\ next[tail] = Null
      BY <2>2, <1>1, <1>4 DEF ListIntact, CellAt
    <3> QED BY <2>2, <3>1, <1>1, <1>3, <1>5 DEF CellAt
  <2> QED BY <2>1, <2>2
<1>7. LoopTypeOK'
  BY <1>1, <1>3
<1>8. \A i \in 1..n - 1 : next'[CellAt(i - 1)'] = contents'[i]
  <2> SUFFICES ASSUME NEW i \in 1..n - 1 PROVE next'[CellAt(i - 1)'] = contents'[i]
    OBVIOUS
  <2>1. CASE i = 1
    BY <2>1, <1>3, <1>4 DEF CellAt
  <2>2. CASE i # 1
    <3>1. CellAt(i - 1)' = contents[i] /\ contents[i] \in Ops
      BY <2>2, <1>3 DEF CellAt
    <3> QED BY <3>1, <1>3, <1>link
  <2> QED BY <2>1, <2>2
<1>9. \A p \in Ops : place'[p] = "queued" <=> \E i \in 1..n - 1 : contents'[i] = p
  <2> SUFFICES ASSUME NEW p \in Ops
               PROVE place'[p] = "queued" <=> \E i \in 1..n - 1 : contents'[i] = p
    OBVIOUS
  <2>1. CASE p = o
    BY <2>1, <1>1, <1>2, <1>3 DEF ListIntact
  <2>2. ASSUME p # o, place'[p] = "queued" PROVE \E i \in 1..n - 1 : contents'[i] = p
    <3>1. PICK i \in 1..n : contents[i] = p
      BY <2>2 DEF ListIntact
    <3>2. i # 1 /\ i - 1 \in 1..n - 1 /\ contents'[i - 1] = p
      BY <2>2, <3>1, <1>2, <1>3
    <3> QED BY <3>2
  <2>3. ASSUME p # o, NEW i \in 1..n - 1, contents'[i] = p PROVE place'[p] = "queued"
    BY <2>3, <1>3 DEF ListIntact
  <2> QED BY <2>1, <2>2, <2>3
<1>10. \A i, j \in 1..n - 1 : contents'[i] = contents'[j] => i = j
  BY <1>3 DEF ListIntact
<1>11. n_work' = Len(contents')
  BY <1>1, <1>3
<1>12. ListIntact'
  BY <1>3, <1>6, <1>8, <1>9, <1>10, <1>11 DEF ListIntact
<1>13. \A p \in Ops : place'[p] = "new" => next'[p] = Null
  OBVIOUS
<1> QED BY <1>2, <1>7, <1>12, <1>13

LEMMA SteadyIntact ==
  ASSUME LoopInv, state' \in {"none", "running", "finishing", "destroyed", "terminated"},
         UNCHANGED <<n_work, next, tail, place, contents>>
  PROVE  LoopInv'
  BY DEF LoopInv, LoopTypeOK, ListIntact, CellAt
-------------------------------------------------------------------------------
(* The call and the sender.                                                 *)

Over == {"finishing", "destroyed"}

(* Where the waiter is, and what becomes of the loop there.                 *)
Phases ==
  /\ pc = "begin" => state = "none"
  /\ pc = "connect" => state = "running"
  /\ pc \in {"start", "run", "asleep", "execute"} => state \in {"running", "finishing"}
  /\ pc = "leave" => state = "finishing"
  /\ pc = "returned" => state = "destroyed"
  /\ pc = "threw" => state = "terminated"
  /\ pc \in {"begin", "connect", "threw"} =>
       sent = "none" /\ working = {} /\ \A a \in Actors : call[a] = "none"

(* Operations run one at a time, and the sender's are none once it has       *)
(* completed.                                                               *)
Executing ==
  /\ \A o \in Ops : place[o] = "running" => pc = "execute"
  /\ \A o, p \in Ops : place[o] = "running" /\ place[p] = "running" => o = p
  /\ sent # "none" => working = {} /\ \A o \in Ops \ Detached : place[o] # "queued"

StoredRight ==
  /\ sent = "value" => stored = "value"
  /\ sent = "stopped" => stored = "nothing"
  /\ sent \in {"bad_value", "error"} => stored = "exception"

(* One thread completes the receiver: it stores, then finishes the loop.     *)
Completing ==
  /\ \A a, b \in Actors :
       call[a] \notin {"none", "notify_one"} /\ call[b] \notin {"none", "notify_one"} => a = b
  /\ \A a \in Actors :
       /\ call[a] \notin {"none", "notify_one"} => sent # "none"
       /\ call[a] = "store" => stored = "nothing" /\ sent # "stopped" /\ state \notin Over
       /\ call[a] = "finish" => StoredRight /\ state \notin Over
       /\ call[a] \in {"notify_all", "finish_again", "notify_again"} => state \in Over
       /\ call[a] \in {"finish_again", "notify_again"} => sent = "bad_value"
  /\ state \in Over => sent # "none" /\ StoredRight
  /\ sent = "none" => stored = "nothing"

WaitInv ==
  LoopInv /\ TypeOK /\ Phases /\ Executing /\ Completing /\ ReturnsDrained /\ ResultIsRight

LEMMA InitWaits == Init => WaitInv
<1> SUFFICES ASSUME Init PROVE WaitInv
  OBVIOUS
<1>1. LoopInv
  BY LoopInitIntact DEF Init
<1>2. TypeOK
  BY <1>1 DEF Init, TypeOK, LoopInv, Labels, Calls
<1> QED
  BY <1>1, <1>2 DEF Init, LoopInit, WaitInv, Phases, Executing, Completing, StoredRight, Over,
       ReturnsDrained, ResultIsRight

(* Nothing is left in the list when run() has found it empty.               *)
LEMMA EmptyIsDrained ==
  ASSUME LoopInv, n_work = 0 PROVE \A o \in Ops : place[o] # "queued"
  BY DEF LoopInv, ListIntact

(* The waiter's own steps.                                                  *)
LEMMA WaiterWaits ==
  ASSUME WaitInv,
         \/ Begin \/ Connect \/ ConnectThrows \/ Started \/ Sleep \/ SpuriousWakeup
         \/ Leave \/ Return
  PROVE  WaitInv'
<1> USE SyncWaitAssumption
        DEF WaitInv, Phases, Executing, Completing, StoredRight, Over, ReturnsDrained,
            ResultIsRight, Waits, Actors
<1>1. CASE Begin
  <2>1. LoopInv' BY <1>1, SteadyIntact DEF Begin, Construct
  <2>2. TypeOK' BY <1>1, <2>1 DEF Begin, TypeOK, LoopInv, Labels
  <2> QED BY <1>1, <2>1, <2>2 DEF Begin, Construct
<1>2. CASE Connect
  <2>1. LoopInv' BY <1>2, SteadyIntact DEF Connect, loopVars, LoopInv, LoopTypeOK
  <2>2. TypeOK' BY <1>2, <2>1 DEF Connect, TypeOK, LoopInv, Labels
  <2> QED BY <1>2, <2>1, <2>2 DEF Connect, loopVars
<1>3. CASE ConnectThrows
  <2>1. LoopInv' BY <1>3, SteadyIntact DEF ConnectThrows, Destruct
  <2>2. TypeOK' BY <1>3, <2>1 DEF ConnectThrows, TypeOK, LoopInv, Labels
  <2> QED BY <1>3, <2>1, <2>2 DEF ConnectThrows, Destruct
<1>4. CASE Started \/ Sleep \/ SpuriousWakeup
  <2>1. LoopInv' BY <1>4, SteadyIntact DEF Started, Sleep, SpuriousWakeup, loopVars, LoopInv, LoopTypeOK
  <2>2. TypeOK' BY <1>4, <2>1 DEF Started, Sleep, SpuriousWakeup, TypeOK, LoopInv, Labels
  <2> QED BY <1>4, <2>1, <2>2 DEF Started, Sleep, SpuriousWakeup, loopVars
<1>5. CASE Leave
  <2>1. LoopInv' BY <1>5, SteadyIntact DEF Leave, loopVars, LoopInv, LoopTypeOK
  <2>2. TypeOK' BY <1>5, <2>1 DEF Leave, TypeOK, LoopInv, Labels
  <2>3. state = "finishing" /\ \A o \in Ops : place[o] \in {"new", "done"}
    BY <1>5, EmptyIsDrained DEF Leave, Ready, NoMore, LoopInv, LoopTypeOK
  <2> QED BY <1>5, <2>1, <2>2, <2>3 DEF Leave, loopVars
<1>6. CASE Return
  <2>1. n_work = 0
    BY <1>6 DEF Return, LoopInv, LoopTypeOK, ListIntact
  <2>2. state = "finishing" /\ state' = "destroyed"
    BY <1>6, <2>1 DEF Return, Destruct
  <2>3. LoopInv' BY <1>6, <2>2, SteadyIntact DEF Return, Destruct
  <2>4. TypeOK' BY <1>6, <2>3 DEF Return, TypeOK, LoopInv, Labels
  <2>5. ResultIsRight'
    BY <1>6, <2>2 DEF Return, TypeOK, Completions
  <2> QED BY <1>6, <2>2, <2>3, <2>4, <2>5 DEF Return, Destruct
<1> QED BY <1>1, <1>2, <1>3, <1>4, <1>5, <1>6

(* An operation of the list is executed, and is done.                       *)
LEMMA PopWaits ==
  ASSUME WaitInv, NEW o \in Ops, Pop(o)
  PROVE  WaitInv'
<1> USE SyncWaitAssumption DEF WaitInv, Waits, Actors
<1>1. LoopInv' /\ place[o] = "queued"
  BY PopFrontIntact DEF Pop
<1>2. TypeOK'
  BY <1>1 DEF Pop, PopFront, TypeOK, LoopInv, Labels
<1>3. /\ pc = "run" /\ pc' = "execute" /\ place' = [place EXCEPT ![o] = "running"]
      /\ UNCHANGED <<state, call, sent, stored, result>>
  BY DEF Pop, PopFront
<1>4. Phases' /\ Completing' /\ ReturnsDrained' /\ ResultIsRight'
  BY <1>3 DEF Phases, Completing, StoredRight, Over, ReturnsDrained, ResultIsRight
<1>5. Executing'
  <2>1. sent # "none" => working' = {}
    BY <1>1 DEF Executing, Pop
  <2>2. place \in [Ops -> {"new", "queued", "running", "done"}]
    BY DEF LoopInv, LoopTypeOK
  <2>3. \A p \in Ops : place[p] # "running"
    BY <1>3 DEF Executing
  <2> QED BY <1>3, <2>1, <2>2, <2>3 DEF Executing
<1> QED BY <1>1, <1>2, <1>4, <1>5

LEMMA ExecutedWaits ==
  ASSUME WaitInv, NEW o \in Ops, Executed(o)
  PROVE  WaitInv'
<1> USE SyncWaitAssumption DEF WaitInv, Waits, Actors
<1>1. /\ pc = "execute" /\ pc' = "run" /\ place[o] = "running"
      /\ place' = [place EXCEPT ![o] = "done"]
      /\ UNCHANGED <<state, n_work, next, tail, contents, call, working, sent, stored, result>>
  BY DEF Executed
<1>2. place \in [Ops -> {"new", "queued", "running", "done"}]
  BY DEF LoopInv, LoopTypeOK
<1>3. \A p \in Ops : p # o => place'[p] = place[p] /\ place[p] # "running"
  BY <1>1, <1>2 DEF Executing
<1>4. LoopTypeOK'
  BY <1>1, <1>2 DEF LoopInv, LoopTypeOK
<1>5. ListIntact'
  BY <1>1, <1>2 DEF LoopInv, ListIntact, CellAt
<1>6. LoopInv'
  BY <1>1, <1>2, <1>4, <1>5 DEF LoopInv
<1>7. TypeOK'
  BY <1>1, <1>4 DEF TypeOK, Labels
<1>8. Phases' /\ Completing' /\ ReturnsDrained' /\ ResultIsRight'
  BY <1>1 DEF Phases, Completing, StoredRight, Over, ReturnsDrained, ResultIsRight
<1>9. Executing'
  BY <1>1, <1>2, <1>3 DEF Executing
<1> QED BY <1>6, <1>7, <1>8, <1>9

(* Operations are scheduled while the call cannot be over.                  *)
LEMMA ScheduleWaits ==
  ASSUME WaitInv, NEW a \in Actors, NEW o \in Ops, Schedule(a, o) \/ ScheduleDetached(a, o)
  PROVE  WaitInv'
<1> USE SyncWaitAssumption DEF WaitInv, Actors
<1>1. /\ PushBack(o) /\ call[a] = "none" /\ call' = [call EXCEPT ![a] = "notify_one"]
      /\ working' \subseteq working
      /\ UNCHANGED <<pc, sent, stored, result>>
  BY DEF Schedule, ScheduleDetached, Calls_, KeepsOrLeaves
<1>2. \/ sent = "none" /\ a \in working
      \/ o \in Detached /\ pc = "execute"
  BY DEF Schedule, ScheduleDetached, Free
<1>3. /\ place[o] = "new" /\ place' = [place EXCEPT ![o] = "queued"] /\ state' = state
  BY <1>1 DEF PushBack
<1>4. LoopInv'
  BY <1>1, PushBackIntact
<1>5. /\ place \in [Ops -> {"new", "queued", "running", "done"}]
      /\ call \in [Actors -> Calls] /\ call' \in [Actors -> Calls]
  BY <1>1 DEF TypeOK, LoopTypeOK, Calls
<1>6. TypeOK'
  BY <1>1, <1>4, <1>5 DEF TypeOK, LoopInv
<1>7. pc \notin {"begin", "connect", "threw", "leave", "returned"}
  BY <1>2 DEF Phases, Completing, Over, ReturnsDrained
<1>8. Phases' /\ ReturnsDrained' /\ ResultIsRight'
  BY <1>1, <1>3, <1>7 DEF Phases, ReturnsDrained, ResultIsRight
<1>9. Completing'
  BY <1>1, <1>3, <1>5 DEF Completing, StoredRight, Over
<1>10. Executing'
  BY <1>1, <1>2, <1>3, <1>5 DEF Executing
<1> QED BY <1>4, <1>6, <1>8, <1>9, <1>10

(* The work goes from thread to thread, and ends.                           *)
LEMMA SenderWaits ==
  ASSUME WaitInv, NEW a \in Actors,
         \/ \E h \in Helpers : PassOn(a, h)
         \/ LeaveToOthers(a)
         \/ \E how \in Completions : Complete(a, how)
  PROVE  WaitInv'
<1> USE SyncWaitAssumption DEF WaitInv, Actors
<1>1. UNCHANGED <<loopVars, pc, stored, result>> /\ sent = "none" /\ a \in working
  BY DEF PassOn, LeaveToOthers, Complete, Free
<1>2. LoopInv'
  BY <1>1, SteadyIntact DEF loopVars, LoopInv, LoopTypeOK
<1>3. pc \notin {"begin", "connect", "threw", "leave", "returned"} /\ state \notin Over
  BY <1>1 DEF Phases, Completing, Over, ReturnsDrained
<1>4. \A b \in Actors : call[b] \in {"none", "notify_one"}
  BY <1>1 DEF Completing, TypeOK
<1>5. CASE (\E h \in Helpers : PassOn(a, h)) \/ LeaveToOthers(a)
  <2>1. UNCHANGED <<call, sent>> /\ working' \subseteq Actors
    BY <1>5 DEF PassOn, LeaveToOthers, TypeOK
  <2>2. TypeOK'
    BY <1>1, <1>2, <2>1 DEF TypeOK, LoopInv
  <2> QED
    BY <1>1, <1>2, <1>3, <2>1, <2>2 DEF loopVars, Phases, Executing, Completing, StoredRight,
       Over, ReturnsDrained, ResultIsRight
<1>6. ASSUME NEW how \in Completions, Complete(a, how) PROVE WaitInv'
  <2>1. /\ sent' = how /\ working' = {}
        /\ call[a] = "none"
        /\ call' = [call EXCEPT ![a] = IF how = "stopped" THEN "finish" ELSE "store"]
        /\ \A o \in Ops \ Detached : place[o] # "queued"
    BY <1>6 DEF Complete, Calls_, Free, Carried
  <2>2. TypeOK'
    BY <1>1, <1>2, <2>1 DEF TypeOK, LoopInv, Calls
  <2>3. Completing'
    <3>1. stored' = "nothing" /\ sent' # "none"
      BY <1>1, <2>1 DEF Completing, Completions
    <3>2. call \in [Actors -> Calls]
      BY DEF TypeOK
    <3>3. \A b \in Actors : b # a => call'[b] \in {"none", "notify_one"}
      BY <1>4, <2>1, <3>2
    <3>4. call'[a] = IF how = "stopped" THEN "finish" ELSE "store"
      BY <2>1, <3>2
    <3> QED BY <1>1, <1>3, <2>1, <3>1, <3>3, <3>4 DEF loopVars, Completing, StoredRight, Over
  <2>4. Executing'
    BY <1>1, <2>1 DEF loopVars, Executing
  <2>5. Phases' /\ ReturnsDrained' /\ ResultIsRight'
    BY <1>1, <1>3, <2>1 DEF loopVars, Phases, ReturnsDrained, ResultIsRight
  <2> QED BY <1>2, <2>2, <2>3, <2>4, <2>5
<1> QED BY <1>5, <1>6

(* The functions that a completion calls.                                   *)
LEMMA CallsWait ==
  ASSUME WaitInv, NEW a \in Actors, Store(a) \/ Finish(a) \/ Notify(a)
  PROVE  WaitInv'
<1> USE SyncWaitAssumption DEF WaitInv, Actors, Calls_
<1>1. call \in [Actors -> Calls]
  BY DEF TypeOK
<1>2. CASE Store(a)
  <2>1. /\ UNCHANGED <<loopVars, pc, working, sent, result>>
        /\ call[a] = "store" /\ call' = [call EXCEPT ![a] = "finish"]
        /\ stored' = IF sent = "value" THEN "value" ELSE "exception"
    BY <1>2 DEF Store
  <2>2. sent \in {"value", "bad_value", "error"} /\ state \notin Over
    BY <2>1 DEF Completing, TypeOK, Completions
  <2>3. LoopInv'
    BY <2>1, SteadyIntact DEF loopVars, LoopInv, LoopTypeOK
  <2>4. TypeOK'
    BY <2>1, <2>3 DEF TypeOK, LoopInv, Calls
  <2>5. StoredRight'
    BY <2>1, <2>2 DEF StoredRight
  <2>6. \A b \in Actors : b # a => call'[b] = call[b] /\ call[b] \in {"none", "notify_one"}
    BY <1>1, <2>1 DEF Completing
  <2>7. Completing'
    BY <1>1, <2>1, <2>2, <2>5, <2>6 DEF loopVars, Completing, Over
  <2> QED
    BY <2>1, <2>2, <2>3, <2>4, <2>7 DEF loopVars, Phases, Executing, ReturnsDrained,
       ResultIsRight, Over
<1>3. CASE Finish(a)
  <2>1. /\ UNCHANGED <<pc, working, sent, stored, result>> /\ SetFinishing
        /\ \/ call[a] = "finish" /\ call' = [call EXCEPT ![a] = "notify_all"]
           \/ call[a] = "finish_again" /\ call' = [call EXCEPT ![a] = "notify_again"]
    BY <1>3 DEF Finish
  <2>2. sent # "none" /\ StoredRight /\ (call[a] = "finish_again" => sent = "bad_value")
    BY <2>1 DEF Completing
  <2>3. /\ state \in {"running", "finishing", "destroyed"}
        /\ state' = IF state = "destroyed" THEN state ELSE "finishing"
    BY <2>1, <2>2 DEF Phases, SetFinishing, TypeOK, Labels
  <2>4. LoopInv'
    BY <2>1, <2>3, SteadyIntact DEF SetFinishing
  <2>5. TypeOK'
    BY <2>1, <2>4 DEF TypeOK, LoopInv, Calls
  <2>6. \A b \in Actors : b # a => call'[b] = call[b] /\ call[b] \in {"none", "notify_one"}
    BY <1>1, <2>1 DEF Completing
  <2>7. call'[a] \in {"notify_all", "notify_again"} /\ (call'[a] = "notify_again" => sent = "bad_value")
    BY <1>1, <2>1, <2>2
  <2>8. Completing'
    BY <2>1, <2>2, <2>3, <2>6, <2>7 DEF Completing, StoredRight, Over
  <2>9. UNCHANGED place
    BY <2>1 DEF SetFinishing
  <2> QED
    BY <2>1, <2>2, <2>3, <2>4, <2>5, <2>8, <2>9 DEF Phases, Executing, ReturnsDrained, ResultIsRight
<1>4. CASE Notify(a)
  <2>1. /\ UNCHANGED <<loopVars, working, sent, stored, result>>
        /\ pc' = IF pc = "asleep" THEN "run" ELSE pc
    BY <1>4 DEF Notify
  <2>2. /\ call' = [call EXCEPT ![a] = call'[a]]
        /\ \/ call[a] \in {"notify_one", "notify_all", "notify_again"} /\ call'[a] = "none"
           \/ call[a] = "notify_all" /\ call'[a] = "finish_again" /\ sent = "bad_value"
    BY <1>1, <1>4 DEF Notify, AfterFinish
  <2>3. LoopInv'
    BY <2>1, SteadyIntact DEF loopVars, LoopInv, LoopTypeOK
  <2>4. TypeOK'
    BY <2>1, <2>2, <2>3 DEF TypeOK, LoopInv, Calls, Labels
  <2>5. \A b \in Actors : b # a => call'[b] = call[b]
    BY <1>1, <2>2
  <2>6. Completing'
    BY <2>1, <2>2, <2>5 DEF loopVars, Completing, StoredRight, Over
  <2>7. Phases'
    BY <2>1, <2>2, <2>5 DEF loopVars, Phases
  <2> QED
    BY <2>1, <2>3, <2>4, <2>6, <2>7 DEF loopVars, Executing, ReturnsDrained, ResultIsRight
<1> QED BY <1>2, <1>3, <1>4

LEMMA StepWaits == WaitInv /\ [Next]_vars => WaitInv'
<1> SUFFICES ASSUME WaitInv, [Next]_vars PROVE WaitInv'
  OBVIOUS
<1>1. CASE UNCHANGED vars
  BY <1>1 DEF vars, loopVars, WaitInv, LoopInv, LoopTypeOK, ListIntact, CellAt, TypeOK, Phases,
     Executing, Completing, StoredRight, Over, ReturnsDrained, ResultIsRight
<1>2. CASE Next
  BY <1>2, WaiterWaits, PopWaits, ExecutedWaits, ScheduleWaits, SenderWaits, CallsWait DEF Next
<1> QED BY <1>1, <1>2

LEMMA AlwaysWaits == Spec => []WaitInv
  BY InitWaits, StepWaits, PTL DEF Spec
-------------------------------------------------------------------------------
(* What a caller of sync_wait, and the sender, can rely on.                 *)

(* Every variable of the loop and of the call keeps its type.               *)
THEOREM WaitTypeCorrect == Spec => []TypeOK
<1>1. WaitInv => TypeOK
  BY DEF WaitInv
<1> QED BY <1>1, AlwaysWaits, PTL

(* The loop's list is intact between any two of its functions: n_work_       *)
(* operations, each linked once, and tail_ is the null pointer at its end.   *)
THEOREM ListStaysIntact == Spec => []ListIntact
<1>1. WaitInv => ListIntact
  BY DEF WaitInv, LoopInv
<1> QED BY <1>1, AlwaysWaits, PTL

(* run() returns when every operation has been executed and the sender has   *)
(* completed, and ~run_loop() terminates only after connect() has thrown.    *)
THEOREM RunReturnsDrained == Spec => []ReturnsDrained
<1>1. WaitInv => ReturnsDrained
  BY DEF WaitInv
<1> QED BY <1>1, AlwaysWaits, PTL

(* sync_wait returns what the sender completed with, on whatever thread.     *)
THEOREM ResultIsAlwaysRight == Spec => []ResultIsRight
<1>1. WaitInv => ResultIsRight
  BY DEF WaitInv
<1> QED BY <1>1, AlwaysWaits, PTL

(* Nothing but notifications can come when the loop is gone, unless a value  *)
(* whose constructor throws has finished it twice.                           *)
THEOREM OnlyLateNotifications == Spec => []LateCallers
<1>1. WaitInv => LateCallers
  <2> SUFFICES ASSUME WaitInv, state = "destroyed", NEW a \in Actors
               PROVE  \/ call[a] \in {"none", "notify_one", "notify_all"}
                      \/ sent = "bad_value" /\ call[a] \in {"finish_again", "notify_again"}
    BY DEF LateCallers
  <2>1. call[a] \in Calls
    BY DEF WaitInv, TypeOK
  <2>2. call[a] \notin {"store", "finish"}
    BY DEF WaitInv, Completing, Over
  <2>3. call[a] \in {"finish_again", "notify_again"} => sent = "bad_value"
    BY DEF WaitInv, Completing
  <2> QED BY <2>1, <2>2, <2>3 DEF Calls
<1> QED BY <1>1, AlwaysWaits, PTL

(* run() executes the operations in the order in which they were started.    *)
THEOREM RunsInOrder == Spec => LoopIsFifo
<1>1. WaitInv /\ [Next]_vars =>
        [\A o \in Ops : place[o] = "queued" /\ place'[o] # "queued" =>
           place'[o] = "running" /\ o = contents[1]]_loopVars
  <2> SUFFICES ASSUME WaitInv, [Next]_vars, NEW o \in Ops,
                      place[o] = "queued", place'[o] # "queued"
               PROVE  place'[o] = "running" /\ o = contents[1]
    OBVIOUS
  <2>1. place \in [Ops -> {"new", "queued", "running", "done"}]
    BY DEF WaitInv, LoopInv, LoopTypeOK
  <2>2. PICK p \in Ops : Pop(p) \/ Executed(p) \/ (\E a \in Actors : PushBack(p))
    BY DEF Next, vars, loopVars, Begin, Connect, ConnectThrows, Started, Sleep, SpuriousWakeup,
       Leave, Return, Construct, Destruct, Schedule, ScheduleDetached, PassOn, LeaveToOthers,
       Complete, Store, Finish, SetFinishing, Notify
  <2>3. CASE Pop(p)
    <3>1. p = contents[1] /\ place' = [place EXCEPT ![p] = "running"]
      BY <2>3, PopFrontIntact DEF Pop, PopFront, WaitInv
    <3> QED BY <2>1, <3>1
  <2>4. CASE Executed(p) \/ PushBack(p)
    BY <2>1, <2>4 DEF Executed, PushBack
  <2> QED BY <2>2, <2>3, <2>4
<1> QED BY <1>1, AlwaysWaits, PTL DEF Spec, LoopIsFifo
-------------------------------------------------------------------------------
(* While the waiter sleeps nothing has happened yet that it waits for, or    *)
(* somebody is about to notify it; and a sender that has completed, with the *)
(* loop not finished, has a thread on its way to finish it.                  *)
Notifying == {"notify_one", "notify_all", "notify_again"}

WakeupPending ==
  /\ pc = "asleep" /\ Ready => \E a \in Actors : call[a] \in Notifying
  /\ sent # "none" /\ state = "running" => \E a \in Actors : call[a] \in {"store", "finish"}

(* Who is in a call stays in it while the calls are as they were.           *)
LEMMA PendingFrame ==
  ASSUME WakeupPending, UNCHANGED <<call, sent>>,
         pc' = "asleep" /\ Ready' => pc = "asleep" /\ Ready,
         state' = "running" /\ sent # "none" => state = "running"
  PROVE  WakeupPending'
<1>1. pc' = "asleep" /\ Ready' => \E a \in Actors : call'[a] \in Notifying
  BY DEF WakeupPending
<1>2. sent' # "none" /\ state' = "running" => \E a \in Actors : call'[a] \in {"store", "finish"}
  BY DEF WakeupPending
<1> QED BY <1>1, <1>2 DEF WakeupPending

LEMMA WaiterPending ==
  ASSUME WaitInv, WakeupPending,
         \/ Begin \/ Connect \/ ConnectThrows \/ Started \/ Sleep \/ SpuriousWakeup
         \/ Leave \/ Return
         \/ \E o \in Ops : Pop(o) \/ Executed(o)
  PROVE  WakeupPending'
<1> USE DEF Waits
<1>1. CASE Begin \/ Connect \/ ConnectThrows
  <2>1. sent = "none" /\ sent' = "none" /\ pc' # "asleep"
    BY <1>1 DEF Begin, Connect, ConnectThrows, WaitInv, Phases
  <2> QED BY <2>1 DEF WakeupPending
<1>2. CASE Started \/ SpuriousWakeup \/ Leave
  <2>1. UNCHANGED <<loopVars, call, sent>> /\ pc' # "asleep"
    BY <1>2 DEF Started, SpuriousWakeup, Leave
  <2> QED BY <2>1, PendingFrame DEF loopVars
<1>3. CASE Sleep
  <2>1. UNCHANGED <<loopVars, call, sent>> /\ ~Ready
    BY <1>3 DEF Sleep
  <2>2. ~Ready'
    BY <2>1 DEF Ready, loopVars
  <2> QED BY <2>1, <2>2, PendingFrame DEF loopVars
<1>4. CASE Return
  <2>1. UNCHANGED <<call, sent>> /\ pc' # "asleep" /\ state' # "running"
    BY <1>4 DEF Return, Destruct
  <2> QED BY <2>1, PendingFrame
<1>5. ASSUME NEW o \in Ops, Pop(o) \/ Executed(o) PROVE WakeupPending'
  <2>1. UNCHANGED <<call, sent, state>> /\ pc' # "asleep"
    BY <1>5 DEF Pop, PopFront, Executed
  <2> QED BY <2>1, PendingFrame
<1> QED BY <1>1, <1>2, <1>3, <1>4, <1>5

LEMMA SenderPending ==
  ASSUME WaitInv, WakeupPending, NEW a \in Actors,
         \/ \E o \in Ops : Schedule(a, o) \/ ScheduleDetached(a, o)
         \/ \E h \in Helpers : PassOn(a, h)
         \/ \E how \in Completions : Complete(a, how)
         \/ LeaveToOthers(a)
  PROVE  WakeupPending'
<1> USE DEF Calls_
<1>0. call \in [Actors -> Calls]
  BY DEF WaitInv, TypeOK
<1>1. ASSUME NEW o \in Ops, Schedule(a, o) \/ ScheduleDetached(a, o) PROVE WakeupPending'
  <2>1. /\ call[a] = "none" /\ call' = [call EXCEPT ![a] = "notify_one"]
        /\ UNCHANGED <<state, sent>>
    BY <1>1 DEF Schedule, ScheduleDetached, PushBack
  <2>2. call'[a] \in Notifying /\ \A b \in Actors : b # a => call'[b] = call[b]
    BY <1>0, <2>1 DEF Notifying
  <2>3. sent' # "none" /\ state' = "running" => \E b \in Actors : call'[b] \in {"store", "finish"}
    BY <2>1, <2>2 DEF WakeupPending
  <2> QED BY <2>2, <2>3 DEF WakeupPending
<1>2. CASE (\E h \in Helpers : PassOn(a, h)) \/ LeaveToOthers(a)
  <2>1. UNCHANGED <<loopVars, pc, call, sent>>
    BY <1>2 DEF PassOn, LeaveToOthers
  <2>2. Ready' <=> Ready
    BY <2>1 DEF Ready, loopVars
  <2> QED BY <2>1, <2>2, PendingFrame DEF loopVars
<1>3. ASSUME NEW how \in Completions, Complete(a, how) PROVE WakeupPending'
  <2>1. /\ UNCHANGED <<loopVars, pc>> /\ call[a] = "none"
        /\ call' = [call EXCEPT ![a] = IF how = "stopped" THEN "finish" ELSE "store"]
    BY <1>3 DEF Complete
  <2>2. call'[a] \in {"store", "finish"} /\ \A b \in Actors : b # a => call'[b] = call[b]
    BY <1>0, <2>1
  <2>3. Ready' <=> Ready
    BY <2>1 DEF Ready, loopVars
  <2>4. pc' = "asleep" /\ Ready' => \E b \in Actors : call'[b] \in Notifying
    BY <2>1, <2>2, <2>3 DEF WakeupPending, Notifying
  <2> QED BY <2>2, <2>4 DEF WakeupPending
<1> QED BY <1>1, <1>2, <1>3

LEMMA CallsPending ==
  ASSUME WaitInv, WakeupPending, NEW a \in Actors, Store(a) \/ Finish(a) \/ Notify(a)
  PROVE  WakeupPending'
<1> USE DEF Calls_
<1>0. call \in [Actors -> Calls]
  BY DEF WaitInv, TypeOK
<1>1. CASE Store(a)
  <2>1. UNCHANGED <<loopVars, pc, sent>> /\ call[a] = "store" /\ call' = [call EXCEPT ![a] = "finish"]
    BY <1>1 DEF Store
  <2>2. call'[a] = "finish" /\ \A b \in Actors : b # a => call'[b] = call[b]
    BY <1>0, <2>1
  <2>3. Ready' <=> Ready
    BY <2>1 DEF Ready, loopVars
  <2>4. pc' = "asleep" /\ Ready' => \E b \in Actors : call'[b] \in Notifying
    BY <2>1, <2>2, <2>3 DEF WakeupPending, Notifying
  <2> QED BY <2>2, <2>4 DEF WakeupPending
<1>2. CASE Finish(a)
  <2>1. state' # "running" /\ call'[a] \in Notifying
    BY <1>0, <1>2 DEF Finish, SetFinishing, Notifying
  <2> QED BY <2>1 DEF WakeupPending
<1>3. CASE Notify(a)
  <2>1. pc' # "asleep" /\ UNCHANGED <<loopVars, sent>>
    BY <1>3 DEF Notify
  <2>2. call[a] \in Notifying /\ \A b \in Actors : b # a => call'[b] = call[b]
    BY <1>0, <1>3 DEF Notify, Notifying
  <2>3. sent' # "none" /\ state' = "running" => \E b \in Actors : call'[b] \in {"store", "finish"}
    BY <2>1, <2>2 DEF loopVars, WakeupPending, Notifying
  <2> QED BY <2>1, <2>3 DEF WakeupPending
<1> QED BY <1>1, <1>2, <1>3

LEMMA StepPending == WaitInv /\ WakeupPending /\ [Next]_vars => WakeupPending'
<1> SUFFICES ASSUME WaitInv, WakeupPending, [Next]_vars PROVE WakeupPending'
  OBVIOUS
<1>1. CASE UNCHANGED vars
  BY <1>1 DEF vars, loopVars, WakeupPending, Ready
<1>2. CASE Next
  BY <1>2, WaiterPending, SenderPending, CallsPending DEF Next
<1> QED BY <1>1, <1>2

(* For every sender and any number of threads no wakeup is lost: the waiter   *)
(* never sleeps on an operation in the list, or on a loop that is finished,   *)
(* without a thread that still has to notify it, and a sender that has        *)
(* completed has a thread inside the completion until the loop is finished.   *)
(* It is the safe half of CompletionReturns.                                  *)
THEOREM WakeupIsPending == Spec => []WakeupPending
<1>1. Init => WakeupPending
  BY DEF Init, LoopInit, WakeupPending
<1> QED BY <1>1, StepPending, AlwaysWaits, PTL DEF Spec
===============================================================================
