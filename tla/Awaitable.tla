------------------------------- MODULE Awaitable -------------------------------
(***************************************************************************)
(* iol::awaitable (awaitable.hpp): coroutines that await one another, on   *)
(* threads that resume them.                                               *)
(*                                                                         *)
(* A thread's stack holds the coroutines whose code it is in, the last one *)
(* running.  An entry <<c, "body">> is in c's own code; "await" and        *)
(* "stored" are in await_suspend of what c awaits, "final" and "resuming"  *)
(* in that of c's final suspend point.  In the build with symmetric        *)
(* transfer a coroutine takes the place of the one that resumes it; in the *)
(* other it runs on top of it.                                             *)
(***************************************************************************)
EXTENDS Integers, FiniteSets, SequencesExt

CONSTANTS
  Threads,
  Coroutines,   \* coroutines that return an awaitable
  Root,         \* the one that awaits on behalf of a thread
  None

Frames == Coroutines \union {Root}

ASSUME AwaitableAssumption == Root \notin Coroutines /\ None \notin Frames

VARIABLES
  symmetric,      \* IOL_SYMMETRIC_TRANSFER
  life,           \* each coroutine's frame
  owner,          \* whose awaitable owns it
  continuation,   \* continuation_
  state,          \* state_
  storage,        \* storage_
  awaits,         \* the coroutine in whose co_await the coroutine is
  parked,         \* coroutines suspended elsewhere: a pool, a timer
  stack           \* each thread's coroutines

frameVars == <<symmetric, life, owner, continuation, state, storage, awaits, parked, stack>>

Runs(t, c, where) == stack[t] # <<>> /\ Last(stack[t]) = <<c, where>>

\* The thread t goes from its last entry to the entries e.
Steps(t, e) == stack' = [stack EXCEPT ![t] = Front(@) \o e]

\* The coroutine function is called: initial_suspend() suspends it at once.
Create(t, c, d) ==
  /\ Runs(t, c, "body") /\ life[d] = "none"
  /\ life' = [life EXCEPT ![d] = "initial"]
  /\ owner' = [owner EXCEPT ![d] = c]
  /\ UNCHANGED <<symmetric, continuation, state, storage, awaits, parked, stack>>

Await_Forgets(t, c, d) ==
  /\ Runs(t, c, "body") /\ owner[d] = c /\ life[d] = "initial"
  /\ life' = [life EXCEPT ![d] = "alive"]
  /\ awaits' = [awaits EXCEPT ![c] = d]
  /\ Steps(t, IF symmetric THEN << <<d, "body">> >> ELSE << <<c, "await">>, <<d, "body">> >>)
  /\ UNCHANGED <<symmetric, owner, continuation, state, storage, parked>>

\* co_await of one that is not done; of one that is, it goes on without a step.
Await(t, c, d) ==
  /\ Runs(t, c, "body") /\ owner[d] = c /\ life[d] = "initial"
  /\ life' = [life EXCEPT ![d] = "alive"]
  /\ awaits' = [awaits EXCEPT ![c] = d]
  /\ IF symmetric
     THEN /\ continuation' = [continuation EXCEPT ![d] = c]
          /\ Steps(t, << <<d, "body">> >>)
     ELSE /\ Steps(t, << <<c, "await">>, <<d, "body">> >>)
          /\ UNCHANGED continuation
  /\ UNCHANGED <<symmetric, owner, state, storage, parked>>

\* try_set_continuation, when handle_.resume() has returned: the store ...
Store(t, c) ==
  /\ Runs(t, c, "await")
  /\ continuation' = [continuation EXCEPT ![awaits[c]] = c]
  /\ Steps(t, << <<c, "stored">> >>)
  /\ UNCHANGED <<symmetric, life, owner, state, storage, awaits, parked>>

Exchange_Inverted(t, c) ==
  LET d == awaits[c] IN
  /\ Runs(t, c, "stored")
  /\ state' = [state EXCEPT ![d] = TRUE]
  /\ IF ~state[d]
     THEN awaits' = [awaits EXCEPT ![c] = None] /\ Steps(t, << <<c, "body">> >>)
     ELSE Steps(t, <<>>) /\ UNCHANGED awaits
  /\ UNCHANGED <<symmetric, life, owner, continuation, storage, parked>>

Exchange_Suspends(t, c) ==
  /\ Runs(t, c, "stored")
  /\ state' = [state EXCEPT ![awaits[c]] = TRUE]
  /\ Steps(t, <<>>)
  /\ UNCHANGED <<symmetric, life, owner, continuation, storage, awaits, parked>>

\* ... and the exchange: the first to come suspends, the second goes on.
Exchange(t, c) ==
  LET d == awaits[c] IN
  /\ Runs(t, c, "stored")
  /\ state' = [state EXCEPT ![d] = TRUE]
  /\ IF state[d]
     THEN awaits' = [awaits EXCEPT ![c] = None] /\ Steps(t, << <<c, "body">> >>)
     ELSE Steps(t, <<>>) /\ UNCHANGED awaits
  /\ UNCHANGED <<symmetric, life, owner, continuation, storage, parked>>

\* co_await of something else that suspends, and any thread that resumes it.
Park(t, c) ==
  /\ Runs(t, c, "body") /\ parked' = parked \union {c} /\ Steps(t, <<>>)
  /\ UNCHANGED <<symmetric, life, owner, continuation, state, storage, awaits>>

Unpark(t, c) ==
  /\ c \in parked /\ parked' = parked \ {c} /\ stack[t] = <<>>
  /\ stack' = [stack EXCEPT ![t] = << <<c, "body">> >>]
  /\ UNCHANGED <<symmetric, life, owner, continuation, state, storage, awaits>>

\* An awaitable's destructor, on a frame that its owner may have awaited.
Destroy(t, c, d) ==
  /\ Runs(t, c, "body") /\ owner[d] = c /\ life[d] # "gone"
  /\ life' = [life EXCEPT ![d] = "gone"]
  /\ UNCHANGED <<symmetric, owner, continuation, state, storage, awaits, parked, stack>>

\* return_value, return_void or unhandled_exception; its awaitables are gone by then.
Return(t, c, how) ==
  /\ Runs(t, c, "body")
  /\ \A d \in Coroutines : owner[d] = c => life[d] = "gone"
  /\ life' = [life EXCEPT ![c] = "final"]
  /\ storage' = [storage EXCEPT ![c] = how]
  /\ Steps(t, << <<c, "final">> >>)
  /\ UNCHANGED <<symmetric, owner, continuation, state, awaits, parked>>

\* The coroutine k goes on behind its co_await, below the entries e.
Continues(t, k, e) ==
  /\ awaits' = [awaits EXCEPT ![k] = None]
  /\ Steps(t, Append(e, <<k, "body">>))

Final_Resumes(t, c) ==
  /\ Runs(t, c, "final")
  /\ state' = IF symmetric THEN state ELSE [state EXCEPT ![c] = TRUE]
  /\ Continues(t, continuation[c], IF symmetric THEN <<>> ELSE << <<c, "resuming">> >>)
  /\ UNCHANGED <<symmetric, life, owner, continuation, storage, parked>>

\* await_suspend of the final suspend point.
Final(t, c) ==
  /\ Runs(t, c, "final")
  /\ \/ symmetric /\ Continues(t, continuation[c], <<>>) /\ UNCHANGED state
     \/ /\ ~symmetric /\ state' = [state EXCEPT ![c] = TRUE]
        /\ IF state[c]
           THEN Continues(t, continuation[c], << <<c, "resuming">> >>)
           ELSE Steps(t, <<>>) /\ UNCHANGED awaits
  /\ UNCHANGED <<symmetric, life, owner, continuation, storage, parked>>

\* continuation_.resume() returns.
Resumed(t, c) ==
  /\ Runs(t, c, "resuming") /\ Steps(t, <<>>)
  /\ UNCHANGED <<symmetric, life, owner, continuation, state, storage, awaits, parked>>

\* What a coroutine and the threads do that no user of it decides.
Proceeds(t) == \E c \in Frames : Store(t, c) \/ Exchange(t, c) \/ Final(t, c) \/ Resumed(t, c)

\* What the code of a coroutine does.
Body(t) ==
  \E c \in Coroutines :
    \/ \E d \in Coroutines : Create(t, c, d) \/ Await(t, c, d) \/ Destroy(t, c, d)
    \/ Park(t, c) \/ \E how \in {"value", "error"} : Return(t, c, how)
-------------------------------------------------------------------------------
\* What in an entry of a stack still reads or writes its coroutine's frame.
Inside == {"body", "await", "stored", "final", "notify"}

Entries(c) == {p \in UNION {{t} \X DOMAIN stack[t] : t \in Threads} :
                 stack[p[1]][p[2]] \in {c} \X Inside}

AwaitableTypeOK ==
  /\ symmetric \in BOOLEAN
  /\ life \in [Frames -> {"none", "initial", "alive", "final", "gone"}]
  /\ owner \in [Coroutines -> Frames \union {None}]
  /\ continuation \in [Coroutines -> Frames \union {None}]
  /\ state \in [Coroutines -> BOOLEAN]
  /\ storage \in [Frames -> {"empty", "value", "error"}]
  /\ awaits \in [Frames -> Coroutines \union {None}]
  /\ parked \subseteq Frames
  /\ \A t \in Threads : stack[t] \in Seq(Frames \X (Inside \union {"resuming", "setting"}))

(* A coroutine is never in two places at once: it is in one entry of one      *)
(* stack, or suspended elsewhere, or waits for what it awaits, whichever of   *)
(* the two exchanges came first.                                              *)
OneRunner ==
  \A c \in Frames :
    /\ Cardinality(Entries(c)) <= 1
    /\ c \in parked => Entries(c) = {} /\ awaits[c] = None
    /\ awaits[c] # None => \A p \in Entries(c) : stack[p[1]][p[2]][2] \in {"await", "stored"}

(* No thread is in the code of a frame that has been destroyed, nor in the    *)
(* handshake with one; none that is suspended elsewhere is destroyed.         *)
FramesAlive ==
  \A c \in Frames :
    (Entries(c) # {} \/ c \in parked \/ awaits[c] # None) =>
      /\ life[c] \in {"alive", "final"}
      /\ awaits[c] # None => life[awaits[c]] # "gone"

(* co_await goes on when what it awaits has suspended for the last time and   *)
(* its result is there: get_value() never sees an empty storage_.             *)
ResultIsThere ==
  [][\A c \in Frames : awaits[c] # None /\ awaits'[c] = None =>
       life[awaits[c]] = "final" /\ storage[awaits[c]] # "empty"]_frameVars
===============================================================================
