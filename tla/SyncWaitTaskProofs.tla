--------------------------- MODULE SyncWaitTaskProofs ---------------------------
(***************************************************************************)
(* What is proved of Awaitable and SyncWaitTask, for every set of threads  *)
(* and of coroutines, in both builds.                                      *)
(***************************************************************************)
EXTENDS SyncWaitTask, FiniteSetTheorems, SequenceTheorems, TLAPS

(* The stacks.  An entry in Marks says where its coroutine is; one that is  *)
(* "resuming" says nothing of it any more.                                  *)
Marks == Inside \union {"setting"}
Entry == Frames \X (Marks \union {"resuming"})

On(t, c, w) == \E i \in DOMAIN stack[t] : stack[t][i] = <<c, w>>
At(c, w) == \E t \in Threads : On(t, c, w)
Present(c) == \E w \in Inside : At(c, w)

(* A coroutine has one entry, and what is below another entry has resumed it.*)
Stacks ==
  /\ stack \in [Threads -> Seq(Entry)]
  /\ \A t, u \in Threads : \A i \in DOMAIN stack[t], j \in DOMAIN stack[u] :
       stack[t][i][1] = stack[u][j][1] /\ stack[t][i][2] \in Marks /\ stack[u][j][2] \in Marks
         => t = u /\ i = j
  /\ \A t \in Threads : \A i \in 1..Len(stack[t]) - 1 : stack[t][i][2] \in {"await", "resuming"}

(* What the place of a coroutine says of its frame.                         *)
LifeOf(c) ==
  /\ c \in parked => life[c] = "alive" /\ ~Present(c) /\ awaits[c] = None /\ c # Root
  /\ awaits[c] # None => life[c] = "alive"
  /\ At(c, "body") => life[c] = "alive" /\ awaits[c] = None
  /\ At(c, "await") \/ At(c, "stored") => life[c] = "alive" /\ awaits[c] # None /\ ~symmetric
  /\ At(c, "final") => life[c] = "final" /\ c # Root
  /\ At(c, "notify") => life[c] = "final" /\ c = Root
  /\ At(c, "setting") => life[c] \in {"final", "gone"} /\ c = Root
  /\ life[c] = "final" => storage[c] # "empty"

Lives == \A c \in Frames : LifeOf(c)

(* A coroutine that has begun is awaited by its owner until it has passed   *)
(* the last await_suspend.                                                  *)
Owned ==
  \A d \in Coroutines :
    /\ owner[d] # d /\ (owner[d] = None <=> life[d] = "none")
    /\ life[d] = "alive" \/ Present(d) => awaits[owner[d]] = d
    /\ life[d] \in {"none", "initial"} => ~state[d]

Passed(d) == life[d] = "final" /\ ~At(d, "final")

(* The handshake of a coroutine with the one it awaits.                     *)
Handshake ==
  \A c \in Frames, d \in Coroutines :
    awaits[c] = d =>
      /\ owner[d] = c /\ life[d] \in {"alive", "final"}
      /\ ~Present(c) => continuation[d] = c /\ ~Passed(d)
      /\ ~symmetric =>
           /\ Present(c) => (state[d] <=> Passed(d))
           /\ At(c, "stored") => continuation[d] = c
           /\ ~Present(c) => state[d]

(* The coroutines that live are a chain from Root, each awaiting the next.  *)
Chain(n, s) ==
  /\ s \in [1..n -> Frames] /\ s[1] = Root
  /\ \A i \in 1..n - 1 : awaits[s[i]] = s[i + 1]
  /\ awaits[s[n]] = None
  /\ \A c \in Frames : life[c] = "alive" => \E i \in 1..n : s[i] = c

Chained == \E n \in Nat \ {0} : \E s \in [1..n -> Frames] : Chain(n, s)

(* Root, the event and the Waiter.                                          *)
Called ==
  /\ pc = "start" <=> life[Root] = "initial"
  /\ pc = "start" => stack[Waiter] = <<>>
  /\ pc = "returned" <=> life[Root] = "gone"
  /\ life[Root] # "none"
  /\ event_state = 1 => life[Root] \in {"final", "gone"} /\ ~Present(Root)
  /\ life[Root] \in {"final", "gone"} =>
       storage[Root] = storage[Main] /\ life[Main] \in {"final", "gone"}
  /\ \A t \in Threads : at[t] = "wake" <=> On(t, Root, "setting")
  /\ \A t \in Threads : at[t] \in Waiting => t = Waiter /\ pc = "wait"
  /\ pc = "wait" => at[Waiter] \in Waiting \/ event_state = 1
  /\ pc = "returned" => event_state = 1 /\ result = storage[Main] /\ result # "empty"

-------------------------------------------------------------------------------
(* g is the first n elements of s, then those of e.                         *)
Joins(g, s, n, e) ==
  /\ g \in Seq(Entry) /\ Len(g) = n + Len(e)
  /\ \A i \in DOMAIN g :
       \/ i \in 1..n /\ i \in DOMAIN s /\ g[i] = s[i]
       \/ \E k \in DOMAIN e : i = n + k /\ g[i] = e[k]
  /\ \A i \in 1..n : i \in DOMAIN g /\ i \in DOMAIN s /\ g[i] = s[i]
  /\ \A k \in DOMAIN e : n + k \in DOMAIN g /\ g[n + k] = e[k]

(* The sequence that is left when its last element is replaced by others.   *)
LEMMA FrontConcat ==
  ASSUME NEW s \in Seq(Entry), NEW e \in Seq(Entry), NEW n \in Nat, n = Len(s), n > 0,
         NEW g, g = Front(s) \o e
  PROVE  Joins(g, s, n - 1, e)
<1>1. PICK m \in Nat : m = Len(e)
  OBVIOUS
<1>2a. Front(s) \in Seq(Entry) /\ Len(Front(s)) = n - 1 /\ \A i \in 1..n - 1 : Front(s)[i] = s[i]
  BY DEF Front
<1>2. PICK f \in Seq(Entry) : f = Front(s) /\ Len(f) = n - 1 /\ \A i \in 1..n - 1 : f[i] = s[i]
  BY <1>2a
<1>3. f \o e \in Seq(Entry) /\ Len(f \o e) = n - 1 + m
  BY <1>1, <1>2, ConcatProperties
<1>4. \A i \in 1..n - 1 + m : (f \o e)[i] = IF i <= n - 1 THEN f[i] ELSE e[i - (n - 1)]
  BY <1>1, <1>2, ConcatProperties
<1>5. \A i \in 1..n - 1 : i \in 1..n - 1 + m /\ i \in 1..n /\ (f \o e)[i] = s[i]
  BY <1>1, <1>2, <1>4
<1>6. \A k \in 1..m : n - 1 + k \in 1..n - 1 + m /\ (f \o e)[n - 1 + k] = e[k]
  <2> SUFFICES ASSUME NEW k \in 1..m
               PROVE  n - 1 + k \in 1..n - 1 + m /\ (f \o e)[n - 1 + k] = e[k]
    OBVIOUS
  <2>1. n - 1 + k \in 1..n - 1 + m /\ ~(n - 1 + k <= n - 1) /\ (n - 1 + k) - (n - 1) = k
    BY <1>1
  <2> QED BY <2>1, <1>4
<1>7. \A i \in 1..n - 1 + m : i \in 1..n - 1 \/ \E k \in 1..m : i = n - 1 + k
  <2> SUFFICES ASSUME NEW i \in 1..n - 1 + m, ~(i \in 1..n - 1)
               PROVE  \E k \in 1..m : i = n - 1 + k
    OBVIOUS
  <2>1. i - (n - 1) \in 1..m /\ i = n - 1 + (i - (n - 1))
    BY <1>1
  <2> QED BY <2>1
<1>8. DOMAIN (f \o e) = 1..n - 1 + m /\ DOMAIN e = 1..m /\ DOMAIN s = 1..n
  BY <1>1, <1>3
<1>9. g = f \o e
  BY <1>2
<1>10. \A i \in DOMAIN g :
         \/ i \in 1..n - 1 /\ i \in DOMAIN s /\ g[i] = s[i]
         \/ \E k \in DOMAIN e : i = n - 1 + k /\ g[i] = e[k]
  <2> SUFFICES ASSUME NEW i \in 1..n - 1 + m
               PROVE  \/ i \in 1..n - 1 /\ i \in 1..n /\ (f \o e)[i] = s[i]
                      \/ \E k \in 1..m : i = n - 1 + k /\ (f \o e)[i] = e[k]
    BY <1>8, <1>9
  <2>1. CASE i \in 1..n - 1
    BY <2>1, <1>5
  <2>2. ASSUME NEW k \in 1..m, i = n - 1 + k PROVE (f \o e)[i] = e[k]
    BY <2>2, <1>6
  <2> QED BY <2>1, <2>2, <1>7
<1> QED BY <1>1, <1>3, <1>5, <1>6, <1>8, <1>9, <1>10 DEF Joins

(* The stacks when the last entry of one of them has been replaced.         *)
LEMMA Replaced ==
  ASSUME stack \in [Threads -> Seq(Entry)], NEW t \in Threads, NEW x, stack[t] # <<>>,
         Last(stack[t]) = x, NEW e \in Seq(Entry), Steps(t, e)
  PROVE  \E n \in Nat \ {0} :
           /\ n = Len(stack[t]) /\ stack[t][n] = x
           /\ stack' \in [Threads -> Seq(Entry)]
           /\ \A u \in Threads : u # t => stack'[u] = stack[u]
           /\ Joins(stack'[t], stack[t], n - 1, e)
<1>1. PICK s \in Seq(Entry) : s = stack[t] /\ s # <<>>
  OBVIOUS
<1>2. PICK n \in Nat : n = Len(s) /\ n > 0 /\ s[n] = x
  BY <1>1 DEF Last
<1>3. PICK g : g = stack'[t] /\ g = Front(s) \o e
  BY <1>1 DEF Steps
<1>4. Joins(g, s, n - 1, e)
  BY <1>2, <1>3, FrontConcat
<1>5. stack' \in [Threads -> Seq(Entry)] /\ \A u \in Threads : u # t => stack'[u] = stack[u]
  BY <1>3, <1>4 DEF Steps, Joins
<1> QED BY <1>1, <1>2, <1>3, <1>4, <1>5

(* A coroutine that runs has no other entry.                                *)
LEMMA OneEntry ==
  ASSUME Stacks, NEW t \in Threads, NEW u \in Threads, NEW c \in Frames,
         NEW v \in Marks, NEW w \in Marks, On(t, c, v), On(u, c, w)
  PROVE  t = u /\ v = w
<1>1. PICK i \in DOMAIN stack[t] : stack[t][i] = <<c, v>>
  BY DEF On
<1>2. PICK j \in DOMAIN stack[u] : stack[u][j] = <<c, w>>
  BY DEF On
<1>3. /\ stack[t][i][1] = stack[u][j][1]
      /\ stack[t][i][2] = v /\ stack[u][j][2] = w
  BY <1>1, <1>2
<1>4. t = u /\ i = j
  BY <1>3 DEF Stacks
<1> QED BY <1>1, <1>2, <1>4

LEMMA RunsOn ==
  ASSUME Stacks, NEW t \in Threads, NEW c, NEW v, Runs(t, c, v)
  PROVE  On(t, c, v)
  BY DEF Runs, On, Last, Stacks

(* The entries e can take the place of c's.                                 *)
Fits(c, v, e) ==
  /\ \A k \in DOMAIN e : e[k][2] \in Marks =>
       (e[k][1] = c /\ v \in Marks) \/ \A w \in Marks : ~At(e[k][1], w)
  /\ \A k, l \in DOMAIN e : e[k][1] = e[l][1] => k = l
  /\ \A k \in 1..Len(e) - 1 : e[k][2] \in {"await", "resuming"}

(* They do.                                                                 *)
Becomes(t, c, v, e) ==
  /\ Stacks'
  /\ \A u \in Threads, b \in Frames, w \in Marks :
       On(u, b, w)' <=> \/ u = t /\ \E k \in DOMAIN e : e[k] = <<b, w>>
                        \/ On(u, b, w) /\ <<b, w>> # <<c, v>>

(* What a step that replaces the last entry of a thread makes of the stacks.*)
LEMMA StepsStacks ==
  ASSUME Stacks, NEW t \in Threads, NEW c \in Frames, NEW v \in Marks \union {"resuming"},
         Runs(t, c, v), NEW e \in Seq(Entry), Steps(t, e),
         Fits(c, v, e)
  PROVE  Becomes(t, c, v, e)
<1>1. PICK n \in Nat \ {0} :
           /\ n = Len(stack[t]) /\ stack[t][n] = <<c, v>>
           /\ stack' \in [Threads -> Seq(Entry)]
           /\ \A u \in Threads : u # t => stack'[u] = stack[u]
           /\ Joins(stack'[t], stack[t], n - 1, e)
  BY Replaced DEF Stacks, Runs
<1>2. DOMAIN stack[t] = 1..n
  BY <1>1 DEF Stacks
<1> DEFINE Old(u, i) == i \in DOMAIN stack[u] /\ (u = t => i # n) /\ stack'[u][i] = stack[u][i]
           New(u, i, k) == u = t /\ k \in DOMAIN e /\ i = n - 1 + k /\ stack'[u][i] = e[k]
<1>3. ASSUME NEW u \in Threads, NEW i \in DOMAIN stack'[u]
      PROVE  Old(u, i) \/ \E k \in DOMAIN e : New(u, i, k)
  <2>1. CASE u = t
    <3>1. \/ i \in 1..n - 1 /\ i \in DOMAIN stack[t] /\ stack'[t][i] = stack[t][i]
          \/ \E k \in DOMAIN e : i = n - 1 + k /\ stack'[t][i] = e[k]
      BY <1>1, <2>1 DEF Joins
    <3>2. i \in 1..n - 1 => i # n
      OBVIOUS
    <3> QED BY <2>1, <3>1, <3>2
  <2>2. CASE u # t
    BY <2>2, <1>1
  <2> QED BY <2>1, <2>2
<1>4. ASSUME NEW u \in Threads, NEW i \in DOMAIN stack[u], u = t => i # n
      PROVE  i \in DOMAIN stack'[u] /\ stack'[u][i] = stack[u][i]
  <2>1. CASE u = t
    <3>1. i \in 1..n - 1
      BY <1>2, <1>4, <2>1
    <3> QED BY <3>1, <2>1, <1>1 DEF Joins
  <2>2. CASE u # t
    BY <2>2, <1>1
  <2> QED BY <2>1, <2>2
<1>5. ASSUME NEW k \in DOMAIN e
      PROVE  n - 1 + k \in DOMAIN stack'[t] /\ stack'[t][n - 1 + k] = e[k]
  BY <1>1 DEF Joins
<1>6. ASSUME NEW u \in Threads, NEW i, Old(u, i)
      PROVE  /\ stack[u][i] \in Entry
             /\ stack[u][i][2] \in Marks /\ v \in Marks => stack[u][i][1] # c
  <2>1. stack[u][i] \in Entry
    BY <1>6 DEF Stacks
  <2>2. n \in DOMAIN stack[t] /\ stack[t][n][1] = c /\ stack[t][n][2] = v
    BY <1>1, <1>2
  <2>3. ASSUME stack[u][i][2] \in Marks, v \in Marks, stack[u][i][1] = c PROVE FALSE
    <3>1. u = t /\ i = n
      BY <1>6, <2>2, <2>3 DEF Stacks
    <3> QED BY <1>6, <3>1
  <2> QED BY <2>1, <2>3
<1>7. ASSUME NEW u \in Threads, NEW i, Old(u, i), NEW k \in DOMAIN e,
             stack[u][i][2] \in Marks, e[k][2] \in Marks, stack[u][i][1] = e[k][1]
      PROVE  FALSE
  <2>0. (e[k][1] = c /\ v \in Marks) \/ \A w \in Marks : ~At(e[k][1], w)
    BY <1>7 DEF Fits
  <2>1. CASE e[k][1] = c /\ v \in Marks
    BY <2>1, <1>6, <1>7
  <2>2. CASE \A w \in Marks : ~At(e[k][1], w)
    <3>1. stack[u][i] = <<e[k][1], stack[u][i][2]>>
      BY <1>6, <1>7 DEF Entry
    <3>2. At(e[k][1], stack[u][i][2])
      BY <3>1, <1>7 DEF At, On
    <3> QED BY <2>2, <3>2, <1>7
  <2> QED BY <2>0, <2>1, <2>2
<1>8. ASSUME NEW p \in Threads, NEW q \in Threads,
             NEW i \in DOMAIN stack'[p], NEW j \in DOMAIN stack'[q],
             stack'[p][i][1] = stack'[q][j][1],
             stack'[p][i][2] \in Marks, stack'[q][j][2] \in Marks
      PROVE  p = q /\ i = j
  <2>1. CASE Old(p, i) /\ Old(q, j)
    BY <1>8, <2>1 DEF Stacks
  <2>2. ASSUME Old(p, i), NEW k \in DOMAIN e, New(q, j, k) PROVE FALSE
    BY <1>7, <1>8, <2>2
  <2>3. ASSUME Old(q, j), NEW k \in DOMAIN e, New(p, i, k) PROVE FALSE
    BY <1>7, <1>8, <2>3
  <2>4. ASSUME NEW k \in DOMAIN e, New(p, i, k), NEW l \in DOMAIN e, New(q, j, l)
        PROVE  p = q /\ i = j
    <3>1. e[k][1] = e[l][1]
      BY <1>8, <2>4
    <3>2. k = l
      BY <3>1 DEF Fits
    <3> QED BY <2>4, <3>2
  <2> QED BY <2>1, <2>2, <2>3, <2>4, <1>3
<1>9. ASSUME NEW u \in Threads, NEW i \in 1..Len(stack'[u]) - 1
      PROVE  stack'[u][i][2] \in {"await", "resuming"}
  <2>1. CASE u = t
    <3>1. PICK m \in Nat : m = Len(e) /\ DOMAIN e = 1..m /\ Len(stack'[t]) = n - 1 + m
      BY <1>1 DEF Joins
    <3>2. i \in 1..n - 1 + m - 1 /\ i \in 1..n - 1 + m
      BY <1>9, <2>1, <3>1
    <3>3. i \in DOMAIN stack'[u]
      BY <1>1, <2>1, <3>1, <3>2
    <3>4. ASSUME Old(u, i) PROVE stack'[u][i][2] \in {"await", "resuming"}
      <4>1. i \in 1..n - 1
        BY <3>4, <2>1, <1>2
      <4> QED BY <4>1, <3>4, <2>1, <1>1 DEF Stacks
    <3>5. ASSUME NEW k \in DOMAIN e, New(u, i, k) PROVE stack'[u][i][2] \in {"await", "resuming"}
      <4>1. k \in 1..m - 1
        BY <3>5, <3>2, <3>1
      <4> QED BY <4>1, <3>5, <3>1 DEF Fits
    <3> QED BY <3>3, <3>4, <3>5, <1>3
  <2>2. CASE u # t
    <3>1. stack'[u] = stack[u]
      BY <2>2, <1>1
    <3> QED BY <1>9, <3>1 DEF Stacks
  <2> QED BY <2>1, <2>2
<1>10. Stacks'
  BY <1>1, <1>8, <1>9 DEF Stacks
<1>11. ASSUME NEW u \in Threads, NEW b \in Frames, NEW w \in Marks
       PROVE  On(u, b, w)' <=> \/ u = t /\ \E k \in DOMAIN e : e[k] = <<b, w>>
                               \/ On(u, b, w) /\ <<b, w>> # <<c, v>>
  <2>1. ASSUME NEW i \in DOMAIN stack'[u], stack'[u][i] = <<b, w>>, Old(u, i)
        PROVE  On(u, b, w) /\ <<b, w>> # <<c, v>>
    <3>1. stack[u][i][1] = b /\ stack[u][i][2] = w /\ stack[u][i] = <<b, w>>
      BY <2>1
    <3>2. ~(b = c /\ w = v)
      BY <3>1, <2>1, <1>6
    <3> QED BY <3>1, <3>2, <2>1 DEF On
  <2>2. ASSUME On(u, b, w), <<b, w>> # <<c, v>> PROVE On(u, b, w)'
    <3>1. PICK i \in DOMAIN stack[u] : stack[u][i] = <<b, w>>
      BY <2>2 DEF On
    <3>2. u = t => i # n
      BY <3>1, <2>2, <1>1
    <3>3. i \in DOMAIN stack'[u] /\ stack'[u][i] = stack[u][i]
      BY <3>2, <1>4
    <3> QED BY <3>1, <3>3 DEF On
  <2>3. ASSUME u = t, NEW k \in DOMAIN e, e[k] = <<b, w>> PROVE On(u, b, w)'
    BY <2>3, <1>5 DEF On
  <2>4. ASSUME On(u, b, w)'
        PROVE  \/ u = t /\ \E k \in DOMAIN e : e[k] = <<b, w>>
               \/ On(u, b, w) /\ <<b, w>> # <<c, v>>
    <3>1. PICK i \in DOMAIN stack'[u] : stack'[u][i] = <<b, w>>
      BY <2>4 DEF On
    <3>2. Old(u, i) => On(u, b, w) /\ <<b, w>> # <<c, v>>
      BY <3>1, <2>1
    <3>3. ASSUME NEW k \in DOMAIN e, New(u, i, k) PROVE u = t /\ e[k] = <<b, w>>
      BY <3>1, <3>3
    <3>4. Old(u, i) \/ \E k \in DOMAIN e : New(u, i, k)
      BY <1>3
    <3> HIDE DEF Old, New
    <3> QED BY <3>2, <3>3, <3>4, <2>1, <3>1
  <2> QED BY <2>2, <2>3, <2>4
<1> QED BY <1>10, <1>11 DEF Becomes

(* The steps that the code takes: the entry goes away, becomes another, or  *)
(* becomes two.                                                             *)
LEMMA StepsNone ==
  ASSUME Stacks, NEW t \in Threads, NEW c \in Frames, NEW v \in Marks \union {"resuming"},
         Runs(t, c, v), Steps(t, <<>>)
  PROVE  /\ Stacks'
         /\ \A u \in Threads, b \in Frames, w \in Marks :
              On(u, b, w)' <=> On(u, b, w) /\ <<b, w>> # <<c, v>>
         /\ \A b \in Frames, w \in Marks :
              At(b, w)' <=> At(b, w) /\ <<b, w>> # <<c, v>>
<1>1. PICK e : e = <<>>
  OBVIOUS
<1>2. e \in Seq(Entry) /\ DOMAIN e = {} /\ 1..Len(e) - 1 = {}
  BY <1>1
<1>3. Steps(t, e)
  BY <1>1
<1>4. Becomes(t, c, v, e)
  <2>1. Fits(c, v, e)
    BY <1>2 DEF Fits
  <2> QED BY <1>2, <1>3, <2>1, StepsStacks
<1>10. /\ Stacks'
       /\ \A u \in Threads, b \in Frames, w \in Marks :
            On(u, b, w)' <=> On(u, b, w) /\ <<b, w>> # <<c, v>>
  BY <1>2, <1>4 DEF Becomes
<1> QED BY <1>10 DEF At

LEMMA StepsOne ==
  ASSUME Stacks, NEW t \in Threads, NEW c \in Frames, NEW v \in Marks \union {"resuming"},
         Runs(t, c, v), NEW b1 \in Frames, NEW w1 \in Marks, Steps(t, << <<b1, w1>> >>),
         (b1 = c /\ v \in Marks) \/ \A w \in Marks : ~At(b1, w)
  PROVE  /\ Stacks'
         /\ \A u \in Threads, b \in Frames, w \in Marks :
              On(u, b, w)' <=> \/ u = t /\ b = b1 /\ w = w1
                               \/ On(u, b, w) /\ <<b, w>> # <<c, v>>
         /\ \A b \in Frames, w \in Marks :
              At(b, w)' <=> (b = b1 /\ w = w1) \/ (At(b, w) /\ <<b, w>> # <<c, v>>)
<1>1. PICK e \in Seq(Entry) : e = << <<b1, w1>> >> /\ Len(e) = 1 /\ DOMAIN e = {1} /\ e[1] = <<b1, w1>>
  BY DEF Entry
<1>2. Steps(t, e)
  BY <1>1
<1>3. Becomes(t, c, v, e)
  <2>1. e[1][1] = b1 /\ 1..Len(e) - 1 = {}
    BY <1>1
  <2>2. \A k \in DOMAIN e : k = 1
    BY <1>1
  <2>3. \A k \in DOMAIN e : e[k][2] \in Marks =>
           (e[k][1] = c /\ v \in Marks) \/ \A w \in Marks : ~At(e[k][1], w)
    BY <2>1, <2>2
  <2>4. \A k, l \in DOMAIN e : e[k][1] = e[l][1] => k = l
    BY <2>2
  <2>5. Fits(c, v, e)
    BY <2>1, <2>3, <2>4 DEF Fits
  <2> QED BY <1>1, <1>2, <2>5, StepsStacks
<1>4. \A b, w : (\E k \in DOMAIN e : e[k] = <<b, w>>) <=> b = b1 /\ w = w1
  BY <1>1
<1>10. /\ Stacks'
       /\ \A u \in Threads, b \in Frames, w \in Marks :
            On(u, b, w)' <=> \/ u = t /\ b = b1 /\ w = w1
                             \/ On(u, b, w) /\ <<b, w>> # <<c, v>>
  BY <1>3, <1>4 DEF Becomes
<1> QED BY <1>10 DEF At

LEMMA StepsTwo ==
  ASSUME Stacks, NEW t \in Threads, NEW c \in Frames, NEW v \in Marks,
         Runs(t, c, v), NEW w1 \in {"await", "resuming"}, NEW b2 \in Frames, NEW w2 \in Marks,
         Steps(t, << <<c, w1>>, <<b2, w2>> >>), b2 # c, \A w \in Marks : ~At(b2, w)
  PROVE  /\ Stacks'
         /\ \A u \in Threads, b \in Frames, w \in Marks :
              On(u, b, w)' <=> \/ u = t /\ b = c /\ w = w1
                               \/ u = t /\ b = b2 /\ w = w2
                               \/ On(u, b, w) /\ <<b, w>> # <<c, v>>
         /\ \A b \in Frames, w \in Marks :
              At(b, w)' <=> \/ b = c /\ w = w1
                            \/ b = b2 /\ w = w2
                            \/ At(b, w) /\ <<b, w>> # <<c, v>>
<1>0. <<c, w1>> \in Entry /\ <<b2, w2>> \in Entry
  BY DEF Entry, Marks, Inside
<1>1. PICK e \in Seq(Entry) :
        /\ e = << <<c, w1>>, <<b2, w2>> >> /\ Len(e) = 2 /\ DOMAIN e = {1, 2}
        /\ e[1] = <<c, w1>> /\ e[2] = <<b2, w2>>
  <2> DEFINE f == << <<c, w1>>, <<b2, w2>> >>
  <2>1. \A i \in 1..2 : f[i] \in Entry
    BY <1>0
  <2>2. f = [i \in 1..2 |-> f[i]]
    OBVIOUS
  <2>3. f \in Seq(Entry) /\ Len(f) = 2 /\ DOMAIN f = {1, 2}
    BY <2>1, <2>2
  <2> QED BY <2>3
<1>2. Steps(t, e)
  BY <1>1
<1>3. Becomes(t, c, v, e)
  <2>1. e[1][1] = c /\ e[1][2] = w1 /\ e[2][1] = b2 /\ 1..Len(e) - 1 = {1}
    BY <1>1
  <2>2. \A k \in DOMAIN e : k = 1 \/ k = 2
    BY <1>1
  <2>3. \A k \in DOMAIN e : e[k][2] \in Marks =>
           (e[k][1] = c /\ v \in Marks) \/ \A w \in Marks : ~At(e[k][1], w)
    BY <2>1, <2>2
  <2>4. \A k, l \in DOMAIN e : e[k][1] = e[l][1] => k = l
    BY <2>1, <2>2
  <2>5. \A k \in 1..Len(e) - 1 : e[k][2] \in {"await", "resuming"}
    BY <2>1
  <2>6. Fits(c, v, e)
    BY <2>3, <2>4, <2>5 DEF Fits
  <2> QED BY <1>1, <1>2, <2>6, StepsStacks
<1>4. \A b, w : (\E k \in DOMAIN e : e[k] = <<b, w>>) <=> (b = c /\ w = w1) \/ (b = b2 /\ w = w2)
  <2> SUFFICES ASSUME NEW b, NEW w
               PROVE (\E k \in DOMAIN e : e[k] = <<b, w>>) <=> (b = c /\ w = w1) \/ (b = b2 /\ w = w2)
    OBVIOUS
  <2>1. (\E k \in DOMAIN e : e[k] = <<b, w>>) <=> e[1] = <<b, w>> \/ e[2] = <<b, w>>
    BY <1>1
  <2> QED BY <2>1, <1>1
<1>10. /\ Stacks'
       /\ \A u \in Threads, b \in Frames, w \in Marks :
            On(u, b, w)' <=> \/ u = t /\ b = c /\ w = w1
                             \/ u = t /\ b = b2 /\ w = w2
                             \/ On(u, b, w) /\ <<b, w>> # <<c, v>>
  BY <1>3, <1>4 DEF Becomes
<1> QED BY <1>10 DEF At

(* A thread with no coroutine takes one up.                                 *)
LEMMA Resumes ==
  ASSUME Stacks, NEW t \in Threads, stack[t] = <<>>, NEW c \in Frames,
         stack' = [stack EXCEPT ![t] = << <<c, "body">> >>], \A w \in Marks : ~At(c, w)
  PROVE  /\ Stacks'
         /\ \A u \in Threads, b \in Frames, w \in Marks :
              On(u, b, w)' <=> On(u, b, w) \/ (u = t /\ b = c /\ w = "body")
         /\ \A b \in Frames, w \in Marks :
              At(b, w)' <=> At(b, w) \/ (b = c /\ w = "body")
<1>0. <<c, "body">> \in Entry
  BY DEF Entry, Marks, Inside
<1>1. PICK e \in Seq(Entry) : e = << <<c, "body">> >> /\ Len(e) = 1 /\ DOMAIN e = {1} /\ e[1] = <<c, "body">>
  <2> DEFINE f == << <<c, "body">> >>
  <2>1. f \in Seq(Entry) /\ Len(f) = 1 /\ DOMAIN f = {1} /\ f[1] = <<c, "body">>
    BY <1>0
  <2> QED BY <2>1
<1>2. /\ stack' \in [Threads -> Seq(Entry)] /\ stack'[t] = e
      /\ \A u \in Threads : u # t => stack'[u] = stack[u]
  BY <1>1 DEF Stacks
<1>3. DOMAIN stack[t] = {}
  OBVIOUS
<1>4. ASSUME NEW p \in Threads, NEW q \in Threads,
             NEW i \in DOMAIN stack'[p], NEW j \in DOMAIN stack'[q],
             stack'[p][i][1] = stack'[q][j][1],
             stack'[p][i][2] \in Marks, stack'[q][j][2] \in Marks
      PROVE  p = q /\ i = j
  <2>1. ASSUME NEW u \in Threads, u # t, NEW k \in DOMAIN stack[u],
               stack[u][k][1] = c, stack[u][k][2] \in Marks
        PROVE  FALSE
    <3>1. stack[u][k] \in Entry
      BY DEF Stacks
    <3>2. stack[u][k] = <<c, stack[u][k][2]>>
      BY <3>1, <2>1 DEF Entry
    <3> QED BY <3>2, <2>1 DEF At, On
  <2>2. CASE p = t /\ q = t
    BY <2>2, <1>1, <1>2
  <2>3. CASE p # t /\ q = t
    BY <2>1, <2>3, <1>4, <1>1, <1>2
  <2>4. CASE p = t /\ q # t
    BY <2>1, <2>4, <1>4, <1>1, <1>2
  <2>5. CASE p # t /\ q # t
    BY <2>5, <1>4, <1>2 DEF Stacks
  <2> QED BY <2>2, <2>3, <2>4, <2>5
<1>5. ASSUME NEW u \in Threads, NEW i \in 1..Len(stack'[u]) - 1
      PROVE  stack'[u][i][2] \in {"await", "resuming"}
  <2>1. u # t
    BY <1>1, <1>2
  <2> QED BY <2>1, <1>2, <1>5 DEF Stacks
<1>6. Stacks'
  BY <1>2, <1>4, <1>5 DEF Stacks
<1>7. ASSUME NEW u \in Threads, NEW b \in Frames, NEW w \in Marks
      PROVE  On(u, b, w)' <=> On(u, b, w) \/ (u = t /\ b = c /\ w = "body")
  BY <1>1, <1>2, <1>3 DEF On
<1>10. /\ Stacks'
       /\ \A u \in Threads, b \in Frames, w \in Marks :
            On(u, b, w)' <=> On(u, b, w) \/ (u = t /\ b = c /\ w = "body")
  BY <1>6, <1>7
<1> QED BY <1>10 DEF At

LEMMA StacksTyped ==
  ASSUME NEW f \in [Threads -> Seq(Entry)]
  PROVE  \A t \in Threads : f[t] \in Seq(Frames \X (Inside \union {"resuming", "setting"}))
<1>1. Entry = Frames \X (Inside \union {"resuming", "setting"})
  BY DEF Entry, Marks
<1> QED BY <1>1

LEMMA OnePlace ==
  ASSUME Stacks
  PROVE  \A b \in Frames, v, w \in Marks : At(b, v) /\ At(b, w) => v = w
  BY OneEntry DEF At

LEMMA RunsAt ==
  ASSUME Stacks, NEW t \in Threads, NEW c, NEW v, Runs(t, c, v)
  PROVE  At(c, v)
  BY RunsOn DEF At

(* What does not move Root leaves Root, the event and the Waiter in order.  *)
LEMMA CalledKept ==
  ASSUME Called, UNCHANGED <<event, pc, result>>,
         life'[Root] = life[Root], storage'[Root] = storage[Root],
         life[Root] \in {"final", "gone"} =>
           storage'[Main] = storage[Main] /\ life'[Main] \in {"final", "gone"},
         \A u \in Threads : On(u, Root, "setting")' <=> On(u, Root, "setting"),
         life[Root] \in {"final", "gone"} /\ ~Present(Root) => ~Present(Root)',
         stack[Waiter] = <<>> => stack'[Waiter] = <<>> \/ life[Root] # "initial"
  PROVE  Called'
  BY DEF Called, event

-------------------------------------------------------------------------------
(* The actions of Awaitable keep all of it but Called.                      *)
FramesInv == AwaitableTypeOK /\ Stacks /\ Lives /\ Owned /\ Handshake /\ Chained

TaskInv == TypeOK /\ FramesInv /\ Called

LEMMA ChainKept ==
  ASSUME Chained, awaits' = awaits,
         \A c \in Frames : life'[c] = "alive" => life[c] = "alive" \/ c = Root
  PROVE  Chained'
<1>0. PICK n \in Nat \ {0} : \E s \in [1..n -> Frames] : Chain(n, s)
  BY DEF Chained
<1>1. PICK s \in [1..n -> Frames] : Chain(n, s)
  BY <1>0
<1>2. ASSUME NEW c \in Frames, life'[c] = "alive" PROVE \E i \in 1..n : s[i] = c
  <2>1. 1 \in 1..n /\ s[1] = Root
    BY <1>1 DEF Chain
  <2>2. CASE c = Root
    BY <2>1, <2>2
  <2>3. CASE life[c] = "alive"
    BY <1>1, <2>3 DEF Chain
  <2> QED BY <1>2, <2>2, <2>3
<1>3. /\ s[1] = Root /\ awaits'[s[n]] = None
      /\ \A i \in 1..n - 1 : awaits'[s[i]] = s[i + 1]
  BY <1>1 DEF Chain
<1>4. Chain(n, s)'
  BY <1>2, <1>3 DEF Chain
<1> QED BY <1>4 DEF Chained

(* A step neither takes Root from its last entry nor takes it up again.     *)
RootRests ==
  /\ \A u \in Threads : On(u, Root, "setting")' <=> On(u, Root, "setting")
  /\ life[Root] \in {"final", "gone"} /\ ~Present(Root) => ~Present(Root)'

LEMMA ChainPops ==
  ASSUME Chained, NEW k \in Frames, NEW d \in Frames, awaits \in [Frames -> Coroutines \union {None}],
         awaits[k] = d, life[k] = "alive", awaits[d] = None, life[d] # "alive",
         awaits' = [awaits EXCEPT ![k] = None], life' = life
  PROVE  Chained'
<1> USE AwaitableAssumption
<1>0. PICK n \in Nat \ {0} : \E s \in [1..n -> Frames] : Chain(n, s)
  BY DEF Chained
<1>1. PICK s \in [1..n -> Frames] : Chain(n, s)
  BY <1>0
<1>2. d # None
  BY DEF Frames
<1>3. PICK i \in 1..n : s[i] = k
  BY <1>1 DEF Chain
<1>4. i # n
  BY <1>1, <1>2, <1>3 DEF Chain
<1>5. i + 1 \in 1..n /\ s[i + 1] = d
  BY <1>1, <1>3, <1>4 DEF Chain
<1>6. n = i + 1
  <2>1. SUFFICES ASSUME i + 1 \in 1..n - 1 PROVE FALSE
    BY <1>5
  <2>2. awaits[s[i + 1]] = s[i + 2] /\ s[i + 2] \in Frames
    BY <1>1, <2>1 DEF Chain
  <2> QED BY <1>5, <2>2 DEF Frames
<1>7. \A j \in 1..i - 1 : s[j] # k /\ s[j] \in Frames
  <2> SUFFICES ASSUME NEW j \in 1..i - 1, s[j] = k PROVE FALSE
    OBVIOUS
  <2>1. awaits[s[j]] = s[j + 1] /\ j + 1 \in 1..i
    BY <1>1, <1>6 DEF Chain
  <2>2. s[j + 1] = d
    BY <2>1
  <2>3. CASE j + 1 = i
    BY <2>2, <2>3, <1>3
  <2>4. CASE j + 1 # i
    <3>1. awaits[s[j + 1]] = s[j + 2] /\ s[j + 2] \in Frames
      BY <1>1, <1>6, <2>1, <2>4 DEF Chain
    <3> QED BY <2>2, <3>1 DEF Frames
  <2> QED BY <2>3, <2>4
<1>8. PICK r \in [1..i -> Frames] : i \in Nat \ {0} /\ \A j \in 1..i : r[j] = s[j]
  <2> DEFINE f == [j \in 1..i |-> s[j]]
  <2>1. f \in [1..i -> Frames] /\ i \in Nat \ {0} /\ \A j \in 1..i : f[j] = s[j]
    BY <1>6
  <2> QED BY <2>1
<1>9. Chain(i, r)'
  <2>1. \A j \in 1..i - 1 : awaits'[r[j]] = r[j + 1]
    BY <1>1, <1>6, <1>7, <1>8 DEF Chain
  <2>2. awaits'[r[i]] = None
    BY <1>3, <1>8
  <2>3. ASSUME NEW c \in Frames, life'[c] = "alive" PROVE \E j \in 1..i : r[j] = c
    <3>1. PICK j \in 1..n : s[j] = c
      BY <1>1, <2>3 DEF Chain
    <3>2. j # n
      BY <1>5, <1>6, <2>3, <3>1
    <3> QED BY <1>6, <1>8, <3>1, <3>2
  <2> QED BY <1>1, <1>8, <2>1, <2>2, <2>3 DEF Chain
<1> QED BY <1>8, <1>9 DEF Chained

LEMMA ChainGrows ==
  ASSUME Chained, NEW k \in Frames, NEW d \in Frames, awaits \in [Frames -> Coroutines \union {None}],
         awaits[k] = None, life[k] = "alive", awaits[d] = None, d # k,
         awaits' = [awaits EXCEPT ![k] = d],
         \A c \in Frames : c # d => life'[c] = life[c]
  PROVE  Chained'
<1> USE AwaitableAssumption
<1>0. PICK n \in Nat \ {0} : \E s \in [1..n -> Frames] : Chain(n, s)
  BY DEF Chained
<1>1. PICK s \in [1..n -> Frames] : Chain(n, s)
  BY <1>0
<1>2. \A i \in 1..n - 1 : i \in 1..n /\ s[i] # k /\ awaits[s[i]] = s[i + 1]
  <2> SUFFICES ASSUME NEW i \in 1..n - 1 PROVE i \in 1..n /\ s[i] # k /\ awaits[s[i]] = s[i + 1]
    OBVIOUS
  <2>1. awaits[s[i]] = s[i + 1] /\ s[i + 1] \in Frames
    BY <1>1 DEF Chain
  <2> QED BY <2>1 DEF Frames
<1>3. s[n] = k
  BY <1>1, <1>2 DEF Chain
<1>4. PICK r \in [1..n + 1 -> Frames] : r[n + 1] = d /\ \A j \in 1..n : r[j] = s[j]
  <2> DEFINE f == [j \in 1..n + 1 |-> IF j = n + 1 THEN d ELSE s[j]]
  <2>1. f \in [1..n + 1 -> Frames] /\ f[n + 1] = d /\ \A j \in 1..n : f[j] = s[j]
    OBVIOUS
  <2> QED BY <2>1
<1>5. Chain(n + 1, r)'
  <2>1. \A j \in 1..n : awaits'[r[j]] = r[j + 1]
    <3> SUFFICES ASSUME NEW j \in 1..n PROVE awaits'[r[j]] = r[j + 1]
      OBVIOUS
    <3>1. CASE j = n
      BY <1>3, <1>4, <3>1
    <3>2. CASE j # n
      <4>1. j \in 1..n - 1 /\ j + 1 \in 1..n
        BY <3>2
      <4> QED BY <1>2, <1>4, <4>1
    <3> QED BY <3>1, <3>2
  <2>2. awaits'[r[n + 1]] = None
    BY <1>4
  <2>3. ASSUME NEW c \in Frames, life'[c] = "alive" PROVE \E j \in 1..n + 1 : r[j] = c
    <3>1. CASE c = d
      BY <1>4, <3>1
    <3>2. CASE c # d
      <4>1. PICK j \in 1..n : s[j] = c
        BY <1>1, <2>3, <3>2 DEF Chain
      <4> QED BY <1>4, <4>1
    <3> QED BY <3>1, <3>2
  <2> QED BY <1>1, <1>4, <2>1, <2>2, <2>3 DEF Chain
<1> QED BY <1>4, <1>5 DEF Chained

LEMMA StoreKept ==
  ASSUME FramesInv, NEW t \in Threads, NEW c \in Frames, Store(t, c)
  PROVE  FramesInv' /\ RootRests
<1> USE DEF FramesInv
<1>0. \A w : w \in Marks <=> \/ w = "body" \/ w = "await" \/ w = "stored"
                             \/ w = "final" \/ w = "notify" \/ w = "setting"
  BY DEF Marks, Inside
<1>1. At(c, "await") /\ \A w \in Marks : At(c, w) => w = "await"
  BY <1>0, OnePlace, RunsAt DEF Store
<1>2. /\ Stacks'
      /\ \A u \in Threads, b \in Frames, w \in Marks :
           On(u, b, w)' <=> \/ u = t /\ b = c /\ w = "stored"
                            \/ On(u, b, w) /\ <<b, w>> # <<c, "await">>
      /\ \A b \in Frames, w \in Marks :
           At(b, w)' <=> (b = c /\ w = "stored") \/ (At(b, w) /\ <<b, w>> # <<c, "await">>)
  BY <1>0, StepsOne DEF Store
<1>3. /\ \A b \in Frames, w \in Marks : b # c => (At(b, w)' <=> At(b, w))
      /\ \A w \in Marks : At(c, w)' <=> w = "stored"
  BY <1>1, <1>2
<1>4. \A b \in Frames : Present(b)' <=> Present(b)
  BY <1>0, <1>1, <1>3 DEF Present, Inside
<1>5. PICK d \in Coroutines : d = awaits[c] /\ owner[d] = c /\ d # c /\ ~symmetric
  BY <1>1 DEF Lives, LifeOf, Handshake, Owned, AwaitableTypeOK
<1>6. /\ continuation' = [continuation EXCEPT ![d] = c]
      /\ UNCHANGED <<symmetric, life, owner, state, storage, awaits, parked>>
  BY <1>5 DEF Store
<1>7. AwaitableTypeOK'
  BY <1>2, <1>6, StacksTyped DEF Stacks, AwaitableTypeOK
<1>8. Lives'
  BY <1>0, <1>1, <1>3, <1>4, <1>6 DEF Lives, LifeOf
<1>9. Owned'
  BY <1>4, <1>6 DEF Owned, Frames
<1>10. Handshake'
  <2> SUFFICES ASSUME NEW b \in Frames, NEW a \in Coroutines, awaits[b] = a
               PROVE  /\ owner[a] = b /\ life[a] \in {"alive", "final"}
                      /\ ~Present(b)' => continuation'[a] = b /\ ~Passed(a)'
                      /\ ~symmetric =>
                           /\ Present(b)' => (state[a] <=> Passed(a)')
                           /\ At(b, "stored")' => continuation'[a] = b
                           /\ ~Present(b)' => state[a]
    BY <1>6 DEF Handshake
  <2>2. Passed(a)' <=> Passed(a)
    BY <1>0, <1>1, <1>3, <1>6 DEF Passed, Frames
  <2>3. CASE b = c
    <3>1. continuation'[a] = b
      BY <1>5, <1>6, <2>3 DEF AwaitableTypeOK
    <3> QED BY <1>4, <2>2, <3>1 DEF Handshake
  <2>4. CASE b # c
    <3>1. a # d
      BY <1>5, <2>4 DEF Handshake
    <3>2. continuation'[a] = continuation[a]
      BY <1>6, <3>1 DEF AwaitableTypeOK
    <3>3. At(b, "stored")' <=> At(b, "stored")
      BY <1>0, <1>3, <2>4
    <3> QED BY <1>4, <2>2, <3>2, <3>3 DEF Handshake
  <2> QED BY <2>3, <2>4
<1>11. Chained'
  BY <1>6, ChainKept
<1>12. RootRests
  BY <1>0, <1>2, <1>4 DEF Frames, RootRests
<1> QED BY <1>2, <1>7, <1>8, <1>9, <1>10, <1>11, <1>12

LEMMA ExchangeKept ==
  ASSUME FramesInv, NEW t \in Threads, NEW c \in Frames, Exchange(t, c)
  PROVE  FramesInv' /\ RootRests
<1> USE DEF FramesInv
<1>0. \A w : w \in Marks <=> \/ w = "body" \/ w = "await" \/ w = "stored"
                             \/ w = "final" \/ w = "notify" \/ w = "setting"
  BY DEF Marks, Inside
<1>1. At(c, "stored") /\ \A w \in Marks : At(c, w) => w = "stored"
  BY <1>0, OnePlace, RunsAt DEF Exchange
<1>2. PICK d \in Coroutines :
        /\ d = awaits[c] /\ owner[d] = c /\ d # c /\ ~symmetric /\ life[c] = "alive"
        /\ life[d] \in {"alive", "final"} /\ continuation[d] = c /\ (state[d] <=> Passed(d))
  BY <1>0, <1>1 DEF Lives, LifeOf, Handshake, Owned, AwaitableTypeOK, Present, Inside
<1>3. /\ state' = [state EXCEPT ![d] = TRUE] /\ d \in Frames
      /\ UNCHANGED <<symmetric, life, owner, continuation, storage, parked>>
  BY <1>2 DEF Exchange, Frames
<1>4. ASSUME state[d] PROVE FramesInv' /\ RootRests
  <2>1. awaits' = [awaits EXCEPT ![c] = None] /\ Steps(t, << <<c, "body">> >>) /\ Runs(t, c, "stored")
    BY <1>2, <1>4 DEF Exchange
  <2>2. /\ Stacks'
        /\ \A u \in Threads, b \in Frames, w \in Marks :
             On(u, b, w)' <=> \/ u = t /\ b = c /\ w = "body"
                              \/ On(u, b, w) /\ <<b, w>> # <<c, "stored">>
        /\ \A b \in Frames, w \in Marks :
             At(b, w)' <=> (b = c /\ w = "body") \/ (At(b, w) /\ <<b, w>> # <<c, "stored">>)
    BY <1>0, <2>1, StepsOne
  <2>3. /\ \A b \in Frames, w \in Marks : b # c => (At(b, w)' <=> At(b, w))
        /\ \A w \in Marks : At(c, w)' <=> w = "body"
    BY <1>1, <2>2
  <2>4. \A b \in Frames : Present(b)' <=> Present(b)
    BY <1>0, <1>1, <2>3 DEF Present, Inside
  <2>5. AwaitableTypeOK'
    BY <1>3, <2>1, <2>2, StacksTyped DEF Stacks, AwaitableTypeOK
  <2>6. Passed(d) /\ ~Present(d) /\ awaits[d] = None /\ life[d] = "final"
    BY <1>0, <1>2, <1>3, <1>4, AwaitableAssumption DEF Passed, Present, Inside, Lives, LifeOf, Frames
  <2>7. Lives'
    <3> SUFFICES ASSUME NEW b \in Frames PROVE LifeOf(b)'
      BY DEF Lives
    <3>1. CASE b = c
      BY <1>0, <1>2, <1>3, <2>1, <2>3, <2>4, <3>1 DEF Lives, LifeOf, AwaitableTypeOK
    <3>2. CASE b # c
      BY <1>0, <1>3, <2>1, <2>3, <2>4, <3>2 DEF Lives, LifeOf, AwaitableTypeOK
    <3> QED BY <3>1, <3>2
  <2>8. Owned'
    <3> SUFFICES ASSUME NEW a \in Coroutines
        PROVE /\ owner[a] # a /\ (owner[a] = None <=> life[a] = "none")
              /\ life[a] = "alive" \/ Present(a)' => awaits'[owner[a]] = a
              /\ life[a] \in {"none", "initial"} => ~state'[a]
      BY <1>3 DEF Owned
    <3>1. CASE a = d
      BY <1>2, <1>3, <2>4, <2>6, <3>1 DEF Owned
    <3>2. CASE a # d
      <4>1. state'[a] = state[a] /\ a \in Frames
        BY <1>3, <3>2 DEF AwaitableTypeOK, Frames
      <4>2. awaits[owner[a]] = a /\ owner[a] # None => awaits'[owner[a]] = a
        BY <1>2, <2>1, <3>2 DEF AwaitableTypeOK
      <4>3. Present(a) => life[a] # "none"
        BY <1>0, <4>1 DEF Present, Inside, Lives, LifeOf
      <4> QED BY <2>4, <4>1, <4>2, <4>3 DEF Owned
    <3> QED BY <3>1, <3>2
  <2>9. Handshake'
    <3> SUFFICES ASSUME NEW b \in Frames, NEW a \in Coroutines, awaits'[b] = a
                 PROVE  /\ owner[a] = b /\ life[a] \in {"alive", "final"}
                        /\ ~Present(b)' => continuation[a] = b /\ ~Passed(a)'
                        /\ ~symmetric =>
                             /\ Present(b)' => (state'[a] <=> Passed(a)')
                             /\ At(b, "stored")' => continuation[a] = b
                             /\ ~Present(b)' => state'[a]
      BY <1>3 DEF Handshake
    <3>1. b # c /\ awaits[b] = a
      BY <2>1, AwaitableAssumption DEF AwaitableTypeOK, Frames
    <3>2. a # d
      BY <1>2, <3>1 DEF Handshake
    <3>3. Passed(a)' <=> Passed(a)
      BY <1>0, <1>1, <1>3, <2>3 DEF Passed, Frames
    <3>4. state'[a] = state[a] /\ (At(b, "stored")' <=> At(b, "stored"))
      BY <1>0, <1>3, <2>3, <3>1, <3>2 DEF AwaitableTypeOK
    <3> QED BY <2>4, <3>1, <3>3, <3>4 DEF Handshake
  <2>10. Chained'
    BY <1>2, <1>3, <2>1, <2>6, ChainPops DEF AwaitableTypeOK
  <2>11. RootRests
    BY <1>0, <2>2, <2>4 DEF Frames, RootRests
  <2> QED BY <2>2, <2>5, <2>7, <2>8, <2>9, <2>10, <2>11
<1>5. ASSUME ~state[d] PROVE FramesInv' /\ RootRests
  <2>1. UNCHANGED awaits /\ Steps(t, <<>>) /\ Runs(t, c, "stored")
    BY <1>2, <1>5 DEF Exchange
  <2>2. /\ Stacks'
        /\ \A u \in Threads, b \in Frames, w \in Marks :
             On(u, b, w)' <=> On(u, b, w) /\ <<b, w>> # <<c, "stored">>
        /\ \A b \in Frames, w \in Marks : At(b, w)' <=> At(b, w) /\ <<b, w>> # <<c, "stored">>
    BY <1>0, <2>1, StepsNone
  <2>3. /\ \A b \in Frames, w \in Marks : b # c => (At(b, w)' <=> At(b, w))
        /\ \A w \in Marks : ~At(c, w)'
    BY <1>1, <2>2
  <2>4. ~Present(c)' /\ \A b \in Frames : b # c => (Present(b)' <=> Present(b))
    BY <1>0, <2>3 DEF Present, Inside
  <2>5. AwaitableTypeOK'
    BY <1>3, <2>1, <2>2, StacksTyped DEF Stacks, AwaitableTypeOK
  <2>6. ~Passed(d)
    BY <1>2, <1>5
  <2>7. Lives'
    BY <1>0, <1>3, <2>1, <2>3, <2>4 DEF Lives, LifeOf
  <2>8. Owned'
    BY <1>2, <1>3, <2>1, <2>4 DEF Owned, Frames, AwaitableTypeOK
  <2>9. Handshake'
    <3> SUFFICES ASSUME NEW b \in Frames, NEW a \in Coroutines, awaits[b] = a
                 PROVE  /\ owner[a] = b /\ life[a] \in {"alive", "final"}
                        /\ ~Present(b)' => continuation[a] = b /\ ~Passed(a)'
                        /\ ~symmetric =>
                             /\ Present(b)' => (state'[a] <=> Passed(a)')
                             /\ At(b, "stored")' => continuation[a] = b
                             /\ ~Present(b)' => state'[a]
      BY <1>3, <2>1 DEF Handshake
    <3>1. Passed(a)' <=> Passed(a)
      BY <1>0, <1>1, <1>3, <2>3 DEF Passed, Frames
    <3>2. CASE b = c
      BY <1>2, <1>3, <2>4, <2>6, <3>1, <3>2 DEF Handshake, AwaitableTypeOK
    <3>3. CASE b # c
      <4>1. a # d
        BY <1>2, <3>3 DEF Handshake
      <4>2. state'[a] = state[a] /\ (At(b, "stored")' <=> At(b, "stored"))
        BY <1>0, <1>3, <2>3, <3>3, <4>1 DEF AwaitableTypeOK
      <4> QED BY <2>4, <3>1, <3>3, <4>2 DEF Handshake
    <3> QED BY <3>2, <3>3
  <2>10. Chained'
    BY <1>3, <2>1, ChainKept
  <2>11. RootRests
    BY <1>0, <2>2, <2>4 DEF Frames, RootRests
  <2> QED BY <2>2, <2>5, <2>7, <2>8, <2>9, <2>10, <2>11
<1> QED BY <1>4, <1>5

LEMMA AppendTwo ==
  ASSUME NEW S, NEW x \in S, NEW y \in S
  PROVE  Append(<<x>>, y) = <<x, y>>
<1> DEFINE a == Append(<<x>>, y)
           b == <<x, y>>
<1>1. <<x>> \in Seq(S) /\ Len(<<x>>) = 1
  OBVIOUS
<1>2. a \in Seq(S) /\ Len(a) = 2 /\ a[1] = x /\ a[2] = y
  BY <1>1
<1>3. b \in Seq(S) /\ Len(b) = 2 /\ b[1] = x /\ b[2] = y
  OBVIOUS
<1> HIDE DEF a, b
<1>4. \A i \in 1..Len(a) : i = 1 \/ i = 2
  BY <1>2
<1>5. a = b
  BY <1>2, <1>3, <1>4, SeqEqual
<1> QED BY <1>5 DEF a, b

LEMMA FinalKept ==
  ASSUME FramesInv, NEW t \in Threads, NEW c \in Frames, Final(t, c)
  PROVE  FramesInv' /\ RootRests
<1> USE DEF FramesInv
<1>0. \A w : w \in Marks <=> \/ w = "body" \/ w = "await" \/ w = "stored"
                             \/ w = "final" \/ w = "notify" \/ w = "setting"
  BY DEF Marks, Inside
<1>1. At(c, "final") /\ \A w \in Marks : At(c, w) => w = "final"
  BY <1>0, OnePlace, RunsAt DEF Final
<1>2. /\ c \in Coroutines /\ life[c] = "final" /\ awaits[c] = None
      /\ Present(c) /\ ~Passed(c) /\ c # Root /\ c \notin parked
  BY <1>1 DEF Lives, LifeOf, Frames, Present, Inside, Passed, AwaitableTypeOK
<1>3. PICK k \in Frames : k = owner[c] /\ awaits[k] = c /\ k # c
  BY <1>2 DEF Owned, AwaitableTypeOK
<1>4. life[k] = "alive" /\ k \notin parked /\ awaits[k] # None
  BY <1>2, <1>3, AwaitableAssumption DEF Lives, LifeOf, Frames
<1>5. UNCHANGED <<symmetric, life, owner, continuation, storage, parked>> /\ Runs(t, c, "final")
  BY DEF Final
<1>6. ASSUME symmetric \/ state[c] PROVE FramesInv' /\ RootRests
  <2>1. ~Present(k) /\ continuation[c] = k /\ \A w \in Marks : ~At(k, w)
    <3>1. ~Present(k)
      BY <1>2, <1>3, <1>4, <1>6 DEF Handshake, Present, Inside, Lives, LifeOf
    <3> QED BY <1>0, <1>2, <1>3, <1>4, <3>1 DEF Handshake, Present, Inside, Lives, LifeOf
  <2>2. /\ awaits' = [awaits EXCEPT ![k] = None]
        /\ state'[c] \in BOOLEAN /\ state' = [state EXCEPT ![c] = state'[c]]
    BY <1>2, <1>6, <2>1 DEF Final, Continues, AwaitableTypeOK
  <2>3. /\ Stacks'
        /\ \A u \in Threads, b \in Frames, w \in Marks :
             On(u, b, w)' <=> \/ u = t /\ b = k /\ w = "body"
                              \/ On(u, b, w) /\ <<b, w>> # <<c, "final">>
        /\ \A b \in Frames, w \in Marks :
             At(b, w)' <=> (b = k /\ w = "body") \/ (At(b, w) /\ <<b, w>> # <<c, "final">>)
    <3>1. Append(<<>>, <<k, "body">>) = << <<k, "body">> >>
      OBVIOUS
    <3>2. Append(<< <<c, "resuming">> >>, <<k, "body">>) = << <<c, "resuming">>, <<k, "body">> >>
      BY AppendTwo, <<c, "resuming">> \in Entry, <<k, "body">> \in Entry DEF Entry, Marks, Inside
    <3>3. \/ Steps(t, << <<k, "body">> >>)
          \/ Steps(t, << <<c, "resuming">>, <<k, "body">> >>)
      BY <1>6, <2>1, <3>1, <3>2 DEF Final, Continues
    <3>4. CASE Steps(t, << <<k, "body">> >>)
      BY <1>0, <1>5, <2>1, <3>4, StepsOne
    <3>5. CASE Steps(t, << <<c, "resuming">>, <<k, "body">> >>)
      <4>1. "final" \in Marks /\ "body" \in Marks /\ "resuming" \notin Marks
        BY <1>0
      <4> QED BY <1>3, <1>5, <2>1, <3>5, <4>1, StepsTwo
    <3> QED BY <3>3, <3>4, <3>5
  <2>4. /\ \A b \in Frames, w \in Marks : b # c /\ b # k => (At(b, w)' <=> At(b, w))
        /\ \A w \in Marks : ~At(c, w)'
        /\ \A w \in Marks : At(k, w)' <=> w = "body"
    BY <1>1, <1>3, <2>1, <2>3
  <2>5. /\ ~Present(c)' /\ Present(k)'
        /\ \A b \in Frames : b # c /\ b # k => (Present(b)' <=> Present(b))
    BY <1>0, <2>4 DEF Present, Inside
  <2>6. AwaitableTypeOK'
    BY <1>5, <2>2, <2>3, StacksTyped DEF Stacks, AwaitableTypeOK
  <2>7. Lives'
    <3> SUFFICES ASSUME NEW b \in Frames PROVE LifeOf(b)'
      BY DEF Lives
    <3>1. LifeOf(b) /\ awaits'[b] = (IF b = k THEN None ELSE awaits[b])
      BY <2>2 DEF Lives, AwaitableTypeOK
    <3>2. CASE b = c
      BY <1>0, <1>2, <1>3, <1>5, <2>4, <3>1, <3>2 DEF LifeOf
    <3>3. CASE b = k
      BY <1>0, <1>4, <1>5, <2>4, <3>1, <3>3 DEF LifeOf
    <3>4. CASE b # c /\ b # k
      BY <1>0, <1>5, <2>4, <2>5, <3>1, <3>4 DEF LifeOf
    <3> QED BY <3>2, <3>3, <3>4
  <2>8. Owned'
    <3> SUFFICES ASSUME NEW a \in Coroutines
        PROVE /\ owner[a] # a /\ (owner[a] = None <=> life[a] = "none")
              /\ life[a] = "alive" \/ Present(a)' => awaits'[owner[a]] = a
              /\ life[a] \in {"none", "initial"} => ~state'[a]
      BY <1>5 DEF Owned
    <3>1. CASE a = c
      BY <1>2, <2>5, <3>1 DEF Owned
    <3>2. CASE a # c
      <4>1. state'[a] = state[a] /\ a \in Frames
        BY <2>2, <3>2 DEF AwaitableTypeOK, Frames
      <4>2. life[a] = "alive" \/ Present(a)' => awaits[owner[a]] = a /\ owner[a] # None
        BY <1>0, <1>4, <2>5, <3>2, <4>1 DEF Present, Inside, Lives, LifeOf, Owned
      <4>3. awaits[owner[a]] = a /\ owner[a] # None => awaits'[owner[a]] = a
        BY <1>3, <2>2, <3>2 DEF AwaitableTypeOK
      <4> QED BY <4>1, <4>2, <4>3 DEF Owned
    <3> QED BY <3>1, <3>2
  <2>9. Handshake'
    <3> SUFFICES ASSUME NEW b \in Frames, NEW a \in Coroutines, awaits'[b] = a
                 PROVE  /\ owner[a] = b /\ life[a] \in {"alive", "final"}
                        /\ ~Present(b)' => continuation[a] = b /\ ~Passed(a)'
                        /\ ~symmetric =>
                             /\ Present(b)' => (state'[a] <=> Passed(a)')
                             /\ At(b, "stored")' => continuation[a] = b
                             /\ ~Present(b)' => state'[a]
      BY <1>5 DEF Handshake
    <3>1. b # k /\ awaits[b] = a
      BY <2>2, AwaitableAssumption DEF AwaitableTypeOK, Frames
    <3>2. b # c
      BY <1>2, <3>1, AwaitableAssumption DEF Frames
    <3>3. a # c /\ a \in Frames
      BY <1>3, <3>1 DEF Handshake, Frames
    <3>4. Passed(a)' <=> Passed(a)
      <4>1. CASE a = k
        BY <1>0, <1>4, <1>5, <4>1 DEF Passed
      <4>2. CASE a # k
        BY <1>0, <1>5, <2>4, <3>3, <4>2 DEF Passed
      <4> QED BY <4>1, <4>2
    <3>5. state'[a] = state[a] /\ (At(b, "stored")' <=> At(b, "stored")) /\ (Present(b)' <=> Present(b))
      BY <1>0, <2>2, <2>4, <2>5, <3>1, <3>2, <3>3 DEF AwaitableTypeOK
    <3> QED BY <3>1, <3>4, <3>5 DEF Handshake
  <2>10. Chained'
    BY <1>2, <1>3, <1>4, <1>5, <2>2, ChainPops DEF AwaitableTypeOK
  <2>11. RootRests
    <3>1. \A u \in Threads : On(u, Root, "setting")' <=> On(u, Root, "setting")
      BY <1>0, <1>2, <2>3 DEF Frames
    <3>2. life[Root] \in {"final", "gone"} => Root # k
      BY <1>4
    <3> QED BY <1>2, <2>5, <3>1, <3>2 DEF Frames, RootRests
  <2> QED BY <2>3, <2>6, <2>7, <2>8, <2>9, <2>10, <2>11
<1>7. ASSUME ~symmetric, ~state[c] PROVE FramesInv' /\ RootRests
  <2>1. UNCHANGED awaits /\ Steps(t, <<>>) /\ state' = [state EXCEPT ![c] = TRUE]
    BY <1>7 DEF Final
  <2>2. /\ Stacks'
        /\ \A u \in Threads, b \in Frames, w \in Marks :
             On(u, b, w)' <=> On(u, b, w) /\ <<b, w>> # <<c, "final">>
        /\ \A b \in Frames, w \in Marks : At(b, w)' <=> At(b, w) /\ <<b, w>> # <<c, "final">>
    BY <1>0, <1>5, <2>1, StepsNone
  <2>3. /\ \A b \in Frames, w \in Marks : b # c => (At(b, w)' <=> At(b, w))
        /\ \A w \in Marks : ~At(c, w)'
    BY <1>1, <2>2
  <2>4. ~Present(c)' /\ \A b \in Frames : b # c => (Present(b)' <=> Present(b))
    BY <1>0, <2>3 DEF Present, Inside
  <2>5. AwaitableTypeOK'
    BY <1>5, <2>1, <2>2, StacksTyped DEF Stacks, AwaitableTypeOK
  <2>6. Present(k)
    BY <1>2, <1>3, <1>7 DEF Handshake
  <2>7. Lives'
    BY <1>0, <1>5, <2>1, <2>3, <2>4 DEF Lives, LifeOf
  <2>8. Owned'
    BY <1>2, <1>5, <2>1, <2>4 DEF Owned, Frames, AwaitableTypeOK
  <2>9. Handshake'
    <3> SUFFICES ASSUME NEW b \in Frames, NEW a \in Coroutines, awaits[b] = a
                 PROVE  /\ owner[a] = b /\ life[a] \in {"alive", "final"}
                        /\ ~Present(b)' => continuation[a] = b /\ ~Passed(a)'
                        /\ ~symmetric =>
                             /\ Present(b)' => (state'[a] <=> Passed(a)')
                             /\ At(b, "stored")' => continuation[a] = b
                             /\ ~Present(b)' => state'[a]
      BY <1>5, <2>1 DEF Handshake
    <3>1. b # c
      BY <1>2, AwaitableAssumption DEF Frames
    <3>2. (At(b, "stored")' <=> At(b, "stored")) /\ (Present(b)' <=> Present(b))
      BY <1>0, <2>3, <2>4, <3>1
    <3>3. CASE a = c
      <4>1. b = k
        BY <1>3, <3>3 DEF Handshake
      <4>2. Passed(a)' /\ state'[a]
        BY <1>0, <1>2, <1>5, <2>1, <2>3, <3>3 DEF Passed, AwaitableTypeOK
      <4> QED BY <2>6, <3>2, <4>1, <4>2 DEF Handshake
    <3>4. CASE a # c
      <4>1. (Passed(a)' <=> Passed(a)) /\ state'[a] = state[a]
        BY <1>0, <1>5, <2>1, <2>3, <3>4 DEF Passed, Frames, AwaitableTypeOK
      <4> QED BY <3>2, <4>1 DEF Handshake
    <3> QED BY <3>3, <3>4
  <2>10. Chained'
    BY <1>5, <2>1, ChainKept
  <2>11. RootRests
    BY <1>0, <2>2, <2>4 DEF Frames, RootRests
  <2> QED BY <2>2, <2>5, <2>7, <2>8, <2>9, <2>10, <2>11
<1> QED BY <1>6, <1>7

LEMMA ResumedKept ==
  ASSUME FramesInv, NEW t \in Threads, NEW c \in Frames, Resumed(t, c)
  PROVE  FramesInv' /\ RootRests
<1> USE DEF FramesInv
<1>0. \A w : w \in Marks <=> \/ w = "body" \/ w = "await" \/ w = "stored"
                             \/ w = "final" \/ w = "notify" \/ w = "setting"
  BY DEF Marks, Inside
<1>1. UNCHANGED <<symmetric, life, owner, continuation, state, storage, awaits, parked>>
  BY DEF Resumed
<1>2. /\ Stacks'
      /\ \A u \in Threads, b \in Frames, w \in Marks : On(u, b, w)' <=> On(u, b, w)
      /\ \A b \in Frames, w \in Marks : At(b, w)' <=> At(b, w)
  <2>1. "resuming" \notin Marks
    BY <1>0
  <2> QED BY <2>1, StepsNone DEF Resumed
<1>3. \A b \in Frames : Present(b)' <=> Present(b)
  BY <1>0, <1>2 DEF Present, Inside
<1>4. AwaitableTypeOK'
  BY <1>1, <1>2, StacksTyped DEF Stacks, AwaitableTypeOK
<1>5. Lives'
  BY <1>0, <1>1, <1>2, <1>3 DEF Lives, LifeOf
<1>6. Owned'
  BY <1>1, <1>3 DEF Owned, Frames
<1>7. Handshake'
  BY <1>0, <1>1, <1>2, <1>3 DEF Handshake, Passed, Frames
<1>8. Chained'
  BY <1>1, ChainKept
<1>9. RootRests
  BY <1>0, <1>2, <1>3 DEF Frames, RootRests
<1> QED BY <1>2, <1>4, <1>5, <1>6, <1>7, <1>8, <1>9

LEMMA ParkKept ==
  ASSUME FramesInv, NEW t \in Threads, NEW c \in Coroutines, Park(t, c)
  PROVE  FramesInv' /\ RootRests
<1> USE DEF FramesInv
<1>0. /\ \A w : w \in Marks <=> \/ w = "body" \/ w = "await" \/ w = "stored"
                                \/ w = "final" \/ w = "notify" \/ w = "setting"
      /\ c \in Frames /\ c # Root
  BY AwaitableAssumption DEF Marks, Inside, Frames
<1>1. At(c, "body") /\ \A w \in Marks : At(c, w) => w = "body"
  BY <1>0, OnePlace, RunsAt DEF Park
<1>2. UNCHANGED <<symmetric, life, owner, continuation, state, storage, awaits>> /\ parked' = parked \union {c}
  BY DEF Park
<1>3. /\ Stacks'
      /\ \A u \in Threads, b \in Frames, w \in Marks :
           On(u, b, w)' <=> On(u, b, w) /\ <<b, w>> # <<c, "body">>
      /\ \A b \in Frames, w \in Marks : At(b, w)' <=> At(b, w) /\ <<b, w>> # <<c, "body">>
  BY <1>0, StepsNone DEF Park
<1>4. /\ \A b \in Frames, w \in Marks : b # c => (At(b, w)' <=> At(b, w))
      /\ \A w \in Marks : ~At(c, w)'
  BY <1>0, <1>1, <1>3
<1>5. ~Present(c)' /\ \A b \in Frames : b # c => (Present(b)' <=> Present(b))
  BY <1>0, <1>4 DEF Present, Inside
<1>6. life[c] = "alive" /\ awaits[c] = None
  BY <1>0, <1>1 DEF Lives, LifeOf
<1>7. AwaitableTypeOK'
  BY <1>0, <1>2, <1>3, StacksTyped DEF Stacks, AwaitableTypeOK
<1>8. Lives'
  BY <1>0, <1>2, <1>4, <1>5, <1>6 DEF Lives, LifeOf
<1>9. Owned'
  BY <1>2, <1>5 DEF Owned, Frames
<1>10. Handshake'
  <2> SUFFICES ASSUME NEW b \in Frames, NEW a \in Coroutines, awaits[b] = a
               PROVE  /\ owner[a] = b /\ life[a] \in {"alive", "final"}
                      /\ ~Present(b)' => continuation[a] = b /\ ~Passed(a)'
                      /\ ~symmetric =>
                           /\ Present(b)' => (state[a] <=> Passed(a)')
                           /\ At(b, "stored")' => continuation[a] = b
                           /\ ~Present(b)' => state[a]
    BY <1>2 DEF Handshake
  <2>1. b # c
    BY <1>6, AwaitableAssumption DEF Frames
  <2>2. Passed(a)' <=> Passed(a)
    BY <1>0, <1>1, <1>2, <1>4 DEF Passed, Frames
  <2> QED BY <1>0, <1>4, <1>5, <2>1, <2>2 DEF Handshake
<1>11. Chained'
  BY <1>2, ChainKept
<1>12. RootRests
  BY <1>0, <1>3, <1>5 DEF Frames, RootRests
<1> QED BY <1>3, <1>7, <1>8, <1>9, <1>10, <1>11, <1>12

LEMMA UnparkKept ==
  ASSUME FramesInv, NEW t \in Threads, NEW c \in Coroutines, Unpark(t, c)
  PROVE  FramesInv' /\ RootRests
<1> USE DEF FramesInv
<1>0. /\ \A w : w \in Marks <=> \/ w = "body" \/ w = "await" \/ w = "stored"
                                \/ w = "final" \/ w = "notify" \/ w = "setting"
      /\ c \in Frames /\ c # Root
  BY AwaitableAssumption DEF Marks, Inside, Frames
<1>1. UNCHANGED <<symmetric, life, owner, continuation, state, storage, awaits>> /\ parked' = parked \ {c}
  BY DEF Unpark
<1>2. life[c] = "alive" /\ ~Present(c) /\ awaits[c] = None /\ \A w \in Marks : ~At(c, w)
  BY <1>0 DEF Unpark, Lives, LifeOf, Present, Inside
<1>3. /\ Stacks'
      /\ \A u \in Threads, b \in Frames, w \in Marks :
           On(u, b, w)' <=> On(u, b, w) \/ (u = t /\ b = c /\ w = "body")
      /\ \A b \in Frames, w \in Marks : At(b, w)' <=> At(b, w) \/ (b = c /\ w = "body")
  BY <1>0, <1>2, Resumes DEF Unpark
<1>4. /\ \A b \in Frames, w \in Marks : b # c => (At(b, w)' <=> At(b, w))
      /\ \A w \in Marks : At(c, w)' <=> w = "body"
  BY <1>0, <1>2, <1>3
<1>5. Present(c)' /\ \A b \in Frames : b # c => (Present(b)' <=> Present(b))
  BY <1>0, <1>4 DEF Present, Inside
<1>7. AwaitableTypeOK'
  BY <1>0, <1>1, <1>3, StacksTyped DEF Stacks, AwaitableTypeOK
<1>8. Lives'
  BY <1>0, <1>1, <1>2, <1>4, <1>5 DEF Lives, LifeOf
<1>9. Owned'
  BY <1>1, <1>2, <1>5 DEF Owned, Frames
<1>10. Handshake'
  <2> SUFFICES ASSUME NEW b \in Frames, NEW a \in Coroutines, awaits[b] = a
               PROVE  /\ owner[a] = b /\ life[a] \in {"alive", "final"}
                      /\ ~Present(b)' => continuation[a] = b /\ ~Passed(a)'
                      /\ ~symmetric =>
                           /\ Present(b)' => (state[a] <=> Passed(a)')
                           /\ At(b, "stored")' => continuation[a] = b
                           /\ ~Present(b)' => state[a]
    BY <1>1 DEF Handshake
  <2>1. b # c
    BY <1>2, AwaitableAssumption DEF Frames
  <2>2. Passed(a)' <=> Passed(a)
    BY <1>0, <1>1, <1>2, <1>4 DEF Passed, Frames
  <2> QED BY <1>0, <1>4, <1>5, <2>1, <2>2 DEF Handshake
<1>11. Chained'
  BY <1>1, ChainKept
<1>12. RootRests
  BY <1>0, <1>3, <1>5 DEF Frames, RootRests
<1> QED BY <1>3, <1>7, <1>8, <1>9, <1>10, <1>11, <1>12

LEMMA CreateKept ==
  ASSUME FramesInv, NEW t \in Threads, NEW c \in Coroutines, NEW d \in Coroutines, Create(t, c, d)
  PROVE  FramesInv' /\ RootRests
<1> USE AwaitableAssumption DEF FramesInv
<1>0. /\ \A w : w \in Marks <=> \/ w = "body" \/ w = "await" \/ w = "stored"
                                \/ w = "final" \/ w = "notify" \/ w = "setting"
      /\ c \in Frames /\ d \in Frames /\ d # Root /\ c # None
  BY DEF Marks, Inside, Frames
<1>1. /\ UNCHANGED <<symmetric, continuation, state, storage, awaits, parked, stack>>
      /\ life' = [life EXCEPT ![d] = "initial"] /\ owner' = [owner EXCEPT ![d] = c]
      /\ life[d] = "none"
  BY DEF Create
<1>2. life[c] = "alive" /\ c # d
  BY <1>0, <1>1, RunsAt DEF Create, Lives, LifeOf
<1>3. /\ \A u, b, w : On(u, b, w)' <=> On(u, b, w)
      /\ \A b, w : At(b, w)' <=> At(b, w)
      /\ \A b : Present(b)' <=> Present(b)
  BY <1>1 DEF On, At, Present
<1>4. ~Present(d) /\ d \notin parked /\ awaits[d] = None /\ ~state[d] /\ \A w \in Marks : ~At(d, w)
  BY <1>0, <1>1 DEF Lives, LifeOf, Owned, Present, Inside
<1>5. \A b \in Frames : awaits[b] # d
  BY <1>0, <1>1 DEF Handshake
<1>6. Stacks'
  BY <1>1 DEF Stacks
<1>7. AwaitableTypeOK'
  BY <1>0, <1>1 DEF AwaitableTypeOK
<1>8. Lives'
  BY <1>0, <1>1, <1>3, <1>4 DEF Lives, LifeOf, AwaitableTypeOK
<1>9. Owned'
  BY <1>0, <1>1, <1>2, <1>3, <1>4 DEF Owned, AwaitableTypeOK, Frames
<1>10. Handshake'
  <2> SUFFICES ASSUME NEW b \in Frames, NEW a \in Coroutines, awaits[b] = a
               PROVE  /\ owner'[a] = b /\ life'[a] \in {"alive", "final"}
                      /\ ~Present(b)' => continuation[a] = b /\ ~Passed(a)'
                      /\ ~symmetric =>
                           /\ Present(b)' => (state[a] <=> Passed(a)')
                           /\ At(b, "stored")' => continuation[a] = b
                           /\ ~Present(b)' => state[a]
    BY <1>1 DEF Handshake
  <2>1. a # d /\ life'[a] = life[a] /\ owner'[a] = owner[a]
    BY <1>1, <1>5 DEF AwaitableTypeOK, Frames
  <2>2. Passed(a)' <=> Passed(a)
    BY <1>3, <2>1 DEF Passed
  <2> QED BY <1>3, <2>1, <2>2 DEF Handshake
<1>11. Chained'
  BY <1>0, <1>1, ChainKept DEF AwaitableTypeOK
<1>12. RootRests
  BY <1>3 DEF RootRests
<1> QED BY <1>6, <1>7, <1>8, <1>9, <1>10, <1>11, <1>12

LEMMA DestroyKept ==
  ASSUME FramesInv, NEW t \in Threads, NEW c \in Coroutines, NEW d \in Coroutines, Destroy(t, c, d)
  PROVE  FramesInv' /\ RootRests
<1> USE AwaitableAssumption DEF FramesInv
<1>0. /\ \A w : w \in Marks <=> \/ w = "body" \/ w = "await" \/ w = "stored"
                                \/ w = "final" \/ w = "notify" \/ w = "setting"
      /\ c \in Frames /\ d \in Frames /\ d # Root /\ c # None /\ d # None
  BY DEF Marks, Inside, Frames
<1>1. /\ UNCHANGED <<symmetric, owner, continuation, state, storage, awaits, parked, stack>>
      /\ life' = [life EXCEPT ![d] = "gone"] /\ owner[d] = c
  BY DEF Destroy
<1>2. awaits[c] = None
  BY <1>0, RunsAt DEF Destroy, Lives, LifeOf
<1>3. /\ \A u, b, w : On(u, b, w)' <=> On(u, b, w)
      /\ \A b, w : At(b, w)' <=> At(b, w)
      /\ \A b : Present(b)' <=> Present(b)
  BY <1>1 DEF On, At, Present
<1>4. ~Present(d) /\ life[d] # "alive"
  BY <1>0, <1>1, <1>2 DEF Owned
<1>5. \A w \in Marks : ~At(d, w)
  BY <1>0, <1>4 DEF Lives, LifeOf, Present, Inside
<1>6. \A b \in Frames : awaits[b] # d
  BY <1>0, <1>1, <1>2 DEF Handshake
<1>7. Stacks' /\ AwaitableTypeOK'
  BY <1>0, <1>1 DEF Stacks, AwaitableTypeOK
<1>8. Lives'
  BY <1>0, <1>1, <1>3, <1>4, <1>5 DEF Lives, LifeOf, AwaitableTypeOK
<1>9. Owned'
  BY <1>0, <1>1, <1>3, <1>4 DEF Owned, AwaitableTypeOK, Frames
<1>10. Handshake'
  <2> SUFFICES ASSUME NEW b \in Frames, NEW a \in Coroutines, awaits[b] = a
               PROVE  /\ owner[a] = b /\ life'[a] \in {"alive", "final"}
                      /\ ~Present(b)' => continuation[a] = b /\ ~Passed(a)'
                      /\ ~symmetric =>
                           /\ Present(b)' => (state[a] <=> Passed(a)')
                           /\ At(b, "stored")' => continuation[a] = b
                           /\ ~Present(b)' => state[a]
    BY <1>1 DEF Handshake
  <2>1. a # d /\ life'[a] = life[a]
    BY <1>1, <1>6 DEF AwaitableTypeOK, Frames
  <2>2. Passed(a)' <=> Passed(a)
    BY <1>3, <2>1 DEF Passed
  <2> QED BY <1>3, <2>1, <2>2 DEF Handshake
<1>11. Chained'
  BY <1>0, <1>1, ChainKept DEF AwaitableTypeOK
<1>12. RootRests
  BY <1>3 DEF RootRests
<1> QED BY <1>7, <1>8, <1>9, <1>10, <1>11, <1>12

LEMMA ReturnKept ==
  ASSUME FramesInv, NEW t \in Threads, NEW c \in Coroutines, NEW how \in {"value", "error"},
         Return(t, c, how)
  PROVE  FramesInv' /\ RootRests
<1> USE AwaitableAssumption DEF FramesInv
<1>0. /\ \A w : w \in Marks <=> \/ w = "body" \/ w = "await" \/ w = "stored"
                                \/ w = "final" \/ w = "notify" \/ w = "setting"
      /\ c \in Frames /\ c # Root /\ c # None
  BY DEF Marks, Inside, Frames
<1>1. /\ UNCHANGED <<symmetric, owner, continuation, state, awaits, parked>>
      /\ life' = [life EXCEPT ![c] = "final"] /\ storage' = [storage EXCEPT ![c] = how]
      /\ how # "empty"
  BY DEF Return
<1>2. At(c, "body") /\ \A w \in Marks : At(c, w) => w = "body"
  BY <1>0, OnePlace, RunsAt DEF Return
<1>3. life[c] = "alive" /\ awaits[c] = None /\ Present(c) /\ c \notin parked /\ ~Passed(c)
  BY <1>0, <1>2 DEF Lives, LifeOf, Present, Inside, Passed
<1>4. /\ Stacks'
      /\ \A u \in Threads, b \in Frames, w \in Marks :
           On(u, b, w)' <=> \/ u = t /\ b = c /\ w = "final"
                            \/ On(u, b, w) /\ <<b, w>> # <<c, "body">>
      /\ \A b \in Frames, w \in Marks :
           At(b, w)' <=> (b = c /\ w = "final") \/ (At(b, w) /\ <<b, w>> # <<c, "body">>)
  BY <1>0, StepsOne DEF Return
<1>5. /\ \A b \in Frames, w \in Marks : b # c => (At(b, w)' <=> At(b, w))
      /\ \A w \in Marks : At(c, w)' <=> w = "final"
  BY <1>0, <1>2, <1>4
<1>6. \A b \in Frames : Present(b)' <=> Present(b)
  BY <1>0, <1>3, <1>5 DEF Present, Inside
<1>7. AwaitableTypeOK'
  BY <1>0, <1>1, <1>4, StacksTyped DEF Stacks, AwaitableTypeOK
<1>8. Lives'
  BY <1>0, <1>1, <1>3, <1>5, <1>6 DEF Lives, LifeOf, AwaitableTypeOK
<1>9. Owned'
  BY <1>0, <1>1, <1>3, <1>6 DEF Owned, AwaitableTypeOK, Frames
<1>10. Handshake'
  <2> SUFFICES ASSUME NEW b \in Frames, NEW a \in Coroutines, awaits[b] = a
               PROVE  /\ owner[a] = b /\ life'[a] \in {"alive", "final"}
                      /\ ~Present(b)' => continuation[a] = b /\ ~Passed(a)'
                      /\ ~symmetric =>
                           /\ Present(b)' => (state[a] <=> Passed(a)')
                           /\ At(b, "stored")' => continuation[a] = b
                           /\ ~Present(b)' => state[a]
    BY <1>1 DEF Handshake
  <2>1. life'[a] = IF a = c THEN "final" ELSE life[a]
    BY <1>1 DEF AwaitableTypeOK, Frames
  <2>2. Passed(a)' <=> Passed(a)
    BY <1>0, <1>3, <1>5, <2>1 DEF Passed, Frames
  <2>3. b # c
    BY <1>3 DEF Frames
  <2> QED BY <1>0, <1>5, <1>6, <2>1, <2>2, <2>3 DEF Handshake
<1>11. Chained'
  BY <1>0, <1>1, ChainKept DEF AwaitableTypeOK
<1>12. RootRests
  BY <1>0, <1>4, <1>6 DEF Frames, RootRests
<1> QED BY <1>4, <1>7, <1>8, <1>9, <1>10, <1>11, <1>12

LEMMA AwaitKept ==
  ASSUME FramesInv, NEW t \in Threads, NEW c \in Frames, NEW d \in Coroutines, Await(t, c, d)
  PROVE  FramesInv' /\ RootRests
<1> USE AwaitableAssumption DEF FramesInv
<1>0. /\ \A w : w \in Marks <=> \/ w = "body" \/ w = "await" \/ w = "stored"
                                \/ w = "final" \/ w = "notify" \/ w = "setting"
      /\ d \in Frames /\ d # Root /\ d # None
  BY DEF Marks, Inside, Frames
<1>1. /\ UNCHANGED <<symmetric, owner, state, storage, parked>>
      /\ life' = [life EXCEPT ![d] = "alive"] /\ awaits' = [awaits EXCEPT ![c] = d]
      /\ Runs(t, c, "body") /\ owner[d] = c /\ life[d] = "initial"
  BY DEF Await
<1>2. continuation' = IF symmetric THEN [continuation EXCEPT ![d] = c] ELSE continuation
  BY DEF Await
<1>3. At(c, "body") /\ \A w \in Marks : At(c, w) => w = "body"
  BY <1>0, <1>1, OnePlace, RunsAt
<1>4. /\ life[c] = "alive" /\ awaits[c] = None /\ Present(c) /\ c \notin parked
      /\ c # d /\ \A w \in Marks : ~At(d, w)
      /\ ~Present(d) /\ awaits[d] = None /\ d \notin parked /\ ~state[d]
  BY <1>0, <1>1, <1>3 DEF Lives, LifeOf, Present, Inside, Owned
<1>5. /\ Stacks'
      /\ \A u \in Threads, b \in Frames, w \in Marks :
           On(u, b, w)' <=> \/ u = t /\ b = d /\ w = "body"
                            \/ ~symmetric /\ u = t /\ b = c /\ w = "await"
                            \/ On(u, b, w) /\ <<b, w>> # <<c, "body">>
      /\ \A b \in Frames, w \in Marks :
           At(b, w)' <=> \/ b = d /\ w = "body"
                         \/ ~symmetric /\ b = c /\ w = "await"
                         \/ At(b, w) /\ <<b, w>> # <<c, "body">>
  <2>0. "body" \in Marks
    BY <1>0
  <2>1. CASE symmetric
    <3>1. Steps(t, << <<d, "body">> >>)
      BY <2>1 DEF Await
    <3>2. /\ Stacks'
          /\ \A u \in Threads, b \in Frames, w \in Marks :
               On(u, b, w)' <=> \/ u = t /\ b = d /\ w = "body"
                                \/ On(u, b, w) /\ <<b, w>> # <<c, "body">>
          /\ \A b \in Frames, w \in Marks :
               At(b, w)' <=> (b = d /\ w = "body") \/ (At(b, w) /\ <<b, w>> # <<c, "body">>)
      BY <1>0, <1>1, <1>4, <2>0, <3>1, StepsOne
    <3> QED BY <2>1, <3>2
  <2>2. CASE ~symmetric
    <3>1. Steps(t, << <<c, "await">>, <<d, "body">> >>)
      BY <2>2 DEF Await
    <3>2. /\ Stacks'
          /\ \A u \in Threads, b \in Frames, w \in Marks :
               On(u, b, w)' <=> \/ u = t /\ b = c /\ w = "await"
                                \/ u = t /\ b = d /\ w = "body"
                                \/ On(u, b, w) /\ <<b, w>> # <<c, "body">>
          /\ \A b \in Frames, w \in Marks :
               At(b, w)' <=> \/ b = c /\ w = "await"
                             \/ b = d /\ w = "body"
                             \/ At(b, w) /\ <<b, w>> # <<c, "body">>
      BY <1>0, <1>1, <1>4, <2>0, <3>1, StepsTwo
    <3> QED BY <2>2, <3>2
  <2> QED BY <2>1, <2>2
<1>6. /\ \A b \in Frames, w \in Marks : b # c /\ b # d => (At(b, w)' <=> At(b, w))
      /\ \A w \in Marks : At(c, w)' <=> ~symmetric /\ w = "await"
      /\ \A w \in Marks : At(d, w)' <=> w = "body"
  BY <1>0, <1>3, <1>4, <1>5
<1>7. /\ \A b \in Frames : b # c /\ b # d => (Present(b)' <=> Present(b))
      /\ Present(c)' <=> ~symmetric
      /\ Present(d)'
  BY <1>0, <1>6 DEF Present, Inside
<1>8. AwaitableTypeOK'
  BY <1>0, <1>1, <1>2, <1>5, StacksTyped DEF Stacks, AwaitableTypeOK, Frames
<1>9. Lives'
  BY <1>0, <1>1, <1>4, <1>6, <1>7 DEF Lives, LifeOf, AwaitableTypeOK
<1>10. Owned'
  BY <1>0, <1>1, <1>4, <1>7 DEF Owned, AwaitableTypeOK, Frames
<1>11. Handshake'
  <2> SUFFICES ASSUME NEW b \in Frames, NEW a \in Coroutines, awaits'[b] = a
               PROVE  /\ owner[a] = b /\ life'[a] \in {"alive", "final"}
                      /\ ~Present(b)' => continuation'[a] = b /\ ~Passed(a)'
                      /\ ~symmetric =>
                           /\ Present(b)' => (state[a] <=> Passed(a)')
                           /\ At(b, "stored")' => continuation'[a] = b
                           /\ ~Present(b)' => state[a]
    BY <1>1 DEF Handshake
  <2>1. CASE b = c
    <3>1. a = d /\ life'[d] = "alive" /\ ~Passed(d)'
      BY <1>0, <1>1, <2>1 DEF AwaitableTypeOK, Passed
    <3>2. ~At(c, "stored")' /\ (symmetric => continuation'[d] = c)
      BY <1>0, <1>2, <1>6 DEF AwaitableTypeOK
    <3> QED BY <1>1, <1>4, <1>7, <2>1, <3>1, <3>2
  <2>2. CASE b # c
    <3>1. awaits[b] = a /\ b # d
      BY <1>0, <1>1, <1>4, <2>2 DEF AwaitableTypeOK, Frames
    <3>2. a # d
      BY <1>1, <2>2, <3>1 DEF Handshake
    <3>3. life'[a] = life[a] /\ continuation'[a] = continuation[a]
      BY <1>1, <1>2, <3>2 DEF AwaitableTypeOK, Frames
    <3>4. Passed(a)' <=> Passed(a)
      <4>1. CASE a = c
        BY <1>4, <3>3, <4>1 DEF Passed
      <4>2. CASE a # c
        BY <1>0, <1>6, <3>2, <3>3, <4>2 DEF Passed, Frames
      <4> QED BY <4>1, <4>2
    <3>5. (At(b, "stored")' <=> At(b, "stored")) /\ (Present(b)' <=> Present(b))
      BY <1>0, <1>6, <1>7, <2>2, <3>1
    <3> QED BY <3>1, <3>3, <3>4, <3>5 DEF Handshake
  <2> QED BY <2>1, <2>2
<1>12. Chained'
  BY <1>0, <1>1, <1>4, ChainGrows DEF AwaitableTypeOK
<1>13. RootRests
  <2>1. life[Root] \in {"final", "gone"} => Root # c /\ Root \in Frames
    BY <1>4 DEF Frames
  <2>2. \A u \in Threads : On(u, Root, "setting")' <=> On(u, Root, "setting")
    BY <1>0, <1>5 DEF Frames
  <2> QED BY <1>0, <1>7, <2>1, <2>2 DEF RootRests
<1> QED BY <1>5, <1>8, <1>9, <1>10, <1>11, <1>12, <1>13

-------------------------------------------------------------------------------
(* sync_wait.                                                               *)
LEMMA InitInv == Init => TaskInv
<1> SUFFICES ASSUME Init PROVE TaskInv
  OBVIOUS
<1> USE AwaitableAssumption, TaskAssumption DEF Init
<1>1. stack \in [Threads -> Seq(Entry)] /\ \A t \in Threads : stack[t] = <<>> /\ DOMAIN stack[t] = {}
  OBVIOUS
<1>2. (\A t \in Threads : \A c, w : ~On(t, c, w)) /\ (\A c, w : ~At(c, w)) /\ (\A c : ~Present(c))
  BY <1>1 DEF On, At, Present
<1>3. Stacks
  BY <1>1 DEF Stacks
<1>4. TypeOK
  BY <1>1, StacksTyped DEF TypeOK, AwaitableTypeOK, EventTypeOK, EventInit, Frames
<1>5. Lives /\ Owned /\ Handshake
  BY <1>2 DEF Lives, LifeOf, Owned, Handshake, Frames
<1>6. Chained
  <2>1. PICK s \in [1..1 -> Frames] : s[1] = Root
    <3> DEFINE f == [i \in 1..1 |-> Root]
    <3>1. f \in [1..1 -> Frames] /\ f[1] = Root
      BY DEF Frames
    <3> QED BY <3>1
  <2>2. Chain(1, s)
    BY <2>1 DEF Chain, Frames
  <2>3. \E r \in [1..1 -> Frames] : Chain(1, r)
    BY <2>2
  <2>4. 1 \in Nat \ {0}
    OBVIOUS
  <2> QED BY <2>3, <2>4, Zenon DEF Chained
<1>7. Called
  BY <1>1, <1>2 DEF Called, EventInit, Frames, Waiting
<1> QED BY <1>3, <1>4, <1>5, <1>6, <1>7 DEF TaskInv, FramesInv, TypeOK

LEMMA FramesUnchanged ==
  ASSUME FramesInv, UNCHANGED frameVars
  PROVE  /\ FramesInv'
         /\ \A u, b, w : On(u, b, w)' <=> On(u, b, w)
         /\ \A b : Present(b)' <=> Present(b)
<1> USE DEF frameVars
<1>1. \A u, b, w : On(u, b, w)' <=> On(u, b, w)
  BY DEF On
<1>2. \A b, w : At(b, w)' <=> At(b, w)
  BY DEF At, On
<1>3. \A b : (Present(b)' <=> Present(b)) /\ (Passed(b)' <=> Passed(b))
  BY <1>2 DEF Present, Passed
<1>4. AwaitableTypeOK' /\ Stacks'
  BY DEF FramesInv, AwaitableTypeOK, Stacks
<1>5. Lives' /\ Owned' /\ Handshake'
  BY <1>2, <1>3 DEF FramesInv, Lives, LifeOf, Owned, Handshake
<1>6. Chained'
  BY DEF FramesInv, Chained, Chain
<1> QED BY <1>1, <1>3, <1>4, <1>5, <1>6 DEF FramesInv

(* When Root has let go of the event there is no other coroutine left.      *)
LEMMA RootLast ==
  ASSUME FramesInv, life[Root] \in {"final", "gone"}, ~Present(Root)
  PROVE  /\ parked = {}
         /\ \A c \in Frames : ~Present(c) /\ awaits[c] = None /\ life[c] # "alive"
<1> USE AwaitableAssumption DEF FramesInv
<1>0. PICK n \in Nat \ {0} : \E s \in [1..n -> Frames] : Chain(n, s)
  BY DEF Chained
<1>1. PICK s \in [1..n -> Frames] : Chain(n, s)
  BY <1>0
<1>2. awaits[Root] = None /\ Root \in Frames
  BY DEF Lives, LifeOf, Frames
<1>3. n = 1
  <2>1. SUFFICES ASSUME 1 \in 1..n - 1 PROVE FALSE
    OBVIOUS
  <2>2. awaits[s[1]] = s[2] /\ s[2] \in Frames
    BY <1>1, <2>1 DEF Chain
  <2> QED BY <1>1, <1>2, <2>2 DEF Chain, Frames
<1>4. \A c \in Frames : life[c] # "alive"
  BY <1>1, <1>3 DEF Chain
<1>5. \A c \in Frames : awaits[c] = None
  BY <1>4 DEF Lives, LifeOf
<1>6. ASSUME NEW c \in Frames, Present(c) PROVE FALSE
  <2>1. c \in Coroutines
    BY <1>6 DEF Frames
  <2>2. awaits[owner[c]] = c /\ owner[c] \in Frames
    <3>1. life[c] # "none"
      BY <1>6 DEF Present, Inside, Lives, LifeOf
    <3> QED BY <1>6, <2>1, <3>1 DEF Owned, AwaitableTypeOK
  <2> QED BY <1>5, <1>6, <2>2
<1>7. parked = {}
  BY <1>4 DEF Lives, LifeOf, AwaitableTypeOK
<1> QED BY <1>4, <1>5, <1>6, <1>7

LEMMA EventSteps ==
  ASSUME TaskInv, UNCHANGED frameVars, EventTypeOK', UNCHANGED <<event_state, result>>,
         \/ pc' = pc
         \/ pc = "started" /\ pc' = "wait",
         \A t \in Threads : at'[t] = "wake" <=> at[t] = "wake",
         \A t \in Threads : at'[t] \in Waiting => t = Waiter /\ pc' = "wait",
         pc' = "wait" => at'[Waiter] \in Waiting \/ event_state = 1
  PROVE  TaskInv'
<1>1. /\ FramesInv'
      /\ \A u, b, w : On(u, b, w)' <=> On(u, b, w)
      /\ \A b : Present(b)' <=> Present(b)
  BY FramesUnchanged DEF TaskInv
<1>2. Called'
  BY <1>1 DEF TaskInv, Called, frameVars
<1>3. TypeOK'
  BY <1>1 DEF TaskInv, TypeOK, FramesInv
<1> QED BY <1>1, <1>2, <1>3 DEF TaskInv

LEMMA WaiterInv ==
  ASSUME TaskInv, Started \/ Waits \/ Interrupted
  PROVE  TaskInv'
<1> USE TaskAssumption DEF Goes, Pc, Waiting, event
<1>1. /\ at \in [Threads -> Waiting \union {"idle", "wake"}] /\ seen \in [Threads -> BOOLEAN]
      /\ event_state \in {0, 1}
      /\ \A t \in Threads : at[t] \in Waiting => t = Waiter /\ pc = "wait"
      /\ pc = "wait" => at[Waiter] \in Waiting \/ event_state = 1
  BY DEF TaskInv, TypeOK, EventTypeOK, Called
<1>2. CASE Started
  BY <1>1, <1>2, EventSteps DEF Started, Wait, EventTypeOK
<1>3. CASE Waits
  BY <1>1, <1>3, EventSteps DEF Waits, Load, FutexWait, EventTypeOK
<1>4. CASE Interrupted
  BY <1>1, <1>4, EventSteps DEF Interrupted, Interrupt, EventTypeOK
<1> QED BY <1>2, <1>3, <1>4

LEMMA StartInv == TaskInv /\ Start => TaskInv'
<1> SUFFICES ASSUME TaskInv, Start PROVE TaskInv'
  OBVIOUS
<1> USE AwaitableAssumption, TaskAssumption DEF TaskInv, FramesInv, TypeOK
<1>0. /\ \A w : w \in Marks <=> \/ w = "body" \/ w = "await" \/ w = "stored"
                                \/ w = "final" \/ w = "notify" \/ w = "setting"
      /\ Root \in Frames /\ Root \notin Coroutines
  BY DEF Marks, Inside, Frames
<1>1. /\ life[Root] = "initial" /\ stack[Waiter] = <<>>
      /\ pc = "start" /\ pc' = "started" /\ life' = [life EXCEPT ![Root] = "alive"]
      /\ UNCHANGED <<symmetric, owner, continuation, state, storage, awaits, parked, event, result>>
  BY DEF Start, Pc, Called
<1>2. (\A w \in Marks : ~At(Root, w)) /\ awaits[Root] = None /\ Root \notin parked /\ ~Present(Root)
  BY <1>0, <1>1 DEF Lives, LifeOf, Present, Inside
<1>3. /\ Stacks'
      /\ \A u \in Threads, b \in Frames, w \in Marks :
           On(u, b, w)' <=> On(u, b, w) \/ (u = Waiter /\ b = Root /\ w = "body")
      /\ \A b \in Frames, w \in Marks : At(b, w)' <=> At(b, w) \/ (b = Root /\ w = "body")
  BY <1>0, <1>1, <1>2, Resumes DEF Start
<1>4. /\ \A b \in Frames, w \in Marks : b # Root => (At(b, w)' <=> At(b, w))
      /\ \A w \in Marks : At(Root, w)' <=> w = "body"
  BY <1>0, <1>2, <1>3
<1>5. \A b \in Frames : b # Root => (Present(b)' <=> Present(b))
  BY <1>0, <1>4 DEF Present, Inside
<1>6. AwaitableTypeOK' /\ TypeOK'
  BY <1>0, <1>1, <1>3, StacksTyped DEF Stacks, AwaitableTypeOK, EventTypeOK, event
<1>7. Lives'
  BY <1>0, <1>1, <1>2, <1>4, <1>5 DEF Lives, LifeOf, AwaitableTypeOK
<1>8. Owned'
  BY <1>0, <1>1, <1>5 DEF Owned, Frames, AwaitableTypeOK
<1>9. Handshake'
  <2> SUFFICES ASSUME NEW b \in Frames, NEW a \in Coroutines, awaits[b] = a
               PROVE  /\ owner[a] = b /\ life'[a] \in {"alive", "final"}
                      /\ ~Present(b)' => continuation[a] = b /\ ~Passed(a)'
                      /\ ~symmetric =>
                           /\ Present(b)' => (state[a] <=> Passed(a)')
                           /\ At(b, "stored")' => continuation[a] = b
                           /\ ~Present(b)' => state[a]
    BY <1>1 DEF Handshake
  <2>1. b # Root /\ a # Root /\ a \in Frames
    BY <1>0, <1>2 DEF Frames
  <2>2. (Passed(a)' <=> Passed(a)) /\ life'[a] = life[a]
    BY <1>0, <1>1, <1>4, <2>1 DEF Passed, AwaitableTypeOK
  <2> QED BY <1>0, <1>4, <1>5, <2>1, <2>2 DEF Handshake
<1>10. Chained'
  BY <1>1, ChainKept DEF AwaitableTypeOK
<1>11. Called'
  BY <1>0, <1>1, <1>3 DEF Called, AwaitableTypeOK, event
<1> QED BY <1>3, <1>6, <1>7, <1>8, <1>9, <1>10, <1>11

LEMMA GetValueInv == TaskInv /\ GetValue => TaskInv'
<1> SUFFICES ASSUME TaskInv, GetValue PROVE TaskInv'
  OBVIOUS
<1> USE AwaitableAssumption, TaskAssumption DEF TaskInv, FramesInv, TypeOK
<1>0. /\ \A w : w \in Marks <=> \/ w = "body" \/ w = "await" \/ w = "stored"
                                \/ w = "final" \/ w = "notify" \/ w = "setting"
      /\ Root \in Frames /\ Main \in Frames
  BY DEF Marks, Inside, Frames
<1>1. /\ pc = "wait" /\ pc' = "returned" /\ at[Waiter] = "idle" /\ result' = storage[Root]
      /\ life' = [life EXCEPT ![Root] = "gone", ![Main] = "gone"]
      /\ UNCHANGED <<symmetric, owner, continuation, state, storage, awaits, parked, stack, event>>
  BY DEF GetValue, Pc
<1>2. event_state = 1 /\ life[Root] = "final" /\ ~Present(Root) /\ storage[Root] # "empty"
      /\ storage[Root] = storage[Main] /\ life[Main] \in {"final", "gone"}
  BY <1>0, <1>1 DEF Called, Waiting, AwaitableTypeOK, Lives, LifeOf
<1>3. /\ parked = {}
      /\ \A c \in Frames : ~Present(c) /\ awaits[c] = None /\ life[c] # "alive"
  BY <1>2, RootLast
<1>4. /\ \A u, b, w : On(u, b, w)' <=> On(u, b, w)
      /\ \A b, w : At(b, w)' <=> At(b, w)
      /\ \A b : Present(b)' <=> Present(b)
  BY <1>1 DEF On, At, Present
<1>5. Stacks' /\ TypeOK'
  <2>1. Stacks'
    BY <1>1 DEF Stacks
  <2>2. AwaitableTypeOK'
    BY <1>0, <1>1 DEF AwaitableTypeOK
  <2>3. EventTypeOK'
    BY <1>1 DEF EventTypeOK, event
  <2>4. result' \in {"none", "empty", "value", "error"}
    BY <1>0, <1>1 DEF AwaitableTypeOK
  <2> QED BY <1>1, <2>1, <2>2, <2>3, <2>4
<1>6. Lives'
  <2>1. \A b \in Frames : ~At(b, "body") /\ ~At(b, "await") /\ ~At(b, "stored")
                          /\ ~At(b, "final") /\ ~At(b, "notify")
    BY <1>3 DEF Present, Inside
  <2> QED BY <1>0, <1>1, <1>3, <1>4, <2>1 DEF Lives, LifeOf, AwaitableTypeOK
<1>7. Owned'
  BY <1>0, <1>1, <1>2, <1>3, <1>4 DEF Owned, AwaitableTypeOK, Frames
<1>8. Handshake'
  BY <1>1, <1>3 DEF Handshake, Frames
<1>9. Chained'
  BY <1>0, <1>1, ChainKept DEF AwaitableTypeOK
<1>10. Called'
  <2>1. life'[Root] = "gone" /\ life'[Main] = "gone"
    BY <1>0, <1>1 DEF AwaitableTypeOK
  <2>2. \A u \in Threads : at'[u] = "wake" <=> On(u, Root, "setting")'
    BY <1>1, <1>4 DEF Called, event
  <2>3. \A u \in Threads : at'[u] \in Waiting => u = Waiter /\ pc' = "wait"
    BY <1>1 DEF Called, Waiting, event
  <2>4. ~Present(Root)' /\ event_state' = 1 /\ UNCHANGED storage /\ storage[Root] # "empty"
    BY <1>1, <1>2, <1>4 DEF event
  <2> QED BY <1>1, <1>2, <2>1, <2>2, <2>3, <2>4 DEF Called
<1> QED BY <1>5, <1>6, <1>7, <1>8, <1>9, <1>10

LEMMA YieldInv == ASSUME TaskInv, NEW t \in Threads, Yield(t) PROVE TaskInv'
<1> USE AwaitableAssumption, TaskAssumption DEF TaskInv, FramesInv, TypeOK
<1>0. /\ \A w : w \in Marks <=> \/ w = "body" \/ w = "await" \/ w = "stored"
                                \/ w = "final" \/ w = "notify" \/ w = "setting"
      /\ Root \in Frames /\ Main \in Frames /\ Root \notin Coroutines /\ Root # Main
  BY DEF Marks, Inside, Frames
<1>1. /\ life' = [life EXCEPT ![Root] = "final"] /\ storage' = [storage EXCEPT ![Root] = storage[Main]]
      /\ life[Main] = "final" /\ Runs(t, Root, "body")
      /\ UNCHANGED <<symmetric, owner, continuation, state, awaits, parked, event, pc, result>>
  BY DEF Yield
<1>2. At(Root, "body") /\ \A w \in Marks : At(Root, w) => w = "body"
  BY <1>0, <1>1, OnePlace, RunsAt
<1>3. life[Root] = "alive" /\ awaits[Root] = None /\ storage[Main] # "empty" /\ Root \notin parked /\ Present(Root)
  BY <1>0, <1>1, <1>2 DEF Lives, LifeOf, Present, Inside
<1>4. /\ Stacks'
      /\ \A u \in Threads, b \in Frames, w \in Marks :
           On(u, b, w)' <=> \/ u = t /\ b = Root /\ w = "notify"
                            \/ On(u, b, w) /\ <<b, w>> # <<Root, "body">>
      /\ \A b \in Frames, w \in Marks :
           At(b, w)' <=> (b = Root /\ w = "notify") \/ (At(b, w) /\ <<b, w>> # <<Root, "body">>)
  BY <1>0, StepsOne DEF Yield
<1>5. /\ \A b \in Frames, w \in Marks : b # Root => (At(b, w)' <=> At(b, w))
      /\ \A w \in Marks : At(Root, w)' <=> w = "notify"
  BY <1>0, <1>2, <1>4
<1>6. \A b \in Frames : Present(b)' <=> Present(b)
  BY <1>0, <1>3, <1>5 DEF Present, Inside
<1>7. TypeOK'
  BY <1>0, <1>1, <1>4, StacksTyped DEF Stacks, AwaitableTypeOK, EventTypeOK, event
<1>8. Lives'
  BY <1>0, <1>1, <1>3, <1>5, <1>6 DEF Lives, LifeOf, AwaitableTypeOK
<1>9. Owned'
  BY <1>0, <1>1, <1>6 DEF Owned, AwaitableTypeOK, Frames
<1>10. Handshake'
  <2> SUFFICES ASSUME NEW b \in Frames, NEW a \in Coroutines, awaits[b] = a
               PROVE  /\ owner[a] = b /\ life'[a] \in {"alive", "final"}
                      /\ ~Present(b)' => continuation[a] = b /\ ~Passed(a)'
                      /\ ~symmetric =>
                           /\ Present(b)' => (state[a] <=> Passed(a)')
                           /\ At(b, "stored")' => continuation[a] = b
                           /\ ~Present(b)' => state[a]
    BY <1>1 DEF Handshake
  <2>1. b # Root /\ a # Root /\ a \in Frames
    BY <1>0, <1>3 DEF Frames
  <2>2. (Passed(a)' <=> Passed(a)) /\ life'[a] = life[a]
    BY <1>0, <1>1, <1>5, <2>1 DEF Passed, AwaitableTypeOK
  <2> QED BY <1>0, <1>5, <1>6, <2>1, <2>2 DEF Handshake
<1>11. Chained'
  BY <1>1, ChainKept DEF AwaitableTypeOK
<1>12. Called'
  <2>1. \A u \in Threads : On(u, Root, "setting")' <=> On(u, Root, "setting")
    BY <1>0, <1>4
  <2>2. event_state # 1 /\ pc \notin {"start", "returned"}
    BY <1>3 DEF Called
  <2> QED BY <1>0, <1>1, <1>3, <2>1, <2>2 DEF Called, AwaitableTypeOK, event
<1> QED BY <1>4, <1>7, <1>8, <1>9, <1>10, <1>11, <1>12

LEMMA NotifyInv == ASSUME TaskInv, NEW t \in Threads, Notify(t) \/ Notified(t) PROVE TaskInv'
<1> USE AwaitableAssumption, TaskAssumption DEF TaskInv, FramesInv, TypeOK
<1>0. /\ \A w : w \in Marks <=> \/ w = "body" \/ w = "await" \/ w = "stored"
                                \/ w = "final" \/ w = "notify" \/ w = "setting"
      /\ Root \in Frames /\ Root \notin Coroutines
  BY DEF Marks, Inside, Frames
<1>1. PICK v \in {"notify", "setting"} :
        \/ v = "notify" /\ Notify(t)
        \/ v = "setting" /\ Notified(t)
  OBVIOUS
<1>2. /\ UNCHANGED <<symmetric, life, owner, continuation, state, storage, awaits, parked, pc, result>>
      /\ Runs(t, Root, v)
  BY <1>1 DEF Notify, Notified
<1>3. At(Root, v) /\ On(t, Root, v) /\ \A w \in Marks : At(Root, w) => w = v
  BY <1>0, <1>2, OnePlace, RunsAt, RunsOn
<1>4. /\ life[Root] \in {"final", "gone"} /\ awaits[Root] = None /\ Root \notin parked
      /\ (v = "notify" => life[Root] = "final")
  BY <1>0, <1>3 DEF Lives, LifeOf
<1>5. /\ Stacks'
      /\ \A u \in Threads, b \in Frames, w \in Marks :
           On(u, b, w)' <=> \/ v = "notify" /\ u = t /\ b = Root /\ w = "setting"
                            \/ On(u, b, w) /\ <<b, w>> # <<Root, v>>
      /\ \A b \in Frames, w \in Marks :
           At(b, w)' <=> \/ v = "notify" /\ b = Root /\ w = "setting"
                         \/ At(b, w) /\ <<b, w>> # <<Root, v>>
  <2>0. "notify" \in Marks /\ "setting" \in Marks
    BY <1>0
  <2>1. CASE v = "notify"
    <3>1. Steps(t, << <<Root, "setting">> >>)
      BY <1>1, <2>1 DEF Notify
    <3>2. /\ Stacks'
          /\ \A u \in Threads, b \in Frames, w \in Marks :
               On(u, b, w)' <=> \/ u = t /\ b = Root /\ w = "setting"
                                \/ On(u, b, w) /\ <<b, w>> # <<Root, v>>
          /\ \A b \in Frames, w \in Marks :
               At(b, w)' <=> (b = Root /\ w = "setting") \/ (At(b, w) /\ <<b, w>> # <<Root, v>>)
      BY <1>0, <1>2, <2>0, <3>1, StepsOne
    <3> QED BY <2>1, <3>2
  <2>2. CASE v = "setting"
    <3>1. Steps(t, <<>>)
      BY <1>1, <2>2 DEF Notified
    <3>2. /\ Stacks'
          /\ \A u \in Threads, b \in Frames, w \in Marks :
               On(u, b, w)' <=> On(u, b, w) /\ <<b, w>> # <<Root, v>>
          /\ \A b \in Frames, w \in Marks : At(b, w)' <=> At(b, w) /\ <<b, w>> # <<Root, v>>
      BY <1>0, <1>2, <2>0, <3>1, StepsNone
    <3> QED BY <2>2, <3>2
  <2> QED BY <2>1, <2>2
<1>6. /\ \A b \in Frames, w \in Marks : b # Root => (At(b, w)' <=> At(b, w))
      /\ \A w \in Marks : At(Root, w)' <=> v = "notify" /\ w = "setting"
  BY <1>0, <1>3, <1>5
<1>7. ~Present(Root)' /\ \A b \in Frames : b # Root => (Present(b)' <=> Present(b))
  BY <1>0, <1>6 DEF Present, Inside
<1>8. AwaitableTypeOK'
  BY <1>2, <1>5, StacksTyped DEF Stacks, AwaitableTypeOK
<1>9. Lives'
  BY <1>0, <1>2, <1>4, <1>6, <1>7 DEF Lives, LifeOf
<1>10. Owned'
  BY <1>0, <1>2, <1>7 DEF Owned, Frames
<1>11. Handshake'
  <2> SUFFICES ASSUME NEW b \in Frames, NEW a \in Coroutines, awaits[b] = a
               PROVE  /\ owner[a] = b /\ life[a] \in {"alive", "final"}
                      /\ ~Present(b)' => continuation[a] = b /\ ~Passed(a)'
                      /\ ~symmetric =>
                           /\ Present(b)' => (state[a] <=> Passed(a)')
                           /\ At(b, "stored")' => continuation[a] = b
                           /\ ~Present(b)' => state[a]
    BY <1>2 DEF Handshake
  <2>1. b # Root /\ a # Root /\ a \in Frames
    BY <1>0, <1>4 DEF Frames
  <2>2. Passed(a)' <=> Passed(a)
    BY <1>0, <1>2, <1>6, <2>1 DEF Passed
  <2> QED BY <1>0, <1>6, <1>7, <2>1, <2>2 DEF Handshake
<1>12. Chained'
  BY <1>2, ChainKept
<1>13. /\ at \in [Threads -> Waiting \union {"idle", "wake"}] /\ event_state \in {0, 1}
       /\ \A u \in Threads : at[u] = "wake" <=> On(u, Root, "setting")
       /\ \A u \in Threads : at[u] \in Waiting => u = Waiter /\ pc = "wait"
  BY DEF EventTypeOK, Called
<1>14. ASSUME NEW u \in Threads, On(u, Root, "setting") PROVE v = "setting" /\ u = t
  <2>1. "setting" \in Marks /\ v \in Marks
    BY <1>0
  <2> QED BY <1>0, <1>3, <1>14, <2>1, OneEntry
<1>15. CASE Notify(t)
  <2>1. v = "notify"
    <3>1. at[t] # "wake"
      BY <1>15, <1>13 DEF Notify, Set, Goes
    <3> QED BY <1>3, <1>13, <3>1
  <2>2. /\ at[t] = "idle" /\ at' = [at EXCEPT ![t] = "wake"] /\ event_state' = 1
        /\ seen' = [u \in Threads |-> TRUE]
    BY <1>15 DEF Notify, Set, Goes
  <2>3. EventTypeOK'
    BY <1>13, <2>2 DEF EventTypeOK
  <2>4. \A u \in Threads : at'[u] = "wake" <=> On(u, Root, "setting")'
    BY <1>0, <1>5, <1>13, <1>14, <2>1, <2>2
  <2>5. \A u \in Threads : at'[u] \in Waiting => u = Waiter /\ pc' = "wait"
    BY <1>2, <1>13, <2>2 DEF Waiting
  <2>6. life[Root] = "final" /\ pc \notin {"start", "returned"}
    BY <1>4, <2>1 DEF Called
  <2>7. Called'
    BY <1>2, <1>7, <2>2, <2>4, <2>5, <2>6 DEF Called
  <2> QED BY <1>2, <1>5, <1>8, <1>9, <1>10, <1>11, <1>12, <2>3, <2>7
<1>16. CASE Notified(t)
  <2>1. v = "setting"
    <3>1. at[t] = "wake"
      BY <1>16 DEF Notified, Wake
    <3> QED BY <1>13, <1>14, <3>1
  <2>2. /\ at' = [u \in Threads |-> IF u = t THEN "idle" ELSE IF at[u] = "asleep" THEN "load" ELSE at[u]]
        /\ UNCHANGED <<event_state, seen>>
    BY <1>16 DEF Notified, Wake
  <2>3. EventTypeOK'
    BY <1>13, <2>2 DEF EventTypeOK, Waiting
  <2>4. \A u \in Threads : at'[u] = "wake" <=> On(u, Root, "setting")'
    BY <1>0, <1>5, <1>13, <1>14, <2>1, <2>2
  <2>5. \A u \in Threads : at'[u] \in Waiting => u = Waiter /\ pc' = "wait"
    BY <1>2, <1>13, <2>2 DEF Waiting
  <2>6. pc = "wait" => at'[Waiter] \in Waiting \/ event_state = 1
    <3>1. at[Waiter] \in Waiting => Waiter # t
      BY <1>3, <1>13, <2>1 DEF Waiting
    <3> QED BY <2>2, <3>1 DEF Called, Waiting
  <2>7. pc # "start"
    BY <1>4 DEF Called
  <2>8. Called'
    BY <1>2, <1>7, <2>2, <2>4, <2>5, <2>6, <2>7 DEF Called
  <2> QED BY <1>2, <1>5, <1>8, <1>9, <1>10, <1>11, <1>12, <2>3, <2>8
<1> QED BY <1>15, <1>16

(* The steps of coroutines that neither Root nor sync_wait takes.           *)
LEMMA OthersInv ==
  ASSUME TaskInv, NEW t \in Threads, AwaitMain(t) \/ Others(t)
  PROVE  TaskInv'
<1> USE AwaitableAssumption, TaskAssumption DEF TaskInv, FramesInv, TypeOK
<1>0. UNCHANGED <<event, pc, result>> /\ Root \in Frames /\ Root \notin Coroutines /\ Main # Root
  BY DEF AwaitMain, Others, Frames
<1>1. ASSUME FramesInv', RootRests, life'[Root] = life[Root], storage'[Root] = storage[Root],
             life[Root] \in {"final", "gone"} =>
               storage'[Main] = storage[Main] /\ life'[Main] \in {"final", "gone"},
             stack[Waiter] = <<>> => stack'[Waiter] = <<>> \/ life[Root] # "initial"
      PROVE  TaskInv'
  <2>1. Called'
    BY <1>0, <1>1, CalledKept DEF RootRests
  <2> QED BY <1>0, <1>1, <2>1 DEF EventTypeOK, event
<1>2. ASSUME NEW c \in Frames, NEW v, Runs(t, c, v), NEW e, Steps(t, e)
      PROVE  stack[Waiter] = <<>> => stack'[Waiter] = <<>>
  BY <1>2 DEF Runs, Steps, Stacks
<1>3. life[Root] \in {"final", "gone"} => life[Main] \in {"final", "gone"}
  BY DEF Called
<1>4. ASSUME NEW c \in Frames, NEW d \in Coroutines, Await(t, c, d) PROVE TaskInv'
  <2>1. FramesInv' /\ RootRests
    BY <1>4, AwaitKept
  <2>2. stack[Waiter] = <<>> => stack'[Waiter] = <<>>
    BY <1>2, <1>4 DEF Await
  <2>3. life' = [life EXCEPT ![d] = "alive"] /\ storage' = storage /\ life[d] = "initial"
    BY <1>4 DEF Await
  <2> QED BY <1>0, <1>1, <1>3, <2>1, <2>2, <2>3 DEF AwaitableTypeOK, Frames
<1>5. ASSUME NEW c \in Frames, Store(t, c) \/ Exchange(t, c) \/ Final(t, c) \/ Resumed(t, c)
      PROVE  TaskInv'
  <2>1. FramesInv' /\ RootRests
    BY <1>5, StoreKept, ExchangeKept, FinalKept, ResumedKept
  <2>2. stack[Waiter] = <<>> => stack'[Waiter] = <<>>
    BY <1>2, <1>5 DEF Store, Exchange, Final, Resumed, Continues
  <2>3. life' = life /\ storage' = storage
    BY <1>5 DEF Store, Exchange, Final, Resumed
  <2> QED BY <1>1, <1>3, <2>1, <2>2, <2>3
<1>6. ASSUME NEW c \in Coroutines, NEW d \in Coroutines, Create(t, c, d) \/ Destroy(t, c, d)
      PROVE  TaskInv'
  <2>1. FramesInv' /\ RootRests
    BY <1>6, CreateKept, DestroyKept
  <2>2. stack' = stack /\ storage' = storage
    BY <1>6 DEF Create, Destroy
  <2>3. life[Root] \in {"final", "gone"} => life'[Main] \in {"final", "gone"}
    BY <1>3, <1>6 DEF Create, Destroy, AwaitableTypeOK, Frames
  <2>4. life'[Root] = life[Root]
    BY <1>0, <1>6 DEF Create, Destroy, AwaitableTypeOK
  <2> QED BY <1>1, <2>1, <2>2, <2>3, <2>4
<1>7. ASSUME NEW c \in Coroutines, Park(t, c) PROVE TaskInv'
  <2>1. FramesInv' /\ RootRests
    BY <1>7, ParkKept
  <2>2. stack[Waiter] = <<>> => stack'[Waiter] = <<>>
    BY <1>2, <1>7 DEF Park, Frames
  <2>3. life' = life /\ storage' = storage
    BY <1>7 DEF Park
  <2> QED BY <1>1, <1>3, <2>1, <2>2, <2>3
<1>8. ASSUME NEW c \in Coroutines, NEW how \in {"value", "error"}, Return(t, c, how) PROVE TaskInv'
  <2>1. FramesInv' /\ RootRests
    BY <1>8, ReturnKept
  <2>2. stack[Waiter] = <<>> => stack'[Waiter] = <<>>
    BY <1>2, <1>8 DEF Return, Frames
  <2>3. life[c] = "alive"
    BY <1>8, RunsAt DEF Return, Lives, LifeOf, Frames
  <2>4. life' = [life EXCEPT ![c] = "final"] /\ storage' = [storage EXCEPT ![c] = how]
    BY <1>8 DEF Return
  <2> QED BY <1>0, <1>1, <1>3, <2>1, <2>2, <2>3, <2>4 DEF AwaitableTypeOK, Frames
<1>9. ASSUME NEW c \in Coroutines, t # Waiter, Unpark(t, c) PROVE TaskInv'
  <2>1. FramesInv' /\ RootRests
    BY <1>9, UnparkKept
  <2>2. stack'[Waiter] = stack[Waiter] /\ life' = life /\ storage' = storage
    BY <1>9 DEF Unpark, Stacks
  <2> QED BY <1>1, <1>3, <2>1, <2>2
<1>10. CASE AwaitMain(t)
  BY <1>0, <1>4, <1>10 DEF AwaitMain
<1>11. CASE Others(t)
  <2>1. CASE Body(t)
    BY <1>4, <1>6, <1>7, <1>8, <2>1 DEF Body, Frames
  <2>2. CASE Proceeds(t)
    BY <1>5, <2>2 DEF Proceeds
  <2>3. CASE \E c \in Coroutines : t # Waiter /\ Unpark(t, c)
    BY <1>9, <2>3
  <2> QED BY <1>11, <2>1, <2>2, <2>3 DEF Others
<1> QED BY <1>10, <1>11

LEMMA NextInv == TaskInv /\ [Next]_vars => TaskInv'
<1> SUFFICES ASSUME TaskInv, [Next]_vars PROVE TaskInv'
  OBVIOUS
<1>1. CASE Start
  BY <1>1, StartInv
<1>2. CASE Started \/ Waits \/ Interrupted
  BY <1>2, WaiterInv
<1>3. CASE GetValue
  BY <1>3, GetValueInv
<1>4. ASSUME NEW t \in Threads, AwaitMain(t) \/ Yield(t) \/ Notify(t) \/ Notified(t) \/ Others(t)
      PROVE  TaskInv'
  BY <1>4, OthersInv, YieldInv, NotifyInv
<1>5. CASE UNCHANGED vars
  <2>1. /\ FramesInv'
        /\ \A u, b, w : On(u, b, w)' <=> On(u, b, w)
        /\ \A b : Present(b)' <=> Present(b)
    BY <1>5, FramesUnchanged DEF TaskInv, vars
  <2> QED BY <1>5, <2>1 DEF TaskInv, TypeOK, FramesInv, Called, EventTypeOK, vars, frameVars, event
<1> QED BY <1>1, <1>2, <1>3, <1>4, <1>5 DEF Next

LEMMA TaskInvariant == Spec => []TaskInv
<1>1. Init => TaskInv
  BY InitInv
<1>2. TaskInv /\ [Next]_vars => TaskInv'
  BY NextInv
<1> QED BY <1>1, <1>2, PTL DEF Spec

-------------------------------------------------------------------------------
(* What the invariant says in the words of the runs.                        *)
LEMMA AtMostOne ==
  ASSUME NEW S, \A x, y \in S : x = y
  PROVE  Cardinality(S) <= 1
<1>1. CASE S = {}
  BY <1>1, FS_EmptySet
<1>2. ASSUME NEW x \in S PROVE Cardinality(S) <= 1
  <2>1. S = {x}
    OBVIOUS
  <2> QED BY <2>1, FS_Singleton
<1> QED BY <1>1, <1>2

LEMMA EntriesAre ==
  ASSUME Stacks, NEW c \in Frames
  PROVE  /\ \A p \in Entries(c) : \E w \in Inside : At(c, w) /\ stack[p[1]][p[2]][2] = w
         /\ \A p, q \in Entries(c) : p = q
<1>1. ASSUME NEW p \in Entries(c)
      PROVE  /\ p = <<p[1], p[2]>> /\ p[1] \in Threads /\ p[2] \in DOMAIN stack[p[1]]
             /\ stack[p[1]][p[2]][1] = c /\ stack[p[1]][p[2]][2] \in Inside
             /\ stack[p[1]][p[2]] = <<c, stack[p[1]][p[2]][2]>>
  <2>1. PICK t \in Threads : p \in {t} \X DOMAIN stack[t]
    BY <1>1 DEF Entries
  <2>2. p = <<p[1], p[2]>> /\ p[1] = t /\ p[2] \in DOMAIN stack[t]
    BY <2>1
  <2>3. stack[p[1]][p[2]] \in {c} \X Inside
    BY <1>1 DEF Entries
  <2> QED BY <2>2, <2>3
<1>2. ASSUME NEW p \in Entries(c) PROVE \E w \in Inside : At(c, w) /\ stack[p[1]][p[2]][2] = w
  BY <1>1, <1>2 DEF At, On
<1>3. ASSUME NEW p \in Entries(c), NEW q \in Entries(c) PROVE p = q
  <2>1. p[1] = q[1] /\ p[2] = q[2]
    BY <1>1 DEF Stacks, Marks
  <2> QED BY <1>1, <2>1
<1> QED BY <1>2, <1>3

LEMMA OneRunnerFollows == TaskInv => OneRunner
<1> SUFFICES ASSUME TaskInv, NEW c \in Frames
             PROVE  /\ Cardinality(Entries(c)) <= 1
                    /\ c \in parked => Entries(c) = {} /\ awaits[c] = None
                    /\ awaits[c] # None => \A p \in Entries(c) : stack[p[1]][p[2]][2] \in {"await", "stored"}
  BY DEF OneRunner
<1> USE DEF TaskInv, FramesInv
<1>1. /\ \A p \in Entries(c) : \E w \in Inside : At(c, w) /\ stack[p[1]][p[2]][2] = w
      /\ \A p, q \in Entries(c) : p = q
  BY EntriesAre
<1>2. Cardinality(Entries(c)) <= 1
  BY <1>1, AtMostOne
<1>3. c \in parked => Entries(c) = {} /\ awaits[c] = None
  BY <1>1 DEF Lives, LifeOf, Present
<1>4. awaits[c] # None => \A w \in Inside : At(c, w) => w \in {"await", "stored"}
  BY AwaitableAssumption DEF Lives, LifeOf, Inside
<1> QED BY <1>1, <1>2, <1>3, <1>4

LEMMA FramesAliveFollows == TaskInv => FramesAlive
<1> SUFFICES ASSUME TaskInv, NEW c \in Frames, Entries(c) # {} \/ c \in parked \/ awaits[c] # None
             PROVE  /\ life[c] \in {"alive", "final"}
                    /\ awaits[c] # None => life[awaits[c]] # "gone"
  BY DEF FramesAlive
<1> USE DEF TaskInv, FramesInv
<1>1. Entries(c) # {} => \E w \in Inside : At(c, w)
  BY EntriesAre
<1>2. life[c] \in {"alive", "final"}
  BY <1>1 DEF Lives, LifeOf, Inside
<1>3. awaits[c] # None => life[awaits[c]] # "gone"
  BY DEF Handshake, AwaitableTypeOK
<1> QED BY <1>2, <1>3

LEMMA ReturnsAloneFollows == TaskInv => ReturnsAlone
<1> SUFFICES ASSUME TaskInv, pc = "returned"
             PROVE  /\ result = storage[Main] /\ result # "empty"
                    /\ parked = {} /\ \A c \in Frames : Entries(c) = {} /\ awaits[c] = None
                    /\ Cardinality({t \in Threads : at[t] # "idle"}) <= 1
  BY DEF ReturnsAlone
<1> USE DEF TaskInv, FramesInv
<1>1. life[Root] = "gone" /\ ~Present(Root) /\ result = storage[Main] /\ result # "empty"
  BY DEF Called
<1>2. /\ parked = {}
      /\ \A c \in Frames : ~Present(c) /\ awaits[c] = None /\ life[c] # "alive"
  BY <1>1, RootLast
<1>3. \A c \in Frames : Entries(c) = {}
  BY <1>2, EntriesAre DEF Present
<1>4. \A t \in Threads : at[t] # "idle" => On(t, Root, "setting")
  BY DEF TypeOK, EventTypeOK, Called
<1>5. \A t, u \in Threads : On(t, Root, "setting") /\ On(u, Root, "setting") => t = u
  BY OneEntry DEF Frames, Marks
<1>6. Cardinality({t \in Threads : at[t] # "idle"}) <= 1
  BY <1>4, <1>5, AtMostOne
<1> QED BY <1>1, <1>2, <1>3, <1>6

(* Every variable keeps its type.                                           *)
THEOREM TaskTypeCorrect == Spec => []TypeOK
<1>1. TaskInv => TypeOK
  BY DEF TaskInv
<1> QED BY <1>1, TaskInvariant, PTL

(* A coroutine never runs twice at once, nor runs while it is suspended:    *)
(* whoever comes first to the exchange in the handshake, it is resumed once.*)
THEOREM NeverTwoRunners == Spec => []OneRunner
  BY TaskInvariant, OneRunnerFollows, PTL

(* No frame is used that has been destroyed, whatever coroutines create,    *)
(* await and destroy.                                                       *)
THEOREM FramesStayAlive == Spec => []FramesAlive
  BY TaskInvariant, FramesAliveFollows, PTL

(* When sync_wait returns it has Main's result, and nothing is left of the  *)
(* coroutines but at most one system call.                                  *)
THEOREM NothingOutlivesSyncWait == Spec => []ReturnsAlone
  BY TaskInvariant, ReturnsAloneFollows, PTL

LEMMA GoesOnAfterResult ==
  ASSUME TaskInv, [Next]_vars, NEW k \in Frames, awaits[k] # None, awaits'[k] = None
  PROVE  life[awaits[k]] = "final" /\ storage[awaits[k]] # "empty"
<1> USE AwaitableAssumption DEF TaskInv, FramesInv
<1>1. PICK d \in Coroutines : awaits[k] = d /\ d \in Frames /\ d # None
  BY DEF AwaitableTypeOK, Frames
<1>2. SUFFICES life[d] = "final"
  BY <1>1 DEF Lives, LifeOf
<1>3. \/ \E t \in Threads, c \in Frames, a \in Coroutines : Await(t, c, a)
      \/ \E t \in Threads, c \in Frames : Exchange(t, c) \/ Final(t, c)
  <2>1. awaits' # awaits
    BY <1>1
  <2> QED BY <2>1, TaskAssumption
       DEF Next, Start, Started, Waits, Interrupted, GetValue, AwaitMain, Yield, Notify, Notified,
           Others, Body, Proceeds, Create, Destroy, Park, Unpark, Return, Store, Resumed,
           vars, frameVars, Frames
<1>4. ASSUME NEW t \in Threads, NEW c \in Frames, NEW a \in Coroutines, Await(t, c, a) PROVE FALSE
  BY <1>1, <1>4 DEF Await, AwaitableTypeOK, Frames
<1>5. ASSUME NEW t \in Threads, NEW c \in Frames, Exchange(t, c) PROVE life[d] = "final"
  <2>1. k = c /\ state[d]
    BY <1>1, <1>5 DEF Exchange, AwaitableTypeOK
  <2>2. At(c, "stored")
    BY <1>5, RunsAt DEF Exchange
  <2> QED BY <1>1, <2>1, <2>2 DEF Handshake, Lives, LifeOf, Passed, Present, Inside
<1>6. ASSUME NEW t \in Threads, NEW c \in Frames, Final(t, c) PROVE life[d] = "final"
  <2>1. k = continuation[c] /\ (symmetric \/ state[c])
    BY <1>1, <1>6 DEF Final, Continues, AwaitableTypeOK
  <2>2. At(c, "final") /\ life[c] = "final" /\ c \in Coroutines /\ Present(c)
    <3>1. At(c, "final")
      BY <1>6, RunsAt DEF Final
    <3> QED BY <3>1 DEF Lives, LifeOf, Frames, Present, Inside
  <2>3. PICK j \in Frames : j = owner[c] /\ awaits[j] = c
    BY <2>2 DEF Owned, AwaitableTypeOK
  <2>4. ~Present(j)
    BY <2>1, <2>2, <2>3 DEF Handshake, Passed, Present, Inside, Lives, LifeOf, Frames
  <2>5. continuation[c] = j
    BY <2>2, <2>3, <2>4 DEF Handshake
  <2> QED BY <1>1, <2>1, <2>2, <2>3, <2>5
<1> QED BY <1>3, <1>4, <1>5, <1>6

(* A co_await goes on only when what it awaits has suspended for the last   *)
(* time and has left a value or an exception.                               *)
THEOREM AwaitSeesResult == Spec => ResultIsThere
<1>1. TaskInv /\ [Next]_vars =>
        [\A c \in Frames : awaits[c] # None /\ awaits'[c] = None =>
           life[awaits[c]] = "final" /\ storage[awaits[c]] # "empty"]_frameVars
  BY GoesOnAfterResult
<1> QED BY <1>1, TaskInvariant, PTL DEF Spec, ResultIsThere
-------------------------------------------------------------------------------
(* What is proved of the event by itself.                                   *)
Event == INSTANCE ManualResetEventProofs

(* Each step of sync_wait and of the coroutine that ends it is one of the    *)
(* event's, or leaves the event alone: what is proved of the event holds.    *)
LEMMA EventStep == [Next]_vars => [Event!EventNext]_Event!eventVars
<1> SUFFICES ASSUME [Next]_vars PROVE [Event!EventNext]_Event!eventVars
  OBVIOUS
<1> USE TaskAssumption DEF Event!EventNext, Event!eventVars, event
<1>1. CASE Started
  <2>1. Event!Wait(Waiter)
    BY <1>1 DEF Started, Wait, Goes, Event!Wait, Event!Goes
  <2> QED BY <2>1
<1>2. CASE Waits
  <2>1. Event!Load(Waiter) \/ Event!FutexWait(Waiter)
    BY <1>2 DEF Waits, Load, FutexWait, Goes, Event!Load, Event!FutexWait, Event!Goes
  <2> QED BY <2>1
<1>3. CASE Interrupted
  <2>1. Event!Interrupt(Waiter)
    BY <1>3 DEF Interrupted, Interrupt, Goes, Event!Interrupt, Event!Goes
  <2> QED BY <2>1
<1>4. ASSUME NEW t \in Threads, Notify(t) PROVE Event!EventNext
  <2>1. Event!Set(t)
    BY <1>4 DEF Notify, Set, Goes, Event!Set, Event!Goes
  <2> QED BY <2>1
<1>5. ASSUME NEW t \in Threads, Notified(t) PROVE Event!EventNext
  <2>1. Event!Wake(t)
    BY <1>5 DEF Notified, Wake, Event!Wake
  <2> QED BY <2>1
<1>6. CASE \/ Start \/ GetValue \/ UNCHANGED vars
           \/ \E t \in Threads : AwaitMain(t) \/ Yield(t) \/ Others(t)
  BY <1>6 DEF Start, GetValue, AwaitMain, Yield, Others, vars
<1> QED BY <1>1, <1>2, <1>3, <1>4, <1>5, <1>6 DEF Next

(* For any coroutines, threads and build, sync_wait of an awaitable uses its *)
(* event only through set(), reset() and wait(), one call per thread, so that *)
(* every theorem about the event holds of it inside sync_wait.               *)
THEOREM TaskKeepsEvent == Spec => Event!EventSpec
<1>1. Init => Event!EventInit
  BY DEF Init, EventInit, Event!EventInit
<1> QED BY <1>1, EventStep, PTL DEF Spec, Event!EventSpec


(* What a step on one stack leaves of the entries there are, and adds.      *)
LEMMA EntriesStay ==
  ASSUME Stacks, NEW t \in Threads, NEW c \in Frames, NEW v, Runs(t, c, v),
         NEW e \in Seq(Entry), Steps(t, e)
  PROVE  /\ \A b \in Frames, w \in Marks : At(b, w) /\ <<b, w>> # <<c, v>> => At(b, w)'
         /\ \A b \in Frames, w \in Marks, k \in DOMAIN e : e[k] = <<b, w>> => At(b, w)'
<1>1. PICK n \in Nat \ {0} :
        /\ n = Len(stack[t]) /\ stack[t][n] = <<c, v>>
        /\ stack' \in [Threads -> Seq(Entry)]
        /\ \A u \in Threads : u # t => stack'[u] = stack[u]
        /\ Joins(stack'[t], stack[t], n - 1, e)
  BY Replaced DEF Runs, Stacks
<1>2. ASSUME NEW b \in Frames, NEW w \in Marks, At(b, w), <<b, w>> # <<c, v>> PROVE At(b, w)'
  <2>0. PICK u \in Threads : On(u, b, w)
    BY <1>2 DEF At
  <2>1. PICK i \in DOMAIN stack[u] : stack[u][i] = <<b, w>>
    BY <2>0 DEF On
  <2>2. CASE u # t
    <3>1. i \in DOMAIN stack'[u] /\ stack'[u][i] = <<b, w>>
      BY <1>1, <2>1, <2>2
    <3> QED BY <3>1 DEF At, On
  <2>3. CASE u = t
    <3>1. i \in 1..n - 1
      BY <1>1, <1>2, <2>1, <2>3 DEF Stacks
    <3>2. i \in DOMAIN stack'[t] /\ stack'[t][i] = <<b, w>>
      BY <1>1, <2>1, <2>3, <3>1 DEF Joins
    <3> QED BY <3>2 DEF At, On
  <2> QED BY <2>2, <2>3
<1>3. ASSUME NEW b \in Frames, NEW w \in Marks, NEW k \in DOMAIN e, e[k] = <<b, w>> PROVE At(b, w)'
  <2>1. n - 1 + k \in DOMAIN stack'[t] /\ stack'[t][n - 1 + k] = <<b, w>>
    BY <1>1, <1>3 DEF Joins
  <2> QED BY <2>1 DEF At, On
<1> QED BY <1>2, <1>3

LEMMA BodiesStay ==
  ASSUME Stacks, NEW t \in Threads, NEW c \in Frames, NEW v, Runs(t, c, v),
         NEW e \in Seq(Entry), Steps(t, e)
  PROVE  /\ \A b \in Frames : At(b, "body") /\ <<b, "body">> # <<c, v>> => At(b, "body")'
         /\ \A b \in Frames, k \in DOMAIN e : e[k] = <<b, "body">> => At(b, "body")'
<1>1. "body" \in Marks
  BY DEF Marks, Inside
<1> QED BY <1>1, EntriesStay

(* A coroutine that has begun, and waits for no other, runs or is suspended *)
(* in something else that will resume it; and Root, when it is over, has    *)
(* set the event or is about to.                                            *)
Resumable ==
  \A c \in Frames : life[c] = "alive" /\ awaits[c] = None => c \in parked \/ At(c, "body")

Signalled == life[Root] = "final" => At(Root, "notify") \/ event_state = 1

(* The sequences of one entry and of two, by which stacks end.               *)
LEMMA OneOrTwo ==
  ASSUME NEW x \in Entry, NEW y \in Entry
  PROVE  /\ \E e \in Seq(Entry) : e = <<x>> /\ DOMAIN e = {1} /\ e[1] = x
         /\ \E e \in Seq(Entry) : e = <<x, y>> /\ 2 \in DOMAIN e /\ e[2] = y
<1>1. <<x>> \in Seq(Entry) /\ DOMAIN <<x>> = {1} /\ <<x>>[1] = x
  OBVIOUS
<1>2. <<x, y>> \in Seq(Entry) /\ 2 \in DOMAIN <<x, y>> /\ <<x, y>>[2] = y
  OBVIOUS
<1> QED BY <1>1, <1>2

(* The final suspend point that resumes another coroutine has one to resume.*)
LEMMA ContinuationThere ==
  ASSUME TaskInv, NEW t \in Threads, NEW c \in Frames, Final(t, c), symmetric \/ state[c]
  PROVE  continuation[c] \in Frames
<1> USE AwaitableAssumption DEF TaskInv, FramesInv
<1>1. c \in Coroutines /\ life[c] = "final" /\ At(c, "final") /\ Present(c)
  <2>1. At(c, "final")
    BY RunsAt DEF Final
  <2> QED BY <2>1 DEF Lives, LifeOf, Frames, Present, Inside
<1>2. PICK j \in Frames : j = owner[c] /\ awaits[j] = c
  BY <1>1 DEF Owned, AwaitableTypeOK
<1>3. ~Present(j)
  BY <1>1, <1>2 DEF Handshake, Passed, Present, Inside, Lives, LifeOf, Frames
<1> QED BY <1>1, <1>2, <1>3 DEF Handshake

(* The actions of Awaitable keep the first.                                 *)
LEMMA ResumableSteps ==
  ASSUME TaskInv, Resumable, NEW t \in Threads, NEW c \in Frames,
         Store(t, c) \/ Exchange(t, c) \/ Final(t, c) \/ Resumed(t, c)
  PROVE  Resumable'
<1> USE AwaitableAssumption DEF TaskInv, FramesInv
<1>0. /\ Stacks /\ awaits \in [Frames -> Coroutines \union {None}] /\ UNCHANGED <<life, parked>>
      /\ None \notin Coroutines
  BY DEF AwaitableTypeOK, Store, Exchange, Final, Resumed, Frames
<1>1. ASSUME NEW v, Runs(t, c, v), v # "body", Steps(t, <<>>)
      PROVE  \A b \in Frames : At(b, "body") => At(b, "body")'
  <2>1. <<>> \in Seq(Entry)
    OBVIOUS
  <2> QED BY <1>0, <1>1, <2>1, BodiesStay
<1>2. ASSUME NEW v, Runs(t, c, v), v # "body", NEW x \in Entry, Steps(t, <<x>>)
      PROVE  /\ \A b \in Frames : At(b, "body") => At(b, "body")'
             /\ \A b \in Frames : x = <<b, "body">> => At(b, "body")'
  <2>1. PICK e \in Seq(Entry) : e = <<x>> /\ DOMAIN e = {1} /\ e[1] = x
    BY <1>2, OneOrTwo
  <2> QED BY <1>0, <1>2, <2>1, BodiesStay
<1>3. CASE Store(t, c)
  <2>1. <<c, "stored">> \in Entry
    BY DEF Entry, Marks, Inside
  <2>2. \A b \in Frames : At(b, "body") => At(b, "body")'
    BY <1>2, <1>3, <2>1 DEF Store
  <2> QED BY <1>0, <1>3, <2>2 DEF Store, Resumable
<1>4. CASE Resumed(t, c)
  <2>1. \A b \in Frames : At(b, "body") => At(b, "body")'
    BY <1>1, <1>4 DEF Resumed
  <2> QED BY <1>0, <1>4, <2>1 DEF Resumed, Resumable
<1>5. CASE Exchange(t, c)
  <2>0. At(c, "stored") /\ Runs(t, c, "stored")
    BY <1>5, RunsAt DEF Exchange
  <2>1. PICK d \in Coroutines : d = awaits[c]
    BY <1>0, <2>0 DEF Lives, LifeOf
  <2>2. CASE state[d]
    <3>1. awaits' = [awaits EXCEPT ![c] = None] /\ Steps(t, << <<c, "body">> >>)
      BY <1>5, <2>1, <2>2 DEF Exchange
    <3>2. <<c, "body">> \in Entry
      BY DEF Entry, Marks, Inside
    <3>3. At(c, "body")' /\ \A b \in Frames : At(b, "body") => At(b, "body")'
      BY <1>2, <2>0, <3>1, <3>2
    <3> QED BY <1>0, <3>1, <3>3 DEF Resumable
  <2>3. CASE ~state[d]
    <3>1. awaits' = awaits /\ Steps(t, <<>>)
      BY <1>5, <2>1, <2>3 DEF Exchange
    <3>2. \A b \in Frames : At(b, "body") => At(b, "body")'
      BY <1>1, <2>0, <3>1
    <3> QED BY <1>0, <3>1, <3>2 DEF Resumable
  <2> QED BY <2>2, <2>3
<1>6. CASE Final(t, c)
  <2>0. Runs(t, c, "final")
    BY <1>6 DEF Final
  <2>1. ASSUME awaits' = awaits, Steps(t, <<>>) PROVE Resumable'
    <3>1. \A b \in Frames : At(b, "body") => At(b, "body")'
      BY <1>1, <2>0, <2>1
    <3> QED BY <1>0, <2>1, <3>1 DEF Resumable
  <2>2. ASSUME NEW k \in Frames, awaits' = [awaits EXCEPT ![k] = None],
               \A b \in Frames : At(b, "body") => At(b, "body")', At(k, "body")'
        PROVE  Resumable'
    BY <1>0, <2>2 DEF Resumable
  <2>3. symmetric \/ state[c] => continuation[c] \in Frames
    BY <1>6, ContinuationThere
  <2>4. CASE symmetric
    <3>1. PICK k : k = continuation[c] /\ k \in Frames
      BY <2>3, <2>4
    <3>2. awaits' = [awaits EXCEPT ![k] = None] /\ Steps(t, << <<k, "body">> >>)
      BY <1>6, <2>4, <3>1 DEF Final, Continues
    <3>3. <<k, "body">> \in Entry
      BY <3>1 DEF Entry, Marks, Inside
    <3> QED BY <1>2, <2>0, <2>2, <3>1, <3>2, <3>3
  <2>5. CASE ~symmetric /\ state[c]
    <3>1. PICK k : k = continuation[c] /\ k \in Frames
      BY <2>3, <2>5
    <3>2. /\ awaits' = [awaits EXCEPT ![k] = None]
          /\ Steps(t, Append(<< <<c, "resuming">> >>, <<k, "body">>))
      BY <1>6, <2>5, <3>1 DEF Final, Continues
    <3>3. <<k, "body">> \in Entry /\ <<c, "resuming">> \in Entry
      BY <3>1 DEF Entry, Marks, Inside
    <3>4. PICK x, y \in Entry : x = <<c, "resuming">> /\ y = <<k, "body">>
      BY <3>3
    <3>5. PICK e \in Seq(Entry) : e = <<x, y>> /\ 2 \in DOMAIN e /\ e[2] = y
      BY OneOrTwo
    <3>6. Steps(t, e)
      BY <3>2, <3>4, <3>5, AppendTwo
    <3>7. /\ \A b \in Frames : At(b, "body") /\ <<b, "body">> # <<c, "final">> => At(b, "body")'
          /\ \A b \in Frames, i \in DOMAIN e : e[i] = <<b, "body">> => At(b, "body")'
      BY <1>0, <2>0, <3>6, BodiesStay
    <3>8. At(k, "body")' /\ \A b \in Frames : At(b, "body") => At(b, "body")'
      BY <3>1, <3>4, <3>5, <3>7
    <3> QED BY <2>2, <3>1, <3>2, <3>8
  <2>6. CASE ~symmetric /\ ~state[c]
    BY <1>6, <2>1, <2>6 DEF Final
  <2> QED BY <2>4, <2>5, <2>6
<1> QED BY <1>3, <1>4, <1>5, <1>6

LEMMA ResumableAwait ==
  ASSUME TaskInv, Resumable, NEW t \in Threads, NEW c \in Frames, NEW d \in Coroutines, Await(t, c, d)
  PROVE  Resumable'
<1> USE AwaitableAssumption DEF TaskInv, FramesInv
<1>1. /\ Stacks /\ Runs(t, c, "body") /\ d \in Frames /\ d # None
      /\ life' = [life EXCEPT ![d] = "alive"] /\ awaits' = [awaits EXCEPT ![c] = d]
      /\ parked' = parked
  BY DEF Await, Frames
<1>2. PICK e \in Seq(Entry) :
        Steps(t, e) /\ \E k \in DOMAIN e : e[k] = <<d, "body">>
  <2>0. <<d, "body">> \in Entry /\ <<c, "await">> \in Entry
    BY <1>1 DEF Entry, Marks, Inside
  <2>1. CASE symmetric
    <3>1. PICK e \in Seq(Entry) : e = << <<d, "body">> >> /\ DOMAIN e = {1} /\ e[1] = <<d, "body">>
      BY <2>0, OneOrTwo
    <3>2. Steps(t, e)
      BY <2>1, <3>1 DEF Await
    <3> QED BY <3>1, <3>2
  <2>2. CASE ~symmetric
    <3>1. PICK e \in Seq(Entry) : e = << <<c, "await">>, <<d, "body">> >> /\ 2 \in DOMAIN e
                                  /\ e[2] = <<d, "body">>
      BY <2>0, OneOrTwo
    <3>2. Steps(t, e)
      BY <2>2, <3>1 DEF Await
    <3> QED BY <3>1, <3>2
  <2> QED BY <2>1, <2>2
<1>3. At(d, "body")' /\ \A b \in Frames : b # c /\ At(b, "body") => At(b, "body")'
  BY <1>1, <1>2, BodiesStay
<1>4. ASSUME NEW b \in Frames, life'[b] = "alive", awaits'[b] = None
      PROVE  b \in parked' \/ At(b, "body")'
  <2>1. b # c
    BY <1>1, <1>4 DEF AwaitableTypeOK
  <2>2. CASE b = d
    BY <1>3, <2>2
  <2>3. CASE b # d
    <3>1. life[b] = "alive" /\ awaits[b] = None
      BY <1>1, <1>4, <2>1, <2>3 DEF AwaitableTypeOK
    <3> QED BY <1>1, <1>3, <2>1, <3>1 DEF Resumable
  <2> QED BY <2>2, <2>3
<1> QED BY <1>4 DEF Resumable

LEMMA ResumableBody ==
  ASSUME TaskInv, Resumable, NEW t \in Threads, NEW c \in Coroutines,
         \/ \E d \in Coroutines : Create(t, c, d) \/ Destroy(t, c, d)
         \/ Park(t, c) \/ Unpark(t, c)
         \/ \E how \in {"value", "error"} : Return(t, c, how)
  PROVE  Resumable'
<1> USE DEF TaskInv, FramesInv
<1>0. /\ Stacks /\ c \in Frames
      /\ \A e \in Seq(Entry) : Runs(t, c, "body") /\ Steps(t, e) =>
           \A b \in Frames : b # c /\ At(b, "body") => At(b, "body")'
  BY BodiesStay DEF Frames
<1>1. ASSUME NEW d \in Coroutines, Create(t, c, d) \/ Destroy(t, c, d) PROVE Resumable'
  <2>1. \A b \in Frames : life'[b] = "alive" => life[b] = "alive"
    BY <1>1 DEF Create, Destroy, AwaitableTypeOK
  <2>2. UNCHANGED <<awaits, parked, stack>>
    BY <1>1 DEF Create, Destroy
  <2> QED BY <2>1, <2>2 DEF Resumable, At, On
<1>2. CASE Park(t, c)
  <2>1. <<>> \in Seq(Entry) /\ Runs(t, c, "body") /\ Steps(t, <<>>)
    BY <1>2 DEF Park
  <2>2. UNCHANGED <<life, awaits>> /\ parked' = parked \union {c}
    BY <1>2 DEF Park
  <2> QED BY <1>0, <2>1, <2>2 DEF Resumable
<1>3. CASE Unpark(t, c)
  <2>1. /\ UNCHANGED <<life, awaits>> /\ parked' = parked \ {c}
        /\ stack[t] = <<>> /\ stack' = [stack EXCEPT ![t] = << <<c, "body">> >>]
    BY <1>3 DEF Unpark
  <2>2. On(t, c, "body")'
    <3>1. stack'[t] = << <<c, "body">> >>
      BY <2>1 DEF Stacks
    <3>2. 1 \in DOMAIN stack'[t] /\ stack'[t][1] = <<c, "body">>
      BY <3>1
    <3> QED BY <3>2 DEF On
  <2>3. \A u \in Threads, b \in Frames : On(u, b, "body") => On(u, b, "body")'
    <3> SUFFICES ASSUME NEW u \in Threads, NEW b \in Frames, On(u, b, "body")
                 PROVE  On(u, b, "body")'
      OBVIOUS
    <3>1. u # t
      BY <2>1 DEF On
    <3> QED BY <2>1, <3>1 DEF On, Stacks
  <2> QED BY <2>1, <2>2, <2>3 DEF Resumable, At
<1>4. ASSUME NEW how \in {"value", "error"}, Return(t, c, how) PROVE Resumable'
  <2>1. << <<c, "final">> >> \in Seq(Entry)
    BY <1>0 DEF Entry, Marks, Inside
  <2>2. /\ Runs(t, c, "body") /\ Steps(t, << <<c, "final">> >>)
        /\ UNCHANGED <<awaits, parked>> /\ life' = [life EXCEPT ![c] = "final"]
    BY <1>4 DEF Return
  <2>3. \A b \in Frames : life'[b] = "alive" => life[b] = "alive" /\ b # c
    BY <1>0, <2>2 DEF AwaitableTypeOK
  <2> QED BY <1>0, <2>1, <2>2, <2>3 DEF Resumable
<1> QED BY <1>1, <1>2, <1>3, <1>4

(* And so do those of sync_wait.                                            *)
LEMMA ResumableCall ==
  ASSUME TaskInv, Resumable,
         Start \/ GetValue \/ \E t \in Threads : Yield(t) \/ Notify(t) \/ Notified(t)
  PROVE  Resumable'
<1> USE AwaitableAssumption DEF TaskInv, FramesInv
<1>0. Stacks /\ Root \in Frames
  BY DEF Frames
<1>1. CASE Start
  <2>1. /\ life' = [life EXCEPT ![Root] = "alive"] /\ UNCHANGED <<awaits, parked>>
        /\ stack[Waiter] = <<>> /\ stack' = [stack EXCEPT ![Waiter] = << <<Root, "body">> >>]
    BY <1>1 DEF Start, Pc, Called
  <2>2. On(Waiter, Root, "body")'
    <3>1. stack'[Waiter] = << <<Root, "body">> >>
      BY <2>1, TaskAssumption DEF Stacks
    <3>2. 1 \in DOMAIN stack'[Waiter] /\ stack'[Waiter][1] = <<Root, "body">>
      BY <3>1
    <3> QED BY <3>2 DEF On
  <2>3. \A u \in Threads, b \in Frames : On(u, b, "body") => On(u, b, "body")'
    <3> SUFFICES ASSUME NEW u \in Threads, NEW b \in Frames, On(u, b, "body")
                 PROVE  On(u, b, "body")'
      OBVIOUS
    <3>1. u # Waiter
      BY <2>1 DEF On
    <3> QED BY <2>1, <3>1 DEF On, Stacks
  <2>4. \A b \in Frames : b # Root => life'[b] = life[b]
    BY <2>1 DEF AwaitableTypeOK
  <2> QED BY <2>1, <2>2, <2>3, <2>4, TaskAssumption DEF Resumable, At
<1>2. CASE GetValue
  <2>1. \A b \in Frames : life'[b] = "alive" => life[b] = "alive"
    BY <1>2 DEF GetValue, AwaitableTypeOK
  <2>2. UNCHANGED <<awaits, parked, stack>>
    BY <1>2 DEF GetValue
  <2> QED BY <2>1, <2>2 DEF Resumable, At, On
<1>3. ASSUME NEW t \in Threads, NEW v, Runs(t, Root, v), NEW e \in Seq(Entry), Steps(t, e),
             UNCHANGED <<awaits, parked>>, life'[Root] # "alive",
             \A b \in Frames : life'[b] = "alive" => life[b] = "alive"
      PROVE  Resumable'
  <2>1. \A b \in Frames : b # Root /\ At(b, "body") => At(b, "body")'
    BY <1>0, <1>3, BodiesStay
  <2> QED BY <1>3, <2>1 DEF Resumable
<1>4. << <<Root, "notify">> >> \in Seq(Entry) /\ << <<Root, "setting">> >> \in Seq(Entry)
      /\ <<>> \in Seq(Entry)
  BY <1>0 DEF Entry, Marks, Inside
<1>5. ASSUME NEW t \in Threads, Yield(t) PROVE Resumable'
  <2>1. /\ Runs(t, Root, "body") /\ Steps(t, << <<Root, "notify">> >>)
        /\ UNCHANGED <<awaits, parked>> /\ life' = [life EXCEPT ![Root] = "final"]
    BY <1>5 DEF Yield
  <2>2. life'[Root] # "alive" /\ \A b \in Frames : life'[b] = "alive" => life[b] = "alive"
    BY <1>0, <2>1 DEF AwaitableTypeOK
  <2> QED BY <1>3, <1>4, <2>1, <2>2
<1>6. ASSUME NEW t \in Threads, Notify(t) PROVE Resumable'
  <2>1. /\ Runs(t, Root, "notify") /\ Steps(t, << <<Root, "setting">> >>)
        /\ UNCHANGED <<awaits, parked, life>>
    BY <1>6 DEF Notify
  <2>2. life[Root] = "final"
    BY <1>0, <2>1, RunsAt DEF Lives, LifeOf
  <2> QED BY <1>3, <1>4, <2>1, <2>2
<1>7. ASSUME NEW t \in Threads, Notified(t) PROVE Resumable'
  <2>1. /\ Runs(t, Root, "setting") /\ Steps(t, <<>>)
        /\ UNCHANGED <<awaits, parked, life>>
    BY <1>7 DEF Notified
  <2>2. life[Root] # "alive"
    BY <1>0, <2>1, RunsAt DEF Lives, LifeOf
  <2> QED BY <1>3, <1>4, <2>1, <2>2
<1> QED BY <1>1, <1>2, <1>5, <1>6, <1>7

(* What the library's own functions do to a stack.                          *)
LEMMA ProceedsSteps ==
  ASSUME TaskInv, NEW t \in Threads, NEW c \in Frames,
         Store(t, c) \/ Exchange(t, c) \/ Final(t, c) \/ Resumed(t, c)
  PROVE  \E v \in {"await", "stored", "final", "resuming"} :
           Runs(t, c, v) /\ \E e \in Seq(Entry) : Steps(t, e)
<1>1. <<>> \in Seq(Entry)
  OBVIOUS
<1>2. \A w \in {"stored", "body", "resuming"} : <<c, w>> \in Entry
  BY DEF Entry, Marks, Inside
<1>3. PICK x \in Entry : x = <<c, "stored">>
  BY <1>2
<1>4. PICK y \in Entry : y = <<c, "body">>
  BY <1>2
<1>5. PICK z \in Entry : z = <<c, "resuming">>
  BY <1>2
<1>6. CASE Store(t, c)
  BY <1>3, <1>6 DEF Store
<1>7. CASE Exchange(t, c)
  <2>1. Runs(t, c, "stored") /\ (Steps(t, <<y>>) \/ Steps(t, <<>>))
    BY <1>4, <1>7 DEF Exchange
  <2>2. <<y>> \in Seq(Entry)
    OBVIOUS
  <2> QED BY <1>1, <2>1, <2>2
<1>8. CASE Resumed(t, c)
  BY <1>1, <1>8 DEF Resumed
<1>9. CASE Final(t, c)
  <2>1. CASE symmetric \/ state[c]
    <3>1. PICK k \in Frames : k = continuation[c]
      BY <1>9, <2>1, ContinuationThere
    <3>2. PICK w \in Entry : w = <<k, "body">>
      BY DEF Entry, Marks, Inside
    <3>3. \/ Steps(t, Append(<<>>, w))
          \/ Steps(t, Append(<<z>>, w))
      BY <1>5, <1>9, <2>1, <3>1, <3>2 DEF Final, Continues
    <3>4. Append(<<>>, w) \in Seq(Entry) /\ Append(<<z>>, w) \in Seq(Entry)
      OBVIOUS
    <3>5. \E e \in Seq(Entry) : Steps(t, e)
      BY <3>3, <3>4
    <3> QED BY <1>9, <3>5 DEF Final
  <2>2. CASE ~(symmetric \/ state[c])
    <3>1. Runs(t, c, "final") /\ Steps(t, <<>>)
      BY <1>9, <2>2 DEF Final
    <3> QED BY <1>1, <3>1
  <2> QED BY <2>1, <2>2
<1> QED BY <1>6, <1>7, <1>8, <1>9

LEMMA SignalledSteps == TaskInv /\ Signalled /\ [Next]_vars => Signalled'
<1> SUFFICES ASSUME TaskInv, Signalled, [Next]_vars PROVE Signalled'
  OBVIOUS
<1> USE AwaitableAssumption DEF TaskInv, FramesInv
<1>0. Stacks /\ Root \in Frames /\ {"notify", "setting"} \subseteq Marks
  BY DEF Frames, Marks, Inside
<1>1. ASSUME NEW t \in Threads, Yield(t) PROVE Signalled'
  <2>1. Runs(t, Root, "body") /\ Steps(t, << <<Root, "notify">> >>)
    BY <1>1 DEF Yield
  <2>2. At(Root, "notify")'
    BY <1>0, <2>1, StepsOne DEF Marks, Inside
  <2> QED BY <2>2 DEF Signalled
<1>2. ASSUME NEW t \in Threads, Notify(t) PROVE Signalled'
  BY <1>2 DEF Notify, Set, Signalled
<1>3. CASE Start \/ Started \/ Waits \/ Interrupted \/ GetValue \/ UNCHANGED vars
  <2>1. \/ life'[Root] # "final"
        \/ life'[Root] = life[Root] /\ stack' = stack /\ event_state' = event_state
    BY <1>0, <1>3 DEF Start, Started, Waits, Interrupted, GetValue, vars, frameVars, event, Wait,
       Load, FutexWait, Interrupt, AwaitableTypeOK
  <2> QED BY <2>1 DEF Signalled, At, On
<1>4. ASSUME NEW t \in Threads, NEW c \in Frames, NEW v, Runs(t, c, v), v # "notify",
             NEW e \in Seq(Entry), Steps(t, e), life'[Root] = life[Root], event_state' = event_state
      PROVE  Signalled'
  <2>1. At(Root, "notify") => At(Root, "notify")'
    BY <1>0, <1>4, EntriesStay
  <2> QED BY <1>4, <2>1 DEF Signalled
<1>5. ASSUME NEW t \in Threads, Notified(t) PROVE Signalled'
  <2>1. <<>> \in Seq(Entry)
    OBVIOUS
  <2> QED BY <1>0, <1>4, <1>5, <2>1 DEF Notified, Wake
<1>6. ASSUME NEW c \in Coroutines, NEW t \in Threads, life'[Root] # "final" \/ life'[Root] = life[Root],
             stack' = stack, event_state' = event_state
      PROVE  Signalled'
  BY <1>6 DEF Signalled, At, On
<1>7. ASSUME NEW t \in Threads, AwaitMain(t) \/ Others(t) PROVE Signalled'
  <2>0. UNCHANGED <<event, pc, result>> /\ event_state' = event_state
    BY <1>7 DEF AwaitMain, Others, event
  <2>1. ASSUME NEW c \in Frames, NEW d \in Coroutines, Await(t, c, d) PROVE Signalled'
    <3>1. <<d, "body">> \in Entry /\ <<c, "await">> \in Entry
      BY DEF Entry, Marks, Inside, Frames
    <3>2. \E e \in Seq(Entry) : Steps(t, e)
      <4>1. PICK x, y \in Entry : x = <<d, "body">> /\ y = <<c, "await">>
        BY <3>1
      <4>2. <<x>> \in Seq(Entry) /\ <<y, x>> \in Seq(Entry)
        OBVIOUS
      <4> QED BY <2>1, <4>1, <4>2 DEF Await
    <3>3. life'[Root] = life[Root]
      BY <1>0, <2>1 DEF Await, Frames, AwaitableTypeOK
    <3> QED BY <1>4, <2>0, <2>1, <3>2, <3>3 DEF Await
  <2>2. ASSUME NEW c \in Frames, Store(t, c) \/ Exchange(t, c) \/ Final(t, c) \/ Resumed(t, c)
        PROVE  Signalled'
    <3>1. life' = life
      BY <2>2 DEF Store, Exchange, Final, Resumed
    <3>2. PICK v \in {"await", "stored", "final", "resuming"} :
            Runs(t, c, v) /\ \E e \in Seq(Entry) : Steps(t, e)
      BY <2>2, ProceedsSteps
    <3> QED BY <1>4, <2>0, <3>1, <3>2
  <2>3. ASSUME NEW c \in Coroutines, NEW d \in Coroutines, Create(t, c, d) \/ Destroy(t, c, d)
        PROVE  Signalled'
    <3>1. life'[Root] = life[Root] /\ stack' = stack
      BY <1>0, <2>3 DEF Create, Destroy, Frames, AwaitableTypeOK
    <3> QED BY <1>6, <2>0, <2>3, <3>1
  <2>4. ASSUME NEW c \in Coroutines, NEW how \in {"value", "error"}, Park(t, c) \/ Return(t, c, how)
        PROVE  Signalled'
    <3>1. <<c, "final">> \in Entry
      BY DEF Entry, Marks, Inside, Frames
    <3>2. <<>> \in Seq(Entry) /\ << <<c, "final">> >> \in Seq(Entry)
      BY <3>1
    <3>3. life'[Root] = life[Root]
      BY <1>0, <2>4 DEF Park, Return, Frames, AwaitableTypeOK
    <3> QED BY <1>4, <2>0, <2>4, <3>2, <3>3 DEF Park, Return, Frames
  <2>5. ASSUME NEW c \in Coroutines, Unpark(t, c) PROVE Signalled'
    <3>1. UNCHANGED life /\ stack[t] = <<>> /\ stack' = [stack EXCEPT ![t] = << <<c, "body">> >>]
      BY <2>5 DEF Unpark
    <3>2. \A u \in Threads : On(u, Root, "notify") => On(u, Root, "notify")'
      <4> SUFFICES ASSUME NEW u \in Threads, On(u, Root, "notify") PROVE On(u, Root, "notify")'
        OBVIOUS
      <4>1. u # t
        BY <3>1 DEF On
      <4> QED BY <1>0, <3>1, <4>1 DEF On, Stacks
    <3> QED BY <2>0, <3>1, <3>2 DEF Signalled, At
  <2>6. CASE AwaitMain(t)
    BY <1>0, <2>1, <2>6, TaskAssumption DEF AwaitMain
  <2>7. CASE Others(t)
    BY <1>7, <2>1, <2>2, <2>3, <2>4, <2>5, <2>7 DEF Others, Body, Proceeds, Frames
  <2> QED BY <1>7, <2>6, <2>7
<1> QED BY <1>1, <1>2, <1>3, <1>5, <1>7 DEF Next

LEMMA NextResumable == TaskInv /\ Resumable /\ [Next]_vars => Resumable'
<1> SUFFICES ASSUME TaskInv, Resumable, [Next]_vars PROVE Resumable'
  OBVIOUS
<1>1. CASE Started \/ Waits \/ Interrupted \/ UNCHANGED vars
  <2>1. UNCHANGED frameVars
    BY <1>1 DEF Started, Waits, Interrupted, vars
  <2> QED BY <2>1 DEF Resumable, frameVars, At, On
<1>2. CASE Start \/ GetValue \/ \E t \in Threads : Yield(t) \/ Notify(t) \/ Notified(t)
  BY <1>2, ResumableCall
<1>3. ASSUME NEW t \in Threads, AwaitMain(t) PROVE Resumable'
  BY <1>3, ResumableAwait, TaskAssumption DEF AwaitMain, Frames
<1>4. ASSUME NEW t \in Threads, Others(t) PROVE Resumable'
  <2>1. CASE \E c, d \in Coroutines : Await(t, c, d)
    BY <2>1, ResumableAwait DEF Frames
  <2>2. CASE Proceeds(t)
    BY <2>2, ResumableSteps DEF Proceeds
  <2>3. CASE \E c \in Coroutines :
               \/ \E d \in Coroutines : Create(t, c, d) \/ Destroy(t, c, d)
               \/ Park(t, c) \/ Unpark(t, c)
               \/ \E how \in {"value", "error"} : Return(t, c, how)
    BY <2>3, ResumableBody
  <2> QED BY <1>4, <2>1, <2>2, <2>3 DEF Others, Body
<1> QED BY <1>1, <1>2, <1>3, <1>4 DEF Next

LEMMA AlwaysResumable == Spec => [](Resumable /\ Signalled)
<1>1. Init => Resumable /\ Signalled
  BY AwaitableAssumption DEF Init, Resumable, Signalled, Frames
<1> QED BY <1>1, NextResumable, SignalledSteps, TaskInvariant, PTL DEF Spec

(* A coroutine that has begun runs, or is suspended in something else that  *)
(* will resume it, or awaits another; and if that one has returned, one of  *)
(* the two is still in the handshake, so that its result is not forgotten.  *)
NoneStuck ==
  /\ Resumable
  /\ \A c \in Frames, d \in Coroutines :
       awaits[c] = d => \/ life[d] = "alive"
                        \/ life[d] = "final" /\ (At(d, "final") \/ At(c, "await") \/ At(c, "stored"))

LEMMA NoneStuckFollows == TaskInv /\ Resumable => NoneStuck
<1> SUFFICES ASSUME TaskInv, Resumable, NEW c \in Frames, NEW d \in Coroutines, awaits[c] = d,
                    life[d] # "alive"
             PROVE  life[d] = "final" /\ (At(d, "final") \/ At(c, "await") \/ At(c, "stored"))
  BY DEF NoneStuck
<1> USE AwaitableAssumption DEF TaskInv, FramesInv
<1>1. life[d] = "final" /\ (Present(c) \/ At(d, "final"))
  BY DEF Handshake, Passed
<1>2. awaits[c] # None /\ life[c] = "alive"
  BY DEF Lives, LifeOf, Frames
<1>3. Present(c) => At(c, "await") \/ At(c, "stored")
  BY <1>2 DEF Present, Inside, Lives, LifeOf
<1> QED BY <1>1, <1>3

(* For any coroutines, threads and build: none is ever left where nobody    *)
(* would resume it.  It is the safe half of CompletionResumes.              *)
THEOREM NoCoroutineIsStuck == Spec => []NoneStuck
  BY TaskInvariant, AlwaysResumable, NoneStuckFollows, PTL

(* sync_wait waits for an event that is set, or for coroutines of which one *)
(* runs or will be resumed; and it sleeps on an event that is set only while *)
(* the thread that set it has its system call before it.                    *)
WaitsForSomeone ==
  /\ pc \in {"started", "wait"} =>
       event_state = 1 \/ \E c \in Frames : c \in parked \/ Present(c)
  /\ event_state = 1 /\ at[Waiter] = "asleep" => \E t \in Threads : On(t, Root, "setting")

LEMMA WaitsForSomeoneFollows ==
  TaskInv /\ Resumable /\ Signalled /\ Event!WakeupComes => WaitsForSomeone
<1> SUFFICES ASSUME TaskInv, Resumable, Signalled, Event!WakeupComes PROVE WaitsForSomeone
  OBVIOUS
<1> USE AwaitableAssumption, TaskAssumption DEF TaskInv, FramesInv
<1>1. event_state = 1 /\ at[Waiter] = "asleep" => \E t \in Threads : On(t, Root, "setting")
  BY DEF Event!WakeupComes, Called
<1>2. ASSUME pc \in {"started", "wait"}, event_state # 1
      PROVE  \E c \in Frames : c \in parked \/ Present(c)
  <2>1. life[Root] \in {"alive", "final"} /\ Root \in Frames
    BY <1>2 DEF Called, TypeOK, AwaitableTypeOK, Frames
  <2>2. CASE life[Root] = "final"
    BY <1>2, <2>1, <2>2 DEF Signalled, Present, Inside
  <2>3. CASE life[Root] = "alive"
    <3>0. PICK n \in Nat \ {0} : \E s \in [1..n -> Frames] : Chain(n, s)
      BY DEF Chained
    <3>1. PICK s \in [1..n -> Frames] : Chain(n, s)
      BY <3>0
    <3>2. s[n] \in Frames /\ awaits[s[n]] = None
      BY <3>1 DEF Chain
    <3>3. CASE life[s[n]] = "alive"
      BY <3>2, <3>3 DEF Resumable, Present, Inside
    <3>4. CASE life[s[n]] # "alive"
      <4>1. n # 1 /\ n - 1 \in 1..n - 1
        BY <2>3, <3>1, <3>4 DEF Chain
      <4>2. s[n - 1] \in Frames /\ awaits[s[n - 1]] = s[n]
        BY <3>1, <4>1 DEF Chain
      <4>3. s[n] \in Coroutines
        BY <3>2, <4>2 DEF AwaitableTypeOK, Frames
      <4>4. PICK c, d \in Frames : c = s[n - 1] /\ d = s[n] /\ awaits[c] = d /\ d \in Coroutines
        BY <3>2, <4>2, <4>3
      <4>5. At(d, "final") \/ At(c, "await") \/ At(c, "stored")
        BY <3>4, <4>4, NoneStuckFollows DEF NoneStuck
      <4> QED BY <4>4, <4>5 DEF Present, Inside
    <3> QED BY <3>3, <3>4
  <2> QED BY <2>1, <2>2, <2>3
<1> QED BY <1>1, <1>2 DEF WaitsForSomeone

(* For any coroutines, threads and build sync_wait never waits in vain: the *)
(* safe half of what CompletionResumes says of it.                          *)
THEOREM SyncWaitWaitsForSomeone == Spec => []WaitsForSomeone
<1>1. Spec => []Event!WakeupComes
  BY TaskKeepsEvent, Event!NoLostWakeup, PTL
<1> QED BY <1>1, TaskInvariant, AlwaysResumable, WaitsForSomeoneFollows, PTL
===============================================================================
