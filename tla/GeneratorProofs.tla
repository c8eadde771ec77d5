---------------------------- MODULE GeneratorProofs ----------------------------
(***************************************************************************)
(* What is proved of Generator, for every set of objects, coroutines and   *)
(* loops, and any bound on what a coroutine yields.                        *)
(***************************************************************************)
EXTENDS Generator, TLAPS

(* Strengthening: a loop has its coroutine to itself; in its body the       *)
(* coroutine is suspended at a co_yield, which is also where begin() and ++ *)
(* leave it unless it is done.                                              *)
In(l, f) == at[l] # "out" /\ iter[l] = f

OneLoop == \A f \in Frames : \A l, k \in Loops : In(l, f) /\ In(k, f) => l = k

AtYield ==
  \A l \in Loops :
    /\ at[l] = "body" => iter[l] # Null /\ life[iter[l]] = "suspended"
    /\ at[l] # "out" /\ iter[l] # Null /\ life[iter[l]] = "suspended" => yielded[iter[l]] > 0

GeneratorInv == TypeOK /\ FramesOwned /\ OneLoop /\ AtYield

LEMMA InitOwned == Init => GeneratorInv
  BY GeneratorAssumption
     DEF Init, GeneratorInv, TypeOK, FramesOwned, OneLoop, AtYield, In, Live

(* The objects: handles move, and what is destroyed is nobody else's.       *)
LEMMA ObjectsOwned ==
  ASSUME GeneratorInv, NEW g \in Generators,
         \/ Default(g) \/ Destroy(g)
         \/ \E f \in Frames : Call(g, f)
         \/ \E other \in Generators : MoveConstruct(g, other) \/ Assign(g, other) \/ Swap(g, other)
  PROVE  GeneratorInv'
<1> USE GeneratorAssumption DEF GeneratorInv, TypeOK, FramesOwned, OneLoop, AtYield, In, Live
<1>1. CASE Default(g)
  BY <1>1 DEF Default, New
<1>2. CASE Destroy(g)
  BY <1>2 DEF Destroy, DestroyFrame, Unused
<1>3. ASSUME NEW f \in Frames, Call(g, f) PROVE GeneratorInv'
  BY <1>3 DEF Call, New
<1>4. ASSUME NEW other \in Generators, MoveConstruct(g, other) PROVE GeneratorInv'
  <2> USE <1>4 DEF MoveConstruct, New
  <2>1. /\ g \notin alive /\ other \in alive /\ alive' = alive \union {g}
        /\ \A x \in Generators :
             handle'[x] = IF x = g THEN handle[other] ELSE IF x = other THEN Null ELSE handle[x]
    OBVIOUS
  <2>2. TypeOK' /\ OneLoop' /\ AtYield'
    <3>1. handle' \in [Generators -> Frames \union {Null}]
      OBVIOUS
    <3>2. TypeOK'
      BY <3>1
    <3>3. OneLoop' /\ AtYield'
      OBVIOUS
    <3> QED BY <3>2, <3>3
  <2>3. \A f \in Frames : (\E x \in alive' : handle'[x] = f) <=> \E x \in alive : handle[x] = f
    <3> SUFFICES ASSUME NEW f \in Frames
                 PROVE (\E x \in alive' : handle'[x] = f) <=> \E x \in alive : handle[x] = f
      OBVIOUS
    <3>1. ASSUME NEW x \in alive', handle'[x] = f PROVE \E y \in alive : handle[y] = f
      BY <2>1, <3>1
    <3>2. ASSUME NEW x \in alive, handle[x] = f PROVE \E y \in alive' : handle'[y] = f
      <4>1. CASE x = other BY <2>1, <3>2, <4>1
      <4>2. CASE x # other BY <2>1, <3>2, <4>2
      <4> QED BY <4>1, <4>2
    <3> QED BY <3>1, <3>2
  <2>4. \A x, y \in alive' : handle'[x] = handle'[y] /\ handle'[x] # Null => x = y
    BY <2>1
  <2> QED BY <2>2, <2>3, <2>4
<1>5. ASSUME NEW source \in Generators, Assign(g, source) PROVE GeneratorInv'
  <2> USE <1>5 DEF Assign
  <2> DEFINE old == IF source = g THEN Null ELSE handle[g]
  <2>1. \A x \in Generators :
          handle'[x] = IF x = g THEN handle[source] ELSE IF x = source THEN Null ELSE handle[x]
    OBVIOUS
  <2>2. old = [handle EXCEPT ![source] = Null][g]
    OBVIOUS
  <2>3. /\ life' = [f \in Frames |-> IF f = old THEN "destroyed" ELSE life[f]]
        /\ outcome' = outcome
    BY <2>2 DEF DestroyFrame
  <2>4. \A l \in Loops : at[l] = "out" \/ iter[l] # old
    BY <2>2 DEF Unused
  <2>5. TypeOK' /\ OneLoop' /\ AtYield'
    <3>1. handle' \in [Generators -> Frames \union {Null}]
      OBVIOUS
    <3>2. TypeOK'
      BY <2>3, <3>1
    <3>3. OneLoop'
      OBVIOUS
    <3>4. AtYield'
      BY <2>3, <2>4
    <3> QED BY <3>2, <3>3, <3>4
  <2>6. \A f \in Frames : (\E x \in alive : handle'[x] = f)
                            <=> f # old /\ \E x \in alive : handle[x] = f
    <3> SUFFICES ASSUME NEW f \in Frames
                 PROVE (\E x \in alive : handle'[x] = f)
                         <=> f # old /\ \E x \in alive : handle[x] = f
      OBVIOUS
    <3>1. ASSUME NEW x \in alive, handle'[x] = f
          PROVE f # old /\ \E y \in alive : handle[y] = f
      BY <2>1, <3>1
    <3>2. ASSUME NEW x \in alive, handle[x] = f, f # old
          PROVE \E y \in alive : handle'[y] = f
      <4>1. CASE x = source BY <2>1, <3>2, <4>1
      <4>2. CASE x # source BY <2>1, <3>2, <4>2
      <4> QED BY <4>1, <4>2
    <3> QED BY <3>1, <3>2
  <2>7. \A f \in Frames : life'[f] \in Live <=> \E x \in alive' : handle'[x] = f
    BY <2>3, <2>6
  <2>8. \A x, y \in alive' : handle'[x] = handle'[y] /\ handle'[x] # Null => x = y
    BY <2>1
  <2>9. \A l \in Loops : at'[l] # "out" /\ iter'[l] # Null => life'[iter'[l]] \in Live
    BY <2>3, <2>4
  <2> QED BY <2>3, <2>5, <2>7, <2>8, <2>9
<1>6. ASSUME NEW other \in Generators, Swap(g, other) PROVE GeneratorInv'
  <2> USE <1>6 DEF Swap
  <2>1. \A x \in Generators :
          handle'[x] = IF x = other THEN handle[g] ELSE IF x = g THEN handle[other] ELSE handle[x]
    OBVIOUS
  <2>2. TypeOK' /\ OneLoop' /\ AtYield'
    <3>1. handle' \in [Generators -> Frames \union {Null}]
      OBVIOUS
    <3>2. TypeOK'
      BY <3>1
    <3>3. OneLoop' /\ AtYield'
      OBVIOUS
    <3> QED BY <3>2, <3>3
  <2>3. \A f \in Frames : (\E x \in alive : handle'[x] = f) <=> \E x \in alive : handle[x] = f
    <3> SUFFICES ASSUME NEW f \in Frames
                 PROVE (\E x \in alive : handle'[x] = f) <=> \E x \in alive : handle[x] = f
      OBVIOUS
    <3>1. ASSUME NEW x \in alive, handle'[x] = f PROVE \E y \in alive : handle[y] = f
      BY <2>1, <3>1
    <3>2. ASSUME NEW x \in alive, handle[x] = f PROVE \E y \in alive : handle'[y] = f
      <4>1. CASE x = g BY <2>1, <3>2, <4>1
      <4>2. CASE x = other BY <2>1, <3>2, <4>2
      <4>3. CASE x # g /\ x # other BY <2>1, <3>2, <4>3
      <4> QED BY <4>1, <4>2, <4>3
    <3> QED BY <3>1, <3>2
  <2>4. \A x, y \in alive' : handle'[x] = handle'[y] /\ handle'[x] # Null => x = y
    BY <2>1
  <2> QED BY <2>2, <2>3, <2>4
<1> QED BY <1>1, <1>2, <1>3, <1>4, <1>5, <1>6

(* The loops: they resume and read what is suspended, and nothing else.     *)
LEMMA LoopsOwned ==
  ASSUME GeneratorInv, NEW l \in Loops,
         \/ \E g \in Generators :
              BeginAtEnd(l, g) \/ \E how \in {"yields", "returns", "throws"} : Begin(l, g, how)
         \/ Enter(l) \/ Leave(l) \/ Break(l)
         \/ \E how \in {"yields", "returns", "throws"} : Advance(l, how)
  PROVE  GeneratorInv'
<1> USE GeneratorAssumption DEF GeneratorInv, TypeOK, FramesOwned, OneLoop, AtYield, In, Live
<1>1. ASSUME NEW g \in Generators, BeginAtEnd(l, g) PROVE GeneratorInv'
  BY <1>1 DEF BeginAtEnd, Begins, Resumable, Unused
<1>2. ASSUME NEW g \in Generators, NEW how \in {"yields", "returns", "throws"}, Begin(l, g, how)
      PROVE GeneratorInv'
  BY <1>2 DEF Begin, Begins, Resumable, Unused, Resume
<1>3. CASE Enter(l)
  BY <1>3 DEF Enter, AtEnd
<1>4. CASE Leave(l)
  BY <1>4 DEF Leave
<1>5. CASE Break(l)
  BY <1>5 DEF Break
<1>6. ASSUME NEW how \in {"yields", "returns", "throws"}, Advance(l, how) PROVE GeneratorInv'
  BY <1>6 DEF Advance, Resume
<1> QED BY <1>1, <1>2, <1>3, <1>4, <1>5, <1>6

LEMMA StepOwned == GeneratorInv /\ [Next]_vars => GeneratorInv'
<1>1. GeneratorInv /\ UNCHANGED vars => GeneratorInv'
  BY DEF vars, GeneratorInv, TypeOK, FramesOwned, OneLoop, AtYield, In, Live
<1> QED BY <1>1, ObjectsOwned, LoopsOwned DEF Next

LEMMA AlwaysOwned == Spec => []GeneratorInv
  BY InitOwned, StepOwned, PTL DEF Spec

(* Whatever is moved, assigned, swapped and destroyed: each frame that lives *)
(* has one owner, and nothing undefined is done to it.                       *)
THEOREM FramesAreOwned == Spec => []FramesOwned
  BY AlwaysOwned, PTL DEF GeneratorInv
-------------------------------------------------------------------------------
(* The values: what is yielded and not yet read is one value, and only while *)
(* the loop that resumed the coroutine has not come to its test.             *)
Pending(f) == \E l \in Loops : at[l] = "test" /\ iter[l] = f /\ life[f] = "suspended"

Read(f) ==
  /\ got[f] = [i \in 1..Len(got[f]) |-> i]
  /\ yielded[f] = Len(got[f]) + IF Pending(f) THEN 1 ELSE 0

LEMMA AppendNext ==
  ASSUME NEW s \in Seq(Int), s = [i \in 1..Len(s) |-> i]
  PROVE  LET t == Append(s, Len(s) + 1) IN Len(t) = Len(s) + 1 /\ t = [i \in 1..Len(t) |-> i]
  OBVIOUS

LEMMA ReadAll == EachValueOnce <=> \A f \in Frames : Read(f)
  BY DEF EachValueOnce, Read, Pending

(* The objects destroy no frame that a loop has, and read none.             *)
LEMMA ObjectsRead ==
  ASSUME GeneratorInv, \A f \in Frames : Read(f), NEW g \in Generators,
         \/ Default(g) \/ Destroy(g)
         \/ \E f \in Frames : Call(g, f)
         \/ \E other \in Generators : MoveConstruct(g, other) \/ Assign(g, other) \/ Swap(g, other)
  PROVE  \A f \in Frames : Read(f)'
<1> USE GeneratorAssumption DEF GeneratorInv, TypeOK, FramesOwned, Live, Read
<1>1. ASSUME UNCHANGED <<yielded, at, iter, got>>,
             \A f \in Frames : Pending(f)' <=> Pending(f)
      PROVE  \A f \in Frames : Read(f)'
  BY <1>1
<1>2. UNCHANGED <<yielded, at, iter, got>>
  BY DEF Default, Destroy, Call, MoveConstruct, Assign, Swap
<1>3. ASSUME NEW f \in Frames, life'[f] # life[f], NEW l \in Loops
      PROVE  at[l] = "out" \/ iter[l] # f
  <2> USE <1>3
  <2>1. CASE Default(g) BY <2>1 DEF Default
  <2>2. CASE Destroy(g) BY <2>2 DEF Destroy, DestroyFrame, Unused
  <2>3. ASSUME NEW h \in Frames, Call(g, h) PROVE at[l] = "out" \/ iter[l] # f
    <3>1. life[f] = "none"
      BY <2>3 DEF Call
    <3>2. life[f] \notin Live /\ f # Null
      BY <3>1
    <3>3. at[l] # "out" /\ iter[l] = f => life[f] \in Live
      BY <3>2
    <3> QED BY <3>2, <3>3
  <2>4. ASSUME NEW other \in Generators, MoveConstruct(g, other) \/ Swap(g, other)
        PROVE  at[l] = "out" \/ iter[l] # f
    BY <2>4 DEF MoveConstruct, Swap
  <2>5. ASSUME NEW other \in Generators, Assign(g, other) PROVE at[l] = "out" \/ iter[l] # f
    <3> DEFINE old == [handle EXCEPT ![other] = Null][g]
    <3>1. f = old
      BY <2>5 DEF Assign, DestroyFrame
    <3>2. Unused(old)
      BY <2>5 DEF Assign
    <3> QED BY <3>1, <3>2 DEF Unused
  <2> QED BY <2>1, <2>2, <2>3, <2>4, <2>5
<1>4. \A f \in Frames : Pending(f)' <=> Pending(f)
  BY <1>2, <1>3 DEF Pending
<1> QED BY <1>1, <1>2, <1>4

(* A loop resumes what has nothing pending, and reads what it has resumed.  *)
LEMMA LoopsRead ==
  ASSUME GeneratorInv, \A f \in Frames : Read(f), NEW l \in Loops,
         \/ \E g \in Generators :
              BeginAtEnd(l, g) \/ \E how \in {"yields", "returns", "throws"} : Begin(l, g, how)
         \/ Enter(l) \/ Leave(l) \/ Break(l)
         \/ \E how \in {"yields", "returns", "throws"} : Advance(l, how)
  PROVE  \A f \in Frames : Read(f)'
<1> USE GeneratorAssumption DEF GeneratorInv, TypeOK, FramesOwned, OneLoop, In, Live
<1> SUFFICES ASSUME NEW f \in Frames PROVE Read(f)'
  OBVIOUS
<1>1. ASSUME NEW g \in Generators, BeginAtEnd(l, g) PROVE Read(f)'
  <2>1. Pending(f)' <=> Pending(f)
    BY <1>1 DEF BeginAtEnd, Begins, Resumable, Unused, Pending
  <2> QED BY <1>1, <2>1 DEF BeginAtEnd, Read
<1>2. ASSUME NEW g \in Generators, NEW how \in {"yields", "returns", "throws"}, Begin(l, g, how)
      PROVE  Read(f)'
  <2> USE <1>2 DEF Begin, Begins, Resumable, Unused, Resume
  <2>1. CASE f # handle[g]
    <3>1. life'[f] = life[f] /\ yielded'[f] = yielded[f]
      BY <2>1
    <3>2. /\ at[l] = "out" /\ iter'[l] # f
          /\ \A k \in Loops \ {l} : at'[k] = at[k] /\ iter'[k] = iter[k]
      BY <2>1
    <3>3. Pending(f)' <=> Pending(f)
      BY <3>1, <3>2 DEF Pending
    <3> QED BY <3>1, <3>3 DEF Read
  <2>2. CASE f = handle[g]
    <3>1. ~Pending(f) /\ (Pending(f)' <=> how = "yields")
      BY <2>2 DEF Pending
    <3> QED BY <2>2, <3>1 DEF Read
  <2> QED BY <2>1, <2>2
<1>3. CASE Enter(l)
  <2> USE <1>3 DEF Enter, AtEnd
  <2>1. CASE f # iter[l]
    <3>1. Pending(f)' <=> Pending(f)
      BY <2>1 DEF Pending
    <3> QED BY <2>1, <3>1 DEF Read
  <2>2. CASE f = iter[l]
    <3>1. Pending(f) /\ ~Pending(f)'
      BY <2>2 DEF Pending
    <3>2. yielded[f] = Len(got[f]) + 1 /\ got'[f] = Append(got[f], Len(got[f]) + 1)
      BY <2>2, <3>1 DEF Read
    <3>3. got[f] \in Seq(Int) /\ got[f] = [i \in 1..Len(got[f]) |-> i]
      BY DEF Read
    <3>4. Len(got'[f]) = Len(got[f]) + 1 /\ got'[f] = [i \in 1..Len(got'[f]) |-> i]
      BY <3>2, <3>3, AppendNext
    <3> QED BY <3>1, <3>2, <3>4 DEF Read
  <2> QED BY <2>1, <2>2
<1>4. CASE Leave(l)
  <2>1. Pending(f)' <=> Pending(f)
    BY <1>4 DEF Leave, AtEnd, Pending
  <2> QED BY <1>4, <2>1 DEF Leave, Read
<1>5. CASE Break(l)
  <2>1. Pending(f)' <=> Pending(f)
    BY <1>5 DEF Break, Pending
  <2> QED BY <1>5, <2>1 DEF Break, Read
<1>6. ASSUME NEW how \in {"yields", "returns", "throws"}, Advance(l, how) PROVE Read(f)'
  <2> USE <1>6 DEF Advance, Resume
  <2>1. CASE f # iter[l]
    <3>1. life'[f] = life[f] /\ yielded'[f] = yielded[f]
      BY <2>1
    <3>2. iter[l] # f /\ \A k \in Loops \ {l} : at'[k] = at[k]
      BY <2>1
    <3>3. Pending(f)' <=> Pending(f)
      BY <3>1, <3>2 DEF Pending
    <3> QED BY <3>1, <3>3 DEF Read
  <2>2. CASE f = iter[l]
    <3>1. life[f] = "suspended"
      BY <2>2 DEF AtYield
    <3>2. ~Pending(f)
      BY <2>2 DEF Pending
    <3>3. at'[l] = "test" /\ iter'[l] = f /\ (life'[f] = "suspended" <=> how = "yields")
      BY <2>2, <3>1
    <3>4. Pending(f)' <=> how = "yields"
      BY <3>3 DEF Pending
    <3> QED BY <2>2, <3>2, <3>4 DEF Read
  <2> QED BY <2>1, <2>2
<1> QED BY <1>1, <1>2, <1>3, <1>4, <1>5, <1>6

LEMMA StepRead == GeneratorInv /\ EachValueOnce /\ [Next]_vars => EachValueOnce'
<1> SUFFICES ASSUME GeneratorInv, \A f \in Frames : Read(f), [Next]_vars
             PROVE  \A f \in Frames : Read(f)'
  BY ReadAll DEF EachValueOnce, Read, Pending
<1>1. CASE UNCHANGED vars
  BY <1>1 DEF vars, Read, Pending
<1> QED BY <1>1, ObjectsRead, LoopsRead DEF Next

(* One loop after another, left early or not, through whichever objects:     *)
(* what a coroutine yields is read in order, each value once.                *)
THEOREM EachValueReadOnce == Spec => []EachValueOnce
<1>1. Init => EachValueOnce
  BY DEF Init, EachValueOnce
<1> QED BY <1>1, AlwaysOwned, StepRead, PTL DEF Spec
===============================================================================
