------------------------------- MODULE Generator -------------------------------
(***************************************************************************)
(* iol::generator (generator.hpp): objects that own the frames of          *)
(* coroutines, are moved, assigned, swapped and destroyed, and are read by *)
(* loops `for (auto&& v : g)`.                                             *)
(*                                                                         *)
(* The program keeps the rules of ranges: one loop at a time reads a       *)
(* generator's coroutine, and while it does nobody destroys it.  It may    *)
(* move, assign and swap the objects during a loop, leave a loop early and *)
(* begin another.  What the language leaves undefined makes `outcome`      *)
(* "undefined", and the program then takes no further step.                *)
(***************************************************************************)
EXTENDS Integers, Sequences

CONSTANTS
  Generators,   \* the objects
  Frames,       \* the coroutines there will be
  Loops, Null,
  MaxYields     \* how many values a coroutine yields, at most

ASSUME GeneratorAssumption == Null \notin Frames /\ MaxYields \in Nat

VARIABLES
  alive,      \* the generators that exist
  handle,     \* handle_ of each
  life,       \* of each frame
  yielded,    \* its value_: it points to this co_yield's operand
  at, iter,   \* where each loop is, and its iterator's handle_
  got,        \* history: the values read from each frame
  outcome     \* of the program

vars == <<alive, handle, life, yielded, at, iter, got, outcome>>

Live == {"suspended", "done"}

Init ==
  /\ alive = {}
  /\ handle = [g \in Generators |-> Null]
  /\ life = [f \in Frames |-> "none"]
  /\ yielded = [f \in Frames |-> 0]
  /\ at = [l \in Loops |-> "out"] /\ iter = [l \in Loops |-> Null]
  /\ got = [f \in Frames |-> <<>>]
  /\ outcome = "running"

Unused(f) == \A l \in Loops : at[l] = "out" \/ iter[l] # f
-------------------------------------------------------------------------------
(* The objects.                                                            *)

New(g) == outcome = "running" /\ g \notin alive /\ alive' = alive \union {g}

\* handle_.destroy(), unless it is null.
DestroyFrame(f) ==
  /\ life' = [x \in Frames |-> IF x = f THEN "destroyed" ELSE life[x]]
  /\ outcome' = IF f = Null \/ life[f] \in Live THEN outcome ELSE "undefined"

Default(g) ==
  /\ New(g) /\ handle' = [handle EXCEPT ![g] = Null]
  /\ UNCHANGED <<life, yielded, at, iter, got, outcome>>

\* The call of a generator function: get_return_object, initial_suspend.
Call(g, f) ==
  /\ New(g) /\ handle' = [handle EXCEPT ![g] = f]
  /\ life[f] = "none" /\ life' = [life EXCEPT ![f] = "suspended"]
  /\ UNCHANGED <<yielded, at, iter, got, outcome>>

MoveConstruct_Copies(g, other) ==
  /\ New(g) /\ other \in alive
  /\ handle' = [handle EXCEPT ![g] = handle[other]]
  /\ UNCHANGED <<life, yielded, at, iter, got, outcome>>

MoveConstruct(g, other) ==
  /\ New(g) /\ other \in alive
  /\ handle' = [handle EXCEPT ![g] = handle[other], ![other] = Null]
  /\ UNCHANGED <<life, yielded, at, iter, got, outcome>>

\* g = std::move(source): the parameter, constructed from the source, which may
\* be g itself, is swapped with g and destroyed with what g had.
Assign(g, source) ==
  LET moved == [handle EXCEPT ![source] = Null]
  IN /\ outcome = "running" /\ {g, source} \subseteq alive
     /\ Unused(moved[g]) /\ DestroyFrame(moved[g])
     /\ handle' = [moved EXCEPT ![g] = handle[source]]
     /\ UNCHANGED <<alive, yielded, at, iter, got>>

Swap(g, other) ==
  /\ outcome = "running" /\ {g, other} \subseteq alive
  /\ handle' = [handle EXCEPT ![g] = handle[other], ![other] = handle[g]]
  /\ UNCHANGED <<alive, life, yielded, at, iter, got, outcome>>

Destroy(g) ==
  /\ outcome = "running" /\ g \in alive /\ alive' = alive \ {g}
  /\ Unused(handle[g]) /\ DestroyFrame(handle[g])
  /\ UNCHANGED <<handle, yielded, at, iter, got>>
-------------------------------------------------------------------------------
(* The loops.                                                              *)

\* resume(): the coroutine comes to a co_yield, to its end, or an exception
\* leaves it, which unhandled_exception throws on; then it is at its end too.
Resume(f, how) ==
  /\ how = "yields" => yielded[f] < MaxYields
  /\ yielded' = [yielded EXCEPT ![f] = IF how = "yields" THEN @ + 1 ELSE @]
  /\ life' = [life EXCEPT ![f] = IF how = "yields" THEN @ ELSE "done"]

Begins(l, g) == outcome = "running" /\ g \in alive /\ at[l] = "out" /\ Unused(handle[g])

Resumable_Unstarted(f) == f # Null /\ life[f] # "done" /\ yielded[f] = 0
Resumable(f) == f # Null /\ life[f] # "done"

BeginAtEnd(l, g) ==
  /\ Begins(l, g) /\ ~Resumable(handle[g])
  /\ at' = [at EXCEPT ![l] = "test"] /\ iter' = [iter EXCEPT ![l] = handle[g]]
  /\ UNCHANGED <<alive, handle, life, yielded, got, outcome>>

\* An exception from begin() reaches the caller.
Begin(l, g, how) ==
  /\ Begins(l, g) /\ Resumable(handle[g])
  /\ Resume(handle[g], how)
  /\ at' = [at EXCEPT ![l] = IF how = "throws" THEN "out" ELSE "test"]
  /\ iter' = [iter EXCEPT ![l] = handle[g]]
  /\ outcome' = IF life[handle[g]] = "suspended" THEN outcome ELSE "undefined"
  /\ UNCHANGED <<alive, handle, got>>

AtEnd(l) == iter[l] # Null => life[iter[l]] = "done"

\* it == end()
Leave(l) ==
  /\ outcome = "running" /\ at[l] = "test" /\ AtEnd(l)
  /\ at' = [at EXCEPT ![l] = "out"]
  /\ UNCHANGED <<alive, handle, life, yielded, iter, got, outcome>>

\* *it
Enter(l) ==
  /\ outcome = "running" /\ at[l] = "test" /\ ~AtEnd(l)
  /\ at' = [at EXCEPT ![l] = "body"]
  /\ got' = [got EXCEPT ![iter[l]] = Append(@, yielded[iter[l]])]
  /\ outcome' = IF life[iter[l]] = "suspended" /\ yielded[iter[l]] > 0 THEN outcome ELSE "undefined"
  /\ UNCHANGED <<alive, handle, life, yielded, iter>>

\* break, or an exception from the loop's body
Break(l) ==
  /\ outcome = "running" /\ at[l] = "body"
  /\ at' = [at EXCEPT ![l] = "out"]
  /\ UNCHANGED <<alive, handle, life, yielded, iter, got, outcome>>

\* ++it is noexcept.
Advance(l, how) ==
  /\ outcome = "running" /\ at[l] = "body"
  /\ Resume(iter[l], how)
  /\ at' = [at EXCEPT ![l] = "test"]
  /\ outcome' = CASE life[iter[l]] # "suspended" -> "undefined"
                  [] how = "throws" -> "terminated"
                  [] OTHER -> outcome
  /\ UNCHANGED <<alive, handle, iter, got>>

Next ==
  \/ \E g \in Generators :
       \/ Default(g) \/ Destroy(g)
       \/ \E f \in Frames : Call(g, f)
       \/ \E other \in Generators : MoveConstruct(g, other) \/ Assign(g, other) \/ Swap(g, other)
  \/ \E l \in Loops :
       \/ \E g \in Generators :
            BeginAtEnd(l, g) \/ \E how \in {"yields", "returns", "throws"} : Begin(l, g, how)
       \/ Enter(l) \/ Leave(l) \/ Break(l)
       \/ \E how \in {"yields", "returns", "throws"} : Advance(l, how)

Spec == Init /\ [][Next]_vars
-------------------------------------------------------------------------------
TypeOK ==
  /\ alive \subseteq Generators
  /\ handle \in [Generators -> Frames \union {Null}]
  /\ life \in [Frames -> {"none", "destroyed"} \union Live]
  /\ yielded \in [Frames -> 0..MaxYields]
  /\ at \in [Loops -> {"out", "test", "body"}]
  /\ iter \in [Loops -> Frames \union {Null}]
  /\ got \in [Frames -> Seq(0..MaxYields)]
  /\ outcome \in {"running", "terminated", "undefined"}

(* However generators are moved, assigned (to themselves too), swapped and    *)
(* destroyed, inside and outside of loops, a frame that is alive has one      *)
(* owner, so that it is destroyed once and at the end; what a loop reads is   *)
(* alive; and only a coroutine that is suspended at a co_yield is resumed or  *)
(* read.                                                                      *)
FramesOwned ==
  /\ \A f \in Frames : life[f] \in Live <=> \E g \in alive : handle[g] = f
  /\ \A g, h \in alive : handle[g] = handle[h] /\ handle[g] # Null => g = h
  /\ \A l \in Loops : at[l] # "out" /\ iter[l] # Null => life[iter[l]] \in Live
  /\ outcome # "undefined"

(* The loops over a coroutine, one after the other and left early or not,     *)
(* read what it yields in order, each value once and none twice, whichever    *)
(* objects it is reached through.                                             *)
EachValueOnce ==
  \A f \in Frames :
    /\ got[f] = [i \in 1..Len(got[f]) |-> i]
    /\ yielded[f] = Len(got[f]) +
         IF \E l \in Loops : at[l] = "test" /\ iter[l] = f /\ life[f] = "suspended" THEN 1 ELSE 0
===============================================================================
