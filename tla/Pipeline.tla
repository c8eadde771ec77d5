-------------------------------- MODULE Pipeline --------------------------------
(***************************************************************************)
(* Senders and `then` (execution/then.hpp, sender_adaptor_closure.hpp,     *)
(* receiver_adaptor.hpp and the sender factories): a sender is written     *)
(* with the pipe operator, connected to a receiver and started, and its    *)
(* completion signal goes through the functions to the receiver.           *)
(*                                                                         *)
(* What the compiler decides are operators: which expressions it accepts   *)
(* and the completion signatures of their values.  A type is its name; a   *)
(* signal that is sent is the signature it is sent with.                   *)
(***************************************************************************)
EXTENDS Signatures

CONSTANTS
  Answer,      \* what the query of a read() gives
  Functions,   \* [takes: sets of argument lists, gives: a type, throws: BOOLEAN]
  Bases,       \* the senders `then` is applied to
  MaxFns       \* how many functions are written

ASSUME PipelineAssumption ==
  /\ MaxFns \in Nat /\ Answer \in Types
  /\ Functions \subseteq [takes : SUBSET Seq(Types), gives : Types \union {Void}, throws : BOOLEAN]
  /\ Bases \subseteq [kind : {"just", "awaitable"}, ts : Seq(Types)]
                  \union [kind : {"read", "schedule"}]
                  \union [kind : {"custom"}, sigs : Seq({s \in Signals : validate_tag_args(s)})]
  /\ IllFormed \notin [base : Bases, fns : Seq(Functions)]

VARIABLES
  env,       \* the environment of the receiver
  sender,    \* the sender so far, IllFormed when an expression was rejected
  text,      \* its functions, in the order in which they are written
  closure,   \* the closure being written, if any, and its functions
  written,
  phase, at, signal,   \* the operation, and the receiver its signal has come to
  called,    \* the functions that were invoked
  out        \* what the receiver at the end has got

vars == <<env, sender, text, closure, written, phase, at, signal, called, out>>

Error == Sig("error", <<Eptr>>)
Stopped == Sig("stopped", <<>>)
-------------------------------------------------------------------------------
(* Signatures of the senders.                                              *)

just_signatures(ts) == completion_signatures(<<Sig("value", ts), Error>>)

read_signatures(E) ==
  IF E = "env" THEN completion_signatures(<<Sig("value", <<Answer>>), Error>>)
  ELSE Dependent("no_env")

run_loop_signatures == completion_signatures(<<Sig("value", <<>>), Error, Stopped>>)

awaitable_signatures(ts) == completion_signatures(<<Sig("value", ts), Error, Stopped>>)

\* get_completion_signatures: tag_invoke, the member type, or an awaitable.
base_signatures(b, E) ==
  CASE b.kind = "just" -> just_signatures(b.ts)
    [] b.kind = "read" -> read_signatures(E)
    [] b.kind = "schedule" -> run_loop_signatures
    [] b.kind = "awaitable" -> awaitable_signatures(b.ts)
    [] OTHER -> completion_signatures(b.sigs)

invoke_result(f, args) == IF args \in f.takes THEN f.gives ELSE IllFormed

ValueOf(t) == Sig("value", IF t = Void THEN <<>> ELSE <<t>>)

set_value_tuple(f, args) ==
  LET r == invoke_result(f, args) IN IF m_valid(r) THEN ValueOf(r) ELSE IllFormed

then_signatures_NoError(sigs, f, E) ==
  IF ~has_sender_types(sigs) THEN IllFormed
  ELSE make_completion_signatures(sigs, E, completion_signatures(<<>>),
         LAMBDA args : set_value_tuple(f, args), default_set_error,
         Known(sigs) /\ sends_stopped(sigs))

then_signatures(sigs, f, E) ==
  IF ~has_sender_types(sigs) THEN IllFormed
  ELSE make_completion_signatures(sigs, E, completion_signatures(<<Error>>),
         LAMBDA args : set_value_tuple(f, args), default_set_error,
         Known(sigs) /\ sends_stopped(sigs))

completion_signatures_of(S, E) ==
  FoldLeft(LAMBDA sigs, f : then_signatures(sigs, f, E), base_signatures(S.base, E), S.fns)

is_sender(S, E) ==
  /\ has_sender_types(completion_signatures_of(S, E))
  /\ has_sender_types(completion_signatures_of(S, "no_env"))
-------------------------------------------------------------------------------
(* Expressions.                                                            *)

then(S, f) ==
  LET S2 == [S EXCEPT !.fns = Append(@, f)]
  IN IF is_sender(S, "no_env") /\ is_sender(S2, "no_env") THEN S2 ELSE IllFormed

bind_back(f) == [arg |-> f]

compose_Swapped(c1, c2) == [cpo |-> c1, cpo2 |-> c2]
compose(c1, c2) == [cpo |-> c2, cpo2 |-> c1]    \* c1 | c2

\* The closures with n functions, and what one makes of a sender.
Closures[n \in 1..MaxFns] ==
  IF n = 1 THEN {bind_back(f) : f \in Functions}
  ELSE UNION {[cpo : Closures[k], cpo2 : Closures[n - k]] : k \in 1..n - 1}

Senders == [base : Bases, fns : Seq(Functions)]

Apply(c, S) ==
  LET of[d \in UNION {Closures[n] : n \in 1..MaxFns}] ==
        [X \in Senders \union {IllFormed} |->
           IF ~m_valid(X) THEN IllFormed
           ELSE IF "arg" \in DOMAIN d THEN then(X, d.arg)
           ELSE of[d.cpo][of[d.cpo2][X]]]
  IN of[c][S]

Init ==
  /\ env \in {"env", "empty_env"}
  /\ sender \in {[base |-> b, fns |-> <<>>] : b \in Bases}
  /\ text = <<>> /\ closure = <<>> /\ written = <<>>
  /\ phase = "writing" /\ at = 0 /\ signal = <<>>
  /\ called = <<>> /\ out = <<>>

Room == phase = "writing" /\ Len(text) + Len(written) < MaxFns

\* then(f)
Close(f) ==
  /\ Room /\ closure = <<>>
  /\ closure' = bind_back(f) /\ written' = <<f>>
  /\ UNCHANGED <<env, sender, text, phase, at, signal, called, out>>

\* closure | then(f), and then(f) | closure
ComposeAfter(f) ==
  /\ Room /\ closure # <<>>
  /\ closure' = compose(closure, bind_back(f)) /\ written' = Append(written, f)
  /\ UNCHANGED <<env, sender, text, phase, at, signal, called, out>>

ComposeBefore(f) ==
  /\ Room /\ closure # <<>>
  /\ closure' = compose(bind_back(f), closure) /\ written' = <<f>> \o written
  /\ UNCHANGED <<env, sender, text, phase, at, signal, called, out>>

\* sender | closure
Pipe ==
  /\ phase = "writing" /\ closure # <<>>
  /\ sender' = Apply(closure, sender)
  /\ phase' = IF m_valid(sender') THEN "writing" ELSE "rejected"
  /\ text' = text \o written
  /\ closure' = <<>> /\ written' = <<>>
  /\ UNCHANGED <<env, at, signal, called, out>>
-------------------------------------------------------------------------------
(* Receivers: that of the i-th function, and the one at the end, which     *)
(* takes what the sender declares and what every receiver must take.       *)

Final == Len(sender.fns) + 1

Declared(S, E) ==
  LET sigs == completion_signatures_of(S, E) IN IF Known(sigs) THEN ToSet(sigs.ts) ELSE {}

EndTakes(s) == s \in Declared(sender, env) \union {Error, Stopped}

\* receiver_adaptor: a function that is defined for some arguments hides what
\* the receiver below would take; one that is not defined passes all on.
via(defined, callable) ==
  IF callable THEN "member" ELSE IF defined THEN "none" ELSE "base"

Route(i, s) ==
  LET at_receiver[k \in 1..Final] ==
        [x \in Signals |->
           IF k = Final THEN via(TRUE, EndTakes(x))
           ELSE via(x.tag = "value",
                    /\ x.tag = "value" /\ m_valid(invoke_result(sender.fns[k], x.args))
                    /\ at_receiver[k + 1][set_value_tuple(sender.fns[k], x.args)] # "none")]
  IN at_receiver[i][s]

\* What tag_invoke(connect_t, ...) of the base asks of the receiver.
ConnectsJust(ts) == Route(1, Sig("value", ts)) # "none"
ConnectsSchedule == Route(1, Sig("value", <<>>)) # "none"
ConnectsRead == env = "env" /\ Route(1, Sig("value", <<Answer>>)) # "none"
ConnectsCustom(sigs) == \A s \in ToSet(sigs) : Route(1, s) # "none"

Connectable(b) ==
  CASE b.kind = "just" -> ConnectsJust(b.ts)
    [] b.kind = "schedule" -> ConnectsSchedule
    [] b.kind = "read" -> ConnectsRead
    [] b.kind = "custom" -> ConnectsCustom(b.sigs)
    [] OTHER -> FALSE

Connect ==
  /\ phase = "writing" /\ closure = <<>>
  /\ is_sender(sender, "no_env") /\ Connectable(sender.base)
  /\ phase' = "connected"
  /\ UNCHANGED <<env, sender, text, closure, written, at, signal, called, out>>

\* What comes of start(): set_value is noexcept, so that just() and the loop
\* never come to their catch; the query of a read() may throw.
StartJust(ts) == {Sig("value", ts)}
StartRead == {Sig("value", <<Answer>>), Error}
Execute == {Sig("value", <<>>)}

Completions(b) ==
  CASE b.kind = "just" -> StartJust(b.ts)
    [] b.kind = "schedule" -> Execute
    [] b.kind = "read" -> StartRead
    [] OTHER -> ToSet(b.sigs)

\* start() of schedule() goes through the loop's queue.
Queue ==
  /\ phase = "connected" /\ sender.base.kind = "schedule" /\ phase' = "queued"
  /\ UNCHANGED <<env, sender, text, closure, written, at, signal, called, out>>

Complete(s) ==
  /\ phase = IF sender.base.kind = "schedule" THEN "queued" ELSE "connected"
  /\ phase' = "completing" /\ at' = 1 /\ signal' = s
  /\ UNCHANGED <<env, sender, text, closure, written, called, out>>

AtFunction(how) == phase = "completing" /\ at < Final /\ Route(at, signal) = how /\ at' = at + 1

\* then_receiver::set_value
InvokeReturns ==
  /\ AtFunction("member")
  /\ signal' = set_value_tuple(sender.fns[at], signal.args)
  /\ called' = Append(called, sender.fns[at])
  /\ UNCHANGED <<env, sender, text, closure, written, phase, out>>

InvokeThrows ==
  /\ AtFunction("member") /\ sender.fns[at].throws
  /\ signal' = Error
  /\ called' = Append(called, sender.fns[at])
  /\ UNCHANGED <<env, sender, text, closure, written, phase, out>>

PassOn ==
  /\ AtFunction("base")
  /\ UNCHANGED <<env, sender, text, closure, written, phase, signal, called, out>>

Deliver ==
  /\ phase = "completing" /\ at = Final
  /\ out' = Append(out, signal) /\ phase' = "done"
  /\ UNCHANGED <<env, sender, text, closure, written, at, signal, called>>

Next ==
  \/ \E f \in Functions : Close(f) \/ ComposeAfter(f) \/ ComposeBefore(f)
  \/ Pipe \/ Connect \/ Queue
  \/ phase \in {"connected", "queued"} /\ \E s \in Completions(sender.base) : Complete(s)
  \/ InvokeReturns \/ InvokeThrows \/ PassOn \/ Deliver

Spec == Init /\ [][Next]_vars
-------------------------------------------------------------------------------
valid_sync_wait_sender(S) ==
  /\ is_sender(S, "env") /\ Known(completion_signatures_of(S, "env"))
  /\ LET values == value_types(decayed_tuple, variant_or_empty, completion_signatures_of(S, "env"))
     IN m_valid(values) /\ m_size(values) = 1

\* The signals a set of signals can become in a function.
Through(f, sigs) ==
  {Error} \union {s \in sigs : s.tag # "value"}
    \union {ValueOf(f.gives) : s \in {v \in sigs : v.tag = "value"}}
CanTake(f, sigs) == \A s \in sigs : s.tag = "value" => s.args \in f.takes

(* The signatures the compiler lists for a sender are exactly the signals it  *)
(* can get from the sender below, through the function or around it, and each *)
(* is listed once.  It rejects `then` where the function cannot take every    *)
(* value, and also on a sender that lists no value or no error, which could   *)
(* pass on all that there is; it takes anything on a read(), whose values are *)
(* not known, and without an answer of the environment nothing that stands on *)
(* a read() is a sender in it.                                                *)
SignaturesExact ==
  m_valid(sender) => \A f \in Functions, E \in {"no_env", "env", "empty_env"} :
    LET below == completion_signatures_of(sender, E)
        above == then_signatures(below, f, E)
        tags == {s.tag : s \in ToSet(below.ts)}
    IN /\ Known(below) =>
            /\ m_valid(above) <=> {"value", "error"} \subseteq tags /\ CanTake(f, ToSet(below.ts))
            /\ m_valid(above) =>
                 /\ ToSet(above.ts) = Through(f, ToSet(below.ts))
                 /\ Len(above.ts) = Cardinality(ToSet(above.ts))
       /\ m_valid(then(sender, f)) <=>
            IF sender.base.kind = "read" THEN TRUE
            ELSE m_valid(then_signatures(completion_signatures_of(sender, "env"), f, "env"))
       /\ sender.base.kind = "read" /\ E = "empty_env" => ~has_sender_types(above)

(* What is sent is declared: the signal that reaches a receiver is one of the *)
(* signatures of the sender below it, whatever threw on the way, and the      *)
(* receiver takes it.  The functions run in the order in which they are       *)
(* written, however the closures are nested; the receiver gets one signal;    *)
(* and a value that sync_wait gets is of the one type it has made room for.   *)
DeliveredIsDeclared ==
  phase \in {"completing", "done"} =>
    LET below == Declared([sender EXCEPT !.fns = SubSeq(@, 1, at - 1)], env)
    IN /\ signal \in below
       /\ Route(at, signal) # "none"
       /\ called = SubSeq(text, 1, Len(called)) /\ Len(called) < at
       /\ out = IF phase = "done" THEN <<signal>> ELSE <<>>
       /\ phase = "done" /\ env = "env" /\ valid_sync_wait_sender(sender) /\ signal.tag = "value" =>
            value_types(decayed_tuple, variant_or_empty, completion_signatures_of(sender, env)).ts
              = <<decayed_tuple(signal.args)>>
===============================================================================
