------------------------------- MODULE Signatures -------------------------------
(***************************************************************************)
(* Completion signatures (execution/completion_signatures.hpp): what the   *)
(* compiler knows of how a sender completes, and what it computes for a    *)
(* sender that adapts another one.                                         *)
(*                                                                         *)
(* A signature Tag(Vs...) is a record, completion_signatures<Fns...> a     *)
(* list of Meta.  A sender whose signatures depend on an environment has   *)
(* the value Dependent(E) in place of a list.                              *)
(***************************************************************************)
EXTENDS Meta

CONSTANTS
  Types,    \* the types of what senders send
  Void,     \* void
  Eptr      \* std::exception_ptr

Sig(tag, args) == [tag |-> tag, args |-> args]

Signals == [tag : {"value", "error", "stopped"}, args : Seq(Types)]

Dependent(E) == [dependent_on |-> E]

Environments == {"no_env", "env", "empty_env"}

\* What the lists of this module hold.
Elements == Types \union Signals \union BOOLEAN \union Lists(Types)

\* What does not exist is no type, no list and no truth value; void is no type
\* of a thing that is sent.
ASSUME SignaturesAssumption ==
  /\ Eptr \in Types /\ Void \notin Elements
  /\ IllFormed \notin {Void} \union Elements \union Lists(Elements)
  /\ \A E \in Environments : IllFormed # Dependent(E)

default_set_value(args) == Sig("value", args)
default_set_error(args) == Sig("error", args)

validate_tag_args(s) ==
  (s.tag = "error" => Len(s.args) = 1) /\ (s.tag = "stopped" => s.args = <<>>)

completion_signature(s) == s # Void /\ validate_tag_args(s)

args_t(s) == IF s.tag = "error" THEN m_nth(m_list(s.args), 1) ELSE m_list(s.args)

completion_signatures(sigs) == m_rename(m_list(sigs), "completion_signatures")

equal_tag(args) == m_same(<<args[1], args[2].tag>>)

tag_sigs_t(tag, Fns) == m_filter(LAMBDA args : m_bind_front(equal_tag, <<tag>>, args), <<Fns>>)

\* The arguments of each signature with the tag.
tag_args_t(tag, Fns) == m_transform(LAMBDA args : args_t(args[1]), <<tag_sigs_t(tag, Fns)>>)

value_types(Tuple(_), Variant(_), Fns) ==
  m_apply(Variant, m_transform(LAMBDA args : m_apply(Tuple, args[1]), <<tag_args_t("value", Fns)>>))

error_types(Variant(_), Fns) == m_apply(Variant, tag_args_t("error", Fns))

sends_stopped(Fns) == m_any([i \in DOMAIN Fns.ts |-> equal_tag(<<"stopped", Fns.ts[i]>>)])

decayed_tuple(ts) == m_rename(m_list(ts), "tuple")

\* empty_variant has no types to count.
variant_or_empty(ts) ==
  m_if(ts # <<>>, m_rename(m_list(ts), "variant"), <<m_rename(m_list(<<>>), "empty_variant")>>)

\* value_types and error_types can be named.
Known(sigs) == m_valid(sigs) /\ "ts" \in DOMAIN sigs

\* What is there for no_env has the members of a sender's signatures, but none
\* of them can be used; what is there for any other environment has not.
has_sender_types(sigs) == m_valid(sigs) /\ (Known(sigs) \/ sigs = Dependent("no_env"))

is_valid_signature_list(L) ==
  m_apply(m_all, m_transform(LAMBDA args : completion_signature(args[1]), <<L>>))

not_void(args) == m_not(m_bind_front(m_same, <<Void>>, args))

Adapted(value_sigs, error_sigs, stopped, Addl) ==
  LET stopped_sigs == m_if(stopped, m_list(<<Sig("stopped", <<>>)>>), <<m_list(<<>>)>>)
  IN IF m_all(<<is_valid_signature_list(value_sigs), is_valid_signature_list(error_sigs)>>) = TRUE
     THEN m_rename(m_unique(m_concat(<<value_sigs, error_sigs, stopped_sigs, Addl>>)),
                   "completion_signatures")
     ELSE IllFormed

\* Only the absence of value_types and error_types can be asked for: what goes
\* wrong inside them, or in Adapted, ends the compilation.
make_completion_signatures(Fns, E, Addl, SetValue(_), SetError(_), stopped) ==
  IF Known(Fns)
  THEN Adapted(m_filter(not_void, <<value_types(SetValue, m_list, Fns)>>),
               m_transform(SetError, <<m_filter(not_void, <<error_types(m_list, Fns)>>)>>),
               stopped, Addl)
  ELSE Dependent(E)
===============================================================================
