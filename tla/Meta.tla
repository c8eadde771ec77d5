---------------------------------- MODULE Meta ----------------------------------
(***************************************************************************)
(* iol::meta (meta.hpp): computation with lists of types.                  *)
(*                                                                         *)
(* A list L<Ts...> is a record of its template and its types.  A template  *)
(* that is applied to types is an operator on a sequence of types.  What   *)
(* the compiler rejects is the value IllFormed, whether a requires-clause  *)
(* could find out or the compilation ends; operators hand it on.           *)
(*                                                                         *)
(* MCMeta says what every operator makes of a list built type by type;     *)
(* Signatures and Pipeline use the operators as the senders do.            *)
(***************************************************************************)
EXTENDS Integers, Sequences, FiniteSets, SequencesExt

CONSTANT IllFormed

m_list(ts) == [of |-> "m_list", ts |-> ts]

Templates == {"m_list", "tuple", "variant", "empty_variant", "completion_signatures"}

\* The lists of elements of X.
Lists(X) == [of : Templates, ts : Seq(X)]

m_size(L) == Len(L.ts)
m_push_back(L, ts) == [L EXCEPT !.ts = @ \o ts]
m_push_front(L, ts) == [L EXCEPT !.ts = ts \o @]
m_clear(L) == [L EXCEPT !.ts = <<>>]
m_assign(L, L2) == [L EXCEPT !.ts = L2.ts]
m_rename(L, template) == [L EXCEPT !.of = template]

\* m_first, m_second and m_third.
m_nth(L, n) == IF n \in DOMAIN L.ts THEN L.ts[n] ELSE IllFormed

m_valid(t) == t # IllFormed

\* The alternative is a sequence of at most one type.
m_if(c, then, else) ==
  CASE c = IllFormed -> IllFormed
    [] c = TRUE -> then
    [] OTHER -> IF else = <<>> THEN IllFormed ELSE Head(else)

m_bind_front(F(_), ts, args) == F(ts \o args)
m_bind_back(F(_), ts, args) == F(args \o ts)
-------------------------------------------------------------------------------
(* Truth values.                                                           *)

m_not(b) == IF m_valid(b) THEN ~b ELSE IllFormed

m_same(ts) == \A i \in DOMAIN ts : ts[i] = ts[1]

m_all(bs) == IF IllFormed \in ToSet(bs) THEN IllFormed ELSE FALSE \notin ToSet(bs)
m_any(bs) == IF IllFormed \in ToSet(bs) THEN IllFormed ELSE TRUE \in ToSet(bs)

\* They look no further than they must; m_and takes what is no type for false.
m_and(bs) == ToSet(bs) \subseteq {TRUE}

m_or(bs) ==
  LET others == {i \in DOMAIN bs : bs[i] # FALSE}
  IN IF others = {} THEN FALSE ELSE bs[Min(others)]
-------------------------------------------------------------------------------
(* Lists of lists.                                                         *)

m_apply(F(_), L) == IF m_valid(L) THEN F(L.ts) ELSE IllFormed

Joined(Ls) == m_push_back(Head(Ls), FlattenSeq([i \in 1..Len(Ls) - 1 |-> Ls[i + 1].ts]))

\* Six lists become one, as often as there are six; first[k] has taken 5k + 1.
m_concat(Ls) ==
  LET n == (Len(Ls) - 1) \div 5
      first[k \in 0..n] ==
        IF k = 0 THEN Head(Ls) ELSE Joined(<<first[k - 1]>> \o SubSeq(Ls, 5 * k - 3, 5 * k + 1))
  IN IF Ls = <<>> \/ IllFormed \in ToSet(Ls) THEN IllFormed
     ELSE Joined(<<first[n]>> \o SubSeq(Ls, 5 * n + 2, Len(Ls)))

\* The pieces m_fold takes a list in: tens, then a five, then the rest; last[n]
\* are those of the last n types.
Piece(n) == CASE n >= 10 -> 10 [] n \in 5..9 -> 5 [] OTHER -> n

Pieces_Late(ts) ==
  LET last[n \in 0..Len(ts)] ==
        IF n = 0 THEN <<>>
        ELSE <<SubSeq(ts, Len(ts) - n + 1, Len(ts) - n + Piece(n))>>
               \o last[IF n > Piece(n) THEN n - Piece(n) - 1 ELSE 0]
  IN last[Len(ts)]

Pieces(ts) ==
  LET last[n \in 0..Len(ts)] ==
        IF n = 0 THEN <<>>
        ELSE <<SubSeq(ts, Len(ts) - n + 1, Len(ts) - n + Piece(n))>> \o last[n - Piece(n)]
  IN last[Len(ts)]

m_fold(L, v, F(_, _)) ==
  FoldLeft(LAMBDA acc, piece : FoldLeft(F, acc, piece), v, Pieces(L.ts))

Combinable(Ls) ==
  Ls # <<>> /\ IllFormed \notin ToSet(Ls) /\ m_same([i \in DOMAIN Ls |-> m_size(Ls[i])])

\* T1s, T2s, ... side by side, in the template of the first list.
Columns(Ls) ==
  [Ls[1] EXCEPT !.ts = [i \in DOMAIN @ |-> m_list([k \in DOMAIN Ls |-> Ls[k].ts[i]])]]

\* Of more than five lists: those of five, lengthened by one list after the other.
ManyColumns(Ls) ==
  LET F1(C, V) == [C EXCEPT !.ts = [i \in DOMAIN @ |-> m_push_back(@[i], <<V.ts[i]>>)]]
  IN m_fold(m_list(SubSeq(Ls, 6, Len(Ls))), Columns(SubSeq(Ls, 1, 5)), F1)

Spread(F(_), C) ==
  LET ts == [i \in DOMAIN C.ts |-> m_apply(F, C.ts[i])]
  IN IF IllFormed \in ToSet(ts) THEN IllFormed ELSE [C EXCEPT !.ts = ts]

m_transform(F(_), Ls) ==
  IF ~Combinable(Ls) THEN IllFormed
  ELSE Spread(F, IF Len(Ls) <= 5 THEN Columns(Ls) ELSE ManyColumns(Ls))

m_transform_if(Fn(_), Qf(_), Ls) ==
  m_transform(LAMBDA args : m_if(Qf(args), Fn(args), <<args[1]>>), Ls)

\* The list of lists that is concatenated is empty when L is.
Kept(L, verdicts) ==
  m_concat([i \in DOMAIN L.ts |-> m_if(verdicts[i], m_list(<<L.ts[i]>>), <<m_list(<<>>)>>)])

m_filter(Q(_), Ls) ==
  LET verdicts == m_transform(Q, Ls)
  IN IF m_valid(verdicts) THEN Kept(Ls[1], verdicts.ts) ELSE IllFormed

m_unique_Adjacent(L) ==
  FoldLeft(LAMBDA R, T : IF R.ts # <<>> /\ Last(R.ts) = T THEN R ELSE m_push_back(R, <<T>>),
           m_clear(L), L.ts)
m_unique(L) ==
  FoldLeft(LAMBDA R, T : IF T \in ToSet(R.ts) THEN R ELSE m_push_back(R, <<T>>),
           m_clear(L), L.ts)

\* The counter of an empty list is const, and its conversion is not.
Counted(verdicts) ==
  IF verdicts = <<>> \/ IllFormed \in ToSet(verdicts) THEN IllFormed
  ELSE Cardinality({i \in DOMAIN verdicts : verdicts[i]})

m_count_if(L, Q(_)) == Counted([i \in DOMAIN L.ts |-> Q(<<L.ts[i]>>)])

m_count(L, V) == m_count_if(L, LAMBDA args : m_bind_back(m_same, <<V>>, args))

m_contains(L, V) == IF m_valid(m_count(L, V)) THEN m_count(L, V) > 0 ELSE IllFormed
===============================================================================
