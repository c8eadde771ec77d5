--------------------------------- MODULE MCMeta ---------------------------------
(***************************************************************************)
(* The operators of Meta beside their plain definitions, on every list     *)
(* that can be built from Items.                                           *)
(***************************************************************************)
EXTENDS Meta

CONSTANTS
  Items,      \* the types lists are made of
  MaxSize     \* how long a list gets

\* What does not exist is no type, no value and no list.
ASSUME MetaAssumption ==
  IllFormed \notin Items \union BOOLEAN \union Nat \union Lists(Items) \union Lists(BOOLEAN)

\* Types are only compared with each other.
Symmetry == Permutations(Items)

VARIABLE list

ListInit == list = m_list(<<>>)

PushBack(t) == list' = m_push_back(list, <<t>>)
PushFront(t) == list' = m_push_front(list, <<t>>)
ListNext == m_size(list) < MaxSize /\ \E t \in Items : PushBack(t) \/ PushFront(t)

ListSpec == ListInit /\ [][ListNext]_list
-------------------------------------------------------------------------------
\* A list cut into lists of w types; the last may be shorter.
Rows(L, w) ==
  [k \in 1..((m_size(L) + w - 1) \div w) |->
     m_list(SubSeq(L.ts, (k - 1) * w + 1, IF k * w < m_size(L) THEN k * w ELSE m_size(L)))]

(* fold, concat and transform take lists in pieces of five, six or ten, and   *)
(* the rest again: every type, of every list, goes in once and in order, also *)
(* where one piece ends and the next begins; only lists of one size combine,  *)
(* and the template is that of the first.                                     *)
PiecesDoNotShow ==
  /\ m_fold(list, m_clear(list), LAMBDA v, t : m_push_back(v, <<t>>)) = list
  /\ \A w \in 1..3 :
       LET rows == Rows(list, w)
       IN /\ m_concat(rows) = IF list.ts = <<>> THEN IllFormed ELSE list
          /\ m_concat(<<m_rename(m_clear(list), "variant")>> \o rows) =
               m_assign(m_rename(m_list(<<>>), "variant"), list)
          /\ m_transform(m_list, rows) =
               IF list.ts = <<>> \/ (m_size(list) > w /\ m_size(list) % w # 0) THEN IllFormed
               ELSE m_list([i \in 1..m_size(rows[1]) |->
                              m_list([k \in DOMAIN rows |-> list.ts[(k - 1) * w + i]])])

\* r is s at the positions I, in their order.
Selects(r, s, I) ==
  /\ Len(r) = Cardinality(I)
  /\ \A i \in I : r[Cardinality({j \in I : j <= i})] = s[i]

Firsts(s) == {i \in DOMAIN s : \A j \in 1..i - 1 : s[j] # s[i]}
Is(s, t) == [i \in DOMAIN s |-> s[i] = t]
Without(L, t) == m_filter(LAMBDA args : m_not(m_bind_front(m_same, <<t>>, args)), <<L>>)

(* unique keeps the first of each type; filter and count split a list between *)
(* them and neither takes an empty one; filter compares column by column; and *)
(* the short circuits differ in what they make of a type that does not exist. *)
SelectionsAgree ==
  /\ Selects(m_unique(list).ts, list.ts, Firsts(list.ts))
  /\ \A t \in Items :
       LET is == Is(list.ts, t)
       IN /\ list.ts = <<>> =>
               ~m_valid(Without(list, t)) /\ ~m_valid(m_count(list, t)) /\ ~m_valid(m_contains(list, t))
          /\ list.ts # <<>> =>
               /\ Without(list, t).of = "m_list"
               /\ Selects(Without(list, t).ts, list.ts, {i \in DOMAIN is : ~is[i]})
               /\ m_count(list, t) + m_size(Without(list, t)) = m_size(list)
               /\ m_contains(list, t) = m_any(is)
               /\ m_filter(m_same, <<list, m_transform_if(LAMBDA args : IllFormed,
                                             LAMBDA args : FALSE, <<list>>)>>) = list
          /\ m_or(is) = m_any(is) /\ m_and(is) = m_all(is)
          /\ m_or(Append(is, IllFormed)) = IF m_any(is) THEN TRUE ELSE IllFormed
          /\ ~m_and(Append(is, IllFormed))
          /\ ~m_valid(m_all(Append(is, IllFormed)))
===============================================================================
