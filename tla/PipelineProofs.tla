----------------------------- MODULE PipelineProofs -----------------------------
(***************************************************************************)
(* What is proved of Pipeline, for every set of types, of functions and of *)
(* base senders: the signatures the compiler computes for a sender are     *)
(* exact, and what is delivered was declared.                              *)
(*                                                                         *)
(* And of the lists of types that the signatures are computed with (Meta), *)
(* for every set of types and lists of any length: the pieces in which     *)
(* fold, concat and transform take them do not show, and what unique,      *)
(* filter and count select agrees.                                         *)
(***************************************************************************)
EXTENDS Pipeline, MCMeta, SequenceTheorems, FiniteSetTheorems, WellFoundedInduction, TLAPS

LEMMA NatSet ==
  ASSUME NEW S, 0 \in S, \A n \in Nat : n \in S => n + 1 \in S
  PROVE  \A n \in Nat : n \in S
<1>1. SUFFICES ASSUME NEW m \in Nat, m \notin S PROVE FALSE
  OBVIOUS
<1> DEFINE Bad == {n \in Nat : n \notin S}
<1>2. Bad # {} /\ Bad \subseteq Nat
  BY <1>1
<1>3. PICK n \in Bad : \A k \in Bad : <<k, n>> \notin OpToRel(<, Nat)
  BY <1>2, NatLessThanWellFounded, WFMin
<1>4. n \in Nat /\ n \notin S
  BY <1>3
<1>5. n # 0 /\ n - 1 \in Nat
  BY <1>4
<1>6. n - 1 \in Bad
  BY <1>4, <1>5
<1>7. <<n - 1, n>> \in OpToRel(<, Nat)
  BY <1>4, <1>5 DEF OpToRel
<1> QED BY <1>3, <1>6, <1>7

(* What is computed from the value before is computed n times.               *)
Closed(G, V, n) == \A v \in V, i \in 1..n : G[i][v] \in V

LEMMA Iteration ==
  ASSUME NEW V, NEW b \in V, NEW n \in Nat, NEW G, Closed(G, V, n)
  PROVE  \E p \in [0..n -> V] : p[0] = b /\ \A i \in 1..n : p[i] = G[i][p[i - 1]]
<1> USE DEF Closed
<1> DEFINE Up(m) == \E p \in [0..m -> V] : p[0] = b /\ \A i \in 1..m : p[i] = G[i][p[i - 1]]
           S == {m \in Nat : m <= n => Up(m)}
<1>1. Up(0)
  <2>1. PICK p : p = [i \in 0..0 |-> b]
    OBVIOUS
  <2>2. p \in [0..0 -> V] /\ p[0] = b /\ 1..0 = {}
    BY <2>1
  <2> QED BY <2>2
<1>2. ASSUME NEW m \in Nat, m + 1 <= n, Up(m) PROVE Up(m + 1)
  <2>1. PICK p \in [0..m -> V] : p[0] = b /\ \A i \in 1..m : p[i] = G[i][p[i - 1]]
    BY <1>2
  <2>2. PICK v \in V : v = G[m + 1][p[m]]
    BY <1>2
  <2>3. PICK q : q = [i \in 0..m + 1 |-> IF i = m + 1 THEN v ELSE p[i]]
    OBVIOUS
  <2>4. q \in [0..m + 1 -> V] /\ q[0] = b /\ q[m + 1] = v /\ \A i \in 0..m : q[i] = p[i]
    BY <2>1, <2>3
  <2>5. ASSUME NEW i \in 1..m + 1 PROVE q[i] = G[i][q[i - 1]]
    <3>1. CASE i = m + 1
      BY <3>1, <2>2, <2>4
    <3>2. CASE i \in 1..m
      BY <3>2, <2>1, <2>4
    <3> QED BY <3>1, <3>2
  <2> QED BY <2>4, <2>5
<1> HIDE DEF Up
<1>3. 0 \in S /\ \A m \in Nat : m \in S => m + 1 \in S
  <2>1. 0 \in S
    BY <1>1
  <2>2. ASSUME NEW m \in Nat, m \in S, m + 1 <= n PROVE Up(m + 1)
    <3>1. m <= n
      BY <2>2
    <3>2. Up(m)
      BY <2>2, <3>1
    <3> QED BY <1>2, <2>2, <3>2
  <2> QED BY <2>1, <2>2
<1>4. n \in S
  <2> HIDE DEF S
  <2> QED BY <1>3, NatSet
<1>5. Up(n)
  BY <1>4
<1> QED BY <1>5 DEF Up

LEMMA MaxIs ==
  ASSUME NEW s, NEW m \in s, s \subseteq Int, \A k \in s : k <= m
  PROVE  Max(s) = m
<1>1. \A x \in s : (\A y \in s : x >= y) => x = m
  OBVIOUS
<1>2. \A y \in s : m >= y
  OBVIOUS
<1> QED BY <1>1, <1>2 DEF Max

LEMMA MaxIn ==
  ASSUME NEW n \in Nat, NEW s \in SUBSET (1..n), s # {}
  PROVE  Max(s) \in s
<1> DEFINE D == {n - x : x \in s}
<1>1. D # {} /\ D \subseteq Nat
  OBVIOUS
<1>2. PICK d \in D : \A e \in D : <<e, d>> \notin OpToRel(<, Nat)
  BY <1>1, NatLessThanWellFounded, WFMin
<1>3. PICK m \in s : d = n - m
  OBVIOUS
<1>4. \A x \in s : x <= m
  <2>1. ASSUME NEW x \in s PROVE x <= m
    <3>1. <<n - x, d>> \notin OpToRel(<, Nat)
      BY <1>2
    <3>2. n - x \in Nat /\ d \in Nat
      BY <1>1, <1>3
    <3>3. ~(n - x < d)
      BY <3>1, <3>2 DEF OpToRel
    <3> QED BY <1>3, <3>3
  <2> QED BY <2>1
<1>5. s \subseteq Int
  OBVIOUS
<1>6. Max(s) = m
  BY <1>3, <1>4, <1>5, MaxIs
<1> QED BY <1>3, <1>6

Folds(f, n, b, G) ==
  \A s \in SUBSET (1..n) : f[s] = IF s = {} THEN b ELSE G[Max(s)][f[s \ {Max(s)}]]

(* The function by which FoldLeft is defined.                                *)
LEMMA FoldIteration ==
  ASSUME NEW V, NEW b \in V, NEW n \in Nat, NEW G, Closed(G, V, n)
  PROVE  \E f \in [SUBSET (1..n) -> V] : Folds(f, n, b, G)
<1> USE DEF Closed, Folds
<1> DEFINE Up(m) == \E f \in [SUBSET (1..m) -> V] :
                      \A s \in SUBSET (1..m) :
                        f[s] = IF s = {} THEN b ELSE G[Max(s)][f[s \ {Max(s)}]]
           S == {m \in Nat : m <= n => Up(m)}
<1>1. Up(0)
  <2>1. PICK f : f = [s \in SUBSET (1..0) |-> b]
    OBVIOUS
  <2>2. f \in [SUBSET (1..0) -> V] /\ \A s \in SUBSET (1..0) : s = {} /\ f[s] = b
    BY <2>1
  <2> QED BY <2>2
<1>2. ASSUME NEW m \in Nat, m + 1 <= n, Up(m) PROVE Up(m + 1)
  <2>1. PICK f \in [SUBSET (1..m) -> V] :
                      \A s \in SUBSET (1..m) :
                        f[s] = IF s = {} THEN b ELSE G[Max(s)][f[s \ {Max(s)}]]
    BY <1>2
  <2>2. PICK g : g = [s \in SUBSET (1..m + 1) |->
                        IF m + 1 \in s THEN G[m + 1][f[s \ {m + 1}]] ELSE f[s]]
    OBVIOUS
  <2>3. ASSUME NEW s \in SUBSET (1..m + 1)
        PROVE  g[s] \in V /\ g[s] = IF s = {} THEN b ELSE G[Max(s)][g[s \ {Max(s)}]]
    <3>1. CASE m + 1 \in s
      <4>1. Max(s) = m + 1
        <5>1. m + 1 \in s /\ s \subseteq Int /\ \A k \in s : k <= m + 1
          BY <3>1
        <5> QED BY <5>1, MaxIs
      <4>2. s \ {m + 1} \in SUBSET (1..m) /\ s # {} /\ s \ {m + 1} \in SUBSET (1..m + 1)
        BY <3>1
      <4>3. g[s \ {m + 1}] = f[s \ {m + 1}] /\ f[s \ {m + 1}] \in V
        BY <4>2, <2>1, <2>2
      <4> QED BY <1>2, <3>1, <4>1, <4>2, <4>3, <2>2
    <3>2. CASE m + 1 \notin s
      <4>1. s \in SUBSET (1..m)
        BY <3>2
      <4>2. g[s] = f[s] /\ f[s] \in V
        BY <3>2, <4>1, <2>1, <2>2
      <4>3. CASE s = {}
        BY <4>1, <4>2, <4>3, <2>1
      <4>4. ASSUME s # {} PROVE g[s] = G[Max(s)][g[s \ {Max(s)}]]
        <5>1. PICK t : t = s \ {Max(s)}
          OBVIOUS
        <5>2. t \in SUBSET (1..m) /\ t \in SUBSET (1..m + 1) /\ m + 1 \notin t
          BY <5>1, <4>1, <3>2
        <5>3. g[t] = f[t]
          BY <5>2, <2>2
        <5> QED BY <4>1, <4>2, <4>4, <5>1, <5>3, <2>1
      <4> QED BY <4>2, <4>3, <4>4
    <3> QED BY <3>1, <3>2
  <2>4. g \in [SUBSET (1..m + 1) -> V]
    BY <2>2, <2>3
  <2> QED BY <2>3, <2>4
<1> HIDE DEF Up
<1>3. 0 \in S /\ \A m \in Nat : m \in S => m + 1 \in S
  <2>1. 0 \in S
    BY <1>1
  <2>2. ASSUME NEW m \in Nat, m \in S, m + 1 <= n PROVE Up(m + 1)
    <3>1. m <= n
      BY <2>2
    <3>2. Up(m)
      BY <2>2, <3>1
    <3> QED BY <1>2, <2>2, <3>2
  <2> QED BY <2>1, <2>2
<1>4. n \in S
  <2> HIDE DEF S
  <2> QED BY <1>3, NatSet
<1>5. Up(n)
  BY <1>4
<1> QED BY <1>5 DEF Up

(* One fold, for every base and sequence: the prefix values.                 *)
LEMMA FoldPrefixes ==
  ASSUME NEW n \in Nat, NEW iter, NEW b, NEW G, Folds(iter, n, b, G)
  PROVE  /\ iter[1..0] = b
         /\ \A k \in 1..n : iter[1..k] = G[k][iter[1..k - 1]]
<1>1. 1..0 = {} /\ 1..0 \in SUBSET (1..n)
  OBVIOUS
<1>2. ASSUME NEW k \in 1..n PROVE iter[1..k] = G[k][iter[1..k - 1]]
  <2>1. Max(1..k) = k
    <3>1. k \in 1..k /\ 1..k \subseteq Int /\ \A j \in 1..k : j <= k
      OBVIOUS
    <3> QED BY <3>1, MaxIs
  <2>2. 1..k # {} /\ 1..k \in SUBSET (1..n) /\ (1..k) \ {k} = 1..k - 1
    OBVIOUS
  <2> QED BY <2>1, <2>2 DEF Folds
<1> QED BY <1>1, <1>2 DEF Folds

(* Each p[i] is the one before it with s[i] behind.                          *)
Chain(p, s, n) == \A i \in 1..n : p[i] = p[i - 1] \o s[i]
SeqsOf(X, n, s) == \A i \in 1..n : s[i] \in Seq(X)

LEMMA ChainExists ==
  ASSUME NEW X, NEW n \in Nat, NEW s, SeqsOf(X, n, s)
  PROVE  \E q : q[0] = <<>> /\ Chain(q, s, n)
<1> DEFINE b == <<>>
<1>1. PICK G : G = [i \in 1..n |-> [v \in Seq(X) |-> v \o s[i]]]
  OBVIOUS
<1>2. \A v \in Seq(X), i \in 1..n : G[i][v] = v \o s[i] /\ G[i][v] \in Seq(X)
  BY <1>1 DEF SeqsOf
<1>3. PICK V : V = Seq(X)
  OBVIOUS
<1>4. b \in V
  BY <1>3
<1> HIDE DEF b
<1>5. Closed(G, V, n)
  BY <1>2, <1>3 DEF Closed
<1>6. PICK q \in [0..n -> V] : q[0] = b /\ \A i \in 1..n : q[i] = G[i][q[i - 1]]
  BY <1>4, <1>5, Iteration
<1>7. ASSUME NEW i \in 1..n PROVE q[i] = q[i - 1] \o s[i]
  <2>1. i - 1 \in 0..n /\ q[i - 1] \in Seq(X)
    BY <1>3, <1>6
  <2>2. q[i] = G[i][q[i - 1]]
    BY <1>6
  <2> QED BY <1>2, <2>1, <2>2
<1> QED BY <1>6, <1>7 DEF b, Chain

LEMMA ChainStep ==
  ASSUME NEW p, NEW s, NEW n \in Nat, Chain(p, s, n), NEW k \in Nat, k + 1 \in 1..n
  PROVE  p[k + 1] = p[k] \o s[k + 1]
<1>1. (k + 1) - 1 = k
  OBVIOUS
<1> QED BY <1>1 DEF Chain

LEMMA ChainSeq ==
  ASSUME NEW X, NEW n \in Nat, NEW s, SeqsOf(X, n, s), NEW p, Chain(p, s, n), p[0] \in Seq(X)
  PROVE  \A k \in 0..n : p[k] \in Seq(X)
<1> DEFINE S == {k \in Nat : k \in 0..n => p[k] \in Seq(X)}
<1>1. 0 \in S
  OBVIOUS
<1>2. ASSUME NEW k \in Nat, k \in S PROVE k + 1 \in S
  <2>1. ASSUME k + 1 \in 0..n PROVE p[k + 1] \in Seq(X)
    <3>1. k \in 0..n /\ k + 1 \in 1..n
      BY <2>1
    <3>2. p[k + 1] = p[k] \o s[k + 1]
      BY <3>1, ChainStep
    <3>3. p[k] \in Seq(X) /\ s[k + 1] \in Seq(X)
      BY <1>2, <3>1 DEF SeqsOf
    <3> QED BY <3>2, <3>3
  <2> QED BY <2>1
<1>3. \A k \in Nat : k \in S
  <2> HIDE DEF S
  <2> QED BY <1>1, <1>2, NatSet
<1> QED BY <1>3

(* FlattenSeq is what a chain of the sequences ends with.                    *)
LEMMA FlattenIs ==
  ASSUME NEW X, NEW s \in Seq(Seq(X)), NEW p, p[0] = <<>>, Chain(p, s, Len(s))
  PROVE  FlattenSeq(s) = p[Len(s)]
<1>1. CASE Len(s) = 0
  BY <1>1 DEF FlattenSeq
<1>2. CASE Len(s) > 0
  <2>0. PICK n \in Nat : n = Len(s) /\ n >= 1 /\ Chain(p, s, n)
    BY <1>2
  <2> DEFINE Eq(f) == f = [i \in 1..n |-> IF i = 1 THEN s[i] ELSE f[i - 1] \o s[i]]
             flatten == CHOOSE f : Eq(f)
  <2>1. PICK g : g = [i \in 1..n |-> p[i]]
    OBVIOUS
  <2>2. p[1] = s[1]
    <3>1. 1 \in 1..n /\ 1 - 1 = 0 /\ s[1] \in Seq(X)
      BY <2>0
    <3>2. p[1] = p[1 - 1] \o s[1]
      BY <2>0, <3>1 DEF Chain
    <3>3. p[1] = <<>> \o s[1]
      BY <3>1, <3>2
    <3> QED BY <3>1, <3>3
  <2>3. ASSUME NEW i \in 1..n PROVE g[i] = IF i = 1 THEN s[i] ELSE g[i - 1] \o s[i]
    <3>1. CASE i = 1
      BY <3>1, <2>1, <2>2
    <3>2. CASE i # 1
      <4>1. i - 1 \in 1..n /\ i - 1 \in Nat /\ (i - 1) + 1 = i
        BY <3>2
      <4>2. p[i] = p[i - 1] \o s[i]
        BY <2>0, <4>1 DEF Chain
      <4> QED BY <3>2, <4>1, <4>2, <2>1
    <3> QED BY <3>1, <3>2
  <2>4. Eq(g)
    BY <2>1, <2>3
  <2>5. Eq(flatten)
    BY <2>4
  <2>6. FlattenSeq(s) = flatten[n]
    BY <2>0 DEF FlattenSeq
  <2>7. \A i \in 1..n : flatten[i] = IF i = 1 THEN s[i] ELSE flatten[i - 1] \o s[i]
    BY <2>5
  <2> HIDE DEF flatten, Eq
  <2> DEFINE S == {k \in Nat : k + 1 \in 1..n => flatten[k + 1] = p[k + 1]}
  <2>8. 0 \in S
    BY <2>0, <2>2, <2>7
  <2>9. ASSUME NEW k \in Nat, k \in S PROVE k + 1 \in S
    <3>1. ASSUME (k + 1) + 1 \in 1..n PROVE flatten[(k + 1) + 1] = p[(k + 1) + 1]
      <4>1. PICK j \in 1..n : j = (k + 1) + 1
        BY <3>1
      <4>2. j - 1 = k + 1 /\ k + 1 \in 1..n /\ k + 1 \in Nat /\ j # 1
        BY <4>1
      <4>3. flatten[j] = flatten[k + 1] \o s[j]
        BY <2>7, <4>2
      <4>4. p[j] = p[j - 1] \o s[j]
        BY <2>0, <4>1 DEF Chain
      <4> QED BY <2>9, <4>1, <4>2, <4>3, <4>4
    <3> QED BY <3>1
  <2>10. n - 1 \in S
    <3> HIDE DEF S
    <3>1. n - 1 \in Nat
      BY <2>0
    <3> QED BY <2>8, <2>9, <3>1, NatSet
  <2> QED BY <2>0, <2>6, <2>10
<1> QED BY <1>1, <1>2

LEMMA Assoc ==
  ASSUME NEW X, NEW u \in Seq(X), NEW v \in Seq(X), NEW w \in Seq(X)
  PROVE  (u \o v) \o w = u \o (v \o w)
BY ConcatAssociative

LEMMA ChainFlat ==
  ASSUME NEW X, NEW s \in Seq(Seq(X)), NEW p, p[0] \in Seq(X), Chain(p, s, Len(s))
  PROVE  p[Len(s)] = p[0] \o FlattenSeq(s)
<1>0. PICK n \in Nat : n = Len(s) /\ Chain(p, s, n)
  OBVIOUS
<1>1. SeqsOf(X, n, s)
  BY <1>0 DEF SeqsOf
<1>2. PICK q : q[0] = <<>> /\ Chain(q, s, n)
  BY <1>1, ChainExists
<1>3. <<>> \in Seq(X)
  OBVIOUS
<1>4. \A k \in 0..n : q[k] \in Seq(X)
  BY <1>1, <1>2, <1>3, ChainSeq
<1>5. FlattenSeq(s) = q[n]
  BY <1>0, <1>2, FlattenIs
<1> DEFINE S == {k \in Nat : k \in 0..n => p[k] = p[0] \o q[k]}
<1>6. 0 \in S
  <2>1. p[0] = p[0] \o q[0]
    BY <1>2
  <2> QED BY <2>1
<1>7. ASSUME NEW k \in Nat, k \in S PROVE k + 1 \in S
  <2>1. ASSUME k + 1 \in 0..n PROVE p[k + 1] = p[0] \o q[k + 1]
    <3>1. k + 1 \in 1..n /\ k \in 0..n
      BY <2>1
    <3>2. p[k + 1] = p[k] \o s[k + 1]
      <4>1. Chain(p, s, n)
        BY <1>0
      <4> QED BY ONLY <4>1, <3>1, ChainStep
    <3>3. q[k + 1] = q[k] \o s[k + 1]
      BY ONLY <1>2, <3>1, ChainStep
    <3>4. p[k] = p[0] \o q[k]
      BY <1>7, <3>1
    <3>5. q[k] \in Seq(X) /\ s[k + 1] \in Seq(X) /\ p[0] \in Seq(X)
      BY <1>1, <1>4, <3>1 DEF SeqsOf
    <3>6. (p[0] \o q[k]) \o s[k + 1] = p[0] \o (q[k] \o s[k + 1])
      <4>1. \A u \in Seq(X), v \in Seq(X), w \in Seq(X) : (u \o v) \o w = u \o (v \o w)
        BY Assoc
      <4> HIDE DEF S
      <4> QED BY ONLY <3>5, <4>1
    <3> QED BY <3>2, <3>3, <3>4, <3>6
  <2>2. k + 1 \in Nat
    OBVIOUS
  <2> QED BY ONLY <2>1, <2>2
<1>8. n \in S
  <2> HIDE DEF S
  <2> QED BY <1>6, <1>7, NatSet
<1>9. p[n] = p[0] \o q[n]
  <2>1. n \in 0..n
    OBVIOUS
  <2> QED BY ONLY <1>8, <2>1
<1> QED BY <1>0, <1>5, <1>9

-------------------------------------------------------------------------------
(* Lists: one behind the other, and what is left of one.                   *)

LEMMA ListsAre ==
  ASSUME NEW X, NEW L \in Lists(X)
  PROVE  L.of \in Templates /\ L.ts \in Seq(X) /\ L = [of |-> L.of, ts |-> L.ts]
BY DEF Lists

LEMMA ListOf ==
  ASSUME NEW X, NEW t \in Templates, NEW s \in Seq(X)
  PROVE  /\ [of |-> t, ts |-> s] \in Lists(X)
         /\ [of |-> t, ts |-> s].of = t /\ [of |-> t, ts |-> s].ts = s
BY DEF Lists

LEMMA MListOf ==
  ASSUME NEW X, NEW s \in Seq(X)
  PROVE  m_list(s) \in Lists(X) /\ m_list(s).of = "m_list" /\ m_list(s).ts = s
<1>1. "m_list" \in Templates
  BY DEF Templates
<1>2. m_list(s) \in Lists(X)
  BY <1>1 DEF Lists, m_list
<1>3. m_list(s).of = "m_list" /\ m_list(s).ts = s
  BY DEF m_list
<1> QED BY <1>2, <1>3

LEMMA WithTypes ==
  ASSUME NEW X, NEW L \in Lists(X), NEW v
  PROVE  [L EXCEPT !.ts = v] = [of |-> L.of, ts |-> v]
BY DEF Lists

With(M, L, s) == M = [L EXCEPT !.ts = s]

LEMMA ListWith ==
  ASSUME NEW X, NEW L \in Lists(X), NEW s \in Seq(X), NEW M, With(M, L, s)
  PROVE  M \in Lists(X) /\ M.of = L.of /\ M.ts = s
BY DEF Lists, With

(* Behind L, whose types are p[a], come the lists up to the c-th.            *)
LEMMA JoinsOn ==
  ASSUME NEW X, NEW Ls \in Seq(Lists(X)), NEW p, NEW s, Chain(p, s, Len(Ls)),
         \A i \in 1..Len(Ls) : s[i] = Ls[i].ts,
         NEW a \in 1..Len(Ls), NEW c \in a..Len(Ls), NEW L \in Lists(X), L.ts = p[a]
  PROVE  Joined(<<L>> \o SubSeq(Ls, a + 1, c)) = [of |-> L.of, ts |-> p[c]]
<1>1. PICK Ms : Ms = <<L>> \o SubSeq(Ls, a + 1, c)
  OBVIOUS
<1>2. PICK n \in Nat : n = c - a
  OBVIOUS
<1>3. /\ Len(Ms) - 1 = n /\ Head(Ms) = L
      /\ \A i \in 1..n : a + i \in 1..Len(Ls) /\ Ms[i + 1] = Ls[a + i]
  BY <1>1, <1>2
<1>4. PICK r : r = [i \in 1..n |-> Ms[i + 1].ts]
  OBVIOUS
<1>5. \A i \in 1..Len(Ls) : s[i] \in Seq(X)
  BY ListsAre, ElementOfSeq
<1>6. \A i \in 1..n : r[i] = s[a + i]
  BY <1>3, <1>4
<1>7. r \in Seq(Seq(X)) /\ Len(r) = n
  <2>1. ASSUME NEW i \in 1..n PROVE r[i] \in Seq(X)
    <3>1. a + i \in 1..Len(Ls)
      BY <1>3
    <3> QED BY <1>5, <1>6, <3>1
  <2>2. DOMAIN r = 1..n /\ r = [i \in 1..n |-> r[i]]
    BY <1>4
  <2> QED BY ONLY <2>1, <2>2
<1>8. PICK q : q = [i \in 0..n |-> p[a + i]]
  OBVIOUS
<1>9. q[0] = p[a] /\ q[n] = p[c] /\ p[a] \in Seq(X)
  BY <1>2, <1>8, ListsAre
<1>10. ASSUME NEW i \in 1..n PROVE q[i] = q[i - 1] \o r[i]
  <2>1. PICK j \in 1..Len(Ls) : j = a + i
    BY <1>3
  <2>2. p[j] = p[j - 1] \o s[j]
    BY <2>1 DEF Chain
  <2>3. q[i] = p[j] /\ q[i - 1] = p[j - 1] /\ r[i] = s[j]
    <3>0. a \in Nat /\ i \in 1..n
      OBVIOUS
    <3>1. a + (i - 1) = j - 1 /\ i - 1 \in 0..n /\ i \in 0..n
      BY ONLY <2>1, <3>0
    <3> QED BY <1>6, <1>8, <2>1, <3>1
  <2> QED BY <2>2, <2>3
<1>11. Chain(q, r, Len(r))
  BY <1>7, <1>10 DEF Chain
<1>12. q[n] = q[0] \o FlattenSeq(r)
  BY <1>7, <1>9, <1>11, ChainFlat
<1>13. Joined(Ms) = [L EXCEPT !.ts = @ \o FlattenSeq(r)]
  BY <1>3, <1>4 DEF Joined, m_push_back
<1>14. Joined(Ms) = [of |-> L.of, ts |-> L.ts \o FlattenSeq(r)]
  BY <1>13 DEF Lists
<1> QED BY <1>1, <1>9, <1>12, <1>14

(* All lists, one behind the other, whichever six were taken at a time.      *)
LEMMA ConcatIs ==
  ASSUME NEW X, NEW Ls \in Seq(Lists(X)), Ls # <<>>, IllFormed \notin Lists(X),
         NEW p, NEW s, Chain(p, s, Len(Ls)), p[0] = <<>>, \A i \in 1..Len(Ls) : s[i] = Ls[i].ts
  PROVE  m_concat(Ls) = [of |-> Ls[1].of, ts |-> p[Len(Ls)]]
<1>1. PICK len \in Nat : len = Len(Ls) /\ len >= 1
  OBVIOUS
<1>2. PICK n \in Nat : n = (len - 1) \div 5 /\ 5 * n + 1 <= len
  BY <1>1
<1>3. Ls[1] \in Lists(X) /\ Head(Ls) = Ls[1] /\ Ls[1].of \in Templates
  BY <1>1, ElementOfSeq, ListsAre
<1>4. SeqsOf(X, len, s)
  BY <1>1, ElementOfSeq, ListsAre DEF SeqsOf
<1>5. \A i \in 0..len : p[i] \in Seq(X)
  <2>1. <<>> \in Seq(X)
    OBVIOUS
  <2> QED BY <1>1, <1>4, <2>1, ChainSeq
<1>6. PICK g : g = [k \in 0..n |-> [of |-> Ls[1].of, ts |-> p[5 * k + 1]]]
  OBVIOUS
<1>7. ASSUME NEW k \in 0..n
      PROVE  g[k] \in Lists(X) /\ g[k].of = Ls[1].of /\ g[k].ts = p[5 * k + 1] /\ 5 * k + 1 \in 1..len
  <2>1. PICK j \in 1..len : j = 5 * k + 1
    BY <1>2
  <2>2. PICK s2 \in Seq(X) : s2 = p[j]
    BY <1>5
  <2>3. PICK t \in Templates : t = Ls[1].of
    BY <1>3
  <2>4. g[k] = [of |-> t, ts |-> s2]
    BY <1>6, <2>1, <2>2, <2>3
  <2> QED BY <2>1, <2>2, <2>3, <2>4, ListOf
<1>8. g[0] = Ls[1]
  <2>1. p[1] = s[1]
    <3>1. 1 \in 1..len /\ 1 - 1 = 0 /\ s[1] \in Seq(X)
      BY <1>1, <1>4 DEF SeqsOf
    <3>2. p[1] = p[1 - 1] \o s[1]
      BY <1>1, <3>1 DEF Chain
    <3>3. p[1] = <<>> \o s[1]
      BY <3>1, <3>2
    <3> QED BY <3>1, <3>3
  <2>2. 0 \in 0..n /\ 5 * 0 + 1 = 1 /\ Ls[1].ts = s[1]
    BY <1>1
  <2> QED BY <1>3, <1>6, <2>1, <2>2, ListsAre
<1>9. ASSUME NEW k \in 1..n
      PROVE  Joined(<<g[k - 1]>> \o SubSeq(Ls, 5 * k - 3, 5 * k + 1)) = g[k]
  <2>1. PICK a \in 1..len, c \in 1..len : a = 5 * (k - 1) + 1 /\ c = 5 * k + 1
    BY <1>2
  <2>2. c \in a..len /\ a + 1 = 5 * k - 3 /\ k - 1 \in 0..n /\ k \in 0..n
    BY <2>1
  <2>3. PICK M \in Lists(X) : M = g[k - 1] /\ M.of = Ls[1].of /\ M.ts = p[a]
    BY <1>7, <2>1, <2>2
  <2>4. Joined(<<M>> \o SubSeq(Ls, a + 1, c)) = [of |-> M.of, ts |-> p[c]]
    BY <1>1, <2>2, <2>3, JoinsOn
  <2> QED BY <1>6, <2>1, <2>2, <2>3, <2>4
<1> DEFINE Eq(f) == f = [k \in 0..n |-> IF k = 0 THEN Head(Ls)
                                        ELSE Joined(<<f[k - 1]>> \o SubSeq(Ls, 5 * k - 3, 5 * k + 1))]
           first == CHOOSE f : Eq(f)
<1>10. ASSUME NEW k \in 0..n
       PROVE  g[k] = IF k = 0 THEN Head(Ls)
                     ELSE Joined(<<g[k - 1]>> \o SubSeq(Ls, 5 * k - 3, 5 * k + 1))
  BY <1>3, <1>8, <1>9
<1>11. Eq(g)
  BY <1>6, <1>10
<1>12. Eq(first)
  BY <1>11
<1>13. \A k \in 0..n : first[k] = IF k = 0 THEN Head(Ls)
                                  ELSE Joined(<<first[k - 1]>> \o SubSeq(Ls, 5 * k - 3, 5 * k + 1))
  BY <1>12
<1>14. m_concat(Ls) = Joined(<<first[n]>> \o SubSeq(Ls, 5 * n + 2, Len(Ls)))
  <2>1. IllFormed \notin ToSet(Ls)
    BY DEF ToSet
  <2> QED BY <1>1, <1>2, <2>1 DEF m_concat
<1> HIDE DEF first, Eq
<1> DEFINE S == {k \in Nat : k \in 0..n => first[k] = g[k]}
<1>15. 0 \in S
  BY <1>3, <1>8, <1>13
<1>16. ASSUME NEW k \in Nat, k \in S PROVE k + 1 \in S
  <2>1. ASSUME k + 1 \in 0..n PROVE first[k + 1] = g[k + 1]
    <3>1. PICK j \in 1..n : j = k + 1
      BY <2>1
    <3>2. j - 1 = k /\ k \in 0..n
      BY <3>1
    <3>3. first[k] = g[k]
      BY <1>16, <3>2
    <3>4. first[j] = Joined(<<first[j - 1]>> \o SubSeq(Ls, 5 * j - 3, 5 * j + 1))
      BY <1>13
    <3>5. first[j] = g[j]
      BY <1>9, <3>2, <3>3, <3>4
    <3> QED BY <3>1, <3>5
  <2>2. k + 1 \in Nat
    OBVIOUS
  <2> QED BY ONLY <2>1, <2>2
<1>17. n \in S
  <2> HIDE DEF S
  <2> QED BY <1>15, <1>16, NatSet
<1>18. first[n] = g[n]
  BY <1>17
<1>19. PICK a \in 1..len : a = 5 * n + 1
  BY <1>2
<1>20. PICK M \in Lists(X) : M = first[n] /\ M.ts = p[a] /\ M.of = Ls[1].of
  BY <1>7, <1>18, <1>19
<1>21. Joined(<<M>> \o SubSeq(Ls, a + 1, len)) = [of |-> M.of, ts |-> p[len]]
  BY <1>1, <1>19, <1>20, JoinsOn
<1>22. a + 1 = 5 * n + 2
  BY <1>19
<1> QED BY <1>1, <1>14, <1>20, <1>21, <1>22

LEMMA ToSetConcat ==
  ASSUME NEW X, NEW u \in Seq(X), NEW v \in Seq(X)
  PROVE  ToSet(u \o v) = ToSet(u) \union ToSet(v)
<1>1. Len(u \o v) = Len(u) + Len(v) /\ DOMAIN u = 1..Len(u) /\ DOMAIN v = 1..Len(v)
      /\ DOMAIN (u \o v) = 1..Len(u) + Len(v) /\ Len(u) \in Nat /\ Len(v) \in Nat
  OBVIOUS
<1>2. \A i \in 1..Len(u) : (u \o v)[i] = u[i] /\ i \in 1..Len(u) + Len(v)
  BY <1>1
<1>3. \A i \in 1..Len(v) : (u \o v)[Len(u) + i] = v[i] /\ Len(u) + i \in 1..Len(u) + Len(v)
  BY <1>1
<1>4. ASSUME NEW i \in 1..Len(u) + Len(v), i \notin 1..Len(u)
      PROVE  i - Len(u) \in 1..Len(v) /\ (u \o v)[i] = v[i - Len(u)]
  BY <1>1, <1>4
<1>5. ASSUME NEW x \in ToSet(u \o v) PROVE x \in ToSet(u) \union ToSet(v)
  <2>1. PICK i \in 1..Len(u) + Len(v) : x = (u \o v)[i]
    BY <1>1 DEF ToSet
  <2>2. CASE i \in 1..Len(u)
    BY <1>1, <1>2, <2>1, <2>2 DEF ToSet
  <2>3. CASE i \notin 1..Len(u)
    BY <1>1, <1>4, <2>1, <2>3 DEF ToSet
  <2> QED BY <2>2, <2>3
<1>6. ASSUME NEW x \in ToSet(u) PROVE x \in ToSet(u \o v)
  <2>1. PICK i \in 1..Len(u) : x = u[i]
    BY <1>1 DEF ToSet
  <2> QED BY <1>1, <1>2, <2>1 DEF ToSet
<1>7. ASSUME NEW x \in ToSet(v) PROVE x \in ToSet(u \o v)
  <2>1. PICK i \in 1..Len(v) : x = v[i]
    BY <1>1 DEF ToSet
  <2> QED BY <1>1, <1>3, <2>1 DEF ToSet
<1> QED BY <1>5, <1>6, <1>7

InOneOf(x, s, n) == \E i \in 1..n : x \in ToSet(s[i])

(* What a chain of sequences holds is what one of them holds.                *)
LEMMA ChainSet ==
  ASSUME NEW X, NEW n \in Nat, NEW s, SeqsOf(X, n, s), NEW p, Chain(p, s, n), p[0] = <<>>
  PROVE  \A x : x \in ToSet(p[n]) <=> InOneOf(x, s, n)
<1> SUFFICES ASSUME NEW x PROVE x \in ToSet(p[n]) <=> \E i \in 1..n : x \in ToSet(s[i])
  BY DEF InOneOf
<1>1. \A k \in 0..n : p[k] \in Seq(X)
  <2>1. <<>> \in Seq(X)
    OBVIOUS
  <2> QED BY <2>1, ChainSeq
<1> DEFINE S == {k \in Nat : k \in 0..n => (x \in ToSet(p[k]) <=> \E i \in 1..k : x \in ToSet(s[i]))}
<1>2. 0 \in S
  BY DEF ToSet
<1>3. ASSUME NEW k \in Nat, k \in S PROVE k + 1 \in S
  <2>1. ASSUME k + 1 \in 0..n
        PROVE  x \in ToSet(p[k + 1]) <=> \E i \in 1..k + 1 : x \in ToSet(s[i])
    <3>1. k + 1 \in 1..n /\ k \in 0..n
      BY <2>1
    <3>2. p[k + 1] = p[k] \o s[k + 1]
      BY <3>1, ChainStep
    <3>3. p[k] \in Seq(X) /\ s[k + 1] \in Seq(X)
      BY <1>1, <3>1 DEF SeqsOf
    <3>4. ToSet(p[k + 1]) = ToSet(p[k]) \union ToSet(s[k + 1])
      BY <3>2, <3>3, ToSetConcat
    <3>5. x \in ToSet(p[k]) <=> \E i \in 1..k : x \in ToSet(s[i])
      BY <1>3, <3>1
    <3>6. 1..k + 1 = 1..k \union {k + 1}
      OBVIOUS
    <3> QED BY <3>4, <3>5, <3>6
  <2>2. k + 1 \in Nat
    OBVIOUS
  <2> QED BY ONLY <2>1, <2>2
<1>4. n \in S
  <2> HIDE DEF S
  <2> QED BY <1>2, <1>3, NatSet
<1> QED BY <1>4

Verdicts(b, L) == \A i \in 1..Len(L.ts) : b[i] \in BOOLEAN
Accepted(x, L, b) == \E i \in 1..Len(L.ts) : b[i] /\ x = L.ts[i]

(* What is selected, in order.                                             *)

LEMMA SelectsNone ==
  ASSUME NEW s
  PROVE  Selects(<<>>, s, {})
BY FS_EmptySet DEF Selects

\* A further one, behind those before it.
LEMMA SelectsMore ==
  ASSUME NEW X, NEW r \in Seq(X), NEW s, NEW k \in Nat, NEW I \in SUBSET (1..k),
         Selects(r, s, I), s[k + 1] \in X
  PROVE  Selects(Append(r, s[k + 1]), s, I \union {k + 1})
<1>1. PICK x \in X, h \in Nat : x = s[k + 1] /\ h = k + 1
  OBVIOUS
<1>2. PICK q, J : q = Append(r, x) /\ J = I \union {h}
  OBVIOUS
<1>3. IsFiniteSet(I) /\ h \notin I
  <2>1. IsFiniteSet(1..k) /\ I \in SUBSET (1..k)
    BY FS_Interval
  <2>2. IsFiniteSet(I)
    BY ONLY <2>1, FS_Subset
  <2>3. h \notin 1..k
    BY <1>1
  <2> QED BY <2>1, <2>2, <2>3
<1>4. Cardinality(I) \in Nat /\ Cardinality(J) = Cardinality(I) + 1
  BY <1>2, <1>3, FS_CardinalityType, FS_AddElement
<1>5. PICK n \in Nat : n = Cardinality(I) /\ n = Len(r)
  BY <1>4 DEF Selects
<1>6. Len(q) = n + 1 /\ q[n + 1] = x /\ \A i \in 1..n : q[i] = r[i]
  BY <1>1, <1>2, <1>5, AppendProperties
<1>7. ASSUME NEW i \in I PROVE q[Cardinality({j \in J : j <= i})] = s[i]
  <2>1. {j \in J : j <= i} = {j \in I : j <= i}
    BY <1>1, <1>2
  <2>2. PICK T : T = {j \in I : j <= i}
    OBVIOUS
  <2>3. T \in SUBSET I /\ i \in T
    <3>1. i <= i
      OBVIOUS
    <3> QED BY <2>2, <3>1
  <2>4. IsFiniteSet(T) /\ Cardinality(T) <= n
    BY <1>3, <1>5, <2>3, FS_Subset
  <2>5. Cardinality(T) \in Nat /\ Cardinality(T) # 0
    BY <2>4, <2>3, FS_CardinalityType, FS_EmptySet
  <2>6. r[Cardinality(T)] = s[i]
    BY <2>2 DEF Selects
  <2>7. PICK c \in 1..n : c = Cardinality(T)
    BY <2>4, <2>5
  <2> QED BY <1>6, <2>1, <2>2, <2>6, <2>7
<1>8. q[Cardinality({j \in J : j <= h})] = s[h]
  <2>1. {j \in J : j <= h} = J
    <3>1. \A j \in 1..k : j <= h
      BY <1>1
    <3>2. \A j \in J : j <= h
      BY <1>1, <1>2, <3>1
    <3> QED BY ONLY <3>2
  <2> QED BY <1>1, <1>4, <1>5, <1>6, <2>1
<1>9. \A i \in J : i \in I \/ i = h
  BY <1>2
<1>10. Selects(q, s, J)
  BY <1>4, <1>5, <1>6, <1>7, <1>8, <1>9 DEF Selects
<1> QED BY <1>1, <1>2, <1>10

\* All that is selected of all is all.
LEMMA SelectsAll ==
  ASSUME NEW X, NEW s \in Seq(X), NEW r \in Seq(X), Selects(r, s, 1..Len(s))
  PROVE  r = s
<1>1. PICK n \in Nat : n = Len(s) /\ Cardinality(1..n) = n
  <2>1. Len(s) \in Nat
    OBVIOUS
  <2> QED BY <2>1, FS_Interval
<1>2. Len(r) = n
  BY <1>1 DEF Selects
<1>3. ASSUME NEW i \in 1..n PROVE r[i] = s[i]
  <2>1. {j \in 1..n : j <= i} = 1..i
    OBVIOUS
  <2>2. Cardinality(1..i) = i
    BY FS_Interval
  <2> QED BY <1>1, <2>1, <2>2 DEF Selects
<1> QED BY <1>1, <1>2, <1>3, SeqEqual

\* The types that b accepts, one after the other.
LEMMA ChainSelects ==
  ASSUME NEW X, NEW s \in Seq(X), NEW n \in Nat, n = Len(s), NEW b, \A i \in 1..n : b[i] \in BOOLEAN,
         NEW t, \A i \in 1..n : t[i] = IF b[i] THEN <<s[i]>> ELSE <<>>,
         NEW p, Chain(p, t, n), p[0] = <<>>
  PROVE  Selects(p[n], s, {i \in 1..n : b[i]})
<1>1. ASSUME NEW i \in 1..n PROVE t[i] \in Seq(X)
  <2>1. PICK x \in X : x = s[i]
    BY ElementOfSeq
  <2>2. <<x>> \in Seq(X) /\ <<>> \in Seq(X)
    OBVIOUS
  <2> QED BY <2>1, <2>2
<1>2. \A k \in 0..n : p[k] \in Seq(X)
  <2>1. <<>> \in Seq(X) /\ SeqsOf(X, n, t)
    BY <1>1 DEF SeqsOf
  <2> QED BY <2>1, ChainSeq
<1> DEFINE S == {k \in Nat : k \in 0..n => Selects(p[k], s, {i \in 1..k : b[i]})}
<1>3. 0 \in S
  <2>1. {i \in 1..0 : b[i]} = {}
    OBVIOUS
  <2>2. Selects(p[0], s, {i \in 1..0 : b[i]})
    BY <2>1, SelectsNone
  <2> QED BY <2>2
<1>4. ASSUME NEW k \in Nat, k \in S PROVE k + 1 \in S
  <2>1. ASSUME k + 1 \in 0..n PROVE Selects(p[k + 1], s, {i \in 1..k + 1 : b[i]})
    <3>1. k + 1 \in 1..n /\ k \in 0..n
      BY <2>1
    <3>2. p[k + 1] = p[k] \o t[k + 1]
      BY <3>1, ChainStep
    <3>3. PICK I \in SUBSET (1..k) : I = {i \in 1..k : b[i]}
      OBVIOUS
    <3>4. PICK r \in Seq(X) : r = p[k] /\ Selects(r, s, I)
      BY <1>2, <1>4, <3>1, <3>3
    <3>5. PICK x \in X : x = s[k + 1]
      BY <3>1, ElementOfSeq
    <3>6. 1..k + 1 = 1..k \union {k + 1}
      OBVIOUS
    <3>7. CASE b[k + 1]
      <4>1. {i \in 1..k + 1 : b[i]} = I \union {k + 1}
        BY <3>3, <3>6, <3>7
      <4>2. p[k + 1] = Append(r, x)
        <5>1. t[k + 1] = <<x>>
          BY <3>1, <3>5, <3>7
        <5>2. r \o <<x>> = Append(r, x)
          BY AppendIsConcat
        <5> QED BY <3>2, <3>4, <5>1, <5>2
      <4>3. Selects(Append(r, s[k + 1]), s, I \union {k + 1})
        BY <3>4, <3>5, SelectsMore
      <4> QED BY <3>5, <4>1, <4>2, <4>3
    <3>8. CASE ~b[k + 1]
      <4>1. {i \in 1..k + 1 : b[i]} = I
        BY <3>3, <3>6, <3>8
      <4>2. p[k + 1] = r
        <5>1. t[k + 1] = <<>>
          BY <3>1, <3>8
        <5>2. r \o <<>> = r
          BY ConcatEmptySeq
        <5> QED BY <3>2, <3>4, <5>1, <5>2
      <4> QED BY <3>4, <4>1, <4>2
    <3> QED BY <3>7, <3>8
  <2>2. k + 1 \in Nat
    OBVIOUS
  <2> QED BY ONLY <2>1, <2>2
<1>5. n \in S
  <2> HIDE DEF S
  <2> QED BY <1>3, <1>4, NatSet
<1> QED BY <1>5

\* p[k] is what b accepts of the first k types of L, t[k] what it does of the k-th.
Keeping(L, b, p, t, n) ==
  /\ n = Len(L.ts) /\ p[0] = <<>> /\ Chain(p, t, n)
  /\ \A i \in 1..n : t[i] = IF b[i] THEN <<L.ts[i]>> ELSE <<>>

LEMMA KeptChain ==
  ASSUME NEW X, NEW L \in Lists(X), L.ts # <<>>, IllFormed \notin Lists(X), IllFormed \notin BOOLEAN,
         NEW b, Verdicts(b, L)
  PROVE  \E n \in Nat : \E t, p : Keeping(L, b, p, t, n) /\ SeqsOf(X, n, t) /\ Kept(L, b) = m_list(p[n])
<1> USE DEF Verdicts
<1>1. PICK n \in Nat : n = Len(L.ts) /\ n >= 1
  BY ListsAre
<1>2. L.ts \in Seq(X) /\ DOMAIN L.ts = 1..n /\ \A i \in 1..n : L.ts[i] \in X
  BY <1>1, ListsAre
<1>3. PICK s : s = [i \in 1..n |-> IF b[i] THEN <<L.ts[i]>> ELSE <<>>]
  OBVIOUS
<1>4. PICK Ls : Ls = [i \in 1..n |-> m_list(s[i])]
  OBVIOUS
<1>5. ASSUME NEW i \in 1..n
      PROVE  s[i] \in Seq(X) /\ m_if(b[i], m_list(<<L.ts[i]>>), <<m_list(<<>>)>>) = m_list(s[i])
  <2>1. CASE b[i]
    BY <1>1, <1>2, <1>3, <2>1 DEF m_if
  <2>2. CASE ~b[i]
    <3>1. Head(<<m_list(<<>>)>>) = m_list(<<>>) /\ <<m_list(<<>>)>> # <<>>
      OBVIOUS
    <3>2. b[i] = FALSE
      BY <1>1, <2>2
    <3> QED BY <1>1, <1>3, <3>1, <3>2 DEF m_if
  <2> QED BY <1>1, <2>1, <2>2
<1>6. Kept(L, b) = m_concat(Ls)
  BY <1>2, <1>4, <1>5 DEF Kept
<1>7. \A i \in 1..n : m_list(s[i]) \in Lists(X) /\ m_list(s[i]).ts = s[i] /\ m_list(s[i]).of = "m_list"
  BY <1>5, MListOf
<1>8. Ls \in Seq(Lists(X)) /\ Len(Ls) = n /\ Ls # <<>> /\ Ls[1].of = "m_list"
  BY <1>1, <1>4, <1>7
<1>9. SeqsOf(X, n, s)
  BY <1>5 DEF SeqsOf
<1>10. PICK p : p[0] = <<>> /\ Chain(p, s, n)
  BY <1>9, ChainExists
<1>11. m_concat(Ls) = m_list(p[n])
  <2>1. \A i \in 1..Len(Ls) : s[i] = Ls[i].ts
    BY <1>4, <1>7, <1>8
  <2>2. Chain(p, s, Len(Ls))
    BY <1>8, <1>10
  <2>3. m_concat(Ls) = [of |-> Ls[1].of, ts |-> p[Len(Ls)]]
    BY <1>8, <1>10, <2>1, <2>2, ConcatIs
  <2> QED BY <1>8, <2>3 DEF m_list
<1>12. Keeping(L, b, p, s, n)
  BY <1>1, <1>3, <1>10 DEF Keeping
<1> QED BY <1>6, <1>9, <1>11, <1>12

(* What m_filter keeps of a list, by the verdicts on its elements.           *)
LEMMA KeptIs ==
  ASSUME NEW X, NEW L \in Lists(X), L.ts # <<>>, IllFormed \notin Lists(X), IllFormed \notin BOOLEAN,
         NEW b, Verdicts(b, L)
  PROVE  /\ Kept(L, b) \in Lists(X) /\ Kept(L, b).of = "m_list"
         /\ Selects(Kept(L, b).ts, L.ts, {i \in 1..Len(L.ts) : b[i]})
         /\ \A x : x \in ToSet(Kept(L, b).ts) <=> Accepted(x, L, b)
<1>1. PICK n \in Nat : \E t, p : Keeping(L, b, p, t, n) /\ SeqsOf(X, n, t) /\ Kept(L, b) = m_list(p[n])
  BY KeptChain
<1>2. PICK t, p : Keeping(L, b, p, t, n) /\ SeqsOf(X, n, t) /\ Kept(L, b) = m_list(p[n])
  BY <1>1
<1>3. /\ n = Len(L.ts) /\ p[0] = <<>> /\ Chain(p, t, n)
      /\ \A i \in 1..n : t[i] = IF b[i] THEN <<L.ts[i]>> ELSE <<>>
  BY <1>2 DEF Keeping
<1>4. \A i \in 1..n : b[i] \in BOOLEAN
  BY <1>3 DEF Verdicts
<1>5. PICK r \in Seq(X) : r = p[n]
  <2>1. <<>> \in Seq(X) /\ n \in 0..n
    OBVIOUS
  <2> QED BY <1>2, <1>3, <2>1, ChainSeq
<1>6. ASSUME NEW x
      PROVE  x \in ToSet(r) <=> \E i \in 1..n : b[i] /\ x = L.ts[i]
  <2>1. x \in ToSet(r) <=> \E i \in 1..n : x \in ToSet(t[i])
    <3>1. \A y : y \in ToSet(p[n]) <=> InOneOf(y, t, n)
      BY <1>2, <1>3, ChainSet
    <3> QED BY <1>5, <3>1 DEF InOneOf
  <2>2. \A i \in 1..n : x \in ToSet(t[i]) <=> b[i] /\ x = L.ts[i]
    <3>1. \A y, z : z \in ToSet(<<y>>) <=> z = y
      BY DEF ToSet
    <3>2. \A z : z \notin ToSet(<<>>)
      BY DEF ToSet
    <3> QED BY <1>3, <1>4, <3>1, <3>2
  <2> QED BY <2>1, <2>2
<1>7. Selects(r, L.ts, {i \in 1..n : b[i]})
  <2>1. L.ts \in Seq(X)
    BY ListsAre
  <2> QED BY <1>3, <1>4, <1>5, <2>1, ChainSelects
<1>8. m_list(r) \in Lists(X) /\ m_list(r).of = "m_list" /\ m_list(r).ts = r
  BY MListOf
<1> QED BY <1>2, <1>3, <1>5, <1>6, <1>7, <1>8 DEF Accepted

\* There is nothing to concatenate when the list is empty.
LEMMA KeptOfNone ==
  ASSUME NEW L, L.ts = <<>>, NEW b
  PROVE  Kept(L, b) = IllFormed
BY DEF Kept, m_concat

(* One list as columns: each element by itself.                              *)
LEMMA ColumnsOfOne ==
  ASSUME NEW X, NEW L \in Lists(X)
  PROVE  /\ Columns(<<L>>).of = L.of
         /\ Columns(<<L>>) = [of |-> L.of, ts |-> [i \in 1..Len(L.ts) |-> m_list(<<L.ts[i]>>)]]
         /\ Combinable(<<L>>) <=> L # IllFormed
<1>1. L.ts \in Seq(X) /\ DOMAIN L.ts = 1..Len(L.ts) /\ L = [of |-> L.of, ts |-> L.ts]
  BY ListsAre
<1>2. DOMAIN <<L>> = {1} /\ <<L>>[1] = L
  OBVIOUS
<1>3. ASSUME NEW i \in 1..Len(L.ts)
      PROVE  [k \in DOMAIN <<L>> |-> <<L>>[k].ts[i]] = <<L.ts[i]>>
  BY <1>2
<1>4. PICK c : c = [i \in 1..Len(L.ts) |-> m_list(<<L.ts[i]>>)]
  OBVIOUS
<1>5. Columns(<<L>>) = [L EXCEPT !.ts = c]
  <2>1. [i \in DOMAIN L.ts |-> m_list([k \in DOMAIN <<L>> |-> <<L>>[k].ts[i]])] = c
    BY <1>1, <1>3, <1>4
  <2>2. Columns(<<L>>) = [L EXCEPT !.ts = [i \in DOMAIN L.ts |-> m_list([k \in DOMAIN <<L>> |-> <<L>>[k].ts[i]])]]
    BY <1>2 DEF Columns
  <2> QED BY <2>1, <2>2
<1>6. Columns(<<L>>) = [of |-> L.of, ts |-> c]
  BY <1>5, WithTypes
<1>7. Combinable(<<L>>) <=> L # IllFormed
  BY DEF Combinable, ToSet, m_same
<1> QED BY <1>4, <1>7, <1>6

-------------------------------------------------------------------------------
(* The computations of completion_signatures.hpp.                          *)

(* What the elements of lists are is not IllFormed, and neither are the lists. *)
LEMMA NotIllFormed ==
  ASSUME NEW X, X \subseteq Elements
  PROVE  /\ IllFormed \notin X /\ IllFormed \notin Lists(X)
         /\ \A x \in X : m_list(<<x>>) # IllFormed
<1>1. Lists(X) \subseteq Lists(Elements)
  <2>1. Seq(X) \subseteq Seq(Elements)
    OBVIOUS
  <2> QED BY <2>1 DEF Lists
<1>2. \A x \in X : <<x>> \in Seq(X)
  OBVIOUS
<1>3. \A x \in X : m_list(<<x>>) \in Lists(X)
  BY <1>2, MListOf
<1> QED BY <1>1, <1>3, SignaturesAssumption

LEMMA Kinds ==
  /\ Types \subseteq Elements /\ Signals \subseteq Elements /\ BOOLEAN \subseteq Elements
  /\ Lists(Types) \subseteq Elements
  /\ TRUE # IllFormed /\ FALSE # IllFormed
<1>1. Types \subseteq Elements /\ Signals \subseteq Elements /\ BOOLEAN \subseteq Elements
      /\ Lists(Types) \subseteq Elements
  BY DEF Elements
<1>2. TRUE \in Elements /\ FALSE \in Elements
  BY DEF Elements
<1> QED BY <1>1, <1>2, SignaturesAssumption

(* The one column of a transformation of one list, element by element.       *)
LEMMA OneColumn ==
  ASSUME NEW X, X \subseteq Elements, NEW L \in Lists(X)
  PROVE  \E c : /\ Columns(<<L>>) = [of |-> L.of, ts |-> c]
                /\ DOMAIN c = 1..Len(L.ts)
                /\ \A i \in 1..Len(L.ts) :
                     /\ L.ts[i] \in X /\ L.ts[i] # IllFormed
                     /\ c[i] = m_list(<<L.ts[i]>>) /\ c[i] # IllFormed /\ c[i].ts = <<L.ts[i]>>
<1>1. PICK c : c = [i \in 1..Len(L.ts) |-> m_list(<<L.ts[i]>>)]
  OBVIOUS
<1>2. \A i \in 1..Len(L.ts) : L.ts[i] \in X
  BY ListsAre
<1>3. Columns(<<L>>) = [of |-> L.of, ts |-> c] /\ DOMAIN c = 1..Len(L.ts)
  BY <1>1, ColumnsOfOne
<1>4. ASSUME NEW i \in 1..Len(L.ts)
      PROVE  L.ts[i] # IllFormed /\ c[i] = m_list(<<L.ts[i]>>) /\ c[i] # IllFormed
             /\ c[i].ts = <<L.ts[i]>>
  <2>1. <<L.ts[i]>> \in Seq(X)
    BY <1>2
  <2> QED BY <1>1, <1>2, <2>1, NotIllFormed, MListOf
<1> QED BY <1>2, <1>3, <1>4

(* tag_sigs_t leaves the signatures with the tag; of no signatures, nothing. *)
LEMMA TagSigs ==
  ASSUME NEW X, X \subseteq Signals, NEW Fns \in Lists(X), NEW tag
  PROVE  /\ Fns.ts = <<>> => tag_sigs_t(tag, Fns) = IllFormed
         /\ Fns.ts # <<>> =>
              /\ tag_sigs_t(tag, Fns) \in Lists(X)
              /\ \A s : s \in ToSet(tag_sigs_t(tag, Fns).ts) <=> s \in ToSet(Fns.ts) /\ s.tag = tag
<1>1. X \subseteq Elements
  BY Kinds
<1>2. PICK c : /\ Columns(<<Fns>>) = [of |-> Fns.of, ts |-> c]
               /\ DOMAIN c = 1..Len(Fns.ts)
               /\ \A i \in 1..Len(Fns.ts) :
                    /\ Fns.ts[i] \in X /\ Fns.ts[i] # IllFormed
                    /\ c[i] = m_list(<<Fns.ts[i]>>) /\ c[i] # IllFormed /\ c[i].ts = <<Fns.ts[i]>>
  BY <1>1, OneColumn
<1>3. PICK v : v = [i \in 1..Len(Fns.ts) |-> Fns.ts[i].tag = tag]
  OBVIOUS
<1>4. \A s : m_bind_front(equal_tag, <<tag>>, <<s>>) = (s.tag = tag)
  <2>1. ASSUME NEW s PROVE m_bind_front(equal_tag, <<tag>>, <<s>>) = (s.tag = tag)
    <3>1. PICK q : q = <<tag>> \o <<s>>
      OBVIOUS
    <3>2. q[1] = tag /\ q[2] = s
      BY <3>1
    <3>3. m_bind_front(equal_tag, <<tag>>, <<s>>) = m_same(<<tag, s.tag>>)
      BY <3>1, <3>2 DEF m_bind_front, equal_tag
    <3>4. m_same(<<tag, s.tag>>) = (s.tag = tag)
      <4>1. DOMAIN <<tag, s.tag>> = {1, 2} /\ <<tag, s.tag>>[1] = tag /\ <<tag, s.tag>>[2] = s.tag
        OBVIOUS
      <4> QED BY <4>1 DEF m_same
    <3> QED BY <3>3, <3>4
  <2> QED BY <2>1
<1>5. m_transform(LAMBDA args : m_bind_front(equal_tag, <<tag>>, args), <<Fns>>)
        = [of |-> Fns.of, ts |-> v]
  <2>1. Combinable(<<Fns>>) /\ Len(<<Fns>>) <= 5
    <3>1. Fns # IllFormed
      BY <1>1, NotIllFormed
    <3>2. Combinable(<<Fns>>)
      BY <3>1, ColumnsOfOne
    <3>3. Len(<<Fns>>) = 1
      OBVIOUS
    <3> QED BY <3>2, <3>3
  <2>2. PICK C : C = Columns(<<Fns>>)
    OBVIOUS
  <2>3. C.ts = c
    BY <1>2, <2>2
  <2>4. [i \in DOMAIN C.ts |-> m_apply(LAMBDA args : m_bind_front(equal_tag, <<tag>>, args), C.ts[i])] = v
    BY <1>2, <1>3, <1>4, <2>3 DEF m_apply, m_valid
  <2>5. IllFormed \notin ToSet(v)
    BY <1>3, Kinds DEF ToSet
  <2>6. [C EXCEPT !.ts = v] = [of |-> Fns.of, ts |-> v]
    BY <1>2, <2>2
  <2> QED BY <2>1, <2>2, <2>4, <2>5, <2>6 DEF m_transform, Spread
<1>6. m_valid([of |-> Fns.of, ts |-> v])
  <2>1. v \in Seq(BOOLEAN) /\ Fns.of \in Templates
    BY <1>3, ListsAre
  <2>2. [of |-> Fns.of, ts |-> v] \in Lists(BOOLEAN)
    BY <2>1, ListOf
  <2> QED BY <2>2, Kinds, NotIllFormed DEF m_valid
<1>7. tag_sigs_t(tag, Fns) = Kept(Fns, v)
  BY <1>5, <1>6 DEF tag_sigs_t, m_filter
<1>8. ASSUME Fns.ts # <<>>
      PROVE  /\ tag_sigs_t(tag, Fns) \in Lists(X)
             /\ \A s : s \in ToSet(tag_sigs_t(tag, Fns).ts) <=> s \in ToSet(Fns.ts) /\ s.tag = tag
  <2>1. IllFormed \notin Lists(X) /\ IllFormed \notin BOOLEAN
    BY <1>1, NotIllFormed, Kinds
  <2>2. Verdicts(v, Fns)
    BY <1>3 DEF Verdicts
  <2>3. PICK K : K = tag_sigs_t(tag, Fns)
    OBVIOUS
  <2>4. /\ K \in Lists(X)
        /\ \A s : s \in ToSet(K.ts) <=> Accepted(s, Fns, v)
    BY <1>7, <1>8, <2>1, <2>2, <2>3, KeptIs
  <2>5. \A i \in 1..Len(Fns.ts) : v[i] = (Fns.ts[i].tag = tag)
    BY <1>3
  <2>6. DOMAIN Fns.ts = 1..Len(Fns.ts)
    BY ListsAre
  <2>7. ASSUME NEW s PROVE s \in ToSet(K.ts) <=> s \in ToSet(Fns.ts) /\ s.tag = tag
    <3>1. s \in ToSet(K.ts) <=> \E i \in 1..Len(Fns.ts) : v[i] /\ s = Fns.ts[i]
      BY <2>4 DEF Accepted
    <3>2. s \in ToSet(Fns.ts) <=> \E i \in 1..Len(Fns.ts) : s = Fns.ts[i]
      BY <2>6 DEF ToSet
    <3> QED BY <2>5, <3>1, <3>2
  <2> QED BY <2>3, <2>4, <2>7
<1>9. Fns.ts = <<>> => tag_sigs_t(tag, Fns) = IllFormed
  BY <1>7, KeptOfNone
<1> QED BY <1>8, <1>9

Proper == {s \in Signals : validate_tag_args(s)}

MappedFrom(y, g, L) == \E x \in ToSet(L.ts) : y = g[x]

Into(g, X, Y) == \A x \in X : g[x] \in Y
Image(g, L) == [i \in 1..Len(L.ts) |-> g[L.ts[i]]]

LEMMA Mapped ==
  ASSUME NEW X, NEW L \in Lists(X), NEW Y, NEW g, Into(g, X, Y), IllFormed \notin Y,
         NEW v, v = Image(g, L)
  PROVE  /\ [of |-> L.of, ts |-> v] \in Lists(Y) /\ v \in Seq(Y) /\ Len(v) = Len(L.ts)
         /\ IllFormed \notin ToSet(v)
         /\ \A y : y \in ToSet(v) <=> MappedFrom(y, g, L)
<1> USE DEF Into, Image
<1>1. PICK n \in Nat : n = Len(L.ts)
  BY ListsAre
<1>2. DOMAIN L.ts = 1..n /\ \A i \in 1..n : L.ts[i] \in X
  BY <1>1, ListsAre
<1>3. v = [i \in 1..n |-> g[L.ts[i]]]
  BY <1>1
<1>4. v \in Seq(Y) /\ Len(v) = n /\ DOMAIN v = 1..n
  BY <1>2, <1>3
<1>5. [of |-> L.of, ts |-> v] \in Lists(Y)
  BY <1>4, ListsAre, ListOf
<1>6. ASSUME NEW y PROVE y \in ToSet(v) <=> MappedFrom(y, g, L)
  BY <1>2, <1>3, <1>4 DEF ToSet, MappedFrom
<1>7. IllFormed \notin ToSet(v)
  BY <1>2, <1>3, <1>4 DEF ToSet
<1> QED BY <1>1, <1>4, <1>5, <1>6, <1>7

LEMMA FirstOfOne ==
  ASSUME NEW X, NEW a \in Seq(X), Len(a) = 1
  PROVE  1 \in DOMAIN a /\ a[1] \in X
<1>1. DOMAIN a = 1..Len(a)
  OBVIOUS
<1>2. 1 \in 1..Len(a)
  OBVIOUS
<1> QED BY <1>1, <1>2, ElementOfSeq

LEMMA OneCombines ==
  ASSUME NEW X, X \subseteq Elements, NEW L \in Lists(X)
  PROVE  Combinable(<<L>>) /\ Len(<<L>>) <= 5
<1>1. L # IllFormed
  BY NotIllFormed
<1>2. Combinable(<<L>>)
  BY <1>1, ColumnsOfOne
<1>3. Len(<<L>>) = 1
  OBVIOUS
<1> QED BY <1>2, <1>3

ArgsOf(y, tag, Fns) == \E s \in ToSet(Fns.ts) : s.tag = tag /\ y = args_t(s)

(* The arguments of the signatures with the tag, if there are any signatures. *)
LEMMA TagArgs ==
  ASSUME NEW Fns \in Lists(Proper), Fns.ts # <<>>, NEW tag \in {"value", "error"},
         NEW Y, Y = IF tag = "value" THEN Lists(Types) ELSE Types
  PROVE  /\ tag_args_t(tag, Fns) \in Lists(Y)
         /\ \A y : y \in ToSet(tag_args_t(tag, Fns).ts) <=> ArgsOf(y, tag, Fns)
<1>1. Proper \subseteq Signals
  BY DEF Proper
<1>2. PICK Q : Q = tag_sigs_t(tag, Fns)
  OBVIOUS
<1> DEFINE P == {s \in Proper : s.tag = tag}
<1>3. Q \in Lists(Proper) /\ \A s : s \in ToSet(Q.ts) <=> s \in ToSet(Fns.ts) /\ s.tag = tag
  BY <1>1, <1>2, TagSigs
<1>4. Q \in Lists(P)
  <2>1. Q.ts \in Seq(Proper) /\ Q.of \in Templates /\ Q = [of |-> Q.of, ts |-> Q.ts]
    BY <1>3, ListsAre
  <2>2. \A i \in 1..Len(Q.ts) : Q.ts[i] \in P
    <3>1. ASSUME NEW i \in 1..Len(Q.ts) PROVE Q.ts[i] \in P
      <4>1. Q.ts[i] \in ToSet(Q.ts) /\ Q.ts[i] \in Proper
        BY <2>1 DEF ToSet
      <4> QED BY <4>1, <1>3
    <3> QED BY <3>1
  <2>3. Q.ts \in Seq(P)
    <3>1. \E n \in Nat : Q.ts \in [1..n -> Proper] /\ n = Len(Q.ts)
      BY <2>1
    <3> HIDE DEF P
    <3> QED BY <2>2, <3>1
  <2> HIDE DEF P
  <2> QED BY <2>1, <2>3, ListOf
<1>5. P \subseteq Elements /\ Y \subseteq Elements /\ IllFormed \notin Y
  <2>1. P \subseteq Elements /\ Y \subseteq Elements
    BY <1>1, Kinds
  <2> QED BY <2>1, NotIllFormed
<1>6. \A s \in P : args_t(s) \in Y
  <2>1. ASSUME NEW s \in P PROVE args_t(s) \in Y
    <3>1. s.args \in Seq(Types) /\ s.tag = tag /\ validate_tag_args(s)
      BY DEF Proper, Signals
    <3>2. CASE tag = "value"
      BY <3>1, <3>2, MListOf DEF args_t
    <3>3. CASE tag = "error"
      <4>1. Len(s.args) = 1 /\ 1 \in DOMAIN s.args /\ s.args[1] \in Types
        <5>1. Len(s.args) = 1
          BY <3>1, <3>3 DEF validate_tag_args
        <5> QED BY <3>1, <5>1, FirstOfOne
      <4>2. m_list(s.args).ts = s.args
        BY <3>1, MListOf
      <4> QED BY <3>1, <3>3, <4>1, <4>2 DEF args_t, m_nth
    <3> QED BY <3>2, <3>3
  <2> QED BY <2>1
<1> HIDE DEF P
<1>7. PICK c : /\ Columns(<<Q>>) = [of |-> Q.of, ts |-> c]
               /\ DOMAIN c = 1..Len(Q.ts)
               /\ \A i \in 1..Len(Q.ts) :
                    /\ Q.ts[i] \in P /\ Q.ts[i] # IllFormed
                    /\ c[i] = m_list(<<Q.ts[i]>>) /\ c[i] # IllFormed /\ c[i].ts = <<Q.ts[i]>>
  BY <1>4, <1>5, OneColumn
<1>8. PICK g : g = [s \in P |-> args_t(s)]
  OBVIOUS
<1>9. PICK v : v = Image(g, Q)
  OBVIOUS
<1>10. /\ [of |-> Q.of, ts |-> v] \in Lists(Y) /\ v \in Seq(Y) /\ IllFormed \notin ToSet(v)
       /\ \A y : y \in ToSet(v) <=> MappedFrom(y, g, Q)
  <2>1. Into(g, P, Y)
    BY <1>6, <1>8 DEF Into
  <2> QED BY <1>4, <1>5, <1>9, <2>1, Mapped
<1>11. tag_args_t(tag, Fns) = [of |-> Q.of, ts |-> v]
  <2>1. Combinable(<<Q>>) /\ Len(<<Q>>) <= 5
    BY <1>4, <1>5, OneCombines
  <2>2. PICK C : C = Columns(<<Q>>)
    OBVIOUS
  <2>3. C.ts = c
    BY <1>7, <2>2
  <2>4. [i \in DOMAIN C.ts |-> m_apply(LAMBDA args : args_t(args[1]), C.ts[i])] = v
    <3>1. ASSUME NEW i \in 1..Len(Q.ts)
          PROVE  m_apply(LAMBDA args : args_t(args[1]), c[i]) = g[Q.ts[i]]
      <4>1. m_apply(LAMBDA args : args_t(args[1]), c[i]) = args_t(c[i].ts[1])
        BY <1>7 DEF m_apply, m_valid
      <4>2. c[i].ts[1] = Q.ts[i] /\ Q.ts[i] \in P
        <5>1. \A x : <<x>>[1] = x
          OBVIOUS
        <5>2. c[i].ts = <<Q.ts[i]>> /\ Q.ts[i] \in P
          BY <1>7
        <5> QED BY <5>1, <5>2
      <4> QED BY <1>8, <4>1, <4>2
    <3> QED BY <1>7, <1>9, <2>3, <3>1 DEF Image
  <2>5. [C EXCEPT !.ts = v] = [of |-> Q.of, ts |-> v]
    BY <1>7, <2>2
  <2> QED BY <1>2, <1>10, <2>1, <2>2, <2>4, <2>5 DEF m_transform, Spread, tag_args_t
<1>12. ASSUME NEW y
       PROVE  y \in ToSet(v) <=> \E s \in ToSet(Fns.ts) : s.tag = tag /\ y = args_t(s)
  <2>1. \A s \in ToSet(Q.ts) : s \in P
    BY <1>4, ListsAre DEF ToSet
  <2> QED BY <1>3, <1>8, <1>10, <2>1 DEF MappedFrom
<1> QED BY <1>10, <1>11, <1>12 DEF ArgsOf

LEMMA Empty ==
  ASSUME NEW X, NEW s \in Seq(X)
  PROVE  s = <<>> <=> ToSet(s) = {}
<1>1. PICK n \in Nat : n = Len(s) /\ DOMAIN s = 1..n
  OBVIOUS
<1>2. CASE n = 0
  BY <1>1, <1>2 DEF ToSet
<1>3. CASE n # 0
  <2>1. 1 \in 1..n
    BY <1>1, <1>3
  <2>2. s[1] \in ToSet(s) /\ s # <<>>
    BY <1>1, <1>3, <2>1 DEF ToSet
  <2> QED BY <2>2
<1> QED BY <1>2, <1>3

LEMMA ProperAre ==
  Proper \subseteq Elements /\ IllFormed \notin Proper /\ Void \notin Proper
<1>1. Proper \subseteq Elements
  BY Kinds DEF Proper
<1> QED BY <1>1, NotIllFormed, SignaturesAssumption

LEMMA NotVoids ==
  ASSUME NEW X, X \subseteq Elements, NEW L \in Lists(X)
  PROVE  /\ L.ts = <<>> => m_filter(not_void, <<L>>) = IllFormed
         /\ L.ts # <<>> => /\ m_filter(not_void, <<L>>) \in Lists(X)
                           /\ \A x : x \in ToSet(m_filter(not_void, <<L>>).ts) <=> x \in ToSet(L.ts)
                           /\ m_filter(not_void, <<L>>).ts # <<>>
<1>1. PICK c : /\ Columns(<<L>>) = [of |-> L.of, ts |-> c]
               /\ DOMAIN c = 1..Len(L.ts)
               /\ \A i \in 1..Len(L.ts) :
                    /\ L.ts[i] \in X /\ L.ts[i] # IllFormed
                    /\ c[i] = m_list(<<L.ts[i]>>) /\ c[i] # IllFormed /\ c[i].ts = <<L.ts[i]>>
  BY OneColumn
<1>2. PICK g : g = [x \in X |-> TRUE]
  OBVIOUS
<1>3. PICK v : v = Image(g, L)
  OBVIOUS
<1>4. \A i \in 1..Len(L.ts) : v[i] = TRUE
  BY <1>1, <1>2, <1>3 DEF Image
<1>5. /\ [of |-> L.of, ts |-> v] \in Lists(BOOLEAN) /\ v \in Seq(BOOLEAN) /\ IllFormed \notin ToSet(v)
  <2>1. Into(g, X, BOOLEAN)
    BY <1>2 DEF Into
  <2>2. IllFormed \notin BOOLEAN
    BY Kinds
  <2> QED BY <1>3, <2>1, <2>2, Mapped
<1>6. ASSUME NEW x \in X PROVE m_apply(not_void, m_list(<<x>>)) = TRUE
  <2>1. m_list(<<x>>) # IllFormed /\ m_list(<<x>>).ts = <<x>>
    <3>1. <<x>> \in Seq(X)
      OBVIOUS
    <3> QED BY <3>1, NotIllFormed, MListOf
  <2>2. m_apply(not_void, m_list(<<x>>)) = not_void(<<x>>)
    BY <2>1 DEF m_apply, m_valid
  <2>3. PICK q : q = <<Void>> \o <<x>>
    OBVIOUS
  <2>4. q[1] = Void /\ q[2] = x /\ DOMAIN q = {1, 2}
    BY <2>3
  <2>5. m_same(q) = FALSE
    BY <2>4, SignaturesAssumption DEF m_same
  <2>6. m_not(m_same(q)) = TRUE
    BY <2>5, Kinds DEF m_not, m_valid
  <2> QED BY <2>2, <2>3, <2>6 DEF not_void, m_bind_front
<1>7. m_transform(not_void, <<L>>) = [of |-> L.of, ts |-> v]
  <2>1. Combinable(<<L>>) /\ Len(<<L>>) <= 5
    BY OneCombines
  <2>2. PICK C : C = Columns(<<L>>)
    OBVIOUS
  <2>3. C.ts = c
    BY <1>1, <2>2
  <2>4. [i \in DOMAIN C.ts |-> m_apply(not_void, C.ts[i])] = v
    <3>1. ASSUME NEW i \in 1..Len(L.ts) PROVE m_apply(not_void, c[i]) = g[L.ts[i]]
      BY <1>1, <1>2, <1>6
    <3> QED BY <1>1, <1>3, <2>3, <3>1 DEF Image
  <2>5. [C EXCEPT !.ts = v] = [of |-> L.of, ts |-> v]
    BY <1>1, <2>2
  <2> QED BY <1>5, <2>1, <2>2, <2>4, <2>5 DEF m_transform, Spread
<1>8. m_filter(not_void, <<L>>) = Kept(L, v)
  <2>1. [of |-> L.of, ts |-> v] # IllFormed
    BY <1>5, Kinds, NotIllFormed
  <2>2. <<L>>[1] = L
    OBVIOUS
  <2> QED BY <1>7, <2>1, <2>2 DEF m_filter, m_valid
<1>9. L.ts = <<>> => m_filter(not_void, <<L>>) = IllFormed
  BY <1>8, KeptOfNone
<1>10. ASSUME L.ts # <<>>
       PROVE  /\ Kept(L, v) \in Lists(X)
              /\ \A x : x \in ToSet(Kept(L, v).ts) <=> x \in ToSet(L.ts)
              /\ Kept(L, v).ts # <<>>
  <2>1. Verdicts(v, L)
    BY <1>4 DEF Verdicts
  <2>2. IllFormed \notin Lists(X) /\ IllFormed \notin BOOLEAN
    BY NotIllFormed, Kinds
  <2>3. PICK K : K = Kept(L, v)
    OBVIOUS
  <2>4. K \in Lists(X) /\ \A x : x \in ToSet(K.ts) <=> Accepted(x, L, v)
    BY <1>10, <2>1, <2>2, <2>3, KeptIs
  <2>5. L.ts \in Seq(X) /\ DOMAIN L.ts = 1..Len(L.ts) /\ K.ts \in Seq(X)
    BY <2>4, ListsAre
  <2>6. ASSUME NEW x PROVE Accepted(x, L, v) <=> x \in ToSet(L.ts)
    BY <1>4, <2>5 DEF Accepted, ToSet
  <2>7. K.ts # <<>>
    BY <1>10, <2>4, <2>5, <2>6, Empty
  <2> QED BY <2>3, <2>4, <2>6, <2>7
<1> QED BY <1>8, <1>9, <1>10

LEMMA ListIsValid ==
  ASSUME NEW L \in Lists(Proper)
  PROVE  is_valid_signature_list(L) = TRUE
<1>1. PICK c : /\ Columns(<<L>>) = [of |-> L.of, ts |-> c]
               /\ DOMAIN c = 1..Len(L.ts)
               /\ \A i \in 1..Len(L.ts) :
                    /\ L.ts[i] \in Proper /\ L.ts[i] # IllFormed
                    /\ c[i] = m_list(<<L.ts[i]>>) /\ c[i] # IllFormed /\ c[i].ts = <<L.ts[i]>>
  BY OneColumn, ProperAre
<1>2. PICK g : g = [x \in Proper |-> TRUE]
  OBVIOUS
<1>3. PICK v : v = Image(g, L)
  OBVIOUS
<1>4. \A i \in 1..Len(L.ts) : v[i] = TRUE
  BY <1>1, <1>2, <1>3 DEF Image
<1>5. /\ [of |-> L.of, ts |-> v] \in Lists(BOOLEAN) /\ v \in Seq(BOOLEAN) /\ IllFormed \notin ToSet(v)
      /\ Len(v) = Len(L.ts)
  <2>1. Into(g, Proper, BOOLEAN)
    BY <1>2 DEF Into
  <2>2. IllFormed \notin BOOLEAN
    BY Kinds
  <2> QED BY <1>3, <2>1, <2>2, Mapped
<1>6. ASSUME NEW s \in Proper
      PROVE  m_apply(LAMBDA args : completion_signature(args[1]), m_list(<<s>>)) = TRUE
  <2>1. m_list(<<s>>) # IllFormed /\ m_list(<<s>>).ts = <<s>>
    <3>1. <<s>> \in Seq(Proper)
      OBVIOUS
    <3> QED BY <3>1, NotIllFormed, MListOf, ProperAre
  <2>2. <<s>>[1] = s
    OBVIOUS
  <2>3. m_apply(LAMBDA args : completion_signature(args[1]), m_list(<<s>>)) = completion_signature(s)
    BY <2>1, <2>2 DEF m_apply, m_valid
  <2>4. s # Void /\ validate_tag_args(s)
    BY ProperAre DEF Proper
  <2> QED BY <2>3, <2>4 DEF completion_signature
<1>7. m_transform(LAMBDA args : completion_signature(args[1]), <<L>>) = [of |-> L.of, ts |-> v]
  <2>1. Combinable(<<L>>) /\ Len(<<L>>) <= 5
    BY OneCombines, ProperAre
  <2>2. PICK C : C = Columns(<<L>>)
    OBVIOUS
  <2>3. C.ts = c
    BY <1>1, <2>2
  <2>4. [i \in DOMAIN C.ts |-> m_apply(LAMBDA args : completion_signature(args[1]), C.ts[i])] = v
    <3>1. ASSUME NEW i \in 1..Len(L.ts)
          PROVE  m_apply(LAMBDA args : completion_signature(args[1]), c[i]) = g[L.ts[i]]
      BY <1>1, <1>2, <1>6
    <3> QED BY <1>1, <1>3, <2>3, <3>1 DEF Image
  <2>5. [C EXCEPT !.ts = v] = [of |-> L.of, ts |-> v]
    BY <1>1, <2>2
  <2> QED BY <1>5, <2>1, <2>2, <2>4, <2>5 DEF m_transform, Spread
<1>8. [of |-> L.of, ts |-> v] # IllFormed
  BY <1>5, Kinds, NotIllFormed
<1>9. m_all(v) = TRUE
  <2>1. FALSE \notin ToSet(v)
    <3>1. DOMAIN v = 1..Len(L.ts)
      BY <1>3 DEF Image
    <3>2. ToSet(v) \subseteq {TRUE}
      BY <1>4, <3>1 DEF ToSet
    <3> QED BY <3>2
  <2> QED BY <1>5, <2>1 DEF m_all
<1> QED BY <1>7, <1>8, <1>9 DEF is_valid_signature_list, m_apply, m_valid

(* The errors of a sender, each as a signature.                              *)
LEMMA ErrorSigs ==
  ASSUME NEW L \in Lists(Types)
  PROVE  /\ m_transform(default_set_error, <<L>>) \in Lists(Proper)
         /\ \A y : y \in ToSet(m_transform(default_set_error, <<L>>).ts) <=>
                     \E t \in ToSet(L.ts) : y = Sig("error", <<t>>)
<1>1. PICK c : /\ Columns(<<L>>) = [of |-> L.of, ts |-> c]
               /\ DOMAIN c = 1..Len(L.ts)
               /\ \A i \in 1..Len(L.ts) :
                    /\ L.ts[i] \in Types /\ L.ts[i] # IllFormed
                    /\ c[i] = m_list(<<L.ts[i]>>) /\ c[i] # IllFormed /\ c[i].ts = <<L.ts[i]>>
  BY OneColumn, Kinds
<1>2. PICK g : g = [t \in Types |-> Sig("error", <<t>>)]
  OBVIOUS
<1>3. PICK v : v = Image(g, L)
  OBVIOUS
<1>4. ASSUME NEW t \in Types PROVE g[t] \in Proper
  <2>1. <<t>> \in Seq(Types) /\ Len(<<t>>) = 1
    OBVIOUS
  <2> QED BY <1>2, <2>1 DEF Proper, Signals, Sig, validate_tag_args
<1>5. /\ [of |-> L.of, ts |-> v] \in Lists(Proper) /\ v \in Seq(Proper) /\ IllFormed \notin ToSet(v)
      /\ \A y : y \in ToSet(v) <=> MappedFrom(y, g, L)
  <2>1. Into(g, Types, Proper)
    BY <1>4 DEF Into
  <2> QED BY <1>3, <2>1, ProperAre, Mapped
<1>6. m_transform(default_set_error, <<L>>) = [of |-> L.of, ts |-> v]
  <2>1. Combinable(<<L>>) /\ Len(<<L>>) <= 5
    BY OneCombines, Kinds
  <2>2. PICK C : C = Columns(<<L>>)
    OBVIOUS
  <2>3. C.ts = c
    BY <1>1, <2>2
  <2>4. [i \in DOMAIN C.ts |-> m_apply(default_set_error, C.ts[i])] = v
    <3>1. ASSUME NEW i \in 1..Len(L.ts) PROVE m_apply(default_set_error, c[i]) = g[L.ts[i]]
      BY <1>1, <1>2 DEF m_apply, m_valid, default_set_error
    <3> QED BY <1>1, <1>3, <2>3, <3>1 DEF Image
  <2>5. [C EXCEPT !.ts = v] = [of |-> L.of, ts |-> v]
    BY <1>1, <2>2
  <2> QED BY <1>5, <2>1, <2>2, <2>4, <2>5 DEF m_transform, Spread
<1>7. \A t \in ToSet(L.ts) : t \in Types
  BY ListsAre DEF ToSet
<1>8. ASSUME NEW y PROVE y \in ToSet(v) <=> \E t \in ToSet(L.ts) : y = Sig("error", <<t>>)
  BY <1>2, <1>5, <1>7 DEF MappedFrom
<1>9. [of |-> L.of, ts |-> v].ts = v
  OBVIOUS
<1> QED BY <1>5, <1>6, <1>8, <1>9

LEMMA ValueOfIsProper ==
  ASSUME NEW f \in Functions
  PROVE  ValueOf(f.gives) \in Proper /\ m_valid(f.gives)
<1>1. f.gives \in Types \union {Void}
  BY PipelineAssumption
<1>2. m_valid(f.gives)
  BY <1>1, SignaturesAssumption, Kinds, NotIllFormed DEF m_valid
<1>3. \A a \in Seq(Types) : Sig("value", a) \in Proper
  BY DEF Proper, Signals, Sig, validate_tag_args
<1>4. <<>> \in Seq(Types) /\ \A t \in Types : <<t>> \in Seq(Types)
  OBVIOUS
<1> QED BY <1>1, <1>2, <1>3, <1>4 DEF ValueOf

Sends(f, Fns, y) == (\E s \in ToSet(Fns.ts) : s.tag = "value") /\ y = ValueOf(f.gives)

(* What the function makes of every value of a sender.                       *)
LEMMA ValueTypes ==
  ASSUME NEW Fns \in Lists(Proper), Fns.ts # <<>>, NEW f \in Functions,
         NEW R, R = value_types(LAMBDA args : set_value_tuple(f, args), m_list, Fns)
  PROVE  /\ CanTake(f, ToSet(Fns.ts)) => R \in Lists(Proper) /\ \A y : y \in ToSet(R.ts) <=> Sends(f, Fns, y)
         /\ ~CanTake(f, ToSet(Fns.ts)) => R = IllFormed
<1>1. PICK V : V = tag_args_t("value", Fns)
  OBVIOUS
<1>2. /\ V \in Lists(Lists(Types))
      /\ \A y : y \in ToSet(V.ts) <=> ArgsOf(y, "value", Fns)
  BY <1>1, TagArgs
<1>3. PICK X : X = Lists(Types)
  OBVIOUS
<1>4. V \in Lists(X) /\ X \subseteq Elements /\ IllFormed \notin X
  BY <1>2, <1>3, Kinds, NotIllFormed
<1>5. PICK c : /\ Columns(<<V>>) = [of |-> V.of, ts |-> c]
               /\ DOMAIN c = 1..Len(V.ts)
               /\ \A i \in 1..Len(V.ts) :
                    /\ V.ts[i] \in X /\ V.ts[i] # IllFormed
                    /\ c[i] = m_list(<<V.ts[i]>>) /\ c[i] # IllFormed /\ c[i].ts = <<V.ts[i]>>
  BY <1>4, OneColumn
<1>6. PICK g : g = [x \in X |-> set_value_tuple(f, x.ts)]
  OBVIOUS
<1>7. PICK v : v = Image(g, V)
  OBVIOUS
<1>8. PICK C : C = Columns(<<V>>)
  OBVIOUS
<1>9. C.ts = c /\ [C EXCEPT !.ts = v] = [of |-> V.of, ts |-> v]
  BY <1>5, <1>8
<1>10. [i \in DOMAIN C.ts |-> m_apply(LAMBDA args : m_apply(LAMBDA args2 : set_value_tuple(f, args2), args[1]), C.ts[i])] = v
  <2>1. ASSUME NEW i \in 1..Len(V.ts)
        PROVE  m_apply(LAMBDA args : m_apply(LAMBDA args2 : set_value_tuple(f, args2), args[1]), c[i]) = g[V.ts[i]]
    <3>1. \A x : <<x>>[1] = x
      OBVIOUS
    <3>2. c[i].ts[1] = V.ts[i]
      BY <1>5, <3>1
    <3>3. m_apply(LAMBDA args : m_apply(LAMBDA args2 : set_value_tuple(f, args2), args[1]), c[i])
            = m_apply(LAMBDA args2 : set_value_tuple(f, args2), V.ts[i])
      BY <1>5, <3>2 DEF m_apply, m_valid
    <3>4. m_apply(LAMBDA args2 : set_value_tuple(f, args2), V.ts[i]) = set_value_tuple(f, V.ts[i].ts)
      BY <1>5 DEF m_apply, m_valid
    <3> QED BY <1>5, <1>6, <3>3, <3>4
  <2> QED BY <1>5, <1>7, <1>9, <2>1 DEF Image
<1>11. Combinable(<<V>>) /\ Len(<<V>>) <= 5
  BY <1>4, OneCombines
<1>12. m_transform(LAMBDA args : m_apply(LAMBDA args2 : set_value_tuple(f, args2), args[1]), <<V>>)
         = IF IllFormed \in ToSet(v) THEN IllFormed ELSE [of |-> V.of, ts |-> v]
  BY <1>8, <1>9, <1>10, <1>11 DEF m_transform, Spread
<1>13. R = m_apply(m_list, IF IllFormed \in ToSet(v) THEN IllFormed ELSE [of |-> V.of, ts |-> v])
  BY <1>1, <1>12 DEF value_types
<1>14. \A x \in ToSet(V.ts) : x \in X
  BY <1>4, ListsAre DEF ToSet
<1>15. DOMAIN v = 1..Len(V.ts) /\ \A i \in 1..Len(V.ts) : v[i] = g[V.ts[i]] /\ V.ts[i] \in ToSet(V.ts)
  <2>1. DOMAIN V.ts = 1..Len(V.ts)
    BY <1>4, ListsAre
  <2> QED BY <1>7, <2>1 DEF Image, ToSet
<1>16. \A s \in ToSet(Fns.ts) : s \in Proper /\ s.args \in Seq(Types)
  <2>1. \A s \in ToSet(Fns.ts) : s \in Proper
    BY ListsAre DEF ToSet
  <2> QED BY <2>1 DEF Proper, Signals
<1>17. ASSUME NEW s \in ToSet(Fns.ts), s.tag = "value"
       PROVE  args_t(s) \in ToSet(V.ts) /\ args_t(s).ts = s.args
  BY <1>2, <1>16, <1>17, MListOf DEF ArgsOf, args_t
<1>18. ASSUME CanTake(f, ToSet(Fns.ts))
       PROVE  R \in Lists(Proper) /\ \A y : y \in ToSet(R.ts) <=> Sends(f, Fns, y)
  <2>1. ASSUME NEW x \in ToSet(V.ts)
        PROVE  g[x] = ValueOf(f.gives) /\ \E s \in ToSet(Fns.ts) : s.tag = "value"
    <3>1. PICK s \in ToSet(Fns.ts) : s.tag = "value" /\ x = args_t(s)
      BY <1>2, <2>1 DEF ArgsOf
    <3>2. x.ts = s.args /\ s.args \in f.takes
      BY <1>17, <1>18, <3>1 DEF CanTake
    <3>3. set_value_tuple(f, x.ts) = ValueOf(f.gives)
      BY <3>2, ValueOfIsProper DEF set_value_tuple, invoke_result
    <3> QED BY <1>6, <1>14, <3>1, <3>3
  <2>2. \A i \in 1..Len(V.ts) : v[i] = ValueOf(f.gives)
    BY <1>15, <2>1
  <2>3. v \in Seq(Proper)
    <3>1. ValueOf(f.gives) \in Proper /\ Len(V.ts) \in Nat
      BY <1>4, ListsAre, ValueOfIsProper
    <3>2. v = [i \in 1..Len(V.ts) |-> ValueOf(f.gives)]
      BY <1>7, <2>2 DEF Image
    <3> QED BY <3>1, <3>2
  <2>4. IllFormed \notin ToSet(v)
    BY <1>15, <2>2, ValueOfIsProper, ProperAre DEF ToSet
  <2>5. [of |-> V.of, ts |-> v] # IllFormed /\ [of |-> V.of, ts |-> v].ts = v
    <3>1. [of |-> V.of, ts |-> v] \in Lists(Proper)
      BY <1>4, <2>3, ListsAre, ListOf
    <3> QED BY <3>1, ProperAre, NotIllFormed
  <2>6. R = m_list(v)
    BY <1>13, <2>4, <2>5 DEF m_apply, m_valid
  <2>7. R \in Lists(Proper) /\ R.ts = v
    BY <2>3, <2>6, MListOf
  <2>8. ASSUME NEW y PROVE y \in ToSet(v) <=> Sends(f, Fns, y)
    <3>1. ASSUME y \in ToSet(v) PROVE Sends(f, Fns, y)
      BY <1>15, <2>1, <3>1 DEF ToSet, Sends
    <3>2. ASSUME Sends(f, Fns, y) PROVE y \in ToSet(v)
      <4>1. PICK x \in ToSet(V.ts) : TRUE
        BY <1>17, <3>2 DEF Sends
      <4>2. PICK i \in 1..Len(V.ts) : x = V.ts[i]
        <5>1. DOMAIN V.ts = 1..Len(V.ts)
          BY <1>4, ListsAre
        <5> QED BY <4>1, <5>1 DEF ToSet
      <4>3. v[i] = y
        BY <2>2, <3>2 DEF Sends
      <4> QED BY <1>15, <4>3 DEF ToSet
    <3> QED BY <3>1, <3>2
  <2> QED BY <2>7, <2>8
<1>19. ASSUME ~CanTake(f, ToSet(Fns.ts)) PROVE R = IllFormed
  <2>1. PICK s \in ToSet(Fns.ts) : s.tag = "value" /\ s.args \notin f.takes
    BY <1>19 DEF CanTake
  <2>2. PICK x \in ToSet(V.ts) : x.ts = s.args
    BY <1>17, <2>1
  <2>3. g[x] = IllFormed
    BY <1>6, <1>14, <2>1, <2>2 DEF set_value_tuple, invoke_result, m_valid
  <2>4. PICK i \in 1..Len(V.ts) : x = V.ts[i]
    <3>1. DOMAIN V.ts = 1..Len(V.ts)
      BY <1>4, ListsAre
    <3> QED BY <2>2, <3>1 DEF ToSet
  <2>5. IllFormed \in ToSet(v)
    BY <1>15, <2>3, <2>4 DEF ToSet
  <2> QED BY <1>13, <2>5 DEF m_apply, m_valid
<1> QED BY <1>18, <1>19

-------------------------------------------------------------------------------
(* m_unique.                                                               *)

Once(R, T) == IF T \in ToSet(R.ts) THEN R ELSE m_push_back(R, <<T>>)

LEMMA OnceIs ==
  ASSUME NEW X, NEW R \in Lists(X), NEW T \in X
  PROVE  /\ Once(R, T) \in Lists(X) /\ Once(R, T).of = R.of
         /\ Once(R, T).ts = IF T \in ToSet(R.ts) THEN R.ts ELSE Append(R.ts, T)
<1>1. CASE T \in ToSet(R.ts)
  BY <1>1 DEF Once
<1>2. CASE T \notin ToSet(R.ts)
  <2>1. PICK s : s = R.ts \o <<T>>
    OBVIOUS
  <2>2. R.ts \in Seq(X)
    BY ListsAre
  <2>3. s \in Seq(X) /\ s = Append(R.ts, T)
    BY <2>1, <2>2
  <2>4. With(Once(R, T), R, s)
    BY <1>2, <2>1 DEF Once, m_push_back, With
  <2>5. Once(R, T) \in Lists(X) /\ Once(R, T).of = R.of /\ Once(R, T).ts = s
    <3>1. PICK M : M = Once(R, T)
      OBVIOUS
    <3>2. s \in Seq(X) /\ R \in Lists(X) /\ With(M, R, s)
      BY <2>3, <2>4, <3>1
    <3>3. M \in Lists(X) /\ M.of = R.of /\ M.ts = s
      BY ONLY <3>2, ListWith
    <3> QED BY <3>1, <3>3
  <2> QED BY <1>2, <2>3, <2>5
<1> QED BY <1>1, <1>2

(* The lists m_unique goes through.                                          *)
LEMMA UniqueSteps ==
  ASSUME NEW X, NEW L \in Lists(X), NEW n \in Nat, n = Len(L.ts)
  PROVE  \E p : /\ p[0] = m_clear(L) /\ m_unique(L) = p[n]
                /\ \A k \in 1..n : p[k] = Once(p[k - 1], L.ts[k])
<1>1. m_clear(L) \in Lists(X)
  <2>1. PICK s : s = <<>>
    OBVIOUS
  <2>2. s \in Seq(X)
    BY <2>1
  <2>3. With(m_clear(L), L, s)
    BY <2>1 DEF m_clear, With
  <2> QED BY <2>2, <2>3, ListWith
<1>2. DOMAIN L.ts = 1..n /\ \A i \in 1..n : L.ts[i] \in X
  BY ListsAre
<1>3. PICK V, b : V = Lists(X) /\ b = m_clear(L)
  OBVIOUS
<1>4. PICK G : G = [i \in 1..n |-> [v \in V |-> Once(v, L.ts[i])]]
  OBVIOUS
<1>5. b \in V /\ Closed(G, V, n)
  <2>1. ASSUME NEW v \in V, NEW i \in 1..n PROVE G[i][v] \in V
    BY <1>2, <1>3, <1>4, OnceIs
  <2> QED BY <1>1, <1>3, <2>1 DEF Closed
<1>6. PICK f \in [SUBSET (1..n) -> V] : Folds(f, n, b, G)
  <2> QED BY ONLY <1>5, FoldIteration
<1> DEFINE Eq(h) == h = [s \in SUBSET (1..n) |->
                           IF s = {} THEN b ELSE Once(h[s \ {Max(s)}], L.ts[Max(s)])]
           iter == CHOOSE h : Eq(h)
<1>7. m_unique(L) = iter[1..n]
  <2>1. m_unique(L) = FoldLeft(LAMBDA R, T : IF T \in ToSet(R.ts) THEN R ELSE m_push_back(R, <<T>>), b, L.ts)
    BY <1>3 DEF m_unique
  <2> QED BY <1>2, <2>1 DEF FoldLeft, MapThenFoldSet, Once
<1>8. Eq([s \in SUBSET (1..n) |-> f[s]])
  <2>1. PICK h : h = [s \in SUBSET (1..n) |-> f[s]]
    OBVIOUS
  <2>2. ASSUME NEW s \in SUBSET (1..n)
        PROVE  h[s] = IF s = {} THEN b ELSE Once(h[s \ {Max(s)}], L.ts[Max(s)])
    <3>1. CASE s = {}
      BY <3>1, <1>6, <2>1 DEF Folds
    <3>2. CASE s # {}
      <4>1. PICK m \in 1..n : m = Max(s)
        <5>1. Max(s) \in s
          BY <3>2, MaxIn
        <5> QED BY <5>1
      <4>2. PICK r : r = s \ {m}
        OBVIOUS
      <4>3. r \in SUBSET (1..n) /\ f[r] \in V /\ h[r] = f[r] /\ h[s] = f[s]
        BY <4>2, <1>6, <2>1
      <4>4. f[s] = G[m][f[r]]
        BY <3>2, <4>1, <4>2, <1>6 DEF Folds
      <4>5. G[m][f[r]] = Once(f[r], L.ts[m])
        BY <1>4, <4>3
      <4> QED BY <3>2, <4>1, <4>2, <4>3, <4>4, <4>5
    <3> QED BY <3>1, <3>2
  <2> QED BY <2>1, <2>2
<1>9. Eq(iter)
  BY <1>8
<1>10. \A s \in SUBSET (1..n) :
         iter[s] = IF s = {} THEN b ELSE Once(iter[s \ {Max(s)}], L.ts[Max(s)])
  BY <1>9
<1> HIDE DEF iter, Eq
<1>11. PICK W : W = {iter[s] : s \in SUBSET (1..n)}
  OBVIOUS
<1>12. PICK H : H = [i \in 1..n |-> [v \in W |-> Once(v, L.ts[i])]]
  OBVIOUS
<1>13. Folds(iter, n, b, H)
  <2>1. ASSUME NEW s \in SUBSET (1..n), s # {}
        PROVE  iter[s] = H[Max(s)][iter[s \ {Max(s)}]]
    <3>1. PICK m \in 1..n : m = Max(s)
      <4>1. Max(s) \in s
        BY <2>1, MaxIn
      <4> QED BY <4>1
    <3>2. PICK r \in SUBSET (1..n) : r = s \ {m}
      OBVIOUS
    <3>3. iter[r] \in W
      BY <1>11
    <3>4. H[m][iter[r]] = Once(iter[r], L.ts[m])
      BY <1>12, <3>3
    <3>5. iter[s] = Once(iter[s \ {Max(s)}], L.ts[Max(s)])
      BY <1>10, <2>1
    <3> QED BY <3>1, <3>2, <3>4, <3>5
  <2> QED BY <1>10, <2>1 DEF Folds
<1>14. iter[1..0] = b /\ \A k \in 1..n : iter[1..k] = H[k][iter[1..k - 1]]
  BY <1>13, FoldPrefixes
<1>15. PICK p : p = [k \in 0..n |-> iter[1..k]]
  OBVIOUS
<1>16. ASSUME NEW k \in 1..n PROVE p[k] = Once(p[k - 1], L.ts[k])
  <2>1. k - 1 \in 0..n /\ k \in 0..n /\ 1..k - 1 \in SUBSET (1..n)
    OBVIOUS
  <2>2. iter[1..k - 1] \in W
    BY <1>11, <2>1
  <2>3. H[k][iter[1..k - 1]] = Once(iter[1..k - 1], L.ts[k])
    BY <1>12, <2>2
  <2> QED BY <1>14, <1>15, <2>1, <2>3
<1>17. p[0] = b /\ p[n] = iter[1..n]
  BY <1>14, <1>15
<1> QED BY <1>3, <1>7, <1>16, <1>17

LEMMA ToSetAppend ==
  ASSUME NEW X, NEW s \in Seq(X), NEW x \in X
  PROVE  ToSet(Append(s, x)) = ToSet(s) \union {x}
<1>1. Append(s, x) = s \o <<x>> /\ <<x>> \in Seq(X)
  BY AppendIsConcat
<1>2. ToSet(<<x>>) = {x}
  BY DEF ToSet
<1>3. PICK v \in Seq(X) : v = <<x>>
  BY <1>1
<1>4. ToSet(s \o v) = ToSet(s) \union ToSet(v)
  BY ToSetConcat
<1> QED BY <1>1, <1>2, <1>3, <1>4

OnceEach(s) == IsFiniteSet(ToSet(s)) /\ Len(s) = Cardinality(ToSet(s))
AmongFirst(x, s, k) == \E i \in 1..k : x = s[i]

(* unique leaves one of each type.                                           *)
LEMMA UniqueIs ==
  ASSUME NEW X, NEW L \in Lists(X)
  PROVE  /\ m_unique(L) \in Lists(X) /\ OnceEach(m_unique(L).ts)
         /\ \A x : x \in ToSet(m_unique(L).ts) <=> x \in ToSet(L.ts)
<1>1. PICK n \in Nat : n = Len(L.ts)
  BY ListsAre
<1>2. DOMAIN L.ts = 1..n /\ \A i \in 1..n : L.ts[i] \in X
  BY <1>1, ListsAre
<1>3. PICK p : /\ p[0] = m_clear(L) /\ m_unique(L) = p[n]
               /\ \A k \in 1..n : p[k] = Once(p[k - 1], L.ts[k])
  BY <1>1, UniqueSteps
<1> DEFINE Good(k) == /\ p[k] \in Lists(X) /\ OnceEach(p[k].ts)
                      /\ \A x : x \in ToSet(p[k].ts) <=> AmongFirst(x, L.ts, k)
           S == {k \in Nat : k \in 0..n => Good(k)}
<1>4. Good(0)
  <2>1. PICK s : s = <<>>
    OBVIOUS
  <2>2. s \in Seq(X)
    BY <2>1
  <2>3. With(p[0], L, s)
    BY <1>3, <2>1 DEF m_clear, With
  <2>4. p[0] \in Lists(X) /\ p[0].ts = s
    BY <2>2, <2>3, ListWith
  <2>5. ToSet(s) = {} /\ Len(s) = 0
    BY <2>1 DEF ToSet
  <2>6. OnceEach(s)
    BY <2>5, FS_EmptySet DEF OnceEach
  <2>7. \A x : ~AmongFirst(x, L.ts, 0)
    BY DEF AmongFirst
  <2> QED BY <2>4, <2>5, <2>6, <2>7
<1>5. ASSUME NEW k \in 1..n, Good(k - 1) PROVE Good(k)
  <2>1. PICK R \in Lists(X) : R = p[k - 1]
    BY <1>5
  <2>2. PICK T \in X : T = L.ts[k]
    BY <1>2
  <2>3. p[k] = Once(R, T)
    BY <1>3, <2>1, <2>2
  <2>4. /\ p[k] \in Lists(X)
        /\ p[k].ts = IF T \in ToSet(R.ts) THEN R.ts ELSE Append(R.ts, T)
    BY <2>3, OnceIs
  <2>5. R.ts \in Seq(X) /\ OnceEach(R.ts) /\ \A x : x \in ToSet(R.ts) <=> AmongFirst(x, L.ts, k - 1)
    BY <1>5, <2>1, ListsAre
  <2>6. ToSet(p[k].ts) = ToSet(R.ts) \union {T}
    BY <2>4, <2>5, ToSetAppend
  <2>7. OnceEach(p[k].ts)
    <3>1. CASE T \in ToSet(R.ts)
      BY <3>1, <2>4, <2>5
    <3>2. CASE T \notin ToSet(R.ts)
      <4>1. Len(Append(R.ts, T)) = Len(R.ts) + 1
        BY <2>5
      <4>2. Cardinality(ToSet(R.ts) \union {T}) = Cardinality(ToSet(R.ts)) + 1
            /\ IsFiniteSet(ToSet(R.ts) \union {T})
        BY <3>2, <2>5, FS_AddElement DEF OnceEach
      <4> QED BY <3>2, <2>4, <2>5, <2>6, <4>1, <4>2 DEF OnceEach
    <3> QED BY <3>1, <3>2
  <2>8. ASSUME NEW x PROVE x \in ToSet(p[k].ts) <=> AmongFirst(x, L.ts, k)
    <3>1. 1..k = 1..k - 1 \union {k}
      OBVIOUS
    <3>2. AmongFirst(x, L.ts, k) <=> AmongFirst(x, L.ts, k - 1) \/ x = T
      BY <2>2, <3>1 DEF AmongFirst
    <3> QED BY <2>5, <2>6, <3>2
  <2> QED BY <2>4, <2>7, <2>8
<1> HIDE DEF Good
<1>6. 0 \in S /\ \A k \in Nat : k \in S => k + 1 \in S
  <2>1. 0 \in S
    BY <1>4
  <2>2. ASSUME NEW k \in Nat, k \in S, k + 1 <= n PROVE Good(k + 1)
    <3>1. PICK j \in 1..n : j = k + 1
      BY <2>2
    <3>2. Good(j - 1)
      BY <2>2, <3>1
    <3> QED BY <1>5, <3>1, <3>2
  <2> QED BY <2>1, <2>2
<1>7. n \in S
  <2> HIDE DEF S
  <2> QED BY <1>6, NatSet
<1>8. Good(n)
  BY <1>7
<1>9. \A x : AmongFirst(x, L.ts, n) <=> x \in ToSet(L.ts)
  BY <1>2 DEF AmongFirst, ToSet
<1> QED BY <1>3, <1>8, <1>9 DEF Good

(* Four lists behind each other.                                             *)
LEMMA ConcatFour ==
  ASSUME NEW X, IllFormed \notin Lists(X),
         NEW A \in Lists(X), NEW B \in Lists(X), NEW C \in Lists(X), NEW D \in Lists(X)
  PROVE  /\ m_concat(<<A, B, C, D>>) \in Lists(X)
         /\ ToSet(m_concat(<<A, B, C, D>>).ts) = ToSet(A.ts) \union ToSet(B.ts) \union ToSet(C.ts) \union ToSet(D.ts)
<1>1. PICK Ls : Ls = <<A, B, C, D>>
  OBVIOUS
<1>2. Ls \in Seq(Lists(X)) /\ Len(Ls) = 4 /\ Ls # <<>> /\ Ls[1] = A /\ Ls[2] = B /\ Ls[3] = C /\ Ls[4] = D
  BY <1>1
<1>3. PICK s : s = [i \in 1..4 |-> Ls[i].ts]
  OBVIOUS
<1>4. SeqsOf(X, 4, s)
  <2>1. \A i \in 1..4 : Ls[i] \in Lists(X)
    BY <1>2
  <2> QED BY <1>3, <2>1, ListsAre DEF SeqsOf
<1>5. PICK q : q[0] = <<>> /\ Chain(q, s, 4)
  BY <1>4, ChainExists
<1>6. m_concat(Ls) = [of |-> Ls[1].of, ts |-> q[4]]
  <2>1. Chain(q, s, Len(Ls)) /\ \A i \in 1..Len(Ls) : s[i] = Ls[i].ts
    BY <1>2, <1>3, <1>5
  <2>2. m_concat(Ls) = [of |-> Ls[1].of, ts |-> q[Len(Ls)]]
    BY <1>2, <1>5, <2>1, ConcatIs
  <2> QED BY <1>2, <2>2
<1>7. q[4] \in Seq(X)
  <2>1. <<>> \in Seq(X) /\ 4 \in 0..4
    OBVIOUS
  <2> QED BY <1>4, <1>5, <2>1, ChainSeq
<1>8. m_concat(Ls) \in Lists(X) /\ m_concat(Ls).ts = q[4]
  BY <1>2, <1>6, <1>7, ListsAre, ListOf
<1>9. \A x : x \in ToSet(q[4]) <=> InOneOf(x, s, 4)
  BY <1>4, <1>5, ChainSet
<1>10. 1..4 = {1, 2, 3, 4} /\ s[1] = A.ts /\ s[2] = B.ts /\ s[3] = C.ts /\ s[4] = D.ts
  BY <1>2, <1>3
<1>11. ASSUME NEW x
       PROVE  InOneOf(x, s, 4) <=> x \in ToSet(A.ts) \/ x \in ToSet(B.ts) \/ x \in ToSet(C.ts) \/ x \in ToSet(D.ts)
  BY <1>10 DEF InOneOf
<1> QED BY <1>1, <1>8, <1>9, <1>11

-------------------------------------------------------------------------------
(* Lists cut into pieces.                                                  *)

(* The m sequences in r are s, cut behind each e[k].                         *)
CutAt(s, e, m, r) ==
  /\ e[0] = 0 /\ e[m] = Len(s)
  /\ \A k \in 0..m : e[k] \in 0..Len(s)
  /\ \A k \in 1..m : e[k - 1] <= e[k] /\ r[k] = SubSeq(s, e[k - 1] + 1, e[k])

LEMMA SubSeqJoin ==
  ASSUME NEW X, NEW s \in Seq(X), NEW a \in 0..Len(s), NEW b \in a..Len(s)
  PROVE  SubSeq(s, 1, b) = SubSeq(s, 1, a) \o SubSeq(s, a + 1, b)
BY ConcatAdjacentSubSeq

(* Put behind each other, the pieces are what was cut.                       *)
LEMMA CutChain ==
  ASSUME NEW X, NEW s \in Seq(X), NEW m \in Nat, NEW e, NEW r, CutAt(s, e, m, r)
  PROVE  /\ SeqsOf(X, m, r)
         /\ \E p : p[0] = <<>> /\ Chain(p, r, m) /\ \A k \in 0..m : p[k] = SubSeq(s, 1, e[k])
<1>1. SeqsOf(X, m, r)
  <2>1. ASSUME NEW k \in 1..m PROVE r[k] \in Seq(X)
    <3>1. PICK a, b : a = e[k - 1] /\ b = e[k]
      OBVIOUS
    <3>2. a \in 0..Len(s) /\ b \in a..Len(s) /\ r[k] = SubSeq(s, a + 1, b)
      BY <3>1 DEF CutAt
    <3> QED BY <3>2
  <2> QED BY <2>1 DEF SeqsOf
<1>2. PICK p : p = [k \in 0..m |-> SubSeq(s, 1, e[k])]
  OBVIOUS
<1>3. p[0] = <<>>
  BY <1>2 DEF CutAt
<1>4. ASSUME NEW k \in 1..m PROVE p[k] = p[k - 1] \o r[k]
  <2>1. PICK a, b : a = e[k - 1] /\ b = e[k]
    OBVIOUS
  <2>2. a \in 0..Len(s) /\ b \in a..Len(s) /\ r[k] = SubSeq(s, a + 1, b)
    BY <2>1 DEF CutAt
  <2>3. p[k] = SubSeq(s, 1, b) /\ p[k - 1] = SubSeq(s, 1, a)
    <3>1. k \in 0..m /\ k - 1 \in 0..m
      OBVIOUS
    <3> QED BY <1>2, <2>1, <3>1
  <2>4. SubSeq(s, 1, b) = SubSeq(s, 1, a) \o SubSeq(s, a + 1, b)
    BY <2>2, SubSeqJoin
  <2> QED BY <2>2, <2>3, <2>4
<1> QED BY <1>1, <1>2, <1>3, <1>4 DEF Chain

Rest(s, k) == SubSeq(s, Len(s) - k + 1, Len(s) - k + Piece(k))
Pieced(s, p, k) == IF k = 0 THEN <<>> ELSE <<Rest(s, k)>> \o p[k - Piece(k)]
PiecesOf(s, p, n) == \A k \in 0..n : p[k] = Pieced(s, p, k)

LEMMA PieceSize ==
  ASSUME NEW k \in Nat \ {0}
  PROVE  Piece(k) \in 1..k
BY DEF Piece

LEMMA PiecesExist ==
  ASSUME NEW s, NEW n \in Nat, n = Len(s)
  PROVE  \E p : Pieces(s) = p[n] /\ PiecesOf(s, p, n)
<1> DEFINE Built(p, m) == p = [k \in 0..m |-> Pieced(s, p, k)]
           S == {m \in Nat : \E p : Built(p, m)}
<1>1. 0 \in S
  <2>1. PICK p : p = [k \in 0..0 |-> <<>>]
    OBVIOUS
  <2>2. ASSUME NEW k \in 0..0 PROVE p[k] = Pieced(s, p, k)
    BY <2>1 DEF Pieced
  <2>3. Built(p, 0)
    BY <2>1, <2>2
  <2> QED BY <2>3
<1>2. ASSUME NEW m \in Nat, m \in S PROVE m + 1 \in S
  <2>1. PICK p : Built(p, m)
    BY <1>2
  <2>2. PICK q : q = [k \in 0..m + 1 |-> Pieced(s, p, k)]
    OBVIOUS
  <2>3. ASSUME NEW k \in 0..m PROVE q[k] = p[k]
    BY <2>1, <2>2
  <2>4. ASSUME NEW k \in 0..m + 1 PROVE q[k] = Pieced(s, q, k)
    <3>1. CASE k = 0
      BY <3>1, <2>2 DEF Pieced
    <3>2. CASE k # 0
      <4>1. Piece(k) \in 1..k
        BY <3>2, PieceSize
      <4>2. k - Piece(k) \in 0..m
        BY <4>1
      <4> QED BY <3>2, <4>2, <2>2, <2>3 DEF Pieced
    <3> QED BY <3>1, <3>2
  <2>5. Built(q, m + 1)
    BY <2>2, <2>4
  <2> QED BY <2>5
<1>3. n \in S
  <2> HIDE DEF S
  <2> QED BY <1>1, <1>2, NatSet
<1>4. \E p : Built(p, n)
  BY <1>3
<1>5. PICK p : p = CHOOSE q : Built(q, n)
  OBVIOUS
<1>6. Pieces(s) = p[n]
  BY <1>5 DEF Pieces, Pieced, Rest
<1>7. Built(p, n)
  BY <1>4, <1>5
<1> QED BY <1>6, <1>7 DEF PiecesOf

\* The pieces of the last k in s are r.
LastCut(X, s, k, r, m, e) ==
  /\ r \in Seq(Seq(X)) /\ Len(r) = m
  /\ e[0] = Len(s) - k /\ e[m] = Len(s)
  /\ \A j \in 0..m : e[j] \in 0..Len(s)
  /\ \A j \in 1..m : e[j - 1] <= e[j] /\ r[j] = SubSeq(s, e[j - 1] + 1, e[j])

LEMMA PiecesCut ==
  ASSUME NEW X, NEW s \in Seq(X)
  PROVE  \E m \in Nat : \E e : CutAt(s, e, m, Pieces(s)) /\ Pieces(s) \in Seq(Seq(X)) /\ Len(Pieces(s)) = m
<1>1. PICK n \in Nat : n = Len(s)
  OBVIOUS
<1>2. PICK p : Pieces(s) = p[n] /\ PiecesOf(s, p, n)
  BY <1>1, PiecesExist
<1> DEFINE Good(k) == \E m \in Nat : \E e : LastCut(X, s, k, p[k], m, e)
           S == {k \in Nat : \A j \in 0..k : j <= n => Good(j)}
<1>3. Good(0)
  <2>1. PICK e : e = [j \in 0..0 |-> n]
    OBVIOUS
  <2>2. p[0] = <<>>
    <3>1. 0 \in 0..n
      OBVIOUS
    <3> QED BY <1>2, <3>1 DEF PiecesOf, Pieced
  <2>3. LastCut(X, s, 0, p[0], 0, e)
    BY <1>1, <2>1, <2>2 DEF LastCut
  <2> QED BY <2>3
<1>4. ASSUME NEW k \in 1..n, \A j \in 0..k - 1 : Good(j) PROVE Good(k)
  <2>1. PICK c \in 1..k : c = Piece(k)
    BY PieceSize
  <2>2. PICK m \in Nat : \E e : LastCut(X, s, k - c, p[k - c], m, e)
    <3>1. k - c \in 0..k - 1
      OBVIOUS
    <3> QED BY <1>4, <3>1
  <2>3. PICK e : LastCut(X, s, k - c, p[k - c], m, e)
    BY <2>2
  <2>4. PICK r \in Seq(Seq(X)) : r = p[k - c] /\ Len(r) = m
    BY <2>3 DEF LastCut
  <2>5. /\ e[0] = n - k + c /\ e[m] = n /\ \A j \in 0..m : e[j] \in 0..n
        /\ \A j \in 1..m : e[j - 1] <= e[j] /\ r[j] = SubSeq(s, e[j - 1] + 1, e[j])
    <3>1. e[0] = Len(s) - (k - c) /\ e[m] = Len(s) /\ \A j \in 0..m : e[j] \in 0..Len(s)
      BY <2>3 DEF LastCut
    <3>2. \A j \in 1..m : e[j - 1] <= e[j] /\ r[j] = SubSeq(s, e[j - 1] + 1, e[j])
      BY <2>3, <2>4 DEF LastCut
    <3>3. n - (k - c) = n - k + c
      OBVIOUS
    <3> QED BY <1>1, <3>1, <3>2, <3>3
  <2>6. PICK u : u = SubSeq(s, n - k + 1, n - k + c)
    OBVIOUS
  <2>7. u \in Seq(X)
    <3>1. n - k + 1 \in 1..n /\ n - k + c \in 1..n
      OBVIOUS
    <3>2. \A i \in n - k + 1..n - k + c : i \in 1..n /\ s[i] \in X
      BY <1>1, <3>1
    <3> QED BY <2>6, <3>1, <3>2, SubSeqProperties
  <2>8. p[k] = <<u>> \o r
    <3>1. p[k] = Pieced(s, p, k) /\ k # 0
      BY <1>2 DEF PiecesOf
    <3> QED BY <1>1, <2>1, <2>4, <2>6, <3>1 DEF Pieced, Rest
  <2>9. <<u>> \in Seq(Seq(X)) /\ Len(<<u>>) = 1
    BY <2>7
  <2>10. /\ p[k] \in Seq(Seq(X)) /\ Len(p[k]) = m + 1
         /\ p[k][1] = u /\ \A j \in 1..m : p[k][j + 1] = r[j]
    <3>1. PICK v \in Seq(Seq(X)) : v = <<u>> /\ Len(v) = 1 /\ v[1] = u
      BY <2>9
    <3>2. /\ v \o r \in Seq(Seq(X)) /\ Len(v \o r) = 1 + m
          /\ \A i \in 1..1 + m : (v \o r)[i] = IF i <= 1 THEN v[i] ELSE r[i - 1]
      BY <2>4, <3>1, ConcatProperties
    <3>3. p[k] = v \o r
      BY <2>8, <3>1
    <3>4. \A j \in 1..m : j + 1 \in 1..1 + m /\ ~(j + 1 <= 1) /\ (j + 1) - 1 = j
      OBVIOUS
    <3> QED BY <3>1, <3>2, <3>3, <3>4
  <2>11. PICK g : g = [j \in 0..m + 1 |-> IF j = 0 THEN n - k ELSE e[j - 1]]
    OBVIOUS
  <2>12. g[0] = n - k /\ g[m + 1] = n /\ \A j \in 0..m + 1 : g[j] \in 0..n
    <3>1. \A j \in 1..m + 1 : g[j] = e[j - 1] /\ j - 1 \in 0..m
      BY <2>11
    <3>2. g[0] = n - k /\ n - k \in 0..n
      BY <2>11
    <3>3. (m + 1) - 1 = m /\ m + 1 \in 1..m + 1
      OBVIOUS
    <3>4. \A j \in 1..m + 1 : g[j] \in 0..n
      BY <2>5, <3>1
    <3>5. g[m + 1] = n
      BY <2>5, <3>1, <3>3
    <3>6. \A j \in 0..m + 1 : j = 0 \/ j \in 1..m + 1
      OBVIOUS
    <3> QED BY <3>2, <3>4, <3>5, <3>6
  <2>13. ASSUME NEW j \in 1..m + 1
         PROVE  g[j - 1] <= g[j] /\ p[k][j] = SubSeq(s, g[j - 1] + 1, g[j])
    <3>1. CASE j = 1
      <4>1. j - 1 = 0 /\ 0 \in 0..m + 1 /\ j \in 0..m + 1 /\ j # 0
        BY <3>1
      <4>2. g[j - 1] = n - k /\ g[j] = e[0]
        BY ONLY <2>11, <4>1
      <4>3. g[j] = n - k + c /\ n - k <= n - k + c
        BY <2>5, <4>2
      <4>4. p[k][j] = u
        BY <2>10, <3>1
      <4> QED BY ONLY <2>6, <4>2, <4>3, <4>4
    <3>2. CASE j # 1
      <4>1. PICK i \in 1..m : i = j - 1
        BY <3>2
      <4>2. g[j] = e[i] /\ g[j - 1] = e[i - 1]
        <5>1. i \in 0..m + 1 /\ j \in 0..m + 1 /\ j # 0 /\ i # 0
          BY <4>1
        <5> QED BY ONLY <2>11, <4>1, <5>1
      <4>3. e[i - 1] <= e[i] /\ r[i] = SubSeq(s, e[i - 1] + 1, e[i])
        BY <2>5
      <4>4. p[k][j] = r[i]
        BY <2>10, <4>1
      <4> QED BY <4>2, <4>3, <4>4
    <3> QED BY <3>1, <3>2
  <2>14. LastCut(X, s, k, p[k], m + 1, g)
    BY <1>1, <2>10, <2>12, <2>13 DEF LastCut
  <2>15. m + 1 \in Nat
    OBVIOUS
  <2> QED BY <2>14, <2>15
<1> HIDE DEF Good
<1>5. 0 \in S
  BY <1>3
<1>6. ASSUME NEW k \in Nat, k \in S PROVE k + 1 \in S
  <2>1. ASSUME NEW j \in 0..k + 1, j <= n PROVE Good(j)
    <3>1. CASE j \in 0..k
      BY <1>6, <2>1, <3>1
    <3>2. CASE j \notin 0..k
      <4>1. PICK i \in 1..n : i = j /\ i - 1 = k
        BY <2>1, <3>2
      <4>2. \A l \in 0..i - 1 : Good(l)
        BY <1>6, <4>1
      <4> QED BY <1>4, <4>1, <4>2
    <3> QED BY <3>1, <3>2
  <2> QED BY <2>1
<1>7. Good(n)
  <2>1. n \in S
    <3> HIDE DEF S
    <3> QED BY <1>5, <1>6, NatSet
  <2> QED BY <2>1
<1>8. PICK m \in Nat : \E e : LastCut(X, s, n, p[n], m, e)
  BY <1>7 DEF Good
<1>9. PICK e : LastCut(X, s, n, p[n], m, e)
  BY <1>8
<1>10. CutAt(s, e, m, Pieces(s))
  <2>1. n - n = 0
    OBVIOUS
  <2> QED BY <1>1, <1>2, <1>9, <2>1 DEF CutAt, LastCut
<1> QED BY <1>2, <1>9, <1>10 DEF LastCut

(* The largest of a set of positions, and those below it.                    *)
LEMMA BelowMax ==
  ASSUME NEW m \in Nat, NEW S \in SUBSET (1..m + 1), S # {}
  PROVE  Max(S) \in S /\ S \ {Max(S)} \in SUBSET (1..m)
<1>1. CASE m + 1 \in S
  <2>1. S \subseteq Int /\ \A k \in S : k <= m + 1
    OBVIOUS
  <2>2. Max(S) = m + 1
    BY <1>1, <2>1, MaxIs
  <2> QED BY <1>1, <2>2
<1>2. CASE m + 1 \notin S
  <2>1. S \in SUBSET (1..m)
    BY <1>2
  <2> QED BY <2>1, MaxIn
<1> QED BY <1>1, <1>2

-------------------------------------------------------------------------------
(* Folds that push.                                                        *)

(* The steps of a fold that pushes: each type, and each piece.                *)
Pushed(v, t) == m_push_back(v, <<t>>)
PushedAll(v, s) == FoldLeft(LAMBDA w, t : m_push_back(w, <<t>>), v, s)
PushedPieces(v, s) == FoldLeft(LAMBDA w, piece : PushedAll(w, piece), v, s)
PushedRun(p, s, n) == \A k \in 1..n : p[k] = Pushed(p[k - 1], s[k])

LEMMA PushSteps ==
  ASSUME NEW b, NEW s, NEW n \in Nat, DOMAIN s = 1..n
  PROVE  \E p : p[0] = b /\ PushedAll(b, s) = p[n] /\ PushedRun(p, s, n)
<1> DEFINE Up(h, S) == IF S = {} THEN b ELSE Pushed(h[S \ {Max(S)}], s[Max(S)])
           Built(h, m) == h = [S \in SUBSET (1..m) |-> Up(h, S)]
           M == {m \in Nat : \E h : Built(h, m)}
<1>1. 0 \in M
  <2>1. PICK h : h = [S \in SUBSET (1..0) |-> b]
    OBVIOUS
  <2>2. ASSUME NEW S \in SUBSET (1..0) PROVE h[S] = Up(h, S)
    BY <2>1
  <2>3. Built(h, 0)
    <3> HIDE DEF Up
    <3> QED BY <2>1, <2>2
  <2> QED BY <2>3
<1>2. ASSUME NEW m \in Nat, m \in M PROVE m + 1 \in M
  <2>1. PICK h : Built(h, m)
    BY <1>2
  <2>2. PICK g : g = [S \in SUBSET (1..m + 1) |-> Up(h, S)]
    OBVIOUS
  <2>3. ASSUME NEW S \in SUBSET (1..m) PROVE g[S] = h[S]
    <3>1. S \in SUBSET (1..m + 1)
      OBVIOUS
    <3> HIDE DEF Up
    <3> QED BY <2>1, <2>2, <3>1
  <2>4. ASSUME NEW S \in SUBSET (1..m + 1) PROVE Up(h, S) = Up(g, S)
    <3>1. CASE S = {}
      BY <3>1
    <3>2. CASE S # {}
      <4>1. PICK R : R = S \ {Max(S)}
        OBVIOUS
      <4>2. R \in SUBSET (1..m)
        BY <3>2, <4>1, BelowMax
      <4>3. h[R] = g[R]
        BY <2>3, <4>2
      <4> QED BY ONLY <3>2, <4>1, <4>3
    <3> QED BY <3>1, <3>2
  <2>5. Built(g, m + 1)
    <3> HIDE DEF Up
    <3> QED BY <2>2, <2>4
  <2>6. m + 1 \in Nat
    OBVIOUS
  <2> HIDE DEF Built
  <2> QED BY <2>5, <2>6
<1>3. \E h : Built(h, n)
  <2>1. n \in M
    <3> HIDE DEF M
    <3> QED BY <1>1, <1>2, NatSet
  <2> QED BY <2>1
<1>4. PICK iter : iter = CHOOSE h : Built(h, n)
  OBVIOUS
<1>5. PushedAll(b, s) = iter[1..n]
  BY <1>4 DEF PushedAll, Pushed, FoldLeft, MapThenFoldSet
<1>6. Built(iter, n)
  BY <1>3, <1>4
<1>7. ASSUME NEW S \in SUBSET (1..n) PROVE iter[S] = Up(iter, S)
  <2> HIDE DEF Up
  <2> QED BY <1>6
<1>8. PICK p : p = [k \in 0..n |-> iter[1..k]]
  OBVIOUS
<1>9. p[0] = b
  <2>1. 1..0 = {} /\ 1..0 \in SUBSET (1..n) /\ 0 \in 0..n
    OBVIOUS
  <2>2. iter[1..0] = Up(iter, 1..0)
    BY <1>7, <2>1
  <2> QED BY <1>8, <2>1, <2>2
<1>10. ASSUME NEW k \in 1..n PROVE p[k] = Pushed(p[k - 1], s[k])
  <2>1. k \in 1..k /\ 1..k \subseteq Int /\ \A j \in 1..k : j <= k
    OBVIOUS
  <2>2. Max(1..k) = k /\ 1..k # {} /\ (1..k) \ {k} = 1..k - 1
    <3>1. Max(1..k) = k
      BY <2>1, MaxIs
    <3>2. 1..k # {} /\ (1..k) \ {k} = 1..k - 1
      OBVIOUS
    <3> QED BY <3>1, <3>2
  <2>3. iter[1..k] = Up(iter, 1..k)
    <3>1. 1..k \in SUBSET (1..n)
      OBVIOUS
    <3> QED BY <1>7, <3>1
  <2>4. p[k] = iter[1..k] /\ p[k - 1] = iter[1..k - 1]
    BY <1>8
  <2> QED BY ONLY <2>2, <2>3, <2>4
<1>11. p[n] = iter[1..n]
  BY <1>8
<1> QED BY <1>5, <1>9, <1>10, <1>11 DEF PushedRun

PushedAllRun(p, s, n) == \A k \in 1..n : p[k] = PushedAll(p[k - 1], s[k])

LEMMA PushPieceSteps ==
  ASSUME NEW b, NEW s, NEW n \in Nat, DOMAIN s = 1..n
  PROVE  \E p : p[0] = b /\ PushedPieces(b, s) = p[n] /\ PushedAllRun(p, s, n)
<1> DEFINE Up(h, S) == IF S = {} THEN b ELSE PushedAll(h[S \ {Max(S)}], s[Max(S)])
           Built(h, m) == h = [S \in SUBSET (1..m) |-> Up(h, S)]
           M == {m \in Nat : \E h : Built(h, m)}
<1>1. 0 \in M
  <2>1. PICK h : h = [S \in SUBSET (1..0) |-> b]
    OBVIOUS
  <2>2. ASSUME NEW S \in SUBSET (1..0) PROVE h[S] = Up(h, S)
    BY <2>1
  <2>3. Built(h, 0)
    <3> HIDE DEF Up
    <3> QED BY <2>1, <2>2
  <2> QED BY <2>3
<1>2. ASSUME NEW m \in Nat, m \in M PROVE m + 1 \in M
  <2>1. PICK h : Built(h, m)
    BY <1>2
  <2>2. PICK g : g = [S \in SUBSET (1..m + 1) |-> Up(h, S)]
    OBVIOUS
  <2>3. ASSUME NEW S \in SUBSET (1..m) PROVE g[S] = h[S]
    <3>1. S \in SUBSET (1..m + 1)
      OBVIOUS
    <3> HIDE DEF Up
    <3> QED BY <2>1, <2>2, <3>1
  <2>4. ASSUME NEW S \in SUBSET (1..m + 1) PROVE Up(h, S) = Up(g, S)
    <3>1. CASE S = {}
      BY <3>1
    <3>2. CASE S # {}
      <4>1. PICK R : R = S \ {Max(S)}
        OBVIOUS
      <4>2. R \in SUBSET (1..m)
        BY <3>2, <4>1, BelowMax
      <4>3. h[R] = g[R]
        BY <2>3, <4>2
      <4> QED BY ONLY <3>2, <4>1, <4>3
    <3> QED BY <3>1, <3>2
  <2>5. Built(g, m + 1)
    <3> HIDE DEF Up
    <3> QED BY <2>2, <2>4
  <2>6. m + 1 \in Nat
    OBVIOUS
  <2> HIDE DEF Built
  <2> QED BY <2>5, <2>6
<1>3. \E h : Built(h, n)
  <2>1. n \in M
    <3> HIDE DEF M
    <3> QED BY <1>1, <1>2, NatSet
  <2> QED BY <2>1
<1>4. PICK iter : iter = CHOOSE h : Built(h, n)
  OBVIOUS
<1>5. PushedPieces(b, s) = iter[1..n]
  BY <1>4 DEF PushedPieces, FoldLeft, MapThenFoldSet
<1>6. Built(iter, n)
  BY <1>3, <1>4
<1>7. ASSUME NEW S \in SUBSET (1..n) PROVE iter[S] = Up(iter, S)
  <2> HIDE DEF Up
  <2> QED BY <1>6
<1>8. PICK p : p = [k \in 0..n |-> iter[1..k]]
  OBVIOUS
<1>9. p[0] = b
  <2>1. 1..0 = {} /\ 1..0 \in SUBSET (1..n) /\ 0 \in 0..n
    OBVIOUS
  <2>2. iter[1..0] = Up(iter, 1..0)
    BY <1>7, <2>1
  <2> QED BY <1>8, <2>1, <2>2
<1>10. ASSUME NEW k \in 1..n PROVE p[k] = PushedAll(p[k - 1], s[k])
  <2>1. k \in 1..k /\ 1..k \subseteq Int /\ \A j \in 1..k : j <= k
    OBVIOUS
  <2>2. Max(1..k) = k /\ 1..k # {} /\ (1..k) \ {k} = 1..k - 1
    <3>1. Max(1..k) = k
      BY <2>1, MaxIs
    <3>2. 1..k # {} /\ (1..k) \ {k} = 1..k - 1
      OBVIOUS
    <3> QED BY <3>1, <3>2
  <2>3. iter[1..k] = Up(iter, 1..k)
    <3>1. 1..k \in SUBSET (1..n)
      OBVIOUS
    <3> QED BY <1>7, <3>1
  <2>4. p[k] = iter[1..k] /\ p[k - 1] = iter[1..k - 1]
    BY <1>8
  <2> QED BY ONLY <2>2, <2>3, <2>4
<1>11. p[n] = iter[1..n]
  BY <1>8
<1> QED BY <1>5, <1>9, <1>10, <1>11 DEF PushedAllRun

(* The steps of a fold that puts lists beside each other.                    *)
Beside(C, V) == [C EXCEPT !.ts = [i \in DOMAIN @ |-> m_push_back(@[i], <<V.ts[i]>>)]]
BesideAll(C, s) == FoldLeft(LAMBDA D, V : Beside(D, V), C, s)
BesidePieces(C, s) == FoldLeft(LAMBDA D, piece : BesideAll(D, piece), C, s)
BesideRun(p, s, n) == \A k \in 1..n : p[k] = Beside(p[k - 1], s[k])

LEMMA BesideSteps ==
  ASSUME NEW b, NEW s, NEW n \in Nat, DOMAIN s = 1..n
  PROVE  \E p : p[0] = b /\ BesideAll(b, s) = p[n] /\ BesideRun(p, s, n)
<1> DEFINE Up(h, S) == IF S = {} THEN b ELSE Beside(h[S \ {Max(S)}], s[Max(S)])
           Built(h, m) == h = [S \in SUBSET (1..m) |-> Up(h, S)]
           M == {m \in Nat : \E h : Built(h, m)}
<1>1. 0 \in M
  <2>1. PICK h : h = [S \in SUBSET (1..0) |-> b]
    OBVIOUS
  <2>2. ASSUME NEW S \in SUBSET (1..0) PROVE h[S] = Up(h, S)
    BY <2>1
  <2>3. Built(h, 0)
    <3> HIDE DEF Up
    <3> QED BY <2>1, <2>2
  <2> QED BY <2>3
<1>2. ASSUME NEW m \in Nat, m \in M PROVE m + 1 \in M
  <2>1. PICK h : Built(h, m)
    BY <1>2
  <2>2. PICK g : g = [S \in SUBSET (1..m + 1) |-> Up(h, S)]
    OBVIOUS
  <2>3. ASSUME NEW S \in SUBSET (1..m) PROVE g[S] = h[S]
    <3>1. S \in SUBSET (1..m + 1)
      OBVIOUS
    <3> HIDE DEF Up
    <3> QED BY <2>1, <2>2, <3>1
  <2>4. ASSUME NEW S \in SUBSET (1..m + 1) PROVE Up(h, S) = Up(g, S)
    <3>1. CASE S = {}
      BY <3>1
    <3>2. CASE S # {}
      <4>1. PICK R : R = S \ {Max(S)}
        OBVIOUS
      <4>2. R \in SUBSET (1..m)
        BY <3>2, <4>1, BelowMax
      <4>3. h[R] = g[R]
        BY <2>3, <4>2
      <4> QED BY ONLY <3>2, <4>1, <4>3
    <3> QED BY <3>1, <3>2
  <2>5. Built(g, m + 1)
    <3> HIDE DEF Up
    <3> QED BY <2>2, <2>4
  <2>6. m + 1 \in Nat
    OBVIOUS
  <2> HIDE DEF Built
  <2> QED BY <2>5, <2>6
<1>3. \E h : Built(h, n)
  <2>1. n \in M
    <3> HIDE DEF M
    <3> QED BY <1>1, <1>2, NatSet
  <2> QED BY <2>1
<1>4. PICK iter : iter = CHOOSE h : Built(h, n)
  OBVIOUS
<1>5. BesideAll(b, s) = iter[1..n]
  BY <1>4 DEF BesideAll, FoldLeft, MapThenFoldSet
<1>6. Built(iter, n)
  BY <1>3, <1>4
<1>7. ASSUME NEW S \in SUBSET (1..n) PROVE iter[S] = Up(iter, S)
  <2> HIDE DEF Up
  <2> QED BY <1>6
<1>8. PICK p : p = [k \in 0..n |-> iter[1..k]]
  OBVIOUS
<1>9. p[0] = b
  <2>1. 1..0 = {} /\ 1..0 \in SUBSET (1..n) /\ 0 \in 0..n
    OBVIOUS
  <2>2. iter[1..0] = Up(iter, 1..0)
    BY <1>7, <2>1
  <2> QED BY <1>8, <2>1, <2>2
<1>10. ASSUME NEW k \in 1..n PROVE p[k] = Beside(p[k - 1], s[k])
  <2>1. k \in 1..k /\ 1..k \subseteq Int /\ \A j \in 1..k : j <= k
    OBVIOUS
  <2>2. Max(1..k) = k /\ 1..k # {} /\ (1..k) \ {k} = 1..k - 1
    <3>1. Max(1..k) = k
      BY <2>1, MaxIs
    <3>2. 1..k # {} /\ (1..k) \ {k} = 1..k - 1
      OBVIOUS
    <3> QED BY <3>1, <3>2
  <2>3. iter[1..k] = Up(iter, 1..k)
    <3>1. 1..k \in SUBSET (1..n)
      OBVIOUS
    <3> QED BY <1>7, <3>1
  <2>4. p[k] = iter[1..k] /\ p[k - 1] = iter[1..k - 1]
    BY <1>8
  <2> QED BY ONLY <2>2, <2>3, <2>4
<1>11. p[n] = iter[1..n]
  BY <1>8
<1> QED BY <1>5, <1>9, <1>10, <1>11 DEF BesideRun

BesideAllRun(p, s, n) == \A k \in 1..n : p[k] = BesideAll(p[k - 1], s[k])

LEMMA BesidePieceSteps ==
  ASSUME NEW b, NEW s, NEW n \in Nat, DOMAIN s = 1..n
  PROVE  \E p : p[0] = b /\ BesidePieces(b, s) = p[n] /\ BesideAllRun(p, s, n)
<1> DEFINE Up(h, S) == IF S = {} THEN b ELSE BesideAll(h[S \ {Max(S)}], s[Max(S)])
           Built(h, m) == h = [S \in SUBSET (1..m) |-> Up(h, S)]
           M == {m \in Nat : \E h : Built(h, m)}
<1>1. 0 \in M
  <2>1. PICK h : h = [S \in SUBSET (1..0) |-> b]
    OBVIOUS
  <2>2. ASSUME NEW S \in SUBSET (1..0) PROVE h[S] = Up(h, S)
    BY <2>1
  <2>3. Built(h, 0)
    <3> HIDE DEF Up
    <3> QED BY <2>1, <2>2
  <2> QED BY <2>3
<1>2. ASSUME NEW m \in Nat, m \in M PROVE m + 1 \in M
  <2>1. PICK h : Built(h, m)
    BY <1>2
  <2>2. PICK g : g = [S \in SUBSET (1..m + 1) |-> Up(h, S)]
    OBVIOUS
  <2>3. ASSUME NEW S \in SUBSET (1..m) PROVE g[S] = h[S]
    <3>1. S \in SUBSET (1..m + 1)
      OBVIOUS
    <3> HIDE DEF Up
    <3> QED BY <2>1, <2>2, <3>1
  <2>4. ASSUME NEW S \in SUBSET (1..m + 1) PROVE Up(h, S) = Up(g, S)
    <3>1. CASE S = {}
      BY <3>1
    <3>2. CASE S # {}
      <4>1. PICK R : R = S \ {Max(S)}
        OBVIOUS
      <4>2. R \in SUBSET (1..m)
        BY <3>2, <4>1, BelowMax
      <4>3. h[R] = g[R]
        BY <2>3, <4>2
      <4> QED BY ONLY <3>2, <4>1, <4>3
    <3> QED BY <3>1, <3>2
  <2>5. Built(g, m + 1)
    <3> HIDE DEF Up
    <3> QED BY <2>2, <2>4
  <2>6. m + 1 \in Nat
    OBVIOUS
  <2> HIDE DEF Built
  <2> QED BY <2>5, <2>6
<1>3. \E h : Built(h, n)
  <2>1. n \in M
    <3> HIDE DEF M
    <3> QED BY <1>1, <1>2, NatSet
  <2> QED BY <2>1
<1>4. PICK iter : iter = CHOOSE h : Built(h, n)
  OBVIOUS
<1>5. BesidePieces(b, s) = iter[1..n]
  BY <1>4 DEF BesidePieces, FoldLeft, MapThenFoldSet
<1>6. Built(iter, n)
  BY <1>3, <1>4
<1>7. ASSUME NEW S \in SUBSET (1..n) PROVE iter[S] = Up(iter, S)
  <2> HIDE DEF Up
  <2> QED BY <1>6
<1>8. PICK p : p = [k \in 0..n |-> iter[1..k]]
  OBVIOUS
<1>9. p[0] = b
  <2>1. 1..0 = {} /\ 1..0 \in SUBSET (1..n) /\ 0 \in 0..n
    OBVIOUS
  <2>2. iter[1..0] = Up(iter, 1..0)
    BY <1>7, <2>1
  <2> QED BY <1>8, <2>1, <2>2
<1>10. ASSUME NEW k \in 1..n PROVE p[k] = BesideAll(p[k - 1], s[k])
  <2>1. k \in 1..k /\ 1..k \subseteq Int /\ \A j \in 1..k : j <= k
    OBVIOUS
  <2>2. Max(1..k) = k /\ 1..k # {} /\ (1..k) \ {k} = 1..k - 1
    <3>1. Max(1..k) = k
      BY <2>1, MaxIs
    <3>2. 1..k # {} /\ (1..k) \ {k} = 1..k - 1
      OBVIOUS
    <3> QED BY <3>1, <3>2
  <2>3. iter[1..k] = Up(iter, 1..k)
    <3>1. 1..k \in SUBSET (1..n)
      OBVIOUS
    <3> QED BY <1>7, <3>1
  <2>4. p[k] = iter[1..k] /\ p[k - 1] = iter[1..k - 1]
    BY <1>8
  <2> QED BY ONLY <2>2, <2>3, <2>4
<1>11. p[n] = iter[1..n]
  BY <1>8
<1> QED BY <1>5, <1>9, <1>10, <1>11 DEF BesideAllRun

LEMMA PushedIs ==
  ASSUME NEW X, NEW v \in Lists(X), NEW s \in Seq(X), NEW t \in X, v.ts = s
  PROVE  Pushed(v, t) = [of |-> v.of, ts |-> s \o <<t>>]
<1>1. PICK q : q = s \o <<t>>
  OBVIOUS
<1>2. Pushed(v, t) = [v EXCEPT !.ts = q]
  BY <1>1 DEF Pushed, m_push_back
<1> QED BY <1>1, <1>2, WithTypes

LEMMA PushedAllIs ==
  ASSUME NEW X, NEW v \in Lists(X), NEW s \in Seq(X)
  PROVE  PushedAll(v, s) = [of |-> v.of, ts |-> v.ts \o s]
<1>1. PICK n \in Nat : n = Len(s) /\ DOMAIN s = 1..n
  OBVIOUS
<1>2. PICK p : p[0] = v /\ PushedAll(v, s) = p[n] /\ PushedRun(p, s, n)
  BY <1>1, PushSteps
<1>3. PICK f \in Templates, u \in Seq(X) : f = v.of /\ u = v.ts /\ v = [of |-> f, ts |-> u]
  BY ListsAre
<1> DEFINE Good(k) == p[k] = [of |-> f, ts |-> u \o SubSeq(s, 1, k)]
           S == {k \in Nat : k \in 0..n => Good(k)}
<1>4. Good(0)
  <2>1. SubSeq(s, 1, 0) = <<>>
    OBVIOUS
  <2>2. u \o <<>> = u
    BY ConcatEmptySeq
  <2> QED BY <1>2, <1>3, <2>1, <2>2
<1>5. ASSUME NEW k \in 1..n, Good(k - 1) PROVE Good(k)
  <2>1. PICK a \in Seq(X) : a = SubSeq(s, 1, k - 1)
    <3>1. 1 \in Int /\ k - 1 \in Int /\ \A i \in 1..k - 1 : s[i] \in X
      BY <1>1
    <3>2. SubSeq(s, 1, k - 1) \in Seq(X)
      BY ONLY <3>1, SubSeqProperties
    <3> QED BY <3>2
  <2>2. PICK t \in X : t = s[k]
    BY <1>1
  <2>3. SubSeq(s, 1, k) = a \o <<t>>
    <3>1. 1 \in 1..Len(s) /\ k \in 1..Len(s)
      BY <1>1
    <3> QED BY <2>1, <2>2, <3>1, SubSeqRecursiveSecond
  <2>4. PICK w \in Seq(X) : w = u \o a
    BY ConcatProperties
  <2>5. <<t>> \in Seq(X)
    OBVIOUS
  <2>6. w \o <<t>> = u \o (a \o <<t>>)
    BY <2>4, <2>5, ConcatAssociative
  <2>7. PICK M \in Lists(X) : M = p[k - 1] /\ M.of = f /\ M.ts = w
    <3>1. p[k - 1] = [of |-> f, ts |-> w]
      BY <1>5, <2>1, <2>4
    <3>2. PICK M : M = [of |-> f, ts |-> w]
      OBVIOUS
    <3>3. M \in Lists(X) /\ M.of = f /\ M.ts = w
      BY ONLY <3>2, ListOf, f \in Templates, w \in Seq(X)
    <3> QED BY <3>1, <3>2, <3>3
  <2>8. Pushed(M, t) = [of |-> f, ts |-> w \o <<t>>]
    BY <2>7, PushedIs
  <2>9. p[k] = Pushed(M, t)
    BY <1>2, <2>2, <2>7 DEF PushedRun
  <2> QED BY <2>3, <2>6, <2>8, <2>9
<1> HIDE DEF Good
<1>6. ASSUME NEW k \in Nat, k \in S PROVE k + 1 \in S
  <2>1. ASSUME k + 1 \in 0..n PROVE Good(k + 1)
    <3>1. PICK j \in 1..n : j = k + 1 /\ j - 1 = k
      BY <2>1
    <3>2. Good(j - 1)
      BY <1>6, <3>1
    <3> QED BY <1>5, <3>1, <3>2
  <2> QED BY <2>1
<1>7. n \in S
  <2>1. 0 \in S
    BY <1>4
  <2> HIDE DEF S
  <2> QED BY <1>6, <2>1, NatSet
<1>8. Good(n)
  BY <1>7
<1> QED BY <1>1, <1>2, <1>3, <1>8, SubSeqFull DEF Good

LEMMA PushedPiecesIs ==
  ASSUME NEW X, NEW v \in Lists(X), NEW s \in Seq(X)
  PROVE  PushedPieces(v, Pieces(s)) = [of |-> v.of, ts |-> v.ts \o s]
<1>1. PICK m \in Nat : \E e : CutAt(s, e, m, Pieces(s)) /\ Pieces(s) \in Seq(Seq(X)) /\ Len(Pieces(s)) = m
  BY PiecesCut
<1>2. PICK e : CutAt(s, e, m, Pieces(s)) /\ Pieces(s) \in Seq(Seq(X)) /\ Len(Pieces(s)) = m
  BY <1>1
<1>3. PICK r : r = Pieces(s) /\ DOMAIN r = 1..m /\ CutAt(s, e, m, r)
  BY <1>2
<1>4. SeqsOf(X, m, r)
  BY <1>3, CutChain
<1>5. PICK q : q[0] = <<>> /\ Chain(q, r, m) /\ \A k \in 0..m : q[k] = SubSeq(s, 1, e[k])
  BY <1>3, CutChain
<1>6. \A k \in 0..m : q[k] \in Seq(X)
  <2>1. <<>> \in Seq(X)
    OBVIOUS
  <2> QED BY <1>4, <1>5, <2>1, ChainSeq
<1>7. PICK p : p[0] = v /\ PushedPieces(v, r) = p[m] /\ PushedAllRun(p, r, m)
  BY <1>3, PushPieceSteps
<1>8. PICK f \in Templates, u \in Seq(X) : f = v.of /\ u = v.ts /\ v = [of |-> f, ts |-> u]
  BY ListsAre
<1>9. \A x \in Seq(X), y \in Seq(X), z \in Seq(X) : (x \o y) \o z = x \o (y \o z)
  BY Assoc
<1> DEFINE Good(k) == p[k] = [of |-> f, ts |-> u \o q[k]]
           S == {k \in Nat : k \in 0..m => Good(k)}
<1>10. Good(0)
  <2>1. u \o <<>> = u
    BY ConcatEmptySeq
  <2> QED BY <1>5, <1>7, <1>8, <2>1
<1>11. ASSUME NEW k \in 1..m, Good(k - 1) PROVE Good(k)
  <2>1. PICK a \in Seq(X), b \in Seq(X) : a = q[k - 1] /\ b = r[k]
    <3>1. k - 1 \in 0..m
      OBVIOUS
    <3> QED BY <1>4, <1>6, <3>1 DEF SeqsOf
  <2>2. q[k] = a \o b
    BY <1>5, <2>1 DEF Chain
  <2>3. PICK w \in Seq(X) : w = u \o a
    BY ConcatProperties
  <2>4. w \o b = u \o (a \o b)
    <3>1. (u \o a) \o b = u \o (a \o b)
      <4>1. u \in Seq(X) /\ a \in Seq(X) /\ b \in Seq(X)
        OBVIOUS
      <4> QED BY ONLY <1>9, <4>1
    <3> QED BY <2>3, <3>1
  <2>5. PICK M \in Lists(X) : M = p[k - 1] /\ M.of = f /\ M.ts = w
    <3>1. p[k - 1] = [of |-> f, ts |-> w]
      BY <1>11, <2>1, <2>3
    <3>2. PICK M : M = [of |-> f, ts |-> w]
      OBVIOUS
    <3>3. M \in Lists(X) /\ M.of = f /\ M.ts = w
      BY ONLY <3>2, ListOf, f \in Templates, w \in Seq(X)
    <3> QED BY <3>1, <3>2, <3>3
  <2>6. p[k] = PushedAll(M, b)
    BY <1>7, <2>1, <2>5 DEF PushedAllRun
  <2>7. PushedAll(M, b) = [of |-> f, ts |-> w \o b]
    BY <2>5, PushedAllIs
  <2> QED BY <2>2, <2>4, <2>6, <2>7
<1> HIDE DEF Good
<1>12. ASSUME NEW k \in Nat, k \in S PROVE k + 1 \in S
  <2>1. ASSUME k + 1 \in 0..m PROVE Good(k + 1)
    <3>1. PICK j \in 1..m : j = k + 1 /\ j - 1 = k
      BY <2>1
    <3>2. Good(j - 1)
      BY <1>12, <3>1
    <3> QED BY <1>11, <3>1, <3>2
  <2> QED BY <2>1
<1>13. m \in S
  <2>1. 0 \in S
    BY <1>10
  <2> HIDE DEF S
  <2> QED BY <1>12, <2>1, NatSet
<1>14. Good(m)
  BY <1>13
<1>15. q[m] = s
  <2>1. q[m] = SubSeq(s, 1, e[m]) /\ e[m] = Len(s)
    <3>1. m \in 0..m
      OBVIOUS
    <3> QED BY <1>3, <1>5, <3>1 DEF CutAt
  <2> QED BY <2>1, SubSeqFull
<1> QED BY <1>3, <1>7, <1>8, <1>14, <1>15 DEF Good

(* A list that is folded with push_back is built again.                      *)
LEMMA FoldIs ==
  ASSUME NEW X, NEW L \in Lists(X)
  PROVE  m_fold(L, m_clear(L), LAMBDA v, t : m_push_back(v, <<t>>)) = L
<1>1. PICK s \in Seq(X) : s = L.ts
  BY ListsAre
<1>2. m_fold(L, m_clear(L), LAMBDA v, t : m_push_back(v, <<t>>)) = PushedPieces(m_clear(L), Pieces(s))
  BY <1>1 DEF m_fold, PushedPieces, PushedAll
<1>3. PICK b : b = <<>>
  OBVIOUS
<1>4. b \in Seq(X) /\ b \o s = s
  BY <1>3, ConcatEmptySeq
<1>5. With(m_clear(L), L, b)
  BY <1>3 DEF With, m_clear
<1>6. PICK M \in Lists(X) : M = m_clear(L) /\ M.of = L.of /\ M.ts = b
  BY <1>4, <1>5, ListWith
<1>7. PushedPieces(M, Pieces(s)) = [of |-> M.of, ts |-> M.ts \o s]
  BY PushedPiecesIs
<1> QED BY <1>1, <1>2, <1>4, <1>6, <1>7, ListsAre

-------------------------------------------------------------------------------
(* Lists beside each other.                                                *)

SameSize(Ls, w) == \A k \in 1..Len(Ls) : Len(Ls[k].ts) = w
Row(Ls, k, i) == [j \in 1..k |-> Ls[j].ts[i]]

\* The columns of the first k lists, in the template f.
SideBySide(f, w, Ls, k) == [of |-> f, ts |-> [i \in 1..w |-> m_list(Row(Ls, k, i))]]

LEMMA ColumnsAre ==
  ASSUME NEW X, NEW Ls \in Seq(Lists(X)), NEW w, SameSize(Ls, w), NEW k \in 1..Len(Ls)
  PROVE  Columns(SubSeq(Ls, 1, k)) = SideBySide(Ls[1].of, w, Ls, k)
<1>1. PICK Ms : Ms = SubSeq(Ls, 1, k)
  OBVIOUS
<1>2. DOMAIN Ms = 1..k /\ \A j \in 1..k : Ms[j] = Ls[j]
  BY <1>1
<1>3. PICK L \in Lists(X) : L = Ls[1] /\ L = Ms[1]
  <2>1. 1 \in 1..k /\ 1 \in 1..Len(Ls)
    OBVIOUS
  <2> QED BY <1>2, <2>1, ElementOfSeq
<1>4. DOMAIN L.ts = 1..w
  <2>1. L.ts \in Seq(X) /\ DOMAIN L.ts = 1..Len(L.ts)
    BY ListsAre
  <2>2. 1 \in 1..Len(Ls)
    OBVIOUS
  <2> QED BY <1>3, <2>1, <2>2 DEF SameSize
<1>5. \A i \in 1..w : [j \in 1..k |-> Ms[j].ts[i]] = Row(Ls, k, i)
  BY <1>2 DEF Row
<1>6. Columns(Ms) = [L EXCEPT !.ts = [i \in 1..w |-> m_list(Row(Ls, k, i))]]
  <2>1. Columns(Ms) = [L EXCEPT !.ts = [i \in 1..w |-> m_list([j \in 1..k |-> Ms[j].ts[i]])]]
    BY <1>2, <1>3, <1>4 DEF Columns
  <2>2. [i \in 1..w |-> m_list([j \in 1..k |-> Ms[j].ts[i]])] = [i \in 1..w |-> m_list(Row(Ls, k, i))]
    BY <1>5
  <2> QED BY <2>1, <2>2
<1> QED BY <1>1, <1>3, <1>6, WithTypes DEF SideBySide

LEMMA BesideIs ==
  ASSUME NEW X, NEW Ls \in Seq(Lists(X)), NEW w, SameSize(Ls, w), NEW f,
         NEW k \in Nat \ {0}, k + 1 <= Len(Ls)
  PROVE  Beside(SideBySide(f, w, Ls, k), Ls[k + 1]) = SideBySide(f, w, Ls, k + 1)
<1>1. PICK V \in Lists(X) : V = Ls[k + 1]
  <2>1. k + 1 \in 1..Len(Ls)
    OBVIOUS
  <2> QED BY <2>1, ElementOfSeq
<1>2. PICK c : c = [i \in 1..w |-> m_list(Row(Ls, k, i))]
  OBVIOUS
<1>3. PICK C : C = [of |-> f, ts |-> c]
  OBVIOUS
<1>4. Beside(C, V) = [of |-> f, ts |-> [i \in 1..w |-> m_push_back(c[i], <<V.ts[i]>>)]]
  <2>1. PICK d : d = [i \in 1..w |-> m_push_back(c[i], <<V.ts[i]>>)]
    OBVIOUS
  <2>2. C.ts = c /\ DOMAIN c = 1..w
    BY <1>2, <1>3
  <2>3. Beside(C, V) = [C EXCEPT !.ts = d]
    BY <2>1, <2>2 DEF Beside
  <2>4. [C EXCEPT !.ts = d] = [of |-> f, ts |-> d]
    BY ONLY <1>3
  <2> QED BY <2>1, <2>3, <2>4
<1>5. ASSUME NEW i \in 1..w
      PROVE  m_push_back(c[i], <<V.ts[i]>>) = m_list(Row(Ls, k + 1, i))
  <2>1. PICK r, y : r = Row(Ls, k, i) /\ y = V.ts[i]
    OBVIOUS
  <2>2. PICK Y : Y = {r[j] : j \in 1..k} \union {y}
    OBVIOUS
  <2>3. r \in Seq(Y) /\ Len(r) = k /\ y \in Y
    BY <2>1, <2>2 DEF Row
  <2>4. Append(r, y) \in Seq(Y) /\ Len(Append(r, y)) = k + 1
        /\ \A j \in 1..k : Append(r, y)[j] = r[j]
        /\ Append(r, y)[k + 1] = y
    BY <2>3, AppendProperties
  <2>5. PICK q : q = Row(Ls, k + 1, i)
    OBVIOUS
  <2>6. \A j \in 1..k + 1 : q[j] = Append(r, y)[j]
    <3>1. \A j \in 1..k : q[j] = r[j]
      BY <2>1, <2>5 DEF Row
    <3>2. q[k + 1] = y
      BY <1>1, <2>1, <2>5 DEF Row
    <3>3. \A j \in 1..k + 1 : j \in 1..k \/ j = k + 1
      OBVIOUS
    <3> QED BY <2>4, <3>1, <3>2, <3>3
  <2>7. q = Append(r, y)
    <3>1. q = [j \in 1..k + 1 |-> q[j]]
      BY <2>5 DEF Row
    <3>2. PICK x \in Seq(Y) : x = Append(r, y)
      BY <2>4
    <3>3. x = [j \in 1..k + 1 |-> x[j]]
      <4>1. DOMAIN x = 1..k + 1 /\ x \in [DOMAIN x -> Y]
        BY <2>4, <3>2, LenProperties
      <4> QED BY ONLY <4>1
    <3> QED BY <2>6, <3>1, <3>2, <3>3
  <2>8. r \o <<y>> = Append(r, y)
    BY <2>3, AppendIsConcat
  <2>9. m_push_back(m_list(r), <<y>>) = m_list(r \o <<y>>)
    <3>1. m_list(r) \in Lists(Y) /\ m_list(r).of = "m_list" /\ m_list(r).ts = r
      BY <2>3, MListOf
    <3>2. Pushed(m_list(r), y) = [of |-> "m_list", ts |-> r \o <<y>>]
      BY <2>3, <3>1, PushedIs
    <3> QED BY <3>2 DEF Pushed, m_list
  <2> QED BY <1>2, <2>1, <2>5, <2>7, <2>8, <2>9
<1>6. [i \in 1..w |-> m_push_back(c[i], <<V.ts[i]>>)] = [i \in 1..w |-> m_list(Row(Ls, k + 1, i))]
  BY <1>5
<1> QED BY <1>1, <1>2, <1>3, <1>4, <1>6 DEF SideBySide

\* The lists in r are those of Ls behind the first a.
Continue(Ls, a, r) == a + Len(r) <= Len(Ls) /\ \A j \in 1..Len(r) : r[j] = Ls[a + j]

LEMMA BesideAllIs ==
  ASSUME NEW X, NEW Ls \in Seq(Lists(X)), NEW w, SameSize(Ls, w), NEW f,
         NEW a \in Nat \ {0}, NEW r \in Seq(Lists(X)), Continue(Ls, a, r)
  PROVE  BesideAll(SideBySide(f, w, Ls, a), r) = SideBySide(f, w, Ls, a + Len(r))
<1>1. PICK n \in Nat : n = Len(r) /\ DOMAIN r = 1..n
  OBVIOUS
<1>2. PICK b : b = SideBySide(f, w, Ls, a)
  OBVIOUS
<1>3. PICK p : p[0] = b /\ BesideAll(b, r) = p[n] /\ BesideRun(p, r, n)
  BY <1>1, BesideSteps
<1> DEFINE S == {k \in Nat : k \in 0..n => p[k] = SideBySide(f, w, Ls, a + k)}
<1>4. 0 \in S
  <2>1. a + 0 = a
    OBVIOUS
  <2> QED BY <1>2, <1>3, <2>1
<1>5. ASSUME NEW k \in Nat, k \in S PROVE k + 1 \in S
  <2>1. ASSUME k + 1 \in 0..n PROVE p[k + 1] = SideBySide(f, w, Ls, a + (k + 1))
    <3>1. PICK c \in Nat \ {0} : c = a + k /\ c + 1 = a + (k + 1)
      OBVIOUS
    <3>2. k \in 0..n /\ k + 1 \in 1..n /\ (k + 1) - 1 = k
      BY <2>1
    <3>3. p[k] = SideBySide(f, w, Ls, c)
      BY <1>5, <3>1, <3>2
    <3>4. p[k + 1] = Beside(p[k], r[k + 1])
      BY <1>3, <3>2 DEF BesideRun
    <3>5. c + 1 <= Len(Ls) /\ r[k + 1] = Ls[c + 1]
      BY <1>1, <3>1, <3>2 DEF Continue
    <3>6. Beside(SideBySide(f, w, Ls, c), Ls[c + 1]) = SideBySide(f, w, Ls, c + 1)
      BY <3>5, BesideIs
    <3> QED BY <3>1, <3>3, <3>4, <3>5, <3>6
  <2> QED BY <2>1
<1>6. n \in S
  <2> HIDE DEF S
  <2> QED BY <1>4, <1>5, NatSet
<1> QED BY <1>1, <1>2, <1>3, <1>6

LEMMA ManyColumnsAre ==
  ASSUME NEW X, NEW Ls \in Seq(Lists(X)), Len(Ls) > 5, NEW w, SameSize(Ls, w)
  PROVE  ManyColumns(Ls) = SideBySide(Ls[1].of, w, Ls, Len(Ls))
<1>1. PICK n \in Nat : n = Len(Ls) /\ n > 5
  OBVIOUS
<1>2. PICK f, b : f = Ls[1].of /\ b = SideBySide(f, w, Ls, 5)
  OBVIOUS
<1>3. PICK s : s = SubSeq(Ls, 6, n)
  OBVIOUS
<1>4. s \in Seq(Lists(X)) /\ Len(s) = n - 5 /\ \A i \in 1..n - 5 : s[i] = Ls[5 + i]
  <2>1. 6 \in Int /\ n \in Int /\ \A i \in 6..n : Ls[i] \in Lists(X)
    BY <1>1, ElementOfSeq
  <2>2. /\ SubSeq(Ls, 6, n) \in Seq(Lists(X))
        /\ Len(SubSeq(Ls, 6, n)) = IF 6 <= n THEN n - 6 + 1 ELSE 0
        /\ \A i \in 1..n - 6 + 1 : SubSeq(Ls, 6, n)[i] = Ls[6 + i - 1]
    BY ONLY <2>1, SubSeqProperties
  <2>3. 6 <= n /\ n - 6 + 1 = n - 5 /\ \A i \in 1..n - 5 : 6 + i - 1 = 5 + i
    BY <1>1
  <2> QED BY <1>3, <2>2, <2>3
<1>5. ManyColumns(Ls) = BesidePieces(b, Pieces(s))
  <2>1. Columns(SubSeq(Ls, 1, 5)) = b
    <3>1. 5 \in 1..Len(Ls)
      BY <1>1
    <3> QED BY <1>2, <3>1, ColumnsAre
  <2>2. m_list(s).ts = s
    BY DEF m_list
  <2> QED BY <1>1, <1>3, <2>1, <2>2 DEF ManyColumns, m_fold, BesidePieces, BesideAll, Beside
<1>6. PICK m \in Nat : \E e : CutAt(s, e, m, Pieces(s)) /\ Pieces(s) \in Seq(Seq(Lists(X))) /\ Len(Pieces(s)) = m
  BY <1>4, PiecesCut
<1>7. PICK e : CutAt(s, e, m, Pieces(s)) /\ Pieces(s) \in Seq(Seq(Lists(X))) /\ Len(Pieces(s)) = m
  BY <1>6
<1>8. PICK r : r = Pieces(s) /\ DOMAIN r = 1..m /\ CutAt(s, e, m, r)
  BY <1>7
<1>9. SeqsOf(Lists(X), m, r)
  BY <1>4, <1>8, CutChain
<1>10. PICK p : p[0] = b /\ BesidePieces(b, r) = p[m] /\ BesideAllRun(p, r, m)
  BY <1>8, BesidePieceSteps
<1> DEFINE S == {k \in Nat : k \in 0..m => p[k] = SideBySide(f, w, Ls, 5 + e[k])}
<1>11. 0 \in S
  BY <1>2, <1>8, <1>10 DEF CutAt
<1>12. ASSUME NEW k \in Nat, k \in S PROVE k + 1 \in S
  <2>1. ASSUME k + 1 \in 0..m PROVE p[k + 1] = SideBySide(f, w, Ls, 5 + e[k + 1])
    <3>1. k \in 0..m /\ k + 1 \in 1..m /\ (k + 1) - 1 = k
      BY <2>1
    <3>2. PICK a, c : a = e[k] /\ c = e[k + 1]
      OBVIOUS
    <3>3. a \in 0..Len(s) /\ c \in 0..Len(s) /\ a <= c /\ r[k + 1] = SubSeq(s, a + 1, c)
      BY <1>8, <3>1, <3>2 DEF CutAt
    <3>4. PICK q \in Seq(Lists(X)) : q = r[k + 1]
      BY <1>9, <3>1 DEF SeqsOf
    <3>5. Len(q) = c - a /\ \A j \in 1..c - a : q[j] = s[a + j]
      BY <1>4, <3>3, <3>4
    <3>6. PICK d \in Nat \ {0} : d = 5 + a
      BY <3>3
    <3>7. Continue(Ls, d, q)
      <4>1. d + Len(q) <= Len(Ls)
        BY <1>1, <1>4, <3>3, <3>5, <3>6
      <4>2. ASSUME NEW j \in 1..Len(q) PROVE q[j] = Ls[d + j]
        <5>1. a + j \in 1..n - 5 /\ 5 + (a + j) = d + j
          BY <1>4, <3>3, <3>5, <3>6
        <5> QED BY <1>4, <3>5, <5>1
      <4> QED BY <4>1, <4>2 DEF Continue
    <3>8. BesideAll(SideBySide(f, w, Ls, d), q) = SideBySide(f, w, Ls, d + Len(q))
      BY <3>7, BesideAllIs
    <3>9. d + Len(q) = 5 + c
      BY <3>3, <3>5, <3>6
    <3>10. p[k + 1] = BesideAll(p[k], q)
      BY <1>10, <3>1, <3>4 DEF BesideAllRun
    <3>11. p[k] = SideBySide(f, w, Ls, d)
      BY <1>12, <3>1, <3>2, <3>6
    <3> QED BY <3>2, <3>8, <3>9, <3>10, <3>11
  <2> QED BY <2>1
<1>13. m \in S
  <2> HIDE DEF S
  <2> QED BY <1>11, <1>12, NatSet
<1>14. p[m] = SideBySide(f, w, Ls, n)
  <2>1. m \in 0..m /\ e[m] = n - 5 /\ 5 + (n - 5) = n
    BY <1>1, <1>4, <1>8 DEF CutAt
  <2> QED BY <1>13, <2>1
<1> QED BY <1>1, <1>2, <1>5, <1>8, <1>10, <1>14

LEMMA RowIs ==
  ASSUME NEW X, NEW Ls \in Seq(Lists(X)), NEW w, SameSize(Ls, w), NEW i \in 1..w,
         NEW k \in 0..Len(Ls)
  PROVE  Row(Ls, k, i) \in Seq(X)
<1>1. ASSUME NEW j \in 1..k PROVE Ls[j].ts[i] \in X
  <2>1. PICK L \in Lists(X) : L = Ls[j] /\ Len(L.ts) = w
    BY ElementOfSeq DEF SameSize
  <2>2. L.ts \in Seq(X)
    BY ListsAre
  <2> QED BY <2>1, <2>2, ElementOfSeq
<1>2. k \in Nat
  OBVIOUS
<1> QED BY <1>1, <1>2 DEF Row

LEMMA CombinableIs ==
  ASSUME NEW X, IllFormed \notin Lists(X), NEW Ls \in Seq(Lists(X))
  PROVE  Combinable(Ls) <=> Ls # <<>> /\ SameSize(Ls, Len(Ls[1].ts))
<1>1. DOMAIN Ls = 1..Len(Ls) /\ \A k \in 1..Len(Ls) : Ls[k] \in Lists(X)
  BY ElementOfSeq
<1>2. IllFormed \notin ToSet(Ls)
  BY <1>1 DEF ToSet
<1>3. CASE Ls = <<>>
  BY <1>3 DEF Combinable
<1>4. CASE Ls # <<>>
  <2>1. 1 \in 1..Len(Ls)
    BY <1>4
  <2>2. m_same([k \in DOMAIN Ls |-> m_size(Ls[k])]) <=> \A k \in 1..Len(Ls) : Len(Ls[k].ts) = Len(Ls[1].ts)
    BY <1>1, <2>1 DEF m_same, m_size
  <2> QED BY <1>2, <1>4, <2>2 DEF Combinable, SameSize
<1> QED BY <1>3, <1>4

(* Lists of one size become a list of lists, however many are combined.      *)
LEMMA TransformIs ==
  ASSUME NEW X, IllFormed \notin Lists(X), NEW Ls \in Seq(Lists(X)), Ls # <<>>, NEW w, SameSize(Ls, w)
  PROVE  m_transform(m_list, Ls) = SideBySide(Ls[1].of, w, Ls, Len(Ls))
<1>1. PICK n \in Nat : n = Len(Ls) /\ n >= 1
  OBVIOUS
<1>2. Combinable(Ls)
  <2>1. Len(Ls[1].ts) = w
    BY <1>1 DEF SameSize
  <2> QED BY <2>1, CombinableIs
<1>3. PICK C : C = SideBySide(Ls[1].of, w, Ls, n)
  OBVIOUS
<1>4. (IF Len(Ls) <= 5 THEN Columns(Ls) ELSE ManyColumns(Ls)) = C
  <2>1. CASE n <= 5
    <3>1. SubSeq(Ls, 1, n) = Ls /\ n \in 1..Len(Ls)
      BY <1>1, SubSeqFull
    <3>2. Columns(SubSeq(Ls, 1, n)) = C
      BY <1>3, <3>1, ColumnsAre
    <3> QED BY <1>1, <2>1, <3>1, <3>2
  <2>2. CASE n > 5
    BY <1>1, <1>3, <2>2, ManyColumnsAre
  <2> QED BY <1>1, <2>1, <2>2
<1>5. PICK c : c = [i \in 1..w |-> m_list(Row(Ls, n, i))]
  OBVIOUS
<1>6. C = [of |-> Ls[1].of, ts |-> c]
  BY <1>3, <1>5 DEF SideBySide
<1>7. ASSUME NEW i \in 1..w
      PROVE  m_apply(m_list, c[i]) = c[i] /\ c[i] # IllFormed
  <2>1. PICK r \in Seq(X) : r = Row(Ls, n, i)
    BY <1>1, RowIs
  <2>2. m_list(r) \in Lists(X) /\ m_list(r).ts = r
    BY MListOf
  <2> QED BY <1>5, <2>1, <2>2 DEF m_apply, m_valid
<1>8. [i \in 1..w |-> m_apply(m_list, c[i])] = c
  <2>1. [i \in 1..w |-> m_apply(m_list, c[i])] = [i \in 1..w |-> c[i]]
    BY <1>7
  <2> QED BY <1>5, <2>1
<1>9. IllFormed \notin ToSet(c)
  BY <1>5, <1>7 DEF ToSet
<1>10. Spread(m_list, C) = [C EXCEPT !.ts = c]
  <2>1. C.ts = c /\ DOMAIN c = 1..w
    BY <1>5, <1>6
  <2> QED BY <1>8, <1>9, <2>1 DEF Spread
<1>11. [C EXCEPT !.ts = c] = C
  BY <1>6
<1>12. m_transform(m_list, Ls) = Spread(m_list, C)
  BY <1>2, <1>4 DEF m_transform
<1> QED BY <1>1, <1>3, <1>10, <1>11, <1>12

-------------------------------------------------------------------------------
(* The operators of Meta beside their plain definitions.                   *)

\* n types make m rows of w.
RowCount(n, w, m) ==
  /\ m \in Nat /\ n <= m * w /\ (m = 0 <=> n = 0) /\ (m <= 1 <=> n <= w)
  /\ m >= 1 => (m - 1) * w < n
  /\ n % w = 0 <=> n = m * w

LEMMA RowCountIs ==
  ASSUME NEW n \in Nat, NEW w \in 1..3
  PROVE  RowCount(n, w, (n + w - 1) \div w)
<1>1. CASE w = 1
  BY <1>1 DEF RowCount
<1>2. CASE w = 2
  BY <1>2 DEF RowCount
<1>3. CASE w = 3
  BY <1>3 DEF RowCount
<1> QED BY <1>1, <1>2, <1>3

LEMMA Times ==
  ASSUME NEW k \in Nat, NEW m \in Nat, NEW w \in 1..3
  PROVE  /\ k * w \in Nat /\ (k + 1) * w = k * w + w
         /\ k <= m => k * w <= m * w
<1>1. CASE w = 1
  BY <1>1
<1>2. CASE w = 2
  BY <1>2
<1>3. CASE w = 3
  BY <1>3
<1> QED BY <1>1, <1>2, <1>3

\* Where the rows of n types end, each of w but the last.
RowEnds(e, m, n, w) ==
  /\ m \in Nat /\ e[0] = 0 /\ e[m] = n /\ (m = 0 <=> n = 0) /\ (m <= 1 <=> n <= w)
  /\ \A k \in 1..m : e[k - 1] = (k - 1) * w /\ e[k - 1] < n /\ e[k] \in 0..n
  /\ \A k \in 1..m : e[k] = IF k < m THEN e[k - 1] + w ELSE n
  /\ \A k \in 1..m : e[k] <= e[k - 1] + w
  /\ m >= 1 => (n % w = 0 <=> n = e[m - 1] + w)

LEMMA RowEndsAre ==
  ASSUME NEW n \in Nat, NEW w \in 1..3, NEW m, RowCount(n, w, m),
         NEW e, e = [k \in 0..m |-> IF k * w < n THEN k * w ELSE n]
  PROVE  RowEnds(e, m, n, w)
<1>1. /\ m \in Nat /\ n <= m * w /\ (m = 0 <=> n = 0) /\ (m <= 1 <=> n <= w)
      /\ m >= 1 => (m - 1) * w < n
      /\ n % w = 0 <=> n = m * w
  BY DEF RowCount
<1>2. \A k \in 0..m : e[k] = IF k * w < n THEN k * w ELSE n
  OBVIOUS
<1>3. e[0] = 0
  <2>1. 0 \in 0..m /\ 0 * w = 0
    BY <1>1
  <2> QED BY <1>2, <2>1
<1>4. e[m] = n
  <2>1. m \in 0..m /\ m * w \in Nat
    BY <1>1, Times
  <2> QED BY <1>1, <1>2, <2>1
<1>5. ASSUME NEW k \in 1..m
      PROVE  /\ e[k - 1] = (k - 1) * w /\ e[k - 1] < n /\ e[k] \in 0..n
             /\ e[k] = IF k < m THEN e[k - 1] + w ELSE n
             /\ e[k] <= e[k - 1] + w
  <2>1. PICK j \in Nat : j = k - 1 /\ j + 1 = k /\ j \in 0..m /\ k \in 0..m /\ j <= m - 1 /\ m - 1 \in Nat
    BY <1>1
  <2>2. j * w \in Nat /\ k * w = j * w + w /\ j * w <= (m - 1) * w
    BY <2>1, Times
  <2>3. (m - 1) * w < n /\ (m - 1) * w \in Nat
    BY <1>1, <2>1, Times
  <2>4. e[j] = j * w /\ j * w < n
    BY <1>2, <2>1, <2>2, <2>3
  <2>5. e[k] = IF j * w + w < n THEN j * w + w ELSE n
    BY <1>2, <2>1, <2>2
  <2>6. k < m => j * w + w < n
    <3>1. ASSUME k < m PROVE k * w <= (m - 1) * w
      <4>1. PICK h \in Nat : h = m - 1 /\ k <= h /\ k \in Nat
        BY <1>1, <2>1, <3>1
      <4>2. k * w <= h * w
        BY <4>1, Times
      <4> QED BY <4>1, <4>2
    <3> QED BY <2>2, <2>3, <3>1
  <2>7. k = m => n <= j * w + w
    BY <1>1, <2>2
  <2>8. k < m \/ k = m
    BY <1>1
  <2> QED BY <2>1, <2>2, <2>4, <2>5, <2>6, <2>7, <2>8
<1>6. ASSUME m >= 1 PROVE n % w = 0 <=> n = e[m - 1] + w
  <2>1. PICK j \in Nat : j = m - 1 /\ j + 1 = m
    BY <1>1, <1>6
  <2>2. m * w = j * w + w
    BY <2>1, Times
  <2>3. e[m - 1] = j * w
    BY <1>1, <1>5, <1>6, <2>1
  <2> QED BY <1>1, <2>2, <2>3
<1> QED BY <1>1, <1>3, <1>4, <1>5, <1>6 DEF RowEnds

\* The m rows are the sequences in r.
RowsAre(L, w, m, r) == Rows(L, w) = [k \in 1..m |-> m_list(r[k])]

LEMMA RowsCut ==
  ASSUME NEW X, NEW L \in Lists(X), NEW w \in 1..3
  PROVE  \E m \in Nat : \E e, r :
           /\ RowEnds(e, m, Len(L.ts), w) /\ CutAt(L.ts, e, m, r) /\ RowsAre(L, w, m, r)
<1>1. PICK s \in Seq(X) : s = L.ts
  BY ListsAre
<1>2. PICK n \in Nat : n = Len(s) /\ n = m_size(L)
  BY <1>1 DEF m_size
<1>3. PICK m : m = (n + w - 1) \div w
  OBVIOUS
<1>4. PICK e : e = [k \in 0..m |-> IF k * w < n THEN k * w ELSE n]
  OBVIOUS
<1>5. RowEnds(e, m, n, w)
  <2>1. RowCount(n, w, m)
    BY <1>3, RowCountIs
  <2> QED BY <1>4, <2>1, RowEndsAre
<1>6. PICK r : r = [k \in 1..m |-> SubSeq(s, e[k - 1] + 1, e[k])]
  OBVIOUS
<1>7. m \in Nat
  BY <1>5 DEF RowEnds
<1>8. CutAt(s, e, m, r)
  <2>1. \A k \in 0..m : e[k] \in 0..n
    <3>1. \A k \in 0..m : k = 0 \/ k \in 1..m
      BY <1>7
    <3> QED BY <1>5, <3>1 DEF RowEnds
  <2>2. ASSUME NEW k \in 1..m PROVE e[k - 1] <= e[k]
    <3>1. k - 1 \in 0..m
      BY <1>7
    <3>2. e[k - 1] \in 0..n /\ e[k - 1] < n /\ e[k] = IF k < m THEN e[k - 1] + w ELSE n
      BY <1>5, <2>1, <3>1 DEF RowEnds
    <3> QED BY <3>2
  <2>3. \A k \in 1..m : r[k] = SubSeq(s, e[k - 1] + 1, e[k])
    BY <1>6
  <2> QED BY <1>2, <1>5, <2>1, <2>2, <2>3 DEF CutAt, RowEnds
<1>9. RowsAre(L, w, m, r)
  <2>1. ASSUME NEW k \in 1..m
        PROVE  SubSeq(s, (k - 1) * w + 1, IF k * w < n THEN k * w ELSE n) = r[k]
    <3>1. e[k - 1] = (k - 1) * w
      BY <1>5 DEF RowEnds
    <3>2. k \in 0..m
      BY <1>7
    <3>3. e[k] = IF k * w < n THEN k * w ELSE n
      BY <1>4, <3>2
    <3> QED BY <1>6, <3>1, <3>3
  <2>2. Rows(L, w) = [k \in 1..m |-> m_list(SubSeq(s, (k - 1) * w + 1, IF k * w < n THEN k * w ELSE n))]
    BY <1>1, <1>2, <1>3 DEF Rows
  <2> QED BY <2>1, <2>2 DEF RowsAre
<1> QED BY <1>1, <1>2, <1>5, <1>7, <1>8, <1>9

(* What the rows are joined to is what they were cut from, alone and behind a *)
(* list that has nothing.                                                     *)
LEMMA RowsJoin ==
  ASSUME NEW X, IllFormed \notin Lists(X), NEW L \in Lists(X), L.of = "m_list", NEW w \in 1..3
  PROVE  m_concat(Rows(L, w)) = IF L.ts = <<>> THEN IllFormed ELSE L
<1>1. PICK m \in Nat : \E e, r :
        RowEnds(e, m, Len(L.ts), w) /\ CutAt(L.ts, e, m, r) /\ RowsAre(L, w, m, r)
  BY RowsCut
<1>2. PICK e, r :
        RowEnds(e, m, Len(L.ts), w) /\ CutAt(L.ts, e, m, r) /\ RowsAre(L, w, m, r)
  BY <1>1
<1>3. PICK s \in Seq(X) : s = L.ts
  BY ListsAre
<1>4. PICK Ls : Ls = Rows(L, w) /\ Ls = [k \in 1..m |-> m_list(r[k])]
  BY <1>2 DEF RowsAre
<1>5. CASE s = <<>>
  <2>1. m = 0
    BY <1>2, <1>3, <1>5 DEF RowEnds
  <2>2. Ls = <<>>
    BY <1>4, <2>1
  <2> QED BY <1>3, <1>4, <1>5, <2>2 DEF m_concat
<1>6. CASE s # <<>>
  <2>1. SeqsOf(X, m, r)
    BY <1>2, <1>3, CutChain
  <2>2. PICK p : p[0] = <<>> /\ Chain(p, r, m) /\ \A k \in 0..m : p[k] = SubSeq(s, 1, e[k])
    BY <1>2, <1>3, CutChain
  <2>3. \A k \in 1..m : m_list(r[k]) \in Lists(X) /\ m_list(r[k]).ts = r[k] /\ m_list(r[k]).of = "m_list"
    BY <2>1, MListOf DEF SeqsOf
  <2>4. Len(s) # 0 /\ m # 0 /\ m >= 1
    BY <1>2, <1>3, <1>6 DEF RowEnds
  <2>5. /\ Ls \in Seq(Lists(X)) /\ Len(Ls) = m /\ Ls # <<>> /\ Ls[1].of = "m_list"
        /\ \A k \in 1..m : Ls[k].ts = r[k]
    BY <1>4, <2>3, <2>4
  <2>6. m_concat(Ls) = [of |-> Ls[1].of, ts |-> p[m]]
    <3>1. Chain(p, r, Len(Ls)) /\ p[0] = <<>> /\ \A i \in 1..Len(Ls) : r[i] = Ls[i].ts
      BY <2>2, <2>5
    <3>2. m_concat(Ls) = [of |-> Ls[1].of, ts |-> p[Len(Ls)]]
      BY <2>5, <3>1, ConcatIs
    <3> QED BY <2>5, <3>2
  <2>7. p[m] = s
    <3>1. m \in 0..m /\ e[m] = Len(s)
      BY <1>2, <1>3 DEF CutAt
    <3> QED BY <2>2, <3>1, SubSeqFull
  <2> QED BY <1>3, <1>4, <1>6, <2>5, <2>6, <2>7, ListsAre
<1> QED BY <1>5, <1>6

LEMMA RowsJoinOn ==
  ASSUME NEW X, IllFormed \notin Lists(X), NEW L \in Lists(X), NEW w \in 1..3
  PROVE  m_concat(<<m_rename(m_clear(L), "variant")>> \o Rows(L, w))
           = m_assign(m_rename(m_list(<<>>), "variant"), L)
<1>1. PICK m \in Nat : \E e, r :
        RowEnds(e, m, Len(L.ts), w) /\ CutAt(L.ts, e, m, r) /\ RowsAre(L, w, m, r)
  BY RowsCut
<1>2. PICK e, r :
        RowEnds(e, m, Len(L.ts), w) /\ CutAt(L.ts, e, m, r) /\ RowsAre(L, w, m, r)
  BY <1>1
<1>3. PICK s \in Seq(X) : s = L.ts
  BY ListsAre
<1>4. PICK V : V = [of |-> "variant", ts |-> <<>>]
  OBVIOUS
<1>5. V \in Lists(X) /\ V.of = "variant" /\ V.ts = <<>> /\ V = m_rename(m_clear(L), "variant")
  <2>1. PICK z : z = <<>>
    OBVIOUS
  <2>2. z = <<>> /\ z \in Seq(X)
    BY ONLY <2>1
  <2>3. "variant" \in Templates
    BY DEF Templates
  <2>4. V \in Lists(X) /\ V.of = "variant" /\ V.ts = z
    BY <1>4, <2>2, <2>3, ListOf
  <2>5. With(m_clear(L), L, z)
    BY <2>2 DEF With, m_clear
  <2>6. PICK M : M = m_clear(L)
    OBVIOUS
  <2>7. With(M, L, z)
    BY ONLY <2>5, <2>6
  <2>8. M \in Lists(X) /\ M.ts = z
    <3>1. z \in Seq(X) /\ L \in Lists(X) /\ With(M, L, z)
      BY ONLY <2>2, <2>7, L \in Lists(X)
    <3> QED BY ONLY <3>1, ListWith
  <2>9. [M EXCEPT !.of = "variant"] = [of |-> "variant", ts |-> M.ts]
    BY <2>8 DEF Lists
  <2> QED BY <1>4, <2>2, <2>4, <2>6, <2>8, <2>9 DEF m_rename
<1>6. m_assign(m_rename(m_list(<<>>), "variant"), L) = [of |-> "variant", ts |-> s]
  <2>1. m_rename(m_list(<<>>), "variant") = V
    BY <1>4 DEF m_rename, m_list
  <2>2. m_assign(V, L) = [of |-> "variant", ts |-> s]
    BY <1>3, <1>4 DEF m_assign
  <2> QED BY ONLY <2>1, <2>2
<1>7. SeqsOf(X, m, r)
  BY <1>2, <1>3, CutChain
<1>8. PICK p : p[0] = <<>> /\ Chain(p, r, m) /\ \A k \in 0..m : p[k] = SubSeq(s, 1, e[k])
  BY <1>2, <1>3, CutChain
<1>9. p[m] = s
  <2>1. m \in 0..m /\ e[m] = Len(s)
    BY <1>2, <1>3 DEF CutAt
  <2> QED BY <1>8, <2>1, SubSeqFull
<1>10. \A k \in 1..m : m_list(r[k]) \in Lists(X) /\ m_list(r[k]).ts = r[k]
  BY <1>7, MListOf DEF SeqsOf
<1>11. PICK Rs \in Seq(Lists(X)) :
         Rs = Rows(L, w) /\ Len(Rs) = m /\ \A k \in 1..m : Rs[k].ts = r[k]
  <2>1. Rows(L, w) = [k \in 1..m |-> m_list(r[k])]
    BY <1>2 DEF RowsAre
  <2> QED BY <1>10, <2>1
<1>12. PICK Ls : Ls = <<V>> \o Rs
  OBVIOUS
<1>13. /\ Ls \in Seq(Lists(X)) /\ Len(Ls) = m + 1 /\ Ls[1] = V
       /\ \A k \in 1..m : Ls[k + 1] = Rs[k]
  <2>1. PICK v : v = <<V>>
    OBVIOUS
  <2>2. v \in Seq(Lists(X)) /\ v = <<V>> /\ Len(v) = 1 /\ v[1] = V
    BY ONLY <1>5, <2>1
  <2>3. /\ v \o Rs \in Seq(Lists(X)) /\ Len(v \o Rs) = 1 + m
        /\ \A i \in 1..1 + m : (v \o Rs)[i] = IF i <= 1 THEN v[i] ELSE Rs[i - 1]
    BY <1>11, <2>2, ConcatProperties
  <2>4. \A k \in 1..m : k + 1 \in 1..1 + m /\ ~(k + 1 <= 1) /\ (k + 1) - 1 = k
    OBVIOUS
  <2> QED BY <1>12, <2>2, <2>3, <2>4
<1>14. PICK t : t = [k \in 1..m + 1 |-> IF k = 1 THEN <<>> ELSE r[k - 1]]
  OBVIOUS
<1>15. PICK q : q = [k \in 0..m + 1 |-> IF k = 0 THEN <<>> ELSE p[k - 1]]
  OBVIOUS
<1>16. ASSUME NEW k \in 1..m + 1 PROVE t[k] = Ls[k].ts /\ q[k] = q[k - 1] \o t[k]
  <2>1. CASE k = 1
    <3>1. t[k] = <<>> /\ q[k] = p[0] /\ q[k - 1] = <<>>
      <4>1. k - 1 = 0 /\ 0 \in 0..m + 1 /\ k \in 0..m + 1
        BY <2>1
      <4> QED BY <1>14, <1>15, <2>1, <4>1
    <3> QED BY <1>5, <1>8, <1>13, <2>1, <3>1
  <2>2. CASE k # 1
    <3>1. PICK j \in 1..m : j = k - 1 /\ k = j + 1
      BY <2>2
    <3>2. j # 0 /\ j \in 0..m + 1 /\ k \in 0..m + 1 /\ k # 0
      BY <3>1
    <3>3. q[k] = p[j] /\ q[j] = p[j - 1]
      BY <1>15, <3>1, <3>2
    <3>4. t[k] = r[j]
      BY <1>14, <2>2, <3>1
    <3>5. p[j] = p[j - 1] \o r[j]
      BY <1>8 DEF Chain
    <3> QED BY <1>11, <1>13, <3>1, <3>3, <3>4, <3>5
  <2> QED BY <2>1, <2>2
<1>17. Chain(q, t, Len(Ls)) /\ q[0] = <<>> /\ \A i \in 1..Len(Ls) : t[i] = Ls[i].ts
  <2>1. q[0] = <<>>
    BY <1>15
  <2> QED BY <1>13, <1>16, <2>1 DEF Chain
<1>18. m_concat(Ls) = [of |-> Ls[1].of, ts |-> q[Len(Ls)]]
  <2>1. Ls # <<>>
    BY <1>13
  <2> QED BY <1>13, <1>17, <2>1, ConcatIs
<1>19. q[m + 1] = p[m]
  <2>1. m + 1 \in 0..m + 1 /\ m + 1 # 0 /\ (m + 1) - 1 = m
    OBVIOUS
  <2> QED BY <1>15, <2>1
<1> QED BY <1>5, <1>6, <1>9, <1>11, <1>12, <1>13, <1>18, <1>19

(* Only rows of one size combine, and what combines are the columns.          *)
LEMMA RowsTransform ==
  ASSUME NEW X, IllFormed \notin Lists(X), NEW L \in Lists(X), NEW w \in 1..3
  PROVE  m_transform(m_list, Rows(L, w)) =
           IF L.ts = <<>> \/ (m_size(L) > w /\ m_size(L) % w # 0) THEN IllFormed
           ELSE m_list([i \in 1..m_size(Rows(L, w)[1]) |->
                          m_list([k \in DOMAIN Rows(L, w) |-> L.ts[(k - 1) * w + i]])])
<1>1. PICK m \in Nat : \E e, r :
        RowEnds(e, m, Len(L.ts), w) /\ CutAt(L.ts, e, m, r) /\ RowsAre(L, w, m, r)
  BY RowsCut
<1>2. PICK e, r :
        RowEnds(e, m, Len(L.ts), w) /\ CutAt(L.ts, e, m, r) /\ RowsAre(L, w, m, r)
  BY <1>1
<1>3. PICK s \in Seq(X), n \in Nat : s = L.ts /\ n = Len(s) /\ n = m_size(L)
  <2>1. L.ts \in Seq(X)
    BY ListsAre
  <2> QED BY <2>1 DEF m_size
<1>4. SeqsOf(X, m, r)
  BY <1>2, <1>3, CutChain
<1>5. PICK Ls : Ls = Rows(L, w) /\ Ls = [k \in 1..m |-> m_list(r[k])]
  BY <1>2 DEF RowsAre
<1>6. /\ Ls \in Seq(Lists(X)) /\ Len(Ls) = m /\ DOMAIN Ls = 1..m
      /\ \A k \in 1..m : Ls[k].ts = r[k] /\ Ls[k].of = "m_list"
  <2>1. \A k \in 1..m : m_list(r[k]) \in Lists(X) /\ m_list(r[k]).ts = r[k] /\ m_list(r[k]).of = "m_list"
    BY <1>4, MListOf DEF SeqsOf
  <2> QED BY <1>5, <2>1
<1>7. ASSUME NEW k \in 1..m
      PROVE  /\ e[k - 1] = (k - 1) * w /\ e[k - 1] \in 0..n /\ e[k] \in 0..n
             /\ Len(r[k]) = e[k] - e[k - 1]
             /\ \A i \in 1..e[k] - e[k - 1] : r[k][i] = s[e[k - 1] + i]
  <2>1. k - 1 \in 0..m /\ k \in 0..m
    OBVIOUS
  <2>2. PICK a, c : a = e[k - 1] /\ c = e[k]
    OBVIOUS
  <2>3. a \in 0..n /\ c \in 0..n /\ a <= c /\ r[k] = SubSeq(s, a + 1, c)
    BY <1>2, <1>3, <2>1, <2>2 DEF CutAt
  <2>4. a = (k - 1) * w
    BY <1>2, <2>2 DEF RowEnds
  <2>5. Len(SubSeq(s, a + 1, c)) = c - a /\ \A i \in 1..c - a : SubSeq(s, a + 1, c)[i] = s[a + i]
    BY <1>3, <2>3
  <2> QED BY <2>2, <2>3, <2>4, <2>5
<1>8. CASE n = 0
  <2>1. m = 0
    BY <1>2, <1>3, <1>8 DEF RowEnds
  <2>2. Ls = <<>> /\ s = <<>>
    <3>1. Len(Ls) = 0 /\ Len(s) = 0
      BY <1>3, <1>6, <1>8, <2>1
    <3> QED BY <1>3, <1>6, <3>1, EmptySeq
  <2>3. ~Combinable(Ls)
    BY <2>2 DEF Combinable
  <2> QED BY <1>3, <1>5, <2>2, <2>3 DEF m_transform
<1>9. CASE n # 0
  <2>1. s # <<>> /\ m # 0 /\ m >= 1 /\ 1 \in 1..m /\ Ls # <<>>
    <3>1. m # 0 /\ m >= 1 /\ 1 \in 1..m
      BY <1>2, <1>3, <1>9 DEF RowEnds
    <3>2. Len(s) # 0 /\ Len(Ls) # 0
      BY <1>3, <1>6, <1>9, <3>1
    <3> QED BY <1>3, <1>6, <3>1, <3>2, EmptySeq
  <2>2. PICK h \in Nat : h = m - 1 /\ h + 1 = m
    BY <2>1
  <2>3. PICK a \in 0..n : a = e[h] /\ a = h * w /\ a < n
    <3>1. m \in 1..m /\ m - 1 = h
      BY <2>1, <2>2
    <3> QED BY <1>2, <1>3, <1>7, <3>1 DEF RowEnds
  <2>4. e[m] = n /\ e[0] = 0
    BY <1>2, <1>3 DEF RowEnds
  <2>5. /\ m <= 1 <=> n <= w
        /\ n % w = 0 <=> n = a + w
        /\ \A k \in 1..m : e[k] = IF k < m THEN e[k - 1] + w ELSE n
    BY <1>2, <1>3, <2>1, <2>2, <2>3 DEF RowEnds
  <2>6. ASSUME NEW k \in 1..m PROVE Len(Ls[k].ts) = IF k < m THEN w ELSE n - a
    <3>1. Len(Ls[k].ts) = e[k] - e[k - 1] /\ e[k - 1] \in 0..n
      BY <1>6, <1>7
    <3>2. CASE k < m
      BY <2>5, <3>1, <3>2
    <3>3. CASE ~(k < m)
      <4>1. k = m /\ k - 1 = h
        BY <2>2, <3>3
      <4> QED BY <2>3, <2>4, <3>1, <3>3, <4>1
    <3> QED BY <3>2, <3>3
  <2>7. PICK u : u = Len(Ls[1].ts) /\ u = IF 1 < m THEN w ELSE n - a
    BY <2>1, <2>6
  <2>8. Combinable(Ls) <=> ~(n > w /\ n % w # 0)
    <3>1. Combinable(Ls) <=> SameSize(Ls, u)
      BY <1>6, <2>1, <2>7, CombinableIs
    <3>2. CASE m = 1
      <4>1. \A k \in 1..m : k = 1
        BY <3>2
      <4>2. SameSize(Ls, u)
        BY <1>6, <2>7, <4>1 DEF SameSize
      <4>3. n <= w
        BY <2>5, <3>2
      <4> QED BY <3>1, <4>2, <4>3
    <3>3. CASE m > 1
      <4>1. n > w /\ u = w
        BY <2>5, <2>7, <3>3
      <4>2. SameSize(Ls, u) <=> n - a = w
        <5>1. m \in 1..m /\ Len(Ls[m].ts) = n - a
          BY <2>1, <2>6
        <5>2. SameSize(Ls, u) => n - a = w
          BY <1>6, <4>1, <5>1 DEF SameSize
        <5>3. n - a = w => SameSize(Ls, u)
          BY <1>6, <2>6, <4>1 DEF SameSize
        <5> QED BY <5>2, <5>3
      <4>3. n - a = w <=> n = a + w
        OBVIOUS
      <4> QED BY <2>5, <3>1, <4>1, <4>2, <4>3
    <3> QED BY <2>1, <3>2, <3>3
  <2>9. CASE n > w /\ n % w # 0
    BY <1>3, <1>5, <2>1, <2>8, <2>9 DEF m_transform
  <2>10. CASE ~(n > w /\ n % w # 0)
    <3>1. SameSize(Ls, u)
      BY <1>6, <2>1, <2>7, <2>8, <2>10, CombinableIs
    <3>2. m_transform(m_list, Ls) = SideBySide(Ls[1].of, u, Ls, m)
      BY <1>6, <2>1, <3>1, TransformIs
    <3>3. ASSUME NEW i \in 1..u
          PROVE  Row(Ls, m, i) = [k \in 1..m |-> s[(k - 1) * w + i]]
      <4>1. ASSUME NEW k \in 1..m PROVE Ls[k].ts[i] = s[(k - 1) * w + i]
        <5>1. Len(Ls[k].ts) = u
          BY <1>6, <3>1 DEF SameSize
        <5>2. i \in 1..e[k] - e[k - 1]
          BY <1>6, <1>7, <5>1
        <5> QED BY <1>6, <1>7, <5>2
      <4> QED BY <4>1 DEF Row
    <3>4. [i \in 1..u |-> m_list(Row(Ls, m, i))] = [i \in 1..u |-> m_list([k \in 1..m |-> s[(k - 1) * w + i]])]
      BY <3>3
    <3>5. SideBySide(Ls[1].of, u, Ls, m) = m_list([i \in 1..u |-> m_list(Row(Ls, m, i))])
      BY <1>6, <2>1 DEF SideBySide, m_list
    <3>6. m_size(Ls[1]) = u
      BY <2>7 DEF m_size
    <3>7. m_transform(m_list, Ls) = m_list([i \in 1..u |-> m_list([k \in 1..m |-> s[(k - 1) * w + i]])])
      BY ONLY <3>2, <3>4, <3>5
    <3> QED BY ONLY <1>3, <1>5, <1>6, <2>1, <2>10, <3>6, <3>7
  <2> QED BY <2>9, <2>10
<1> QED BY <1>8, <1>9

\* However it was built, it is an m_list of Items.
ListTypeOK == list \in Lists(Items) /\ list.of = "m_list"

LEMMA ListTypeInvariant == ListSpec => []ListTypeOK
<1>1. ListInit => ListTypeOK
  <2>1. PICK z : z = <<>>
    OBVIOUS
  <2>2. z \in Seq(Items)
    BY ONLY <2>1
  <2>3. m_list(z) \in Lists(Items) /\ m_list(z).of = "m_list"
    BY <2>2, MListOf
  <2> QED BY ONLY <2>1, <2>3 DEF ListInit, ListTypeOK
<1>2. ListTypeOK /\ [ListNext]_list => ListTypeOK'
  <2>1. SUFFICES ASSUME ListTypeOK, [ListNext]_list PROVE ListTypeOK'
    OBVIOUS
  <2>2. PICK s \in Seq(Items) : s = list.ts
    BY <2>1, ListsAre DEF ListTypeOK
  <2>3. ASSUME NEW t \in Items, PushBack(t) \/ PushFront(t) PROVE ListTypeOK'
    <3>1. PICK y \in Seq(Items) : y = <<t>>
      <4>1. PICK z : z = <<t>>
        OBVIOUS
      <4>2. z \in Seq(Items)
        BY ONLY <4>1, <2>3
      <4> QED BY <4>1, <4>2
    <3>2. s \o y \in Seq(Items) /\ y \o s \in Seq(Items)
      BY ONLY <2>2, <3>1, ConcatProperties
    <3>3. With(list', list, s \o y) \/ With(list', list, y \o s)
      BY <2>2, <2>3, <3>1 DEF PushBack, PushFront, m_push_back, m_push_front, With
    <3>4. PICK M : M = list'
      OBVIOUS
    <3>5. M \in Lists(Items) /\ M.of = list.of
      <4>1. PICK q \in Seq(Items) : With(M, list, q)
        BY <3>2, <3>3, <3>4
      <4>2. PICK L \in Lists(Items) : L = list
        BY <2>1 DEF ListTypeOK
      <4> QED BY ONLY <4>1, <4>2, ListWith
    <3> QED BY <2>1, <3>4, <3>5 DEF ListTypeOK
  <2>4. CASE ListNext
    BY <2>3, <2>4 DEF ListNext
  <2>5. CASE UNCHANGED list
    BY <2>1, <2>5 DEF ListTypeOK
  <2> QED BY <2>1, <2>4, <2>5
<1> QED BY <1>1, <1>2, PTL DEF ListSpec

(* fold, concat and transform make of every list that can be built, taken in  *)
(* pieces of five, six or ten, what they would make of it taken type by type; *)
(* rows of it combine exactly when they have one size (meta.hpp).             *)
THEOREM PiecesInvariant == ListSpec => []PiecesDoNotShow
<1>1. ListTypeOK => PiecesDoNotShow
  <2>1. SUFFICES ASSUME ListTypeOK PROVE PiecesDoNotShow
    OBVIOUS
  <2>2. PICK L \in Lists(Items) : L = list /\ L.of = "m_list"
    BY <2>1 DEF ListTypeOK
  <2>3. IllFormed \notin Lists(Items)
    BY MetaAssumption
  <2>4. m_fold(L, m_clear(L), LAMBDA v, t : m_push_back(v, <<t>>)) = L
    BY FoldIs
  <2>5. ASSUME NEW w \in 1..3
        PROVE  /\ m_concat(Rows(L, w)) = IF L.ts = <<>> THEN IllFormed ELSE L
               /\ m_concat(<<m_rename(m_clear(L), "variant")>> \o Rows(L, w)) =
                    m_assign(m_rename(m_list(<<>>), "variant"), L)
               /\ m_transform(m_list, Rows(L, w)) =
                    IF L.ts = <<>> \/ (m_size(L) > w /\ m_size(L) % w # 0) THEN IllFormed
                    ELSE m_list([i \in 1..m_size(Rows(L, w)[1]) |->
                                   m_list([k \in DOMAIN Rows(L, w) |-> L.ts[(k - 1) * w + i]])])
    BY <2>2, <2>3, RowsJoin, RowsJoinOn, RowsTransform
  <2> QED BY <2>2, <2>4, <2>5 DEF PiecesDoNotShow
<1> QED BY <1>1, ListTypeInvariant, PTL

-------------------------------------------------------------------------------
(* The selections of SelectionsAgree.                                      *)

(* unique leaves the first of each type, in order.                            *)
FirstsOf(s, k) == {i \in 1..k : \A j \in 1..i - 1 : s[j] # s[i]}

LEMMA FirstsStep ==
  ASSUME NEW s, NEW k \in Nat
  PROVE  FirstsOf(s, k + 1) = IF AmongFirst(s[k + 1], s, k) THEN FirstsOf(s, k)
                              ELSE FirstsOf(s, k) \union {k + 1}
<1>1. 1..k + 1 = 1..k \union {k + 1} /\ (k + 1) - 1 = k
  OBVIOUS
<1>2. AmongFirst(s[k + 1], s, k) <=> ~(\A j \in 1..k : s[j] # s[k + 1])
  BY DEF AmongFirst
<1>3. PICK h : h = k + 1
  OBVIOUS
<1>4. \A i : i \in FirstsOf(s, h) <=>
               i \in FirstsOf(s, k) \/ (i = h /\ \A j \in 1..k : s[j] # s[h])
  BY <1>1, <1>3 DEF FirstsOf
<1> QED BY <1>2, <1>3, <1>4

LEMMA UniqueSelects ==
  ASSUME NEW X, NEW L \in Lists(X)
  PROVE  Selects(m_unique(L).ts, L.ts, Firsts(L.ts))
<1>1. PICK s \in Seq(X), n \in Nat : s = L.ts /\ n = Len(s) /\ DOMAIN s = 1..n
  <2>1. L.ts \in Seq(X)
    BY ListsAre
  <2> QED BY <2>1
<1>2. PICK p : /\ p[0] = m_clear(L) /\ m_unique(L) = p[n]
               /\ \A k \in 1..n : p[k] = Once(p[k - 1], s[k])
  BY <1>1, UniqueSteps
<1> DEFINE Good(k) == /\ p[k] \in Lists(X) /\ Selects(p[k].ts, s, FirstsOf(s, k))
                      /\ \A x : x \in ToSet(p[k].ts) <=> AmongFirst(x, s, k)
           S == {k \in Nat : k \in 0..n => Good(k)}
<1>3. Good(0)
  <2>1. PICK z : z = <<>>
    OBVIOUS
  <2>2. z \in Seq(X)
    BY <2>1
  <2>3. With(p[0], L, z)
    BY <1>2, <2>1 DEF m_clear, With
  <2>4. p[0] \in Lists(X) /\ p[0].ts = z
    BY <2>2, <2>3, ListWith
  <2>5. ToSet(z) = {}
    BY <2>1 DEF ToSet
  <2>6. Selects(z, s, FirstsOf(s, 0))
    <3>1. FirstsOf(s, 0) = {}
      BY DEF FirstsOf
    <3> QED BY <2>1, <3>1, SelectsNone
  <2>7. \A x : ~AmongFirst(x, s, 0)
    BY DEF AmongFirst
  <2> QED BY <2>4, <2>5, <2>6, <2>7
<1>4. ASSUME NEW k \in Nat, k + 1 \in 1..n, Good(k) PROVE Good(k + 1)
  <2>1. PICK R \in Lists(X), r \in Seq(X) : R = p[k] /\ r = R.ts
    BY <1>4, ListsAre
  <2>2. PICK T \in X : T = s[k + 1]
    BY <1>1, <1>4, ElementOfSeq
  <2>3. p[k + 1] = Once(R, T)
    <3>1. (k + 1) - 1 = k
      OBVIOUS
    <3> QED BY <1>2, <1>4, <2>1, <2>2, <3>1
  <2>4. /\ p[k + 1] \in Lists(X)
        /\ p[k + 1].ts = IF T \in ToSet(r) THEN r ELSE Append(r, T)
    BY <2>1, <2>3, OnceIs
  <2>5. PICK I \in SUBSET (1..k) : I = FirstsOf(s, k)
    BY DEF FirstsOf
  <2>6. Selects(r, s, I) /\ (T \in ToSet(r) <=> AmongFirst(T, s, k))
    BY <1>4, <2>1, <2>5
  <2>7. FirstsOf(s, k + 1) = IF AmongFirst(T, s, k) THEN I ELSE I \union {k + 1}
    BY <2>2, <2>5, FirstsStep
  <2>8. Selects(Append(r, T), s, I \union {k + 1})
    BY <2>2, <2>6, SelectsMore
  <2>9. Selects(p[k + 1].ts, s, FirstsOf(s, k + 1))
    BY <2>4, <2>6, <2>7, <2>8
  <2>10. ASSUME NEW x PROVE x \in ToSet(p[k + 1].ts) <=> AmongFirst(x, s, k + 1)
    <3>1. ToSet(p[k + 1].ts) = ToSet(r) \union {T}
      BY <2>4, ToSetAppend
    <3>2. 1..k + 1 = 1..k \union {k + 1}
      OBVIOUS
    <3>3. AmongFirst(x, s, k + 1) <=> AmongFirst(x, s, k) \/ x = T
      BY <2>2, <3>2 DEF AmongFirst
    <3> QED BY <1>4, <2>1, <3>1, <3>3
  <2> QED BY <2>4, <2>9, <2>10
<1> HIDE DEF Good
<1>5. 0 \in S /\ \A k \in Nat : k \in S => k + 1 \in S
  <2>1. 0 \in S
    BY <1>3
  <2>2. ASSUME NEW k \in Nat, k \in S, k + 1 <= n PROVE Good(k + 1)
    <3>1. k + 1 \in 1..n /\ k \in 0..n
      BY <2>2
    <3>2. Good(k)
      BY <2>2, <3>1
    <3> QED BY <1>4, <3>1, <3>2
  <2> QED BY <2>1, <2>2
<1>6. n \in S
  <2> HIDE DEF S
  <2> QED BY <1>5, NatSet
<1>7. Good(n)
  BY <1>6
<1>8. FirstsOf(s, n) = Firsts(s)
  BY <1>1 DEF FirstsOf, Firsts
<1> QED BY <1>1, <1>2, <1>7, <1>8 DEF Good

LEMMA IsIs ==
  ASSUME NEW X, NEW s \in Seq(X), NEW t
  PROVE  /\ Is(s, t) \in Seq(BOOLEAN) /\ Len(Is(s, t)) = Len(s) /\ DOMAIN Is(s, t) = 1..Len(s)
         /\ \A i \in 1..Len(s) : Is(s, t)[i] = (s[i] = t)
<1>1. PICK n \in Nat : n = Len(s) /\ DOMAIN s = 1..n
  OBVIOUS
<1>2. PICK b : b = [i \in 1..n |-> s[i] = t]
  OBVIOUS
<1>3. b \in Seq(BOOLEAN) /\ Len(b) = n /\ DOMAIN b = 1..n /\ \A i \in 1..n : b[i] = (s[i] = t)
  BY <1>2
<1> QED BY <1>1, <1>2, <1>3 DEF Is

\* Types are compared.
LEMMA SameAre ==
  ASSUME NEW t, NEW x
  PROVE  m_same(<<t, x>>) = (x = t) /\ m_same(<<t>> \o <<x>>) = (x = t)
<1>1. m_same(<<t, x>>) = (x = t)
  <2>1. DOMAIN <<t, x>> = {1, 2} /\ <<t, x>>[1] = t /\ <<t, x>>[2] = x
    OBVIOUS
  <2> QED BY <2>1 DEF m_same
<1>2. PICK q : q = <<t>> \o <<x>>
  OBVIOUS
<1>3. DOMAIN q = {1, 2} /\ q[1] = t /\ q[2] = x
  BY <1>2
<1>4. m_same(q) = (x = t)
  BY <1>3 DEF m_same
<1> QED BY <1>1, <1>2, <1>4

Those(L, t) == {i \in 1..Len(L.ts) : L.ts[i] = t}
Others(L, t) == {i \in 1..Len(L.ts) : L.ts[i] # t}

LEMMA WithoutIs ==
  ASSUME NEW X, IllFormed \notin Lists(X), IllFormed \notin Lists(BOOLEAN), IllFormed \notin BOOLEAN,
         NEW L \in Lists(X), NEW t
  PROVE  /\ L.ts = <<>> => Without(L, t) = IllFormed
         /\ L.ts # <<>> =>
              /\ Without(L, t) \in Lists(X) /\ Without(L, t).of = "m_list"
              /\ Selects(Without(L, t).ts, L.ts, Others(L, t))
<1>1. PICK s \in Seq(X), n \in Nat : s = L.ts /\ n = Len(s) /\ DOMAIN s = 1..n
  <2>1. L.ts \in Seq(X)
    BY ListsAre
  <2> QED BY <2>1
<1>2. PICK c : c = [i \in 1..n |-> m_list(<<s[i]>>)]
  OBVIOUS
<1>3. PICK C : C = Columns(<<L>>) /\ C = [of |-> L.of, ts |-> c]
  BY <1>1, <1>2, ColumnsOfOne
<1>4. ASSUME NEW i \in 1..n PROVE c[i] # IllFormed /\ c[i].ts = <<s[i]>>
  <2>1. PICK x \in X : x = s[i]
    BY <1>1, ElementOfSeq
  <2>2. <<x>> \in Seq(X)
    OBVIOUS
  <2>3. m_list(<<x>>) \in Lists(X) /\ m_list(<<x>>).ts = <<x>>
    BY <2>2, MListOf
  <2> QED BY <1>2, <2>1, <2>3
<1>5. PICK v : v = [i \in 1..n |-> s[i] # t]
  OBVIOUS
<1>6. ASSUME NEW x PROVE m_not(m_bind_front(m_same, <<t>>, <<x>>)) = (x # t)
  <2>1. m_bind_front(m_same, <<t>>, <<x>>) = (x = t)
    BY SameAre DEF m_bind_front
  <2>2. m_not(x = t) = (x # t)
    <3>1. CASE x = t
      BY <3>1 DEF m_not, m_valid
    <3>2. CASE x # t
      BY <3>2 DEF m_not, m_valid
    <3> QED BY <3>1, <3>2
  <2> QED BY <2>1, <2>2
<1>7. m_transform(LAMBDA args : m_not(m_bind_front(m_same, <<t>>, args)), <<L>>)
        = [of |-> L.of, ts |-> v]
  <2>1. Combinable(<<L>>) /\ Len(<<L>>) <= 5
    <3>1. L # IllFormed /\ Len(<<L>>) = 1
      OBVIOUS
    <3>2. Combinable(<<L>>)
      BY <3>1, ColumnsOfOne
    <3> QED BY <3>1, <3>2
  <2>2. C.ts = c /\ DOMAIN c = 1..n
    <3>1. C.ts = c
      BY ONLY <1>3
    <3>2. DOMAIN c = 1..n
      BY ONLY <1>2
    <3> QED BY <3>1, <3>2
  <2>3. [i \in DOMAIN C.ts |-> m_apply(LAMBDA args : m_not(m_bind_front(m_same, <<t>>, args)), C.ts[i])] = v
    BY <1>4, <1>5, <1>6, <2>2 DEF m_apply, m_valid
  <2>4. IllFormed \notin ToSet(v)
    BY <1>5 DEF ToSet
  <2>5. [C EXCEPT !.ts = v] = [of |-> L.of, ts |-> v]
    BY <1>3
  <2> QED BY <1>3, <2>1, <2>3, <2>4, <2>5 DEF m_transform, Spread
<1>8. m_valid([of |-> L.of, ts |-> v])
  <2>1. v \in [1..n -> BOOLEAN]
    BY ONLY <1>5
  <2>2. v \in Seq(BOOLEAN) /\ L.of \in Templates
    <3>1. v \in Seq(BOOLEAN)
      BY ONLY <2>1, n \in Nat
    <3> QED BY <3>1, ListsAre
  <2>3. [of |-> L.of, ts |-> v] \in Lists(BOOLEAN)
    BY <2>2, ListOf
  <2> QED BY <2>3 DEF m_valid
<1>9. Without(L, t) = Kept(L, v)
  BY <1>7, <1>8 DEF Without, m_filter
<1>10. Verdicts(v, L) /\ Others(L, t) = {i \in 1..Len(L.ts) : v[i]}
  BY <1>1, <1>5 DEF Verdicts, Others
<1>11. L.ts = <<>> => Without(L, t) = IllFormed
  BY <1>9, KeptOfNone
<1>12. ASSUME L.ts # <<>>
       PROVE  /\ Without(L, t) \in Lists(X) /\ Without(L, t).of = "m_list"
              /\ Selects(Without(L, t).ts, L.ts, Others(L, t))
  <2>1. /\ Kept(L, v) \in Lists(X) /\ Kept(L, v).of = "m_list"
        /\ Selects(Kept(L, v).ts, L.ts, {i \in 1..Len(L.ts) : v[i]})
    BY <1>10, <1>12, KeptIs
  <2> QED BY ONLY <1>9, <1>10, <2>1
<1> QED BY <1>11, <1>12

\* Those that are counted and the others are all.
Split(L, t, a) ==
  /\ a \in Nat /\ (a > 0 <=> Those(L, t) # {}) /\ a + Cardinality(Others(L, t)) = m_size(L)
  /\ m_count(L, t) = IF L.ts = <<>> THEN IllFormed ELSE a

LEMMA CountIs ==
  ASSUME NEW X, IllFormed \notin BOOLEAN, NEW L \in Lists(X), NEW t
  PROVE  \E a : Split(L, t, a)
<1>1. PICK s \in Seq(X), n \in Nat : s = L.ts /\ n = Len(s) /\ DOMAIN s = 1..n /\ n = m_size(L)
  <2>1. L.ts \in Seq(X)
    BY ListsAre
  <2> QED BY <2>1 DEF m_size
<1>2. PICK A, B : A = Those(L, t) /\ B = Others(L, t)
  OBVIOUS
<1>3. A = {i \in 1..n : s[i] = t} /\ B = {i \in 1..n : s[i] # t}
  BY <1>2, <1>1 DEF Those, Others
<1>4. PICK v : v = [i \in 1..n |-> s[i] = t]
  OBVIOUS
<1>5. m_count(L, t) = Counted(v)
  <2>1. \A x : m_bind_back(m_same, <<t>>, <<x>>) = (x = t)
    <3>1. ASSUME NEW x PROVE m_bind_back(m_same, <<t>>, <<x>>) = (t = x)
      BY SameAre DEF m_bind_back
    <3> QED BY <3>1
  <2>2. [i \in 1..n |-> m_bind_back(m_same, <<t>>, <<s[i]>>)] = v
    BY <1>4, <2>1
  <2> QED BY <1>1, <2>2 DEF m_count, m_count_if
<1>6. m_count(L, t) = IF s = <<>> THEN IllFormed ELSE Cardinality(A)
  <2>1. CASE s = <<>>
    <3>1. v = <<>>
      BY <1>1, <1>4, <2>1
    <3>2. Counted(v) = IllFormed
      BY <3>1 DEF Counted
    <3> QED BY <1>5, <2>1, <3>2
  <2>2. CASE s # <<>>
    <3>1. n # 0 /\ DOMAIN v = 1..n
      BY <1>1, <1>4, <2>2, EmptySeq
    <3>2. v # <<>>
      BY <3>1
    <3>3. IllFormed \notin ToSet(v)
      BY <1>4, <3>1 DEF ToSet
    <3>4. {i \in DOMAIN v : v[i]} = A
      BY <1>3, <1>1, <1>4
    <3> QED BY <1>5, <2>2, <3>2, <3>3, <3>4 DEF Counted
  <2> QED BY <2>1, <2>2
<1>7. PICK N : N = 1..n /\ IsFiniteSet(N) /\ Cardinality(N) = n
  BY FS_Interval
<1>8. A \in SUBSET N /\ B \in SUBSET N /\ A \union B = N /\ A \intersect B = {}
  BY <1>3, <1>7
<1>9. IsFiniteSet(A) /\ IsFiniteSet(B)
  BY <1>7, <1>8, FS_Subset
<1>10. Cardinality(A) \in Nat /\ Cardinality(B) \in Nat /\ (Cardinality(A) = 0 <=> A = {})
  BY <1>9, FS_CardinalityType, FS_EmptySet
<1>11. Cardinality(A \union B) = Cardinality(A) + Cardinality(B) - Cardinality(A \intersect B)
  BY ONLY <1>9, FS_Union
<1>12. PICK a \in Nat, b \in Nat : a = Cardinality(A) /\ b = Cardinality(B)
  BY ONLY <1>10
<1>13. a + b = n
  <2>1. Cardinality(A \intersect B) = 0
    BY ONLY <1>8, FS_EmptySet
  <2>2. n = a + b - 0
    BY ONLY <1>7, <1>8, <1>11, <1>12, <2>1
  <2> QED BY <2>2
<1>14. a > 0 <=> A # {}
  <2>1. a = 0 <=> A = {}
    BY ONLY <1>10, <1>12
  <2> QED BY ONLY a \in Nat, <2>1
<1> QED BY ONLY <1>2, <1>1, <1>6, <1>12, <1>13, <1>14 DEF Split

\* Two lists that are one side by side are all of it.
LEMMA SameKept ==
  ASSUME NEW X, IllFormed \notin X, IllFormed \notin Lists(X), IllFormed \notin Lists(BOOLEAN),
         IllFormed \notin BOOLEAN, NEW L \in Lists(X), L.of = "m_list", L.ts # <<>>
  PROVE  m_filter(m_same, <<L, m_transform_if(LAMBDA args : IllFormed,
                                              LAMBDA args : FALSE, <<L>>)>>) = L
<1>1. PICK s \in Seq(X), n \in Nat : s = L.ts /\ n = Len(s) /\ DOMAIN s = 1..n
  <2>1. L.ts \in Seq(X)
    BY ListsAre
  <2> QED BY <2>1
<1>2. L = [of |-> L.of, ts |-> s] /\ L # IllFormed
  BY <1>1, ListsAre
<1>3. m_transform_if(LAMBDA args : IllFormed, LAMBDA args : FALSE, <<L>>) = L
  <2>1. PICK c : c = [i \in 1..n |-> m_list(<<s[i]>>)]
    OBVIOUS
  <2>2. PICK C : C = Columns(<<L>>) /\ C = [of |-> L.of, ts |-> c]
    BY <1>1, <2>1, ColumnsOfOne
  <2>3. ASSUME NEW i \in 1..n
        PROVE  c[i] # IllFormed /\ c[i].ts = <<s[i]>> /\ s[i] # IllFormed
    <3>1. PICK x \in X : x = s[i]
      BY <1>1, ElementOfSeq
    <3>2. <<x>> \in Seq(X)
      OBVIOUS
    <3>3. m_list(<<x>>) \in Lists(X) /\ m_list(<<x>>).ts = <<x>>
      BY <3>2, MListOf
    <3> QED BY <2>1, <3>1, <3>3
  <2>4. ASSUME NEW x PROVE m_if(FALSE, IllFormed, <<(<<x>>)[1]>>) = x
    <3>1. PICK y : y = <<(<<x>>)[1]>>
      OBVIOUS
    <3>2. y # <<>> /\ Head(y) = x
      BY <3>1
    <3>3. m_if(FALSE, IllFormed, y) = IF y = <<>> THEN IllFormed ELSE Head(y)
      BY DEF m_if
    <3> QED BY <3>1, <3>2, <3>3
  <2>5. Combinable(<<L>>) /\ Len(<<L>>) <= 5
    <3>1. Combinable(<<L>>)
      BY <1>2, ColumnsOfOne
    <3> QED BY <3>1
  <2>6. C.ts = c /\ DOMAIN c = 1..n
    <3>1. C.ts = c
      BY ONLY <2>2
    <3>2. DOMAIN c = 1..n
      BY ONLY <2>1
    <3> QED BY <3>1, <3>2
  <2>7. [i \in DOMAIN C.ts |-> m_apply(LAMBDA args : m_if(FALSE, IllFormed, <<args[1]>>), C.ts[i])] = s
    <3>1. [i \in 1..n |-> m_if(FALSE, IllFormed, <<(<<s[i]>>)[1]>>)] = [i \in 1..n |-> s[i]]
      BY <2>4
    <3>2. \A i \in 1..n : m_valid(c[i]) /\ c[i].ts = <<s[i]>>
      BY <2>3 DEF m_valid
    <3>3. [i \in 1..n |-> m_apply(LAMBDA args : m_if(FALSE, IllFormed, <<args[1]>>), c[i])]
            = [i \in 1..n |-> m_if(FALSE, IllFormed, <<(<<s[i]>>)[1]>>)]
      BY <3>2 DEF m_apply
    <3>4. s = [i \in 1..n |-> s[i]]
      BY <1>1
    <3> QED BY ONLY <2>6, <3>1, <3>3, <3>4
  <2>8. IllFormed \notin ToSet(s)
    BY <1>1, <2>3 DEF ToSet
  <2>9. [C EXCEPT !.ts = s] = [of |-> L.of, ts |-> s]
    BY <2>2
  <2>10. m_transform(LAMBDA args : m_if(FALSE, IllFormed, <<args[1]>>), <<L>>) = L
    BY <1>2, <2>2, <2>5, <2>7, <2>8, <2>9 DEF m_transform, Spread
  <2> QED BY <2>10 DEF m_transform_if
<1>4. PICK Ls : Ls = <<L, L>>
  OBVIOUS
<1>5. Ls \in Seq(Lists(X)) /\ Len(Ls) = 2 /\ Ls # <<>> /\ DOMAIN Ls = {1, 2}
      /\ \A k \in {1, 2} : Ls[k] = L
  BY <1>4
<1>6. SameSize(Ls, n) /\ SubSeq(Ls, 1, 2) = Ls
  <2>1. SubSeq(Ls, 1, Len(Ls)) = Ls
    BY <1>5, SubSeqFull
  <2>2. \A k \in 1..2 : k \in {1, 2}
    OBVIOUS
  <2> QED BY <1>1, <1>5, <2>1, <2>2 DEF SameSize
<1>7. PICK c : c = [i \in 1..n |-> m_list(Row(Ls, 2, i))]
  OBVIOUS
<1>8. PICK C : C = Columns(Ls) /\ C = [of |-> L.of, ts |-> c]
  <2>1. 2 \in 1..Len(Ls)
    BY <1>5
  <2>2. Columns(SubSeq(Ls, 1, 2)) = SideBySide(Ls[1].of, n, Ls, 2)
    BY <1>5, <1>6, <2>1, ColumnsAre
  <2> QED BY <1>5, <1>6, <1>7, <2>2 DEF SideBySide
<1>9. PICK v : v = [i \in 1..n |-> TRUE]
  OBVIOUS
<1>10. ASSUME NEW i \in 1..n PROVE c[i] # IllFormed /\ m_same(c[i].ts) = TRUE
  <2>1. PICK r \in Seq(X) : r = Row(Ls, 2, i)
    <3>1. 2 \in 0..Len(Ls)
      BY <1>5
    <3> QED BY <1>5, <1>6, <3>1, RowIs
  <2>2. m_list(r) \in Lists(X) /\ m_list(r).ts = r
    BY MListOf
  <2>3. \A k \in DOMAIN r : r[k] = s[i]
    <3>1. r = [k \in 1..2 |-> Ls[k].ts[i]]
      BY <2>1 DEF Row
    <3>2. \A k \in 1..2 : Ls[k] = L
      BY <1>5
    <3> QED BY <1>1, <3>1, <3>2
  <2>4. 1 \in DOMAIN r
    BY <2>1 DEF Row
  <2>5. m_same(r)
    BY <2>3, <2>4 DEF m_same
  <2> QED BY <1>7, <2>1, <2>2, <2>5
<1>11. m_transform(m_same, Ls) = [of |-> L.of, ts |-> v]
  <2>1. Combinable(Ls)
    <3>1. Len(Ls[1].ts) = n
      BY <1>1, <1>5
    <3> QED BY <1>5, <1>6, <3>1, CombinableIs
  <2>2. C.ts = c /\ DOMAIN c = 1..n
    <3>1. C.ts = c
      BY ONLY <1>8
    <3>2. DOMAIN c = 1..n
      BY ONLY <1>7
    <3> QED BY <3>1, <3>2
  <2>3. [i \in DOMAIN C.ts |-> m_apply(m_same, C.ts[i])] = v
    BY <1>9, <1>10, <2>2 DEF m_apply, m_valid
  <2>4. IllFormed \notin ToSet(v)
    BY <1>9 DEF ToSet
  <2>5. [C EXCEPT !.ts = v] = [of |-> L.of, ts |-> v]
    BY <1>8
  <2> QED BY <1>5, <1>8, <2>1, <2>3, <2>4, <2>5 DEF m_transform, Spread
<1>12. m_valid([of |-> L.of, ts |-> v])
  <2>1. v \in [1..n -> BOOLEAN]
    BY ONLY <1>9
  <2>2. v \in Seq(BOOLEAN) /\ L.of \in Templates
    <3>1. v \in Seq(BOOLEAN)
      BY ONLY <2>1, n \in Nat
    <3> QED BY <3>1, ListsAre
  <2>3. [of |-> L.of, ts |-> v] \in Lists(BOOLEAN)
    BY <2>2, ListOf
  <2> QED BY <2>3 DEF m_valid
<1>13. m_filter(m_same, Ls) = Kept(L, v)
  BY <1>5, <1>11, <1>12 DEF m_filter
<1>14. Kept(L, v) = L
  <2>1. Verdicts(v, L) /\ {i \in 1..Len(L.ts) : v[i]} = 1..Len(s)
    BY <1>1, <1>9 DEF Verdicts
  <2>2. PICK K \in Lists(X) : K = Kept(L, v) /\ K.of = "m_list" /\ Selects(K.ts, s, 1..Len(s))
    <3>1. /\ Kept(L, v) \in Lists(X) /\ Kept(L, v).of = "m_list"
          /\ Selects(Kept(L, v).ts, L.ts, {i \in 1..Len(L.ts) : v[i]})
      BY <2>1, KeptIs
    <3> QED BY ONLY <1>1, <2>1, <3>1
  <2>3. K.ts \in Seq(X) /\ K = [of |-> K.of, ts |-> K.ts]
    BY ListsAre
  <2>4. K.ts = s
    BY <2>2, <2>3, SelectsAll
  <2> QED BY ONLY <1>2, <2>2, <2>3, <2>4, L.of = "m_list"
<1> QED BY ONLY <1>3, <1>4, <1>13, <1>14

-------------------------------------------------------------------------------
(* Truth values.                                                           *)

LEMMA MinIn ==
  ASSUME NEW s \in SUBSET Nat, s # {}
  PROVE  Min(s) \in s /\ \A x \in s : Min(s) <= x
<1>1. PICK m \in s : \A x \in s : <<x, m>> \notin OpToRel(<, Nat)
  BY NatLessThanWellFounded, WFMin
<1>2. ASSUME NEW x \in s PROVE m <= x
  <2>1. <<x, m>> \notin OpToRel(<, Nat) /\ x \in Nat /\ m \in Nat
    BY <1>1
  <2>2. ~(x < m)
    BY <2>1 DEF OpToRel
  <2>3. PICK i \in Nat, j \in Nat : i = x /\ j = m
    BY <2>1
  <2>4. ~(i < j)
    BY <2>2, <2>3
  <2>5. j <= i
    BY ONLY i \in Nat, j \in Nat, <2>4
  <2> QED BY <2>3, <2>5
<1>3. \A y \in s : (\A x \in s : y <= x) => y = m
  <2>1. ASSUME NEW y \in s, \A x \in s : y <= x PROVE y = m
    <3>1. y <= m /\ m <= y /\ y \in Nat /\ m \in Nat
      BY <1>2, <2>1
    <3> QED BY <3>1
  <2> QED BY <2>1
<1>4. Min(s) = m
  BY <1>2, <1>3 DEF Min
<1> QED BY <1>2, <1>4

\* The short circuits on values that exist.
LEMMA OrAndIs ==
  ASSUME IllFormed \notin BOOLEAN, NEW b \in Seq(BOOLEAN)
  PROVE  /\ m_or(b) = m_any(b) /\ m_and(b) = m_all(b)
         /\ m_any(b) \in BOOLEAN /\ (m_any(b) <=> \E i \in 1..Len(b) : b[i])
<1>1. PICK n \in Nat : n = Len(b) /\ DOMAIN b = 1..n /\ \A i \in 1..n : b[i] \in BOOLEAN
  BY ElementOfSeq
<1>2. IllFormed \notin ToSet(b)
  BY <1>1 DEF ToSet
<1>3. PICK T : T = {i \in DOMAIN b : b[i] # FALSE}
  OBVIOUS
<1>4. T \in SUBSET Nat /\ \A i : i \in T <=> i \in 1..n /\ b[i] = TRUE
  <2>1. T = {i \in 1..n : b[i] # FALSE}
    BY ONLY <1>1, <1>3
  <2>2. 1..n \subseteq Nat
    OBVIOUS
  <2> QED BY ONLY <1>1, <2>1, <2>2
<1>5. m_any(b) = (T # {})
  <2>1. TRUE \in ToSet(b) <=> \E i \in 1..n : b[i] = TRUE
    BY <1>1 DEF ToSet
  <2>2. m_any(b) \in BOOLEAN /\ (m_any(b) <=> TRUE \in ToSet(b))
    BY <1>2 DEF m_any
  <2>3. m_any(b) <=> T # {}
    BY <1>4, <2>1, <2>2
  <2> QED BY ONLY <2>2, <2>3
<1>6. m_or(b) = (T # {})
  <2>1. CASE T = {}
    BY <1>3, <2>1 DEF m_or
  <2>2. CASE T # {}
    <3>1. PICK i : i \in T /\ i = Min(T)
      BY <1>4, <2>2, MinIn
    <3>2. m_or(b) = b[Min(T)]
      BY <1>3, <2>2 DEF m_or
    <3> QED BY <1>4, <2>2, <3>1, <3>2
  <2> QED BY <2>1, <2>2
<1>7. T # {} <=> \E i \in 1..n : b[i]
  BY <1>1, <1>4
<1>8. m_and(b) = m_all(b)
  <2>1. ToSet(b) \subseteq BOOLEAN
    BY <1>1 DEF ToSet
  <2>2. ToSet(b) \subseteq {TRUE} <=> FALSE \notin ToSet(b)
    BY <2>1
  <2> QED BY <1>2, <2>2 DEF m_and, m_all
<1> QED BY ONLY <1>1, <1>5, <1>6, <1>7, <1>8

\* And behind them one that does not.
LEMMA ShortCircuits ==
  ASSUME IllFormed \notin BOOLEAN, NEW b \in Seq(BOOLEAN), NEW c, c = Append(b, IllFormed)
  PROVE  /\ m_or(c) = IF m_any(b) THEN TRUE ELSE IllFormed
         /\ ~m_and(c) /\ ~m_valid(m_all(c))
<1>1. PICK n \in Nat : n = Len(b) /\ DOMAIN b = 1..n /\ \A i \in 1..n : b[i] \in BOOLEAN
  BY ElementOfSeq
<1>2. PICK Y : Y = BOOLEAN \union {IllFormed}
  OBVIOUS
<1>3. b \in Seq(Y) /\ IllFormed \in Y
  <2>1. \A i \in 1..n : b[i] \in Y
    BY <1>1, <1>2
  <2>2. b = [i \in 1..n |-> b[i]]
    BY <1>1
  <2>3. [i \in 1..n |-> b[i]] \in Seq(Y)
    BY <2>1
  <2> QED BY <1>2, <2>2, <2>3
<1>4. c \in Seq(Y) /\ Len(c) = n + 1 /\ DOMAIN c = 1..n + 1
      /\ c[n + 1] = IllFormed /\ \A i \in 1..n : c[i] = b[i]
  <2>1. c \in Seq(Y) /\ Len(c) = n + 1 /\ c[n + 1] = IllFormed /\ \A i \in 1..n : c[i] = b[i]
    BY <1>1, <1>3, AppendProperties
  <2> QED BY <2>1, LenProperties
<1>5. IllFormed \in ToSet(c)
  <2>1. n + 1 \in DOMAIN c
    BY <1>4
  <2> QED BY <1>4, <2>1 DEF ToSet
<1>6. ~m_and(c) /\ ~m_valid(m_all(c))
  BY <1>5 DEF m_and, m_all, m_valid
<1>7. PICK T : T = {i \in DOMAIN c : c[i] # FALSE}
  OBVIOUS
<1>8. T \in SUBSET Nat /\ T \subseteq 1..n + 1 /\ n + 1 \in T
  <2>1. n + 1 \in DOMAIN c /\ DOMAIN c \subseteq Nat
    BY <1>4
  <2>2. c[n + 1] # FALSE
    BY <1>4
  <2>3. T \subseteq DOMAIN c /\ n + 1 \in T
    BY <1>7, <2>1, <2>2
  <2> QED BY <1>4, <2>1, <2>3
<1>9. PICK m \in T : m = Min(T) /\ \A x \in T : m <= x
  BY <1>8, MinIn
<1>10. m_or(c) = c[m]
  BY <1>7, <1>8, <1>9 DEF m_or
<1>11. m_any(b) <=> \E i \in 1..n : b[i]
  BY <1>1, OrAndIs
<1>12. CASE \E i \in 1..n : b[i]
  <2>1. PICK i \in 1..n : b[i]
    BY <1>12
  <2>2. b[i] = TRUE
    BY <1>1, <2>1
  <2>3. i \in T
    <3>1. i \in DOMAIN c /\ c[i] = TRUE
      BY <1>4, <2>2
    <3> QED BY <1>7, <3>1
  <2>4. m \in 1..n
    <3>1. m <= i /\ m \in 1..n + 1
      BY <1>8, <1>9, <2>3
    <3> QED BY <3>1
  <2>5. c[m] = TRUE
    BY <1>1, <1>4, <1>7, <2>4
  <2> QED BY <1>6, <1>10, <1>11, <1>12, <2>5
<1>13. CASE ~\E i \in 1..n : b[i]
  <2>1. \A i \in 1..n : i \notin T
    BY <1>1, <1>4, <1>7, <1>13
  <2>2. m = n + 1
    BY <1>8, <1>9, <2>1
  <2> QED BY <1>4, <1>6, <1>10, <1>11, <1>13, <2>2
<1> QED BY <1>12, <1>13

\* What is contained is what is counted at least once.
LEMMA ContainsIs ==
  ASSUME NEW X, IllFormed \notin BOOLEAN, IllFormed \notin Nat, NEW L \in Lists(X), NEW t
  PROVE  m_contains(L, t) = IF L.ts = <<>> THEN IllFormed ELSE m_any(Is(L.ts, t))
<1>1. PICK s \in Seq(X), n \in Nat : s = L.ts /\ n = Len(s)
  <2>1. L.ts \in Seq(X)
    BY ListsAre
  <2> QED BY <2>1
<1>2. PICK A : A = Those(L, t) /\ A = {i \in 1..n : s[i] = t}
  BY <1>1 DEF Those
<1>3. PICK a : Split(L, t, a)
  BY CountIs
<1>4. a \in Nat /\ (a > 0 <=> A # {}) /\ m_count(L, t) = IF s = <<>> THEN IllFormed ELSE a
  BY ONLY <1>1, <1>2, <1>3 DEF Split
<1>5. CASE s = <<>>
  BY <1>1, <1>4, <1>5 DEF m_contains, m_valid
<1>6. CASE s # <<>>
  <2>1. m_contains(L, t) = (a > 0)
    BY <1>4, <1>6 DEF m_contains, m_valid
  <2>2. PICK b \in Seq(BOOLEAN) : b = Is(s, t) /\ Len(b) = n /\ \A i \in 1..n : b[i] = (s[i] = t)
    BY <1>1, IsIs
  <2>3. m_any(b) \in BOOLEAN /\ (m_any(b) <=> \E i \in 1..n : b[i])
    BY <2>2, OrAndIs
  <2>4. A # {} <=> \E i \in 1..n : b[i]
    BY <1>2, <2>2
  <2>5. m_any(b) = (a > 0)
    BY ONLY <1>4, <2>3, <2>4
  <2> QED BY <1>1, <1>6, <2>1, <2>2, <2>5
<1> QED BY <1>5, <1>6

(* unique keeps the first of each type, filter and count split a list between *)
(* them, and the short circuits are any and all, up to a type that does not   *)
(* exist, of every list that can be built (meta.hpp).                         *)
THEOREM SelectionsInvariant == ListSpec => []SelectionsAgree
<1>1. ListTypeOK => SelectionsAgree
  <2>1. SUFFICES ASSUME ListTypeOK PROVE SelectionsAgree
    OBVIOUS
  <2>2. PICK L \in Lists(Items) : L = list /\ L.of = "m_list"
    BY <2>1 DEF ListTypeOK
  <2>3. /\ IllFormed \notin Lists(Items) /\ IllFormed \notin Lists(BOOLEAN)
        /\ IllFormed \notin Items /\ IllFormed \notin BOOLEAN /\ IllFormed \notin Nat
    BY MetaAssumption
  <2>4. PICK s \in Seq(Items), n \in Nat : s = L.ts /\ n = Len(s)
    <3>1. L.ts \in Seq(Items)
      BY ListsAre
    <3> QED BY <3>1
  <2>5. Selects(m_unique(L).ts, s, Firsts(s))
    BY <2>4, UniqueSelects
  <2>6. ASSUME NEW t \in Items, NEW is, is = Is(s, t)
        PROVE  /\ s = <<>> =>
                    ~m_valid(Without(L, t)) /\ ~m_valid(m_count(L, t)) /\ ~m_valid(m_contains(L, t))
               /\ s # <<>> =>
                    /\ Without(L, t).of = "m_list"
                    /\ Selects(Without(L, t).ts, s, {i \in DOMAIN is : ~is[i]})
                    /\ m_count(L, t) + m_size(Without(L, t)) = m_size(L)
                    /\ m_contains(L, t) = m_any(is)
                    /\ m_filter(m_same, <<L, m_transform_if(LAMBDA args : IllFormed,
                                                  LAMBDA args : FALSE, <<L>>)>>) = L
               /\ m_or(is) = m_any(is) /\ m_and(is) = m_all(is)
               /\ m_or(Append(is, IllFormed)) = IF m_any(is) THEN TRUE ELSE IllFormed
               /\ ~m_and(Append(is, IllFormed))
               /\ ~m_valid(m_all(Append(is, IllFormed)))
    <3>1. PICK B : B = Others(L, t) /\ B = {i \in 1..n : s[i] # t}
      BY <2>4 DEF Others
    <3>2. is \in Seq(BOOLEAN) /\ DOMAIN is = 1..n /\ \A i \in 1..n : is[i] = (s[i] = t)
      BY <2>4, <2>6, IsIs
    <3>3. {i \in DOMAIN is : ~is[i]} = B
      BY <3>1, <3>2
    <3>4. /\ s = <<>> => Without(L, t) = IllFormed
          /\ s # <<>> => Without(L, t).of = "m_list" /\ Selects(Without(L, t).ts, s, B)
      BY <2>3, <2>4, <3>1, WithoutIs
    <3>5. m_count(L, t) = IllFormed \/ s # <<>>
      <4>1. PICK a : Split(L, t, a)
        BY <2>3, CountIs
      <4> QED BY ONLY <2>4, <4>1 DEF Split
    <3>6. m_contains(L, t) = IF s = <<>> THEN IllFormed ELSE m_any(is)
      BY <2>3, <2>4, <2>6, ContainsIs
    <3>7. ASSUME s = <<>>
          PROVE  ~m_valid(Without(L, t)) /\ ~m_valid(m_count(L, t)) /\ ~m_valid(m_contains(L, t))
      BY <3>4, <3>5, <3>6, <3>7 DEF m_valid
    <3>8. ASSUME s # <<>> PROVE m_count(L, t) + m_size(Without(L, t)) = m_size(L)
      <4>1. PICK a : Split(L, t, a)
        BY <2>3, CountIs
      <4>2. m_size(Without(L, t)) = Cardinality(B)
        BY <3>4, <3>8 DEF Selects, m_size
      <4>3. m_count(L, t) = a /\ a + Cardinality(B) = m_size(L)
        BY ONLY <2>4, <3>1, <3>8, <4>1 DEF Split
      <4> QED BY ONLY <4>2, <4>3
    <3>9. ASSUME s # <<>>
          PROVE  m_filter(m_same, <<L, m_transform_if(LAMBDA args : IllFormed,
                                            LAMBDA args : FALSE, <<L>>)>>) = L
      BY <2>2, <2>3, <2>4, <3>9, SameKept
    <3>10. m_or(is) = m_any(is) /\ m_and(is) = m_all(is)
      BY <2>3, <3>2, OrAndIs
    <3>11. /\ m_or(Append(is, IllFormed)) = IF m_any(is) THEN TRUE ELSE IllFormed
           /\ ~m_and(Append(is, IllFormed)) /\ ~m_valid(m_all(Append(is, IllFormed)))
      BY <2>3, <3>2, ShortCircuits
    <3> QED BY ONLY <3>3, <3>4, <3>6, <3>7, <3>8, <3>9, <3>10, <3>11
  <2> QED BY <2>2, <2>4, <2>5, <2>6 DEF SelectionsAgree
<1> QED BY <1>1, ListTypeInvariant, PTL

-------------------------------------------------------------------------------
(* What then() lists.                                                      *)

LEMMA NothingCombines ==
  ~Combinable(<<IllFormed>>)
<1>1. <<IllFormed>>[1] = IllFormed /\ DOMAIN <<IllFormed>> = {1}
  OBVIOUS
<1> QED BY <1>1 DEF Combinable, ToSet

LEMMA NothingIsValid ==
  is_valid_signature_list(IllFormed) = IllFormed
BY NothingCombines DEF is_valid_signature_list, m_transform, m_apply, m_valid

LEMMA BothValid ==
  ASSUME NEW a, NEW b
  PROVE  m_all(<<a, b>>) = TRUE <=> a # IllFormed /\ b # IllFormed /\ a # FALSE /\ b # FALSE
<1>1. ToSet(<<a, b>>) = {a, b}
  BY DEF ToSet
<1> QED BY <1>1, Kinds DEF m_all

LEMMA ErrorTypes ==
  ASSUME NEW Fns \in Lists(Proper), Fns.ts # <<>>
  PROVE  /\ error_types(m_list, Fns) \in Lists(Types)
         /\ \A t : t \in ToSet(error_types(m_list, Fns).ts) <=> ArgsOf(t, "error", Fns)
<1>1. PICK V : V = tag_args_t("error", Fns)
  OBVIOUS
<1>2. V \in Lists(Types) /\ \A y : y \in ToSet(V.ts) <=> ArgsOf(y, "error", Fns)
  BY <1>1, TagArgs
<1>3. V.ts \in Seq(Types) /\ V # IllFormed
  BY <1>2, ListsAre, Kinds, NotIllFormed
<1>4. error_types(m_list, Fns) = m_list(V.ts)
  BY <1>1, <1>3 DEF error_types, m_apply, m_valid
<1> QED BY <1>2, <1>3, <1>4, MListOf

HasTag(Fns, tag) == \E s \in ToSet(Fns.ts) : s.tag = tag

LEMMA SendsStopped ==
  ASSUME NEW Fns \in Lists(Proper)
  PROVE  sends_stopped(Fns) \in BOOLEAN /\ (sends_stopped(Fns) = TRUE <=> HasTag(Fns, "stopped"))
<1>1. DOMAIN Fns.ts = 1..Len(Fns.ts)
  BY ListsAre
<1>2. PICK b : b = [i \in DOMAIN Fns.ts |-> Fns.ts[i].tag = "stopped"]
  OBVIOUS
<1>3. ASSUME NEW i \in DOMAIN Fns.ts PROVE equal_tag(<<"stopped", Fns.ts[i]>>) = b[i]
  <2>1. PICK q : q = <<"stopped", Fns.ts[i]>>
    OBVIOUS
  <2>2. q[1] = "stopped" /\ q[2] = Fns.ts[i]
    BY <2>1
  <2>3. equal_tag(q) = m_same(<<"stopped", Fns.ts[i].tag>>)
    BY <2>2 DEF equal_tag
  <2>4. PICK r : r = <<"stopped", Fns.ts[i].tag>>
    OBVIOUS
  <2>5. DOMAIN r = {1, 2} /\ r[1] = "stopped" /\ r[2] = Fns.ts[i].tag
    BY <2>4
  <2>6. m_same(r) = (Fns.ts[i].tag = "stopped")
    BY <2>5 DEF m_same
  <2> QED BY <1>2, <2>1, <2>3, <2>4, <2>6
<1>4. sends_stopped(Fns) = m_any(b)
  BY <1>2, <1>3 DEF sends_stopped
<1>5. IllFormed \notin ToSet(b)
  BY <1>2, Kinds DEF ToSet
<1>6. TRUE \in ToSet(b) <=> \E i \in DOMAIN Fns.ts : b[i] = TRUE
  BY <1>2 DEF ToSet
<1>7. \A i \in DOMAIN Fns.ts : b[i] = TRUE <=> Fns.ts[i].tag = "stopped"
  BY <1>2
<1>8. HasTag(Fns, "stopped") <=> \E i \in DOMAIN Fns.ts : Fns.ts[i].tag = "stopped"
  BY DEF ToSet, HasTag
<1>9. TRUE \in ToSet(b) <=> HasTag(Fns, "stopped")
  BY <1>6, <1>7, <1>8
<1>10. sends_stopped(Fns) = (TRUE \in ToSet(b))
  BY <1>4, <1>5 DEF m_any
<1>11. sends_stopped(Fns) \in BOOLEAN
  BY <1>10
<1>12. sends_stopped(Fns) = TRUE <=> TRUE \in ToSet(b)
  BY <1>10
<1> QED BY <1>9, <1>11, <1>12

LEMMA ProperSignals ==
  ASSUME NEW s \in Proper
  PROVE  /\ s.tag \in {"value", "error", "stopped"}
         /\ s.tag = "error" => s = Sig("error", <<args_t(s)>>) /\ args_t(s) \in Types
         /\ s.tag = "stopped" => s = Stopped
<1>1. s.tag \in {"value", "error", "stopped"} /\ s.args \in Seq(Types) /\ s = [tag |-> s.tag, args |-> s.args]
  BY DEF Proper, Signals
<1>2. ASSUME s.tag = "error" PROVE s = Sig("error", <<args_t(s)>>) /\ args_t(s) \in Types
  <2>1. Len(s.args) = 1
    BY <1>2 DEF Proper, validate_tag_args
  <2>2. 1 \in DOMAIN s.args /\ s.args[1] \in Types
    BY <1>1, <2>1, FirstOfOne
  <2>3. args_t(s) = s.args[1]
    BY <1>1, <1>2, <2>2, MListOf DEF args_t, m_nth
  <2>4. s.args = <<s.args[1]>>
    BY <1>1, <2>1
  <2> QED BY <1>1, <1>2, <2>2, <2>3, <2>4 DEF Sig
<1>3. ASSUME s.tag = "stopped" PROVE s = Stopped
  <2>1. s.args = <<>>
    BY <1>3 DEF Proper, validate_tag_args
  <2> QED BY <1>1, <1>3, <2>1 DEF Stopped, Sig
<1> QED BY <1>1, <1>2, <1>3

LEMMA FixedSignals ==
  Error \in Proper /\ Stopped \in Proper
<1>1. Eptr \in Types
  BY SignaturesAssumption
<1>2. PICK a : a = <<Eptr>>
  OBVIOUS
<1>3. a \in Seq(Types) /\ Len(a) = 1
  BY <1>1, <1>2
<1>4. Error \in Proper
  BY <1>2, <1>3 DEF Error, Proper, Signals, Sig, validate_tag_args
<1>5. PICK z : z = <<>>
  OBVIOUS
<1>6. z \in Seq(Types)
  BY <1>5
<1>7. Stopped \in Proper
  BY <1>5, <1>6 DEF Stopped, Proper, Signals, Sig, validate_tag_args
<1> QED BY <1>4, <1>7

TagsOf(sigs) == {s.tag : s \in sigs}

LEMMA RenameIs ==
  ASSUME NEW X, NEW L \in Lists(X)
  PROVE  /\ m_rename(L, "completion_signatures") \in Lists(X)
         /\ m_rename(L, "completion_signatures").ts = L.ts
BY DEF m_rename, Lists, Templates

(* What then() lists above a sender, of what is listed below it.             *)
LEMMA ThenIs ==
  ASSUME NEW Fns \in Lists(Proper), NEW f \in Functions, NEW E, NEW R, R = then_signatures(Fns, f, E)
  PROVE  /\ m_valid(R) <=> {"value", "error"} \subseteq TagsOf(ToSet(Fns.ts)) /\ CanTake(f, ToSet(Fns.ts))
         /\ m_valid(R) => /\ R \in Lists(Proper)
                          /\ ToSet(R.ts) = Through(f, ToSet(Fns.ts))
                          /\ OnceEach(R.ts)
<1>1. m_valid(Fns) /\ Known(Fns) /\ has_sender_types(Fns)
  <2>1. m_valid(Fns)
    BY ProperAre, NotIllFormed DEF m_valid
  <2>2. "ts" \in DOMAIN Fns
    BY DEF Lists
  <2> QED BY <2>1, <2>2 DEF Known, has_sender_types
<1>2. PICK VT : VT = value_types(LAMBDA args : set_value_tuple(f, args), m_list, Fns)
  OBVIOUS
<1>3. PICK ET : ET = error_types(m_list, Fns)
  OBVIOUS
<1>4. PICK VS : VS = m_filter(not_void, <<VT>>)
  OBVIOUS
<1>5. PICK ES : ES = m_transform(default_set_error, <<m_filter(not_void, <<ET>>)>>)
  OBVIOUS
<1>6. PICK stopped : stopped = (Known(Fns) /\ sends_stopped(Fns))
  OBVIOUS
<1>7. stopped \in BOOLEAN /\ (stopped = TRUE <=> HasTag(Fns, "stopped"))
  BY <1>1, <1>6, SendsStopped
<1>8. PICK SS : SS = m_if(stopped, m_list(<<Sig("stopped", <<>>)>>), <<m_list(<<>>)>>)
  OBVIOUS
<1>9. PICK AA : AA = completion_signatures(<<Error>>)
  OBVIOUS
<1>10. R = Adapted(VS, ES, stopped, AA)
  BY <1>1, <1>2, <1>3, <1>4, <1>5, <1>6, <1>9 DEF then_signatures, make_completion_signatures
<1>11. R = IF m_all(<<is_valid_signature_list(VS), is_valid_signature_list(ES)>>) = TRUE
           THEN m_rename(m_unique(m_concat(<<VS, ES, SS, AA>>)), "completion_signatures")
           ELSE IllFormed
  BY <1>8, <1>10 DEF Adapted
<1>12. /\ Fns.ts \in Seq(Proper) /\ \A s \in ToSet(Fns.ts) : s \in Proper
  BY ListsAre DEF ToSet
<1>13. Fns.ts = <<>> \/ ~HasTag(Fns, "value") \/ ~CanTake(f, ToSet(Fns.ts)) => VS = IllFormed
  <2>1. VT = IllFormed => VS = IllFormed
    BY <1>4, NothingCombines DEF m_filter, m_transform, m_valid
  <2>2. ASSUME Fns.ts = <<>> PROVE VT = IllFormed
    <3>1. Proper \subseteq Signals
      BY DEF Proper
    <3>2. tag_sigs_t("value", Fns) = IllFormed
      BY <2>2, <3>1, TagSigs
    <3>3. tag_args_t("value", Fns) = IllFormed
      BY <3>2, NothingCombines DEF tag_args_t, m_transform
    <3> QED BY <1>2, <3>3, NothingCombines DEF value_types, m_transform, m_apply, m_valid
  <2>3. ASSUME Fns.ts # <<>>, ~CanTake(f, ToSet(Fns.ts)) PROVE VT = IllFormed
    BY <1>2, <2>3, ValueTypes
  <2>4. ASSUME Fns.ts # <<>>, CanTake(f, ToSet(Fns.ts)), ~HasTag(Fns, "value") PROVE VS = IllFormed
    <3>1. VT \in Lists(Proper) /\ \A y : y \in ToSet(VT.ts) <=> Sends(f, Fns, y)
      BY <1>2, <2>4, ValueTypes
    <3>2. ToSet(VT.ts) = {}
      BY <2>4, <3>1 DEF Sends, HasTag
    <3>3. VT.ts = <<>>
      BY <3>1, <3>2, ListsAre, Empty
    <3> QED BY <1>4, <3>1, <3>3, ProperAre, NotVoids
  <2> QED BY <2>1, <2>2, <2>3, <2>4
<1>14. Fns.ts = <<>> \/ ~HasTag(Fns, "error") => ES = IllFormed
  <2>1. m_filter(not_void, <<ET>>) = IllFormed => ES = IllFormed
    BY <1>5, NothingCombines DEF m_transform
  <2>2. ASSUME Fns.ts = <<>> PROVE m_filter(not_void, <<ET>>) = IllFormed
    <3>1. Proper \subseteq Signals
      BY DEF Proper
    <3>2. tag_sigs_t("error", Fns) = IllFormed
      BY <2>2, <3>1, TagSigs
    <3>3. tag_args_t("error", Fns) = IllFormed
      BY <3>2, NothingCombines DEF tag_args_t, m_transform
    <3>4. ET = IllFormed
      BY <1>3, <3>3 DEF error_types, m_apply, m_valid
    <3> QED BY <3>4, NothingCombines DEF m_filter, m_transform, m_valid
  <2>3. ASSUME Fns.ts # <<>>, ~HasTag(Fns, "error") PROVE m_filter(not_void, <<ET>>) = IllFormed
    <3>1. ET \in Lists(Types) /\ \A t : t \in ToSet(ET.ts) <=> ArgsOf(t, "error", Fns)
      BY <1>3, <2>3, ErrorTypes
    <3>2. ToSet(ET.ts) = {}
      BY <2>3, <3>1 DEF ArgsOf, HasTag
    <3>3. ET.ts = <<>>
      BY <3>1, <3>2, ListsAre, Empty
    <3> QED BY <3>1, <3>3, Kinds, NotVoids
  <2> QED BY <2>1, <2>2, <2>3
<1>15. {"value", "error"} \subseteq TagsOf(ToSet(Fns.ts)) <=> HasTag(Fns, "value") /\ HasTag(Fns, "error")
  BY DEF TagsOf, HasTag
<1>16. ASSUME ~(HasTag(Fns, "value") /\ HasTag(Fns, "error") /\ CanTake(f, ToSet(Fns.ts)))
       PROVE  R = IllFormed
  <2>1. VS = IllFormed \/ ES = IllFormed
    BY <1>13, <1>14, <1>16
  <2>2. is_valid_signature_list(VS) = IllFormed \/ is_valid_signature_list(ES) = IllFormed
    BY <2>1, NothingIsValid
  <2> QED BY <1>11, <2>2, BothValid
<1>17. ASSUME HasTag(Fns, "value"), HasTag(Fns, "error"), CanTake(f, ToSet(Fns.ts))
       PROVE  /\ R \in Lists(Proper) /\ OnceEach(R.ts)
              /\ ToSet(R.ts) = Through(f, ToSet(Fns.ts))
  <2>1. Fns.ts # <<>>
    BY <1>17 DEF HasTag, ToSet
  <2>2. VS \in Lists(Proper) /\ \A y : y \in ToSet(VS.ts) <=> y = ValueOf(f.gives)
    <3>1. VT \in Lists(Proper) /\ \A y : y \in ToSet(VT.ts) <=> Sends(f, Fns, y)
      BY <1>2, <1>17, <2>1, ValueTypes
    <3>2. \A y : Sends(f, Fns, y) <=> y = ValueOf(f.gives)
      BY <1>17 DEF Sends, HasTag
    <3>3. VT.ts # <<>>
      BY <3>1, <3>2 DEF ToSet
    <3>4. VS \in Lists(Proper) /\ \A y : y \in ToSet(VS.ts) <=> y \in ToSet(VT.ts)
      BY <1>4, <3>1, <3>3, ProperAre, NotVoids
    <3> QED BY <3>1, <3>2, <3>4
  <2>3. ES \in Lists(Proper) /\ \A y : y \in ToSet(ES.ts) <=> y \in ToSet(Fns.ts) /\ y.tag = "error"
    <3>1. ET \in Lists(Types) /\ \A t : t \in ToSet(ET.ts) <=> ArgsOf(t, "error", Fns)
      BY <1>3, <2>1, ErrorTypes
    <3>2. ET.ts # <<>>
      <4>1. PICK s \in ToSet(Fns.ts) : s.tag = "error"
        BY <1>17 DEF HasTag
      <4>2. args_t(s) \in ToSet(ET.ts)
        BY <3>1, <4>1 DEF ArgsOf
      <4> QED BY <4>2 DEF ToSet
    <3>3. PICK EF : EF = m_filter(not_void, <<ET>>)
      OBVIOUS
    <3>4. EF \in Lists(Types) /\ \A t : t \in ToSet(EF.ts) <=> ArgsOf(t, "error", Fns)
      BY <3>1, <3>2, <3>3, Kinds, NotVoids
    <3>5. ES \in Lists(Proper) /\ \A y : y \in ToSet(ES.ts) <=> \E t \in ToSet(EF.ts) : y = Sig("error", <<t>>)
      BY <1>5, <3>3, <3>4, ErrorSigs
    <3>6. ASSUME NEW y, y \in ToSet(ES.ts) PROVE y \in ToSet(Fns.ts) /\ y.tag = "error"
      <4>1. PICK t \in ToSet(EF.ts) : y = Sig("error", <<t>>)
        BY <3>5, <3>6
      <4>2. PICK s \in ToSet(Fns.ts) : s.tag = "error" /\ t = args_t(s)
        BY <3>4, <4>1 DEF ArgsOf
      <4>3. s = Sig("error", <<t>>)
        BY <1>12, <4>2, ProperSignals
      <4> QED BY <4>1, <4>2, <4>3
    <3>7. ASSUME NEW y, y \in ToSet(Fns.ts), y.tag = "error" PROVE y \in ToSet(ES.ts)
      <4>1. y = Sig("error", <<args_t(y)>>)
        BY <1>12, <3>7, ProperSignals
      <4>2. args_t(y) \in ToSet(EF.ts)
        BY <3>4, <3>7 DEF ArgsOf
      <4> QED BY <3>5, <4>1, <4>2
    <3> QED BY <3>5, <3>6, <3>7
  <2>4. SS \in Lists(Proper) /\ \A y : y \in ToSet(SS.ts) <=> y = Stopped /\ HasTag(Fns, "stopped")
    <3>1. PICK one : one = <<Stopped>>
      OBVIOUS
    <3>2. PICK none : none = <<>>
      OBVIOUS
    <3>3. one \in Seq(Proper) /\ none \in Seq(Proper) /\ ToSet(one) = {Stopped} /\ ToSet(none) = {}
      BY <3>1, <3>2, FixedSignals DEF ToSet
    <3>4. SS = m_if(stopped, m_list(one), <<m_list(none)>>)
      BY <1>8, <3>1, <3>2 DEF Stopped
    <3>5. CASE HasTag(Fns, "stopped")
      <4>1. SS = m_list(one)
        BY <1>7, <3>4, <3>5, Kinds DEF m_if
      <4> QED BY <3>3, <3>5, <4>1, MListOf
    <3>6. CASE ~HasTag(Fns, "stopped")
      <4>1. stopped = FALSE
        BY <1>7, <3>6
      <4>2. <<m_list(none)>> # <<>> /\ Head(<<m_list(none)>>) = m_list(none)
        OBVIOUS
      <4>3. SS = m_list(none)
        BY <3>4, <4>1, <4>2, Kinds DEF m_if
      <4> QED BY <3>3, <3>6, <4>3, MListOf
    <3> QED BY <3>5, <3>6
  <2>5. AA \in Lists(Proper) /\ ToSet(AA.ts) = {Error}
    <3>1. PICK one : one = <<Error>>
      OBVIOUS
    <3>2. one \in Seq(Proper) /\ ToSet(one) = {Error}
      BY <3>1, FixedSignals DEF ToSet
    <3>3. AA = m_rename(m_list(one), "completion_signatures")
      BY <1>9, <3>1 DEF completion_signatures
    <3> QED BY <3>2, <3>3, RenameIs, MListOf
  <2>6. PICK W : W = m_concat(<<VS, ES, SS, AA>>)
    OBVIOUS
  <2>7. /\ W \in Lists(Proper)
        /\ ToSet(W.ts) = ToSet(VS.ts) \union ToSet(ES.ts) \union ToSet(SS.ts) \union ToSet(AA.ts)
    BY <2>2, <2>3, <2>4, <2>5, <2>6, ProperAre, NotIllFormed, ConcatFour
  <2>8. PICK U : U = m_unique(W)
    OBVIOUS
  <2>9. U \in Lists(Proper) /\ OnceEach(U.ts) /\ \A x : x \in ToSet(U.ts) <=> x \in ToSet(W.ts)
    BY <2>7, <2>8, UniqueIs
  <2>10. R = m_rename(U, "completion_signatures")
    <3>1. is_valid_signature_list(VS) = TRUE /\ is_valid_signature_list(ES) = TRUE
      BY <2>2, <2>3, ListIsValid
    <3>2. m_all(<<is_valid_signature_list(VS), is_valid_signature_list(ES)>>) = TRUE
      BY <3>1, BothValid, Kinds
    <3> QED BY <1>11, <2>6, <2>8, <3>2
  <2>11. R \in Lists(Proper) /\ R.ts = U.ts
    BY <2>9, <2>10, RenameIs
  <2>12. ASSUME NEW x PROVE x \in ToSet(W.ts) <=> x \in Through(f, ToSet(Fns.ts))
    <3>1. x \in ToSet(W.ts) <=> \/ x = ValueOf(f.gives) \/ x = Error
                                \/ x \in ToSet(Fns.ts) /\ x.tag = "error"
                                \/ x = Stopped /\ HasTag(Fns, "stopped")
      BY <2>2, <2>3, <2>4, <2>5, <2>7
    <3>2. x = Stopped /\ HasTag(Fns, "stopped") <=> x \in ToSet(Fns.ts) /\ x.tag = "stopped"
      <4>1. Stopped.tag = "stopped"
        BY DEF Stopped, Sig
      <4> QED BY <1>12, <4>1, ProperSignals DEF HasTag
    <3>3. x \in ToSet(Fns.ts) => x.tag \in {"value", "error", "stopped"}
      BY <1>12, ProperSignals
    <3>4. x \in Through(f, ToSet(Fns.ts)) <=> \/ x = Error \/ x = ValueOf(f.gives)
                                              \/ x \in ToSet(Fns.ts) /\ x.tag # "value"
      BY <1>17 DEF Through, HasTag
    <3> QED BY <3>1, <3>2, <3>3, <3>4
  <2> QED BY <2>9, <2>11, <2>12
<1>18. m_valid(R) <=> HasTag(Fns, "value") /\ HasTag(Fns, "error") /\ CanTake(f, ToSet(Fns.ts))
  BY <1>16, <1>17, ProperAre, NotIllFormed DEF m_valid
<1> QED BY <1>15, <1>16, <1>17, <1>18 DEF m_valid

-------------------------------------------------------------------------------
(* The signatures of a sender with its functions.                          *)

Values == Lists(Proper) \union {IllFormed} \union {Dependent(e) : e \in Environments}

LEMMA Dependents ==
  ASSUME NEW e \in Environments
  PROVE  /\ ~Known(Dependent(e)) /\ m_valid(Dependent(e)) /\ ~Known(IllFormed) /\ ~has_sender_types(IllFormed)
         /\ has_sender_types(Dependent(e)) <=> e = "no_env"
<1>1. ~Known(Dependent(e))
  BY DEF Known, Dependent
<1>2. m_valid(Dependent(e))
  BY SignaturesAssumption DEF m_valid
<1>3. Dependent(e) = Dependent("no_env") <=> e = "no_env"
  <2>1. Dependent(e).dependent_on = e /\ Dependent("no_env").dependent_on = "no_env"
    BY DEF Dependent
  <2> QED BY <2>1
<1> QED BY <1>1, <1>2, <1>3 DEF has_sender_types, Known, m_valid

LEMMA ListsKnown ==
  ASSUME NEW L \in Lists(Proper)
  PROVE  Known(L) /\ m_valid(L) /\ has_sender_types(L)
<1>1. m_valid(L)
  BY ProperAre, NotIllFormed DEF m_valid
<1>2. "ts" \in DOMAIN L
  BY DEF Lists
<1> QED BY <1>1, <1>2 DEF Known, has_sender_types

LEMMA ThenOfDependent ==
  ASSUME NEW f, NEW E, NEW e \in Environments
  PROVE  /\ then_signatures(Dependent("no_env"), f, E) = Dependent(E)
         /\ e # "no_env" => then_signatures(Dependent(e), f, E) = IllFormed
         /\ then_signatures(IllFormed, f, E) = IllFormed
<1>1. "no_env" \in Environments
  BY DEF Environments
<1> QED BY <1>1, Dependents DEF then_signatures, make_completion_signatures

LEMMA ThenIsValue ==
  ASSUME NEW v \in Values, NEW f \in Functions, NEW E \in Environments
  PROVE  then_signatures(v, f, E) \in Values
<1>1. CASE v \in Lists(Proper)
  <2>1. PICK R : R = then_signatures(v, f, E)
    OBVIOUS
  <2>2. m_valid(R) => R \in Lists(Proper)
    BY <1>1, <2>1, ThenIs
  <2> QED BY <2>1, <2>2 DEF Values, m_valid
<1>2. CASE v = IllFormed
  BY <1>2, ThenOfDependent DEF Values, Environments
<1>3. CASE v \in {Dependent(e) : e \in Environments}
  <2>1. PICK e \in Environments : v = Dependent(e)
    BY <1>3
  <2> QED BY <2>1, ThenOfDependent DEF Values
<1> QED BY <1>1, <1>2, <1>3 DEF Values

(* then() of known signatures is the same in every environment.              *)
LEMMA ThenEverywhere ==
  ASSUME NEW v \in Lists(Proper) \union {IllFormed}, NEW f, NEW E1, NEW E2
  PROVE  then_signatures(v, f, E1) = then_signatures(v, f, E2)
<1>1. Known(v) \/ v = IllFormed
  BY ListsKnown
<1>2. "no_env" \in Environments
  BY DEF Environments
<1>3. CASE v = IllFormed
  BY <1>2, <1>3, ThenOfDependent
<1>4. CASE Known(v)
  BY <1>4 DEF then_signatures, make_completion_signatures
<1> QED BY <1>1, <1>3, <1>4

LEMMA SignaturesOf ==
  ASSUME NEW s \in Seq(Proper)
  PROVE  completion_signatures(s) \in Lists(Proper) /\ completion_signatures(s).ts = s
BY MListOf, RenameIs DEF completion_signatures

LEMMA ValueIsProper ==
  ASSUME NEW a \in Seq(Types)
  PROVE  Sig("value", a) \in Proper
BY DEF Proper, Signals, Sig, validate_tag_args

LEMMA BaseIs ==
  ASSUME NEW b \in Bases, NEW E \in Environments
  PROVE  /\ b.kind # "read" => base_signatures(b, E) \in Lists(Proper)
         /\ b.kind = "read" => base_signatures(b, E) \in IF E = "env" THEN Lists(Proper) ELSE {Dependent("no_env")}
<1>1. b \in [kind : {"just", "awaitable"}, ts : Seq(Types)]
                  \union [kind : {"read", "schedule"}]
                  \union [kind : {"custom"}, sigs : Seq(Proper)]
  BY PipelineAssumption DEF Proper
<1>2. Answer \in Types
  BY PipelineAssumption
<1>3. PICK none : none = <<>>
  OBVIOUS
<1>4. none \in Seq(Types)
  BY <1>3
<1>5. PICK a : a = <<Answer>>
  OBVIOUS
<1>6. a \in Seq(Types)
  BY <1>2, <1>5
<1>7. ASSUME NEW t \in Seq(Types)
      PROVE  /\ completion_signatures(<<Sig("value", t), Error>>) \in Lists(Proper)
             /\ completion_signatures(<<Sig("value", t), Error, Stopped>>) \in Lists(Proper)
  <2>1. PICK x \in Proper : x = Sig("value", t)
    BY ValueIsProper
  <2>2. <<x, Error>> \in Seq(Proper) /\ <<x, Error, Stopped>> \in Seq(Proper)
    BY FixedSignals
  <2> QED BY <2>1, <2>2, SignaturesOf
<1>8. CASE b.kind = "just"
  <2>1. b.ts \in Seq(Types)
    BY <1>1, <1>8
  <2> QED BY <1>7, <1>8, <2>1 DEF base_signatures, just_signatures
<1>9. CASE b.kind = "awaitable"
  <2>1. b.ts \in Seq(Types)
    BY <1>1, <1>9
  <2> QED BY <1>7, <1>9, <2>1 DEF base_signatures, awaitable_signatures
<1>10. CASE b.kind = "schedule"
  BY <1>3, <1>4, <1>7, <1>10 DEF base_signatures, run_loop_signatures
<1>11. CASE b.kind = "read"
  BY <1>5, <1>6, <1>7, <1>11 DEF base_signatures, read_signatures
<1>12. CASE b.kind = "custom"
  <2>1. b.sigs \in Seq(Proper)
    BY <1>1, <1>12
  <2>2. completion_signatures(b.sigs) \in Lists(Proper)
    BY <2>1, SignaturesOf
  <2> QED BY <1>12, <2>2 DEF base_signatures
<1> QED BY <1>1, <1>8, <1>9, <1>10, <1>11, <1>12

LEMMA BaseIsValue ==
  ASSUME NEW b \in Bases, NEW E \in Environments
  PROVE  base_signatures(b, E) \in Values
<1>1. "no_env" \in Environments
  BY DEF Environments
<1> QED BY <1>1, BaseIs DEF Values

LEMMA BaseEverywhere ==
  ASSUME NEW b, b.kind # "read", NEW E1, NEW E2
  PROVE  base_signatures(b, E1) = base_signatures(b, E2)
BY DEF base_signatures

ThenUp(p, fs, n, E) == \A k \in 1..n : p[k] = then_signatures(p[k - 1], fs[k], E)

(* The signatures of a sender, function by function.                         *)
LEMMA SignatureSteps ==
  ASSUME NEW S \in Senders, NEW E \in Environments, NEW n \in Nat, n = Len(S.fns)
  PROVE  \E p : /\ p[0] = base_signatures(S.base, E) /\ completion_signatures_of(S, E) = p[n]
                /\ ThenUp(p, S.fns, n, E) /\ \A k \in 0..n : p[k] \in Values
<1>1. PICK fs : fs = S.fns
  OBVIOUS
<1>2. DOMAIN fs = 1..n /\ S.base \in Bases /\ \A i \in 1..n : fs[i] \in Functions
  BY <1>1 DEF Senders
<1>3. PICK V, b : V = Values /\ b = base_signatures(S.base, E)
  OBVIOUS
<1>4. PICK G : G = [i \in 1..n |-> [v \in V |-> then_signatures(v, fs[i], E)]]
  OBVIOUS
<1>5. b \in V /\ Closed(G, V, n)
  <2>1. ASSUME NEW v \in V, NEW i \in 1..n PROVE G[i][v] \in V
    BY <1>2, <1>3, <1>4, ThenIsValue
  <2> QED BY <1>2, <1>3, <2>1, BaseIsValue DEF Closed
<1>6. PICK h \in [SUBSET (1..n) -> V] : Folds(h, n, b, G)
  BY ONLY <1>5, FoldIteration
<1> DEFINE Eq(g) == g = [s \in SUBSET (1..n) |->
                           IF s = {} THEN b ELSE then_signatures(g[s \ {Max(s)}], fs[Max(s)], E)]
           iter == CHOOSE g : Eq(g)
<1>7. completion_signatures_of(S, E) = iter[1..n]
  <2>1. completion_signatures_of(S, E) = FoldLeft(LAMBDA sigs, f : then_signatures(sigs, f, E), b, fs)
    BY <1>1, <1>3 DEF completion_signatures_of
  <2> QED BY <1>2, <2>1 DEF FoldLeft, MapThenFoldSet
<1>8. Eq([s \in SUBSET (1..n) |-> h[s]])
  <2>1. PICK g : g = [s \in SUBSET (1..n) |-> h[s]]
    OBVIOUS
  <2>2. ASSUME NEW s \in SUBSET (1..n)
        PROVE  g[s] = IF s = {} THEN b ELSE then_signatures(g[s \ {Max(s)}], fs[Max(s)], E)
    <3>1. CASE s = {}
      BY <3>1, <1>6, <2>1 DEF Folds
    <3>2. CASE s # {}
      <4>1. PICK m \in 1..n : m = Max(s)
        <5>1. Max(s) \in s
          BY <3>2, MaxIn
        <5> QED BY <5>1
      <4>2. PICK r : r = s \ {m}
        OBVIOUS
      <4>3. r \in SUBSET (1..n) /\ h[r] \in V /\ g[r] = h[r] /\ g[s] = h[s]
        BY <4>2, <1>6, <2>1
      <4>4. h[s] = G[m][h[r]]
        BY <3>2, <4>1, <4>2, <1>6 DEF Folds
      <4>5. G[m][h[r]] = then_signatures(h[r], fs[m], E)
        BY <1>4, <4>3
      <4> QED BY <3>2, <4>1, <4>2, <4>3, <4>4, <4>5
    <3> QED BY <3>1, <3>2
  <2> QED BY <2>1, <2>2
<1>9. Eq(iter)
  BY <1>8
<1>10. \A s \in SUBSET (1..n) :
         iter[s] = IF s = {} THEN b ELSE then_signatures(iter[s \ {Max(s)}], fs[Max(s)], E)
  BY <1>9
<1> HIDE DEF iter, Eq
<1>11. PICK p : p = [k \in 0..n |-> iter[1..k]]
  OBVIOUS
<1>12. p[0] = b /\ p[n] = iter[1..n]
  <2>1. 1..0 = {} /\ 1..0 \in SUBSET (1..n) /\ 0 \in 0..n /\ n \in 0..n
    OBVIOUS
  <2> QED BY <1>10, <1>11, <2>1
<1>13. ASSUME NEW k \in 1..n PROVE p[k] = then_signatures(p[k - 1], fs[k], E)
  <2>1. Max(1..k) = k
    <3>1. k \in 1..k /\ 1..k \subseteq Int /\ \A j \in 1..k : j <= k
      OBVIOUS
    <3> QED BY <3>1, MaxIs
  <2>2. 1..k # {} /\ 1..k \in SUBSET (1..n) /\ (1..k) \ {k} = 1..k - 1
    OBVIOUS
  <2>3. iter[1..k] = then_signatures(iter[1..k - 1], fs[k], E)
    BY <1>10, <2>1, <2>2
  <2>4. k \in 0..n /\ k - 1 \in 0..n
    OBVIOUS
  <2> QED BY <1>11, <2>3, <2>4
<1>14. ThenUp(p, fs, n, E)
  BY <1>13 DEF ThenUp
<1> DEFINE I == {k \in Nat : k \in 0..n => p[k] \in Values}
<1>15. 0 \in I
  BY <1>3, <1>5, <1>12
<1>16. ASSUME NEW k \in Nat, k \in I PROVE k + 1 \in I
  <2>1. ASSUME k + 1 \in 0..n PROVE p[k + 1] \in Values
    <3>1. PICK j \in 1..n : j = k + 1 /\ j - 1 = k /\ k \in 0..n
      BY <2>1
    <3>2. p[j - 1] \in Values
      BY <1>16, <3>1
    <3>3. p[j] \in Values
      BY <1>2, <1>13, <3>2, ThenIsValue
    <3> QED BY <3>1, <3>3
  <2> QED BY <2>1
<1>17. \A k \in Nat : k \in I
  <2> HIDE DEF I
  <2> QED BY <1>15, <1>16, NatSet
<1>18. \A k \in 0..n : p[k] \in Values
  BY <1>17
<1> QED BY <1>1, <1>3, <1>7, <1>12, <1>14, <1>18

LEMMA SignaturesTyped ==
  ASSUME NEW S \in Senders, NEW E \in Environments
  PROVE  completion_signatures_of(S, E) \in Values
<1>1. PICK n \in Nat : n = Len(S.fns)
  BY DEF Senders
<1>2. PICK p : completion_signatures_of(S, E) = p[n] /\ \A k \in 0..n : p[k] \in Values
  BY <1>1, SignatureSteps
<1> QED BY <1>2

(* Two senders whose first n functions, and bases there, are the same.       *)
LEMMA StepsAgree ==
  ASSUME NEW n \in Nat, NEW p, NEW q, NEW fs, NEW gs, NEW E,
         ThenUp(p, fs, n, E), ThenUp(q, gs, n, E), p[0] = q[0], \A k \in 1..n : fs[k] = gs[k]
  PROVE  p[n] = q[n]
<1> DEFINE I == {k \in Nat : k \in 0..n => p[k] = q[k]}
<1>1. 0 \in I
  OBVIOUS
<1>2. ASSUME NEW k \in Nat, k \in I PROVE k + 1 \in I
  <2>1. ASSUME k + 1 \in 0..n PROVE p[k + 1] = q[k + 1]
    <3>1. PICK j \in 1..n : j = k + 1 /\ j - 1 = k /\ k \in 0..n
      BY <2>1
    <3>2. p[k] = q[k]
      BY <1>2, <3>1
    <3>3. p[j] = q[j]
      BY <3>1, <3>2 DEF ThenUp
    <3> QED BY <3>1, <3>3
  <2> QED BY <2>1
<1>3. n \in I
  <2> HIDE DEF I
  <2> QED BY <1>1, <1>2, NatSet
<1> QED BY <1>3

Then(S, f) == [S EXCEPT !.fns = Append(@, f)]

LEMMA ThenOf ==
  ASSUME NEW S \in Senders, NEW f \in Functions, NEW E \in Environments
  PROVE  /\ Then(S, f) \in Senders /\ Then(S, f).base = S.base
         /\ completion_signatures_of(Then(S, f), E) = then_signatures(completion_signatures_of(S, E), f, E)
<1>1. PICK n \in Nat : n = Len(S.fns)
  BY DEF Senders
<1>2. PICK gs : gs = Append(S.fns, f)
  OBVIOUS
<1>3. /\ gs \in Seq(Functions) /\ Len(gs) = n + 1 /\ gs[n + 1] = f
      /\ \A k \in 1..n : S.fns[k] = gs[k]
  BY <1>1, <1>2 DEF Senders
<1>4. Then(S, f) = [S EXCEPT !.fns = gs]
  BY <1>2 DEF Then
<1>5. PICK T : T = Then(S, f)
  OBVIOUS
<1>6. T \in Senders /\ T.base = S.base /\ T.fns = gs
  BY <1>3, <1>4, <1>5 DEF Senders
<1>7. PICK p : /\ p[0] = base_signatures(S.base, E) /\ completion_signatures_of(S, E) = p[n]
               /\ ThenUp(p, S.fns, n, E)
  BY <1>1, SignatureSteps
<1>8. PICK m \in Nat : m = n + 1
  OBVIOUS
<1>9. PICK q : /\ q[0] = base_signatures(T.base, E) /\ completion_signatures_of(T, E) = q[m]
               /\ ThenUp(q, T.fns, m, E)
  BY <1>3, <1>6, <1>8, SignatureSteps
<1>10. ThenUp(q, gs, n, E) /\ q[m] = then_signatures(q[n], gs[m], E)
  <2>1. 1..n \subseteq 1..m /\ m \in 1..m /\ m - 1 = n
    BY <1>8
  <2> QED BY <1>6, <1>9, <2>1 DEF ThenUp
<1>11. p[n] = q[n]
  BY <1>3, <1>6, <1>7, <1>9, <1>10, StepsAgree
<1> QED BY <1>3, <1>5, <1>6, <1>7, <1>8, <1>9, <1>10, <1>11

(* Only what stands on a read() depends on the environment.                  *)
LEMMA PlainSenders ==
  ASSUME NEW S \in Senders, S.base.kind # "read", NEW E1 \in Environments, NEW E2 \in Environments
  PROVE  /\ completion_signatures_of(S, E1) \in Lists(Proper) \union {IllFormed}
         /\ completion_signatures_of(S, E1) = completion_signatures_of(S, E2)
<1>1. PICK n \in Nat : n = Len(S.fns)
  BY DEF Senders
<1>2. DOMAIN S.fns = 1..n /\ S.base \in Bases /\ \A i \in 1..n : S.fns[i] \in Functions
  BY <1>1 DEF Senders
<1>3. PICK p : /\ p[0] = base_signatures(S.base, E1) /\ completion_signatures_of(S, E1) = p[n]
               /\ ThenUp(p, S.fns, n, E1)
  BY <1>1, SignatureSteps
<1>4. PICK q : /\ q[0] = base_signatures(S.base, E2) /\ completion_signatures_of(S, E2) = q[n]
               /\ ThenUp(q, S.fns, n, E2)
  BY <1>1, SignatureSteps
<1> DEFINE Same(k) == p[k] = q[k] /\ p[k] \in Lists(Proper) \union {IllFormed}
           I == {k \in Nat : k \in 0..n => Same(k)}
<1>5. 0 \in I
  BY <1>2, <1>3, <1>4, BaseIs, BaseEverywhere
<1>6. ASSUME NEW k \in Nat, k \in I PROVE k + 1 \in I
  <2>1. ASSUME k + 1 \in 0..n PROVE Same(k + 1)
    <3>1. PICK j \in 1..n : j = k + 1 /\ j - 1 = k /\ k \in 0..n
      BY <2>1
    <3>2. PICK v \in Lists(Proper) \union {IllFormed} : v = p[k] /\ v = q[k]
      BY <1>6, <3>1
    <3>3. p[j] = then_signatures(v, S.fns[j], E1) /\ q[j] = then_signatures(v, S.fns[j], E2)
      BY <1>3, <1>4, <3>1, <3>2 DEF ThenUp
    <3>4. p[j] = q[j]
      BY <3>3, ThenEverywhere
    <3>5. p[j] \in Lists(Proper) \union {IllFormed}
      <4>1. CASE v \in Lists(Proper)
        BY <1>2, <3>3, <4>1, ThenIs DEF m_valid
      <4>2. CASE v = IllFormed
        BY <3>3, <4>2, ThenOfDependent
      <4> QED BY <4>1, <4>2
    <3> QED BY <3>1, <3>4, <3>5
  <2> QED BY <2>1
<1>7. n \in I
  <2> HIDE DEF I
  <2> QED BY <1>5, <1>6, NatSet
<1>8. Same(n)
  BY <1>7
<1> QED BY <1>3, <1>4, <1>8

(* What stands on a read() is a sender without an environment, and not one   *)
(* in an environment that cannot answer.                                     *)
LEMMA ReadSenders ==
  ASSUME NEW S \in Senders, S.base.kind = "read"
  PROVE  /\ completion_signatures_of(S, "no_env") = Dependent("no_env")
         /\ completion_signatures_of(S, "empty_env")
              \in {Dependent("no_env"), Dependent("empty_env"), IllFormed}
<1>0. "no_env" \in Environments /\ "empty_env" \in Environments
  BY DEF Environments
<1>1. PICK n \in Nat : n = Len(S.fns)
  BY DEF Senders
<1>2. S.base \in Bases
  BY DEF Senders
<1>3. PICK p : /\ p[0] = base_signatures(S.base, "no_env") /\ completion_signatures_of(S, "no_env") = p[n]
               /\ ThenUp(p, S.fns, n, "no_env")
  BY <1>0, <1>1, SignatureSteps
<1>4. PICK q : /\ q[0] = base_signatures(S.base, "empty_env") /\ completion_signatures_of(S, "empty_env") = q[n]
               /\ ThenUp(q, S.fns, n, "empty_env")
  BY <1>0, <1>1, SignatureSteps
<1> DEFINE Read(k) == /\ p[k] = Dependent("no_env")
                      /\ q[k] \in {Dependent("no_env"), Dependent("empty_env"), IllFormed}
           I == {k \in Nat : k \in 0..n => Read(k)}
<1>5. 0 \in I
  BY <1>0, <1>2, <1>3, <1>4, BaseIs
<1>6. ASSUME NEW k \in Nat, k \in I PROVE k + 1 \in I
  <2>1. ASSUME k + 1 \in 0..n PROVE Read(k + 1)
    <3>1. PICK j \in 1..n : j = k + 1 /\ j - 1 = k /\ k \in 0..n
      BY <2>1
    <3>2. Read(k)
      BY <1>6, <3>1
    <3>3. p[j] = then_signatures(p[k], S.fns[j], "no_env") /\ q[j] = then_signatures(q[k], S.fns[j], "empty_env")
      BY <1>3, <1>4, <3>1 DEF ThenUp
    <3>4. p[j] = Dependent("no_env")
      BY <1>0, <3>2, <3>3, ThenOfDependent
    <3>5. q[j] \in {Dependent("no_env"), Dependent("empty_env"), IllFormed}
      BY <1>0, <3>2, <3>3, ThenOfDependent
    <3> QED BY <3>1, <3>4, <3>5
  <2> QED BY <2>1
<1>7. n \in I
  <2> HIDE DEF I
  <2> QED BY <1>5, <1>6, NatSet
<1>8. Read(n)
  BY <1>7
<1> QED BY <1>3, <1>4, <1>8

LEMMA ThenIsSender ==
  ASSUME NEW S \in Senders, NEW f \in Functions
  PROVE  /\ then(S, f) \in Senders \union {IllFormed}
         /\ m_valid(then(S, f)) <=> is_sender(S, "no_env") /\ is_sender(Then(S, f), "no_env")
<1>1. Then(S, f) \in Senders /\ Then(S, f) # IllFormed
  <2>1. Then(S, f) \in Senders
    BY ThenOf DEF Environments
  <2> QED BY <2>1, PipelineAssumption DEF Senders
<1>2. then(S, f) = IF is_sender(S, "no_env") /\ is_sender(Then(S, f), "no_env") THEN Then(S, f) ELSE IllFormed
  BY DEF then, Then
<1> QED BY <1>1, <1>2 DEF m_valid

(* The exactness of one sender.                                              *)
ExactFor(S) ==
  \A f \in Functions, E \in {"no_env", "env", "empty_env"} :
    LET below == completion_signatures_of(S, E)
        above == then_signatures(below, f, E)
        tags == {s.tag : s \in ToSet(below.ts)}
    IN /\ Known(below) =>
            /\ m_valid(above) <=> {"value", "error"} \subseteq tags /\ CanTake(f, ToSet(below.ts))
            /\ m_valid(above) =>
                 /\ ToSet(above.ts) = Through(f, ToSet(below.ts))
                 /\ Len(above.ts) = Cardinality(ToSet(above.ts))
       /\ m_valid(then(S, f)) <=>
            IF S.base.kind = "read" THEN TRUE
            ELSE m_valid(then_signatures(completion_signatures_of(S, "env"), f, "env"))
       /\ S.base.kind = "read" /\ E = "empty_env" => ~has_sender_types(above)

LEMMA SendersAreExact ==
  ASSUME NEW S \in Senders
  PROVE  ExactFor(S)
<1>0. "no_env" \in Environments /\ "env" \in Environments /\ "empty_env" \in Environments
      /\ Environments = {"no_env", "env", "empty_env"}
  BY DEF Environments
<1> SUFFICES ASSUME NEW f \in Functions, NEW E \in Environments,
                    NEW below, below = completion_signatures_of(S, E),
                    NEW above, above = then_signatures(below, f, E)
             PROVE  /\ Known(below) =>
                         /\ m_valid(above) <=> {"value", "error"} \subseteq {s.tag : s \in ToSet(below.ts)}
                                               /\ CanTake(f, ToSet(below.ts))
                         /\ m_valid(above) =>
                              /\ ToSet(above.ts) = Through(f, ToSet(below.ts))
                              /\ Len(above.ts) = Cardinality(ToSet(above.ts))
                    /\ m_valid(then(S, f)) <=>
                         IF S.base.kind = "read" THEN TRUE
                         ELSE m_valid(then_signatures(completion_signatures_of(S, "env"), f, "env"))
                    /\ S.base.kind = "read" /\ E = "empty_env" => ~has_sender_types(above)
  BY <1>0 DEF ExactFor
<1>1. Known(below) => below \in Lists(Proper)
  BY SignaturesTyped, Dependents DEF Values
<1>2. ASSUME Known(below)
      PROVE  /\ m_valid(above) <=> {"value", "error"} \subseteq TagsOf(ToSet(below.ts))
                                   /\ CanTake(f, ToSet(below.ts))
             /\ m_valid(above) => /\ ToSet(above.ts) = Through(f, ToSet(below.ts))
                                  /\ OnceEach(above.ts)
  BY <1>1, <1>2, ThenIs
<1>3. m_valid(then(S, f)) <=> /\ has_sender_types(completion_signatures_of(S, "no_env"))
                              /\ has_sender_types(then_signatures(completion_signatures_of(S, "no_env"), f, "no_env"))
  BY <1>0, ThenIsSender, ThenOf DEF is_sender
<1>4. CASE S.base.kind = "read"
  <2>1. completion_signatures_of(S, "no_env") = Dependent("no_env")
    BY <1>4, ReadSenders
  <2>2. m_valid(then(S, f))
    BY <1>0, <1>3, <2>1, Dependents, ThenOfDependent
  <2>3. ASSUME E = "empty_env" PROVE ~has_sender_types(above)
    <3>1. below \in {Dependent("no_env"), Dependent("empty_env"), IllFormed}
      BY <1>4, <2>3, ReadSenders
    <3>2. above \in {Dependent("empty_env"), IllFormed}
      BY <1>0, <2>3, <3>1, ThenOfDependent
    <3> QED BY <1>0, <3>2, Dependents
  <2> QED BY <1>2, <1>4, <2>2, <2>3 DEF TagsOf, OnceEach
<1>5. CASE S.base.kind # "read"
  <2>1. PICK v \in Lists(Proper) \union {IllFormed} :
          v = completion_signatures_of(S, "no_env") /\ v = completion_signatures_of(S, "env")
    BY <1>0, <1>5, PlainSenders
  <2>2. PICK w : w = then_signatures(v, f, "no_env") /\ w = then_signatures(v, f, "env")
    BY ThenEverywhere
  <2>3. w \in Lists(Proper) \union {IllFormed} /\ (m_valid(w) => m_valid(v))
    <3>1. CASE v \in Lists(Proper)
      BY <2>2, <3>1, ThenIs, ListsKnown DEF m_valid
    <3>2. CASE v = IllFormed
      BY <1>0, <2>2, <3>2, ThenOfDependent
    <3> QED BY <3>1, <3>2
  <2>4. \A u \in Lists(Proper) \union {IllFormed} : has_sender_types(u) <=> m_valid(u)
    BY <1>0, ListsKnown, Dependents DEF m_valid
  <2> QED BY <1>2, <1>3, <1>5, <2>1, <2>2, <2>3, <2>4 DEF TagsOf, OnceEach
<1> QED BY <1>4, <1>5

-------------------------------------------------------------------------------
(* Closures, and the sender that is written with them.                     *)

Leaves == {bind_back(f) : f \in Functions}
Nested(C, n) == UNION {[cpo : C[k], cpo2 : C[n - k]] : k \in 1..n - 1}
ClosuresOf(C, m) == \A n \in 1..m : C[n] = IF n = 1 THEN Leaves ELSE Nested(C, n)

(* The closures with one function, with two, and so on.                      *)
LEMMA ClosuresAre ==
  ClosuresOf(Closures, MaxFns)
<1>0. MaxFns \in Nat
  BY PipelineAssumption
<1> DEFINE Built(C, m) == C = [n \in 1..m |-> IF n = 1 THEN Leaves ELSE Nested(C, n)]
           S == {m \in Nat : \E C : Built(C, m)}
<1>1. 0 \in S
  <2>1. PICK C : C = [n \in 1..0 |-> {}]
    OBVIOUS
  <2>2. Built(C, 0)
    BY <2>1
  <2> QED BY <2>2
<1>2. ASSUME NEW m \in Nat, m \in S PROVE m + 1 \in S
  <2>1. PICK C : Built(C, m)
    BY <1>2
  <2>2. PICK D : D = [n \in 1..m + 1 |-> IF n = 1 THEN Leaves ELSE Nested(C, n)]
    OBVIOUS
  <2>3. ASSUME NEW n \in 1..m PROVE C[n] = D[n]
    BY <2>1, <2>2
  <2>4. ASSUME NEW n \in 1..m + 1 PROVE D[n] = IF n = 1 THEN Leaves ELSE Nested(D, n)
    <3>1. \A k \in 1..n - 1 : k \in 1..m /\ n - k \in 1..m
      OBVIOUS
    <3>2. \A k \in 1..n - 1 : C[k] = D[k] /\ C[n - k] = D[n - k]
      BY <2>3, <3>1
    <3>3. Nested(C, n) = Nested(D, n)
      BY <3>2 DEF Nested
    <3> QED BY <2>2, <3>3
  <2>5. Built(D, m + 1)
    BY <2>2, <2>4
  <2> QED BY <2>5
<1>3. MaxFns \in S
  <2> HIDE DEF S
  <2> QED BY <1>0, <1>1, <1>2, NatSet
<1>4. \E C : Built(C, MaxFns)
  BY <1>3
<1>5. Closures = CHOOSE C : Built(C, MaxFns)
  BY DEF Closures, Leaves, Nested
<1>6. Built(Closures, MaxFns)
  BY <1>4, <1>5
<1> QED BY <1>6 DEF ClosuresOf

UpTo(m) == UNION {Closures[n] : n \in 1..m}

LEMMA ClosureParts ==
  ASSUME NEW n \in 1..MaxFns, NEW d \in Closures[n]
  PROVE  /\ n = 1 => "arg" \in DOMAIN d /\ d.arg \in Functions
         /\ n # 1 => /\ "arg" \notin DOMAIN d
                     /\ \E k \in 1..n - 1 : d.cpo \in Closures[k] /\ d.cpo2 \in Closures[n - k]
<1>1. CASE n = 1
  <2>1. d \in Leaves
    BY <1>1, ClosuresAre DEF ClosuresOf
  <2> QED BY <1>1, <2>1 DEF Leaves, bind_back
<1>2. CASE n # 1
  <2>1. d \in Nested(Closures, n)
    BY <1>2, ClosuresAre DEF ClosuresOf
  <2>2. PICK k \in 1..n - 1 : d \in [cpo : Closures[k], cpo2 : Closures[n - k]]
    BY <2>1 DEF Nested
  <2>3. "arg" \notin DOMAIN d
    BY <2>2
  <2> QED BY <1>2, <2>2, <2>3
<1> QED BY <1>1, <1>2

Piped == Senders \union {IllFormed}
Result(h, d, X) ==
  IF ~m_valid(X) THEN IllFormed
  ELSE IF "arg" \in DOMAIN d THEN then(X, d.arg)
  ELSE h[d.cpo][h[d.cpo2][X]]

(* The parts of a closure with at most m + 1 functions have at most m.       *)
LEMMA PartsUpTo ==
  ASSUME NEW m \in Nat, m + 1 <= MaxFns, NEW d \in UpTo(m + 1)
  PROVE  /\ "arg" \in DOMAIN d => d.arg \in Functions
         /\ "arg" \notin DOMAIN d => d.cpo \in UpTo(m) /\ d.cpo2 \in UpTo(m)
<1>0. MaxFns \in Nat
  BY PipelineAssumption
<1>1. PICK n \in 1..m + 1 : d \in Closures[n]
  BY DEF UpTo
<1>2. n \in 1..MaxFns
  BY <1>0
<1>3. CASE n = 1
  BY <1>1, <1>2, <1>3, ClosureParts
<1>4. CASE n # 1
  <2>1. "arg" \notin DOMAIN d
    BY <1>1, <1>2, <1>4, ClosureParts
  <2>2. PICK k \in 1..n - 1 : d.cpo \in Closures[k] /\ d.cpo2 \in Closures[n - k]
    BY <1>1, <1>2, <1>4, ClosureParts
  <2>3. k \in 1..m /\ n - k \in 1..m
    OBVIOUS
  <2> QED BY <2>1, <2>2, <2>3 DEF UpTo
<1> QED BY <1>3, <1>4

LEMMA UpToMore ==
  ASSUME NEW m \in Nat
  PROVE  UpTo(m) \subseteq UpTo(m + 1)
<1>1. 1..m \subseteq 1..m + 1
  OBVIOUS
<1> QED BY <1>1 DEF UpTo

BuiltUp(h, m) == h = [d \in UpTo(m) |-> [X \in Piped |-> Result(h, d, X)]]

LEMMA ResultsExist ==
  \E h : BuiltUp(h, MaxFns)
<1>0. MaxFns \in Nat
  BY PipelineAssumption
<1> DEFINE S == {m \in Nat : m <= MaxFns => \E h : BuiltUp(h, m)}
<1>1. 0 \in S
  <2>1. UpTo(0) = {}
    BY DEF UpTo
  <2>2. PICK h : h = [d \in UpTo(0) |-> {}]
    OBVIOUS
  <2>3. BuiltUp(h, 0)
    BY <2>1, <2>2 DEF BuiltUp
  <2> QED BY <2>3
<1>2. ASSUME NEW m \in Nat, m \in S PROVE m + 1 \in S
  <2> SUFFICES ASSUME m + 1 <= MaxFns PROVE \E h : BuiltUp(h, m + 1)
    OBVIOUS
  <2>1. PICK h : BuiltUp(h, m)
    BY <1>0, <1>2
  <2>2. PICK g : g = [d \in UpTo(m + 1) |-> [X \in Piped |-> Result(h, d, X)]]
    OBVIOUS
  <2>3. \A d \in UpTo(m) : g[d] = h[d]
    BY <2>1, <2>2, UpToMore DEF BuiltUp
  <2>4. ASSUME NEW d \in UpTo(m + 1), NEW X \in Piped PROVE Result(h, d, X) = Result(g, d, X)
    <3>1. CASE "arg" \in DOMAIN d
      BY <3>1 DEF Result
    <3>2. CASE "arg" \notin DOMAIN d
      <4>1. d.cpo \in UpTo(m) /\ d.cpo2 \in UpTo(m)
        BY <3>2, PartsUpTo
      <4>2. g[d.cpo] = h[d.cpo] /\ g[d.cpo2] = h[d.cpo2]
        BY <2>3, <4>1
      <4> QED BY <3>2, <4>2 DEF Result
    <3> QED BY <3>1, <3>2
  <2>5. BuiltUp(g, m + 1)
    BY <2>2, <2>4 DEF BuiltUp
  <2> QED BY <2>5
<1>3. MaxFns \in S
  <2> HIDE DEF S
  <2> QED BY <1>0, <1>1, <1>2, NatSet
<1> QED BY <1>0, <1>3

(* A closure makes a sender of a sender, or the expression is rejected.      *)
LEMMA ApplyIs ==
  ASSUME NEW c \in UpTo(MaxFns), NEW S \in Piped
  PROVE  Apply(c, S) \in Piped
<1>0. MaxFns \in Nat
  BY PipelineAssumption
<1>1. PICK of : of = CHOOSE h : BuiltUp(h, MaxFns)
  OBVIOUS
<1>2. BuiltUp(of, MaxFns)
  BY <1>1, ResultsExist
<1>3. Apply(c, S) = of[c][S]
  BY <1>1 DEF Apply, BuiltUp, Result, UpTo, Piped
<1> DEFINE J == {m \in Nat : m <= MaxFns => \A d \in UpTo(m), X \in Piped : of[d][X] \in Piped}
<1>4. 0 \in J
  BY DEF UpTo
<1>5. ASSUME NEW m \in Nat, m \in J PROVE m + 1 \in J
  <2> SUFFICES ASSUME m + 1 <= MaxFns, NEW d \in UpTo(m + 1), NEW X \in Piped
               PROVE  of[d][X] \in Piped
    OBVIOUS
  <2>1. \A e \in UpTo(m), Y \in Piped : of[e][Y] \in Piped
    BY <1>0, <1>5
  <2>2. of[d][X] = Result(of, d, X)
    <3>1. d \in UpTo(MaxFns)
      <4>1. 1..m + 1 \subseteq 1..MaxFns
        BY <1>0
      <4> QED BY <4>1 DEF UpTo
    <3> QED BY <1>2, <3>1 DEF BuiltUp
  <2>3. CASE ~m_valid(X)
    BY <2>2, <2>3 DEF Result, Piped
  <2>4. CASE m_valid(X) /\ "arg" \in DOMAIN d
    <3>1. X \in Senders
      BY <2>4 DEF Piped, m_valid
    <3>2. d.arg \in Functions
      BY <2>4, PartsUpTo
    <3> QED BY <2>2, <2>4, <3>1, <3>2, ThenIsSender DEF Result, Piped
  <2>5. CASE m_valid(X) /\ "arg" \notin DOMAIN d
    <3>1. d.cpo \in UpTo(m) /\ d.cpo2 \in UpTo(m)
      BY <2>5, PartsUpTo
    <3>2. of[d.cpo2][X] \in Piped
      BY <2>1, <3>1
    <3>3. of[d.cpo][of[d.cpo2][X]] \in Piped
      BY <2>1, <3>1, <3>2
    <3> QED BY <2>2, <2>5, <3>3 DEF Result
  <2> QED BY <2>3, <2>4, <2>5
<1>6. MaxFns \in J
  <2> HIDE DEF J
  <2> QED BY <1>0, <1>4, <1>5, NatSet
<1> QED BY <1>0, <1>3, <1>6

(* The closure being written has the functions that are written.             *)
WritingInv ==
  /\ sender \in Piped
  /\ text \in Seq(Functions) /\ written \in Seq(Functions)
  /\ Len(text) + Len(written) <= MaxFns
  /\ closure # <<>> => Len(written) \in 1..MaxFns /\ closure \in Closures[Len(written)]

LEMMA WritingInit == Init => WritingInv
<1> SUFFICES ASSUME Init PROVE WritingInv
  OBVIOUS
<1>1. PICK z : z = <<>>
  OBVIOUS
<1>2. z \in Seq(Functions) /\ Len(z) = 0
  BY <1>1
<1>3. sender \in Senders
  <2>1. PICK b \in Bases : sender = [base |-> b, fns |-> z]
    BY <1>1 DEF Init
  <2> QED BY <1>2, <2>1 DEF Senders
<1> QED BY <1>1, <1>2, <1>3, PipelineAssumption DEF Init, WritingInv, Piped

LEMMA WritingStep == WritingInv /\ [Next]_vars => WritingInv'
<1> SUFFICES ASSUME WritingInv, [Next]_vars PROVE WritingInv'
  OBVIOUS
<1>0. MaxFns \in Nat
  BY PipelineAssumption
<1>1. ASSUME NEW f \in Functions, Close(f) PROVE WritingInv'
  <2>1. written' = <<f>> /\ written' \in Seq(Functions) /\ Len(written') = 1
    BY <1>1 DEF Close
  <2>2. Len(text) + 1 <= MaxFns /\ 1 \in 1..MaxFns
    BY <1>0, <1>1 DEF Close, Room, WritingInv
  <2>3. closure' \in Closures[1]
    BY <1>1, <2>2, ClosuresAre DEF Close, ClosuresOf, Leaves
  <2> QED BY <1>1, <2>1, <2>2, <2>3 DEF Close, WritingInv
<1>2. ASSUME NEW f \in Functions, ComposeAfter(f) \/ ComposeBefore(f) PROVE WritingInv'
  <2>1. PICK n \in 1..MaxFns : n = Len(written) /\ closure \in Closures[n]
    BY <1>2 DEF ComposeAfter, ComposeBefore, WritingInv
  <2>2. Len(text) + n + 1 <= MaxFns /\ n + 1 \in 1..MaxFns /\ 1 \in 1..MaxFns
    BY <1>0, <1>2, <2>1 DEF ComposeAfter, ComposeBefore, Room, WritingInv
  <2>3. written' \in Seq(Functions) /\ Len(written') = n + 1
    <3>1. written \in Seq(Functions)
      BY DEF WritingInv
    <3>2. Append(written, f) \in Seq(Functions) /\ Len(Append(written, f)) = n + 1
      BY <2>1, <3>1
    <3>3. PICK v : v = <<f>>
      OBVIOUS
    <3>4. v \in Seq(Functions) /\ Len(v) = 1
      BY <3>3
    <3>5. v \o written \in Seq(Functions) /\ Len(v \o written) = n + 1
      <4>1. v \o written \in Seq(Functions) /\ Len(v \o written) = Len(v) + Len(written)
        BY <3>1, <3>4, ConcatProperties
      <4> QED BY <2>1, <3>4, <4>1
    <3>6. written' = Append(written, f) \/ written' = v \o written
      BY <1>2, <3>3 DEF ComposeAfter, ComposeBefore
    <3> QED BY <3>2, <3>5, <3>6
  <2>4. bind_back(f) \in Closures[1]
    BY <2>2, ClosuresAre DEF ClosuresOf, Leaves
  <2>5. closure' \in Closures[n + 1]
    <3>1. closure' \in Nested(Closures, n + 1)
      <4>1. CASE ComposeAfter(f)
        <5>1. 1 \in 1..(n + 1) - 1 /\ (n + 1) - 1 = n
          OBVIOUS
        <5>2. closure' \in [cpo : Closures[1], cpo2 : Closures[n]]
          BY <2>1, <2>4, <4>1 DEF ComposeAfter, compose
        <5> QED BY <5>1, <5>2 DEF Nested
      <4>2. CASE ComposeBefore(f)
        <5>1. n \in 1..(n + 1) - 1 /\ (n + 1) - n = 1
          OBVIOUS
        <5>2. closure' \in [cpo : Closures[n], cpo2 : Closures[1]]
          BY <2>1, <2>4, <4>2 DEF ComposeBefore, compose
        <5> QED BY <5>1, <5>2 DEF Nested
      <4> QED BY <1>2, <4>1, <4>2
    <3>2. n + 1 # 1
      OBVIOUS
    <3> QED BY <2>2, <3>1, <3>2, ClosuresAre DEF ClosuresOf
  <2>6. sender' = sender /\ text' = text
    BY <1>2 DEF ComposeAfter, ComposeBefore
  <2>7. sender' \in Piped /\ text' \in Seq(Functions)
    BY <2>6 DEF WritingInv
  <2>8. Len(text') + Len(written') <= MaxFns
    BY <2>2, <2>3, <2>6, <2>7
  <2>9. Len(written') \in 1..MaxFns /\ closure' \in Closures[Len(written')]
    BY <2>2, <2>3, <2>5
  <2> QED BY ONLY <2>3, <2>7, <2>8, <2>9 DEF WritingInv
<1>3. CASE Pipe
  <2>1. closure \in UpTo(MaxFns)
    BY <1>3 DEF Pipe, WritingInv, UpTo
  <2>2. sender' \in Piped
    BY <1>3, <2>1, ApplyIs DEF Pipe, WritingInv
  <2>3. PICK z : z = <<>>
    OBVIOUS
  <2>4. z \in Seq(Functions) /\ Len(z) = 0
    BY <2>3
  <2>5. text' \in Seq(Functions) /\ Len(text') = Len(text) + Len(written)
    BY <1>3 DEF Pipe, WritingInv
  <2>6. closure' = z /\ written' = z
    BY <1>3, <2>3 DEF Pipe
  <2>7. Len(text') + Len(written') <= MaxFns
    BY <2>4, <2>5, <2>6 DEF WritingInv
  <2>8. closure' = <<>> /\ written' \in Seq(Functions)
    BY <2>3, <2>4, <2>6
  <2> QED BY ONLY <2>2, <2>5, <2>7, <2>8 DEF WritingInv
<1>4. CASE UNCHANGED <<sender, text, closure, written>>
  BY <1>4 DEF WritingInv
<1>5. CASE Connect \/ Queue \/ InvokeReturns \/ InvokeThrows \/ PassOn \/ Deliver
  BY <1>4, <1>5 DEF Connect, Queue, InvokeReturns, InvokeThrows, PassOn, Deliver
<1>6. ASSUME NEW s, Complete(s) PROVE WritingInv'
  BY <1>4, <1>6 DEF Complete
<1>7. CASE UNCHANGED vars
  BY <1>4, <1>7 DEF vars
<1> QED BY <1>1, <1>2, <1>3, <1>5, <1>6, <1>7 DEF Next

(* The signatures the compiler lists for what is written are exactly the     *)
(* signals that can come of it, each once, and it accepts then() exactly     *)
(* where the function can take every value and there is a value and an error *)
(* to be listed.                                                             *)
THEOREM SignaturesAreExact == Spec => []SignaturesExact
<1>1. WritingInv => SignaturesExact
  <2> SUFFICES ASSUME WritingInv, m_valid(sender) PROVE ExactFor(sender)
    BY DEF SignaturesExact, ExactFor
  <2>1. sender \in Senders
    BY DEF WritingInv, Piped, m_valid
  <2> QED BY <2>1, SendersAreExact
<1> QED BY <1>1, WritingInit, WritingStep, PTL DEF Spec

-------------------------------------------------------------------------------
(* What a signal finds at each receiver, as Route computes it.             *)

End(S) == Len(S.fns) + 1
Taken(S, E) == Declared(S, E) \union {Error, Stopped}
Goes(f, s, next) == s.tag = "value" /\ m_valid(invoke_result(f, s.args)) /\ next[set_value_tuple(f, s.args)] # "none"
AtReceiver(S, E, h, k, s) ==
  IF k = End(S) THEN via(TRUE, s \in Taken(S, E)) ELSE via(s.tag = "value", Goes(S.fns[k], s, h[k + 1]))
Routed(S, E, h) == h = [k \in 1..End(S) |-> [s \in Signals |-> AtReceiver(S, E, h, k, s)]]
RouteOf(S, E, i, s) == (CHOOSE h : Routed(S, E, h))[i][s]

LEMMA RouteIs ==
  ASSUME NEW i, NEW s
  PROVE  Route(i, s) = RouteOf(sender, env, i, s)
BY DEF Route, RouteOf, Routed, AtReceiver, Goes, Taken, End, Final, EndTakes

LEMMA RouteIsThen ==
  ASSUME NEW i, NEW s
  PROVE  Route(i, s)' = RouteOf(sender', env', i, s)
BY DEF Route, RouteOf, Routed, AtReceiver, Goes, Taken, End, Final, EndTakes

LEMMA RoutesExist ==
  ASSUME NEW S \in Senders, NEW E
  PROVE  \E h : Routed(S, E, h)
<1>0. PICK n \in Nat : n = Len(S.fns) /\ End(S) = n + 1
  BY DEF Senders, End
<1> DEFINE From(h, m) == h = [k \in n + 1 - m..n + 1 |-> [s \in Signals |-> AtReceiver(S, E, h, k, s)]]
           I == {m \in Nat : m <= n => \E h : From(h, m)}
<1>1. 0 \in I
  <2>1. PICK h : h = [k \in n + 1 - 0..n + 1 |-> [s \in Signals |-> via(TRUE, s \in Taken(S, E))]]
    OBVIOUS
  <2>2. \A k \in n + 1 - 0..n + 1, s \in Signals : AtReceiver(S, E, h, k, s) = via(TRUE, s \in Taken(S, E))
    <3>1. \A k \in n + 1 - 0..n + 1 : k = End(S)
      BY <1>0
    <3> QED BY <3>1 DEF AtReceiver
  <2>3. From(h, 0)
    BY <2>1, <2>2
  <2> QED BY <2>3
<1>2. ASSUME NEW m \in Nat, m \in I PROVE m + 1 \in I
  <2> SUFFICES ASSUME m + 1 <= n PROVE \E h : From(h, m + 1)
    OBVIOUS
  <2>1. PICK h : From(h, m)
    BY <1>2
  <2>2. PICK g : g = [k \in n + 1 - (m + 1)..n + 1 |-> [s \in Signals |-> AtReceiver(S, E, h, k, s)]]
    OBVIOUS
  <2>3. ASSUME NEW k \in n + 1 - m..n + 1 PROVE g[k] = h[k]
    <3>1. k \in n + 1 - (m + 1)..n + 1
      OBVIOUS
    <3>2. g[k] = [s \in Signals |-> AtReceiver(S, E, h, k, s)]
      BY <2>2, <3>1
    <3>3. h[k] = [s \in Signals |-> AtReceiver(S, E, h, k, s)]
      BY <2>1
    <3> QED BY <3>2, <3>3
  <2>4. ASSUME NEW k \in n + 1 - (m + 1)..n + 1, NEW s \in Signals
        PROVE  AtReceiver(S, E, h, k, s) = AtReceiver(S, E, g, k, s)
    <3>1. CASE k = n + 1
      BY <1>0, <3>1 DEF AtReceiver
    <3>2. CASE k # n + 1
      <4>1. k + 1 \in n + 1 - m..n + 1
        BY <3>2
      <4>2. g[k + 1] = h[k + 1]
        BY <2>3, <4>1
      <4> QED BY <1>0, <3>2, <4>2 DEF AtReceiver
    <3> QED BY <3>1, <3>2
  <2>5. From(g, m + 1)
    BY <2>2, <2>4
  <2> QED BY <2>5
<1>3. n \in I
  <2> HIDE DEF I
  <2> QED BY <1>1, <1>2, NatSet
<1>4. PICK h : From(h, n)
  BY <1>3
<1>5. n + 1 - n = 1
  OBVIOUS
<1>6. Routed(S, E, h)
  BY <1>0, <1>4, <1>5 DEF Routed
<1> QED BY <1>6

(* A function takes the values it is defined for, if what it gives is taken  *)
(* further on, and lets errors and stopped pass.                             *)
Follows(S, E, i, s) ==
  /\ m_valid(invoke_result(S.fns[i], s.args))
  /\ RouteOf(S, E, i + 1, set_value_tuple(S.fns[i], s.args)) # "none"

LEMMA RouteAt ==
  ASSUME NEW S \in Senders, NEW E, NEW i \in 1..End(S), NEW s \in Signals
  PROVE  /\ i = End(S) => (RouteOf(S, E, i, s) # "none" <=> s \in Taken(S, E))
         /\ i # End(S) /\ s.tag = "value" =>
              /\ RouteOf(S, E, i, s) = IF Follows(S, E, i, s) THEN "member" ELSE "none"
         /\ i # End(S) /\ s.tag # "value" => RouteOf(S, E, i, s) = "base"
<1>1. PICK h : h = CHOOSE g : Routed(S, E, g)
  OBVIOUS
<1>2. Routed(S, E, h)
  BY <1>1, RoutesExist
<1>3. RouteOf(S, E, i, s) = h[i][s] /\ \A x : RouteOf(S, E, i + 1, x) = h[i + 1][x]
  BY <1>1 DEF RouteOf
<1>4. h[i][s] = AtReceiver(S, E, h, i, s)
  <2>1. h[i] = [x \in Signals |-> AtReceiver(S, E, h, i, x)]
    BY <1>2 DEF Routed
  <2> QED BY <2>1
<1> QED BY <1>3, <1>4 DEF AtReceiver, Goes, Follows, via

LEMMA ValueGiven ==
  ASSUME NEW f \in Functions, NEW args, m_valid(invoke_result(f, args))
  PROVE  /\ args \in f.takes /\ set_value_tuple(f, args) = ValueOf(f.gives)
         /\ ValueOf(f.gives) \in Proper /\ ValueOf(f.gives).tag = "value"
<1>1. args \in f.takes
  BY DEF invoke_result, m_valid
<1>2. invoke_result(f, args) = f.gives
  BY <1>1 DEF invoke_result
<1>3. ValueOf(f.gives).tag = "value"
  BY DEF ValueOf, Sig
<1> QED BY <1>1, <1>2, <1>3, ValueOfIsProper DEF set_value_tuple

LEMMA DeclaredIs ==
  ASSUME NEW S \in Senders, NEW E \in Environments
  PROVE  /\ Known(completion_signatures_of(S, E)) <=> completion_signatures_of(S, E) \in Lists(Proper)
         /\ Declared(S, E) \subseteq Proper
         /\ Declared(S, E) # {} => Known(completion_signatures_of(S, E))
<1>1. PICK v \in Values : v = completion_signatures_of(S, E)
  BY SignaturesTyped
<1>2. Known(v) <=> v \in Lists(Proper)
  BY ListsKnown, Dependents DEF Values, Environments
<1>3. v \in Lists(Proper) => ToSet(v.ts) \subseteq Proper
  BY ListsAre DEF ToSet
<1> QED BY <1>1, <1>2, <1>3 DEF Declared

(* A value that is taken comes to the end, so that something is declared.    *)
LEMMA TakenIsKnown ==
  ASSUME NEW S \in Senders, NEW E \in Environments, NEW i \in 1..End(S), NEW s \in Signals,
         s.tag = "value", RouteOf(S, E, i, s) # "none"
  PROVE  Known(completion_signatures_of(S, E))
<1>0. PICK n \in Nat : n = Len(S.fns) /\ End(S) = n + 1
  BY DEF Senders, End
<1> DEFINE Ends(k) == \A x \in Signals : x.tag = "value" /\ RouteOf(S, E, k, x) # "none" =>
                        Known(completion_signatures_of(S, E))
           I == {m \in Nat : m <= n => Ends(n + 1 - m)}
<1>1. 0 \in I
  <2>1. ASSUME NEW x \in Signals, x.tag = "value", RouteOf(S, E, n + 1, x) # "none"
        PROVE  Known(completion_signatures_of(S, E))
    <3>1. n + 1 \in 1..End(S)
      BY <1>0
    <3>2. x \in Taken(S, E)
      BY <1>0, <2>1, <3>1, RouteAt
    <3>3. x # Error /\ x # Stopped
      BY <2>1 DEF Error, Stopped, Sig
    <3> QED BY <3>2, <3>3, DeclaredIs DEF Taken
  <2>2. Ends(n + 1)
    BY <2>1
  <2>3. n + 1 - 0 = n + 1
    OBVIOUS
  <2> HIDE DEF Ends
  <2> QED BY <2>2, <2>3
<1>2. ASSUME NEW m \in Nat, m \in I PROVE m + 1 \in I
  <2> SUFFICES ASSUME m + 1 <= n PROVE Ends(n + 1 - (m + 1))
    OBVIOUS
  <2>1. PICK k \in 1..n : k = n + 1 - (m + 1) /\ k + 1 = n + 1 - m
    OBVIOUS
  <2>2. Ends(k + 1)
    <3>1. m <= n
      OBVIOUS
    <3> HIDE DEF Ends
    <3> QED BY <1>2, <2>1, <3>1
  <2>3. ASSUME NEW x \in Signals, x.tag = "value", RouteOf(S, E, k, x) # "none"
        PROVE  Known(completion_signatures_of(S, E))
    <3>1. k \in 1..End(S) /\ k # End(S)
      BY <1>0
    <3>2. Follows(S, E, k, x)
      BY <2>3, <3>1, RouteAt
    <3>3. S.fns[k] \in Functions
      BY <1>0 DEF Senders
    <3>4. PICK y : y = set_value_tuple(S.fns[k], x.args)
      OBVIOUS
    <3>5. y \in Signals /\ y.tag = "value" /\ RouteOf(S, E, k + 1, y) # "none"
      BY <3>2, <3>3, <3>4, ValueGiven DEF Follows, Proper
    <3> QED BY <2>2, <3>5
  <2>4. Ends(k)
    BY <2>3
  <2> HIDE DEF Ends
  <2> QED BY <2>1, <2>4
<1>3. \A m \in Nat : m \in I
  <2> HIDE DEF I
  <2> QED BY <1>1, <1>2, NatSet
<1>4. PICK m \in Nat : m <= n /\ n + 1 - m = i
  <2>1. n + 1 - i \in Nat /\ n + 1 - i <= n /\ n + 1 - (n + 1 - i) = i
    BY <1>0
  <2> QED BY <2>1
<1>5. Ends(i)
  <2>1. m \in I
    BY <1>3
  <2> HIDE DEF Ends
  <2> QED BY <1>4, <2>1
<1> QED BY <1>5

-------------------------------------------------------------------------------
(* What is declared below each receiver.                                   *)

(* The sender below the receiver k + 1.                                      *)
Below(S, k) == [S EXCEPT !.fns = SubSeq(@, 1, k)]

LEMMA BelowIs ==
  ASSUME NEW S \in Senders, NEW n \in Nat, n = Len(S.fns), NEW k \in 0..n
  PROVE  /\ Below(S, k) \in Senders /\ Below(S, k).base = S.base
         /\ k = n => Below(S, k) = S
         /\ k = 0 => Below(S, k).fns = <<>>
         /\ k # n => S.fns[k + 1] \in Functions /\ Below(S, k + 1) = Then(Below(S, k), S.fns[k + 1])
<1>1. S.fns \in Seq(Functions) /\ S.base \in Bases /\ S = [base |-> S.base, fns |-> S.fns]
  BY DEF Senders
<1>2. PICK t : t = SubSeq(S.fns, 1, k)
  OBVIOUS
<1>3. t \in Seq(Functions) /\ Len(t) = k /\ \A i \in 1..k : t[i] = S.fns[i]
  BY <1>1, <1>2
<1>4. Below(S, k) = [base |-> S.base, fns |-> t]
  <2>1. Below(S, k) = [S EXCEPT !.fns = t]
    BY <1>2 DEF Below
  <2>2. DOMAIN S = {"base", "fns"}
    BY DEF Senders
  <2> QED BY <2>1, <2>2
<1>5. Below(S, k) \in Senders /\ Below(S, k).base = S.base /\ Below(S, k).fns = t
  BY <1>1, <1>3, <1>4 DEF Senders
<1>6. ASSUME k = n PROVE Below(S, k) = S
  <2>1. t = S.fns
    BY <1>1, <1>3, <1>6
  <2> QED BY <1>1, <1>4, <2>1
<1>7. ASSUME k = 0 PROVE t = <<>>
  BY <1>3, <1>7
<1>8. ASSUME k # n PROVE S.fns[k + 1] \in Functions /\ Below(S, k + 1) = Then(Below(S, k), S.fns[k + 1])
  <2>1. k + 1 \in 1..n
    BY <1>8
  <2>2. S.fns[k + 1] \in Functions
    BY <1>1, <2>1
  <2>3. SubSeq(S.fns, 1, k + 1) = Append(t, S.fns[k + 1])
    BY <1>1, <1>2, <2>1
  <2> QED BY <1>1, <1>4, <2>2, <2>3 DEF Below, Then
<1> QED BY <1>5, <1>6, <1>7, <1>8

(* One function further up: what then() makes of the signatures below it.    *)
LEMMA OneFurther ==
  ASSUME NEW S \in Senders, NEW E \in Environments, NEW n \in Nat, n = Len(S.fns), NEW k \in 0..n, k # n
  PROVE  completion_signatures_of(Below(S, k + 1), E)
           = then_signatures(completion_signatures_of(Below(S, k), E), S.fns[k + 1], E)
<1>1. Below(S, k) \in Senders /\ S.fns[k + 1] \in Functions
      /\ Below(S, k + 1) = Then(Below(S, k), S.fns[k + 1])
  BY BelowIs
<1> QED BY <1>1, ThenOf

LEMMA KnownBelow ==
  ASSUME NEW S \in Senders, NEW E \in Environments, NEW n \in Nat, n = Len(S.fns),
         Known(completion_signatures_of(S, E))
  PROVE  \A k \in 0..n : Known(completion_signatures_of(Below(S, k), E))
<1> DEFINE K(k) == Known(completion_signatures_of(Below(S, k), E))
           I == {m \in Nat : m <= n => K(n - m)}
<1>1. 0 \in I
  <2>1. n - 0 = n /\ n \in 0..n
    OBVIOUS
  <2> QED BY <2>1, BelowIs
<1>2. ASSUME NEW m \in Nat, m \in I PROVE m + 1 \in I
  <2> SUFFICES ASSUME m + 1 <= n PROVE K(n - (m + 1))
    OBVIOUS
  <2>1. PICK k \in 0..n : k = n - (m + 1) /\ k + 1 = n - m /\ k # n
    <3>1. n - (m + 1) \in 0..n /\ (n - (m + 1)) + 1 = n - m /\ n - (m + 1) # n
      OBVIOUS
    <3> QED BY <3>1
  <2>2. K(k + 1)
    <3>1. m <= n
      OBVIOUS
    <3> HIDE DEF K
    <3> QED BY <1>2, <2>1, <3>1
  <2>3. PICK v : v = completion_signatures_of(Below(S, k), E)
    OBVIOUS
  <2>4. Known(then_signatures(v, S.fns[k + 1], E))
    BY <2>1, <2>2, <2>3, OneFurther
  <2>5. v \in Values
    BY <2>3, BelowIs, SignaturesTyped
  <2>6. Known(v)
    <3>0. "no_env" \in Environments
      BY DEF Environments
    <3>1. v # IllFormed
      BY <2>4, <3>0, ThenOfDependent, Dependents
    <3>2. \A e \in Environments : v # Dependent(e)
      BY <2>4, <3>0, ThenOfDependent, Dependents
    <3> QED BY <2>5, <3>1, <3>2, ListsKnown DEF Values
  <2>7. K(k)
    BY <2>3, <2>6
  <2> HIDE DEF K
  <2> QED BY <2>1, <2>7
<1>3. \A m \in Nat : m \in I
  <2> HIDE DEF I
  <2> QED BY <1>1, <1>2, NatSet
<1>4. ASSUME NEW k \in 0..n PROVE K(k)
  <2>1. PICK m \in Nat : m = n - k /\ m <= n /\ n - m = k
    <3>1. n - k \in Nat /\ n - k <= n /\ n - (n - k) = k
      OBVIOUS
    <3> QED BY <3>1
  <2>2. m \in I
    BY <1>3
  <2> HIDE DEF K
  <2> QED BY <2>1, <2>2
<1> QED BY <1>4

(* What is declared above a function is what comes through it.               *)
LEMMA DeclaredAbove ==
  ASSUME NEW S \in Senders, NEW E \in Environments, NEW n \in Nat, n = Len(S.fns), NEW k \in 0..n, k # n,
         Known(completion_signatures_of(S, E))
  PROVE  Declared(Below(S, k + 1), E) = Through(S.fns[k + 1], Declared(Below(S, k), E))
<1>1. PICK v : v = completion_signatures_of(Below(S, k), E)
  OBVIOUS
<1>2. PICK w : w = then_signatures(v, S.fns[k + 1], E)
  OBVIOUS
<1>3. w = completion_signatures_of(Below(S, k + 1), E)
  BY <1>1, <1>2, OneFurther
<1>4. Known(v) /\ Known(w)
  <2>1. k + 1 \in 0..n
    OBVIOUS
  <2> QED BY <1>1, <1>3, <2>1, KnownBelow
<1>5. v \in Lists(Proper) /\ S.fns[k + 1] \in Functions
  BY <1>1, <1>4, BelowIs, DeclaredIs
<1>6. ToSet(w.ts) = Through(S.fns[k + 1], ToSet(v.ts))
  <2>1. m_valid(w)
    BY <1>4 DEF Known
  <2> QED BY <1>2, <1>5, <2>1, ThenIs
<1> QED BY <1>1, <1>3, <1>4, <1>6 DEF Declared

LEMMA DeclaredByBase ==
  ASSUME NEW S \in Senders, NEW E \in Environments, Known(completion_signatures_of(S, E))
  PROVE  /\ Declared(Below(S, 0), E) = ToSet(base_signatures(S.base, E).ts)
         /\ base_signatures(S.base, E) \in Lists(Proper)
<1>1. PICK n \in Nat : n = Len(S.fns) /\ 0 \in 0..n
  BY DEF Senders
<1>2. PICK B \in Senders : B = Below(S, 0) /\ B.base = S.base /\ B.fns = <<>>
  BY <1>1, BelowIs
<1>3. Known(completion_signatures_of(B, E))
  BY <1>1, <1>2, KnownBelow
<1>4. PICK m \in Nat : m = Len(B.fns)
  BY DEF Senders
<1>5. m = 0
  BY <1>2, <1>4
<1>6. completion_signatures_of(B, E) = base_signatures(S.base, E)
  <2>1. PICK p : /\ p[0] = base_signatures(B.base, E) /\ completion_signatures_of(B, E) = p[m]
                 /\ ThenUp(p, B.fns, m, E) /\ \A k \in 0..m : p[k] \in Values
    BY <1>4, SignatureSteps
  <2> QED BY <1>2, <1>5, <2>1
<1> QED BY <1>2, <1>3, <1>6, DeclaredIs DEF Declared

(* What is declared and no value always finds a way.                         *)
LEMMA OthersPass ==
  ASSUME NEW S \in Senders, NEW E \in Environments, NEW n \in Nat, n = Len(S.fns), NEW k \in 0..n,
         NEW s \in Declared(Below(S, k), E) \union {Error, Stopped}, s.tag # "value"
  PROVE  RouteOf(S, E, k + 1, s) # "none"
<1>1. s \in Signals
  BY BelowIs, DeclaredIs, FixedSignals DEF Proper
<1>2. End(S) = n + 1 /\ k + 1 \in 1..End(S)
  BY DEF End
<1>3. CASE k = n
  <2>1. Below(S, k) = S /\ k + 1 = End(S)
    BY <1>2, <1>3, BelowIs
  <2>2. s \in Taken(S, E)
    BY <2>1 DEF Taken
  <2> QED BY <1>1, <1>2, <2>1, <2>2, RouteAt
<1>4. CASE k # n
  <2>1. k + 1 # End(S)
    BY <1>2, <1>4
  <2>2. RouteOf(S, E, k + 1, s) = "base"
    BY <1>1, <1>2, <2>1, RouteAt
  <2> QED BY <2>2
<1> QED BY <1>3, <1>4

-------------------------------------------------------------------------------
(* The one value of sync_wait.                                             *)

LEMMA Renamed ==
  ASSUME NEW X, NEW s \in Seq(X), NEW t \in Templates
  PROVE  m_rename(m_list(s), t) \in Lists(X) /\ m_rename(m_list(s), t).ts = s
<1>1. PICK L \in Lists(X) : L = m_list(s) /\ L.ts = s
  BY MListOf
<1>2. m_rename(L, t) = [of |-> t, ts |-> s]
  BY <1>1 DEF m_rename, Lists
<1> QED BY <1>1, <1>2, ListOf

(* If sync_wait finds one tuple in the variant it wants, it is that of any   *)
(* value.                                                                    *)
LEMMA OneValue ==
  ASSUME NEW Fns \in Lists(Proper), NEW s \in ToSet(Fns.ts), s.tag = "value",
         NEW R, R = value_types(decayed_tuple, variant_or_empty, Fns), m_size(R) = 1
  PROVE  R.ts = <<decayed_tuple(s.args)>>
<1>1. PICK V : V = tag_args_t("value", Fns)
  OBVIOUS
<1>2. /\ V \in Lists(Lists(Types))
      /\ \A y : y \in ToSet(V.ts) <=> ArgsOf(y, "value", Fns)
  <2>1. Fns.ts # <<>>
    BY ListsAre, Empty
  <2> QED BY <1>1, <2>1, TagArgs
<1>3. PICK X : X = Lists(Types)
  OBVIOUS
<1>4. V \in Lists(X) /\ X \subseteq Elements /\ IllFormed \notin X
  BY <1>2, <1>3, Kinds, NotIllFormed
<1>5. PICK c : /\ Columns(<<V>>) = [of |-> V.of, ts |-> c]
               /\ DOMAIN c = 1..Len(V.ts)
               /\ \A i \in 1..Len(V.ts) :
                    /\ V.ts[i] \in X /\ V.ts[i] # IllFormed
                    /\ c[i] = m_list(<<V.ts[i]>>) /\ c[i] # IllFormed /\ c[i].ts = <<V.ts[i]>>
  BY <1>4, OneColumn
<1>6. PICK g : g = [x \in X |-> decayed_tuple(x.ts)]
  OBVIOUS
<1>7. PICK v : v = Image(g, V)
  OBVIOUS
<1>8. /\ [of |-> V.of, ts |-> v] \in Lists(X) /\ v \in Seq(X) /\ Len(v) = Len(V.ts)
      /\ IllFormed \notin ToSet(v)
  <2>1. ASSUME NEW x \in X PROVE g[x] \in X
    <3>1. x.ts \in Seq(Types)
      BY <1>3, ListsAre
    <3>2. decayed_tuple(x.ts) \in Lists(Types)
      BY <3>1, Renamed DEF decayed_tuple, Templates
    <3> QED BY <1>3, <1>6, <3>2
  <2>2. Into(g, X, X)
    BY <2>1 DEF Into
  <2> QED BY <1>4, <1>7, <2>2, Mapped
<1>9. PICK C : C = Columns(<<V>>)
  OBVIOUS
<1>10. C.ts = c /\ [C EXCEPT !.ts = v] = [of |-> V.of, ts |-> v]
  BY <1>5, <1>9
<1>11. [i \in DOMAIN C.ts |-> m_apply(LAMBDA args : m_apply(decayed_tuple, args[1]), C.ts[i])] = v
  <2>1. ASSUME NEW i \in 1..Len(V.ts)
        PROVE  m_apply(LAMBDA args : m_apply(decayed_tuple, args[1]), c[i]) = g[V.ts[i]]
    <3>1. \A x : <<x>>[1] = x
      OBVIOUS
    <3>2. c[i].ts[1] = V.ts[i]
      BY <1>5, <3>1
    <3>3. m_apply(LAMBDA args : m_apply(decayed_tuple, args[1]), c[i]) = m_apply(decayed_tuple, V.ts[i])
      BY <1>5, <3>2 DEF m_apply, m_valid
    <3>4. m_apply(decayed_tuple, V.ts[i]) = decayed_tuple(V.ts[i].ts)
      BY <1>5 DEF m_apply, m_valid
    <3> QED BY <1>5, <1>6, <3>3, <3>4
  <2> QED BY <1>5, <1>7, <1>10, <2>1 DEF Image
<1>12. Combinable(<<V>>) /\ Len(<<V>>) <= 5
  BY <1>4, OneCombines
<1>13. m_transform(LAMBDA args : m_apply(decayed_tuple, args[1]), <<V>>) = [of |-> V.of, ts |-> v]
  BY <1>8, <1>9, <1>10, <1>11, <1>12 DEF m_transform, Spread
<1>14. PICK W : W = [of |-> V.of, ts |-> v]
  OBVIOUS
<1>15. m_valid(W) /\ W.ts = v
  BY <1>4, <1>8, <1>14, NotIllFormed DEF m_valid
<1>16. R = variant_or_empty(v)
  BY <1>1, <1>13, <1>14, <1>15 DEF value_types, m_apply
<1>17. args_t(s) \in ToSet(V.ts) /\ args_t(s).ts = s.args
  <2>1. s \in Proper
    BY ListsAre DEF ToSet
  <2>2. s.args \in Seq(Types)
    BY <2>1 DEF Proper, Signals
  <2> QED BY <1>2, <2>2, MListOf DEF ArgsOf, args_t
<1>18. PICK i \in 1..Len(V.ts) : V.ts[i] = args_t(s)
  <2>1. DOMAIN V.ts = 1..Len(V.ts)
    BY <1>4, ListsAre
  <2> QED BY <1>17, <2>1 DEF ToSet
<1>19. Len(V.ts) \in Nat /\ v # <<>>
  <2>1. Len(V.ts) \in Nat
    BY <1>4, ListsAre
  <2> QED BY <1>8, <1>18, <2>1
<1>20. R.ts = v
  <2>1. R = m_rename(m_list(v), "variant")
    BY <1>16, <1>19, Kinds DEF variant_or_empty, m_if
  <2> QED BY <1>8, <2>1, Renamed DEF Templates
<1>21. Len(v) = 1 /\ i = 1
  BY <1>8, <1>18, <1>20 DEF m_size
<1>22. v[1] = decayed_tuple(s.args)
  <2>1. v[i] = g[V.ts[i]]
    BY <1>7, <1>18 DEF Image
  <2> QED BY <1>5, <1>6, <1>17, <1>18, <1>21, <2>1
<1>23. v = <<v[1]>>
  BY <1>8, <1>21
<1> QED BY <1>20, <1>22, <1>23

-------------------------------------------------------------------------------
(* The functions that a closure writes.                                    *)

(* Closures, function by function.                                           *)
LEMMA ApplyStep ==
  ASSUME NEW n \in 1..MaxFns, NEW c \in Closures[n], NEW S \in Senders
  PROVE  /\ n = 1 => Apply(c, S) = then(S, c.arg)
         /\ n # 1 => Apply(c, S) = Apply(c.cpo, Apply(c.cpo2, S))
<1>0. MaxFns \in Nat
  BY PipelineAssumption
<1>1. PICK of : of = CHOOSE h : BuiltUp(h, MaxFns)
  OBVIOUS
<1>2. BuiltUp(of, MaxFns)
  BY <1>1, ResultsExist
<1>3. ASSUME NEW d, NEW X PROVE Apply(d, X) = of[d][X]
  BY <1>1 DEF Apply, BuiltUp, Result, UpTo, Piped
<1>4. m_valid(S) /\ S \in Piped
  BY PipelineAssumption DEF Senders, Piped, m_valid
<1>5. of[c][S] = Result(of, c, S)
  <2>1. c \in UpTo(MaxFns)
    BY DEF UpTo
  <2> QED BY <1>2, <1>4, <2>1 DEF BuiltUp
<1>6. CASE n = 1
  <2>1. "arg" \in DOMAIN c
    BY <1>6, ClosureParts
  <2> QED BY <1>3, <1>4, <1>5, <1>6, <2>1 DEF Result
<1>7. CASE n # 1
  <2>1. "arg" \notin DOMAIN c
    BY <1>7, ClosureParts
  <2> QED BY <1>3, <1>4, <1>5, <1>7, <2>1 DEF Result
<1> QED BY <1>6, <1>7

LEMMA ApplyToNothing ==
  ASSUME NEW c \in UpTo(MaxFns)
  PROVE  Apply(c, IllFormed) = IllFormed
<1>1. PICK of : of = CHOOSE h : BuiltUp(h, MaxFns)
  OBVIOUS
<1>2. BuiltUp(of, MaxFns)
  BY <1>1, ResultsExist
<1>3. Apply(c, IllFormed) = of[c][IllFormed]
  BY <1>1 DEF Apply, BuiltUp, Result, UpTo, Piped
<1>4. of[c][IllFormed] = Result(of, c, IllFormed)
  BY <1>2 DEF BuiltUp, Piped
<1> QED BY <1>3, <1>4 DEF Result, m_valid

(* The sender with more functions.                                           *)
Extended(S, fs) == [base |-> S.base, fns |-> S.fns \o fs]
Writes(c, fs) == \A S \in Senders : Apply(c, S) \in {IllFormed, Extended(S, fs)}

LEMMA ExtendedIs ==
  ASSUME NEW S \in Senders, NEW fs \in Seq(Functions)
  PROVE  /\ Extended(S, fs) \in Senders
         /\ Extended(S, fs).base = S.base /\ Extended(S, fs).fns = S.fns \o fs
<1>1. S.base \in Bases /\ S.fns \in Seq(Functions)
  BY DEF Senders
<1>2. S.fns \o fs \in Seq(Functions)
  BY <1>1
<1> QED BY <1>1, <1>2 DEF Extended, Senders

LEMMA ThenWrites ==
  ASSUME NEW S \in Senders, NEW f \in Functions
  PROVE  then(S, f) \in {IllFormed, Extended(S, <<f>>)}
<1>1. then(S, f) \in {IllFormed, Then(S, f)}
  BY DEF then, Then
<1>2. S.fns \in Seq(Functions) /\ DOMAIN S = {"base", "fns"}
  BY DEF Senders
<1>3. Append(S.fns, f) = S.fns \o <<f>>
  BY <1>2
<1>4. PICK t : t = Append(S.fns, f)
  OBVIOUS
<1>5. Then(S, f) = [base |-> S.base, fns |-> t]
  <2>1. Then(S, f) = [S EXCEPT !.fns = t]
    BY <1>4 DEF Then
  <2> QED BY <1>2, <2>1
<1> QED BY <1>1, <1>3, <1>4, <1>5 DEF Extended

LEMMA CloseWrites ==
  ASSUME NEW f \in Functions, 1 <= MaxFns
  PROVE  Writes(bind_back(f), <<f>>)
<1>1. 1 \in 1..MaxFns
  BY PipelineAssumption
<1>2. bind_back(f) \in Closures[1] /\ bind_back(f).arg = f
  BY <1>1, ClosuresAre DEF ClosuresOf, Leaves, bind_back
<1> QED BY <1>1, <1>2, ApplyStep, ThenWrites DEF Writes

(* One closure behind another writes the functions of both.                  *)
LEMMA ComposeWrites ==
  ASSUME NEW m \in Nat, NEW n \in Nat, m # 0, n # 0, m + n <= MaxFns, NEW c1 \in Closures[m], NEW c2 \in Closures[n],
         NEW fs1 \in Seq(Functions), NEW fs2 \in Seq(Functions), Writes(c1, fs1), Writes(c2, fs2)
  PROVE  Writes(compose(c1, c2), fs1 \o fs2)
<1>0. MaxFns \in Nat
  BY PipelineAssumption
<1>1. m \in 1..MaxFns /\ m + n \in 1..MaxFns /\ n \in 1..MaxFns /\ n \in 1..(m + n) - 1 /\ (m + n) - n = m /\ m + n # 1
  BY <1>0
<1>2. PICK c : c = compose(c1, c2)
  OBVIOUS
<1>3. c \in [cpo : Closures[n], cpo2 : Closures[m]] /\ c.cpo = c2 /\ c.cpo2 = c1
  BY <1>2 DEF compose
<1>4. c \in Closures[m + n]
  <2>1. c \in Nested(Closures, m + n)
    BY <1>1, <1>3 DEF Nested
  <2> QED BY <1>1, <2>1, ClosuresAre DEF ClosuresOf
<1>5. ASSUME NEW S \in Senders PROVE Apply(c, S) \in {IllFormed, Extended(S, fs1 \o fs2)}
  <2>1. Apply(c, S) = Apply(c2, Apply(c1, S))
    BY <1>1, <1>3, <1>4, ApplyStep
  <2>2. CASE Apply(c1, S) = IllFormed
    <3>1. c2 \in UpTo(MaxFns)
      BY <1>1 DEF UpTo
    <3> QED BY <2>1, <2>2, <3>1, ApplyToNothing
  <2>3. CASE Apply(c1, S) = Extended(S, fs1)
    <3>1. PICK T \in Senders : T = Extended(S, fs1) /\ T.base = S.base /\ T.fns = S.fns \o fs1
      BY ExtendedIs
    <3>2. Apply(c, S) \in {IllFormed, Extended(T, fs2)}
      BY <2>1, <2>3, <3>1 DEF Writes
    <3>3. (S.fns \o fs1) \o fs2 = S.fns \o (fs1 \o fs2)
      <4>1. PICK u \in Seq(Functions) : u = S.fns
        BY DEF Senders
      <4>2. (u \o fs1) \o fs2 = u \o (fs1 \o fs2)
        BY ONLY fs1 \in Seq(Functions), fs2 \in Seq(Functions), Assoc
      <4> QED BY <4>1, <4>2
    <3>4. Extended(T, fs2) = Extended(S, fs1 \o fs2)
      BY <3>1, <3>3 DEF Extended
    <3> QED BY <3>2, <3>4
  <2> QED BY <2>2, <2>3 DEF Writes
<1> QED BY <1>2, <1>5 DEF Writes

-------------------------------------------------------------------------------
(* The signal on its way.                                                  *)

(* connect, as a state predicate of the sender and the environment.          *)
ConnectsTo(S, E) ==
  CASE S.base.kind = "just" -> RouteOf(S, E, 1, Sig("value", S.base.ts)) # "none"
    [] S.base.kind = "schedule" -> RouteOf(S, E, 1, Sig("value", <<>>)) # "none"
    [] S.base.kind = "read" -> E = "env" /\ RouteOf(S, E, 1, Sig("value", <<Answer>>)) # "none"
    [] S.base.kind = "custom" -> \A s \in ToSet(S.base.sigs) : RouteOf(S, E, 1, s) # "none"
    [] OTHER -> FALSE

LEMMA ConnectableIs ==
  Connectable(sender.base) <=> ConnectsTo(sender, env)
BY RouteIs DEF Connectable, ConnectsJust, ConnectsSchedule, ConnectsRead, ConnectsCustom, ConnectsTo

(* What is connected has signatures in its environment.                      *)
LEMMA ConnectedIsKnown ==
  ASSUME NEW S \in Senders, NEW E \in {"env", "empty_env"}, is_sender(S, "no_env"), ConnectsTo(S, E)
  PROVE  Known(completion_signatures_of(S, E))
<1>0. E \in Environments /\ "no_env" \in Environments
  BY DEF Environments
<1>1. CASE S.base.kind = "read"
  <2>1. Answer \in Types
    BY PipelineAssumption
  <2>2. PICK a : a = <<Answer>>
    OBVIOUS
  <2>3. a \in Seq(Types)
    BY <2>1, <2>2
  <2>4. PICK s \in Signals : s = Sig("value", a) /\ s.tag = "value"
    BY <2>3, ValueIsProper DEF Sig, Proper
  <2>5. RouteOf(S, E, 1, s) # "none"
    BY <1>1, <2>2, <2>4 DEF ConnectsTo
  <2>6. 1 \in 1..End(S)
    BY DEF End, Senders
  <2> QED BY <1>0, <2>4, <2>5, <2>6, TakenIsKnown
<1>2. CASE S.base.kind # "read"
  <2>1. PICK v \in Lists(Proper) \union {IllFormed} :
          v = completion_signatures_of(S, "no_env") /\ v = completion_signatures_of(S, E)
    BY <1>0, <1>2, PlainSenders
  <2>2. has_sender_types(v)
    BY <2>1 DEF is_sender
  <2> QED BY <1>0, <2>1, <2>2, Dependents, ListsKnown
<1> QED BY <1>1, <1>2

(* What completes a base that is connected is declared, and taken.           *)
LEMMA CompletionIsTaken ==
  ASSUME NEW S \in Senders, NEW E \in Environments, ConnectsTo(S, E), Known(completion_signatures_of(S, E)),
         NEW s \in Completions(S.base)
  PROVE  s \in Declared(Below(S, 0), E) /\ RouteOf(S, E, 1, s) # "none"
<1>1. PICK b \in Bases : b = S.base
  BY DEF Senders
<1>2. PICK L \in Lists(Proper) : L = base_signatures(b, E) /\ Declared(Below(S, 0), E) = ToSet(L.ts)
  BY <1>1, DeclaredByBase
<1>3. ASSUME s = Error, Error \in Declared(Below(S, 0), E) PROVE RouteOf(S, E, 1, s) # "none"
  <2>1. PICK n \in Nat : n = Len(S.fns) /\ 0 \in 0..n
    BY DEF Senders
  <2>2. s.tag # "value" /\ 0 + 1 = 1
    BY <1>3 DEF Error, Sig
  <2> QED BY <1>3, <2>1, <2>2, OthersPass
<1>4. ASSUME NEW x, NEW y, NEW z
      PROVE  /\ ToSet(completion_signatures(<<x, y>>).ts) = {x, y}
             /\ ToSet(completion_signatures(<<x, y, z>>).ts) = {x, y, z}
  BY DEF completion_signatures, m_rename, m_list, ToSet
<1>5. CASE b.kind = "just"
  <2>1. s = Sig("value", b.ts)
    BY <1>1, <1>5 DEF Completions, StartJust
  <2>2. RouteOf(S, E, 1, s) # "none"
    BY <1>1, <1>5, <2>1 DEF ConnectsTo
  <2>3. L = completion_signatures(<<s, Error>>)
    BY <1>2, <1>5, <2>1 DEF base_signatures, just_signatures
  <2>4. ToSet(L.ts) = {s, Error}
    BY <1>4, <2>3
  <2> QED BY <1>2, <2>2, <2>4
<1>6. CASE b.kind = "schedule"
  <2>1. s = Sig("value", <<>>)
    BY <1>1, <1>6 DEF Completions, Execute
  <2>2. RouteOf(S, E, 1, s) # "none"
    BY <1>1, <1>6, <2>1 DEF ConnectsTo
  <2>3. L = completion_signatures(<<s, Error, Stopped>>)
    BY <1>2, <1>6, <2>1 DEF base_signatures, run_loop_signatures
  <2>4. ToSet(L.ts) = {s, Error, Stopped}
    BY <1>4, <2>3
  <2> QED BY <1>2, <2>2, <2>4
<1>7. CASE b.kind = "read"
  <2>1. E = "env" /\ RouteOf(S, E, 1, Sig("value", <<Answer>>)) # "none"
    BY <1>1, <1>7 DEF ConnectsTo
  <2>2. s \in {Sig("value", <<Answer>>), Error}
    BY <1>1, <1>7 DEF Completions, StartRead
  <2>3. {Sig("value", <<Answer>>), Error} = Declared(Below(S, 0), E)
    BY <1>2, <1>4, <1>7, <2>1 DEF base_signatures, read_signatures
  <2> QED BY <1>3, <2>1, <2>2, <2>3
<1>8. CASE b.kind = "custom"
  <2>1. s \in ToSet(b.sigs)
    BY <1>1, <1>8 DEF Completions
  <2>2. RouteOf(S, E, 1, s) # "none"
    BY <1>1, <1>8, <2>1 DEF ConnectsTo
  <2>3. L.ts = b.sigs
    <3>1. b.sigs \in Seq(Proper)
      BY <1>8, PipelineAssumption DEF Proper
    <3> QED BY <1>2, <1>8, <3>1, SignaturesOf DEF base_signatures
  <2> QED BY <1>2, <2>1, <2>2, <2>3
<1>9. b.kind \in {"just", "schedule", "read", "custom"}
  BY <1>1 DEF ConnectsTo
<1> QED BY <1>5, <1>6, <1>7, <1>8, <1>9

(* A signal at a receiver, and the functions that were called on its way: it *)
(* is declared below and taken there, and as long as it is a value every     *)
(* function behind it was called.                                            *)
Arrives(S, E, i, s, cs) ==
  /\ i \in 1..End(S)
  /\ s \in Declared(Below(S, i - 1), E) /\ RouteOf(S, E, i, s) # "none"
  /\ cs \in Seq(Functions) /\ cs = SubSeq(S.fns, 1, Len(cs)) /\ Len(cs) < i
  /\ s.tag = "value" => Len(cs) = i - 1

LEMMA FirstArrives ==
  ASSUME NEW S \in Senders, NEW E \in Environments, ConnectsTo(S, E), Known(completion_signatures_of(S, E)),
         NEW s \in Completions(S.base)
  PROVE  Arrives(S, E, 1, s, <<>>)
<1>1. PICK z : z = <<>>
  OBVIOUS
<1>2. S.fns \in Seq(Functions)
  BY DEF Senders
<1>3. z \in Seq(Functions) /\ Len(z) = 0 /\ z = SubSeq(S.fns, 1, 0)
  BY <1>1, <1>2
<1>4. 1 \in 1..End(S) /\ 1 - 1 = 0
  BY <1>2 DEF End
<1>5. s \in Declared(Below(S, 0), E) /\ RouteOf(S, E, 1, s) # "none"
  BY CompletionIsTaken
<1> QED BY <1>1, <1>3, <1>4, <1>5 DEF Arrives

LEMMA NextArrives ==
  ASSUME NEW S \in Senders, NEW E \in Environments, Known(completion_signatures_of(S, E)),
         NEW i, NEW s, NEW cs, Arrives(S, E, i, s, cs), i # End(S)
  PROVE  /\ S.fns[i] \in Functions
         /\ RouteOf(S, E, i, s) = "member" =>
              /\ Arrives(S, E, i + 1, set_value_tuple(S.fns[i], s.args), Append(cs, S.fns[i]))
              /\ Arrives(S, E, i + 1, Error, Append(cs, S.fns[i]))
         /\ RouteOf(S, E, i, s) = "base" => Arrives(S, E, i + 1, s, cs)
<1>1. PICK n \in Nat : n = Len(S.fns)
  BY DEF Senders
<1>2. /\ i \in 1..n /\ i - 1 \in 0..n /\ i - 1 # n /\ (i - 1) + 1 = i
      /\ i \in 1..End(S) /\ i + 1 \in 1..End(S) /\ (i + 1) - 1 = i /\ i \in 0..n
  BY <1>1 DEF Arrives, End
<1>3. PICK f \in Functions : f = S.fns[i]
  BY <1>1, <1>2, BelowIs
<1>4. s \in Declared(Below(S, i - 1), E) /\ s \in Proper /\ s \in Signals
  <2>1. Below(S, i - 1) \in Senders
    BY <1>1, <1>2, BelowIs
  <2> QED BY <2>1, DeclaredIs DEF Arrives, Proper
<1>5. PICK D : D = Declared(Below(S, i), E)
  OBVIOUS
<1>6. D = Through(f, Declared(Below(S, i - 1), E))
  BY <1>1, <1>2, <1>3, <1>5, DeclaredAbove
<1>7. Error \in D /\ Error.tag # "value"
  BY <1>6 DEF Through, Error, Sig
<1>8. ASSUME NEW t \in D, t.tag # "value" PROVE RouteOf(S, E, i + 1, t) # "none"
  BY <1>1, <1>2, <1>5, <1>8, OthersPass
<1>9. cs \in Seq(Functions) /\ cs = SubSeq(S.fns, 1, Len(cs)) /\ Len(cs) < i /\ Len(cs) < i + 1
      /\ (s.tag = "value" => Len(cs) = i - 1)
  BY <1>2 DEF Arrives
<1>10. ASSUME RouteOf(S, E, i, s) = "member"
       PROVE  /\ Arrives(S, E, i + 1, set_value_tuple(f, s.args), Append(cs, f))
              /\ Arrives(S, E, i + 1, Error, Append(cs, f))
  <2>1. s.tag = "value" /\ Follows(S, E, i, s)
    BY <1>2, <1>4, <1>10, RouteAt
  <2>2. PICK ds : ds = Append(cs, f)
    OBVIOUS
  <2>3. ds \in Seq(Functions) /\ Len(ds) = i
    BY <1>2, <1>9, <2>1, <2>2
  <2>4. ds = SubSeq(S.fns, 1, i)
    <3>1. cs = SubSeq(S.fns, 1, i - 1)
      BY <1>9, <2>1
    <3>2. S.fns \in Seq(Functions)
      BY DEF Senders
    <3> QED BY <1>1, <1>2, <1>3, <2>2, <3>1, <3>2
  <2>5. PICK t : t = set_value_tuple(f, s.args)
    OBVIOUS
  <2>6. t = ValueOf(f.gives) /\ t.tag = "value" /\ RouteOf(S, E, i + 1, t) # "none"
    BY <1>3, <2>1, <2>5, ValueGiven DEF Follows
  <2>7. t \in D
    BY <1>4, <1>6, <2>1, <2>6 DEF Through
  <2>8. i < i + 1
    BY <1>2
  <2>9. Arrives(S, E, i + 1, t, ds)
    BY <1>2, <1>5, <2>3, <2>4, <2>6, <2>7, <2>8 DEF Arrives
  <2>10. Arrives(S, E, i + 1, Error, ds)
    BY <1>2, <1>5, <1>7, <1>8, <2>3, <2>4, <2>8 DEF Arrives
  <2> QED BY <2>2, <2>5, <2>9, <2>10
<1>11. ASSUME RouteOf(S, E, i, s) = "base" PROVE Arrives(S, E, i + 1, s, cs)
  <2>1. s.tag # "value"
    <3>1. ASSUME s.tag = "value" PROVE RouteOf(S, E, i, s) \in {"member", "none"}
      BY <1>2, <1>4, <3>1, RouteAt
    <3> QED BY <1>11, <3>1
  <2>2. s \in D
    BY <1>4, <1>6, <2>1 DEF Through
  <2>3. RouteOf(S, E, i + 1, s) # "none"
    BY <1>8, <2>1, <2>2
  <2> QED BY <1>2, <1>5, <1>9, <2>1, <2>2, <2>3 DEF Arrives
<1> QED BY <1>3, <1>10, <1>11

(* The sender is what is written; what is connected can be; and a signal on  *)
(* its way arrives at every receiver.                                        *)
SenderInv ==
  /\ env \in {"env", "empty_env"}
  /\ phase \in {"writing", "rejected", "connected", "queued", "completing", "done"}
  /\ phase # "rejected" => sender \in Senders /\ sender.fns = text
  /\ closure # <<>> => Writes(closure, written)

Running == phase \in {"connected", "queued", "completing", "done"}

SignalInv ==
  /\ Running => ConnectsTo(sender, env) /\ Known(completion_signatures_of(sender, env))
  /\ phase \in {"writing", "connected", "queued"} => called = <<>> /\ out = <<>>
  /\ phase \in {"completing", "done"} => Arrives(sender, env, at, signal, called)
  /\ phase = "completing" => out = <<>>
  /\ phase = "done" => at = End(sender) /\ out = <<signal>>

DeliveryInv == WritingInv /\ SenderInv /\ SignalInv

LEMMA DeliveryInit == Init => DeliveryInv
<1> SUFFICES ASSUME Init PROVE SenderInv /\ SignalInv
  BY WritingInit DEF DeliveryInv
<1>1. PICK z : z = <<>>
  OBVIOUS
<1>2. z \in Seq(Functions)
  BY <1>1
<1>3. sender \in Senders /\ sender.fns = text
  <2>1. PICK b \in Bases : sender = [base |-> b, fns |-> z]
    BY <1>1 DEF Init
  <2>2. text = z
    BY <1>1 DEF Init
  <2> QED BY <1>2, <2>1, <2>2 DEF Senders
<1>4. SenderInv
  BY <1>3 DEF Init, SenderInv
<1> QED BY <1>4 DEF Init, SignalInv, Running

LEMMA SenderStep == WritingInv /\ SenderInv /\ [Next]_vars => SenderInv'
<1> SUFFICES ASSUME WritingInv, SenderInv, [Next]_vars PROVE SenderInv'
  OBVIOUS
<1>0. MaxFns \in Nat /\ text \in Seq(Functions) /\ written \in Seq(Functions) /\ Len(text) + Len(written) <= MaxFns
  BY PipelineAssumption DEF WritingInv
<1>1. ASSUME NEW f \in Functions, Close(f) PROVE SenderInv'
  <2>1. 1 <= MaxFns
    BY <1>0, <1>1 DEF Close, Room
  <2>2. Writes(closure', written')
    BY <1>1, <2>1, CloseWrites DEF Close
  <2> QED BY <1>1, <2>2 DEF Close, SenderInv
<1>2. ASSUME NEW f \in Functions, ComposeAfter(f) \/ ComposeBefore(f) PROVE SenderInv'
  <2>1. PICK n \in 1..MaxFns : n = Len(written) /\ closure \in Closures[n]
    BY <1>2 DEF ComposeAfter, ComposeBefore, WritingInv
  <2>2. /\ n + 1 <= MaxFns /\ 1 + n <= MaxFns /\ 1 <= MaxFns /\ 1 \in 1..MaxFns
        /\ n \in Nat /\ n # 0 /\ 1 \in Nat /\ 1 # 0
    BY <1>0, <1>2, <2>1 DEF ComposeAfter, ComposeBefore, Room
  <2>3. PICK w : w = <<f>>
    OBVIOUS
  <2>4. w \in Seq(Functions) /\ written \o w = Append(written, f)
    BY <1>0, <2>3
  <2>5. Writes(bind_back(f), w) /\ Writes(closure, written)
    BY <1>2, <2>2, <2>3, CloseWrites DEF SenderInv, ComposeAfter, ComposeBefore
  <2>6. bind_back(f) \in Closures[1]
    BY <2>2, ClosuresAre DEF ClosuresOf, Leaves
  <2>7. PICK c \in Closures[1] : c = bind_back(f) /\ Writes(c, w)
    BY <2>5, <2>6
  <2>8. Writes(compose(closure, c), written \o w) /\ Writes(compose(c, closure), w \o written)
    BY <1>0, <2>1, <2>2, <2>4, <2>5, <2>7, ComposeWrites
  <2>9. Writes(closure', written')
    BY <1>2, <2>3, <2>4, <2>7, <2>8 DEF ComposeAfter, ComposeBefore
  <2> QED BY <1>2, <2>9 DEF ComposeAfter, ComposeBefore, SenderInv
<1>3. CASE Pipe
  <2>1. sender \in Senders /\ sender.fns = text /\ Writes(closure, written)
    BY <1>3 DEF Pipe, SenderInv
  <2>2. sender' \in {IllFormed, Extended(sender, written)}
    BY <1>3, <2>1 DEF Pipe, Writes
  <2>3. phase' \in {"writing", "rejected"} /\ (phase' # "rejected" => sender' # IllFormed)
    BY <1>3 DEF Pipe, m_valid
  <2>4. ASSUME phase' # "rejected" PROVE sender' \in Senders /\ sender'.fns = text'
    <3>1. sender' = Extended(sender, written)
      BY <2>2, <2>3, <2>4
    <3>2. text' = sender.fns \o written
      BY <1>3, <2>1 DEF Pipe
    <3> QED BY <1>0, <2>1, <3>1, <3>2, ExtendedIs
  <2>5. closure' = <<>> /\ env' = env
    BY <1>3 DEF Pipe
  <2> QED BY <2>3, <2>4, <2>5 DEF SenderInv
<1>4. ASSUME UNCHANGED <<env, sender, text, closure, written>>,
             phase' \in {"connected", "queued", "completing", "done"}, phase # "rejected"
      PROVE  SenderInv'
  BY <1>4 DEF SenderInv
<1>5. CASE Connect
  BY <1>4, <1>5 DEF Connect
<1>6. CASE Queue
  BY <1>4, <1>6 DEF Queue
<1>7. ASSUME NEW s, Complete(s), phase \in {"connected", "queued"} PROVE SenderInv'
  BY <1>4, <1>7 DEF Complete
<1>8. CASE InvokeReturns \/ InvokeThrows \/ PassOn
  BY <1>4, <1>8 DEF InvokeReturns, InvokeThrows, PassOn, AtFunction
<1>9. CASE Deliver
  BY <1>4, <1>9 DEF Deliver
<1>10. CASE UNCHANGED vars
  BY <1>10 DEF vars, SenderInv
<1> QED BY <1>1, <1>2, <1>3, <1>5, <1>6, <1>7, <1>8, <1>9, <1>10 DEF Next

LEMMA SignalStep == SenderInv /\ SignalInv /\ [Next]_vars => SignalInv'
<1> SUFFICES ASSUME SenderInv, SignalInv, [Next]_vars PROVE SignalInv'
  OBVIOUS
<1>0. env \in {"env", "empty_env"} /\ env \in Environments /\ (phase # "rejected" => sender \in Senders)
  BY DEF SenderInv, Environments
<1>1. ASSUME phase = "writing", phase' \in {"writing", "rejected"}, UNCHANGED <<called, out>>
      PROVE  SignalInv'
  BY <1>1 DEF SignalInv, Running
<1>2. CASE \E f \in Functions : Close(f) \/ ComposeAfter(f) \/ ComposeBefore(f)
  BY <1>1, <1>2 DEF Close, ComposeAfter, ComposeBefore, Room
<1>3. CASE Pipe
  BY <1>1, <1>3 DEF Pipe
<1>4. CASE Connect
  <2>1. ConnectsTo(sender, env)
    BY <1>4, ConnectableIs DEF Connect
  <2>2. Known(completion_signatures_of(sender, env))
    BY <1>0, <1>4, <2>1, ConnectedIsKnown DEF Connect
  <2> QED BY <1>4, <2>1, <2>2 DEF Connect, SignalInv, Running
<1>5. CASE Queue
  BY <1>5 DEF Queue, SignalInv, Running
<1>6. ASSUME NEW s \in Completions(sender.base), Complete(s), phase \in {"connected", "queued"}
      PROVE  SignalInv'
  <2>1. sender \in Senders /\ ConnectsTo(sender, env) /\ Known(completion_signatures_of(sender, env))
        /\ called = <<>> /\ out = <<>>
    BY <1>0, <1>6 DEF SignalInv, Running
  <2>2. Arrives(sender, env, 1, s, <<>>)
    BY <1>0, <1>6, <2>1, FirstArrives
  <2>3. phase' = "completing" /\ at' = 1 /\ signal' = s /\ UNCHANGED <<env, sender, called, out>>
    BY <1>6 DEF Complete
  <2> QED BY <2>1, <2>2, <2>3 DEF SignalInv, Running
<1>7. ASSUME NEW how, AtFunction(how), phase' = phase, UNCHANGED <<env, sender, out>>,
             Arrives(sender, env, at + 1, signal', called')
      PROVE  SignalInv'
  BY <1>7 DEF AtFunction, SignalInv, Running
<1>8. ASSUME NEW how, AtFunction(how)
      PROVE  /\ sender \in Senders /\ Known(completion_signatures_of(sender, env))
             /\ Arrives(sender, env, at, signal, called) /\ at # End(sender)
             /\ RouteOf(sender, env, at, signal) = how
  <2>1. at # End(sender)
    <3>1. at < Final /\ Final = End(sender) /\ at \in 1..End(sender)
      BY <1>8 DEF AtFunction, Final, End, SignalInv, Arrives
    <3>2. sender.fns \in Seq(Functions)
      BY <1>0, <1>8 DEF AtFunction, Senders
    <3> QED BY <3>1, <3>2 DEF End
  <2>2. RouteOf(sender, env, at, signal) = how
    BY <1>8, RouteIs DEF AtFunction
  <2> QED BY <1>0, <1>8, <2>1, <2>2 DEF AtFunction, SignalInv, Running
<1>9. CASE InvokeReturns
  <2>1. AtFunction("member")
    BY <1>9 DEF InvokeReturns
  <2>2. Arrives(sender, env, at + 1, set_value_tuple(sender.fns[at], signal.args), Append(called, sender.fns[at]))
    BY <1>0, <1>8, <2>1, NextArrives
  <2> QED BY <1>7, <1>9, <2>1, <2>2 DEF InvokeReturns
<1>10. CASE InvokeThrows
  <2>1. AtFunction("member")
    BY <1>10 DEF InvokeThrows
  <2>2. Arrives(sender, env, at + 1, Error, Append(called, sender.fns[at]))
    BY <1>0, <1>8, <2>1, NextArrives
  <2> QED BY <1>7, <1>10, <2>1, <2>2 DEF InvokeThrows
<1>11. CASE PassOn
  <2>1. AtFunction("base")
    BY <1>11 DEF PassOn
  <2>2. Arrives(sender, env, at + 1, signal, called)
    BY <1>0, <1>8, <2>1, NextArrives
  <2> QED BY <1>7, <1>11, <2>1, <2>2 DEF PassOn
<1>12. CASE Deliver
  <2>1. at = End(sender) /\ out = <<>> /\ Arrives(sender, env, at, signal, called)
    BY <1>12 DEF Deliver, Final, End, SignalInv
  <2>2. out' = <<signal>>
    BY <1>12, <2>1 DEF Deliver
  <2> QED BY <1>12, <2>1, <2>2 DEF Deliver, SignalInv, Running
<1>13. CASE UNCHANGED vars
  BY <1>13 DEF vars, SignalInv, Running
<1> QED BY <1>2, <1>3, <1>4, <1>5, <1>6, <1>9, <1>10, <1>11, <1>12, <1>13 DEF Next

LEMMA DeliveryStep == DeliveryInv /\ [Next]_vars => DeliveryInv'
BY WritingStep, SenderStep, SignalStep DEF DeliveryInv

(* What a receiver gets was declared by the sender below it and is taken     *)
(* there, however the closures are nested and whichever function throws; and *)
(* the value that sync_wait gets fits the one place it has for it.           *)
THEOREM DeliveredWasDeclared == Spec => []DeliveredIsDeclared
<1>1. DeliveryInv => DeliveredIsDeclared
  <2> SUFFICES ASSUME DeliveryInv, phase \in {"completing", "done"},
                      NEW below, below = Declared([sender EXCEPT !.fns = SubSeq(@, 1, at - 1)], env)
               PROVE  /\ signal \in below
                      /\ Route(at, signal) # "none"
                      /\ called = SubSeq(text, 1, Len(called)) /\ Len(called) < at
                      /\ out = IF phase = "done" THEN <<signal>> ELSE <<>>
                      /\ phase = "done" /\ env = "env" /\ valid_sync_wait_sender(sender) /\ signal.tag = "value" =>
                           value_types(decayed_tuple, variant_or_empty, completion_signatures_of(sender, env)).ts
                             = <<decayed_tuple(signal.args)>>
    BY DEF DeliveredIsDeclared
  <2>1. /\ sender \in Senders /\ sender.fns = text /\ env \in Environments
        /\ Arrives(sender, env, at, signal, called) /\ Known(completion_signatures_of(sender, env))
    BY DEF DeliveryInv, SenderInv, SignalInv, Running, Environments
  <2>2. signal \in below /\ Route(at, signal) # "none"
    BY <2>1, RouteIs DEF Arrives, Below
  <2>3. called = SubSeq(text, 1, Len(called)) /\ Len(called) < at
    BY <2>1 DEF Arrives
  <2>4. out = IF phase = "done" THEN <<signal>> ELSE <<>>
    BY DEF DeliveryInv, SignalInv
  <2>5. ASSUME phase = "done", env = "env", valid_sync_wait_sender(sender), signal.tag = "value"
        PROVE  value_types(decayed_tuple, variant_or_empty, completion_signatures_of(sender, env)).ts
                 = <<decayed_tuple(signal.args)>>
    <3>1. PICK L \in Lists(Proper) : L = completion_signatures_of(sender, env)
      BY <2>1, DeclaredIs
    <3>2. signal \in ToSet(L.ts)
      <4>1. PICK n \in Nat : n = Len(sender.fns) /\ n \in 0..n
        BY <2>1 DEF Senders
      <4>2. at - 1 = n
        BY <2>5, <4>1 DEF DeliveryInv, SignalInv, End
      <4>3. Below(sender, n) = sender
        BY <2>1, <4>1, BelowIs
      <4> QED BY <2>1, <3>1, <4>2, <4>3 DEF Arrives, Declared
    <3>3. m_size(value_types(decayed_tuple, variant_or_empty, L)) = 1
      BY <2>5, <3>1 DEF valid_sync_wait_sender
    <3> QED BY <2>5, <3>1, <3>2, <3>3, OneValue
  <2> QED BY <2>2, <2>3, <2>4, <2>5
<1> QED BY <1>1, DeliveryInit, DeliveryStep, PTL DEF Spec
===============================================================================
