-------------------------- MODULE OperationQueueProofs --------------------------
(***************************************************************************)
(* What is proved of OperationQueue, with its history, for every set of    *)
(* queues and of operations: the pointers are the chains of the history,   *)
(* and what is seen through the history implements FifoQueues.             *)
(***************************************************************************)
EXTENDS OperationQueueHistory, SequenceTheorems, TLAPS

HistoryType == contents \in [Cells -> Seq(Ops)]

(* The inductive invariant.                                                  *)
HeapInv == TypeOK /\ HistoryType /\ Linked /\ Rooted /\ Apart

(* Two positions in two chains are never the same cell.                      *)
LEMMA CellsApart ==
  ASSUME HeapInv,
         NEW c \in Cells, NEW d \in Cells, phase[c] # "queued", phase[d] # "queued",
         NEW i \in 0..Len(contents[c]), NEW j \in 0..Len(contents[d]),
         Cell(c, i) = Cell(d, j)
  PROVE  c = d /\ i = j
<1> USE DEF HeapInv, TypeOK, HistoryType, Cells, Cell
<1>1. /\ i # 0 => i \in DOMAIN contents[c] /\ phase[contents[c][i]] = "queued"
      /\ j # 0 => j \in DOMAIN contents[d] /\ phase[contents[d][j]] = "queued"
  BY DEF Rooted
<1>2. CASE i = 0 \/ j = 0
  BY <1>1, <1>2
<1>3. CASE i # 0 /\ j # 0
  BY <1>1, <1>3 DEF Apart
<1> QED BY <1>2, <1>3

LEMMA InitHeap == HInit => HeapInv
<1> SUFFICES ASSUME HInit PROVE HeapInv
  OBVIOUS
<1> USE DEF HInit, Init, Cells
<1>1. TypeOK /\ HistoryType
  BY DEF TypeOK, HistoryType, OpPhases, QueuePhases
<1>2. \A c \in Cells : contents[c] = <<>> /\ Len(contents[c]) = 0
  OBVIOUS
<1>3. Linked
  BY <1>2 DEF Linked, Cell, Alive
<1>4. Rooted /\ Apart
  BY <1>2 DEF Rooted, Apart
<1> QED BY <1>1, <1>3, <1>4 DEF HeapInv

(* The cells of a chain, as their neighbours and their ends.                 *)
LEMMA Chains ==
  ASSUME HeapInv, NEW c \in Cells, phase[c] # "queued"
  PROVE  /\ contents[c] \in Seq(Ops)
         /\ Len(contents[c]) = 0 <=> next[c] = Null
         /\ Len(contents[c]) # 0 => next[c] = contents[c][1]
         /\ \A i \in 1..Len(contents[c]) :
              /\ contents[c][i] \in Ops
              /\ next[contents[c][i]] = IF i = Len(contents[c]) THEN Null
                                        ELSE contents[c][i + 1]
         /\ c \in Queues /\ Alive(c) =>
              tail[c] = IF Len(contents[c]) = 0 THEN c
                        ELSE contents[c][Len(contents[c])]
<1> DEFINE s == contents[c]
<1>1. s \in Seq(Ops) /\ Len(s) \in Nat
  BY DEF HeapInv, HistoryType
<1>2. \A i \in 1..Len(s) : s[i] \in Ops
  BY <1>1
<1>3. next[c] = IF Len(s) = 0 THEN Null ELSE s[1]
  BY <1>1 DEF HeapInv, Linked, Cell
<1>4. \A i \in 1..Len(s) : next[s[i]] = IF i = Len(s) THEN Null ELSE s[i + 1]
  BY <1>1 DEF HeapInv, Linked, Cell
<1>5. c \in Queues /\ Alive(c) => tail[c] = IF Len(s) = 0 THEN c ELSE s[Len(s)]
  BY <1>1 DEF HeapInv, Linked, Cell
<1>6. Len(s) = 0 <=> next[c] = Null
  BY <1>1, <1>2, <1>3, QueueAssumption DEF Cells
<1> QED BY <1>1, <1>2, <1>3, <1>4, <1>5, <1>6

LEMMA EnqueueHeap ==
  ASSUME HeapInv, NEW q \in Queues, NEW o \in Ops, HEnqueue(q, o)
  PROVE  HeapInv'
<1> USE DEF HEnqueue, Enqueue, Becomes, Cells, Alive
<1> DEFINE s == contents[q]
           n == Len(s)
<1>1. TypeOK /\ HistoryType /\ Rooted /\ Apart /\ q # o
  BY QueueAssumption DEF HeapInv
<1>2. s \in Seq(Ops) /\ n \in Nat /\ tail[q] = Cell(q, n) /\ tail[q] \in Cells
  BY Chains, <1>1 DEF HistoryType, Cell, TypeOK
<1>3. contents[o] = <<>> /\ next[o] = Null
  BY <1>1, Chains, QueueAssumption DEF Rooted
<1>4. /\ contents'[q] = Append(s, o)
      /\ \A c \in Cells : c # q => contents'[c] = contents[c]
      /\ Len(contents'[q]) = n + 1
      /\ \A i \in 1..n : contents'[q][i] = s[i]
      /\ contents'[q][n + 1] = o
  BY <1>1, <1>2 DEF HistoryType
<1>5. /\ next'[tail[q]] = o
      /\ \A c \in Cells : c # tail[q] => next'[c] = next[c]
      /\ tail'[q] = o
      /\ \A c \in Queues : c # q => tail'[c] = tail[c]
      /\ phase'[o] = "queued"
      /\ \A c \in Cells : c # o => phase'[c] = phase[c]
  BY <1>1, <1>2 DEF TypeOK
<1>6. TypeOK' /\ HistoryType'
  <2>1. TypeOK'
    BY <1>1, <1>2, QueueAssumption DEF TypeOK, OpPhases, QueuePhases
  <2>2. HistoryType'
    BY <1>1, <1>2 DEF HistoryType
  <2> QED BY <2>1, <2>2
<1>7. Linked'
  <2> SUFFICES ASSUME NEW c \in Cells, phase'[c] # "queued"
               PROVE  /\ \A i \in 0..Len(contents'[c]) :
                           next'[Cell(c, i)'] = IF i = Len(contents'[c]) THEN Null
                                                ELSE contents'[c][i + 1]
                      /\ c \in Queues /\ phase'[c] = "alive" =>
                           tail'[c] = Cell(c, Len(contents[c]))'
    BY DEF Linked
  <2>1. c # o /\ phase[c] # "queued"
    BY <1>5
  <2>2. CASE c = q
    <3>1. ASSUME NEW i \in 0..n+1
          PROVE  next'[Cell(q, i)'] = IF i = n + 1 THEN Null ELSE contents'[q][i + 1]
      <4>1. CASE i = n + 1
        <5>1. Cell(q, i)' = o /\ o # tail[q]
          BY <4>1, <1>2, <1>4, <1>1 DEF Cell, Rooted
        <5> QED BY <4>1, <5>1, <1>3, <1>5
      <4>2. CASE i = n
        BY <4>2, <1>2, <1>4, <1>5 DEF Cell
      <4>3. CASE i < n
        <5>1. Cell(q, i)' = Cell(q, i) /\ Cell(q, i) \in Cells
          BY <4>3, <1>2, <1>4 DEF Cell
        <5>2. Cell(q, i) # tail[q]
          BY CellsApart, <4>3, <1>2
        <5>3. next[Cell(q, i)] = s[i + 1]
          BY SMTT(30), <4>3, <1>2, <2>1, <2>2 DEF HeapInv, Linked
        <5> QED BY <5>1, <5>2, <5>3, <4>3, <1>2, <1>4, <1>5
      <4> QED BY <4>1, <4>2, <4>3, <1>2
    <3>2. tail'[q] = Cell(q, Len(contents[q]))'
      BY <1>2, <1>4, <1>5 DEF Cell
    <3> QED BY <2>2, <3>1, <3>2, <1>4
  <2>3. CASE c # q
    <3>1. contents'[c] = contents[c] /\ phase'[c] = phase[c]
      BY <2>1, <2>3, <1>4, <1>5
    <3>2. ASSUME NEW i \in 0..Len(contents[c])
          PROVE  next'[Cell(c, i)'] = IF i = Len(contents[c]) THEN Null
                                      ELSE contents[c][i + 1]
      <4>1. Cell(c, i)' = Cell(c, i) /\ Cell(c, i) \in Cells
        BY <3>1, Chains, <2>1 DEF Cell
      <4>2. Cell(c, i) # tail[q]
        BY CellsApart, <2>1, <2>3, <1>2
      <4> QED BY <4>1, <4>2, <1>5, <2>1 DEF HeapInv, Linked
    <3>3. c \in Queues /\ phase'[c] = "alive" => tail'[c] = Cell(c, Len(contents[c]))'
      BY <3>1, <2>1, <2>3, <1>5 DEF HeapInv, Linked, Cell
    <3> QED BY <3>1, <3>2, <3>3
  <2> QED BY <2>2, <2>3
<1>8. Rooted'
  <2> SUFFICES ASSUME NEW c \in Cells
               PROVE  /\ contents'[c] # <<>> =>
                           phase'[c] \in {"dying", "adrift"}
                             \/ (c \in Queues /\ phase'[c] = "alive")
                      /\ \A i \in DOMAIN contents'[c] :
                           phase'[contents'[c][i]] = "queued"
    BY DEF Rooted
  <2>1. CASE c = q
    BY <2>1, <1>1, <1>2, <1>4, <1>5 DEF Rooted
  <2>2. CASE c = o
    BY <2>2, <1>1, <1>3, <1>4
  <2>3. CASE c # q /\ c # o
    <3>1. contents'[c] = contents[c] /\ phase'[c] = phase[c] /\ contents[c] \in Seq(Ops)
      BY <2>3, <1>1, <1>4, <1>5 DEF HistoryType
    <3> QED BY <3>1, <1>1, <1>5 DEF Rooted
  <2> QED BY <2>1, <2>2, <2>3
<1>9. Apart'
  <2> SUFFICES ASSUME NEW c \in Cells, NEW d \in Cells,
                      NEW i \in DOMAIN contents'[c], NEW j \in DOMAIN contents'[d],
                      contents'[c][i] = contents'[d][j]
               PROVE  c = d /\ i = j
    BY DEF Apart
  <2>1. \A e \in Cells : \A k \in DOMAIN contents'[e] :
           \/ k \in DOMAIN contents[e] /\ contents'[e][k] = contents[e][k]
                /\ contents[e][k] # o
           \/ e = q /\ k = n + 1 /\ contents'[e][k] = o
    BY <1>1, <1>2, <1>4 DEF Rooted
  <2> QED BY <2>1, <1>1 DEF Apart
<1> QED BY <1>6, <1>7, <1>8, <1>9 DEF HeapInv

LEMMA SpliceHeap ==
  ASSUME HeapInv, NEW q \in Queues, NEW r \in Queues, HSplice(q, r)
  PROVE  HeapInv'
<1> USE DEF Cells, Alive
<1> DEFINE s == contents[q]
           u == contents[r]
<1>1. /\ TypeOK /\ HistoryType /\ Rooted /\ Apart /\ q # r
      /\ phase[q] = "alive" /\ phase[r] = "alive" /\ tail[r] # r
  BY DEF HeapInv, HSplice, Splice, Alive, Empty
<1>2. s \in Seq(Ops) /\ u \in Seq(Ops)
  BY <1>1 DEF HistoryType
<1>3a. PICK n \in Nat, m \in Nat : n = Len(s) /\ m = Len(u)
  BY <1>2
<1>3. /\ m > 0
      /\ tail[q] = Cell(q, n) /\ tail[r] = Cell(r, m) /\ next[r] = u[1]
      /\ tail[q] \in Cells /\ tail[r] \in Cells
      /\ \A i \in 1..n : s[i] \in Ops
      /\ \A i \in 1..m : u[i] \in Ops
  <2>1. tail[q] = Cell(q, n) /\ tail[r] = Cell(r, m)
    BY <1>1, <1>3a, Chains DEF Cell
  <2>2. tail[q] \in Cells /\ tail[r] \in Cells
    BY <1>1 DEF TypeOK
  <2>3. m # 0
    BY <1>1, <2>1 DEF Cell
  <2>4. next[r] = u[1]
    BY <1>1, <1>3a, <2>3, Chains
  <2>5. /\ \A i \in 1..n : s[i] \in Ops
        /\ \A i \in 1..m : u[i] \in Ops
    BY <1>1, <1>3a, Chains
  <2> QED BY <2>1, <2>2, <2>3, <2>4, <2>5
<1>4. tail[q] # r
  BY CellsApart, <1>1, <1>3, <1>3a, 0 \in 0..m, n \in 0..n DEF Cell
<1> DEFINE w == s \o u
<1>5. /\ w \in Seq(Ops) /\ Len(w) = n + m
      /\ contents' = [contents EXCEPT ![q] = w, ![r] = <<>>]
      /\ DOMAIN w = 1..n+m
      /\ \A i \in 1..n+m : w[i] = IF i <= n THEN s[i] ELSE u[i - n]
  <2>1. /\ w \in Seq(Ops) /\ Len(w) = Len(s) + Len(u)
        /\ \A i \in 1..Len(s)+Len(u) : w[i] = IF i <= Len(s) THEN s[i] ELSE u[i - Len(s)]
    BY <1>2, ConcatProperties
  <2>2. contents' = [contents EXCEPT ![q] = w, ![r] = <<>>]
    BY DEF HSplice
  <2> HIDE DEF w
  <2>3. DOMAIN w = 1..Len(w)
    BY <2>1
  <2> QED BY <2>1, <2>2, <2>3, <1>3a
<1> HIDE DEF w
<1>6. /\ contents'[q] = w /\ contents'[r] = <<>>
      /\ Len(contents'[q]) = n + m
      /\ \A c \in Cells : c # q /\ c # r => contents'[c] = contents[c]
  BY <1>1, <1>5 DEF HistoryType
<1>7. ASSUME NEW i \in 1..n PROVE w[i] = s[i]
  BY <1>3, <1>5
<1>8. ASSUME NEW k \in 1..m PROVE w[n + k] = u[k]
  <2>1. n + k \in 1..n+m /\ ~(n + k <= n) /\ (n + k) - n = k
    BY <1>3
  <2> QED BY <2>1, <1>5
<1>9. /\ next'[tail[q]] = u[1]
      /\ next'[r] = Null
      /\ \A c \in Cells : c # tail[q] /\ c # r => next'[c] = next[c]
      /\ tail'[q] = tail[r]
      /\ tail'[r] = r
      /\ \A c \in Queues : c # q /\ c # r => tail'[c] = tail[c]
      /\ phase' = phase
  BY <1>1, <1>3, <1>4 DEF TypeOK, HSplice, Splice
<1>10. TypeOK' /\ HistoryType'
  <2>1. u[1] \in Ops
    BY <1>3
  <2>2. TypeOK'
    BY <1>1, <1>3, <2>1 DEF TypeOK, HSplice, Splice
  <2>3. HistoryType'
    BY SMTT(30), <1>1, <1>5 DEF HistoryType
  <2> QED BY <2>2, <2>3
<1>11. Linked'
  <2> SUFFICES ASSUME NEW c \in Cells, phase[c] # "queued"
               PROVE  /\ \A i \in 0..Len(contents'[c]) :
                           next'[Cell(c, i)'] = IF i = Len(contents'[c]) THEN Null
                                                ELSE contents'[c][i + 1]
                      /\ c \in Queues /\ phase[c] = "alive" =>
                           tail'[c] = Cell(c, Len(contents[c]))'
    BY <1>9 DEF Linked
  <2>1. CASE c = q
    <3>1. ASSUME NEW i \in 0..n, i < n PROVE next'[Cell(q, i)'] = w[i + 1]
      <4>1. Cell(q, i)' = Cell(q, i) /\ Cell(q, i) \in Cells
        BY <3>1, <1>3, <1>6, <1>7 DEF Cell
      <4>2. Cell(q, i) # Cell(q, n) /\ Cell(q, i) # Cell(r, 0)
        BY CellsApart, <3>1, <1>3a, <1>1
      <4>3. next[Cell(q, i)] = s[i + 1]
        BY <3>1, <1>1, <1>3a DEF HeapInv, Linked
      <4>4. w[i + 1] = s[i + 1]
        BY <3>1, <1>3, <1>7
      <4> QED BY <4>1, <4>2, <4>3, <4>4, <1>3, <1>9 DEF Cell
    <3>2. next'[Cell(q, n)'] = w[n + 1]
      <4>1. Cell(q, n)' = tail[q]
        BY <1>3, <1>6, <1>7 DEF Cell
      <4> QED BY <4>1, <1>3, <1>8, <1>9
    <3>3. ASSUME NEW k \in 1..m
          PROVE  next'[Cell(q, n + k)'] = IF k = m THEN Null ELSE w[n + k + 1]
      <4>1. Cell(q, n + k)' = Cell(r, k) /\ Cell(r, k) \in Cells
        BY <1>3, <1>6, <1>8 DEF Cell
      <4>2. Cell(r, k) # Cell(q, n) /\ Cell(r, k) # Cell(r, 0)
        BY CellsApart, <1>3a, <1>1, <1>3
      <4>3. next[Cell(r, k)] = IF k = m THEN Null ELSE u[k + 1]
        BY <1>1, <1>3a, <1>3 DEF HeapInv, Linked
      <4>4. k # m => w[n + (k + 1)] = u[k + 1]
        BY <1>3, <1>8
      <4>5. n + (k + 1) = n + k + 1
        BY <1>3
      <4> QED BY <4>1, <4>2, <4>3, <4>4, <4>5, <1>3, <1>9 DEF Cell
    <3>4. ASSUME NEW i \in 0..n+m
          PROVE  next'[Cell(q, i)'] = IF i = n + m THEN Null ELSE w[i + 1]
      <4>1. CASE i < n
        BY <4>1, <3>1, <1>3
      <4>2. CASE i = n
        BY <4>2, <3>2, <1>3
      <4>3. CASE i > n
        <5>1. i - n \in 1..m /\ n + (i - n) = i /\ (i - n = m <=> i = n + m)
          BY <4>3, <1>3
        <5> QED BY <5>1, <3>3
      <4> QED BY <4>1, <4>2, <4>3, <1>3
    <3>5. tail'[q] = Cell(q, Len(contents[q]))'
      <4>1. m \in 1..m /\ n + m # 0
        BY <1>3
      <4> QED BY <4>1, <1>3, <1>6, <1>8, <1>9 DEF Cell
    <3> QED BY <2>1, <3>4, <3>5, <1>6
  <2>2. CASE c = r
    BY <2>2, <1>6, <1>9 DEF Cell
  <2>3. CASE c # q /\ c # r
    <3>1. contents'[c] = contents[c]
      BY <2>3, <1>6
    <3>2. ASSUME NEW i \in 0..Len(contents[c])
          PROVE  next'[Cell(c, i)'] = IF i = Len(contents[c]) THEN Null
                                      ELSE contents[c][i + 1]
      <4>1. Cell(c, i)' = Cell(c, i) /\ Cell(c, i) \in Cells
        BY <3>1, Chains DEF Cell
      <4>2. Cell(c, i) # Cell(q, n) /\ Cell(c, i) # Cell(r, 0)
        BY CellsApart, <2>3, <1>1, <1>3a
      <4>3. Cell(c, i) # tail[q] /\ Cell(c, i) # r
        BY <4>2, <1>3 DEF Cell
      <4> QED BY <4>1, <4>3, <1>9 DEF HeapInv, Linked
    <3>3. c \in Queues /\ phase[c] = "alive" => tail'[c] = Cell(c, Len(contents[c]))'
      BY <3>1, <2>3, <1>9 DEF HeapInv, Linked, Cell
    <3> QED BY <3>1, <3>2, <3>3
  <2> QED BY <2>1, <2>2, <2>3
<1>12. ASSUME NEW i \in DOMAIN w
       PROVE  \/ i \in 1..n /\ w[i] = s[i]
              \/ i - n \in 1..m /\ w[i] = u[i - n] /\ i > n /\ i \in Nat
  BY <1>3, <1>5
<1>13. DOMAIN s = 1..n /\ DOMAIN u = 1..m
  BY <1>2, <1>3a
<1>14. Rooted'
  <2> SUFFICES ASSUME NEW c \in Cells
               PROVE  /\ contents'[c] # <<>> =>
                           phase[c] \in {"dying", "adrift"}
                             \/ (c \in Queues /\ phase[c] = "alive")
                      /\ \A i \in DOMAIN contents'[c] :
                           phase[contents'[c][i]] = "queued"
    BY <1>9 DEF Rooted
  <2>1. CASE c = q
    BY <2>1, <1>1, <1>6, <1>12, <1>13 DEF Rooted
  <2>2. CASE c = r
    BY <2>2, <1>6
  <2>3. CASE c # q /\ c # r
    BY <2>3, <1>1, <1>6 DEF Rooted
  <2> QED BY <2>1, <2>2, <2>3
<1>15. Apart'
  <2> SUFFICES ASSUME NEW c \in Cells, NEW d \in Cells,
                      NEW i \in DOMAIN contents'[c], NEW j \in DOMAIN contents'[d],
                      contents'[c][i] = contents'[d][j]
               PROVE  c = d /\ i = j
    BY DEF Apart
  <2>1. c # r /\ d # r
    BY <1>6
  <2>2. CASE c = q /\ d = q
    <3>1. i \in DOMAIN w /\ j \in DOMAIN w /\ w[i] = w[j]
      BY <2>2, <1>6
    <3>2. \A k, l \in 1..n : s[k] = s[l] => k = l
      BY <1>1, <1>13 DEF Apart
    <3>3. \A k, l \in 1..m : u[k] = u[l] => k = l
      BY <1>1, <1>13 DEF Apart
    <3>4. \A k \in 1..n, l \in 1..m : s[k] # u[l]
      BY <1>1, <1>13 DEF Apart
    <3>5. i = j
      BY <3>1, <3>2, <3>3, <3>4, <1>3, <1>12
    <3> QED BY <2>2, <3>5
  <2>3. CASE c = q /\ d # q
    <3>1. /\ d # q /\ d # r /\ j \in DOMAIN contents[d]
          /\ contents'[d][j] = contents[d][j]
          /\ i \in DOMAIN w /\ contents'[c][i] = w[i]
      BY <2>3, <2>1, <1>6
    <3>2. CASE i \in 1..n /\ w[i] = s[i]
      <4>1. i \in DOMAIN contents[q] /\ contents[q][i] = contents[d][j]
        BY <3>1, <3>2, <1>13
      <4> QED BY <4>1, <3>1, <1>1 DEF Apart
    <3>3. CASE i - n \in 1..m /\ w[i] = u[i - n]
      <4>1. i - n \in DOMAIN contents[r] /\ contents[r][i - n] = contents[d][j]
        BY <3>1, <3>3, <1>13
      <4> QED BY <4>1, <3>1, <1>1 DEF Apart
    <3> QED BY <3>1, <3>2, <3>3, <1>12
  <2>4. CASE c # q /\ d = q
    <3>1. /\ c # q /\ c # r /\ i \in DOMAIN contents[c]
          /\ contents'[c][i] = contents[c][i]
          /\ j \in DOMAIN w /\ contents'[d][j] = w[j]
      BY <2>4, <2>1, <1>6
    <3>2. CASE j \in 1..n /\ w[j] = s[j]
      <4>1. j \in DOMAIN contents[q] /\ contents[q][j] = contents[c][i]
        BY <3>1, <3>2, <1>13
      <4> QED BY <4>1, <3>1, <1>1 DEF Apart
    <3>3. CASE j - n \in 1..m /\ w[j] = u[j - n]
      <4>1. j - n \in DOMAIN contents[r] /\ contents[r][j - n] = contents[c][i]
        BY <3>1, <3>3, <1>13
      <4> QED BY <4>1, <3>1, <1>1 DEF Apart
    <3> QED BY <3>1, <3>2, <3>3, <1>12
  <2>5. CASE c # q /\ d # q
    BY <2>5, <2>1, <1>1, <1>6 DEF Apart
  <2> QED BY <2>2, <2>3, <2>4, <2>5
<1> QED BY <1>10, <1>11, <1>14, <1>15 DEF HeapInv

(* Chains that change the cell they hang on, as in a swap or a move: the     *)
(* chain of c now is what hung on from[c] before.                            *)
LEMMA Rerooted ==
  ASSUME HeapInv, TypeOK', NEW from \in [Cells -> Cells \union {Null}],
         \A c \in Cells : phase'[c] = "queued" <=> phase[c] = "queued",
         \A c, d \in Cells : from[c] = from[d] /\ from[c] # Null => c = d,
         \A c \in Cells : from[c] # Null =>
            (phase[c] = "queued" <=> phase[from[c]] = "queued"),
         contents' = [c \in Cells |-> IF from[c] = Null THEN <<>> ELSE contents[from[c]]],
         \A c \in Cells : phase[c] # "queued" =>
            next'[c] = IF from[c] = Null THEN Null ELSE next[from[c]],
         \A c \in Cells : phase[c] = "queued" => next'[c] = next[c],
         \A q \in Queues : phase'[q] = "alive" =>
            IF from[q] # Null /\ next[from[q]] # Null
            THEN from[q] \in Queues /\ Alive(from[q]) /\ tail'[q] = tail[from[q]]
            ELSE tail'[q] = q,
         \A c \in Cells : contents'[c] # <<>> =>
            phase'[c] \in {"dying", "adrift"} \/ (c \in Queues /\ phase'[c] = "alive")
  PROVE  HeapInv'
<1> USE DEF Cells, Alive
<1>1. TypeOK /\ HistoryType /\ Rooted /\ Apart
  BY DEF HeapInv
<1>2. \A c \in Cells :
        contents'[c] = IF from[c] = Null THEN <<>> ELSE contents[from[c]]
  OBVIOUS
<1>3. HistoryType'
  BY <1>1, QueueAssumption DEF HistoryType
<1>4. \A c \in Cells : from[c] # Null => from[c] \in Cells
  OBVIOUS
<1>5. Linked'
  <2> SUFFICES ASSUME NEW c \in Cells, phase[c] # "queued"
               PROVE  /\ \A i \in 0..Len(contents'[c]) :
                           next'[Cell(c, i)'] = IF i = Len(contents'[c]) THEN Null
                                                ELSE contents'[c][i + 1]
                      /\ c \in Queues /\ phase'[c] = "alive" =>
                           tail'[c] = Cell(c, Len(contents[c]))'
    BY DEF Linked
  <2>1. CASE from[c] = Null
    BY <2>1, <1>2 DEF Cell
  <2>2. CASE from[c] # Null
    <3> DEFINE b == from[c]
    <3>1. b \in Cells /\ phase[b] # "queued" /\ contents'[c] = contents[b]
      BY <2>2, <1>2, <1>4
    <3>2. ASSUME NEW i \in 0..Len(contents[b])
          PROVE  next'[Cell(c, i)'] = IF i = Len(contents[b]) THEN Null
                                      ELSE contents[b][i + 1]
      <4>1. next[Cell(b, i)] = IF i = Len(contents[b]) THEN Null ELSE contents[b][i + 1]
        BY <3>1 DEF HeapInv, Linked
      <4>2. CASE i = 0
        BY <4>1, <4>2, <3>1, <2>2 DEF Cell
      <4>3. CASE i # 0
        <5>1. i \in DOMAIN contents[b] /\ Cell(c, i)' = contents[b][i]
                /\ Cell(b, i) = contents[b][i]
          BY <4>3, <3>1, <1>1 DEF Cell, HistoryType
        <5>2. contents[b][i] \in Cells /\ phase[contents[b][i]] = "queued"
          BY <5>1, <3>1, <1>1 DEF Rooted, HistoryType
        <5> QED BY <4>1, <5>1, <5>2
      <4> QED BY <4>2, <4>3
    <3>3. ASSUME c \in Queues, phase'[c] = "alive"
          PROVE  tail'[c] = Cell(c, Len(contents[c]))'
      <4>1. CASE next[b] = Null
        <5>1. Len(contents[b]) = 0
          BY <3>1, <4>1, Chains
        <5> QED BY <5>1, <4>1, <3>1, <3>3 DEF Cell
      <4>2. CASE next[b] # Null
        <5>1. /\ b \in Queues /\ Alive(b) /\ tail'[c] = tail[b] /\ Len(contents[b]) # 0
          BY <3>1, <3>3, <2>2, <4>2, Chains
        <5>2. tail[b] = contents[b][Len(contents[b])]
          BY <3>1, <5>1, Chains
        <5> QED BY <5>1, <5>2, <3>1 DEF Cell
      <4> QED BY <4>1, <4>2
    <3> QED BY <3>1, <3>2, <3>3
  <2> QED BY <2>1, <2>2
<1>6. Rooted'
  <2> SUFFICES ASSUME NEW c \in Cells, NEW i \in DOMAIN contents'[c]
               PROVE  phase'[contents'[c][i]] = "queued"
    BY DEF Rooted
  <2>1. from[c] # Null /\ contents'[c] = contents[from[c]]
    BY <1>2
  <2>2. contents[from[c]][i] \in Cells /\ phase[contents[from[c]][i]] = "queued"
    BY <2>1, <1>1, <1>4 DEF Rooted, HistoryType
  <2> QED BY <2>1, <2>2
<1>7. Apart'
  <2> SUFFICES ASSUME NEW c \in Cells, NEW d \in Cells,
                      NEW i \in DOMAIN contents'[c], NEW j \in DOMAIN contents'[d],
                      contents'[c][i] = contents'[d][j]
               PROVE  c = d /\ i = j
    BY DEF Apart
  <2>1. /\ from[c] # Null /\ contents'[c] = contents[from[c]]
        /\ from[d] # Null /\ contents'[d] = contents[from[d]]
    BY <1>2
  <2> QED BY <2>1, <1>1, <1>4 DEF Apart
<1> QED BY <1>3, <1>5, <1>6, <1>7 DEF HeapInv

LEMMA SwapHeap ==
  ASSUME HeapInv, NEW q \in Queues, NEW r \in Queues, HSwap(q, r)
  PROVE  HeapInv'
<1> DEFINE from == [c \in Cells |-> IF c = q THEN r ELSE IF c = r THEN q ELSE c]
<1> USE DEF HSwap, Swap, Cells, Alive, TailFor
<1>1. /\ TypeOK /\ HistoryType /\ Rooted /\ Null \notin Cells
      /\ \A c \in Cells : Len(contents[c]) = 0 => contents[c] = <<>>
  BY QueueAssumption DEF HeapInv, HistoryType
<1>1a. \A e \in Queues : phase[e] = "alive" /\ next[e] = Null => tail[e] = e
  BY Chains
<1>2. TypeOK'
  BY <1>1 DEF TypeOK, OpPhases, QueuePhases
<1>3. from \in [Cells -> Cells \union {Null}]
  OBVIOUS
<1>4. \A c \in Cells : phase'[c] = "queued" <=> phase[c] = "queued"
  BY <1>1 DEF TypeOK
<1>5. \A c, d \in Cells : from[c] = from[d] /\ from[c] # Null => c = d
  BY <1>1
<1>6. \A c \in Cells : from[c] # Null => (phase[c] = "queued" <=> phase[from[c]] = "queued")
  BY <1>1
<1>7. contents' = [c \in Cells |-> IF from[c] = Null THEN <<>> ELSE contents[from[c]]]
  BY <1>1 DEF HistoryType
<1>8. /\ \A c \in Cells : phase[c] # "queued" =>
            next'[c] = IF from[c] = Null THEN Null ELSE next[from[c]]
      /\ \A c \in Cells : phase[c] = "queued" => next'[c] = next[c]
  BY <1>1 DEF TypeOK
<1>9. ASSUME NEW e \in Queues, phase'[e] = "alive"
      PROVE  IF from[e] # Null /\ next[from[e]] # Null
             THEN from[e] \in Queues /\ Alive(from[e]) /\ tail'[e] = tail[from[e]]
             ELSE tail'[e] = e
  BY <1>1, <1>1a, <1>9 DEF TypeOK
<1>10. \A c \in Cells : contents'[c] # <<>> =>
         phase'[c] \in {"dying", "adrift"} \/ (c \in Queues /\ phase'[c] = "alive")
  <2>1. ASSUME NEW c \in Cells
        PROVE  contents'[c] = IF from[c] = Null THEN <<>> ELSE contents[from[c]]
    BY <1>7
  <2>2. ASSUME NEW c \in Cells, contents[c] # <<>>
        PROVE  phase[c] \in {"dying", "adrift"} \/ (c \in Queues /\ phase[c] = "alive")
    BY <1>1, <2>2 DEF Rooted
  <2> QED BY <1>1, <2>1, <2>2 DEF TypeOK
<1> HIDE DEF from, Alive
<1> QED BY <1>2, <1>3, <1>4, <1>5, <1>6, <1>7, <1>8, <1>9, <1>10, Rerooted

LEMMA MoveConstructHeap ==
  ASSUME HeapInv, NEW q \in Queues, NEW r \in Queues, HMoveConstruct(q, r)
  PROVE  HeapInv'
<1> DEFINE from == [c \in Cells |-> IF c = q THEN r ELSE IF c = r THEN Null ELSE c]
<1> USE DEF HMoveConstruct, MoveConstruct, Becomes, Cells, Alive, TailFor
<1>1. /\ TypeOK /\ HistoryType /\ Rooted /\ Null \notin Cells
      /\ \A c \in Cells : Len(contents[c]) = 0 => contents[c] = <<>>
  BY QueueAssumption DEF HeapInv, HistoryType
<1>1a. \A e \in Queues : phase[e] = "alive" /\ next[e] = Null => tail[e] = e
  BY Chains
<1>2. TypeOK'
  BY <1>1 DEF TypeOK, OpPhases, QueuePhases
<1>3. from \in [Cells -> Cells \union {Null}]
  OBVIOUS
<1>4. \A c \in Cells : phase'[c] = "queued" <=> phase[c] = "queued"
  BY <1>1 DEF TypeOK
<1>5. \A c, d \in Cells : from[c] = from[d] /\ from[c] # Null => c = d
  BY <1>1
<1>6. \A c \in Cells : from[c] # Null => (phase[c] = "queued" <=> phase[from[c]] = "queued")
  BY <1>1
<1>7. contents' = [c \in Cells |-> IF from[c] = Null THEN <<>> ELSE contents[from[c]]]
  BY <1>1 DEF HistoryType
<1>8. /\ \A c \in Cells : phase[c] # "queued" =>
            next'[c] = IF from[c] = Null THEN Null ELSE next[from[c]]
      /\ \A c \in Cells : phase[c] = "queued" => next'[c] = next[c]
  BY <1>1 DEF TypeOK
<1>9. ASSUME NEW e \in Queues, phase'[e] = "alive"
      PROVE  IF from[e] # Null /\ next[from[e]] # Null
             THEN from[e] \in Queues /\ Alive(from[e]) /\ tail'[e] = tail[from[e]]
             ELSE tail'[e] = e
  BY <1>1, <1>1a, <1>9 DEF TypeOK
<1>10. \A c \in Cells : contents'[c] # <<>> =>
         phase'[c] \in {"dying", "adrift"} \/ (c \in Queues /\ phase'[c] = "alive")
  <2>1. ASSUME NEW c \in Cells
        PROVE  contents'[c] = IF from[c] = Null THEN <<>> ELSE contents[from[c]]
    BY <1>7
  <2>2. ASSUME NEW c \in Cells, contents[c] # <<>>
        PROVE  phase[c] \in {"dying", "adrift"} \/ (c \in Queues /\ phase[c] = "alive")
    BY <1>1, <2>2 DEF Rooted
  <2> QED BY <1>1, <2>1, <2>2 DEF TypeOK
<1> HIDE DEF from, Alive
<1> QED BY <1>2, <1>3, <1>4, <1>5, <1>6, <1>7, <1>8, <1>9, <1>10, Rerooted

LEMMA MoveAssignHeap ==
  ASSUME HeapInv, NEW q \in Queues, NEW r \in Queues, NEW tmp \in Queues,
         HMoveAssign(q, r, tmp)
  PROVE  HeapInv'
<1> DEFINE from == [c \in Cells |-> IF c = q THEN r ELSE IF c = tmp THEN q
                                 ELSE IF c = r THEN Null ELSE c]
<1> USE DEF HMoveAssign, MoveAssign, Becomes, Cells, Alive, TailFor
<1>1. /\ TypeOK /\ HistoryType /\ Rooted /\ Null \notin Cells
      /\ \A c \in Cells : Len(contents[c]) = 0 => contents[c] = <<>>
  BY QueueAssumption DEF HeapInv, HistoryType
<1>1a. \A e \in Queues : phase[e] = "alive" /\ next[e] = Null => tail[e] = e
  BY Chains
<1>2. TypeOK'
  BY <1>1 DEF TypeOK, OpPhases, QueuePhases
<1>3. from \in [Cells -> Cells \union {Null}]
  OBVIOUS
<1>4. \A c \in Cells : phase'[c] = "queued" <=> phase[c] = "queued"
  BY <1>1 DEF TypeOK
<1>5. \A c, d \in Cells : from[c] = from[d] /\ from[c] # Null => c = d
  BY <1>1
<1>6. \A c \in Cells : from[c] # Null => (phase[c] = "queued" <=> phase[from[c]] = "queued")
  BY <1>1
<1>7. contents' = [c \in Cells |-> IF from[c] = Null THEN <<>> ELSE contents[from[c]]]
  BY <1>1 DEF HistoryType
<1>8. /\ \A c \in Cells : phase[c] # "queued" =>
            next'[c] = IF from[c] = Null THEN Null ELSE next[from[c]]
      /\ \A c \in Cells : phase[c] = "queued" => next'[c] = next[c]
  BY <1>1 DEF TypeOK
<1>9. ASSUME NEW e \in Queues, phase'[e] = "alive"
      PROVE  IF from[e] # Null /\ next[from[e]] # Null
             THEN from[e] \in Queues /\ Alive(from[e]) /\ tail'[e] = tail[from[e]]
             ELSE tail'[e] = e
  BY <1>1, <1>1a, <1>9 DEF TypeOK
<1>10. \A c \in Cells : contents'[c] # <<>> =>
         phase'[c] \in {"dying", "adrift"} \/ (c \in Queues /\ phase'[c] = "alive")
  <2>1. ASSUME NEW c \in Cells
        PROVE  contents'[c] = IF from[c] = Null THEN <<>> ELSE contents[from[c]]
    BY <1>7
  <2>2. ASSUME NEW c \in Cells, contents[c] # <<>>
        PROVE  phase[c] \in {"dying", "adrift"} \/ (c \in Queues /\ phase[c] = "alive")
    BY <1>1, <2>2 DEF Rooted
  <2> QED BY <1>1, <2>1, <2>2 DEF TypeOK
<1> HIDE DEF from, Alive
<1> QED BY <1>2, <1>3, <1>4, <1>5, <1>6, <1>7, <1>8, <1>9, <1>10, Rerooted

LEMMA LifeHeap ==
  ASSUME HeapInv, NEW c \in Cells, Construct(c) \/ Destroy(c) \/ Destroyed(c),
         UNCHANGED contents
  PROVE  HeapInv'
<1> DEFINE from == [d \in Cells |-> d]
<1> USE DEF Construct, Destroy, Destroyed, Becomes, Cells, Alive
<1>1. /\ TypeOK /\ HistoryType /\ Rooted /\ Null \notin Cells
      /\ \A d \in Cells : Len(contents[d]) = 0 => contents[d] = <<>>
  BY QueueAssumption DEF HeapInv, HistoryType
<1>2. \A e \in Queues : phase[e] = "alive" /\ next[e] = Null => tail[e] = e
  BY Chains
<1>3. phase[c] = "dead" => contents[c] = <<>> /\ next[c] = Null
  <2>1. phase[c] = "dead" => contents[c] = <<>>
    BY <1>1 DEF Rooted
  <2> QED BY <2>1, Chains
<1>4. phase[c] = "dying" /\ next[c] = Null => contents[c] = <<>>
  BY <1>1, Chains
<1>5. phase[c] = "alive" /\ c \in Ops => contents[c] = <<>>
  BY <1>1, QueueAssumption DEF Rooted
<1>6. TypeOK'
  BY <1>1 DEF TypeOK, OpPhases, QueuePhases
<1>7. /\ from \in [Cells -> Cells \union {Null}]
      /\ \A d, e \in Cells : from[d] = from[e] /\ from[d] # Null => d = e
      /\ \A d \in Cells :
           from[d] # Null => (phase[d] = "queued" <=> phase[from[d]] = "queued")
  OBVIOUS
<1>8. \A d \in Cells : phase'[d] = "queued" <=> phase[d] = "queued"
  BY <1>1 DEF TypeOK
<1>9. contents' = [d \in Cells |-> IF from[d] = Null THEN <<>> ELSE contents[from[d]]]
  BY <1>1 DEF HistoryType
<1>10. /\ \A d \in Cells : phase[d] # "queued" =>
             next'[d] = IF from[d] = Null THEN Null ELSE next[from[d]]
       /\ \A d \in Cells : phase[d] = "queued" => next'[d] = next[d]
  BY <1>1, <1>3 DEF TypeOK
<1>11. ASSUME NEW e \in Queues, phase'[e] = "alive"
       PROVE  IF from[e] # Null /\ next[from[e]] # Null
              THEN from[e] \in Queues /\ Alive(from[e]) /\ tail'[e] = tail[from[e]]
              ELSE tail'[e] = e
  BY <1>1, <1>2, <1>3, <1>11 DEF TypeOK
<1>12. ASSUME NEW d \in Cells, contents'[d] # <<>>
       PROVE  phase'[d] \in {"dying", "adrift"} \/ (d \in Queues /\ phase'[d] = "alive")
  <2>1. phase[d] \in {"dying", "adrift"} \/ (d \in Queues /\ phase[d] = "alive")
    BY <1>1, <1>12 DEF Rooted
  <2>2. d = c => phase'[d] = "dying"
    BY <1>1, <1>3, <1>4, <1>12 DEF TypeOK
  <2>3. d # c => phase'[d] = phase[d]
    BY <1>1 DEF TypeOK
  <2> QED BY <2>1, <2>2, <2>3
<1> HIDE DEF from, Alive, Construct, Destroy, Destroyed
<1> QED BY <1>6, <1>7, <1>8, <1>9, <1>10, <1>11, <1>12, Rerooted

(* The first operation of the chain of c is taken, or destroyed; the rest    *)
(* hangs on d: on c, or on that operation if it is spared.                   *)
LEMMA Beheaded ==
  ASSUME HeapInv, TypeOK', NEW c \in Cells, NEW first \in Ops, NEW d \in {c, first},
         phase[c] # "queued", next[c] = first, phase'[c] = phase[c],
         next'[d] = next[first],
         \A e \in {c, first} : e # d => next'[e] = Null,
         \A e \in Cells : e # c /\ e # first =>
            next'[e] = next[e] /\ phase'[e] = phase[e],
         phase'[first] # "queued",
         d = first => phase'[first] = "adrift",
         contents' = [e \in Cells |->
            IF e = d THEN Tail(contents[c])
            ELSE IF e \in {c, first} THEN <<>> ELSE contents[e]],
         \A e \in Queues : phase[e] = "alive" =>
            IF e # c THEN tail'[e] = tail[e]
            ELSE d = c /\ tail'[c] = IF next[first] # Null THEN tail[c] ELSE c
  PROVE  HeapInv'
<1> USE DEF Cells, Alive
<1> DEFINE s == contents[c]
<1>1. TypeOK /\ HistoryType /\ Rooted /\ Apart
  BY DEF HeapInv
<1>2. s \in Seq(Ops) /\ s # <<>> /\ s[1] = first /\ Len(s) # 0
  BY <1>1, Chains, QueueAssumption DEF HistoryType
<1>3. phase[first] = "queued" /\ contents[first] = <<>> /\ c # first
  BY <1>1, <1>2, QueueAssumption DEF Rooted
<1>4. PICK n \in Nat : n + 1 = Len(s)
  <2>1. Len(s) \in Nat /\ Len(s) # 0
    BY <1>2
  <2>2. \A m \in Nat : m # 0 => m - 1 \in Nat /\ (m - 1) + 1 = m
    OBVIOUS
  <2> HIDE DEF s
  <2> QED BY <2>1, <2>2
<1>5. /\ contents'[d] \in Seq(Ops) /\ Len(contents'[d]) = n
      /\ \A i \in 1..n : contents'[d][i] = s[i + 1]
  BY <1>2, <1>4
<1>6. /\ \A e \in {c, first} : e # d => contents'[e] = <<>>
      /\ \A e \in Cells : e # c /\ e # first => contents'[e] = contents[e]
  OBVIOUS
<1>7. HistoryType'
  BY <1>1, <1>2 DEF HistoryType
<1>8. \A i \in 1..n+1 : s[i] \in Ops /\ phase[s[i]] = "queued"
  BY <1>1, <1>2, <1>4 DEF Rooted
<1>9. \A i \in 1..n+1 : next[s[i]] = IF i = n + 1 THEN Null ELSE s[i + 1]
  BY <1>4, Chains
<1>10. \A i, j \in 1..n+1 : s[i] = s[j] => i = j
  BY <1>1, <1>2, <1>4 DEF Apart
<1>11. Linked'
  <2> SUFFICES ASSUME NEW e \in Cells, phase'[e] # "queued"
               PROVE  /\ \A i \in 0..Len(contents'[e]) :
                           next'[Cell(e, i)'] = IF i = Len(contents'[e]) THEN Null
                                                ELSE contents'[e][i + 1]
                      /\ e \in Queues /\ phase'[e] = "alive" =>
                           tail'[e] = Cell(e, Len(contents[e]))'
    BY DEF Linked
  <2>1. CASE e = d
    <3>1. next'[d] = IF n = 0 THEN Null ELSE s[2]
      BY <1>2, <1>9
    <3>2. ASSUME NEW i \in 1..n
          PROVE  next'[s[i + 1]] = IF i = n THEN Null ELSE s[i + 2]
      <4>1. i + 1 \in 1..n+1 /\ 1 \in 1..n+1 /\ i + 1 # 1 /\ (i + 1) + 1 = i + 2
            /\ (i + 1 = n + 1 <=> i = n)
        OBVIOUS
      <4>2. s[i + 1] \in Ops /\ s[i + 1] # c /\ s[i + 1] # first
        BY <4>1, <1>2, <1>8, <1>10
      <4>3. next'[s[i + 1]] = next[s[i + 1]]
        BY <4>2
      <4> QED BY <4>1, <4>3, <1>9
    <3>3. ASSUME NEW i \in 0..n
          PROVE  next'[Cell(d, i)'] = IF i = n THEN Null ELSE contents'[d][i + 1]
      <4>1. CASE i = 0
        BY <4>1, <3>1, <1>5 DEF Cell
      <4>2. CASE i # 0
        <5>1. i \in 1..n /\ Cell(d, i)' = s[i + 1]
          BY <4>2, <1>5 DEF Cell
        <5>2. i # n => contents'[d][i + 1] = s[i + 2]
          BY <5>1, <1>5
        <5> QED BY <5>1, <5>2, <3>2
      <4> QED BY <4>1, <4>2
    <3>4. ASSUME d \in Queues, phase'[d] = "alive"
          PROVE  tail'[d] = Cell(d, Len(contents[d]))'
      <4>1. d = c /\ tail'[c] = IF next[first] # Null THEN tail[c] ELSE c
        BY <3>4, QueueAssumption
      <4>2. CASE n = 0
        BY <4>1, <4>2, <1>2, <1>5, <1>9 DEF Cell
      <4>3. CASE n # 0
        <5>1. 1 \in 1..n+1 /\ n \in 1..n /\ 2 \in 1..n+1 /\ 1 # n + 1
          BY <4>3
        <5>2. next[first] # Null
          BY <5>1, <1>2, <1>8, <1>9, QueueAssumption
        <5>3. tail[c] = s[n + 1]
          BY <4>1, <3>4, <1>2, <1>4, Chains
        <5> QED BY <5>1, <5>2, <5>3, <4>1, <4>3, <1>5 DEF Cell
      <4> QED BY <4>2, <4>3
    <3> QED BY <2>1, <3>3, <3>4, <1>5
  <2>2. CASE e # d /\ e \in {c, first}
    <3>1. contents'[e] = <<>> /\ next'[e] = Null
      BY <2>2, <1>6
    <3>2. ~(e \in Queues /\ phase'[e] = "alive")
      BY <2>2, QueueAssumption
    <3>3. Len(contents'[e]) = 0
      BY <3>1
    <3>4. \A i \in 0..0 : i = 0
      OBVIOUS
    <3> QED BY <3>1, <3>2, <3>3, <3>4 DEF Cell
  <2>3. CASE e # c /\ e # first
    <3>1. contents'[e] = contents[e] /\ phase[e] # "queued" /\ phase'[e] = phase[e]
      BY <2>3, <1>6
    <3>2. ASSUME NEW i \in 0..Len(contents[e])
          PROVE  next'[Cell(e, i)'] = IF i = Len(contents[e]) THEN Null
                                      ELSE contents[e][i + 1]
      <4>1. Cell(e, i)' = Cell(e, i) /\ Cell(e, i) \in Cells
        <5>1. contents[e] \in Seq(Ops)
          BY <1>1 DEF HistoryType
        <5>2. i # 0 => i \in 1..Len(contents[e]) /\ contents[e][i] \in Ops
          BY <5>1
        <5> QED BY <3>1, <5>2 DEF Cell
      <4>2. 1 \in 0..Len(s) /\ 0 \in 0..Len(s)
        BY <1>4
      <4>3. Cell(e, i) # Cell(c, 0) /\ Cell(e, i) # Cell(c, 1)
        BY CellsApart, <2>3, <3>1, <4>2
      <4>4. Cell(e, i) # c /\ Cell(e, i) # first
        BY <4>3, <1>2 DEF Cell
      <4> QED BY <4>1, <4>4, <3>1 DEF HeapInv, Linked
    <3>3. e \in Queues /\ phase'[e] = "alive" => tail'[e] = Cell(e, Len(contents[e]))'
      BY <3>1, <2>3 DEF HeapInv, Linked, Cell
    <3>4. ASSUME NEW i \in 0..Len(contents'[e])
          PROVE  next'[Cell(e, i)'] = IF i = Len(contents'[e]) THEN Null
                                      ELSE contents'[e][i + 1]
      <4>1. i \in 0..Len(contents[e])
        BY <3>1
      <4> QED BY <4>1, <3>1, <3>2
    <3> QED BY <3>3, <3>4
  <2> QED BY <2>1, <2>2, <2>3
<1>12. \A e \in Cells : \A i \in DOMAIN contents'[e] :
         \/ e = d /\ i \in 1..n /\ contents'[e][i] = s[i + 1]
         \/ /\ e # c /\ e # first /\ i \in DOMAIN contents[e]
            /\ contents'[e][i] = contents[e][i]
  BY <1>5, <1>6
<1>13. 1 \in DOMAIN s /\ \A i \in 1..n : i + 1 \in DOMAIN s /\ i + 1 # 1
  BY <1>2, <1>4
<1>14. Rooted'
  <2> SUFFICES ASSUME NEW e \in Cells
               PROVE  /\ contents'[e] # <<>> =>
                           phase'[e] \in {"dying", "adrift"}
                             \/ (e \in Queues /\ phase'[e] = "alive")
                      /\ \A i \in DOMAIN contents'[e] :
                           phase'[contents'[e][i]] = "queued"
    BY DEF Rooted
  <2>1. ASSUME contents'[e] # <<>>
        PROVE  phase'[e] \in {"dying", "adrift"} \/ (e \in Queues /\ phase'[e] = "alive")
    <3>1. CASE e = d
      BY <3>1, <1>1, <1>2 DEF Rooted
    <3>2. CASE e # d
      BY <3>2, <2>1, <1>1, <1>6 DEF Rooted
    <3> QED BY <3>1, <3>2
  <2>2. ASSUME NEW i \in DOMAIN contents'[e] PROVE phase'[contents'[e][i]] = "queued"
    <3>1. CASE e = d /\ i \in 1..n /\ contents'[e][i] = s[i + 1]
      <4>1. phase[s[i + 1]] = "queued" /\ s[i + 1] # first /\ s[i + 1] \in Ops
        BY <3>1, <1>1, <1>2, <1>8, <1>13 DEF Rooted, Apart
      <4> QED BY <3>1, <4>1
    <3>2. CASE /\ e # c /\ e # first /\ i \in DOMAIN contents[e]
               /\ contents'[e][i] = contents[e][i]
      <4>1. phase[contents[e][i]] = "queued" /\ contents[e][i] # first
        BY <3>2, <1>1, <1>2, <1>13 DEF Rooted, Apart
      <4>2. contents[e][i] \in Cells
        BY <3>2, <1>1 DEF HistoryType
      <4> QED BY <3>2, <4>1, <4>2
    <3> QED BY <3>1, <3>2, <1>12
  <2> QED BY <2>1, <2>2
<1>15. Apart'
  <2> SUFFICES ASSUME NEW e \in Cells, NEW f \in Cells,
                      NEW i \in DOMAIN contents'[e], NEW j \in DOMAIN contents'[f],
                      contents'[e][i] = contents'[f][j]
               PROVE  e = f /\ i = j
    BY DEF Apart
  <2>1. CASE e = d /\ f = d
    <3>1. i \in 1..n /\ j \in 1..n /\ s[i + 1] = s[j + 1]
      BY <2>1, <1>3, <1>12
    <3> QED BY <2>1, <3>1, <1>10
  <2>2. CASE e = d /\ f # d
    <3>1. /\ i + 1 \in DOMAIN contents[c] /\ contents'[e][i] = contents[c][i + 1]
          /\ f # c /\ j \in DOMAIN contents[f] /\ contents'[f][j] = contents[f][j]
      BY <2>2, <1>12, <1>13
    <3> QED BY <3>1, <1>1 DEF Apart
  <2>3. CASE e # d /\ f = d
    <3>1. /\ j + 1 \in DOMAIN contents[c] /\ contents'[f][j] = contents[c][j + 1]
          /\ e # c /\ i \in DOMAIN contents[e] /\ contents'[e][i] = contents[e][i]
      BY <2>3, <1>12, <1>13
    <3> QED BY <3>1, <1>1 DEF Apart
  <2>4. CASE e # d /\ f # d
    BY <2>4, <1>1, <1>12 DEF Apart
  <2> QED BY <2>1, <2>2, <2>3, <2>4
<1> QED BY <1>7, <1>11, <1>14, <1>15 DEF HeapInv

(* The first operation of a chain, whoever owns it.                          *)
LEMMA FirstInChain ==
  ASSUME HeapInv, NEW c \in Cells, phase[c] # "queued", next[c] # Null
  PROVE  /\ next[c] \in Ops /\ phase[next[c]] = "queued" /\ next[c] # c
         /\ contents[c] # <<>> /\ contents[next[c]] = <<>>
         /\ c \in Queues /\ Alive(c) => tail[c] # c
<1> USE DEF Cells, Alive
<1>1. TypeOK /\ HistoryType /\ Rooted /\ contents[c] \in Seq(Ops)
  BY DEF HeapInv, HistoryType
<1>2. Len(contents[c]) \in Nat /\ Len(contents[c]) # 0 /\ contents[c] # <<>>
  BY <1>1, Chains
<1>3. next[c] = contents[c][1] /\ 1 \in DOMAIN contents[c]
  BY <1>1, <1>2, Chains
<1>4. next[c] \in Ops /\ phase[next[c]] = "queued"
  BY <1>1, <1>3 DEF Rooted, TypeOK
<1>5. contents[next[c]] = <<>>
  BY <1>1, <1>4, QueueAssumption DEF Rooted
<1>6. c \in Queues /\ Alive(c) => tail[c] # c
  <2>1. Len(contents[c]) \in DOMAIN contents[c]
    BY <1>1, <1>2
  <2>2. contents[c][Len(contents[c])] \in Ops
    BY <1>1, <2>1
  <2> QED BY <1>2, <2>2, Chains, QueueAssumption
<1>7. contents[c] # <<>> /\ next[c] # c
  BY <1>2, <1>4
<1> QED BY <1>4, <1>5, <1>6, <1>7

LEMMA DequeHeap ==
  ASSUME HeapInv, NEW q \in Queues, HDeque(q)
  PROVE  HeapInv'
<1> DEFINE first == next[q]
<1> USE DEF Cells, Alive, HDeque, Deque, Becomes, Empty
<1>1. TypeOK /\ HistoryType
  BY DEF HeapInv
<1>2. first # Null
  BY <1>1, Chains
<1>3. /\ first \in Ops /\ phase[first] = "queued" /\ first # q
      /\ contents[first] = <<>>
  BY <1>2, FirstInChain
<1>4. TypeOK'
  BY <1>1, <1>3, QueueAssumption DEF TypeOK, OpPhases, QueuePhases
<1>5. /\ next'[q] = next[first] /\ next'[first] = Null
      /\ \A e \in Cells : e # q /\ e # first => next'[e] = next[e] /\ phase'[e] = phase[e]
      /\ phase'[q] = phase[q] /\ phase'[first] = "alive"
  BY <1>1, <1>3 DEF TypeOK
<1>6. contents' = [e \in Cells |-> IF e = q THEN Tail(contents[q])
                   ELSE IF e \in {q, first} THEN <<>> ELSE contents[e]]
  BY <1>1, <1>3 DEF HistoryType
<1>7. \A e \in Queues : phase[e] = "alive" =>
        IF e # q THEN tail'[e] = tail[e]
        ELSE tail'[q] = IF next[first] # Null THEN tail[q] ELSE q
  BY <1>1, <1>5 DEF TypeOK
<1> HIDE DEF HDeque, Deque
<1>8. phase[q] = "alive"
  BY DEF HDeque, Deque
<1> QED BY <1>3, <1>4, <1>5, <1>6, <1>7, <1>8, Beheaded

LEMMA UnwindHeap ==
  ASSUME HeapInv, NEW c \in Cells, HUnwind(c)
  PROVE  HeapInv'
<1> DEFINE first == next[c]
           d == IF first \in CoroOps THEN first ELSE c
<1> USE DEF Cells, Alive, HUnwind, Unwind, Becomes
<1>1. TypeOK /\ HistoryType /\ phase[c] = "dying" /\ first # Null
  BY DEF HeapInv
<1>2. /\ first \in Ops /\ phase[first] = "queued" /\ first # c
      /\ contents[first] = <<>>
  BY <1>1, FirstInChain
<1>3. TypeOK'
  BY <1>1, <1>2, QueueAssumption DEF TypeOK, OpPhases, QueuePhases
<1>4. /\ next'[d] = next[first] /\ \A e \in {c, first} : e # d => next'[e] = Null
      /\ \A e \in Cells : e # c /\ e # first => next'[e] = next[e] /\ phase'[e] = phase[e]
      /\ phase'[c] = phase[c] /\ phase'[first] # "queued"
      /\ d = first => phase'[first] = "adrift"
  BY <1>1, <1>2 DEF TypeOK
<1>5. contents' = [e \in Cells |-> IF e = d THEN Tail(contents[c])
                   ELSE IF e \in {c, first} THEN <<>> ELSE contents[e]]
  BY <1>1, <1>2 DEF HistoryType
<1>6. \A e \in Queues : phase[e] = "alive" => e # c /\ tail'[e] = tail[e]
  BY <1>1
<1>7. d \in {c, first} /\ phase[c] # "queued" /\ next[c] = first
  BY <1>1
<1> HIDE DEF d, first, HUnwind, Unwind
<1> QED BY <1>2, <1>3, <1>4, <1>5, <1>6, <1>7, Beheaded
-------------------------------------------------------------------------------
LEMMA NextHeap == HeapInv /\ [HNext]_<<vars, contents>> => HeapInv'
<1> SUFFICES ASSUME HeapInv, [HNext]_<<vars, contents>> PROVE HeapInv'
  OBVIOUS
<1>1. CASE \E c \in Cells : \/ (Construct(c) \/ Destroy(c) \/ Destroyed(c))
                               /\ UNCHANGED contents
                            \/ HUnwind(c)
  BY <1>1, LifeHeap, UnwindHeap
<1>2. CASE \E q \in Queues : HDeque(q) \/ \E o \in Ops : HEnqueue(q, o)
  BY <1>2, DequeHeap, EnqueueHeap
<1>3. CASE \E q, r \in Queues : HSplice(q, r) \/ HSwap(q, r) \/ HMoveConstruct(q, r)
  BY <1>3, SpliceHeap, SwapHeap, MoveConstructHeap
<1>4. CASE \E q, r, tmp \in Queues : HMoveAssign(q, r, tmp)
  BY <1>4, MoveAssignHeap
<1>5. CASE UNCHANGED <<vars, contents>>
  BY <1>5 DEF HeapInv, vars, TypeOK, HistoryType, Linked, Rooted, Apart, Cell, Alive
<1> QED BY <1>1, <1>2, <1>3, <1>4, <1>5 DEF HNext

(* In every behaviour the heap is what its history says.                     *)
LEMMA HeapHolds == HSpec => []HeapInv
<1>1. HInit => HeapInv
  BY InitHeap
<1>2. HeapInv /\ [HNext]_<<vars, contents>> => HeapInv'
  BY NextHeap
<1> QED BY <1>1, <1>2, PTL DEF HSpec
-------------------------------------------------------------------------------
(* tail_ of a live queue always is the address of a null pointer, whatever   *)
(* enqueue(), deque(), moves and destruction do: operation_queue.cpp 38-58.  *)
THEOREM TailsNull == HSpec => []TailsAreNull
<1>1. HeapInv => TailsAreNull
  <2> SUFFICES ASSUME HeapInv, NEW q \in Queues, phase[q] = "alive"
               PROVE  next[tail[q]] = Null
    BY DEF TailsAreNull, Alive
  <2> DEFINE n == Len(contents[q])
  <2>1. q \in Cells /\ phase[q] # "queued"
    BY DEF Cells
  <2>2. n \in Nat
    BY <2>1 DEF HeapInv, HistoryType
  <2>3. n \in 0..n
    BY <2>2
  <2> QED BY <2>1, <2>3 DEF HeapInv, Linked, Alive
<1> QED BY <1>1, HeapHolds, PTL

(* An operation the program has does not own the queue it was taken from     *)
(* (operation_queue.cpp 52-58), so invoking it deletes only itself.          *)
THEOREM TakenDetached == HSpec => []TakenAreDetached
<1>1. HeapInv => TakenAreDetached
  <2> SUFFICES ASSUME HeapInv, NEW o \in Ops, phase[o] = "alive"
               PROVE  next[o] = Null
    BY DEF TakenAreDetached, Alive
  <2>1. o \in Cells /\ o \notin Queues
    BY QueueAssumption DEF Cells
  <2>2. contents[o] = <<>>
    BY <2>1 DEF HeapInv, Rooted
  <2> QED BY <2>1, <2>2, Chains
<1> QED BY <1>1, HeapHolds, PTL

(* empty(), which looks at tail_, says whether head_ owns an operation       *)
(* (operation_queue.cpp 33-36): deque() never asserts after a negative one.  *)
THEOREM EmptyIsRight == HSpec => []EmptyAgrees
<1>1. HeapInv => EmptyAgrees
  <2> SUFFICES ASSUME HeapInv, NEW q \in Queues, phase[q] = "alive"
               PROVE  tail[q] = q <=> next[q] = Null
    BY DEF EmptyAgrees, Alive, Empty
  <2>1. q \in Cells
    BY DEF Cells
  <2> QED BY <2>1, Chains, FirstInChain DEF Alive
<1> QED BY <1>1, HeapHolds, PTL
-------------------------------------------------------------------------------
At(o) == \E c \in Cells : \E i \in DOMAIN contents[c] : contents[c][i] = o

LEMMA CoveredAt ==
  Covered <=> \A o \in Ops : phase[o] = "queued" => At(o)
BY DEF Covered, At, Range

(* A chain that is handed to another cell, whole, covers what it did.        *)
LEMMA HandedOn ==
  ASSUME NEW o, At(o), NEW to \in [Cells -> Cells],
         \A c \in Cells : contents[c] # <<>> => contents'[to[c]] = contents[c]
  PROVE  At(o)'
BY DEF At

LEMMA QueueCovers ==
  ASSUME HeapInv, NEW q \in Queues, Covered,
         HDeque(q) \/ \E o \in Ops : HEnqueue(q, o)
  PROVE  Covered'
<1> USE DEF Cells, Alive, Becomes
<1>1. TypeOK /\ HistoryType /\ contents[q] \in Seq(Ops)
  BY DEF HeapInv, HistoryType
<1> SUFFICES ASSUME NEW o \in Ops, phase'[o] = "queued" PROVE At(o)'
  BY DEF Covered, At, Range
<1>2. CASE HDeque(q)
  <2> DEFINE first == next[q]
  <2>1. phase[q] = "alive" /\ first # Null
    BY <1>2, Chains DEF HDeque, Deque, Empty
  <2>2. first \in Ops /\ contents[q] # <<>> /\ first = contents[q][1]
    BY <2>1, FirstInChain, Chains
  <2>3. o # first /\ phase[o] = "queued"
    BY <1>1, <1>2, <2>2 DEF HDeque, Deque, TypeOK
  <2>4. /\ contents'[q] = Tail(contents[q])
        /\ \A c \in Cells : c # q => contents'[c] = contents[c]
    BY <1>1, <1>2 DEF HDeque, HistoryType
  <2>5. PICK c, i : c \in Cells /\ i \in DOMAIN contents[c] /\ contents[c][i] = o
    BY <2>3 DEF Covered, Range
  <2>6. CASE c # q
    BY <2>4, <2>5, <2>6 DEF At
  <2>7. CASE c = q
    <3>1. i \in 1..Len(contents[q]) /\ i # 1
      BY <1>1, <2>2, <2>3, <2>5, <2>7
    <3>2. i - 1 \in DOMAIN contents'[q] /\ contents'[q][i - 1] = o
      BY <1>1, <2>2, <2>4, <2>5, <2>7, <3>1
    <3> QED BY <3>2 DEF At
  <2> QED BY <2>6, <2>7
<1>3. CASE \E new \in Ops : HEnqueue(q, new)
  <2>1. PICK new \in Ops : HEnqueue(q, new)
    BY <1>3
  <2>2. /\ contents'[q] = Append(contents[q], new)
        /\ \A c \in Cells : c # q => contents'[c] = contents[c]
    BY <1>1, <2>1 DEF HEnqueue, HistoryType
  <2>3. CASE o = new
    <3>1. Len(contents[q]) + 1 \in DOMAIN contents'[q]
          /\ contents'[q][Len(contents[q]) + 1] = new
      BY <1>1, <2>2
    <3> QED BY <2>3, <3>1 DEF At
  <2>4. CASE o # new
    <3>1. phase[o] = "queued"
      BY <1>1, <2>1, <2>4 DEF HEnqueue, Enqueue, TypeOK
    <3>2. PICK c, i : c \in Cells /\ i \in DOMAIN contents[c] /\ contents[c][i] = o
      BY <3>1 DEF Covered, Range
    <3>3. i \in DOMAIN contents'[c] /\ contents'[c][i] = o
      BY <1>1, <2>2, <3>2
    <3> QED BY <3>2, <3>3 DEF At
  <2> QED BY <2>3, <2>4
<1> QED BY <1>2, <1>3

LEMMA SpliceCovers ==
  ASSUME HeapInv, NEW q \in Queues, NEW r \in Queues, Covered, HSplice(q, r)
  PROVE  Covered'
<1> USE DEF Cells
<1>1. /\ TypeOK /\ HistoryType /\ q # r
      /\ contents[q] \in Seq(Ops) /\ contents[r] \in Seq(Ops)
  BY DEF HeapInv, HistoryType, HSplice, Splice
<1> SUFFICES ASSUME NEW o \in Ops, phase'[o] = "queued" PROVE At(o)'
  BY DEF Covered, At, Range
<1>2. PICK c, i : c \in Cells /\ i \in DOMAIN contents[c] /\ contents[c][i] = o
  BY DEF Covered, Range, HSplice, Splice
<1>3. /\ contents'[q] = contents[q] \o contents[r]
      /\ \A d \in Cells : d # q /\ d # r => contents'[d] = contents[d]
  BY <1>1 DEF HSplice, HistoryType
<1> DEFINE w == contents[q] \o contents[r]
<1>7. PICK n \in Nat, m \in Nat : n = Len(contents[q]) /\ m = Len(contents[r])
  BY <1>1
<1>8. DOMAIN contents[q] = 1..n /\ DOMAIN contents[r] = 1..m
  BY <1>1, <1>7
<1>9. DOMAIN w = 1..n+m /\ \A k \in 1..n+m :
        w[k] = IF k <= n THEN contents[q][k] ELSE contents[r][k - n]
  <2>1. /\ w \in Seq(Ops) /\ Len(w) = Len(contents[q]) + Len(contents[r])
        /\ \A k \in 1..Len(contents[q])+Len(contents[r]) :
             w[k] = IF k <= Len(contents[q]) THEN contents[q][k]
                    ELSE contents[r][k - Len(contents[q])]
    BY <1>1, ConcatProperties
  <2> HIDE DEF w
  <2>2. DOMAIN w = 1..Len(w)
    BY <2>1
  <2> QED BY <2>1, <2>2, <1>7
<1>10. contents'[q] = w
  BY <1>3
<1> HIDE DEF w
<1>4. CASE c = q
  <2>1. i \in 1..n
    BY <1>2, <1>4, <1>8
  <2>2. i \in 1..n+m /\ i <= n
    BY <2>1
  <2>3. i \in DOMAIN contents'[q] /\ contents'[q][i] = o
    BY <1>2, <1>4, <1>9, <1>10, <2>2
  <2> QED BY <2>3 DEF At
<1>5. CASE c = r
  <2>1. i \in 1..m
    BY <1>2, <1>5, <1>8
  <2>2. n + i \in 1..n+m /\ ~(n + i <= n) /\ (n + i) - n = i
    BY <2>1
  <2>3. n + i \in DOMAIN contents'[q] /\ contents'[q][n + i] = o
    BY <1>2, <1>5, <1>9, <1>10, <2>2
  <2> QED BY <2>3 DEF At
<1>6. CASE c # q /\ c # r
  BY <1>2, <1>3, <1>6 DEF At
<1> QED BY <1>4, <1>5, <1>6

LEMMA MoveCovers ==
  ASSUME HeapInv, NEW q \in Queues, NEW r \in Queues, NEW tmp \in Queues, Covered,
         HSwap(q, r) \/ HMoveConstruct(q, r) \/ HMoveAssign(q, r, tmp)
  PROVE  Covered'
<1> USE DEF Cells, Alive, Becomes
<1>1. TypeOK /\ HistoryType /\ Rooted
  BY DEF HeapInv
<1> SUFFICES ASSUME NEW o \in Ops, phase'[o] = "queued" PROVE At(o)'
  BY DEF Covered, At, Range
<1>2. phase[o] = "queued"
  BY <1>1, QueueAssumption
     DEF TypeOK, HSwap, Swap, HMoveConstruct, MoveConstruct, HMoveAssign, MoveAssign
<1>3. At(o)
  BY <1>2, CoveredAt
<1>4. \A c \in Queues : phase[c] = "dead" => contents[c] = <<>>
  BY <1>1 DEF Rooted
<1>5. CASE HSwap(q, r)
  <2> DEFINE to == [c \in Cells |-> IF c = q THEN r ELSE IF c = r THEN q ELSE c]
  <2>1. to \in [Cells -> Cells] /\ \A c \in Cells : contents'[to[c]] = contents[c]
    BY <1>1, <1>5 DEF HSwap, Swap, HistoryType
  <2> HIDE DEF to
  <2> QED BY <1>3, <2>1, HandedOn
<1>6. CASE HMoveConstruct(q, r)
  <2> DEFINE to == [c \in Cells |-> IF c = r THEN q ELSE c]
  <2>1. /\ to \in [Cells -> Cells]
        /\ \A c \in Cells : contents[c] # <<>> => contents'[to[c]] = contents[c]
    BY <1>1, <1>4, <1>6 DEF HMoveConstruct, MoveConstruct, HistoryType
  <2> HIDE DEF to
  <2> QED BY <1>3, <2>1, HandedOn
<1>7. CASE HMoveAssign(q, r, tmp)
  <2> DEFINE to == [c \in Cells |-> IF c = r THEN q ELSE IF c = q THEN tmp ELSE c]
  <2>1. /\ to \in [Cells -> Cells]
        /\ \A c \in Cells : contents[c] # <<>> => contents'[to[c]] = contents[c]
    BY <1>1, <1>4, <1>7 DEF HMoveAssign, MoveAssign, HistoryType
  <2> HIDE DEF to
  <2> QED BY <1>3, <2>1, HandedOn
<1> QED BY <1>5, <1>6, <1>7

LEMMA LifeCovers ==
  ASSUME HeapInv, NEW c \in Cells, Covered,
         \/ (Construct(c) \/ Destroy(c) \/ Destroyed(c)) /\ UNCHANGED contents
         \/ HUnwind(c)
  PROVE  Covered'
<1> USE DEF Cells, Alive, Becomes
<1>1. TypeOK /\ HistoryType /\ contents[c] \in Seq(Ops)
  BY DEF HeapInv, HistoryType
<1> SUFFICES ASSUME NEW o \in Ops, phase'[o] = "queued" PROVE At(o)'
  BY DEF Covered, At, Range
<1>2. CASE (Construct(c) \/ Destroy(c) \/ Destroyed(c)) /\ UNCHANGED contents
  <2>1. phase[o] = "queued"
    BY <1>1, <1>2 DEF TypeOK, Construct, Destroy, Destroyed
  <2> QED BY <1>2, <2>1, CoveredAt DEF At
<1>3. CASE HUnwind(c)
  <2> DEFINE first == next[c]
             d == IF first \in CoroOps THEN first ELSE c
  <2>1. phase[c] = "dying" /\ first # Null
    BY <1>3 DEF HUnwind, Unwind
  <2>2. /\ first \in Ops /\ contents[c] # <<>> /\ first = contents[c][1]
        /\ contents[first] = <<>> /\ first # c
    BY <2>1, FirstInChain, Chains
  <2>3. o # first /\ phase[o] = "queued"
    BY <1>1, <1>3, <2>2 DEF HUnwind, Unwind, TypeOK
  <2>4. /\ contents'[d] = Tail(contents[c])
        /\ \A e \in Cells : e # c /\ e # first => contents'[e] = contents[e]
    BY <1>1, <1>3, <2>2 DEF HUnwind, HistoryType
  <2>5. PICK e, i : e \in Cells /\ i \in DOMAIN contents[e] /\ contents[e][i] = o
    BY <2>3 DEF Covered, Range
  <2>6. d \in Cells /\ e # first
    BY <2>2, <2>5
  <2>7. CASE e # c
    BY <2>4, <2>5, <2>6, <2>7 DEF At
  <2>8. CASE e = c
    <3> HIDE DEF d
    <3>1. i \in 1..Len(contents[c]) /\ i # 1
      BY <1>1, <2>2, <2>3, <2>5, <2>8
    <3>2. i - 1 \in DOMAIN contents'[d] /\ contents'[d][i - 1] = o
      BY <1>1, <2>2, <2>4, <2>5, <2>8, <3>1
    <3> QED BY <2>6, <3>2 DEF At
  <2> QED BY <2>7, <2>8
<1> QED BY <1>2, <1>3

LEMMA CoveredHolds == HSpec => [](HeapInv /\ Covered)
<1>1. HInit => HeapInv /\ Covered
  BY InitHeap DEF HInit, Init, Covered, Cells
<1>2. HeapInv /\ Covered /\ [HNext]_<<vars, contents>> => (HeapInv /\ Covered)'
  <2> SUFFICES ASSUME HeapInv, Covered, [HNext]_<<vars, contents>> PROVE Covered'
    BY NextHeap
  <2>1. CASE UNCHANGED <<vars, contents>>
    BY <2>1 DEF vars, Covered
  <2> QED BY <2>1, LifeCovers, QueueCovers, SpliceCovers, MoveCovers DEF HNext
<1> QED BY <1>1, <1>2, PTL DEF HSpec

(* An operation is owned by one cell exactly while it is queued, through     *)
(* every move and the destruction of queues (operation_queue.cpp 7-58 and    *)
(* operation_base.hpp 11-25): no double run, no double delete, no leak of an *)
(* operation that is not adrift.                                             *)
THEOREM OwnedExactlyOnce == HSpec => []OwnedOnce
<1>1. HeapInv /\ Covered => OwnedOnce
  <2> SUFFICES ASSUME HeapInv, Covered PROVE OwnedOnce
    OBVIOUS
  <2> DEFINE Owner(c, o) == \E r \in Cells : \E i \in 1..Len(contents[r]) :
               /\ phase[r] # "queued" /\ contents[r][i] = o
               /\ c = IF i = 1 THEN r ELSE contents[r][i - 1]
  <2>1. TypeOK /\ HistoryType /\ Rooted /\ Apart
    BY DEF HeapInv
  <2>2. ASSUME NEW c \in Cells, NEW o \in Ops, next[c] = o PROVE Owner(c, o)
    <3>1. o # Null
      BY QueueAssumption DEF Cells
    <3>2. CASE phase[c] # "queued"
      <4>1. contents[c] \in Seq(Ops) /\ Len(contents[c]) \in Nat
        BY <2>1 DEF HistoryType
      <4>2. Len(contents[c]) # 0 /\ contents[c][1] = o
        BY <2>2, <3>1, <3>2, Chains
      <4>3. 1 \in 1..Len(contents[c])
        BY <4>1, <4>2
      <4> QED BY <3>2, <4>2, <4>3
    <3>3. CASE phase[c] = "queued"
      <4>1. c \in Ops
        BY <2>1, <3>3 DEF TypeOK, QueuePhases, Cells
      <4>2. PICK r, i : r \in Cells /\ i \in DOMAIN contents[r] /\ contents[r][i] = c
        BY <3>3, <4>1 DEF Covered, Range
      <4>3. contents[r] \in Seq(Ops) /\ i \in 1..Len(contents[r])
        BY <2>1, <4>2 DEF HistoryType
      <4>4. phase[r] # "queued"
        <5>1. contents[r] # <<>>
          BY <4>3
        <5> QED BY <2>1, <4>2, <5>1 DEF Rooted, Alive
      <4>5. i # Len(contents[r]) /\ contents[r][i + 1] = o
        BY <2>2, <3>1, <4>2, <4>3, <4>4, Chains
      <4>6. i + 1 \in 1..Len(contents[r]) /\ (i + 1) - 1 = i /\ i + 1 # 1
        BY <4>3, <4>5
      <4> QED BY <4>2, <4>4, <4>5, <4>6
    <3> QED BY <3>2, <3>3
  <2>3. ASSUME NEW c \in Cells, NEW d \in Cells, NEW o \in Ops,
               next[c] = o, next[d] = o
        PROVE  c = d
    <3>1. Owner(c, o) /\ Owner(d, o)
      BY <2>2, <2>3
    <3>2. PICK r, i : /\ r \in Cells /\ i \in 1..Len(contents[r])
                       /\ contents[r][i] = o
                       /\ c = IF i = 1 THEN r ELSE contents[r][i - 1]
      BY <3>1
    <3>3. PICK s, j : /\ s \in Cells /\ j \in 1..Len(contents[s])
                       /\ contents[s][j] = o
                       /\ d = IF j = 1 THEN s ELSE contents[s][j - 1]
      BY <3>1
    <3>4. i \in DOMAIN contents[r] /\ j \in DOMAIN contents[s]
      BY <2>1, <3>2, <3>3 DEF HistoryType
    <3>5. r = s /\ i = j
      BY <2>1, <3>2, <3>3, <3>4 DEF Apart
    <3> QED BY <3>2, <3>3, <3>5
  <2>4. ASSUME NEW o \in Ops, phase[o] = "queued" PROVE \E c \in Cells : next[c] = o
    <3>1. PICK r, i : r \in Cells /\ i \in DOMAIN contents[r] /\ contents[r][i] = o
      BY <2>4 DEF Covered, Range
    <3>2. contents[r] \in Seq(Ops) /\ i \in 1..Len(contents[r])
      BY <2>1, <3>1 DEF HistoryType
    <3>3. phase[r] # "queued"
      <4>1. contents[r] # <<>>
        BY <3>2
      <4> QED BY <2>1, <3>1, <4>1 DEF Rooted, Alive
    <3>4. CASE i = 1
      <4>1. Len(contents[r]) # 0
        BY <3>2
      <4>2. next[r] = contents[r][1]
        BY <3>1, <3>3, <4>1, Chains
      <4> QED BY <3>1, <3>4, <4>2
    <3>5. CASE i # 1
      <4>1. i - 1 \in 1..Len(contents[r]) /\ i - 1 # Len(contents[r]) /\ (i - 1) + 1 = i
        BY <3>2, <3>5
      <4>2. contents[r][i - 1] \in Cells /\ next[contents[r][i - 1]] = o
        BY <3>1, <3>3, <4>1, Chains DEF Cells
      <4> QED BY <4>2
    <3> QED BY <3>4, <3>5
  <2>5. ASSUME NEW o \in Ops, NEW c \in Cells, next[c] = o PROVE phase[o] = "queued"
    <3>1. PICK r, i : r \in Cells /\ i \in 1..Len(contents[r]) /\ contents[r][i] = o
      BY <2>2, <2>5
    <3>2. i \in DOMAIN contents[r]
      BY <2>1, <3>1 DEF HistoryType
    <3> QED BY <2>1, <3>1, <3>2 DEF Rooted
  <2> QED BY <2>3, <2>4, <2>5 DEF OwnedOnce
<1> QED BY <1>1, CoveredHolds, PTL
-------------------------------------------------------------------------------
(* Each step maps to a step of FifoQueues, or leaves what the program sees  *)
(* of the queues as it was.                                                *)

(* What is shown of the queues when one action has changed one or two.       *)
LEMMA ShownOf ==
  ASSUME NEW q \in Queues
  PROVE  /\ phase[q] = "alive" => Shown[q] = contents[q]
         /\ phase[q] # "alive" => Shown[q] = <<>>
         /\ phase'[q] = "alive" => Shown'[q] = contents'[q]
         /\ phase'[q] # "alive" => Shown'[q] = <<>>
BY DEF Shown, Alive

LEMMA FifoInit == HInit => Fifo!Init
BY QueueAssumption DEF HInit, Init, Fifo!Init, Shown, Held, Alive, Cells

(* An operation the program has is in no queue it sees.                      *)
LEMMA NotQueued ==
  ASSUME HeapInv, NEW o \in Ops, phase[o] # "queued"
  PROVE  o \notin Fifo!Queued
<1> SUFFICES ASSUME NEW q \in Queues, o \in Fifo!Range(Shown[q]) PROVE FALSE
  BY DEF Fifo!Queued
<1>1. PICK i \in DOMAIN Shown[q] : Shown[q][i] = o
  BY DEF Fifo!Range
<1>2. CASE phase[q] = "alive"
  BY <1>1, <1>2, ShownOf DEF HeapInv, Rooted, Cells
<1>3. CASE phase[q] # "alive"
  BY <1>1, <1>3, ShownOf
<1> QED BY <1>2, <1>3
-------------------------------------------------------------------------------
LEMMA LifeShown ==
  ASSUME HeapInv, NEW c \in Cells, Construct(c) \/ Destroy(c) \/ Destroyed(c),
         UNCHANGED contents
  PROVE  Fifo!Next \/ UNCHANGED <<Shown, Held>>
<1> USE DEF Construct, Destroy, Destroyed, Becomes, Cells, Alive
<1>1. TypeOK /\ Rooted /\ Null \notin Cells
  BY QueueAssumption DEF HeapInv
<1>2. phase'[c] # phase[c] /\ \A d \in Cells : d # c => phase'[d] = phase[d]
  BY <1>1 DEF TypeOK
<1>3. CASE c \in Ops
  <2>1. Shown' = Shown
    BY <1>2, <1>3, QueueAssumption DEF Shown
  <2>2. CASE Construct(c)
    <3>1. c \notin Held /\ c \notin Fifo!Queued /\ Held' = Held \union {c}
      BY <1>1, <1>3, <2>2, NotQueued DEF Held, TypeOK
    <3> QED BY <1>3, <2>1, <3>1 DEF Fifo!Next, Fifo!Take
  <2>3. CASE Destroy(c) /\ phase[c] = "alive"
    <3>1. c \in Held /\ Held' = Held \ {c}
      BY <1>1, <1>3, <2>3 DEF Held, TypeOK
    <3> QED BY <1>3, <2>1, <3>1 DEF Fifo!Next, Fifo!Drop
  <2>4. CASE phase[c] # "alive" /\ phase'[c] # "alive"
    <3>1. Held' = Held
      BY <1>2, <1>3, <2>4 DEF Held
    <3> QED BY <2>1, <3>1
  <2> QED BY <1>1, <2>2, <2>3, <2>4 DEF TypeOK
<1>4. CASE c \in Queues
  <2>1. Held' = Held
    BY <1>2, <1>4, QueueAssumption DEF Held
  <2>2. CASE Destroy(c)
    <3>1. Shown' = [Shown EXCEPT ![c] = <<>>]
      BY <1>1, <1>2, <1>4, <2>2 DEF Shown, TypeOK
    <3> QED BY <1>4, <2>1, <3>1 DEF Fifo!Next, Fifo!Clear
  <2>3. CASE Construct(c) \/ Destroyed(c)
    <3>1. contents[c] = <<>> \/ (phase[c] # "alive" /\ phase'[c] # "alive")
      BY <1>1, <1>4, <2>3 DEF Rooted, TypeOK
    <3>2. Shown' = Shown
      BY <1>2, <1>4, <3>1 DEF Shown
    <3> QED BY <2>1, <3>2
  <2> QED BY <2>2, <2>3
<1> QED BY <1>3, <1>4 DEF Cells

LEMMA EnqueueShown ==
  ASSUME HeapInv, NEW q \in Queues, NEW o \in Ops, HEnqueue(q, o)
  PROVE  Fifo!Enqueue(q, o)
<1> USE DEF HEnqueue, Enqueue, Becomes, Cells, Alive
<1>1. TypeOK /\ HistoryType /\ q # o
  BY QueueAssumption DEF HeapInv
<1>2. phase'[o] = "queued" /\ \A c \in Cells : c # o => phase'[c] = phase[c]
  BY <1>1 DEF TypeOK
<1>3. o \in Held /\ Held' = Held \ {o}
  BY <1>2 DEF Held
<1>4. /\ contents'[q] = Append(contents[q], o)
      /\ \A c \in Cells : c # q => contents'[c] = contents[c]
  BY <1>1 DEF HistoryType
<1>5. Shown' = [Shown EXCEPT ![q] = Append(Shown[q], o)]
  BY ZenonT(60), <1>2, <1>4, QueueAssumption DEF Shown
<1> QED BY <1>3, <1>5 DEF Fifo!Enqueue

LEMMA SpliceShown ==
  ASSUME HeapInv, NEW q \in Queues, NEW r \in Queues, HSplice(q, r)
  PROVE  Fifo!Splice(q, r)
<1> USE DEF HSplice, Splice, Cells, Alive
<1>1. HistoryType /\ q # r
  BY DEF HeapInv
<1>2. /\ contents'[q] = contents[q] \o contents[r] /\ contents'[r] = <<>>
      /\ \A c \in Cells : c # q /\ c # r => contents'[c] = contents[c]
  BY <1>1 DEF HistoryType
<1>3. Shown' = [Shown EXCEPT ![q] = Shown[q] \o Shown[r], ![r] = <<>>]
  BY <1>1, <1>2 DEF Shown
<1> QED BY <1>1, <1>3 DEF Fifo!Splice, Held

LEMMA DequeShown ==
  ASSUME HeapInv, NEW q \in Queues, HDeque(q)
  PROVE  Fifo!Deque(q)
<1> DEFINE first == next[q]
<1> USE DEF Cells, Alive
<1>1. TypeOK /\ HistoryType /\ phase[q] = "alive"
  BY DEF HeapInv, HDeque, Deque
<1>2. first # Null
  BY <1>1, Chains DEF HDeque, Deque, Empty
<1>3. first \in Ops /\ contents[q] # <<>>
  BY <1>1, <1>2, FirstInChain
<1>4. first = Head(contents[q])
  <2>1. first = contents[q][1]
    BY <1>1, <1>2, Chains
  <2> QED BY <2>1, <1>1, <1>3 DEF HistoryType
<1>5. phase'[first] = "alive" /\ \A c \in Cells : c # first => phase'[c] = phase[c]
  BY <1>1, <1>3 DEF HDeque, Deque, Becomes, TypeOK
<1>6. Held' = Held \union {first}
  BY <1>3, <1>5 DEF Held
<1>7. /\ contents'[q] = Tail(contents[q])
      /\ \A c \in Cells : c # q => contents'[c] = contents[c]
  BY <1>1 DEF HDeque, HistoryType
<1>8. Shown' = [Shown EXCEPT ![q] = Tail(Shown[q])]
  BY <1>1, <1>3, <1>5, <1>7, QueueAssumption DEF Shown
<1>9. Shown[q] = contents[q]
  BY <1>1, ShownOf
<1> QED BY <1>3, <1>4, <1>6, <1>8, <1>9 DEF Fifo!Deque

LEMMA SwapShown ==
  ASSUME HeapInv, NEW q \in Queues, NEW r \in Queues, HSwap(q, r)
  PROVE  Fifo!Swap(q, r)
<1> USE DEF HSwap, Swap, Cells, Alive
<1>1. HistoryType /\ q # r
  BY DEF HeapInv
<1>2. /\ contents'[q] = contents[r] /\ contents'[r] = contents[q]
      /\ \A c \in Cells : c # q /\ c # r => contents'[c] = contents[c]
  BY <1>1 DEF HistoryType
<1>3. Shown' = [Shown EXCEPT ![q] = Shown[r], ![r] = Shown[q]]
  BY <1>1, <1>2 DEF Shown
<1> QED BY <1>3 DEF Fifo!Swap, Held

LEMMA MoveConstructShown ==
  ASSUME HeapInv, NEW q \in Queues, NEW r \in Queues, HMoveConstruct(q, r)
  PROVE  Fifo!Move(q, r)
<1> USE DEF HMoveConstruct, MoveConstruct, Becomes, Cells, Alive
<1>1. TypeOK /\ HistoryType /\ q # r
  BY DEF HeapInv
<1>2. /\ contents'[q] = contents[r] /\ contents'[r] = <<>>
      /\ \A c \in Cells : c # q /\ c # r => contents'[c] = contents[c]
  BY <1>1 DEF HistoryType
<1>3. phase'[q] = "alive" /\ \A c \in Cells : c # q => phase'[c] = phase[c]
  BY <1>1 DEF TypeOK
<1>4. Shown' = [Shown EXCEPT ![q] = Shown[r], ![r] = <<>>]
  BY ZenonT(60), <1>1, <1>2, <1>3 DEF Shown
<1>5. Held' = Held
  BY <1>3, QueueAssumption DEF Held
<1> QED BY <1>1, <1>4, <1>5 DEF Fifo!Move

LEMMA MoveAssignShown ==
  ASSUME HeapInv, NEW q \in Queues, NEW r \in Queues, NEW tmp \in Queues,
         HMoveAssign(q, r, tmp)
  PROVE  Fifo!Move(q, r)
<1> USE DEF HMoveAssign, MoveAssign, Becomes, Cells, Alive
<1>1. TypeOK /\ HistoryType /\ q # r /\ q # tmp /\ r # tmp
  BY DEF HeapInv
<1>2. /\ contents'[q] = contents[r] /\ contents'[r] = <<>>
      /\ \A c \in Cells : c # q /\ c # r /\ c # tmp => contents'[c] = contents[c]
  BY <1>1 DEF HistoryType
<1>3. phase'[tmp] = "dying" /\ \A c \in Cells : c # tmp => phase'[c] = phase[c]
  BY <1>1 DEF TypeOK
<1>4. Shown' = [Shown EXCEPT ![q] = Shown[r], ![r] = <<>>]
  BY ZenonT(60), <1>1, <1>2, <1>3 DEF Shown
<1>5. Held' = Held
  BY <1>3, QueueAssumption DEF Held
<1> QED BY <1>1, <1>4, <1>5 DEF Fifo!Move

(* Destroying a queue that is dying is not seen.                             *)
LEMMA UnwindShown ==
  ASSUME HeapInv, NEW c \in Cells, HUnwind(c)
  PROVE  UNCHANGED <<Shown, Held>>
<1> DEFINE first == next[c]
<1> USE DEF Cells, Alive
<1>1. TypeOK /\ HistoryType /\ phase[c] = "dying" /\ first # Null
  BY DEF HeapInv, HUnwind, Unwind
<1>2. first \in Ops /\ phase[first] = "queued"
  BY <1>1, FirstInChain
<1>3. phase'[first] # "alive" /\ \A d \in Cells : d # first => phase'[d] = phase[d]
  BY <1>1, <1>2 DEF HUnwind, Unwind, Becomes, TypeOK
<1>4. \A d \in Cells : d # first /\ d # c => contents'[d] = contents[d]
  BY <1>1 DEF HUnwind, HistoryType
<1>5. Shown' = Shown
  BY <1>1, <1>2, <1>3, <1>4, QueueAssumption DEF Shown
<1>6. Held' = Held
  BY <1>2, <1>3 DEF Held
<1> QED BY <1>5, <1>6
-------------------------------------------------------------------------------
LEMMA FifoStep ==
  HeapInv /\ [HNext]_<<vars, contents>> => [Fifo!Next]_(Fifo!vars)
<1> SUFFICES ASSUME HeapInv, [HNext]_<<vars, contents>>
             PROVE  Fifo!Next \/ UNCHANGED <<Shown, Held>>
  BY DEF Fifo!vars
<1>1. CASE \E c \in Cells : \/ (Construct(c) \/ Destroy(c) \/ Destroyed(c))
                               /\ UNCHANGED contents
                            \/ HUnwind(c)
  BY <1>1, LifeShown, UnwindShown
<1>2. CASE \E q \in Queues : HDeque(q) \/ \E o \in Ops : HEnqueue(q, o)
  BY <1>2, DequeShown, EnqueueShown DEF Fifo!Next
<1>3. CASE \E q, r \in Queues : HSplice(q, r) \/ HSwap(q, r) \/ HMoveConstruct(q, r)
  BY <1>3, SpliceShown, SwapShown, MoveConstructShown DEF Fifo!Next
<1>4. CASE \E q, r, tmp \in Queues : HMoveAssign(q, r, tmp)
  BY <1>4, MoveAssignShown DEF Fifo!Next
<1>5. CASE UNCHANGED <<vars, contents>>
  BY <1>5 DEF vars, Shown, Held, Alive
<1> QED BY <1>1, <1>2, <1>3, <1>4, <1>5 DEF HNext

(* Whatever a program does with operation queues (operation_queue.cpp 7-58), *)
(* and while they are destroyed, it sees first-in first-out sequences that   *)
(* share no operation: none is reordered, duplicated or lost by the pointers.*)
THEOREM QueuesAreFifo == HSpec => ImplementsFifo
<1>1. HInit => Fifo!Init
  BY FifoInit
<1>2. HeapInv /\ [HNext]_<<vars, contents>> => [Fifo!Next]_(Fifo!vars)
  BY FifoStep
<1> QED BY <1>1, <1>2, HeapHolds, PTL DEF HSpec, ImplementsFifo, Fifo!Spec
===============================================================================
