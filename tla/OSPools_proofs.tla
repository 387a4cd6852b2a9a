--------------------------- MODULE OSPools_proofs ---------------------------
(***************************************************************************)
(* The linked lists of os_msg.c and os_mem.c for every pool size, number   *)
(* of queues and partition: no structure and no block is lost or linked    *)
(* twice, and the lists behave as the bounded queues of MsgQueues.         *)
(*                                                                         *)
(* Chain is a recursive function; a list is reasoned about through the     *)
(* function s that IsChain says it is, one such function for the free list *)
(* and one for every queue (LinkedAt), and for the free blocks (SharedOut).*)
(***************************************************************************)
EXTENDS OSPools, TLAPS, FiniteSetTheorems, SequenceTheorems, WellFoundedInduction

\* A nonempty set of naturals has a least element.
LEMMA SmallestExists ==
  ASSUME NEW S \in SUBSET Nat, S # {}
  PROVE  \E m \in S : \A n \in S : m <= n
<1>1. IsWellFoundedOn(OpToRel(<, Nat), Nat)
  BY NatLessThanWellFounded
<1>2. PICK m \in S : \A n \in S : ~ (<<n, m>> \in OpToRel(<, Nat))
  BY <1>1, WFMin, Zenon
<1>3. \A n \in S : ~ (n < m)
  BY <1>2 DEF OpToRel
<1> QED
  BY <1>3

\* The n structures from p on are s[1], ..., s[n], all different and all of S.
IsChain(next, p, n, s, S) ==
  /\ s \in [1 .. n -> S]
  /\ n > 0 => s[1] = p
  /\ \A i \in 1 .. n - 1 : next[s[i]] = s[i + 1]
  /\ \A i, j \in 1 .. n : s[i] = s[j] => i = j

\* What Chain computes on a well-formed list.
LEMMA ChainIs ==
  ASSUME NEW next, NEW p, NEW n \in Nat, NEW s, NEW S \in SUBSET (Nat \ {0}),
         IsChain(next, p, n, s, S)
  PROVE  Chain(next, p, n) = s
<1> DEFINE Rec(f) == [i \in 1 .. n |-> IF i = 1 THEN p
                        ELSE IF f[i - 1] = Null THEN Null ELSE next[f[i - 1]]]
<1>1. Chain(next, p, n) = CHOOSE f : f = Rec(f)
  BY DEF Chain
<1>2. s = Rec(s)
  <2>1. s \in [1 .. n -> S]
    BY DEF IsChain
  <2>2. \A i \in 1 .. n : s[i] = Rec(s)[i]
    <3>1. \A i \in 1 .. n : i # 1 => s[i - 1] # Null /\ next[s[i - 1]] = s[i]
      BY DEF IsChain, Null
    <3> QED
      BY <3>1 DEF IsChain
  <2> QED
    BY <2>1, <2>2
<1>3. ASSUME NEW f, f = Rec(f)
      PROVE  f = s
  <2> DEFINE Bad == {i \in 1 .. n : f[i] # s[i]}
  <2>1. \A i \in 1 .. n : f[i] = Rec(f)[i] /\ s[i] = Rec(s)[i]
    BY <1>2, <1>3
  <2>2. CASE Bad # {}
    <3>0. Bad \in SUBSET Nat
      OBVIOUS
    <3>1. PICK i \in Bad : \A j \in Bad : i <= j
      <4> HIDE DEF Bad
      <4> QED
        BY <2>2, <3>0, SmallestExists
    <3>2. i # 1
      BY <2>1, <3>1
    <3>3. i - 1 \in 1 .. n /\ i - 1 \notin Bad
      BY <3>1, <3>2
    <3>4. f[i - 1] = s[i - 1]
      BY <3>3
    <3> QED
      BY <2>1, <3>1, <3>4
  <2>3. CASE Bad = {}
    <3>1. s \in [1 .. n -> S]
      BY DEF IsChain
    <3>2. \A i \in 1 .. n : f[i] = s[i]
      BY <2>3
    <3>3. DOMAIN f = 1 .. n /\ f = [i \in 1 .. n |-> f[i]]
      BY <1>3
    <3> QED
      BY <3>1, <3>2, <3>3
  <2> QED
    BY <2>2, <2>3
<1> HIDE DEF Rec
<1>4. (CHOOSE f : f = Rec(f)) = Rec(CHOOSE f : f = Rec(f))
  BY <1>2
<1> QED
  BY <1>1, <1>3, <1>4
-----------------------------------------------------------------------------
\* The lists of OS_MSG structures, as functions.
Lists == UNION {[1 .. n -> OS_MSG] : n \in Nat}

\* F is the free list and L the queues of a pool whose fields are pool, next and
\* qs: together they hold every OS_MSG once, and the counts agree with them.
LinkedAt(pool, next, qs, F, L) ==
  /\ IsChain(next, pool.NextPtr, pool.NbrFree, F, OS_MSG)
  /\ \A x \in MsgQ : IsChain(next, qs[x].OutPtr, qs[x].NbrEntries, L[x], OS_MSG)
  /\ \A x \in MsgQ : qs[x].NbrEntries > 0 => qs[x].InPtr = L[x][qs[x].NbrEntries]
  /\ \A x, y \in MsgQ : x # y =>
       \A i \in 1 .. qs[x].NbrEntries, j \in 1 .. qs[y].NbrEntries : L[x][i] # L[y][j]
  /\ \A x \in MsgQ : \A i \in 1 .. pool.NbrFree, j \in 1 .. qs[x].NbrEntries : F[i] # L[x][j]
  /\ \A m \in OS_MSG : \/ \E i \in 1 .. pool.NbrFree : m = F[i]
                       \/ \E x \in MsgQ : \E i \in 1 .. qs[x].NbrEntries : m = L[x][i]
  /\ pool.NbrFree + pool.NbrUsed = OSCfg_MsgPoolSize

\* The fields of the pool and of the queues have their types.
FieldsOK(pool, next, qs) ==
  /\ pool \in [NextPtr : {Null} \cup OS_MSG, NbrFree : Nat, NbrUsed : Int]
  /\ next \in [OS_MSG -> {Null} \cup OS_MSG]
  /\ qs \in [MsgQ -> [InPtr : {Null} \cup OS_MSG, OutPtr : {Null} \cup OS_MSG, NbrEntries : Nat]]

\* The lists of a well-formed pool are the ones the model reads off its links.
LEMMA LinkedAre ==
  ASSUME NEW pool, NEW next, NEW qs, NEW F, NEW L \in [MsgQ -> Lists],
         FieldsOK(pool, next, qs), LinkedAt(pool, next, qs, F, L)
  PROVE  /\ Chain(next, pool.NextPtr, pool.NbrFree) = F
         /\ [x \in MsgQ |-> Chain(next, qs[x].OutPtr, qs[x].NbrEntries)] = L
<1>1. OS_MSG \in SUBSET (Nat \ {0})
  BY MsgAssumption DEF OS_MSG
<1>2. pool.NbrFree \in Nat /\ \A x \in MsgQ : qs[x].NbrEntries \in Nat
  BY DEF FieldsOK
<1>3. Chain(next, pool.NextPtr, pool.NbrFree) = F
  <2>1. IsChain(next, pool.NextPtr, pool.NbrFree, F, OS_MSG)
    BY DEF LinkedAt
  <2> QED
    BY <1>1, <1>2, <2>1, ChainIs
<1>4. ASSUME NEW x \in MsgQ
      PROVE  Chain(next, qs[x].OutPtr, qs[x].NbrEntries) = L[x]
  <2>1. IsChain(next, qs[x].OutPtr, qs[x].NbrEntries, L[x], OS_MSG)
    BY DEF LinkedAt
  <2> QED
    BY <1>1, <1>2, <2>1, ChainIs
<1> QED
  BY <1>3, <1>4
-----------------------------------------------------------------------------
\* The lists of functions: without its first element, with one more in front or
\* at the end, and one list in front of another.
Rest(s, n)       == [i \in 1 .. n - 1 |-> s[i + 1]]
Front(m, s, n)   == [i \in 1 .. n + 1 |-> IF i = 1 THEN m ELSE s[i - 1]]
Back(s, n, m)    == [i \in 1 .. n + 1 |-> IF i <= n THEN s[i] ELSE m]
Join(s, n, u, k) == [i \in 1 .. n + k |-> IF i <= n THEN s[i] ELSE u[i - n]]

\* L with m added to the n elements of x, in front or at the end.
With(L, x, m, n, lifo) ==
  [L EXCEPT ![x] = IF lifo THEN Front(m, L[x], n) ELSE Back(L[x], n, m)]

\* L without the first of the n elements of x, and without all of them.
Without(L, x, n) == [L EXCEPT ![x] = Rest(L[x], n)]
Emptied(L, x)    == [L EXCEPT ![x] = [i \in 1 .. 0 |-> Null]]

\* OS_MsgQPut moves the head of the free list to an end of the queue.
LEMMA PutLinked ==
  ASSUME NEW F \in Lists, NEW L \in [MsgQ -> Lists], NEW x \in MsgQ, NEW m, NEW lifo \in BOOLEAN,
         FieldsOK(OSMsgPool, NextPtr, q), LinkedAt(OSMsgPool, NextPtr, q, F, L),
         OS_MsgQPut(x, m, lifo)
  PROVE  /\ F[1] \in OS_MSG
         /\ FieldsOK(OSMsgPool', NextPtr', q')
         /\ MsgPtr' = [MsgPtr EXCEPT ![F[1]] = m]
         /\ q[x].NbrEntries < NbrEntriesSize[x]
         /\ q'[x].NbrEntries = q[x].NbrEntries + 1
         /\ \A y \in MsgQ \ {x} : q'[y] = q[y]
         /\ LinkedAt(OSMsgPool', NextPtr', q', Rest(F, OSMsgPool.NbrFree),
                     With(L, x, F[1], q[x].NbrEntries, lifo))
<1> DEFINE n == q[x].NbrEntries
           k == OSMsgPool.NbrFree
           p == F[1]
           G == Rest(F, k)
           l == IF lifo THEN Front(p, L[x], n) ELSE Back(L[x], n, p)
           M == With(L, x, p, n, lifo)
<1>a. /\ k \in Nat /\ \A y \in MsgQ : q[y].NbrEntries \in Nat
      /\ k > 0 /\ n \in Nat
      /\ OSMsgPool.NbrUsed \in Int
      /\ NextPtr \in [OS_MSG -> {Null} \cup OS_MSG]
      /\ OS_MSG \in SUBSET (Nat \ {0}) /\ Null = 0
  BY MsgAssumption DEF FieldsOK, OS_MsgQPut, OS_MSG, Null
<1>b. IsChain(NextPtr, OSMsgPool.NextPtr, k, F, OS_MSG)
  BY DEF LinkedAt
<1>c. \A y \in MsgQ : IsChain(NextPtr, q[y].OutPtr, q[y].NbrEntries, L[y], OS_MSG)
  BY DEF LinkedAt
<1>d. \A y \in MsgQ : q[y].NbrEntries > 0 => q[y].InPtr = L[y][q[y].NbrEntries]
  BY DEF LinkedAt
<1>e. \A y, z \in MsgQ : y # z =>
        \A i \in 1 .. q[y].NbrEntries, j \in 1 .. q[z].NbrEntries : L[y][i] # L[z][j]
  BY DEF LinkedAt
<1>f. \A y \in MsgQ : \A i \in 1 .. k, j \in 1 .. q[y].NbrEntries : F[i] # L[y][j]
  BY DEF LinkedAt
<1>g. \A a \in OS_MSG : \/ \E i \in 1 .. k : a = F[i]
                        \/ \E y \in MsgQ : \E i \in 1 .. q[y].NbrEntries : a = L[y][i]
  BY DEF LinkedAt
<1>h. k + OSMsgPool.NbrUsed = OSCfg_MsgPoolSize
  BY DEF LinkedAt
<1>i. /\ F \in [1 .. k -> OS_MSG] /\ F[1] = OSMsgPool.NextPtr
      /\ \A i, j \in 1 .. k : F[i] = F[j] => i = j
      /\ \A i \in 1 .. k - 1 : NextPtr[F[i]] = F[i + 1]
  BY <1>a, <1>b DEF IsChain
<1>j. /\ L[x] \in [1 .. n -> OS_MSG]
      /\ n > 0 => L[x][1] = q[x].OutPtr
      /\ \A i, j \in 1 .. n : L[x][i] = L[x][j] => i = j
      /\ \A i \in 1 .. n - 1 : NextPtr[L[x][i]] = L[x][i + 1]
  BY <1>c DEF IsChain
<1>1. /\ n \in Nat /\ k \in Nat \ {0}
      /\ p \in OS_MSG /\ p = OSMsgPool.NextPtr
      /\ F \in [1 .. k -> OS_MSG] /\ L[x] \in [1 .. n -> OS_MSG]
      /\ n > 0 => L[x][1] = q[x].OutPtr /\ L[x][n] = q[x].InPtr
      /\ n > 0 => q[x].OutPtr \in OS_MSG /\ q[x].InPtr \in OS_MSG
      /\ OS_MSG \in SUBSET (Nat \ {0})
  BY <1>a, <1>d, <1>i, <1>j
<1>2. /\ OSMsgPool' = [NextPtr |-> NextPtr[p], NbrFree |-> k - 1, NbrUsed |-> OSMsgPool.NbrUsed + 1]
      /\ MsgPtr' = [MsgPtr EXCEPT ![p] = m]
      /\ n < NbrEntriesSize[x]
  BY <1>1 DEF OS_MsgQPut
<1>3. /\ q' \in [MsgQ -> [InPtr : {Null} \cup OS_MSG, OutPtr : {Null} \cup OS_MSG, NbrEntries : Nat]]
      /\ q'[x].NbrEntries = n + 1
      /\ q'[x].OutPtr = IF n = 0 \/ lifo THEN p ELSE q[x].OutPtr
      /\ q'[x].InPtr = IF n = 0 \/ ~lifo THEN p ELSE q[x].InPtr
      /\ \A y \in MsgQ \ {x} : q'[y] = q[y]
  <2>1. q \in [MsgQ -> [InPtr : {Null} \cup OS_MSG, OutPtr : {Null} \cup OS_MSG, NbrEntries : Nat]]
    BY DEF FieldsOK
  <2> DEFINE o == OSMsgPool.NextPtr
  <2>2. n = 0 => q' = [q EXCEPT ![x] = [InPtr |-> o, OutPtr |-> o, NbrEntries |-> 1]]
    BY DEF OS_MsgQPut
  <2>3. n # 0 /\ lifo => q' = [q EXCEPT ![x].OutPtr = o, ![x].NbrEntries = @ + 1]
    BY DEF OS_MsgQPut
  <2>4. n # 0 /\ ~lifo => q' = [q EXCEPT ![x].InPtr = o, ![x].NbrEntries = @ + 1]
    BY DEF OS_MsgQPut
  <2>5. o = p /\ o \in OS_MSG
    BY <1>1
  <2> HIDE DEF o, p
  <2>6. CASE n = 0
    <3> DEFINE r == [InPtr |-> o, OutPtr |-> o, NbrEntries |-> 1]
    <3>1. /\ r \in [InPtr : {Null} \cup OS_MSG, OutPtr : {Null} \cup OS_MSG, NbrEntries : Nat]
          /\ r.InPtr = o /\ r.OutPtr = o /\ r.NbrEntries = 1
      BY <2>5
    <3> HIDE DEF r
    <3>2. q' = [q EXCEPT ![x] = r]
      BY <2>2, <2>6 DEF r
    <3>3. q'[x] = r /\ \A y \in MsgQ \ {x} : q'[y] = q[y]
      BY <2>1, <3>2
    <3>4. n + 1 = 1
      BY <2>6
    <3>5. q' \in [MsgQ -> [InPtr : {Null} \cup OS_MSG, OutPtr : {Null} \cup OS_MSG, NbrEntries : Nat]]
      BY <2>1, <3>1, <3>2
    <3> QED
      BY <2>5, <2>6, <3>1, <3>3, <3>4, <3>5
  <2>7. CASE n # 0 /\ lifo
    BY <1>1, <2>1, <2>3, <2>5, <2>7
  <2>8. CASE n # 0 /\ ~lifo
    BY <1>1, <2>1, <2>4, <2>5, <2>8
  <2> QED
    BY <2>6, <2>7, <2>8
<1>4. /\ NextPtr' \in [OS_MSG -> {Null} \cup OS_MSG]
      /\ n > 0 /\ lifo => NextPtr'[p] = q[x].OutPtr
      /\ n > 0 /\ ~lifo => NextPtr'[q[x].InPtr] = p
      /\ \A a \in OS_MSG \ {p} : \/ NextPtr'[a] = NextPtr[a]
                                 \/ n > 0 /\ ~lifo /\ a = q[x].InPtr
  <2>1. NextPtr \in [OS_MSG -> {Null} \cup OS_MSG]
    BY DEF FieldsOK
  <2>2. \/ n = 0 /\ NextPtr' = NextPtr
        \/ n > 0 /\ lifo /\ NextPtr' = [NextPtr EXCEPT ![p] = q[x].OutPtr]
        \/ n > 0 /\ ~lifo /\ NextPtr' = [NextPtr EXCEPT ![q[x].InPtr] = p, ![p] = Null]
    BY <1>1 DEF OS_MsgQPut
  <2>3. n > 0 => q[x].InPtr # p
    BY <1>1, <1>f
  <2> QED
    BY <1>1, <2>1, <2>2, <2>3
<1>5. FieldsOK(OSMsgPool', NextPtr', q')
  <2>1. k - 1 \in Nat /\ OSMsgPool.NbrUsed + 1 \in Int
    BY <1>a, <1>1
  <2>2. NextPtr[p] \in {Null} \cup OS_MSG
    BY <1>a, <1>1
  <2> QED
    BY <1>2, <1>3, <1>4, <2>1, <2>2 DEF FieldsOK
<1>6. /\ G \in [1 .. k - 1 -> OS_MSG]
      /\ \A i \in 1 .. k - 1 : G[i] = F[i + 1] /\ G[i] # p
  BY <1>1, <1>i DEF Rest
<1>7. /\ l \in [1 .. n + 1 -> OS_MSG]
      /\ lifo => l[1] = p /\ \A i \in 1 .. n : l[i + 1] = L[x][i]
      /\ ~lifo => l[n + 1] = p /\ \A i \in 1 .. n : l[i] = L[x][i]
  BY <1>1 DEF Front, Back
<1> HIDE DEF l, G
<1>8. /\ M[x] = l
      /\ \A y \in MsgQ \ {x} : M[y] = L[y]
  BY DEF With, l
<1> HIDE DEF M
<1>9. /\ \A y \in MsgQ : \A i \in 1 .. q[y].NbrEntries : L[y][i] # p /\ L[y][i] \in OS_MSG
      /\ \A y \in MsgQ \ {x} : \A i \in 1 .. q[y].NbrEntries :
           n > 0 => L[y][i] # q[x].InPtr
      /\ \A i \in 1 .. k : n > 0 => F[i] # q[x].InPtr
      /\ \A i \in 1 .. n - 1 : L[x][i] # q[x].InPtr
  <2>1. \A y \in MsgQ : \A i \in 1 .. q[y].NbrEntries : L[y][i] # p
    BY <1>1, <1>f
  <2>2. \A y \in MsgQ : \A i \in 1 .. q[y].NbrEntries : L[y][i] \in OS_MSG
    BY <1>c DEF IsChain
  <2>3. \A y \in MsgQ \ {x} : \A i \in 1 .. q[y].NbrEntries :
           n > 0 => L[y][i] # q[x].InPtr
    BY <1>1, <1>e
  <2>4. \A i \in 1 .. k : n > 0 => F[i] # q[x].InPtr
    BY <1>1, <1>f
  <2>5. \A i \in 1 .. n - 1 : L[x][i] # q[x].InPtr
    BY <1>1, <1>j
  <2> QED
    BY <2>1, <2>2, <2>3, <2>4, <2>5
<1>10. IsChain(NextPtr', OSMsgPool'.NextPtr, OSMsgPool'.NbrFree, G, OS_MSG)
  <2>1. k - 1 > 0 => G[1] = NextPtr[p]
    BY <1>1, <1>6, <1>i
  <2>2. \A i \in 1 .. k - 2 : NextPtr'[G[i]] = G[i + 1]
    <3> SUFFICES ASSUME NEW i \in 1 .. k - 2
                 PROVE  NextPtr'[G[i]] = G[i + 1]
      OBVIOUS
    <3>1. i \in 1 .. k - 1 /\ i + 1 \in 1 .. k - 1 /\ i + 1 \in 1 .. k
      BY <1>1
    <3>2. G[i] = F[i + 1] /\ G[i + 1] = F[i + 1 + 1] /\ G[i] \in OS_MSG \ {p}
      BY <1>6, <3>1
    <3>3. NextPtr[F[i + 1]] = F[i + 1 + 1] /\ (n > 0 => F[i + 1] # q[x].InPtr)
      BY <1>9, <1>i, <3>1
    <3> QED
      BY <1>4, <3>2, <3>3
  <2>3. \A i, j \in 1 .. k - 1 : G[i] = G[j] => i = j
    BY <1>1, <1>6, <1>i
  <2>4. OSMsgPool'.NbrFree = k - 1 /\ OSMsgPool'.NextPtr = NextPtr[p]
    BY <1>2
  <2>5. (k - 1) - 1 = k - 2
    BY <1>1
  <2> QED
    BY <1>6, <2>1, <2>2, <2>3, <2>4, <2>5 DEF IsChain
<1>11. IsChain(NextPtr', q'[x].OutPtr, q'[x].NbrEntries, M[x], OS_MSG)
  <2>1. l[1] = q'[x].OutPtr
    BY <1>1, <1>3, <1>7
  <2>2. \A i \in 1 .. n : NextPtr'[l[i]] = l[i + 1]
    <3>1. CASE lifo
      <4>1. ASSUME NEW i \in 1 .. n, i # 1
            PROVE  NextPtr'[l[i]] = l[i + 1]
        <5>1. i - 1 \in 1 .. n - 1 /\ i - 1 \in 1 .. n
          BY <1>1, <4>1
        <5>2. l[i] = L[x][i - 1] /\ l[i + 1] = L[x][i] /\ NextPtr[l[i]] = l[i + 1]
          BY <1>1, <1>7, <1>j, <3>1, <5>1
        <5>3. l[i] \in OS_MSG \ {p}
          BY <1>9, <5>1, <5>2
        <5> QED
          BY <1>4, <3>1, <5>2, <5>3
      <4>2. n > 0 => NextPtr'[l[1]] = l[2]
        BY <1>1, <1>4, <1>7, <3>1
      <4> QED
        BY <1>1, <4>1, <4>2
    <3>2. CASE ~lifo
      <4>1. ASSUME NEW i \in 1 .. n - 1
            PROVE  NextPtr'[l[i]] = l[i + 1]
        <5>1. l[i] = L[x][i] /\ l[i + 1] = L[x][i + 1] /\ NextPtr[l[i]] = l[i + 1]
          BY <1>1, <1>7, <1>j, <3>2
        <5>2. l[i] \in OS_MSG \ {p, q[x].InPtr}
          BY <1>1, <1>9, <5>1
        <5> QED
          BY <1>4, <5>1, <5>2
      <4>2. n > 0 => NextPtr'[l[n]] = l[n + 1]
        BY <1>1, <1>4, <1>7, <3>2
      <4> QED
        BY <1>1, <4>1, <4>2
    <3> QED
      BY <3>1, <3>2
  <2>3. \A i, j \in 1 .. n + 1 : l[i] = l[j] => i = j
    <3>1. CASE lifo
      <4>1. \A i \in 1 .. n + 1 : i = 1 \/ (i - 1 \in 1 .. n /\ l[i] = L[x][i - 1])
        BY <1>1, <1>7, <3>1
      <4> QED
        BY <1>1, <1>7, <1>9, <1>j, <3>1, <4>1
    <3>2. CASE ~lifo
      <4>1. \A i \in 1 .. n + 1 : i = n + 1 \/ (i \in 1 .. n /\ l[i] = L[x][i])
        BY <1>1, <1>7, <3>2
      <4> QED
        BY <1>1, <1>7, <1>9, <1>j, <3>2, <4>1
    <3> QED
      BY <3>1, <3>2
  <2>4. (n + 1) - 1 = n /\ n + 1 > 0
    BY <1>1
  <2> QED
    BY <1>3, <1>7, <1>8, <2>1, <2>2, <2>3, <2>4 DEF IsChain
<1>12. ASSUME NEW y \in MsgQ \ {x}
       PROVE  IsChain(NextPtr', q'[y].OutPtr, q'[y].NbrEntries, M[y], OS_MSG)
  <2> DEFINE r == q[y].NbrEntries
  <2>1. IsChain(NextPtr, q[y].OutPtr, r, L[y], OS_MSG) /\ r \in Nat
    BY <1>a, <1>c
  <2>2. \A i \in 1 .. r : L[y][i] \in OS_MSG \ {p} /\ (n > 0 => L[y][i] # q[x].InPtr)
    BY <1>9
  <2>3. q'[y] = q[y] /\ M[y] = L[y]
    BY <1>3, <1>8
  <2> HIDE DEF r
  <2>4. \A i \in 1 .. r - 1 : NextPtr'[L[y][i]] = NextPtr[L[y][i]]
    BY <1>4, <2>1, <2>2
  <2>5. IsChain(NextPtr', q[y].OutPtr, r, L[y], OS_MSG)
    BY <2>1, <2>4 DEF IsChain
  <2> QED
    BY <2>3, <2>5 DEF r
<1>13. LinkedAt(OSMsgPool', NextPtr', q', G, M)
  <2>1. \A i \in 1 .. n + 1 : l[i] = p \/ \E j \in 1 .. n : l[i] = L[x][j]
    <3>1. CASE lifo
      <4>1. \A i \in 1 .. n + 1 : i = 1 \/ (i - 1 \in 1 .. n /\ l[i] = L[x][i - 1])
        BY <1>1, <1>7, <3>1
      <4> QED
        BY <1>7, <3>1, <4>1
    <3>2. CASE ~lifo
      <4>1. \A i \in 1 .. n + 1 : i = n + 1 \/ i \in 1 .. n
        BY <1>1
      <4> QED
        BY <1>7, <3>2, <4>1
    <3> QED
      BY <3>1, <3>2
  <2>2. \A y \in MsgQ : q[y].NbrEntries \in Nat
    BY DEF FieldsOK
  <2>3. \A y \in MsgQ : q'[y].NbrEntries > 0 => q'[y].InPtr = M[y][q'[y].NbrEntries]
    <3>1. q'[x].InPtr = M[x][n + 1]
      BY <1>1, <1>3, <1>7, <1>8
    <3> QED
      BY <1>3, <1>8, <1>d, <3>1
  <2>4. \A y, z \in MsgQ : y # z =>
          \A i \in 1 .. q'[y].NbrEntries, j \in 1 .. q'[z].NbrEntries : M[y][i] # M[z][j]
    <3>1. \A z \in MsgQ \ {x} : \A i \in 1 .. n + 1, j \in 1 .. q[z].NbrEntries : l[i] # L[z][j]
      BY <1>9, <1>e, <2>1
    <3> QED
      BY <1>3, <1>8, <1>e, <3>1
  <2>5. \A y \in MsgQ : \A i \in 1 .. k - 1, j \in 1 .. q'[y].NbrEntries : G[i] # M[y][j]
    <3>1. \A i \in 1 .. k - 1 : i + 1 \in 1 .. k /\ G[i] = F[i + 1] /\ G[i] # p
      BY <1>1, <1>6
    <3>2. \A i \in 1 .. k - 1, j \in 1 .. n + 1 : G[i] # l[j]
      BY <1>f, <2>1, <3>1
    <3> QED
      BY <1>3, <1>8, <1>f, <3>1, <3>2
  <2>6. ASSUME NEW a \in OS_MSG
        PROVE  \/ \E i \in 1 .. k - 1 : a = G[i]
               \/ \E y \in MsgQ : \E i \in 1 .. q'[y].NbrEntries : a = M[y][i]
    <3>1. CASE a = p
      BY <1>1, <1>3, <1>7, <1>8, <3>1
    <3>2. CASE \E i \in 1 .. k : i # 1 /\ a = F[i]
      <4>1. PICK i \in 1 .. k : i # 1 /\ a = F[i]
        BY <3>2
      <4>2. i - 1 \in 1 .. k - 1 /\ G[i - 1] = a
        BY <1>1, <1>6, <4>1
      <4> QED
        BY <4>2
    <3>3. CASE \E i \in 1 .. n : a = L[x][i]
      <4>1. PICK i \in 1 .. n : a = L[x][i]
        BY <3>3
      <4>2. i \in 1 .. n + 1 /\ i + 1 \in 1 .. n + 1
        BY <1>1
      <4>3. a = l[i] \/ a = l[i + 1]
        BY <1>7, <4>1
      <4> QED
        BY <1>3, <1>8, <4>2, <4>3
    <3>4. CASE \E y \in MsgQ \ {x} : \E i \in 1 .. q[y].NbrEntries : a = L[y][i]
      BY <1>3, <1>8, <3>4
    <3> QED
      BY <1>g, <3>1, <3>2, <3>3, <3>4
  <2>7. OSMsgPool'.NbrFree + OSMsgPool'.NbrUsed = OSCfg_MsgPoolSize
    BY <1>a, <1>h, <1>2
  <2>8. OSMsgPool'.NbrFree = k - 1
    BY <1>2
  <2> QED
    BY <1>10, <1>11, <1>12, <2>3, <2>4, <2>5, <2>6, <2>7, <2>8 DEF LinkedAt
<1> QED
  BY <1>1, <1>2, <1>3, <1>5, <1>13 DEF G, M

\* OS_MsgQGet moves the oldest message of the queue to the head of the free list.
LEMMA GetLinked ==
  ASSUME NEW F \in Lists, NEW L \in [MsgQ -> Lists], NEW x \in MsgQ,
         FieldsOK(OSMsgPool, NextPtr, q), LinkedAt(OSMsgPool, NextPtr, q, F, L),
         OS_MsgQGet(x)
  PROVE  /\ q[x].NbrEntries > 0 /\ L[x][1] \in OS_MSG /\ L[x][1] = q[x].OutPtr
         /\ FieldsOK(OSMsgPool', NextPtr', q')
         /\ MsgPtr' = MsgPtr
         /\ q'[x].NbrEntries = q[x].NbrEntries - 1
         /\ \A y \in MsgQ \ {x} : q'[y] = q[y]
         /\ LinkedAt(OSMsgPool', NextPtr', q', Front(L[x][1], F, OSMsgPool.NbrFree),
                     Without(L, x, q[x].NbrEntries))
<1> DEFINE n == q[x].NbrEntries
           k == OSMsgPool.NbrFree
           p == L[x][1]
           G == Front(p, F, k)
           l == Rest(L[x], n)
           M == Without(L, x, n)
<1>a. /\ k \in Nat /\ \A y \in MsgQ : q[y].NbrEntries \in Nat
      /\ n \in Nat /\ n > 0
      /\ OSMsgPool.NbrUsed \in Int
      /\ NextPtr \in [OS_MSG -> {Null} \cup OS_MSG]
      /\ OS_MSG \in SUBSET (Nat \ {0}) /\ Null = 0
  BY MsgAssumption DEF FieldsOK, OS_MsgQGet, OS_MSG, Null
<1>b. IsChain(NextPtr, OSMsgPool.NextPtr, k, F, OS_MSG)
  BY DEF LinkedAt
<1>c. \A y \in MsgQ : IsChain(NextPtr, q[y].OutPtr, q[y].NbrEntries, L[y], OS_MSG)
  BY DEF LinkedAt
<1>d. \A y \in MsgQ : q[y].NbrEntries > 0 => q[y].InPtr = L[y][q[y].NbrEntries]
  BY DEF LinkedAt
<1>e. \A y, z \in MsgQ : y # z =>
        \A i \in 1 .. q[y].NbrEntries, j \in 1 .. q[z].NbrEntries : L[y][i] # L[z][j]
  BY DEF LinkedAt
<1>f. \A y \in MsgQ : \A i \in 1 .. k, j \in 1 .. q[y].NbrEntries : F[i] # L[y][j]
  BY DEF LinkedAt
<1>g. \A a \in OS_MSG : \/ \E i \in 1 .. k : a = F[i]
                        \/ \E y \in MsgQ : \E i \in 1 .. q[y].NbrEntries : a = L[y][i]
  BY DEF LinkedAt
<1>h. k + OSMsgPool.NbrUsed = OSCfg_MsgPoolSize
  BY DEF LinkedAt
<1>i. /\ F \in [1 .. k -> OS_MSG]
      /\ k > 0 => F[1] = OSMsgPool.NextPtr
      /\ \A i, j \in 1 .. k : F[i] = F[j] => i = j
      /\ \A i \in 1 .. k - 1 : NextPtr[F[i]] = F[i + 1]
  BY <1>a, <1>b DEF IsChain
<1>j. /\ L[x] \in [1 .. n -> OS_MSG]
      /\ n > 0 => L[x][1] = q[x].OutPtr
      /\ \A i, j \in 1 .. n : L[x][i] = L[x][j] => i = j
      /\ \A i \in 1 .. n - 1 : NextPtr[L[x][i]] = L[x][i + 1]
  BY <1>c DEF IsChain
<1>1. p \in OS_MSG /\ p = q[x].OutPtr
  BY <1>a, <1>j
<1>2. /\ OSMsgPool' = [NextPtr |-> p, NbrFree |-> k + 1, NbrUsed |-> OSMsgPool.NbrUsed - 1]
      /\ MsgPtr' = MsgPtr
      /\ NextPtr' = [NextPtr EXCEPT ![p] = OSMsgPool.NextPtr]
  BY <1>1 DEF OS_MsgQGet
<1>3. /\ q' \in [MsgQ -> [InPtr : {Null} \cup OS_MSG, OutPtr : {Null} \cup OS_MSG, NbrEntries : Nat]]
      /\ q'[x].NbrEntries = n - 1
      /\ n > 1 => q'[x].OutPtr = L[x][2] /\ q'[x].InPtr = q[x].InPtr
      /\ \A y \in MsgQ \ {x} : q'[y] = q[y]
  <2> DEFINE next == NextPtr[q[x].OutPtr]
             r == IF next = Null THEN [InPtr |-> Null, OutPtr |-> Null, NbrEntries |-> 0]
                  ELSE [InPtr |-> q[x].InPtr, OutPtr |-> next, NbrEntries |-> q[x].NbrEntries - 1]
  <2>1. q \in [MsgQ -> [InPtr : {Null} \cup OS_MSG, OutPtr : {Null} \cup OS_MSG, NbrEntries : Nat]]
    BY DEF FieldsOK
  <2>2. q' = [q EXCEPT ![x] = r]
    <3>1. CASE next = Null
      BY <3>1 DEF OS_MsgQGet
    <3>2. CASE next # Null
      BY <3>2 DEF OS_MsgQGet
    <3> QED
      BY <3>1, <3>2
  <2>3. next \in {Null} \cup OS_MSG /\ (n > 1 => next = L[x][2] /\ next # Null)
    <3>1. next \in {Null} \cup OS_MSG
      BY <1>a, <1>1
    <3>2. n > 1 => next = L[x][2] /\ L[x][2] \in OS_MSG
      BY <1>1, <1>a, <1>j
    <3> QED
      BY <1>a, <3>1, <3>2
  <2> HIDE DEF next
  <2>4. q[x] \in [InPtr : {Null} \cup OS_MSG, OutPtr : {Null} \cup OS_MSG, NbrEntries : Nat]
    BY <2>1
  <2>5. /\ r \in [InPtr : {Null} \cup OS_MSG, OutPtr : {Null} \cup OS_MSG, NbrEntries : Nat]
        /\ r.NbrEntries = n - 1
        /\ n > 1 => r.OutPtr = L[x][2] /\ r.InPtr = q[x].InPtr
    <3>1. CASE next = Null
      <4>1. n = 1
        BY <1>a, <2>3, <3>1
      <4> QED
        BY <3>1, <4>1
    <3>2. CASE next # Null
      <4> DEFINE u == [InPtr |-> q[x].InPtr, OutPtr |-> next, NbrEntries |-> q[x].NbrEntries - 1]
      <4>1. r = u /\ n - 1 \in Nat
        BY <1>a, <3>2
      <4>2. u.OutPtr = next /\ u.NbrEntries = n - 1 /\ u.InPtr = q[x].InPtr
        BY <2>4
      <4>3. u \in [InPtr : {Null} \cup OS_MSG, OutPtr : {Null} \cup OS_MSG, NbrEntries : Nat]
        BY <2>3, <2>4, <4>1
      <4> QED
        BY <2>3, <4>1, <4>2, <4>3
    <3> QED
      BY <3>1, <3>2
  <2> HIDE DEF r
  <2> QED
    BY <2>1, <2>2, <2>5
<1>4. /\ NextPtr' \in [OS_MSG -> {Null} \cup OS_MSG]
      /\ k > 0 => NextPtr'[p] = F[1]
      /\ \A a \in OS_MSG \ {p} : NextPtr'[a] = NextPtr[a]
  <2>1. OSMsgPool.NextPtr \in {Null} \cup OS_MSG
    BY DEF FieldsOK
  <2> QED
    BY <1>a, <1>i, <1>1, <1>2, <2>1
<1>5. FieldsOK(OSMsgPool', NextPtr', q')
  <2>1. k + 1 \in Nat /\ OSMsgPool.NbrUsed - 1 \in Int
    BY <1>a
  <2> QED
    BY <1>1, <1>2, <1>3, <1>4, <2>1 DEF FieldsOK
<1>6. /\ G \in [1 .. k + 1 -> OS_MSG] /\ G[1] = p
      /\ \A i \in 1 .. k : G[i + 1] = F[i]
      /\ \A i \in 1 .. k + 1 : i = 1 \/ (i - 1 \in 1 .. k /\ G[i] = F[i - 1])
  BY <1>1, <1>a, <1>i DEF Front
<1>7. /\ l \in [1 .. n - 1 -> OS_MSG]
      /\ \A i \in 1 .. n - 1 : i + 1 \in 1 .. n /\ l[i] = L[x][i + 1]
  BY <1>a, <1>j DEF Rest
<1> HIDE DEF l, G
<1>8. /\ M[x] = l
      /\ \A y \in MsgQ \ {x} : M[y] = L[y]
  BY DEF Without, l
<1> HIDE DEF M
<1>9. /\ \A i \in 1 .. k : F[i] # p
      /\ \A y \in MsgQ \ {x} : \A i \in 1 .. q[y].NbrEntries : L[y][i] # p /\ L[y][i] \in OS_MSG
      /\ \A i \in 1 .. n - 1 : l[i] # p
  <2>1. \A i \in 1 .. k : F[i] # p
    BY <1>a, <1>f
  <2>2. \A y \in MsgQ : \A i \in 1 .. q[y].NbrEntries : L[y][i] \in OS_MSG
    BY <1>c DEF IsChain
  <2>3. \A y \in MsgQ \ {x} : \A i \in 1 .. q[y].NbrEntries : L[y][i] # p
    BY <1>a, <1>e
  <2>4. \A i \in 1 .. n - 1 : l[i] # p
    BY <1>a, <1>j, <1>7
  <2> QED
    BY <2>1, <2>2, <2>3, <2>4
<1>10. IsChain(NextPtr', OSMsgPool'.NextPtr, OSMsgPool'.NbrFree, G, OS_MSG)
  <2>1. \A i \in 1 .. k : NextPtr'[G[i]] = G[i + 1]
    <3> SUFFICES ASSUME NEW i \in 1 .. k
                 PROVE  NextPtr'[G[i]] = G[i + 1]
      OBVIOUS
    <3>1. CASE i = 1
      BY <1>a, <1>4, <1>6, <3>1
    <3>2. CASE i # 1
      <4>1. i - 1 \in 1 .. k - 1 /\ i - 1 \in 1 .. k /\ i \in 1 .. k + 1 /\ (i - 1) + 1 = i
        BY <1>a, <3>2
      <4>2. G[i] = F[i - 1] /\ G[i + 1] = F[i]
        BY <1>6, <3>2, <4>1
      <4>3. NextPtr[F[i - 1]] = F[i] /\ F[i - 1] \in OS_MSG \ {p}
        BY <1>9, <1>i, <4>1
      <4> QED
        BY <1>4, <4>2, <4>3
    <3> QED
      BY <3>1, <3>2
  <2>2. \A i, j \in 1 .. k + 1 : G[i] = G[j] => i = j
    BY <1>a, <1>6, <1>9, <1>i
  <2>3. OSMsgPool'.NbrFree = k + 1 /\ OSMsgPool'.NextPtr = p
    BY <1>2
  <2>4. (k + 1) - 1 = k
    BY <1>a
  <2> QED
    BY <1>6, <2>1, <2>2, <2>3, <2>4 DEF IsChain
<1>11. IsChain(NextPtr', q'[x].OutPtr, q'[x].NbrEntries, M[x], OS_MSG)
  <2>1. n - 1 > 0 => l[1] = q'[x].OutPtr
    BY <1>a, <1>3, <1>7
  <2>2. \A i \in 1 .. (n - 1) - 1 : NextPtr'[l[i]] = l[i + 1]
    <3> SUFFICES ASSUME NEW i \in 1 .. (n - 1) - 1
                 PROVE  NextPtr'[l[i]] = l[i + 1]
      OBVIOUS
    <3>1. i \in 1 .. n - 1 /\ i + 1 \in 1 .. n - 1
      BY <1>a
    <3>2. l[i] = L[x][i + 1] /\ l[i + 1] = L[x][i + 1 + 1] /\ l[i] \in OS_MSG \ {p}
      BY <1>7, <1>9, <3>1
    <3> QED
      BY <1>4, <1>j, <3>1, <3>2
  <2>3. \A i, j \in 1 .. n - 1 : l[i] = l[j] => i = j
    BY <1>a, <1>7, <1>j
  <2> QED
    BY <1>3, <1>7, <1>8, <2>1, <2>2, <2>3 DEF IsChain
<1>12. ASSUME NEW y \in MsgQ \ {x}
       PROVE  IsChain(NextPtr', q'[y].OutPtr, q'[y].NbrEntries, M[y], OS_MSG)
  <2> DEFINE r == q[y].NbrEntries
  <2>1. IsChain(NextPtr, q[y].OutPtr, r, L[y], OS_MSG) /\ r \in Nat
    BY <1>a, <1>c
  <2>2. \A i \in 1 .. r : L[y][i] \in OS_MSG \ {p}
    BY <1>9
  <2>3. q'[y] = q[y] /\ M[y] = L[y]
    BY <1>3, <1>8
  <2> HIDE DEF r
  <2>4. \A i \in 1 .. r - 1 : NextPtr'[L[y][i]] = NextPtr[L[y][i]]
    BY <1>4, <2>1, <2>2
  <2>5. IsChain(NextPtr', q[y].OutPtr, r, L[y], OS_MSG)
    BY <2>1, <2>4 DEF IsChain
  <2> QED
    BY <2>3, <2>5 DEF r
<1>13. LinkedAt(OSMsgPool', NextPtr', q', G, M)
  <2>1. \A i \in 1 .. k + 1 : G[i] = p \/ \E j \in 1 .. k : G[i] = F[j]
    BY <1>6
  <2>2. \A i \in 1 .. n - 1 : \E j \in 1 .. n : l[i] = L[x][j]
    BY <1>7
  <2>3. \A y \in MsgQ : q'[y].NbrEntries > 0 => q'[y].InPtr = M[y][q'[y].NbrEntries]
    <3>1. n - 1 > 0 => q'[x].InPtr = M[x][n - 1]
      BY <1>a, <1>d, <1>3, <1>7, <1>8
    <3> QED
      BY <1>3, <1>8, <1>d, <3>1
  <2>4. \A y, z \in MsgQ : y # z =>
          \A i \in 1 .. q'[y].NbrEntries, j \in 1 .. q'[z].NbrEntries : M[y][i] # M[z][j]
    <3>1. \A z \in MsgQ \ {x} : \A i \in 1 .. n - 1, j \in 1 .. q[z].NbrEntries : l[i] # L[z][j]
      BY <1>e, <2>2
    <3> QED
      BY <1>3, <1>8, <1>e, <3>1
  <2>5. \A y \in MsgQ : \A i \in 1 .. k + 1, j \in 1 .. q'[y].NbrEntries : G[i] # M[y][j]
    <3>1. \A i \in 1 .. k + 1, j \in 1 .. n - 1 : G[i] # l[j]
      BY <1>9, <1>f, <2>1, <2>2
    <3>2. \A y \in MsgQ \ {x} : \A i \in 1 .. k + 1, j \in 1 .. q[y].NbrEntries : G[i] # L[y][j]
      BY <1>9, <1>f, <2>1
    <3> QED
      BY <1>3, <1>8, <3>1, <3>2
  <2>6. ASSUME NEW a \in OS_MSG
        PROVE  \/ \E i \in 1 .. k + 1 : a = G[i]
               \/ \E y \in MsgQ : \E i \in 1 .. q'[y].NbrEntries : a = M[y][i]
    <3>1. CASE a = p
      BY <1>a, <1>6, <3>1
    <3>2. CASE \E i \in 1 .. k : a = F[i]
      <4>1. PICK i \in 1 .. k : a = F[i]
        BY <3>2
      <4>2. i + 1 \in 1 .. k + 1 /\ G[i + 1] = a
        BY <1>a, <1>6, <4>1
      <4> QED
        BY <4>2
    <3>3. CASE \E i \in 1 .. n : i # 1 /\ a = L[x][i]
      <4>1. PICK i \in 1 .. n : i # 1 /\ a = L[x][i]
        BY <3>3
      <4>2. i - 1 \in 1 .. n - 1 /\ a = l[i - 1]
        BY <1>a, <1>7, <4>1
      <4> QED
        BY <1>3, <1>8, <4>2
    <3>4. CASE \E y \in MsgQ \ {x} : \E i \in 1 .. q[y].NbrEntries : a = L[y][i]
      BY <1>3, <1>8, <3>4
    <3> QED
      BY <1>g, <3>1, <3>2, <3>3, <3>4
  <2>7. OSMsgPool'.NbrFree + OSMsgPool'.NbrUsed = OSCfg_MsgPoolSize
    BY <1>a, <1>h, <1>2
  <2>8. OSMsgPool'.NbrFree = k + 1
    BY <1>2
  <2> QED
    BY <1>10, <1>11, <1>12, <2>3, <2>4, <2>5, <2>6, <2>7, <2>8 DEF LinkedAt
<1> QED
  BY <1>1, <1>2, <1>3, <1>5, <1>13, <1>a DEF G, M

\* OS_MsgQFreeAll puts the whole queue in front of the free list.
LEMMA FreeAllLinked ==
  ASSUME NEW F \in Lists, NEW L \in [MsgQ -> Lists], NEW x \in MsgQ,
         FieldsOK(OSMsgPool, NextPtr, q), LinkedAt(OSMsgPool, NextPtr, q, F, L),
         OS_MsgQFreeAll(x)
  PROVE  /\ FieldsOK(OSMsgPool', NextPtr', q')
         /\ MsgPtr' = MsgPtr
         /\ q'[x].NbrEntries = 0
         /\ \A y \in MsgQ \ {x} : q'[y] = q[y]
         /\ LinkedAt(OSMsgPool', NextPtr', q', Join(L[x], q[x].NbrEntries, F, OSMsgPool.NbrFree),
                     Emptied(L, x))
<1> DEFINE n == q[x].NbrEntries
           k == OSMsgPool.NbrFree
           G == Join(L[x], n, F, k)
           l == [i \in 1 .. 0 |-> Null]
           M == Emptied(L, x)
           last == q[x].InPtr
<1>a. /\ k \in Nat /\ \A y \in MsgQ : q[y].NbrEntries \in Nat
      /\ n \in Nat /\ n > 0
      /\ OSMsgPool.NbrUsed \in Int
      /\ NextPtr \in [OS_MSG -> {Null} \cup OS_MSG]
      /\ OS_MSG \in SUBSET (Nat \ {0}) /\ Null = 0
  BY MsgAssumption DEF FieldsOK, OS_MsgQFreeAll, OS_MSG, Null
<1>b. IsChain(NextPtr, OSMsgPool.NextPtr, k, F, OS_MSG)
  BY DEF LinkedAt
<1>c. \A y \in MsgQ : IsChain(NextPtr, q[y].OutPtr, q[y].NbrEntries, L[y], OS_MSG)
  BY DEF LinkedAt
<1>d. \A y \in MsgQ : q[y].NbrEntries > 0 => q[y].InPtr = L[y][q[y].NbrEntries]
  BY DEF LinkedAt
<1>e. \A y, z \in MsgQ : y # z =>
        \A i \in 1 .. q[y].NbrEntries, j \in 1 .. q[z].NbrEntries : L[y][i] # L[z][j]
  BY DEF LinkedAt
<1>f. \A y \in MsgQ : \A i \in 1 .. k, j \in 1 .. q[y].NbrEntries : F[i] # L[y][j]
  BY DEF LinkedAt
<1>g. \A a \in OS_MSG : \/ \E i \in 1 .. k : a = F[i]
                        \/ \E y \in MsgQ : \E i \in 1 .. q[y].NbrEntries : a = L[y][i]
  BY DEF LinkedAt
<1>h. k + OSMsgPool.NbrUsed = OSCfg_MsgPoolSize
  BY DEF LinkedAt
<1>i. /\ F \in [1 .. k -> OS_MSG]
      /\ k > 0 => F[1] = OSMsgPool.NextPtr
      /\ \A i, j \in 1 .. k : F[i] = F[j] => i = j
      /\ \A i \in 1 .. k - 1 : NextPtr[F[i]] = F[i + 1]
  BY <1>a, <1>b DEF IsChain
<1>j. /\ L[x] \in [1 .. n -> OS_MSG]
      /\ n > 0 => L[x][1] = q[x].OutPtr
      /\ \A i, j \in 1 .. n : L[x][i] = L[x][j] => i = j
      /\ \A i \in 1 .. n - 1 : NextPtr[L[x][i]] = L[x][i + 1]
  BY <1>c DEF IsChain
<1>1. last \in OS_MSG /\ last = L[x][n] /\ q[x].OutPtr = L[x][1] /\ q[x].OutPtr \in OS_MSG
  BY <1>a, <1>d, <1>j
<1>2. /\ OSMsgPool' = [NextPtr |-> q[x].OutPtr, NbrFree |-> k + n, NbrUsed |-> OSMsgPool.NbrUsed - n]
      /\ MsgPtr' = MsgPtr
      /\ NextPtr' = [NextPtr EXCEPT ![last] = OSMsgPool.NextPtr]
      /\ q' = [q EXCEPT ![x] = [InPtr |-> Null, OutPtr |-> Null, NbrEntries |-> 0]]
  BY DEF OS_MsgQFreeAll
<1>3. /\ q' \in [MsgQ -> [InPtr : {Null} \cup OS_MSG, OutPtr : {Null} \cup OS_MSG, NbrEntries : Nat]]
      /\ q'[x].NbrEntries = 0
      /\ \A y \in MsgQ \ {x} : q'[y] = q[y]
  <2> DEFINE r == [InPtr |-> Null, OutPtr |-> Null, NbrEntries |-> 0]
  <2>1. q \in [MsgQ -> [InPtr : {Null} \cup OS_MSG, OutPtr : {Null} \cup OS_MSG, NbrEntries : Nat]]
    BY DEF FieldsOK
  <2>2. /\ r \in [InPtr : {Null} \cup OS_MSG, OutPtr : {Null} \cup OS_MSG, NbrEntries : Nat]
        /\ r.NbrEntries = 0
    OBVIOUS
  <2>3. q' = [q EXCEPT ![x] = r]
    BY <1>2
  <2> HIDE DEF r
  <2> QED
    BY <2>1, <2>2, <2>3
<1>4. /\ NextPtr' \in [OS_MSG -> {Null} \cup OS_MSG]
      /\ k > 0 => NextPtr'[last] = F[1]
      /\ \A a \in OS_MSG \ {last} : NextPtr'[a] = NextPtr[a]
  <2>1. OSMsgPool.NextPtr \in {Null} \cup OS_MSG
    BY DEF FieldsOK
  <2> QED
    BY <1>a, <1>i, <1>1, <1>2, <2>1
<1>5. FieldsOK(OSMsgPool', NextPtr', q')
  <2>1. k + n \in Nat /\ OSMsgPool.NbrUsed - n \in Int
    BY <1>a
  <2> QED
    BY <1>1, <1>2, <1>3, <1>4, <2>1 DEF FieldsOK
<1>6. /\ G \in [1 .. k + n -> OS_MSG]
      /\ \A i \in 1 .. n : i \in 1 .. k + n /\ G[i] = L[x][i]
      /\ \A i \in 1 .. k : n + i \in 1 .. k + n /\ G[n + i] = F[i]
      /\ \A i \in 1 .. k + n : i \in 1 .. n \/ (i - n \in 1 .. k /\ G[i] = F[i - n])
  <2>1. n + k = k + n
    BY <1>a
  <2>2. G = [i \in 1 .. k + n |-> IF i <= n THEN L[x][i] ELSE F[i - n]]
    BY <2>1 DEF Join
  <2>3. \A i \in 1 .. k + n : i \in 1 .. n \/ i - n \in 1 .. k
    BY <1>a
  <2>4. \A i \in 1 .. n : i \in 1 .. k + n /\ i <= n
    BY <1>a
  <2>5. \A i \in 1 .. k : n + i \in 1 .. k + n /\ ~ (n + i <= n) /\ (n + i) - n = i
    BY <1>a
  <2>6. \A i \in 1 .. k + n : i \notin 1 .. n => ~ (i <= n)
    BY <1>a
  <2>7. \A i \in 1 .. n : G[i] = L[x][i]
    BY <2>2, <2>4
  <2>8. \A i \in 1 .. k : G[n + i] = F[i]
    BY <2>2, <2>5
  <2>9. \A i \in 1 .. k + n : i \in 1 .. n \/ G[i] = F[i - n]
    BY <2>2, <2>6
  <2>10. \A i \in 1 .. k + n : G[i] \in OS_MSG
    BY <1>i, <1>j, <2>3, <2>7, <2>9
  <2> QED
    BY <2>2, <2>3, <2>4, <2>5, <2>7, <2>8, <2>9, <2>10
<1> HIDE DEF l, G
<1>8. /\ M[x] = l
      /\ \A y \in MsgQ \ {x} : M[y] = L[y]
  BY DEF Emptied, l
<1> HIDE DEF M
<1>9. /\ \A i \in 1 .. k : F[i] # last
      /\ \A y \in MsgQ \ {x} : \A i \in 1 .. q[y].NbrEntries : L[y][i] # last /\ L[y][i] \in OS_MSG
      /\ \A i \in 1 .. n - 1 : L[x][i] # last
  <2>1. \A i \in 1 .. k : F[i] # last
    BY <1>a, <1>f, <1>1
  <2>2. \A y \in MsgQ : \A i \in 1 .. q[y].NbrEntries : L[y][i] \in OS_MSG
    BY <1>c DEF IsChain
  <2>3. \A y \in MsgQ \ {x} : \A i \in 1 .. q[y].NbrEntries : L[y][i] # last
    BY <1>a, <1>e, <1>1
  <2>4. \A i \in 1 .. n - 1 : L[x][i] # last
    BY <1>a, <1>j, <1>1
  <2> QED
    BY <2>1, <2>2, <2>3, <2>4
<1>10. IsChain(NextPtr', OSMsgPool'.NextPtr, OSMsgPool'.NbrFree, G, OS_MSG)
  <2>1. \A i \in 1 .. (k + n) - 1 : NextPtr'[G[i]] = G[i + 1]
    <3> SUFFICES ASSUME NEW i \in 1 .. (k + n) - 1
                 PROVE  NextPtr'[G[i]] = G[i + 1]
      OBVIOUS
    <3>1. CASE i < n
      <4>1. i \in 1 .. n - 1 /\ i \in 1 .. n /\ i + 1 \in 1 .. n
        BY <1>a, <3>1
      <4>2. G[i] = L[x][i] /\ G[i + 1] = L[x][i + 1] /\ NextPtr[L[x][i]] = L[x][i + 1]
        BY <1>6, <1>j, <4>1
      <4>3. L[x][i] \in OS_MSG \ {last}
        BY <1>9, <1>j, <4>1
      <4> QED
        BY <1>4, <4>2, <4>3
    <3>2. CASE i = n
      <4>1. n \in 1 .. n /\ 1 \in 1 .. k /\ k > 0
        BY <1>a, <3>2
      <4>2. G[n] = last /\ G[n + 1] = F[1]
        BY <1>1, <1>6, <4>1
      <4> QED
        BY <1>4, <3>2, <4>1, <4>2
    <3>3. CASE i > n
      <4>1. /\ i - n \in 1 .. k - 1 /\ i - n \in 1 .. k /\ (i - n) + 1 \in 1 .. k
            /\ n + (i - n) = i /\ n + ((i - n) + 1) = i + 1
        BY <1>a, <3>3
      <4>2. G[i] = F[i - n] /\ G[i + 1] = F[(i - n) + 1]
        BY <1>6, <4>1
      <4>3. NextPtr[F[i - n]] = F[(i - n) + 1] /\ F[i - n] \in OS_MSG \ {last}
        BY <1>9, <1>i, <4>1
      <4> QED
        BY <1>4, <4>2, <4>3
    <3> QED
      BY <1>a, <3>1, <3>2, <3>3
  <2>2. \A i, j \in 1 .. k + n : G[i] = G[j] => i = j
    <3> SUFFICES ASSUME NEW i \in 1 .. k + n, NEW j \in 1 .. k + n, G[i] = G[j]
                 PROVE  i = j
      OBVIOUS
    <3>1. CASE i \in 1 .. n /\ j \in 1 .. n
      BY <1>6, <1>j, <3>1
    <3>2. CASE i \notin 1 .. n /\ j \notin 1 .. n
      <4>1. i - n \in 1 .. k /\ j - n \in 1 .. k /\ F[i - n] = F[j - n]
        BY <1>6, <3>2
      <4>2. i - n = j - n
        BY <1>i, <4>1
      <4> QED
        BY <1>a, <4>2
    <3>3. CASE i \in 1 .. n /\ j \notin 1 .. n
      BY <1>6, <1>f, <3>3
    <3>4. CASE i \notin 1 .. n /\ j \in 1 .. n
      BY <1>6, <1>f, <3>4
    <3> QED
      BY <3>1, <3>2, <3>3, <3>4
  <2>3. OSMsgPool'.NbrFree = k + n /\ OSMsgPool'.NextPtr = q[x].OutPtr
    BY <1>2
  <2>4. G[1] = q[x].OutPtr
    BY <1>a, <1>1, <1>6
  <2> QED
    BY <1>6, <2>1, <2>2, <2>3, <2>4 DEF IsChain
<1>11. IsChain(NextPtr', q'[x].OutPtr, q'[x].NbrEntries, M[x], OS_MSG)
  BY <1>3, <1>8 DEF IsChain, l
<1>12. ASSUME NEW y \in MsgQ \ {x}
       PROVE  IsChain(NextPtr', q'[y].OutPtr, q'[y].NbrEntries, M[y], OS_MSG)
  <2> DEFINE r == q[y].NbrEntries
  <2>1. IsChain(NextPtr, q[y].OutPtr, r, L[y], OS_MSG) /\ r \in Nat
    BY <1>a, <1>c
  <2>2. \A i \in 1 .. r : L[y][i] \in OS_MSG \ {last}
    BY <1>9
  <2>3. q'[y] = q[y] /\ M[y] = L[y]
    BY <1>3, <1>8
  <2> HIDE DEF r
  <2>4. \A i \in 1 .. r - 1 : NextPtr'[L[y][i]] = NextPtr[L[y][i]]
    BY <1>4, <2>1, <2>2
  <2>5. IsChain(NextPtr', q[y].OutPtr, r, L[y], OS_MSG)
    BY <2>1, <2>4 DEF IsChain
  <2> QED
    BY <2>3, <2>5 DEF r
<1>13. LinkedAt(OSMsgPool', NextPtr', q', G, M)
  <2>1. \A i \in 1 .. k + n : (\E j \in 1 .. n : G[i] = L[x][j]) \/ \E j \in 1 .. k : G[i] = F[j]
    BY <1>6
  <2>3. \A y \in MsgQ : q'[y].NbrEntries > 0 => q'[y].InPtr = M[y][q'[y].NbrEntries]
    BY <1>3, <1>8, <1>d
  <2>4. \A y, z \in MsgQ : y # z =>
          \A i \in 1 .. q'[y].NbrEntries, j \in 1 .. q'[z].NbrEntries : M[y][i] # M[z][j]
    <3>1. 1 .. q'[x].NbrEntries = {}
      BY <1>3
    <3> QED
      BY <1>3, <1>8, <1>e, <3>1
  <2>5. \A y \in MsgQ : \A i \in 1 .. k + n, j \in 1 .. q'[y].NbrEntries : G[i] # M[y][j]
    <3>1. 1 .. q'[x].NbrEntries = {}
      BY <1>3
    <3>2. \A y \in MsgQ \ {x} : \A i \in 1 .. k + n, j \in 1 .. q[y].NbrEntries : G[i] # L[y][j]
      BY <1>e, <1>f, <2>1
    <3> QED
      BY <1>3, <1>8, <3>1, <3>2
  <2>6. ASSUME NEW a \in OS_MSG
        PROVE  \/ \E i \in 1 .. k + n : a = G[i]
               \/ \E y \in MsgQ : \E i \in 1 .. q'[y].NbrEntries : a = M[y][i]
    <3>2. CASE \E i \in 1 .. k : a = F[i]
      BY <1>6, <3>2
    <3>3. CASE \E i \in 1 .. n : a = L[x][i]
      BY <1>6, <3>3
    <3>4. CASE \E y \in MsgQ \ {x} : \E i \in 1 .. q[y].NbrEntries : a = L[y][i]
      BY <1>3, <1>8, <3>4
    <3> QED
      BY <1>g, <3>2, <3>3, <3>4
  <2>7. OSMsgPool'.NbrFree + OSMsgPool'.NbrUsed = OSCfg_MsgPoolSize
    BY <1>a, <1>h, <1>2
  <2>8. OSMsgPool'.NbrFree = k + n
    BY <1>2
  <2> QED
    BY <1>10, <1>11, <1>12, <2>3, <2>4, <2>5, <2>6, <2>7, <2>8 DEF LinkedAt
<1> QED
  BY <1>2, <1>3, <1>5, <1>13 DEF G, M
-----------------------------------------------------------------------------
\* A list without its first element (OSMemGet).
LEMMA RestChain ==
  ASSUME NEW next, NEW p, NEW n \in Nat, n > 0, NEW S, NEW s, IsChain(next, p, n, s, S)
  PROVE  IsChain(next, next[p], n - 1, Rest(s, n), S)
<1> DEFINE r == Rest(s, n)
<1>1. /\ s \in [1 .. n -> S] /\ s[1] = p
      /\ \A i \in 1 .. n - 1 : next[s[i]] = s[i + 1]
      /\ \A i, j \in 1 .. n : s[i] = s[j] => i = j
  BY DEF IsChain
<1>2. /\ r \in [1 .. n - 1 -> S]
      /\ \A i \in 1 .. n - 1 : i + 1 \in 1 .. n /\ r[i] = s[i + 1]
  BY <1>1 DEF Rest
<1> HIDE DEF r
<1>3. n - 1 > 0 => r[1] = next[p]
  BY <1>1, <1>2
<1>4. \A i \in 1 .. (n - 1) - 1 : next[r[i]] = r[i + 1]
  <2>1. \A i \in 1 .. (n - 1) - 1 : i \in 1 .. n - 1 /\ i + 1 \in 1 .. n - 1
    OBVIOUS
  <2> QED
    BY <1>1, <1>2, <2>1
<1>5. \A i, j \in 1 .. n - 1 : r[i] = r[j] => i = j
  BY <1>1, <1>2
<1> QED
  BY <1>2, <1>3, <1>4, <1>5 DEF IsChain, r

\* A list with a new element in front, linked to the old head (OSMemPut).
LEMMA FrontChain ==
  ASSUME NEW next, NEW next2, NEW p, NEW n \in Nat, NEW S, NEW s, IsChain(next, p, n, s, S),
         NEW a \in S, \A i \in 1 .. n : s[i] # a /\ next2[s[i]] = next[s[i]], next2[a] = p
  PROVE  IsChain(next2, a, n + 1, Front(a, s, n), S)
<1> DEFINE r == Front(a, s, n)
<1>1. /\ s \in [1 .. n -> S] /\ (n > 0 => s[1] = p)
      /\ \A i \in 1 .. n - 1 : next[s[i]] = s[i + 1]
      /\ \A i, j \in 1 .. n : s[i] = s[j] => i = j
  BY DEF IsChain
<1>2. /\ r \in [1 .. n + 1 -> S] /\ r[1] = a
      /\ \A i \in 1 .. n + 1 : i = 1 \/ (i - 1 \in 1 .. n /\ r[i] = s[i - 1])
  BY <1>1 DEF Front
<1> HIDE DEF r
<1>3. \A i \in 1 .. n : next2[r[i]] = r[i + 1]
  <2> SUFFICES ASSUME NEW i \in 1 .. n
               PROVE  next2[r[i]] = r[i + 1]
    OBVIOUS
  <2>1. r[i + 1] = s[i]
    BY <1>2
  <2>2. CASE i = 1
    BY <1>1, <1>2, <2>1, <2>2
  <2>3. CASE i # 1
    <3>1. i - 1 \in 1 .. n - 1 /\ i - 1 \in 1 .. n /\ i \in 1 .. n + 1 /\ (i - 1) + 1 = i
      BY <2>3
    <3>2. r[i] = s[i - 1] /\ next[s[i - 1]] = s[i]
      BY <1>1, <1>2, <2>3, <3>1
    <3> QED
      BY <2>1, <3>1, <3>2
  <2> QED
    BY <2>2, <2>3
<1>4. ASSUME NEW i \in 1 .. n + 1, NEW j \in 1 .. n + 1, r[i] = r[j]
      PROVE  i = j
  <2>1. CASE i = 1
    BY <1>2, <1>4, <2>1
  <2>2. CASE j = 1
    BY <1>2, <1>4, <2>2
  <2>3. CASE i # 1 /\ j # 1
    <3>1. i - 1 \in 1 .. n /\ j - 1 \in 1 .. n /\ s[i - 1] = s[j - 1]
      BY <1>2, <1>4, <2>3
    <3>2. i - 1 = j - 1
      BY <1>1, <3>1
    <3> QED
      BY <3>2
  <2> QED
    BY <2>1, <2>2, <2>3
<1>5. (n + 1) - 1 = n /\ n + 1 > 0
  OBVIOUS
<1> QED
  BY <1>2, <1>3, <1>4, <1>5 DEF IsChain, r

\* Writing elsewhere leaves a list alone.
LEMMA KeepChain ==
  ASSUME NEW next, NEW next2, NEW p, NEW n \in Nat, NEW S, NEW s, IsChain(next, p, n, s, S),
         \A i \in 1 .. n : next2[s[i]] = next[s[i]]
  PROVE  IsChain(next2, p, n, s, S)
BY DEF IsChain
-----------------------------------------------------------------------------
\* What the queues L of a pool carry.
Carried(ptr, qs, L) == [x \in MsgQ |-> [i \in 1 .. qs[x].NbrEntries |-> ptr[L[x][i]]]]

\* Contents, of given fields.
ContentsAt(next, qs, ptr) ==
  LET K == [x \in MsgQ |-> Chain(next, qs[x].OutPtr, qs[x].NbrEntries)]
  IN  [x \in MsgQ |-> [i \in 1 .. qs[x].NbrEntries |->
         IF K[x][i] = Null THEN Null ELSE ptr[K[x][i]]]]

\* The contents the model reads off the links are what the lists carry.
LEMMA ContentsAre ==
  ASSUME NEW pool, NEW next, NEW qs, NEW ptr, NEW F, NEW L \in [MsgQ -> Lists],
         FieldsOK(pool, next, qs), LinkedAt(pool, next, qs, F, L)
  PROVE  ContentsAt(next, qs, ptr) = Carried(ptr, qs, L)
<1> DEFINE K == [y \in MsgQ |-> Chain(next, qs[y].OutPtr, qs[y].NbrEntries)]
<1>1. K = L
  BY LinkedAre
<1>2. \A x \in MsgQ : \A i \in 1 .. qs[x].NbrEntries : L[x][i] # Null
  <2>1. \A x \in MsgQ : L[x] \in [1 .. qs[x].NbrEntries -> OS_MSG]
    BY DEF LinkedAt, IsChain
  <2>2. Null \notin OS_MSG
    BY MsgAssumption DEF OS_MSG, Null
  <2> QED
    BY <2>1, <2>2
<1> HIDE DEF K
<1>3. [x \in MsgQ |-> [i \in 1 .. qs[x].NbrEntries |->
         IF K[x][i] = Null THEN Null ELSE ptr[K[x][i]]]] = Carried(ptr, qs, L)
  BY <1>1, <1>2 DEF Carried
<1> QED
  BY <1>3 DEF K, ContentsAt

\* B is the list of free blocks, h the blocks held, d the dropped ones and C what
\* the queues carry: together they hold every block once.
SharedOut(wd, ptr, k, B, h, d, qs, C) ==
  /\ IsChain(wd, ptr, k, B, Blk)
  /\ h \in SUBSET Blk /\ d \in SUBSET Blk
  /\ \A x \in MsgQ : \A i \in 1 .. qs[x].NbrEntries : C[x][i] \in Blk
  /\ \A x, y \in MsgQ : \A i \in 1 .. qs[x].NbrEntries, j \in 1 .. qs[y].NbrEntries :
       C[x][i] = C[y][j] => x = y /\ i = j
  /\ \A i \in 1 .. k : B[i] \notin h /\ B[i] \notin d
  /\ \A x \in MsgQ : \A i \in 1 .. k, j \in 1 .. qs[x].NbrEntries : B[i] # C[x][j]
  /\ \A x \in MsgQ : \A j \in 1 .. qs[x].NbrEntries : C[x][j] \notin h /\ C[x][j] \notin d
  /\ h \cap d = {}
  /\ \A b \in Blk : \/ b \in h \/ b \in d
                    \/ \E i \in 1 .. k : b = B[i]
                    \/ \E x \in MsgQ : \E i \in 1 .. qs[x].NbrEntries : b = C[x][i]

\* The fields of the partition have their types.
MemOK(wd, ptr, k) == /\ wd \in [Blk -> {0} \cup Blk] /\ ptr \in {0} \cup Blk /\ k \in Nat

\* The inductive invariant of the two pools.
PoolInv ==
  /\ FieldsOK(OSMsgPool, NextPtr, q) /\ MsgPtr \in [OS_MSG -> Nat]
  /\ MemOK(word, FreeListPtr, NbrFree)
  /\ \E F \in Lists, L \in [MsgQ -> Lists] :
       /\ LinkedAt(OSMsgPool, NextPtr, q, F, L)
       /\ \E B : SharedOut(word, FreeListPtr, NbrFree, B, held, dropped, q, Carried(MsgPtr, q, L))
-----------------------------------------------------------------------------
\* The partition and the pool as they are initialized are well-formed.
LEMMA InitPool == PoolsInit => PoolInv
<1> SUFFICES ASSUME PoolsInit
             PROVE  PoolInv
  OBVIOUS
<1> DEFINE N == OSCfg_MsgPoolSize
           F == [i \in 1 .. N |-> i]
           L == [x \in MsgQ |-> [i \in 1 .. 0 |-> 1]]
           B == [i \in 1 .. n_blks |-> i]
           C == Carried(MsgPtr, q, L)
<1>1. /\ N \in Nat \ {0} /\ OS_MSG = 1 .. N /\ Null = 0
      /\ n_blks \in Nat /\ n_blks > 1 /\ Blk = 1 .. n_blks
  BY MsgAssumption, MemAssumption DEF OS_MSG, Null, Blk
<1>2. /\ OSMsgPool.NextPtr = 1 /\ OSMsgPool.NbrFree = N /\ OSMsgPool.NbrUsed = 0
      /\ NextPtr = [m \in OS_MSG |-> IF m < N THEN m + 1 ELSE 0]
      /\ MsgPtr = [m \in OS_MSG |-> 0]
      /\ \A x \in MsgQ : q[x].NbrEntries = 0
  BY <1>1 DEF PoolsInit, MsgInit
<1>3. /\ FreeListPtr = 1 /\ NbrFree = n_blks
      /\ word = [b \in Blk |-> IF b < n_blks THEN b + 1 ELSE 0]
      /\ held = {} /\ dropped = {}
  BY DEF PoolsInit, OSMemCreate
<1>4. FieldsOK(OSMsgPool, NextPtr, q)
  <2>1. OSMsgPool \in [NextPtr : {Null} \cup OS_MSG, NbrFree : Nat, NbrUsed : Int]
    BY <1>1 DEF PoolsInit, MsgInit
  <2>2. NextPtr \in [OS_MSG -> {Null} \cup OS_MSG]
    BY <1>1, <1>2
  <2>3. q \in [MsgQ -> [InPtr : {Null} \cup OS_MSG, OutPtr : {Null} \cup OS_MSG, NbrEntries : Nat]]
    BY DEF PoolsInit, MsgInit
  <2> QED
    BY <2>1, <2>2, <2>3 DEF FieldsOK
<1>5. MsgPtr \in [OS_MSG -> Nat] /\ MemOK(word, FreeListPtr, NbrFree)
  BY <1>1, <1>2, <1>3 DEF MemOK
<1>6. F \in [1 .. N -> OS_MSG] /\ F \in Lists /\ L \in [MsgQ -> Lists]
  <2>1. F \in [1 .. N -> OS_MSG]
    BY <1>1
  <2>2. F \in Lists
    BY <1>1, <2>1 DEF Lists
  <2>3. [i \in 1 .. 0 |-> 1] \in [1 .. 0 -> OS_MSG]
    OBVIOUS
  <2>4. [i \in 1 .. 0 |-> 1] \in Lists
    BY <2>3 DEF Lists
  <2> QED
    BY <2>1, <2>2, <2>4
<1>7. LinkedAt(OSMsgPool, NextPtr, q, F, L)
  <2>1. IsChain(NextPtr, 1, N, F, OS_MSG)
    BY <1>1, <1>2, <1>6 DEF IsChain
  <2>2. \A x \in MsgQ : 1 .. q[x].NbrEntries = {} /\ 1 .. q[x].NbrEntries - 1 = {} /\ ~ (q[x].NbrEntries > 0)
    BY <1>2
  <2>3. \A x \in MsgQ : IsChain(NextPtr, q[x].OutPtr, q[x].NbrEntries, L[x], OS_MSG)
    BY <2>2, <1>2 DEF IsChain
  <2>4. \A m \in OS_MSG : \E i \in 1 .. N : m = F[i]
    BY <1>1
  <2> QED
    <3>1. N + 0 = N
      BY <1>1
    <3> HIDE DEF F, L, N
    <3> QED
      BY <1>2, <2>1, <2>2, <2>3, <2>4, <3>1 DEF LinkedAt, N
<1>8. SharedOut(word, FreeListPtr, NbrFree, B, held, dropped, q, C)
  <2>1. IsChain(word, 1, n_blks, B, Blk)
    BY <1>1, <1>3 DEF IsChain
  <2>2. \A x \in MsgQ : 1 .. q[x].NbrEntries = {}
    BY <1>2
  <2>3. \A b \in Blk : \E i \in 1 .. n_blks : b = B[i]
    BY <1>1
  <2> HIDE DEF C
  <2> QED
    BY <1>3, <2>1, <2>2, <2>3 DEF SharedOut
<1> QED
  BY <1>4, <1>5, <1>6, <1>7, <1>8 DEF PoolInv
-----------------------------------------------------------------------------
\* The lists of one kind of structure, made from lists.
LEMMA ListsOf ==
  ASSUME NEW n \in Nat, NEW k \in Nat, NEW s \in [1 .. n -> OS_MSG], NEW u \in [1 .. k -> OS_MSG],
         NEW m \in OS_MSG
  PROVE  /\ Rest(s, n) \in Lists /\ Front(m, s, n) \in Lists /\ Back(s, n, m) \in Lists
         /\ Join(s, n, u, k) \in Lists /\ [i \in 1 .. 0 |-> Null] \in Lists
<1>1. n > 0 => Rest(s, n) \in [1 .. n - 1 -> OS_MSG] /\ n - 1 \in Nat
  BY DEF Rest
<1>2. n = 0 => Rest(s, n) \in [1 .. 0 -> OS_MSG]
  <2>1. n = 0 => 1 .. n - 1 = 1 .. 0
    OBVIOUS
  <2> QED
    BY <2>1 DEF Rest
<1>3. Front(m, s, n) \in [1 .. n + 1 -> OS_MSG]
  BY DEF Front
<1>4. Back(s, n, m) \in [1 .. n + 1 -> OS_MSG]
  BY DEF Back
<1>5. Join(s, n, u, k) \in [1 .. n + k -> OS_MSG]
  <2>1. \A i \in 1 .. n + k : i \in 1 .. n \/ (~ (i <= n) /\ i - n \in 1 .. k)
    OBVIOUS
  <2>2. \A i \in 1 .. n : i <= n
    OBVIOUS
  <2> QED
    BY <2>1, <2>2 DEF Join
<1>6. [i \in 1 .. 0 |-> Null] \in [1 .. 0 -> OS_MSG]
  OBVIOUS
<1>7. n + 1 \in Nat /\ n + k \in Nat
  OBVIOUS
<1>8. Front(m, s, n) \in Lists /\ Back(s, n, m) \in Lists
  BY <1>3, <1>4, <1>7 DEF Lists
<1>9. Join(s, n, u, k) \in Lists
  BY <1>5, <1>7 DEF Lists
<1>10. [i \in 1 .. 0 |-> Null] \in Lists
  BY <1>6 DEF Lists
<1>11. Rest(s, n) \in Lists
  <2>1. CASE n = 0
    BY <1>2, <2>1 DEF Lists
  <2>2. CASE n > 0
    BY <1>1, <2>2 DEF Lists
  <2> QED
    BY <2>1, <2>2
<1> QED
  BY <1>8, <1>9, <1>10, <1>11

\* A put adds its message to what the queue carries, at the end it was asked for.
LEMMA PutCarries ==
  ASSUME NEW F \in Lists, NEW L \in [MsgQ -> Lists], NEW x \in MsgQ, NEW m, NEW lifo \in BOOLEAN,
         FieldsOK(OSMsgPool, NextPtr, q), LinkedAt(OSMsgPool, NextPtr, q, F, L),
         DOMAIN MsgPtr = OS_MSG, OS_MsgQPut(x, m, lifo)
  PROVE  Carried(MsgPtr', q', With(L, x, F[1], q[x].NbrEntries, lifo))
         = With(Carried(MsgPtr, q, L), x, m, q[x].NbrEntries, lifo)
<1>0. /\ F[1] \in OS_MSG
      /\ MsgPtr' = [MsgPtr EXCEPT ![F[1]] = m]
      /\ q'[x].NbrEntries = q[x].NbrEntries + 1
      /\ \A y \in MsgQ \ {x} : q'[y] = q[y]
  BY PutLinked
<1> DEFINE n == q[x].NbrEntries
           k == OSMsgPool.NbrFree
           p == F[1]
           l == IF lifo THEN Front(p, L[x], n) ELSE Back(L[x], n, p)
           M == With(L, x, p, n, lifo)
           C == Carried(MsgPtr, q, L)
           c == IF lifo THEN Front(m, C[x], n) ELSE Back(C[x], n, m)
           D == Carried(MsgPtr', q', M)
<1>1. /\ p \in OS_MSG
      /\ MsgPtr' = [MsgPtr EXCEPT ![p] = m]
      /\ q'[x].NbrEntries = n + 1
      /\ \A y \in MsgQ \ {x} : q'[y] = q[y]
  BY <1>0
<1>2. /\ n \in Nat /\ k \in Nat /\ k > 0
      /\ \A y \in MsgQ : q[y].NbrEntries \in Nat
  BY DEF FieldsOK, OS_MsgQPut
<1>3. \A y \in MsgQ : \A i \in 1 .. q[y].NbrEntries : L[y][i] \in OS_MSG
  <2>1. \A y \in MsgQ : IsChain(NextPtr, q[y].OutPtr, q[y].NbrEntries, L[y], OS_MSG)
    BY DEF LinkedAt
  <2> QED
    BY <2>1 DEF IsChain
<1>4. \A y \in MsgQ : \A i \in 1 .. q[y].NbrEntries : L[y][i] # p
  <2>1. \A y \in MsgQ : \A i \in 1 .. k, j \in 1 .. q[y].NbrEntries : F[i] # L[y][j]
    BY DEF LinkedAt
  <2> QED
    BY <1>2, <2>1
<1>5. MsgPtr'[p] = m /\ \A y \in MsgQ : \A i \in 1 .. q[y].NbrEntries : MsgPtr'[L[y][i]] = MsgPtr[L[y][i]]
  BY <1>1, <1>3, <1>4
<1>6. \A y \in MsgQ \ {x} : D[y] = C[y]
  <2>1. \A y \in MsgQ \ {x} : M[y] = L[y]
    BY DEF With
  <2> HIDE DEF M
  <2> QED
    BY <1>1, <1>5, <2>1 DEF Carried
<1>7. D[x] = c
  <2>1. D[x] = [i \in 1 .. n + 1 |-> MsgPtr'[l[i]]]
    <3>1. M[x] = l
      BY DEF With
    <3> QED
      BY <1>1, <3>1 DEF Carried
  <2>2. C[x] = [i \in 1 .. n |-> MsgPtr[L[x][i]]]
    BY DEF Carried
  <2>3. \A i \in 1 .. n : MsgPtr'[L[x][i]] = MsgPtr[L[x][i]]
    BY <1>5
  <2> HIDE DEF C, n, p
  <2>4. CASE lifo
    <3>1. \A i \in 1 .. n + 1 : i = 1 \/ (i - 1 \in 1 .. n /\ i # 1)
      BY <1>2
    <3>2. \A i \in 1 .. n + 1 : MsgPtr'[l[i]] = Front(m, C[x], n)[i]
      BY <1>5, <2>2, <2>3, <2>4, <3>1 DEF Front
    <3> QED
      BY <2>1, <2>4, <3>2 DEF Front
  <2>5. CASE ~lifo
    <3>1. \A i \in 1 .. n + 1 : (i \in 1 .. n /\ i <= n) \/ ~ (i <= n)
      BY <1>2
    <3>2. \A i \in 1 .. n + 1 : MsgPtr'[l[i]] = Back(C[x], n, m)[i]
      BY <1>5, <2>2, <2>3, <2>5, <3>1 DEF Back
    <3> QED
      BY <2>1, <2>5, <3>2 DEF Back
  <2> QED
    BY <2>4, <2>5
<1>8. C = [y \in MsgQ |-> C[y]] /\ D = [y \in MsgQ |-> D[y]]
  BY DEF Carried
<1> HIDE DEF C, D, c
<1>9. D = [C EXCEPT ![x] = c]
  BY <1>6, <1>7, <1>8
<1> QED
  BY <1>9 DEF C, D, c, With

\* A get takes the first message from what the queue carries.
LEMMA GetCarries ==
  ASSUME NEW F \in Lists, NEW L \in [MsgQ -> Lists], NEW x \in MsgQ,
         FieldsOK(OSMsgPool, NextPtr, q), LinkedAt(OSMsgPool, NextPtr, q, F, L),
         OS_MsgQGet(x)
  PROVE  Carried(MsgPtr', q', Without(L, x, q[x].NbrEntries))
         = Without(Carried(MsgPtr, q, L), x, q[x].NbrEntries)
<1> DEFINE n == q[x].NbrEntries
           M == Without(L, x, n)
           C == Carried(MsgPtr, q, L)
           D == Carried(MsgPtr', q', M)
<1>1. /\ MsgPtr' = MsgPtr /\ n > 0
      /\ q'[x].NbrEntries = n - 1
      /\ \A y \in MsgQ \ {x} : q'[y] = q[y]
  BY GetLinked
<1>2. n \in Nat
  BY DEF FieldsOK
<1>3. M[x] = Rest(L[x], n) /\ \A y \in MsgQ \ {x} : M[y] = L[y]
  BY DEF Without
<1>4. C = [y \in MsgQ |-> C[y]] /\ D = [y \in MsgQ |-> D[y]]
  BY DEF Carried
<1> HIDE DEF M
<1>5. \A y \in MsgQ \ {x} : D[y] = C[y]
  BY <1>1, <1>3 DEF Carried
<1>6. D[x] = Rest(C[x], n)
  <2>1. D[x] = [i \in 1 .. n - 1 |-> MsgPtr[M[x][i]]]
    BY <1>1 DEF Carried
  <2>2. C[x] = [i \in 1 .. n |-> MsgPtr[L[x][i]]]
    BY DEF Carried
  <2> HIDE DEF C, D, n
  <2>3. \A i \in 1 .. n - 1 : M[x][i] = L[x][i + 1] /\ i + 1 \in 1 .. n
    BY <1>2, <1>3 DEF Rest
  <2>4. \A i \in 1 .. n - 1 : MsgPtr[M[x][i]] = C[x][i + 1]
    BY <2>2, <2>3
  <2> QED
    BY <2>1, <2>4 DEF Rest
<1> HIDE DEF C, D
<1>7. D = [C EXCEPT ![x] = Rest(C[x], n)]
  BY <1>4, <1>5, <1>6
<1> QED
  BY <1>7 DEF C, D, M, Without

\* A flush leaves the queue empty and the others as they were.
LEMMA FreeAllCarries ==
  ASSUME NEW F \in Lists, NEW L \in [MsgQ -> Lists], NEW x \in MsgQ,
         FieldsOK(OSMsgPool, NextPtr, q), LinkedAt(OSMsgPool, NextPtr, q, F, L),
         OS_MsgQFreeAll(x)
  PROVE  Carried(MsgPtr', q', Emptied(L, x)) = Emptied(Carried(MsgPtr, q, L), x)
<1> DEFINE M == Emptied(L, x)
           C == Carried(MsgPtr, q, L)
           D == Carried(MsgPtr', q', M)
<1>1. /\ MsgPtr' = MsgPtr
      /\ q'[x].NbrEntries = 0
      /\ \A y \in MsgQ \ {x} : q'[y] = q[y]
  BY FreeAllLinked
<1>3. \A y \in MsgQ \ {x} : M[y] = L[y]
  BY DEF Emptied
<1>4. C = [y \in MsgQ |-> C[y]] /\ D = [y \in MsgQ |-> D[y]]
  BY DEF Carried
<1> HIDE DEF M
<1>5. \A y \in MsgQ \ {x} : D[y] = C[y]
  BY <1>1, <1>3 DEF Carried
<1>6. D[x] = [i \in 1 .. 0 |-> Null]
  <2>1. D[x] = [i \in 1 .. 0 |-> MsgPtr[M[x][i]]]
    BY <1>1 DEF Carried
  <2> HIDE DEF D
  <2> QED
    BY <2>1
<1> HIDE DEF C, D
<1>7. D = [C EXCEPT ![x] = [i \in 1 .. 0 |-> Null]]
  BY <1>4, <1>5, <1>6
<1> QED
  BY <1>7 DEF C, D, M, Emptied
-----------------------------------------------------------------------------
\* A block of h goes into a queue (Send).
LEMMA SharedPut ==
  ASSUME NEW wd, NEW ptr, NEW k, NEW B, NEW h, NEW d, NEW qs, NEW qs2, NEW C,
         NEW x \in MsgQ, NEW n \in Nat, NEW b \in h, NEW lifo \in BOOLEAN,
         SharedOut(wd, ptr, k, B, h, d, qs, C), DOMAIN C = MsgQ,
         qs[x].NbrEntries = n, qs2[x].NbrEntries = n + 1, \A y \in MsgQ \ {x} : qs2[y] = qs[y]
  PROVE  SharedOut(wd, ptr, k, B, h \ {b}, d, qs2, With(C, x, b, n, lifo))
<1> DEFINE D == With(C, x, b, n, lifo)
           len(y)  == qs[y].NbrEntries
           len2(y) == qs2[y].NbrEntries
<1>1. /\ IsChain(wd, ptr, k, B, Blk)
      /\ h \in SUBSET Blk /\ d \in SUBSET Blk /\ h \cap d = {}
  BY DEF SharedOut
<1>2. \A y \in MsgQ : \A i \in 1 .. len(y) : C[y][i] \in Blk /\ C[y][i] \notin h /\ C[y][i] \notin d
  BY DEF SharedOut
<1>3. \A y, z \in MsgQ : \A i \in 1 .. len(y), j \in 1 .. len(z) : C[y][i] = C[z][j] => y = z /\ i = j
  BY DEF SharedOut
<1>4. \A i \in 1 .. k : B[i] \notin h /\ B[i] \notin d
  BY DEF SharedOut
<1>5. \A y \in MsgQ : \A i \in 1 .. k, j \in 1 .. len(y) : B[i] # C[y][j]
  BY DEF SharedOut
<1>6. \A a \in Blk : \/ a \in h \/ a \in d
                     \/ \E i \in 1 .. k : a = B[i]
                     \/ \E y \in MsgQ : \E i \in 1 .. len(y) : a = C[y][i]
  BY DEF SharedOut
<1>7. \A y \in MsgQ \ {x} : D[y] = C[y] /\ len2(y) = len(y)
  BY DEF With
<1>8. len(x) = n /\ len2(x) = n + 1
  OBVIOUS
<1>9. D[x] = IF lifo THEN Front(b, C[x], n) ELSE Back(C[x], n, b)
  BY DEF With
<1> HIDE DEF D, len, len2
\* Where each element of the queue comes from.
<1> DEFINE at   == IF lifo THEN 1 ELSE n + 1
           from == [i \in 1 .. n + 1 |-> IF lifo THEN i - 1 ELSE i]
<1>10. D[x] = [i \in 1 .. n + 1 |-> IF i = at THEN b ELSE C[x][from[i]]]
  <2>1. CASE lifo
    BY <1>9, <2>1 DEF Front
  <2>2. CASE ~lifo
    BY <1>9, <2>2 DEF Back
  <2> QED
    BY <2>1, <2>2
<1>11. /\ at \in 1 .. n + 1
       /\ D[x][at] = b
       /\ \A i \in 1 .. n + 1 : i # at => from[i] \in 1 .. n /\ D[x][i] = C[x][from[i]]
       /\ \A i, j \in 1 .. n + 1 : i # at /\ j # at /\ from[i] = from[j] => i = j
       /\ \A j \in 1 .. n : \E i \in 1 .. n + 1 : i # at /\ from[i] = j
  <2>1. at \in 1 .. n + 1 /\ \A i \in 1 .. n + 1 : i # at => from[i] \in 1 .. n
    OBVIOUS
  <2>2. \A i, j \in 1 .. n + 1 : i # at /\ j # at /\ from[i] = from[j] => i = j
    OBVIOUS
  <2>3. ASSUME NEW j \in 1 .. n
        PROVE  \E i \in 1 .. n + 1 : i # at /\ from[i] = j
    <3>1. CASE lifo
      <4>1. j + 1 \in 1 .. n + 1 /\ j + 1 # at /\ from[j + 1] = j
        BY <3>1
      <4> QED
        BY <4>1
    <3>2. CASE ~lifo
      <4>1. j \in 1 .. n + 1 /\ j # at /\ from[j] = j
        BY <3>2
      <4> QED
        BY <4>1
    <3> QED
      BY <3>1, <3>2
  <2> HIDE DEF at, from
  <2> QED
    BY <1>10, <2>1, <2>2, <2>3
<1> HIDE DEF at, from
<1>11a. \A i \in 1 .. n + 1 : i # at => from[i] \in 1 .. len(x) /\ D[x][i] = C[x][from[i]]
  BY <1>8, <1>11
<1>11b. \A i \in 1 .. n + 1 : i # at => D[x][i] # b
  BY <1>2, <1>11a
<1>12. \A y \in MsgQ : \A i \in 1 .. len2(y) :
         /\ D[y][i] \in Blk /\ D[y][i] \notin d /\ D[y][i] \notin h \ {b}
         /\ \A j \in 1 .. k : B[j] # D[y][i]
  <2>1. \A i \in 1 .. n + 1 : i # at => D[x][i] \in Blk /\ D[x][i] \notin d /\ D[x][i] \notin h
    BY <1>2, <1>8, <1>11
  <2>2. b \in Blk /\ b \notin d /\ \A j \in 1 .. k : B[j] # b
    BY <1>1, <1>4
  <2>3. \A i \in 1 .. n + 1 : i # at => \A j \in 1 .. k : B[j] # D[x][i]
    BY <1>5, <1>8, <1>11
  <2> QED
    BY <1>2, <1>5, <1>7, <1>8, <1>11, <2>1, <2>2, <2>3
<1>13. ASSUME NEW y \in MsgQ, NEW z \in MsgQ, NEW i \in 1 .. len2(y), NEW j \in 1 .. len2(z),
              D[y][i] = D[z][j]
       PROVE  y = z /\ i = j
  <2>1. CASE y = x /\ z = x
    <3>1. i \in 1 .. n + 1 /\ j \in 1 .. n + 1 /\ D[x][i] = D[x][j]
      BY <1>8, <1>13, <2>1
    <3>2. i = at \/ j = at => i = j
      BY <1>11, <1>11b, <3>1
    <3>3. i # at /\ j # at => from[i] = from[j]
      BY <1>3, <1>11a, <3>1
    <3> QED
      BY <1>11, <2>1, <3>1, <3>2, <3>3
  <2>2. CASE y # x /\ z # x
    BY <1>3, <1>7, <1>13, <2>2
  <2>3. CASE y = x /\ z # x
    <3>1. i \in 1 .. n + 1 /\ j \in 1 .. len(z) /\ D[x][i] = C[z][j]
      BY <1>7, <1>8, <1>13, <2>3
    <3>2. i # at
      BY <1>2, <1>11, <3>1
    <3> QED
      BY <1>3, <1>11a, <2>3, <3>1, <3>2
  <2>4. CASE y # x /\ z = x
    <3>1. j \in 1 .. n + 1 /\ i \in 1 .. len(y) /\ D[x][j] = C[y][i]
      BY <1>7, <1>8, <1>13, <2>4
    <3>2. j # at
      BY <1>2, <1>11, <3>1
    <3> QED
      BY <1>3, <1>11a, <2>4, <3>1, <3>2
  <2> QED
    BY <2>1, <2>2, <2>3, <2>4
<1>14. ASSUME NEW a \in Blk
       PROVE  \/ a \in h \ {b} \/ a \in d
              \/ \E i \in 1 .. k : a = B[i]
              \/ \E y \in MsgQ : \E i \in 1 .. len2(y) : a = D[y][i]
  <2>1. CASE a = b
    BY <1>8, <1>11, <2>1
  <2>2. CASE \E i \in 1 .. n : a = C[x][i]
    <3>1. PICK i \in 1 .. n : a = C[x][i]
      BY <2>2
    <3>2. PICK j \in 1 .. n + 1 : j # at /\ from[j] = i
      BY <1>11
    <3>3. a = D[x][j]
      BY <1>11, <3>1, <3>2
    <3> QED
      BY <1>8, <3>3
  <2>3. CASE \E y \in MsgQ \ {x} : \E i \in 1 .. len(y) : a = C[y][i]
    BY <1>7, <2>3
  <2> QED
    BY <1>6, <1>8, <2>1, <2>2, <2>3
<1> QED
  BY <1>1, <1>4, <1>12, <1>13, <1>14 DEF SharedOut, D, len2

\* The first block of a queue goes to h (Receive).
LEMMA SharedGet ==
  ASSUME NEW wd, NEW ptr, NEW k, NEW B, NEW h, NEW d, NEW qs, NEW qs2, NEW C,
         NEW x \in MsgQ, NEW n \in Nat, n > 0,
         SharedOut(wd, ptr, k, B, h, d, qs, C), DOMAIN C = MsgQ,
         qs[x].NbrEntries = n, qs2[x].NbrEntries = n - 1, \A y \in MsgQ \ {x} : qs2[y] = qs[y]
  PROVE  SharedOut(wd, ptr, k, B, h \cup {C[x][1]}, d, qs2, Without(C, x, n))
<1> DEFINE D == Without(C, x, n)
           b == C[x][1]
           len(y)  == qs[y].NbrEntries
           len2(y) == qs2[y].NbrEntries
<1>1. /\ IsChain(wd, ptr, k, B, Blk)
      /\ h \in SUBSET Blk /\ d \in SUBSET Blk /\ h \cap d = {}
  BY DEF SharedOut
<1>2. \A y \in MsgQ : \A i \in 1 .. len(y) : C[y][i] \in Blk /\ C[y][i] \notin h /\ C[y][i] \notin d
  BY DEF SharedOut
<1>3. \A y, z \in MsgQ : \A i \in 1 .. len(y), j \in 1 .. len(z) : C[y][i] = C[z][j] => y = z /\ i = j
  BY DEF SharedOut
<1>4. \A i \in 1 .. k : B[i] \notin h /\ B[i] \notin d
  BY DEF SharedOut
<1>5. \A y \in MsgQ : \A i \in 1 .. k, j \in 1 .. len(y) : B[i] # C[y][j]
  BY DEF SharedOut
<1>6. \A a \in Blk : \/ a \in h \/ a \in d
                     \/ \E i \in 1 .. k : a = B[i]
                     \/ \E y \in MsgQ : \E i \in 1 .. len(y) : a = C[y][i]
  BY DEF SharedOut
<1>7. \A y \in MsgQ \ {x} : D[y] = C[y] /\ len2(y) = len(y)
  BY DEF Without
<1>8. len(x) = n /\ len2(x) = n - 1 /\ 1 \in 1 .. len(x)
  OBVIOUS
<1>9. \A i \in 1 .. n - 1 : D[x][i] = C[x][i + 1] /\ i + 1 \in 1 .. n /\ i + 1 # 1
  BY DEF Without, Rest
<1> HIDE DEF D, len, len2, b
<1>10. b \in Blk /\ b \notin h /\ b \notin d /\ \A i \in 1 .. k : B[i] # b
  BY <1>2, <1>5, <1>8 DEF b
\* Every element of the new queues is an element of the old ones.
<1>11. \A y \in MsgQ : \A i \in 1 .. len2(y) : \E j \in 1 .. len(y) :
         D[y][i] = C[y][j] /\ (y = x => j = i + 1)
  BY <1>7, <1>8, <1>9
<1>12. \A y \in MsgQ : \A i \in 1 .. len2(y) :
         /\ D[y][i] \in Blk /\ D[y][i] \notin d /\ D[y][i] \notin h
         /\ \A j \in 1 .. k : B[j] # D[y][i]
  BY <1>2, <1>5, <1>11
<1>13. \A y \in MsgQ : \A i \in 1 .. len2(y) : D[y][i] # b
  <2>1. \A i \in 1 .. n - 1 : C[x][i + 1] # C[x][1]
    BY <1>3, <1>8, <1>9
  <2>2. \A y \in MsgQ \ {x} : \A i \in 1 .. len(y) : C[y][i] # C[x][1]
    BY <1>3, <1>8
  <2> QED
    BY <1>7, <1>8, <1>9, <2>1, <2>2 DEF b
<1>14. \A y, z \in MsgQ : \A i \in 1 .. len2(y), j \in 1 .. len2(z) : D[y][i] = D[z][j] => y = z /\ i = j
  <2>1. \A i, j \in 1 .. n - 1 : C[x][i + 1] = C[x][j + 1] => i = j
    BY <1>3, <1>8, <1>9
  <2>2. \A z \in MsgQ \ {x} : \A i \in 1 .. n - 1, j \in 1 .. len(z) : C[x][i + 1] # C[z][j]
    BY <1>3, <1>8, <1>9
  <2> QED
    BY <1>3, <1>7, <1>8, <1>9, <2>1, <2>2
<1>15. ASSUME NEW a \in Blk
       PROVE  \/ a \in h \cup {b} \/ a \in d
              \/ \E i \in 1 .. k : a = B[i]
              \/ \E y \in MsgQ : \E i \in 1 .. len2(y) : a = D[y][i]
  <2>1. CASE \E i \in 1 .. n : a = C[x][i]
    <3>1. PICK i \in 1 .. n : a = C[x][i]
      BY <2>1
    <3>2. CASE i = 1
      BY <3>1, <3>2 DEF b
    <3>3. CASE i # 1
      <4>1. i - 1 \in 1 .. n - 1 /\ a = D[x][i - 1]
        BY <1>9, <3>1, <3>3
      <4> QED
        BY <1>8, <4>1
    <3> QED
      BY <3>2, <3>3
  <2>2. CASE \E y \in MsgQ \ {x} : \E i \in 1 .. len(y) : a = C[y][i]
    BY <1>7, <2>2
  <2> QED
    BY <1>6, <1>8, <2>1, <2>2
<1> QED
  BY <1>1, <1>4, <1>10, <1>12, <1>13, <1>14, <1>15 DEF SharedOut, D, len2, b

\* The blocks of a flushed queue are dropped (Flush).
LEMMA SharedFlush ==
  ASSUME NEW wd, NEW ptr, NEW k, NEW B, NEW h, NEW d, NEW qs, NEW qs2, NEW C,
         NEW x \in MsgQ,
         SharedOut(wd, ptr, k, B, h, d, qs, C), DOMAIN C = MsgQ,
         qs2[x].NbrEntries = 0, \A y \in MsgQ \ {x} : qs2[y] = qs[y]
  PROVE  SharedOut(wd, ptr, k, B, h, d \cup {C[x][i] : i \in 1 .. qs[x].NbrEntries}, qs2, Emptied(C, x))
<1> DEFINE D == Emptied(C, x)
           len(y)  == qs[y].NbrEntries
           len2(y) == qs2[y].NbrEntries
           g == {C[x][i] : i \in 1 .. len(x)}
<1>1. /\ IsChain(wd, ptr, k, B, Blk)
      /\ h \in SUBSET Blk /\ d \in SUBSET Blk /\ h \cap d = {}
  BY DEF SharedOut
<1>2. \A y \in MsgQ : \A i \in 1 .. len(y) : C[y][i] \in Blk /\ C[y][i] \notin h /\ C[y][i] \notin d
  BY DEF SharedOut
<1>3. \A y, z \in MsgQ : \A i \in 1 .. len(y), j \in 1 .. len(z) : C[y][i] = C[z][j] => y = z /\ i = j
  BY DEF SharedOut
<1>4. \A i \in 1 .. k : B[i] \notin h /\ B[i] \notin d
  BY DEF SharedOut
<1>5. \A y \in MsgQ : \A i \in 1 .. k, j \in 1 .. len(y) : B[i] # C[y][j]
  BY DEF SharedOut
<1>6. \A a \in Blk : \/ a \in h \/ a \in d
                     \/ \E i \in 1 .. k : a = B[i]
                     \/ \E y \in MsgQ : \E i \in 1 .. len(y) : a = C[y][i]
  BY DEF SharedOut
<1>7. \A y \in MsgQ \ {x} : D[y] = C[y] /\ len2(y) = len(y)
  BY DEF Emptied
<1>8. 1 .. len2(x) = {}
  OBVIOUS
<1>9. \A a : a \in g <=> \E i \in 1 .. len(x) : a = C[x][i]
  OBVIOUS
<1> HIDE DEF D, len, len2, g
<1>10. /\ g \in SUBSET Blk /\ g \cap h = {}
       /\ \A i \in 1 .. k : B[i] \notin g
       /\ \A y \in MsgQ \ {x} : \A i \in 1 .. len(y) : C[y][i] \notin g
  BY <1>2, <1>3, <1>5, <1>9
<1>12. \A y \in MsgQ : \A i \in 1 .. len2(y) :
         /\ D[y][i] \in Blk /\ D[y][i] \notin d \cup g /\ D[y][i] \notin h
         /\ \A j \in 1 .. k : B[j] # D[y][i]
  BY <1>2, <1>5, <1>7, <1>8, <1>10
<1>14. \A y, z \in MsgQ : \A i \in 1 .. len2(y), j \in 1 .. len2(z) : D[y][i] = D[z][j] => y = z /\ i = j
  BY <1>3, <1>7, <1>8
<1>15. \A a \in Blk : \/ a \in h \/ a \in d \cup g
                      \/ \E i \in 1 .. k : a = B[i]
                      \/ \E y \in MsgQ : \E i \in 1 .. len2(y) : a = D[y][i]
  BY <1>6, <1>7, <1>9
<1>16. /\ d \cup g \in SUBSET Blk /\ h \cap (d \cup g) = {}
       /\ \A i \in 1 .. k : B[i] \notin h /\ B[i] \notin d \cup g
  BY <1>1, <1>4, <1>10
<1>17. SharedOut(wd, ptr, k, B, h, d \cup g, qs2, D)
  BY <1>1, <1>12, <1>14, <1>15, <1>16 DEF SharedOut, len2
<1> QED
  BY <1>17 DEF D, g, len

\* The first free block goes to h (Allocate).
LEMMA SharedTake ==
  ASSUME NEW wd, NEW ptr, NEW k \in Nat, k > 0, NEW B, NEW h, NEW d, NEW qs, NEW C,
         SharedOut(wd, ptr, k, B, h, d, qs, C)
  PROVE  SharedOut(wd, wd[ptr], k - 1, Rest(B, k), h \cup {ptr}, d, qs, C)
<1> DEFINE len(y) == qs[y].NbrEntries
           E == Rest(B, k)
<1>1. /\ IsChain(wd, ptr, k, B, Blk)
      /\ h \in SUBSET Blk /\ d \in SUBSET Blk /\ h \cap d = {}
  BY DEF SharedOut
<1>2. \A y \in MsgQ : \A i \in 1 .. len(y) : C[y][i] \in Blk /\ C[y][i] \notin h /\ C[y][i] \notin d
  BY DEF SharedOut
<1>3. \A y, z \in MsgQ : \A i \in 1 .. len(y), j \in 1 .. len(z) : C[y][i] = C[z][j] => y = z /\ i = j
  BY DEF SharedOut
<1>4. \A i \in 1 .. k : B[i] \notin h /\ B[i] \notin d
  BY DEF SharedOut
<1>5. \A y \in MsgQ : \A i \in 1 .. k, j \in 1 .. len(y) : B[i] # C[y][j]
  BY DEF SharedOut
<1>6. \A a \in Blk : \/ a \in h \/ a \in d
                     \/ \E i \in 1 .. k : a = B[i]
                     \/ \E y \in MsgQ : \E i \in 1 .. len(y) : a = C[y][i]
  BY DEF SharedOut
<1>7. IsChain(wd, wd[ptr], k - 1, E, Blk)
  BY <1>1, RestChain
<1>8. /\ ptr = B[1] /\ 1 \in 1 .. k /\ ptr \in Blk
      /\ \A i, j \in 1 .. k : B[i] = B[j] => i = j
  BY <1>1 DEF IsChain
<1>9. \A i \in 1 .. k - 1 : E[i] = B[i + 1] /\ i + 1 \in 1 .. k /\ i + 1 # 1
  BY DEF Rest
<1> HIDE DEF E, len
<1>10. \A i \in 1 .. k - 1 : E[i] \notin h \cup {ptr} /\ E[i] \notin d
  BY <1>4, <1>8, <1>9
<1>11. \A y \in MsgQ : \A i \in 1 .. k - 1, j \in 1 .. len(y) : E[i] # C[y][j]
  BY <1>5, <1>9
<1>12. \A y \in MsgQ : \A i \in 1 .. len(y) :
         C[y][i] \in Blk /\ C[y][i] \notin h \cup {ptr} /\ C[y][i] \notin d
  BY <1>2, <1>5, <1>8
<1>13. ASSUME NEW a \in Blk
       PROVE  \/ a \in h \cup {ptr} \/ a \in d
              \/ \E i \in 1 .. k - 1 : a = E[i]
              \/ \E y \in MsgQ : \E i \in 1 .. len(y) : a = C[y][i]
  <2>1. CASE \E i \in 1 .. k : a = B[i]
    <3>1. PICK i \in 1 .. k : a = B[i]
      BY <2>1
    <3>2. CASE i # 1
      <4>1. i - 1 \in 1 .. k - 1 /\ a = E[i - 1]
        BY <1>9, <3>1, <3>2
      <4> QED
        BY <4>1
    <3> QED
      BY <1>8, <3>1, <3>2
  <2> QED
    BY <1>6, <2>1
<1>14. h \cup {ptr} \in SUBSET Blk /\ (h \cup {ptr}) \cap d = {}
  BY <1>1, <1>4, <1>8
<1> QED
  BY <1>1, <1>3, <1>7, <1>10, <1>11, <1>12, <1>13, <1>14 DEF SharedOut, E, len

\* A block of h goes to the head of the free list (Release).
LEMMA SharedGive ==
  ASSUME NEW wd \in [Blk -> {0} \cup Blk], NEW ptr, NEW k \in Nat, NEW B, NEW h, NEW d, NEW qs, NEW C,
         NEW b \in h, SharedOut(wd, ptr, k, B, h, d, qs, C)
  PROVE  SharedOut([wd EXCEPT ![b] = ptr], b, k + 1, Front(b, B, k), h \ {b}, d, qs, C)
<1> DEFINE len(y) == qs[y].NbrEntries
           E == Front(b, B, k)
           wd2 == [wd EXCEPT ![b] = ptr]
<1>1. /\ IsChain(wd, ptr, k, B, Blk)
      /\ h \in SUBSET Blk /\ d \in SUBSET Blk /\ h \cap d = {}
  BY DEF SharedOut
<1>2. \A y \in MsgQ : \A i \in 1 .. len(y) : C[y][i] \in Blk /\ C[y][i] \notin h /\ C[y][i] \notin d
  BY DEF SharedOut
<1>3. \A y, z \in MsgQ : \A i \in 1 .. len(y), j \in 1 .. len(z) : C[y][i] = C[z][j] => y = z /\ i = j
  BY DEF SharedOut
<1>4. \A i \in 1 .. k : B[i] \notin h /\ B[i] \notin d
  BY DEF SharedOut
<1>5. \A y \in MsgQ : \A i \in 1 .. k, j \in 1 .. len(y) : B[i] # C[y][j]
  BY DEF SharedOut
<1>6. \A a \in Blk : \/ a \in h \/ a \in d
                     \/ \E i \in 1 .. k : a = B[i]
                     \/ \E y \in MsgQ : \E i \in 1 .. len(y) : a = C[y][i]
  BY DEF SharedOut
<1>7. b \in Blk /\ b \notin d /\ \A i \in 1 .. k : B[i] # b /\ B[i] \in Blk
  BY <1>1, <1>4 DEF IsChain
<1>8. IsChain(wd2, b, k + 1, E, Blk)
  <2>1. wd2[b] = ptr /\ \A i \in 1 .. k : B[i] # b /\ wd2[B[i]] = wd[B[i]]
    BY <1>7
  <2> HIDE DEF wd2
  <2> QED
    BY <1>1, <1>7, <2>1, FrontChain
<1>9. /\ \A i \in 1 .. k + 1 : E[i] = b \/ (i - 1 \in 1 .. k /\ E[i] = B[i - 1])
      /\ 1 \in 1 .. k + 1 /\ E[1] = b
      /\ \A i \in 1 .. k : i + 1 \in 1 .. k + 1 /\ E[i + 1] = B[i]
  BY DEF Front
<1> HIDE DEF E, len, wd2
<1>10. \A i \in 1 .. k + 1 : E[i] \notin h \ {b} /\ E[i] \notin d
  BY <1>4, <1>7, <1>9
<1>11. \A y \in MsgQ : \A i \in 1 .. k + 1, j \in 1 .. len(y) : E[i] # C[y][j]
  BY <1>2, <1>5, <1>9
<1>12. \A y \in MsgQ : \A i \in 1 .. len(y) :
         C[y][i] \in Blk /\ C[y][i] \notin h \ {b} /\ C[y][i] \notin d
  BY <1>2
<1>13. \A a \in Blk : \/ a \in h \ {b} \/ a \in d
                      \/ \E i \in 1 .. k + 1 : a = E[i]
                      \/ \E y \in MsgQ : \E i \in 1 .. len(y) : a = C[y][i]
  BY <1>6, <1>9
<1>14. h \ {b} \in SUBSET Blk /\ (h \ {b}) \cap d = {}
  BY <1>1
<1> QED
  BY <1>1, <1>3, <1>8, <1>10, <1>11, <1>12, <1>13, <1>14 DEF SharedOut, E, len, wd2

\* What the application writes into a block it holds is no link of the free list (Write).
LEMMA SharedWrite ==
  ASSUME NEW wd \in [Blk -> {0} \cup Blk], NEW ptr, NEW k \in Nat, NEW B, NEW h, NEW d, NEW qs, NEW C,
         NEW b \in h, NEW w, SharedOut(wd, ptr, k, B, h, d, qs, C)
  PROVE  SharedOut([wd EXCEPT ![b] = w], ptr, k, B, h, d, qs, C)
<1> DEFINE wd2 == [wd EXCEPT ![b] = w]
<1>1. IsChain(wd, ptr, k, B, Blk) /\ \A i \in 1 .. k : B[i] \notin h
  BY DEF SharedOut
<1>2. \A i \in 1 .. k : B[i] # b /\ B[i] \in Blk
  BY <1>1 DEF IsChain
<1>3. \A i \in 1 .. k : wd2[B[i]] = wd[B[i]]
  BY <1>2
<1> HIDE DEF wd2
<1>4. IsChain(wd2, ptr, k, B, Blk)
  BY <1>1, <1>3, KeepChain
<1>5. SharedOut(wd2, ptr, k, B, h, d, qs, C)
  BY <1>4 DEF SharedOut
<1> QED
  BY <1>5 DEF wd2
-----------------------------------------------------------------------------
\* The free list and the queues of a pool have the lengths their counts say.
LEMMA ListLengths ==
  ASSUME NEW F, NEW L, FieldsOK(OSMsgPool, NextPtr, q), LinkedAt(OSMsgPool, NextPtr, q, F, L)
  PROVE  /\ OSMsgPool.NbrFree \in Nat /\ F \in [1 .. OSMsgPool.NbrFree -> OS_MSG]
         /\ \A x \in MsgQ : q[x].NbrEntries \in Nat /\ L[x] \in [1 .. q[x].NbrEntries -> OS_MSG]
<1>1. OSMsgPool.NbrFree \in Nat /\ \A x \in MsgQ : q[x].NbrEntries \in Nat
  BY DEF FieldsOK
<1>2. /\ IsChain(NextPtr, OSMsgPool.NextPtr, OSMsgPool.NbrFree, F, OS_MSG)
      /\ \A x \in MsgQ : IsChain(NextPtr, q[x].OutPtr, q[x].NbrEntries, L[x], OS_MSG)
  BY DEF LinkedAt
<1> QED
  BY <1>1, <1>2 DEF IsChain

\* Adding to, taking from and emptying one of the lists.
LEMMA ListsStay ==
  ASSUME NEW L \in [MsgQ -> Lists], NEW x \in MsgQ, NEW n \in Nat, NEW m \in OS_MSG,
         NEW lifo \in BOOLEAN, L[x] \in [1 .. n -> OS_MSG]
  PROVE  /\ With(L, x, m, n, lifo) \in [MsgQ -> Lists]
         /\ Without(L, x, n) \in [MsgQ -> Lists]
         /\ Emptied(L, x) \in [MsgQ -> Lists]
<1>1. /\ Rest(L[x], n) \in Lists /\ Front(m, L[x], n) \in Lists /\ Back(L[x], n, m) \in Lists
      /\ [i \in 1 .. 0 |-> Null] \in Lists
  BY ListsOf
<1>2. \A l \in Lists : [L EXCEPT ![x] = l] \in [MsgQ -> Lists]
  OBVIOUS
<1> HIDE DEF Lists
<1>3. With(L, x, m, n, lifo) \in [MsgQ -> Lists]
  <2>1. CASE lifo
    BY <1>1, <1>2, <2>1 DEF With
  <2>2. CASE ~lifo
    BY <1>1, <1>2, <2>2 DEF With
  <2> QED
    BY <2>1, <2>2
<1> QED
  BY <1>1, <1>2, <1>3 DEF Without, Emptied

\* Send: the message of the free list carries the block to the queue.
LEMMA SendStep ==
  ASSUME PoolInv, NEW x \in MsgQ, NEW b \in Blk, NEW lifo \in BOOLEAN, Send(x, b, lifo)
  PROVE  /\ PoolInv'
         /\ q[x].NbrEntries < NbrEntriesSize[x]
         /\ Contents' = With(Contents, x, b, q[x].NbrEntries, lifo)
<1>1. /\ FieldsOK(OSMsgPool, NextPtr, q) /\ MsgPtr \in [OS_MSG -> Nat]
      /\ MemOK(word, FreeListPtr, NbrFree)
  BY DEF PoolInv
<1>0. PICK F \in Lists, L \in [MsgQ -> Lists] :
        /\ LinkedAt(OSMsgPool, NextPtr, q, F, L)
        /\ \E B : SharedOut(word, FreeListPtr, NbrFree, B, held, dropped, q, Carried(MsgPtr, q, L))
  BY DEF PoolInv
<1>2. PICK B :
        /\ LinkedAt(OSMsgPool, NextPtr, q, F, L)
        /\ SharedOut(word, FreeListPtr, NbrFree, B, held, dropped, q, Carried(MsgPtr, q, L))
  BY <1>0
<1> DEFINE n == q[x].NbrEntries
           C == Carried(MsgPtr, q, L)
           G == Rest(F, OSMsgPool.NbrFree)
           M == With(L, x, F[1], n, lifo)
<1>3. OS_MsgQPut(x, b, lifo) /\ b \in held
  BY DEF Send
<1>4. /\ F[1] \in OS_MSG
      /\ FieldsOK(OSMsgPool', NextPtr', q')
      /\ MsgPtr' = [MsgPtr EXCEPT ![F[1]] = b]
      /\ n < NbrEntriesSize[x]
      /\ q'[x].NbrEntries = n + 1
      /\ \A y \in MsgQ \ {x} : q'[y] = q[y]
      /\ LinkedAt(OSMsgPool', NextPtr', q', G, M)
  BY <1>1, <1>2, <1>3, PutLinked
<1>5. /\ n \in Nat /\ L[x] \in [1 .. n -> OS_MSG]
      /\ OSMsgPool.NbrFree \in Nat /\ F \in [1 .. OSMsgPool.NbrFree -> OS_MSG]
  BY <1>1, <1>2, ListLengths
<1>6. G \in Lists /\ M \in [MsgQ -> Lists]
  BY <1>4, <1>5, ListsOf, ListsStay
<1>7. Carried(MsgPtr', q', M) = With(C, x, b, n, lifo)
  <2>1. DOMAIN MsgPtr = OS_MSG
    BY <1>1
  <2> QED
    BY <1>1, <1>2, <1>3, <2>1, PutCarries
<1>8. Contents = C
  BY <1>1, <1>2, ContentsAre DEF Contents, QueuedMsgs, ContentsAt
<1> HIDE DEF G, M
<1>9. Contents' = Carried(MsgPtr', q', M)
  <2>1. Contents' = ContentsAt(NextPtr', q', MsgPtr')
    BY DEF Contents, QueuedMsgs, ContentsAt
  <2>2. FieldsOK(OSMsgPool', NextPtr', q') /\ LinkedAt(OSMsgPool', NextPtr', q', G, M)
    BY <1>4
  <2> QED
    BY <1>6, <2>1, <2>2, ContentsAre
<1>10. SharedOut(word', FreeListPtr', NbrFree', B, held', dropped', q', Carried(MsgPtr', q', M))
  <2>1. UNCHANGED <<word, FreeListPtr, NbrFree, dropped>> /\ held' = held \ {b}
    BY DEF Send, memvars
  <2>2. DOMAIN C = MsgQ
    BY DEF Carried
  <2> HIDE DEF C, n
  <2>3. SharedOut(word, FreeListPtr, NbrFree, B, held \ {b}, dropped, q', With(C, x, b, n, lifo))
    BY <1>2, <1>3, <1>4, <1>5, <2>2, SharedPut DEF C, n
  <2> QED
    BY <1>7, <2>1, <2>3
<1>11. MsgPtr' \in [OS_MSG -> Nat] /\ MemOK(word', FreeListPtr', NbrFree')
  <2>1. b \in Nat
    BY MemAssumption DEF Blk
  <2> QED
    BY <1>1, <1>4, <2>1 DEF Send, memvars, MemOK
<1>12. PoolInv'
  BY <1>4, <1>6, <1>10, <1>11 DEF PoolInv
<1> QED
  BY <1>4, <1>7, <1>8, <1>9, <1>12

\* Receive: the block of the oldest message goes to the application.
LEMMA ReceiveStep ==
  ASSUME PoolInv, NEW x \in MsgQ, Receive(x)
  PROVE  /\ PoolInv'
         /\ q[x].NbrEntries > 0
         /\ Contents' = Without(Contents, x, q[x].NbrEntries)
<1>1. /\ FieldsOK(OSMsgPool, NextPtr, q) /\ MsgPtr \in [OS_MSG -> Nat]
      /\ MemOK(word, FreeListPtr, NbrFree)
  BY DEF PoolInv
<1>0. PICK F \in Lists, L \in [MsgQ -> Lists] :
        /\ LinkedAt(OSMsgPool, NextPtr, q, F, L)
        /\ \E B : SharedOut(word, FreeListPtr, NbrFree, B, held, dropped, q, Carried(MsgPtr, q, L))
  BY DEF PoolInv
<1>2. PICK B :
        /\ LinkedAt(OSMsgPool, NextPtr, q, F, L)
        /\ SharedOut(word, FreeListPtr, NbrFree, B, held, dropped, q, Carried(MsgPtr, q, L))
  BY <1>0
<1> DEFINE n == q[x].NbrEntries
           C == Carried(MsgPtr, q, L)
           G == Front(L[x][1], F, OSMsgPool.NbrFree)
           M == Without(L, x, n)
<1>3. OS_MsgQGet(x)
  BY DEF Receive
<1>4. /\ n > 0 /\ L[x][1] \in OS_MSG /\ L[x][1] = q[x].OutPtr
      /\ FieldsOK(OSMsgPool', NextPtr', q')
      /\ MsgPtr' = MsgPtr
      /\ q'[x].NbrEntries = n - 1
      /\ \A y \in MsgQ \ {x} : q'[y] = q[y]
      /\ LinkedAt(OSMsgPool', NextPtr', q', G, M)
  BY <1>1, <1>2, <1>3, GetLinked
<1>5. /\ n \in Nat /\ L[x] \in [1 .. n -> OS_MSG]
      /\ OSMsgPool.NbrFree \in Nat /\ F \in [1 .. OSMsgPool.NbrFree -> OS_MSG]
  BY <1>1, <1>2, ListLengths
<1>6. G \in Lists /\ M \in [MsgQ -> Lists]
  BY <1>4, <1>5, ListsOf, ListsStay
<1>7. Carried(MsgPtr', q', M) = Without(C, x, n)
  BY <1>1, <1>2, <1>3, GetCarries
<1>8. Contents = C
  BY <1>1, <1>2, ContentsAre DEF Contents, QueuedMsgs, ContentsAt
<1> HIDE DEF G, M
<1>9. Contents' = Carried(MsgPtr', q', M)
  <2>1. Contents' = ContentsAt(NextPtr', q', MsgPtr')
    BY DEF Contents, QueuedMsgs, ContentsAt
  <2>2. FieldsOK(OSMsgPool', NextPtr', q') /\ LinkedAt(OSMsgPool', NextPtr', q', G, M)
    BY <1>4
  <2> QED
    BY <1>6, <2>1, <2>2, ContentsAre
<1>10. SharedOut(word', FreeListPtr', NbrFree', B, held', dropped', q', Carried(MsgPtr', q', M))
  <2>1. /\ UNCHANGED <<word, FreeListPtr, NbrFree, dropped>>
        /\ held' = held \cup {MsgPtr[q[x].OutPtr]}
    BY DEF Receive, memvars
  <2>2. DOMAIN C = MsgQ /\ C[x][1] = MsgPtr[L[x][1]]
    BY <1>4, <1>5 DEF Carried
  <2> HIDE DEF C, n
  <2>3. SharedOut(word, FreeListPtr, NbrFree, B, held \cup {C[x][1]}, dropped, q', Without(C, x, n))
    BY <1>2, <1>4, <1>5, <2>2, SharedGet DEF C, n
  <2> QED
    BY <1>4, <1>7, <2>1, <2>2, <2>3
<1>11. MsgPtr' \in [OS_MSG -> Nat] /\ MemOK(word', FreeListPtr', NbrFree')
  BY <1>1, <1>4 DEF Receive, memvars, MemOK
<1>12. PoolInv'
  BY <1>4, <1>6, <1>10, <1>11 DEF PoolInv
<1> QED
  BY <1>4, <1>7, <1>8, <1>9, <1>12

\* Flush: the blocks of the queue are dropped.
LEMMA FlushStep ==
  ASSUME PoolInv, NEW x \in MsgQ, Flush(x)
  PROVE  PoolInv' /\ Contents' = Emptied(Contents, x)
<1>1. /\ FieldsOK(OSMsgPool, NextPtr, q) /\ MsgPtr \in [OS_MSG -> Nat]
      /\ MemOK(word, FreeListPtr, NbrFree)
  BY DEF PoolInv
<1>0. PICK F \in Lists, L \in [MsgQ -> Lists] :
        /\ LinkedAt(OSMsgPool, NextPtr, q, F, L)
        /\ \E B : SharedOut(word, FreeListPtr, NbrFree, B, held, dropped, q, Carried(MsgPtr, q, L))
  BY DEF PoolInv
<1>2. PICK B :
        /\ LinkedAt(OSMsgPool, NextPtr, q, F, L)
        /\ SharedOut(word, FreeListPtr, NbrFree, B, held, dropped, q, Carried(MsgPtr, q, L))
  BY <1>0
<1> DEFINE n == q[x].NbrEntries
           C == Carried(MsgPtr, q, L)
           G == Join(L[x], n, F, OSMsgPool.NbrFree)
           M == Emptied(L, x)
<1>3. OS_MsgQFreeAll(x)
  BY DEF Flush
<1>4. /\ FieldsOK(OSMsgPool', NextPtr', q')
      /\ MsgPtr' = MsgPtr
      /\ q'[x].NbrEntries = 0
      /\ \A y \in MsgQ \ {x} : q'[y] = q[y]
      /\ LinkedAt(OSMsgPool', NextPtr', q', G, M)
  BY <1>1, <1>2, <1>3, FreeAllLinked
<1>5. /\ n \in Nat /\ L[x] \in [1 .. n -> OS_MSG] /\ 1 \in OS_MSG
      /\ OSMsgPool.NbrFree \in Nat /\ F \in [1 .. OSMsgPool.NbrFree -> OS_MSG]
  <2>1. 1 \in OS_MSG
    BY MsgAssumption DEF OS_MSG
  <2> QED
    BY <1>1, <1>2, <2>1, ListLengths
<1>6. G \in Lists /\ M \in [MsgQ -> Lists]
  <2>1. G \in Lists
    BY <1>5, ListsOf
  <2>2. M \in [MsgQ -> Lists]
    BY <1>5, ListsStay
  <2> QED
    BY <2>1, <2>2
<1>7. Carried(MsgPtr', q', M) = Emptied(C, x)
  BY <1>1, <1>2, <1>3, FreeAllCarries
<1>8. Contents = C
  BY <1>1, <1>2, ContentsAre DEF Contents, QueuedMsgs, ContentsAt
<1> HIDE DEF G, M
<1>9. Contents' = Carried(MsgPtr', q', M)
  <2>1. Contents' = ContentsAt(NextPtr', q', MsgPtr')
    BY DEF Contents, QueuedMsgs, ContentsAt
  <2>2. FieldsOK(OSMsgPool', NextPtr', q') /\ LinkedAt(OSMsgPool', NextPtr', q', G, M)
    BY <1>4
  <2> QED
    BY <1>6, <2>1, <2>2, ContentsAre
<1>10. SharedOut(word', FreeListPtr', NbrFree', B, held', dropped', q', Carried(MsgPtr', q', M))
  <2>1. /\ UNCHANGED <<word, FreeListPtr, NbrFree, held>>
        /\ dropped' = dropped \cup Range(C[x])
    BY <1>8 DEF Flush, memvars
  <2>2. DOMAIN C = MsgQ /\ DOMAIN C[x] = 1 .. q[x].NbrEntries
    BY DEF Carried
  <2> HIDE DEF C
  <2>3. Range(C[x]) = {C[x][i] : i \in 1 .. q[x].NbrEntries}
    BY <2>2 DEF Range
  <2>4. SharedOut(word, FreeListPtr, NbrFree, B, held,
                  dropped \cup {C[x][i] : i \in 1 .. q[x].NbrEntries}, q', Emptied(C, x))
    BY <1>2, <1>4, <2>2, SharedFlush DEF C
  <2> QED
    BY <1>7, <2>1, <2>3, <2>4
<1>11. MsgPtr' \in [OS_MSG -> Nat] /\ MemOK(word', FreeListPtr', NbrFree')
  BY <1>1, <1>4 DEF Flush, memvars, MemOK
<1>12. PoolInv'
  BY <1>4, <1>6, <1>10, <1>11 DEF PoolInv
<1> QED
  BY <1>7, <1>8, <1>9, <1>12

\* The partition's steps leave the message pool alone: Allocate, Release and Write.
LEMMA MemStep ==
  ASSUME PoolInv, Allocate \/ (\E b \in Blk : Release(b)) \/ (\E b \in Blk, w \in Words : Write(b, w))
  PROVE  PoolInv' /\ Contents' = Contents
<1>1. /\ FieldsOK(OSMsgPool, NextPtr, q) /\ MsgPtr \in [OS_MSG -> Nat]
      /\ MemOK(word, FreeListPtr, NbrFree)
  BY DEF PoolInv
<1>0. PICK F \in Lists, L \in [MsgQ -> Lists] :
        /\ LinkedAt(OSMsgPool, NextPtr, q, F, L)
        /\ \E B : SharedOut(word, FreeListPtr, NbrFree, B, held, dropped, q, Carried(MsgPtr, q, L))
  BY DEF PoolInv
<1>2. PICK B :
        /\ LinkedAt(OSMsgPool, NextPtr, q, F, L)
        /\ SharedOut(word, FreeListPtr, NbrFree, B, held, dropped, q, Carried(MsgPtr, q, L))
  BY <1>0
<1> DEFINE C == Carried(MsgPtr, q, L)
<1>3. UNCHANGED msgvars /\ dropped' = dropped
  BY DEF Allocate, Release, Write
<1>4. UNCHANGED <<OSMsgPool, NextPtr, MsgPtr, q>>
  BY <1>3 DEF msgvars
<1>5. word \in [Blk -> {0} \cup Blk] /\ FreeListPtr \in {0} \cup Blk /\ NbrFree \in Nat
  BY <1>1 DEF MemOK
<1>6. held \in SUBSET Blk
  BY <1>2 DEF SharedOut
<1> HIDE DEF C
<1>7. \E E : /\ SharedOut(word', FreeListPtr', NbrFree', E, held', dropped, q, C)
             /\ MemOK(word', FreeListPtr', NbrFree')
  <2>0. SharedOut(word, FreeListPtr, NbrFree, B, held, dropped, q, C)
    BY <1>2 DEF C
  <2>1. CASE Allocate
    <3>1. /\ NbrFree > 0 /\ word' = word /\ FreeListPtr' = word[FreeListPtr]
          /\ NbrFree' = NbrFree - 1 /\ held' = held \cup {FreeListPtr}
      BY <2>1 DEF Allocate, OSMemGet, p_blk
    <3>2. SharedOut(word', FreeListPtr', NbrFree', Rest(B, NbrFree), held', dropped, q, C)
      BY <1>5, <2>0, <3>1, SharedTake
    <3>3. FreeListPtr \in Blk
      <4>1. IsChain(word, FreeListPtr, NbrFree, B, Blk)
        BY <2>0 DEF SharedOut
      <4> QED
        BY <1>5, <3>1, <4>1 DEF IsChain
    <3>4. MemOK(word', FreeListPtr', NbrFree')
      BY <1>5, <3>1, <3>3 DEF MemOK
    <3> QED
      BY <3>2, <3>4
  <2>2. ASSUME NEW b \in Blk, Release(b)
        PROVE  \E E : /\ SharedOut(word', FreeListPtr', NbrFree', E, held', dropped, q, C)
                      /\ MemOK(word', FreeListPtr', NbrFree')
    <3>1. /\ word' = [word EXCEPT ![b] = FreeListPtr] /\ FreeListPtr' = b
          /\ NbrFree' = NbrFree + 1 /\ held' = held \ {b} /\ b \in held
      BY <2>2 DEF Release, OSMemPut
    <3>2. SharedOut(word', FreeListPtr', NbrFree', Front(b, B, NbrFree), held', dropped, q, C)
      BY <1>5, <2>0, <3>1, SharedGive
    <3>3. MemOK(word', FreeListPtr', NbrFree')
      BY <1>5, <3>1 DEF MemOK
    <3> QED
      BY <3>2, <3>3
  <2>3. ASSUME NEW b \in Blk, NEW w \in Words, Write(b, w)
        PROVE  \E E : /\ SharedOut(word', FreeListPtr', NbrFree', E, held', dropped, q, C)
                      /\ MemOK(word', FreeListPtr', NbrFree')
    <3>1. /\ word' = [word EXCEPT ![b] = w] /\ FreeListPtr' = FreeListPtr
          /\ NbrFree' = NbrFree /\ held' = held /\ b \in held
      BY <2>3 DEF Write
    <3>2. SharedOut(word', FreeListPtr', NbrFree', B, held', dropped, q, C)
      BY <1>5, <2>0, <3>1, SharedWrite
    <3>3. MemOK(word', FreeListPtr', NbrFree')
      BY <1>5, <3>1, PoolsAssumption DEF MemOK
    <3> QED
      BY <3>2, <3>3
  <2> QED
    BY <2>1, <2>2, <2>3
<1>8. PICK E : /\ SharedOut(word', FreeListPtr', NbrFree', E, held', dropped, q, C)
               /\ MemOK(word', FreeListPtr', NbrFree')
  BY <1>7
<1>9. SharedOut(word', FreeListPtr', NbrFree', E, held', dropped', q', Carried(MsgPtr', q', L))
  BY <1>3, <1>4, <1>8 DEF C
<1>10. FieldsOK(OSMsgPool', NextPtr', q') /\ MsgPtr' \in [OS_MSG -> Nat]
  BY <1>1, <1>4
<1>11. LinkedAt(OSMsgPool', NextPtr', q', F, L)
  BY <1>2, <1>4
<1>12. PoolInv'
  BY <1>8, <1>9, <1>10, <1>11 DEF PoolInv
<1> QED
  BY <1>4, <1>12 DEF Contents, QueuedMsgs

\* Every step of the pools preserves the invariant.
LEMMA NextPool == PoolInv /\ [PoolsNext]_pvars => PoolInv'
<1> SUFFICES ASSUME PoolInv, [PoolsNext]_pvars
             PROVE  PoolInv'
  OBVIOUS
<1>1. CASE Allocate \/ (\E b \in Blk : Release(b)) \/ (\E b \in Blk, w \in Words : Write(b, w))
  BY <1>1, MemStep
<1>2. ASSUME NEW x \in MsgQ, NEW b \in Blk, NEW lifo \in BOOLEAN, Send(x, b, lifo)
      PROVE  PoolInv'
  BY <1>2, SendStep
<1>3. ASSUME NEW x \in MsgQ, Receive(x)
      PROVE  PoolInv'
  BY <1>3, ReceiveStep
<1>4. ASSUME NEW x \in MsgQ, Flush(x)
      PROVE  PoolInv'
  BY <1>4, FlushStep
<1>5. CASE UNCHANGED pvars
  BY <1>5 DEF pvars, msgvars, memvars, PoolInv
<1> QED
  BY <1>1, <1>2, <1>3, <1>4, <1>5 DEF PoolsNext
-----------------------------------------------------------------------------
\* The invariant of the pools says what PoolIntegrity does.
LEMMA PoolInvIntegrity == PoolInv => PoolIntegrity
<1> SUFFICES ASSUME PoolInv
             PROVE  PoolIntegrity
  OBVIOUS
<1>1. FieldsOK(OSMsgPool, NextPtr, q)
  BY DEF PoolInv
<1>2. PICK F \in Lists, L \in [MsgQ -> Lists] : LinkedAt(OSMsgPool, NextPtr, q, F, L)
  BY DEF PoolInv
<1> DEFINE k == OSMsgPool.NbrFree
           len(x) == q[x].NbrEntries
<1>3. FreeMsgs = F /\ QueuedMsgs = L
  BY <1>1, <1>2, LinkedAre DEF FreeMsgs, QueuedMsgs
<1>4. /\ F \in [1 .. k -> OS_MSG]
      /\ \A x \in MsgQ : L[x] \in [1 .. len(x) -> OS_MSG]
  BY <1>1, <1>2, ListLengths
<1>5. \A i, j \in 1 .. k : F[i] = F[j] => i = j
  <2>1. IsChain(NextPtr, OSMsgPool.NextPtr, k, F, OS_MSG)
    BY <1>2 DEF LinkedAt
  <2> QED
    BY <2>1 DEF IsChain
<1>6. \A x \in MsgQ : \A i, j \in 1 .. len(x) : L[x][i] = L[x][j] => i = j
  <2>1. \A x \in MsgQ : IsChain(NextPtr, q[x].OutPtr, len(x), L[x], OS_MSG)
    BY <1>2 DEF LinkedAt
  <2> QED
    BY <2>1 DEF IsChain
<1>7. \A x, y \in MsgQ : x # y => \A i \in 1 .. len(x), j \in 1 .. len(y) : L[x][i] # L[y][j]
  BY <1>2 DEF LinkedAt
<1>8. \A x \in MsgQ : \A i \in 1 .. k, j \in 1 .. len(x) : F[i] # L[x][j]
  BY <1>2 DEF LinkedAt
<1>9. \A m \in OS_MSG : \/ \E i \in 1 .. k : m = F[i]
                        \/ \E x \in MsgQ : \E i \in 1 .. len(x) : m = L[x][i]
  BY <1>2 DEF LinkedAt
<1>10. /\ OSMsgPool.NbrFree + OSMsgPool.NbrUsed = OSCfg_MsgPoolSize
       /\ \A x \in MsgQ : len(x) > 0 => q[x].InPtr = L[x][len(x)]
  BY <1>2 DEF LinkedAt
<1> DEFINE used == UNION {Range(L[x]) : x \in MsgQ}
<1>11. DOMAIN F = 1 .. k /\ \A x \in MsgQ : DOMAIN L[x] = 1 .. len(x)
  BY <1>4
<1> HIDE DEF k, len
<1>12. \A m : m \in Range(F) <=> \E i \in 1 .. k : m = F[i]
  BY <1>11 DEF Range
<1>13. \A x \in MsgQ : \A m : m \in Range(L[x]) <=> \E i \in 1 .. len(x) : m = L[x][i]
  BY <1>11 DEF Range
<1>14. \A m : m \in used <=> \E x \in MsgQ : \E i \in 1 .. len(x) : m = L[x][i]
  <2>1. \A m : m \in used <=> \E x \in MsgQ : m \in Range(L[x])
    OBVIOUS
  <2> HIDE DEF used
  <2> QED
    BY <1>13, <2>1
<1> HIDE DEF used
<1>15. \A s \in {F} \cup {L[x] : x \in MsgQ} : \A i, j \in DOMAIN s : s[i] = s[j] => i = j
  <2>1. \A i, j \in DOMAIN F : F[i] = F[j] => i = j
    BY <1>5, <1>11
  <2>2. \A x \in MsgQ : \A i, j \in DOMAIN L[x] : L[x][i] = L[x][j] => i = j
    BY <1>6, <1>11
  <2> QED
    BY <2>1, <2>2
<1>16. \A x, y \in MsgQ : x # y => Range(L[x]) \cap Range(L[y]) = {}
  BY <1>7, <1>13
<1>17. Range(F) \cap used = {}
  BY <1>8, <1>12, <1>14
<1>18. Range(F) \cup used = OS_MSG
  <2>1. \A m \in Range(F) \cup used : m \in OS_MSG
    <3>1. \A i \in 1 .. k : F[i] \in OS_MSG
      BY <1>4, <1>11
    <3>2. \A x \in MsgQ : \A i \in 1 .. len(x) : L[x][i] \in OS_MSG
      BY <1>4, <1>11
    <3> QED
      BY <1>12, <1>14, <3>1, <3>2
  <2>2. \A m \in OS_MSG : m \in Range(F) \cup used
    BY <1>9, <1>12, <1>14
  <2> QED
    BY <2>1, <2>2
<1> QED
  BY <1>3, <1>10, <1>15, <1>16, <1>17, <1>18 DEF PoolIntegrity, used, k, len

\* The invariant of the pools says what BlockConservation does.
LEMMA PoolInvConserves == PoolInv => BlockConservation
<1> SUFFICES ASSUME PoolInv
             PROVE  BlockConservation
  OBVIOUS
<1>1. FieldsOK(OSMsgPool, NextPtr, q) /\ MemOK(word, FreeListPtr, NbrFree)
  BY DEF PoolInv
<1>0. PICK F \in Lists, L \in [MsgQ -> Lists] :
        /\ LinkedAt(OSMsgPool, NextPtr, q, F, L)
        /\ \E B : SharedOut(word, FreeListPtr, NbrFree, B, held, dropped, q, Carried(MsgPtr, q, L))
  BY DEF PoolInv
<1>2. PICK B :
        /\ LinkedAt(OSMsgPool, NextPtr, q, F, L)
        /\ SharedOut(word, FreeListPtr, NbrFree, B, held, dropped, q, Carried(MsgPtr, q, L))
  BY <1>0
<1> DEFINE C == Carried(MsgPtr, q, L)
           k == NbrFree
           len(x) == q[x].NbrEntries
           queued == UNION {Range(C[x]) : x \in MsgQ}
<1>3. Contents = C
  BY <1>1, <1>2, ContentsAre DEF Contents, QueuedMsgs, ContentsAt
<1>4. FreeBlks = B
  <2>1. IsChain(word, FreeListPtr, NbrFree, B, Blk)
    BY <1>2 DEF SharedOut
  <2>2. Blk \in SUBSET (Nat \ {0}) /\ NbrFree \in Nat
    BY <1>1, MemAssumption DEF Blk, MemOK
  <2> QED
    BY <2>1, <2>2, ChainIs DEF FreeBlks
<1>5. /\ B \in [1 .. k -> Blk]
      /\ \A i, j \in 1 .. k : B[i] = B[j] => i = j
  <2>1. IsChain(word, FreeListPtr, NbrFree, B, Blk)
    BY <1>2 DEF SharedOut
  <2> QED
    BY <2>1 DEF IsChain
<1>6. \A x \in MsgQ : DOMAIN C[x] = 1 .. len(x)
  BY DEF Carried
<1> HIDE DEF C
<1>7. SharedOut(word, FreeListPtr, k, B, held, dropped, q, C)
  BY <1>2 DEF C
<1>8. held \in SUBSET Blk /\ dropped \in SUBSET Blk /\ held \cap dropped = {}
  BY <1>7 DEF SharedOut
<1>9. \A x \in MsgQ : \A i \in 1 .. len(x) : C[x][i] \in Blk /\ C[x][i] \notin held /\ C[x][i] \notin dropped
  BY <1>7 DEF SharedOut
<1>10. \A x, y \in MsgQ : \A i \in 1 .. len(x), j \in 1 .. len(y) : C[x][i] = C[y][j] => x = y /\ i = j
  BY <1>7 DEF SharedOut
<1>11. \A i \in 1 .. k : B[i] \notin held /\ B[i] \notin dropped
  BY <1>7 DEF SharedOut
<1>12. \A x \in MsgQ : \A i \in 1 .. k, j \in 1 .. len(x) : B[i] # C[x][j]
  BY <1>7 DEF SharedOut
<1>13. \A b \in Blk : \/ b \in held \/ b \in dropped
                      \/ \E i \in 1 .. k : b = B[i]
                      \/ \E x \in MsgQ : \E i \in 1 .. len(x) : b = C[x][i]
  BY <1>7 DEF SharedOut
<1> HIDE DEF k, len
<1>14. \A b : b \in Range(B) <=> \E i \in 1 .. k : b = B[i]
  BY <1>5 DEF Range
<1>15. ASSUME NEW b
       PROVE  b \in queued <=> \E x \in MsgQ : \E i \in 1 .. len(x) : b = C[x][i]
  <2>1. b \in queued <=> \E x \in MsgQ : b \in Range(C[x])
    OBVIOUS
  <2>2. \A x \in MsgQ : b \in Range(C[x]) <=> \E i \in 1 .. len(x) : b = C[x][i]
    BY <1>6 DEF Range
  <2> HIDE DEF queued
  <2> QED
    BY <2>1, <2>2
<1> HIDE DEF queued
<1>16. \A i, j \in DOMAIN B : B[i] = B[j] => i = j
  BY <1>5
<1>17. \A x, y \in MsgQ : \A i \in DOMAIN C[x], j \in DOMAIN C[y] : C[x][i] = C[y][j] => x = y /\ i = j
  <2> SUFFICES ASSUME NEW x \in MsgQ, NEW y \in MsgQ, NEW i \in DOMAIN C[x], NEW j \in DOMAIN C[y],
                      C[x][i] = C[y][j]
               PROVE  x = y /\ i = j
    OBVIOUS
  <2>1. i \in 1 .. len(x) /\ j \in 1 .. len(y)
    BY <1>6
  <2> QED
    BY <1>10, <2>1
<1>18. Range(B) \cap held = {} /\ Range(B) \cap queued = {}
  BY <1>11, <1>12, <1>14, <1>15
<1>19. held \cap queued = {} /\ dropped \cap (Range(B) \cup held \cup queued) = {}
  BY <1>8, <1>9, <1>11, <1>14, <1>15
<1>20. Range(B) \cup held \cup queued \cup dropped = Blk
  <2>1. \A b \in Range(B) \cup held \cup queued \cup dropped : b \in Blk
    BY <1>5, <1>8, <1>9, <1>14, <1>15
  <2>2. \A b \in Blk : b \in Range(B) \cup held \cup queued \cup dropped
    BY <1>13, <1>14, <1>15
  <2> QED
    BY <2>1, <2>2
<1> QED
  BY <1>3, <1>4, <1>16, <1>17, <1>18, <1>19, <1>20 DEF BlockConservation, queued

\* No put, get or flush of os_msg.c ever loses an OS_MSG or links it twice: for
\* every pool size and any number of queues of any length, each structure is in
\* the free list or in one queue, once.
THEOREM PoolsPoolIntegrity == PoolsSpec => []PoolIntegrity
<1>1. PoolsInit => PoolInv
  BY InitPool
<1>2. PoolInv /\ [PoolsNext]_pvars => PoolInv'
  BY NextPool
<1>3. PoolInv => PoolIntegrity
  BY PoolInvIntegrity
<1> QED
  BY <1>1, <1>2, <1>3, PTL DEF PoolsSpec

\* A memory block is in one hand at a time and never lost, whatever the application
\* writes into the word that links it while it is free (os_mem.c).
THEOREM PoolsBlockConservation == PoolsSpec => []BlockConservation
<1>1. PoolsInit => PoolInv
  BY InitPool
<1>2. PoolInv /\ [PoolsNext]_pvars => PoolInv'
  BY NextPool
<1>3. PoolInv => BlockConservation
  BY PoolInvConserves
<1> QED
  BY <1>1, <1>2, <1>3, PTL DEF PoolsSpec
-----------------------------------------------------------------------------
\* The list operations are those of sequences.
LEMMA SeqOps ==
  ASSUME NEW T, NEW s \in Seq(T), NEW m \in T
  PROVE  /\ Front(m, s, Len(s)) = <<m>> \o s
         /\ Back(s, Len(s), m) = Append(s, m)
         /\ Len(s) > 0 => Rest(s, Len(s)) = Tail(s)
         /\ Len(s) > 0 => s # <<>>
         /\ [i \in 1 .. 0 |-> Null] = <<>>
<1>1. Front(m, s, Len(s)) = <<m>> \o s
  BY DEF Front
<1>2. Back(s, Len(s), m) = Append(s, m)
  <2> DEFINE A == Append(s, m)
             n == Len(s)
  <2>1. /\ n \in Nat /\ s \in [1 .. n -> T]
        /\ A \in [1 .. n + 1 -> T]
        /\ \A i \in 1 .. n : A[i] = s[i]
        /\ A[n + 1] = m
    <3>1. A \in Seq(T) /\ Len(A) = n + 1 /\ (\A i \in 1 .. n : A[i] = s[i]) /\ A[n + 1] = m
      BY AppendProperties
    <3> HIDE DEF A
    <3> QED
      BY <3>1
  <2> HIDE DEF A, n
  <2>2. \A i \in 1 .. n + 1 : A[i] = IF i <= n THEN s[i] ELSE m
    BY <2>1
  <2>3. A = [i \in 1 .. n + 1 |-> IF i <= n THEN s[i] ELSE m]
    BY <2>1, <2>2
  <2> QED
    BY <2>3 DEF A, n, Back
<1>3. Len(s) > 0 => Rest(s, Len(s)) = Tail(s)
  <2> SUFFICES ASSUME Len(s) > 0
               PROVE  Rest(s, Len(s)) = Tail(s)
    OBVIOUS
  <2> DEFINE A == Tail(s)
             n == Len(s)
  <2>1. /\ s # <<>>
        /\ A \in [1 .. n - 1 -> T]
        /\ \A i \in 1 .. n - 1 : A[i] = s[i + 1]
    <3>1. s # <<>>
      OBVIOUS
    <3>2. A \in Seq(T) /\ Len(A) = n - 1 /\ (\A i \in 1 .. Len(A) : A[i] = s[i + 1])
      BY <3>1, HeadTailProperties
    <3> HIDE DEF A
    <3> QED
      BY <3>1, <3>2
  <2> HIDE DEF A, n
  <2>2. A = [i \in 1 .. n - 1 |-> s[i + 1]]
    BY <2>1
  <2> QED
    BY <2>2 DEF A, n, Rest
<1>4. [i \in 1 .. 0 |-> Null] = <<>>
  OBVIOUS
<1> QED
  BY <1>1, <1>2, <1>3, <1>4

\* The contents are sequences of numbers, as long as the counts say.
LEMMA ContentsSeq ==
  ASSUME PoolInv
  PROVE  /\ Contents \in [MsgQ -> Seq(Nat)]
         /\ \A x \in MsgQ : Len(Contents[x]) = q[x].NbrEntries
<1>1. FieldsOK(OSMsgPool, NextPtr, q) /\ MsgPtr \in [OS_MSG -> Nat]
  BY DEF PoolInv
<1>2. PICK F \in Lists, L \in [MsgQ -> Lists] : LinkedAt(OSMsgPool, NextPtr, q, F, L)
  BY DEF PoolInv
<1>3. Contents = Carried(MsgPtr, q, L)
  BY <1>1, <1>2, ContentsAre DEF Contents, QueuedMsgs, ContentsAt
<1>4. ASSUME NEW x \in MsgQ
      PROVE  Contents[x] \in Seq(Nat) /\ Len(Contents[x]) = q[x].NbrEntries
  <2> DEFINE n == q[x].NbrEntries
  <2>1. n \in Nat /\ L[x] \in [1 .. n -> OS_MSG]
    BY <1>1, <1>2, ListLengths
  <2>2. Contents[x] = [i \in 1 .. n |-> MsgPtr[L[x][i]]]
    BY <1>3 DEF Carried
  <2> HIDE DEF n
  <2>3. Contents[x] \in [1 .. n -> Nat]
    BY <1>1, <2>1, <2>2
  <2> QED
    BY <2>1, <2>3 DEF n
<1>5. Contents = [x \in MsgQ |-> Contents[x]]
  BY <1>3 DEF Carried
<1> QED
  BY <1>4, <1>5

\* Where the free list is not empty, the queues hold fewer messages than the pool has.
LEMMA UsedBelow ==
  ASSUME NEW F \in Lists, NEW L \in [MsgQ -> Lists],
         FieldsOK(OSMsgPool, NextPtr, q), LinkedAt(OSMsgPool, NextPtr, q, F, L), OSMsgPool.NbrFree > 0,
         NEW C, \A x \in MsgQ : DOMAIN C[x] = 1 .. q[x].NbrEntries
  PROVE  Cardinality(UNION {{x} \X DOMAIN C[x] : x \in MsgQ}) < OSCfg_MsgPoolSize
<1> DEFINE D == UNION {{x} \X DOMAIN C[x] : x \in MsgQ}
           T == OS_MSG \ {F[1]}
           f == [u \in D |-> L[u[1]][u[2]]]
<1>1. \A u \in D : \E x \in MsgQ : \E i \in 1 .. q[x].NbrEntries : u = <<x, i>>
  <2> SUFFICES ASSUME NEW u \in D
               PROVE  \E x \in MsgQ : \E i \in 1 .. q[x].NbrEntries : u = <<x, i>>
    OBVIOUS
  <2>1. PICK S \in {{x} \X DOMAIN C[x] : x \in MsgQ} : u \in S
    OBVIOUS
  <2>2. PICK x \in MsgQ : S = {x} \X DOMAIN C[x]
    BY <2>1
  <2>3. u \in {x} \X (1 .. q[x].NbrEntries)
    BY <2>1, <2>2
  <2> QED
    BY <2>3
<1> HIDE DEF D
<1>2. /\ OSMsgPool.NbrFree \in Nat /\ F[1] \in OS_MSG
      /\ \A x \in MsgQ : L[x] \in [1 .. q[x].NbrEntries -> OS_MSG]
  BY ListLengths
<1>3. \A x \in MsgQ : \A i \in 1 .. q[x].NbrEntries : L[x][i] \in T
  <2>1. \A x \in MsgQ : \A i \in 1 .. OSMsgPool.NbrFree, j \in 1 .. q[x].NbrEntries : F[i] # L[x][j]
    BY DEF LinkedAt
  <2>2. 1 \in 1 .. OSMsgPool.NbrFree
    BY <1>2
  <2>3. \A x \in MsgQ : \A i \in 1 .. q[x].NbrEntries : L[x][i] \in OS_MSG /\ L[x][i] # F[1]
    BY <1>2, <2>1, <2>2
  <2> QED
    BY <2>3
<1>4. \A x, y \in MsgQ : \A i \in 1 .. q[x].NbrEntries, j \in 1 .. q[y].NbrEntries :
        L[x][i] = L[y][j] => x = y /\ i = j
  <2>1. \A x, y \in MsgQ : x # y =>
          \A i \in 1 .. q[x].NbrEntries, j \in 1 .. q[y].NbrEntries : L[x][i] # L[y][j]
    BY DEF LinkedAt
  <2>2. \A x \in MsgQ : IsChain(NextPtr, q[x].OutPtr, q[x].NbrEntries, L[x], OS_MSG)
    BY DEF LinkedAt
  <2>3. \A x \in MsgQ : \A i, j \in 1 .. q[x].NbrEntries : L[x][i] = L[x][j] => i = j
    BY <2>2 DEF IsChain
  <2> QED
    BY <2>1, <2>3
<1>5. f \in Injection(D, T)
  <2>1. f \in [D -> T]
    BY <1>1, <1>3
  <2>2. \A u, v \in D : f[u] = f[v] => u = v
    <3> SUFFICES ASSUME NEW u \in D, NEW v \in D, f[u] = f[v]
                 PROVE  u = v
      OBVIOUS
    <3>1. PICK x \in MsgQ : \E i \in 1 .. q[x].NbrEntries : u = <<x, i>>
      BY <1>1
    <3>1a. PICK i \in 1 .. q[x].NbrEntries : u = <<x, i>>
      BY <3>1
    <3>2. PICK y \in MsgQ : \E j \in 1 .. q[y].NbrEntries : v = <<y, j>>
      BY <1>1
    <3>2a. PICK j \in 1 .. q[y].NbrEntries : v = <<y, j>>
      BY <3>2
    <3>3. L[x][i] = L[y][j]
      BY <3>1a, <3>2a
    <3> QED
      BY <1>4, <3>1a, <3>2a, <3>3
  <2> QED
    BY <2>1, <2>2 DEF Injection, IsInjective
<1>6. IsFiniteSet(OS_MSG) /\ Cardinality(OS_MSG) = OSCfg_MsgPoolSize /\ OSCfg_MsgPoolSize \in Nat
  <2>1. OSCfg_MsgPoolSize \in Nat \ {0} /\ OS_MSG = 1 .. OSCfg_MsgPoolSize
    BY MsgAssumption DEF OS_MSG
  <2>2. IsFiniteSet(1 .. OSCfg_MsgPoolSize) /\ Cardinality(1 .. OSCfg_MsgPoolSize) = OSCfg_MsgPoolSize
    BY <2>1, FS_Interval
  <2> QED
    BY <2>1, <2>2
<1>7. IsFiniteSet(T) /\ Cardinality(T) = OSCfg_MsgPoolSize - 1
  BY <1>2, <1>6, FS_RemoveElement
<1> HIDE DEF f, T
<1>8. IsFiniteSet(D) /\ Cardinality(D) <= Cardinality(T)
  BY <1>5, <1>7, FS_Injection
<1>9. Cardinality(D) \in Nat
  BY <1>8, FS_CardinalityType
<1> QED
  BY <1>6, <1>7, <1>8, <1>9 DEF D

\* Each step of the linked lists is one of the queues of MsgQueues.
LEMMA QueuesStep == PoolInv /\ [PoolsNext]_pvars => [Queues!Next]_Contents
<1> SUFFICES ASSUME PoolInv, [PoolsNext]_pvars
             PROVE  [Queues!Next]_Contents
  OBVIOUS
<1>1. /\ Contents \in [MsgQ -> Seq(Nat)]
      /\ \A x \in MsgQ : Len(Contents[x]) = q[x].NbrEntries
  BY ContentsSeq
<1>2. CASE Allocate \/ (\E b \in Blk : Release(b)) \/ (\E b \in Blk, w \in Words : Write(b, w))
  BY <1>2, MemStep
<1>3. ASSUME NEW x \in MsgQ, NEW b \in Blk, NEW lifo \in BOOLEAN, Send(x, b, lifo)
      PROVE  Queues!Next
  <2>1. /\ q[x].NbrEntries < NbrEntriesSize[x]
        /\ Contents' = With(Contents, x, b, q[x].NbrEntries, lifo)
    BY <1>3, SendStep
  <2>2. b \in Msg /\ b \in Nat
    BY PoolsAssumption, MemAssumption DEF Blk
  <2>3. Contents' = [Contents EXCEPT ![x] = IF lifo THEN <<b>> \o Contents[x] ELSE Append(Contents[x], b)]
    <3>0. Contents[x] \in Seq(Nat) /\ Len(Contents[x]) = q[x].NbrEntries
      BY <1>1
    <3>1. Front(b, Contents[x], Len(Contents[x])) = <<b>> \o Contents[x]
      BY <2>2, <3>0, SeqOps
    <3>2. Back(Contents[x], Len(Contents[x]), b) = Append(Contents[x], b)
      BY <2>2, <3>0, SeqOps
    <3> QED
      BY <2>1, <3>0, <3>1, <3>2 DEF With
  <2>4. Queues!Used < OSCfg_MsgPoolSize
    <3>1. PICK F \in Lists, L \in [MsgQ -> Lists] : LinkedAt(OSMsgPool, NextPtr, q, F, L)
      BY DEF PoolInv
    <3>2. FieldsOK(OSMsgPool, NextPtr, q) /\ OSMsgPool.NbrFree > 0
      BY <1>3 DEF PoolInv, Send, OS_MsgQPut
    <3>3. \A y \in MsgQ : DOMAIN Contents[y] = 1 .. q[y].NbrEntries
      BY <1>1
    <3>4. Cardinality(UNION {{y} \X DOMAIN Contents[y] : y \in MsgQ}) < OSCfg_MsgPoolSize
      BY <3>1, <3>2, <3>3, UsedBelow
    <3> QED
      BY <3>4, Zenon DEF Queues!Used, Queues!Cardinality, Cardinality
  <2>5. Queues!CanPut(x)
    BY <1>1, <2>1, <2>4 DEF Queues!CanPut
  <2>6. Queues!Put(x, b, lifo)
    BY <2>3, <2>5 DEF Queues!Put
  <2> QED
    BY <2>2, <2>6 DEF Queues!Next
<1>4. ASSUME NEW x \in MsgQ, Receive(x)
      PROVE  Queues!Next
  <2>1. q[x].NbrEntries > 0 /\ Contents' = Without(Contents, x, q[x].NbrEntries)
    BY <1>4, ReceiveStep
  <2>2. Rest(Contents[x], q[x].NbrEntries) = Tail(Contents[x]) /\ Contents[x] # <<>>
    BY <1>1, <2>1, SeqOps
  <2>3. Contents' = [y \in MsgQ |-> IF y \in {x} THEN Tail(Contents[y]) ELSE Contents[y]]
    BY <1>1, <2>1, <2>2 DEF Without
  <2>4. Queues!Get({x})
    BY <2>2, <2>3 DEF Queues!Get
  <2> QED
    BY <2>4 DEF Queues!Next
<1>5. ASSUME NEW x \in MsgQ, Flush(x)
      PROVE  Queues!Next
  <2>1. Contents' = Emptied(Contents, x)
    BY <1>5, FlushStep
  <2>2. [i \in 1 .. 0 |-> Null] = <<>>
    OBVIOUS
  <2>3. Queues!Flush(x)
    BY <2>1, <2>2 DEF Emptied, Queues!Flush
  <2> QED
    BY <2>3 DEF Queues!Next
<1>6. CASE UNCHANGED pvars
  BY <1>6 DEF pvars, msgvars, Contents, QueuedMsgs
<1> QED
  BY <1>2, <1>3, <1>4, <1>5, <1>6 DEF PoolsNext

\* The linked lists of os_msg.c implement the bounded queues that share a pool:
\* every put, get and flush, for every pool size and any number of queues, does
\* to the messages what MsgQueues says.
THEOREM PoolsImplementMsgQueues == PoolsSpec => ImplementsMsgQueues
<1>1. PoolsInit => PoolInv
  BY InitPool
<1>2. PoolInv /\ [PoolsNext]_pvars => PoolInv'
  BY NextPool
<1>3. PoolsInit => Queues!Init
  <2> SUFFICES ASSUME PoolsInit
               PROVE  Queues!Init
    OBVIOUS
  <2>1. q = [x \in MsgQ |-> [InPtr |-> Null, OutPtr |-> Null, NbrEntries |-> 0]]
    BY DEF PoolsInit, MsgInit
  <2>2. PoolInv
    BY InitPool
  <2>3. \A x \in MsgQ : Contents[x] \in Seq(Nat) /\ Len(Contents[x]) = 0
    BY <2>1, <2>2, ContentsSeq
  <2>4. \A x \in MsgQ : Contents[x] = <<>>
    BY <2>3
  <2>5. Contents = [x \in MsgQ |-> Contents[x]]
    BY <2>2, ContentsSeq
  <2> QED
    BY <2>4, <2>5 DEF Queues!Init
<1>4. PoolInv /\ [PoolsNext]_pvars => [Queues!Next]_Contents
  BY QueuesStep
<1> QED
  BY <1>1, <1>2, <1>3, <1>4, PTL DEF PoolsSpec, ImplementsMsgQueues, Queues!Spec
=============================================================================
