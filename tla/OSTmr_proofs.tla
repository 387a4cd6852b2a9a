---------------------------- MODULE OSTmr_proofs ----------------------------
(***************************************************************************)
(* The timer wheel for every number of timers, wheel size, delays and      *)
(* counter width: its doubly linked lists stay in order through every      *)
(* start, stop and expiry, no timer is missed, and the wheel implements    *)
(* timers that count down (Timers).                                        *)
(*                                                                         *)
(* Entries follows the links of a spoke by a recursive function; a spoke   *)
(* is reasoned about through the function that Strung says it is.          *)
(***************************************************************************)
EXTENDS OSTmr, TLAPS, FiniteSetTheorems, WellFoundedInduction

\* The values of OS_TICK.
Tick == 0 .. TickMod - 1

\* The ticks from counter value c to match value m.
Rem(m, c) == (m - c) % TickMod

\* The remainder within one turn of the modulus.
LEMMA TurnMod ==
  ASSUME NEW m \in Nat \ {0}, NEW a \in Int
  PROVE  /\ a \in 0 .. m - 1 => a % m = a
         /\ a \in m .. 2 * m - 1 => a % m = a - m
         /\ a \in -m .. -1 => a % m = a + m
OBVIOUS

\* The distance of two ticks is that of the numbers, or goes round the counter.
LEMMA RemTurn ==
  ASSUME NEW x \in Tick, NEW y \in Tick
  PROVE  /\ Rem(x, y) = IF x >= y THEN x - y ELSE x - y + TickMod
         /\ Rem(x, y) \in Tick
<1> DEFINE d == x - y
           n == TickMod
<1>1. /\ n \in Nat \ {0} /\ d \in Int
      /\ x >= y \/ x < y
      /\ x >= y => d \in 0 .. n - 1
      /\ x < y => d \in -n .. -1
  BY TmrAssumption DEF Tick
<1> HIDE DEF d, n
<1>2. /\ d \in 0 .. n - 1 => d % n = d
      /\ d \in -n .. -1 => d % n = d + n
  BY <1>1, TurnMod
<1>3. d % n = IF x >= y THEN d ELSE d + n
  BY <1>1, <1>2
<1> QED
  BY <1>1, <1>3 DEF Rem, Tick, d, n

\* Adding a delay to the counter: the match value is that far away.
LEMMA SumTurn ==
  ASSUME NEW c \in Tick, NEW d \in Tick
  PROVE  /\ (c + d) % TickMod = IF c + d < TickMod THEN c + d ELSE c + d - TickMod
         /\ (c + d) % TickMod \in Tick
         /\ Rem((c + d) % TickMod, c) = d
<1> DEFINE a == c + d
           n == TickMod
           m == a % n
<1>1. /\ n \in Nat \ {0} /\ a \in Int
      /\ a < n \/ a >= n
      /\ a < n => a \in 0 .. n - 1
      /\ a >= n => a \in n .. 2 * n - 1
      /\ c \in 0 .. n - 1 /\ d \in 0 .. n - 1
  BY TmrAssumption DEF Tick
<1>2. /\ a \in 0 .. n - 1 => a % n = a
      /\ a \in n .. 2 * n - 1 => a % n = a - n
  <2> HIDE DEF a, n
  <2> QED
    BY <1>1, TurnMod
<1>3. m = IF a < n THEN a ELSE a - n
  <2> HIDE DEF a, n
  <2> QED
    BY <1>1, <1>2
<1>4. m \in Tick
  <2> HIDE DEF m
  <2> QED
    BY <1>1, <1>3 DEF Tick
<1> HIDE DEF m
<1>5. Rem(m, c) = IF m >= c THEN m - c ELSE m - c + n
  BY <1>4, RemTurn
<1>6. Rem(m, c) = d
  BY <1>1, <1>3, <1>4, <1>5 DEF Tick
<1>7. (c + d) % TickMod = m
  BY DEF m
<1>8. (c + d) % TickMod \in Tick /\ Rem((c + d) % TickMod, c) = d
  BY <1>4, <1>6, <1>7, Zenon
<1>9. (c + d) % TickMod = IF c + d < TickMod THEN c + d ELSE c + d - TickMod
  BY <1>1, <1>3, <1>7 DEF a, n
<1> QED
  BY <1>8, <1>9, Zenon

\* Counting a tick brings every timer that is not due nearer by one, also across
\* the end of the counter.
LEMMA RemTick ==
  ASSUME NEW m \in Tick, NEW c \in Tick
  PROVE  /\ (c + 1) % TickMod \in Tick
         /\ m # c => Rem(m, (c + 1) % TickMod) = Rem(m, c) - 1
         /\ Rem(m, c) = 0 <=> m = c
         /\ (m = (c + 1) % TickMod) <=> Rem(m, c) = 1
<1> DEFINE n == (c + 1) % TickMod
<1>0. TickMod \in Nat /\ TickMod > 1 /\ 1 \in Tick
  BY TmrAssumption DEF Tick
<1>1. c \in Int /\ m \in Int /\ 0 <= c /\ c <= TickMod - 1 /\ 0 <= m /\ m <= TickMod - 1
  BY <1>0 DEF Tick
<1>2. n = (IF c + 1 < TickMod THEN c + 1 ELSE c + 1 - TickMod) /\ n \in Tick
  BY <1>0, SumTurn
<1> HIDE DEF n
<1>4. Rem(m, c) = IF m >= c THEN m - c ELSE m - c + TickMod
  BY RemTurn
<1>5. Rem(m, n) = IF m >= n THEN m - n ELSE m - n + TickMod
  BY <1>2, RemTurn
<1>6. m # c => Rem(m, n) = Rem(m, c) - 1
  BY <1>0, <1>1, <1>2, <1>4, <1>5
<1>7. (Rem(m, c) = 0 <=> m = c) /\ (m = n <=> Rem(m, c) = 1)
  BY <1>0, <1>1, <1>2, <1>4
<1> QED
  BY <1>2, <1>6, <1>7 DEF n
-----------------------------------------------------------------------------
\* A nonempty set of naturals has a least element.
LEMMA LeastExists ==
  ASSUME NEW S \in SUBSET Nat, S # {}
  PROVE  \E m \in S : \A n \in S : m <= n
<1>1. IsWellFoundedOn(OpToRel(<, Nat), Nat)
  BY NatLessThanWellFounded
<1>2. PICK m \in S : \A n \in S : ~ (<<n, m>> \in OpToRel(<, Nat))
  BY <1>1, WFMin, Zenon
<1>3. \A n \in S : ~ (n < m)
  BY <1>2 DEF OpToRel
<1> QED
  BY <1>3

\* l is the list of n timers that starts at first along the links next and prev.
Strung(first, next, prev, n, l) ==
  /\ l \in [1 .. n -> Tmr]
  /\ first = IF n = 0 THEN NoTmr ELSE l[1]
  /\ \A i \in 1 .. n : next[l[i]] = IF i = n THEN NoTmr ELSE l[i + 1]
  /\ \A i \in 1 .. n : prev[l[i]] = IF i = 1 THEN NoTmr ELSE l[i - 1]
  /\ \A i, j \in 1 .. n : l[i] = l[j] => i = j

\* The entries that the model reads off the links are those of the list.
LEMMA EntriesAre ==
  ASSUME NEW w, NEW s, NEW n \in Nat, NEW l,
         Strung(w.FirstPtr[s], w.NextPtr, w.PrevPtr, n, l)
  PROVE  Entries(w, s) = l
<1> DEFINE N == Cardinality(Tmr)
           Rec(f) == [i \in 1 .. N |-> IF i = 1 THEN w.FirstPtr[s]
                        ELSE IF f[i - 1] = NoTmr THEN NoTmr ELSE w.NextPtr[f[i - 1]]]
           at == CHOOSE f : f = Rec(f)
           g == [i \in 1 .. N |-> IF i <= n THEN l[i] ELSE NoTmr]
<1>0. /\ l \in [1 .. n -> Tmr]
      /\ w.FirstPtr[s] = IF n = 0 THEN NoTmr ELSE l[1]
      /\ \A i \in 1 .. n : w.NextPtr[l[i]] = IF i = n THEN NoTmr ELSE l[i + 1]
      /\ \A i, j \in 1 .. n : l[i] = l[j] => i = j
      /\ \A i \in 1 .. n : l[i] # NoTmr
  BY TmrAssumption DEF Strung
<1>1. N \in Nat /\ n <= N
  <2>1. IsFiniteSet(Tmr)
    BY TmrAssumption
  <2>2. l \in Injection(1 .. n, Tmr)
    BY <1>0 DEF Injection, IsInjective
  <2>3. Cardinality(1 .. n) <= Cardinality(Tmr) /\ Cardinality(Tmr) \in Nat
    BY <2>1, <2>2, FS_Injection, FS_CardinalityType
  <2>4. Cardinality(1 .. n) = n
    BY FS_Interval
  <2> QED
    BY <2>3, <2>4
<1>2. Entries(w, s) = [i \in {j \in 1 .. N : at[j] # NoTmr} |-> at[i]]
  BY DEF Entries
<1> HIDE DEF N
<1>3. g = Rec(g)
  <2>1. ASSUME NEW i \in 1 .. N
        PROVE  g[i] = Rec(g)[i]
    <3>1. CASE i = 1
      BY <1>0, <1>1, <3>1
    <3>2. CASE i # 1 /\ i - 1 <= n
      <4>1. i - 1 \in 1 .. N /\ i - 1 \in 1 .. n
        BY <1>1, <3>2
      <4>2. g[i - 1] = l[i - 1] /\ g[i - 1] # NoTmr
        BY <1>0, <3>2, <4>1
      <4>3. w.NextPtr[l[i - 1]] = IF i - 1 = n THEN NoTmr ELSE l[i]
        BY <1>0, <3>2, <4>1
      <4>4. g[i] = IF i - 1 = n THEN NoTmr ELSE l[i]
        BY <1>1, <3>2
      <4> QED
        BY <3>2, <4>2, <4>3, <4>4
    <3>3. CASE i # 1 /\ ~ (i - 1 <= n)
      <4>1. i - 1 \in 1 .. N /\ ~ (i <= n)
        BY <1>1, <3>3
      <4>2. g[i - 1] = NoTmr /\ g[i] = NoTmr
        BY <3>3, <4>1
      <4> QED
        BY <3>3, <4>2
    <3> QED
      BY <3>1, <3>2, <3>3
  <2> QED
    BY <2>1
<1>4. ASSUME NEW f, f = Rec(f)
      PROVE  f = g
  <2> DEFINE Bad == {i \in 1 .. N : f[i] # g[i]}
  <2>1. \A i \in 1 .. N : f[i] = Rec(f)[i] /\ g[i] = Rec(g)[i]
    BY <1>3, <1>4
  <2>2. CASE Bad # {}
    <3>0. Bad \in SUBSET Nat
      BY <1>1
    <3> HIDE DEF Bad
    <3>1. PICK i \in Bad : \A j \in Bad : i <= j
      BY <2>2, <3>0, LeastExists
    <3> USE DEF Bad
    <3>2. i \in 1 .. N /\ f[i] # g[i]
      BY <3>1
    <3> HIDE DEF g
    <3>3. CASE i = 1
      BY <2>1, <3>2, <3>3
    <3>4. CASE i # 1
      <4>1. i - 1 \in 1 .. N /\ i - 1 \notin Bad
        BY <1>1, <3>1, <3>2, <3>4
      <4>2. f[i - 1] = g[i - 1]
        BY <4>1
      <4> QED
        BY <2>1, <3>2, <3>4, <4>2
    <3> QED
      BY <3>3, <3>4
  <2>3. CASE Bad = {}
    <3>1. \A i \in 1 .. N : f[i] = g[i]
      BY <2>3
    <3>2. f = [i \in 1 .. N |-> f[i]]
      BY <1>4
    <3>3. g = [i \in 1 .. N |-> g[i]]
      OBVIOUS
    <3> HIDE DEF g, Rec
    <3> QED
      BY <3>1, <3>2, <3>3
  <2> QED
    BY <2>2, <2>3
<1>5. at = g
  <2> HIDE DEF Rec, g
  <2> QED
    BY <1>3, <1>4
<1> HIDE DEF at
<1>6. {j \in 1 .. N : at[j] # NoTmr} = 1 .. n
  BY <1>0, <1>1, <1>5
<1>7. Entries(w, s) = [i \in 1 .. n |-> l[i]]
  BY <1>0, <1>1, <1>2, <1>5, <1>6
<1> QED
  BY <1>0, <1>7
-----------------------------------------------------------------------------
\* A list of n timers with t put at position k, and one without position k.
Ins(l, n, k, t) == [i \in 1 .. n + 1 |-> IF i < k THEN l[i] ELSE IF i = k THEN t ELSE l[i - 1]]
Cut(l, n, k)    == [i \in 1 .. n - 1 |-> IF i < k THEN l[i] ELSE l[i + 1]]

\* A list whose links are left alone stays as it is.
LEMMA StrungStays ==
  ASSUME NEW first, NEW next, NEW prev, NEW n \in Nat, NEW l,
         Strung(first, next, prev, n, l), NEW next2, NEW prev2,
         \A i \in 1 .. n : next2[l[i]] = next[l[i]] /\ prev2[l[i]] = prev[l[i]]
  PROVE  Strung(first, next2, prev2, n, l)
BY DEF Strung

\* The links that OS_TmrLink sets put t into the list.
LEMMA StrungIns ==
  ASSUME NEW first, NEW next, NEW prev, NEW n \in Nat, NEW l, Strung(first, next, prev, n, l),
         NEW t \in Tmr, \A i \in 1 .. n : l[i] # t, NEW k \in 1 .. n + 1,
         NEW p0, p0 = IF k = 1 THEN NoTmr ELSE l[k - 1],
         NEW p1, p1 = IF k = n + 1 THEN NoTmr ELSE l[k],
         NEW next2, \A u \in Tmr : next2[u] = IF u = t THEN p1 ELSE IF u = p0 THEN t ELSE next[u],
         NEW prev2, \A u \in Tmr : prev2[u] = IF u = t THEN p0 ELSE IF u = p1 THEN t ELSE prev[u]
  PROVE  Strung(IF k = 1 THEN t ELSE first, next2, prev2, n + 1, Ins(l, n, k, t))
<1> DEFINE h == Ins(l, n, k, t)
<1>0. /\ l \in [1 .. n -> Tmr]
      /\ first = IF n = 0 THEN NoTmr ELSE l[1]
      /\ \A i \in 1 .. n : next[l[i]] = IF i = n THEN NoTmr ELSE l[i + 1]
      /\ \A i \in 1 .. n : prev[l[i]] = IF i = 1 THEN NoTmr ELSE l[i - 1]
      /\ \A i, j \in 1 .. n : l[i] = l[j] => i = j
  BY DEF Strung
<1>1. NoTmr \notin Tmr
  BY TmrAssumption
<1>2. /\ h \in [1 .. n + 1 -> Tmr]
      /\ \A i \in 1 .. n + 1 : h[i] = IF i < k THEN l[i] ELSE IF i = k THEN t ELSE l[i - 1]
  BY <1>0 DEF Ins
<1> HIDE DEF h
<1>3. (IF k = 1 THEN t ELSE first) = IF n + 1 = 0 THEN NoTmr ELSE h[1]
  <2>1. n + 1 # 0 /\ 1 \in 1 .. n + 1 /\ (k # 1 => n # 0 /\ 1 < k)
    OBVIOUS
  <2> QED
    BY <1>0, <1>2, <2>1
<1>4. ASSUME NEW i \in 1 .. n + 1
      PROVE  next2[h[i]] = IF i = n + 1 THEN NoTmr ELSE h[i + 1]
  <2>1. CASE i = k
    <3>1. h[i] = t /\ next2[t] = p1
      BY <1>2, <2>1
    <3>2. i # n + 1 => h[i + 1] = l[i]
      BY <1>2, <2>1
    <3> QED
      BY <2>1, <3>1, <3>2
  <2>2. CASE i < k
    <3>1. i \in 1 .. n /\ i # n + 1 /\ h[i] = l[i] /\ l[i] # t /\ l[i] \in Tmr
      BY <1>0, <1>2, <2>2
    <3>2. CASE i = k - 1
      <4>1. p0 = l[i] /\ h[i + 1] = t
        BY <1>2, <2>2, <3>1, <3>2
      <4> QED
        BY <3>1, <4>1
    <3>3. CASE i # k - 1
      <4>1. i + 1 < k /\ i + 1 \in 1 .. n + 1 /\ i # n
        BY <2>2, <3>1, <3>3
      <4>2. h[i + 1] = l[i + 1] /\ next[l[i]] = l[i + 1]
        BY <1>0, <1>2, <3>1, <4>1
      <4>3. l[i] # p0
        BY <1>0, <1>1, <3>1, <3>3
      <4> QED
        BY <3>1, <4>2, <4>3
    <3> QED
      BY <3>2, <3>3
  <2>3. CASE i > k
    <3>1. i - 1 \in 1 .. n /\ h[i] = l[i - 1] /\ l[i - 1] # t /\ l[i - 1] \in Tmr
      BY <1>0, <1>2, <2>3
    <3>2. l[i - 1] # p0
      BY <1>0, <1>1, <2>3, <3>1
    <3>3. next2[h[i]] = next[l[i - 1]]
      BY <3>1, <3>2
    <3>4. next[l[i - 1]] = IF i - 1 = n THEN NoTmr ELSE l[i]
      BY <1>0, <3>1
    <3>5. i # n + 1 => i + 1 \in 1 .. n + 1 /\ h[i + 1] = l[i]
      BY <1>2, <2>3
    <3> QED
      BY <3>3, <3>4, <3>5
  <2> QED
    BY <2>1, <2>2, <2>3
<1>5. ASSUME NEW i \in 1 .. n + 1
      PROVE  prev2[h[i]] = IF i = 1 THEN NoTmr ELSE h[i - 1]
  <2>1. CASE i = k
    <3>1. h[i] = t /\ prev2[t] = p0
      BY <1>2, <2>1
    <3>2. i # 1 => h[i - 1] = l[i - 1]
      BY <1>2, <2>1
    <3> QED
      BY <2>1, <3>1, <3>2
  <2>2. CASE i < k
    <3>1. i \in 1 .. n /\ h[i] = l[i] /\ l[i] # t /\ l[i] \in Tmr
      BY <1>0, <1>2, <2>2
    <3>2. l[i] # p1
      BY <1>0, <1>1, <2>2, <3>1
    <3>3. prev2[h[i]] = prev[l[i]]
      BY <3>1, <3>2
    <3>4. i # 1 => h[i - 1] = l[i - 1]
      BY <1>2, <2>2
    <3> QED
      BY <1>0, <3>1, <3>3, <3>4
  <2>3. CASE i > k
    <3>1. i - 1 \in 1 .. n /\ h[i] = l[i - 1] /\ l[i - 1] # t /\ l[i - 1] \in Tmr /\ i # 1
      BY <1>0, <1>2, <2>3
    <3>2. CASE i = k + 1
      <4>1. p1 = l[i - 1] /\ h[i - 1] = t
        BY <1>2, <2>3, <3>1, <3>2
      <4> QED
        BY <3>1, <4>1
    <3>3. CASE i # k + 1
      <4>1. i - 1 > k /\ i - 1 \in 1 .. n + 1 /\ i - 1 # 1 /\ i - 1 - 1 = i - 2
        BY <2>3, <3>1, <3>3
      <4>2. h[i - 1] = l[i - 2] /\ prev[l[i - 1]] = l[i - 2]
        BY <1>0, <1>2, <3>1, <4>1
      <4>3. l[i - 1] # p1
        BY <1>0, <1>1, <3>1, <3>3
      <4> QED
        BY <3>1, <4>2, <4>3
    <3> QED
      BY <3>2, <3>3
  <2> QED
    BY <2>1, <2>2, <2>3
<1>6. ASSUME NEW i \in 1 .. n + 1, NEW j \in 1 .. n + 1, h[i] = h[j]
      PROVE  i = j
  <2>1. (i < k => i \in 1 .. n) /\ (i > k => i - 1 \in 1 .. n)
    OBVIOUS
  <2>2. (j < k => j \in 1 .. n) /\ (j > k => j - 1 \in 1 .. n)
    OBVIOUS
  <2> QED
    BY <1>0, <1>2, <1>6, <2>1, <2>2
<1> QED
  BY <1>2, <1>3, <1>4, <1>5, <1>6 DEF Strung, h

\* The links that OS_TmrUnlink sets take the timer at position k out.
LEMMA StrungCut ==
  ASSUME NEW first, NEW next, NEW prev, NEW n \in Nat, NEW l, Strung(first, next, prev, n, l),
         NEW k \in 1 .. n,
         NEW p1, p1 = IF k = 1 THEN NoTmr ELSE l[k - 1],
         NEW p2, p2 = IF k = n THEN NoTmr ELSE l[k + 1],
         NEW next2, \A u \in Tmr : next2[u] = IF u = l[k] THEN NoTmr ELSE IF u = p1 THEN p2 ELSE next[u],
         NEW prev2, \A u \in Tmr : prev2[u] = IF u = l[k] THEN NoTmr ELSE IF u = p2 THEN p1 ELSE prev[u]
  PROVE  Strung(IF k = 1 THEN p2 ELSE first, next2, prev2, n - 1, Cut(l, n, k))
<1> DEFINE h == Cut(l, n, k)
<1>0. /\ l \in [1 .. n -> Tmr]
      /\ first = l[1]
      /\ \A i \in 1 .. n : next[l[i]] = IF i = n THEN NoTmr ELSE l[i + 1]
      /\ \A i \in 1 .. n : prev[l[i]] = IF i = 1 THEN NoTmr ELSE l[i - 1]
      /\ \A i, j \in 1 .. n : l[i] = l[j] => i = j
  BY DEF Strung
<1>1. NoTmr \notin Tmr
  BY TmrAssumption
<1>2. /\ h \in [1 .. n - 1 -> Tmr]
      /\ \A i \in 1 .. n - 1 : h[i] = IF i < k THEN l[i] ELSE l[i + 1]
  BY <1>0 DEF Cut
<1> HIDE DEF h
<1>3. (IF k = 1 THEN p2 ELSE first) = IF n - 1 = 0 THEN NoTmr ELSE h[1]
  <2>1. CASE k = 1
    <3>1. n - 1 # 0 => 1 \in 1 .. n - 1 /\ h[1] = l[2]
      BY <1>2, <2>1
    <3> QED
      BY <2>1, <3>1
  <2>2. CASE k # 1
    <3>1. n - 1 # 0 /\ 1 \in 1 .. n - 1 /\ 1 < k
      BY <2>2
    <3> QED
      BY <1>0, <1>2, <2>2, <3>1
  <2> QED
    BY <2>1, <2>2
<1>4. ASSUME NEW i \in 1 .. n - 1
      PROVE  /\ next2[h[i]] = IF i = n - 1 THEN NoTmr ELSE h[i + 1]
             /\ prev2[h[i]] = IF i = 1 THEN NoTmr ELSE h[i - 1]
  <2>0. i \in 1 .. n /\ i + 1 \in 1 .. n
    OBVIOUS
  <2>1. CASE i < k
    <3>1. h[i] = l[i] /\ l[i] \in Tmr /\ l[i] # l[k] /\ l[i] # p2
      BY <1>0, <1>1, <1>2, <2>0, <2>1
    <3>2. prev2[h[i]] = IF i = 1 THEN NoTmr ELSE h[i - 1]
      <4>1. i # 1 => h[i - 1] = l[i - 1]
        BY <1>2, <2>1
      <4> QED
        BY <1>0, <2>0, <3>1, <4>1
    <3>3. CASE i = k - 1
      <4>1. p1 = l[i]
        BY <2>1, <3>3
      <4>2. k = n <=> i = n - 1
        BY <3>3
      <4>3. i # n - 1 => i + 1 \in 1 .. n - 1 /\ ~ (i + 1 < k) /\ h[i + 1] = l[k + 1]
        BY <1>2, <3>3
      <4>4. next2[h[i]] = p2
        BY <3>1, <4>1
      <4> QED
        BY <3>2, <4>2, <4>3, <4>4
    <3>4. CASE i # k - 1
      <4>1. i + 1 < k /\ i # n - 1 /\ i + 1 \in 1 .. n - 1 /\ i # n
        BY <2>1, <3>4
      <4>2. h[i + 1] = l[i + 1] /\ next[l[i]] = l[i + 1]
        BY <1>0, <1>2, <2>0, <4>1
      <4>3. l[i] # p1
        BY <1>0, <1>1, <2>0, <3>4
      <4> QED
        BY <3>1, <3>2, <4>1, <4>2, <4>3
    <3> QED
      BY <3>3, <3>4
  <2>2. CASE ~ (i < k)
    <3>1. h[i] = l[i + 1] /\ l[i + 1] \in Tmr /\ l[i + 1] # l[k] /\ l[i + 1] # p1
      BY <1>0, <1>1, <1>2, <2>0, <2>2
    <3>2. next2[h[i]] = IF i = n - 1 THEN NoTmr ELSE h[i + 1]
      <4>0. i # n - 1 => i + 1 \in 1 .. n - 1 /\ ~ (i + 1 < k) /\ i + 1 + 1 = i + 2
        BY <2>2
      <4>1. i # n - 1 => h[i + 1] = l[i + 2]
        BY <1>2, <4>0
      <4>2. next[l[i + 1]] = IF i + 1 = n THEN NoTmr ELSE l[i + 2]
        BY <1>0, <2>0
      <4> QED
        BY <3>1, <4>1, <4>2
    <3>3. CASE i = k
      <4>1. p2 = l[i + 1]
        BY <2>0, <3>3
      <4>2. i # 1 => h[i - 1] = l[i - 1]
        BY <1>2, <3>3
      <4> QED
        BY <3>1, <3>2, <3>3, <4>1, <4>2
    <3>4. CASE i # k
      <4>1. i > k /\ i # 1 /\ i - 1 \in 1 .. n - 1 /\ ~ (i - 1 < k) /\ i - 1 + 1 = i /\ i + 1 - 1 = i
        BY <2>2, <3>4
      <4>2. h[i - 1] = l[i] /\ prev[l[i + 1]] = l[i]
        BY <1>0, <1>2, <2>0, <4>1
      <4>3. l[i + 1] # p2
        BY <1>0, <1>1, <2>0, <3>4
      <4> QED
        BY <3>1, <3>2, <4>1, <4>2, <4>3
    <3> QED
      BY <3>3, <3>4
  <2> QED
    BY <2>1, <2>2
<1>5. ASSUME NEW i \in 1 .. n - 1, NEW j \in 1 .. n - 1, h[i] = h[j]
      PROVE  i = j
  <2>1. i \in 1 .. n /\ i + 1 \in 1 .. n /\ j \in 1 .. n /\ j + 1 \in 1 .. n
    OBVIOUS
  <2> QED
    BY <1>0, <1>2, <1>5, <2>1
<1> QED
  BY <1>2, <1>3, <1>4, <1>5 DEF Strung, h
-----------------------------------------------------------------------------
\* The fields of the timers and of the wheel, with their types.
Wheels ==
  [State : [Tmr -> {"UNUSED", "STOPPED", "RUNNING", "COMPLETED"}], Match : [Tmr -> Tick],
   NextPtr : [Tmr -> Tmr \cup {NoTmr}], PrevPtr : [Tmr -> Tmr \cup {NoTmr}],
   FirstPtr : [Spoke -> Tmr \cup {NoTmr}], NbrEntries : [Spoke -> Nat], fault : {FALSE}]

\* L[s] is the list of spoke s: it holds the running timers of the spoke, in the
\* order in which they expire after counter value c.
WheelAt(w, c, L) ==
  /\ \A s \in Spoke : Strung(w.FirstPtr[s], w.NextPtr, w.PrevPtr, w.NbrEntries[s], L[s])
  /\ \A s \in Spoke, t \in Tmr :
       (\E i \in 1 .. w.NbrEntries[s] : L[s][i] = t)
         <=> w.State[t] = "RUNNING" /\ w.Match[t] % TmrWheelSize = s
  /\ \A s \in Spoke : \A i, j \in 1 .. w.NbrEntries[s] :
       i < j => Rem(w.Match[L[s][i]], c) <= Rem(w.Match[L[s][j]], c)

\* A match value selects a spoke.
LEMMA MatchSpoke ==
  ASSUME NEW m \in Tick
  PROVE  m % TmrWheelSize \in Spoke
<1>1. m \in Int /\ TmrWheelSize \in Nat \ {0}
  BY TmrAssumption DEF Tick
<1>2. m % TmrWheelSize \in 0 .. TmrWheelSize - 1
  BY <1>1
<1> QED
  BY <1>2 DEF Spoke

\* OS_TmrUnlink takes a running timer out of its spoke.
LEMMA UnlinkWheel ==
  ASSUME NEW w \in Wheels, NEW c, NEW L, WheelAt(w, c, L),
         NEW t \in Tmr, w.State[t] = "RUNNING", NEW w2, w2 = OS_TmrUnlink(w, t)
  PROVE  /\ w2 \in Wheels
         /\ w2.State = [w.State EXCEPT ![t] = "STOPPED"] /\ w2.Match = w.Match
         /\ \A s \in Spoke : w2.FirstPtr[s] = IF w.FirstPtr[s] = t THEN w.NextPtr[t] ELSE w.FirstPtr[s]
         /\ \E M : WheelAt(w2, c, M)
<1> DEFINE s == w.Match[t] % TmrWheelSize
           l == L[s]
           n == w.NbrEntries[s]
<1>0. /\ w.State \in [Tmr -> {"UNUSED", "STOPPED", "RUNNING", "COMPLETED"}]
      /\ w.Match \in [Tmr -> Tick] /\ w.NextPtr \in [Tmr -> Tmr \cup {NoTmr}]
      /\ w.PrevPtr \in [Tmr -> Tmr \cup {NoTmr}] /\ w.FirstPtr \in [Spoke -> Tmr \cup {NoTmr}]
      /\ w.NbrEntries \in [Spoke -> Nat] /\ w.fault = FALSE
  BY DEF Wheels
<1>1. s \in Spoke /\ n \in Nat /\ NoTmr \notin Tmr
  BY <1>0, MatchSpoke, TmrAssumption
<1>2. PICK k \in 1 .. n : l[k] = t
  BY <1>1 DEF WheelAt
<1>3. /\ \A x \in Spoke : Strung(w.FirstPtr[x], w.NextPtr, w.PrevPtr, w.NbrEntries[x], L[x])
      /\ Strung(w.FirstPtr[s], w.NextPtr, w.PrevPtr, n, l)
  BY <1>1 DEF WheelAt
<1>4. \A x \in Spoke, u \in Tmr :
        (\E i \in 1 .. w.NbrEntries[x] : L[x][i] = u)
          <=> w.State[u] = "RUNNING" /\ w.Match[u] % TmrWheelSize = x
  BY DEF WheelAt
<1>5. \A x \in Spoke : \A i, j \in 1 .. w.NbrEntries[x] :
        i < j => Rem(w.Match[L[x][i]], c) <= Rem(w.Match[L[x][j]], c)
  BY DEF WheelAt
<1> DEFINE p1 == IF w.FirstPtr[s] = t THEN NoTmr ELSE w.PrevPtr[t]
           p2 == w.NextPtr[t]
<1>6. /\ l \in [1 .. n -> Tmr] /\ w.FirstPtr[s] = l[1]
      /\ \A i, j \in 1 .. n : l[i] = l[j] => i = j
      /\ w.NextPtr[l[k]] = IF k = n THEN NoTmr ELSE l[k + 1]
      /\ w.PrevPtr[l[k]] = IF k = 1 THEN NoTmr ELSE l[k - 1]
      /\ 1 \in 1 .. n /\ (k # 1 => k - 1 \in 1 .. n) /\ (k # n => k + 1 \in 1 .. n)
  <2> HIDE DEF l, n, s
  <2> QED
    BY <1>1, <1>3 DEF Strung
<1>7. /\ w.FirstPtr[s] = t <=> k = 1
      /\ p1 = IF k = 1 THEN NoTmr ELSE l[k - 1]
      /\ p2 = IF k = n THEN NoTmr ELSE l[k + 1]
      /\ k # 1 => p1 # NoTmr
      /\ p1 \in Tmr \cup {NoTmr} /\ p2 \in Tmr \cup {NoTmr}
  <2> HIDE DEF l, n, s
  <2>1. w.FirstPtr[s] = t <=> k = 1
    BY <1>2, <1>6
  <2>2. p1 = IF k = 1 THEN NoTmr ELSE l[k - 1]
    BY <1>2, <1>6, <2>1
  <2>3. p2 = IF k = n THEN NoTmr ELSE l[k + 1]
    BY <1>2, <1>6
  <2> HIDE DEF p1, p2
  <2> QED
    BY <1>1, <1>6, <2>1, <2>2, <2>3
<1> DEFINE first2 == [w.FirstPtr EXCEPT ![s] = IF w.FirstPtr[s] = t THEN p2 ELSE w.FirstPtr[s]]
           next2 == [u \in Tmr |-> IF u = t THEN NoTmr ELSE IF u = p1 THEN p2 ELSE w.NextPtr[u]]
           prev2 == [u \in Tmr |-> IF u = t THEN NoTmr ELSE IF u = p2 THEN p1 ELSE w.PrevPtr[u]]
           state2 == [w.State EXCEPT ![t] = "STOPPED"]
           nbr2 == [w.NbrEntries EXCEPT ![s] = w.NbrEntries[s] - 1]
<1>8. w2 = [w EXCEPT !.fault = (p1 = NoTmr /\ w.FirstPtr[s] # t), !.FirstPtr = first2,
                     !.NextPtr = next2, !.PrevPtr = prev2, !.State = state2, !.NbrEntries = nbr2]
  BY DEF OS_TmrUnlink
<1>9. /\ first2 \in [Spoke -> Tmr \cup {NoTmr}] /\ next2 \in [Tmr -> Tmr \cup {NoTmr}]
      /\ prev2 \in [Tmr -> Tmr \cup {NoTmr}]
      /\ state2 \in [Tmr -> {"UNUSED", "STOPPED", "RUNNING", "COMPLETED"}]
      /\ nbr2 \in [Spoke -> Nat]
      /\ (p1 = NoTmr /\ w.FirstPtr[s] # t) = FALSE
  <2> HIDE DEF p1, p2, s
  <2> QED
    BY <1>0, <1>1, <1>2, <1>7
<1>10. /\ w2 \in Wheels
       /\ w2.State = state2 /\ w2.Match = w.Match /\ w2.NextPtr = next2 /\ w2.PrevPtr = prev2
       /\ w2.FirstPtr = first2 /\ w2.NbrEntries = nbr2
  <2> HIDE DEF first2, next2, prev2, state2, nbr2, p1, s
  <2> QED
    BY <1>8, <1>9 DEF Wheels
<1>11. \A x \in Spoke : w2.FirstPtr[x] = IF w.FirstPtr[x] = t THEN w.NextPtr[t] ELSE w.FirstPtr[x]
  <2> SUFFICES ASSUME NEW x \in Spoke
               PROVE  first2[x] = IF w.FirstPtr[x] = t THEN w.NextPtr[t] ELSE w.FirstPtr[x]
    BY <1>10
  <2>1. CASE x = s
    BY <1>0, <1>1, <2>1
  <2>2. CASE x # s
    <3>1. w.FirstPtr[x] # t
      <4>1. Strung(w.FirstPtr[x], w.NextPtr, w.PrevPtr, w.NbrEntries[x], L[x])
        BY <1>3
      <4>2. ~ \E i \in 1 .. w.NbrEntries[x] : L[x][i] = t
        BY <1>4, <2>2
      <4>3. w.NbrEntries[x] \in Nat
        BY <1>0
      <4> QED
        BY <1>1, <4>1, <4>2, <4>3 DEF Strung
    <3> QED
      BY <1>0, <1>1, <2>2, <3>1
  <2> QED
    BY <2>1, <2>2
<1> DEFINE M == [x \in Spoke |-> IF x = s THEN Cut(l, n, k) ELSE L[x]]
<1>12. /\ nbr2[s] = n - 1 /\ \A x \in Spoke \ {s} : nbr2[x] = w.NbrEntries[x]
       /\ M[s] = Cut(l, n, k) /\ \A x \in Spoke \ {s} : M[x] = L[x]
       /\ first2[s] = (IF k = 1 THEN p2 ELSE w.FirstPtr[s])
       /\ \A x \in Spoke \ {s} : first2[x] = w.FirstPtr[x]
  <2> HIDE DEF s, l, n, p2
  <2> QED
    BY <1>0, <1>1, <1>7 DEF n
<1>13. ASSUME NEW x \in Spoke
       PROVE  Strung(first2[x], next2, prev2, nbr2[x], M[x])
  <2>1. CASE x = s
    <3>1. /\ \A u \in Tmr : next2[u] = IF u = l[k] THEN NoTmr ELSE IF u = p1 THEN p2 ELSE w.NextPtr[u]
          /\ \A u \in Tmr : prev2[u] = IF u = l[k] THEN NoTmr ELSE IF u = p2 THEN p1 ELSE w.PrevPtr[u]
      BY <1>2
    <3> HIDE DEF p1, p2, next2, prev2, s, l, n
    <3>2. Strung(IF k = 1 THEN p2 ELSE w.FirstPtr[s], next2, prev2, n - 1, Cut(l, n, k))
      BY <1>1, <1>3, <1>7, <3>1, StrungCut
    <3> QED
      BY <1>12, <2>1, <3>2
  <2>2. CASE x # s
    <3> DEFINE m == w.NbrEntries[x]
    <3>1. Strung(w.FirstPtr[x], w.NextPtr, w.PrevPtr, m, L[x]) /\ m \in Nat
      BY <1>0, <1>3
    <3>2. ASSUME NEW i \in 1 .. m
          PROVE  next2[L[x][i]] = w.NextPtr[L[x][i]] /\ prev2[L[x][i]] = w.PrevPtr[L[x][i]]
      <4>1. L[x][i] \in Tmr /\ w.Match[L[x][i]] % TmrWheelSize = x
        <5>1. L[x][i] \in Tmr
          BY <3>1 DEF Strung
        <5> QED
          BY <1>4, <5>1
      <4>2. \A j \in 1 .. n : l[j] \in Tmr /\ w.Match[l[j]] % TmrWheelSize = s
        <5>1. \A j \in 1 .. n : l[j] \in Tmr /\ \E i2 \in 1 .. w.NbrEntries[s] : L[s][i2] = l[j]
          BY <1>6
        <5> HIDE DEF l, n, s
        <5> QED
          BY <1>1, <1>4, <5>1
      <4>3. \A j \in 1 .. n : L[x][i] # l[j]
        BY <2>2, <4>1, <4>2
      <4>4. L[x][i] # t /\ L[x][i] # p1 /\ L[x][i] # p2
        <5>1. k # 1 => k - 1 \in 1 .. n
          BY <1>1
        <5>2. k # n => k + 1 \in 1 .. n
          BY <1>1
        <5> HIDE DEF p1, p2, l, n, s
        <5> QED
          BY <1>1, <1>2, <1>7, <4>1, <4>3, <5>1, <5>2
      <4> HIDE DEF p1, p2
      <4> QED
        BY <4>1, <4>4
    <3> HIDE DEF next2, prev2, first2, nbr2, M, s
    <3>3. Strung(w.FirstPtr[x], next2, prev2, m, L[x])
      BY <3>1, <3>2, StrungStays
    <3> QED
      BY <1>12, <2>2, <3>3
  <2> QED
    BY <2>1, <2>2
<1>14. Cut(l, n, k) \in [1 .. n - 1 -> Tmr]
       /\ \A i \in 1 .. n - 1 : Cut(l, n, k)[i] = IF i < k THEN l[i] ELSE l[i + 1]
  <2> HIDE DEF l, n
  <2> QED
    BY <1>1, <1>6 DEF Cut
<1>15. ASSUME NEW x \in Spoke, NEW u \in Tmr
       PROVE  (\E i \in 1 .. nbr2[x] : M[x][i] = u)
                <=> state2[u] = "RUNNING" /\ w.Match[u] % TmrWheelSize = x
  <2>1. /\ state2[t] = "STOPPED" /\ \A v \in Tmr \ {t} : state2[v] = w.State[v]
    BY <1>0
  <2> HIDE DEF state2, nbr2, M, n, l
  <2>2. CASE x # s
    <3>1. t # u \/ w.Match[u] % TmrWheelSize # x
      BY <2>2
    <3> HIDE DEF s
    <3> QED
      BY <1>4, <1>12, <2>1, <2>2, <3>1
  <2>3. CASE x = s
    <3> HIDE DEF s
    <3>1. nbr2[x] = n - 1 /\ M[x] = Cut(l, n, k)
      BY <1>12, <2>3
    <3>2. ASSUME NEW i \in 1 .. n - 1, Cut(l, n, k)[i] = u
          PROVE  u # t /\ \E j \in 1 .. n : l[j] = u
      <4>1. i \in 1 .. n /\ i + 1 \in 1 .. n /\ i + 1 # i
        BY <1>1
      <4> QED
        BY <1>1, <1>2, <1>6, <1>14, <3>2, <4>1
    <3>3. ASSUME NEW j \in 1 .. n, l[j] = u, u # t
          PROVE  \E i \in 1 .. n - 1 : Cut(l, n, k)[i] = u
      <4>1. j # k
        BY <1>2, <3>3
      <4>2. CASE j < k
        <5>1. j \in 1 .. n - 1
          BY <1>1, <4>2
        <5> QED
          BY <1>14, <3>3, <4>2, <5>1
      <4>3. CASE j > k
        <5>1. j - 1 \in 1 .. n - 1 /\ ~ (j - 1 < k) /\ j - 1 + 1 = j
          BY <1>1, <4>3
        <5> QED
          BY <1>14, <3>3, <5>1
      <4> QED
        BY <1>1, <4>1, <4>2, <4>3
    <3>4. (\E j \in 1 .. n : l[j] = u) <=> w.State[u] = "RUNNING" /\ w.Match[u] % TmrWheelSize = x
      BY <1>1, <1>4, <2>3 DEF n, l
    <3> QED
      BY <2>1, <3>1, <3>2, <3>3, <3>4
  <2> QED
    BY <2>2, <2>3
<1>16. ASSUME NEW x \in Spoke, NEW i \in 1 .. nbr2[x], NEW j \in 1 .. nbr2[x], i < j
       PROVE  Rem(w.Match[M[x][i]], c) <= Rem(w.Match[M[x][j]], c)
  <2> HIDE DEF nbr2, M
  <2>1. CASE x # s
    BY <1>5, <1>12, <1>16, <2>1
  <2>2. CASE x = s
    <3>1. \A a, b \in 1 .. n : a < b => Rem(w.Match[l[a]], c) <= Rem(w.Match[l[b]], c)
      BY <1>1, <1>5
    <3> HIDE DEF s, l, n
    <3>2. i \in 1 .. n - 1 /\ j \in 1 .. n - 1 /\ M[x] = Cut(l, n, k)
      BY <1>12, <2>2
    <3> DEFINE a == IF i < k THEN i ELSE i + 1
               b == IF j < k THEN j ELSE j + 1
    <3>3. a \in 1 .. n /\ b \in 1 .. n /\ a < b
      BY <1>1, <1>16, <3>2
    <3>4. M[x][i] = l[a] /\ M[x][j] = l[b]
      BY <1>14, <3>2
    <3> HIDE DEF a, b
    <3> QED
      BY <3>1, <3>3, <3>4
  <2> QED
    BY <2>1, <2>2
<1>17. WheelAt(w2, c, M)
  <2> HIDE DEF M, first2, next2, prev2, nbr2, state2
  <2> QED
    BY <1>10, <1>13, <1>15, <1>16 DEF WheelAt
<1> QED
  BY <1>10, <1>11, <1>17

\* The entries, with R[i] ticks to go, that do not expire before a timer with r
\* ticks to go; the place of the first of them, or that behind the last entry.
Later(n, R, r) == {i \in 1 .. n : r <= R[i]}
First(S)       == CHOOSE i \in S : \A j \in S : i <= j
Place(n, R, r) == IF Later(n, R, r) = {} THEN n + 1 ELSE First(Later(n, R, r))

\* Before that place all expire earlier, from it on none does.
LEMMA LinkPlace ==
  ASSUME NEW n \in Nat, NEW R \in [1 .. n -> Int], NEW r \in Int,
         \A i, j \in 1 .. n : i < j => R[i] <= R[j]
  PROVE  /\ Place(n, R, r) \in 1 .. n + 1
         /\ (Later(n, R, r) = {} <=> Place(n, R, r) = n + 1)
         /\ \A i \in 1 .. n : IF i < Place(n, R, r) THEN R[i] < r ELSE r <= R[i]
<1> DEFINE S == Later(n, R, r)
           k == Place(n, R, r)
<1>0. S \in SUBSET Nat /\ \A i : i \in S <=> i \in 1 .. n /\ r <= R[i]
  BY DEF Later
<1>1. CASE S = {}
  <2>1. k = n + 1
    BY <1>1 DEF Place
  <2>2. \A i \in 1 .. n : R[i] < r /\ i < n + 1
    BY <1>0, <1>1
  <2> QED
    BY <1>1, <2>1, <2>2
<1>2. CASE S # {}
  <2> HIDE DEF S
  <2>1. \E i \in S : \A j \in S : i <= j
    BY <1>0, <1>2, LeastExists
  <2>2. First(S) \in S /\ \A j \in S : First(S) <= j
    BY <2>1 DEF First
  <2>3. k = First(S)
    BY <1>2 DEF Place, S
  <2> HIDE DEF k
  <2>4. k \in 1 .. n /\ r <= R[k] /\ k \in Nat
    BY <1>0, <2>2, <2>3
  <2>5. ASSUME NEW i \in 1 .. n, i < k
        PROVE  R[i] < r
    <3>1. i \notin S
      BY <2>2, <2>3, <2>4, <2>5
    <3>2. ~ (r <= R[i]) /\ R[i] \in Int
      BY <1>0, <3>1
    <3> QED
      BY <3>2
  <2>6. ASSUME NEW i \in 1 .. n, ~ (i < k)
        PROVE  r <= R[i]
    <3>1. i = k \/ k < i
      BY <2>4, <2>6
    <3>2. k < i => R[k] <= R[i]
      BY <2>4
    <3>3. R[i] \in Int /\ R[k] \in Int
      BY <2>4
    <3> QED
      BY <2>4, <3>1, <3>2, <3>3
  <2>7. k \in 1 .. n + 1 /\ k # n + 1
    BY <2>4
  <2>8. \A i \in 1 .. n : IF i < k THEN R[i] < r ELSE r <= R[i]
    BY <2>5, <2>6
  <2> QED
    BY <1>2, <2>7, <2>8 DEF k, S
<1> QED
  BY <1>1, <1>2

\* OS_TmrLink puts a timer that does not run into the spoke of its new match value.
LEMMA LinkWheel ==
  ASSUME NEW w \in Wheels, OSTmrTickCtr \in Tick, NEW L, WheelAt(w, OSTmrTickCtr, L),
         NEW t \in Tmr, w.State[t] # "RUNNING", NEW d \in Tick, NEW w2, w2 = OS_TmrLink(w, t, d)
  PROVE  /\ w2 \in Wheels
         /\ w2.State = [w.State EXCEPT ![t] = "RUNNING"]
         /\ w2.Match = [w.Match EXCEPT ![t] = MatchAfter(d)]
         /\ \A s \in Spoke : w2.FirstPtr[s] \in {w.FirstPtr[s], t}
         /\ \E M : WheelAt(w2, OSTmrTickCtr, M)
<1> DEFINE c == OSTmrTickCtr
           m == MatchAfter(d)
           s == m % TmrWheelSize
           l == L[s]
           n == w.NbrEntries[s]
           match2 == [w.Match EXCEPT ![t] = m]
           state2 == [w.State EXCEPT ![t] = "RUNNING"]
           R == [i \in 1 .. n |-> Rem(w.Match[l[i]], c)]
           later == Later(n, R, d)
           k == Place(n, R, d)
<1>0. /\ w.State \in [Tmr -> {"UNUSED", "STOPPED", "RUNNING", "COMPLETED"}]
      /\ w.Match \in [Tmr -> Tick] /\ w.NextPtr \in [Tmr -> Tmr \cup {NoTmr}]
      /\ w.PrevPtr \in [Tmr -> Tmr \cup {NoTmr}] /\ w.FirstPtr \in [Spoke -> Tmr \cup {NoTmr}]
      /\ w.NbrEntries \in [Spoke -> Nat] /\ w.fault = FALSE
  BY DEF Wheels
<1>1. /\ m \in Tick /\ Rem(m, c) = d /\ c \in Tick /\ d \in Int
      /\ NoTmr \notin Tmr /\ \A a, b \in Tick : Rem(a, b) \in Int
  BY SumTurn, RemTurn, TmrAssumption DEF MatchAfter, Tick
<1> HIDE DEF c, m
<1>2. s \in Spoke /\ n \in Nat
  BY <1>0, <1>1, MatchSpoke
<1>3. /\ \A x \in Spoke : Strung(w.FirstPtr[x], w.NextPtr, w.PrevPtr, w.NbrEntries[x], L[x])
      /\ Strung(w.FirstPtr[s], w.NextPtr, w.PrevPtr, n, l)
  BY <1>2 DEF WheelAt
<1>4. \A x \in Spoke, u \in Tmr :
        (\E i \in 1 .. w.NbrEntries[x] : L[x][i] = u)
          <=> w.State[u] = "RUNNING" /\ w.Match[u] % TmrWheelSize = x
  BY DEF WheelAt
<1>5. \A x \in Spoke : \A i, j \in 1 .. w.NbrEntries[x] :
        i < j => Rem(w.Match[L[x][i]], c) <= Rem(w.Match[L[x][j]], c)
  BY DEF WheelAt, c
<1>6. /\ l \in [1 .. n -> Tmr]
      /\ w.FirstPtr[s] = IF n = 0 THEN NoTmr ELSE l[1]
      /\ \A i \in 1 .. n : w.PrevPtr[l[i]] = IF i = 1 THEN NoTmr ELSE l[i - 1]
  BY <1>3 DEF Strung
<1>7. \A x \in Spoke : \A i \in 1 .. w.NbrEntries[x] : L[x][i] # t
  BY <1>4
<1>8. \A i \in 1 .. n : l[i] # t
  BY <1>2, <1>7
<1>9. Entries(w, s) = l
  <2> HIDE DEF s, l, n
  <2> QED
    BY <1>2, <1>3, EntriesAre
<1>10. R \in [1 .. n -> Int]
  <2> HIDE DEF l, n
  <2> QED
    BY <1>0, <1>1, <1>6
<1>11. \A i, j \in 1 .. n : i < j => R[i] <= R[j]
  BY <1>2, <1>5
<1>12. /\ k \in 1 .. n + 1 /\ (later = {} <=> k = n + 1)
       /\ \A i \in 1 .. n : IF i < k THEN R[i] < d ELSE d <= R[i]
  <2> HIDE DEF R, n, s
  <2> QED
    BY <1>1, <1>2, <1>10, <1>11, LinkPlace
<1> DEFINE p1 == IF later = {} THEN NoTmr ELSE l[First(later)]
           p0 == IF l = <<>> THEN NoTmr ELSE IF later = {} THEN l[Len(l)] ELSE w.PrevPtr[p1]
<1>13. /\ l = <<>> <=> n = 0
       /\ n # 0 => Len(l) = n
       /\ DOMAIN l = 1 .. n
  <2> HIDE DEF l, n
  <2> QED
    BY <1>2, <1>6
<1>14. /\ p1 = IF k = n + 1 THEN NoTmr ELSE l[k]
       /\ p0 = IF k = 1 THEN NoTmr ELSE l[k - 1]
  <2>1. later # {} => k = First(later)
    BY DEF Place
  <2> HIDE DEF later, k, l, n, s
  <2>2. p1 = IF k = n + 1 THEN NoTmr ELSE l[k]
    BY <1>12, <2>1
  <2> HIDE DEF p1
  <2>3. CASE n = 0
    <3>1. k = 1
      BY <1>12, <2>3
    <3> QED
      BY <1>13, <2>2, <2>3, <3>1
  <2>4. CASE n # 0 /\ later = {}
    <3>1. k = n + 1 /\ k # 1 /\ k - 1 = n
      BY <1>2, <1>12, <2>4
    <3> QED
      BY <1>13, <2>2, <2>4, <3>1
  <2>5. CASE n # 0 /\ later # {}
    <3>1. k \in 1 .. n /\ k # n + 1
      BY <1>2, <1>12, <2>5
    <3>2. p0 = w.PrevPtr[l[k]]
      BY <1>13, <2>2, <2>5, <3>1
    <3> QED
      BY <1>6, <2>2, <3>1, <3>2
  <2> QED
    BY <2>3, <2>4, <2>5
<1>15. /\ p0 \in Tmr \cup {NoTmr} /\ p1 \in Tmr \cup {NoTmr}
       /\ p0 = NoTmr <=> k = 1
       /\ (p0 = NoTmr /\ p1 = NoTmr) <=> n = 0
  <2> HIDE DEF k, p0, p1, l, n
  <2>1. (k # 1 => k - 1 \in 1 .. n) /\ (k # n + 1 => k \in 1 .. n)
    BY <1>2, <1>12
  <2>2. (k = 1 /\ k = n + 1) <=> n = 0
    BY <1>2, <1>12
  <2>3. p0 \in Tmr \cup {NoTmr} /\ (p0 = NoTmr <=> k = 1)
    BY <1>1, <1>6, <1>14, <2>1
  <2>4. p1 \in Tmr \cup {NoTmr} /\ (p1 = NoTmr <=> k = n + 1)
    BY <1>1, <1>6, <1>14, <2>1
  <2> QED
    BY <2>2, <2>3, <2>4
<1> DEFINE first2 == [w.FirstPtr EXCEPT ![s] = IF p0 = NoTmr THEN t ELSE w.FirstPtr[s]]
           next2 == [u \in Tmr |-> IF u = t THEN p1 ELSE IF u = p0 THEN t ELSE w.NextPtr[u]]
           prev2 == [u \in Tmr |-> IF u = t THEN p0 ELSE IF u = p1 THEN t ELSE w.PrevPtr[u]]
           nbr2 == [w.NbrEntries EXCEPT ![s] = IF p0 = NoTmr /\ p1 = NoTmr THEN 1 ELSE w.NbrEntries[s] + 1]
           w1 == [w EXCEPT !.State[t] = "RUNNING", !.Match[t] = m]
<1>16. /\ w1 = [w EXCEPT !.State = state2, !.Match = match2]
       /\ w1.Match = match2 /\ match2[t] = m /\ w1.Match[t] = m
       /\ \A u \in Tmr \ {t} : match2[u] = w.Match[u]
  BY <1>0 DEF Wheels
<1>17. {i \in DOMAIN l : Remain(w1, t) <= Remain(w1, l[i])} = later
  <2> HIDE DEF l, n, s, w1, match2
  <2>1. Remain(w1, t) = d
    BY <1>1, <1>16 DEF Remain, Rem, c
  <2>2. ASSUME NEW i \in 1 .. n
        PROVE  Remain(w1, l[i]) = R[i]
    <3>1. w1.Match[l[i]] = w.Match[l[i]]
      BY <1>6, <1>8, <1>16
    <3> QED
      BY <3>1 DEF Remain, Rem, c
  <2> HIDE DEF R
  <2> QED
    BY <1>13, <2>1, <2>2 DEF Later
<1>18. w2 = [w EXCEPT !.State = state2, !.Match = match2, !.NextPtr = next2, !.PrevPtr = prev2,
                      !.FirstPtr = first2, !.NbrEntries = nbr2]
  <2>1. /\ w1.NextPtr = w.NextPtr /\ w1.PrevPtr = w.PrevPtr
        /\ w1.FirstPtr = w.FirstPtr /\ w1.NbrEntries = w.NbrEntries
    BY DEF Wheels
  <2>2. w2 = [w1 EXCEPT !.NextPtr = next2, !.PrevPtr = prev2, !.FirstPtr = first2, !.NbrEntries = nbr2]
    <3>1. w1.Match[t] % TmrWheelSize = s
      BY <1>16
    <3>2. /\ Entries(w, w1.Match[t] % TmrWheelSize) = l
          /\ {i \in DOMAIN l : Remain(w1, t) <= Remain(w1, l[i])} = later
      BY <1>9, <1>17, <3>1
    <3>3. w1 = [w EXCEPT !.State[t] = "RUNNING", !.Match[t] = MatchAfter(d)]
      BY DEF m
    <3> DEFINE z == w1.Match[t] % TmrWheelSize
               e == Entries(w, z)
               ltr == {i \in DOMAIN e : Remain(w1, t) <= Remain(w1, e[i])}
               q1 == IF ltr = {} THEN NoTmr ELSE e[CHOOSE i \in ltr : \A j \in ltr : i <= j]
               q0 == IF e = <<>> THEN NoTmr ELSE IF ltr = {} THEN e[Len(e)] ELSE w.PrevPtr[q1]
    <3>4. w2 = LinkBetween(w1, t, z, q0, q1)
      BY DEF OS_TmrLink, m
    <3> HIDE DEF w1, l, s, later
    <3>5. z = s /\ e = l
      BY <3>1, <3>2
    <3> HIDE DEF z, e
    <3>6. ltr = later
      BY <3>2, <3>5
    <3> HIDE DEF ltr
    <3>7. q1 = p1
      BY <3>5, <3>6 DEF First
    <3> HIDE DEF q1, p1
    <3>8. q0 = p0
      BY <3>5, <3>6, <3>7
    <3> HIDE DEF q0, p0
    <3>9. w2 = LinkBetween(w1, t, s, p0, p1)
      BY <3>4, <3>5, <3>7, <3>8
    <3>10. /\ next2 = [u \in Tmr |-> IF u = t THEN p1 ELSE IF u = p0 THEN t ELSE w1.NextPtr[u]]
           /\ prev2 = [u \in Tmr |-> IF u = t THEN p0 ELSE IF u = p1 THEN t ELSE w1.PrevPtr[u]]
           /\ first2 = [w1.FirstPtr EXCEPT ![s] = IF p0 = NoTmr THEN t ELSE w1.FirstPtr[s]]
           /\ nbr2 = [w1.NbrEntries EXCEPT ![s] = IF p0 = NoTmr /\ p1 = NoTmr THEN 1 ELSE w1.NbrEntries[s] + 1]
      BY <2>1, Zenon
    <3> HIDE DEF next2, prev2, first2, nbr2
    <3> QED
      BY <3>9, <3>10 DEF LinkBetween
  <2> HIDE DEF w1, state2, match2, next2, prev2, first2, nbr2
  <2> QED
    BY <1>16, <2>2 DEF Wheels
<1>19. /\ first2 \in [Spoke -> Tmr \cup {NoTmr}] /\ next2 \in [Tmr -> Tmr \cup {NoTmr}]
       /\ prev2 \in [Tmr -> Tmr \cup {NoTmr}] /\ match2 \in [Tmr -> Tick]
       /\ state2 \in [Tmr -> {"UNUSED", "STOPPED", "RUNNING", "COMPLETED"}]
       /\ nbr2 \in [Spoke -> Nat]
  <2> HIDE DEF p0, p1, s, l
  <2>1. first2 \in [Spoke -> Tmr \cup {NoTmr}] /\ nbr2 \in [Spoke -> Nat]
    BY <1>0, <1>2
  <2>2. next2 \in [Tmr -> Tmr \cup {NoTmr}] /\ prev2 \in [Tmr -> Tmr \cup {NoTmr}]
    BY <1>0, <1>15
  <2>3. match2 \in [Tmr -> Tick] /\ state2 \in [Tmr -> {"UNUSED", "STOPPED", "RUNNING", "COMPLETED"}]
    BY <1>0, <1>1
  <2> QED
    BY <2>1, <2>2, <2>3
<1>20. /\ w2 \in Wheels
       /\ w2.State = state2 /\ w2.Match = match2 /\ w2.NextPtr = next2 /\ w2.PrevPtr = prev2
       /\ w2.FirstPtr = first2 /\ w2.NbrEntries = nbr2
  <2> HIDE DEF first2, next2, prev2, state2, nbr2, match2
  <2> QED
    BY <1>18, <1>19 DEF Wheels
<1>21. \A x \in Spoke : first2[x] \in {w.FirstPtr[x], t}
  <2> HIDE DEF p0, s
  <2> QED
    BY <1>0, <1>2
<1> DEFINE M == [x \in Spoke |-> IF x = s THEN Ins(l, n, k, t) ELSE L[x]]
<1>22. /\ nbr2[s] = n + 1 /\ \A x \in Spoke \ {s} : nbr2[x] = w.NbrEntries[x]
       /\ M[s] = Ins(l, n, k, t) /\ \A x \in Spoke \ {s} : M[x] = L[x]
       /\ first2[s] = (IF k = 1 THEN t ELSE w.FirstPtr[s])
       /\ \A x \in Spoke \ {s} : first2[x] = w.FirstPtr[x]
  <2> HIDE DEF s, l, p0, p1, k
  <2> QED
    BY <1>0, <1>2, <1>13, <1>15
<1> HIDE DEF k, p0, p1, later, w1
<1>23. ASSUME NEW x \in Spoke
       PROVE  Strung(first2[x], next2, prev2, nbr2[x], M[x])
  <2>1. CASE x = s
    <3>1. /\ \A u \in Tmr : next2[u] = IF u = t THEN p1 ELSE IF u = p0 THEN t ELSE w.NextPtr[u]
          /\ \A u \in Tmr : prev2[u] = IF u = t THEN p0 ELSE IF u = p1 THEN t ELSE w.PrevPtr[u]
      OBVIOUS
    <3> HIDE DEF next2, prev2, s, l, n
    <3>2. Strung(IF k = 1 THEN t ELSE w.FirstPtr[s], next2, prev2, n + 1, Ins(l, n, k, t))
      BY <1>2, <1>3, <1>8, <1>12, <1>14, <3>1, StrungIns
    <3> QED
      BY <1>22, <2>1, <3>2
  <2>2. CASE x # s
    <3> DEFINE b == w.NbrEntries[x]
    <3>1. Strung(w.FirstPtr[x], w.NextPtr, w.PrevPtr, b, L[x]) /\ b \in Nat
      BY <1>0, <1>3
    <3>2. ASSUME NEW i \in 1 .. b
          PROVE  next2[L[x][i]] = w.NextPtr[L[x][i]] /\ prev2[L[x][i]] = w.PrevPtr[L[x][i]]
      <4>1. L[x][i] \in Tmr /\ w.Match[L[x][i]] % TmrWheelSize = x /\ L[x][i] # t
        <5>1. L[x][i] \in Tmr
          BY <3>1 DEF Strung
        <5> QED
          BY <1>4, <1>7, <5>1
      <4>2. \A j \in 1 .. n : l[j] \in Tmr /\ w.Match[l[j]] % TmrWheelSize = s
        <5>1. \A j \in 1 .. n : l[j] \in Tmr /\ \E i2 \in 1 .. w.NbrEntries[s] : L[s][i2] = l[j]
          BY <1>6
        <5> HIDE DEF l, n, s
        <5> QED
          BY <1>2, <1>4, <5>1
      <4>3. \A j \in 1 .. n : L[x][i] # l[j]
        BY <2>2, <4>1, <4>2
      <4>4. L[x][i] # p0 /\ L[x][i] # p1
        <5>1. (k # 1 => k - 1 \in 1 .. n) /\ (k # n + 1 => k \in 1 .. n)
          BY <1>2, <1>12
        <5> HIDE DEF l, n, s
        <5> QED
          BY <1>1, <1>14, <4>1, <4>3, <5>1
      <4> QED
        BY <4>1, <4>4
    <3> HIDE DEF next2, prev2, first2, nbr2, M, s
    <3>3. Strung(w.FirstPtr[x], next2, prev2, b, L[x])
      BY <3>1, <3>2, StrungStays
    <3> QED
      BY <1>22, <2>2, <3>3
  <2> QED
    BY <2>1, <2>2
<1>24. Ins(l, n, k, t) \in [1 .. n + 1 -> Tmr]
       /\ \A i \in 1 .. n + 1 : Ins(l, n, k, t)[i] = IF i < k THEN l[i] ELSE IF i = k THEN t ELSE l[i - 1]
  <2> HIDE DEF l, n
  <2> QED
    BY <1>2, <1>6, <1>12 DEF Ins
<1>25. ASSUME NEW x \in Spoke, NEW u \in Tmr
       PROVE  (\E i \in 1 .. nbr2[x] : M[x][i] = u)
                <=> state2[u] = "RUNNING" /\ match2[u] % TmrWheelSize = x
  <2>1. /\ state2[t] = "RUNNING" /\ \A v \in Tmr \ {t} : state2[v] = w.State[v]
        /\ match2[t] = m /\ \A v \in Tmr \ {t} : match2[v] = w.Match[v]
    BY <1>0
  <2> HIDE DEF state2, match2, nbr2, M, n, l
  <2>2. CASE x # s
    <3>1. t # u \/ match2[u] % TmrWheelSize # x
      BY <2>1, <2>2
    <3> HIDE DEF s
    <3> QED
      BY <1>4, <1>7, <1>22, <2>1, <2>2, <3>1
  <2>3. CASE x = s
    <3>0. match2[t] % TmrWheelSize = x
      BY <2>1, <2>3
    <3> HIDE DEF s
    <3>1. nbr2[x] = n + 1 /\ M[x] = Ins(l, n, k, t)
      BY <1>22, <2>3
    <3>2. ASSUME NEW i \in 1 .. n + 1, Ins(l, n, k, t)[i] = u
          PROVE  u = t \/ \E j \in 1 .. n : l[j] = u
      <4>1. (i < k => i \in 1 .. n) /\ (i > k => i - 1 \in 1 .. n)
        BY <1>2, <1>12
      <4> QED
        BY <1>2, <1>12, <1>24, <3>2, <4>1
    <3>3. ASSUME NEW j \in 1 .. n, l[j] = u
          PROVE  \E i \in 1 .. n + 1 : Ins(l, n, k, t)[i] = u
      <4>2. CASE j < k
        <5>1. j \in 1 .. n + 1
          BY <1>2, <4>2
        <5> QED
          BY <1>24, <3>3, <4>2, <5>1
      <4>3. CASE ~ (j < k)
        <5>1. j + 1 \in 1 .. n + 1 /\ ~ (j + 1 < k) /\ j + 1 # k /\ j + 1 - 1 = j
          BY <1>2, <1>12, <4>3
        <5> QED
          BY <1>24, <3>3, <5>1
      <4> QED
        BY <4>2, <4>3
    <3>4. \E i \in 1 .. n + 1 : Ins(l, n, k, t)[i] = t
      <4>1. ~ (k < k)
        BY <1>2, <1>12
      <4> QED
        BY <1>12, <1>24, <4>1
    <3>5. (\E j \in 1 .. n : l[j] = u) <=> w.State[u] = "RUNNING" /\ w.Match[u] % TmrWheelSize = x
      BY <1>2, <1>4, <2>3 DEF n, l
    <3>6. CASE u = t
      BY <2>1, <3>0, <3>1, <3>4, <3>6
    <3>7. CASE u # t
      BY <2>1, <3>1, <3>2, <3>3, <3>5, <3>7
    <3> QED
      BY <3>6, <3>7
  <2> QED
    BY <2>2, <2>3
<1>26. ASSUME NEW x \in Spoke, NEW i \in 1 .. nbr2[x], NEW j \in 1 .. nbr2[x], i < j
       PROVE  Rem(match2[M[x][i]], c) <= Rem(match2[M[x][j]], c)
  <2> HIDE DEF nbr2, M, match2
  <2>1. CASE x # s
    <3>1. i \in 1 .. w.NbrEntries[x] /\ j \in 1 .. w.NbrEntries[x] /\ M[x] = L[x]
      BY <1>22, <2>1
    <3>2. Strung(w.FirstPtr[x], w.NextPtr, w.PrevPtr, w.NbrEntries[x], L[x])
      BY <1>3
    <3>3. L[x] \in [1 .. w.NbrEntries[x] -> Tmr]
      BY <3>2 DEF Strung
    <3>4. L[x][i] \in Tmr \ {t} /\ L[x][j] \in Tmr \ {t}
      BY <1>7, <3>1, <3>3
    <3> QED
      BY <1>5, <1>16, <1>26, <3>1, <3>4
  <2>2. CASE x = s
    <3>1. \A a \in 1 .. n : Rem(match2[l[a]], c) = R[a]
      BY <1>6, <1>8, <1>16
    <3>2. Rem(match2[t], c) = d
      BY <1>1, <1>16
    <3> HIDE DEF s, l, n, R
    <3>3. i \in 1 .. n + 1 /\ j \in 1 .. n + 1 /\ M[x] = Ins(l, n, k, t)
      BY <1>22, <2>2
    <3> DEFINE a == IF i < k THEN i ELSE i - 1
               b == IF j < k THEN j ELSE j - 1
    <3>4. (i # k => a \in 1 .. n) /\ (j # k => b \in 1 .. n)
      BY <1>2, <1>12, <3>3
    <3>5. /\ i # k => Rem(match2[M[x][i]], c) = R[a]
          /\ j # k => Rem(match2[M[x][j]], c) = R[b]
          /\ i = k => Rem(match2[M[x][i]], c) = d
          /\ j = k => Rem(match2[M[x][j]], c) = d
      BY <1>2, <1>12, <1>24, <3>1, <3>2, <3>3, <3>4
    <3>6. CASE i # k /\ j # k
      <4>1. a < b
        BY <1>2, <1>12, <1>26, <3>3, <3>6
      <4> HIDE DEF a, b
      <4> QED
        BY <1>11, <3>4, <3>5, <3>6, <4>1
    <3>7. CASE i = k
      <4>1. j # k /\ ~ (b < k)
        BY <1>2, <1>12, <1>26, <3>3, <3>7
      <4> HIDE DEF a, b
      <4> QED
        BY <1>12, <3>4, <3>5, <3>7, <4>1
    <3>8. CASE j = k
      <4>1. i # k /\ a < k
        BY <1>2, <1>12, <1>26, <3>3, <3>8
      <4> HIDE DEF a, b
      <4>2. R[a] < d /\ R[a] \in Int
        BY <1>10, <1>12, <3>4, <4>1
      <4> QED
        BY <1>1, <3>5, <3>8, <4>1, <4>2
    <3> QED
      BY <3>6, <3>7, <3>8
  <2> QED
    BY <2>1, <2>2
<1>27. WheelAt(w2, OSTmrTickCtr, M)
  <2> HIDE DEF M, first2, next2, prev2, nbr2, state2, match2
  <2> QED
    BY <1>20, <1>23, <1>25, <1>26 DEF WheelAt, c
<1> QED
  BY <1>20, <1>21, <1>27 DEF m
-----------------------------------------------------------------------------
\* The wheel is in order at counter value c.
InOrder(w, c) == w \in Wheels /\ \E L : WheelAt(w, c, L)

\* The timer p that the task looks at runs and is not the one whose callback b
\* runs; if a timer is due at c, the task is in its loop and looks at the first
\* entry of the spoke.
LooksAt(w, c, p, lp, b) ==
  /\ p # NoTmr => lp /\ w.State[p] = "RUNNING" /\ p # b
  /\ \A t \in Tmr : w.State[t] = "RUNNING" /\ w.Match[t] = c =>
       lp /\ p # NoTmr /\ p = w.FirstPtr[c % TmrWheelSize]

\* The inductive invariant of the timers.
TmrInv ==
  /\ OSTmrTickCtr \in Tick /\ loop \in BOOLEAN
  /\ p_tmr \in Tmr \cup {NoTmr} /\ cb \in Tmr \cup {NoTmr}
  /\ InOrder(wh, OSTmrTickCtr)
  /\ LooksAt(wh, OSTmrTickCtr, p_tmr, loop, cb)

\* The types of the fields.
LEMMA WheelFields ==
  ASSUME NEW w \in Wheels
  PROVE  /\ w.State \in [Tmr -> {"UNUSED", "STOPPED", "RUNNING", "COMPLETED"}]
         /\ w.Match \in [Tmr -> Tick] /\ w.NextPtr \in [Tmr -> Tmr \cup {NoTmr}]
         /\ w.PrevPtr \in [Tmr -> Tmr \cup {NoTmr}] /\ w.FirstPtr \in [Spoke -> Tmr \cup {NoTmr}]
         /\ w.NbrEntries \in [Spoke -> Nat] /\ w.fault = FALSE
         /\ \A t \in Tmr : w.Match[t] % TmrWheelSize \in Spoke
<1>1. w.Match \in [Tmr -> Tick]
  BY DEF Wheels
<1>2. \A t \in Tmr : w.Match[t] % TmrWheelSize \in Spoke
  BY <1>1, MatchSpoke
<1> QED
  BY <1>2 DEF Wheels

\* A spoke with a running timer has a first entry, which expires no later; the
\* first entry of a spoke runs, and so does the one behind a running timer.
LEMMA HeadRuns ==
  ASSUME NEW w, NEW c \in Tick, InOrder(w, c)
  PROVE  /\ \A t \in Tmr : w.State[t] = "RUNNING" =>
              /\ w.FirstPtr[w.Match[t] % TmrWheelSize] \in Tmr
              /\ Rem(w.Match[w.FirstPtr[w.Match[t] % TmrWheelSize]], c) <= Rem(w.Match[t], c)
              /\ w.NextPtr[t] # NoTmr =>
                   w.NextPtr[t] \in Tmr \ {t} /\ w.State[w.NextPtr[t]] = "RUNNING"
         /\ \A s \in Spoke : w.FirstPtr[s] # NoTmr =>
              /\ w.FirstPtr[s] \in Tmr /\ w.State[w.FirstPtr[s]] = "RUNNING"
              /\ w.Match[w.FirstPtr[s]] % TmrWheelSize = s
<1>0. w \in Wheels
  BY DEF InOrder
<1>1. PICK L : WheelAt(w, c, L)
  BY DEF InOrder
<1>2. /\ w.Match \in [Tmr -> Tick] /\ w.NbrEntries \in [Spoke -> Nat]
      /\ \A t \in Tmr : w.Match[t] % TmrWheelSize \in Spoke
      /\ \A a \in Tick : Rem(a, c) \in Int
  <2>1. \A a \in Tick : Rem(a, c) \in Tick
    BY RemTurn
  <2>2. \A a \in Tick : Rem(a, c) \in Int
    BY <2>1, TmrAssumption DEF Tick
  <2> QED
    BY <1>0, <2>2, WheelFields
<1>3. \A x \in Spoke : Strung(w.FirstPtr[x], w.NextPtr, w.PrevPtr, w.NbrEntries[x], L[x])
  BY <1>1 DEF WheelAt
<1>4. \A x \in Spoke, u \in Tmr :
        (\E i \in 1 .. w.NbrEntries[x] : L[x][i] = u)
          <=> w.State[u] = "RUNNING" /\ w.Match[u] % TmrWheelSize = x
  BY <1>1 DEF WheelAt
<1>5. \A x \in Spoke : \A i, j \in 1 .. w.NbrEntries[x] :
        i < j => Rem(w.Match[L[x][i]], c) <= Rem(w.Match[L[x][j]], c)
  BY <1>1 DEF WheelAt
<1>6. ASSUME NEW t \in Tmr, w.State[t] = "RUNNING"
      PROVE  /\ w.FirstPtr[w.Match[t] % TmrWheelSize] \in Tmr
             /\ Rem(w.Match[w.FirstPtr[w.Match[t] % TmrWheelSize]], c) <= Rem(w.Match[t], c)
             /\ w.NextPtr[t] # NoTmr =>
                  w.NextPtr[t] \in Tmr \ {t} /\ w.State[w.NextPtr[t]] = "RUNNING"
  <2> DEFINE s == w.Match[t] % TmrWheelSize
             n == w.NbrEntries[s]
             l == L[s]
  <2>1. s \in Spoke /\ n \in Nat
    BY <1>2
  <2>2. PICK k \in 1 .. n : l[k] = t
    BY <1>4, <1>6, <2>1
  <2>3. Strung(w.FirstPtr[s], w.NextPtr, w.PrevPtr, n, l)
    BY <1>3, <2>1
  <2>4. \A u \in Tmr : (\E i \in 1 .. n : l[i] = u) => w.State[u] = "RUNNING"
    BY <1>4, <2>1
  <2>5. \A i, j \in 1 .. n : i < j => Rem(w.Match[l[i]], c) <= Rem(w.Match[l[j]], c)
    BY <1>5, <2>1
  <2> HIDE DEF s, n, l
  <2>6. /\ l \in [1 .. n -> Tmr] /\ w.FirstPtr[s] = l[1] /\ 1 \in 1 .. n
        /\ w.NextPtr[l[k]] = IF k = n THEN NoTmr ELSE l[k + 1]
        /\ \A i, j \in 1 .. n : l[i] = l[j] => i = j
    BY <2>1, <2>2, <2>3 DEF Strung
  <2>7. w.FirstPtr[s] \in Tmr /\ Rem(w.Match[w.FirstPtr[s]], c) <= Rem(w.Match[t], c)
    <3>1. CASE k = 1
      <4>1. w.FirstPtr[s] = t /\ Rem(w.Match[t], c) \in Int
        BY <1>2, <2>2, <2>6, <3>1
      <4> QED
        BY <4>1
    <3>2. CASE k # 1
      <4>1. 1 < k
        BY <2>1, <3>2
      <4> QED
        BY <2>2, <2>5, <2>6, <4>1
    <3> QED
      BY <3>1, <3>2
  <2>8. w.NextPtr[t] # NoTmr => w.NextPtr[t] \in Tmr \ {t} /\ w.State[w.NextPtr[t]] = "RUNNING"
    <3>1. CASE k = n
      BY <2>2, <2>6, <3>1
    <3>2. CASE k # n
      <4>1. k + 1 \in 1 .. n /\ k + 1 # k
        BY <2>1, <3>2
      <4> QED
        BY <2>2, <2>4, <2>6, <3>2, <4>1
    <3> QED
      BY <3>1, <3>2
  <2> QED
    BY <2>7, <2>8 DEF s
<1>7. ASSUME NEW s \in Spoke, w.FirstPtr[s] # NoTmr
      PROVE  /\ w.FirstPtr[s] \in Tmr /\ w.State[w.FirstPtr[s]] = "RUNNING"
             /\ w.Match[w.FirstPtr[s]] % TmrWheelSize = s
  <2>1. Strung(w.FirstPtr[s], w.NextPtr, w.PrevPtr, w.NbrEntries[s], L[s]) /\ w.NbrEntries[s] \in Nat
    BY <1>2, <1>3
  <2>2. 1 \in 1 .. w.NbrEntries[s] /\ w.FirstPtr[s] = L[s][1] /\ L[s][1] \in Tmr
    BY <1>7, <2>1 DEF Strung
  <2> QED
    BY <1>4, <2>2
<1> QED
  BY <1>6, <1>7

\* Starting a timer keeps the wheel in order, and no due timer loses its place.
LEMMA LinkKeeps ==
  ASSUME NEW w, NEW t \in Tmr, NEW d \in Tick, d # 0, NEW p, NEW lp, NEW b, OSTmrTickCtr \in Tick,
         InOrder(w, OSTmrTickCtr), LooksAt(w, OSTmrTickCtr, p, lp, b), w.State[t] # "RUNNING",
         p \in Tmr \cup {NoTmr}, NEW w2, w2 = OS_TmrLink(w, t, d)
  PROVE  /\ InOrder(w2, OSTmrTickCtr) /\ LooksAt(w2, OSTmrTickCtr, p, lp, b)
         /\ w2.State = [w.State EXCEPT ![t] = "RUNNING"]
         /\ w2.Match = [w.Match EXCEPT ![t] = MatchAfter(d)]
         /\ MatchAfter(d) \in Tick /\ Rem(MatchAfter(d), OSTmrTickCtr) = d
<1> DEFINE c == OSTmrTickCtr
<1>0. w \in Wheels
  BY DEF InOrder
<1>1. PICK L : WheelAt(w, OSTmrTickCtr, L)
  BY DEF InOrder
<1>2. /\ w2 \in Wheels
      /\ w2.State = [w.State EXCEPT ![t] = "RUNNING"]
      /\ w2.Match = [w.Match EXCEPT ![t] = MatchAfter(d)]
      /\ \A s \in Spoke : w2.FirstPtr[s] \in {w.FirstPtr[s], t}
      /\ \E M : WheelAt(w2, OSTmrTickCtr, M)
  BY <1>0, <1>1, LinkWheel
<1>3. InOrder(w2, OSTmrTickCtr)
  BY <1>2 DEF InOrder
<1>4. MatchAfter(d) \in Tick /\ Rem(MatchAfter(d), OSTmrTickCtr) = d
  BY SumTurn DEF MatchAfter
<1>5. /\ w.State \in [Tmr -> {"UNUSED", "STOPPED", "RUNNING", "COMPLETED"}]
      /\ w.Match \in [Tmr -> Tick] /\ c % TmrWheelSize \in Spoke
  BY <1>0, WheelFields, MatchSpoke
<1>6. p # NoTmr => lp /\ w2.State[p] = "RUNNING" /\ p # b
  <2>1. p # NoTmr => p # t /\ p \in Tmr
    BY DEF LooksAt
  <2> QED
    BY <1>2, <1>5, <2>1 DEF LooksAt
<1>7. ASSUME NEW u \in Tmr, w2.State[u] = "RUNNING", w2.Match[u] = c
      PROVE  lp /\ p # NoTmr /\ p = w2.FirstPtr[c % TmrWheelSize]
  <2>1. MatchAfter(d) # c
    BY <1>4, RemTick
  <2>2. u # t /\ w.State[u] = "RUNNING" /\ w.Match[u] = c
    BY <1>2, <1>5, <1>7, <2>1
  <2>3. lp /\ p # NoTmr /\ p = w.FirstPtr[c % TmrWheelSize]
    BY <2>2 DEF LooksAt
  <2>4. w2.FirstPtr[c % TmrWheelSize] # t
    <3>1. Rem(w2.Match[w2.FirstPtr[c % TmrWheelSize]], c) <= Rem(w2.Match[u], c)
      BY <1>3, <1>7, HeadRuns
    <3>2. Rem(w2.Match[u], c) = 0
      BY <1>7, RemTick
    <3>3. Rem(w2.Match[t], c) = d
      BY <1>2, <1>4, <1>5
    <3>4. d \in Int /\ ~ (d <= 0)
      BY TmrAssumption DEF Tick
    <3> QED
      BY <3>1, <3>2, <3>3, <3>4
  <2> QED
    BY <1>2, <1>5, <2>3, <2>4
<1> QED
  BY <1>2, <1>3, <1>4, <1>6, <1>7 DEF LooksAt

\* Taking a timer out keeps the wheel in order.
LEMMA UnlinkKeeps ==
  ASSUME NEW w, NEW t \in Tmr, NEW c \in Tick, InOrder(w, c), w.State[t] = "RUNNING",
         NEW w2, w2 = OS_TmrUnlink(w, t)
  PROVE  /\ InOrder(w2, c)
         /\ w2.State = [w.State EXCEPT ![t] = "STOPPED"] /\ w2.Match = w.Match
         /\ \A s \in Spoke : w2.FirstPtr[s] = IF w.FirstPtr[s] = t THEN w.NextPtr[t] ELSE w.FirstPtr[s]
<1>0. w \in Wheels
  BY DEF InOrder
<1>1. PICK L : WheelAt(w, c, L)
  BY DEF InOrder
<1>2. /\ w2 \in Wheels
      /\ w2.State = [w.State EXCEPT ![t] = "STOPPED"] /\ w2.Match = w.Match
      /\ \A s \in Spoke : w2.FirstPtr[s] = IF w.FirstPtr[s] = t THEN w.NextPtr[t] ELSE w.FirstPtr[s]
      /\ \E M : WheelAt(w2, c, M)
  BY <1>0, <1>1, UnlinkWheel
<1> QED
  BY <1>2 DEF InOrder

\* Stopping a timer other than the one the task looks at leaves that one in its place.
LEMMA UnlinkLooks ==
  ASSUME NEW w, NEW t \in Tmr, NEW c \in Tick, InOrder(w, c), w.State[t] = "RUNNING",
         NEW p, NEW lp, NEW b, LooksAt(w, c, p, lp, b), p \in Tmr \cup {NoTmr}, p # t,
         NEW w2, w2 = OS_TmrUnlink(w, t)
  PROVE  LooksAt(w2, c, p, lp, b)
<1>0. w \in Wheels
  BY DEF InOrder
<1>1. /\ w2.State = [w.State EXCEPT ![t] = "STOPPED"] /\ w2.Match = w.Match
      /\ \A s \in Spoke : w2.FirstPtr[s] = IF w.FirstPtr[s] = t THEN w.NextPtr[t] ELSE w.FirstPtr[s]
  BY UnlinkKeeps
<1>2. /\ w.State \in [Tmr -> {"UNUSED", "STOPPED", "RUNNING", "COMPLETED"}]
      /\ c % TmrWheelSize \in Spoke
  BY <1>0, WheelFields, MatchSpoke
<1>3. p # NoTmr => lp /\ w2.State[p] = "RUNNING" /\ p # b
  BY <1>1, <1>2 DEF LooksAt
<1>4. ASSUME NEW u \in Tmr, w2.State[u] = "RUNNING", w2.Match[u] = c
      PROVE  lp /\ p # NoTmr /\ p = w2.FirstPtr[c % TmrWheelSize]
  <2>1. w.State[u] = "RUNNING" /\ w.Match[u] = c
    BY <1>1, <1>2, <1>4
  <2>2. lp /\ p # NoTmr /\ p = w.FirstPtr[c % TmrWheelSize]
    BY <2>1 DEF LooksAt
  <2> QED
    BY <1>1, <1>2, <2>2
<1> QED
  BY <1>3, <1>4 DEF LooksAt

\* The states of a timer that was created and does not run.
Resting == {"STOPPED", "COMPLETED"}

\* Timer t with another state, as OSTmrCreate and the end of a one-shot set it.
Restated(w, t, st) == [w EXCEPT !.State[t] = st]

\* A state that is neither running before nor after is no matter of the wheel.
LEMMA RestateKeeps ==
  ASSUME NEW w, NEW t \in Tmr, NEW c \in Tick, InOrder(w, c), w.State[t] # "RUNNING",
         NEW p, NEW lp, NEW b, LooksAt(w, c, p, lp, b), p \in Tmr \cup {NoTmr},
         NEW st, st \in Resting, NEW w2, w2 = Restated(w, t, st)
  PROVE  /\ InOrder(w2, c) /\ LooksAt(w2, c, p, lp, b)
         /\ w2.State = [w.State EXCEPT ![t] = st] /\ w2.Match = w.Match
<1>0. w \in Wheels
  BY DEF InOrder
<1>1. PICK L : WheelAt(w, c, L)
  BY DEF InOrder
<1>2. /\ w2 \in Wheels /\ w2.State = [w.State EXCEPT ![t] = st]
      /\ w2.Match = w.Match /\ w2.FirstPtr = w.FirstPtr /\ w2.NextPtr = w.NextPtr
      /\ w2.PrevPtr = w.PrevPtr /\ w2.NbrEntries = w.NbrEntries
  BY <1>0 DEF Wheels, Restated, Resting
<1>3. \A u \in Tmr : (w2.State[u] = "RUNNING" <=> w.State[u] = "RUNNING")
  BY <1>0, <1>2, WheelFields DEF Resting
<1>4. WheelAt(w2, c, L)
  BY <1>1, <1>2, <1>3 DEF WheelAt
<1> QED
  BY <1>2, <1>3, <1>4 DEF InOrder, LooksAt

\* A tick with nothing due keeps the order of every spoke.
LEMMA TickKeeps ==
  ASSUME NEW w, NEW c \in Tick, InOrder(w, c),
         \A t \in Tmr : w.State[t] = "RUNNING" => w.Match[t] # c
  PROVE  /\ (c + 1) % TickMod \in Tick /\ InOrder(w, (c + 1) % TickMod)
         /\ \A t \in Tmr : w.State[t] = "RUNNING" =>
              Rem(w.Match[t], (c + 1) % TickMod) = Rem(w.Match[t], c) - 1
<1> DEFINE e == (c + 1) % TickMod
<1>0. w \in Wheels
  BY DEF InOrder
<1>1. PICK L : WheelAt(w, c, L)
  BY DEF InOrder
<1>2. e \in Tick
  BY RemTick
<1>3. w.Match \in [Tmr -> Tick] /\ w.NbrEntries \in [Spoke -> Nat]
  BY <1>0, WheelFields
<1>4. \A t \in Tmr : w.State[t] = "RUNNING" => Rem(w.Match[t], e) = Rem(w.Match[t], c) - 1
  BY <1>3, RemTick
<1> HIDE DEF e
<1>5. \A a \in Tick : Rem(a, c) \in Int
  <2>1. \A a \in Tick : Rem(a, c) \in Tick
    BY RemTurn
  <2> QED
    BY <2>1, TmrAssumption DEF Tick
<1>6. ASSUME NEW s \in Spoke, NEW i \in 1 .. w.NbrEntries[s], NEW j \in 1 .. w.NbrEntries[s], i < j
      PROVE  Rem(w.Match[L[s][i]], e) <= Rem(w.Match[L[s][j]], e)
  <2>1. Strung(w.FirstPtr[s], w.NextPtr, w.PrevPtr, w.NbrEntries[s], L[s])
    BY <1>1 DEF WheelAt
  <2>2. L[s][i] \in Tmr /\ L[s][j] \in Tmr
    BY <2>1 DEF Strung
  <2>3. w.State[L[s][i]] = "RUNNING" /\ w.State[L[s][j]] = "RUNNING"
    BY <1>1, <2>2 DEF WheelAt
  <2>4. Rem(w.Match[L[s][i]], c) <= Rem(w.Match[L[s][j]], c)
    BY <1>1, <1>6 DEF WheelAt
  <2>5. Rem(w.Match[L[s][i]], c) \in Int /\ Rem(w.Match[L[s][j]], c) \in Int
    BY <1>3, <1>5, <2>2
  <2> QED
    BY <1>4, <2>2, <2>3, <2>4, <2>5
<1>7. WheelAt(w, e, L)
  BY <1>1, <1>6 DEF WheelAt
<1> QED
  BY <1>0, <1>2, <1>4, <1>7 DEF InOrder, e

\* The delays and periods that timers are started with are ticks, and not zero.
LEMMA DelaysPositive ==
  ASSUME NEW t \in Tmr
  PROVE  /\ InitialDly(t) \in Tick \ {0} /\ Dly[t] \in Tick /\ Period[t] \in Tick
         /\ t \in Periodic => Period[t] # 0
<1>1. Dly[t] \in Tick /\ Period[t] \in Tick
  BY TmrAssumption DEF Tick
<1>2. IF t \in Periodic THEN Period[t] > 0 ELSE Dly[t] > 0
  BY TmrAssumption
<1>3. TickMod \in Nat
  BY TmrAssumption
<1> QED
  BY <1>1, <1>2, <1>3 DEF InitialDly, Tick

\* Without "other" no call, of a task or a callback, is for the timer the task looks at.
LEMMA CallElsewhere ==
  ASSUME TmrInv, "other" \notin Touch, NEW t \in Tmr, MayCall(t)
  PROVE  p_tmr # t
<1>1. NoTmr \notin Tmr
  BY TmrAssumption
<1> QED
  BY <1>1 DEF TmrInv, LooksAt, MayCall

\* What a start does, of a running timer or another.
LEMMA StartStep ==
  ASSUME TmrInv, "other" \notin Touch, NEW t \in Tmr, OSTmrStart(t)
  PROVE  /\ TmrInv'
         /\ wh.State[t] # "UNUSED"
         /\ wh'.State = [wh.State EXCEPT ![t] = "RUNNING"]
         /\ \A u \in Tmr \ {t} : wh'.Match[u] = wh.Match[u]
         /\ Rem(wh'.Match[t], OSTmrTickCtr) = InitialDly(t)
<1> DEFINE d == InitialDly(t)
           w1 == IF wh.State[t] = "RUNNING" THEN OS_TmrUnlink(wh, t) ELSE wh
           c == OSTmrTickCtr
<1>1. /\ MayCall(t) /\ wh.State[t] # "UNUSED" /\ wh' = OS_TmrLink(w1, t, d)
      /\ UNCHANGED <<OSTmrTickCtr, sig, p_tmr, loop, cb>>
  BY DEF OSTmrStart
<1>2. p_tmr # t
  BY <1>1, CallElsewhere
<1>3. /\ c \in Tick /\ loop \in BOOLEAN /\ p_tmr \in Tmr \cup {NoTmr} /\ cb \in Tmr \cup {NoTmr}
      /\ InOrder(wh, c) /\ LooksAt(wh, c, p_tmr, loop, cb)
  BY DEF TmrInv
<1>4. wh.State \in [Tmr -> {"UNUSED", "STOPPED", "RUNNING", "COMPLETED"}] /\ wh.Match \in [Tmr -> Tick]
  BY <1>3, WheelFields DEF InOrder
<1>5. /\ InOrder(w1, c) /\ LooksAt(w1, c, p_tmr, loop, cb) /\ w1.State[t] # "RUNNING"
      /\ w1.Match = wh.Match /\ w1.State \in [Tmr -> {"UNUSED", "STOPPED", "RUNNING", "COMPLETED"}]
      /\ \A u \in Tmr \ {t} : w1.State[u] = wh.State[u]
  <2>1. CASE wh.State[t] = "RUNNING"
    <3> DEFINE z == OS_TmrUnlink(wh, t)
    <3>1. w1 = z
      BY <2>1
    <3>2. InOrder(z, c) /\ z.State = [wh.State EXCEPT ![t] = "STOPPED"] /\ z.Match = wh.Match
      BY <1>3, <2>1, UnlinkKeeps
    <3>3. LooksAt(z, c, p_tmr, loop, cb)
      BY <1>2, <1>3, <2>1, UnlinkLooks
    <3> HIDE DEF z, w1
    <3> QED
      BY <1>4, <3>1, <3>2, <3>3
  <2>2. CASE wh.State[t] # "RUNNING"
    BY <1>3, <1>4, <2>2
  <2> QED
    BY <2>1, <2>2
<1>6. d \in Tick /\ d # 0
  BY DelaysPositive
<1> HIDE DEF d, w1
<1>7. /\ InOrder(wh', c) /\ LooksAt(wh', c, p_tmr, loop, cb)
      /\ wh'.State = [w1.State EXCEPT ![t] = "RUNNING"]
      /\ wh'.Match = [w1.Match EXCEPT ![t] = MatchAfter(d)]
      /\ MatchAfter(d) \in Tick /\ Rem(MatchAfter(d), c) = d
  BY <1>1, <1>3, <1>5, <1>6, LinkKeeps
<1>8. wh'.State = [wh.State EXCEPT ![t] = "RUNNING"]
  BY <1>4, <1>5, <1>7
<1>9. (\A u \in Tmr \ {t} : wh'.Match[u] = wh.Match[u]) /\ Rem(wh'.Match[t], c) = d
  BY <1>4, <1>5, <1>7
<1>10. TmrInv'
  BY <1>1, <1>3, <1>7 DEF TmrInv
<1> QED
  BY <1>1, <1>8, <1>9, <1>10 DEF d

\* What a stop does.
LEMMA StopStep ==
  ASSUME TmrInv, "other" \notin Touch, NEW t \in Tmr, NEW callback \in BOOLEAN, OSTmrStop(t, callback)
  PROVE  /\ TmrInv'
         /\ wh.State[t] = "RUNNING"
         /\ wh'.State = [wh.State EXCEPT ![t] = "STOPPED"] /\ wh'.Match = wh.Match
<1> DEFINE c == OSTmrTickCtr
<1>1. /\ MayCall(t) /\ wh.State[t] = "RUNNING" /\ wh' = OS_TmrUnlink(wh, t)
      /\ cb' = (IF callback THEN t ELSE cb) /\ UNCHANGED <<OSTmrTickCtr, sig, p_tmr, loop>>
  BY DEF OSTmrStop
<1>2. p_tmr # t
  BY <1>1, CallElsewhere
<1>3. /\ c \in Tick /\ loop \in BOOLEAN /\ p_tmr \in Tmr \cup {NoTmr} /\ cb \in Tmr \cup {NoTmr}
      /\ InOrder(wh, c) /\ LooksAt(wh, c, p_tmr, loop, cb)
  BY DEF TmrInv
<1>4. InOrder(wh', c) /\ wh'.State = [wh.State EXCEPT ![t] = "STOPPED"] /\ wh'.Match = wh.Match
  BY <1>1, <1>3, UnlinkKeeps
<1>5. LooksAt(wh', c, p_tmr, loop, cb)
  BY <1>1, <1>2, <1>3, UnlinkLooks
<1>6. LooksAt(wh', c, p_tmr, loop, cb')
  BY <1>1, <1>2, <1>5 DEF LooksAt
<1>7. TmrInv'
  BY <1>1, <1>3, <1>4, <1>6 DEF TmrInv
<1> QED
  BY <1>1, <1>4, <1>7

\* What an expiry does: it is that of the first entry.
LEMMA ExpireStep ==
  ASSUME TmrInv, TmrTaskExpire
  PROVE  /\ TmrInv'
         /\ loop /\ p_tmr \in Tmr /\ wh.State[p_tmr] = "RUNNING" /\ wh.Match[p_tmr] = OSTmrTickCtr
         /\ wh'.State = [wh.State EXCEPT ![p_tmr] = IF p_tmr \in Periodic THEN "RUNNING" ELSE "COMPLETED"]
         /\ \A u \in Tmr \ {p_tmr} : wh'.Match[u] = wh.Match[u]
         /\ p_tmr \in Periodic => Rem(wh'.Match[p_tmr], OSTmrTickCtr) = Period[p_tmr]
<1> DEFINE c == OSTmrTickCtr
           t == p_tmr
           w1 == OS_TmrUnlink(wh, t)
           nx == wh.NextPtr[t]
<1>1. /\ loop /\ cb = NoTmr /\ t # NoTmr /\ wh.Match[t] = c
      /\ wh' = (IF t \in Periodic THEN OS_TmrLink(w1, t, Period[t])
                ELSE [w1 EXCEPT !.State[t] = "COMPLETED"])
      /\ p_tmr' = nx /\ cb' = t /\ UNCHANGED <<OSTmrTickCtr, sig, loop>>
  BY DEF TmrTaskExpire
<1>2. /\ c \in Tick /\ loop \in BOOLEAN /\ t \in Tmr
      /\ InOrder(wh, c) /\ LooksAt(wh, c, p_tmr, loop, cb) /\ wh.State[t] = "RUNNING"
  BY <1>1 DEF TmrInv, LooksAt
<1>3. /\ wh.State \in [Tmr -> {"UNUSED", "STOPPED", "RUNNING", "COMPLETED"}] /\ wh.Match \in [Tmr -> Tick]
      /\ nx \in Tmr \cup {NoTmr} /\ c % TmrWheelSize \in Spoke
  BY <1>2, WheelFields, MatchSpoke DEF InOrder
<1>4. /\ InOrder(w1, c) /\ w1.State = [wh.State EXCEPT ![t] = "STOPPED"] /\ w1.Match = wh.Match
      /\ \A s \in Spoke : w1.FirstPtr[s] = IF wh.FirstPtr[s] = t THEN nx ELSE wh.FirstPtr[s]
  BY <1>2, UnlinkKeeps
<1>5. nx # NoTmr => nx \in Tmr \ {t} /\ wh.State[nx] = "RUNNING"
  BY <1>2, HeadRuns
<1> HIDE DEF w1, nx
<1>6. LooksAt(w1, c, nx, TRUE, t)
  <2>1. nx # NoTmr => w1.State[nx] = "RUNNING" /\ nx # t
    BY <1>3, <1>4, <1>5
  <2>2. ASSUME NEW u \in Tmr, w1.State[u] = "RUNNING", w1.Match[u] = c
        PROVE  nx # NoTmr /\ nx = w1.FirstPtr[c % TmrWheelSize]
    <3>1. wh.FirstPtr[c % TmrWheelSize] = t
      BY <1>1, <1>2 DEF LooksAt
    <3>2. w1.FirstPtr[c % TmrWheelSize] = nx
      BY <1>3, <1>4, <3>1
    <3>3. w1.FirstPtr[c % TmrWheelSize] \in Tmr
      BY <1>2, <1>4, <2>2, HeadRuns
    <3> QED
      BY <3>2, <3>3, TmrAssumption
  <2> QED
    BY <2>1, <2>2 DEF LooksAt
<1>7. w1.State[t] # "RUNNING"
  BY <1>2, <1>3, <1>4
<1>8. CASE t \in Periodic
  <2> DEFINE d == Period[t]
  <2>1. d \in Tick /\ d # 0
    BY <1>2, <1>8, DelaysPositive
  <2>2. wh' = OS_TmrLink(w1, t, d)
    BY <1>1, <1>8
  <2> HIDE DEF d
  <2>3. /\ InOrder(wh', c) /\ LooksAt(wh', c, nx, TRUE, t)
        /\ wh'.State = [w1.State EXCEPT ![t] = "RUNNING"]
        /\ wh'.Match = [w1.Match EXCEPT ![t] = MatchAfter(d)]
        /\ MatchAfter(d) \in Tick /\ Rem(MatchAfter(d), c) = d
    BY <1>2, <1>3, <1>4, <1>6, <1>7, <2>1, <2>2, LinkKeeps
  <2>4. wh'.State = [wh.State EXCEPT ![t] = "RUNNING"]
    BY <1>3, <1>4, <2>3
  <2>5. (\A u \in Tmr \ {t} : wh'.Match[u] = wh.Match[u]) /\ Rem(wh'.Match[t], c) = d
    BY <1>2, <1>3, <1>4, <2>3
  <2>6. TmrInv'
    BY <1>1, <1>2, <1>3, <2>3 DEF TmrInv
  <2> QED
    BY <1>1, <1>2, <1>8, <2>4, <2>5, <2>6 DEF d
<1>9. CASE t \notin Periodic
  <2>1. wh' = [w1 EXCEPT !.State[t] = "COMPLETED"]
    BY <1>1, <1>9
  <2>2. /\ InOrder(wh', c) /\ LooksAt(wh', c, nx, TRUE, t)
        /\ wh'.State = [w1.State EXCEPT ![t] = "COMPLETED"] /\ wh'.Match = w1.Match
    <3> DEFINE st == "COMPLETED"
    <3>1. st \in Resting /\ wh' = Restated(w1, t, st)
      BY <2>1 DEF Restated, Resting
    <3> HIDE DEF st
    <3>2. /\ InOrder(wh', c) /\ LooksAt(wh', c, nx, TRUE, t)
          /\ wh'.State = [w1.State EXCEPT ![t] = st] /\ wh'.Match = w1.Match
      <4>1. c \in Tick /\ t \in Tmr /\ nx \in Tmr \cup {NoTmr} /\ InOrder(w1, c)
        BY <1>2, <1>3, <1>4
      <4> DEFINE lp == TRUE
      <4>2. LooksAt(w1, c, nx, lp, t)
        BY <1>6
      <4> HIDE DEF lp
      <4>3. /\ InOrder(wh', c) /\ LooksAt(wh', c, nx, lp, t)
            /\ wh'.State = [w1.State EXCEPT ![t] = st] /\ wh'.Match = w1.Match
        BY <1>7, <3>1, <4>1, <4>2, RestateKeeps
      <4> QED
        BY <4>3 DEF lp
    <3> QED
      BY <3>2 DEF st
  <2>3. wh'.State = [wh.State EXCEPT ![t] = "COMPLETED"]
    BY <1>3, <1>4, <2>2
  <2>4. TmrInv'
    BY <1>1, <1>2, <1>3, <2>2 DEF TmrInv
  <2> QED
    BY <1>1, <1>2, <1>4, <1>9, <2>2, <2>3, <2>4
<1> QED
  BY <1>8, <1>9

\* What a creation does.
LEMMA CreateStep ==
  ASSUME TmrInv, NEW t \in Tmr, OSTmrCreate(t)
  PROVE  /\ TmrInv'
         /\ wh.State[t] = "UNUSED"
         /\ wh'.State = [wh.State EXCEPT ![t] = "STOPPED"] /\ wh'.Match = wh.Match
<1> DEFINE c == OSTmrTickCtr
           st == "STOPPED"
<1>1. /\ wh.State[t] = "UNUSED" /\ wh' = Restated(wh, t, st) /\ st \in Resting
      /\ UNCHANGED <<OSTmrTickCtr, sig, p_tmr, loop, cb>>
  BY DEF OSTmrCreate, Restated, Resting
<1>2. /\ c \in Tick /\ loop \in BOOLEAN /\ p_tmr \in Tmr \cup {NoTmr} /\ cb \in Tmr \cup {NoTmr}
      /\ InOrder(wh, c) /\ LooksAt(wh, c, p_tmr, loop, cb)
  BY DEF TmrInv
<1>3. wh.State[t] # "RUNNING"
  BY <1>1
<1> HIDE DEF st
<1>4. /\ InOrder(wh', c) /\ LooksAt(wh', c, p_tmr, loop, cb)
      /\ wh'.State = [wh.State EXCEPT ![t] = st] /\ wh'.Match = wh.Match
  BY <1>1, <1>2, <1>3, RestateKeeps
<1>5. TmrInv'
  BY <1>1, <1>2, <1>4 DEF TmrInv
<1> QED
  BY <1>1, <1>4, <1>5 DEF st

\* The timer task finds nothing due when it takes a signal, and all due timers
\* behind the pointer it starts with.
LEMMA TaskStep ==
  ASSUME TmrInv, OS_TmrTask
  PROVE  /\ TmrInv' /\ wh' = wh /\ loop' /\ OSTmrTickCtr' = (OSTmrTickCtr + 1) % TickMod
         /\ \A t \in Tmr : wh.State[t] = "RUNNING" =>
              /\ wh.Match[t] # OSTmrTickCtr
              /\ Rem(wh.Match[t], OSTmrTickCtr') = Rem(wh.Match[t], OSTmrTickCtr) - 1
<1> DEFINE c == OSTmrTickCtr
           e == (OSTmrTickCtr + 1) % TickMod
<1>1. /\ ~loop /\ cb = NoTmr /\ OSTmrTickCtr' = e
      /\ p_tmr' = wh.FirstPtr[OSTmrTickCtr' % TmrWheelSize] /\ loop' = TRUE /\ UNCHANGED <<wh, cb>>
  BY DEF OS_TmrTask
<1>2. /\ c \in Tick /\ cb \in Tmr \cup {NoTmr} /\ InOrder(wh, c) /\ LooksAt(wh, c, p_tmr, loop, cb)
  BY DEF TmrInv
<1>3. \A t \in Tmr : wh.State[t] = "RUNNING" => wh.Match[t] # c
  BY <1>1, <1>2 DEF LooksAt
<1>4. /\ e \in Tick /\ InOrder(wh, e)
      /\ \A t \in Tmr : wh.State[t] = "RUNNING" => Rem(wh.Match[t], e) = Rem(wh.Match[t], c) - 1
  BY <1>2, <1>3, TickKeeps
<1> HIDE DEF e
<1> DEFINE p == wh.FirstPtr[e % TmrWheelSize]
<1>5. e % TmrWheelSize \in Spoke /\ p \in Tmr \cup {NoTmr}
  BY <1>4, MatchSpoke, WheelFields DEF InOrder
<1>6. p # NoTmr => wh.State[p] = "RUNNING" /\ p \in Tmr
  BY <1>4, <1>5, HeadRuns
<1>7. ASSUME NEW t \in Tmr, wh.State[t] = "RUNNING", wh.Match[t] = e
      PROVE  p # NoTmr
  <2>1. wh.FirstPtr[wh.Match[t] % TmrWheelSize] \in Tmr
    BY <1>4, <1>7, HeadRuns
  <2> QED
    BY <1>7, <2>1, TmrAssumption
<1>8. LooksAt(wh, e, p, TRUE, NoTmr)
  BY <1>6, <1>7 DEF LooksAt
<1>9. p_tmr' = p
  BY <1>1
<1>10. /\ OSTmrTickCtr' \in Tick /\ loop' \in BOOLEAN /\ p_tmr' \in Tmr \cup {NoTmr} /\ cb' \in Tmr \cup {NoTmr}
       /\ InOrder(wh', OSTmrTickCtr') /\ LooksAt(wh', OSTmrTickCtr', p_tmr', loop', cb')
  BY <1>1, <1>2, <1>4, <1>5, <1>8, <1>9
<1>11. TmrInv'
  BY <1>10 DEF TmrInv
<1> QED
  BY <1>1, <1>3, <1>4, <1>11 DEF e

\* The loop ends with nothing due.
LEMMA DoneStep ==
  ASSUME TmrInv, TmrTaskDone
  PROVE  /\ TmrInv' /\ UNCHANGED <<wh, OSTmrTickCtr>> /\ ~loop'
         /\ \A t \in Tmr : wh.State[t] = "RUNNING" => wh.Match[t] # OSTmrTickCtr
<1> DEFINE c == OSTmrTickCtr
<1>1. /\ (p_tmr # NoTmr => wh.Match[p_tmr] # c)
      /\ loop' = FALSE /\ p_tmr' = NoTmr /\ UNCHANGED <<wh, OSTmrTickCtr, sig, cb>>
  BY DEF TmrTaskDone
<1>2. /\ c \in Tick /\ p_tmr \in Tmr \cup {NoTmr} /\ cb \in Tmr \cup {NoTmr}
      /\ InOrder(wh, c) /\ LooksAt(wh, c, p_tmr, loop, cb)
  BY DEF TmrInv
<1>3. ASSUME NEW t \in Tmr, wh.State[t] = "RUNNING", wh.Match[t] = c
      PROVE  FALSE
  <2>1. p_tmr # NoTmr /\ p_tmr = wh.FirstPtr[c % TmrWheelSize] /\ p_tmr \in Tmr
    BY <1>2, <1>3 DEF LooksAt
  <2>2. Rem(wh.Match[wh.FirstPtr[wh.Match[t] % TmrWheelSize]], c) <= Rem(wh.Match[t], c)
    BY <1>2, <1>3, HeadRuns
  <2>3. Rem(wh.Match[p_tmr], c) <= Rem(c, c)
    BY <1>3, <2>1, <2>2
  <2>4. wh.Match[p_tmr] \in Tick
    BY <1>2, <2>1, WheelFields DEF InOrder
  <2>5. Rem(c, c) = 0 /\ Rem(wh.Match[p_tmr], c) \in Tick
    BY <1>2, <2>4, RemTick, RemTurn
  <2>6. Rem(wh.Match[p_tmr], c) = 0
    BY <2>3, <2>5, TmrAssumption DEF Tick
  <2>7. wh.Match[p_tmr] = c
    BY <1>2, <2>4, <2>6, RemTick
  <2> QED
    BY <1>1, <2>1, <2>7
<1>4. /\ OSTmrTickCtr' \in Tick /\ loop' \in BOOLEAN /\ p_tmr' \in Tmr \cup {NoTmr} /\ cb' \in Tmr \cup {NoTmr}
      /\ InOrder(wh', OSTmrTickCtr')
  BY <1>1, <1>2
<1>5. LooksAt(wh', OSTmrTickCtr', p_tmr', loop', cb')
  BY <1>1, <1>3 DEF LooksAt
<1>6. TmrInv'
  BY <1>4, <1>5 DEF TmrInv
<1> QED
  BY <1>1, <1>3, <1>6

\* The empty wheel is in order.
LEMMA InitTmr == TmrInit => TmrInv
<1> SUFFICES ASSUME TmrInit
             PROVE  TmrInv
  OBVIOUS
<1>1. 0 \in Tick
  BY TmrAssumption DEF Tick
<1>2. /\ wh.State = [t \in Tmr |-> "UNUSED"] /\ wh.FirstPtr = [s \in Spoke |-> NoTmr]
      /\ wh.NbrEntries = [s \in Spoke |-> 0]
      /\ OSTmrTickCtr = 0 /\ p_tmr = NoTmr /\ loop = FALSE /\ cb = NoTmr
  BY DEF TmrInit
<1>3. wh \in Wheels
  BY <1>1 DEF TmrInit, Wheels
<1> DEFINE L == [s \in Spoke |-> [i \in 1 .. 0 |-> NoTmr]]
<1>4. WheelAt(wh, 0, L)
  <2>1. ASSUME NEW s \in Spoke
        PROVE  Strung(wh.FirstPtr[s], wh.NextPtr, wh.PrevPtr, wh.NbrEntries[s], L[s])
    <3>1. wh.FirstPtr[s] = NoTmr /\ wh.NbrEntries[s] = 0 /\ L[s] \in [1 .. 0 -> Tmr]
      BY <1>2
    <3> HIDE DEF L
    <3> QED
      BY <3>1 DEF Strung
  <2> HIDE DEF L
  <2> QED
    BY <1>2, <2>1 DEF WheelAt
<1>5. LooksAt(wh, 0, NoTmr, FALSE, NoTmr)
  BY <1>2 DEF LooksAt
<1> HIDE DEF L
<1> QED
  BY <1>1, <1>2, <1>3, <1>4, <1>5 DEF TmrInv, InOrder

\* Every step keeps the invariant, if callbacks leave running timers alone.
LEMMA NextTmr == "other" \notin Touch /\ TmrInv /\ [TmrNext]_tmrvars => TmrInv'
<1> SUFFICES ASSUME "other" \notin Touch, TmrInv, [TmrNext]_tmrvars
             PROVE  TmrInv'
  OBVIOUS
<1>1. CASE \E t \in Tmr : OSTmrCreate(t)
  BY <1>1, CreateStep
<1>2. CASE \E t \in Tmr : OSTmrStart(t)
  BY <1>2, StartStep
<1>3. CASE \E t \in Tmr, callback \in BOOLEAN : OSTmrStop(t, callback)
  BY <1>3, StopStep
<1>4. CASE Signal
  BY <1>4 DEF Signal, TmrInv
<1>5. CASE OS_TmrTask
  BY <1>5, TaskStep
<1>6. CASE TmrTaskExpire
  BY <1>6, ExpireStep
<1>7. CASE TmrTaskDone
  BY <1>7, DoneStep
<1>8. CASE CallbackReturn
  BY <1>8 DEF CallbackReturn, TmrInv, LooksAt
<1>9. CASE UNCHANGED tmrvars
  BY <1>9 DEF tmrvars, TmrInv
<1> QED
  BY <1>1, <1>2, <1>3, <1>4, <1>5, <1>6, <1>7, <1>8, <1>9 DEF TmrNext

\* The invariant says what TmrWheelIntegrity does.
LEMMA TmrInvIntegrity == TmrInv => TmrWheelIntegrity
<1> SUFFICES ASSUME TmrInv, NEW s \in Spoke
             PROVE  LET list == Entries(wh, s)
                    IN  /\ {list[i] : i \in DOMAIN list}
                             = {t \in Tmr : wh.State[t] = "RUNNING" /\ wh.Match[t] % TmrWheelSize = s}
                        /\ wh.NbrEntries[s] = Len(list)
                        /\ \A i \in DOMAIN list : wh.PrevPtr[list[i]] = IF i = 1 THEN NoTmr ELSE list[i - 1]
                        /\ \A i, j \in DOMAIN list : i < j => /\ list[i] # list[j]
                                                              /\ Remain(wh, list[i]) <= Remain(wh, list[j])
  BY DEF TmrWheelIntegrity
<1>1. PICK L : WheelAt(wh, OSTmrTickCtr, L)
  BY DEF TmrInv, InOrder
<1> DEFINE n == wh.NbrEntries[s]
           l == L[s]
<1>2. n \in Nat
  BY WheelFields DEF TmrInv, InOrder
<1>3. Strung(wh.FirstPtr[s], wh.NextPtr, wh.PrevPtr, n, l)
  BY <1>1 DEF WheelAt
<1>4. \A t \in Tmr : (\E i \in 1 .. n : l[i] = t) <=> wh.State[t] = "RUNNING" /\ wh.Match[t] % TmrWheelSize = s
  BY <1>1 DEF WheelAt
<1>5. \A i, j \in 1 .. n : i < j => Remain(wh, l[i]) <= Remain(wh, l[j])
  BY <1>1 DEF WheelAt, Rem, Remain
<1> HIDE DEF n, l
<1>6. Entries(wh, s) = l
  BY <1>2, <1>3, EntriesAre
<1>7. /\ l \in [1 .. n -> Tmr] /\ DOMAIN l = 1 .. n /\ Len(l) = n
      /\ \A i \in 1 .. n : wh.PrevPtr[l[i]] = IF i = 1 THEN NoTmr ELSE l[i - 1]
      /\ \A i, j \in 1 .. n : l[i] = l[j] => i = j
  BY <1>2, <1>3 DEF Strung
<1>8. {l[i] : i \in 1 .. n} = {t \in Tmr : wh.State[t] = "RUNNING" /\ wh.Match[t] % TmrWheelSize = s}
  BY <1>4, <1>7
<1>9. \A i, j \in 1 .. n : i < j => l[i] # l[j] /\ Remain(wh, l[i]) <= Remain(wh, l[j])
  BY <1>5, <1>7
<1> QED
  BY <1>6, <1>7, <1>8, <1>9 DEF n
-----------------------------------------------------------------------------
\* Every running timer is on the spoke of its match value, once and in the order of
\* expiry, for every number of timers, wheel size and counter width, whatever tasks
\* and callbacks start and stop (OS_TmrLink, OS_TmrUnlink): as long as a callback
\* leaves the other timers that run alone.
THEOREM TimersWheelIntegrity ==
  ASSUME "other" \notin Touch
  PROVE  TmrSpec => []TmrWheelIntegrity
<1>1. TmrInit => TmrInv
  BY InitTmr
<1>2. TmrInv /\ [TmrNext]_tmrvars => TmrInv'
  BY NextTmr
<1>3. TmrInv => TmrWheelIntegrity
  BY TmrInvIntegrity
<1> QED
  BY <1>1, <1>2, <1>3, PTL DEF TmrSpec

\* Under the same condition no timer is missed: when the task has been through a
\* spoke, no timer is left running whose time was this tick (OS_TmrTask).
THEOREM TimersNoMissedExpiry ==
  ASSUME "other" \notin Touch
  PROVE  TmrSpec => []NoMissedExpiry
<1>1. TmrInit => TmrInv
  BY InitTmr
<1>2. TmrInv /\ [TmrNext]_tmrvars => TmrInv'
  BY NextTmr
<1>3. TmrInv => NoMissedExpiry
  BY DEF TmrInv, LooksAt, NoMissedExpiry
<1> QED
  BY <1>1, <1>2, <1>3, PTL DEF TmrSpec
-----------------------------------------------------------------------------
\* What the countdown sees of the wheel: the ticks left to each timer ...
Left(w, c) == [t \in Tmr |-> IF w.State[t] = "RUNNING" THEN Rem(w.Match[t], c) ELSE 0]

\* ... and the timers whose time this tick is, while the task is at them.
Due(w, c, lp) == IF lp THEN {t \in Tmr : w.State[t] = "RUNNING" /\ w.Match[t] = c} ELSE {}

\* The period as the countdown has it: none for a one-shot.
Again == [t \in Tmr |-> IF t \in Periodic THEN Period[t] ELSE 0]

\* A step that moves timer t alone: it runs for d ticks or not at all, d is 0 then.
MovesOne(w, w2, c, t, d) ==
  /\ \A u \in Tmr \ {t} : w2.State[u] = w.State[u] /\ w2.Match[u] = w.Match[u]
  /\ \/ w2.State[t] = "RUNNING" /\ w2.Match[t] # c /\ Rem(w2.Match[t], c) = d
     \/ w2.State[t] # "RUNNING" /\ d = 0

\* What the countdown sees of such a step.
SeenOne(w, w2, c, t, d, lp) ==
  Left(w2, c) = [Left(w, c) EXCEPT ![t] = d] /\ Due(w2, c, lp) = Due(w, c, lp) \ {t}

\* It sees that timer set to d and not due, and the others as they were.
LEMMA OneMoves ==
  ASSUME NEW w, NEW w2, NEW c, NEW t \in Tmr, NEW d, NEW lp, MovesOne(w, w2, c, t, d)
  PROVE  SeenOne(w, w2, c, t, d, lp)
<1>1. /\ \A u \in Tmr \ {t} : w2.State[u] = w.State[u] /\ w2.Match[u] = w.Match[u]
      /\ \/ w2.State[t] = "RUNNING" /\ w2.Match[t] # c /\ Rem(w2.Match[t], c) = d
         \/ w2.State[t] # "RUNNING" /\ d = 0
  BY DEF MovesOne
<1>2. Left(w2, c) = [Left(w, c) EXCEPT ![t] = d]
  <2> DEFINE f == Left(w2, c)
             g == [Left(w, c) EXCEPT ![t] = d]
  <2>1. f = [u \in Tmr |-> f[u]] /\ g = [u \in Tmr |-> g[u]]
    BY DEF Left
  <2>2. ASSUME NEW u \in Tmr
        PROVE  f[u] = g[u]
    <3>1. f[u] = IF w2.State[u] = "RUNNING" THEN Rem(w2.Match[u], c) ELSE 0
      BY DEF Left
    <3>2. g[u] = IF u = t THEN d ELSE IF w.State[u] = "RUNNING" THEN Rem(w.Match[u], c) ELSE 0
      BY DEF Left
    <3> QED
      BY <1>1, <3>1, <3>2
  <2> HIDE DEF f, g
  <2>3. f = g
    BY <2>1, <2>2
  <2> QED
    BY <2>3 DEF f, g
<1>3. Due(w2, c, lp) = Due(w, c, lp) \ {t}
  BY <1>1 DEF Due
<1> QED
  BY <1>2, <1>3 DEF SeenOne

\* OSTmrRemainGet reports what is left to a running timer.
LEMMA RemainIsLeft ==
  [t \in Tmr |-> IF wh.State[t] = "RUNNING" THEN OSTmrRemainGet(t) ELSE 0] = Left(wh, OSTmrTickCtr)
<1>1. \A t \in Tmr : wh.State[t] = "RUNNING" => OSTmrRemainGet(t) = Rem(wh.Match[t], OSTmrTickCtr)
  BY DEF OSTmrRemainGet, Remain, Rem
<1> QED
  BY <1>1 DEF Left

\* Every step of the wheel is a step of the countdown, or none.
LEMMA CountdownStep ==
  ASSUME "other" \notin Touch, TmrInv, [TmrNext]_tmrvars
  PROVE  [Countdown!Next]_(Countdown!tvars)
<1> DEFINE c  == OSTmrTickCtr
           lf == [t \in Tmr |-> IF wh.State[t] = "RUNNING" THEN OSTmrRemainGet(t) ELSE 0]
           du == IF loop THEN {t \in Tmr : wh.State[t] = "RUNNING" /\ wh.Match[t] = OSTmrTickCtr} ELSE {}
<1>1. lf = Left(wh, c) /\ lf' = Left(wh', c')
  <2>1. lf = Left(wh, c)
    BY RemainIsLeft
  <2>2. \A t \in Tmr : wh'.State[t] = "RUNNING" => OSTmrRemainGet(t)' = Rem(wh'.Match[t], OSTmrTickCtr')
    BY DEF OSTmrRemainGet, Remain, Rem
  <2> QED
    BY <2>1, <2>2 DEF Left
<1>2. du = Due(wh, c, loop) /\ du' = Due(wh', c', loop')
  BY DEF Due
<1>3. /\ wh.State \in [Tmr -> {"UNUSED", "STOPPED", "RUNNING", "COMPLETED"}] /\ wh.Match \in [Tmr -> Tick]
      /\ c \in Tick /\ loop \in BOOLEAN
  BY WheelFields DEF TmrInv, InOrder
<1> HIDE DEF lf, du
<1>4. ASSUME NEW t \in Tmr, OSTmrCreate(t)
      PROVE  Countdown!Create(t)
  <2>1. /\ wh.State[t] = "UNUSED" /\ wh'.State = [wh.State EXCEPT ![t] = "STOPPED"] /\ wh'.Match = wh.Match
    BY <1>4, CreateStep
  <2>2. c' = c /\ loop' = loop
    BY <1>4 DEF OSTmrCreate
  <2>3. lf' = lf /\ du' = du
    <3>1. \A u \in Tmr : (wh'.State[u] = "RUNNING" <=> wh.State[u] = "RUNNING")
      BY <1>3, <2>1
    <3> QED
      BY <1>1, <1>2, <2>1, <2>2, <3>1 DEF Left, Due
  <2> QED
    BY <2>1, <2>3 DEF Countdown!Create, lf, du
<1>5. ASSUME NEW t \in Tmr, OSTmrStart(t)
      PROVE  Countdown!Start(t)
  <2> DEFINE d == InitialDly(t)
  <2>1. /\ wh.State[t] # "UNUSED" /\ wh'.State = [wh.State EXCEPT ![t] = "RUNNING"]
        /\ \A u \in Tmr \ {t} : wh'.Match[u] = wh.Match[u]
        /\ Rem(wh'.Match[t], c) = d /\ TmrInv'
    BY <1>5, StartStep
  <2>2. c' = c /\ loop' = loop
    BY <1>5 DEF OSTmrStart
  <2>3. wh'.Match[t] # c
    <3>1. d # 0
      BY DelaysPositive
    <3>2. Rem(c, c) = 0
      BY <1>3, RemTick
    <3> QED
      BY <2>1, <3>1, <3>2
  <2> HIDE DEF d
  <2>4. Left(wh', c) = [Left(wh, c) EXCEPT ![t] = d] /\ Due(wh', c, loop) = Due(wh, c, loop) \ {t}
    <3>1. MovesOne(wh, wh', c, t, d)
      BY <1>3, <2>1, <2>3 DEF MovesOne
    <3>2. SeenOne(wh, wh', c, t, d, loop)
      BY <3>1, OneMoves
    <3> QED
      BY <3>2 DEF SeenOne
  <2>5. lf' = [lf EXCEPT ![t] = d] /\ du' = du \ {t}
    BY <1>1, <1>2, <2>2, <2>4
  <2>6. d = IF Dly[t] = 0 THEN Again[t] ELSE Dly[t]
    BY TmrAssumption DEF d, InitialDly, Again
  <2>7. lf' = [lf EXCEPT ![t] = IF Dly[t] = 0 THEN Again[t] ELSE Dly[t]]
    BY <2>5, <2>6
  <2> QED
    BY <2>1, <2>5, <2>7 DEF Countdown!Start, lf, du, Again
<1>6. ASSUME NEW t \in Tmr, NEW callback \in BOOLEAN, OSTmrStop(t, callback)
      PROVE  Countdown!Stop(t)
  <2>1. wh.State[t] = "RUNNING" /\ wh'.State = [wh.State EXCEPT ![t] = "STOPPED"] /\ wh'.Match = wh.Match
    BY <1>6, StopStep
  <2>2. c' = c /\ loop' = loop
    BY <1>6 DEF OSTmrStop
  <2>3. \A u \in Tmr \ {t} : wh'.Match[u] = wh.Match[u]
    BY <2>1
  <2>4. Left(wh', c) = [Left(wh, c) EXCEPT ![t] = 0] /\ Due(wh', c, loop) = Due(wh, c, loop) \ {t}
    <3>1. MovesOne(wh, wh', c, t, 0)
      BY <1>3, <2>1, <2>3 DEF MovesOne
    <3>2. SeenOne(wh, wh', c, t, 0, loop)
      BY <3>1, OneMoves
    <3> QED
      BY <3>2 DEF SeenOne
  <2>5. lf' = [lf EXCEPT ![t] = 0] /\ du' = du \ {t}
    BY <1>1, <1>2, <2>2, <2>4
  <2> QED
    BY <2>1, <2>5 DEF Countdown!Stop, lf, du
<1>7. ASSUME OS_TmrTask
      PROVE  Countdown!Tick
  <2>1. /\ wh' = wh /\ loop' /\ c' = (c + 1) % TickMod
        /\ \A t \in Tmr : wh.State[t] = "RUNNING" =>
             wh.Match[t] # c /\ Rem(wh.Match[t], c') = Rem(wh.Match[t], c) - 1
    BY <1>7, TaskStep
  <2>2. ~loop
    BY <1>7 DEF OS_TmrTask
  <2>3. du = {}
    BY <1>2, <2>2 DEF Due
  <2>4. \A t \in Tmr : (wh.Match[t] = c' <=> Rem(wh.Match[t], c) = 1)
    BY <1>3, <2>1, RemTick
  <2>5. \A t \in Tmr : lf[t] = IF wh.State[t] = "RUNNING" THEN Rem(wh.Match[t], c) ELSE 0
    BY <1>1 DEF Left
  <2>6. lf' = [t \in Tmr |-> IF wh.State[t] = "RUNNING" THEN lf[t] - 1 ELSE 0]
    <3>1. lf' = [t \in Tmr |-> IF wh.State[t] = "RUNNING" THEN Rem(wh.Match[t], c') ELSE 0]
      BY <1>1, <2>1 DEF Left
    <3> QED
      BY <2>1, <2>5, <3>1
  <2>7. du' = {t \in Tmr : wh.State[t] = "RUNNING" /\ lf[t] = 1}
    <3>1. du' = {t \in Tmr : wh.State[t] = "RUNNING" /\ wh.Match[t] = c'}
      BY <1>2, <2>1 DEF Due
    <3> QED
      BY <2>4, <2>5, <3>1
  <2> QED
    BY <2>1, <2>3, <2>6, <2>7 DEF Countdown!Tick, lf, du
<1>8. ASSUME NEW t \in Tmr, t = p_tmr, TmrTaskExpire
      PROVE  Countdown!Expire(t)
  <2> DEFINE st == IF t \in Periodic THEN "RUNNING" ELSE "COMPLETED"
             d  == Again[t]
  <2>1. /\ loop /\ t \in Tmr /\ wh.State[t] = "RUNNING" /\ wh.Match[t] = c
        /\ wh'.State = [wh.State EXCEPT ![t] = st]
        /\ \A u \in Tmr \ {t} : wh'.Match[u] = wh.Match[u]
        /\ t \in Periodic => Rem(wh'.Match[t], c) = Period[t]
    BY <1>8, ExpireStep
  <2>2. c' = c /\ loop' = loop
    BY <1>8 DEF TmrTaskExpire
  <2>3. t \in Periodic => d = Period[t] /\ d # 0
    BY <2>1, DelaysPositive DEF Again
  <2>4. t \notin Periodic => d = 0
    BY <2>1 DEF Again
  <2>5. st = "RUNNING" => d = Rem(wh'.Match[t], c) /\ wh'.Match[t] # c
    <3>1. Rem(c, c) = 0
      BY <1>3, RemTick
    <3> QED
      BY <2>1, <2>3, <3>1
  <2>6. st # "RUNNING" => d = 0
    BY <2>4
  <2>7. st = IF d = 0 THEN "COMPLETED" ELSE "RUNNING"
    BY <2>3, <2>4
  <2> HIDE DEF st, d
  <2>8. Left(wh', c) = [Left(wh, c) EXCEPT ![t] = d] /\ Due(wh', c, loop) = Due(wh, c, loop) \ {t}
    <3>1. MovesOne(wh, wh', c, t, d)
      BY <1>3, <2>1, <2>5, <2>6 DEF MovesOne
    <3>2. SeenOne(wh, wh', c, t, d, loop)
      BY <2>1, <3>1, OneMoves
    <3> QED
      BY <3>2 DEF SeenOne
  <2>9. lf' = [lf EXCEPT ![t] = d] /\ du' = du \ {t}
    BY <1>1, <1>2, <2>2, <2>8
  <2>10. t \in du
    BY <1>2, <2>1 DEF Due
  <2>11. wh'.State = [wh.State EXCEPT ![t] = IF d = 0 THEN "COMPLETED" ELSE "RUNNING"]
    BY <2>1, <2>7
  <2> QED
    BY <2>1, <2>9, <2>10, <2>11 DEF Countdown!Expire, lf, du, d, Again
<1>9. ASSUME Signal \/ TmrTaskDone \/ CallbackReturn \/ UNCHANGED tmrvars
      PROVE  UNCHANGED Countdown!tvars
  <2>1. wh' = wh /\ c' = c
    BY <1>9 DEF Signal, TmrTaskDone, CallbackReturn, tmrvars
  <2>2. lf' = lf
    BY <1>1, <2>1
  <2>3. CASE loop' = loop
    <3>1. du' = du
      BY <1>2, <2>1, <2>3
    <3> QED
      BY <2>1, <2>2, <3>1 DEF Countdown!tvars, lf, du
  <2>4. CASE TmrTaskDone
    <3>1. ~loop' /\ \A t \in Tmr : wh.State[t] = "RUNNING" => wh.Match[t] # c
      BY <2>4, DoneStep
    <3>2. du' = {} /\ du = {}
      BY <1>2, <3>1 DEF Due
    <3> QED
      BY <2>1, <2>2, <3>2 DEF Countdown!tvars, lf, du
  <2> QED
    BY <1>9, <2>3, <2>4 DEF Signal, CallbackReturn, tmrvars
<1>10. CASE \E t \in Tmr : OSTmrCreate(t) \/ OSTmrStart(t)
  BY <1>4, <1>5, <1>10 DEF Countdown!Next
<1>11. CASE \E t \in Tmr, callback \in BOOLEAN : OSTmrStop(t, callback)
  BY <1>6, <1>11 DEF Countdown!Next
<1>12. CASE OS_TmrTask
  BY <1>7, <1>12 DEF Countdown!Next
<1>13. CASE TmrTaskExpire
  <2>1. PICK t \in Tmr : t = p_tmr
    BY <1>13, ExpireStep
  <2> QED
    BY <1>8, <1>13, <2>1 DEF Countdown!Next
<1>14. CASE Signal \/ TmrTaskDone \/ CallbackReturn \/ UNCHANGED tmrvars
  BY <1>9, <1>14
<1> QED
  BY <1>10, <1>11, <1>12, <1>13, <1>14 DEF TmrNext

\* The wheel starts as the countdown does.
LEMMA CountdownInit == TmrInit => Countdown!Init
<1> SUFFICES ASSUME TmrInit
             PROVE  Countdown!Init
  OBVIOUS
<1>1. wh.State = [t \in Tmr |-> "UNUSED"] /\ loop = FALSE
  BY DEF TmrInit
<1> QED
  BY <1>1 DEF Countdown!Init

\* The wheel of linked lists with a counter that wraps implements timers that count
\* down: each expires after exactly the ticks asked for, once, unless it is stopped or
\* started again before, as long as callbacks leave other running timers alone.
THEOREM TimersImplementTimers ==
  ASSUME "other" \notin Touch
  PROVE  TmrSpec => ImplementsTimers
<1>1. TmrInit => TmrInv
  BY InitTmr
<1>2. TmrInv /\ [TmrNext]_tmrvars => TmrInv'
  BY NextTmr
<1>3. TmrInit => Countdown!Init
  BY CountdownInit
<1>4. TmrInv /\ [TmrNext]_tmrvars => [Countdown!Next]_(Countdown!tvars)
  BY CountdownStep
<1> QED
  BY <1>1, <1>2, <1>3, <1>4, PTL DEF TmrSpec, ImplementsTimers, Countdown!Spec
=============================================================================
