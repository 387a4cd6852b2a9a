---------------------------- MODULE OSWait_proofs ----------------------------
(***************************************************************************)
(* Waiting: what every step of the kernel does to the fields of the TCBs   *)
(* that describe a wait, to the pend lists and to the tick wheel, and the  *)
(* invariants that follow.                                                 *)
(***************************************************************************)
EXTENDS OSKernel_proofs

(* Lists in the order of a key. *)

\* The elements of s stand in the order of key.
Sorted(s, key) == \A i, j \in DOMAIN s : i < j => key[s[i]] <= key[s[j]]

\* Unlinking a TCB closes the gap: the others keep their order.
LEMMA UnlinkShape ==
  ASSUME NEW T, NEW s \in Seq(T), NEW t \in Range(s)
  PROVE  \E n \in 1 .. Len(s) :
           /\ s[n] = t /\ Len(Unlink(s, t)) = Len(s) - 1
           /\ \A i \in 1 .. Len(s) - 1 : Unlink(s, t)[i] = IF i < n THEN s[i] ELSE s[i + 1]
<1> DEFINE n == Pos(s, t)
           u == SubSeq(s, 1, n - 1)
           v == SubSeq(s, n + 1, Len(s))
           w == u \o v
<1>1. n \in 1 .. Len(s) /\ s[n] = t /\ Len(s) \in Nat
  BY DEF Pos, Range
<1> HIDE DEF n
<1>2. u \in Seq(T) /\ Len(u) = n - 1 /\ \A i \in 1 .. n - 1 : u[i] = s[i]
  BY <1>1
<1>3. v \in Seq(T) /\ Len(v) = Len(s) - n /\ \A i \in 1 .. Len(s) - n : v[i] = s[n + i]
  BY <1>1
<1>4. Unlink(s, t) = w
  BY DEF Unlink, n
<1> HIDE DEF u, v
<1>5. /\ Len(w) = Len(u) + Len(v)
      /\ \A i \in 1 .. Len(u) + Len(v) : w[i] = IF i <= Len(u) THEN u[i] ELSE v[i - Len(u)]
  BY <1>2, <1>3, ConcatProperties
<1> HIDE DEF w
<1>6. ASSUME NEW i \in 1 .. Len(s) - 1
      PROVE  w[i] = IF i < n THEN s[i] ELSE s[i + 1]
  <2>0. i \in 1 .. Len(u) + Len(v)
    BY <1>1, <1>2, <1>3
  <2>1. w[i] = IF i <= Len(u) THEN u[i] ELSE v[i - Len(u)]
    BY <1>5, <2>0
  <2>2. CASE i < n
    BY <1>1, <1>2, <2>1, <2>2
  <2>3. CASE i >= n
    <3>1. i - Len(u) \in 1 .. Len(s) - n /\ n + (i - Len(u)) = i + 1 /\ ~(i <= Len(u))
      BY <1>1, <1>2, <2>3
    <3> QED
      BY <1>1, <1>3, <2>1, <2>3, <3>1, SMTT(30)
  <2> QED
    BY <1>1, <2>2, <2>3
<1> QED
  BY <1>1, <1>2, <1>3, <1>4, <1>5, <1>6

\* w is s with t entered at place n, the place of the first TCB of Stop or the end.
LinkedAt(w, s, t, Stop, n) ==
  /\ Len(w) = Len(s) + 1
  /\ \A i \in 1 .. Len(s) + 1 : w[i] = IF i < n THEN s[i] ELSE IF i = n THEN t ELSE s[i - 1]
  /\ \A i \in 1 .. Len(s) : i < n => s[i] \notin Stop
  /\ n <= Len(s) => s[n] \in Stop

\* Linking a TCB in front of the first one of Stop moves the rest of the list up.
LEMMA LinkBeforeShape ==
  ASSUME NEW T, NEW s \in Seq(T), NEW t \in T, NEW Stop
  PROVE  \E n \in 1 .. Len(s) + 1 : LinkedAt(LinkBefore(s, t, Stop), s, t, Stop, n)
<1> DEFINE stops == {i \in DOMAIN s : s[i] \in Stop}
           n == IF stops = {} THEN Len(s) + 1 ELSE CHOOSE i \in stops : \A j \in stops : i <= j
           u == SubSeq(s, 1, n - 1)
           v == SubSeq(s, n, Len(s))
           x == u \o <<t>>
           w == x \o v
<1>1. /\ n \in 1 .. Len(s) + 1 /\ Len(s) \in Nat
      /\ \A i \in 1 .. Len(s) : i < n => s[i] \notin Stop
      /\ n <= Len(s) => s[n] \in Stop
  <2>1. stops \in SUBSET Nat /\ stops \subseteq 1 .. Len(s) /\ Len(s) \in Nat
    OBVIOUS
  <2>2. CASE stops = {}
    BY <2>1, <2>2
  <2>3. CASE stops # {}
    <3>1. \E i \in stops : \A j \in stops : i <= j
      BY <2>1, <2>3, SmallestExists
    <3>2. n \in stops /\ \A j \in stops : n <= j
      BY <2>3, <3>1
    <3> HIDE DEF n
    <3> QED
      BY <2>1, <3>2
  <2> QED
    BY <2>2, <2>3
<1>2. LinkBefore(s, t, Stop) = w
  BY DEF LinkBefore
<1> HIDE DEF n
<1>3. u \in Seq(T) /\ Len(u) = n - 1 /\ \A i \in 1 .. n - 1 : u[i] = s[i]
  BY <1>1
<1>4. v \in Seq(T) /\ Len(v) = Len(s) + 1 - n /\ \A i \in 1 .. Len(s) + 1 - n : v[i] = s[n + i - 1]
  BY <1>1
<1> HIDE DEF u, v
<1>5. x \in Seq(T) /\ Len(x) = n /\ x[n] = t /\ \A i \in 1 .. n - 1 : x[i] = s[i]
  <2>1. <<t>> \in Seq(T) /\ Len(<<t>>) = 1 /\ <<t>>[1] = t
    OBVIOUS
  <2>2. /\ x \in Seq(T) /\ Len(x) = Len(u) + 1
        /\ \A i \in 1 .. Len(u) + 1 : x[i] = IF i <= Len(u) THEN u[i] ELSE <<t>>[i - Len(u)]
    BY <1>3, <2>1, ConcatProperties
  <2> HIDE DEF x
  <2>3. n \in 1 .. Len(u) + 1 /\ ~(n <= Len(u)) /\ n - Len(u) = 1 /\ Len(u) + 1 = n
    BY <1>1, <1>3
  <2>4. x[n] = t
    BY <2>1, <2>2, <2>3
  <2>5. \A i \in 1 .. n - 1 : x[i] = s[i]
    BY <1>1, <1>3, <2>2
  <2> QED
    BY <2>2, <2>3, <2>4, <2>5
<1> HIDE DEF x
<1>6. /\ Len(w) = Len(x) + Len(v)
      /\ \A i \in 1 .. Len(x) + Len(v) : w[i] = IF i <= Len(x) THEN x[i] ELSE v[i - Len(x)]
  BY <1>4, <1>5, ConcatProperties
<1> HIDE DEF w
<1>7. ASSUME NEW i \in 1 .. Len(s) + 1
      PROVE  w[i] = IF i < n THEN s[i] ELSE IF i = n THEN t ELSE s[i - 1]
  <2>1. w[i] = IF i <= n THEN x[i] ELSE v[i - n]
    BY <1>1, <1>4, <1>5, <1>6
  <2>2. CASE i <= n
    BY <1>1, <1>5, <2>1, <2>2
  <2>3. CASE i > n
    <3>1. i - n \in 1 .. Len(s) + 1 - n /\ n + (i - n) - 1 = i - 1
      BY <1>1, <2>3
    <3> QED
      BY <1>1, <1>4, <2>1, <2>3, <3>1
  <2> QED
    BY <1>1, <2>2, <2>3
<1>8. Len(w) = Len(s) + 1
  BY <1>1, <1>4, <1>5, <1>6
<1>9. LinkedAt(w, s, t, Stop, n)
  BY <1>1, <1>7, <1>8 DEF LinkedAt
<1> HIDE DEF n
<1> QED
  BY <1>1, <1>2, <1>9, Zenon

\* A list keeps its order when a TCB leaves it.
LEMMA UnlinkSorted ==
  ASSUME NEW T, NEW s \in Seq(T), NEW t, NEW key \in [T -> Int], Sorted(s, key)
  PROVE  Sorted(Unlink(s, t), key)
<1>1. CASE t \notin Range(s)
  BY <1>1 DEF Unlink
<1>2. CASE t \in Range(s)
  <2> DEFINE w == Unlink(s, t)
  <2>1. PICK n \in 1 .. Len(s) :
          /\ Len(w) = Len(s) - 1
          /\ \A i \in 1 .. Len(s) - 1 : w[i] = IF i < n THEN s[i] ELSE s[i + 1]
    BY <1>2, UnlinkShape
  <2>2. w \in Seq(T)
    BY UnlinkIsList
  <2> HIDE DEF w
  <2>3. ASSUME NEW i \in DOMAIN w, NEW j \in DOMAIN w, i < j
        PROVE  key[w[i]] <= key[w[j]]
    <3>1. PICK a \in 1 .. Len(s), b \in 1 .. Len(s) : a < b /\ w[i] = s[a] /\ w[j] = s[b]
      <4>0. Len(s) \in Nat /\ DOMAIN w = 1 .. Len(w) /\ Len(w) = Len(s) - 1
        BY <2>1, <2>2
      <4>1. i \in 1 .. Len(s) - 1 /\ j \in 1 .. Len(s) - 1 /\ Len(s) \in Nat
        BY <2>3, <4>0
      <4> DEFINE a == IF i < n THEN i ELSE i + 1
                 b == IF j < n THEN j ELSE j + 1
      <4>2. a \in 1 .. Len(s) /\ b \in 1 .. Len(s) /\ a < b
        BY <2>3, <4>1, SMTT(30)
      <4>3. w[i] = s[a] /\ w[j] = s[b]
        BY <2>1, <4>1, Zenon
      <4> QED
        BY <4>2, <4>3
    <3> QED
      BY <3>1 DEF Sorted
  <2> QED
    BY <2>3 DEF Sorted, w
<1> QED
  BY <1>1, <1>2

\* Linking enters a TCB once.
LEMMA LinkBeforeIsList ==
  ASSUME NEW T, NEW s \in Seq(T), NEW t \in T, NEW Stop, NEW S, IsList(s, S), t \notin S
  PROVE  IsList(LinkBefore(s, t, Stop), S \cup {t})
<1> DEFINE w == LinkBefore(s, t, Stop)
<1>0. PICK n \in 1 .. Len(s) + 1 : LinkedAt(w, s, t, Stop, n)
  BY LinkBeforeShape
<1>1. /\ n \in 1 .. Len(s) + 1 /\ Len(w) = Len(s) + 1
      /\ \A i \in 1 .. Len(s) + 1 : w[i] = IF i < n THEN s[i] ELSE IF i = n THEN t ELSE s[i - 1]
  BY <1>0 DEF LinkedAt
<1>2. w \in Seq(T) /\ DOMAIN w = 1 .. Len(s) + 1 /\ Len(s) \in Nat /\ DOMAIN s = 1 .. Len(s)
  <2>1. w \in Seq(T)
    BY LinkBeforeIsSeq
  <2> HIDE DEF w
  <2>2. Len(s) \in Nat /\ DOMAIN s = 1 .. Len(s)
    OBVIOUS
  <2>3. DOMAIN w = 1 .. Len(w)
    BY <2>1
  <2> QED
    BY <1>1, <2>1, <2>2, <2>3
<1> HIDE DEF w
<1>3. /\ \A x : x \in S <=> \E i \in 1 .. Len(s) : s[i] = x
      /\ \A i, j \in 1 .. Len(s) : s[i] = s[j] => i = j
      /\ \A i \in 1 .. Len(s) : s[i] # t
  BY <1>2 DEF IsList, Range
<1>4. ASSUME NEW i \in 1 .. Len(s) + 1
      PROVE  \/ i < n /\ i \in 1 .. Len(s) /\ w[i] = s[i]
             \/ i = n /\ w[i] = t
             \/ i > n /\ i - 1 \in 1 .. Len(s) /\ w[i] = s[i - 1]
  BY <1>1, <1>2
<1>5. \A i \in 1 .. Len(s) : \E j \in 1 .. Len(s) + 1 : w[j] = s[i]
  <2> TAKE i \in 1 .. Len(s)
  <2>1. CASE i < n
    BY <1>1, <1>2, <2>1
  <2>2. CASE i >= n
    <3>1. i + 1 \in 1 .. Len(s) + 1 /\ ~(i + 1 < n) /\ i + 1 # n /\ (i + 1) - 1 = i
      BY <1>2, <2>2
    <3>2. w[i + 1] = s[i]
      BY <1>1, <3>1
    <3> QED
      BY <3>1, <3>2
  <2> QED
    BY <1>2, <2>1, <2>2
<1>6. \E j \in 1 .. Len(s) + 1 : w[j] = t
  BY <1>1, <1>2
<1>7. Range(w) = S \cup {t}
  <2>1. \A x \in S \cup {t} : x \in Range(w)
    BY <1>2, <1>3, <1>5, <1>6, SMTT(30) DEF Range
  <2>2. \A x \in Range(w) : x \in S \cup {t}
    BY <1>2, <1>3, <1>4, SMTT(30) DEF Range
  <2> QED
    BY <2>1, <2>2
<1>8. \A i, j \in DOMAIN w : w[i] = w[j] => i = j
  <2> TAKE i, j \in DOMAIN w
  <2> HAVE w[i] = w[j]
  <2>1. i \in 1 .. Len(s) + 1 /\ j \in 1 .. Len(s) + 1
    BY <1>2
  <2> QED
    BY <1>2, <1>3, <1>4, <2>1
<1> QED
  BY <1>7, <1>8 DEF IsList, w

\* Linking in front of the first TCB with a later key keeps the order
\* (OS_PendListInsertPrio, OS_TickListInsert).
LEMMA LinkBeforeSorted ==
  ASSUME NEW T, NEW s \in Seq(T), NEW t \in T, NEW Stop, NEW key \in [T -> Int], Sorted(s, key),
         \A u \in Range(s) : IF u \in Stop THEN key[t] <= key[u] ELSE key[u] <= key[t]
  PROVE  Sorted(LinkBefore(s, t, Stop), key)
<1> DEFINE w == LinkBefore(s, t, Stop)
<1>0. PICK n \in 1 .. Len(s) + 1 : LinkedAt(w, s, t, Stop, n)
  BY LinkBeforeShape
<1>w. w \in Seq(T)
  BY LinkBeforeIsSeq
<1> HIDE DEF w
<1>1. /\ n \in 1 .. Len(s) + 1 /\ Len(w) = Len(s) + 1
      /\ \A i \in 1 .. Len(s) + 1 : w[i] = IF i < n THEN s[i] ELSE IF i = n THEN t ELSE s[i - 1]
      /\ \A i \in 1 .. Len(s) : i < n => s[i] \notin Stop
      /\ n <= Len(s) => s[n] \in Stop
  BY <1>0 DEF LinkedAt
<1>2. w \in Seq(T) /\ DOMAIN w = 1 .. Len(s) + 1 /\ Len(s) \in Nat /\ DOMAIN s = 1 .. Len(s)
  BY <1>1, <1>w
<1> HIDE DEF w
<1>3. /\ \A i \in 1 .. Len(s) : s[i] \in Range(s) /\ key[s[i]] \in Int
      /\ \A i, j \in 1 .. Len(s) : i < j => key[s[i]] <= key[s[j]]
      /\ key[t] \in Int
  <2>1. \A i \in 1 .. Len(s) : s[i] \in Range(s) /\ s[i] \in T
    BY <1>2 DEF Range
  <2>2. \A i, j \in 1 .. Len(s) : i < j => key[s[i]] <= key[s[j]]
    BY <1>2 DEF Sorted
  <2> QED
    BY <2>1, <2>2
<1>4. \A i \in 1 .. Len(s) : i < n => key[s[i]] <= key[t]
  BY <1>1, <1>3
<1>5. ASSUME NEW i \in 1 .. Len(s), i >= n
      PROVE  key[t] <= key[s[i]]
  <2>1. n \in 1 .. Len(s) /\ key[t] <= key[s[n]]
    BY <1>1, <1>2, <1>3, <1>5
  <2>2. n = i \/ key[s[n]] <= key[s[i]]
    BY <1>2, <1>3, <1>5, <2>1
  <2> QED
    BY <1>3, <2>1, <2>2
<1>6. ASSUME NEW i \in 1 .. Len(s) + 1
      PROVE  \/ i < n /\ i \in 1 .. Len(s) /\ w[i] = s[i]
             \/ i = n /\ w[i] = t
             \/ i > n /\ i - 1 \in 1 .. Len(s) /\ i - 1 >= n /\ w[i] = s[i - 1]
  BY <1>1, <1>2
<1>7. ASSUME NEW i \in 1 .. Len(s) + 1, NEW j \in 1 .. Len(s) + 1, i < j
      PROVE  key[w[i]] <= key[w[j]]
  <2>1. CASE i < n /\ j <= n
    <3>1. w[i] = s[i] /\ i \in 1 .. Len(s) /\ (j < n => w[j] = s[j] /\ j \in 1 .. Len(s))
          /\ (j = n => w[j] = t)
      BY <1>2, <1>6, <2>1
    <3> QED
      BY <1>3, <1>4, <1>7, <2>1, <3>1
  <2>2. CASE i < n /\ j > n
    <3>1. w[i] = s[i] /\ i \in 1 .. Len(s) /\ w[j] = s[j - 1] /\ j - 1 \in 1 .. Len(s) /\ j - 1 >= n
      BY <1>2, <1>6, <2>2
    <3> QED
      BY <1>3, <1>4, <1>5, <2>2, <3>1
  <2>3. CASE i = n
    <3>1. w[i] = t /\ w[j] = s[j - 1] /\ j - 1 \in 1 .. Len(s) /\ j - 1 >= n
      BY <1>2, <1>6, <1>7, <2>3
    <3> QED
      BY <1>5, <3>1
  <2>4. CASE i > n
    <3>1. /\ w[i] = s[i - 1] /\ i - 1 \in 1 .. Len(s) /\ w[j] = s[j - 1] /\ j - 1 \in 1 .. Len(s)
          /\ i - 1 < j - 1
      BY <1>2, <1>6, <1>7, <2>4
    <3> QED
      BY <1>3, <3>1
  <2> QED
    BY <1>2, <1>7, <2>1, <2>2, <2>3, <2>4
<1> QED
  BY <1>2, <1>7 DEF Sorted, w
-----------------------------------------------------------------------------
(* What a routine leaves alone. *)

\* The TCB fields of a wait and of a suspension.
SameCtrs(o, o2) == /\ o2.PendOn = o.PendOn /\ o2.PendStatus = o.PendStatus
                   /\ o2.SuspendCtr = o.SuspendCtr /\ o2.SemCtr = o.SemCtr

\* The pend lists and who is in them.
SamePend(o, o2) == o2.PendData = o.PendData /\ o2.PendList = o.PendList

\* The tick wheel and the clock.
SameWheel(o, o2) == /\ o2.TickSpokePtr = o.TickSpokePtr /\ o2.TickCtrMatch = o.TickCtrMatch
                    /\ o2.TickWheel = o.TickWheel /\ o2.OSTickCtr = o.OSTickCtr

\* Nothing but the ready lists, the processor and the time quanta may change.
Quiet(o, o2) == /\ o2.TaskState = o.TaskState /\ o2.Prio = o.Prio
                /\ SameCtrs(o, o2) /\ SamePend(o, o2) /\ SameWheel(o, o2)

\* Quiet routines compose.
LEMMA QuietTransitive ==
  ASSUME NEW o, NEW o1, NEW o2, Quiet(o, o1), Quiet(o1, o2)
  PROVE  Quiet(o, o2)
BY DEF Quiet, SameCtrs, SamePend, SameWheel

\* The ready lists and the bitmap are apart from the other kernel data.
LEMMA RdyQuiet ==
  ASSUME NEW o \in KState, NEW r, NEW b, NEW o2, o2 = [o EXCEPT !.OSRdyList = r, !.OSPrioTbl = b]
  PROVE  Quiet(o, o2)
BY DEF KState, Quiet, SameCtrs, SamePend, SameWheel

\* OS_RdyListInsertHead and OS_RdyListInsertTail with the OS_PrioInsert their
\* callers do, OS_RdyListInsert and OS_RdyListRemove.
LEMMA RdyListQuiet ==
  ASSUME NEW o \in KState, NEW t \in Task, NEW p
  PROVE  /\ Quiet(o, OS_RdyListInsertHead(OS_PrioInsert(o, p), t))
         /\ Quiet(o, OS_RdyListInsertTail(OS_PrioInsert(o, p), t))
         /\ Quiet(o, OS_RdyListInsert(o, t))
         /\ Quiet(o, OS_RdyListRemove(o, t))
<1>1. ASSUME NEW q
      PROVE  /\ Quiet(o, OS_RdyListInsertHead(OS_PrioInsert(o, q), t))
             /\ Quiet(o, OS_RdyListInsertTail(OS_PrioInsert(o, q), t))
  <2> DEFINE h == [o.OSRdyList EXCEPT ![o.Prio[t]] = <<t>> \o o.OSRdyList[o.Prio[t]]]
             l == [o.OSRdyList EXCEPT ![o.Prio[t]] = Append(o.OSRdyList[o.Prio[t]], t)]
             b == o.OSPrioTbl \cup {q}
  <2>1. /\ OS_RdyListInsertHead(OS_PrioInsert(o, q), t) = [o EXCEPT !.OSRdyList = h, !.OSPrioTbl = b]
        /\ OS_RdyListInsertTail(OS_PrioInsert(o, q), t) = [o EXCEPT !.OSRdyList = l, !.OSPrioTbl = b]
    BY DEF OS_RdyListInsertHead, OS_RdyListInsertTail, OS_PrioInsert, KState
  <2> HIDE DEF h, l, b
  <2> QED
    BY <2>1, RdyQuiet
<1>2. Quiet(o, OS_RdyListInsert(o, t))
  BY <1>1 DEF OS_RdyListInsert
<1>3. Quiet(o, OS_RdyListRemove(o, t))
  <2> DEFINE q == o.Prio[t]
             rest == IF t \in Range(o.OSRdyList[q]) THEN Unlink(o.OSRdyList[q], t) ELSE <<>>
             r == [o.OSRdyList EXCEPT ![q] = rest]
             b == IF rest = <<>> THEN o.OSPrioTbl \ {q} ELSE o.OSPrioTbl
  <2>1. OS_RdyListRemove(o, t) = [o EXCEPT !.OSRdyList = r, !.OSPrioTbl = b]
    BY DEF OS_RdyListRemove, KState
  <2> HIDE DEF r, b
  <2> QED
    BY <2>1, RdyQuiet
<1> QED
  BY <1>1, <1>2, <1>3

\* OS_RdyListMoveHeadToTail and the reloading of a quantum.
LEMMA RotateQuiet ==
  ASSUME NEW o \in KState, NEW S, Rdy(o, S), NEW p \in Prio, Len(o.OSRdyList[p]) >= 2
  PROVE  Quiet(o, Rotate(o, p))
<1> DEFINE a == OS_RdyListMoveHeadToTail(o, p)
           h == Head(a.OSRdyList[p])
           l == IF Len(o.OSRdyList[p]) < 2 THEN o.OSRdyList[p]
                ELSE Append(Tail(o.OSRdyList[p]), Head(o.OSRdyList[p]))
           q == IF a.TimeQuanta[h] = 0 THEN a.OSSchedRoundRobinDfltTimeQuanta ELSE a.TimeQuanta[h]
           r == [o.OSRdyList EXCEPT ![p] = l]
<1>1. a = [o EXCEPT !.OSRdyList = r]
  BY DEF OS_RdyListMoveHeadToTail, KState
<1>2. a \in KState
  BY MoveHeadToTailLemma
<1>3. Rotate(o, p) = [a EXCEPT !.TimeQuantaCtr = [a.TimeQuantaCtr EXCEPT ![h] = q]]
  BY DEF Rotate, Reload
<1> HIDE DEF a, h, q, r
<1>4. Quiet(o, a)
  BY <1>1 DEF KState, Quiet, SameCtrs, SamePend, SameWheel
<1>5. Quiet(a, Rotate(o, p))
  BY <1>2, <1>3 DEF KState, Quiet, SameCtrs, SamePend, SameWheel
<1> QED
  BY <1>4, <1>5, QuietTransitive

\* OS_SchedRoundRobin.
LEMMA SchedRoundRobinQuiet ==
  ASSUME NEW o \in KState, NEW S, Rdy(o, S)
  PROVE  Quiet(o, OS_SchedRoundRobin(o))
<1> DEFINE p == o.OSPrioCur
           s == o.OSRdyList[p]
           h == Head(s)
           n == IF o.TimeQuantaCtr[h] > 0 THEN o.TimeQuantaCtr[h] - 1 ELSE 0
           a == [o EXCEPT !.TimeQuantaCtr = [o.TimeQuantaCtr EXCEPT ![h] = n]]
           o2 == OS_SchedRoundRobin(o)
<1>1. p \in Prio /\ s \in Seq(Task) /\ o.TimeQuantaCtr \in [Task -> Nat]
  BY DEF KState
<1>2. CASE s = <<>>
  BY <1>2 DEF OS_SchedRoundRobin, Quiet, SameCtrs, SamePend, SameWheel
<1>3. CASE s # <<>>
  <2>1. h \in Task /\ n \in Nat
    BY <1>1, <1>3
  <2> HIDE DEF n
  <2>2. /\ a \in KState /\ Quiet(o, a)
        /\ a.OSRdyList = o.OSRdyList /\ a.OSPrioTbl = o.OSPrioTbl /\ a.Prio = o.Prio
    <3>1. [o.TimeQuantaCtr EXCEPT ![h] = n] \in [Task -> Nat]
      BY <1>1, <2>1
    <3> HIDE DEF h
    <3> QED
      BY <3>1 DEF KState, Quiet, SameCtrs, SamePend, SameWheel
  <2>3. o2 = o \/ o2 = a \/ (o2 = Rotate(a, p) /\ Len(a.OSRdyList[p]) >= 2)
    <3>1. Len(s) \in Nat /\ a.OSRdyList[p] = s
      BY <1>1, <2>2
    <3>2. a = [o EXCEPT !.TimeQuantaCtr[h] = IF @ > 0 THEN @ - 1 ELSE 0]
      BY DEF n
    <3>3. o2 = o \/ o2 = a \/ (o2 = Rotate(a, p) /\ ~(Len(s) < 2))
      BY <3>2, Zenon DEF OS_SchedRoundRobin
    <3> QED
      BY <3>1, <3>3
  <2> HIDE DEF a, o2
  <2>4. Rdy(a, S)
    BY <2>2 DEF Rdy
  <2>5. Len(a.OSRdyList[p]) >= 2 => Quiet(a, Rotate(a, p))
    BY <1>1, <2>2, <2>4, RotateQuiet
  <2>6. Quiet(o, o)
    BY DEF Quiet, SameCtrs, SamePend, SameWheel
  <2> QED
    BY <2>2, <2>3, <2>5, <2>6, QuietTransitive DEF o2
<1> QED
  BY <1>2, <1>3

\* OSSched, OSIntExit and OSStart only choose who runs.
LEMMA RescheduleQuiet ==
  ASSUME NEW o \in KState
  PROVE  Quiet(o, Reschedule(o)) /\ Quiet(o, CtxSw(o))
<1> DEFINE h == HighRdy(o)
           p == OS_PrioGetHighest(o)
<1>1. CtxSw(o) = [o EXCEPT !.OSTCBCurPtr = h, !.OSPrioCur = p]
  BY DEF CtxSw
<1> HIDE DEF h, p
<1>2. Quiet(o, CtxSw(o))
  BY <1>1 DEF KState, Quiet, SameCtrs, SamePend, SameWheel
<1>3. Quiet(o, o)
  BY DEF Quiet, SameCtrs, SamePend, SameWheel
<1> QED
  BY <1>2, <1>3 DEF Reschedule
-----------------------------------------------------------------------------
(* The ends of waits. *)

\* The wait of task t ends with status st: it is ready, or only suspended, and in
\* no pend list and on no spoke any more.
Ends(o, o2, t, st) ==
  /\ o.TaskState[t] \in Pending \cup Timed
  /\ o2.TaskState = [o.TaskState EXCEPT ![t] = IF o.TaskState[t] \in Suspended
                                               THEN "SUSPENDED" ELSE "RDY"]
  /\ o2.PendOn = [o.PendOn EXCEPT ![t] = "NOTHING"]
  /\ o2.PendStatus = [o.PendStatus EXCEPT ![t] = st]
  /\ o2.Prio = o.Prio /\ o2.SuspendCtr = o.SuspendCtr /\ o2.SemCtr = o.SemCtr
  /\ SamePend(OS_PendListRemove(o, t), o2)
  /\ SameWheel(OS_TickListRemove(o, t), o2)

\* OS_TickListRemove reads and writes the wheel only.
LEMMA TickListRemoveFrame ==
  ASSUME NEW o \in KState, NEW o1 \in KState, SameWheel(o, o1), NEW t \in Task
  PROVE  LET o2 == OS_TickListRemove(o1, t)
         IN  /\ o2.TaskState = o1.TaskState /\ o2.Prio = o1.Prio
             /\ SameCtrs(o1, o2) /\ SamePend(o1, o2)
             /\ SameWheel(OS_TickListRemove(o, t), o2)
<1> DEFINE n == o1.TickSpokePtr[t]
           o2 == OS_TickListRemove(o1, t)
           x2 == OS_TickListRemove(o, t)
<1>1. CASE n = NoSpoke
  BY <1>1 DEF OS_TickListRemove, SameCtrs, SamePend, SameWheel
<1>2. CASE n # NoSpoke
  <2> DEFINE w == [o1.TickWheel EXCEPT ![n] = Unlink(o1.TickWheel[n], t)]
             s == [o1.TickSpokePtr EXCEPT ![t] = NoSpoke]
             m == [o1.TickCtrMatch EXCEPT ![t] = 0]
  <2>1. o2 = [o1 EXCEPT !.TickWheel = w, !.TickSpokePtr = s, !.TickCtrMatch = m]
    BY <1>2 DEF OS_TickListRemove, KState
  <2>2. x2 = [o EXCEPT !.TickWheel = w, !.TickSpokePtr = s, !.TickCtrMatch = m]
    BY <1>2 DEF OS_TickListRemove, KState, SameWheel
  <2> HIDE DEF w, s, m, o2, x2
  <2> QED
    BY <2>1, <2>2 DEF KState, SameCtrs, SamePend, SameWheel, o2, x2
<1> QED
  BY <1>1, <1>2

\* OS_PendListRemove reads and writes the pend lists only; a task that is in none
\* changes nothing.
LEMMA PendListRemoveFrame ==
  ASSUME NEW o \in KState, NEW t \in Task
  PROVE  LET o2 == OS_PendListRemove(o, t)
         IN  /\ o2.TaskState = o.TaskState /\ o2.Prio = o.Prio
             /\ SameCtrs(o, o2) /\ SameWheel(o, o2)
             /\ o.PendData[t] = {} => SamePend(o, o2)
             /\ o2.PendData = [o.PendData EXCEPT ![t] = {}]
             /\ o2.PendList = [obj \in Obj |-> IF obj \in o.PendData[t] THEN Unlink(o.PendList[obj], t)
                                                                       ELSE o.PendList[obj]]
<1> DEFINE lists == [obj \in Obj |-> IF obj \in o.PendData[t] THEN Unlink(o.PendList[obj], t)
                                                             ELSE o.PendList[obj]]
           data  == [o.PendData EXCEPT ![t] = {}]
           o2    == OS_PendListRemove(o, t)
<1>1. o2 = [o EXCEPT !.PendList = lists, !.PendData = data]
  BY DEF OS_PendListRemove, KState
<1>2. o.PendList \in [Obj -> Seq(Task)] /\ o.PendData \in [Task -> SUBSET Obj]
  BY DEF KState
<1>3. o.PendData[t] = {} => lists = o.PendList /\ data = o.PendData
  BY <1>2
<1> HIDE DEF lists, data, o2
<1>4. /\ o2.TaskState = o.TaskState /\ o2.Prio = o.Prio
      /\ SameCtrs(o, o2) /\ SameWheel(o, o2) /\ o2.PendData = data /\ o2.PendList = lists
  BY <1>1 DEF KState, SameCtrs, SameWheel
<1> QED
  BY <1>3, <1>4 DEF SamePend, o2, lists, data

\* The assignments to the TCB of a task whose wait is over (OS_Post, OS_PendAbort,
\* OS_TickListUpdate).
LEMMA WaitOverFrame ==
  ASSUME NEW o \in KState, NEW t \in Task, NEW msg, NEW st
  PROVE  LET o2 == [o EXCEPT !.MsgPtr[t] = msg, !.PendStatus[t] = st, !.PendOn[t] = "NOTHING"]
         IN  /\ o2.TaskState = o.TaskState /\ o2.Prio = o.Prio
             /\ o2.PendOn = [o.PendOn EXCEPT ![t] = "NOTHING"]
             /\ o2.PendStatus = [o.PendStatus EXCEPT ![t] = st]
             /\ o2.SuspendCtr = o.SuspendCtr /\ o2.SemCtr = o.SemCtr
             /\ SamePend(o, o2) /\ SameWheel(o, o2)
<1> DEFINE o2 == [o EXCEPT !.MsgPtr[t] = msg, !.PendStatus[t] = st, !.PendOn[t] = "NOTHING"]
           m == [o.MsgPtr EXCEPT ![t] = msg]
           s == [o.PendStatus EXCEPT ![t] = st]
           n == [o.PendOn EXCEPT ![t] = "NOTHING"]
<1>1. o2 = [o EXCEPT !.MsgPtr = m, !.PendStatus = s, !.PendOn = n]
  OBVIOUS
<1> HIDE DEF m, s, n, o2
<1>2. /\ o2.TaskState = o.TaskState /\ o2.Prio = o.Prio /\ o2.PendOn = n /\ o2.PendStatus = s
      /\ o2.SuspendCtr = o.SuspendCtr /\ o2.SemCtr = o.SemCtr
      /\ SamePend(o, o2) /\ SameWheel(o, o2)
  BY <1>1 DEF KState, SamePend, SameWheel
<1> QED
  BY <1>2 DEF n, s, o2

\* An assignment to TaskState changes nothing else.
LEMMA SetStateFrame ==
  ASSUME NEW o \in KState, NEW t \in Task, NEW st
  PROVE  LET o2 == [o EXCEPT !.TaskState[t] = st]
         IN  /\ o2.TaskState = [o.TaskState EXCEPT ![t] = st] /\ o2.Prio = o.Prio
             /\ SameCtrs(o, o2) /\ SamePend(o, o2) /\ SameWheel(o, o2)
             /\ o2.TickCtrPrev = o.TickCtrPrev
<1> DEFINE o2 == [o EXCEPT !.TaskState[t] = st]
           s == [o.TaskState EXCEPT ![t] = st]
<1>1. o2 = [o EXCEPT !.TaskState = s]
  OBVIOUS
<1> HIDE DEF s, o2
<1>2. /\ o2.TaskState = s /\ o2.Prio = o.Prio /\ o2.TickCtrPrev = o.TickCtrPrev
      /\ SameCtrs(o, o2) /\ SamePend(o, o2) /\ SameWheel(o, o2)
  BY <1>1 DEF KState, SameCtrs, SamePend, SameWheel
<1> QED
  BY <1>2 DEF s, o2

\* OS_TaskRdy takes the task off the tick wheel, and into a ready list unless it
\* is suspended.
LEMMA TaskRdyFrame ==
  ASSUME NEW o \in KState, NEW o1 \in KState, SameWheel(o, o1), NEW t \in Task
  PROVE  LET o2 == OS_TaskRdy(o1, t)
         IN  /\ o2.TaskState = o1.TaskState /\ o2.Prio = o1.Prio
             /\ SameCtrs(o1, o2) /\ SamePend(o1, o2)
             /\ SameWheel(OS_TickListRemove(o, t), o2)
<1> DEFINE a == OS_TickListRemove(o1, t)
           o2 == OS_TaskRdy(o1, t)
<1>1. /\ a.TaskState = o1.TaskState /\ a.Prio = o1.Prio
      /\ SameCtrs(o1, a) /\ SamePend(o1, a) /\ SameWheel(OS_TickListRemove(o, t), a)
  BY TickListRemoveFrame
<1>2. a \in KState
  BY TickListRemoveLemma
<1>3. o2 = a \/ o2 = OS_RdyListInsert(a, t)
  BY DEF OS_TaskRdy
<1> HIDE DEF a, o2
<1>4. o2 = a \/ Quiet(a, o2)
  BY <1>2, <1>3, RdyListQuiet
<1> QED
  BY <1>1, <1>4 DEF Quiet, SameCtrs, SamePend, SameWheel, o2

\* OS_Post and OS_PendAbort end the wait of a task that waits.
LEMMA EndWaitEnds ==
  ASSUME NEW o, NEW C, OsInv(o, C), NEW t \in Task, o.TaskState[t] \in Pending,
         NEW obj, obj = NoObj => o.PendData[t] = {},
         NEW msg \in Msg \cup {NoMsg}, NEW st \in StatusSet
  PROVE  Ends(o, EndWait(o, obj, t, msg, st), t, st)
<1> DEFINE p  == OS_PendListRemove(o, t)
           o1 == IF obj = NoObj THEN o ELSE p
           o2 == [o1 EXCEPT !.MsgPtr[t] = msg, !.PendStatus[t] = st, !.PendOn[t] = "NOTHING"]
           z  == EndWait(o, obj, t, msg, st)
<1>1. o \in KState /\ o.TaskState \in [Task -> State]
  BY DEF OsInv, KState
<1>2. /\ p \in KState /\ p.TaskState = o.TaskState /\ p.Prio = o.Prio
      /\ SameCtrs(o, p) /\ SameWheel(o, p) /\ (o.PendData[t] = {} => SamePend(o, p))
  BY <1>1, PendListRemoveFrame, PendListRemoveLemma
<1> HIDE DEF p
<1>3. /\ o1 \in KState /\ o1.TaskState = o.TaskState /\ o1.Prio = o.Prio
      /\ SameCtrs(o, o1) /\ SameWheel(o, o1) /\ SamePend(p, o1)
  BY <1>1, <1>2 DEF SameCtrs, SameWheel, SamePend
<1> HIDE DEF o1
<1>4. /\ o2.TaskState = o1.TaskState /\ o2.Prio = o1.Prio
      /\ o2.PendOn = [o1.PendOn EXCEPT ![t] = "NOTHING"]
      /\ o2.PendStatus = [o1.PendStatus EXCEPT ![t] = st]
      /\ o2.SuspendCtr = o1.SuspendCtr /\ o2.SemCtr = o1.SemCtr
      /\ SamePend(o1, o2) /\ SameWheel(o1, o2)
  <2>1. o1 \in KState
    BY <1>3
  <2> QED
    BY <2>1, WaitOverFrame
<1>5. o2 \in KState
  BY <1>3, WaitOverLemma
<1>6. z = IF o.TaskState[t] \in Suspended
          THEN [OS_TickListRemove(o2, t) EXCEPT !.TaskState[t] = "SUSPENDED"]
          ELSE [OS_TaskRdy(o2, t) EXCEPT !.TaskState[t] = "RDY"]
  <2>1. o.TaskState[t] \in Suspended => o.TaskState[t] \in {"PEND_SUSPENDED", "PEND_TIMEOUT_SUSPENDED"}
    BY DEF Pending, Suspended
  <2>2. o.TaskState[t] \notin Suspended => o.TaskState[t] \in {"PEND", "PEND_TIMEOUT"}
    BY DEF Pending, Suspended
  <2> QED
    BY <2>1, <2>2 DEF EndWait, p, o1, Suspended
<1> HIDE DEF o2, z
<1>7. /\ o2.TaskState = o.TaskState /\ o2.Prio = o.Prio
      /\ o2.PendOn = [o.PendOn EXCEPT ![t] = "NOTHING"]
      /\ o2.PendStatus = [o.PendStatus EXCEPT ![t] = st]
      /\ o2.SuspendCtr = o.SuspendCtr /\ o2.SemCtr = o.SemCtr
      /\ SamePend(p, o2) /\ SameWheel(o, o2)
  BY <1>3, <1>4 DEF SameCtrs, SamePend, SameWheel
<1>8. CASE o.TaskState[t] \in Suspended
  <2> DEFINE a == OS_TickListRemove(o2, t)
  <2>1. /\ a.TaskState = o2.TaskState /\ a.Prio = o2.Prio
        /\ SameCtrs(o2, a) /\ SamePend(o2, a) /\ SameWheel(OS_TickListRemove(o, t), a)
    BY <1>1, <1>5, <1>7, TickListRemoveFrame
  <2>2. a \in KState
    BY <1>5, TickListRemoveLemma
  <2>3. z = [a EXCEPT !.TaskState[t] = "SUSPENDED"]
    BY <1>6, <1>8
  <2> HIDE DEF a
  <2>4. /\ z.TaskState = [a.TaskState EXCEPT ![t] = "SUSPENDED"] /\ z.Prio = a.Prio
        /\ SameCtrs(a, z) /\ SamePend(a, z) /\ SameWheel(a, z)
    BY <2>2, <2>3, SetStateFrame
  <2> QED
    BY <1>7, <1>8, <2>1, <2>4 DEF Ends, SameCtrs, SamePend, SameWheel, p, z
<1>9. CASE o.TaskState[t] \notin Suspended
  <2> DEFINE a == OS_TaskRdy(o2, t)
  <2>1. /\ a.TaskState = o2.TaskState /\ a.Prio = o2.Prio
        /\ SameCtrs(o2, a) /\ SamePend(o2, a) /\ SameWheel(OS_TickListRemove(o, t), a)
    BY <1>1, <1>5, <1>7, TaskRdyFrame
  <2>2. a \in KState
    <3>1. OsInv(o2, C)
      <4>1. SameSched(o, o2)
        <5>1. SameSched(o, o1)
          BY <1>1, PendListRemoveLemma DEF o1, p, SameSched, SameTasks
        <5>2. SameSched(o1, o2)
          BY <1>3, WaitOverLemma DEF o2
        <5> QED
          BY <5>1, <5>2 DEF SameSched, SameTasks
      <4> QED
        BY <1>5, <4>1, SameSchedInv
    <3>2. /\ Rdy(o2, Ready(o2) \ C) /\ t \notin Ready(o2) \ C
          /\ o2.TaskState[t] \notin Suspended /\ o2.Prio[t] \in Prio
      BY <1>7, <1>9, <3>1 DEF OsInv, Ready, Pending
    <3> QED
      BY <1>5, <3>2, TaskRdyLemma
  <2>3. z = [a EXCEPT !.TaskState[t] = "RDY"]
    BY <1>6, <1>9
  <2> HIDE DEF a
  <2>4. /\ z.TaskState = [a.TaskState EXCEPT ![t] = "RDY"] /\ z.Prio = a.Prio
        /\ SameCtrs(a, z) /\ SamePend(a, z) /\ SameWheel(a, z)
    BY <2>2, <2>3, SetStateFrame
  <2> QED
    BY <1>7, <1>9, <2>1, <2>4 DEF Ends, SameCtrs, SamePend, SameWheel, p, z
<1> QED
  BY <1>8, <1>9

\* What a task waits for agrees with its state, and the pend lists with what
\* their waiters wait for; a task that waits for its own semaphore or queue is in
\* none.
PendOK(o) ==
  /\ \A t \in Task : o.TaskState[t] \in Pending <=> o.PendOn[t] # "NOTHING"
  /\ \A t \in Task : o.PendData[t] # {} => o.TaskState[t] \in Pending
  /\ \A t \in Task : o.PendOn[t] \in {"TASK_SEM", "TASK_Q"} => o.PendData[t] = {}
  /\ \A obj \in Obj : IsList(o.PendList[obj], {t \in Task : obj \in o.PendData[t]})

\* OS_TickListUpdate ends the delay or the wait of a task whose tick has come.
LEMMA ExpireEnds ==
  ASSUME NEW o, NEW C, OsInv(o, C), PendOK(o), NEW t \in Task, o.TaskState[t] \in Timed
  PROVE  \E st \in StatusSet : /\ Ends(o, Expire(o, t), t, st)
                               /\ o.TaskState[t] \in Pending => st = "TIMEOUT"
<1> DEFINE p  == OS_PendListRemove(o, t)
           o2 == [p EXCEPT !.MsgPtr[t] = NoMsg, !.PendStatus[t] = "TIMEOUT", !.PendOn[t] = "NOTHING"]
           x  == o.TaskState[t]
           y  == IF x \in Suspended THEN "SUSPENDED" ELSE "RDY"
           r  == [o EXCEPT !.TaskState[t] = y]
           z  == Expire(o, t)
<1>1. /\ o \in KState /\ o.TaskState \in [Task -> State] /\ o.PendOn \in [Task -> PendOnSet]
      /\ o.PendStatus \in [Task -> StatusSet] /\ o.Prio[t] \in Prio
  <2>1. x # "DEL"
    BY DEF Timed
  <2> QED
    BY <2>1 DEF OsInv, KState
<1>2. /\ p \in KState /\ p.TaskState = o.TaskState /\ p.Prio = o.Prio
      /\ SameCtrs(o, p) /\ SameWheel(o, p) /\ (o.PendData[t] = {} => SamePend(o, p))
  BY <1>1, PendListRemoveFrame, PendListRemoveLemma
<1>3. CASE x \in {"DLY", "DLY_SUSPENDED"}
  <2>1. x \notin Pending /\ o.PendOn[t] = "NOTHING" /\ o.PendData[t] = {}
    BY <1>3 DEF Pending, PendOK
  <2>2. y \in State
    BY DEF State, Suspended
  <2>3. z = IF x \in Suspended THEN OS_TickListRemove(r, t) ELSE OS_TaskRdy(r, t)
    BY <1>3 DEF Expire, Suspended
  <2> HIDE DEF p, y
  <2>4. /\ r.TaskState = [o.TaskState EXCEPT ![t] = y] /\ r.Prio = o.Prio
        /\ SameCtrs(o, r) /\ SamePend(o, r) /\ SameWheel(o, r) /\ r \in KState
    BY <1>1, <2>2, SetStateFrame, SetStateLemma
  <2> HIDE DEF r, z
  <2>5. /\ z.TaskState = r.TaskState /\ z.Prio = r.Prio
        /\ SameCtrs(r, z) /\ SamePend(r, z) /\ SameWheel(OS_TickListRemove(o, t), z)
    BY <1>1, <2>3, <2>4, TickListRemoveFrame, TaskRdyFrame
  <2>6. o.PendOn = [o.PendOn EXCEPT ![t] = "NOTHING"]
        /\ o.PendStatus = [o.PendStatus EXCEPT ![t] = o.PendStatus[t]]
    BY <1>1, <2>1
  <2>7. SamePend(p, z)
    BY <1>2, <2>1, <2>4, <2>5 DEF SamePend
  <2>8. Ends(o, z, t, o.PendStatus[t])
    BY <2>4, <2>5, <2>6, <2>7 DEF Ends, SameCtrs, p, y
  <2> QED
    BY <1>1, <2>1, <2>8 DEF z
<1>4. CASE x \notin {"DLY", "DLY_SUSPENDED"}
  <2>1. x \in Pending
    BY <1>4 DEF Timed, Pending
  <2>2. PICK obj : obj # NoObj
    <3>1. TRUE # NoObj \/ FALSE # NoObj
      OBVIOUS
    <3> QED
      BY <3>1
  <2>3. z = EndWait(o, obj, t, NoMsg, "TIMEOUT")
    <3>1. x = "PEND_TIMEOUT" \/ x = "PEND_TIMEOUT_SUSPENDED"
      BY <1>4 DEF Timed
    <3>2. CASE x = "PEND_TIMEOUT"
      BY <2>2, <3>2 DEF EndWait, Expire
    <3>3. CASE x = "PEND_TIMEOUT_SUSPENDED"
      BY <2>2, <3>3 DEF EndWait, Expire
    <3> QED
      BY <3>1, <3>2, <3>3
  <2>4. "TIMEOUT" \in StatusSet /\ NoMsg \in Msg \cup {NoMsg}
    BY DEF StatusSet
  <2> HIDE DEF z
  <2>5. Ends(o, z, t, "TIMEOUT")
    BY <2>1, <2>2, <2>3, <2>4, EndWaitEnds
  <2> QED
    BY <2>4, <2>5 DEF z
<1> QED
  BY <1>3, <1>4
-----------------------------------------------------------------------------
(* The beginnings of waits. *)

\* OS_TICK arithmetic stays within one turn of the counter.
LEMMA ModTurn ==
  ASSUME NEW m \in Nat \ {0}, NEW a \in Int
  PROVE  /\ a \in 0 .. m - 1 => a % m = a
         /\ a \in m .. 2 * m - 1 => a % m = a - m
         /\ a \in -m .. -1 => a % m = a + m
OBVIOUS

\* The distance from tick b to tick a is that of the numbers, or goes round the
\* end of the counter.
LEMMA MinusTurn ==
  ASSUME NEW x \in Tick, NEW y \in Tick
  PROVE  /\ Minus(x, y) = IF x >= y THEN x - y ELSE x - y + TickMod
         /\ Minus(x, y) \in Tick
<1> DEFINE d == x - y
           n == TickMod
<1>1. /\ n \in Nat \ {0} /\ d \in Int
      /\ x >= y \/ x < y
      /\ x >= y => d \in 0 .. n - 1
      /\ x < y => d \in -n .. -1
  BY CoreAssumption DEF Tick
<1> HIDE DEF d, n
<1>2. /\ d \in 0 .. n - 1 => d % n = d
      /\ d \in -n .. -1 => d % n = d + n
  BY <1>1, ModTurn
<1>3. d % n = IF x >= y THEN d ELSE d + n
  BY <1>1, <1>2
<1> QED
  BY <1>1, <1>3 DEF Minus, Tick, d, n

\* Tick m is what OS_TickListInsert may choose for a wait of time ticks: not now,
\* and not later than asked for or, for an absolute time, than OS_TICK_TH_RDY.
InTime(o, m, time, opt) ==
  LET r == Minus(m, o.OSTickCtr)
  IN  /\ m \in Tick
      /\ \/ r \in 1 .. time
         \/ opt = "MATCH" /\ r <= TickThRdy + 1 /\ (TickThRdy < TickMod - 1 => r > 0)

\* The match tick that OS_TickListInsert computes, also for a period whose last
\* match tick is long past.
LEMMA MatchTickInTime ==
  ASSUME NEW o \in KState, NEW t \in Task, NEW time \in Tick, NEW opt, ~NoDelay(o, time, opt)
  PROVE  InTime(o, MatchTick(o, t, time, opt), time, opt)
<1> DEFINE m    == MatchTick(o, t, time, opt)
           now  == o.OSTickCtr
           next == (o.TickCtrPrev[t] + time) % TickMod
<1>1. /\ o.TickCtrPrev[t] \in Tick /\ now \in Tick /\ time \in Tick /\ time \in Int /\ now \in Int
      /\ TickMod \in Nat \ {0, 1} /\ TickThRdy \in 0 .. TickMod - 1
  BY CoreAssumption DEF KState, Tick
<1>2. next \in Tick
  BY <1>1 DEF Tick
<1> HIDE DEF now, next
<1>3. ASSUME NEW x \in Tick
      PROVE  Minus(x, 1) = IF x = 0 THEN TickMod - 1 ELSE x - 1
  <2>1. 1 \in Tick
    BY <1>1 DEF Tick
  <2>2. Minus(x, 1) = IF x >= 1 THEN x - 1 ELSE x - 1 + TickMod
    BY <2>1, MinusTurn
  <2> QED
    BY <1>1, <2>2 DEF Tick
<1>4. CASE opt = "MATCH"
  <2> DEFINE r == Minus(time, now)
  <2>1. m = time /\ ~(Minus(r, 1) > TickThRdy)
    BY <1>4 DEF MatchTick, NoDelay, now
  <2>2. r \in Tick
    BY <1>1, MinusTurn
  <2> HIDE DEF r, m
  <2>3. r <= TickThRdy + 1 /\ (TickThRdy < TickMod - 1 => r > 0)
    BY <1>1, <1>3, <2>1, <2>2 DEF Tick
  <2> QED
    BY <1>1, <1>4, <2>1, <2>3 DEF InTime, r, now, m
<1>5. CASE opt # "MATCH"
  <2>0. time \in 1 .. TickMod - 1
    BY <1>1, <1>5 DEF NoDelay, Tick
  <2>1. CASE opt = "PERIODIC" /\ Minus(Minus(next, now), 1) < time
    <3> DEFINE r == Minus(next, now)
    <3>1. m = next
      BY <2>1 DEF MatchTick, next, now
    <3>2. r \in Tick
      BY <1>1, <1>2, MinusTurn
    <3> HIDE DEF r, m
    <3>3. r \in 1 .. time
      BY <1>1, <1>3, <2>0, <2>1, <3>2 DEF Tick, r
    <3> QED
      BY <1>2, <3>1, <3>3 DEF InTime, r, now, m
  <2>2. CASE ~(opt = "PERIODIC" /\ Minus(Minus(next, now), 1) < time)
    <3>1. m = (now + time) % TickMod
      BY <1>5, <2>2 DEF MatchTick, next, now
    <3>2. m = IF now + time < TickMod THEN now + time ELSE now + time - TickMod
      <4> DEFINE d == now + time
                 n == TickMod
      <4>1. /\ n \in Nat \ {0} /\ d \in Int
            /\ d < n => d \in 0 .. n - 1
            /\ ~(d < n) => d \in n .. 2 * n - 1
        BY <1>1, <2>0 DEF Tick
      <4>2. m = d % n
        BY <3>1
      <4> HIDE DEF d, n, m
      <4>3. /\ d \in 0 .. n - 1 => d % n = d
            /\ d \in n .. 2 * n - 1 => d % n = d - n
        BY <4>1, ModTurn
      <4>4. m = IF d < n THEN d ELSE d - n
        BY <4>1, <4>2, <4>3
      <4> QED
        BY <1>1, <4>1, <4>4 DEF d, n
    <3> HIDE DEF m
    <3>3. m \in Tick
      BY <1>1, <2>0, <3>2 DEF Tick
    <3>4. Minus(m, now) = IF m >= now THEN m - now ELSE m - now + TickMod
      BY <1>1, <3>3, MinusTurn
    <3>5. Minus(m, now) \in 1 .. time
      BY <1>1, <2>0, <3>2, <3>4 DEF Tick
    <3> QED
      BY <3>3, <3>5 DEF InTime, now, m
  <2> QED
    BY <2>1, <2>2
<1> QED
  BY <1>4, <1>5

\* Task t goes on the tick wheel, to be woken at tick m, in front of the tasks of
\* its spoke that are not to be woken sooner.
Hangs(o, o2, t, m) ==
  LET spoke == m % TickWheelSize
      later == {u \in Task : Minus(m, o.OSTickCtr) <= Minus(o.TickCtrMatch[u], o.OSTickCtr)}
  IN  /\ o2.OSTickCtr = o.OSTickCtr
      /\ o2.TickCtrMatch = [o.TickCtrMatch EXCEPT ![t] = m]
      /\ o2.TickSpokePtr = [o.TickSpokePtr EXCEPT ![t] = spoke]
      /\ o2.TickWheel = [o.TickWheel EXCEPT ![spoke] = LinkBefore(o.TickWheel[spoke], t, later)]

\* OS_TickListInsert reads and writes the wheel only.
LEMMA TickListInsertFrame ==
  ASSUME NEW o \in KState, NEW o1 \in KState, SameWheel(o, o1), NEW t \in Task,
         NEW time \in Tick, NEW opt, ~NoDelay(o1, time, opt)
  PROVE  LET o2 == OS_TickListInsert(o1, t, time, opt)
         IN  /\ o2.TaskState = o1.TaskState /\ o2.Prio = o1.Prio
             /\ SameCtrs(o1, o2) /\ SamePend(o1, o2)
             /\ \E m : Hangs(o, o2, t, m) /\ InTime(o, m, time, opt)
<1> DEFINE match  == MatchTick(o1, t, time, opt)
           spoke  == match % TickWheelSize
           later  == {u \in Task : Minus(match, o1.OSTickCtr) <= Minus(o1.TickCtrMatch[u], o1.OSTickCtr)}
           prev   == IF opt = "PERIODIC" THEN match ELSE o1.TickCtrPrev[t]
           fm     == [o1.TickCtrMatch EXCEPT ![t] = match]
           fp     == [o1.TickCtrPrev EXCEPT ![t] = prev]
           fs     == [o1.TickSpokePtr EXCEPT ![t] = spoke]
           fw     == [o1.TickWheel EXCEPT ![spoke] = LinkBefore(o1.TickWheel[spoke], t, later)]
           o2     == OS_TickListInsert(o1, t, time, opt)
<1>1. o2 = [o1 EXCEPT !.TickCtrMatch = fm, !.TickCtrPrev = fp, !.TickSpokePtr = fs, !.TickWheel = fw]
  BY DEF OS_TickListInsert, KState
<1>2. InTime(o1, match, time, opt)
  BY MatchTickInTime
<1>3. InTime(o, match, time, opt)
  BY <1>2 DEF InTime, SameWheel
<1> HIDE DEF match
<1>4. /\ fm = [o.TickCtrMatch EXCEPT ![t] = match] /\ fs = [o.TickSpokePtr EXCEPT ![t] = spoke]
      /\ later = {u \in Task : Minus(match, o.OSTickCtr) <= Minus(o.TickCtrMatch[u], o.OSTickCtr)}
      /\ fw = [o.TickWheel EXCEPT ![spoke] = LinkBefore(o.TickWheel[spoke], t, later)]
  BY DEF SameWheel
<1> HIDE DEF fm, fs, fw, fp, o2, later
<1>5. /\ o2.TaskState = o1.TaskState /\ o2.Prio = o1.Prio /\ o2.OSTickCtr = o1.OSTickCtr
      /\ SameCtrs(o1, o2) /\ SamePend(o1, o2)
      /\ o2.TickCtrMatch = fm /\ o2.TickSpokePtr = fs /\ o2.TickWheel = fw
  BY <1>1 DEF KState, SameCtrs, SamePend
<1>6. Hangs(o, o2, t, match)
  BY <1>4, <1>5 DEF Hangs, SameWheel
<1> QED
  BY <1>3, <1>5, <1>6 DEF o2

\* Task t stops to wait for on: in the pend list of obj, if there is one, behind
\* the waiters of the same or a higher priority, and on the tick wheel if the wait
\* is timed.
Blocks(o, o2, t, obj, on, time) ==
  /\ o.TaskState[t] = "RDY"
  /\ o2.TaskState = [o.TaskState EXCEPT ![t] = IF time > 0 THEN "PEND_TIMEOUT" ELSE "PEND"]
  /\ o2.PendOn = [o.PendOn EXCEPT ![t] = on]
  /\ o2.PendStatus = [o.PendStatus EXCEPT ![t] = "OK"]
  /\ o2.Prio = o.Prio /\ o2.SuspendCtr = o.SuspendCtr /\ o2.SemCtr = o.SemCtr
  /\ o2.PendData = [o.PendData EXCEPT ![t] = IF obj = NoObj THEN {} ELSE {obj}]
  /\ o2.PendList = IF obj = NoObj THEN o.PendList
                   ELSE [o.PendList EXCEPT ![obj] =
                           LinkBefore(o.PendList[obj], t, {u \in Task : o.Prio[t] < o.Prio[u]})]
  /\ IF time > 0 THEN \E m : Hangs(o, o2, t, m) /\ InTime(o, m, time, "TIMEOUT")
                 ELSE SameWheel(o, o2)

\* OS_Pend of the running task.
LEMMA PendBlocks ==
  ASSUME NEW o, NEW C, OsInv(o, C), NEW t \in Ready(o) \ C, NEW obj \in Obj \cup {NoObj},
         NEW on \in PendOnSet, NEW time \in Tick
  PROVE  Blocks(o, OS_Pend(o, t, obj, on, time), t, obj, on, time)
<1> DEFINE on2 == [o.PendOn EXCEPT ![t] = on]
           st2 == [o.PendStatus EXCEPT ![t] = "OK"]
           a  == [o EXCEPT !.PendOn[t] = on, !.PendStatus[t] = "OK"]
           b  == IF time > 0 THEN OS_TickListInsert(a, t, time, "TIMEOUT") ELSE a
           st == IF time > 0 THEN "PEND_TIMEOUT" ELSE "PEND"
           c  == [b EXCEPT !.TaskState[t] = st]
           d  == OS_RdyListRemove(c, t)
           pd == IF obj = NoObj THEN {} ELSE {obj}
           e  == [d EXCEPT !.PendData[t] = pd]
           Stop == {u \in Task : e.Prio[t] < e.Prio[u]}
           o2 == OS_Pend(o, t, obj, on, time)
<1>1. o \in KState /\ t \in Task /\ o.TaskState[t] = "RDY"
  BY DEF OsInv, Ready
<1>2. /\ a \in KState /\ a.TaskState = o.TaskState /\ a.Prio = o.Prio
      /\ a.PendOn = on2 /\ a.PendStatus = st2 /\ a.SuspendCtr = o.SuspendCtr /\ a.SemCtr = o.SemCtr
      /\ SamePend(o, a) /\ SameWheel(o, a)
  <2>1. a = [o EXCEPT !.PendOn = on2, !.PendStatus = st2]
    BY <1>1 DEF KState
  <2>2. on2 \in [Task -> PendOnSet] /\ st2 \in [Task -> StatusSet]
    BY <1>1 DEF KState, StatusSet
  <2> HIDE DEF a, on2, st2
  <2>3. a \in KState
    BY <1>1, <2>1, <2>2 DEF KState
  <2> QED
    BY <1>1, <2>1, <2>3 DEF KState, SamePend, SameWheel
<1>3. o2 = IF obj = NoObj THEN e ELSE OS_PendListInsertPrio(e, obj, t)
  BY DEF OS_Pend, OS_TaskBlock
<1> HIDE DEF a
<1>4. /\ b \in KState /\ b.TaskState = a.TaskState /\ b.Prio = a.Prio
      /\ SameCtrs(a, b) /\ SamePend(a, b)
      /\ IF time > 0 THEN \E m : Hangs(o, b, t, m) /\ InTime(o, m, time, "TIMEOUT")
                     ELSE SameWheel(o, b)
  <2>1. CASE time > 0
    <3>1. ~NoDelay(a, time, "TIMEOUT")
      BY <2>1 DEF NoDelay, Tick
    <3> QED
      BY <1>1, <1>2, <2>1, <3>1, TickListInsertLemma, TickListInsertFrame
  <2>2. CASE ~(time > 0)
    BY <1>2, <2>2 DEF SameCtrs, SamePend
  <2> QED
    BY <2>1, <2>2
<1> HIDE DEF b
<1>5. st \in State
  BY DEF State
<1> HIDE DEF st
<1>6. /\ c.TaskState = [b.TaskState EXCEPT ![t] = st] /\ c.Prio = b.Prio
      /\ SameCtrs(b, c) /\ SamePend(b, c) /\ SameWheel(b, c)
  <2>1. b \in KState
    BY <1>4
  <2> QED
    BY <1>1, <2>1, SetStateFrame
<1>7. c \in KState
  BY <1>1, <1>4, <1>5, SetStateLemma
<1> HIDE DEF c
<1>8. Quiet(c, d)
  BY <1>1, <1>7, RdyListQuiet
<1>9. d \in KState
  <2>1. OsInv(d, C)
    <3>1. Moves(o, c, t, st) /\ c.Prio = o.Prio /\ c.OSRdyList = o.OSRdyList /\ c.OSPrioTbl = o.OSPrioTbl
      <4>1. SameSched(o, a)
        BY <1>1 DEF a, SameSched, SameTasks, KState
      <4>2. SameSched(a, b)
        BY <1>1, <1>2, TickListInsertLemma DEF b, SameSched, SameTasks
      <4>3. SameSched(o, b)
        BY <4>1, <4>2 DEF SameSched, SameTasks
      <4> QED
        BY <1>1, <1>4, <1>5, <4>3, SetStateLemma DEF c, Moves, SameSched, SameTasks
    <3>2. st \notin {"RDY", "DEL"}
      BY DEF st
    <3> QED
      BY <1>5, <1>7, <3>1, <3>2, BlockLemma
  <2> QED
    BY <2>1 DEF OsInv
<1> HIDE DEF d
<1>10. /\ e.TaskState = d.TaskState /\ e.Prio = d.Prio /\ SameCtrs(d, e) /\ SameWheel(d, e)
       /\ e.PendData = [d.PendData EXCEPT ![t] = pd] /\ e.PendList = d.PendList
  <2> DEFINE f == [d.PendData EXCEPT ![t] = pd]
  <2>1. e = [d EXCEPT !.PendData = f]
    OBVIOUS
  <2> HIDE DEF e, f
  <2>2. /\ e.TaskState = d.TaskState /\ e.Prio = d.Prio /\ SameCtrs(d, e) /\ SameWheel(d, e)
        /\ e.PendData = f /\ e.PendList = d.PendList
    BY <1>9, <2>1 DEF KState, SameCtrs, SameWheel
  <2> QED
    BY <2>2 DEF f
<1>11. /\ e \in KState
  <2>1. [d.PendData EXCEPT ![t] = pd] \in [Task -> SUBSET Obj]
    BY <1>1, <1>9 DEF KState
  <2>2. e = [d EXCEPT !.PendData = [d.PendData EXCEPT ![t] = pd]]
    OBVIOUS
  <2> HIDE DEF e, pd
  <2> QED
    BY <1>9, <2>1, <2>2 DEF KState
<1> HIDE DEF e
<1>12. /\ o2.TaskState = e.TaskState /\ o2.Prio = e.Prio /\ SameCtrs(e, o2) /\ SameWheel(e, o2)
       /\ o2.PendData = e.PendData
       /\ o2.PendList = IF obj = NoObj THEN e.PendList
                        ELSE [e.PendList EXCEPT ![obj] = LinkBefore(e.PendList[obj], t, Stop)]
  <2>1. CASE obj = NoObj
    BY <1>3, <2>1 DEF SameCtrs, SameWheel
  <2>2. CASE obj # NoObj
    <3> DEFINE l == [e.PendList EXCEPT ![obj] = LinkBefore(e.PendList[obj], t, Stop)]
    <3>1. o2 = [e EXCEPT !.PendList = l]
      BY <1>3, <2>2 DEF OS_PendListInsertPrio
    <3> HIDE DEF o2, l
    <3>2. /\ o2.TaskState = e.TaskState /\ o2.Prio = e.Prio /\ SameCtrs(e, o2) /\ SameWheel(e, o2)
          /\ o2.PendData = e.PendData /\ o2.PendList = l
      BY <1>11, <3>1 DEF KState, SameCtrs, SameWheel
    <3> QED
      BY <2>2, <3>2 DEF o2, l
  <2> QED
    BY <2>1, <2>2
<1> HIDE DEF o2
<1>13. e.Prio = o.Prio /\ e.PendList = o.PendList
  BY <1>2, <1>4, <1>6, <1>8, <1>10 DEF SamePend, Quiet
<1>14. /\ o2.TaskState = [o.TaskState EXCEPT ![t] = st] /\ o2.Prio = o.Prio
       /\ o2.PendOn = on2 /\ o2.PendStatus = st2 /\ o2.SuspendCtr = o.SuspendCtr /\ o2.SemCtr = o.SemCtr
       /\ o2.PendData = [o.PendData EXCEPT ![t] = pd]
  BY <1>2, <1>4, <1>6, <1>8, <1>10, <1>12 DEF SameCtrs, SamePend, Quiet
<1>15. SameWheel(b, o2)
  BY <1>6, <1>8, <1>10, <1>12 DEF SameWheel, Quiet
<1>16. IF time > 0 THEN \E m : Hangs(o, o2, t, m) /\ InTime(o, m, time, "TIMEOUT")
                   ELSE SameWheel(o, o2)
  BY <1>4, <1>15 DEF SameWheel, Hangs
<1>17. o2.PendList = IF obj = NoObj THEN o.PendList
                     ELSE [o.PendList EXCEPT ![obj] =
                             LinkBefore(o.PendList[obj], t, {u \in Task : o.Prio[t] < o.Prio[u]})]
  BY <1>12, <1>13
<1> QED
  BY <1>1, <1>14, <1>16, <1>17 DEF Blocks, st, pd, on2, st2, o2

\* Task t sleeps until some tick m.
Sleeps(o, o2, t, time, opt) ==
  /\ o.TaskState[t] = "RDY"
  /\ o2.TaskState = [o.TaskState EXCEPT ![t] = "DLY"]
  /\ o2.Prio = o.Prio /\ SameCtrs(o, o2) /\ SamePend(o, o2)
  /\ \E m : Hangs(o, o2, t, m) /\ InTime(o, m, time, opt)

\* OSTimeDly of the running task, when there is something to wait for.
LEMMA DlySleeps ==
  ASSUME NEW o, NEW C, OsInv(o, C), NEW t \in Ready(o) \ C, NEW time \in Tick, NEW opt,
         ~NoDelay(o, time, opt)
  PROVE  LET o1 == OS_TickListInsert([o EXCEPT !.TaskState[t] = "DLY"], t, time, opt)
         IN  Sleeps(o, OS_RdyListRemove(o1, t), t, time, opt)
<1> DEFINE a  == [o EXCEPT !.TaskState[t] = "DLY"]
           o1 == OS_TickListInsert(a, t, time, opt)
           o2 == OS_RdyListRemove(o1, t)
<1>1. o \in KState /\ t \in Task /\ o.TaskState[t] = "RDY" /\ "DLY" \in State
  BY DEF OsInv, Ready, State
<1>2. /\ a.TaskState = [o.TaskState EXCEPT ![t] = "DLY"] /\ a.Prio = o.Prio
      /\ SameCtrs(o, a) /\ SamePend(o, a) /\ SameWheel(o, a)
  BY <1>1, SetStateFrame
<1>3. a \in KState
  BY <1>1, SetStateLemma
<1> HIDE DEF a
<1>4. ~NoDelay(a, time, opt)
  BY <1>2 DEF NoDelay, SameWheel
<1>5. /\ o1 \in KState /\ o1.TaskState = a.TaskState /\ o1.Prio = a.Prio
      /\ SameCtrs(a, o1) /\ SamePend(a, o1)
      /\ \E m : Hangs(o, o1, t, m) /\ InTime(o, m, time, opt)
  BY <1>1, <1>2, <1>3, <1>4, TickListInsertLemma, TickListInsertFrame
<1> HIDE DEF o1
<1>6. Quiet(o1, o2)
  BY <1>1, <1>5, RdyListQuiet
<1> HIDE DEF o2
<1>7. /\ o2.TaskState = [o.TaskState EXCEPT ![t] = "DLY"] /\ o2.Prio = o.Prio
      /\ SameCtrs(o, o2) /\ SamePend(o, o2)
  BY <1>2, <1>5, <1>6 DEF SameCtrs, SamePend, Quiet
<1>8. \E m : Hangs(o, o2, t, m) /\ InTime(o, m, time, opt)
  BY <1>5, <1>6 DEF Quiet, SameWheel, Hangs
<1> QED
  BY <1>1, <1>7, <1>8 DEF Sleeps, o2, o1, a
-----------------------------------------------------------------------------
(* Suspension, priorities, creation and deletion. *)

\* Task c gets state st and suspension counter n: it is suspended, or no longer,
\* and waits on as before.
Restates(o, o2, c, st, n) ==
  /\ o.TaskState[c] # "DEL" /\ st # "DEL"
  /\ (st \in Pending <=> o.TaskState[c] \in Pending)
  /\ st \in Timed <=> o.TaskState[c] \in Timed
  /\ SuspendBound < NestMod => (st \in Suspended <=> n > 0)
  /\ o2.TaskState = [o.TaskState EXCEPT ![c] = st]
  /\ o2.SuspendCtr = [o.SuspendCtr EXCEPT ![c] = n]
  /\ o2.PendOn = o.PendOn /\ o2.PendStatus = o.PendStatus /\ o2.SemCtr = o.SemCtr
  /\ o2.Prio = o.Prio /\ SamePend(o, o2)
  /\ \/ SameWheel(o, o2)
     \/ st \notin Timed /\ SameWheel(OS_TickListRemove(o, c), o2)

\* An assignment to SuspendCtr changes nothing else.
LEMMA SetSuspendFrame ==
  ASSUME NEW o \in KState, NEW c \in Task, NEW n
  PROVE  LET o2 == [o EXCEPT !.SuspendCtr[c] = n]
         IN  /\ o2.TaskState = o.TaskState /\ o2.Prio = o.Prio
             /\ o2.SuspendCtr = [o.SuspendCtr EXCEPT ![c] = n]
             /\ o2.PendOn = o.PendOn /\ o2.PendStatus = o.PendStatus /\ o2.SemCtr = o.SemCtr
             /\ SamePend(o, o2) /\ SameWheel(o, o2)
<1> DEFINE o2 == [o EXCEPT !.SuspendCtr[c] = n]
           s == [o.SuspendCtr EXCEPT ![c] = n]
<1>1. o2 = [o EXCEPT !.SuspendCtr = s]
  OBVIOUS
<1> HIDE DEF s, o2
<1>2. /\ o2.TaskState = o.TaskState /\ o2.Prio = o.Prio /\ o2.SuspendCtr = s
      /\ o2.PendOn = o.PendOn /\ o2.PendStatus = o.PendStatus /\ o2.SemCtr = o.SemCtr
      /\ SamePend(o, o2) /\ SameWheel(o, o2)
  BY <1>1 DEF KState, SamePend, SameWheel
<1> QED
  BY <1>2 DEF s, o2

\* OSTaskSuspend: the first suspension changes the state, a further one is counted.
LEMMA SuspendRestates ==
  ASSUME KInv, NEW t, NEW c, OSTaskSuspend(t, c)
  PROVE  \E st, n : Restates(os, os', c, st, n)
<1> DEFINE s  == os.TaskState[c]
           st == CASE s = "RDY" -> "SUSPENDED"
                   [] s = "DLY" -> "DLY_SUSPENDED"
                   [] s = "PEND" -> "PEND_SUSPENDED"
                   [] OTHER -> "PEND_TIMEOUT_SUSPENDED"
           a  == [os EXCEPT !.SuspendCtr[c] = 1]
           o  == [a EXCEPT !.TaskState[c] = st]
           n  == (os.SuspendCtr[c] + 1) % NestMod
           m  == [os EXCEPT !.SuspendCtr[c] = n]
           x  == IF s = "RDY" THEN OS_RdyListRemove(o, c) ELSE o
<1>1. /\ c \in Target /\ s # "DEL"
      /\ \/ s \in Suspended /\ os.SuspendCtr[c] < SuspendBound /\ os' = m
         \/ s \notin Suspended /\ os' = x
  BY DEF OSTaskSuspend, Step
<1>2. c \in Task
  BY <1>1, TargetLemma
<1>3. os \in KState /\ os.TaskState \in [Task -> State] /\ os.SuspendCtr \in [Task -> 0 .. NestMod - 1]
  BY DEF KInv, OsInv, KState
<1>4. CASE s \in Suspended /\ os.SuspendCtr[c] < SuspendBound /\ os' = m
  <2>1. SuspendBound < NestMod => n > 0
    <3>1. os.SuspendCtr[c] \in 0 .. NestMod - 1 /\ SuspendBound \in Nat /\ NestMod \in Nat \ {0}
      BY <1>2, <1>3, CoreAssumption, KernelAssumption
    <3> DEFINE k == os.SuspendCtr[c] + 1
    <3>2. SuspendBound < NestMod => k \in 0 .. NestMod - 1 /\ k > 0
      BY <1>4, <3>1
    <3>3. k \in Int
      BY <3>1
    <3> HIDE DEF k
    <3>4. SuspendBound < NestMod => k % NestMod = k
      BY <3>1, <3>2, <3>3, ModTurn
    <3> QED
      BY <3>2, <3>4 DEF k
  <2> HIDE DEF n
  <2>2. /\ m.TaskState = os.TaskState /\ m.Prio = os.Prio
        /\ m.SuspendCtr = [os.SuspendCtr EXCEPT ![c] = n]
        /\ m.PendOn = os.PendOn /\ m.PendStatus = os.PendStatus /\ m.SemCtr = os.SemCtr
        /\ SamePend(os, m) /\ SameWheel(os, m)
    BY <1>2, <1>3, SetSuspendFrame
  <2> HIDE DEF m
  <2>3. os.TaskState = [os.TaskState EXCEPT ![c] = s]
    BY <1>3
  <2>4. Restates(os, m, c, s, n)
    BY <1>1, <1>4, <2>1, <2>2, <2>3 DEF Restates
  <2> QED
    BY <1>4, <2>4
<1>5. CASE s \notin Suspended /\ os' = x
  <2>1. a \in KState
    BY <1>2, <1>3, SuspendCtrLemma, CoreAssumption
  <2>2. /\ a.TaskState = os.TaskState /\ a.Prio = os.Prio
        /\ a.SuspendCtr = [os.SuspendCtr EXCEPT ![c] = 1]
        /\ a.PendOn = os.PendOn /\ a.PendStatus = os.PendStatus /\ a.SemCtr = os.SemCtr
        /\ SamePend(os, a) /\ SameWheel(os, a)
    BY <1>2, <1>3, SetSuspendFrame
  <2> HIDE DEF a
  <2>3. /\ st \in State /\ st \in Suspended /\ st # "DEL"
        /\ (st \in Pending <=> s \in Pending) /\ (st \in Timed <=> s \in Timed)
    <3>1. s \in {"RDY", "DLY", "PEND", "PEND_TIMEOUT"}
      BY <1>1, <1>2, <1>3, <1>5 DEF State
    <3> QED
      BY <3>1 DEF State, Suspended, Pending, Timed
  <2> HIDE DEF st
  <2>4. /\ o.TaskState = [a.TaskState EXCEPT ![c] = st] /\ o.Prio = a.Prio
        /\ SameCtrs(a, o) /\ SamePend(a, o) /\ SameWheel(a, o) /\ o \in KState
    BY <1>2, <2>1, <2>3, SetStateFrame, SetStateLemma
  <2> HIDE DEF o
  <2>5. x = o \/ Quiet(o, x)
    BY <1>2, <2>4, RdyListQuiet
  <2> HIDE DEF x
  <2>6. /\ x.TaskState = [os.TaskState EXCEPT ![c] = st] /\ x.Prio = os.Prio
        /\ x.SuspendCtr = [os.SuspendCtr EXCEPT ![c] = 1]
        /\ x.PendOn = os.PendOn /\ x.PendStatus = os.PendStatus /\ x.SemCtr = os.SemCtr
        /\ SamePend(os, x) /\ SameWheel(os, x)
    BY <2>2, <2>4, <2>5 DEF Quiet, SameCtrs, SamePend, SameWheel
  <2>7. Restates(os, x, c, st, 1)
    BY <1>1, <2>3, <2>6 DEF Restates
  <2> QED
    BY <1>5, <2>7
<1> QED
  BY <1>1, <1>4, <1>5

\* OSTaskResume: only the last resumption changes the state.
LEMMA ResumeRestates ==
  ASSUME KInv, NEW t, NEW c, OSTaskResume(t, c)
  PROVE  os' = os \/ \E st, n : Restates(os, os', c, st, n)
<1> DEFINE s  == os.TaskState[c]
           n  == (os.SuspendCtr[c] - 1) % NestMod
           a  == [os EXCEPT !.SuspendCtr[c] = n]
           st == CASE s = "SUSPENDED" -> "RDY"
                   [] s = "DLY_SUSPENDED" -> "DLY"
                   [] s = "PEND_SUSPENDED" -> "PEND"
                   [] OTHER -> "PEND_TIMEOUT"
           r  == [a EXCEPT !.TaskState[c] = st]
           x  == IF s \notin Suspended THEN os
                 ELSE IF a.SuspendCtr[c] # 0 THEN a
                 ELSE IF s = "SUSPENDED" THEN OS_TaskRdy(r, c) ELSE r
<1>1. c \in Target /\ s # "DEL" /\ os' = x
  BY DEF OSTaskResume, Step
<1>2. c \in Task
  BY <1>1, TargetLemma
<1>3. os \in KState /\ os.TaskState \in [Task -> State] /\ os.SuspendCtr \in [Task -> 0 .. NestMod - 1]
  BY DEF KInv, OsInv, KState
<1>4. n \in 0 .. NestMod - 1
  BY <1>2, <1>3, CoreAssumption
<1> HIDE DEF n
<1>5. a \in KState /\ a.SuspendCtr[c] = n
  BY <1>2, <1>3, <1>4, SuspendCtrLemma
<1>6. /\ a.TaskState = os.TaskState /\ a.Prio = os.Prio
      /\ a.SuspendCtr = [os.SuspendCtr EXCEPT ![c] = n]
      /\ a.PendOn = os.PendOn /\ a.PendStatus = os.PendStatus /\ a.SemCtr = os.SemCtr
      /\ SamePend(os, a) /\ SameWheel(os, a)
  BY <1>2, <1>3, SetSuspendFrame
<1> HIDE DEF a
<1>7. CASE s \notin Suspended
  BY <1>1, <1>7
<1>8. CASE s \in Suspended /\ n # 0
  <2>1. os.TaskState = [os.TaskState EXCEPT ![c] = s] /\ n > 0
    BY <1>3, <1>4, <1>8
  <2>2. Restates(os, a, c, s, n)
    BY <1>1, <1>6, <1>8, <2>1 DEF Restates
  <2> QED
    BY <1>1, <1>5, <1>8, <2>2
<1>9. CASE s \in Suspended /\ n = 0
  <2>1. /\ st \in State /\ st \notin Suspended /\ st # "DEL"
        /\ (st \in Pending <=> s \in Pending) /\ (st \in Timed <=> s \in Timed)
        /\ (s = "SUSPENDED" => st \notin Timed)
    BY <1>9 DEF State, Suspended, Pending, Timed
  <2> HIDE DEF st
  <2>2. /\ r.TaskState = [a.TaskState EXCEPT ![c] = st] /\ r.Prio = a.Prio
        /\ SameCtrs(a, r) /\ SamePend(a, r) /\ SameWheel(a, r) /\ r \in KState
    BY <1>2, <1>5, <2>1, SetStateFrame, SetStateLemma
  <2> HIDE DEF r
  <2>3. SameWheel(os, r)
    BY <1>6, <2>2 DEF SameWheel
  <2>4. /\ x.TaskState = r.TaskState /\ x.Prio = r.Prio /\ SameCtrs(r, x) /\ SamePend(r, x)
        /\ \/ SameWheel(os, x)
           \/ st \notin Timed /\ SameWheel(OS_TickListRemove(os, c), x)
    <3>1. CASE s = "SUSPENDED"
      <4>1. x = OS_TaskRdy(r, c)
        BY <1>5, <1>9, <3>1
      <4> QED
        BY <1>2, <1>3, <2>1, <2>2, <2>3, <3>1, <4>1, TaskRdyFrame
    <3>2. CASE s # "SUSPENDED"
      <4>1. x = r
        BY <1>5, <1>9, <3>2
      <4> QED
        BY <2>3, <4>1 DEF SameCtrs, SamePend
    <3> QED
      BY <3>1, <3>2
  <2> HIDE DEF x
  <2>5. /\ x.TaskState = [os.TaskState EXCEPT ![c] = st] /\ x.Prio = os.Prio
        /\ x.SuspendCtr = [os.SuspendCtr EXCEPT ![c] = 0]
        /\ x.PendOn = os.PendOn /\ x.PendStatus = os.PendStatus /\ x.SemCtr = os.SemCtr
        /\ SamePend(os, x)
    BY <1>6, <1>9, <2>2, <2>4 DEF SameCtrs, SamePend
  <2>6. Restates(os, x, c, st, 0)
    BY <1>1, <2>1, <2>4, <2>5 DEF Restates
  <2> QED
    BY <1>1, <2>6
<1> QED
  BY <1>7, <1>8, <1>9

\* Task c gets priority p, and its place among the waiters of the objects it
\* waits for; a task that waits for event flags keeps its place.
Repri(o, o2, c, p) ==
  /\ o2.TaskState = o.TaskState /\ SameCtrs(o, o2) /\ SameWheel(o, o2)
  /\ o2.Prio = [o.Prio EXCEPT ![c] = p]
  /\ o2.PendData = o.PendData
  /\ \A obj \in Obj :
       o2.PendList[obj] = IF obj \in o.PendData[c] /\ o.PendOn[c] # "FLAG" /\ Len(o.PendList[obj]) > 1
                          THEN LinkBefore(Unlink(o.PendList[obj], c), c, {u \in Task : p < o2.Prio[u]})
                          ELSE o.PendList[obj]

\* An assignment to Prio changes nothing else.
LEMMA SetPrioFrame ==
  ASSUME NEW o \in KState, NEW c \in Task, NEW p
  PROVE  LET o2 == [o EXCEPT !.Prio[c] = p]
         IN  /\ o2.TaskState = o.TaskState /\ o2.Prio = [o.Prio EXCEPT ![c] = p]
             /\ SameCtrs(o, o2) /\ SamePend(o, o2) /\ SameWheel(o, o2)
<1> DEFINE o2 == [o EXCEPT !.Prio[c] = p]
           s == [o.Prio EXCEPT ![c] = p]
<1>1. o2 = [o EXCEPT !.Prio = s]
  OBVIOUS
<1> HIDE DEF s, o2
<1>2. /\ o2.TaskState = o.TaskState /\ o2.Prio = s
      /\ SameCtrs(o, o2) /\ SamePend(o, o2) /\ SameWheel(o, o2)
  BY <1>1 DEF KState, SameCtrs, SamePend, SameWheel
<1> QED
  BY <1>2 DEF s, o2

\* OS_PendListChangePrio.
LEMMA PendListChangePrioRepri ==
  ASSUME NEW o \in KState, NEW c \in Task, NEW p \in Prio, o.PendOn[c] # "FLAG"
  PROVE  Repri(o, OS_PendListChangePrio(o, c, p), c, p)
<1> DEFINE o1     == [o EXCEPT !.Prio[c] = p]
           behind == {u \in Task : p < o1.Prio[u]}
           lists  == [obj \in Obj |-> IF obj \in o.PendData[c] /\ Len(o1.PendList[obj]) > 1
                                      THEN LinkBefore(Unlink(o1.PendList[obj], c), c, behind)
                                      ELSE o1.PendList[obj]]
           o2     == OS_PendListChangePrio(o, c, p)
<1>1. /\ o1.TaskState = o.TaskState /\ o1.Prio = [o.Prio EXCEPT ![c] = p]
      /\ SameCtrs(o, o1) /\ SamePend(o, o1) /\ SameWheel(o, o1)
  BY SetPrioFrame
<1>2. o2 = [o1 EXCEPT !.PendList = lists]
  BY DEF OS_PendListChangePrio
<1>3. o1 \in KState
  <2>1. [o.Prio EXCEPT ![c] = p] \in [Task -> 0 .. PrioMax]
    BY CoreAssumption DEF KState, Prio
  <2>2. o1 = [o EXCEPT !.Prio = [o.Prio EXCEPT ![c] = p]]
    OBVIOUS
  <2> HIDE DEF o1
  <2> QED
    BY <2>1, <2>2 DEF KState
<1> HIDE DEF o1, behind
<1>4. \A obj \in Obj : lists[obj] = IF obj \in o.PendData[c] /\ Len(o.PendList[obj]) > 1
                                    THEN LinkBefore(Unlink(o.PendList[obj], c), c, behind)
                                    ELSE o.PendList[obj]
  BY <1>1 DEF SamePend
<1> HIDE DEF lists, o2
<1>5. /\ o2.TaskState = o1.TaskState /\ o2.Prio = o1.Prio /\ o2.PendData = o1.PendData
      /\ SameCtrs(o1, o2) /\ SameWheel(o1, o2) /\ o2.PendList = lists
  BY <1>2, <1>3 DEF KState, SameCtrs, SameWheel
<1>6. behind = {u \in Task : p < o2.Prio[u]}
  BY <1>5 DEF behind
<1> QED
  BY <1>1, <1>4, <1>5, <1>6 DEF Repri, SameCtrs, SamePend, SameWheel, o2

\* OSTaskChangePrio.
LEMMA ChangePrioRepri ==
  ASSUME KInv, PendOK(os), NEW t, NEW c, NEW p \in NewPrios, NEW self, OSTaskChangePrio(t, c, p, self)
  PROVE  Repri(os, os', c, p)
<1> DEFINE s  == os.TaskState[c]
           a  == OS_RdyListRemove(os, c)
           b  == [a EXCEPT !.Prio[c] = p]
           h  == OS_RdyListInsertHead(OS_PrioInsert(b, p), c)
           l  == OS_RdyListInsertTail(OS_PrioInsert(b, p), c)
           q  == [os EXCEPT !.Prio[c] = p]
<1>1. /\ c \in Target
      /\ os' = IF s = "RDY" THEN IF self THEN h ELSE l
               ELSE IF s \notin Pending \/ os.PendOn[c] \in {"TASK_Q", "TASK_SEM", "FLAG"} THEN q
               ELSE IF os.PendOn[c] = "NOTHING" THEN os
               ELSE OS_PendListChangePrio(os, c, p)
  BY DEF OSTaskChangePrio, Step
<1>2. c \in Task /\ c \notin Creating
  BY <1>1, TargetLemma
<1>3. p \in Prio
  BY KernelAssumption, CoreAssumption DEF Prio
<1>4. os \in KState /\ OsInv(os, Creating)
  BY DEF KInv, OsInv
<1>5. /\ s \notin Pending => os.PendOn[c] = "NOTHING" /\ os.PendData[c] = {}
      /\ s \in Pending => os.PendOn[c] # "NOTHING"
      /\ os.PendOn[c] \in {"TASK_Q", "TASK_SEM"} => os.PendData[c] = {}
  BY <1>2 DEF PendOK
<1>6. CASE s = "RDY"
  <2>1. os.PendData[c] = {}
    BY <1>5, <1>6 DEF Pending
  <2>2. a \in KState /\ Quiet(os, a)
    <3>1. c \in Ready(os) \ Creating /\ Rdy(os, Ready(os) \ Creating)
      BY <1>2, <1>4, <1>6 DEF Ready, OsInv
    <3> QED
      BY <1>2, <1>4, <3>1, RdyListQuiet, RdyListRemoveLemma
  <2> HIDE DEF a
  <2>3. /\ b.TaskState = a.TaskState /\ b.Prio = [a.Prio EXCEPT ![c] = p]
        /\ SameCtrs(a, b) /\ SamePend(a, b) /\ SameWheel(a, b)
    BY <1>2, <2>2, SetPrioFrame
  <2>4. b \in KState
    <3>1. [a.Prio EXCEPT ![c] = p] \in [Task -> 0 .. PrioMax]
      <4>1. a.Prio \in [Task -> 0 .. PrioMax]
        BY <2>2 DEF KState
      <4>2. p \in 0 .. PrioMax
        BY <1>3, CoreAssumption DEF Prio
      <4> QED
        BY <4>1, <4>2
    <3>2. b = [a EXCEPT !.Prio = [a.Prio EXCEPT ![c] = p]]
      OBVIOUS
    <3> HIDE DEF b
    <3> QED
      BY <2>2, <3>1, <3>2 DEF KState
  <2> HIDE DEF b
  <2>5. Quiet(b, h) /\ Quiet(b, l)
    BY <1>2, <2>4, RdyListQuiet
  <2> HIDE DEF h, l
  <2>6. Quiet(b, os')
    BY <1>1, <1>6, <2>5
  <2> QED
    BY <2>1, <2>2, <2>3, <2>6 DEF Repri, Quiet, SameCtrs, SamePend, SameWheel
<1>7. CASE s # "RDY" /\ (s \notin Pending \/ os.PendOn[c] \in {"TASK_Q", "TASK_SEM", "FLAG"})
  <2>1. os' = q
    BY <1>1, <1>7
  <2>2. /\ q.TaskState = os.TaskState /\ q.Prio = [os.Prio EXCEPT ![c] = p]
        /\ SameCtrs(os, q) /\ SamePend(os, q) /\ SameWheel(os, q)
    BY <1>2, <1>4, SetPrioFrame
  <2> HIDE DEF q
  <2>3. os.PendData[c] = {} \/ os.PendOn[c] = "FLAG"
    BY <1>5, <1>7
  <2> QED
    BY <2>1, <2>2, <2>3 DEF Repri, SamePend
<1>8. CASE s # "RDY" /\ s \in Pending /\ os.PendOn[c] \notin {"TASK_Q", "TASK_SEM", "FLAG"}
  <2>1. os' = OS_PendListChangePrio(os, c, p)
    BY <1>1, <1>5, <1>8
  <2> QED
    BY <1>2, <1>3, <1>4, <1>8, <2>1, PendListChangePrioRepri
<1> QED
  BY <1>6, <1>7, <1>8

\* The TCB of task c is given its initial values, and state st: it is in no list.
Resets(o, o2, c, st) ==
  /\ o2.TaskState = [o.TaskState EXCEPT ![c] = st]
  /\ o2.PendOn = [o.PendOn EXCEPT ![c] = "NOTHING"]
  /\ o2.PendStatus = [o.PendStatus EXCEPT ![c] = "OK"]
  /\ o2.SuspendCtr = [o.SuspendCtr EXCEPT ![c] = 0]
  /\ o2.SemCtr = [o.SemCtr EXCEPT ![c] = 0]
  /\ \A u \in Task \ {c} : o2.Prio[u] = o.Prio[u]
  /\ SamePend(OS_PendListRemove(o, c), o2)
  /\ o2.TickSpokePtr = [o.TickSpokePtr EXCEPT ![c] = NoSpoke]
  /\ o2.TickCtrMatch = [o.TickCtrMatch EXCEPT ![c] = 0]
  /\ o2.OSTickCtr = o.OSTickCtr
  /\ (o.TaskState[c] \notin Timed => o.TickSpokePtr[c] = NoSpoke)
       => o2.TickWheel = OS_TickListRemove(o, c).TickWheel

\* The first part of OSTaskCreate, for a TCB without a task.
LEMMA FillResets ==
  ASSUME NEW o, NEW C, OsInv(o, C), PendOK(o), NEW c \in Task, o.TaskState[c] = "DEL"
  PROVE  Resets(o, FillTCB(o, c), c, "RDY")
<1> DEFINE a == OS_TaskInitTCB(o, c)
           q == TaskQuanta[c]
           n == IF q = 0 THEN o.OSSchedRoundRobinDfltTimeQuanta ELSE q
           prio == [a.Prio EXCEPT ![c] = TaskPrio[c]]
           fq == [a.TimeQuanta EXCEPT ![c] = q]
           fn == [a.TimeQuantaCtr EXCEPT ![c] = n]
           f == FillTCB(o, c)
<1>1. o \in KState /\ o.PendData[c] = {} /\ o.TaskState[c] \notin Timed /\ o.Prio \in [Task -> 0 .. PrioMax]
  BY DEF OsInv, PendOK, Pending, Timed, KState
<1>2. a \in KState
  <2>1. Rdy(o, Ready(o) \ C) /\ c \notin Ready(o) \ C /\ Ready(o) \ C \subseteq Task
    BY DEF OsInv, Ready
  <2> QED
    BY <1>1, <2>1, TaskInitTCBLemma
<1>3. /\ a.TaskState = [o.TaskState EXCEPT ![c] = "RDY"]
      /\ a.PendOn = [o.PendOn EXCEPT ![c] = "NOTHING"]
      /\ a.PendStatus = [o.PendStatus EXCEPT ![c] = "OK"]
      /\ a.SuspendCtr = [o.SuspendCtr EXCEPT ![c] = 0]
      /\ a.SemCtr = [o.SemCtr EXCEPT ![c] = 0]
      /\ a.Prio = [o.Prio EXCEPT ![c] = OS_PRIO_INIT]
      /\ a.PendData = [o.PendData EXCEPT ![c] = {}] /\ a.PendList = o.PendList
      /\ a.TickSpokePtr = [o.TickSpokePtr EXCEPT ![c] = NoSpoke]
      /\ a.TickCtrMatch = [o.TickCtrMatch EXCEPT ![c] = 0]
      /\ a.TickWheel = o.TickWheel /\ a.OSTickCtr = o.OSTickCtr
  BY <1>1, TaskInitTCBFrame
<1>4. f = [a EXCEPT !.Prio = prio, !.TimeQuanta = fq, !.TimeQuantaCtr = fn]
  BY DEF FillTCB
<1> HIDE DEF a, f, fq, fn
<1>5. \A u \in Task \ {c} : prio[u] = o.Prio[u]
  BY <1>1, <1>3
<1> HIDE DEF prio
<1>6. /\ f.TaskState = a.TaskState /\ SameCtrs(a, f) /\ SamePend(a, f) /\ SameWheel(a, f)
      /\ f.Prio = prio
  BY <1>2, <1>4 DEF KState, SameCtrs, SamePend, SameWheel
<1>7. SamePend(OS_PendListRemove(o, c), f)
  <2>1. LET p == OS_PendListRemove(o, c)
        IN  SamePend(o, p) /\ p.PendData = [o.PendData EXCEPT ![c] = {}]
    BY <1>1, PendListRemoveFrame
  <2> QED
    BY <1>3, <1>6, <2>1 DEF SamePend
<1>8. o.TickSpokePtr[c] = NoSpoke => f.TickWheel = OS_TickListRemove(o, c).TickWheel
  BY <1>3, <1>6 DEF OS_TickListRemove, SameWheel
<1> QED
  BY <1>1, <1>3, <1>5, <1>6, <1>7, <1>8 DEF Resets, SameCtrs, SameWheel, f

\* OSTaskDel takes the task out of its lists and clears the TCB.
LEMMA DelResets ==
  ASSUME NEW o, NEW C, OsInv(o, C), PendOK(o), NEW c \in Task, c \notin C, o.TaskState[c] # "DEL"
  PROVE  LET s == o.TaskState[c]
             x == IF s = "RDY" THEN OS_RdyListRemove(o, c)
                  ELSE IF s = "SUSPENDED" THEN o
                  ELSE IF s \in Pending THEN OS_PendListRemove(OS_TickListRemove(o, c), c)
                  ELSE OS_TickListRemove(o, c)
         IN  Resets(o, [OS_TaskInitTCB(x, c) EXCEPT !.TaskState[c] = "DEL"], c, "DEL")
<1> DEFINE s == o.TaskState[c]
           w == OS_TickListRemove(o, c)
           p == OS_PendListRemove(o, c)
           x == IF s = "RDY" THEN OS_RdyListRemove(o, c)
                ELSE IF s = "SUSPENDED" THEN o
                ELSE IF s \in Pending THEN OS_PendListRemove(w, c)
                ELSE w
           y == OS_TaskInitTCB(x, c)
           z == [y EXCEPT !.TaskState[c] = "DEL"]
<1>1. /\ o \in KState /\ Rdy(o, Ready(o) \ C) /\ s \in State
      /\ o.TaskState \in [Task -> State] /\ o.Prio \in [Task -> 0 .. PrioMax]
      /\ o.TickSpokePtr \in [Task -> 0 .. TickWheelSize] /\ o.TickCtrMatch \in [Task -> Tick]
  BY DEF OsInv, KState
<1>2. /\ w \in KState /\ w.TaskState = o.TaskState /\ w.Prio = o.Prio
      /\ SameCtrs(o, w) /\ SamePend(o, w)
      /\ w.OSTickCtr = o.OSTickCtr
      /\ [w.TickSpokePtr EXCEPT ![c] = NoSpoke] = [o.TickSpokePtr EXCEPT ![c] = NoSpoke]
      /\ [w.TickCtrMatch EXCEPT ![c] = 0] = [o.TickCtrMatch EXCEPT ![c] = 0]
      /\ o.TickSpokePtr[c] = NoSpoke => w.TickWheel = o.TickWheel
  <2>1. /\ w \in KState /\ w.TaskState = o.TaskState /\ w.Prio = o.Prio
        /\ SameCtrs(o, w) /\ SamePend(o, w)
    BY <1>1, TickListRemoveLemma, TickListRemoveFrame DEF SameWheel
  <2>2. CASE o.TickSpokePtr[c] = NoSpoke
    BY <2>1, <2>2 DEF OS_TickListRemove
  <2>3. CASE o.TickSpokePtr[c] # NoSpoke
    <3> DEFINE n  == o.TickSpokePtr[c]
               fw == [o.TickWheel EXCEPT ![n] = Unlink(o.TickWheel[n], c)]
               fs == [o.TickSpokePtr EXCEPT ![c] = NoSpoke]
               fm == [o.TickCtrMatch EXCEPT ![c] = 0]
    <3>1. w = [o EXCEPT !.TickWheel = fw, !.TickSpokePtr = fs, !.TickCtrMatch = fm]
      BY <1>1, <2>3 DEF OS_TickListRemove, KState
    <3>2. [fs EXCEPT ![c] = NoSpoke] = fs /\ [fm EXCEPT ![c] = 0] = fm
      BY <1>1
    <3> HIDE DEF w, fw, fs, fm
    <3>3. w.OSTickCtr = o.OSTickCtr /\ w.TickSpokePtr = fs /\ w.TickCtrMatch = fm
      BY <1>1, <3>1 DEF KState
    <3> QED
      BY <2>1, <2>3, <3>2, <3>3 DEF fs, fm
  <2> QED
    BY <2>2, <2>3
<1>3. /\ p.PendData = [o.PendData EXCEPT ![c] = {}]
      /\ p.PendList = [obj \in Obj |-> IF obj \in o.PendData[c] THEN Unlink(o.PendList[obj], c)
                                                                ELSE o.PendList[obj]]
      /\ o.PendData[c] = {} => SamePend(o, p)
  BY <1>1, PendListRemoveFrame
<1> HIDE DEF w
<1>4. /\ x \in KState /\ x.TaskState = o.TaskState /\ x.Prio = o.Prio /\ SameCtrs(o, x)
      /\ x.OSTickCtr = o.OSTickCtr
      /\ [x.TickSpokePtr EXCEPT ![c] = NoSpoke] = [o.TickSpokePtr EXCEPT ![c] = NoSpoke]
      /\ [x.TickCtrMatch EXCEPT ![c] = 0] = [o.TickCtrMatch EXCEPT ![c] = 0]
      /\ [x.PendData EXCEPT ![c] = {}] = p.PendData /\ x.PendList = p.PendList
      /\ (s \notin Timed => o.TickSpokePtr[c] = NoSpoke) => x.TickWheel = w.TickWheel
  <2>1. CASE s \in {"RDY", "SUSPENDED"}
    <3>1. o.PendData[c] = {} /\ s \notin Timed
      BY <2>1 DEF PendOK, Pending, Timed
    <3>2. x \in KState /\ Quiet(o, x)
      <4>1. CASE s = "RDY"
        <5>1. c \in Ready(o) \ C
          BY <4>1 DEF Ready
        <5> QED
          BY <1>1, <4>1, <5>1, RdyListQuiet, RdyListRemoveLemma
      <4>2. CASE s = "SUSPENDED"
        <5>1. x = o
          BY <4>2
        <5> QED
          BY <1>1, <5>1 DEF Quiet, SameCtrs, SamePend, SameWheel
      <4> QED
        BY <2>1, <4>1, <4>2
    <3> HIDE DEF x, p
    <3>3. SamePend(o, p)
      BY <1>3, <3>1
    <3> QED
      BY <1>2, <1>3, <3>1, <3>2, <3>3 DEF Quiet, SameCtrs, SamePend, SameWheel
  <2>2. CASE s \notin {"RDY", "SUSPENDED"} /\ s \in Pending
    <3> DEFINE v == OS_PendListRemove(w, c)
    <3>1. x = v
      BY <2>2
    <3>2. /\ v \in KState /\ v.TaskState = w.TaskState /\ v.Prio = w.Prio
          /\ SameCtrs(w, v) /\ SameWheel(w, v)
          /\ v.PendData = [w.PendData EXCEPT ![c] = {}]
          /\ v.PendList = [obj \in Obj |-> IF obj \in w.PendData[c] THEN Unlink(w.PendList[obj], c)
                                                                    ELSE w.PendList[obj]]
      BY <1>2, PendListRemoveLemma, PendListRemoveFrame
    <3> HIDE DEF x, v, p
    <3>3. v.PendData = p.PendData /\ v.PendList = p.PendList
      BY <1>2, <1>3, <3>2 DEF SamePend
    <3>4. [v.PendData EXCEPT ![c] = {}] = v.PendData
      <4>1. v.PendData \in [Task -> SUBSET Obj] /\ w.PendData \in [Task -> SUBSET Obj]
        BY <1>2, <3>2 DEF KState
      <4> QED
        BY <3>2, <4>1
    <3> QED
      BY <1>2, <3>1, <3>2, <3>3, <3>4 DEF SameCtrs, SameWheel
  <2>3. CASE s \notin {"RDY", "SUSPENDED"} /\ s \notin Pending
    <3>1. x = w
      BY <2>3
    <3>2. o.PendData[c] = {}
      BY <2>3 DEF PendOK
    <3> HIDE DEF x, p
    <3> QED
      BY <1>2, <1>3, <3>1, <3>2 DEF SamePend
  <2> QED
    BY <2>1, <2>2, <2>3
<1> HIDE DEF x
<1>5. /\ y.TaskState = [x.TaskState EXCEPT ![c] = "RDY"]
      /\ y.PendOn = [x.PendOn EXCEPT ![c] = "NOTHING"]
      /\ y.PendStatus = [x.PendStatus EXCEPT ![c] = "OK"]
      /\ y.SuspendCtr = [x.SuspendCtr EXCEPT ![c] = 0]
      /\ y.SemCtr = [x.SemCtr EXCEPT ![c] = 0]
      /\ y.Prio = [x.Prio EXCEPT ![c] = OS_PRIO_INIT]
      /\ y.PendData = [x.PendData EXCEPT ![c] = {}] /\ y.PendList = x.PendList
      /\ y.TickSpokePtr = [x.TickSpokePtr EXCEPT ![c] = NoSpoke]
      /\ y.TickCtrMatch = [x.TickCtrMatch EXCEPT ![c] = 0]
      /\ y.TickWheel = x.TickWheel /\ y.OSTickCtr = x.OSTickCtr
  BY <1>4, TaskInitTCBFrame
<1>6. y \in KState
  <2>1. Rdy(x, (Ready(o) \ C) \ {c})
    <3>1. CASE s = "RDY"
      <4>1. c \in Ready(o) \ C
        BY <3>1 DEF Ready
      <4> QED
        BY <1>1, <3>1, <4>1, RdyListRemoveLemma DEF x
    <3>2. CASE s # "RDY"
      <4>1. SameSched(o, w) /\ w \in KState
        BY <1>1, TickListRemoveLemma DEF w
      <4>2. SameSched(w, OS_PendListRemove(w, c))
        BY <4>1, PendListRemoveLemma
      <4>3. x \in {o, w, OS_PendListRemove(w, c)}
        BY <3>2 DEF x
      <4>4. SameSched(o, x)
        BY <4>1, <4>2, <4>3 DEF SameSched, SameTasks
      <4>5. (Ready(o) \ C) \ {c} = Ready(o) \ C
        BY <3>2 DEF Ready
      <4> QED
        BY <1>1, <4>4, <4>5 DEF Rdy, SameSched, SameTasks
    <3> QED
      BY <3>1, <3>2
  <2>2. c \notin (Ready(o) \ C) \ {c} /\ (Ready(o) \ C) \ {c} \subseteq Task
    BY DEF Ready
  <2> QED
    BY <1>4, <2>1, <2>2, TaskInitTCBLemma
<1> HIDE DEF y
<1>7. /\ z.TaskState = [y.TaskState EXCEPT ![c] = "DEL"] /\ z.Prio = y.Prio
      /\ SameCtrs(y, z) /\ SamePend(y, z) /\ SameWheel(y, z)
  BY <1>6, SetStateFrame
<1> HIDE DEF z
<1>8. z.TaskState = [o.TaskState EXCEPT ![c] = "DEL"] /\ \A u \in Task \ {c} : z.Prio[u] = o.Prio[u]
  BY <1>1, <1>4, <1>5, <1>7
<1>9. /\ z.PendOn = [o.PendOn EXCEPT ![c] = "NOTHING"]
      /\ z.PendStatus = [o.PendStatus EXCEPT ![c] = "OK"]
      /\ z.SuspendCtr = [o.SuspendCtr EXCEPT ![c] = 0]
      /\ z.SemCtr = [o.SemCtr EXCEPT ![c] = 0]
  BY <1>4, <1>5, <1>7 DEF SameCtrs
<1>10. /\ SamePend(p, z)
       /\ z.TickSpokePtr = [o.TickSpokePtr EXCEPT ![c] = NoSpoke]
       /\ z.TickCtrMatch = [o.TickCtrMatch EXCEPT ![c] = 0]
       /\ z.OSTickCtr = o.OSTickCtr
       /\ (s \notin Timed => o.TickSpokePtr[c] = NoSpoke) => z.TickWheel = w.TickWheel
  BY <1>4, <1>5, <1>7 DEF SamePend, SameWheel
<1>11. Resets(o, z, c, "DEL")
  BY <1>8, <1>9, <1>10 DEF Resets, w, p
<1> QED
  BY <1>11 DEF z, y, x, w
-----------------------------------------------------------------------------
(* What a step of the kernel does, one kind of change for all services. *)

\* The semaphore counter of task c changes; only OSTaskSemSet may do so while the
\* task waits for it.
Counts(o, o2, c) ==
  /\ \E n : o2.SemCtr = [o.SemCtr EXCEPT ![c] = n]
  /\ (\A u \in Task : "semset" \notin Calls[u]) => ~WaitsForSignal(o, c)
  /\ o2.TaskState = o.TaskState /\ o2.Prio = o.Prio
  /\ o2.PendOn = o.PendOn /\ o2.PendStatus = o.PendStatus /\ o2.SuspendCtr = o.SuspendCtr
  /\ SamePend(o, o2) /\ SameWheel(o, o2)

\* The clock changes.
Ticks(o, o2) ==
  /\ o2.TaskState = o.TaskState /\ o2.Prio = o.Prio /\ SameCtrs(o, o2) /\ SamePend(o, o2)
  /\ o2.TickSpokePtr = o.TickSpokePtr /\ o2.TickCtrMatch = o.TickCtrMatch
  /\ o2.TickWheel = o.TickWheel

\* A task stops to wait for its own semaphore or queue, or for an object.
Waits(o, o2, t) ==
  \E obj \in Obj \cup {NoObj}, on \in PendOnSet \ {"NOTHING"}, time \in Timeouts \cup {0} :
    /\ Blocks(o, o2, t, obj, on, time)
    /\ on \in {"TASK_SEM", "TASK_Q"} <=> obj = NoObj
    /\ on = "TASK_SEM" => o.SemCtr[t] = 0

\* A change that begins no wait and leaves the clock alone.
Calm(o, o2) ==
  \/ Quiet(o, o2)
  \/ \E t \in Task, st \in StatusSet : Ends(o, o2, t, st)
  \/ \E t \in Task, time \in Delays, opt \in DlyOpts : Sleeps(o, o2, t, time, opt)
  \/ \E c \in Task : \E st, n : Restates(o, o2, c, st, n)
  \/ \E c \in Task, p \in Prio : Repri(o, o2, c, p)
  \/ \E c \in Task, st \in {"RDY", "DEL"} : Resets(o, o2, c, st)
  \/ \E c \in Task : Counts(o, o2, c)

Change(o, o2) == Calm(o, o2) \/ Ticks(o, o2) \/ \E t \in Task : Waits(o, o2, t)

\* An assignment to SemCtr changes nothing else.
LEMMA SetSemCtrCounts ==
  ASSUME NEW o \in KState, NEW c \in Task, NEW n,
         (\A u \in Task : "semset" \notin Calls[u]) => ~WaitsForSignal(o, c)
  PROVE  Counts(o, [o EXCEPT !.SemCtr[c] = n], c)
<1> DEFINE o2 == [o EXCEPT !.SemCtr[c] = n]
           s == [o.SemCtr EXCEPT ![c] = n]
<1>1. o2 = [o EXCEPT !.SemCtr = s]
  OBVIOUS
<1> HIDE DEF s, o2
<1>2. /\ o2.TaskState = o.TaskState /\ o2.Prio = o.Prio /\ o2.SemCtr = s
      /\ o2.PendOn = o.PendOn /\ o2.PendStatus = o.PendStatus /\ o2.SuspendCtr = o.SuspendCtr
      /\ SamePend(o, o2) /\ SameWheel(o, o2)
  BY <1>1 DEF KState, SamePend, SameWheel
<1> QED
  BY <1>2 DEF s, o2, Counts

\* OS_TaskSemPost ends a wait or counts the signal.
LEMMA TaskSemPostChanges ==
  ASSUME NEW o, NEW C, OsInv(o, C), PendOK(o), NEW c \in Task
  PROVE  LET o2 == OS_TaskSemPost(o, c)
         IN  o2 = o \/ (Ends(o, o2, c, "OK") /\ WaitsForSignal(o, c)) \/ Counts(o, o2, c)
<1> DEFINE n  == o.SemCtr[c] + 1
           o1 == [o EXCEPT !.SemCtr[c] = n]
           o2 == OS_TaskSemPost(o, c)
<1>1. o \in KState
  BY DEF OsInv
<1>2. CASE WaitsForSignal(o, c)
  <2>1. NoMsg \in Msg \cup {NoMsg} /\ "OK" \in StatusSet /\ o.TaskState[c] \in Pending /\ o.PendData[c] = {}
    BY <1>2 DEF StatusSet, WaitsForSignal, PendOK
  <2>2. o2 = EndWait(o, NoObj, c, NoMsg, "OK")
    BY <1>2 DEF OS_TaskSemPost, OS_Post
  <2> QED
    BY <1>2, <2>1, <2>2, EndWaitEnds
<1>3. CASE ~WaitsForSignal(o, c)
  <2>1. o2 = o \/ o2 = o1
    BY <1>3 DEF OS_TaskSemPost
  <2> HIDE DEF n
  <2>2. Counts(o, o1, c)
    BY <1>1, <1>3, SetSemCtrCounts
  <2> QED
    BY <2>1, <2>2
<1> QED
  BY <1>2, <1>3

\* What is quiet may follow a change.
LEMMA CalmQuiet ==
  ASSUME NEW o, NEW o1, NEW o2, Calm(o, o1), Quiet(o1, o2)
  PROVE  Calm(o, o2)
<1> USE DEF Quiet, SameCtrs, SamePend, SameWheel
<1>1. CASE Quiet(o, o1)
  BY <1>1 DEF Calm
<1>2. ASSUME NEW t \in Task, NEW st \in StatusSet, Ends(o, o1, t, st)
      PROVE  Calm(o, o2)
  <2>1. Ends(o, o2, t, st)
    BY <1>2 DEF Ends
  <2> QED
    BY <2>1 DEF Calm
<1>4. ASSUME NEW t \in Task, NEW time \in Delays, NEW opt \in DlyOpts, Sleeps(o, o1, t, time, opt)
      PROVE  Calm(o, o2)
  <2>1. Sleeps(o, o2, t, time, opt)
    BY <1>4 DEF Sleeps, Hangs
  <2> QED
    BY <2>1 DEF Calm
<1>5. ASSUME NEW c \in Task, NEW st, NEW n, Restates(o, o1, c, st, n)
      PROVE  Calm(o, o2)
  <2>1. Restates(o, o2, c, st, n)
    BY <1>5 DEF Restates
  <2> QED
    BY <2>1 DEF Calm
<1>6. ASSUME NEW c \in Task, NEW p \in Prio, Repri(o, o1, c, p)
      PROVE  Calm(o, o2)
  <2>1. Repri(o, o2, c, p)
    BY <1>6 DEF Repri
  <2> QED
    BY <2>1 DEF Calm
<1>7. ASSUME NEW c \in Task, NEW st \in {"RDY", "DEL"}, Resets(o, o1, c, st)
      PROVE  Calm(o, o2)
  <2>1. Resets(o, o2, c, st)
    BY <1>7 DEF Resets
  <2> QED
    BY <2>1 DEF Calm
<1>8. ASSUME NEW c \in Task, Counts(o, o1, c)
      PROVE  Calm(o, o2)
  <2>1. Counts(o, o2, c)
    BY <1>8 DEF Counts
  <2> QED
    BY <2>1 DEF Calm
<1> QED
  BY <1>1, <1>2, <1>4, <1>5, <1>6, <1>7, <1>8 DEF Calm
\* A change that begins no wait gives no task anything to wait for.
LEMMA CalmShrinks ==
  ASSUME NEW o \in KState, NEW o2 \in KState, Calm(o, o2), NEW u \in Task
  PROVE  /\ o2.TaskState[u] \in Pending => o.TaskState[u] \in Pending
         /\ o2.PendData[u] \subseteq o.PendData[u]
         /\ o2.PendOn[u] \in {o.PendOn[u], "NOTHING"}
         /\ o2.PendData[u] = o.PendData[u] \/ o2.PendOn[u] = "NOTHING"
         /\ o2.OSTickCtr = o.OSTickCtr
<1> DEFINE Goal == /\ o2.TaskState[u] \in Pending => o.TaskState[u] \in Pending
                   /\ o2.PendData[u] \subseteq o.PendData[u]
                   /\ o2.PendOn[u] \in {o.PendOn[u], "NOTHING"}
                   /\ o2.PendData[u] = o.PendData[u] \/ o2.PendOn[u] = "NOTHING"
                   /\ o2.OSTickCtr = o.OSTickCtr
<1>0. /\ o.TaskState \in [Task -> State] /\ o.PendOn \in [Task -> PendOnSet]
      /\ o.PendData \in [Task -> SUBSET Obj]
  BY DEF KState
<1>a. ASSUME NEW t \in Task
      PROVE  /\ OS_PendListRemove(o, t).PendData = [o.PendData EXCEPT ![t] = {}]
             /\ OS_TickListRemove(o, t).OSTickCtr = o.OSTickCtr
  <2>1. OS_PendListRemove(o, t).PendData = [o.PendData EXCEPT ![t] = {}]
    BY PendListRemoveFrame
  <2>2. OS_TickListRemove(o, t).OSTickCtr = o.OSTickCtr
    BY DEF OS_TickListRemove, KState
  <2> QED
    BY <2>1, <2>2
<1>1. CASE Quiet(o, o2)
  BY <1>1 DEF Quiet, SameCtrs, SamePend, SameWheel
<1>2. ASSUME NEW t \in Task, NEW st \in StatusSet, Ends(o, o2, t, st)
      PROVE  Goal
  <2>1. /\ o2.TaskState = [o.TaskState EXCEPT ![t] = IF o.TaskState[t] \in Suspended
                                                    THEN "SUSPENDED" ELSE "RDY"]
        /\ o2.PendOn = [o.PendOn EXCEPT ![t] = "NOTHING"]
        /\ o2.PendData = [o.PendData EXCEPT ![t] = {}] /\ o2.OSTickCtr = o.OSTickCtr
    BY <1>2, <1>a DEF Ends, SamePend, SameWheel
  <2> QED
    BY <1>0, <2>1 DEF Pending
<1>3. ASSUME NEW t \in Task, NEW time \in Delays, NEW opt \in DlyOpts, Sleeps(o, o2, t, time, opt)
      PROVE  Goal
  <2>1. /\ o2.TaskState = [o.TaskState EXCEPT ![t] = "DLY"] /\ o2.PendOn = o.PendOn
        /\ o2.PendData = o.PendData /\ o2.OSTickCtr = o.OSTickCtr
    BY <1>3 DEF Sleeps, SamePend, SameCtrs, Hangs
  <2> QED
    BY <1>0, <2>1 DEF Pending
<1>4. ASSUME NEW c \in Task, NEW st, NEW n, Restates(o, o2, c, st, n)
      PROVE  Goal
  <2>1. /\ o2.TaskState = [o.TaskState EXCEPT ![c] = st] /\ (st \in Pending <=> o.TaskState[c] \in Pending)
        /\ o2.PendOn = o.PendOn /\ o2.PendData = o.PendData /\ o2.OSTickCtr = o.OSTickCtr
    BY <1>4, <1>a DEF Restates, SamePend, SameWheel
  <2> QED
    BY <1>0, <2>1
<1>5. ASSUME NEW c \in Task, NEW p \in Prio, Repri(o, o2, c, p)
      PROVE  Goal
  BY <1>5 DEF Repri, SameCtrs, SameWheel
<1>6. ASSUME NEW c \in Task, NEW st \in {"RDY", "DEL"}, Resets(o, o2, c, st)
      PROVE  Goal
  <2>1. /\ o2.TaskState = [o.TaskState EXCEPT ![c] = st] /\ o2.PendOn = [o.PendOn EXCEPT ![c] = "NOTHING"]
        /\ o2.PendData = [o.PendData EXCEPT ![c] = {}] /\ o2.OSTickCtr = o.OSTickCtr
    BY <1>6, <1>a DEF Resets, SamePend
  <2> QED
    BY <1>0, <2>1 DEF Pending
<1>7. ASSUME NEW c \in Task, Counts(o, o2, c)
      PROVE  Goal
  BY <1>7 DEF Counts, SamePend, SameWheel
<1> QED
  BY <1>1, <1>2, <1>3, <1>4, <1>5, <1>6, <1>7 DEF Calm
-----------------------------------------------------------------------------
(* What every change keeps. *)

\* Leaving all its pend lists, a task leaves the lists of the others as they are.
LEMMA PendListRemoveOK ==
  ASSUME NEW o \in KState, PendOK(o), NEW t \in Task
  PROVE  LET o2 == OS_PendListRemove(o, t)
         IN  /\ o2.PendData = [o.PendData EXCEPT ![t] = {}]
             /\ \A obj \in Obj : IsList(o2.PendList[obj], {u \in Task : obj \in o2.PendData[u]})
             /\ \A obj \in Obj : o2.PendList[obj] = Unlink(o.PendList[obj], t)
<1> DEFINE o2 == OS_PendListRemove(o, t)
<1>1. /\ o2.PendData = [o.PendData EXCEPT ![t] = {}]
      /\ o2.PendList = [obj \in Obj |-> IF obj \in o.PendData[t] THEN Unlink(o.PendList[obj], t)
                                                                ELSE o.PendList[obj]]
  BY PendListRemoveFrame
<1> HIDE DEF o2
<1>2. o.PendData \in [Task -> SUBSET Obj] /\ o.PendList \in [Obj -> Seq(Task)]
  BY DEF KState
<1>3. ASSUME NEW obj \in Obj
      PROVE  /\ IsList(o2.PendList[obj], {u \in Task : obj \in o2.PendData[u]})
             /\ o2.PendList[obj] = Unlink(o.PendList[obj], t)
  <2> DEFINE s == o.PendList[obj]
             S == {u \in Task : obj \in o.PendData[u]}
  <2>1. IsList(s, S) /\ s \in Seq(Task)
    BY <1>2 DEF PendOK
  <2>2. {u \in Task : obj \in o2.PendData[u]} = S \ {t}
    BY <1>1, <1>2
  <2>3. IsList(Unlink(s, t), S \ {t})
    BY <2>1, UnlinkIsList
  <2>4. obj \notin o.PendData[t] => S \ {t} = S /\ Unlink(s, t) = s
    <3>1. ASSUME obj \notin o.PendData[t]
          PROVE  t \notin S
      BY <3>1
    <3>2. Range(s) = S
      BY <2>1 DEF IsList
    <3> QED
      BY <3>1, <3>2 DEF Unlink
  <2>5. o2.PendList[obj] = Unlink(s, t)
    BY <1>1, <2>4
  <2> QED
    BY <2>2, <2>3, <2>5
<1> USE DEF o2
<1> QED
  BY <1>1, <1>3

\* A change that leaves the pend lists and what tasks wait for alone.
LEMMA SamePendOK ==
  ASSUME NEW o \in KState, PendOK(o), NEW o2 \in KState, SamePend(o, o2), o2.PendOn = o.PendOn,
         \A t \in Task : o2.TaskState[t] \in Pending <=> o.TaskState[t] \in Pending
  PROVE  PendOK(o2)
BY DEF PendOK, SamePend

\* A change that takes one task out of its pend lists and its wait.
LEMMA LeavePendOK ==
  ASSUME NEW o \in KState, PendOK(o), NEW o2 \in KState, NEW t \in Task, NEW st,
         st \notin Pending,
         o2.TaskState = [o.TaskState EXCEPT ![t] = st],
         o2.PendOn = [o.PendOn EXCEPT ![t] = "NOTHING"],
         SamePend(OS_PendListRemove(o, t), o2)
  PROVE  PendOK(o2)
<1>1. /\ o2.PendData = [o.PendData EXCEPT ![t] = {}]
      /\ \A obj \in Obj : IsList(o2.PendList[obj], {u \in Task : obj \in o2.PendData[u]})
  BY PendListRemoveOK, SMTT(30) DEF SamePend
<1>2. /\ o.TaskState \in [Task -> State] /\ o.PendOn \in [Task -> PendOnSet]
      /\ o.PendData \in [Task -> SUBSET Obj]
  BY DEF KState
<1>3. ASSUME NEW u \in Task
      PROVE  /\ o2.TaskState[u] \in Pending <=> o2.PendOn[u] # "NOTHING"
             /\ o2.PendData[u] # {} => o2.TaskState[u] \in Pending
             /\ o2.PendOn[u] \in {"TASK_SEM", "TASK_Q"} => o2.PendData[u] = {}
  <2>1. CASE u = t
    <3>1. o2.TaskState[u] = st /\ o2.PendOn[u] = "NOTHING" /\ o2.PendData[u] = {}
      BY <1>1, <1>2, <2>1
    <3> QED
      BY <3>1
  <2>2. CASE u # t
    <3>1. o2.TaskState[u] = o.TaskState[u] /\ o2.PendOn[u] = o.PendOn[u] /\ o2.PendData[u] = o.PendData[u]
      BY <1>1, <1>2, <2>2
    <3> QED
      BY <3>1 DEF PendOK
  <2> QED
    BY <2>1, <2>2
<1> QED
  BY <1>1, <1>3 DEF PendOK

\* OS_Pend of a ready task.
LEMMA WaitsPendOK ==
  ASSUME NEW o \in KState, PendOK(o), NEW o2 \in KState, NEW t \in Task, Waits(o, o2, t)
  PROVE  PendOK(o2)
<1>1. PICK obj \in Obj \cup {NoObj}, on \in PendOnSet \ {"NOTHING"}, time \in Timeouts \cup {0} :
             /\ Blocks(o, o2, t, obj, on, time)
             /\ on \in {"TASK_SEM", "TASK_Q"} <=> obj = NoObj
  BY DEF Waits
<1>2. /\ o.TaskState \in [Task -> State] /\ o.PendOn \in [Task -> PendOnSet]
      /\ o.PendData \in [Task -> SUBSET Obj] /\ o.PendList \in [Obj -> Seq(Task)]
  BY DEF KState
<1>3. o.TaskState[t] = "RDY" /\ o.PendData[t] = {}
  <2>1. o.TaskState[t] = "RDY"
    BY <1>1 DEF Blocks
  <2> QED
    BY <2>1 DEF PendOK, Pending
<1>4. ASSUME NEW u \in Task
      PROVE  /\ o2.TaskState[u] \in Pending <=> o2.PendOn[u] # "NOTHING"
             /\ o2.PendData[u] # {} => o2.TaskState[u] \in Pending
             /\ o2.PendOn[u] \in {"TASK_SEM", "TASK_Q"} => o2.PendData[u] = {}
  <2>1. CASE u = t
    <3>1. /\ o2.TaskState[u] \in Pending /\ o2.PendOn[u] = on
          /\ o2.PendData[u] = IF obj = NoObj THEN {} ELSE {obj}
      BY <1>1, <1>2, <2>1 DEF Blocks, Pending
    <3> QED
      BY <1>1, <3>1
  <2>2. CASE u # t
    <3>1. o2.TaskState[u] = o.TaskState[u] /\ o2.PendOn[u] = o.PendOn[u] /\ o2.PendData[u] = o.PendData[u]
      BY <1>1, <1>2, <2>2 DEF Blocks
    <3> QED
      BY <3>1 DEF PendOK
  <2> QED
    BY <2>1, <2>2
<1>5. ASSUME NEW x \in Obj
      PROVE  IsList(o2.PendList[x], {u \in Task : x \in o2.PendData[u]})
  <2> DEFINE s == o.PendList[x]
             S == {u \in Task : x \in o.PendData[u]}
  <2>1. IsList(s, S) /\ s \in Seq(Task) /\ t \notin S
    BY <1>2, <1>3 DEF PendOK
  <2>2. CASE x = obj
    <3>1. obj # NoObj
      BY <2>2, CoreAssumption
    <3>2. o2.PendList[x] = LinkBefore(s, t, {u \in Task : o.Prio[t] < o.Prio[u]})
      BY <1>1, <1>2, <2>2, <3>1 DEF Blocks
    <3>3. {u \in Task : x \in o2.PendData[u]} = S \cup {t}
      <4>1. o2.PendData = [o.PendData EXCEPT ![t] = {obj}]
        BY <1>1, <3>1 DEF Blocks
      <4> QED
        BY <1>2, <2>2, <4>1
    <3> DEFINE Z == {u \in Task : o.Prio[t] < o.Prio[u]}
    <3> HIDE DEF Z
    <3>4. IsList(LinkBefore(s, t, Z), S \cup {t})
      BY <2>1, LinkBeforeIsList
    <3> USE DEF Z
    <3> QED
      BY <3>2, <3>3, <3>4
  <2>3. CASE x # obj
    <3>1. o2.PendList[x] = s
      BY <1>1, <1>2, <2>3 DEF Blocks
    <3>2. {u \in Task : x \in o2.PendData[u]} = S
      <4>1. o2.PendData = [o.PendData EXCEPT ![t] = IF obj = NoObj THEN {} ELSE {obj}]
        BY <1>1 DEF Blocks
      <4>2. \A u \in Task : x \in o2.PendData[u] <=> x \in o.PendData[u]
        BY <1>2, <1>3, <2>3, <4>1
      <4> QED
        BY <4>2
    <3> QED
      BY <2>1, <3>1, <3>2
  <2> QED
    BY <2>2, <2>3
<1> QED
  BY <1>4, <1>5 DEF PendOK

\* OS_PendListChangePrio moves a waiter within its lists.
LEMMA RepriPendOK ==
  ASSUME NEW o \in KState, PendOK(o), NEW o2 \in KState, NEW c \in Task, NEW p, Repri(o, o2, c, p)
  PROVE  PendOK(o2)
<1>1. ASSUME NEW x \in Obj
      PROVE  IsList(o2.PendList[x], {u \in Task : x \in o2.PendData[u]})
  <2> DEFINE s == o.PendList[x]
             S == {u \in Task : x \in o.PendData[u]}
             r == LinkBefore(Unlink(s, c), c, {u \in Task : p < o2.Prio[u]})
  <2>1. IsList(s, S) /\ s \in Seq(Task)
    BY DEF PendOK, KState
  <2>2. {u \in Task : x \in o2.PendData[u]} = S
    BY DEF Repri
  <2>3. CASE x \in o.PendData[c]
    <3>1. IsList(Unlink(s, c), S \ {c}) /\ Unlink(s, c) \in Seq(Task)
      BY <2>1, UnlinkIsList
    <3>2. c \notin S \ {c} /\ (S \ {c}) \cup {c} = S
      BY <2>3
    <3>3. IsList(r, (S \ {c}) \cup {c})
      BY <3>1, <3>2, LinkBeforeIsList
    <3>4. o2.PendList[x] = r \/ o2.PendList[x] = s
      BY DEF Repri
    <3> QED
      BY <2>1, <2>2, <3>2, <3>3, <3>4
  <2>4. CASE x \notin o.PendData[c]
    <3>1. o2.PendList[x] = s
      BY <2>4 DEF Repri
    <3> QED
      BY <2>1, <2>2, <3>1
  <2> QED
    BY <2>3, <2>4
<1> QED
  BY <1>1 DEF PendOK, Repri, SameCtrs

\* Every change that a step can make keeps the pend lists and the states in agreement.
LEMMA ChangePendOK ==
  ASSUME NEW o \in KState, PendOK(o), NEW o2 \in KState, Change(o, o2)
  PROVE  PendOK(o2)
<1>1. CASE Quiet(o, o2)
  BY <1>1, SamePendOK DEF Quiet, SameCtrs
<1>2. ASSUME NEW t \in Task, NEW st \in StatusSet, Ends(o, o2, t, st)
      PROVE  PendOK(o2)
  <2> DEFINE s == IF o.TaskState[t] \in Suspended THEN "SUSPENDED" ELSE "RDY"
  <2>1. s \notin Pending
    BY DEF Pending
  <2>2. o2.TaskState = [o.TaskState EXCEPT ![t] = s]
    BY <1>2 DEF Ends
  <2> HIDE DEF s
  <2> QED
    BY <1>2, <2>1, <2>2, LeavePendOK DEF Ends
<1>3. ASSUME NEW t \in Task, Waits(o, o2, t)
      PROVE  PendOK(o2)
  BY <1>3, WaitsPendOK
<1>4. ASSUME NEW t \in Task, NEW time \in Delays, NEW opt \in DlyOpts, Sleeps(o, o2, t, time, opt)
      PROVE  PendOK(o2)
  <2>1. \A u \in Task : o2.TaskState[u] \in Pending <=> o.TaskState[u] \in Pending
    <3>1. o.TaskState \in [Task -> State]
      BY DEF KState
    <3>2. o.TaskState[t] = "RDY" /\ o2.TaskState = [o.TaskState EXCEPT ![t] = "DLY"]
      BY <1>4 DEF Sleeps
    <3> QED
      BY <3>1, <3>2 DEF Pending
  <2> QED
    BY <1>4, <2>1, SamePendOK DEF Sleeps, SameCtrs
<1>5. ASSUME NEW c \in Task, NEW st, NEW n, Restates(o, o2, c, st, n)
      PROVE  PendOK(o2)
  <2>1. \A u \in Task : o2.TaskState[u] \in Pending <=> o.TaskState[u] \in Pending
    <3>1. o.TaskState \in [Task -> State]
      BY DEF KState
    <3>2. /\ (st \in Pending <=> o.TaskState[c] \in Pending)
          /\ o2.TaskState = [o.TaskState EXCEPT ![c] = st]
      BY <1>5 DEF Restates
    <3> QED
      BY <3>1, <3>2
  <2> QED
    BY <1>5, <2>1, SamePendOK DEF Restates
<1>6. ASSUME NEW c \in Task, NEW p \in Prio, Repri(o, o2, c, p)
      PROVE  PendOK(o2)
  BY <1>6, RepriPendOK
<1>7. ASSUME NEW c \in Task, NEW st \in {"RDY", "DEL"}, Resets(o, o2, c, st)
      PROVE  PendOK(o2)
  <2>1. st \notin Pending
    BY DEF Pending
  <2> QED
    BY <1>7, <2>1, LeavePendOK DEF Resets
<1>8. ASSUME NEW c \in Task, Counts(o, o2, c)
      PROVE  PendOK(o2)
  BY <1>8, SamePendOK DEF Counts
<1>9. CASE Ticks(o, o2)
  BY <1>9, SamePendOK DEF Ticks, SameCtrs
<1> QED
  BY <1>1, <1>2, <1>3, <1>4, <1>5, <1>6, <1>7, <1>8, <1>9 DEF Change, Calm

\* The suspension counter of every TCB agrees with its state.
SuspOK(o) == \A t \in Task : o.TaskState[t] \in Suspended <=> o.SuspendCtr[t] > 0

\* A task that waits for a signal has none in its semaphore.
SemOK(o) == \A t \in Task : WaitsForSignal(o, t) => o.SemCtr[t] = 0

\* Every change keeps the count of suspensions in agreement with the state.
LEMMA ChangeSuspOK ==
  ASSUME SuspendBound < NestMod, NEW o \in KState, SuspOK(o), NEW o2 \in KState, Change(o, o2)
  PROVE  SuspOK(o2)
<1> DEFINE Keeps(u) == \/ o2.TaskState[u] = o.TaskState[u] /\ o2.SuspendCtr[u] = o.SuspendCtr[u]
                       \/ o2.TaskState[u] \in Suspended <=> o2.SuspendCtr[u] > 0
<1>0. o.TaskState \in [Task -> State] /\ o.SuspendCtr \in [Task -> 0 .. NestMod - 1]
  BY DEF KState
<1> SUFFICES ASSUME NEW u \in Task
             PROVE  Keeps(u)
  BY DEF SuspOK
<1>1. CASE Quiet(o, o2)
  BY <1>1 DEF Quiet, SameCtrs
<1>2. ASSUME NEW t \in Task, NEW st \in StatusSet, Ends(o, o2, t, st)
      PROVE  Keeps(u)
  <2>1. /\ o2.TaskState = [o.TaskState EXCEPT ![t] = IF o.TaskState[t] \in Suspended
                                                    THEN "SUSPENDED" ELSE "RDY"]
        /\ o2.SuspendCtr = o.SuspendCtr
    BY <1>2 DEF Ends
  <2>2. o2.TaskState[u] \in Suspended <=> o.TaskState[u] \in Suspended
    BY <1>0, <2>1 DEF Suspended
  <2> QED
    BY <2>1, <2>2 DEF SuspOK
<1>3. ASSUME NEW t \in Task, Waits(o, o2, t)
      PROVE  Keeps(u)
  <2>1. PICK time : /\ o2.TaskState = [o.TaskState EXCEPT ![t] = IF time > 0 THEN "PEND_TIMEOUT" ELSE "PEND"]
                    /\ o2.SuspendCtr = o.SuspendCtr /\ o.TaskState[t] = "RDY"
    BY <1>3 DEF Waits, Blocks
  <2>2. o2.TaskState[u] \in Suspended <=> o.TaskState[u] \in Suspended
    BY <1>0, <2>1 DEF Suspended
  <2> QED
    BY <2>1, <2>2 DEF SuspOK
<1>4. ASSUME NEW t \in Task, NEW time \in Delays, NEW opt \in DlyOpts, Sleeps(o, o2, t, time, opt)
      PROVE  Keeps(u)
  <2>1. /\ o2.TaskState = [o.TaskState EXCEPT ![t] = "DLY"]
        /\ o2.SuspendCtr = o.SuspendCtr /\ o.TaskState[t] = "RDY"
    BY <1>4 DEF Sleeps, SameCtrs
  <2>2. o2.TaskState[u] \in Suspended <=> o.TaskState[u] \in Suspended
    BY <1>0, <2>1 DEF Suspended
  <2> QED
    BY <2>1, <2>2 DEF SuspOK
<1>5. ASSUME NEW c \in Task, NEW st, NEW n, Restates(o, o2, c, st, n)
      PROVE  Keeps(u)
  <2>1. /\ o2.TaskState = [o.TaskState EXCEPT ![c] = st]
        /\ o2.SuspendCtr = [o.SuspendCtr EXCEPT ![c] = n]
        /\ st \in Suspended <=> n > 0
    BY <1>5 DEF Restates
  <2> QED
    BY <1>0, <2>1
<1>6. ASSUME NEW c \in Task, NEW p \in Prio, Repri(o, o2, c, p)
      PROVE  Keeps(u)
  BY <1>6 DEF Repri, SameCtrs
<1>7. ASSUME NEW c \in Task, NEW st \in {"RDY", "DEL"}, Resets(o, o2, c, st)
      PROVE  Keeps(u)
  <2>1. /\ o2.TaskState = [o.TaskState EXCEPT ![c] = st]
        /\ o2.SuspendCtr = [o.SuspendCtr EXCEPT ![c] = 0]
    BY <1>7 DEF Resets
  <2> QED
    BY <1>0, <2>1 DEF Suspended
<1>8. ASSUME NEW c \in Task, Counts(o, o2, c)
      PROVE  Keeps(u)
  BY <1>8 DEF Counts
<1>9. CASE Ticks(o, o2)
  BY <1>9 DEF Ticks, SameCtrs
<1> QED
  BY <1>1, <1>2, <1>3, <1>4, <1>5, <1>6, <1>7, <1>8, <1>9 DEF Change, Calm

\* Without OSTaskSemSet, a signal is either delivered or counted, never both.
LEMMA ChangeSemOK ==
  ASSUME \A t \in Task : "semset" \notin Calls[t],
         NEW o \in KState, SemOK(o), NEW o2 \in KState, Change(o, o2)
  PROVE  SemOK(o2)
<1> DEFINE Keeps(u) == \/ /\ WaitsForSignal(o2, u) => WaitsForSignal(o, u)
                          /\ o2.SemCtr[u] = o.SemCtr[u]
                       \/ WaitsForSignal(o2, u) => o2.SemCtr[u] = 0
<1>0. /\ o.TaskState \in [Task -> State] /\ o.PendOn \in [Task -> PendOnSet]
      /\ o.SemCtr \in [Task -> 0 .. SemMax]
  BY DEF KState
<1> SUFFICES ASSUME NEW u \in Task
             PROVE  Keeps(u)
  BY DEF SemOK
<1> USE DEF WaitsForSignal
<1>1. CASE Quiet(o, o2)
  BY <1>1 DEF Quiet, SameCtrs
<1>2. ASSUME NEW t \in Task, NEW st \in StatusSet, Ends(o, o2, t, st)
      PROVE  Keeps(u)
  <2>1. /\ o2.PendOn = [o.PendOn EXCEPT ![t] = "NOTHING"]
        /\ o2.SemCtr = o.SemCtr
    BY <1>2 DEF Ends
  <2>2. u # t => o2.TaskState[u] = o.TaskState[u]
    BY <1>0, <1>2 DEF Ends
  <2> QED
    BY <1>0, <2>1, <2>2
<1>3. ASSUME NEW t \in Task, Waits(o, o2, t)
      PROVE  Keeps(u)
  <2>1. PICK on, s : /\ o2.TaskState = [o.TaskState EXCEPT ![t] = s]
                     /\ o2.PendOn = [o.PendOn EXCEPT ![t] = on]
                     /\ o2.SemCtr = o.SemCtr
                     /\ on = "TASK_SEM" => o.SemCtr[t] = 0
    BY <1>3 DEF Waits, Blocks
  <2> QED
    BY <1>0, <2>1
<1>4. ASSUME NEW t \in Task, NEW time \in Delays, NEW opt \in DlyOpts, Sleeps(o, o2, t, time, opt)
      PROVE  Keeps(u)
  <2>1. /\ o2.TaskState = [o.TaskState EXCEPT ![t] = "DLY"]
        /\ o2.PendOn = o.PendOn /\ o2.SemCtr = o.SemCtr
    BY <1>4 DEF Sleeps, SameCtrs
  <2> QED
    BY <1>0, <2>1 DEF Pending
<1>5. ASSUME NEW c \in Task, NEW st, NEW n, Restates(o, o2, c, st, n)
      PROVE  Keeps(u)
  <2>1. /\ o2.TaskState = [o.TaskState EXCEPT ![c] = st]
        /\ o2.PendOn = o.PendOn /\ o2.SemCtr = o.SemCtr
        /\ (st \in Pending <=> o.TaskState[c] \in Pending)
    BY <1>5 DEF Restates
  <2> QED
    BY <1>0, <2>1
<1>6. ASSUME NEW c \in Task, NEW p \in Prio, Repri(o, o2, c, p)
      PROVE  Keeps(u)
  BY <1>6 DEF Repri, SameCtrs
<1>7. ASSUME NEW c \in Task, NEW st \in {"RDY", "DEL"}, Resets(o, o2, c, st)
      PROVE  Keeps(u)
  <2>1. /\ o2.TaskState = [o.TaskState EXCEPT ![c] = st]
        /\ o2.PendOn = [o.PendOn EXCEPT ![c] = "NOTHING"]
        /\ o2.SemCtr = [o.SemCtr EXCEPT ![c] = 0]
    BY <1>7 DEF Resets
  <2> QED
    BY <1>0, <2>1
<1>8. ASSUME NEW c \in Task, Counts(o, o2, c)
      PROVE  Keeps(u)
  <2>1. PICK n : o2.SemCtr = [o.SemCtr EXCEPT ![c] = n]
    BY <1>8 DEF Counts
  <2>2. ~WaitsForSignal(o, c) /\ o2.TaskState = o.TaskState /\ o2.PendOn = o.PendOn
    BY <1>8 DEF Counts
  <2> QED
    BY <1>0, <2>1, <2>2
<1>9. CASE Ticks(o, o2)
  BY <1>9 DEF Ticks, SameCtrs
<1> QED
  BY <1>1, <1>2, <1>3, <1>4, <1>5, <1>6, <1>7, <1>8, <1>9 DEF Change, Calm

\* Every pend list is in the order of its waiters' priorities.
WaitSorted(o) == \A obj \in Obj : Sorted(o.PendList[obj], o.Prio)

\* The types of what order is about.
LEMMA PrioTypes ==
  ASSUME NEW o \in KState
  PROVE  o.Prio \in [Task -> Int] /\ o.PendList \in [Obj -> Seq(Task)]
<1>1. o.Prio \in [Task -> 0 .. PrioMax] /\ o.PendList \in [Obj -> Seq(Task)]
  BY DEF KState
<1> QED
  BY <1>1, CoreAssumption

\* Order is a matter of the keys of the listed only.
LEMMA SortedFrame ==
  ASSUME NEW T, NEW s \in Seq(T), NEW key, NEW key2, Sorted(s, key),
         \A u \in Range(s) : key2[u] = key[u]
  PROVE  Sorted(s, key2)
<1>1. \A i \in DOMAIN s : s[i] \in Range(s)
  BY DEF Range
<1> QED
  BY <1>1 DEF Sorted

\* A task that leaves all its pend lists leaves them in order, whatever becomes
\* of its own priority.
LEMMA LeaveSorted ==
  ASSUME NEW o \in KState, PendOK(o), WaitSorted(o), NEW o2 \in KState, NEW t \in Task,
         SamePend(OS_PendListRemove(o, t), o2), \A u \in Task \ {t} : o2.Prio[u] = o.Prio[u]
  PROVE  WaitSorted(o2)
<1>0. \A obj \in Obj : o2.PendList[obj] = Unlink(o.PendList[obj], t)
  <2>1. o2.PendList = OS_PendListRemove(o, t).PendList
    BY DEF SamePend
  <2>2. \A obj \in Obj : OS_PendListRemove(o, t).PendList[obj] = Unlink(o.PendList[obj], t)
    BY PendListRemoveOK
  <2> QED
    BY <2>1, <2>2
<1> SUFFICES ASSUME NEW x \in Obj
             PROVE  Sorted(o2.PendList[x], o2.Prio)
  BY DEF WaitSorted
<1> DEFINE s == o.PendList[x]
           r == Unlink(s, t)
           S == {u \in Task : x \in o.PendData[u]}
<1>1. o2.PendList[x] = r
  BY <1>0
<1>2. s \in Seq(Task) /\ o.Prio \in [Task -> Int] /\ Sorted(s, o.Prio) /\ IsList(s, S)
  BY PrioTypes DEF WaitSorted, PendOK
<1>3. r \in Seq(Task) /\ IsList(r, S \ {t})
  BY <1>2, UnlinkIsList
<1>4. Sorted(r, o.Prio)
  BY <1>2, UnlinkSorted
<1>5. \A u \in Range(r) : o2.Prio[u] = o.Prio[u]
  BY <1>3 DEF IsList
<1> HIDE DEF r
<1> QED
  BY <1>1, <1>3, <1>4, <1>5, SortedFrame

\* OS_PendListInsertPrio links a waiter at the place of its priority.
LEMMA WaitsSorted ==
  ASSUME NEW o \in KState, WaitSorted(o), NEW o2 \in KState, NEW t \in Task, Waits(o, o2, t)
  PROVE  WaitSorted(o2)
<1> SUFFICES ASSUME NEW x \in Obj
             PROVE  Sorted(o2.PendList[x], o2.Prio)
  BY DEF WaitSorted
<1> DEFINE s == o.PendList[x]
           Z == {u \in Task : o.Prio[t] < o.Prio[u]}
<1>1. s \in Seq(Task) /\ o.Prio \in [Task -> Int] /\ Sorted(s, o.Prio)
  BY DEF KState, WaitSorted
<1>2. o2.Prio = o.Prio /\ (o2.PendList[x] = s \/ o2.PendList[x] = LinkBefore(s, t, Z))
  <2>1. o.PendList \in [Obj -> Seq(Task)]
    BY DEF KState
  <2>2. PICK obj \in Obj \cup {NoObj} :
          /\ o2.Prio = o.Prio
          /\ o2.PendList = IF obj = NoObj THEN o.PendList
                           ELSE [o.PendList EXCEPT ![obj] = LinkBefore(o.PendList[obj], t, Z)]
    BY DEF Waits, Blocks
  <2> HIDE DEF Z
  <2> QED
    BY <2>1, <2>2
<1>3. \A u \in Range(s) : IF u \in Z THEN o.Prio[t] <= o.Prio[u] ELSE o.Prio[u] <= o.Prio[t]
  <2>1. Range(s) \subseteq Task
    BY <1>1 DEF Range
  <2> QED
    BY <1>1, <2>1
<1> HIDE DEF Z, s
<1>4. Sorted(LinkBefore(s, t, Z), o.Prio)
  BY <1>1, <1>3, LinkBeforeSorted
<1> QED
  BY <1>1, <1>2, <1>4

\* OS_PendListChangePrio takes a waiter to the place of its new priority.
LEMMA RepriSorted ==
  ASSUME NEW o \in KState, PendOK(o), WaitSorted(o), NEW o2 \in KState, NEW c \in Task, NEW p \in Prio,
         o.PendOn[c] # "FLAG", Repri(o, o2, c, p)
  PROVE  WaitSorted(o2)
<1> SUFFICES ASSUME NEW x \in Obj
             PROVE  Sorted(o2.PendList[x], o2.Prio)
  BY DEF WaitSorted
<1> DEFINE s == o.PendList[x]
           r == Unlink(s, c)
           S == {u \in Task : x \in o.PendData[u]}
           Z == {u \in Task : p < o2.Prio[u]}
<1>1. /\ s \in Seq(Task) /\ o.Prio \in [Task -> Int] /\ o2.Prio \in [Task -> Int]
      /\ Sorted(s, o.Prio) /\ IsList(s, S)
  BY PrioTypes DEF WaitSorted, PendOK
<1>2. o2.Prio = [o.Prio EXCEPT ![c] = p] /\ p \in Int
  BY DEF Repri, Prio
<1>3. CASE x \in o.PendData[c] /\ Len(s) > 1
  <2>1. o2.PendList[x] = LinkBefore(r, c, Z)
    BY <1>3 DEF Repri
  <2>2. r \in Seq(Task) /\ IsList(r, S \ {c})
    BY <1>1, UnlinkIsList
  <2>3. Sorted(r, o.Prio)
    BY <1>1, UnlinkSorted
  <2>4. \A u \in Range(r) : u \in Task /\ o2.Prio[u] = o.Prio[u]
    BY <1>1, <1>2, <2>2 DEF IsList
  <2>5. \A u \in Range(r) : IF u \in Z THEN o2.Prio[c] <= o2.Prio[u] ELSE o2.Prio[u] <= o2.Prio[c]
    BY <1>1, <1>2, <2>4
  <2> HIDE DEF r, Z
  <2>6. Sorted(r, o2.Prio)
    BY <2>2, <2>3, <2>4, SortedFrame
  <2>7. Sorted(LinkBefore(r, c, Z), o2.Prio)
    BY <1>1, <2>2, <2>5, <2>6, LinkBeforeSorted
  <2> QED
    BY <2>1, <2>7
<1>4. CASE x \in o.PendData[c] /\ ~(Len(s) > 1)
  <2>1. o2.PendList[x] = s
    BY <1>4 DEF Repri
  <2>2. Sorted(s, o2.Prio)
    BY <1>1, <1>4 DEF Sorted
  <2> QED
    BY <2>1, <2>2
<1>5. CASE x \notin o.PendData[c]
  <2>1. o2.PendList[x] = s
    BY <1>5 DEF Repri
  <2>2. \A u \in Range(s) : o2.Prio[u] = o.Prio[u]
    BY <1>1, <1>2, <1>5 DEF IsList
  <2>3. Sorted(s, o2.Prio)
    BY <1>1, <2>2, SortedFrame
  <2> QED
    BY <2>1, <2>3
<1> QED
  BY <1>3, <1>4, <1>5

\* No change disturbs the order of the pend lists; only the waiters for event
\* flags keep their places when their priority changes.
LEMMA ChangeSorted ==
  ASSUME NEW o \in KState, PendOK(o), WaitSorted(o), \A t \in Task : o.PendOn[t] # "FLAG",
         NEW o2 \in KState, Change(o, o2)
  PROVE  WaitSorted(o2)
<1> USE DEF SamePend
<1>1. CASE Quiet(o, o2)
  BY <1>1 DEF Quiet, WaitSorted
<1>2. ASSUME NEW t \in Task, NEW st \in StatusSet, Ends(o, o2, t, st)
      PROVE  WaitSorted(o2)
  <2>1. SamePend(OS_PendListRemove(o, t), o2) /\ o2.Prio = o.Prio
    BY <1>2 DEF Ends
  <2> QED
    BY <2>1, LeaveSorted
<1>3. ASSUME NEW t \in Task, Waits(o, o2, t)
      PROVE  WaitSorted(o2)
  BY <1>3, WaitsSorted
<1>4. ASSUME NEW t \in Task, NEW time \in Delays, NEW opt \in DlyOpts, Sleeps(o, o2, t, time, opt)
      PROVE  WaitSorted(o2)
  BY <1>4 DEF Sleeps, WaitSorted
<1>5. ASSUME NEW c \in Task, NEW st, NEW n, Restates(o, o2, c, st, n)
      PROVE  WaitSorted(o2)
  BY <1>5 DEF Restates, WaitSorted
<1>6. ASSUME NEW c \in Task, NEW p \in Prio, Repri(o, o2, c, p)
      PROVE  WaitSorted(o2)
  BY <1>6, RepriSorted
<1>7. ASSUME NEW c \in Task, NEW st \in {"RDY", "DEL"}, Resets(o, o2, c, st)
      PROVE  WaitSorted(o2)
  <2>1. SamePend(OS_PendListRemove(o, c), o2) /\ \A u \in Task \ {c} : o2.Prio[u] = o.Prio[u]
    BY <1>7 DEF Resets
  <2> QED
    BY <2>1, LeaveSorted
<1>8. ASSUME NEW c \in Task, Counts(o, o2, c)
      PROVE  WaitSorted(o2)
  BY <1>8 DEF Counts, WaitSorted
<1>9. CASE Ticks(o, o2)
  BY <1>9 DEF Ticks, WaitSorted
<1> QED
  BY <1>1, <1>2, <1>3, <1>4, <1>5, <1>6, <1>7, <1>8, <1>9 DEF Change, Calm
-----------------------------------------------------------------------------
(* The steps of the kernel, as changes. *)

\* A task that aborts a wait aborts one without a pend list.
AbortSafe == \A t \in Task : pc[t] = "abort" => os.PendData[arg[t]] = {}

\* A task that still waits is still inside the call that waits.
Places == \A u \in Task : pc[u] \in {"pend", "ret"} /\ os'.TaskState[u] \in Pending
                            => pc'[u] \in {"pend", "ret"}

\* The running task stops to wait for its own semaphore.
Begins(t) == /\ Waits(os, os', t) /\ os'.PendData[t] = {} /\ os'.PendOn[t] = "TASK_SEM"
             /\ pc' = [pc EXCEPT ![t] = "pend"]

\* A call of the current task leaves the others at their places.
LEMMA CallPlaces ==
  ASSUME KTypeOK, NEW t \in Task, pc[t] \notin {"pend", "ret"}, NEW l, pc' = [pc EXCEPT ![t] = l]
  PROVE  Places
BY DEF KTypeOK, Places

\* The services of the scheduler, and the first half of OSTaskSemPendAbort, touch no
\* wait.
LEMMA QuietCalls ==
  ASSUME KInv, NEW t, \/ OSSchedLock(t) \/ OSSchedUnlock(t) \/ OSSchedRoundRobinYield(t)
                      \/ \E en, q : OSSchedRoundRobinCfg(t, en, q)
                      \/ \E c, q : OSTaskTimeQuantaSet(t, c, q)
                      \/ \E c : OSTaskSemPendAbort(t, c)
  PROVE  Quiet(os, os') /\ Places
<1> USE DEF Quiet, SameCtrs, SamePend, SameWheel
<1>0. os \in KState /\ KTypeOK
  BY DEF KInv, KTypeOK
<1>1. ASSUME NEW svc, Call(t, svc), NEW l, Goto(t, l)
      PROVE  Places
  <2>1. t \in Task /\ pc[t] = "app"
    BY <1>1, CallLemma
  <2> QED
    BY <1>0, <1>1, <2>1, CallPlaces DEF Goto
<1>2. CASE OSSchedLock(t)
  <2>1. Quiet(os, os')
    BY <1>0, <1>2 DEF OSSchedLock, Step, KState
  <2> QED
    BY <1>1, <1>2, <2>1 DEF OSSchedLock, Step
<1>3. CASE OSSchedUnlock(t)
  <2>1. Quiet(os, os')
    BY <1>0, <1>3 DEF OSSchedUnlock, Step, KState
  <2> QED
    BY <1>1, <1>3, <2>1 DEF OSSchedUnlock, Step
<1>4. CASE OSSchedRoundRobinYield(t)
  <2>1. Rdy(os, Ready(os) \ Creating) /\ os.OSPrioCur \in Prio
    BY <1>0 DEF KInv, OsInv, KState
  <2>2. Quiet(os, Rotate(os, os.OSPrioCur))
    BY <1>0, <1>4, <2>1, RotateQuiet DEF OSSchedRoundRobinYield
  <2>3. os' = Rotate(os, os.OSPrioCur)
    BY <1>4 DEF OSSchedRoundRobinYield, Step
  <2> QED
    BY <1>1, <1>4, <2>2, <2>3 DEF OSSchedRoundRobinYield, Step
<1>5. ASSUME NEW en, NEW q, OSSchedRoundRobinCfg(t, en, q)
      PROVE  Quiet(os, os') /\ Places
  <2>1. Quiet(os, os')
    BY <1>0, <1>5 DEF OSSchedRoundRobinCfg, Step, KState
  <2> QED
    BY <1>1, <1>5, <2>1 DEF OSSchedRoundRobinCfg, Step
<1>6. ASSUME NEW c, NEW q, OSTaskTimeQuantaSet(t, c, q)
      PROVE  Quiet(os, os') /\ Places
  <2>1. Quiet(os, os')
    <3>1. PICK v, w : os' = [os EXCEPT !.TimeQuanta[c] = v, !.TimeQuantaCtr[c] = w]
      BY <1>0, <1>6 DEF OSTaskTimeQuantaSet, Step, KState
    <3> QED
      BY <1>0, <3>1 DEF KState
  <2> QED
    BY <1>1, <1>6, <2>1 DEF OSTaskTimeQuantaSet, Step
<1>7. ASSUME NEW c, OSTaskSemPendAbort(t, c)
      PROVE  Quiet(os, os') /\ Places
  <2>1. os' = os
    BY <1>7 DEF OSTaskSemPendAbort
  <2> QED
    BY <1>1, <1>7, <2>1 DEF OSTaskSemPendAbort
<1> QED
  BY <1>2, <1>3, <1>4, <1>5, <1>6, <1>7

\* The scheduler, the return from a wait and the end of OSTaskCreate.
LEMMA QuietReturns ==
  ASSUME KInv, NEW t, OSSched(t) \/ PendReturn(t) \/ OSTaskCreateLink(t)
  PROVE  Quiet(os, os') /\ Places
<1>0. /\ os \in KState /\ KTypeOK /\ os.OSRunning /\ t = cur /\ t \in Task
      /\ pc \in [Task -> PC]
  BY DEF KInv, KTypeOK, OSSched, PendReturn, OSTaskCreateLink, cur
<1>1. CASE OSSched(t)
  <2>1. Quiet(os, os')
    BY <1>0, <1>1, RescheduleQuiet DEF OSSched, Step
  <2>2. pc' = [pc EXCEPT ![t] = IF pc[t] = "pend" THEN "ret" ELSE "app"] /\ pc[t] \in {"sched", "pend"}
    BY <1>1 DEF OSSched, Step, Goto
  <2> QED
    BY <1>0, <2>1, <2>2 DEF Places
<1>2. CASE PendReturn(t)
  <2>1. os' = os
    BY <1>2 DEF PendReturn, Step
  <2>2. os.TaskState[t] = "RDY"
    BY <1>0, <1>2 DEF KInv, RunningIsReady, PendReturn
  <2>3. PICK l : pc' = [pc EXCEPT ![t] = l]
    BY <1>2 DEF PendReturn, Step, Goto
  <2>4. Quiet(os, os')
    BY <2>1 DEF Quiet, SameCtrs, SamePend, SameWheel
  <2> QED
    BY <1>0, <2>1, <2>2, <2>3, <2>4 DEF Places, Pending
<1>3. CASE OSTaskCreateLink(t)
  <2>0. pc[t] = "create"
    BY <1>3 DEF OSTaskCreateLink
  <2>1. arg[t] \in Task /\ os.TaskState[arg[t]] = "RDY"
    <3>1. arg[t] \in Creating
      BY <1>0, <2>0 DEF Creating
    <3> QED
      BY <3>1 DEF KInv, OsInv, Ready
  <2>2. Quiet(os, os')
    BY <1>0, <1>3, <2>1, RdyListQuiet DEF OSTaskCreateLink, LinkTCB
  <2>3. pc' = [pc EXCEPT ![t] = "sched", ![arg[t]] = "app"] /\ os'.TaskState = os.TaskState
    BY <1>3, <2>2 DEF OSTaskCreateLink, Quiet
  <2> QED
    BY <1>0, <2>0, <2>1, <2>2, <2>3 DEF Places, Pending
<1> QED
  BY <1>1, <1>2, <1>3

\* A null step is quiet.
LEMMA SameQuiet == ASSUME NEW o PROVE Quiet(o, o)
BY DEF Quiet, SameCtrs, SamePend, SameWheel

\* OSTaskCreate, OSTaskDel, OSTaskSuspend, OSTaskResume and OSTaskChangePrio.
LEMMA TaskCalls ==
  ASSUME Hazard = {}, KInv, PendOK(os), NEW t,
         \/ \E c : \/ OSTaskCreate(t, c) \/ OSTaskDel(t, c)
                   \/ OSTaskSuspend(t, c) \/ OSTaskResume(t, c)
         \/ \E c, self : \E p \in NewPrios : OSTaskChangePrio(t, c, p, self)
  PROVE  Calm(os, os') /\ Places
<1>0. OsInv(os, Creating) /\ KTypeOK
  BY DEF KInv
<1>1. ASSUME NEW svc, Call(t, svc), NEW l, Goto(t, l)
      PROVE  Places
  <2>1. t \in Task /\ pc[t] = "app"
    BY <1>1, CallLemma
  <2> QED
    BY <1>0, <1>1, <2>1, CallPlaces DEF Goto
<1>2. ASSUME NEW c, OSTaskCreate(t, c)
      PROVE  Calm(os, os') /\ Places
  <2>1. c \in Task /\ os.TaskState[c] = "DEL" /\ os' = FillTCB(os, c)
    BY <1>2, TargetLemma DEF OSTaskCreate
  <2>2. Resets(os, os', c, "RDY")
    BY <1>0, <2>1, FillResets
  <2>3. Calm(os, os')
    BY <2>1, <2>2 DEF Calm
  <2> QED
    BY <1>1, <1>2, <2>3 DEF OSTaskCreate
<1>3. ASSUME NEW c, OSTaskDel(t, c)
      PROVE  Calm(os, os') /\ Places
  <2>1. c \in Task /\ c \notin Creating /\ os.TaskState[c] # "DEL"
    BY <1>3, TargetLemma DEF OSTaskDel
  <2>2. Resets(os, os', c, "DEL")
    BY <1>0, <1>3, <2>1, DelResets DEF OSTaskDel, Step
  <2>3. Calm(os, os')
    BY <2>1, <2>2 DEF Calm
  <2> QED
    BY <1>1, <1>3, <2>3 DEF OSTaskDel, Step
<1>4. ASSUME NEW c, OSTaskSuspend(t, c)
      PROVE  Calm(os, os') /\ Places
  <2>1. c \in Task
    BY <1>4, TargetLemma DEF OSTaskSuspend
  <2>2. Calm(os, os')
    BY <1>4, <2>1, SuspendRestates DEF Calm
  <2> QED
    BY <1>1, <1>4, <2>2 DEF OSTaskSuspend, Step
<1>5. ASSUME NEW c, OSTaskResume(t, c)
      PROVE  Calm(os, os') /\ Places
  <2>1. c \in Task
    BY <1>5, TargetLemma DEF OSTaskResume
  <2>2. Calm(os, os')
    BY <1>5, <2>1, ResumeRestates, SameQuiet DEF Calm
  <2> QED
    BY <1>1, <1>5, <2>2 DEF OSTaskResume, Step
<1>6. ASSUME NEW c, NEW self, NEW p \in NewPrios, OSTaskChangePrio(t, c, p, self)
      PROVE  Calm(os, os') /\ Places
  <2>1. c \in Task /\ p \in Prio
    BY <1>6, TargetLemma, KernelAssumption, CoreAssumption, SMTT(30) DEF OSTaskChangePrio, Prio
  <2>2. Calm(os, os')
    BY <1>6, <2>1, ChangePrioRepri DEF Calm
  <2> QED
    BY <1>1, <1>6, <2>2 DEF OSTaskChangePrio, Step
<1> QED
  BY <1>2, <1>3, <1>4, <1>5, <1>6

\* OSTimeDly and OSTimeSet.
LEMMA TimeCalls ==
  ASSUME Hazard = {}, KInv, NEW t
  PROVE  /\ (\E d \in Delays, opt \in DlyOpts : OSTimeDly(t, d, opt)) => Calm(os, os') /\ Places
         /\ (\E d \in Delays : OSTimeSet(t, d)) => Ticks(os, os') /\ Places
<1>0. OsInv(os, Creating) /\ KTypeOK
  BY DEF KInv
<1>1. ASSUME NEW svc, Call(t, svc), NEW l, Goto(t, l)
      PROVE  Places
  <2>1. t \in Task /\ pc[t] = "app"
    BY <1>1, CallLemma
  <2> QED
    BY <1>0, <1>1, <2>1, CallPlaces DEF Goto
<1>2. ASSUME NEW d \in Delays, NEW opt \in DlyOpts, OSTimeDly(t, d, opt)
      PROVE  Calm(os, os') /\ Places
  <2>1. t \in Task /\ t \in Ready(os) \ Creating /\ d \in Tick
    BY <1>2, CallLemma, KernelAssumption DEF OSTimeDly
  <2>2. ~NoDelay(os, d, opt)
    BY <1>2 DEF OSTimeDly
  <2>3. os' = OS_RdyListRemove(OS_TickListInsert([os EXCEPT !.TaskState[t] = "DLY"], t, d, opt), t)
    BY <1>2, <2>2 DEF OSTimeDly, Step
  <2>4. Sleeps(os, os', t, d, opt)
    BY <1>0, <2>1, <2>2, <2>3, DlySleeps
  <2>5. Calm(os, os')
    BY <2>1, <2>4 DEF Calm
  <2> QED
    BY <1>1, <1>2, <2>2, <2>5 DEF OSTimeDly, Step
<1>3. ASSUME NEW d \in Delays, OSTimeSet(t, d)
      PROVE  Ticks(os, os') /\ Places
  <2>1. Ticks(os, os')
    BY <1>0, <1>3 DEF OsInv, OSTimeSet, Step, KState, Ticks, SameCtrs, SamePend
  <2> QED
    BY <1>1, <1>3, <2>1 DEF OSTimeSet, Step
<1> QED
  BY <1>2, <1>3

\* The calls about the semaphore of a task.
LEMMA SemCalls ==
  ASSUME KInv, PendOK(os), AbortSafe, NEW t,
         \/ \E d \in Timeouts \cup {0} : \E block : OSTaskSemPend(t, d, block)
         \/ \E c, opt : OSTaskSemPost(t, c, opt)
         \/ \E c, n : OSTaskSemSet(t, c, n)
         \/ \E opt : OSTaskSemPendAbort2(t, opt)
  PROVE  (Calm(os, os') /\ Places) \/ Begins(t)
<1>0. OsInv(os, Creating) /\ KTypeOK /\ os \in KState
  BY DEF KInv, OsInv
<1>1. ASSUME NEW svc, Call(t, svc), NEW l, Goto(t, l)
      PROVE  Places
  <2>1. t \in Task /\ pc[t] = "app"
    BY <1>1, CallLemma
  <2> QED
    BY <1>0, <1>1, <2>1, CallPlaces DEF Goto
<1>2. ASSUME NEW d \in Timeouts \cup {0}, NEW block, OSTaskSemPend(t, d, block)
      PROVE  (Calm(os, os') /\ Places) \/ Begins(t)
  <2>1. t \in Task /\ t \in Ready(os) \ Creating /\ os.TaskState[t] = "RDY"
    BY <1>2, CallLemma DEF OSTaskSemPend, Ready
  <2> DEFINE n == os.SemCtr[t] - 1
             a == [os EXCEPT !.SemCtr[t] = n]
             l == Resumption(t, TRUE)
  <2>4. /\ Call(t, "sempend")
        /\ \/ os.SemCtr[t] > 0 /\ Step(t, a, l)
           \/ os.SemCtr[t] = 0 /\ Step(t, OS_Pend(os, t, NoObj, "TASK_SEM", d), "pend")
    BY <1>2 DEF OSTaskSemPend
  <2>2. CASE os.SemCtr[t] > 0 /\ Step(t, a, l)
    <3>1. os' = a
      BY <2>2 DEF Step
    <3>2. ~WaitsForSignal(os, t)
      BY <2>1 DEF WaitsForSignal, Pending
    <3> HIDE DEF n
    <3>3. Counts(os, os', t)
      BY <1>0, <2>1, <3>1, <3>2, SetSemCtrCounts
    <3>4. Calm(os, os')
      BY <2>1, <3>3 DEF Calm
    <3> QED
      BY <1>1, <2>2, <2>4, <3>4 DEF Step
  <2>3. CASE os.SemCtr[t] = 0 /\ Step(t, OS_Pend(os, t, NoObj, "TASK_SEM", d), "pend")
    <3>1. /\ os.SemCtr[t] = 0 /\ Goto(t, "pend")
          /\ os' = OS_Pend(os, t, NoObj, "TASK_SEM", d)
      BY <2>3 DEF Step
    <3>2. /\ d \in Tick /\ NoObj \in Obj \cup {NoObj}
          /\ "TASK_SEM" \in PendOnSet /\ "TASK_SEM" \in PendOnSet \ {"NOTHING"}
      BY KernelAssumption, CoreAssumption DEF Tick, PendOnSet
    <3>3. Blocks(os, os', t, NoObj, "TASK_SEM", d)
      BY <1>0, <2>1, <3>1, <3>2, PendBlocks
    <3>4. Waits(os, os', t)
      BY <3>1, <3>2, <3>3 DEF Waits
    <3>5. os.PendData \in [Task -> SUBSET Obj] /\ os.PendOn \in [Task -> PendOnSet]
      BY <1>0 DEF KState
    <3>6. os'.PendData[t] = {} /\ os'.PendOn[t] = "TASK_SEM"
      BY <2>1, <3>3, <3>5 DEF Blocks
    <3> QED
      BY <3>1, <3>4, <3>6 DEF Begins, Goto
  <2> QED
    BY <2>2, <2>3, <2>4
<1>3. ASSUME NEW c, NEW opt, OSTaskSemPost(t, c, opt)
      PROVE  Calm(os, os') /\ Places
  <2>1. c \in Task /\ os' = OS_TaskSemPost(os, c)
    BY <1>3, TargetLemma DEF OSTaskSemPost, Step
  <2>2. os' = os \/ Ends(os, os', c, "OK") \/ Counts(os, os', c)
    BY <1>0, <2>1, TaskSemPostChanges
  <2>3. Calm(os, os')
    BY <2>1, <2>2, SameQuiet DEF Calm, StatusSet
  <2> QED
    BY <1>1, <1>3, <2>3 DEF OSTaskSemPost, Step
<1>4. ASSUME NEW c, NEW n, OSTaskSemSet(t, c, n)
      PROVE  Calm(os, os') /\ Places
  <2>1. c \in Task /\ os' = [os EXCEPT !.SemCtr[c] = n] /\ t \in Task /\ "semset" \in Calls[t]
    BY <1>4, TargetLemma, CallLemma DEF OSTaskSemSet, Step, Call
  <2>2. Counts(os, os', c)
    BY <1>0, <2>1, SetSemCtrCounts
  <2>3. Calm(os, os')
    BY <2>1, <2>2 DEF Calm
  <2> QED
    BY <1>1, <1>4, <2>3 DEF OSTaskSemSet, Step
<1>5. ASSUME NEW opt, OSTaskSemPendAbort2(t, opt)
      PROVE  Calm(os, os') /\ Places
  <2> DEFINE c == arg[t]
  <2>1. t \in Task /\ pc[t] = "abort" /\ c \in Task /\ os.PendData[c] = {}
    <3>1. t \in Task /\ pc[t] = "abort"
      BY <1>0, <1>5 DEF OSTaskSemPendAbort2, KTypeOK, cur
    <3> QED
      BY <1>0, <3>1 DEF KTypeOK, AppTask, AbortSafe
  <2>2. os' = EndWait(os, NoObj, c, NoMsg, "ABORT")
    BY <1>5 DEF OSTaskSemPendAbort2, OS_PendAbort
  <2> HIDE DEF c
  <2>3. ASSUME os.TaskState[c] \in Pending
        PROVE  Calm(os, os')
    <3>1. NoMsg \in Msg \cup {NoMsg} /\ "ABORT" \in StatusSet
      BY DEF StatusSet
    <3>2. Ends(os, os', c, "ABORT")
      BY <1>0, <2>1, <2>2, <2>3, <3>1, EndWaitEnds
    <3> QED
      BY <2>1, <3>1, <3>2 DEF Calm
  <2>4. ASSUME os.TaskState[c] \notin Pending
        PROVE  Calm(os, os')
    <3>1. os' = os
      BY <2>2, <2>4 DEF EndWait, Pending
    <3> QED
      BY <3>1, SameQuiet DEF Calm
  <2>5. Places
    BY <1>0, <1>5, <2>1, CallPlaces DEF OSTaskSemPendAbort2, Goto
  <2> QED
    BY <2>3, <2>4, <2>5
<1> QED
  BY <1>2, <1>3, <1>4, <1>5

\* Every step of a task begins a wait, sets the clock or changes neither.
LEMMA TaskStepChange ==
  ASSUME Hazard = {}, KInv, PendOK(os), AbortSafe, NEW t \in Task, TaskStep(t)
  PROVE  \/ Calm(os, os') /\ Places
         \/ Ticks(os, os') /\ Places /\ "timeset" \in Calls[t]
         \/ Begins(t)
<1> DEFINE Goal == \/ Calm(os, os') /\ Places
                   \/ Ticks(os, os') /\ Places /\ "timeset" \in Calls[t]
                   \/ Begins(t)
<1>1. ASSUME NEW c \in Task, OSTaskCreate(t, c) \/ OSTaskDel(t, c) \/ OSTaskSuspend(t, c) \/ OSTaskResume(t, c)
      PROVE  Goal
  BY <1>1, TaskCalls
<1>2. ASSUME OSTaskCreateLink(t) \/ OSSched(t) \/ PendReturn(t)
      PROVE  Goal
  BY <1>2, QuietReturns DEF Calm
<1>3. ASSUME OSSchedLock(t) \/ OSSchedUnlock(t) \/ OSSchedRoundRobinYield(t)
      PROVE  Goal
  BY <1>3, QuietCalls DEF Calm
<1>4. ASSUME NEW en \in BOOLEAN, NEW q \in Quanta, OSSchedRoundRobinCfg(t, en, q)
      PROVE  Goal
  BY <1>4, QuietCalls DEF Calm
<1>5. ASSUME NEW c \in Task, NEW q \in Quanta, OSTaskTimeQuantaSet(t, c, q)
      PROVE  Goal
  BY <1>5, QuietCalls DEF Calm
<1>6. ASSUME NEW c \in Task, NEW p \in NewPrios, NEW self \in BOOLEAN, OSTaskChangePrio(t, c, p, self)
      PROVE  Goal
  BY <1>6, TaskCalls
<1>7. ASSUME NEW d \in Delays, NEW opt \in DlyOpts, OSTimeDly(t, d, opt)
      PROVE  Goal
  BY <1>7, TimeCalls
<1>8. ASSUME NEW d \in Delays, OSTimeSet(t, d)
      PROVE  Goal
  <2>1. "timeset" \in Calls[t]
    BY <1>8 DEF OSTimeSet, Call
  <2> QED
    BY <1>8, <2>1, TimeCalls
<1>9. ASSUME NEW d \in Timeouts \cup {0}, NEW block \in BOOLEAN, OSTaskSemPend(t, d, block)
      PROVE  Goal
  BY <1>9, SemCalls
<1>10. ASSUME NEW c \in Task, NEW opt \in PostOpts, OSTaskSemPost(t, c, opt)
       PROVE  Goal
  BY <1>10, SemCalls
<1>11. ASSUME NEW c \in Task, NEW n \in 0 .. SemMax, OSTaskSemSet(t, c, n)
       PROVE  Goal
  BY <1>11, SemCalls
<1>12. ASSUME NEW c \in Task, OSTaskSemPendAbort(t, c)
       PROVE  Goal
  BY <1>12, QuietCalls DEF Calm
<1>13. ASSUME NEW opt \in PostOpts, OSTaskSemPendAbort2(t, opt)
       PROVE  Goal
  BY <1>13, SemCalls
<1> HIDE DEF Goal
<1>14. Goal
  BY <1>1, <1>2, <1>3, <1>4, <1>5, <1>6, <1>7, <1>8, <1>9, <1>10, <1>11, <1>12, <1>13 DEF TaskStep
<1> QED
  BY <1>14 DEF Goal

\* OSInit and main() create a task; OSStart.
LEMMA StartChange ==
  ASSUME KInv, PendOK(os), Boot \/ OSStart
  PROVE  Calm(os, os') /\ Places
<1>0. OsInv(os, Creating) /\ os \in KState /\ KTypeOK
  BY DEF KInv, OsInv
<1>1. CASE Boot
  <2> DEFINE t == BootOrder[boot + 1]
             o == FillTCB(os, t)
  <2>0. boot + 1 \in DOMAIN BootOrder /\ t \in Task
    <3>1. boot + 1 \in 1 .. Len(BootOrder)
      BY <1>0, <1>1, KernelAssumption DEF Boot, KTypeOK
    <3> QED
      BY <3>1, KernelAssumption
  <2>1. os.TaskState[t] = "DEL"
    <3>1. ~(boot + 1 <= boot)
      BY <1>0 DEF KTypeOK
    <3> QED
      BY <1>1, <2>0, <3>1 DEF Boot, KInv, BootInv
  <2>2. os' = LinkTCB(o, t)
    BY <1>1 DEF Boot
  <2> HIDE DEF t
  <2>3. Resets(os, o, t, "RDY") /\ o \in KState
    BY <1>0, <2>0, <2>1, FillResets, FillLemma DEF OsInv
  <2>4. Quiet(o, os')
    BY <2>0, <2>2, <2>3, RdyListQuiet DEF LinkTCB
  <2>5. Calm(os, o)
    BY <2>0, <2>3 DEF Calm
  <2> HIDE DEF o
  <2> QED
    BY <1>1, <2>4, <2>5, CalmQuiet DEF Places, Boot
<1>2. CASE OSStart
  <2> DEFINE o == CtxSw(os)
  <2>1. Quiet(os, o)
    BY <1>0, RescheduleQuiet
  <2>2. Quiet(o, os')
    BY <1>0, <1>2 DEF OSStart, CtxSw, Quiet, SameCtrs, SamePend, SameWheel, KState
  <2> HIDE DEF o
  <2>3. Quiet(os, os')
    BY <2>1, <2>2, QuietTransitive
  <2> QED
    BY <1>2, <2>3 DEF Places, OSStart, Calm
<1> QED
  BY <1>1, <1>2

\* The tick interrupt posts to two semaphores at most, in this order.
LEMMA TickISRChange ==
  ASSUME KInv, PendOK(os), TickISR
  PROVE  (\E b \in KState : Calm(os, b) /\ Calm(b, os')) /\ Places
<1> DEFINE C == Creating
           a == OS_TaskSemPost(os, TickTask)
           b == OS_SchedRoundRobin(a)
           o == OSTimeTick(os)
<1>0. OsInv(os, C) /\ os \in KState /\ TickTask \in Task
  BY CoreAssumption DEF KInv, OsInv
<1>1. OsInv(a, C)
  BY <1>0, TaskSemPostLemma
<1>2. OsInv(b, C) /\ Quiet(a, b)
  <2>1. a \in KState /\ Rdy(a, Ready(a) \ C)
    BY <1>1 DEF OsInv
  <2> HIDE DEF a
  <2>2. b \in KState /\ Rdy(b, Ready(a) \ C) /\ SameTasks(a, b)
    BY <2>1, SchedRoundRobinLemma
  <2>3. Quiet(a, b)
    BY <2>1, SchedRoundRobinQuiet
  <2> HIDE DEF b
  <2> QED
    BY <1>1, <2>2, <2>3, SameTasksInv
<1>3. Calm(os, a)
  <2>1. a = os \/ Ends(os, a, TickTask, "OK") \/ Counts(os, a, TickTask)
    BY <1>0, TaskSemPostChanges
  <2> HIDE DEF a
  <2> QED
    BY <1>0, <2>1, SameQuiet DEF Calm, StatusSet
<1>4. Calm(os, b) /\ b \in KState
  <2> HIDE DEF a, b
  <2> QED
    BY <1>2, <1>3, CalmQuiet DEF OsInv
<1>5. PendOK(b)
  <2> HIDE DEF b
  <2> QED
    BY <1>0, <1>4, ChangePendOK DEF Change
<1>6. o = b \/ (TmrTask \in Task /\ o = OS_TaskSemPost(b, TmrTask))
  BY KernelAssumption DEF OSTimeTick
<1>7. Calm(b, o) /\ o \in KState
  <2> HIDE DEF b, o
  <2>1. CASE o = b
    BY <1>4, <2>1, SameQuiet DEF Calm
  <2>2. CASE TmrTask \in Task /\ o = OS_TaskSemPost(b, TmrTask)
    <3>1. OsInv(o, C)
      BY <1>2, <2>2, TaskSemPostLemma
    <3>2. o = b \/ Ends(b, o, TmrTask, "OK") \/ Counts(b, o, TmrTask)
      BY <1>2, <1>5, <2>2, TaskSemPostChanges
    <3> QED
      BY <2>2, <3>1, <3>2, SameQuiet DEF Calm, StatusSet, OsInv
  <2> QED
    BY <1>6, <2>1, <2>2
<1>8. os' = Reschedule(o) /\ pc' = pc
  BY DEF TickISR
<1> HIDE DEF o, b
<1>9. Calm(b, os')
  <2>1. Quiet(o, os')
    BY <1>7, <1>8, RescheduleQuiet
  <2> QED
    BY <1>7, <2>1, CalmQuiet
<1> QED
  BY <1>4, <1>8, <1>9 DEF Places

\* The tick task counts a tick and ends the waits whose tick has come.
LEMMA TickStepChange ==
  ASSUME KInv, PendOK(os), TickStep
  PROVE  (Ticks(os, os') \/ Calm(os, os')) /\ Places
<1>0. OsInv(os, Creating) /\ os \in KState /\ KTypeOK /\ TickTask \in Task
  BY CoreAssumption DEF KInv, OsInv
<1>1. CASE OS_TickListUpdate
  <2>1. os' = [os EXCEPT !.OSTickCtr = (os.OSTickCtr + 1) % TickMod]
    BY <1>1 DEF OS_TickListUpdate
  <2>2. Ticks(os, os')
    BY <1>0, <2>1 DEF Ticks, SameCtrs, SamePend, KState
  <2>3. Places
    BY <1>0, <1>1, CallPlaces DEF OS_TickListUpdate, Goto
  <2> QED
    BY <2>2, <2>3
<1>2. CASE TickListUpdateLoop
  <2>1. os.OSRunning /\ pc[cur] = "spoke" /\ cur \in Task
    BY <1>0, <1>2 DEF TickListUpdateLoop, KTypeOK, cur
  <2>2. Places
    <3>1. CASE pc' = pc
      BY <3>1 DEF Places
    <3>2. CASE pc' = [pc EXCEPT ![cur] = "app"]
      BY <1>0, <2>1, <3>2, CallPlaces
    <3> QED
      BY <1>2, <3>1, <3>2 DEF TickListUpdateLoop, Goto
  <2>3. os' = os \/ (tickPtr \in Task /\ os' = Expire(os, tickPtr))
    BY <1>0, <1>2 DEF TickListUpdateLoop, KTypeOK
  <2>4. ASSUME tickPtr \in Task, os' = Expire(os, tickPtr)
        PROVE  Calm(os, os')
    <3>1. CASE os.TaskState[tickPtr] \in Timed
      BY <1>0, <2>4, <3>1, ExpireEnds DEF Calm
    <3>2. CASE os.TaskState[tickPtr] \notin Timed
      <4>1. os' = os
        BY <2>4, <3>2 DEF Expire, Timed
      <4> QED
        BY <4>1, SameQuiet DEF Calm
    <3> QED
      BY <3>1, <3>2
  <2> QED
    BY <2>2, <2>3, <2>4, SameQuiet DEF Calm
<1> QED
  BY <1>1, <1>2 DEF TickStep

\* Every step of the kernel consists of at most two changes.
LEMMA KNextChange ==
  ASSUME Hazard = {}, KInv, PendOK(os), AbortSafe, [KNext]_kvars
  PROVE  \/ (\E b \in KState : Calm(os, b) /\ Calm(b, os')) /\ Places
         \/ Ticks(os, os') /\ Places
         \/ \E t \in Task : Begins(t)
<1>0. os \in KState /\ Calm(os, os)
  BY SameQuiet DEF KInv, KTypeOK, Calm
<1>1. CASE Boot \/ OSStart
  BY <1>0, <1>1, StartChange
<1>2. CASE TickISR
  BY <1>2, TickISRChange
<1>3. CASE TickStep
  BY <1>0, <1>3, TickStepChange
<1>4. ASSUME NEW t \in Task, TaskStep(t)
      PROVE  \/ (\E b \in KState : Calm(os, b) /\ Calm(b, os')) /\ Places
             \/ Ticks(os, os') /\ Places
             \/ \E u \in Task : Begins(u)
  BY <1>0, <1>4, TaskStepChange
<1>5. CASE UNCHANGED kvars
  <2>1. os' = os /\ pc' = pc
    BY <1>5 DEF kvars
  <2> QED
    BY <1>0, <2>1 DEF Places
<1> QED
  BY <1>1, <1>2, <1>3, <1>4, <1>5 DEF KNext
-----------------------------------------------------------------------------
(* The invariant of the waits of the kernel on its own. *)

\* Without the services of other components no task is in a pend list.
KWaitInv == KInv /\ PendOK(os) /\ \A t \in Task : os.PendData[t] = {}

\* The initial state has no waits.
LEMMA InitWait ==
  /\ PendOK(OSInit) /\ SuspOK(OSInit) /\ SemOK(OSInit) /\ WaitSorted(OSInit)
  /\ \A t \in Task : OSInit.PendData[t] = {} /\ OSInit.PendOn[t] = "NOTHING"
<1>1. /\ \A t \in Task : /\ OSInit.TaskState[t] = "DEL" /\ OSInit.PendOn[t] = "NOTHING"
                         /\ OSInit.PendData[t] = {} /\ OSInit.SuspendCtr[t] = 0
                         /\ OSInit.SemCtr[t] = 0
      /\ \A obj \in Obj : OSInit.PendList[obj] = <<>>
  BY DEF OSInit
<1>2. "DEL" \notin Pending /\ "DEL" \notin Suspended
  BY DEF Pending, Suspended
<1> HIDE DEF OSInit
<1>3. \A obj \in Obj : IsList(OSInit.PendList[obj], {t \in Task : obj \in OSInit.PendData[t]})
  BY <1>1 DEF IsList, Range
<1>4. PendOK(OSInit)
  BY <1>1, <1>2, <1>3 DEF PendOK
<1>5. SuspOK(OSInit) /\ SemOK(OSInit)
  BY <1>1, <1>2 DEF SuspOK, SemOK, WaitsForSignal
<1>6. WaitSorted(OSInit)
  BY <1>1 DEF WaitSorted, Sorted
<1> QED
  BY <1>1, <1>4, <1>5, <1>6

\* Each step of the kernel keeps what holds of all waits.
LEMMA WaitStep ==
  ASSUME KInv, KInv', PendOK(os),
         \/ \E b \in KState : Calm(os, b) /\ Calm(b, os')
         \/ Ticks(os, os')
         \/ \E t \in Task : Waits(os, os', t)
  PROVE  /\ PendOK(os')
         /\ SuspendBound < NestMod /\ SuspOK(os) => SuspOK(os')
         /\ (\A t \in Task : "semset" \notin Calls[t]) /\ SemOK(os) => SemOK(os')
         /\ (\A t \in Task : os.PendOn[t] # "FLAG") /\ WaitSorted(os) => WaitSorted(os')
<1>0. os \in KState /\ os' \in KState
  BY DEF KInv, KTypeOK
<1>1. CASE \E b \in KState : Calm(os, b) /\ Calm(b, os')
  <2>1. PICK b \in KState : Calm(os, b) /\ Calm(b, os')
    BY <1>1
  <2>2. Change(os, b) /\ Change(b, os')
    BY <2>1 DEF Change
  <2>3. PendOK(b)
    BY <1>0, <2>2, ChangePendOK
  <2>4. PendOK(os')
    BY <1>0, <2>2, <2>3, ChangePendOK
  <2>5. SuspendBound < NestMod /\ SuspOK(os) => SuspOK(os')
    BY <1>0, <2>2, ChangeSuspOK
  <2>6. (\A t \in Task : "semset" \notin Calls[t]) /\ SemOK(os) => SemOK(os')
    BY <1>0, <2>2, ChangeSemOK
  <2>7. ASSUME \A t \in Task : os.PendOn[t] # "FLAG", WaitSorted(os)
        PROVE  WaitSorted(os')
    <3>1. \A t \in Task : b.PendOn[t] # "FLAG"
      BY <1>0, <2>1, <2>7, CalmShrinks
    <3>2. WaitSorted(b)
      BY <1>0, <2>2, <2>7, ChangeSorted
    <3> QED
      BY <1>0, <2>2, <2>3, <3>1, <3>2, ChangeSorted
  <2> QED
    BY <2>4, <2>5, <2>6, <2>7
<1>2. CASE Change(os, os')
  BY <1>0, <1>2, ChangePendOK, ChangeSuspOK, ChangeSemOK, ChangeSorted
<1> QED
  BY <1>1, <1>2 DEF Change

\* In the initial state nobody waits.
LEMMA KWaitInit == KInit => KWaitInv /\ SuspOK(os) /\ SemOK(os)
BY InitLemma, InitWait DEF KInit, KWaitInv

\* Every step of the kernel keeps the waits and the suspensions in order.
LEMMA KWaitStep ==
  ASSUME Hazard = {}, KWaitInv, [KNext]_kvars
  PROVE  /\ KWaitInv'
         /\ SuspendBound < NestMod /\ SuspOK(os) => SuspOK(os)'
         /\ (\A t \in Task : "semset" \notin Calls[t]) /\ SemOK(os) => SemOK(os)'
<1>1. KInv /\ KInv' /\ PendOK(os) /\ os \in KState /\ os' \in KState
  BY KInvInductive DEF KWaitInv, KInv, KTypeOK
<1>2. AbortSafe
  <2> SUFFICES ASSUME NEW t \in Task, pc[t] = "abort"
               PROVE  os.PendData[arg[t]] = {}
    BY DEF AbortSafe
  <2>1. arg[t] \in Task
    BY <1>1 DEF KInv, KTypeOK, AppTask
  <2> QED
    BY <2>1 DEF KWaitInv
<1>3. \/ (\E b \in KState : Calm(os, b) /\ Calm(b, os')) /\ Places
      \/ Ticks(os, os') /\ Places
      \/ \E t \in Task : Begins(t)
  BY <1>1, <1>2, KNextChange
<1>4. /\ PendOK(os')
      /\ SuspendBound < NestMod /\ SuspOK(os) => SuspOK(os')
      /\ (\A t \in Task : "semset" \notin Calls[t]) /\ SemOK(os) => SemOK(os')
  BY <1>1, <1>3, WaitStep DEF Begins
<1>5. \A t \in Task : os'.PendData[t] = {}
  <2> SUFFICES ASSUME NEW t \in Task
               PROVE  os'.PendData[t] = {}
    OBVIOUS
  <2>0. os.PendData[t] = {}
    BY DEF KWaitInv
  <2>1. CASE \E b \in KState : Calm(os, b) /\ Calm(b, os')
    <3>1. PICK b \in KState : Calm(os, b) /\ Calm(b, os')
      BY <2>1
    <3>2. b.PendData[t] \subseteq os.PendData[t] /\ os'.PendData[t] \subseteq b.PendData[t]
      BY <1>1, <3>1, CalmShrinks
    <3> QED
      BY <2>0, <3>2
  <2>2. CASE Ticks(os, os')
    BY <2>0, <2>2 DEF Ticks, SamePend
  <2>3. ASSUME NEW u \in Task, Begins(u)
        PROVE  os'.PendData[t] = {}
    <3>1. os.PendData \in [Task -> SUBSET Obj]
      BY <1>1 DEF KState
    <3>2. u # t => os'.PendData[t] = os.PendData[t]
      BY <2>3, <3>1 DEF Begins, Waits, Blocks
    <3> QED
      BY <2>0, <2>3, <3>2 DEF Begins
  <2> QED
    BY <1>3, <2>1, <2>2, <2>3
<1> QED
  BY <1>1, <1>4, <1>5 DEF KWaitInv

\* The suspension counters tell the truth as long as no task is suspended so
\* often that its OS_NESTING_CTR wraps (OS_TaskSuspend, OS_TaskResume, OS_Post,
\* OS_PendAbort, OS_TickListUpdate).
THEOREM KernelSuspensionCounted ==
  ASSUME Hazard = {}, SuspendBound < NestMod
  PROVE  KSpec => []SuspensionCounted
<1>1. KInit => KWaitInv /\ SuspOK(os)
  BY KWaitInit
<1>2. KWaitInv /\ SuspOK(os) /\ [KNext]_kvars => KWaitInv' /\ SuspOK(os)'
  BY KWaitStep
<1>3. SuspOK(os) => SuspensionCounted
  BY DEF SuspOK, SuspensionCounted
<1> QED
  BY <1>1, <1>2, <1>3, PTL DEF KSpec

\* No signal waits in the semaphore of a task that sleeps for it, unless
\* OSTaskSemSet puts it there (OSTaskSemPend, OS_TaskSemPost, OS_TickListUpdate,
\* OSTaskSemPendAbort between its two critical sections).
THEOREM KernelNoSignalWhileWaiting ==
  ASSUME Hazard = {}, \A t \in Task : "semset" \notin Calls[t]
  PROVE  KSpec => []NoSignalWhileWaiting
<1>1. KInit => KWaitInv /\ SemOK(os)
  BY KWaitInit
<1>2. KWaitInv /\ SemOK(os) /\ [KNext]_kvars => KWaitInv' /\ SemOK(os)'
  BY KWaitStep
<1>3. SemOK(os) => NoSignalWhileWaiting
  BY DEF SemOK, NoSignalWhileWaiting
<1> QED
  BY <1>1, <1>2, <1>3, PTL DEF KSpec
-----------------------------------------------------------------------------
(* The calls that wait for an object. *)

\* The states of a task that waits for nothing but time.
Delayed == Timed \ Pending

\* What happens to a task that does not call: it is neither deleted nor put to
\* sleep, and what it waits for stays as it is or ends; with status OK only for
\* the task's own semaphore.
Tame(o, o2, u) ==
  /\ (o2.TaskState[u] = "DEL" <=> o.TaskState[u] = "DEL")
  /\ o2.TaskState[u] \in Pending => o.TaskState[u] \in Pending
  /\ o2.TaskState[u] \in Delayed => o.TaskState[u] \in Delayed
  /\ \/ o2.PendOn[u] = o.PendOn[u] /\ o2.PendStatus[u] = o.PendStatus[u]
     \/ /\ o2.PendOn[u] = "NOTHING"
        /\ \/ o.PendOn[u] = "TASK_SEM" \/ o.TaskState[u] \in Delayed
           \/ o.PendOn[u] # "NOTHING" /\ o2.PendStatus[u] # "OK"

\* Two such changes make one.
LEMMA TameTransitive ==
  ASSUME NEW o, NEW o1, NEW o2, NEW u, Tame(o, o1, u), Tame(o1, o2, u)
  PROVE  Tame(o, o2, u)
BY DEF Tame

\* A change that keeps states and waits is tame.
LEMMA QuietTame ==
  ASSUME NEW o, NEW o2, NEW u, o2.TaskState = o.TaskState, SameCtrs(o, o2)
  PROVE  Tame(o, o2, u)
BY DEF Tame, SameCtrs

\* The end of a wait is tame if its status is OK only for the task's own semaphore.
LEMMA EndsTame ==
  ASSUME NEW o \in KState, PendOK(o), NEW o2, NEW t \in Task, NEW st, Ends(o, o2, t, st),
         o.TaskState[t] \in Pending /\ st = "OK" => o.PendOn[t] = "TASK_SEM", NEW u \in Task
  PROVE  Tame(o, o2, u)
<1>1. /\ o.TaskState \in [Task -> State] /\ o.PendOn \in [Task -> PendOnSet]
      /\ o.PendStatus \in [Task -> StatusSet]
  BY DEF KState
<1>2. /\ o2.TaskState[u] = IF u = t THEN IF o.TaskState[t] \in Suspended THEN "SUSPENDED" ELSE "RDY"
                                    ELSE o.TaskState[u]
      /\ o2.PendOn[u] = IF u = t THEN "NOTHING" ELSE o.PendOn[u]
      /\ o2.PendStatus[u] = IF u = t THEN st ELSE o.PendStatus[u]
      /\ o.TaskState[t] \in Pending \cup Timed
  BY <1>1 DEF Ends
<1>3. CASE u # t
  BY <1>2, <1>3 DEF Tame
<1>4. CASE u = t
  <2>1. o2.TaskState[u] \in {"SUSPENDED", "RDY"} /\ o.TaskState[u] # "DEL"
    BY <1>2, <1>4 DEF Pending, Timed
  <2>2. o.TaskState[t] \in Pending \/ o.TaskState[t] \in Delayed
    BY <1>2 DEF Delayed
  <2>3. o.TaskState[t] \in Pending => o.PendOn[t] # "NOTHING"
    BY DEF PendOK
  <2> QED
    BY <1>2, <1>4, <2>1, <2>2, <2>3 DEF Tame, Pending, Timed, Delayed
<1> QED
  BY <1>3, <1>4

\* Suspending and resuming are tame.
LEMMA RestatesTame ==
  ASSUME NEW o \in KState, NEW o2, NEW c \in Task, NEW st, NEW n, Restates(o, o2, c, st, n),
         NEW u \in Task
  PROVE  Tame(o, o2, u)
<1>1. o.TaskState \in [Task -> State]
  BY DEF KState
<1>2. /\ o2.TaskState[u] = IF u = c THEN st ELSE o.TaskState[u]
      /\ o2.PendOn = o.PendOn /\ o2.PendStatus = o.PendStatus
      /\ o.TaskState[c] # "DEL" /\ st # "DEL"
      /\ (st \in Pending <=> o.TaskState[c] \in Pending)
      /\ (st \in Timed <=> o.TaskState[c] \in Timed)
  BY <1>1 DEF Restates
<1>3. st \in Delayed => o.TaskState[c] \in Delayed
  BY <1>2 DEF Delayed
<1> QED
  BY <1>2, <1>3 DEF Tame

\* A reset is tame to every other task.
LEMMA ResetsTame ==
  ASSUME NEW o \in KState, NEW o2, NEW c \in Task, NEW st, Resets(o, o2, c, st), NEW u \in Task, u # c
  PROVE  Tame(o, o2, u)
<1>1. /\ o.TaskState \in [Task -> State] /\ o.PendOn \in [Task -> PendOnSet]
      /\ o.PendStatus \in [Task -> StatusSet]
  BY DEF KState
<1>2. /\ o2.TaskState[u] = o.TaskState[u]
      /\ o2.PendOn[u] = o.PendOn[u] /\ o2.PendStatus[u] = o.PendStatus[u]
  BY <1>1 DEF Resets
<1> QED
  BY <1>2 DEF Tame

\* A delay is tame to every other task.
LEMMA SleepsTame ==
  ASSUME NEW o \in KState, NEW o2, NEW t \in Task, NEW time, NEW opt, Sleeps(o, o2, t, time, opt),
         NEW u \in Task, u # t
  PROVE  Tame(o, o2, u)
<1>1. o.TaskState \in [Task -> State]
  BY DEF KState
<1>2. o2.TaskState[u] = o.TaskState[u] /\ o2.PendOn[u] = o.PendOn[u] /\ o2.PendStatus[u] = o.PendStatus[u]
  BY <1>1 DEF Sleeps, SameCtrs
<1> QED
  BY <1>2 DEF Tame

\* The beginning of a wait is tame to every other task.
LEMMA BlocksTame ==
  ASSUME NEW o \in KState, NEW o2, NEW t \in Task, NEW obj, NEW on, NEW time,
         Blocks(o, o2, t, obj, on, time), NEW u \in Task, u # t
  PROVE  Tame(o, o2, u)
<1>1. /\ o.TaskState \in [Task -> State] /\ o.PendOn \in [Task -> PendOnSet]
      /\ o.PendStatus \in [Task -> StatusSet]
  BY DEF KState
<1>2. /\ o2.TaskState[u] = o.TaskState[u]
      /\ o2.PendOn[u] = o.PendOn[u] /\ o2.PendStatus[u] = o.PendStatus[u]
  BY <1>1 DEF Blocks
<1> QED
  BY <1>2 DEF Tame

\* A signal is tame.
LEMMA TaskSemPostTame ==
  ASSUME NEW o, NEW C, OsInv(o, C), PendOK(o), NEW c \in Task, NEW u \in Task
  PROVE  Tame(o, OS_TaskSemPost(o, c), u)
<1> DEFINE o2 == OS_TaskSemPost(o, c)
<1>1. o2 = o \/ (Ends(o, o2, c, "OK") /\ WaitsForSignal(o, c)) \/ Counts(o, o2, c)
  BY TaskSemPostChanges
<1>2. o \in KState
  BY DEF OsInv
<1> SUFFICES Tame(o, o2, u)
  OBVIOUS
<1> HIDE DEF o2
<1>3. CASE o2 = o
  BY <1>3, QuietTame DEF SameCtrs
<1>4. CASE Ends(o, o2, c, "OK") /\ WaitsForSignal(o, c)
  BY <1>2, <1>4, EndsTame DEF WaitsForSignal
<1>5. CASE Counts(o, o2, c)
  BY <1>5 DEF Counts, Tame
<1> QED
  BY <1>1, <1>3, <1>4, <1>5

\* The places of a task inside a call that waits, and outside of all calls.
InPend  == {"pend", "ret"}
Outside == {"app", "sched", "update", "spoke", "wake"}

\* Only a task inside such a call waits, and not for time; outside of calls arg
\* is not in use, nor in a call for the task's own semaphore.
CallOK(u) ==
  /\ pc[u] \in InPend => os.TaskState[u] \notin Delayed
  /\ pc[u] \in Outside => arg[u] = NoTask
  /\ os.TaskState[u] \in Pending => pc[u] \in InPend
  /\ os.PendOn[u] = "TASK_SEM" => arg[u] = NoTask

CallInv == \A u \in Task : CallOK(u)

\* Task u is inside a call that waits, or has waited, for an object.
InCall(u) == /\ pc[u] \in InPend /\ arg[u] # NoTask
             /\ os.TaskState[u] # "DEL" /\ u \notin Creating

\* A step takes no task out of such a call except by deleting it, puts none into
\* one, and ends no wait in one with status OK.
Kept(u) ==
  /\ InCall(u) => \/ os'.TaskState[u] = "DEL"
                  \/ /\ InCall(u)' /\ arg'[u] = arg[u]
                     /\ \/ os'.PendOn[u] = os.PendOn[u] /\ os'.PendStatus[u] = os.PendStatus[u]
                        \/ /\ os.PendOn[u] # "NOTHING"
                           /\ os'.PendOn[u] = "NOTHING" /\ os'.PendStatus[u] # "OK"
  /\ InCall(u)' => InCall(u)

\* A task that stays where it is.
LEMMA TameKept ==
  ASSUME NEW u, CallOK(u), Tame(os, os', u), arg'[u] = arg[u],
         pc'[u] = pc[u] \/ (pc'[u] \in InPend /\ pc[u] \in InPend),
         u \in Creating' <=> u \in Creating
  PROVE  CallOK(u)' /\ Kept(u)
<1>1. \A x : ~(x \in InPend /\ x \in Outside)
  BY DEF InPend, Outside
<1>2. CallOK(u)'
  BY <1>1 DEF CallOK, Tame
<1>3. InCall(u)' <=> InCall(u)
  BY DEF InCall, Tame
<1>4. InCall(u) => os.PendOn[u] # "TASK_SEM" /\ os.TaskState[u] \notin Delayed
  BY DEF CallOK, InCall
<1> QED
  BY <1>2, <1>3, <1>4 DEF Kept, Tame

\* Creations begun or ended are those of the tasks at "create".
LEMMA CreatingFrame ==
  ASSUME KTypeOK, NEW t \in Task, pc[t] # "create", NEW l, l # "create", pc' = [pc EXCEPT ![t] = l],
         arg' = arg \/ \E a : arg' = [arg EXCEPT ![t] = a]
  PROVE  Creating' = Creating
<1>1. pc \in [Task -> PC] /\ arg \in [Task -> Task \cup Obj \cup {NoTask, NoObj}]
  BY DEF KTypeOK
<1>2. \A u \in Task : /\ (pc'[u] = "create" <=> pc[u] = "create")
                      /\ pc[u] = "create" => arg'[u] = arg[u]
  BY <1>1
<1>3. {u \in Task : pc'[u] = "create"} = {u \in Task : pc[u] = "create"}
  BY <1>2
<1>4. {arg'[u] : u \in {v \in Task : pc[v] = "create"}} = Creating
  BY <1>2 DEF Creating
<1> QED
  BY <1>3, <1>4 DEF Creating

\* A task goes on outside of the calls that wait.
LEMMA MoveKept ==
  ASSUME KTypeOK, PendOK(os'), CallInv, NEW t \in Task, pc[t] \in Outside, NEW l \in Outside,
         pc' = [pc EXCEPT ![t] = l], arg' = arg, os'.TaskState[t] \notin Pending,
         \A u \in Task \ {t} : Tame(os, os', u) \/ os'.TaskState[u] = "DEL"
  PROVE  CallInv' /\ \A u \in Task : Kept(u)
<1>1. pc \in [Task -> PC] /\ pc'[t] = l
  BY DEF KTypeOK
<1>2. Creating' = Creating
  BY CreatingFrame DEF Outside
<1>3. CallOK(t)' /\ Kept(t)
  <2>1. pc[t] \notin InPend /\ pc'[t] \notin InPend /\ arg'[t] = NoTask
    BY <1>1 DEF CallInv, CallOK, InPend, Outside
  <2> QED
    BY <2>1 DEF CallOK, Kept, InCall
<1>4. ASSUME NEW u \in Task \ {t}
      PROVE  CallOK(u)' /\ Kept(u)
  <2>1. pc'[u] = pc[u] /\ arg'[u] = arg[u]
    BY <1>1
  <2>2. CASE Tame(os, os', u)
    BY <1>2, <2>1, <2>2, TameKept DEF CallInv
  <2>3. CASE os'.TaskState[u] = "DEL"
    <3>1. os'.TaskState[u] \notin Pending /\ os'.TaskState[u] \notin Delayed
      BY <2>3 DEF Pending, Delayed, Timed
    <3>2. os'.PendOn[u] = "NOTHING"
      BY <3>1 DEF PendOK
    <3>3. pc[u] \in Outside => arg[u] = NoTask
      BY DEF CallInv, CallOK
    <3> QED
      BY <2>1, <2>3, <3>1, <3>2, <3>3 DEF CallOK, Kept, InCall
  <2> QED
    BY <1>4, <2>2, <2>3
<1> QED
  BY <1>3, <1>4 DEF CallInv

\* No task changes its place.
LEMMA StayKept ==
  ASSUME CallInv, pc' = pc, arg' = arg, PendOK(os'),
         \A u \in Task : Tame(os, os', u) \/ (pc[u] = "app" /\ os'.TaskState[u] \notin Pending)
  PROVE  CallInv' /\ \A u \in Task : Kept(u)
<1>1. Creating' = Creating
  BY DEF Creating
<1>2. ASSUME NEW u \in Task
      PROVE  CallOK(u)' /\ Kept(u)
  <2>1. CASE Tame(os, os', u)
    BY <1>1, <2>1, TameKept DEF CallInv
  <2>2. CASE pc[u] = "app" /\ os'.TaskState[u] \notin Pending
    <3>1. pc[u] \notin InPend /\ arg[u] = NoTask
      BY <2>2 DEF InPend, Outside, CallInv, CallOK
    <3> QED
      BY <2>2, <3>1 DEF CallOK, Kept, InCall
  <2> QED
    BY <2>1, <2>2
<1> QED
  BY <1>2 DEF CallInv

\* OSSched in a call that waits, or the return from a call for the task's own
\* semaphore.
LEMMA ReturnKept ==
  ASSUME KTypeOK, CallInv, NEW t \in Task, NEW l, pc' = [pc EXCEPT ![t] = l], arg' = arg,
         \/ pc[t] = "pend" /\ l = "ret"
         \/ pc[t] = "ret" /\ l \in Outside /\ arg[t] = NoTask /\ os.TaskState[t] = "RDY",
         \A u \in Task : Tame(os, os', u)
  PROVE  CallInv' /\ \A u \in Task : Kept(u)
<1>1. pc \in [Task -> PC] /\ pc'[t] = l
  BY DEF KTypeOK
<1>2. Creating' = Creating
  BY CreatingFrame DEF Outside
<1>3. ASSUME NEW u \in Task, u # t \/ l = "ret"
      PROVE  CallOK(u)' /\ Kept(u)
  <2>1. /\ arg'[u] = arg[u]
        /\ pc'[u] = pc[u] \/ (pc'[u] \in InPend /\ pc[u] \in InPend)
    BY <1>1, <1>3 DEF InPend, Outside
  <2> QED
    BY <1>2, <2>1, TameKept DEF CallInv
<1>4. ASSUME l # "ret"
      PROVE  CallOK(t)' /\ Kept(t)
  <2>1. pc'[t] \notin InPend /\ arg[t] = NoTask /\ os'.TaskState[t] \notin Pending
    BY <1>1, <1>4 DEF InPend, Outside, Tame, Pending
  <2> QED
    BY <2>1 DEF CallOK, Kept, InCall
<1> QED
  BY <1>3, <1>4 DEF CallInv

\* The running task stops to wait for its own semaphore.
LEMMA BeginKept ==
  ASSUME KTypeOK, CallInv, NEW t \in Task, pc[t] = "app", pc' = [pc EXCEPT ![t] = "pend"], arg' = arg,
         os'.TaskState[t] \notin Delayed, \A u \in Task \ {t} : Tame(os, os', u)
  PROVE  CallInv' /\ \A u \in Task : Kept(u)
<1>1. pc \in [Task -> PC] /\ pc'[t] = "pend"
  BY DEF KTypeOK
<1>2. Creating' = Creating
  BY CreatingFrame
<1>3. CallOK(t)' /\ Kept(t)
  <2>1. arg[t] = NoTask
    BY DEF CallInv, CallOK, Outside
  <2> QED
    BY <1>1, <2>1 DEF CallOK, Kept, InCall, InPend, Outside
<1>4. ASSUME NEW u \in Task \ {t}
      PROVE  CallOK(u)' /\ Kept(u)
  BY <1>1, <1>2, TameKept DEF CallInv
<1> QED
  BY <1>3, <1>4 DEF CallInv

\* OSTaskCreate begins with a deleted TCB.
LEMMA CreateKept ==
  ASSUME KInv, PendOK(os'), CallInv, NEW t \in Task, pc[t] = "app", os.TaskState[t] = "RDY",
         NEW c \in Task, os.TaskState[c] = "DEL", pc' = [pc EXCEPT ![t] = "create"],
         arg' = [arg EXCEPT ![t] = c], os'.TaskState[c] = "RDY",
         \A u \in Task \ {c} : Tame(os, os', u)
  PROVE  CallInv' /\ \A u \in Task : Kept(u)
<1>1. /\ pc \in [Task -> PC] /\ arg \in [Task -> Task \cup Obj \cup {NoTask, NoObj}]
      /\ t # c
  BY DEF KInv, KTypeOK
<1>2. /\ pc'[t] = "create" /\ arg'[t] = c
      /\ \A u \in Task \ {t} : pc'[u] = pc[u] /\ arg'[u] = arg[u]
  BY <1>1
<1>3. Creating' = Creating \cup {c}
  <2>1. ASSUME NEW u \in Task, pc'[u] = "create"
        PROVE  arg'[u] \in Creating \cup {c}
    BY <1>2, <2>1 DEF Creating
  <2>2. ASSUME NEW u \in Task, pc[u] = "create"
        PROVE  arg[u] \in Creating'
    BY <1>2, <2>2 DEF Creating
  <2>3. c \in Creating'
    BY <1>2 DEF Creating
  <2>4. Creating' \subseteq Creating \cup {c}
    BY <2>1 DEF Creating
  <2>5. Creating \subseteq Creating'
    BY <2>2 DEF Creating
  <2> QED
    BY <2>3, <2>4, <2>5
<1>4. CallOK(t)' /\ Kept(t)
  <2>1. os'.TaskState[t] \notin Pending
    BY <1>1 DEF Tame, Pending
  <2>2. os'.PendOn[t] = "NOTHING"
    BY <2>1 DEF PendOK
  <2> QED
    BY <1>2, <2>1, <2>2 DEF CallOK, Kept, InCall, InPend, Outside
<1>5. CallOK(c)' /\ Kept(c)
  <2>1. os'.TaskState[c] \notin Pending /\ os'.TaskState[c] \notin Delayed
    BY DEF Pending, Delayed, Timed
  <2>2. os'.PendOn[c] = "NOTHING"
    BY <2>1 DEF PendOK
  <2> QED
    BY <1>1, <1>2, <1>3, <2>1, <2>2 DEF CallOK, Kept, InCall, CallInv
<1>6. ASSUME NEW u \in Task \ {t, c}
      PROVE  CallOK(u)' /\ Kept(u)
  BY <1>2, <1>3, TameKept DEF CallInv
<1> QED
  BY <1>4, <1>5, <1>6 DEF CallInv

\* OSTaskCreate links its TCB: the new task starts outside of all calls.
LEMMA LinkKept ==
  ASSUME KInv, CallInv, NEW t \in Task, pc[t] = "create",
         pc' = [pc EXCEPT ![t] = "sched", ![arg[t]] = "app"],
         arg' = [arg EXCEPT ![t] = NoTask, ![arg[t]] = NoTask], Quiet(os, os')
  PROVE  CallInv' /\ \A u \in Task : Kept(u)
<1>0. PICK c : c = arg[t]
  OBVIOUS
<1>1. /\ pc \in [Task -> PC] /\ arg \in [Task -> Task \cup Obj \cup {NoTask, NoObj}]
      /\ c \in Task /\ c \in Creating /\ os.TaskState[c] = "RDY"
  <2>1. c \in Creating
    BY <1>0 DEF Creating
  <2> QED
    BY <2>1 DEF KInv, KTypeOK, OsInv, Ready
<1>2. c # t /\ pc[c] # "create"
  BY <1>0, <1>1 DEF KInv, CreateInv
<1>3. /\ pc'[t] = "sched" /\ arg'[t] = NoTask /\ pc'[c] = "app" /\ arg'[c] = NoTask
      /\ \A u \in Task \ {t, c} : pc'[u] = pc[u] /\ arg'[u] = arg[u]
  BY <1>0, <1>1, <1>2
<1>4. \A u \in Task : u # c => (u \in Creating' <=> u \in Creating)
  <2>1. ASSUME NEW v \in Task, pc'[v] = "create"
        PROVE  arg'[v] \in Creating
    BY <1>3, <2>1 DEF Creating
  <2>2. ASSUME NEW v \in Task, pc[v] = "create", arg[v] # c
        PROVE  arg[v] \in Creating'
    <3>1. v # t /\ v # c
      BY <1>0, <1>2, <2>2
    <3>2. pc'[v] = "create" /\ arg'[v] = arg[v]
      BY <1>3, <2>2, <3>1
    <3> QED
      BY <3>2 DEF Creating
  <2> QED
    BY <2>1, <2>2 DEF Creating
<1>5. /\ os'.TaskState = os.TaskState /\ os'.PendOn = os.PendOn
      /\ \A u : Tame(os, os', u)
  BY QuietTame DEF Quiet, SameCtrs
<1>6. CallOK(t)' /\ Kept(t)
  <2>1. os.TaskState[t] \notin Pending
    BY DEF CallInv, CallOK, InPend
  <2> QED
    BY <1>3, <1>5, <2>1 DEF CallOK, Kept, InCall, InPend
<1>7. CallOK(c)' /\ Kept(c)
  <2>1. os.TaskState[c] \notin Pending
    BY <1>1 DEF Pending
  <2> QED
    BY <1>1, <1>3, <1>5, <2>1 DEF CallOK, Kept, InCall, InPend
<1>8. ASSUME NEW u \in Task \ {t, c}
      PROVE  CallOK(u)' /\ Kept(u)
  BY <1>3, <1>4, <1>5, TameKept DEF CallInv
<1> QED
  BY <1>6, <1>7, <1>8 DEF CallInv

\* The two critical sections of OSTaskSemPendAbort.
LEMMA AbortKept ==
  ASSUME KTypeOK, PendOK(os'), CallInv, NEW t \in Task, NEW l, NEW a,
         \/ pc[t] = "app" /\ l = "abort"
         \/ pc[t] = "abort" /\ l \in Outside /\ a = NoTask,
         pc' = [pc EXCEPT ![t] = l], arg' = [arg EXCEPT ![t] = a], \A u \in Task : Tame(os, os', u)
  PROVE  CallInv' /\ \A u \in Task : Kept(u)
<1>1. pc \in [Task -> PC] /\ arg \in [Task -> Task \cup Obj \cup {NoTask, NoObj}]
  BY DEF KTypeOK
<1>2. /\ pc'[t] = l /\ arg'[t] = a
      /\ \A u \in Task \ {t} : pc'[u] = pc[u] /\ arg'[u] = arg[u]
  BY <1>1
<1>3. Creating' = Creating
  BY CreatingFrame DEF Outside
<1>4. CallOK(t)' /\ Kept(t)
  <2>1. pc[t] \notin InPend /\ pc'[t] \notin InPend /\ (pc'[t] \in Outside => arg'[t] = NoTask)
    BY <1>2 DEF InPend, Outside
  <2>2. os'.TaskState[t] \notin Pending
    BY <2>1 DEF CallInv, CallOK, Tame
  <2>3. os'.PendOn[t] = "NOTHING"
    BY <2>2 DEF PendOK
  <2> QED
    BY <2>1, <2>2, <2>3 DEF CallOK, Kept, InCall
<1>5. ASSUME NEW u \in Task \ {t}
      PROVE  CallOK(u)' /\ Kept(u)
  BY <1>2, <1>3, TameKept DEF CallInv
<1> QED
  BY <1>4, <1>5 DEF CallInv

\* A step of the kernel leaves the calls of other components alone; it does not
\* interrupt a loop over a pend list, and begins no abort that is not called for.
CallsKept ==
  /\ CallInv' /\ \A u \in Task : Kept(u)
  /\ ~(os.OSRunning /\ pc[cur] = "wake")
  /\ \A u \in Task : /\ pc'[u] = "wake" => pc[u] = "wake"
                     /\ pc'[u] = "abort" => pc[u] = "abort" \/ \E t \in Task : "semabort" \in Calls[t]

\* A service that returns or goes on to OSSched.
LEMMA CallKept ==
  ASSUME KInv, PendOK(os'), CallInv, NEW t, NEW svc, Call(t, svc), NEW l \in Outside, l # "wake",
         Goto(t, l), arg' = arg, \A u \in Task : Tame(os, os', u) \/ os'.TaskState[u] = "DEL"
  PROVE  CallsKept
<1>1. t \in Task /\ t = cur /\ pc[t] = "app" /\ os.TaskState[t] = "RDY"
  BY CallLemma DEF Ready
<1>2. pc' = [pc EXCEPT ![t] = l] /\ KTypeOK /\ pc \in [Task -> PC]
  BY DEF Goto, KInv, KTypeOK
<1>3. os'.TaskState[t] \notin Pending
  BY <1>1 DEF Tame, Pending
<1>4. CallInv' /\ \A u \in Task : Kept(u)
  BY <1>1, <1>2, <1>3, MoveKept DEF Outside
<1>5. \A u \in Task : pc'[u] \in {"wake", "abort"} => pc'[u] = pc[u]
  BY <1>1, <1>2 DEF Outside
<1> QED
  BY <1>1, <1>4, <1>5 DEF CallsKept

\* The services that change no wait.
LEMMA QuietCallsKept ==
  ASSUME KInv, PendOK(os'), CallInv, NEW t,
         \/ OSSchedLock(t) \/ OSSchedUnlock(t) \/ OSSchedRoundRobinYield(t)
         \/ \E en, q : OSSchedRoundRobinCfg(t, en, q)
         \/ \E c, q : OSTaskTimeQuantaSet(t, c, q)
         \/ \E d \in Delays : OSTimeSet(t, d)
         \/ \E c, n : OSTaskSemSet(t, c, n)
  PROVE  CallsKept
<1>1. \A u \in Task : Tame(os, os', u)
  <2>1. CASE \/ OSSchedLock(t) \/ OSSchedUnlock(t) \/ OSSchedRoundRobinYield(t)
             \/ \E en, q : OSSchedRoundRobinCfg(t, en, q)
             \/ \E c, q : OSTaskTimeQuantaSet(t, c, q)
    <3>1. Quiet(os, os')
      BY <2>1, QuietCalls
    <3> QED
      BY <3>1, QuietTame DEF Quiet
  <2>2. ASSUME NEW d \in Delays, OSTimeSet(t, d)
        PROVE  \A u \in Task : Tame(os, os', u)
    <3>1. os' = [os EXCEPT !.OSTickCtr = d] /\ os \in KState
      BY <2>2 DEF OSTimeSet, Step, KInv, KTypeOK
    <3>2. os'.TaskState = os.TaskState /\ SameCtrs(os, os')
      BY <3>1 DEF KState, SameCtrs
    <3> QED
      BY <3>2, QuietTame
  <2>3. ASSUME NEW c, NEW n, OSTaskSemSet(t, c, n)
        PROVE  \A u \in Task : Tame(os, os', u)
    <3>1. os' = [os EXCEPT !.SemCtr[c] = n] /\ os \in KState
      BY <2>3 DEF OSTaskSemSet, Step, KInv, KTypeOK
    <3>2. os'.TaskState = os.TaskState /\ os'.PendOn = os.PendOn /\ os'.PendStatus = os.PendStatus
      BY <3>1 DEF KState
    <3> QED
      BY <3>2 DEF Tame
  <2> QED
    BY <2>1, <2>2, <2>3
<1>2. \E svc, l : Call(t, svc) /\ l \in {"app", "sched"} /\ Goto(t, l) /\ arg' = arg
  BY DEF OSSchedLock, OSSchedUnlock, OSSchedRoundRobinYield, OSSchedRoundRobinCfg,
         OSTaskTimeQuantaSet, OSTimeSet, OSTaskSemSet, Step
<1> QED
  BY <1>1, <1>2, CallKept DEF Outside

\* OSTaskDel, OSTaskSuspend, OSTaskResume, OSTaskChangePrio and OSTaskSemPost.
LEMMA TaskCallsKept ==
  ASSUME KInv, PendOK(os), PendOK(os'), CallInv, NEW t,
         \/ \E c : OSTaskDel(t, c) \/ OSTaskSuspend(t, c) \/ OSTaskResume(t, c)
         \/ \E c, self : \E p \in NewPrios : OSTaskChangePrio(t, c, p, self)
         \/ \E c, opt : OSTaskSemPost(t, c, opt)
  PROVE  CallsKept
<1>0. OsInv(os, Creating) /\ os \in KState
  BY DEF KInv, OsInv
<1>1. \A u \in Task : Tame(os, os', u) \/ os'.TaskState[u] = "DEL"
  <2>1. ASSUME NEW c, OSTaskDel(t, c)
        PROVE  \A u \in Task : Tame(os, os', u) \/ os'.TaskState[u] = "DEL"
    <3>1. c \in Task /\ c \notin Creating /\ os.TaskState[c] # "DEL" /\ os.TaskState \in [Task -> State]
      BY <1>0, <2>1, TargetLemma DEF OSTaskDel, KState
    <3>2. Resets(os, os', c, "DEL")
      BY <1>0, <2>1, <3>1, DelResets DEF OSTaskDel, Step
    <3>3. os'.TaskState[c] = "DEL"
      BY <3>1, <3>2 DEF Resets
    <3> QED
      BY <1>0, <3>1, <3>2, <3>3, ResetsTame
  <2>2. ASSUME NEW c, OSTaskSuspend(t, c)
        PROVE  \A u \in Task : Tame(os, os', u)
    <3>1. c \in Task
      BY <2>2, TargetLemma DEF OSTaskSuspend
    <3> QED
      BY <1>0, <2>2, <3>1, SuspendRestates, RestatesTame
  <2>3. ASSUME NEW c, OSTaskResume(t, c)
        PROVE  \A u \in Task : Tame(os, os', u)
    <3>1. c \in Task
      BY <2>3, TargetLemma DEF OSTaskResume
    <3>2. os' = os \/ \E st, n : Restates(os, os', c, st, n)
      BY <2>3, ResumeRestates
    <3>3. CASE os' = os
      BY <3>3, QuietTame DEF SameCtrs
    <3>4. CASE \E st, n : Restates(os, os', c, st, n)
      BY <1>0, <3>1, <3>4, RestatesTame
    <3> QED
      BY <3>2, <3>3, <3>4
  <2>4. ASSUME NEW c, NEW self, NEW p \in NewPrios, OSTaskChangePrio(t, c, p, self)
        PROVE  \A u \in Task : Tame(os, os', u)
    BY <2>4, ChangePrioRepri, QuietTame DEF Repri
  <2>5. ASSUME NEW c, NEW opt, OSTaskSemPost(t, c, opt)
        PROVE  \A u \in Task : Tame(os, os', u)
    <3>1. c \in Task /\ os' = OS_TaskSemPost(os, c)
      BY <2>5, TargetLemma DEF OSTaskSemPost, Step
    <3> QED
      BY <1>0, <3>1, TaskSemPostTame
  <2> QED
    BY <2>1, <2>2, <2>3, <2>4, <2>5
<1>2. \E svc, l : Call(t, svc) /\ l \in {"app", "sched"} /\ Goto(t, l) /\ arg' = arg
  BY DEF OSTaskDel, OSTaskSuspend, OSTaskResume, OSTaskChangePrio, OSTaskSemPost, Step
<1> QED
  BY <1>1, <1>2, CallKept DEF Outside

\* OSTimeDly: the caller sleeps.
LEMMA DlyKept ==
  ASSUME Hazard = {}, KInv, PendOK(os'), CallInv, NEW t, NEW d \in Delays, NEW opt \in DlyOpts,
         OSTimeDly(t, d, opt)
  PROVE  CallsKept
<1>0. OsInv(os, Creating) /\ KTypeOK /\ os \in KState /\ os.TaskState \in [Task -> State]
      /\ pc \in [Task -> PC]
  BY DEF KInv, OsInv, KState, KTypeOK
<1>1. /\ t \in Task /\ t = cur /\ pc[t] = "app" /\ t \in Ready(os) \ Creating /\ d \in Tick
      /\ ~NoDelay(os, d, opt)
  BY CallLemma, KernelAssumption DEF OSTimeDly
<1>2. /\ os' = OS_RdyListRemove(OS_TickListInsert([os EXCEPT !.TaskState[t] = "DLY"], t, d, opt), t)
      /\ pc' = [pc EXCEPT ![t] = "sched"] /\ arg' = arg
  BY <1>1 DEF OSTimeDly, Step, Goto
<1>3. Sleeps(os, os', t, d, opt)
  BY <1>0, <1>1, <1>2, DlySleeps
<1>4. \A u \in Task \ {t} : Tame(os, os', u)
  BY <1>0, <1>1, <1>3, SleepsTame
<1>5. os'.TaskState[t] \notin Pending
  BY <1>0, <1>1, <1>3 DEF Sleeps, Pending
<1>6. CallInv' /\ \A u \in Task : Kept(u)
  BY <1>0, <1>1, <1>2, <1>4, <1>5, MoveKept DEF Outside
<1>7. \A u \in Task : pc'[u] \in {"wake", "abort"} => pc'[u] = pc[u]
  BY <1>0, <1>1, <1>2
<1> QED
  BY <1>1, <1>6, <1>7 DEF CallsKept

\* OSTaskSemPend takes a signal or begins to wait for one.
LEMMA SemPendKept ==
  ASSUME KInv, PendOK(os'), CallInv, NEW t, NEW d \in Timeouts \cup {0}, NEW block,
         OSTaskSemPend(t, d, block)
  PROVE  CallsKept
<1>0. OsInv(os, Creating) /\ KTypeOK /\ os \in KState /\ os.TaskState \in [Task -> State]
      /\ pc \in [Task -> PC]
  BY DEF KInv, OsInv, KState, KTypeOK
<1>1. Call(t, "sempend") /\ t \in Task /\ t = cur /\ pc[t] = "app" /\ t \in Ready(os) \ Creating
  BY CallLemma DEF OSTaskSemPend
<1>2. CASE Step(t, [os EXCEPT !.SemCtr[t] = @ - 1], Resumption(t, TRUE))
  <2>1. /\ os'.TaskState = os.TaskState /\ os'.PendOn = os.PendOn /\ os'.PendStatus = os.PendStatus
        /\ arg' = arg
    BY <1>0, <1>2 DEF Step, KState
  <2>2. PICK l : Goto(t, l) /\ l \in Outside /\ l # "wake"
    BY <1>2 DEF Step, Resumption, Outside
  <2>3. \A u \in Task : Tame(os, os', u)
    BY <2>1 DEF Tame
  <2> QED
    BY <1>1, <2>1, <2>2, <2>3, CallKept
<1>3. CASE Step(t, OS_Pend(os, t, NoObj, "TASK_SEM", d), "pend")
  <2>1. /\ d \in Tick /\ NoObj \in Obj \cup {NoObj} /\ "TASK_SEM" \in PendOnSet
    BY KernelAssumption, CoreAssumption DEF Tick, PendOnSet
  <2>2. /\ os' = OS_Pend(os, t, NoObj, "TASK_SEM", d)
        /\ pc' = [pc EXCEPT ![t] = "pend"] /\ arg' = arg
    BY <1>3 DEF Step, Goto
  <2>3. Blocks(os, os', t, NoObj, "TASK_SEM", d)
    BY <1>0, <1>1, <2>1, <2>2, PendBlocks
  <2>4. \A u \in Task \ {t} : Tame(os, os', u)
    BY <1>0, <1>1, <2>3, BlocksTame
  <2>5. os'.TaskState[t] \notin Delayed
    BY <1>0, <1>1, <2>3 DEF Blocks, Delayed, Pending
  <2>6. CallInv' /\ \A u \in Task : Kept(u)
    BY <1>0, <1>1, <2>2, <2>4, <2>5, BeginKept
  <2>7. \A u \in Task : pc'[u] \in {"wake", "abort"} => pc'[u] = pc[u]
    BY <1>0, <1>1, <2>2
  <2> QED
    BY <1>1, <2>6, <2>7 DEF CallsKept
<1> QED
  BY <1>2, <1>3 DEF OSTaskSemPend

\* The two critical sections of OSTaskCreate.
LEMMA CreateCallKept ==
  ASSUME KInv, PendOK(os), PendOK(os'), CallInv, NEW t, (\E c : OSTaskCreate(t, c)) \/ OSTaskCreateLink(t)
  PROVE  CallsKept
<1>0. OsInv(os, Creating) /\ KTypeOK /\ os \in KState /\ os.TaskState \in [Task -> State]
      /\ pc \in [Task -> PC]
  BY DEF KInv, OsInv, KState, KTypeOK
<1>1. ASSUME NEW c, OSTaskCreate(t, c)
      PROVE  CallsKept
  <2>1. /\ t \in Task /\ t = cur /\ pc[t] = "app" /\ os.TaskState[t] = "RDY"
        /\ c \in Task /\ os.TaskState[c] = "DEL" /\ os' = FillTCB(os, c)
        /\ pc' = [pc EXCEPT ![t] = "create"] /\ arg' = [arg EXCEPT ![t] = c]
    BY <1>1, CallLemma, TargetLemma DEF OSTaskCreate, Ready, Goto
  <2>2. Resets(os, os', c, "RDY")
    BY <1>0, <2>1, FillResets
  <2>3. os'.TaskState[c] = "RDY"
    BY <1>0, <2>1, <2>2 DEF Resets
  <2>4. \A u \in Task \ {c} : Tame(os, os', u)
    BY <1>0, <2>1, <2>2, ResetsTame
  <2>5. CallInv' /\ \A u \in Task : Kept(u)
    BY <2>1, <2>3, <2>4, CreateKept
  <2>6. \A u \in Task : pc'[u] \in {"wake", "abort"} => pc'[u] = pc[u]
    BY <1>0, <2>1
  <2> QED
    BY <2>1, <2>5, <2>6 DEF CallsKept
<1>2. CASE OSTaskCreateLink(t)
  <2>1. /\ t \in Task /\ t = cur /\ pc[t] = "create"
        /\ pc' = [pc EXCEPT ![t] = "sched", ![arg[t]] = "app"]
        /\ arg' = [arg EXCEPT ![t] = NoTask, ![arg[t]] = NoTask]
    BY <1>0, <1>2 DEF OSTaskCreateLink, KTypeOK, cur
  <2>2. Quiet(os, os')
    BY <1>2, QuietReturns
  <2>3. CallInv' /\ \A u \in Task : Kept(u)
    BY <2>1, <2>2, LinkKept
  <2>4. \A u \in Task : pc'[u] \in {"wake", "abort"} => pc'[u] = pc[u]
    BY <1>0, <2>1
  <2> QED
    BY <2>1, <2>3, <2>4 DEF CallsKept
<1> QED
  BY <1>1, <1>2

\* OSSched, and the code after it in OSTaskSemPend.
LEMMA ReturnsKept ==
  ASSUME KInv, PendOK(os'), CallInv, NEW t, OSSched(t) \/ PendReturn(t)
  PROVE  CallsKept
<1>0. /\ KTypeOK /\ os \in KState /\ pc \in [Task -> PC]
      /\ os.OSRunning /\ t = cur /\ t \in Task /\ pc[t] \in {"sched", "pend", "ret"}
  BY DEF KInv, KTypeOK, OSSched, PendReturn, cur
<1>1. \A u \in Task : Tame(os, os', u)
  <2>1. Quiet(os, os')
    BY QuietReturns
  <2> QED
    BY <2>1, QuietTame DEF Quiet
<1>2. PICK l : /\ pc' = [pc EXCEPT ![t] = l] /\ arg' = arg
               /\ \/ pc[t] = "sched" /\ l = "app"
                  \/ pc[t] = "pend" /\ l = "ret"
                  \/ pc[t] = "ret" /\ arg[t] = NoTask /\ l \in {"app", "update"}
  BY DEF OSSched, PendReturn, Step, Goto, Resumption
<1>3. CASE pc[t] = "sched" /\ l = "app"
  <2>1. os'.TaskState[t] \notin Pending
    BY <1>0, <1>1, <1>3 DEF Tame, CallInv, CallOK, InPend
  <2>2. CallInv' /\ \A u \in Task : Kept(u)
    BY <1>0, <1>1, <1>2, <1>3, <2>1, MoveKept DEF Outside
  <2>3. \A u \in Task : pc'[u] \in {"wake", "abort"} => pc'[u] = pc[u]
    BY <1>0, <1>2, <1>3
  <2> QED
    BY <1>0, <2>2, <2>3 DEF CallsKept
<1>4. CASE pc[t] # "sched"
  <2>1. pc[t] = "ret" => os.TaskState[t] = "RDY"
    BY <1>0 DEF KInv, RunningIsReady
  <2>2. CallInv' /\ \A u \in Task : Kept(u)
    BY <1>0, <1>1, <1>2, <1>4, <2>1, ReturnKept DEF Outside
  <2>3. \A u \in Task : pc'[u] \in {"wake", "abort"} => pc'[u] = pc[u]
    BY <1>0, <1>2, <1>4
  <2> QED
    BY <1>0, <2>2, <2>3 DEF CallsKept
<1> QED
  BY <1>2, <1>3, <1>4

\* OSTaskSemPendAbort.
LEMMA AbortCallsKept ==
  ASSUME KInv, PendOK(os), PendOK(os'), AbortSafe, CallInv, NEW t,
         (\E c : OSTaskSemPendAbort(t, c)) \/ \E opt : OSTaskSemPendAbort2(t, opt)
  PROVE  CallsKept
<1>0. OsInv(os, Creating) /\ KTypeOK /\ os \in KState /\ pc \in [Task -> PC]
  BY DEF KInv, OsInv, KTypeOK
<1>1. ASSUME NEW c, OSTaskSemPendAbort(t, c)
      PROVE  CallsKept
  <2>1. /\ t \in Task /\ t = cur /\ pc[t] = "app" /\ os' = os /\ "semabort" \in Calls[t]
        /\ pc' = [pc EXCEPT ![t] = "abort"] /\ arg' = [arg EXCEPT ![t] = c]
    BY <1>1, CallLemma DEF OSTaskSemPendAbort, Goto, Call
  <2>2. \A u \in Task : Tame(os, os', u)
    BY <2>1, QuietTame DEF SameCtrs
  <2>3. CallInv' /\ \A u \in Task : Kept(u)
    BY <1>0, <2>1, <2>2, AbortKept
  <2>4. \A u \in Task : pc'[u] = "wake" => pc[u] = "wake"
    BY <1>0, <2>1
  <2> QED
    BY <2>1, <2>3, <2>4 DEF CallsKept
<1>2. ASSUME NEW opt, OSTaskSemPendAbort2(t, opt)
      PROVE  CallsKept
  <2>1. PICK l : /\ t \in Task /\ t = cur /\ pc[t] = "abort" /\ l \in {"app", "sched"}
                 /\ os' = EndWait(os, NoObj, arg[t], NoMsg, "ABORT")
                 /\ pc' = [pc EXCEPT ![t] = l] /\ arg' = [arg EXCEPT ![t] = NoTask]
    BY <1>0, <1>2 DEF OSTaskSemPendAbort2, OS_PendAbort, Goto, KTypeOK, cur
  <2>2. arg[t] \in Task /\ os.PendData[arg[t]] = {}
    BY <1>0, <2>1 DEF KTypeOK, AppTask, AbortSafe
  <2>3. \A u \in Task : Tame(os, os', u)
    <3>1. CASE os.TaskState[arg[t]] \in Pending
      <4>1. NoMsg \in Msg \cup {NoMsg} /\ "ABORT" \in StatusSet
        BY DEF StatusSet
      <4>2. Ends(os, os', arg[t], "ABORT")
        BY <1>0, <2>1, <2>2, <3>1, <4>1, EndWaitEnds
      <4> QED
        BY <1>0, <2>2, <4>2, EndsTame
    <3>2. CASE os.TaskState[arg[t]] \notin Pending
      <4>1. os' = os
        BY <2>1, <3>2 DEF EndWait, Pending
      <4> QED
        BY <4>1, QuietTame DEF SameCtrs
    <3> QED
      BY <3>1, <3>2
  <2>4. CallInv' /\ \A u \in Task : Kept(u)
    BY <1>0, <2>1, <2>3, AbortKept DEF Outside
  <2>5. \A u \in Task : pc'[u] \in {"wake", "abort"} => pc'[u] = pc[u]
    BY <1>0, <2>1
  <2> QED
    BY <2>1, <2>4, <2>5 DEF CallsKept
<1> QED
  BY <1>1, <1>2

\* Before OSStart every task is outside of all calls.
LEMMA StartKept ==
  ASSUME KInv, KInv', PendOK(os), PendOK(os'), CallInv, Boot \/ OSStart
  PROVE  CallsKept
<1>1. ~os.OSRunning /\ pc' = pc /\ arg' = arg /\ \A u \in Task : pc[u] = "app"
  BY DEF Boot, OSStart, KInv, BootInv
<1>2. Calm(os, os') /\ os \in KState /\ os' \in KState
  BY StartChange DEF KInv, KTypeOK
<1>3. \A u \in Task : os'.TaskState[u] \notin Pending
  BY <1>1, <1>2, CalmShrinks DEF CallInv, CallOK, InPend
<1>4. CallInv' /\ \A u \in Task : Kept(u)
  BY <1>1, <1>3, StayKept
<1> QED
  BY <1>1, <1>4 DEF CallsKept

\* The tick interrupt signals two tasks at most.
LEMMA TickISRKept ==
  ASSUME KInv, PendOK(os), PendOK(os'), CallInv, TickISR
  PROVE  CallsKept
<1> DEFINE C == Creating
           a == OS_TaskSemPost(os, TickTask)
           b == OS_SchedRoundRobin(a)
           o == OSTimeTick(os)
<1>0. OsInv(os, C) /\ os \in KState /\ TickTask \in Task
  BY CoreAssumption DEF KInv, OsInv
<1>1. /\ OsInv(a, C) /\ \A u \in Task : Tame(os, a, u)
      /\ PendOK(a)
  <2>1. OsInv(a, C) /\ (a = os \/ Ends(os, a, TickTask, "OK") \/ Counts(os, a, TickTask))
    BY <1>0, TaskSemPostLemma, TaskSemPostChanges
  <2>2. \A u \in Task : Tame(os, a, u)
    BY <1>0, TaskSemPostTame
  <2> HIDE DEF a
  <2>3. Change(os, a) /\ a \in KState
    BY <1>0, <2>1, SameQuiet DEF Change, Calm, StatusSet, OsInv
  <2> QED
    BY <1>0, <2>1, <2>2, <2>3, ChangePendOK
<1>2. OsInv(b, C) /\ Quiet(a, b) /\ PendOK(b)
  <2>1. a \in KState /\ Rdy(a, Ready(a) \ C)
    BY <1>1 DEF OsInv
  <2> HIDE DEF a
  <2>2. b \in KState /\ Rdy(b, Ready(a) \ C) /\ SameTasks(a, b)
    BY <2>1, SchedRoundRobinLemma
  <2>3. Quiet(a, b)
    BY <2>1, SchedRoundRobinQuiet
  <2> HIDE DEF b
  <2>4. PendOK(b)
    BY <1>1, <2>1, <2>2, <2>3, ChangePendOK DEF Change, Calm
  <2> QED
    BY <1>1, <2>2, <2>3, <2>4, SameTasksInv
<1>3. \A u \in Task : Tame(os, b, u)
  <2> HIDE DEF a, b
  <2> QED
    BY <1>1, <1>2, QuietTame, TameTransitive DEF Quiet
<1>4. o = b \/ (TmrTask \in Task /\ o = OS_TaskSemPost(b, TmrTask))
  BY KernelAssumption DEF OSTimeTick
<1>5. o \in KState /\ \A u \in Task : Tame(b, o, u)
  <2> HIDE DEF b, o
  <2>1. CASE o = b
    BY <1>2, <2>1, QuietTame DEF SameCtrs, OsInv
  <2>2. CASE TmrTask \in Task /\ o = OS_TaskSemPost(b, TmrTask)
    BY <1>2, <2>2, TaskSemPostLemma, TaskSemPostTame DEF OsInv
  <2> QED
    BY <1>4, <2>1, <2>2
<1>6. os' = Reschedule(o) /\ pc' = pc /\ arg' = arg /\ ~IntDisabled
  BY DEF TickISR
<1> HIDE DEF o, b
<1>7. \A u \in Task : Tame(o, os', u)
  <2>1. Quiet(o, os')
    BY <1>5, <1>6, RescheduleQuiet
  <2> QED
    BY <2>1, QuietTame DEF Quiet
<1>8. \A u \in Task : Tame(os, os', u)
  BY <1>3, <1>5, <1>7, TameTransitive
<1>9. CallInv' /\ \A u \in Task : Kept(u)
  BY <1>6, <1>8, StayKept
<1> QED
  BY <1>6, <1>9 DEF CallsKept, IntDisabled

\* The tick task counts a tick and ends the waits whose tick has come, with a
\* timeout.
LEMMA TickStepKept ==
  ASSUME KInv, PendOK(os), PendOK(os'), CallInv, TickStep
  PROVE  CallsKept
<1>0. /\ OsInv(os, Creating) /\ os \in KState /\ KTypeOK /\ TickTask \in Task /\ pc \in [Task -> PC]
      /\ os.OSRunning /\ cur \in Task /\ pc[cur] \in {"update", "spoke"} /\ arg' = arg
  BY CoreAssumption DEF KInv, OsInv, KTypeOK, TickStep, OS_TickListUpdate, TickListUpdateLoop, cur
<1>1. \A u \in Task : Tame(os, os', u)
  <2>1. CASE OS_TickListUpdate
    <3>1. os' = [os EXCEPT !.OSTickCtr = (os.OSTickCtr + 1) % TickMod]
      BY <2>1 DEF OS_TickListUpdate
    <3>2. os'.TaskState = os.TaskState /\ SameCtrs(os, os')
      BY <1>0, <3>1 DEF SameCtrs, KState
    <3> QED
      BY <3>2, QuietTame
  <2>2. CASE TickListUpdateLoop
    <3>1. os' = os \/ (tickPtr \in Task /\ os' = Expire(os, tickPtr))
      BY <1>0, <2>2 DEF TickListUpdateLoop, KTypeOK
    <3>2. CASE os' = os
      BY <3>2, QuietTame DEF SameCtrs
    <3>3. CASE tickPtr \in Task /\ os' = Expire(os, tickPtr)
      <4>1. CASE os.TaskState[tickPtr] \in Timed
        <5>1. PICK st \in StatusSet : /\ Ends(os, os', tickPtr, st)
                                      /\ os.TaskState[tickPtr] \in Pending => st = "TIMEOUT"
          BY <1>0, <3>3, <4>1, ExpireEnds
        <5> QED
          BY <1>0, <3>3, <5>1, EndsTame
      <4>2. CASE os.TaskState[tickPtr] \notin Timed
        <5>1. os' = os
          BY <3>3, <4>2 DEF Expire, Timed
        <5> QED
          BY <5>1, QuietTame DEF SameCtrs
      <4> QED
        BY <4>1, <4>2
    <3> QED
      BY <3>1, <3>2, <3>3
  <2> QED
    BY <2>1, <2>2 DEF TickStep
<1>2. \/ pc' = pc
      \/ \E l \in {"app", "spoke"} : pc' = [pc EXCEPT ![cur] = l]
  BY DEF TickStep, OS_TickListUpdate, TickListUpdateLoop, Goto
<1>3. CASE pc' = pc
  <2>1. CallInv' /\ \A u \in Task : Kept(u)
    BY <1>0, <1>1, <1>3, StayKept
  <2> QED
    BY <1>0, <1>3, <2>1 DEF CallsKept
<1>4. CASE \E l \in {"app", "spoke"} : pc' = [pc EXCEPT ![cur] = l]
  <2>1. PICK l \in {"app", "spoke"}, t \in Task : t = cur /\ pc' = [pc EXCEPT ![t] = l]
    BY <1>0, <1>4
  <2>2. os'.TaskState[t] \notin Pending
    BY <1>0, <1>1, <2>1 DEF CallInv, CallOK, Tame, InPend
  <2>3. CallInv' /\ \A u \in Task : Kept(u)
    BY <1>0, <1>1, <2>1, <2>2, MoveKept DEF Outside
  <2>4. \A u \in Task : pc'[u] \in {"wake", "abort"} => pc'[u] = pc[u]
    BY <1>0, <2>1
  <2> QED
    BY <1>0, <2>3, <2>4 DEF CallsKept
<1> QED
  BY <1>2, <1>3, <1>4

\* Every step of the kernel.
LEMMA KNextKept ==
  ASSUME Hazard = {}, KInv, KInv', PendOK(os), PendOK(os'), AbortSafe, CallInv, KNext
  PROVE  CallsKept
<1>1. CASE Boot \/ OSStart
  BY <1>1, StartKept
<1>2. CASE TickISR
  BY <1>2, TickISRKept
<1>3. CASE TickStep
  BY <1>3, TickStepKept
<1>4. ASSUME NEW t \in Task, TaskStep(t)
      PROVE  CallsKept
  <2>1. CASE (\E c \in Task : OSTaskCreate(t, c)) \/ OSTaskCreateLink(t)
    BY <2>1, CreateCallKept
  <2>2. CASE \/ \E c \in Task : OSTaskDel(t, c) \/ OSTaskSuspend(t, c) \/ OSTaskResume(t, c)
             \/ \E c \in Task, p \in NewPrios, self \in BOOLEAN : OSTaskChangePrio(t, c, p, self)
             \/ \E c \in Task, opt \in PostOpts : OSTaskSemPost(t, c, opt)
    BY <2>2, TaskCallsKept
  <2>3. CASE OSSched(t) \/ PendReturn(t)
    BY <2>3, ReturnsKept
  <2>4. CASE \/ OSSchedLock(t) \/ OSSchedUnlock(t) \/ OSSchedRoundRobinYield(t)
             \/ \E en \in BOOLEAN, q \in Quanta : OSSchedRoundRobinCfg(t, en, q)
             \/ \E c \in Task, q \in Quanta : OSTaskTimeQuantaSet(t, c, q)
             \/ \E d \in Delays : OSTimeSet(t, d)
             \/ \E c \in Task, n \in 0 .. SemMax : OSTaskSemSet(t, c, n)
    BY <2>4, QuietCallsKept
  <2>5. CASE \E d \in Delays, opt \in DlyOpts : OSTimeDly(t, d, opt)
    BY <2>5, DlyKept
  <2>6. CASE \E d \in Timeouts \cup {0}, block \in BOOLEAN : OSTaskSemPend(t, d, block)
    BY <2>6, SemPendKept
  <2>7. CASE (\E c \in Task : OSTaskSemPendAbort(t, c)) \/ \E opt \in PostOpts : OSTaskSemPendAbort2(t, opt)
    BY <2>7, AbortCallsKept
  <2> QED
    BY <1>4, <2>1, <2>2, <2>3, <2>4, <2>5, <2>6, <2>7 DEF TaskStep
<1> QED
  BY <1>1, <1>2, <1>3, <1>4 DEF KNext
-----------------------------------------------------------------------------
(* The steps of the services of other components. *)

\* The running task goes on, or returns, and blocks nobody.
LEMMA ServiceStep ==
  ASSUME KInv, os.OSRunning, NEW t, t = cur, pc[t] \in {"app", "ret", "wake"},
         OsInv(os', Creating), Eases(os, os'), NEW l \in PC \ {"create", "abort"},
         pc' = [pc EXCEPT ![t] = l],
         arg' = arg \/ (\E a \in Task \cup Obj \cup {NoTask, NoObj} : arg' = [arg EXCEPT ![t] = a]),
         tickPtr' = tickPtr, tmrCtr' = tmrCtr, boot' = boot
  PROVE  KInv'
<1>1. /\ t \in Task /\ pc \in [Task -> PC]
      /\ arg \in [Task -> Task \cup Obj \cup {NoTask, NoObj}]
  BY DEF KInv, KTypeOK, cur
<1>2. cur \in Ready(os) \ Creating
  BY <1>1 DEF KInv, RunningIsReady, Ready
<1>3. /\ os'.OSRunning /\ os'.TaskState[IdleTask] = "RDY" /\ os'.OSTCBCurPtr = cur
      /\ os'.OSTCBCurPtr \in Ready(os') \ Creating
      /\ \A u \in Task : pc[u] = "create" => os'.TaskState[u] # "DEL"
  <2>1. os.TaskState[IdleTask] = "RDY" /\ os.TaskState[cur] = "RDY" /\ IdleTask \in Task
    BY <1>2, CoreAssumption DEF KInv, BootInv, Ready
  <2> QED
    BY <1>1, <1>2, <2>1 DEF Eases, Ready, cur, KInv, CreateInv
<1>4. /\ pc' \in [Task -> PC]
      /\ \A u \in Task : pc'[u] = "create" <=> pc[u] = "create"
      /\ \A u \in Task : pc'[u] = "abort" => pc[u] = "abort" /\ u # t
      /\ \A u \in Task \ {t} : arg'[u] = arg[u]
  BY <1>1
<1>5. /\ arg' \in [Task -> Task \cup Obj \cup {NoTask, NoObj}]
      /\ \A u \in Task : pc[u] = "create" => arg'[u] = arg[u]
  <2>1. CASE arg' = arg
    BY <1>1, <2>1
  <2>2. ASSUME NEW a \in Task \cup Obj \cup {NoTask, NoObj}, arg' = [arg EXCEPT ![t] = a]
        PROVE  arg' \in [Task -> Task \cup Obj \cup {NoTask, NoObj}]
    BY <1>1, <2>2
  <2>3. \A u \in Task : pc[u] = "create" => u # t
    OBVIOUS
  <2> QED
    BY <1>4, <2>1, <2>2, <2>3
<1>6. \A u \in Task : pc'[u] = "abort" => arg'[u] \in AppTask
  BY <1>4 DEF KInv, KTypeOK
<1>7. tickPtr' \in Task \cup {NoTask} /\ tmrCtr' \in 1 .. TmrUpdateCnt
  BY DEF KInv, KTypeOK
<1>8. os'.OSTCBCurPtr \in Task
  BY <1>3 DEF Ready
<1> QED
  BY <1>3, <1>4, <1>5, <1>6, <1>7, <1>8, FrameLemma

\* A null step eases.
LEMMA SameEases == ASSUME NEW o PROVE Eases(o, o)
BY DEF Eases

\* A task goes on outside of the calls that wait, while others may be woken.
LEMMA ServiceCalls ==
  ASSUME KTypeOK, PendOK(os), PendOK(os'), CallInv, NEW t \in Task, pc[t] \notin {"create", "abort"},
         NEW l \in Outside, pc' = [pc EXCEPT ![t] = l],
         \/ arg' = arg /\ pc[t] \in Outside
         \/ arg' = [arg EXCEPT ![t] = NoTask],
         os'.TaskState[t] \notin Pending,
         \A u \in Task \ {t} : /\ os'.TaskState[u] \in Pending => os.TaskState[u] \in Pending
                               /\ os'.TaskState[u] \in Delayed => os.TaskState[u] \in Delayed
                               /\ os'.PendOn[u] = "TASK_SEM" => os.PendOn[u] = "TASK_SEM"
  PROVE  CallInv' /\ Creating' = Creating
<1>1. pc \in [Task -> PC] /\ arg \in [Task -> Task \cup Obj \cup {NoTask, NoObj}]
  BY DEF KTypeOK
<1>2. /\ pc'[t] = l /\ arg'[t] = NoTask
      /\ \A u \in Task \ {t} : pc'[u] = pc[u] /\ arg'[u] = arg[u]
  BY <1>1 DEF CallInv, CallOK
<1>3. CallOK(t)'
  BY <1>2 DEF CallOK, InPend, Outside
<1>4. ASSUME NEW u \in Task \ {t}
      PROVE  CallOK(u)'
  BY <1>2 DEF CallInv, CallOK
<1>5. Creating' = Creating
  BY CreatingFrame DEF Outside
<1> QED
  BY <1>3, <1>4, <1>5 DEF CallInv

\* What the end of a wait does to all tasks.
LEMMA EndsStates ==
  ASSUME NEW o \in KState, NEW o2, NEW h \in Task, NEW st, Ends(o, o2, h, st)
  PROVE  /\ o2.TaskState[h] \in {"RDY", "SUSPENDED"} /\ o2.PendOn[h] = "NOTHING" /\ o2.PendStatus[h] = st
         /\ \A u \in Task \ {h} : /\ o2.TaskState[u] = o.TaskState[u] /\ o2.PendOn[u] = o.PendOn[u]
                                  /\ o2.PendStatus[u] = o.PendStatus[u]
<1>1. /\ o.TaskState \in [Task -> State] /\ o.PendOn \in [Task -> PendOnSet]
      /\ o.PendStatus \in [Task -> StatusSet]
  BY DEF KState
<1> QED
  BY <1>1 DEF Ends
-----------------------------------------------------------------------------
(* The calls of a component that waits for objects of its own. *)

\* Tasks wait for their own semaphore or, in one of the ways On, for one object of
\* S, the one their call is about.
ObjWaits(On, S) ==
  \A t \in Task : /\ os.PendOn[t] \in {"NOTHING", "TASK_SEM"} \cup On
                  /\ \A s \in os.PendData[t] : s \in S /\ arg[t] = s

\* What holds of the kernel and of its waits.  The waiters for event flags may lose
\* the order of their priorities.
ObjInv(On, S) == /\ KInv /\ PendOK(os) /\ CallInv /\ ObjWaits(On, S)
                 /\ "FLAG" \notin On => WaitSorted(os)
                 /\ \A t \in Task : pc[t] # "abort"

\* A component's ways to wait and its objects; NoTask stands for no call.
ObjKind(On, S) == /\ On \subseteq PendOnSet \ {"NOTHING", "TASK_SEM"}
                  /\ S \subseteq Obj /\ NoTask \notin S

\* A pend list has an entry when a task has it in its pend data.
LEMMA ListHasWaiter ==
  ASSUME NEW o \in KState, PendOK(o), NEW s \in Obj
  PROVE  /\ Range(o.PendList[s]) = {u \in Task : s \in o.PendData[u]}
         /\ o.PendList[s] # <<>> <=> \E u \in Task : s \in o.PendData[u]
<1> DEFINE S == {u \in Task : s \in o.PendData[u]}
<1> SUFFICES Range(o.PendList[s]) = S /\ (o.PendList[s] # <<>> <=> S # {})
  OBVIOUS
<1>1. o.PendList[s] \in Seq(Task) /\ IsList(o.PendList[s], S)
  BY DEF KState, PendOK
<1> HIDE DEF S
<1>2. Range(o.PendList[s]) = S
  BY <1>1 DEF IsList
<1>3. ASSUME NEW q \in Seq(Task) PROVE q # <<>> <=> Range(q) # {}
  <2>1. q # <<>> => 1 \in DOMAIN q
    OBVIOUS
  <2>2. q = <<>> => DOMAIN q = {}
    OBVIOUS
  <2> QED
    BY <2>1, <2>2 DEF Range
<1> QED
  BY <1>1, <1>2, <1>3

\* The head of a pend list in order is a waiter of the highest priority.
LEMMA HeadIsHighest ==
  ASSUME NEW o \in KState, PendOK(o), WaitSorted(o), NEW s \in Obj, o.PendList[s] # <<>>
  PROVE  \E h \in Task : /\ h = Head(o.PendList[s]) /\ h = o.PendList[s][1] /\ s \in o.PendData[h]
                         /\ \A u \in Task : s \in o.PendData[u] => o.Prio[h] <= o.Prio[u]
<1>1. PICK q : q = o.PendList[s]
  OBVIOUS
<1>2. q \in Seq(Task) /\ Len(q) > 0 /\ o.Prio \in [Task -> Int] /\ Sorted(q, o.Prio)
  BY <1>1, PrioTypes DEF WaitSorted
<1>3. Range(q) = {u \in Task : s \in o.PendData[u]}
  BY <1>1, ListHasWaiter
<1>4. 1 \in DOMAIN q /\ q[1] \in Task /\ q[1] = Head(q)
  BY <1>2
<1>5. q[1] \in Range(q)
  BY <1>4 DEF Range
<1>6. ASSUME NEW i \in DOMAIN q PROVE o.Prio[q[1]] <= o.Prio[q[i]]
  <2>1. q[i] \in Task /\ i \in Nat /\ i >= 1
    BY <1>2
  <2>2. CASE i = 1
    BY <1>2, <1>4, <2>2
  <2>3. CASE i > 1
    BY <1>2, <1>4, <2>3 DEF Sorted
  <2> QED
    BY <2>1, <2>2, <2>3
<1>7. \A u \in Task : s \in o.PendData[u] => o.Prio[q[1]] <= o.Prio[u]
  BY <1>3, <1>6 DEF Range
<1> QED
  BY <1>1, <1>3, <1>4, <1>5, <1>7

\* A waiter for an object is inside a call.
LEMMA ObjWaiter ==
  ASSUME NEW On, NEW S, ObjKind(On, S), ObjInv(On, S), NEW u \in Task, NEW s \in os.PendData[u]
  PROVE  /\ s \in S /\ arg[u] = s /\ InCall(u) /\ os.TaskState[u] \in Pending
         /\ os.PendOn[u] \in On
<1>1. s \in S /\ arg[u] = s /\ os.TaskState[u] \in Pending
  BY DEF ObjInv, ObjWaits, PendOK
<1>2. arg[u] # NoTask
  BY <1>1 DEF ObjKind
<1>3. os.TaskState[u] # "DEL" /\ u \notin Creating
  BY <1>1 DEF Pending, ObjInv, KInv, OsInv, Ready
<1>4. os.PendOn[u] \in On
  BY <1>1 DEF ObjInv, ObjWaits, PendOK
<1> QED
  BY <1>1, <1>2, <1>3, <1>4 DEF InCall, ObjInv, CallInv, CallOK

\* A step of the kernel makes no task wait for an object.
LEMMA KernelShrinks ==
  ASSUME os \in KState, os' \in KState, PendOK(os),
         \/ (\E b \in KState : Calm(os, b) /\ Calm(b, os')) /\ Places
         \/ Ticks(os, os') /\ Places
         \/ \E t \in Task : Begins(t),
         NEW u \in Task
  PROVE  /\ os'.PendData[u] \subseteq os.PendData[u]
         /\ os'.PendOn[u] \in {os.PendOn[u], "NOTHING", "TASK_SEM"}
         /\ os'.PendData[u] = os.PendData[u] \/ os'.PendOn[u] = "NOTHING"
<1>1. CASE \E b \in KState : Calm(os, b) /\ Calm(b, os')
  <2>1. PICK b \in KState : Calm(os, b) /\ Calm(b, os')
    BY <1>1
  <2> QED
    BY <2>1, CalmShrinks
<1>2. CASE Ticks(os, os')
  BY <1>2 DEF Ticks, SamePend, SameCtrs
<1>3. ASSUME NEW t \in Task, Begins(t)
      PROVE  /\ os'.PendData[u] \subseteq os.PendData[u]
             /\ os'.PendOn[u] \in {os.PendOn[u], "NOTHING", "TASK_SEM"}
             /\ os'.PendData[u] = os.PendData[u] \/ os'.PendOn[u] = "NOTHING"
  <2>1. os.PendData \in [Task -> SUBSET Obj] /\ os.PendOn \in [Task -> PendOnSet]
    BY DEF KState
  <2>2. u # t => os'.PendData[u] = os.PendData[u] /\ os'.PendOn[u] = os.PendOn[u]
    BY <1>3, <2>1 DEF Begins, Waits, Blocks
  <2>3. os.TaskState[t] = "RDY"
    BY <1>3 DEF Begins, Waits, Blocks
  <2>4. os.PendData[t] = {}
    BY <2>3 DEF PendOK, Pending
  <2> QED
    BY <1>3, <2>2, <2>4 DEF Begins
<1> QED
  BY <1>1, <1>2, <1>3

\* Every step of the kernel, also the tick interrupt, keeps the waits in order and
\* leaves the calls of the component alone.
LEMMA ObjKernel ==
  ASSUME NEW On, NEW S, ObjKind(On, S), Hazard = {}, \A t \in Task : "semabort" \notin Calls[t],
         ObjInv(On, S), KNext
  PROVE  /\ ObjInv(On, S)' /\ CallsKept
         /\ \A u \in Task : /\ os'.PendData[u] \subseteq os.PendData[u]
                            /\ os'.PendOn[u] \in {os.PendOn[u], "NOTHING", "TASK_SEM"}
                            /\ os'.PendData[u] = os.PendData[u] \/ os'.PendOn[u] = "NOTHING"
<1>1. KInv /\ KInv' /\ PendOK(os) /\ CallInv /\ os \in KState /\ os' \in KState
  BY KInvInductive DEF ObjInv, KInv, KTypeOK
<1>2. AbortSafe
  BY DEF AbortSafe, ObjInv
<1>3. \/ (\E b \in KState : Calm(os, b) /\ Calm(b, os')) /\ Places
      \/ Ticks(os, os') /\ Places
      \/ \E t \in Task : Begins(t)
  BY <1>1, <1>2, KNextChange
<1>4. "FLAG" \notin On => \A t \in Task : os.PendOn[t] # "FLAG"
  BY DEF ObjInv, ObjWaits
<1>5. PendOK(os') /\ ("FLAG" \notin On => WaitSorted(os'))
  BY <1>1, <1>3, <1>4, WaitStep DEF Begins, ObjInv
<1>6. CallsKept
  BY <1>1, <1>2, <1>5, KNextKept
<1>7. \A u \in Task : /\ os'.PendData[u] \subseteq os.PendData[u]
                      /\ os'.PendOn[u] \in {os.PendOn[u], "NOTHING", "TASK_SEM"}
                      /\ os'.PendData[u] = os.PendData[u] \/ os'.PendOn[u] = "NOTHING"
  BY <1>1, <1>3, KernelShrinks
<1>8. ObjWaits(On, S)'
  <2> SUFFICES ASSUME NEW u \in Task
               PROVE  /\ os'.PendOn[u] \in {"NOTHING", "TASK_SEM"} \cup On
                      /\ \A s \in os'.PendData[u] : s \in S /\ arg'[u] = s
    BY DEF ObjWaits
  <2>1. os'.PendOn[u] \in {"NOTHING", "TASK_SEM"} \cup On
    BY <1>7 DEF ObjInv, ObjWaits
  <2>2. ASSUME NEW s \in os'.PendData[u]
        PROVE  s \in S /\ arg'[u] = s
    <3>1. s \in S /\ arg[u] = s /\ InCall(u)
      BY <1>7, ObjWaiter
    <3>2. os'.TaskState[u] # "DEL"
      BY <1>5 DEF PendOK, Pending
    <3> QED
      BY <1>6, <3>1, <3>2 DEF CallsKept, Kept
  <2> QED
    BY <2>1, <2>2
<1>9. \A t \in Task : pc'[t] # "abort"
  BY <1>6 DEF CallsKept, ObjInv
<1> QED
  BY <1>1, <1>5, <1>6, <1>7, <1>8, <1>9 DEF ObjInv, CallsKept

\* The running task is ready: it waits for nothing.
LEMMA ObjRunner ==
  ASSUME NEW On, NEW S, ObjInv(On, S), os.OSRunning, NEW t, t = cur, pc[t] \notin {"sched", "pend"}
  PROVE  /\ t \in Task /\ t \notin Creating /\ os.TaskState[t] = "RDY"
         /\ os.PendData[t] = {} /\ os.PendOn[t] = "NOTHING"
<1>1. t \in Task /\ os.TaskState[t] = "RDY" /\ t \notin Creating
  BY DEF ObjInv, KInv, KTypeOK, RunningIsReady, Ready, cur
<1> QED
  BY <1>1 DEF ObjInv, PendOK, Pending

\* A step of a service that leaves the kernel data alone.
LEMMA ObjStay ==
  ASSUME NEW On, NEW S, ObjInv(On, S), os.OSRunning, NEW t, t = cur, pc[t] \in {"app", "wake", "ret"},
         os' = os, NEW l \in {"app", "sched", "wake"}, pc' = [pc EXCEPT ![t] = l],
         \/ arg' = arg /\ pc[t] # "ret"
         \/ arg' = [arg EXCEPT ![t] = NoTask],
         tickPtr' = tickPtr, tmrCtr' = tmrCtr, boot' = boot
  PROVE  ObjInv(On, S)' /\ Creating' = Creating
<1>1. /\ t \in Task /\ os.TaskState[t] = "RDY" /\ os.PendData[t] = {}
  BY ObjRunner
<1>2. /\ KInv /\ KTypeOK /\ PendOK(os) /\ CallInv /\ OsInv(os, Creating)
      /\ PendOK(os') /\ ("FLAG" \notin On => WaitSorted(os')) /\ OsInv(os', Creating)
  BY DEF ObjInv, KInv
<1>3. KInv'
  <2>1. Eases(os, os')
    BY SameEases
  <2>2. l \in PC \ {"create", "abort"}
    BY DEF PC
  <2>3. arg' = arg \/ \E a \in Task \cup Obj \cup {NoTask, NoObj} : arg' = [arg EXCEPT ![t] = a]
    OBVIOUS
  <2> QED
    BY <1>2, <2>1, <2>2, <2>3, ServiceStep
<1>4. CallInv' /\ Creating' = Creating
  <2>1. l \in Outside /\ pc[t] \notin {"create", "abort"} /\ (pc[t] # "ret" => pc[t] \in Outside)
    BY DEF Outside
  <2>2. os'.TaskState[t] \notin Pending
    BY <1>1 DEF Pending
  <2>3. \/ arg' = arg /\ pc[t] \in Outside
        \/ arg' = [arg EXCEPT ![t] = NoTask]
    BY <2>1
  <2>4. \A u \in Task \ {t} : /\ os'.TaskState[u] \in Pending => os.TaskState[u] \in Pending
                              /\ os'.TaskState[u] \in Delayed => os.TaskState[u] \in Delayed
                              /\ os'.PendOn[u] = "TASK_SEM" => os.PendOn[u] = "TASK_SEM"
    OBVIOUS
  <2> QED
    BY <1>1, <1>2, <2>1, <2>2, <2>3, <2>4, ServiceCalls
<1>5. pc \in [Task -> PC] /\ arg \in [Task -> Task \cup Obj \cup {NoTask, NoObj}]
  BY <1>2 DEF KTypeOK
<1>6. ObjWaits(On, S)'
  <2>1. \A u \in Task \ {t} : arg'[u] = arg[u]
    BY <1>5
  <2> QED
    BY <1>1, <2>1 DEF ObjInv, ObjWaits
<1>7. \A u \in Task : pc'[u] # "abort"
  BY <1>5 DEF ObjInv
<1> QED
  BY <1>2, <1>3, <1>4, <1>6, <1>7 DEF ObjInv

\* Kernel data o2 differ from o in priorities and in the order of lists only.
Like(o, o2) ==
  /\ o2.TaskState = o.TaskState /\ SameCtrs(o, o2) /\ o2.PendData = o.PendData
  /\ o2.OSTCBCurPtr = o.OSTCBCurPtr /\ o2.OSRunning = o.OSRunning
  /\ o2.OSSchedLockNestingCtr = o.OSSchedLockNestingCtr

\* Kernel data o are in order as far as the waits are concerned.
Fit(On, o) == OsInv(o, Creating) /\ PendOK(o) /\ ("FLAG" \notin On => WaitSorted(o))

\* Unchanged kernel data are.
LEMMA SameLike ==
  ASSUME NEW On, NEW S, ObjInv(On, S)
  PROVE  Like(os, os) /\ Fit(On, os)
BY DEF Like, SameCtrs, Fit, ObjInv, KInv

\* The invariant holds of the kernel's initial state.
LEMMA ObjInit ==
  ASSUME NEW On, NEW S, KInit
  PROVE  ObjInv(On, S) /\ \A t \in Task : os.PendData[t] = {} /\ ~InCall(t)
<1>1. KInv
  BY InitLemma
<1>2. os = OSInit /\ pc = [t \in Task |-> "app"] /\ arg = [t \in Task |-> NoTask]
  BY DEF KInit
<1>3. PendOK(os) /\ WaitSorted(os) /\ \A t \in Task : os.PendData[t] = {} /\ os.PendOn[t] = "NOTHING"
  BY <1>2, InitWait
<1>4. CallInv
  BY <1>2, <1>3 DEF CallInv, CallOK, InPend, Outside, PendOK
<1> QED
  BY <1>1, <1>2, <1>3, <1>4 DEF ObjInv, ObjWaits, InCall, InPend

\* A step of nobody keeps it.
LEMMA ObjStutter ==
  ASSUME NEW On, NEW S, Hazard = {}, ObjInv(On, S), UNCHANGED kvars
  PROVE  ObjInv(On, S)'
<1>1. KInv'
  BY KInvInductive DEF ObjInv
<1>2. os' = os /\ pc' = pc /\ arg' = arg
  BY DEF kvars
<1> QED
  BY <1>1, <1>2 DEF ObjInv, ObjWaits, CallInv, CallOK

\* A service stops the running task until its wait ends: for an object or, with
\* "TASK_Q", for the queue in its own TCB; the call is about the object or the task.
LEMMA ObjWait ==
  ASSUME NEW On, NEW S, ObjKind(On, S), ObjInv(On, S), NEW o, Like(os, o), Fit(On, o),
         NEW on \in On, NEW t, NEW s, NEW a, NEW d \in Timeouts \cup {0},
         IF on = "TASK_Q" THEN s = NoObj /\ a = t ELSE s \in S /\ a = s, NEW svc, Call(t, svc), os.OSSchedLockNestingCtr = 0, os' = OS_Pend(o, t, s, on, d),
         Goto(t, "pend"), arg' = [arg EXCEPT ![t] = a],
         tickPtr' = tickPtr, tmrCtr' = tmrCtr, boot' = boot
  PROVE  ObjInv(On, S)' /\ Creating' = Creating /\ Blocks(o, os', t, s, on, d)
<1>1. /\ t \in Task /\ t = cur /\ os.OSRunning /\ pc[t] = "app"
      /\ cur \in Ready(os) \ Creating /\ t # IdleTask
  BY CallLemma DEF ObjInv
<1>2. /\ KInv /\ KTypeOK /\ PendOK(os) /\ CallInv
      /\ pc \in [Task -> PC] /\ arg \in [Task -> Task \cup Obj \cup {NoTask, NoObj}]
      /\ OsInv(o, Creating) /\ o \in KState /\ PendOK(o)
  BY DEF ObjInv, KInv, KTypeOK, Fit, OsInv
<1>3. /\ d \in Tick /\ s \in Obj \cup {NoObj} /\ on \in PendOnSet \ {"NOTHING"} /\ on # "TASK_SEM"
      /\ (on = "TASK_Q" <=> s = NoObj) /\ (s # NoObj => s \in S /\ a = s)
      /\ a # NoTask /\ a \in Task \cup Obj \cup {NoTask, NoObj}
  BY <1>1, KernelAssumption, CoreAssumption DEF Tick, ObjKind
<1>30. d \in Tick /\ s \in Obj \cup {NoObj} /\ on \in PendOnSet
  BY <1>3
<1>4. t \in Ready(o) \ Creating
  BY <1>1 DEF Ready, Like
<1>5. Blocks(o, os', t, s, on, d)
  BY <1>2, <1>4, <1>30, PendBlocks
<1>6. Waits(o, os', t)
  BY <1>3, <1>5 DEF Waits
<1>7. OsInv(os', Creating) /\ \E st \in {"PEND", "PEND_TIMEOUT"} : Moves(o, os', t, st)
  BY <1>2, <1>4, <1>30, PendLemma
<1>8. PICK st \in {"PEND", "PEND_TIMEOUT"} : Moves(o, os', t, st)
  BY <1>7
<1>9. Moves(os, os', t, st)
  BY <1>8 DEF Moves, Like
<1>10. os' \in KState /\ PendOK(os') /\ ("FLAG" \notin On => WaitSorted(os'))
  BY <1>1, <1>2, <1>6, <1>7, WaitsPendOK, WaitsSorted DEF OsInv, Fit
<1>11. Leaves(os', "pend")
  BY <1>1, <1>2, <1>7, <1>9, LeavesMoved
<1>12. pc' = [pc EXCEPT ![t] = "pend"]
  BY DEF Goto
<1>13. /\ pc' \in [Task -> PC] /\ pc'[t] = "pend" /\ arg'[t] = a
       /\ arg' \in [Task -> Task \cup Obj \cup {NoTask, NoObj}]
       /\ \A u \in Task : pc'[u] = "create" <=> pc[u] = "create"
       /\ \A u \in Task : pc'[u] # "abort"
       /\ \A u \in Task \ {t} : arg'[u] = arg[u] /\ pc'[u] = pc[u]
  BY <1>1, <1>2, <1>3, <1>12 DEF PC, ObjInv
<1>14. \A u \in Task : pc[u] = "create" => arg'[u] = arg[u] /\ os'.TaskState[u] # "DEL"
  BY <1>1, <1>11, <1>13 DEF Leaves
<1>15. tickPtr' \in Task \cup {NoTask} /\ tmrCtr' \in 1 .. TmrUpdateCnt
  BY <1>2 DEF KTypeOK
<1>16. /\ os'.OSRunning /\ os'.TaskState[IdleTask] = "RDY" /\ os'.OSTCBCurPtr \in Task
       /\ \/ os'.OSTCBCurPtr \in Ready(os') \ Creating
          \/ pc'[os'.OSTCBCurPtr] \in {"sched", "pend"} /\ os'.OSSchedLockNestingCtr = 0
  BY <1>1, <1>11, <1>13 DEF Leaves
<1>17. KInv'
  BY <1>2, <1>7, <1>13, <1>14, <1>15, <1>16, FrameLemma
<1>18. /\ os'.TaskState[t] \in Pending /\ os'.PendOn[t] = on
       /\ os'.PendData[t] = (IF s = NoObj THEN {} ELSE {s})
       /\ \A u \in Task \ {t} : /\ os'.TaskState[u] = os.TaskState[u] /\ os'.PendOn[u] = os.PendOn[u]
                                /\ os'.PendData[u] = os.PendData[u]
  <2>1. /\ o.TaskState \in [Task -> State] /\ o.PendOn \in [Task -> PendOnSet]
        /\ o.PendData \in [Task -> SUBSET Obj]
    BY <1>2 DEF KState
  <2> DEFINE D  == IF s = NoObj THEN {} ELSE {s}
             st2 == IF d > 0 THEN "PEND_TIMEOUT" ELSE "PEND"
  <2>2. /\ os'.TaskState = [o.TaskState EXCEPT ![t] = st2] /\ os'.PendOn = [o.PendOn EXCEPT ![t] = on]
        /\ os'.PendData = [o.PendData EXCEPT ![t] = D]
    BY <1>5 DEF Blocks
  <2>3. o.TaskState = os.TaskState /\ o.PendOn = os.PendOn /\ o.PendData = os.PendData
    BY DEF Like, SameCtrs
  <2>4. st2 \in Pending
    BY DEF Pending
  <2> HIDE DEF D, st2
  <2>5. /\ os'.TaskState[t] \in Pending /\ os'.PendOn[t] = on /\ os'.PendData[t] = D
        /\ \A u \in Task \ {t} : /\ os'.TaskState[u] = os.TaskState[u] /\ os'.PendOn[u] = os.PendOn[u]
                                 /\ os'.PendData[u] = os.PendData[u]
    BY <1>1, <2>1, <2>2, <2>3, <2>4
  <2> QED
    BY <2>5 DEF D
<1>19. CallInv'
  <2>1. CallOK(t)'
    BY <1>3, <1>13, <1>18 DEF CallOK, InPend, Outside, Delayed
  <2>2. ASSUME NEW u \in Task \ {t} PROVE CallOK(u)'
    BY <1>2, <1>13, <1>18 DEF CallInv, CallOK
  <2> QED
    BY <2>1, <2>2 DEF CallInv
<1>20. Creating' = Creating
  BY <1>1, <1>2, <1>12, CreatingFrame
<1>21. ObjWaits(On, S)'
  BY <1>3, <1>13, <1>18 DEF ObjInv, ObjWaits
<1> QED
  BY <1>5, <1>10, <1>13, <1>17, <1>19, <1>20, <1>21 DEF ObjInv

\* OS_Pend stops the running task, whose service may have changed priorities before.
LEMMA ObjPend ==
  ASSUME NEW On, NEW S, ObjKind(On, S), ObjInv(On, S), NEW o, Like(os, o), Fit(On, o),
         NEW on \in On, on # "TASK_Q", NEW t, NEW s \in S, NEW d \in Timeouts \cup {0},
         NEW svc, Call(t, svc), os.OSSchedLockNestingCtr = 0, os' = OS_Pend(o, t, s, on, d),
         Goto(t, "pend"), arg' = [arg EXCEPT ![t] = s],
         tickPtr' = tickPtr, tmrCtr' = tmrCtr, boot' = boot
  PROVE  ObjInv(On, S)' /\ Creating' = Creating /\ Blocks(o, os', t, s, on, d)
<1>1. IF on = "TASK_Q" THEN s = NoObj /\ s = t ELSE s \in S /\ s = s
  OBVIOUS
<1> QED
  BY <1>1, ObjWait

\* A service that task t runs ends the wait of task h for object s, or for its own
\* queue, with status st, and goes on at l; it may have changed priorities before
\* (OS_Post, OS_PendAbort).
EndsWait(On, o, t, s, h, msg, st, l) ==
  /\ Like(os, o) /\ Fit(On, o) /\ os.OSRunning /\ t = cur /\ pc[t] \in {"app", "wake"}
  /\ h \in Task /\ (s \in os.PendData[h] \/ (s = NoObj /\ os.PendOn[h] = "TASK_Q")) /\ msg \in Msg \cup {NoMsg} /\ st \in StatusSet
  /\ l \in {"app", "sched", "wake"} /\ os' = EndWait(o, s, h, msg, st)
  /\ pc' = [pc EXCEPT ![t] = l] /\ arg' = arg
  /\ tickPtr' = tickPtr /\ tmrCtr' = tmrCtr /\ boot' = boot

\* What became of it.
WaitEnded(o, t, s, h, st) ==
  /\ Creating' = Creating /\ Ends(o, os', h, st) /\ Eases(os, os') /\ h # t
  /\ \A u \in Task : os'.PendData[u] = IF u = h THEN {} ELSE os.PendData[u]
  /\ s # NoObj => os'.PendList[s] = Unlink(o.PendList[s], h)

\* The step keeps the waits in order.
LEMMA ObjEnd ==
  ASSUME NEW On, NEW S, ObjKind(On, S), ObjInv(On, S), NEW o, NEW t, NEW s, NEW h, NEW msg, NEW st, NEW l,
         EndsWait(On, o, t, s, h, msg, st, l)
  PROVE  ObjInv(On, S)' /\ (s # NoObj => s \in S) /\ WaitEnded(o, t, s, h, st)
<1> USE DEF EndsWait
<1>1. /\ KInv /\ KTypeOK /\ PendOK(os) /\ CallInv /\ pc \in [Task -> PC]
      /\ OsInv(o, Creating) /\ o \in KState /\ PendOK(o)
  BY DEF ObjInv, KInv, KTypeOK, Fit, OsInv
<1>2. /\ s # NoObj => s \in S /\ s \in Obj /\ s \in os.PendData[h]
      /\ s = NoObj => os.PendData[h] = {}
      /\ s \in Obj \cup {NoObj} /\ os.TaskState[h] \in Pending
  <2>1. CASE s \in os.PendData[h]
    BY <2>1, ObjWaiter, CoreAssumption DEF ObjKind
  <2>2. CASE s = NoObj /\ os.PendOn[h] = "TASK_Q"
    BY <1>1, <2>2 DEF PendOK
  <2> QED
    BY <2>1, <2>2
<1>3. t \in Task /\ os.TaskState[t] = "RDY"
  BY ObjRunner
<1>4. h # t
  BY <1>2, <1>3 DEF Pending
<1>5. OsInv(os', Creating) /\ Eases(o, os')
  BY <1>1, <1>2, EndWaitLemma
<1>6. Eases(os, os')
  BY <1>5 DEF Eases, Like
<1>7. Ends(o, os', h, st)
  BY <1>1, <1>2, EndWaitEnds DEF Like
<1>8. KInv'
  <2>1. l \in PC \ {"create", "abort"}
    BY DEF PC
  <2> QED
    BY <1>1, <1>5, <1>6, <2>1, ServiceStep
<1>9. os' \in KState
  BY <1>5 DEF OsInv
<1>10. PendOK(os') /\ ("FLAG" \notin On => WaitSorted(os'))
  <2>1. Change(o, os')
    BY <1>7 DEF Calm, Change
  <2>2. "FLAG" \notin On => \A u \in Task : o.PendOn[u] # "FLAG"
    BY DEF ObjInv, ObjWaits, Like, SameCtrs
  <2> QED
    BY <1>1, <1>9, <2>1, <2>2, ChangePendOK, ChangeSorted DEF Fit
<1>11. /\ os'.TaskState[h] \in {"RDY", "SUSPENDED"} /\ os'.PendOn[h] = "NOTHING"
       /\ \A u \in Task \ {h} : os'.TaskState[u] = os.TaskState[u] /\ os'.PendOn[u] = os.PendOn[u]
  BY <1>1, <1>7, EndsStates DEF Like, SameCtrs
<1>12. CallInv' /\ Creating' = Creating
  <2>1. l \in Outside /\ pc[t] \in Outside /\ pc[t] \notin {"create", "abort"}
    BY DEF Outside
  <2>2. os'.TaskState[t] \notin Pending
    BY <1>3, <1>4, <1>11 DEF Pending
  <2>3. \A u \in Task \ {t} : /\ os'.TaskState[u] \in Pending => os.TaskState[u] \in Pending
                              /\ os'.TaskState[u] \in Delayed => os.TaskState[u] \in Delayed
                              /\ os'.PendOn[u] = "TASK_SEM" => os.PendOn[u] = "TASK_SEM"
    BY <1>11 DEF Pending, Delayed, Timed
  <2> QED
    BY <1>1, <1>3, <1>10, <2>1, <2>2, <2>3, ServiceCalls
<1>13. /\ \A u \in Task : os'.PendData[u] = IF u = h THEN {} ELSE os.PendData[u]
       /\ s # NoObj => os'.PendList[s] = Unlink(o.PendList[s], h)
  <2>1. o.PendData \in [Task -> SUBSET Obj]
    BY <1>1 DEF KState
  <2>2. /\ os'.PendData = [o.PendData EXCEPT ![h] = {}]
        /\ s # NoObj => os'.PendList[s] = Unlink(o.PendList[s], h)
    <3>1. /\ OS_PendListRemove(o, h).PendData = [o.PendData EXCEPT ![h] = {}]
          /\ s # NoObj => OS_PendListRemove(o, h).PendList[s] = Unlink(o.PendList[s], h)
      BY <1>1, <1>2, PendListRemoveOK
    <3> QED
      BY <1>7, <3>1 DEF Ends, SamePend
  <2> QED
    BY <2>1, <2>2 DEF Like
<1>14. ObjWaits(On, S)'
  BY <1>11, <1>13 DEF ObjInv, ObjWaits
<1>15. \A u \in Task : pc'[u] # "abort"
  BY <1>1, <1>3 DEF ObjInv
<1> QED
  BY <1>2, <1>4, <1>6, <1>7, <1>8, <1>10, <1>12, <1>13, <1>14, <1>15 DEF ObjInv, WaitEnded
-----------------------------------------------------------------------------
(* The tick wheel (os_tick.c) under the running kernel: timed waits are on the wheel in the
   order of expiry, none is missed and none lasts longer than was asked for, for any number
   of tasks and spokes and any width of the tick counter. *)

\* The distance of a task's wake-up from now.
Rem(o, t) == Minus(o.TickCtrMatch[t], o.OSTickCtr)

Rems(o) == [t \in Task |-> Rem(o, t)]

\* The wheel holds the tasks whose wait is timed, each on the spoke of its match
\* tick, in the order of expiry.
WheelOK(o) ==
  /\ \A s \in Spoke : IsList(o.TickWheel[s], {t \in Task : o.TickSpokePtr[t] = s})
  /\ \A t \in Task : o.TaskState[t] \in Timed <=> o.TickSpokePtr[t] # NoSpoke
  /\ \A t \in Task : o.TickSpokePtr[t] # NoSpoke
                       => o.TickSpokePtr[t] = o.TickCtrMatch[t] % TickWheelSize
  /\ \A s \in Spoke : Sorted(o.TickWheel[s], Rems(o))

\* A wait has just begun, as long as OS_TickListInsert was asked for.
Fresh(o, o2, t) ==
  \/ \E time \in Timeouts : InTime(o, o2.TickCtrMatch[t], time, "TIMEOUT")
  \/ \E time \in Delays, opt \in DlyOpts : InTime(o, o2.TickCtrMatch[t], time, opt)

\* A change that leaves the clock alone: a timed wait goes on or is fresh.
Keeps(o, o2) ==
  /\ o2.OSTickCtr = o.OSTickCtr
  /\ \A t \in Task : o2.TaskState[t] \in Timed
       => \/ o.TaskState[t] \in Timed /\ o2.TickCtrMatch[t] = o.TickCtrMatch[t]
          \/ Fresh(o, o2, t)
-----------------------------------------------------------------------------
(* Types. *)

\* The types of what the wheel is about.
LEMMA WheelTypes ==
  ASSUME NEW o \in KState
  PROVE  /\ o.TickCtrMatch \in [Task -> Tick] /\ o.OSTickCtr \in Tick
         /\ o.TickSpokePtr \in [Task -> 0 .. TickWheelSize]
         /\ o.TickWheel \in [Spoke -> Seq(Task)] /\ o.TaskState \in [Task -> State]
         /\ Rems(o) \in [Task -> Int]
         /\ \A t \in Task : Rem(o, t) \in Tick /\ Rems(o)[t] = Rem(o, t)
<1>1. /\ o.TickCtrMatch \in [Task -> Tick] /\ o.OSTickCtr \in Tick
      /\ o.TickSpokePtr \in [Task -> 0 .. TickWheelSize]
      /\ o.TickWheel \in [Spoke -> Seq(Task)] /\ o.TaskState \in [Task -> State]
  BY DEF KState
<1>2. \A t \in Task : Rem(o, t) \in Tick
  BY <1>1, MinusTurn DEF Rem
<1>3. Tick \subseteq Int
  BY DEF Tick
<1> QED
  BY <1>1, <1>2, <1>3 DEF Rems

\* The spoke of a tick.
LEMMA SpokeType ==
  ASSUME NEW m \in Tick
  PROVE  m % TickWheelSize \in Spoke /\ m % TickWheelSize # NoSpoke
<1>1. m \in Int /\ TickWheelSize \in Nat \ {0}
  BY CoreAssumption DEF Tick
<1>2. m % TickWheelSize \in 0 .. TickWheelSize - 1
  BY <1>1
<1> QED
  BY <1>1, <1>2 DEF Spoke, NoSpoke
-----------------------------------------------------------------------------
(* What happens to the wheel. *)

\* Task t leaves the wheel.
Unhangs(o, o2, t) ==
  /\ o2.OSTickCtr = o.OSTickCtr
  /\ o2.TickSpokePtr = [o.TickSpokePtr EXCEPT ![t] = NoSpoke]
  /\ \A u \in Task \ {t} : o2.TickCtrMatch[u] = o.TickCtrMatch[u]
  /\ \A s \in Spoke : o2.TickWheel[s] = Unlink(o.TickWheel[s], t)

\* OS_TickListRemove, of a task that may be on no spoke.
LEMMA TickListRemoveUnhangs ==
  ASSUME NEW o \in KState, WheelOK(o), NEW t \in Task
  PROVE  Unhangs(o, OS_TickListRemove(o, t), t)
<1> DEFINE o2 == OS_TickListRemove(o, t)
<1>0. /\ o.TickCtrMatch \in [Task -> Tick] /\ o.TickSpokePtr \in [Task -> 0 .. TickWheelSize]
      /\ o.TickWheel \in [Spoke -> Seq(Task)]
  BY WheelTypes
<1>1. ASSUME NEW s \in Spoke, o.TickSpokePtr[t] # s
      PROVE  Unlink(o.TickWheel[s], t) = o.TickWheel[s]
  <2>1. t \notin Range(o.TickWheel[s])
    BY <1>1 DEF WheelOK, IsList
  <2> QED
    BY <2>1 DEF Unlink
<1>2. CASE o.TickSpokePtr[t] = NoSpoke
  <2>1. o2 = o
    BY <1>2 DEF OS_TickListRemove
  <2>2. \A s \in Spoke : s # NoSpoke
    BY CoreAssumption DEF Spoke, NoSpoke
  <2>3. \A s \in Spoke : o.TickWheel[s] = Unlink(o.TickWheel[s], t)
    BY <1>1, <1>2, <2>2
  <2>4. o.TickSpokePtr = [o.TickSpokePtr EXCEPT ![t] = NoSpoke]
    BY <1>0, <1>2
  <2> QED
    BY <2>1, <2>3, <2>4 DEF Unhangs
<1>3. CASE o.TickSpokePtr[t] # NoSpoke
  <2> DEFINE p == o.TickSpokePtr[t]
             l == Unlink(o.TickWheel[p], t)
  <2>1. /\ o2.OSTickCtr = o.OSTickCtr
        /\ o2.TickSpokePtr = [o.TickSpokePtr EXCEPT ![t] = NoSpoke]
        /\ o2.TickCtrMatch = [o.TickCtrMatch EXCEPT ![t] = 0]
        /\ o2.TickWheel = [o.TickWheel EXCEPT ![p] = l]
    BY <1>3 DEF OS_TickListRemove, KState
  <2>2. \A u \in Task \ {t} : o2.TickCtrMatch[u] = o.TickCtrMatch[u]
    BY <1>0, <2>1
  <2>3. \A s \in Spoke : o2.TickWheel[s] = Unlink(o.TickWheel[s], t)
    <3> SUFFICES ASSUME NEW s \in Spoke
                 PROVE  o2.TickWheel[s] = Unlink(o.TickWheel[s], t)
      OBVIOUS
    <3> HIDE DEF o2
    <3>1. CASE s = p
      BY <1>0, <2>1, <3>1
    <3>2. CASE s # p
      BY <1>0, <1>1, <2>1, <3>2
    <3> QED
      BY <3>1, <3>2
  <2> QED
    BY <2>1, <2>2, <2>3 DEF Unhangs
<1> QED
  BY <1>2, <1>3

\* A task that leaves the wheel leaves the others in order.
LEMMA UnhangsOK ==
  ASSUME NEW o \in KState, WheelOK(o), NEW o2 \in KState, NEW t \in Task, Unhangs(o, o2, t),
         NEW st, st \notin Timed, o2.TaskState = [o.TaskState EXCEPT ![t] = st]
  PROVE  WheelOK(o2) /\ Keeps(o, o2)
<1>0. /\ o.TickCtrMatch \in [Task -> Tick] /\ o.TickSpokePtr \in [Task -> 0 .. TickWheelSize]
      /\ o.TickWheel \in [Spoke -> Seq(Task)] /\ o.TaskState \in [Task -> State]
      /\ Rems(o) \in [Task -> Int]
  BY WheelTypes
<1>1. /\ o2.OSTickCtr = o.OSTickCtr /\ o2.TickSpokePtr = [o.TickSpokePtr EXCEPT ![t] = NoSpoke]
      /\ \A u \in Task \ {t} : o2.TickCtrMatch[u] = o.TickCtrMatch[u]
      /\ \A s \in Spoke : o2.TickWheel[s] = Unlink(o.TickWheel[s], t)
  BY DEF Unhangs
<1>2. \A u \in Task \ {t} : Rems(o2)[u] = Rems(o)[u]
  BY <1>1 DEF Rems, Rem
<1>3. ASSUME NEW s \in Spoke
      PROVE  /\ IsList(o2.TickWheel[s], {u \in Task : o2.TickSpokePtr[u] = s})
             /\ Sorted(o2.TickWheel[s], Rems(o2))
  <2> DEFINE l == o.TickWheel[s]
             r == Unlink(l, t)
             S == {u \in Task : o.TickSpokePtr[u] = s}
  <2>1. l \in Seq(Task) /\ IsList(l, S) /\ Sorted(l, Rems(o))
    BY <1>0 DEF WheelOK
  <2>2. r \in Seq(Task) /\ IsList(r, S \ {t}) /\ Sorted(r, Rems(o))
    BY <1>0, <2>1, UnlinkIsList, UnlinkSorted
  <2>3. {u \in Task : o2.TickSpokePtr[u] = s} = S \ {t}
    <3>1. s # NoSpoke
      BY CoreAssumption DEF Spoke, NoSpoke
    <3> QED
      BY <1>0, <1>1, <3>1
  <2>4. \A u \in Range(r) : Rems(o2)[u] = Rems(o)[u]
    BY <1>2, <2>2 DEF IsList
  <2> HIDE DEF r
  <2>5. Sorted(r, Rems(o2))
    BY <2>2, <2>4, SortedFrame
  <2>6. o2.TickWheel[s] = r
    BY <1>1 DEF r
  <2> QED
    BY <2>2, <2>3, <2>5, <2>6
<1>4. ASSUME NEW u \in Task
      PROVE  /\ o2.TaskState[u] \in Timed <=> o2.TickSpokePtr[u] # NoSpoke
             /\ o2.TickSpokePtr[u] # NoSpoke => o2.TickSpokePtr[u] = o2.TickCtrMatch[u] % TickWheelSize
             /\ o2.TaskState[u] \in Timed
                  => o.TaskState[u] \in Timed /\ o2.TickCtrMatch[u] = o.TickCtrMatch[u]
  <2>1. CASE u = t
    BY <1>0, <1>1, <2>1
  <2>2. CASE u # t
    <3>1. /\ o2.TaskState[u] = o.TaskState[u] /\ o2.TickSpokePtr[u] = o.TickSpokePtr[u]
          /\ o2.TickCtrMatch[u] = o.TickCtrMatch[u]
      BY <1>0, <1>1, <2>2
    <3> QED
      BY <3>1 DEF WheelOK
  <2> QED
    BY <2>1, <2>2
<1> QED
  BY <1>1, <1>3, <1>4 DEF WheelOK, Keeps

\* A change that leaves the wheel and what is timed alone.
LEMMA SameWheelOK ==
  ASSUME NEW o \in KState, WheelOK(o), NEW o2 \in KState, SameWheel(o, o2),
         \A t \in Task : o2.TaskState[t] \in Timed <=> o.TaskState[t] \in Timed
  PROVE  WheelOK(o2) /\ Keeps(o, o2)
<1>1. /\ o2.TickSpokePtr = o.TickSpokePtr /\ o2.TickCtrMatch = o.TickCtrMatch
      /\ o2.TickWheel = o.TickWheel /\ o2.OSTickCtr = o.OSTickCtr
  BY DEF SameWheel
<1>2. Rems(o2) = Rems(o)
  BY <1>1 DEF Rems, Rem
<1> QED
  BY <1>1, <1>2 DEF WheelOK, Keeps

\* OS_TickListInsert links a task at the place of its remaining time.
LEMMA HangsOK ==
  ASSUME NEW o \in KState, WheelOK(o), NEW o2 \in KState, NEW t \in Task, o.TaskState[t] \notin Timed,
         NEW m \in Tick, Hangs(o, o2, t, m),
         \/ \E time \in Timeouts : InTime(o, m, time, "TIMEOUT")
         \/ \E time \in Delays, opt \in DlyOpts : InTime(o, m, time, opt),
         NEW st \in Timed, o2.TaskState = [o.TaskState EXCEPT ![t] = st]
  PROVE  WheelOK(o2) /\ Keeps(o, o2)
<1> DEFINE p == m % TickWheelSize
           Z == {u \in Task : Minus(m, o.OSTickCtr) <= Minus(o.TickCtrMatch[u], o.OSTickCtr)}
           l == LinkBefore(o.TickWheel[p], t, Z)
<1>0. /\ o.TickCtrMatch \in [Task -> Tick] /\ o.TickSpokePtr \in [Task -> 0 .. TickWheelSize]
      /\ o.TickWheel \in [Spoke -> Seq(Task)] /\ o.TaskState \in [Task -> State]
      /\ Rems(o) \in [Task -> Int] /\ Rems(o2) \in [Task -> Int]
      /\ \A u \in Task : /\ Rem(o, u) \in Tick /\ Rems(o)[u] = Rem(o, u)
                         /\ Rem(o2, u) \in Tick /\ Rems(o2)[u] = Rem(o2, u)
  BY WheelTypes
<1>1. /\ o2.OSTickCtr = o.OSTickCtr /\ o2.TickCtrMatch = [o.TickCtrMatch EXCEPT ![t] = m]
      /\ o2.TickSpokePtr = [o.TickSpokePtr EXCEPT ![t] = p]
      /\ o2.TickWheel = [o.TickWheel EXCEPT ![p] = l]
  BY DEF Hangs
<1>2. p \in Spoke /\ p # NoSpoke
  BY SpokeType
<1>3. o.TickSpokePtr[t] = NoSpoke /\ \A s \in Spoke : s # NoSpoke
  BY CoreAssumption DEF WheelOK, Spoke, NoSpoke
<1>4. /\ \A u \in Task \ {t} : Rems(o2)[u] = Rems(o)[u]
      /\ Rems(o2)[t] = Minus(m, o.OSTickCtr)
  <2>1. \A u \in Task \ {t} : o2.TickCtrMatch[u] = o.TickCtrMatch[u]
    BY <1>0, <1>1
  <2>2. o2.TickCtrMatch[t] = m
    BY <1>0, <1>1
  <2> QED
    BY <1>1, <2>1, <2>2 DEF Rems, Rem
<1>5. ASSUME NEW s \in Spoke
      PROVE  /\ IsList(o2.TickWheel[s], {u \in Task : o2.TickSpokePtr[u] = s})
             /\ Sorted(o2.TickWheel[s], Rems(o2))
  <2> DEFINE k == o.TickWheel[s]
             S == {u \in Task : o.TickSpokePtr[u] = s}
  <2>1. k \in Seq(Task) /\ IsList(k, S) /\ Sorted(k, Rems(o)) /\ t \notin S
    BY <1>0, <1>3 DEF WheelOK
  <2>2. \A u \in Range(k) : u \in Task \ {t} /\ Rems(o2)[u] = Rems(o)[u]
    BY <1>4, <2>1 DEF IsList
  <2>3. Sorted(k, Rems(o2))
    <3> HIDE DEF k
    <3> QED
      BY <2>1, <2>2, SortedFrame
  <2>4. CASE s = p
    <3>1. \A u \in Range(k) : IF u \in Z THEN Rems(o2)[t] <= Rems(o2)[u] ELSE Rems(o2)[u] <= Rems(o2)[t]
      <4> SUFFICES ASSUME NEW u \in Range(k)
                   PROVE  IF u \in Z THEN Rems(o2)[t] <= Rems(o2)[u] ELSE Rems(o2)[u] <= Rems(o2)[t]
        OBVIOUS
      <4>1. u \in Task /\ Rems(o2)[u] = Minus(o.TickCtrMatch[u], o.OSTickCtr)
        BY <1>0, <2>2 DEF Rem
      <4>2. Rems(o2)[t] \in Int /\ Rems(o2)[u] \in Int
        BY <1>0, <4>1
      <4>3. u \in Z <=> Rems(o2)[t] <= Rems(o2)[u]
        BY <1>4, <4>1
      <4> HIDE DEF Z
      <4> QED
        BY <4>2, <4>3
    <3> HIDE DEF k, Z
    <3>2. IsList(LinkBefore(k, t, Z), S \cup {t}) /\ Sorted(LinkBefore(k, t, Z), Rems(o2))
      BY <1>0, <2>1, <2>3, <3>1, LinkBeforeIsList, LinkBeforeSorted
    <3>3. o2.TickWheel[s] = LinkBefore(k, t, Z)
      <4>1. o2.TickWheel[p] = l
        BY <1>0, <1>1, <1>2
      <4> QED
        BY <2>4, <4>1 DEF k
    <3>4. {u \in Task : o2.TickSpokePtr[u] = s} = S \cup {t}
      BY <1>0, <1>1, <2>4
    <3> QED
      BY <3>2, <3>3, <3>4
  <2>5. CASE s # p
    <3>1. o2.TickWheel[s] = k
      BY <1>0, <1>1, <2>5
    <3>2. {u \in Task : o2.TickSpokePtr[u] = s} = S
      BY <1>0, <1>1, <1>3, <2>5
    <3> QED
      BY <2>1, <2>3, <3>1, <3>2
  <2> QED
    BY <2>4, <2>5
<1>6. ASSUME NEW u \in Task
      PROVE  /\ o2.TaskState[u] \in Timed <=> o2.TickSpokePtr[u] # NoSpoke
             /\ o2.TickSpokePtr[u] # NoSpoke => o2.TickSpokePtr[u] = o2.TickCtrMatch[u] % TickWheelSize
             /\ o2.TaskState[u] \in Timed
                  => \/ o.TaskState[u] \in Timed /\ o2.TickCtrMatch[u] = o.TickCtrMatch[u]
                     \/ Fresh(o, o2, u)
  <2>1. CASE u = t
    <3>1. o2.TaskState[u] = st /\ o2.TickSpokePtr[u] = p /\ o2.TickCtrMatch[u] = m
      BY <1>0, <1>1, <2>1
    <3>2. Fresh(o, o2, u)
      BY <3>1 DEF Fresh
    <3> QED
      BY <1>2, <3>1, <3>2
  <2>2. CASE u # t
    <3>1. /\ o2.TaskState[u] = o.TaskState[u] /\ o2.TickSpokePtr[u] = o.TickSpokePtr[u]
          /\ o2.TickCtrMatch[u] = o.TickCtrMatch[u]
      BY <1>0, <1>1, <2>2
    <3> QED
      BY <3>1 DEF WheelOK
  <2> QED
    BY <2>1, <2>2
<1> QED
  BY <1>1, <1>5, <1>6 DEF WheelOK, Keeps

\* A change that begins no wait, or one that does.
LEMMA ChangeWheelOK ==
  ASSUME NEW o \in KState, WheelOK(o), NEW o2 \in KState,
         Calm(o, o2) \/ \E t \in Task : Waits(o, o2, t)
  PROVE  WheelOK(o2) /\ Keeps(o, o2)
<1>0. o.TaskState \in [Task -> State]
  BY DEF KState
<1>1. CASE Quiet(o, o2)
  BY <1>1, SameWheelOK DEF Quiet
<1>2. ASSUME NEW t \in Task, NEW st \in StatusSet, Ends(o, o2, t, st)
      PROVE  WheelOK(o2) /\ Keeps(o, o2)
  <2> DEFINE s == IF o.TaskState[t] \in Suspended THEN "SUSPENDED" ELSE "RDY"
  <2>1. s \notin Timed /\ o2.TaskState = [o.TaskState EXCEPT ![t] = s]
    BY <1>2 DEF Timed, Ends
  <2>2. Unhangs(o, o2, t)
    BY <1>2, TickListRemoveUnhangs, SMTT(30) DEF Ends, SameWheel, Unhangs
  <2> HIDE DEF s
  <2> QED
    BY <2>1, <2>2, UnhangsOK
<1>3. ASSUME NEW t \in Task, NEW time \in Delays, NEW opt \in DlyOpts, Sleeps(o, o2, t, time, opt)
      PROVE  WheelOK(o2) /\ Keeps(o, o2)
  <2>1. PICK m : Hangs(o, o2, t, m) /\ InTime(o, m, time, opt)
    BY <1>3 DEF Sleeps
  <2>2. m \in Tick
    BY <2>1 DEF InTime
  <2>3. o.TaskState[t] \notin Timed /\ "DLY" \in Timed /\ o2.TaskState = [o.TaskState EXCEPT ![t] = "DLY"]
    BY <1>3 DEF Sleeps, Timed
  <2> QED
    BY <2>1, <2>2, <2>3, HangsOK
<1>4. ASSUME NEW c \in Task, NEW st, NEW n, Restates(o, o2, c, st, n)
      PROVE  WheelOK(o2) /\ Keeps(o, o2)
  <2>1. o2.TaskState = [o.TaskState EXCEPT ![c] = st] /\ (st \in Timed <=> o.TaskState[c] \in Timed)
    BY <1>4 DEF Restates
  <2>2. \A u \in Task : o2.TaskState[u] \in Timed <=> o.TaskState[u] \in Timed
    BY <1>0, <2>1
  <2>3. CASE SameWheel(o, o2)
    BY <2>2, <2>3, SameWheelOK
  <2>4. CASE st \notin Timed /\ SameWheel(OS_TickListRemove(o, c), o2)
    <3>1. Unhangs(o, o2, c)
      BY <2>4, TickListRemoveUnhangs DEF SameWheel, Unhangs
    <3> QED
      BY <2>1, <2>4, <3>1, UnhangsOK
  <2> QED
    BY <1>4, <2>3, <2>4 DEF Restates
<1>5. ASSUME NEW c \in Task, NEW p \in Prio, Repri(o, o2, c, p)
      PROVE  WheelOK(o2) /\ Keeps(o, o2)
  BY <1>5, SameWheelOK DEF Repri
<1>6. ASSUME NEW c \in Task, NEW st \in {"RDY", "DEL"}, Resets(o, o2, c, st)
      PROVE  WheelOK(o2) /\ Keeps(o, o2)
  <2>1. st \notin Timed /\ o2.TaskState = [o.TaskState EXCEPT ![c] = st]
    BY <1>6 DEF Timed, Resets
  <2>2. o2.TickWheel = OS_TickListRemove(o, c).TickWheel
    <3>1. o.TaskState[c] \notin Timed => o.TickSpokePtr[c] = NoSpoke
      BY DEF WheelOK
    <3> QED
      BY <1>6, <3>1 DEF Resets
  <2>3. \A u \in Task \ {c} : o2.TickCtrMatch[u] = o.TickCtrMatch[u]
    <3>1. o.TickCtrMatch \in [Task -> Tick]
      BY DEF KState
    <3> QED
      BY <1>6, <3>1 DEF Resets
  <2>4. Unhangs(o, o2, c)
    <3>1. \A s \in Spoke : o2.TickWheel[s] = Unlink(o.TickWheel[s], c)
      <4>1. \A s \in Spoke : OS_TickListRemove(o, c).TickWheel[s] = Unlink(o.TickWheel[s], c)
        BY TickListRemoveUnhangs DEF Unhangs
      <4> QED
        BY <2>2, <4>1
    <3> QED
      BY <1>6, <2>3, <3>1 DEF Unhangs, Resets
  <2> QED
    BY <2>1, <2>4, UnhangsOK
<1>7. ASSUME NEW c \in Task, Counts(o, o2, c)
      PROVE  WheelOK(o2) /\ Keeps(o, o2)
  BY <1>7, SameWheelOK DEF Counts
<1>8. ASSUME NEW t \in Task, Waits(o, o2, t)
      PROVE  WheelOK(o2) /\ Keeps(o, o2)
  <2>1. PICK obj \in Obj \cup {NoObj}, on \in PendOnSet \ {"NOTHING"}, time \in Timeouts \cup {0} :
          Blocks(o, o2, t, obj, on, time)
    BY <1>8 DEF Waits
  <2>2. o.TaskState[t] = "RDY"
    BY <2>1 DEF Blocks
  <2>3. CASE time > 0
    <3>1. PICK m : Hangs(o, o2, t, m) /\ InTime(o, m, time, "TIMEOUT")
      BY <2>1, <2>3 DEF Blocks
    <3>2. m \in Tick /\ time \in Timeouts
      BY <2>3, <3>1 DEF InTime
    <3>3. o.TaskState[t] \notin Timed /\ "PEND_TIMEOUT" \in Timed
          /\ o2.TaskState = [o.TaskState EXCEPT ![t] = "PEND_TIMEOUT"]
      BY <2>1, <2>2, <2>3 DEF Blocks, Timed
    <3> QED
      BY <3>1, <3>2, <3>3, HangsOK
  <2>4. CASE ~(time > 0)
    <3>1. SameWheel(o, o2) /\ o2.TaskState = [o.TaskState EXCEPT ![t] = "PEND"]
      BY <2>1, <2>4 DEF Blocks
    <3>2. \A u \in Task : o2.TaskState[u] \in Timed <=> o.TaskState[u] \in Timed
      BY <1>0, <2>2, <3>1 DEF Timed
    <3> QED
      BY <3>1, <3>2, SameWheelOK
  <2> QED
    BY <2>3, <2>4
<1> QED
  BY <1>1, <1>2, <1>3, <1>4, <1>5, <1>6, <1>7, <1>8 DEF Calm
-----------------------------------------------------------------------------
(* The clock. *)

\* Every timed wait has at least one tick to go.
NoneDue(o) == \A t \in Task : o.TaskState[t] \in Timed => Rem(o, t) > 0

\* Every timed wait is as long as was asked for, at most.
Bounded(o) ==
  \A t \in Task : o.TaskState[t] \in Timed
    => \/ \E d \in Delays \cup Timeouts : Rem(o, t) <= d
       \/ "MATCH" \in DlyOpts /\ Rem(o, t) <= TickThRdy + 1

\* Delays and timeouts are numbers.
LEMMA DelayTypes == Delays \subseteq Int /\ Timeouts \subseteq Int /\ TickThRdy \in Int /\ TickMod \in Int
BY KernelAssumption, CoreAssumption DEF Tick

\* A wait that has just begun has at least one tick to go, and no more than was
\* asked for.
LEMMA FreshInTime ==
  ASSUME NEW o \in KState, NEW o2 \in KState, o2.OSTickCtr = o.OSTickCtr,
         NEW t \in Task, Fresh(o, o2, t)
  PROVE  /\ TickThRdy < TickMod - 1 => Rem(o2, t) > 0
         /\ \/ \E d \in Delays \cup Timeouts : Rem(o2, t) <= d
            \/ "MATCH" \in DlyOpts /\ Rem(o2, t) <= TickThRdy + 1
<1> DEFINE r == Rem(o2, t)
<1>0. r = Minus(o2.TickCtrMatch[t], o.OSTickCtr) /\ r \in Int
  <2>1. r \in Tick
    BY WheelTypes
  <2> QED
    BY <2>1 DEF Rem, Tick
<1> HIDE DEF r
<1>1. ASSUME NEW time \in Timeouts, InTime(o, o2.TickCtrMatch[t], time, "TIMEOUT")
      PROVE  r > 0 /\ r <= time
  BY <1>0, <1>1, DelayTypes DEF InTime
<1>2. ASSUME NEW time \in Delays, NEW opt \in DlyOpts, InTime(o, o2.TickCtrMatch[t], time, opt)
      PROVE  \/ r > 0 /\ r <= time
             \/ "MATCH" \in DlyOpts /\ r <= TickThRdy + 1 /\ (TickThRdy < TickMod - 1 => r > 0)
  BY <1>0, <1>2, DelayTypes DEF InTime
<1>3. (TickThRdy < TickMod - 1 => r > 0)
      /\ \/ \E d \in Delays \cup Timeouts : r <= d
         \/ "MATCH" \in DlyOpts /\ r <= TickThRdy + 1
  BY <1>1, <1>2 DEF Fresh
<1> QED
  BY <1>3 DEF r

\* A change that leaves the clock alone makes no wait due, nor any too long.
LEMMA KeepsWaits ==
  ASSUME NEW o \in KState, NEW o2 \in KState, Keeps(o, o2)
  PROVE  /\ TickThRdy < TickMod - 1 /\ NoneDue(o) => NoneDue(o2)
         /\ Bounded(o) => Bounded(o2)
<1>1. ASSUME NEW t \in Task, o2.TaskState[t] \in Timed
      PROVE  \/ o.TaskState[t] \in Timed /\ Rem(o2, t) = Rem(o, t)
             \/ Fresh(o, o2, t)
  BY <1>1 DEF Keeps, Rem
<1>2. o2.OSTickCtr = o.OSTickCtr
  BY DEF Keeps
<1>3. ASSUME TickThRdy < TickMod - 1, NoneDue(o), NEW t \in Task, o2.TaskState[t] \in Timed
      PROVE  Rem(o2, t) > 0
  BY <1>1, <1>2, <1>3, FreshInTime DEF NoneDue
<1>4. ASSUME Bounded(o), NEW t \in Task, o2.TaskState[t] \in Timed
      PROVE  \/ \E d \in Delays \cup Timeouts : Rem(o2, t) <= d
             \/ "MATCH" \in DlyOpts /\ Rem(o2, t) <= TickThRdy + 1
  <2>1. CASE o.TaskState[t] \in Timed /\ Rem(o2, t) = Rem(o, t)
    BY <1>4, <2>1 DEF Bounded
  <2>2. CASE Fresh(o, o2, t)
    BY <1>2, <2>2, FreshInTime
  <2> QED
    BY <1>1, <1>4, <2>1, <2>2
<1> QED
  BY <1>3, <1>4 DEF NoneDue, Bounded

\* Counting a tick brings every wake-up nearer by one, also across the end of
\* the counter.
LEMMA TickNearer ==
  ASSUME NEW m \in Tick, NEW c \in Tick, Minus(m, c) > 0
  PROVE  Minus(m, (c + 1) % TickMod) = Minus(m, c) - 1 /\ (c + 1) % TickMod \in Tick
<1> DEFINE n == (c + 1) % TickMod
<1>0. TickMod \in Nat \ {0} /\ TickMod > 1
  BY CoreAssumption
<1>1. c \in Int /\ m \in Int /\ 0 <= c /\ c <= TickMod - 1 /\ 0 <= m /\ m <= TickMod - 1
  BY <1>0 DEF Tick
<1>2. n = IF c = TickMod - 1 THEN 0 ELSE c + 1
  <2>1. CASE c = TickMod - 1
    <3> DEFINE a == c + 1
    <3>1. a \in TickMod .. 2 * TickMod - 1 /\ a \in Int /\ a = TickMod
      BY <1>0, <1>1, <2>1
    <3> HIDE DEF a
    <3>2. a % TickMod = a - TickMod
      BY <1>0, <3>1, ModTurn
    <3>3. a % TickMod = 0
      BY <1>0, <3>1, <3>2
    <3> QED
      BY <2>1, <3>3 DEF a
  <2>2. CASE c # TickMod - 1
    <3> DEFINE a == c + 1
    <3>1. a \in 0 .. TickMod - 1 /\ a \in Int
      BY <1>0, <1>1, <2>2
    <3> HIDE DEF a
    <3>2. a % TickMod = a
      BY <1>0, <3>1, ModTurn
    <3> QED
      BY <2>2, <3>2 DEF a
  <2> QED
    BY <2>1, <2>2
<1> HIDE DEF n
<1>3. n \in Tick
  BY <1>0, <1>1, <1>2 DEF Tick
<1>4. Minus(m, c) = IF m >= c THEN m - c ELSE m - c + TickMod
  BY MinusTurn
<1>5. Minus(m, n) = IF m >= n THEN m - n ELSE m - n + TickMod
  BY <1>3, MinusTurn
<1>6. Minus(m, n) = Minus(m, c) - 1
  BY <1>0, <1>1, <1>2, <1>4, <1>5
<1> QED
  BY <1>3, <1>6 DEF n

\* With nothing due, counting a tick keeps the order of expiry.
LEMMA TickWheelOK ==
  ASSUME NEW o \in KState, WheelOK(o), NoneDue(o), NEW o2 \in KState, Ticks(o, o2),
         o2.OSTickCtr = (o.OSTickCtr + 1) % TickMod
  PROVE  WheelOK(o2) /\ (Bounded(o) => Bounded(o2))
<1>0. /\ o.TickCtrMatch \in [Task -> Tick] /\ o.OSTickCtr \in Tick
      /\ o.TickSpokePtr \in [Task -> 0 .. TickWheelSize]
      /\ o.TickWheel \in [Spoke -> Seq(Task)]
      /\ \A u \in Task : /\ Rem(o, u) \in Tick /\ Rems(o)[u] = Rem(o, u)
                         /\ Rem(o2, u) \in Tick /\ Rems(o2)[u] = Rem(o2, u)
  BY WheelTypes
<1>1. /\ o2.TaskState = o.TaskState /\ o2.TickSpokePtr = o.TickSpokePtr
      /\ o2.TickCtrMatch = o.TickCtrMatch /\ o2.TickWheel = o.TickWheel
  BY DEF Ticks
<1>2. ASSUME NEW t \in Task, o.TaskState[t] \in Timed
      PROVE  Rem(o2, t) = Rem(o, t) - 1 /\ Rem(o, t) \in Int
  <2> DEFINE m == o.TickCtrMatch[t]
             c == o.OSTickCtr
  <2>1. m \in Tick /\ c \in Tick /\ Minus(m, c) > 0
    BY <1>0, <1>2 DEF NoneDue, Rem
  <2>2. Rem(o2, t) = Minus(m, (c + 1) % TickMod) /\ Rem(o, t) = Minus(m, c)
    BY <1>1 DEF Rem
  <2> HIDE DEF m, c
  <2>3. Minus(m, (c + 1) % TickMod) = Minus(m, c) - 1
    BY <2>1, TickNearer
  <2> QED
    BY <1>0, <2>2, <2>3 DEF Tick
<1>3. ASSUME NEW s \in Spoke
      PROVE  Sorted(o2.TickWheel[s], Rems(o2))
  <2> DEFINE l == o.TickWheel[s]
  <2>1. Sorted(l, Rems(o)) /\ l \in Seq(Task)
    BY <1>0 DEF WheelOK
  <2>2. \A u \in Range(l) : u \in Task /\ o.TaskState[u] \in Timed
    <3>1. s # NoSpoke
      BY CoreAssumption DEF Spoke, NoSpoke
    <3> QED
      BY <3>1 DEF WheelOK, IsList
  <2>3. \A u \in Range(l) : Rems(o2)[u] = Rems(o)[u] - 1 /\ Rems(o)[u] \in Int
    BY <1>0, <1>2, <2>2
  <2>4. \A i \in DOMAIN l : l[i] \in Range(l)
    BY DEF Range
  <2> HIDE DEF l
  <2>5. Sorted(l, Rems(o2))
    BY <2>1, <2>3, <2>4 DEF Sorted
  <2> QED
    BY <1>1, <2>5 DEF l
<1>4. WheelOK(o2)
  BY <1>1, <1>3 DEF WheelOK
<1>5. ASSUME Bounded(o), NEW t \in Task, o2.TaskState[t] \in Timed
      PROVE  \/ \E d \in Delays \cup Timeouts : Rem(o2, t) <= d
             \/ "MATCH" \in DlyOpts /\ Rem(o2, t) <= TickThRdy + 1
  <2> DEFINE r == Rem(o, t)
             q == Rem(o2, t)
  <2>1. r \in Int /\ q = r - 1
    BY <1>1, <1>2, <1>5
  <2>2. \/ \E d \in Delays \cup Timeouts : r <= d
        \/ "MATCH" \in DlyOpts /\ r <= TickThRdy + 1
    BY <1>1, <1>5 DEF Bounded
  <2> HIDE DEF r, q
  <2>3. \/ \E d \in Delays \cup Timeouts : q <= d
        \/ "MATCH" \in DlyOpts /\ q <= TickThRdy + 1
    BY <2>1, <2>2, DelayTypes
  <2> QED
    BY <2>3 DEF q
<1> QED
  BY <1>4, <1>5 DEF Bounded
-----------------------------------------------------------------------------
(* The loop of OS_TickListUpdate. *)

\* The entry a list pointer points to.
First(l) == IF l = <<>> THEN NoTask ELSE Head(l)

\* The spoke of the current tick.
CurSpoke(o) == o.TickWheel[o.OSTickCtr % TickWheelSize]

\* The tick task walks the spoke of the current tick from the head, with the
\* interrupts disabled; otherwise nothing is due.
SpokeInv == IF pc[TickTask] = "spoke"
            THEN os.OSRunning /\ cur = TickTask /\ tickPtr = First(CurSpoke(os))
            ELSE NoneDue(os)

\* The link the loop follows after it has unlinked the head.
LEMMA NextIsFirst ==
  ASSUME NEW l \in Seq(Task), NEW S, IsList(l, S), l # <<>>
  PROVE  After(l, Head(l)) = First(Unlink(l, Head(l)))
<1> DEFINE t == Head(l)
           r == Unlink(l, t)
<1>1. Len(l) \in Nat /\ Len(l) >= 1 /\ t = l[1] /\ DOMAIN l = 1 .. Len(l)
  OBVIOUS
<1>2. t \in Range(l) /\ \A i \in DOMAIN l : l[i] = t => i = 1
  BY <1>1 DEF Range, IsList
<1> HIDE DEF t
<1>3. PICK n \in 1 .. Len(l) :
        /\ l[n] = t /\ Len(r) = Len(l) - 1
        /\ \A i \in 1 .. Len(l) - 1 : r[i] = IF i < n THEN l[i] ELSE l[i + 1]
  BY <1>2, UnlinkShape
<1>4. n = 1
  BY <1>1, <1>2, <1>3
<1>5. Pos(l, t) = 1
  BY <1>1, <1>2 DEF Pos
<1>6. r \in Seq(Task)
  BY UnlinkIsList
<1> HIDE DEF r
<1>7. CASE Len(l) > 1
  <2>1. After(l, t) = l[2]
    BY <1>1, <1>2, <1>5, <1>7 DEF After
  <2>2. r # <<>> /\ Head(r) = r[1] /\ r[1] = l[2]
    BY <1>1, <1>3, <1>4, <1>6, <1>7
  <2> QED
    BY <2>1, <2>2 DEF First, t, r
<1>8. CASE ~(Len(l) > 1)
  <2>1. After(l, t) = NoTask
    BY <1>1, <1>2, <1>5, <1>8 DEF After
  <2>2. r = <<>>
    BY <1>1, <1>3, <1>6, <1>8
  <2> QED
    BY <2>1, <2>2 DEF First, t, r
<1> QED
  BY <1>7, <1>8

\* A wait is due when its match tick is the current one, and then only.
LEMMA DueNow ==
  ASSUME NEW o \in KState, NEW t \in Task
  PROVE  Rem(o, t) > 0 \/ (Rem(o, t) = 0 /\ o.TickCtrMatch[t] = o.OSTickCtr)
<1> DEFINE x == o.TickCtrMatch[t]
           y == o.OSTickCtr
<1>1. x \in Tick /\ y \in Tick /\ TickMod \in Nat
  BY WheelTypes, CoreAssumption
<1> HIDE DEF x, y
<1>2. Minus(x, y) = (IF x >= y THEN x - y ELSE x - y + TickMod) /\ Minus(x, y) \in Tick
  BY <1>1, MinusTurn
<1>3. Minus(x, y) > 0 \/ (Minus(x, y) = 0 /\ x = y)
  BY <1>1, <1>2 DEF Tick
<1> QED
  BY <1>3 DEF Rem, x, y

\* The early exit of the loop: when the first entry of the spoke is not due, no
\* entry of the wheel is.
LEMMA ExitNoneDue ==
  ASSUME NEW o \in KState, WheelOK(o),
         \/ First(CurSpoke(o)) = NoTask
         \/ First(CurSpoke(o)) \in Task /\ o.TickCtrMatch[First(CurSpoke(o))] # o.OSTickCtr
  PROVE  NoneDue(o)
<1> SUFFICES ASSUME NEW t \in Task, o.TaskState[t] \in Timed, ~(Rem(o, t) > 0)
             PROVE  FALSE
  BY DEF NoneDue
<1> DEFINE s == o.OSTickCtr % TickWheelSize
           l == o.TickWheel[s]
<1>1. Rem(o, t) = 0 /\ o.TickCtrMatch[t] = o.OSTickCtr
  BY DueNow
<1>2. s \in Spoke
  BY WheelTypes, SpokeType
<1>3. o.TickSpokePtr[t] = s
  BY <1>1 DEF WheelOK
<1>4. l \in Seq(Task) /\ IsList(l, {u \in Task : o.TickSpokePtr[u] = s}) /\ Sorted(l, Rems(o))
  BY <1>2, WheelTypes DEF WheelOK
<1>5. CurSpoke(o) = l
  BY DEF CurSpoke
<1> HIDE DEF l, s
<1>6. PICK i \in DOMAIN l : l[i] = t
  BY <1>3, <1>4 DEF IsList, Range
<1>7. l # <<>> /\ Head(l) = l[1] /\ 1 \in DOMAIN l /\ DOMAIN l = 1 .. Len(l) /\ l[1] \in Task
  BY <1>4, <1>6
<1>8. First(l) = l[1] /\ l[1] # NoTask
  BY <1>7, CoreAssumption DEF First
<1>9. o.TickCtrMatch[l[1]] # o.OSTickCtr
  BY <1>5, <1>8
<1>10. Rems(o)[l[1]] > 0 /\ Rems(o)[t] = 0
  BY <1>1, <1>7, <1>9, DueNow, WheelTypes
<1>11. i = 1 \/ Rems(o)[l[1]] <= Rems(o)[t]
  <2>1. i = 1 \/ 1 < i
    BY <1>6, <1>7
  <2> QED
    BY <1>4, <1>6, <1>7, <2>1 DEF Sorted
<1>12. Rems(o)[l[1]] \in Int
  BY <1>7, WheelTypes DEF Tick
<1> QED
  BY <1>6, <1>10, <1>11, <1>12

\* The invariant of the tick wheel.
WheelInv == KWaitInv /\ RunInv /\ WheelOK(os) /\ Bounded(os) /\ SpokeInv

\* No service is called, and none returns, in the loop.
LEMMA OutOfLoop ==
  ASSUME KTypeOK, NEW t \in Task, TaskStep(t)
  PROVE  /\ os.OSRunning /\ t = cur /\ pc[t] # "spoke"
         /\ pc[TickTask] # "spoke" => pc'[TickTask] # "spoke"
<1> DEFINE Out == /\ os.OSRunning /\ t = cur /\ pc[t] # "spoke"
                  /\ pc[TickTask] # "spoke" => pc'[TickTask] # "spoke"
<1>0. pc \in [Task -> PC] /\ TickTask \in Task
  BY CoreAssumption DEF KTypeOK
<1>1. ASSUME NEW l, l # "spoke", Goto(t, l), os.OSRunning, t = cur, pc[t] # "spoke"
      PROVE  Out
  BY <1>0, <1>1 DEF Goto
<1>2. ASSUME NEW svc, Call(t, svc), NEW l, l # "spoke", Goto(t, l)
      PROVE  Out
  BY <1>1, <1>2 DEF Call
<1> HIDE DEF Out
<1>3. ASSUME NEW c \in Task, OSTaskCreate(t, c) \/ OSTaskDel(t, c) \/ OSTaskSuspend(t, c) \/ OSTaskResume(t, c)
      PROVE  Out
  BY <1>2, <1>3 DEF OSTaskCreate, OSTaskDel, OSTaskSuspend, OSTaskResume, Step
<1>4. ASSUME OSTaskCreateLink(t)
      PROVE  Out
  BY <1>0, <1>4 DEF OSTaskCreateLink, Out
<1>5. ASSUME OSSched(t) \/ PendReturn(t)
      PROVE  Out
  BY <1>1, <1>5 DEF OSSched, PendReturn, Step, Resumption
<1>6. ASSUME OSSchedLock(t) \/ OSSchedUnlock(t) \/ OSSchedRoundRobinYield(t)
      PROVE  Out
  BY <1>2, <1>6 DEF OSSchedLock, OSSchedUnlock, OSSchedRoundRobinYield, Step
<1>7. ASSUME NEW en \in BOOLEAN, NEW q \in Quanta, OSSchedRoundRobinCfg(t, en, q)
      PROVE  Out
  BY <1>2, <1>7 DEF OSSchedRoundRobinCfg, Step
<1>8. ASSUME NEW c \in Task, NEW q \in Quanta, OSTaskTimeQuantaSet(t, c, q)
      PROVE  Out
  BY <1>2, <1>8 DEF OSTaskTimeQuantaSet, Step
<1>9. ASSUME NEW c \in Task, NEW p \in NewPrios, NEW self \in BOOLEAN, OSTaskChangePrio(t, c, p, self)
      PROVE  Out
  BY <1>2, <1>9 DEF OSTaskChangePrio, Step
<1>10. ASSUME NEW d \in Delays, NEW opt \in DlyOpts, OSTimeDly(t, d, opt)
       PROVE  Out
  BY <1>2, <1>10 DEF OSTimeDly, Step
<1>11. ASSUME NEW d \in Delays, OSTimeSet(t, d)
       PROVE  Out
  BY <1>2, <1>11 DEF OSTimeSet, Step
<1>12. ASSUME NEW d \in Timeouts \cup {0}, NEW block \in BOOLEAN, OSTaskSemPend(t, d, block)
       PROVE  Out
  BY <1>2, <1>12 DEF OSTaskSemPend, Step, Resumption
<1>13. ASSUME NEW c \in Task, NEW opt \in PostOpts, OSTaskSemPost(t, c, opt)
       PROVE  Out
  BY <1>2, <1>13 DEF OSTaskSemPost, Step
<1>14. ASSUME NEW c \in Task, NEW n \in 0 .. SemMax, OSTaskSemSet(t, c, n)
       PROVE  Out
  BY <1>2, <1>14 DEF OSTaskSemSet, Step
<1>15. ASSUME NEW c \in Task, OSTaskSemPendAbort(t, c)
       PROVE  Out
  BY <1>2, <1>15 DEF OSTaskSemPendAbort
<1>16. ASSUME NEW opt \in PostOpts, OSTaskSemPendAbort2(t, opt)
       PROVE  Out
  BY <1>1, <1>16 DEF OSTaskSemPendAbort2
<1>17. Out
  BY <1>3, <1>4, <1>5, <1>6, <1>7, <1>8, <1>9, <1>10, <1>11, <1>12, <1>13, <1>14, <1>15, <1>16 DEF TaskStep
<1> QED
  BY <1>17 DEF Out

\* A step outside the loop that leaves the clock alone.
LEMMA KeepStep ==
  ASSUME TickThRdy < TickMod - 1, WheelInv, KWaitInv', RunInv',
         pc[TickTask] # "spoke", pc'[TickTask] # "spoke",
         \/ \E b \in KState : Calm(os, b) /\ Calm(b, os')
         \/ \E t \in Task : Waits(os, os', t)
  PROVE  WheelInv'
<1>0. os \in KState /\ os' \in KState
  BY DEF WheelInv, KWaitInv, KInv, KTypeOK
<1>1. WheelOK(os) /\ Bounded(os) /\ NoneDue(os)
  BY DEF WheelInv, SpokeInv
<1>2. ASSUME NEW o \in KState, NEW o2 \in KState, WheelOK(o), Bounded(o), NoneDue(o),
             Calm(o, o2) \/ \E t \in Task : Waits(o, o2, t)
      PROVE  WheelOK(o2) /\ Bounded(o2) /\ NoneDue(o2)
  BY <1>2, ChangeWheelOK, KeepsWaits
<1>3. WheelOK(os') /\ Bounded(os') /\ NoneDue(os')
  <2>1. CASE \E b \in KState : Calm(os, b) /\ Calm(b, os')
    BY <1>0, <1>1, <1>2, <2>1
  <2>2. CASE \E t \in Task : Waits(os, os', t)
    BY <1>0, <1>1, <1>2, <2>2
  <2> QED
    BY <2>1, <2>2
<1> QED
  BY <1>3 DEF WheelInv, SpokeInv

\* OS_TickListUpdate counts the tick and goes to the head of its spoke.
LEMMA UpdateStep ==
  ASSUME WheelInv, KWaitInv', RunInv', OS_TickListUpdate
  PROVE  WheelInv'
<1>0. os \in KState /\ os' \in KState /\ KTypeOK /\ KTypeOK' /\ TickTask \in Task
  BY CoreAssumption DEF WheelInv, KWaitInv, KInv, KTypeOK
<1>1. pc[TickTask] = "update" /\ pc' = [pc EXCEPT ![TickTask] = "spoke"] /\ cur = TickTask
  BY DEF OS_TickListUpdate, Goto
<1>2. WheelOK(os) /\ Bounded(os) /\ NoneDue(os)
  BY <1>1 DEF WheelInv, SpokeInv
<1>3. os' = [os EXCEPT !.OSTickCtr = (os.OSTickCtr + 1) % TickMod]
  BY DEF OS_TickListUpdate
<1>4. /\ Ticks(os, os') /\ os'.OSTickCtr = (os.OSTickCtr + 1) % TickMod
      /\ os'.OSTCBCurPtr = os.OSTCBCurPtr /\ os'.OSRunning = os.OSRunning
  BY <1>0, <1>3 DEF KState, Ticks, SameCtrs, SamePend
<1>5. WheelOK(os') /\ Bounded(os')
  BY <1>0, <1>2, <1>4, TickWheelOK
<1>6. tickPtr' = First(CurSpoke(os'))
  <2>1. CurSpoke(os') = os.TickWheel[os'.OSTickCtr % TickWheelSize]
    BY <1>4 DEF CurSpoke, Ticks
  <2> QED
    BY <1>4, <2>1 DEF OS_TickListUpdate, First
<1>7. pc'[TickTask] = "spoke" /\ os'.OSRunning /\ cur' = TickTask
  BY <1>0, <1>1, <1>4 DEF KTypeOK, cur, OS_TickListUpdate
<1> QED
  BY <1>5, <1>6, <1>7 DEF WheelInv, SpokeInv

\* The loop ends the wait of the head, or leaves.
LEMMA LoopStep ==
  ASSUME WheelInv, KWaitInv', RunInv', TickListUpdateLoop
  PROVE  WheelInv'
<1> DEFINE l == CurSpoke(os)
           t == tickPtr
<1>0. os \in KState /\ os' \in KState /\ KTypeOK /\ TickTask \in Task /\ OsInv(os, Creating)
      /\ PendOK(os) /\ pc \in [Task -> PC]
  BY CoreAssumption DEF WheelInv, KWaitInv, KInv, KTypeOK
<1>1. os.OSRunning /\ cur = TickTask /\ pc[TickTask] = "spoke"
  BY <1>0 DEF TickListUpdateLoop, WheelInv, RunInv, KTypeOK, cur
<1>2. WheelOK(os) /\ Bounded(os) /\ t = First(l)
  BY <1>1 DEF WheelInv, SpokeInv
<1>3. os.OSTickCtr % TickWheelSize \in Spoke
  BY <1>0, WheelTypes, SpokeType
<1>4. PICK S : l \in Seq(Task) /\ IsList(l, S) /\ \A u \in S : u \in Task /\ os.TaskState[u] \in Timed
  <2> DEFINE s == os.OSTickCtr % TickWheelSize
             S == {u \in Task : os.TickSpokePtr[u] = s}
  <2>1. l \in Seq(Task) /\ IsList(l, S)
    BY <1>0, <1>2, <1>3, WheelTypes DEF WheelOK, CurSpoke
  <2>2. s # NoSpoke
    BY <1>3, CoreAssumption DEF Spoke, NoSpoke
  <2>3. \A u \in S : u \in Task /\ os.TaskState[u] \in Timed
    BY <1>2, <2>2 DEF WheelOK
  <2> HIDE DEF S
  <2> QED
    BY <2>1, <2>3
<1>5. CASE t = NoTask \/ (os.TaskState[t] \in Timed /\ os.TickCtrMatch[t] # os.OSTickCtr)
  <2>1. os' = os /\ pc' = [pc EXCEPT ![TickTask] = "app"]
    BY <1>1, <1>5 DEF TickListUpdateLoop, Goto
  <2>2. NoneDue(os)
    <3>1. t = NoTask \/ (t \in Task /\ os.TickCtrMatch[t] # os.OSTickCtr)
      BY <1>0, <1>5 DEF KTypeOK
    <3> QED
      BY <1>0, <1>2, <3>1, ExitNoneDue
  <2>3. pc'[TickTask] # "spoke"
    BY <1>0, <2>1
  <2> QED
    BY <1>2, <2>1, <2>2, <2>3 DEF WheelInv, SpokeInv
<1>6. CASE ~(t = NoTask \/ (os.TaskState[t] \in Timed /\ os.TickCtrMatch[t] # os.OSTickCtr))
  <2>1. os' = Expire(os, t) /\ tickPtr' = After(l, t) /\ pc' = pc
    BY <1>6 DEF TickListUpdateLoop, CurSpoke
  <2>2. l # <<>> /\ t = Head(l) /\ t \in Task /\ os.TaskState[t] \in Timed
    <3>1. l # <<>> /\ t = Head(l)
      BY <1>2, <1>6 DEF First
    <3>2. t \in Range(l)
      BY <1>4, <3>1 DEF Range
    <3> QED
      BY <1>4, <3>1, <3>2 DEF IsList
  <2>3. PICK st \in StatusSet : Ends(os, os', t, st)
    BY <1>0, <2>1, <2>2, ExpireEnds
  <2>4. Calm(os, os')
    BY <2>2, <2>3 DEF Calm
  <2>5. WheelOK(os') /\ Keeps(os, os')
    BY <1>0, <1>2, <2>4, ChangeWheelOK
  <2>6. Bounded(os')
    BY <1>0, <1>2, <2>5, KeepsWaits
  <2>7. CurSpoke(os') = Unlink(l, t)
    <3>1. Unhangs(os, OS_TickListRemove(os, t), t)
      BY <1>0, <1>2, <2>2, TickListRemoveUnhangs
    <3>2. /\ OS_TickListRemove(os, t).OSTickCtr = os.OSTickCtr
          /\ \A s \in Spoke : OS_TickListRemove(os, t).TickWheel[s] = Unlink(os.TickWheel[s], t)
      BY <3>1 DEF Unhangs
    <3>3. /\ os'.OSTickCtr = OS_TickListRemove(os, t).OSTickCtr
          /\ os'.TickWheel = OS_TickListRemove(os, t).TickWheel
      BY <2>3 DEF Ends, SameWheel
    <3> QED
      BY <1>3, <3>2, <3>3 DEF CurSpoke
  <2>8. tickPtr' = First(CurSpoke(os'))
    <3> HIDE DEF l
    <3> QED
      BY <1>4, <2>1, <2>2, <2>7, NextIsFirst
  <2>9. os'.OSRunning /\ cur' = TickTask
    <3>1. Eases(os, os')
      BY <1>0, <2>1, <2>2, ExpireLemma
    <3> QED
      BY <1>1, <3>1 DEF Eases, cur
  <2> QED
    BY <1>1, <2>1, <2>5, <2>6, <2>8, <2>9 DEF WheelInv, SpokeInv
<1> QED
  BY <1>5, <1>6

\* In the initial state the wheel is empty.
LEMMA WheelInit == KInit => WheelInv
<1> SUFFICES ASSUME KInit PROVE WheelInv
  OBVIOUS
<1>1. os = OSInit /\ pc = [t \in Task |-> "app"] /\ TickTask \in Task
  BY CoreAssumption DEF KInit
<1>2. KWaitInv /\ RunInv
  BY KWaitInit, InitRun
<1>3. /\ \A t \in Task : OSInit.TaskState[t] = "DEL" /\ OSInit.TickSpokePtr[t] = NoSpoke
      /\ \A s \in Spoke : OSInit.TickWheel[s] = <<>> /\ s # NoSpoke
  BY CoreAssumption DEF OSInit, Spoke, NoSpoke
<1>4. "DEL" \notin Timed
  BY DEF Timed
<1> HIDE DEF OSInit
<1>5. WheelOK(os)
  BY <1>1, <1>3, <1>4 DEF WheelOK, IsList, Range, Sorted
<1>6. Bounded(os) /\ NoneDue(os)
  BY <1>1, <1>3, <1>4 DEF Bounded, NoneDue
<1> QED
  BY <1>1, <1>2, <1>5, <1>6 DEF WheelInv, SpokeInv

\* Every step of the kernel keeps the wheel in order.
LEMMA WheelInductive ==
  ASSUME Hazard = {}, TickThRdy < TickMod - 1, \A t \in Task : "timeset" \notin Calls[t],
         WheelInv, [KNext]_kvars
  PROVE  WheelInv'
<1>0. KWaitInv /\ KInv /\ RunInv /\ PendOK(os) /\ KTypeOK /\ TickTask \in Task /\ os \in KState
  BY CoreAssumption DEF WheelInv, KWaitInv, KInv, KTypeOK
<1>1. KWaitInv' /\ KInv'
  BY <1>0, KWaitStep DEF KWaitInv
<1>2. RunInv'
  <2>2. CASE os' = os /\ pc' = pc
    BY <1>0, <2>2 DEF RunInv
  <2>3. CASE Boot \/ OSStart
    BY <1>0, <2>3, StartRun
  <2>4. CASE RunStep
    BY <1>0, <2>4, RunStepLocked
  <2> QED
    BY <1>0, <2>2, <2>3, <2>4, StepKinds
<1>3. AbortSafe
  BY <1>0 DEF AbortSafe, KWaitInv, KInv, KTypeOK, AppTask
<1>4. Calm(os, os)
  BY SameQuiet DEF Calm
<1>5. pc[TickTask] = "spoke" => os.OSRunning /\ cur = TickTask
  BY DEF WheelInv, SpokeInv
<1>6. CASE Boot \/ OSStart
  <2>1. ~os.OSRunning /\ pc' = pc
    BY <1>6 DEF Boot, OSStart
  <2>2. Calm(os, os')
    BY <1>0, <1>6, StartChange
  <2> QED
    BY <1>0, <1>1, <1>2, <1>4, <1>5, <2>1, <2>2, KeepStep
<1>7. CASE TickISR
  <2>1. pc' = pc /\ os.OSRunning /\ pc[cur] # "spoke"
    BY <1>7 DEF TickISR, IntDisabled
  <2>2. \E b \in KState : Calm(os, b) /\ Calm(b, os')
    BY <1>0, <1>7, TickISRChange
  <2> QED
    BY <1>1, <1>2, <1>5, <2>1, <2>2, KeepStep
<1>8. CASE TickStep
  BY <1>1, <1>2, <1>8, UpdateStep, LoopStep DEF TickStep
<1>9. ASSUME NEW t \in Task, TaskStep(t)
      PROVE  WheelInv'
  <2>1. /\ os.OSRunning /\ t = cur /\ pc[t] # "spoke"
        /\ pc[TickTask] # "spoke" => pc'[TickTask] # "spoke"
    BY <1>0, <1>9, OutOfLoop
  <2>2. Calm(os, os') \/ Waits(os, os', t)
    BY <1>0, <1>3, <1>9, TaskStepChange DEF Begins
  <2> QED
    BY <1>0, <1>1, <1>2, <1>4, <1>5, <2>1, <2>2, KeepStep
<1>10. CASE UNCHANGED kvars
  <2>1. os' = os /\ pc' = pc /\ tickPtr' = tickPtr /\ cur' = cur
    BY <1>10 DEF kvars, cur
  <2> QED
    BY <1>1, <1>2, <2>1 DEF WheelInv, SpokeInv
<1> QED
  BY <1>6, <1>7, <1>8, <1>9, <1>10 DEF KNext
-----------------------------------------------------------------------------
\* The wheel holds exactly the tasks whose wait is timed, in the order of expiry,
\* as long as OSTimeSet does not move the clock under them and OS_TICK_TH_RDY
\* leaves OS_OPT_TIME_MATCH some times to call past (OS_TickListInsert,
\* OS_TickListRemove, OS_TickListUpdate and all that call them).
THEOREM KernelWheelIntegrity ==
  ASSUME Hazard = {}, TickThRdy < TickMod - 1, \A t \in Task : "timeset" \notin Calls[t]
  PROVE  KSpec => []WheelIntegrity
<1>1. KInit => WheelInv
  BY WheelInit
<1>2. WheelInv /\ [KNext]_kvars => WheelInv'
  BY WheelInductive
<1>3. WheelInv => WheelIntegrity
  <2> SUFFICES ASSUME WheelInv PROVE WheelIntegrity
    OBVIOUS
  <2>1. WheelOK(os) /\ os \in KState
    BY DEF WheelInv, KWaitInv, KInv, KTypeOK
  <2>2. ASSUME NEW s \in Spoke, NEW i \in DOMAIN os.TickWheel[s], NEW j \in DOMAIN os.TickWheel[s], i < j
        PROVE  Remain(os.TickWheel[s][i]) <= Remain(os.TickWheel[s][j])
    <3> DEFINE l == os.TickWheel[s]
    <3>1. l \in Seq(Task) /\ Sorted(l, Rems(os))
      BY <2>1, WheelTypes DEF WheelOK
    <3>2. l[i] \in Task /\ l[j] \in Task
      BY <3>1
    <3>3. Rems(os)[l[i]] <= Rems(os)[l[j]]
      BY <2>2, <3>1 DEF Sorted
    <3> QED
      BY <3>2, <3>3 DEF Rems, Rem, Remain
  <2> QED
    BY <2>1, <2>2 DEF WheelOK, WheelIntegrity
<1> QED
  BY <1>1, <1>2, <1>3, PTL DEF KSpec

\* No wake-up is missed, however late the tick task runs and wherever the tick
\* counter stands: the early exit of the loop in OS_TickListUpdate is right.
THEOREM KernelNoMissedTick ==
  ASSUME Hazard = {}, TickThRdy < TickMod - 1, \A t \in Task : "timeset" \notin Calls[t]
  PROVE  KSpec => []NoMissedTick
<1>1. KInit => WheelInv
  BY WheelInit
<1>2. WheelInv /\ [KNext]_kvars => WheelInv'
  BY WheelInductive
<1>3. WheelInv => NoMissedTick
  BY DEF WheelInv, SpokeInv, NoMissedTick, IntDisabled, NoneDue, Rem, Remain
<1> QED
  BY <1>1, <1>2, <1>3, PTL DEF KSpec

\* No wait is longer than was asked for, for the periodic option as well
\* (OS_TickListInsert), at any distance between calls and on any tick.
THEOREM KernelDelayBounded ==
  ASSUME Hazard = {}, TickThRdy < TickMod - 1, \A t \in Task : "timeset" \notin Calls[t]
  PROVE  KSpec => []DelayBounded
<1>1. KInit => WheelInv
  BY WheelInit
<1>2. WheelInv /\ [KNext]_kvars => WheelInv'
  BY WheelInductive
<1>3. WheelInv => DelayBounded
  BY DEF WheelInv, Bounded, DelayBounded, Rem, Remain
<1> QED
  BY <1>1, <1>2, <1>3, PTL DEF KSpec
=============================================================================
