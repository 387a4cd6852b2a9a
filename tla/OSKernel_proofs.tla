--------------------------- MODULE OSKernel_proofs ---------------------------
(***************************************************************************)
(* The running kernel keeps its types and its ready lists, for every set   *)
(* of tasks, priorities, time-outs and services, as long as no task calls  *)
(* in one of the ways Hazard names.                                        *)
(*                                                                         *)
(* RdyIntegrity is not inductive by itself.  KInv adds that the processor  *)
(* executes a ready task (else a service would take a task out of a list   *)
(* it is not in), that the idle task is always ready (else the scheduler   *)
(* would find no list), and that a TCB between the two halves of           *)
(* OSTaskCreate has one creator and is nobody's victim.                    *)
(*                                                                         *)
(* The first part says what the routines of OSCore do to the ready lists,  *)
(* the bitmap and the task states, routine by routine.  OsInv is the part  *)
(* of the invariant that speaks of the kernel's data alone; SameSched,     *)
(* SameTasks, Eases and Moves say how much of it a routine may disturb.    *)
(***************************************************************************)
EXTENDS OSKernel, TLAPS, SequenceTheorems, WellFoundedInduction

\* A nonempty set of naturals has a least element: the priority OS_PrioGetHighest
\* returns exists.
LEMMA SmallestExists ==
  ASSUME NEW S \in SUBSET Nat, S # {}
  PROVE  \E m \in S : \A n \in S : m <= n
<1>1. IsWellFoundedOn(OpToRel(<, Nat), Nat)
  BY NatLessThanWellFounded
<1>2. PICK m \in S : \A n \in S : ~ (<<n, m>> \in OpToRel(<, Nat))
  BY <1>1, WFMin, Zenon
<1>3. \A n \in S : ~ (n < m)
  BY <1>2 DEF OpToRel
<1> QED
  BY <1>3

\* Unlinking a TCB from a doubly linked list (OS_RdyListRemove, OS_TickListRemove)
\* leaves a list without repetition of the other TCBs.
LEMMA UnlinkIsList ==
  ASSUME NEW T, NEW s \in Seq(T), NEW t
  PROVE  /\ Unlink(s, t) \in Seq(T)
         /\ \A S : IsList(s, S) => IsList(Unlink(s, t), S \ {t})
<1>1. CASE t \notin Range(s)
  BY <1>1 DEF Unlink, IsList
<1>2. CASE t \in Range(s)
  <2> DEFINE n == Pos(s, t)
             u == SubSeq(s, 1, n - 1)
             v == SubSeq(s, n + 1, Len(s))
  <2>1. n \in 1 .. Len(s) /\ s[n] = t
    BY <1>2 DEF Pos, Range
  <2> HIDE DEF n
  <2>2. /\ u \in Seq(T)
        /\ Len(u) = n - 1
        /\ \A i \in 1 .. n - 1 : u[i] = s[i]
    BY <2>1
  <2>3. /\ v \in Seq(T)
        /\ Len(v) = Len(s) - n
        /\ \A i \in 1 .. Len(s) - n : v[i] = s[n + i]
    BY <2>1
  <2> HIDE DEF u, v
  <2> DEFINE w == u \o v
  <2>4. /\ w \in Seq(T)
        /\ Len(w) = Len(u) + Len(v)
        /\ \A i \in 1 .. Len(u) + Len(v) :
             w[i] = IF i <= Len(u) THEN u[i] ELSE v[i - Len(u)]
    BY <2>2, <2>3, ConcatProperties
  <2> HIDE DEF w
  <2>a. /\ Len(s) \in Nat
        /\ n \in 1 .. Len(s)
        /\ Len(u) + Len(v) = Len(s) - 1
    BY <2>1, <2>2, <2>3
  <2>b. w \in Seq(T) /\ Len(w) = Len(s) - 1
    BY <2>4, <2>a
  <2>c. ASSUME NEW i \in 1 .. n - 1
        PROVE  w[i] = s[i]
    <3>1. i \in 1 .. Len(u) + Len(v) /\ i <= Len(u)
      BY <2>2, <2>a
    <3>2. w[i] = u[i]
      BY <2>4, <3>1
    <3> QED
      BY <2>2, <3>2
  <2>d. ASSUME NEW i \in n .. Len(s) - 1
        PROVE  w[i] = s[i + 1]
    <3>1. i \in 1 .. Len(u) + Len(v) /\ ~ (i <= Len(u))
      BY <2>2, <2>a
    <3>2. w[i] = v[i - Len(u)]
      BY <2>4, <3>1
    <3>3. i - Len(u) \in 1 .. Len(s) - n /\ n + (i - Len(u)) = i + 1
      BY <2>2, <2>a
    <3> QED
      BY <2>3, <3>2, <3>3
  <2>5. Unlink(s, t) = w
    BY <1>2 DEF Unlink, w, u, v, n
  <2>6. ASSUME NEW S, IsList(s, S)
        PROVE  IsList(w, S \ {t})
    <3>1. /\ Range(s) = S
          /\ \A i, j \in 1 .. Len(s) : s[i] = s[j] => i = j
      BY <2>6 DEF IsList
    <3>2. DOMAIN w = 1 .. Len(s) - 1
      BY <2>b, <2>c, <2>d
    <3>3. ASSUME NEW i \in 1 .. Len(s) - 1, NEW j \in 1 .. Len(s) - 1, w[i] = w[j]
          PROVE  i = j
      <4>1. \A k \in 1 .. Len(s) - 1 : \/ k < n /\ w[k] = s[k]
                                       \/ k >= n /\ w[k] = s[k + 1]
        BY <2>a, <2>c, <2>d
      <4> QED
        BY <2>a, <3>1, <3>3, <4>1
    <3>4. Range(w) \subseteq S \ {t}
      <4>1. \A i \in 1 .. Len(s) : i # n => s[i] \in S \ {t}
        BY <2>1, <3>1 DEF Range
      <4>2. ASSUME NEW i \in 1 .. Len(s) - 1
            PROVE  w[i] \in S \ {t}
        <5>1. CASE i < n
          BY <2>a, <2>1, <2>b, <2>c, <2>d, <4>1, <5>1
        <5>2. CASE i >= n
          <6>1. i \in n .. Len(s) - 1 /\ i + 1 \in 1 .. Len(s) /\ i + 1 # n
            BY <2>1, <5>2
          <6> QED
            BY <2>b, <2>c, <2>d, <4>1, <6>1
        <5> QED
          BY <2>1, <5>1, <5>2
      <4> QED
        BY <3>2, <4>2 DEF Range
    <3>5. ASSUME NEW x \in S \ {t}
          PROVE  x \in Range(w)
      <4>1. PICK i \in 1 .. Len(s) : s[i] = x
        BY <3>1, <3>5 DEF Range
      <4>2. CASE i < n
        <5>1. i \in 1 .. Len(s) - 1 /\ w[i] = x
          BY <2>a, <2>1, <2>b, <2>c, <2>d, <4>1, <4>2
        <5> QED
          BY <5>1, <3>2 DEF Range
      <4>3. CASE i > n
        <5>1. i - 1 \in n .. Len(s) - 1 /\ (i - 1) + 1 = i
          BY <2>1, <4>3
        <5>2. w[i - 1] = x
          BY <2>b, <2>c, <2>d, <4>1, <5>1
        <5>3. i - 1 \in 1 .. Len(s) - 1
          BY <2>1, <5>1
        <5> QED
          BY <5>2, <5>3, <3>2 DEF Range
      <4> QED
        BY <2>1, <3>5, <4>1, <4>2, <4>3
    <3> QED
      BY <3>2, <3>3, <3>4, <3>5 DEF IsList
  <2> QED
    BY <2>b, <2>c, <2>d, <2>5, <2>6
<1> QED
  BY <1>1, <1>2

\* Linking an element in front of another one (OS_TickListInsert,
\* OS_PendListInsertPrio) yields a list of the old elements and the new one.
LEMMA LinkBeforeIsSeq ==
  ASSUME NEW T, NEW s \in Seq(T), NEW t \in T, NEW Stop
  PROVE  LinkBefore(s, t, Stop) \in Seq(T)
<1> DEFINE stops == {i \in DOMAIN s : s[i] \in Stop}
           at    == IF stops = {} THEN Len(s) + 1
                                  ELSE CHOOSE i \in stops : \A j \in stops : i <= j
<1>1. at \in 1 .. Len(s) + 1
  <2>1. CASE stops = {}
    BY <2>1
  <2>2. CASE stops # {}
    <3>1. stops \in SUBSET Nat /\ stops \subseteq 1 .. Len(s)
      OBVIOUS
    <3>2. \E i \in stops : \A j \in stops : i <= j
      BY <2>2, <3>1, SmallestExists
    <3> QED
      BY <2>2, <3>1, <3>2
  <2> QED
    BY <2>1, <2>2
<1>2. LinkBefore(s, t, Stop) = SubSeq(s, 1, at - 1) \o <<t>> \o SubSeq(s, at, Len(s))
  BY DEF LinkBefore
<1> HIDE DEF at
<1>3. SubSeq(s, 1, at - 1) \in Seq(T) /\ SubSeq(s, at, Len(s)) \in Seq(T)
  BY <1>1
<1> QED
  BY <1>2, <1>3

\* OS_RdyListInsertTail links a TCB once.
LEMMA AppendIsList ==
  ASSUME NEW T, NEW s \in Seq(T), NEW t, NEW S, IsList(s, S), t \notin S
  PROVE  IsList(Append(s, t), S \cup {t})
<1>1. /\ Range(s) = S
      /\ \A i, j \in 1 .. Len(s) : s[i] = s[j] => i = j
  BY DEF IsList
<1>2. /\ DOMAIN Append(s, t) = 1 .. Len(s) + 1
      /\ \A i \in 1 .. Len(s) : Append(s, t)[i] = s[i] /\ s[i] # t
      /\ Append(s, t)[Len(s) + 1] = t
  BY <1>1 DEF Range
<1>3. Range(Append(s, t)) = S \cup {t}
  BY <1>1, <1>2 DEF Range
<1>4. \A i, j \in 1 .. Len(s) + 1 : Append(s, t)[i] = Append(s, t)[j] => i = j
  BY <1>1, <1>2
<1> QED
  BY <1>2, <1>3, <1>4 DEF IsList

\* OS_RdyListInsertHead links a TCB once.
LEMMA PrependIsList ==
  ASSUME NEW T, NEW s \in Seq(T), NEW t \in T, NEW S, IsList(s, S), t \notin S
  PROVE  /\ <<t>> \o s \in Seq(T)
         /\ IsList(<<t>> \o s, S \cup {t})
<1> DEFINE u == <<t>> \o s
<1>1. /\ Range(s) = S
      /\ \A i, j \in 1 .. Len(s) : s[i] = s[j] => i = j
  BY DEF IsList
<1>2. /\ u \in Seq(T)
      /\ DOMAIN u = 1 .. Len(s) + 1
      /\ u[1] = t
      /\ \A i \in 2 .. Len(s) + 1 : u[i] = s[i - 1]
  OBVIOUS
<1> HIDE DEF u
<1>3. \A i \in 1 .. Len(s) : u[i + 1] = s[i] /\ s[i] # t
  BY <1>1, <1>2 DEF Range
<1>4. Range(u) = S \cup {t}
  <2>1. ASSUME NEW x \in S
        PROVE  x \in Range(u)
    <3>1. PICK i \in 1 .. Len(s) : s[i] = x
      BY <1>1 DEF Range
    <3> QED
      BY <1>2, <1>3, <3>1 DEF Range
  <2>2. t \in Range(u)
    BY <1>2 DEF Range
  <2>3. ASSUME NEW i \in 1 .. Len(s) + 1
        PROVE  u[i] \in S \cup {t}
    BY <1>1, <1>2 DEF Range
  <2> QED
    BY <1>2, <2>1, <2>2, <2>3 DEF Range
<1>5. ASSUME NEW i \in 1 .. Len(s) + 1, NEW j \in 1 .. Len(s) + 1, u[i] = u[j]
      PROVE  i = j
  <2>1. \A k \in 2 .. Len(s) + 1 : k - 1 \in 1 .. Len(s) /\ u[k] = s[k - 1] /\ u[k] # t
    BY <1>2, <1>3
  <2>2. CASE i = 1 \/ j = 1
    BY <1>2, <1>5, <2>1, <2>2
  <2>3. CASE i # 1 /\ j # 1
    <3>1. i \in 2 .. Len(s) + 1 /\ j \in 2 .. Len(s) + 1
      BY <2>3
    <3>2. i - 1 = j - 1
      BY <1>1, <1>5, <2>1, <3>1
    <3> QED
      BY <3>2
  <2> QED
    BY <2>2, <2>3
<1> QED
  BY <1>2, <1>4, <1>5 DEF IsList, u

\* OS_RdyListMoveHeadToTail keeps the list a permutation of itself.
LEMMA MoveHeadIsList ==
  ASSUME NEW T, NEW s \in Seq(T), NEW S, IsList(s, S), s # <<>>
  PROVE  /\ Append(Tail(s), Head(s)) \in Seq(T)
         /\ IsList(Append(Tail(s), Head(s)), S)
<1> DEFINE r == Tail(s)
           h == Head(s)
<1>1. /\ Range(s) = S
      /\ \A i, j \in 1 .. Len(s) : s[i] = s[j] => i = j
  BY DEF IsList
<1>2. /\ r \in Seq(T) /\ Len(r) = Len(s) - 1
      /\ \A i \in 1 .. Len(s) - 1 : r[i] = s[i + 1]
      /\ h = s[1] /\ h \in T
      /\ Len(s) >= 1
  OBVIOUS
<1> HIDE DEF r, h
<1>3. IsList(r, S \ {h})
  <2>1. \A i, j \in 1 .. Len(s) - 1 : r[i] = r[j] => i = j
    BY <1>1, <1>2
  <2>2. Range(r) \subseteq S \ {h}
    BY <1>1, <1>2 DEF Range
  <2>3. ASSUME NEW x \in S \ {h}
        PROVE  x \in Range(r)
    <3>1. PICK i \in 1 .. Len(s) : s[i] = x
      BY <1>1 DEF Range
    <3>2. i - 1 \in 1 .. Len(s) - 1 /\ (i - 1) + 1 = i
      BY <1>2, <2>3, <3>1
    <3>3. r[i - 1] = x
      BY <1>2, <3>1, <3>2
    <3> QED
      BY <1>2, <3>2, <3>3 DEF Range
  <2> QED
    BY <1>2, <2>1, <2>2, <2>3 DEF IsList
<1>4. h \in S
  BY <1>1, <1>2 DEF Range
<1>5. IsList(Append(r, h), (S \ {h}) \cup {h})
  BY <1>2, <1>3, AppendIsList
<1>6. (S \ {h}) \cup {h} = S
  BY <1>4
<1>7. Append(r, h) \in Seq(T)
  BY <1>2
<1> QED
  BY <1>5, <1>6, <1>7 DEF r, h
-----------------------------------------------------------------------------
(* Ready lists: what the operations do to RdyOK. *)

\* A list is replaced by one that holds its tasks and t.
LEMMA RdyEnter ==
  ASSUME NEW rdy \in [Prio -> Seq(Task)], NEW prio, NEW tbl, NEW S, RdyOK(rdy, prio, tbl, S),
         NEW t, t \notin S, prio[t] \in Prio,
         NEW l, IsList(l, {u \in S : prio[u] = prio[t]} \cup {t})
  PROVE  RdyOK([rdy EXCEPT ![prio[t]] = l], prio, tbl \cup {prio[t]}, S \cup {t})
<1> DEFINE p == prio[t]
           rdy2 == [rdy EXCEPT ![p] = l]
<1>1. \A u \in S \cup {t} : prio[u] \in Prio
  BY DEF RdyOK
<1>2. ASSUME NEW q \in Prio
      PROVE  IsList(rdy2[q], {u \in S \cup {t} : prio[u] = q})
  <2>1. CASE q = p
    <3>1. {u \in S : prio[u] = p} \cup {t} = {u \in S \cup {t} : prio[u] = p}
      OBVIOUS
    <3> QED
      BY <2>1, <3>1
  <2>2. CASE q # p
    <3>1. {u \in S : prio[u] = q} = {u \in S \cup {t} : prio[u] = q}
      BY <2>2
    <3>2. IsList(rdy[q], {u \in S : prio[u] = q})
      BY DEF RdyOK
    <3> QED
      BY <2>2, <3>1, <3>2
  <2> QED
    BY <2>1, <2>2
<1>3. l # <<>>
  BY DEF IsList, Range
<1>4. tbl \cup {p} = {q \in Prio : rdy2[q] # <<>>}
  BY <1>3 DEF RdyOK
<1> QED
  BY <1>1, <1>2, <1>4 DEF RdyOK

\* A task leaves its list.
LEMMA RdyLeave ==
  ASSUME NEW rdy \in [Prio -> Seq(Task)], NEW prio, NEW tbl, NEW S, RdyOK(rdy, prio, tbl, S),
         NEW t \in S
  PROVE  LET l == Unlink(rdy[prio[t]], t)
         IN  /\ t \in Range(rdy[prio[t]])
             /\ l \in Seq(Task)
             /\ RdyOK([rdy EXCEPT ![prio[t]] = l], prio,
                      IF l = <<>> THEN tbl \ {prio[t]} ELSE tbl, S \ {t})
<1> DEFINE p == prio[t]
           l == Unlink(rdy[p], t)
           rdy2 == [rdy EXCEPT ![p] = l]
<1>1. p \in Prio
  BY DEF RdyOK
<1>2. IsList(rdy[p], {u \in S : prio[u] = p})
  BY <1>1 DEF RdyOK
<1>3. t \in Range(rdy[p])
  BY <1>2 DEF IsList
<1>4. l \in Seq(Task) /\ IsList(l, {u \in S : prio[u] = p} \ {t})
  BY <1>1, <1>2, UnlinkIsList
<1> HIDE DEF l
<1>5. ASSUME NEW q \in Prio
      PROVE  IsList(rdy2[q], {u \in S \ {t} : prio[u] = q})
  <2>1. CASE q = p
    <3>1. {u \in S : prio[u] = p} \ {t} = {u \in S \ {t} : prio[u] = p}
      OBVIOUS
    <3> QED
      BY <1>1, <1>4, <2>1, <3>1
  <2>2. CASE q # p
    <3>1. {u \in S : prio[u] = q} = {u \in S \ {t} : prio[u] = q}
      BY <2>2
    <3>2. IsList(rdy[q], {u \in S : prio[u] = q})
      BY DEF RdyOK
    <3> QED
      BY <2>2, <3>1, <3>2
  <2> QED
    BY <2>1, <2>2
<1>6. (IF l = <<>> THEN tbl \ {p} ELSE tbl) = {q \in Prio : rdy2[q] # <<>>}
  <2>1. rdy[p] # <<>>
    BY <1>3 DEF Range
  <2> QED
    BY <1>1, <2>1 DEF RdyOK
<1>7. \A u \in S \ {t} : prio[u] \in Prio
  BY DEF RdyOK
<1> QED
  BY <1>3, <1>4, <1>5, <1>6, <1>7 DEF RdyOK, l

\* A list is replaced by a permutation of itself.
LEMMA RdyPermute ==
  ASSUME NEW rdy \in [Prio -> Seq(Task)], NEW prio, NEW tbl, NEW S, RdyOK(rdy, prio, tbl, S),
         NEW p \in Prio, rdy[p] # <<>>,
         NEW l, IsList(l, {u \in S : prio[u] = p}), l # <<>>
  PROVE  RdyOK([rdy EXCEPT ![p] = l], prio, tbl, S)
<1>1. \A q \in Prio : IsList([rdy EXCEPT ![p] = l][q], {u \in S : prio[u] = q})
  BY DEF RdyOK
<1>2. tbl = {q \in Prio : [rdy EXCEPT ![p] = l][q] # <<>>}
  BY DEF RdyOK
<1> QED
  BY <1>1, <1>2 DEF RdyOK

\* The priority of a task that is in no list changes.
LEMMA RdyPrioFrame ==
  ASSUME NEW rdy, NEW prio, NEW prio2, NEW tbl, NEW S, RdyOK(rdy, prio, tbl, S),
         \A u \in S : prio2[u] = prio[u]
  PROVE  RdyOK(rdy, prio2, tbl, S)
<1>1. \A q : {u \in S : prio2[u] = q} = {u \in S : prio[u] = q}
  OBVIOUS
<1> QED
  BY <1>1 DEF RdyOK
-----------------------------------------------------------------------------
(* The operations on the kernel data. *)

\* The ready lists of o hold exactly the tasks S.
Rdy(o, S) == RdyOK(o.OSRdyList, o.Prio, o.OSPrioTbl, S)

\* The tasks' states and priorities and the processor's allocation are the same.
SameTasks(o, o2) ==
  /\ o2.TaskState = o.TaskState /\ o2.Prio = o.Prio
  /\ o2.OSTCBCurPtr = o.OSTCBCurPtr /\ o2.OSRunning = o.OSRunning
  /\ o2.OSSchedLockNestingCtr = o.OSSchedLockNestingCtr

\* And the ready lists.
SameSched(o, o2) ==
  SameTasks(o, o2) /\ o2.OSRdyList = o.OSRdyList /\ o2.OSPrioTbl = o.OSPrioTbl

\* OS_RdyListInsertHead, with the OS_PrioInsert its callers do, keeps bitmap and
\* lists in step.
LEMMA InsertHeadLemma ==
  ASSUME NEW o \in KState, NEW t \in Task, o.Prio[t] \in Prio,
         NEW S, Rdy(o, S), t \notin S
  PROVE  LET o2 == OS_RdyListInsertHead(OS_PrioInsert(o, o.Prio[t]), t)
         IN  o2 \in KState /\ Rdy(o2, S \cup {t}) /\ SameTasks(o, o2)
<1> DEFINE p  == o.Prio[t]
           l  == <<t>> \o o.OSRdyList[p]
           o2 == OS_RdyListInsertHead(OS_PrioInsert(o, p), t)
<1>1. o.OSRdyList \in [Prio -> Seq(Task)] /\ o.OSPrioTbl \in SUBSET Prio
  BY DEF KState
<1>2. IsList(o.OSRdyList[p], {u \in S : o.Prio[u] = p})
  BY DEF Rdy, RdyOK
<1>3. l \in Seq(Task) /\ IsList(l, {u \in S : o.Prio[u] = p} \cup {t})
  BY <1>1, <1>2, PrependIsList
<1>4. RdyOK([o.OSRdyList EXCEPT ![p] = l], o.Prio, o.OSPrioTbl \cup {p}, S \cup {t})
  BY <1>1, <1>3, RdyEnter DEF Rdy
<1> HIDE DEF l
<1>5. o2 = [o EXCEPT !.OSRdyList = [o.OSRdyList EXCEPT ![p] = l], !.OSPrioTbl = o.OSPrioTbl \cup {p}]
  BY DEF OS_RdyListInsertHead, OS_PrioInsert, l, KState
<1> HIDE DEF o2
<1>6. [o.OSRdyList EXCEPT ![p] = l] \in [Prio -> Seq(Task)] /\ o.OSPrioTbl \cup {p} \in SUBSET Prio
  BY <1>1, <1>3
<1>7. o2 \in KState
  BY <1>5, <1>6 DEF KState
<1>8. Rdy(o2, S \cup {t})
  BY <1>4, <1>5 DEF Rdy, KState
<1>9. SameTasks(o, o2)
  BY <1>5 DEF SameTasks, KState
<1> QED
  BY <1>7, <1>8, <1>9 DEF o2

\* OS_RdyListInsertTail, with the OS_PrioInsert its callers do, keeps bitmap and
\* lists in step.
LEMMA InsertTailLemma ==
  ASSUME NEW o \in KState, NEW t \in Task, o.Prio[t] \in Prio,
         NEW S, Rdy(o, S), t \notin S
  PROVE  LET o2 == OS_RdyListInsertTail(OS_PrioInsert(o, o.Prio[t]), t)
         IN  o2 \in KState /\ Rdy(o2, S \cup {t}) /\ SameTasks(o, o2)
<1> DEFINE p  == o.Prio[t]
           l  == Append(o.OSRdyList[p], t)
           o2 == OS_RdyListInsertTail(OS_PrioInsert(o, p), t)
<1>1. o.OSRdyList \in [Prio -> Seq(Task)] /\ o.OSPrioTbl \in SUBSET Prio
  BY DEF KState
<1>2. IsList(o.OSRdyList[p], {u \in S : o.Prio[u] = p})
  BY DEF Rdy, RdyOK
<1>3. l \in Seq(Task) /\ IsList(l, {u \in S : o.Prio[u] = p} \cup {t})
  <2>1. o.OSRdyList[p] \in Seq(Task)
    BY <1>1
  <2>2. l \in Seq(Task)
    BY <2>1
  <2>3. t \notin {u \in S : o.Prio[u] = p}
    OBVIOUS
  <2> HIDE DEF p
  <2>4. IsList(l, {u \in S : o.Prio[u] = p} \cup {t})
    BY <1>2, <2>1, <2>3, AppendIsList
  <2> QED
    BY <2>2, <2>4
<1>4. RdyOK([o.OSRdyList EXCEPT ![p] = l], o.Prio, o.OSPrioTbl \cup {p}, S \cup {t})
  BY <1>1, <1>3, RdyEnter DEF Rdy
<1> HIDE DEF l
<1>5. o2 = [o EXCEPT !.OSRdyList = [o.OSRdyList EXCEPT ![p] = l], !.OSPrioTbl = o.OSPrioTbl \cup {p}]
  BY DEF OS_RdyListInsertTail, OS_PrioInsert, l, KState
<1> HIDE DEF o2
<1>6. [o.OSRdyList EXCEPT ![p] = l] \in [Prio -> Seq(Task)] /\ o.OSPrioTbl \cup {p} \in SUBSET Prio
  BY <1>1, <1>3
<1>7. o2 \in KState
  BY <1>5, <1>6 DEF KState
<1>8. Rdy(o2, S \cup {t})
  BY <1>4, <1>5 DEF Rdy, KState
<1>9. SameTasks(o, o2)
  BY <1>5 DEF SameTasks, KState
<1> QED
  BY <1>7, <1>8, <1>9 DEF o2

\* OS_RdyListInsert, at the head or at the tail, keeps bitmap and lists in step.
LEMMA RdyListInsertLemma ==
  ASSUME NEW o \in KState, NEW t \in Task, o.Prio[t] \in Prio,
         NEW S, Rdy(o, S), t \notin S
  PROVE  LET o2 == OS_RdyListInsert(o, t)
         IN  o2 \in KState /\ Rdy(o2, S \cup {t}) /\ SameTasks(o, o2)
BY InsertHeadLemma, InsertTailLemma DEF OS_RdyListInsert

\* OS_RdyListRemove clears the bit of the priority exactly when its list empties.
LEMMA RdyListRemoveLemma ==
  ASSUME NEW o \in KState, NEW S, Rdy(o, S), NEW t \in S
  PROVE  LET o2 == OS_RdyListRemove(o, t)
         IN  o2 \in KState /\ Rdy(o2, S \ {t}) /\ SameTasks(o, o2)
<1> DEFINE p   == o.Prio[t]
           l   == Unlink(o.OSRdyList[p], t)
           tbl == IF l = <<>> THEN o.OSPrioTbl \ {p} ELSE o.OSPrioTbl
           o2  == OS_RdyListRemove(o, t)
<1>1. o.OSRdyList \in [Prio -> Seq(Task)] /\ o.OSPrioTbl \in SUBSET Prio
  BY DEF KState
<1>2. /\ t \in Range(o.OSRdyList[p])
      /\ l \in Seq(Task)
      /\ RdyOK([o.OSRdyList EXCEPT ![p] = l], o.Prio, tbl, S \ {t})
  BY <1>1, RdyLeave DEF Rdy
<1>3. tbl \in SUBSET Prio
  BY <1>1
<1> HIDE DEF l
<1>4. o2 = [o EXCEPT !.OSRdyList = [o.OSRdyList EXCEPT ![p] = l], !.OSPrioTbl = tbl]
  BY <1>2 DEF OS_RdyListRemove, l, KState
<1> HIDE DEF o2, tbl
<1>5. [o.OSRdyList EXCEPT ![p] = l] \in [Prio -> Seq(Task)]
  BY <1>1, <1>2
<1>6. o2 \in KState
  BY <1>3, <1>4, <1>5 DEF KState
<1>7. Rdy(o2, S \ {t})
  BY <1>2, <1>4 DEF Rdy, KState
<1>8. SameTasks(o, o2)
  BY <1>4 DEF SameTasks, KState
<1> QED
  BY <1>6, <1>7, <1>8 DEF o2

\* OS_RdyListMoveHeadToTail reorders one ready list and nothing else.
LEMMA MoveHeadToTailLemma ==
  ASSUME NEW o \in KState, NEW S, Rdy(o, S), NEW p \in Prio
  PROVE  LET o2 == OS_RdyListMoveHeadToTail(o, p)
         IN  /\ o2 \in KState /\ Rdy(o2, S) /\ SameTasks(o, o2)
             /\ Len(o.OSRdyList[p]) >= 2 => o2.OSRdyList[p] # <<>>
<1> DEFINE s  == o.OSRdyList[p]
           l  == IF Len(s) < 2 THEN s ELSE Append(Tail(s), Head(s))
           o2 == OS_RdyListMoveHeadToTail(o, p)
<1>1. o.OSRdyList \in [Prio -> Seq(Task)] /\ s \in Seq(Task)
  BY DEF KState
<1>2. IsList(s, {u \in S : o.Prio[u] = p})
  BY DEF Rdy, RdyOK
<1>3. l \in Seq(Task) /\ IsList(l, {u \in S : o.Prio[u] = p}) /\ (s # <<>> => l # <<>>)
  <2>1. CASE Len(s) < 2
    BY <1>1, <1>2, <2>1
  <2>2. CASE Len(s) >= 2
    <3>1. s # <<>> /\ l = Append(Tail(s), Head(s))
      BY <1>1, <2>2
    <3>2. l \in Seq(Task) /\ IsList(l, {u \in S : o.Prio[u] = p})
      BY <1>1, <1>2, <3>1, MoveHeadIsList
    <3>3. l # <<>>
      <4>1. Tail(s) \in Seq(Task) /\ Head(s) \in Task
        BY <1>1, <3>1
      <4> QED
        BY <3>1, <4>1
    <3> QED
      BY <3>2, <3>3
  <2> QED
    BY <1>1, <2>1, <2>2
<1>4. RdyOK([o.OSRdyList EXCEPT ![p] = l], o.Prio, o.OSPrioTbl, S)
  <2>1. CASE s = <<>>
    <3>1. l = s
      BY <2>1
    <3>2. [o.OSRdyList EXCEPT ![p] = l] = o.OSRdyList
      BY <1>1, <3>1
    <3> QED
      BY <3>2 DEF Rdy
  <2>2. CASE s # <<>>
    <3> HIDE DEF l
    <3> QED
      BY <1>1, <1>3, <2>2, RdyPermute DEF Rdy
  <2> QED
    BY <2>1, <2>2
<1>5. o2 = [o EXCEPT !.OSRdyList = [o.OSRdyList EXCEPT ![p] = l]]
  BY DEF OS_RdyListMoveHeadToTail
<1> HIDE DEF l, o2
<1>6. o2 \in KState
  <2>1. [o.OSRdyList EXCEPT ![p] = l] \in [Prio -> Seq(Task)]
    BY <1>1, <1>3
  <2> QED
    BY <1>5, <2>1 DEF KState
<1>7. Rdy(o2, S)
  BY <1>4, <1>5 DEF Rdy, KState
<1>8. SameTasks(o, o2)
  BY <1>5 DEF SameTasks, KState
<1>9. Len(s) >= 2 => o2.OSRdyList[p] # <<>>
  <2>1. o2.OSRdyList[p] = l
    BY <1>1, <1>5 DEF KState
  <2>2. Len(s) >= 2 => s # <<>>
    BY <1>1
  <2> QED
    BY <1>3, <2>1, <2>2
<1> QED
  BY <1>6, <1>7, <1>8, <1>9 DEF o2

\* Reloading the time slice of the head of a list (OS_SchedRoundRobin,
\* OSSchedRoundRobinYield) touches no list and no task state.
LEMMA ReloadLemma ==
  ASSUME NEW o \in KState, NEW t \in Task
  PROVE  Reload(o, t) \in KState /\ SameSched(o, Reload(o, t))
<1> DEFINE q == IF o.TimeQuanta[t] = 0 THEN o.OSSchedRoundRobinDfltTimeQuanta ELSE o.TimeQuanta[t]
<1>1. q \in Nat /\ o.TimeQuantaCtr \in [Task -> Nat]
  BY DEF KState
<1>2. Reload(o, t) = [o EXCEPT !.TimeQuantaCtr = [o.TimeQuantaCtr EXCEPT ![t] = q]]
  BY DEF Reload
<1> HIDE DEF q
<1>3. Reload(o, t) \in KState
  <2>1. [o.TimeQuantaCtr EXCEPT ![t] = q] \in [Task -> Nat]
    BY <1>1
  <2> QED
    BY <1>2, <2>1, ZenonT(60) DEF KState
<1>4. SameSched(o, Reload(o, t))
  BY <1>2 DEF KState, SameSched, SameTasks
<1> QED
  BY <1>3, <1>4

\* Rotating a ready list and reloading the slice of its new head keeps the
\* ready lists well formed.
LEMMA RotateLemma ==
  ASSUME NEW o \in KState, NEW S, Rdy(o, S), NEW p \in Prio, Len(o.OSRdyList[p]) >= 2
  PROVE  Rotate(o, p) \in KState /\ Rdy(Rotate(o, p), S) /\ SameTasks(o, Rotate(o, p))
<1> DEFINE o1 == OS_RdyListMoveHeadToTail(o, p)
           h  == Head(o1.OSRdyList[p])
<1>1. o1 \in KState /\ Rdy(o1, S) /\ SameTasks(o, o1) /\ o1.OSRdyList[p] # <<>>
  BY MoveHeadToTailLemma
<1>2. Rotate(o, p) = Reload(o1, h)
  BY DEF Rotate
<1> HIDE DEF o1
<1>3. h \in Task
  <2>1. o1.OSRdyList[p] \in Seq(Task)
    BY <1>1 DEF KState
  <2> QED
    BY <1>1, <2>1
<1> HIDE DEF h
<1>4. Reload(o1, h) \in KState /\ SameSched(o1, Reload(o1, h))
  BY <1>1, <1>3, ReloadLemma
<1> QED
  BY <1>1, <1>2, <1>4 DEF SameSched, SameTasks, Rdy

\* OS_SchedRoundRobin, called by every tick, keeps the ready lists well formed on
\* each of its early returns.
LEMMA SchedRoundRobinLemma ==
  ASSUME NEW o \in KState, NEW S, Rdy(o, S)
  PROVE  LET o2 == OS_SchedRoundRobin(o)
         IN  o2 \in KState /\ Rdy(o2, S) /\ SameTasks(o, o2)
<1> DEFINE p == o.OSPrioCur
           s == o.OSRdyList[p]
           h == Head(s)
           n == IF o.TimeQuantaCtr[h] > 0 THEN o.TimeQuantaCtr[h] - 1 ELSE 0
           o1 == [o EXCEPT !.TimeQuantaCtr[h] = n]
           o2 == OS_SchedRoundRobin(o)
<1>0. SameTasks(o, o)
  BY DEF SameTasks
<1>1. p \in Prio /\ s \in Seq(Task)
  BY DEF KState
<1>2. CASE ~o.OSSchedRoundRobinEn \/ s = <<>> \/ h = IdleTask
  <2>1. o2 = o
    BY <1>2 DEF OS_SchedRoundRobin
  <2> QED
    BY <1>0, <2>1
<1>3. CASE ~(~o.OSSchedRoundRobinEn \/ s = <<>> \/ h = IdleTask)
  <2>1. h \in Task
    BY <1>1, <1>3
  <2>2. o1 \in KState /\ SameSched(o, o1)
    <3>0. o.TimeQuantaCtr \in [Task -> Nat]
      BY DEF KState
    <3>1. n \in Nat /\ o.TimeQuantaCtr \in [Task -> Nat]
      <4>1. o.TimeQuantaCtr[h] \in Nat
        BY <2>1, <3>0
      <4> QED
        BY <3>0, <4>1
    <3> HIDE DEF n, h
    <3>2. [o.TimeQuantaCtr EXCEPT ![h] = n] \in [Task -> Nat]
      BY <2>1, <3>1
    <3>3. o1 \in KState
      BY <3>2 DEF KState
    <3> QED
      BY <3>3 DEF KState, SameSched, SameTasks
  <2>3. o2 = IF o1.TimeQuantaCtr[h] > 0 \/ Len(s) < 2 \/ o.OSSchedLockNestingCtr > 0 THEN o1
             ELSE Rotate(o1, p)
    BY <1>3 DEF OS_SchedRoundRobin
  <2> HIDE DEF o1, o2
  <2>4. Rdy(o1, S) /\ SameTasks(o, o1) /\ o1.OSRdyList[p] = s
    BY <2>2 DEF SameSched, SameTasks, Rdy
  <2>5. CASE o2 = o1
    BY <2>2, <2>4, <2>5 DEF o2
  <2>6. CASE o2 # o1
    <3>1. o2 = Rotate(o1, p) /\ Len(s) >= 2
      <4>1. Len(s) \in Nat
        BY <1>1
      <4> QED
        BY <2>3, <2>6, <4>1
    <3>2. o2 \in KState /\ Rdy(o2, S) /\ SameTasks(o1, o2)
      BY <1>1, <2>2, <2>4, <3>1, RotateLemma
    <3> QED
      BY <2>4, <3>2 DEF SameTasks, o2
  <2> QED
    BY <2>5, <2>6
<1> QED
  BY <1>2, <1>3

\* What OSSched, OSIntExit and OSStart select is a task that may run.
LEMMA HighRdyLemma ==
  ASSUME NEW o \in KState, NEW S, Rdy(o, S), S # {}
  PROVE  OS_PrioGetHighest(o) \in Prio /\ HighRdy(o) \in S
<1> DEFINE p == OS_PrioGetHighest(o)
<1>1. o.OSPrioTbl \in SUBSET Nat /\ o.OSPrioTbl \in SUBSET Prio
  <2>1. o.OSPrioTbl \in SUBSET Prio
    BY DEF KState
  <2>2. Prio \subseteq Nat
    BY CoreAssumption DEF Prio
  <2> QED
    BY <2>1, <2>2
<1>2. o.OSPrioTbl # {}
  <2>1. PICK t \in S : TRUE
    OBVIOUS
  <2>2. o.Prio[t] \in Prio
    BY DEF Rdy, RdyOK
  <2>3. t \in Range(o.OSRdyList[o.Prio[t]])
    BY <2>2 DEF Rdy, RdyOK, IsList
  <2>4. o.OSRdyList[o.Prio[t]] # <<>>
    BY <2>3 DEF Range
  <2> QED
    BY <2>2, <2>4 DEF Rdy, RdyOK
<1>3. \E q \in o.OSPrioTbl : \A r \in o.OSPrioTbl : q <= r
  BY <1>1, <1>2, SmallestExists
<1>4. p \in o.OSPrioTbl
  BY <1>3 DEF OS_PrioGetHighest
<1> HIDE DEF p
<1>5. p \in Prio /\ o.OSRdyList[p] # <<>> /\ IsList(o.OSRdyList[p], {t \in S : o.Prio[t] = p})
  BY <1>1, <1>4 DEF Rdy, RdyOK
<1>6. o.OSRdyList[p] \in Seq(Task)
  BY <1>5 DEF KState
<1>7. Head(o.OSRdyList[p]) \in Range(o.OSRdyList[p])
  BY <1>5, <1>6 DEF Range
<1> QED
  BY <1>5, <1>7 DEF HighRdy, IsList, p

\* OSCtxSw and OSIntCtxSw change the current task and nothing else.
LEMMA CtxSwLemma ==
  ASSUME NEW o \in KState, NEW S, Rdy(o, S), S # {}, S \subseteq Task
  PROVE  LET o2 == CtxSw(o)
         IN  /\ o2 \in KState /\ Rdy(o2, S)
             /\ o2.TaskState = o.TaskState /\ o2.Prio = o.Prio /\ o2.OSRunning = o.OSRunning
             /\ o2.OSSchedLockNestingCtr = o.OSSchedLockNestingCtr
             /\ o2.OSTCBCurPtr \in S
<1>1. OS_PrioGetHighest(o) \in Prio /\ HighRdy(o) \in S
  BY HighRdyLemma
<1>2. HighRdy(o) \in Task \cup {NoTask}
  BY <1>1
<1>3. CtxSw(o) \in KState
  BY <1>1, <1>2 DEF CtxSw, KState
<1> QED
  BY <1>1, <1>3 DEF CtxSw, KState, Rdy

\* After OSSched the current task may run, unless the lock keeps another one.
LEMMA RescheduleLemma ==
  ASSUME NEW o \in KState, NEW S, Rdy(o, S), S # {}, S \subseteq Task
  PROVE  LET o2 == Reschedule(o)
         IN  /\ o2 \in KState /\ Rdy(o2, S)
             /\ o2.TaskState = o.TaskState /\ o2.Prio = o.Prio /\ o2.OSRunning = o.OSRunning
             /\ o2.OSSchedLockNestingCtr = o.OSSchedLockNestingCtr
             /\ o.OSSchedLockNestingCtr = 0 => o2.OSTCBCurPtr \in S
             /\ o2.OSTCBCurPtr \in S \/ o2.OSTCBCurPtr = o.OSTCBCurPtr
             /\ o.OSSchedLockNestingCtr > 0 => o2.OSTCBCurPtr = o.OSTCBCurPtr
<1>1. OS_PrioGetHighest(o) \in Prio /\ HighRdy(o) \in S
  BY HighRdyLemma
<1>2. o.OSSchedLockNestingCtr \in Nat
  BY DEF KState
<1>3. CASE o.OSSchedLockNestingCtr > 0 \/ HighRdy(o) = o.OSTCBCurPtr
  BY <1>1, <1>2, <1>3 DEF Reschedule
<1>4. CASE ~(o.OSSchedLockNestingCtr > 0 \/ HighRdy(o) = o.OSTCBCurPtr)
  BY <1>2, <1>4, CtxSwLemma DEF Reschedule
<1> QED
  BY <1>3, <1>4
-----------------------------------------------------------------------------
(* The tick wheel and the pend lists do not touch the ready lists. *)

\* Unsigned subtraction of tick counters stays in the counter.
LEMMA MinusType ==
  ASSUME NEW x \in Int, NEW y \in Int
  PROVE  Minus(x, y) \in Tick
BY CoreAssumption DEF Minus, Tick

\* The match value OS_TickListInsert computes is a tick counter value.
LEMMA MatchTickType ==
  ASSUME NEW o \in KState, NEW t \in Task, NEW time \in Tick, NEW opt
  PROVE  MatchTick(o, t, time, opt) \in Tick
<1>1. /\ o.TickCtrPrev[t] \in Int /\ o.OSTickCtr \in Int /\ time \in Int
  BY CoreAssumption DEF KState, Tick
<1>2. (o.TickCtrPrev[t] + time) % TickMod \in Tick /\ (o.OSTickCtr + time) % TickMod \in Tick
  BY <1>1, CoreAssumption DEF Tick
<1> QED
  BY <1>2 DEF MatchTick

\* OS_TickListInsert touches the wheel and the tick fields of the TCB only.
LEMMA TickListInsertLemma ==
  ASSUME NEW o \in KState, NEW t \in Task, NEW time \in Tick, NEW opt
  PROVE  LET o2 == OS_TickListInsert(o, t, time, opt)
         IN  o2 \in KState /\ SameSched(o, o2)
<1> DEFINE match  == MatchTick(o, t, time, opt)
           spoke  == match % TickWheelSize
           remain == Minus(match, o.OSTickCtr)
           later  == {u \in Task : remain <= Minus(o.TickCtrMatch[u], o.OSTickCtr)}
           o2     == OS_TickListInsert(o, t, time, opt)
<1>1. match \in Tick
  BY MatchTickType
<1> HIDE DEF match
<1>2. spoke \in Spoke
  BY <1>1, CoreAssumption DEF Spoke, Tick
<1> HIDE DEF spoke, later
<1>3. CASE NoDelay(o, time, opt)
  <2>1. o2 = [o EXCEPT !.TickCtrMatch = [o.TickCtrMatch EXCEPT ![t] = 0],
                       !.TickSpokePtr = [o.TickSpokePtr EXCEPT ![t] = NoSpoke]]
    BY <1>3 DEF OS_TickListInsert, KState
  <2>2. /\ [o.TickCtrMatch EXCEPT ![t] = 0] \in [Task -> Tick]
        /\ [o.TickSpokePtr EXCEPT ![t] = NoSpoke] \in [Task -> 0 .. TickWheelSize]
    <3>1. o.TickCtrMatch \in [Task -> Tick] /\ o.TickSpokePtr \in [Task -> 0 .. TickWheelSize]
      BY DEF KState
    <3>2. 0 \in Tick /\ NoSpoke \in 0 .. TickWheelSize
      BY CoreAssumption DEF NoSpoke, Tick
    <3> QED
      BY <3>1, <3>2
  <2> HIDE DEF o2
  <2>3. o2 \in KState
    BY <2>1, <2>2 DEF KState
  <2>4. SameSched(o, o2)
    BY <2>1 DEF KState, SameSched, SameTasks
  <2> QED
    BY <2>3, <2>4 DEF o2
<1>4. CASE ~NoDelay(o, time, opt)
  <2> DEFINE prev  == IF opt = "PERIODIC" THEN match ELSE o.TickCtrPrev[t]
             wheel == LinkBefore(o.TickWheel[spoke], t, later)
  <2>1. o2 = [o EXCEPT !.TickCtrMatch = [o.TickCtrMatch EXCEPT ![t] = match],
                       !.TickCtrPrev  = [o.TickCtrPrev EXCEPT ![t] = prev],
                       !.TickSpokePtr = [o.TickSpokePtr EXCEPT ![t] = spoke],
                       !.TickWheel    = [o.TickWheel EXCEPT ![spoke] = wheel]]
    BY <1>4 DEF OS_TickListInsert, KState, match, spoke, later
  <2>2. [o.TickCtrMatch EXCEPT ![t] = match] \in [Task -> Tick]
    BY <1>1 DEF KState
  <2>3. [o.TickCtrPrev EXCEPT ![t] = prev] \in [Task -> Tick]
    BY <1>1 DEF KState
  <2>4. [o.TickSpokePtr EXCEPT ![t] = spoke] \in [Task -> 0 .. TickWheelSize]
    <3>1. spoke \in 0 .. TickWheelSize
      BY <1>2, CoreAssumption DEF Spoke
    <3> QED
      BY <3>1 DEF KState
  <2>5. [o.TickWheel EXCEPT ![spoke] = wheel] \in [Spoke -> Seq(Task)]
    <3>1. o.TickWheel \in [Spoke -> Seq(Task)]
      BY DEF KState
    <3>2. wheel \in Seq(Task)
      BY <1>2, <3>1, LinkBeforeIsSeq
    <3> QED
      BY <3>1, <3>2
  <2> HIDE DEF o2, prev, wheel
  <2>6. o2 \in KState
    BY <2>1, <2>2, <2>3, <2>4, <2>5 DEF KState
  <2>7. SameSched(o, o2)
    BY <2>1 DEF KState, SameSched, SameTasks
  <2> QED
    BY <2>6, <2>7 DEF o2
<1> QED
  BY <1>3, <1>4

\* OS_TickListRemove touches the wheel and the tick fields of the TCB only.
LEMMA TickListRemoveLemma ==
  ASSUME NEW o \in KState, NEW t \in Task
  PROVE  LET o2 == OS_TickListRemove(o, t)
         IN  o2 \in KState /\ SameSched(o, o2)
<1> DEFINE spoke == o.TickSpokePtr[t]
           o2    == OS_TickListRemove(o, t)
<1>1. CASE spoke = NoSpoke
  BY <1>1 DEF OS_TickListRemove, SameSched, SameTasks
<1>2. CASE spoke # NoSpoke
  <2> DEFINE wheel == Unlink(o.TickWheel[spoke], t)
  <2>1. spoke \in Spoke
    <3>1. spoke \in 0 .. TickWheelSize
      BY DEF KState
    <3> QED
      BY <1>2, <3>1, CoreAssumption DEF NoSpoke, Spoke
  <2>2. o.TickWheel \in [Spoke -> Seq(Task)] /\ wheel \in Seq(Task)
    <3>1. o.TickWheel \in [Spoke -> Seq(Task)]
      BY DEF KState
    <3> QED
      BY <2>1, <3>1, UnlinkIsList
  <2>3. o2 = [o EXCEPT !.TickWheel    = [o.TickWheel EXCEPT ![spoke] = wheel],
                       !.TickSpokePtr = [o.TickSpokePtr EXCEPT ![t] = NoSpoke],
                       !.TickCtrMatch = [o.TickCtrMatch EXCEPT ![t] = 0]]
    BY <1>2 DEF OS_TickListRemove, KState
  <2> HIDE DEF wheel
  <2>4. /\ [o.TickCtrMatch EXCEPT ![t] = 0] \in [Task -> Tick]
        /\ [o.TickSpokePtr EXCEPT ![t] = NoSpoke] \in [Task -> 0 .. TickWheelSize]
    <3>1. o.TickCtrMatch \in [Task -> Tick] /\ o.TickSpokePtr \in [Task -> 0 .. TickWheelSize]
      BY DEF KState
    <3>2. 0 \in Tick /\ NoSpoke \in 0 .. TickWheelSize
      BY CoreAssumption DEF NoSpoke, Tick
    <3> QED
      BY <3>1, <3>2
  <2>5. [o.TickWheel EXCEPT ![spoke] = wheel] \in [Spoke -> Seq(Task)]
    BY <2>2
  <2> HIDE DEF o2
  <2>6. o2 \in KState
    BY <2>3, <2>4, <2>5 DEF KState
  <2>7. SameSched(o, o2)
    BY <2>3 DEF KState, SameSched, SameTasks
  <2> QED
    BY <2>6, <2>7 DEF o2
<1> QED
  BY <1>1, <1>2

\* OS_PendListRemove touches the pend list and the pend fields of the TCB only.
LEMMA PendListRemoveLemma ==
  ASSUME NEW o \in KState, NEW t \in Task
  PROVE  LET o2 == OS_PendListRemove(o, t)
         IN  o2 \in KState /\ SameSched(o, o2)
<1> DEFINE lists == [obj \in Obj |-> IF obj \in o.PendData[t] THEN Unlink(o.PendList[obj], t)
                                                             ELSE o.PendList[obj]]
           o2    == OS_PendListRemove(o, t)
<1>1. o.PendList \in [Obj -> Seq(Task)]
  BY DEF KState
<1>2. \A obj \in Obj : Unlink(o.PendList[obj], t) \in Seq(Task)
  BY <1>1, UnlinkIsList
<1>3. lists \in [Obj -> Seq(Task)]
  BY <1>1, <1>2
<1>4. o2 = [o EXCEPT !.PendList = lists, !.PendData = [o.PendData EXCEPT ![t] = {}]]
  BY DEF OS_PendListRemove, KState
<1> HIDE DEF lists, o2
<1>5. [o.PendData EXCEPT ![t] = {}] \in [Task -> SUBSET Obj]
  BY DEF KState
<1>6. o2 \in KState
  BY <1>3, <1>4, <1>5 DEF KState
<1>7. SameSched(o, o2)
  BY <1>4 DEF KState, SameSched, SameTasks
<1> QED
  BY <1>6, <1>7 DEF o2

\* OS_PendListInsertPrio keeps the pend list a list of tasks and touches no other.
LEMMA PendListInsertPrioLemma ==
  ASSUME NEW o \in KState, NEW t \in Task, NEW obj \in Obj
  PROVE  LET o2 == OS_PendListInsertPrio(o, obj, t)
         IN  o2 \in KState /\ SameSched(o, o2)
<1> DEFINE Stop == {u \in Task : o.Prio[t] < o.Prio[u]}
           l    == LinkBefore(o.PendList[obj], t, Stop)
           o2   == OS_PendListInsertPrio(o, obj, t)
<1>1. o.PendList \in [Obj -> Seq(Task)]
  BY DEF KState
<1> HIDE DEF Stop
<1>2. l \in Seq(Task)
  BY <1>1, LinkBeforeIsSeq
<1>3. o2 = [o EXCEPT !.PendList = [o.PendList EXCEPT ![obj] = l]]
  BY DEF OS_PendListInsertPrio, Stop
<1> HIDE DEF l, o2
<1>4. [o.PendList EXCEPT ![obj] = l] \in [Obj -> Seq(Task)]
  BY <1>1, <1>2
<1>5. o2 \in KState
  BY <1>3, <1>4 DEF KState
<1>6. SameSched(o, o2)
  BY <1>3 DEF KState, SameSched, SameTasks
<1> QED
  BY <1>5, <1>6 DEF o2
-----------------------------------------------------------------------------
(* Blocking and readying: TaskState and the ready lists move together. *)

\* The tasks that are ready to run.  A task of C is being created: its state is
\* RDY, but it is not yet linked.
Ready(o) == {t \in Task : o.TaskState[t] = "RDY"}

\* The kernel data between two critical sections.
OsInv(o, C) ==
  /\ o \in KState
  /\ \A t \in Task : o.TaskState[t] # "DEL" => o.Prio[t] \in Prio
  /\ C \subseteq Ready(o)
  /\ Rdy(o, Ready(o) \ C)

\* From o to o2 some waits and suspensions end, and nothing else happens to the
\* tasks' states, the current task and the scheduler lock.
Eases(o, o2) ==
  /\ \A t \in Task : \/ o2.TaskState[t] = o.TaskState[t]
                     \/ o.TaskState[t] \notin {"RDY", "DEL"} /\ o2.TaskState[t] # "DEL"
  /\ o2.OSTCBCurPtr = o.OSTCBCurPtr /\ o2.OSRunning = o.OSRunning
  /\ o2.OSSchedLockNestingCtr = o.OSSchedLockNestingCtr

\* Two steps that only move tasks towards the ready state compose.
LEMMA EasesTransitive ==
  ASSUME NEW o, NEW o1, NEW o2, Eases(o, o1), Eases(o1, o2)
  PROVE  Eases(o, o2)
BY DEF Eases

\* A step that touches neither ready list nor task state keeps the invariant.
LEMMA SameSchedInv ==
  ASSUME NEW o, NEW C, OsInv(o, C), NEW o2 \in KState, SameSched(o, o2)
  PROVE  OsInv(o2, C) /\ Eases(o, o2)
BY DEF OsInv, SameSched, SameTasks, Eases, Ready, Rdy

\* The ready lists are reordered, and nothing else changes that matters.
LEMMA SameTasksInv ==
  ASSUME NEW o, NEW C, OsInv(o, C), NEW o2 \in KState, SameTasks(o, o2), Rdy(o2, Ready(o) \ C)
  PROVE  OsInv(o2, C) /\ Eases(o, o2)
<1>1. Ready(o2) = Ready(o)
  BY DEF SameTasks, Ready
<1> QED
  BY <1>1 DEF OsInv, SameTasks, Eases

\* A task that was neither ready nor deleted gets state st, and enters the ready
\* list if st is RDY.
LEMMA EaseInv ==
  ASSUME NEW o, NEW C, OsInv(o, C), NEW t \in Task, o.TaskState[t] \notin {"RDY", "DEL"},
         NEW st \in State, st # "DEL",
         NEW o2 \in KState, o2.TaskState = [o.TaskState EXCEPT ![t] = st], o2.Prio = o.Prio,
         o2.OSTCBCurPtr = o.OSTCBCurPtr, o2.OSRunning = o.OSRunning,
         o2.OSSchedLockNestingCtr = o.OSSchedLockNestingCtr,
         Rdy(o2, (Ready(o) \ C) \cup (IF st = "RDY" THEN {t} ELSE {}))
  PROVE  OsInv(o2, C) /\ Eases(o, o2)
<1>1. o.TaskState \in [Task -> State]
  BY DEF OsInv, KState
<1>2. Ready(o2) = Ready(o) \cup (IF st = "RDY" THEN {t} ELSE {})
  BY <1>1 DEF Ready
<1>3. t \notin C /\ C \subseteq Ready(o)
  BY DEF OsInv, Ready
<1>4. Ready(o2) \ C = (Ready(o) \ C) \cup (IF st = "RDY" THEN {t} ELSE {})
  BY <1>2, <1>3
<1>5. \A u \in Task : o2.TaskState[u] # "DEL" => o2.Prio[u] \in Prio
  BY <1>1 DEF OsInv
<1>6. OsInv(o2, C)
  BY <1>2, <1>3, <1>4, <1>5 DEF OsInv
<1>7. Eases(o, o2)
  BY <1>1 DEF Eases
<1> QED
  BY <1>6, <1>7

\* OS_TaskRdy of a task whose state is not one of the suspended ones.
LEMMA TaskRdyLemma ==
  ASSUME NEW o \in KState, NEW t \in Task, o.TaskState[t] \notin Suspended, o.Prio[t] \in Prio,
         NEW S, Rdy(o, S), t \notin S
  PROVE  LET o2 == OS_TaskRdy(o, t)
         IN  o2 \in KState /\ Rdy(o2, S \cup {t}) /\ SameTasks(o, o2)
<1> DEFINE o1 == OS_TickListRemove(o, t)
<1>1. o1 \in KState /\ SameSched(o, o1)
  BY TickListRemoveLemma
<1>2. OS_TaskRdy(o, t) = OS_RdyListInsert(o1, t)
  BY DEF OS_TaskRdy
<1> HIDE DEF o1
<1>3. o1.Prio[t] \in Prio /\ Rdy(o1, S)
  BY <1>1 DEF SameSched, SameTasks, Rdy
<1>4. LET o2 == OS_RdyListInsert(o1, t)
      IN  o2 \in KState /\ Rdy(o2, S \cup {t}) /\ SameTasks(o1, o2)
  BY <1>1, <1>3, RdyListInsertLemma
<1> QED
  BY <1>1, <1>2, <1>4 DEF SameSched, SameTasks

\* A write of TCB.TaskState changes no list and no other field.
LEMMA SetStateLemma ==
  ASSUME NEW o \in KState, NEW t \in Task, NEW st \in State
  PROVE  LET o2 == [o EXCEPT !.TaskState[t] = st]
         IN  /\ o2 \in KState
             /\ o2.TaskState = [o.TaskState EXCEPT ![t] = st]
             /\ o2.Prio = o.Prio /\ o2.OSRdyList = o.OSRdyList /\ o2.OSPrioTbl = o.OSPrioTbl
             /\ o2.OSTCBCurPtr = o.OSTCBCurPtr /\ o2.OSRunning = o.OSRunning
             /\ o2.OSSchedLockNestingCtr = o.OSSchedLockNestingCtr
<1> DEFINE o2 == [o EXCEPT !.TaskState[t] = st]
<1>1. [o.TaskState EXCEPT ![t] = st] \in [Task -> State]
  BY DEF KState
<1>2. o2 \in KState
  BY <1>1 DEF KState
<1> QED
  BY <1>2 DEF KState, SameSched, SameTasks

\* A wait is over and leaves its traces in the TCB.
LEMMA WaitOverLemma ==
  ASSUME NEW o \in KState, NEW t \in Task, NEW msg \in Msg \cup {NoMsg}, NEW status \in StatusSet
  PROVE  LET o2 == [o EXCEPT !.MsgPtr[t] = msg, !.PendStatus[t] = status, !.PendOn[t] = "NOTHING"]
         IN  o2 \in KState /\ SameSched(o, o2)
<1> DEFINE o2 == [o EXCEPT !.MsgPtr[t] = msg, !.PendStatus[t] = status, !.PendOn[t] = "NOTHING"]
<1>1. "NOTHING" \in PendOnSet
  BY DEF PendOnSet
<1>2. /\ [o.MsgPtr EXCEPT ![t] = msg] \in [Task -> Msg \cup {NoMsg}]
      /\ [o.PendStatus EXCEPT ![t] = status] \in [Task -> StatusSet]
      /\ [o.PendOn EXCEPT ![t] = "NOTHING"] \in [Task -> PendOnSet]
  BY <1>1 DEF KState
<1>3. o2 = [o EXCEPT !.MsgPtr = [o.MsgPtr EXCEPT ![t] = msg],
                     !.PendStatus = [o.PendStatus EXCEPT ![t] = status],
                     !.PendOn = [o.PendOn EXCEPT ![t] = "NOTHING"]]
  BY DEF KState
<1> HIDE DEF o2
<1>4. o2 \in KState
  BY <1>2, <1>3 DEF KState
<1>5. SameSched(o, o2)
  BY <1>3 DEF KState, SameSched, SameTasks
<1> QED
  BY <1>4, <1>5 DEF o2

\* A task that was blocked is readied: OS_TaskRdy, then its state.
LEMMA ReadyLemma ==
  ASSUME NEW o, NEW C, OsInv(o, C), NEW t \in Task,
         o.TaskState[t] \notin {"RDY", "DEL"}, o.TaskState[t] \notin Suspended
  PROVE  LET o2 == [OS_TaskRdy(o, t) EXCEPT !.TaskState[t] = "RDY"]
         IN  OsInv(o2, C) /\ Eases(o, o2)
<1> DEFINE o1 == OS_TaskRdy(o, t)
           o2 == [o1 EXCEPT !.TaskState[t] = "RDY"]
<1>1. o \in KState /\ o.Prio[t] \in Prio /\ Rdy(o, Ready(o) \ C) /\ t \notin Ready(o) \ C
  BY DEF OsInv, Ready
<1>2. o1 \in KState /\ Rdy(o1, (Ready(o) \ C) \cup {t}) /\ SameTasks(o, o1)
  BY <1>1, TaskRdyLemma
<1> HIDE DEF o1
<1>3. "RDY" \in State
  BY DEF State
<1>4. /\ o2 \in KState /\ o2.TaskState = [o1.TaskState EXCEPT ![t] = "RDY"]
      /\ o2.Prio = o1.Prio /\ o2.OSRdyList = o1.OSRdyList /\ o2.OSPrioTbl = o1.OSPrioTbl
      /\ o2.OSTCBCurPtr = o1.OSTCBCurPtr /\ o2.OSRunning = o1.OSRunning
      /\ o2.OSSchedLockNestingCtr = o1.OSSchedLockNestingCtr
  BY <1>2, <1>3, SetStateLemma
<1> HIDE DEF o2
<1>5. Rdy(o2, (Ready(o) \ C) \cup {t})
  BY <1>2, <1>4 DEF Rdy
<1>6. OsInv(o2, C) /\ Eases(o, o2)
  BY <1>2, <1>3, <1>4, <1>5, EaseInv DEF SameTasks
<1> QED
  BY <1>6 DEF o1, o2

\* The timed wait of a suspended task ends: it stays suspended.
LEMMA StaySuspendedLemma ==
  ASSUME NEW o, NEW C, OsInv(o, C), NEW t \in Task, o.TaskState[t] \notin {"RDY", "DEL"}
  PROVE  LET o2 == [OS_TickListRemove(o, t) EXCEPT !.TaskState[t] = "SUSPENDED"]
         IN  OsInv(o2, C) /\ Eases(o, o2)
<1> DEFINE o1 == OS_TickListRemove(o, t)
           o2 == [o1 EXCEPT !.TaskState[t] = "SUSPENDED"]
<1>1. o \in KState /\ Rdy(o, Ready(o) \ C)
  BY DEF OsInv
<1>2. o1 \in KState /\ SameSched(o, o1)
  BY <1>1, TickListRemoveLemma
<1> HIDE DEF o1
<1>3. "SUSPENDED" \in State
  BY DEF State, Suspended
<1>4. /\ o2 \in KState /\ o2.TaskState = [o1.TaskState EXCEPT ![t] = "SUSPENDED"]
      /\ o2.Prio = o1.Prio /\ o2.OSRdyList = o1.OSRdyList /\ o2.OSPrioTbl = o1.OSPrioTbl
      /\ o2.OSTCBCurPtr = o1.OSTCBCurPtr /\ o2.OSRunning = o1.OSRunning
      /\ o2.OSSchedLockNestingCtr = o1.OSSchedLockNestingCtr
  BY <1>2, <1>3, SetStateLemma
<1> HIDE DEF o2
<1>5. Rdy(o2, Ready(o) \ C)
  BY <1>1, <1>2, <1>4 DEF Rdy, SameSched, SameTasks
<1>6. OsInv(o2, C) /\ Eases(o, o2)
  BY <1>2, <1>3, <1>4, <1>5, EaseInv DEF SameSched, SameTasks
<1> QED
  BY <1>6 DEF o1, o2

\* The end of a wait, by a post or by an abort (OS_Post, OS_PendAbort), readies the
\* task or leaves it suspended.
LEMMA EndWaitLemma ==
  ASSUME NEW o, NEW C, OsInv(o, C), NEW t \in Task, NEW obj \in Obj \cup {NoObj},
         NEW msg \in Msg \cup {NoMsg}, NEW status \in StatusSet
  PROVE  LET o2 == EndWait(o, obj, t, msg, status)
         IN  OsInv(o2, C) /\ Eases(o, o2)
<1> DEFINE o1 == IF obj = NoObj THEN o ELSE OS_PendListRemove(o, t)
           o2 == [o1 EXCEPT !.MsgPtr[t] = msg, !.PendStatus[t] = status, !.PendOn[t] = "NOTHING"]
<1>1. o \in KState /\ SameSched(o, o)
  BY DEF OsInv, SameSched, SameTasks
<1>2. o1 \in KState /\ SameSched(o, o1)
  BY <1>1, PendListRemoveLemma
<1> HIDE DEF o1
<1>3. o2 \in KState /\ SameSched(o1, o2)
  BY <1>2, WaitOverLemma
<1>4. EndWait(o, obj, t, msg, status) =
        IF o.TaskState[t] \in {"PEND", "PEND_TIMEOUT"}
        THEN [OS_TaskRdy(o2, t) EXCEPT !.TaskState[t] = "RDY"]
        ELSE IF o.TaskState[t] \in {"PEND_SUSPENDED", "PEND_TIMEOUT_SUSPENDED"}
        THEN [OS_TickListRemove(o2, t) EXCEPT !.TaskState[t] = "SUSPENDED"]
        ELSE o
  BY DEF EndWait, o1
<1> HIDE DEF o2
<1>5. OsInv(o2, C) /\ Eases(o, o2) /\ o2.TaskState = o.TaskState
  <2>1. OsInv(o1, C) /\ Eases(o, o1)
    BY <1>2, SameSchedInv
  <2>2. OsInv(o2, C) /\ Eases(o1, o2)
    BY <1>3, <2>1, SameSchedInv
  <2> QED
    BY <1>2, <1>3, <2>1, <2>2, EasesTransitive DEF SameSched, SameTasks
<1>6. CASE o.TaskState[t] \in {"PEND", "PEND_TIMEOUT"}
  <2>1. o2.TaskState[t] \notin {"RDY", "DEL"} /\ o2.TaskState[t] \notin Suspended
    BY <1>5, <1>6 DEF Suspended
  <2> QED
    BY <1>4, <1>5, <1>6, <2>1, ReadyLemma, EasesTransitive
<1>7. CASE o.TaskState[t] \in {"PEND_SUSPENDED", "PEND_TIMEOUT_SUSPENDED"}
  <2>1. o2.TaskState[t] \notin {"RDY", "DEL"}
    BY <1>5, <1>7
  <2>2. EndWait(o, obj, t, msg, status) = [OS_TickListRemove(o2, t) EXCEPT !.TaskState[t] = "SUSPENDED"]
    BY <1>4, <1>7
  <2> QED
    BY <1>5, <2>1, <2>2, StaySuspendedLemma, EasesTransitive
<1>8. CASE o.TaskState[t] \notin {"PEND", "PEND_TIMEOUT", "PEND_SUSPENDED", "PEND_TIMEOUT_SUSPENDED"}
  <2>1. EndWait(o, obj, t, msg, status) = o
    BY <1>4, <1>8
  <2> QED
    BY <2>1 DEF Eases
<1> QED
  BY <1>6, <1>7, <1>8

\* The tick of a task has come: a delay or a wait ends (Expire).
LEMMA ExpireLemma ==
  ASSUME NEW o, NEW C, OsInv(o, C), NEW t \in Task
  PROVE  OsInv(Expire(o, t), C) /\ Eases(o, Expire(o, t))
<1> DEFINE S  == Ready(o) \ C
           o1 == OS_PendListRemove(o, t)
           o2 == [o1 EXCEPT !.MsgPtr[t] = NoMsg, !.PendStatus[t] = "TIMEOUT", !.PendOn[t] = "NOTHING"]
           r  == [o EXCEPT !.TaskState[t] = "RDY"]
           s  == [o EXCEPT !.TaskState[t] = "SUSPENDED"]
           x  == o.TaskState[t]
<1>1. o \in KState /\ Rdy(o, S) /\ x \in State /\ (x # "DEL" => o.Prio[t] \in Prio)
  BY DEF OsInv, KState
<1>2. /\ x = "DLY" => Expire(o, t) = OS_TaskRdy(r, t)
      /\ x = "DLY_SUSPENDED" => Expire(o, t) = OS_TickListRemove(s, t)
      /\ x = "PEND_TIMEOUT" => Expire(o, t) = [OS_TaskRdy(o2, t) EXCEPT !.TaskState[t] = "RDY"]
      /\ x = "PEND_TIMEOUT_SUSPENDED" =>
           Expire(o, t) = [OS_TickListRemove(o2, t) EXCEPT !.TaskState[t] = "SUSPENDED"]
      /\ x \notin Timed => Expire(o, t) = o
  BY DEF Expire, Timed
<1>3. "RDY" \in State /\ "SUSPENDED" \in State /\ "TIMEOUT" \in StatusSet
  BY DEF State, Suspended, StatusSet
<1>4. OsInv(o2, C) /\ Eases(o, o2) /\ o2.TaskState = o.TaskState
  <2>1. o1 \in KState /\ SameSched(o, o1)
    BY <1>1, PendListRemoveLemma
  <2> HIDE DEF o1
  <2>2. o2 \in KState /\ SameSched(o1, o2)
    BY <1>3, <2>1, WaitOverLemma
  <2> HIDE DEF o2
  <2>3. OsInv(o1, C) /\ Eases(o, o1)
    BY <2>1, SameSchedInv
  <2>4. OsInv(o2, C) /\ Eases(o1, o2)
    BY <2>2, <2>3, SameSchedInv
  <2> QED
    BY <2>1, <2>2, <2>3, <2>4, EasesTransitive DEF SameSched, SameTasks
<1> HIDE DEF o2
<1>5. CASE x = "DLY"
  <2>1. /\ r \in KState /\ r.TaskState = [o.TaskState EXCEPT ![t] = "RDY"]
        /\ r.Prio = o.Prio /\ r.OSRdyList = o.OSRdyList /\ r.OSPrioTbl = o.OSPrioTbl
        /\ r.OSTCBCurPtr = o.OSTCBCurPtr /\ r.OSRunning = o.OSRunning
        /\ r.OSSchedLockNestingCtr = o.OSSchedLockNestingCtr
    BY <1>1, <1>3, SetStateLemma
  <2> HIDE DEF r
  <2>2. r.TaskState[t] = "RDY"
    BY <1>1, <2>1 DEF KState
  <2>3. t \notin S /\ r.TaskState[t] \notin Suspended /\ r.Prio[t] \in Prio /\ Rdy(r, S)
    BY <1>1, <1>5, <2>1, <2>2 DEF Ready, Rdy, Suspended
  <2> DEFINE o3 == OS_TaskRdy(r, t)
  <2>4. o3 \in KState /\ Rdy(o3, S \cup {t}) /\ SameTasks(r, o3)
    BY <2>1, <2>3, TaskRdyLemma
  <2> HIDE DEF o3
  <2>5. OsInv(o3, C) /\ Eases(o, o3)
    BY <1>3, <1>5, <2>1, <2>4, EaseInv DEF SameTasks
  <2> QED
    BY <1>2, <1>5, <2>5 DEF o3
<1>6. CASE x = "DLY_SUSPENDED"
  <2>1. /\ s \in KState /\ s.TaskState = [o.TaskState EXCEPT ![t] = "SUSPENDED"]
        /\ s.Prio = o.Prio /\ s.OSRdyList = o.OSRdyList /\ s.OSPrioTbl = o.OSPrioTbl
        /\ s.OSTCBCurPtr = o.OSTCBCurPtr /\ s.OSRunning = o.OSRunning
        /\ s.OSSchedLockNestingCtr = o.OSSchedLockNestingCtr
    BY <1>1, <1>3, SetStateLemma
  <2> HIDE DEF s
  <2> DEFINE o3 == OS_TickListRemove(s, t)
  <2>2. o3 \in KState /\ SameSched(s, o3)
    BY <2>1, TickListRemoveLemma
  <2> HIDE DEF o3
  <2>3. Rdy(o3, S)
    BY <1>1, <2>1, <2>2 DEF Rdy, SameSched, SameTasks
  <2>4. OsInv(o3, C) /\ Eases(o, o3)
    BY <1>3, <1>6, <2>1, <2>2, <2>3, EaseInv DEF SameSched, SameTasks
  <2> QED
    BY <1>2, <1>6, <2>4 DEF o3
<1>7. CASE x = "PEND_TIMEOUT"
  <2>1. o2.TaskState[t] \notin {"RDY", "DEL"} /\ o2.TaskState[t] \notin Suspended
    BY <1>4, <1>7 DEF Suspended
  <2> QED
    BY <1>2, <1>4, <1>7, <2>1, ReadyLemma, EasesTransitive
<1>8. CASE x = "PEND_TIMEOUT_SUSPENDED"
  <2>1. o2.TaskState[t] \notin {"RDY", "DEL"}
    BY <1>4, <1>8
  <2> QED
    BY <1>2, <1>4, <1>8, <2>1, StaySuspendedLemma, EasesTransitive
<1>9. CASE x \notin Timed
  <2>1. Expire(o, t) = o
    BY <1>2, <1>9
  <2> QED
    BY <2>1 DEF Eases
<1> QED
  BY <1>5, <1>6, <1>7, <1>8, <1>9 DEF Timed

\* From o to o2 task t gets state st; nothing else happens to the tasks' states,
\* the current task and the scheduler lock.
Moves(o, o2, t, st) ==
  /\ o2.TaskState = [o.TaskState EXCEPT ![t] = st]
  /\ o2.OSTCBCurPtr = o.OSTCBCurPtr /\ o2.OSRunning = o.OSRunning
  /\ o2.OSSchedLockNestingCtr = o.OSSchedLockNestingCtr

\* A ready task whose state has been set to st leaves the ready list: the order
\* of OS_TaskBlock, OSTimeDly and OS_TaskSuspend.
LEMMA BlockLemma ==
  ASSUME NEW o, NEW C, OsInv(o, C), NEW t \in Ready(o) \ C,
         NEW st \in State, st \notin {"RDY", "DEL"},
         NEW o1 \in KState, Moves(o, o1, t, st), o1.Prio = o.Prio,
         o1.OSRdyList = o.OSRdyList, o1.OSPrioTbl = o.OSPrioTbl
  PROVE  LET o2 == OS_RdyListRemove(o1, t)
         IN  OsInv(o2, C) /\ Moves(o, o2, t, st)
<1> DEFINE S  == Ready(o) \ C
           o2 == OS_RdyListRemove(o1, t)
<1>1. o.TaskState \in [Task -> State] /\ t \in Task /\ C \subseteq Ready(o)
  BY DEF OsInv, KState, Ready
<1>2. Rdy(o1, S)
  BY DEF OsInv, Rdy
<1>3. o2 \in KState /\ Rdy(o2, S \ {t}) /\ SameTasks(o1, o2)
  BY <1>2, RdyListRemoveLemma
<1> HIDE DEF o2
<1>4. Moves(o, o2, t, st) /\ o2.Prio = o.Prio
  BY <1>3 DEF Moves, SameTasks
<1>5. Ready(o2) = Ready(o) \ {t}
  BY <1>1, <1>4 DEF Moves, Ready
<1>6. Ready(o2) \ C = S \ {t} /\ C \subseteq Ready(o2)
  BY <1>1, <1>5
<1>7. \A u \in Task : o2.TaskState[u] # "DEL" => o2.Prio[u] \in Prio
  <2>1. o.TaskState[t] # "DEL"
    BY DEF Ready
  <2> QED
    BY <1>1, <1>4, <2>1 DEF Moves, OsInv
<1>8. OsInv(o2, C)
  BY <1>3, <1>6, <1>7 DEF OsInv
<1> QED
  BY <1>4, <1>8 DEF o2

\* OS_Pend blocks the running task, with or without a timeout, on an object or
\* on its own semaphore.
LEMMA PendLemma ==
  ASSUME NEW o, NEW C, OsInv(o, C), NEW t \in Ready(o) \ C, NEW obj \in Obj \cup {NoObj},
         NEW on \in PendOnSet, NEW timeout \in Tick
  PROVE  LET o2 == OS_Pend(o, t, obj, on, timeout)
         IN  OsInv(o2, C) /\ \E st \in {"PEND", "PEND_TIMEOUT"} : Moves(o, o2, t, st)
<1> DEFINE a  == [o EXCEPT !.PendOn[t] = on, !.PendStatus[t] = "OK"]
           b  == IF timeout > 0 THEN OS_TickListInsert(a, t, timeout, "TIMEOUT") ELSE a
           st == IF timeout > 0 THEN "PEND_TIMEOUT" ELSE "PEND"
           c  == [b EXCEPT !.TaskState[t] = st]
           d  == OS_RdyListRemove(c, t)
           pd == IF obj = NoObj THEN {} ELSE {obj}
           e  == [d EXCEPT !.PendData[t] = pd]
           o2 == OS_Pend(o, t, obj, on, timeout)
<1>1. o \in KState /\ t \in Task
  BY DEF OsInv, Ready
<1>2. a \in KState /\ SameSched(o, a)
  <2>1. a = [o EXCEPT !.PendOn = [o.PendOn EXCEPT ![t] = on],
                      !.PendStatus = [o.PendStatus EXCEPT ![t] = "OK"]]
    BY <1>1 DEF KState
  <2>2. [o.PendOn EXCEPT ![t] = on] \in [Task -> PendOnSet]
    BY <1>1 DEF KState
  <2>3. [o.PendStatus EXCEPT ![t] = "OK"] \in [Task -> StatusSet]
    BY <1>1 DEF KState, StatusSet
  <2> HIDE DEF a
  <2>4. a \in KState
    BY <1>1, <2>1, <2>2, <2>3 DEF KState
  <2>5. SameSched(o, a)
    BY <1>1, <2>1 DEF KState, SameSched, SameTasks
  <2> QED
    BY <2>4, <2>5
<1>3. o2 = IF obj = NoObj THEN e ELSE OS_PendListInsertPrio(e, obj, t)
  BY DEF OS_Pend, OS_TaskBlock
<1> HIDE DEF a
<1>4. b \in KState /\ SameSched(o, b)
  <2>1. CASE timeout > 0
    BY <1>1, <1>2, <2>1, TickListInsertLemma DEF SameSched, SameTasks
  <2>2. CASE ~(timeout > 0)
    BY <1>2, <2>2
  <2> QED
    BY <2>1, <2>2
<1> HIDE DEF b
<1>5. st \in State /\ st \notin {"RDY", "DEL"} /\ st \in {"PEND", "PEND_TIMEOUT"}
  BY DEF State
<1> HIDE DEF st
<1>6. /\ c \in KState /\ Moves(o, c, t, st) /\ c.Prio = o.Prio
      /\ c.OSRdyList = o.OSRdyList /\ c.OSPrioTbl = o.OSPrioTbl
  BY <1>1, <1>4, <1>5, SetStateLemma DEF Moves, SameSched, SameTasks
<1> HIDE DEF c
<1>7. OsInv(d, C) /\ Moves(o, d, t, st)
  BY <1>5, <1>6, BlockLemma
<1> HIDE DEF d
<1>8. e \in KState /\ SameSched(d, e)
  <2>1. d \in KState
    BY <1>7 DEF OsInv
  <2>2. e = [d EXCEPT !.PendData = [d.PendData EXCEPT ![t] = pd]]
    OBVIOUS
  <2>3. [d.PendData EXCEPT ![t] = pd] \in [Task -> SUBSET Obj]
    BY <1>1, <2>1 DEF KState
  <2> HIDE DEF e, pd
  <2> QED
    BY <2>1, <2>2, <2>3 DEF KState, SameSched, SameTasks
<1> HIDE DEF e
<1>9. o2 \in KState /\ SameSched(d, o2)
  <2>1. CASE obj = NoObj
    BY <1>3, <1>8, <2>1
  <2>2. CASE obj # NoObj
    BY <1>1, <1>3, <1>8, <2>2, PendListInsertPrioLemma DEF SameSched, SameTasks
  <2> QED
    BY <2>1, <2>2
<1> HIDE DEF o2
<1>10. OsInv(o2, C)
  BY <1>7, <1>9, SameSchedInv
<1>11. Moves(o, o2, t, st)
  BY <1>7, <1>9 DEF Moves, SameSched, SameTasks
<1> QED
  BY <1>5, <1>10, <1>11 DEF o2

\* OSTimeDly of the running task, when there is something to wait for.
LEMMA DlyLemma ==
  ASSUME NEW o, NEW C, OsInv(o, C), NEW t \in Ready(o) \ C, NEW time \in Tick, NEW opt
  PROVE  LET o1 == OS_TickListInsert([o EXCEPT !.TaskState[t] = "DLY"], t, time, opt)
             o2 == OS_RdyListRemove(o1, t)
         IN  OsInv(o2, C) /\ Moves(o, o2, t, "DLY")
<1> DEFINE st == "DLY"
           a  == [o EXCEPT !.TaskState[t] = st]
           o1 == OS_TickListInsert(a, t, time, opt)
<1>1. o \in KState /\ t \in Task
  BY DEF OsInv, Ready
<1>2. st \in State /\ st \notin {"RDY", "DEL"}
  BY DEF State
<1> HIDE DEF st
<1>3. /\ a \in KState /\ Moves(o, a, t, st) /\ a.Prio = o.Prio
      /\ a.OSRdyList = o.OSRdyList /\ a.OSPrioTbl = o.OSPrioTbl
  BY <1>1, <1>2, SetStateLemma DEF Moves
<1> HIDE DEF a
<1>4. o1 \in KState /\ SameSched(a, o1)
  BY <1>1, <1>3, TickListInsertLemma
<1> HIDE DEF o1
<1>5. /\ Moves(o, o1, t, st) /\ o1.Prio = o.Prio
      /\ o1.OSRdyList = o.OSRdyList /\ o1.OSPrioTbl = o.OSPrioTbl
  BY <1>3, <1>4 DEF Moves, SameSched, SameTasks
<1>6. LET o2 == OS_RdyListRemove(o1, t)
      IN  OsInv(o2, C) /\ Moves(o, o2, t, st)
  BY <1>2, <1>4, <1>5, BlockLemma
<1> QED
  BY <1>6 DEF o1, a, st

\* A task that is in no ready list gets another priority.
LEMMA SetPrioLemma ==
  ASSUME NEW o, NEW C, OsInv(o, C), NEW t \in Task, t \notin Ready(o) \/ t \in C, NEW p \in Prio
  PROVE  LET o2 == [o EXCEPT !.Prio[t] = p]
         IN  /\ OsInv(o2, C) /\ o2.TaskState = o.TaskState
             /\ o2.OSTCBCurPtr = o.OSTCBCurPtr /\ o2.OSRunning = o.OSRunning
             /\ o2.OSSchedLockNestingCtr = o.OSSchedLockNestingCtr
<1> DEFINE prio == [o.Prio EXCEPT ![t] = p]
           o2   == [o EXCEPT !.Prio[t] = p]
<1>1. o \in KState /\ Rdy(o, Ready(o) \ C) /\ o.Prio \in [Task -> 0 .. PrioMax]
  BY DEF OsInv, KState
<1>2. o2 = [o EXCEPT !.Prio = prio]
  BY <1>1 DEF KState
<1>3. prio \in [Task -> 0 .. PrioMax]
  BY <1>1, CoreAssumption DEF Prio
<1>4. \A u \in Ready(o) \ C : prio[u] = o.Prio[u]
  BY <1>1 DEF Ready
<1>5. RdyOK(o.OSRdyList, prio, o.OSPrioTbl, Ready(o) \ C)
  BY <1>1, <1>4, RdyPrioFrame DEF Rdy
<1>6. \A u \in Task : o.TaskState[u] # "DEL" => prio[u] \in Prio
  BY <1>1 DEF OsInv
<1> HIDE DEF o2, prio
<1>7. /\ o2 \in KState /\ o2.TaskState = o.TaskState /\ o2.Prio = prio
      /\ o2.OSRdyList = o.OSRdyList /\ o2.OSPrioTbl = o.OSPrioTbl
      /\ o2.OSTCBCurPtr = o.OSTCBCurPtr /\ o2.OSRunning = o.OSRunning
      /\ o2.OSSchedLockNestingCtr = o.OSSchedLockNestingCtr
  BY <1>1, <1>2, <1>3 DEF KState
<1>8. Ready(o2) = Ready(o)
  BY <1>7 DEF Ready
<1>9. OsInv(o2, C)
  BY <1>5, <1>6, <1>7, <1>8 DEF OsInv, Rdy
<1> QED
  BY <1>7, <1>9 DEF o2

\* A waiter gets another priority and its place in the pend lists.
LEMMA PendListChangePrioLemma ==
  ASSUME NEW o, NEW C, OsInv(o, C), NEW t \in Task, t \notin Ready(o), NEW p \in Prio
  PROVE  LET o2 == OS_PendListChangePrio(o, t, p)
         IN  /\ OsInv(o2, C) /\ o2.TaskState = o.TaskState
             /\ o2.OSTCBCurPtr = o.OSTCBCurPtr /\ o2.OSRunning = o.OSRunning
             /\ o2.OSSchedLockNestingCtr = o.OSSchedLockNestingCtr
<1> DEFINE o1     == [o EXCEPT !.Prio[t] = p]
           behind == {u \in Task : p < o1.Prio[u]}
           lists  == [obj \in Obj |-> IF obj \in o.PendData[t] /\ Len(o1.PendList[obj]) > 1
                                      THEN LinkBefore(Unlink(o1.PendList[obj], t), t, behind)
                                      ELSE o1.PendList[obj]]
           o2     == OS_PendListChangePrio(o, t, p)
<1>1. /\ OsInv(o1, C) /\ o1.TaskState = o.TaskState
      /\ o1.OSTCBCurPtr = o.OSTCBCurPtr /\ o1.OSRunning = o.OSRunning
      /\ o1.OSSchedLockNestingCtr = o.OSSchedLockNestingCtr
  BY SetPrioLemma
<1>2. o2 = [o1 EXCEPT !.PendList = lists]
  BY DEF OS_PendListChangePrio
<1> HIDE DEF o1, behind
<1>3. o1 \in KState /\ o1.PendList \in [Obj -> Seq(Task)]
  BY <1>1 DEF OsInv, KState
<1>4. \A obj \in Obj : LinkBefore(Unlink(o1.PendList[obj], t), t, behind) \in Seq(Task)
  <2>1. \A obj \in Obj : Unlink(o1.PendList[obj], t) \in Seq(Task)
    BY <1>3, UnlinkIsList
  <2> QED
    BY <2>1, LinkBeforeIsSeq
<1>5. lists \in [Obj -> Seq(Task)]
  BY <1>3, <1>4
<1> HIDE DEF lists, o2
<1>6. o2 \in KState /\ SameSched(o1, o2)
  BY <1>2, <1>3, <1>5 DEF KState, SameSched, SameTasks
<1>7. OsInv(o2, C)
  BY <1>1, <1>6, SameSchedInv
<1> QED
  BY <1>1, <1>6, <1>7 DEF o2, SameSched, SameTasks

\* A ready task has left its list and got priority p.
Reprio(o, t, p) == OS_PrioInsert([OS_RdyListRemove(o, t) EXCEPT !.Prio[t] = p], p)

\* The kernel data o2 are well formed, and no task's state, nor the current task,
\* differs from o.
Repriod(o, o2, C) ==
  /\ OsInv(o2, C) /\ o2.TaskState = o.TaskState
  /\ o2.OSTCBCurPtr = o.OSTCBCurPtr /\ o2.OSRunning = o.OSRunning
  /\ o2.OSSchedLockNestingCtr = o.OSSchedLockNestingCtr

\* A ready task gets another priority and goes to the head or the tail of the
\* list of that priority (OSTaskChangePrio).
LEMMA RdyChangePrioLemma ==
  ASSUME NEW o, NEW C, OsInv(o, C), NEW t \in Ready(o) \ C, NEW p \in Prio
  PROVE  /\ Repriod(o, OS_RdyListInsertHead(Reprio(o, t, p), t), C)
         /\ Repriod(o, OS_RdyListInsertTail(Reprio(o, t, p), t), C)
<1> SUFFICES ASSUME NEW o2, \/ o2 = OS_RdyListInsertHead(Reprio(o, t, p), t)
                           \/ o2 = OS_RdyListInsertTail(Reprio(o, t, p), t)
             PROVE  Repriod(o, o2, C)
  OBVIOUS
<1> DEFINE S  == Ready(o) \ C
           a  == OS_RdyListRemove(o, t)
           prio == [a.Prio EXCEPT ![t] = p]
           b  == [a EXCEPT !.Prio[t] = p]
           o1 == OS_PrioInsert(b, p)
<1>1. o \in KState /\ Rdy(o, S) /\ t \in Task /\ C \subseteq Ready(o)
  BY DEF OsInv, Ready
<1>2. a \in KState /\ Rdy(a, S \ {t}) /\ SameTasks(o, a)
  BY <1>1, RdyListRemoveLemma
<1>0. o2 = OS_RdyListInsertHead(o1, t) \/ o2 = OS_RdyListInsertTail(o1, t)
  BY DEF Reprio
<1> HIDE DEF a
<1>3. b = [a EXCEPT !.Prio = prio]
  OBVIOUS
<1>4. prio \in [Task -> 0 .. PrioMax] /\ prio[t] = p /\ \A u \in Task \ {t} : prio[u] = o.Prio[u]
  <2>1. a.Prio = o.Prio /\ a.Prio \in [Task -> 0 .. PrioMax]
    BY <1>2 DEF SameTasks, KState
  <2>2. p \in 0 .. PrioMax
    BY CoreAssumption DEF Prio
  <2> QED
    BY <1>1, <2>1, <2>2
<1>5. RdyOK(a.OSRdyList, prio, a.OSPrioTbl, S \ {t})
  <2>1. \A u \in S \ {t} : prio[u] = a.Prio[u]
    BY <1>2, <1>4 DEF Ready, SameTasks
  <2> QED
    BY <1>2, <2>1, RdyPrioFrame DEF Rdy
<1> HIDE DEF b, prio
<1>6. /\ b \in KState /\ b.Prio = prio /\ b.TaskState = o.TaskState
      /\ b.OSRdyList = a.OSRdyList /\ b.OSPrioTbl = a.OSPrioTbl
      /\ b.OSTCBCurPtr = o.OSTCBCurPtr /\ b.OSRunning = o.OSRunning
      /\ b.OSSchedLockNestingCtr = o.OSSchedLockNestingCtr
  BY <1>2, <1>3, <1>4 DEF KState, SameTasks
<1>7. Rdy(b, S \ {t}) /\ b.Prio[t] = p /\ t \notin S \ {t}
  BY <1>4, <1>5, <1>6 DEF Rdy
<1>8. o2 \in KState /\ Rdy(o2, (S \ {t}) \cup {t}) /\ SameTasks(b, o2)
  BY <1>0, <1>1, <1>6, <1>7, InsertHeadLemma, InsertTailLemma
<1>9. Rdy(o2, S) /\ Ready(o2) = Ready(o) /\ o2.TaskState = o.TaskState /\ o2.Prio = prio
  <2>1. (S \ {t}) \cup {t} = S
    OBVIOUS
  <2> QED
    BY <1>6, <1>8, <2>1 DEF Ready, SameTasks
<1>10. \A u \in Task : o2.TaskState[u] # "DEL" => o2.Prio[u] \in Prio
  BY <1>4, <1>9 DEF OsInv
<1>11. OsInv(o2, C)
  BY <1>1, <1>8, <1>9, <1>10 DEF OsInv
<1> QED
  BY <1>6, <1>8, <1>9, <1>11 DEF SameTasks, Repriod

\* The record that OS_TaskInitTCB builds, one field at a time.
FreshTCB(o, t) ==
  [o EXCEPT !.TaskState = [o.TaskState EXCEPT ![t] = "RDY"],
            !.Prio = [o.Prio EXCEPT ![t] = OS_PRIO_INIT],
            !.PendOn = [o.PendOn EXCEPT ![t] = "NOTHING"],
            !.PendStatus = [o.PendStatus EXCEPT ![t] = "OK"],
            !.PendData = [o.PendData EXCEPT ![t] = {}],
            !.MsgPtr = [o.MsgPtr EXCEPT ![t] = NoMsg],
            !.SuspendCtr = [o.SuspendCtr EXCEPT ![t] = 0],
            !.SemCtr = [o.SemCtr EXCEPT ![t] = 0],
            !.TickCtrMatch = [o.TickCtrMatch EXCEPT ![t] = 0],
            !.TickCtrPrev = [o.TickCtrPrev EXCEPT ![t] = TickMod \div 2],
            !.TickSpokePtr = [o.TickSpokePtr EXCEPT ![t] = NoSpoke],
            !.TimeQuanta = [o.TimeQuanta EXCEPT ![t] = 0],
            !.TimeQuantaCtr = [o.TimeQuantaCtr EXCEPT ![t] = 0]]

\* OS_TaskInitTCB builds that record.
LEMMA TaskInitTCBFields ==
  ASSUME NEW o, NEW t
  PROVE  OS_TaskInitTCB(o, t) = FreshTCB(o, t)
<1> DEFINE a == [o EXCEPT !.TaskState = [o.TaskState EXCEPT ![t] = "RDY"],
                          !.Prio = [o.Prio EXCEPT ![t] = OS_PRIO_INIT],
                          !.PendOn = [o.PendOn EXCEPT ![t] = "NOTHING"],
                          !.PendStatus = [o.PendStatus EXCEPT ![t] = "OK"]]
           b == [a EXCEPT !.PendData = [o.PendData EXCEPT ![t] = {}],
                          !.MsgPtr = [o.MsgPtr EXCEPT ![t] = NoMsg],
                          !.SuspendCtr = [o.SuspendCtr EXCEPT ![t] = 0],
                          !.SemCtr = [o.SemCtr EXCEPT ![t] = 0]]
           c == [b EXCEPT !.TickCtrMatch = [o.TickCtrMatch EXCEPT ![t] = 0],
                          !.TickCtrPrev = [o.TickCtrPrev EXCEPT ![t] = TickMod \div 2],
                          !.TickSpokePtr = [o.TickSpokePtr EXCEPT ![t] = NoSpoke]]
           d == [c EXCEPT !.TimeQuanta = [o.TimeQuanta EXCEPT ![t] = 0],
                          !.TimeQuantaCtr = [o.TimeQuantaCtr EXCEPT ![t] = 0]]
<1>1. a = [o EXCEPT !.TaskState[t] = "RDY", !.Prio[t] = OS_PRIO_INIT, !.PendOn[t] = "NOTHING", !.PendStatus[t] = "OK"]
  OBVIOUS
<1>2. a.PendData = o.PendData /\ a.MsgPtr = o.MsgPtr /\ a.SuspendCtr = o.SuspendCtr /\ a.SemCtr = o.SemCtr
  OBVIOUS
<1>3. b = [a EXCEPT !.PendData[t] = {}, !.MsgPtr[t] = NoMsg, !.SuspendCtr[t] = 0, !.SemCtr[t] = 0]
  BY <1>2
<1>4. b.TickCtrMatch = o.TickCtrMatch /\ b.TickCtrPrev = o.TickCtrPrev /\ b.TickSpokePtr = o.TickSpokePtr
  OBVIOUS
<1>5. c = [b EXCEPT !.TickCtrMatch[t] = 0, !.TickCtrPrev[t] = TickMod \div 2, !.TickSpokePtr[t] = NoSpoke]
  BY <1>4
<1>6. c.TimeQuanta = o.TimeQuanta /\ c.TimeQuantaCtr = o.TimeQuantaCtr
  OBVIOUS
<1>7. d = [c EXCEPT !.TimeQuanta[t] = 0, !.TimeQuantaCtr[t] = 0]
  BY <1>6
<1>8. FreshTCB(o, t) = d
  BY Zenon DEF FreshTCB
<1> HIDE DEF a, b, c, d
<1> QED
  BY <1>1, <1>3, <1>5, <1>7, <1>8, ZenonT(60) DEF OS_TaskInitTCB

\* OS_TaskInitTCB of a TCB that is in no ready list.
LEMMA TaskInitTCBLemma ==
  ASSUME NEW o \in KState, NEW t \in Task, NEW S, S \subseteq Task, Rdy(o, S), t \notin S
  PROVE  LET o2 == OS_TaskInitTCB(o, t)
         IN  /\ o2 \in KState /\ Rdy(o2, S)
             /\ Moves(o, o2, t, "RDY")
             /\ o2.Prio = [o.Prio EXCEPT ![t] = OS_PRIO_INIT]
             /\ o2.OSRdyList = o.OSRdyList /\ o2.OSPrioTbl = o.OSPrioTbl
             /\ o2.OSSchedRoundRobinDfltTimeQuanta = o.OSSchedRoundRobinDfltTimeQuanta
<1> DEFINE o2   == OS_TaskInitTCB(o, t)
           prio == [o.Prio EXCEPT ![t] = OS_PRIO_INIT]
<1>1. o2 = FreshTCB(o, t)
  BY TaskInitTCBFields
<1>2. /\ [o.TaskState EXCEPT ![t] = "RDY"] \in [Task -> State]
      /\ [o.PendOn EXCEPT ![t] = "NOTHING"] \in [Task -> PendOnSet]
      /\ [o.PendStatus EXCEPT ![t] = "OK"] \in [Task -> StatusSet]
      /\ [o.PendData EXCEPT ![t] = {}] \in [Task -> SUBSET Obj]
      /\ [o.MsgPtr EXCEPT ![t] = NoMsg] \in [Task -> Msg \cup {NoMsg}]
  BY DEF KState, State, PendOnSet, StatusSet
<1>3. /\ [o.SuspendCtr EXCEPT ![t] = 0] \in [Task -> 0 .. NestMod - 1]
      /\ [o.SemCtr EXCEPT ![t] = 0] \in [Task -> 0 .. SemMax]
      /\ [o.TimeQuanta EXCEPT ![t] = 0] \in [Task -> Nat]
      /\ [o.TimeQuantaCtr EXCEPT ![t] = 0] \in [Task -> Nat]
  <2>1. 0 \in 0 .. NestMod - 1 /\ 0 \in 0 .. SemMax
    BY CoreAssumption
  <2> QED
    BY <2>1 DEF KState
<1>4. /\ [o.TickCtrMatch EXCEPT ![t] = 0] \in [Task -> Tick]
      /\ [o.TickCtrPrev EXCEPT ![t] = TickMod \div 2] \in [Task -> Tick]
      /\ [o.TickSpokePtr EXCEPT ![t] = NoSpoke] \in [Task -> 0 .. TickWheelSize]
  <2>1. 0 \in Tick /\ TickMod \div 2 \in Tick /\ NoSpoke \in 0 .. TickWheelSize
    BY CoreAssumption DEF Tick, NoSpoke
  <2> QED
    BY <2>1 DEF KState
<1>5. prio \in [Task -> 0 .. PrioMax] /\ \A u \in S : prio[u] = o.Prio[u]
  <2>1. o.Prio \in [Task -> 0 .. PrioMax]
    BY DEF KState
  <2>2. OS_PRIO_INIT \in 0 .. PrioMax
    BY CoreAssumption DEF OS_PRIO_INIT
  <2> QED
    BY <2>1, <2>2
<1>6. RdyOK(o.OSRdyList, prio, o.OSPrioTbl, S)
  BY <1>5, RdyPrioFrame DEF Rdy
<1> HIDE DEF o2, prio
<1>7. o2 \in KState
  BY <1>1, <1>2, <1>3, <1>4, <1>5, ZenonT(60) DEF KState, FreshTCB, prio
<1>8. /\ o2.Prio = prio /\ o2.OSRdyList = o.OSRdyList /\ o2.OSPrioTbl = o.OSPrioTbl
      /\ Moves(o, o2, t, "RDY")
      /\ o2.OSSchedRoundRobinDfltTimeQuanta = o.OSSchedRoundRobinDfltTimeQuanta
  BY <1>1 DEF KState, Moves, FreshTCB, prio
<1>9. Rdy(o2, S)
  BY <1>6, <1>8 DEF Rdy
<1> QED
  BY <1>7, <1>8, <1>9, SMTT(30) DEF o2, prio

\* The fields that OS_TaskInitTCB sets.
LEMMA TaskInitTCBFrame ==
  ASSUME NEW o \in KState, NEW c \in Task
  PROVE  LET o2 == OS_TaskInitTCB(o, c)
         IN  /\ o2.TaskState = [o.TaskState EXCEPT ![c] = "RDY"]
             /\ o2.PendOn = [o.PendOn EXCEPT ![c] = "NOTHING"]
             /\ o2.PendStatus = [o.PendStatus EXCEPT ![c] = "OK"]
             /\ o2.SuspendCtr = [o.SuspendCtr EXCEPT ![c] = 0]
             /\ o2.SemCtr = [o.SemCtr EXCEPT ![c] = 0]
             /\ o2.Prio = [o.Prio EXCEPT ![c] = OS_PRIO_INIT]
             /\ o2.PendData = [o.PendData EXCEPT ![c] = {}] /\ o2.PendList = o.PendList
             /\ o2.TickSpokePtr = [o.TickSpokePtr EXCEPT ![c] = NoSpoke]
             /\ o2.TickCtrMatch = [o.TickCtrMatch EXCEPT ![c] = 0]
             /\ o2.TickWheel = o.TickWheel /\ o2.OSTickCtr = o.OSTickCtr
<1> DEFINE o2 == OS_TaskInitTCB(o, c)
<1>1. o2 = FreshTCB(o, c)
  BY TaskInitTCBFields
<1> HIDE DEF o2
<1>2. /\ o2.TaskState = [o.TaskState EXCEPT ![c] = "RDY"]
      /\ o2.PendOn = [o.PendOn EXCEPT ![c] = "NOTHING"]
      /\ o2.PendStatus = [o.PendStatus EXCEPT ![c] = "OK"]
      /\ o2.SuspendCtr = [o.SuspendCtr EXCEPT ![c] = 0]
  BY <1>1 DEF KState, FreshTCB
<1>3. /\ o2.SemCtr = [o.SemCtr EXCEPT ![c] = 0]
      /\ o2.Prio = [o.Prio EXCEPT ![c] = OS_PRIO_INIT]
      /\ o2.PendData = [o.PendData EXCEPT ![c] = {}] /\ o2.PendList = o.PendList
  BY <1>1 DEF KState, FreshTCB
<1>4. /\ o2.TickSpokePtr = [o.TickSpokePtr EXCEPT ![c] = NoSpoke]
      /\ o2.TickCtrMatch = [o.TickCtrMatch EXCEPT ![c] = 0]
      /\ o2.TickWheel = o.TickWheel /\ o2.OSTickCtr = o.OSTickCtr
  BY <1>1 DEF KState, FreshTCB
<1> QED
  BY <1>2, <1>3, <1>4 DEF o2

\* OSInit leaves the kernel data well formed, with no task.
LEMMA OSInitLemma == OsInv(OSInit, {}) /\ OSInit.OSRunning = FALSE
                     /\ \A t \in Task : OSInit.TaskState[t] = "DEL"
<1>1. OSInit \in KState
  <2>1. 0 \in Tick /\ TickMod \div 2 \in Tick /\ NoSpoke \in 0 .. TickWheelSize /\ 0 \in Prio
        /\ OS_PRIO_INIT \in 0 .. PrioMax /\ 0 \in 0 .. NestMod - 1 /\ 0 \in 0 .. SemMax
        /\ DfltQuanta \in Nat
    BY CoreAssumption DEF Tick, NoSpoke, Prio, OS_PRIO_INIT
  <2>2. "DEL" \in State /\ "NOTHING" \in PendOnSet /\ "OK" \in StatusSet
    BY DEF State, PendOnSet, StatusSet
  <2>3. /\ [p \in Prio |-> <<>>] \in [Prio -> Seq(Task)]
        /\ [obj \in Obj |-> <<>>] \in [Obj -> Seq(Task)]
        /\ [s \in Spoke |-> <<>>] \in [Spoke -> Seq(Task)]
    OBVIOUS
  <2> QED
    BY <2>1, <2>2, <2>3 DEF OSInit, KState
<1>2. \A t \in Task : OSInit.TaskState[t] = "DEL"
  BY DEF OSInit
<1>3. Ready(OSInit) = {}
  BY <1>2 DEF Ready
<1>4. Rdy(OSInit, {})
  <2>1. IsList(<<>>, {})
    BY DEF IsList, Range
  <2>2. /\ \A p \in Prio : OSInit.OSRdyList[p] = <<>>
        /\ OSInit.OSPrioTbl = {}
    BY DEF OSInit
  <2>3. \A p : {t \in {} : OSInit.Prio[t] = p} = {}
    OBVIOUS
  <2> QED
    BY <2>1, <2>2, <2>3 DEF Rdy, RdyOK
<1>5. OSInit.OSRunning = FALSE
  BY DEF OSInit
<1> QED
  BY <1>1, <1>2, <1>3, <1>4, <1>5 DEF OsInv
-----------------------------------------------------------------------------

\* A TCB is created by one task at a time, which is neither deleted nor itself
\* being created.
CreateInv ==
  /\ \A t, u \in Task : pc[t] = "create" /\ pc[u] = "create" /\ arg[t] = arg[u] => t = u
  /\ \A t \in Task : pc[t] = "create" => os.TaskState[t] # "DEL" /\ t \notin Creating

\* Before OSStart the tasks created so far are ready; after it the idle task is.
BootInv ==
  /\ ~os.OSRunning =>
       /\ pc = [t \in Task |-> "app"]
       /\ \A i \in DOMAIN BootOrder :
            os.TaskState[BootOrder[i]] = IF i <= boot THEN "RDY" ELSE "DEL"
  /\ os.OSRunning => os.TaskState[IdleTask] = "RDY"

KInv == /\ KTypeOK
        /\ OsInv(os, Creating)
        /\ RunningIsReady
        /\ CreateInv
        /\ BootInv
-----------------------------------------------------------------------------
\* Kernel data o are fit for a step that leaves the current task at l.
Leaves(o, l) ==
  /\ OsInv(o, Creating) /\ o.OSRunning
  /\ o.TaskState[IdleTask] = "RDY"
  /\ \A u \in Task : pc[u] = "create" => o.TaskState[u] # "DEL"
  /\ o.OSTCBCurPtr \in Task
  /\ \/ o.OSTCBCurPtr \in Ready(o) \ Creating
     \/ /\ o.OSTCBCurPtr = cur
        /\ l \in {"sched", "pend"}
        /\ o.OSSchedLockNestingCtr = 0

\* The same task runs, and the scheduler sees the same ready lists.
SameRun(o, o2) ==
  /\ o2.OSRdyList = o.OSRdyList /\ o2.OSPrioTbl = o.OSPrioTbl
  /\ o2.OSTCBCurPtr = o.OSTCBCurPtr /\ o2.OSRunning = o.OSRunning
  /\ o2.OSSchedLockNestingCtr = o.OSSchedLockNestingCtr

\* The current task goes on and owes a call of OSSched, or is excused from it.
Owes == /\ os'.OSTCBCurPtr = cur
        /\ \/ pc'[cur] \in {"sched", "pend"}
           \/ os'.OSSchedLockNestingCtr > 0
           \/ pc[cur] \in {"update", "spoke"}
           \/ "NO_SCHED" \in PostOpts

\* OSSched or OSIntExit selects the task to run.
Selects == \E o : /\ os' = Reschedule(o) /\ o \in KState
                  /\ o.OSTCBCurPtr = cur
                  /\ o.OSSchedLockNestingCtr = os.OSSchedLockNestingCtr

\* What a step of the running kernel does with the processor; the places of a
\* tick are only the tick task's.
RunStep == /\ os.OSRunning /\ os'.OSRunning
           /\ \/ SameRun(os, os') /\ pc[cur] \notin {"sched", "pend"}
              \/ Owes
              \/ Selects
           /\ \A u \in Task : pc'[u] \in {"update", "spoke"} => pc[u] \in {"update", "spoke"} \/ u = TickTask

\* A step that leaves fit kernel data, and no creation begun or ended, keeps the
\* invariant.
LEMMA FrameLemma ==
  ASSUME KInv, OsInv(os', Creating), os'.OSRunning, os'.TaskState[IdleTask] = "RDY",
         os'.OSTCBCurPtr \in Task,
         \/ os'.OSTCBCurPtr \in Ready(os') \ Creating
         \/ pc'[os'.OSTCBCurPtr] \in {"sched", "pend"} /\ os'.OSSchedLockNestingCtr = 0,
         pc' \in [Task -> PC], arg' \in [Task -> Task \cup Obj \cup {NoTask, NoObj}],
         \A u \in Task : pc'[u] = "create" <=> pc[u] = "create",
         \A u \in Task : pc[u] = "create" => arg'[u] = arg[u] /\ os'.TaskState[u] # "DEL",
         \A u \in Task : pc'[u] = "abort" => arg'[u] \in AppTask,
         tickPtr' \in Task \cup {NoTask}, tmrCtr' \in 1 .. TmrUpdateCnt, boot' = boot
  PROVE  KInv'
<1>1. Creating' = Creating
  <2>1. {u \in Task : pc'[u] = "create"} = {u \in Task : pc[u] = "create"}
    OBVIOUS
  <2>2. {arg'[u] : u \in {v \in Task : pc[v] = "create"}} = Creating
    BY DEF Creating
  <2> QED
    BY <2>1, <2>2 DEF Creating
<1>2. KTypeOK'
  BY DEF KInv, KTypeOK, OsInv
<1>3. OsInv(os, Creating)'
  BY <1>1 DEF OsInv, Ready, Rdy
<1>4. RunningIsReady'
  BY <1>1 DEF RunningIsReady, cur, Ready
<1>5. CreateInv'
  BY <1>1 DEF KInv, CreateInv
<1>6. BootInv'
  BY DEF BootInv
<1> QED
  BY <1>2, <1>3, <1>4, <1>5, <1>6 DEF KInv

\* A step of the current task that changes the kernel data to fit ones keeps the
\* invariant (Step).
LEMMA StepLemma ==
  ASSUME KInv, os.OSRunning, NEW t, t = cur, pc[t] # "create",
         NEW l, l \in PC \ {"create", "abort"}, NEW o, Leaves(o, l), Step(t, o, l)
  PROVE  KInv'
<1>1. /\ os' = o /\ pc' = [pc EXCEPT ![t] = l] /\ arg' = arg
      /\ tickPtr' = tickPtr /\ tmrCtr' = tmrCtr /\ boot' = boot
  BY DEF Step, Goto
<1>2. t \in Task /\ pc \in [Task -> PC]
  BY DEF KInv, KTypeOK, cur
<1>3. /\ pc' \in [Task -> PC] /\ pc'[t] = l
      /\ \A u \in Task : pc'[u] = "create" <=> pc[u] = "create"
      /\ \A u \in Task : pc'[u] = "abort" => pc[u] = "abort"
  BY <1>1, <1>2
<1>4. /\ arg' \in [Task -> Task \cup Obj \cup {NoTask, NoObj}]
      /\ \A u \in Task : pc'[u] = "abort" => arg'[u] \in AppTask
      /\ tickPtr' \in Task \cup {NoTask} /\ tmrCtr' \in 1 .. TmrUpdateCnt
  BY <1>1, <1>3 DEF KInv, KTypeOK
<1>5. /\ OsInv(os', Creating) /\ os'.OSRunning /\ os'.TaskState[IdleTask] = "RDY"
      /\ os'.OSTCBCurPtr \in Task
      /\ \A u \in Task : pc[u] = "create" => arg'[u] = arg[u] /\ os'.TaskState[u] # "DEL"
      /\ \/ os'.OSTCBCurPtr \in Ready(os') \ Creating
         \/ pc'[os'.OSTCBCurPtr] \in {"sched", "pend"} /\ os'.OSSchedLockNestingCtr = 0
  BY <1>1, <1>3 DEF Leaves
<1> QED
  BY <1>1, <1>3, <1>4, <1>5, FrameLemma

\* The kernel data after a step that blocks and deletes nobody.
LEMMA LeavesEased ==
  ASSUME KInv, os.OSRunning, cur \in Ready(os) \ Creating, NEW l, NEW o, OsInv(o, Creating),
         \A u \in Task : os.TaskState[u] = "RDY" => o.TaskState[u] = "RDY",
         \A u \in Task : o.TaskState[u] = "DEL" => os.TaskState[u] = "DEL",
         o.OSTCBCurPtr = cur, o.OSRunning
  PROVE  Leaves(o, l)
BY CoreAssumption DEF Leaves, KInv, CreateInv, BootInv, Ready

\* The kernel data after a step that changes the state of task c; the caller may
\* do that to itself only if it is about to call OSSched.
LEMMA LeavesMoved ==
  ASSUME KInv, os.OSRunning, cur \in Ready(os) \ Creating, NEW l, NEW o, OsInv(o, Creating),
         NEW c \in Task, c # IdleTask, NEW st, Moves(os, o, c, st), st = "DEL" => pc[c] # "create",
         c = cur => l \in {"sched", "pend"} /\ os.OSSchedLockNestingCtr = 0
  PROVE  Leaves(o, l)
<1>1. os.TaskState \in [Task -> State]
  BY DEF KInv, OsInv, KState
<1>2. /\ o.TaskState[IdleTask] = "RDY"
      /\ \A u \in Task : pc[u] = "create" => o.TaskState[u] # "DEL"
  BY <1>1, CoreAssumption DEF Moves, KInv, BootInv, CreateInv
<1>3. o.OSTCBCurPtr = cur /\ o.OSRunning /\ o.OSSchedLockNestingCtr = os.OSSchedLockNestingCtr
  BY DEF Moves, cur
<1>4. cur \in Task
  BY DEF Ready
<1>5. CASE c = cur
  BY <1>2, <1>3, <1>4, <1>5 DEF Leaves
<1>6. CASE c # cur
  <2>1. cur \in Ready(o) \ Creating
    BY <1>1, <1>4, <1>6 DEF Moves, Ready
  <2> QED
    BY <1>2, <1>3, <1>4, <2>1 DEF Leaves
<1> QED
  BY <1>5, <1>6

\* A task that calls a service is ready; it is not the idle task, which calls none.
LEMMA CallLemma ==
  ASSUME KInv, NEW t, NEW svc, Call(t, svc)
  PROVE  /\ t \in Task /\ t = cur /\ os.OSRunning /\ pc[t] = "app"
         /\ cur \in Ready(os) \ Creating /\ t # IdleTask
<1>1. t = cur /\ os.OSRunning /\ pc[t] = "app" /\ svc \in Calls[t]
  BY DEF Call
<1>2. t \in Task
  BY <1>1 DEF KInv, KTypeOK, cur
<1>3. os.TaskState[cur] = "RDY" /\ cur \notin Creating
  BY <1>1 DEF KInv, RunningIsReady
<1>4. t # IdleTask
  BY <1>1, KernelAssumption
<1> QED
  BY <1>1, <1>2, <1>3, <1>4 DEF Ready

\* The TCBs a service may be called about.
LEMMA TargetLemma ==
  ASSUME NEW c \in Target
  PROVE  c \in Task /\ c # IdleTask /\ c \notin Creating
BY DEF Target, AppTask

\* A service leaves the current task in place, and the ready lists alone or
\* OSSched to be called.
LEMMA RunCall ==
  ASSUME KInv, NEW t, os.OSRunning, t = cur, NEW l, l \notin {"update", "spoke"} \/ t = TickTask,
         NEW o, Step(t, o, l), o.OSRunning,
         \/ SameRun(os, o) /\ pc[t] \notin {"sched", "pend"}
         \/ o.OSTCBCurPtr = cur /\ (l \in {"sched", "pend"} \/ o.OSSchedLockNestingCtr > 0 \/ "NO_SCHED" \in PostOpts)
  PROVE  RunStep
<1>1. os' = o /\ pc' = [pc EXCEPT ![t] = l] /\ pc \in [Task -> PC] /\ t \in Task
  BY DEF Step, Goto, KInv, KTypeOK, cur
<1>2. \A u \in Task : pc'[u] = IF u = t THEN l ELSE pc[u]
  BY <1>1
<1> QED
  BY <1>1, <1>2 DEF RunStep, Owes, cur

\* A service that blocks and deletes nobody keeps the invariant.
LEMMA EasingCall ==
  ASSUME KInv, NEW t, NEW svc, Call(t, svc), NEW l, l \in PC \ {"create", "abort"}, NEW o,
         OsInv(o, Creating), Step(t, o, l),
         \A u \in Task : os.TaskState[u] = "RDY" => o.TaskState[u] = "RDY",
         \A u \in Task : o.TaskState[u] = "DEL" => os.TaskState[u] = "DEL",
         o.OSTCBCurPtr = cur, o.OSRunning
  PROVE  KInv' /\ (l \in {"sched", "pend"} => RunStep)
<1>1. /\ t = cur /\ os.OSRunning /\ pc[t] # "create"
      /\ cur \in Ready(os) \ Creating
  BY CallLemma
<1>2. Leaves(o, l)
  BY <1>1, LeavesEased
<1>3. l \in {"sched", "pend"} => RunStep
  BY <1>1, RunCall
<1> QED
  BY <1>1, <1>2, <1>3, StepLemma

\* A service that changes the state of task c keeps the invariant.
LEMMA MovingCall ==
  ASSUME KInv, NEW t, NEW svc, Call(t, svc), NEW l, l \in PC \ {"create", "abort"}, NEW o,
         OsInv(o, Creating), Step(t, o, l),
         NEW c \in Task, c # IdleTask, NEW st, Moves(os, o, c, st), st = "DEL" => pc[c] # "create",
         c = cur => l \in {"sched", "pend"} /\ os.OSSchedLockNestingCtr = 0
  PROVE  KInv' /\ (l \in {"sched", "pend"} => RunStep)
<1>1. /\ t = cur /\ os.OSRunning /\ pc[t] # "create"
      /\ cur \in Ready(os) \ Creating
  BY CallLemma
<1>2. Leaves(o, l)
  BY <1>1, LeavesMoved
<1>3. l \in {"sched", "pend"} => RunStep
  BY <1>1, RunCall DEF Moves, cur
<1> QED
  BY <1>1, <1>2, <1>3, StepLemma

-----------------------------------------------------------------------------
(* Creation and deletion. *)

\* FillTCB makes a deleted TCB look ready without linking it; the scheduler sees
\* no difference.
LEMMA FillLemma ==
  ASSUME NEW o, NEW C, OsInv(o, C), NEW t \in Task, o.TaskState[t] = "DEL"
  PROVE  /\ OsInv(FillTCB(o, t), C \cup {t}) /\ Moves(o, FillTCB(o, t), t, "RDY")
         /\ SameRun(o, FillTCB(o, t))
<1> DEFINE S == Ready(o) \ C
           a == OS_TaskInitTCB(o, t)
           q == TaskQuanta[t]
           n == IF q = 0 THEN o.OSSchedRoundRobinDfltTimeQuanta ELSE q
           prio == [a.Prio EXCEPT ![t] = TaskPrio[t]]
           f == FillTCB(o, t)
<1>1. o \in KState /\ Rdy(o, S) /\ C \subseteq Ready(o) /\ t \notin Ready(o) /\ S \subseteq Task
  BY DEF OsInv, Ready
<1>2. /\ a \in KState /\ Rdy(a, S) /\ Moves(o, a, t, "RDY")
      /\ a.OSRdyList = o.OSRdyList /\ a.OSPrioTbl = o.OSPrioTbl
      /\ a.Prio = [o.Prio EXCEPT ![t] = OS_PRIO_INIT]
  BY <1>1, TaskInitTCBLemma
<1>3. f = [a EXCEPT !.Prio = prio, !.TimeQuanta = [a.TimeQuanta EXCEPT ![t] = q],
                    !.TimeQuantaCtr = [a.TimeQuantaCtr EXCEPT ![t] = n]]
  BY DEF FillTCB
<1> HIDE DEF a, f
<1>4. q \in Nat /\ n \in Nat /\ TaskPrio[t] \in Prio
  BY <1>1, KernelAssumption DEF KState
<1> HIDE DEF q, n
<1>5. /\ [a.TimeQuanta EXCEPT ![t] = q] \in [Task -> Nat]
      /\ [a.TimeQuantaCtr EXCEPT ![t] = n] \in [Task -> Nat]
  BY <1>2, <1>4 DEF KState
<1>6. /\ prio \in [Task -> 0 .. PrioMax] /\ prio[t] \in Prio
      /\ \A u \in Task \ {t} : prio[u] = o.Prio[u] /\ prio[u] = a.Prio[u]
  <2>1. a.Prio \in [Task -> 0 .. PrioMax] /\ o.Prio \in [Task -> 0 .. PrioMax]
    BY <1>1, <1>2 DEF KState
  <2>2. TaskPrio[t] \in 0 .. PrioMax
    BY <1>4, CoreAssumption DEF Prio
  <2> QED
    BY <1>2, <1>4, <2>1, <2>2
<1>7. RdyOK(a.OSRdyList, prio, a.OSPrioTbl, S)
  <2>1. \A u \in S : prio[u] = a.Prio[u]
    BY <1>1, <1>6
  <2> QED
    BY <1>2, <2>1, RdyPrioFrame DEF Rdy
<1> HIDE DEF prio
<1>8. /\ f \in KState /\ f.Prio = prio /\ f.OSRdyList = a.OSRdyList /\ f.OSPrioTbl = a.OSPrioTbl
      /\ Moves(o, f, t, "RDY")
  <2>1. f \in KState
    BY <1>2, <1>3, <1>5, <1>6 DEF KState
  <2> QED
    BY <1>2, <1>3, <2>1 DEF KState, Moves
<1>9. Ready(f) = Ready(o) \cup {t}
  <2>1. o.TaskState \in [Task -> State]
    BY <1>1 DEF KState
  <2> QED
    BY <1>8, <2>1 DEF Moves, Ready
<1>10. Ready(f) \ (C \cup {t}) = S /\ C \cup {t} \subseteq Ready(f)
  BY <1>1, <1>9
<1>11. \A u \in Task : f.TaskState[u] # "DEL" => f.Prio[u] \in Prio
  <2>1. o.TaskState \in [Task -> State]
    BY <1>1 DEF KState
  <2> QED
    BY <1>6, <1>8, <2>1 DEF Moves, OsInv
<1>12. OsInv(f, C \cup {t})
  BY <1>7, <1>8, <1>10, <1>11 DEF OsInv, Rdy
<1>13. SameRun(o, f)
  BY <1>2, <1>8 DEF SameRun, Moves
<1> QED
  BY <1>8, <1>12, <1>13 DEF f

\* LinkTCB enters it in its ready list.
LEMMA LinkLemma ==
  ASSUME NEW o, NEW C, OsInv(o, C), NEW t \in C
  PROVE  OsInv(LinkTCB(o, t), C \ {t}) /\ SameTasks(o, LinkTCB(o, t))
<1> DEFINE S == Ready(o) \ C
           o2 == LinkTCB(o, t)
<1>1. o \in KState /\ Rdy(o, S) /\ C \subseteq Ready(o) /\ t \in Task /\ o.Prio[t] \in Prio
  BY DEF OsInv, Ready
<1>2. o2 \in KState /\ Rdy(o2, S \cup {t}) /\ SameTasks(o, o2)
  BY <1>1, InsertTailLemma DEF LinkTCB
<1> HIDE DEF o2
<1>3. Ready(o2) = Ready(o)
  BY <1>2 DEF SameTasks, Ready
<1>4. Ready(o2) \ (C \ {t}) = S \cup {t} /\ C \ {t} \subseteq Ready(o2)
  BY <1>1, <1>3
<1>5. \A u \in Task : o2.TaskState[u] # "DEL" => o2.Prio[u] \in Prio
  BY <1>2 DEF SameTasks, OsInv
<1>6. OsInv(o2, C \ {t})
  BY <1>2, <1>4, <1>5 DEF OsInv
<1> QED
  BY <1>2, <1>6 DEF o2

\* A task is deleted: it leaves its lists and its TCB is cleared (OSTaskDel).
LEMMA DelLemma ==
  ASSUME NEW o, NEW C, OsInv(o, C), NEW c \in Task, c \notin C
  PROVE  LET s == o.TaskState[c]
             x == IF s = "RDY" THEN OS_RdyListRemove(o, c)
                  ELSE IF s = "SUSPENDED" THEN o
                  ELSE IF s \in Pending THEN OS_PendListRemove(OS_TickListRemove(o, c), c)
                  ELSE OS_TickListRemove(o, c)
             o2 == [OS_TaskInitTCB(x, c) EXCEPT !.TaskState[c] = "DEL"]
         IN  OsInv(o2, C) /\ Moves(o, o2, c, "DEL")
<1> DEFINE s == o.TaskState[c]
           x == IF s = "RDY" THEN OS_RdyListRemove(o, c)
                ELSE IF s = "SUSPENDED" THEN o
                ELSE IF s \in Pending THEN OS_PendListRemove(OS_TickListRemove(o, c), c)
                ELSE OS_TickListRemove(o, c)
           S == (Ready(o) \ C) \ {c}
           y == OS_TaskInitTCB(x, c)
           o2 == [y EXCEPT !.TaskState[c] = "DEL"]
<1>1. o \in KState /\ Rdy(o, Ready(o) \ C) /\ C \subseteq Ready(o) /\ SameSched(o, o)
  BY DEF OsInv, SameSched, SameTasks
<1>2. x \in KState /\ Rdy(x, S) /\ SameTasks(o, x)
  <2>1. CASE s = "RDY"
    <3>1. c \in Ready(o) \ C
      BY <2>1 DEF Ready
    <3> QED
      BY <1>1, <2>1, <3>1, RdyListRemoveLemma
  <2>2. CASE s # "RDY"
    <3>1. x \in KState /\ SameSched(o, x)
      <4>1. CASE s = "SUSPENDED"
        BY <1>1, <2>2, <4>1
      <4>2. CASE s # "SUSPENDED"
        <5> DEFINE z == OS_TickListRemove(o, c)
        <5>1. z \in KState /\ SameSched(o, z)
          BY <1>1, TickListRemoveLemma
        <5> HIDE DEF z
        <5>2. LET w == OS_PendListRemove(z, c) IN w \in KState /\ SameSched(z, w)
          BY <5>1, PendListRemoveLemma
        <5>3. x = IF s \in Pending THEN OS_PendListRemove(z, c) ELSE z
          BY <2>2, <4>2 DEF z
        <5> QED
          BY <5>1, <5>2, <5>3 DEF SameSched, SameTasks
      <4> QED
        BY <4>1, <4>2
    <3>2. S = Ready(o) \ C
      BY <2>2 DEF Ready
    <3> QED
      BY <1>1, <3>1, <3>2 DEF SameSched, SameTasks, Rdy
  <2> QED
    BY <2>1, <2>2
<1> HIDE DEF x
<1>3. S \subseteq Task /\ c \notin S
  BY DEF Ready
<1>4. /\ y \in KState /\ Rdy(y, S) /\ Moves(x, y, c, "RDY")
      /\ y.Prio = [x.Prio EXCEPT ![c] = OS_PRIO_INIT]
  BY <1>2, <1>3, TaskInitTCBLemma
<1> HIDE DEF y
<1>5. "DEL" \in State
  BY DEF State
<1>6. /\ o2 \in KState /\ o2.TaskState = [y.TaskState EXCEPT ![c] = "DEL"]
      /\ o2.Prio = y.Prio /\ o2.OSRdyList = y.OSRdyList /\ o2.OSPrioTbl = y.OSPrioTbl
      /\ o2.OSTCBCurPtr = y.OSTCBCurPtr /\ o2.OSRunning = y.OSRunning
      /\ o2.OSSchedLockNestingCtr = y.OSSchedLockNestingCtr
  <2>1. y \in KState
    BY <1>4
  <2> QED
    BY <1>5, <2>1, SetStateLemma
<1> HIDE DEF o2
<1>7. o.TaskState \in [Task -> State] /\ o.Prio \in [Task -> 0 .. PrioMax]
  BY <1>1 DEF KState
<1>8. o2.TaskState = [o.TaskState EXCEPT ![c] = "DEL"]
  BY <1>2, <1>4, <1>6, <1>7 DEF Moves, SameTasks
<1>9. Moves(o, o2, c, "DEL")
  BY <1>2, <1>4, <1>6, <1>8 DEF Moves, SameTasks
<1>10. Ready(o2) = Ready(o) \ {c}
  BY <1>7, <1>8 DEF Ready
<1>11. Ready(o2) \ C = S /\ C \subseteq Ready(o2)
  BY <1>1, <1>10
<1>12. \A u \in Task : o2.TaskState[u] # "DEL" => o2.Prio[u] \in Prio
  BY <1>2, <1>4, <1>6, <1>7, <1>8 DEF SameTasks, OsInv
<1>13. Rdy(o2, S)
  BY <1>4, <1>6 DEF Rdy
<1>14. OsInv(o2, C)
  BY <1>6, <1>11, <1>12, <1>13 DEF OsInv
<1> QED
  BY <1>9, <1>14 DEF o2, y, x, s

\* OSTaskCreate up to its critical section.
LEMMA CreateStep ==
  ASSUME KInv, NEW t, NEW c, OSTaskCreate(t, c)
  PROVE  KInv' /\ RunStep
<1>1. /\ Call(t, "create") /\ c \in Target /\ os.TaskState[c] = "DEL"
      /\ os' = FillTCB(os, c) /\ pc' = [pc EXCEPT ![t] = "create"]
      /\ arg' = [arg EXCEPT ![t] = c]
      /\ tickPtr' = tickPtr /\ tmrCtr' = tmrCtr /\ boot' = boot
  BY DEF OSTaskCreate, Goto
<1>2. /\ t \in Task /\ t = cur /\ os.OSRunning /\ pc[t] = "app"
      /\ cur \in Ready(os) \ Creating
  BY <1>1, CallLemma
<1>3. c \in Task /\ c # IdleTask /\ c \notin Creating /\ c \in AppTask
  BY <1>1, TargetLemma DEF Target
<1>4. OsInv(os', Creating \cup {c}) /\ Moves(os, os', c, "RDY")
  BY <1>1, <1>3, FillLemma DEF KInv
<1>5. t # c /\ os.TaskState[t] = "RDY"
  BY <1>1, <1>2 DEF Ready
<1>6. pc \in [Task -> PC] /\ arg \in [Task -> Task \cup Obj \cup {NoTask, NoObj}]
      /\ os.TaskState \in [Task -> State]
  BY DEF KInv, KTypeOK, OsInv, KState
<1>7. \A u \in Task : IF u = t THEN pc'[u] = "create" /\ arg'[u] = c
                               ELSE pc'[u] = pc[u] /\ arg'[u] = arg[u]
  BY <1>1, <1>2, <1>6
<1>8. Creating' = Creating \cup {c}
  <2>1. ASSUME NEW x \in Creating'
        PROVE  x \in Creating \cup {c}
    BY <1>7 DEF Creating
  <2>2. ASSUME NEW x \in Creating
        PROVE  x \in Creating'
    <3>1. PICK u \in Task : pc[u] = "create" /\ x = arg[u]
      BY DEF Creating
    <3>2. u # t
      BY <1>2, <3>1
    <3> QED
      BY <1>7, <3>1, <3>2 DEF Creating
  <2>3. c \in Creating'
    BY <1>2, <1>7 DEF Creating
  <2> QED
    BY <2>1, <2>2, <2>3
<1>9. \A u \in Task : os'.TaskState[u] = IF u = c THEN "RDY" ELSE os.TaskState[u]
  BY <1>3, <1>4, <1>6 DEF Moves
<1>10. KTypeOK'
  <2>1. pc' \in [Task -> PC] /\ arg' \in [Task -> Task \cup Obj \cup {NoTask, NoObj}]
    BY <1>1, <1>2, <1>3, <1>6 DEF PC
  <2>2. \A u \in Task : pc'[u] \in {"abort", "create"} => arg'[u] \in AppTask
    BY <1>3, <1>7 DEF KInv, KTypeOK
  <2>3. os' \in KState /\ (os'.OSRunning => os'.OSTCBCurPtr \in Task)
    BY <1>4 DEF OsInv, Moves, KInv, KTypeOK
  <2> QED
    BY <1>1, <2>1, <2>2, <2>3 DEF KInv, KTypeOK
<1>11. OsInv(os, Creating)'
  BY <1>4, <1>8 DEF OsInv, Ready, Rdy
<1>12. RunningIsReady'
  BY <1>2, <1>4, <1>5, <1>8, <1>9 DEF RunningIsReady, cur, Moves
<1>13. CreateInv'
  <2>1. ASSUME NEW u \in Task, NEW v \in Task, pc'[u] = "create", pc'[v] = "create", arg'[u] = arg'[v]
        PROVE  u = v
    <3>1. \A w \in Task : w # t /\ pc'[w] = "create" => pc[w] = "create" /\ arg'[w] \in Creating
      BY <1>7 DEF Creating
    <3> QED
      BY <1>3, <1>7, <2>1, <3>1 DEF KInv, CreateInv
  <2>2. ASSUME NEW u \in Task, pc'[u] = "create"
        PROVE  os'.TaskState[u] # "DEL" /\ u \notin Creating'
    BY <1>1, <1>2, <1>5, <1>7, <1>8, <1>9, <2>2 DEF KInv, CreateInv
  <2> QED
    BY <2>1, <2>2 DEF CreateInv
<1>14. BootInv'
  BY <1>2, <1>3, <1>4, <1>9, CoreAssumption DEF KInv, BootInv, Moves
<1>15. RunStep
  <2>1. SameRun(os, os')
    BY <1>1, <1>3, FillLemma DEF KInv
  <2> QED
    BY <1>2, <1>7, <2>1 DEF RunStep, SameRun
<1> QED
  BY <1>15, <1>10, <1>11, <1>12, <1>13, <1>14 DEF KInv

\* The critical section of OSTaskCreate.
LEMMA CreateLinkStep ==
  ASSUME KInv, NEW t, OSTaskCreateLink(t)
  PROVE  KInv' /\ RunStep
<1> DEFINE c == arg[t]
<1>1. /\ os.OSRunning /\ t = cur /\ pc[t] = "create" /\ os' = LinkTCB(os, c)
      /\ pc' = [pc EXCEPT ![t] = "sched", ![c] = "app"]
      /\ arg' = [arg EXCEPT ![t] = NoTask, ![c] = NoTask]
      /\ tickPtr' = tickPtr /\ tmrCtr' = tmrCtr /\ boot' = boot
  BY DEF OSTaskCreateLink
<1>2. t \in Task /\ c \in AppTask /\ c \in Creating
  BY <1>1 DEF KInv, KTypeOK, cur, Creating
<1>3. c \in Task /\ c # t /\ pc[c] # "create"
  BY <1>1, <1>2 DEF KInv, CreateInv, AppTask
<1> HIDE DEF c
<1>4. OsInv(os', Creating \ {c}) /\ SameTasks(os, os')
  BY <1>1, <1>2, LinkLemma DEF KInv
<1>5. pc \in [Task -> PC] /\ arg \in [Task -> Task \cup Obj \cup {NoTask, NoObj}]
  BY DEF KInv, KTypeOK
<1>6. \A u \in Task : /\ pc'[u] = IF u = c THEN "app" ELSE IF u = t THEN "sched" ELSE pc[u]
                      /\ arg'[u] = IF u \in {c, t} THEN NoTask ELSE arg[u]
  BY <1>1, <1>2, <1>3, <1>5
<1>7. \A u \in Task : pc'[u] = "create" <=> pc[u] = "create" /\ u # t
  BY <1>3, <1>6
<1>8. Creating' = Creating \ {c}
  <2>1. ASSUME NEW x \in Creating'
        PROVE  x \in Creating \ {c}
    <3>1. PICK u \in Task : pc'[u] = "create" /\ x = arg'[u]
      BY DEF Creating
    <3>2. pc[u] = "create" /\ u # t /\ x = arg[u]
      BY <1>3, <1>6, <1>7, <3>1
    <3>3. x # c
      BY <1>1, <1>2, <3>2 DEF c, KInv, CreateInv
    <3> QED
      BY <3>2, <3>3 DEF Creating
  <2>2. ASSUME NEW x \in Creating \ {c}
        PROVE  x \in Creating'
    <3>1. PICK u \in Task : pc[u] = "create" /\ x = arg[u]
      BY DEF Creating
    <3>2. u # t
      BY <2>2, <3>1 DEF c
    <3>3. pc'[u] = "create" /\ x = arg'[u]
      BY <1>3, <1>6, <1>7, <3>1, <3>2
    <3> QED
      BY <3>3 DEF Creating
  <2> QED
    BY <2>1, <2>2
<1>9. KTypeOK'
  <2>1. pc' \in [Task -> PC] /\ arg' \in [Task -> Task \cup Obj \cup {NoTask, NoObj}]
    BY <1>1, <1>2, <1>3, <1>5 DEF PC
  <2>2. \A u \in Task : pc'[u] \in {"abort", "create"} => arg'[u] \in AppTask
    BY <1>6 DEF KInv, KTypeOK
  <2>3. os' \in KState /\ (os'.OSRunning => os'.OSTCBCurPtr \in Task)
    BY <1>4 DEF OsInv, SameTasks, KInv, KTypeOK
  <2> QED
    BY <1>1, <2>1, <2>2, <2>3 DEF KInv, KTypeOK
<1>10. OsInv(os, Creating)'
  BY <1>4, <1>8 DEF OsInv, Ready, Rdy
<1>11. RunningIsReady'
  <2>1. os.TaskState[t] = "RDY" /\ t \notin Creating
    BY <1>1 DEF KInv, RunningIsReady
  <2> QED
    BY <1>1, <1>4, <1>8, <2>1 DEF RunningIsReady, cur, SameTasks
<1>12. CreateInv'
  <2>1. \A u \in Task : pc'[u] = "create" => pc[u] = "create" /\ arg'[u] = arg[u]
    BY <1>3, <1>6, <1>7
  <2> QED
    BY <1>4, <1>8, <2>1 DEF KInv, CreateInv, SameTasks
<1>13. BootInv'
  BY <1>1, <1>4 DEF KInv, BootInv, SameTasks
<1>14. RunStep
  <2>1. /\ pc'[t] = "sched"
        /\ \A u \in Task : pc'[u] \in {"update", "spoke"} => pc[u] \in {"update", "spoke"}
    BY <1>2, <1>3, <1>6
  <2>2. os'.OSRunning /\ os'.OSTCBCurPtr = cur
    BY <1>1, <1>4 DEF SameTasks, cur
  <2> QED
    BY <1>1, <2>1, <2>2 DEF RunStep, Owes
<1> QED
  BY <1>14, <1>9, <1>10, <1>11, <1>12, <1>13 DEF KInv

\* OSTaskDel.
LEMMA DelStep ==
  ASSUME Hazard = {}, KInv, NEW t, NEW c, OSTaskDel(t, c)
  PROVE  KInv' /\ RunStep
<1> DEFINE s == os.TaskState[c]
           x == IF s = "RDY" THEN OS_RdyListRemove(os, c)
                ELSE IF s = "SUSPENDED" THEN os
                ELSE IF s \in Pending THEN OS_PendListRemove(OS_TickListRemove(os, c), c)
                ELSE OS_TickListRemove(os, c)
           o == [OS_TaskInitTCB(x, c) EXCEPT !.TaskState[c] = "DEL"]
<1>1. /\ Call(t, "del") /\ c \in Target /\ pc[c] # "create"
      /\ c = t => os.OSSchedLockNestingCtr = 0
      /\ Step(t, o, "sched")
  BY DEF OSTaskDel
<1>2. c \in Task /\ c # IdleTask /\ c \notin Creating /\ t = cur
  BY <1>1, TargetLemma, CallLemma
<1>3. OsInv(o, Creating) /\ Moves(os, o, c, "DEL")
  BY <1>2, DelLemma DEF KInv
<1> HIDE DEF o
<1> QED
  BY <1>1, <1>2, <1>3, MovingCall DEF PC

-----------------------------------------------------------------------------
(* The scheduler. *)

\* A service whose only effect on the tasks is to end waits keeps the invariant.
LEMMA EasesCall ==
  ASSUME KInv, NEW t, NEW svc, Call(t, svc), NEW l, l \in PC \ {"create", "abort"}, NEW o,
         OsInv(o, Creating), Eases(os, o), Step(t, o, l)
  PROVE  KInv' /\ (l \in {"sched", "pend"} => RunStep)
<1>1. os.OSRunning
  BY CallLemma
<1> QED
  BY <1>1, EasingCall DEF Eases, cur

\* Some task is ready: the idle task.
LEMMA IdleLemma ==
  ASSUME KInv, os.OSRunning
  PROVE  IdleTask \in Ready(os) \ Creating
<1>1. Creating \subseteq AppTask
  BY DEF KInv, KTypeOK, Creating
<1> QED
  BY <1>1, CoreAssumption DEF KInv, BootInv, Ready, AppTask

\* The scheduler gives the processor to a ready task, or leaves it to the one
\* that holds the scheduler lock.
LEMMA RescheduleInv ==
  ASSUME NEW o, NEW C, OsInv(o, C), IdleTask \in Ready(o) \ C
  PROVE  LET o2 == Reschedule(o)
         IN  /\ OsInv(o2, C) /\ o2.TaskState = o.TaskState /\ o2.OSRunning = o.OSRunning
             /\ o2.OSSchedLockNestingCtr = o.OSSchedLockNestingCtr
             /\ o2.OSTCBCurPtr \in Ready(o2) \ C \/ o2.OSTCBCurPtr = o.OSTCBCurPtr
             /\ o.OSSchedLockNestingCtr = 0 => o2.OSTCBCurPtr \in Ready(o2) \ C
<1> DEFINE S == Ready(o) \ C
           o2 == Reschedule(o)
<1>1. o \in KState /\ Rdy(o, S) /\ S # {} /\ S \subseteq Task
  BY DEF OsInv, Ready
<1>2. /\ o2 \in KState /\ Rdy(o2, S)
      /\ o2.TaskState = o.TaskState /\ o2.Prio = o.Prio /\ o2.OSRunning = o.OSRunning
      /\ o2.OSSchedLockNestingCtr = o.OSSchedLockNestingCtr
      /\ o.OSSchedLockNestingCtr = 0 => o2.OSTCBCurPtr \in S
      /\ o2.OSTCBCurPtr \in S \/ o2.OSTCBCurPtr = o.OSTCBCurPtr
  BY <1>1, RescheduleLemma
<1> HIDE DEF o2
<1>3. Ready(o2) = Ready(o)
  BY <1>2 DEF Ready
<1>4. OsInv(o2, C)
  BY <1>2, <1>3 DEF OsInv
<1> QED
  BY <1>2, <1>3, <1>4 DEF o2

\* OSSched.
LEMMA SchedStep ==
  ASSUME KInv, NEW t, OSSched(t)
  PROVE  KInv' /\ RunStep
<1> DEFINE o == Reschedule(os)
           l == IF pc[t] = "pend" THEN "ret" ELSE "app"
<1>1. os.OSRunning /\ t = cur /\ pc[t] \in {"sched", "pend"} /\ Step(t, o, l)
  BY DEF OSSched
<1>2. OsInv(os, Creating) /\ IdleTask \in Ready(os) \ Creating
  BY <1>1, IdleLemma DEF KInv
<1>3. /\ OsInv(o, Creating) /\ o.TaskState = os.TaskState /\ o.OSRunning = os.OSRunning
      /\ o.OSSchedLockNestingCtr = os.OSSchedLockNestingCtr
      /\ o.OSTCBCurPtr \in Ready(o) \ Creating \/ o.OSTCBCurPtr = cur
      /\ os.OSSchedLockNestingCtr = 0 => o.OSTCBCurPtr \in Ready(o) \ Creating
  BY <1>2, RescheduleInv DEF cur
<1> HIDE DEF o
<1>4. o.OSTCBCurPtr \in Ready(o) \ Creating
  <2>1. CASE os.OSSchedLockNestingCtr = 0
    BY <1>3, <2>1
  <2>2. CASE os.OSSchedLockNestingCtr # 0
    <3>1. os.OSSchedLockNestingCtr > 0
      BY <1>2, <2>2 DEF OsInv, KState
    <3>2. cur \in Task /\ os.TaskState[cur] = "RDY" /\ cur \notin Creating
      BY <1>1, <3>1 DEF KInv, RunningIsReady, KTypeOK, cur
    <3> QED
      BY <1>3, <3>2 DEF Ready
  <2> QED
    BY <2>1, <2>2
<1>5. Leaves(o, l)
  BY <1>1, <1>3, <1>4 DEF Leaves, KInv, BootInv, CreateInv, Ready
<1>6. RunStep
  <2>1. os' = o /\ pc' = [pc EXCEPT ![t] = l] /\ pc \in [Task -> PC] /\ t \in Task
    BY <1>1 DEF Step, Goto, KInv, KTypeOK, cur
  <2>2. \A u \in Task : pc'[u] = IF u = t THEN l ELSE pc[u]
    BY <2>1
  <2>3. Selects
    BY <1>2, <2>1 DEF Selects, OsInv, o, cur
  <2> QED
    BY <1>1, <1>3, <2>1, <2>2, <2>3 DEF RunStep
<1> QED
  BY <1>1, <1>5, <1>6, StepLemma DEF PC

\* OSSchedLock and OSSchedUnlock.
LEMMA LockStep ==
  ASSUME KInv, NEW t, OSSchedLock(t) \/ OSSchedUnlock(t)
  PROVE  KInv' /\ RunStep
<1>1. PICK n \in Nat, l \in {"sched", "app"} :
        /\ Call(t, "lock") /\ Step(t, [os EXCEPT !.OSSchedLockNestingCtr = n], l)
        /\ l = "sched" \/ n > 0
  <2>1. os.OSSchedLockNestingCtr \in Nat
    BY DEF KInv, OsInv, KState
  <2>2. CASE OSSchedLock(t)
    <3>1. os.OSSchedLockNestingCtr + 1 \in Nat /\ os.OSSchedLockNestingCtr + 1 > 0
      BY <2>1
    <3>2. Call(t, "lock") /\ Step(t, [os EXCEPT !.OSSchedLockNestingCtr = @ + 1], "app")
      BY <2>2 DEF OSSchedLock
    <3> QED
      BY <3>1, <3>2
  <2>3. CASE OSSchedUnlock(t)
    <3> DEFINE n == os.OSSchedLockNestingCtr - 1
               l == IF os.OSSchedLockNestingCtr = 1 THEN "sched" ELSE "app"
    <3>1. n \in Nat /\ l \in {"sched", "app"} /\ (l = "sched" \/ n > 0)
      BY <2>1, <2>3 DEF OSSchedUnlock
    <3>2. Call(t, "lock") /\ Step(t, [os EXCEPT !.OSSchedLockNestingCtr = n], l)
      BY <2>3 DEF OSSchedUnlock
    <3> HIDE DEF n, l
    <3> QED
      BY <3>1, <3>2
  <2> QED
    BY <2>2, <2>3
<1> DEFINE o == [os EXCEPT !.OSSchedLockNestingCtr = n]
<1>2. os.OSRunning
  BY <1>1, CallLemma
<1>3. /\ o \in KState /\ o.TaskState = os.TaskState /\ o.Prio = os.Prio
      /\ o.OSRdyList = os.OSRdyList /\ o.OSPrioTbl = os.OSPrioTbl
      /\ o.OSTCBCurPtr = os.OSTCBCurPtr /\ o.OSRunning = os.OSRunning
      /\ o.OSSchedLockNestingCtr = n
  BY DEF KInv, OsInv, KState
<1> HIDE DEF o
<1>4. OsInv(o, Creating)
  BY <1>3 DEF KInv, OsInv, Ready, Rdy
<1>5. Step(t, o, l)
  BY <1>1 DEF o
<1>6. RunStep
  BY <1>1, <1>2, <1>3, <1>5, CallLemma, RunCall DEF cur
<1> QED
  BY <1>1, <1>2, <1>3, <1>4, <1>5, <1>6, EasingCall DEF PC, cur

\* The services that change no task's state and no list: OSSchedRoundRobinCfg,
\* OSTaskTimeQuantaSet, OSTimeSet, OSTaskSemSet.
LEMMA DataCall ==
  ASSUME KInv, NEW t, NEW svc, Call(t, svc), NEW l, l \in PC \ {"create", "abort"}, NEW o,
         o \in KState, SameSched(os, o), Step(t, o, l)
  PROVE  KInv' /\ (l \notin {"update", "spoke"} \/ t = TickTask => RunStep)
<1>1. OsInv(o, Creating) /\ Eases(os, o)
  BY SameSchedInv DEF KInv
<1>2. ASSUME l \notin {"update", "spoke"} \/ t = TickTask
      PROVE  RunStep
  <2>1. t = cur /\ os.OSRunning /\ pc[t] = "app"
    BY CallLemma
  <2>2. SameRun(os, o) /\ o.OSRunning
    BY <2>1 DEF SameSched, SameTasks, SameRun
  <2> QED
    BY <1>2, <2>1, <2>2, RunCall
<1> QED
  BY <1>1, <1>2, EasesCall

\* OSSchedRoundRobinCfg keeps the invariant.
LEMMA RoundRobinCfgStep ==
  ASSUME KInv, NEW t, NEW en \in BOOLEAN, NEW q \in Quanta, OSSchedRoundRobinCfg(t, en, q)
  PROVE  KInv' /\ RunStep
<1> DEFINE n == IF q > 0 THEN q ELSE DfltQuanta
           o == [os EXCEPT !.OSSchedRoundRobinEn = en, !.OSSchedRoundRobinDfltTimeQuanta = n]
<1>1. Call(t, "rrcfg") /\ Step(t, o, "app")
  BY DEF OSSchedRoundRobinCfg
<1>2. n \in Nat
  BY CoreAssumption, KernelAssumption
<1> HIDE DEF n
<1>3. o \in KState /\ SameSched(os, o)
  BY <1>2 DEF KInv, OsInv, KState, SameSched, SameTasks
<1> HIDE DEF o
<1> QED
  BY <1>1, <1>3, DataCall DEF PC

\* OSSchedRoundRobinYield keeps the invariant.
LEMMA YieldStep ==
  ASSUME KInv, NEW t, OSSchedRoundRobinYield(t)
  PROVE  KInv' /\ RunStep
<1> DEFINE o == Rotate(os, os.OSPrioCur)
<1>1. Call(t, "yield") /\ Len(os.OSRdyList[os.OSPrioCur]) >= 2 /\ Step(t, o, "sched")
  BY DEF OSSchedRoundRobinYield
<1>2. os \in KState /\ os.OSPrioCur \in Prio /\ Rdy(os, Ready(os) \ Creating)
  BY DEF KInv, OsInv, KState
<1>3. o \in KState /\ Rdy(o, Ready(os) \ Creating) /\ SameTasks(os, o)
  BY <1>1, <1>2, RotateLemma
<1> HIDE DEF o
<1>4. OsInv(o, Creating) /\ Eases(os, o)
  BY <1>3, SameTasksInv DEF KInv
<1> QED
  BY <1>1, <1>4, EasesCall DEF PC

\* OSTaskTimeQuantaSet keeps the invariant.
LEMMA TimeQuantaSetStep ==
  ASSUME KInv, NEW t, NEW c, NEW q \in Quanta, OSTaskTimeQuantaSet(t, c, q)
  PROVE  KInv' /\ RunStep
<1> DEFINE v == IF q = 0 THEN os.OSSchedRoundRobinDfltTimeQuanta ELSE q
           n == IF v > os.TimeQuantaCtr[c] THEN v ELSE os.TimeQuantaCtr[c]
           o == [os EXCEPT !.TimeQuanta[c] = v, !.TimeQuantaCtr[c] = n]
<1>1. os \in KState
  BY DEF KInv, OsInv
<1>2. Call(t, "quanta") /\ c \in Target /\ Step(t, o, "app")
  BY DEF OSTaskTimeQuantaSet
<1>3. c \in Task
  BY <1>2, TargetLemma
<1>4. v \in Nat /\ n \in Nat
  BY <1>1, <1>3, KernelAssumption DEF KState
<1> HIDE DEF v, n
<1>5. /\ [os.TimeQuanta EXCEPT ![c] = v] \in [Task -> Nat]
      /\ [os.TimeQuantaCtr EXCEPT ![c] = n] \in [Task -> Nat]
  BY <1>1, <1>4 DEF KState
<1>6. o = [os EXCEPT !.TimeQuanta = [os.TimeQuanta EXCEPT ![c] = v],
                     !.TimeQuantaCtr = [os.TimeQuantaCtr EXCEPT ![c] = n]]
  BY <1>1 DEF KState
<1> HIDE DEF o
<1>7. o \in KState /\ SameSched(os, o)
  BY <1>1, <1>5, <1>6 DEF KState, SameSched, SameTasks
<1> QED
  BY <1>2, <1>7, DataCall DEF PC

\* OSTaskChangePrio, of a ready, a delayed, a waiting or a suspended task, keeps
\* the invariant.
LEMMA ChangePrioStep ==
  ASSUME KInv, NEW t, NEW c, NEW p \in NewPrios, NEW self \in BOOLEAN, OSTaskChangePrio(t, c, p, self)
  PROVE  KInv' /\ RunStep
<1> DEFINE s  == os.TaskState[c]
           o1 == OS_PrioInsert([OS_RdyListRemove(os, c) EXCEPT !.Prio[c] = p], p)
           o  == IF s = "RDY" THEN IF self THEN OS_RdyListInsertHead(o1, c)
                                           ELSE OS_RdyListInsertTail(o1, c)
                 ELSE IF s \notin Pending \/ os.PendOn[c] \in {"TASK_Q", "TASK_SEM", "FLAG"}
                 THEN [os EXCEPT !.Prio[c] = p]
                 ELSE IF os.PendOn[c] = "NOTHING" THEN os
                 ELSE OS_PendListChangePrio(os, c, p)
<1>1. Call(t, "chprio") /\ c \in Target /\ Step(t, o, "sched")
  BY DEF OSTaskChangePrio
<1>2. c \in Task /\ c \notin Creating
  BY <1>1, TargetLemma
<1>3. p \in Prio
  BY KernelAssumption, CoreAssumption DEF Prio
<1>4. OsInv(os, Creating) /\ os.OSRunning
  BY <1>1, CallLemma DEF KInv
<1>5. /\ OsInv(o, Creating) /\ o.TaskState = os.TaskState
      /\ o.OSTCBCurPtr = os.OSTCBCurPtr /\ o.OSRunning = os.OSRunning
  <2>1. CASE s = "RDY"
    <3>1. c \in Ready(os) \ Creating
      BY <1>2, <2>1 DEF Ready
    <3>2. \/ o = OS_RdyListInsertHead(Reprio(os, c, p), c)
          \/ o = OS_RdyListInsertTail(Reprio(os, c, p), c)
      BY <2>1 DEF Reprio
    <3> HIDE DEF o
    <3> QED
      <4>1. /\ Repriod(os, OS_RdyListInsertHead(Reprio(os, c, p), c), Creating)
            /\ Repriod(os, OS_RdyListInsertTail(Reprio(os, c, p), c), Creating)
        BY <1>3, <1>4, <3>1, RdyChangePrioLemma
      <4>2. Repriod(os, o, Creating)
        BY <3>2, <4>1
      <4> QED
        BY <4>2 DEF Repriod
  <2>2. CASE s # "RDY"
    <3>1. c \notin Ready(os)
      BY <2>2 DEF Ready
    <3>2. o = os \/ o = [os EXCEPT !.Prio[c] = p] \/ o = OS_PendListChangePrio(os, c, p)
      BY <2>2
    <3> HIDE DEF o
    <3>3. CASE o = os
      BY <1>4, <3>3
    <3>4. CASE o = [os EXCEPT !.Prio[c] = p]
      BY <1>2, <1>3, <1>4, <3>1, <3>4, SetPrioLemma
    <3>5. CASE o = OS_PendListChangePrio(os, c, p)
      BY <1>2, <1>3, <1>4, <3>1, <3>5, PendListChangePrioLemma
    <3> QED
      BY <3>2, <3>3, <3>4, <3>5
  <2> QED
    BY <2>1, <2>2
<1> HIDE DEF o
<1> QED
  BY <1>1, <1>4, <1>5, EasingCall DEF PC, cur

-----------------------------------------------------------------------------
(* Delays and suspension. *)

\* OSTimeDly keeps the invariant when the late match hazard is excluded.
LEMMA DlyStep ==
  ASSUME Hazard = {}, KInv, NEW t, NEW d \in Delays, NEW opt, OSTimeDly(t, d, opt)
  PROVE  KInv' /\ RunStep
<1> DEFINE o1 == OS_TickListInsert([os EXCEPT !.TaskState[t] = "DLY"], t, d, opt)
           o  == OS_RdyListRemove(o1, t)
<1>1. Call(t, "dly") /\ os.OSSchedLockNestingCtr = 0 /\ Step(t, o, "sched")
  BY DEF OSTimeDly
<1>2. t \in Task /\ t = cur /\ cur \in Ready(os) \ Creating /\ t # IdleTask
  BY <1>1, CallLemma
<1>3. d \in Tick
  BY KernelAssumption
<1>4. OsInv(o, Creating) /\ Moves(os, o, t, "DLY")
  BY <1>2, <1>3, DlyLemma DEF KInv
<1> HIDE DEF o
<1> QED
  BY <1>1, <1>2, <1>4, MovingCall DEF PC

\* OSTimeSet keeps the invariant.
LEMMA TimeSetStep ==
  ASSUME KInv, NEW t, NEW d \in Delays, OSTimeSet(t, d)
  PROVE  KInv' /\ RunStep
<1> DEFINE o == [os EXCEPT !.OSTickCtr = d]
<1>1. Call(t, "timeset") /\ Step(t, o, "app")
  BY DEF OSTimeSet
<1>2. d \in Tick
  BY KernelAssumption
<1>3. o \in KState /\ SameSched(os, o)
  BY <1>2 DEF KInv, OsInv, KState, SameSched, SameTasks
<1> HIDE DEF o
<1> QED
  BY <1>1, <1>3, DataCall DEF PC

\* The suspension counter of a task changes.
LEMMA SuspendCtrLemma ==
  ASSUME NEW o \in KState, NEW c \in Task, NEW n \in 0 .. NestMod - 1
  PROVE  LET o2 == [o EXCEPT !.SuspendCtr[c] = n]
         IN  o2 \in KState /\ SameSched(o, o2) /\ o2.SuspendCtr[c] = n
<1> DEFINE o2 == [o EXCEPT !.SuspendCtr[c] = n]
<1>1. [o.SuspendCtr EXCEPT ![c] = n] \in [Task -> 0 .. NestMod - 1]
  BY DEF KState
<1>2. o2 = [o EXCEPT !.SuspendCtr = [o.SuspendCtr EXCEPT ![c] = n]]
  BY DEF KState
<1> HIDE DEF o2
<1>3. o2 \in KState
  BY <1>1, <1>2 DEF KState
<1>4. SameSched(o, o2) /\ o2.SuspendCtr[c] = n
  BY <1>2 DEF KState, SameSched, SameTasks
<1> QED
  BY <1>3, <1>4 DEF o2

\* OSTaskSuspend, of the running task or of another one, keeps the invariant.
LEMMA SuspendStep ==
  ASSUME KInv, NEW t, NEW c, OSTaskSuspend(t, c)
  PROVE  KInv' /\ RunStep
<1> DEFINE s  == os.TaskState[c]
           st == CASE s = "RDY" -> "SUSPENDED"
                   [] s = "DLY" -> "DLY_SUSPENDED"
                   [] s = "PEND" -> "PEND_SUSPENDED"
                   [] OTHER -> "PEND_TIMEOUT_SUSPENDED"
           a  == [os EXCEPT !.SuspendCtr[c] = 1]
           o  == [a EXCEPT !.TaskState[c] = st]
           n  == (os.SuspendCtr[c] + 1) % NestMod
           m  == [os EXCEPT !.SuspendCtr[c] = n]
           x  == IF s = "RDY" THEN OS_RdyListRemove(o, c) ELSE o
<1>1. /\ Call(t, "suspend") /\ c \in Target /\ (c = t => os.OSSchedLockNestingCtr = 0)
      /\ s # "DEL"
      /\ \/ Step(t, m, "sched")
         \/ s \notin Suspended /\ Step(t, x, "sched")
  BY DEF OSTaskSuspend
<1>2. c \in Task /\ c # IdleTask /\ c \notin Creating /\ t = cur
  BY <1>1, TargetLemma, CallLemma
<1>3. os \in KState /\ OsInv(os, Creating)
  BY DEF KInv, OsInv
<1>4. n \in 0 .. NestMod - 1 /\ 1 \in 0 .. NestMod - 1
  <2>1. os.SuspendCtr[c] \in 0 .. NestMod - 1
    BY <1>2, <1>3 DEF KState
  <2> QED
    BY <2>1, CoreAssumption
<1> HIDE DEF n
<1>5. CASE Step(t, m, "sched")
  <2>1. m \in KState /\ SameSched(os, m)
    BY <1>2, <1>3, <1>4, SuspendCtrLemma
  <2> HIDE DEF m
  <2> QED
    BY <1>1, <1>5, <2>1, DataCall DEF PC
<1>6. CASE s \notin Suspended /\ Step(t, x, "sched")
  <2>1. a \in KState /\ SameSched(os, a)
    BY <1>2, <1>3, <1>4, SuspendCtrLemma
  <2> HIDE DEF a
  <2>2. st \in State /\ st \in Suspended /\ st \notin {"RDY", "DEL"}
    BY DEF State, Suspended
  <2> HIDE DEF st
  <2>3. /\ o \in KState /\ Moves(os, o, c, st) /\ o.Prio = os.Prio
        /\ o.OSRdyList = os.OSRdyList /\ o.OSPrioTbl = os.OSPrioTbl
    BY <1>2, <2>1, <2>2, SetStateLemma DEF Moves, SameSched, SameTasks
  <2>4. OsInv(x, Creating) /\ Moves(os, x, c, st)
    <3> HIDE DEF o
    <3>1. CASE s = "RDY"
      <4>1. c \in Ready(os) \ Creating
        BY <1>2, <3>1 DEF Ready
      <4> QED
        BY <1>3, <2>2, <2>3, <3>1, <4>1, BlockLemma
    <3>2. CASE s # "RDY"
      <4>1. Rdy(o, Ready(os) \ Creating)
        BY <1>3, <2>3 DEF OsInv, Rdy
      <4>2. OsInv(o, Creating)
        BY <1>1, <1>2, <1>3, <2>2, <2>3, <3>2, <4>1, EaseInv DEF Moves
      <4> QED
        BY <2>3, <3>2, <4>2
    <3> QED
      BY <3>1, <3>2
  <2>5. Step(t, x, "sched")
    BY <1>6
  <2> HIDE DEF x
  <2> QED
    BY <1>1, <1>2, <2>2, <2>4, <2>5, MovingCall DEF PC
<1> QED
  BY <1>1, <1>5, <1>6

\* OSTaskResume keeps the invariant: only the last resumption readies a task.
LEMMA ResumeStep ==
  ASSUME KInv, NEW t, NEW c, OSTaskResume(t, c)
  PROVE  KInv' /\ RunStep
<1> DEFINE s  == os.TaskState[c]
           n  == (os.SuspendCtr[c] - 1) % NestMod
           a  == [os EXCEPT !.SuspendCtr[c] = n]
           st == CASE s = "SUSPENDED" -> "RDY"
                   [] s = "DLY_SUSPENDED" -> "DLY"
                   [] s = "PEND_SUSPENDED" -> "PEND"
                   [] OTHER -> "PEND_TIMEOUT"
           r  == [a EXCEPT !.TaskState[c] = st]
           x  == IF s \notin Suspended THEN os
                 ELSE IF a.SuspendCtr[c] # 0 THEN a
                 ELSE IF s = "SUSPENDED" THEN OS_TaskRdy(r, c) ELSE r
<1>1. Call(t, "resume") /\ c \in Target /\ s # "DEL" /\ Step(t, x, "sched")
  BY DEF OSTaskResume
<1>2. c \in Task /\ c \notin Creating
  BY <1>1, TargetLemma
<1>3. os \in KState /\ OsInv(os, Creating) /\ Rdy(os, Ready(os) \ Creating)
  BY DEF KInv, OsInv
<1>4. n \in 0 .. NestMod - 1
  <2>1. os.SuspendCtr[c] \in 0 .. NestMod - 1
    BY <1>2, <1>3 DEF KState
  <2> QED
    BY <2>1, CoreAssumption
<1> HIDE DEF n
<1>5. a \in KState /\ SameSched(os, a)
  BY <1>2, <1>3, <1>4, SuspendCtrLemma
<1> HIDE DEF a
<1>6. OsInv(a, Creating) /\ Eases(os, a) /\ a.TaskState = os.TaskState
  BY <1>3, <1>5, SameSchedInv DEF SameSched, SameTasks
<1>7. st \in State /\ st # "DEL" /\ (st = "RDY" <=> s = "SUSPENDED") /\ st \notin Suspended
  BY DEF State, Suspended
<1> HIDE DEF st
<1>8. /\ r \in KState /\ Moves(a, r, c, st) /\ r.Prio = a.Prio
      /\ r.OSRdyList = a.OSRdyList /\ r.OSPrioTbl = a.OSPrioTbl
  BY <1>2, <1>5, <1>7, SetStateLemma DEF Moves
<1> HIDE DEF r
<1>9. ASSUME s \in Suspended
      PROVE  LET y == IF s = "SUSPENDED" THEN OS_TaskRdy(r, c) ELSE r
             IN  OsInv(y, Creating) /\ Eases(a, y)
  <2> DEFINE y == IF s = "SUSPENDED" THEN OS_TaskRdy(r, c) ELSE r
  <2>1. a.TaskState[c] \notin {"RDY", "DEL"} /\ a.TaskState[c] = s
    BY <1>6, <1>9 DEF Suspended
  <2>2. Rdy(r, Ready(a) \ Creating) /\ Ready(a) = Ready(os)
    BY <1>6, <1>8 DEF OsInv, Rdy, Ready
  <2>3. CASE s = "SUSPENDED"
    <3>1. r.TaskState[c] = st /\ r.Prio[c] \in Prio
      <4>1. a.TaskState \in [Task -> State]
        BY <1>5 DEF KState
      <4> QED
        BY <1>2, <1>6, <1>8, <2>1, <4>1 DEF Moves, OsInv
    <3>2. c \notin Ready(a) \ Creating
      BY <2>1 DEF Ready
    <3>3. y \in KState /\ Rdy(y, (Ready(a) \ Creating) \cup {c}) /\ SameTasks(r, y)
      BY <1>2, <1>7, <1>8, <2>2, <2>3, <3>1, <3>2, TaskRdyLemma
    <3> HIDE DEF y
    <3>4. OsInv(y, Creating) /\ Eases(a, y)
      BY <1>2, <1>6, <1>7, <1>8, <2>1, <2>3, <3>3, EaseInv DEF Moves, SameTasks
    <3> QED
      BY <3>4 DEF y
  <2>4. CASE s # "SUSPENDED"
    <3>1. OsInv(r, Creating) /\ Eases(a, r)
      BY <1>2, <1>6, <1>7, <1>8, <2>1, <2>2, <2>4, EaseInv DEF Moves
    <3> QED
      BY <2>4, <3>1
  <2> QED
    BY <2>3, <2>4
<1>10. OsInv(x, Creating) /\ Eases(os, x)
  <2>1. CASE s \notin Suspended
    BY <1>3, <2>1 DEF Eases
  <2>2. CASE s \in Suspended /\ a.SuspendCtr[c] # 0
    BY <1>6, <2>2
  <2>3. CASE s \in Suspended /\ a.SuspendCtr[c] = 0
    BY <1>6, <1>9, <2>3, EasesTransitive
  <2> QED
    BY <2>1, <2>2, <2>3
<1> HIDE DEF x
<1> QED
  BY <1>1, <1>10, EasesCall DEF PC

-----------------------------------------------------------------------------
(* The semaphore inside each TCB. *)

\* The semaphore counter of a task changes.
LEMMA SemCtrLemma ==
  ASSUME NEW o \in KState, NEW c \in Task, NEW n \in 0 .. SemMax
  PROVE  LET o2 == [o EXCEPT !.SemCtr[c] = n]
         IN  o2 \in KState /\ SameSched(o, o2)
<1> DEFINE o2 == [o EXCEPT !.SemCtr[c] = n]
<1>1. [o.SemCtr EXCEPT ![c] = n] \in [Task -> 0 .. SemMax]
  BY DEF KState
<1>2. o2 = [o EXCEPT !.SemCtr = [o.SemCtr EXCEPT ![c] = n]]
  BY DEF KState
<1> HIDE DEF o2
<1>3. o2 \in KState
  BY <1>1, <1>2 DEF KState
<1>4. SameSched(o, o2)
  BY <1>2 DEF KState, SameSched, SameTasks
<1> QED
  BY <1>3, <1>4 DEF o2

\* OS_TaskSemPost, by a task or by the tick interrupt.
LEMMA TaskSemPostLemma ==
  ASSUME NEW o, NEW C, OsInv(o, C), NEW c \in Task
  PROVE  OsInv(OS_TaskSemPost(o, c), C) /\ Eases(o, OS_TaskSemPost(o, c))
<1> DEFINE n  == o.SemCtr[c] + 1
           o1 == [o EXCEPT !.SemCtr[c] = n]
           o2 == OS_TaskSemPost(o, c)
<1>1. o \in KState /\ o.SemCtr[c] \in 0 .. SemMax
  BY DEF OsInv, KState
<1>2. CASE WaitsForSignal(o, c)
  <2>1. NoObj \in Obj \cup {NoObj} /\ NoMsg \in Msg \cup {NoMsg} /\ "OK" \in StatusSet
    BY DEF StatusSet
  <2>2. o2 = EndWait(o, NoObj, c, NoMsg, "OK")
    BY <1>2 DEF OS_TaskSemPost, OS_Post
  <2> QED
    BY <2>1, <2>2, EndWaitLemma
<1>3. CASE ~WaitsForSignal(o, c) /\ (o.TaskState[c] = "DEL" \/ o.SemCtr[c] = SemMax)
  <2>1. o2 = o
    BY <1>3 DEF OS_TaskSemPost
  <2> QED
    BY <2>1 DEF Eases
<1>4. CASE ~WaitsForSignal(o, c) /\ ~(o.TaskState[c] = "DEL" \/ o.SemCtr[c] = SemMax)
  <2>1. o2 = o1
    BY <1>4 DEF OS_TaskSemPost
  <2>2. n \in 0 .. SemMax
    BY <1>1, <1>4, CoreAssumption
  <2> HIDE DEF n
  <2>3. o1 \in KState /\ SameSched(o, o1)
    BY <1>1, <2>2, SemCtrLemma
  <2> QED
    BY <2>1, <2>3, SameSchedInv
<1> QED
  BY <1>2, <1>3, <1>4

\* OSTaskSemPend keeps the invariant, with and without a signal.
LEMMA SemPendStep ==
  ASSUME KInv, NEW t, NEW d \in Timeouts \cup {0}, NEW block \in BOOLEAN, OSTaskSemPend(t, d, block)
  PROVE  KInv' /\ RunStep
<1> DEFINE n == os.SemCtr[t] - 1
           a == [os EXCEPT !.SemCtr[t] = n]
           o == OS_Pend(os, t, NoObj, "TASK_SEM", d)
           l == Resumption(t, TRUE)
<1>1. /\ Call(t, "sempend")
      /\ \/ os.SemCtr[t] > 0 /\ Step(t, a, l)
         \/ os.OSSchedLockNestingCtr = 0 /\ Step(t, o, "pend")
  BY DEF OSTaskSemPend
<1>2. t \in Task /\ t = cur /\ cur \in Ready(os) \ Creating /\ t # IdleTask
  BY <1>1, CallLemma
<1>3. os \in KState /\ os.SemCtr[t] \in 0 .. SemMax /\ OsInv(os, Creating)
  BY <1>2 DEF KInv, OsInv, KState
<1>4. CASE os.SemCtr[t] > 0 /\ Step(t, a, l)
  <2>1. n \in 0 .. SemMax
    BY <1>3, <1>4, CoreAssumption
  <2> HIDE DEF n
  <2>2. a \in KState /\ SameSched(os, a)
    BY <1>2, <1>3, <2>1, SemCtrLemma
  <2>3. l \in PC \ {"create", "abort"} /\ (l \notin {"update", "spoke"} \/ t = TickTask)
    BY DEF Resumption, PC
  <2> HIDE DEF a, l
  <2> QED
    BY <1>1, <1>4, <2>2, <2>3, DataCall
<1>5. CASE os.OSSchedLockNestingCtr = 0 /\ Step(t, o, "pend")
  <2>1. d \in Tick /\ NoObj \in Obj \cup {NoObj} /\ "TASK_SEM" \in PendOnSet
    BY KernelAssumption, CoreAssumption DEF Tick, PendOnSet
  <2>2. OsInv(o, Creating) /\ \E st \in {"PEND", "PEND_TIMEOUT"} : Moves(os, o, t, st)
    BY <1>2, <1>3, <2>1, PendLemma
  <2>3. PICK st \in {"PEND", "PEND_TIMEOUT"} : Moves(os, o, t, st)
    BY <2>2
  <2>4. Step(t, o, "pend") /\ os.OSSchedLockNestingCtr = 0
    BY <1>5
  <2> HIDE DEF o
  <2> QED
    BY <1>1, <1>2, <2>2, <2>3, <2>4, MovingCall DEF PC
<1> QED
  BY <1>1, <1>4, <1>5

\* The second half of OSTaskSemPend, after the switch back, keeps the invariant.
LEMMA PendReturnStep ==
  ASSUME KInv, NEW t, PendReturn(t)
  PROVE  KInv' /\ RunStep
<1> DEFINE l == Resumption(t, os.PendStatus[t] = "OK")
<1>1. os.OSRunning /\ t = cur /\ pc[t] = "ret" /\ Step(t, os, l)
  BY DEF PendReturn
<1>2. l \in PC \ {"create", "abort"} /\ (l \notin {"update", "spoke"} \/ t = TickTask)
  BY DEF Resumption, PC
<1> HIDE DEF l
<1>3. cur \in Ready(os) \ Creating
  BY <1>1 DEF KInv, RunningIsReady, KTypeOK, Ready, cur
<1>4. Leaves(os, l)
  BY <1>1, <1>3 DEF Leaves, KInv, BootInv, CreateInv, Ready, cur
<1>5. RunStep
  BY <1>1, <1>2, RunCall DEF SameRun
<1> QED
  BY <1>1, <1>2, <1>4, <1>5, StepLemma

\* OSTaskSemPost keeps the invariant, in each state of its target.
LEMMA SemPostStep ==
  ASSUME KInv, NEW t, NEW c, NEW opt \in PostOpts, OSTaskSemPost(t, c, opt)
  PROVE  KInv' /\ RunStep
<1> DEFINE o == OS_TaskSemPost(os, c)
           l == IF WaitsForSignal(os, c) /\ opt # "NO_SCHED" THEN "sched" ELSE "app"
<1>1. Call(t, "sempost") /\ c \in Target /\ Step(t, o, l)
  BY DEF OSTaskSemPost
<1>2. c \in Task
  BY <1>1, TargetLemma
<1>3. OsInv(o, Creating) /\ Eases(os, o)
  BY <1>2, TaskSemPostLemma DEF KInv
<1>4. l \in PC \ {"create", "abort"}
  BY DEF PC
<1>5. CASE l = "sched"
  <2> HIDE DEF o, l
  <2> QED
    BY <1>1, <1>3, <1>4, <1>5, EasesCall
<1>6. CASE l = "app"
  <2>1. t = cur /\ os.OSRunning /\ pc[t] = "app" /\ os \in KState
    BY <1>1, CallLemma DEF KInv, OsInv
  <2>2. SameRun(os, o) \/ "NO_SCHED" \in PostOpts
    BY <1>6, <2>1 DEF SameRun, OS_TaskSemPost, KState
  <2> HIDE DEF o, l
  <2>3. RunStep
    BY <1>1, <1>3, <1>6, <2>1, <2>2, RunCall DEF Eases, cur
  <2> QED
    BY <1>1, <1>3, <1>4, <2>3, EasesCall
<1> QED
  BY <1>5, <1>6

\* OSTaskSemSet keeps the invariant.
LEMMA SemSetStep ==
  ASSUME KInv, NEW t, NEW c, NEW n \in 0 .. SemMax, OSTaskSemSet(t, c, n)
  PROVE  KInv' /\ RunStep
<1> DEFINE o == [os EXCEPT !.SemCtr[c] = n]
<1>1. Call(t, "semset") /\ c \in Target /\ Step(t, o, "app")
  BY DEF OSTaskSemSet
<1>2. c \in Task /\ os \in KState
  BY <1>1, TargetLemma DEF KInv, OsInv
<1>3. o \in KState /\ SameSched(os, o)
  BY <1>2, SemCtrLemma
<1> HIDE DEF o
<1> QED
  BY <1>1, <1>3, DataCall DEF PC

\* The first critical section of OSTaskSemPendAbort changes nothing but the
\* caller's place.
LEMMA SemPendAbortStep ==
  ASSUME KInv, NEW t, NEW c, OSTaskSemPendAbort(t, c)
  PROVE  KInv' /\ RunStep
<1>1. /\ Call(t, "semabort") /\ c \in Target /\ os' = os
      /\ pc' = [pc EXCEPT ![t] = "abort"] /\ arg' = [arg EXCEPT ![t] = c]
      /\ tickPtr' = tickPtr /\ tmrCtr' = tmrCtr /\ boot' = boot
  BY DEF OSTaskSemPendAbort, Goto
<1>2. t \in Task /\ t = cur /\ os.OSRunning /\ pc[t] = "app" /\ cur \in Ready(os) \ Creating
  BY <1>1, CallLemma
<1>3. c \in Task /\ c \in AppTask
  BY <1>1, TargetLemma DEF Target
<1>4. pc \in [Task -> PC] /\ arg \in [Task -> Task \cup Obj \cup {NoTask, NoObj}]
  BY DEF KInv, KTypeOK
<1>5. /\ pc' \in [Task -> PC] /\ arg' \in [Task -> Task \cup Obj \cup {NoTask, NoObj}]
      /\ \A u \in Task : pc'[u] = "create" <=> pc[u] = "create"
  BY <1>1, <1>2, <1>3, <1>4 DEF PC
<1>6. /\ \A u \in Task : pc[u] = "create" => arg'[u] = arg[u] /\ os'.TaskState[u] # "DEL"
      /\ \A u \in Task : pc'[u] = "abort" => arg'[u] \in AppTask
  BY <1>1, <1>2, <1>3, <1>4 DEF KInv, KTypeOK, CreateInv
<1>7. /\ OsInv(os', Creating) /\ os'.OSRunning /\ os'.TaskState[IdleTask] = "RDY"
      /\ os'.OSTCBCurPtr \in Task /\ os'.OSTCBCurPtr \in Ready(os') \ Creating
      /\ tickPtr' \in Task \cup {NoTask} /\ tmrCtr' \in 1 .. TmrUpdateCnt
  BY <1>1, <1>2 DEF KInv, KTypeOK, BootInv, cur
<1>8. RunStep
  BY <1>1, <1>2, <1>4 DEF RunStep, SameRun
<1> QED
  BY <1>1, <1>5, <1>6, <1>7, <1>8, FrameLemma

\* The second one ends the wait, if there still is one.
LEMMA SemPendAbort2Step ==
  ASSUME KInv, NEW t, NEW opt \in PostOpts, OSTaskSemPendAbort2(t, opt)
  PROVE  KInv' /\ RunStep
<1> DEFINE l == IF opt = "NO_SCHED" THEN "app" ELSE "sched"
<1>1. /\ os.OSRunning /\ t = cur /\ pc[t] = "abort" /\ os' = OS_PendAbort(os, NoObj, arg[t])
      /\ pc' = [pc EXCEPT ![t] = l] /\ arg' = [arg EXCEPT ![t] = NoTask]
      /\ tickPtr' = tickPtr /\ tmrCtr' = tmrCtr /\ boot' = boot
  BY DEF OSTaskSemPendAbort2, Goto
<1>2. l \in PC \ {"create", "abort"}
  BY DEF PC
<1>10. l = "sched" \/ "NO_SCHED" \in PostOpts
  OBVIOUS
<1> HIDE DEF l
<1>3. t \in Task /\ arg[t] \in Task /\ cur \in Ready(os) \ Creating
  BY <1>1 DEF KInv, KTypeOK, AppTask, RunningIsReady, Ready, cur
<1>4. OsInv(os', Creating) /\ Eases(os, os')
  <2>1. NoObj \in Obj \cup {NoObj} /\ NoMsg \in Msg \cup {NoMsg} /\ "ABORT" \in StatusSet
    BY DEF StatusSet
  <2>2. os' = EndWait(os, NoObj, arg[t], NoMsg, "ABORT") /\ OsInv(os, Creating)
    BY <1>1 DEF OS_PendAbort, KInv
  <2> QED
    BY <1>3, <2>1, <2>2, EndWaitLemma
<1>5. /\ os'.OSRunning /\ os'.TaskState[IdleTask] = "RDY" /\ os'.OSTCBCurPtr \in Task
      /\ os'.OSTCBCurPtr \in Ready(os') \ Creating
      /\ \A u \in Task : pc[u] = "create" => os'.TaskState[u] # "DEL"
  <2>1. os.TaskState[IdleTask] = "RDY" /\ os.TaskState[cur] = "RDY" /\ IdleTask \in Task
    BY <1>1, <1>3, CoreAssumption DEF KInv, BootInv, Ready
  <2> QED
    BY <1>1, <1>3, <1>4, <2>1 DEF Eases, Ready, cur, KInv, CreateInv
<1>6. pc \in [Task -> PC] /\ arg \in [Task -> Task \cup Obj \cup {NoTask, NoObj}]
  BY DEF KInv, KTypeOK
<1>7. /\ pc' \in [Task -> PC] /\ arg' \in [Task -> Task \cup Obj \cup {NoTask, NoObj}]
      /\ \A u \in Task : pc'[u] = "create" <=> pc[u] = "create"
      /\ \A u \in Task : pc[u] = "create" => arg'[u] = arg[u]
  BY <1>1, <1>2, <1>3, <1>6
<1>8. \A u \in Task : pc'[u] = "abort" => arg'[u] \in AppTask
  BY <1>1, <1>2, <1>3, <1>6 DEF KInv, KTypeOK
<1>9. tickPtr' \in Task \cup {NoTask} /\ tmrCtr' \in 1 .. TmrUpdateCnt
  BY <1>1 DEF KInv, KTypeOK
<1>11. RunStep
  <2>1. l \notin {"update", "spoke"}
    BY DEF l
  <2>2. /\ pc'[t] = l
        /\ \A u \in Task : pc'[u] \in {"update", "spoke"} => pc[u] \in {"update", "spoke"}
    BY <1>1, <1>3, <1>6, <2>1
  <2>3. os'.OSRunning /\ os'.OSTCBCurPtr = cur
    BY <1>1, <1>4 DEF Eases, cur
  <2> QED
    BY <1>1, <1>10, <2>2, <2>3 DEF RunStep, Owes
<1> QED
  BY <1>1, <1>4, <1>5, <1>7, <1>8, <1>9, <1>11, FrameLemma

-----------------------------------------------------------------------------
(* Time. *)

\* The tick interrupt: it ends waits, slices, and gives the processor away.
LEMMA TickISRStep ==
  ASSUME KInv, TickISR
  PROVE  KInv' /\ RunStep
<1> DEFINE a == OS_TaskSemPost(os, TickTask)
           b == OS_SchedRoundRobin(a)
           o == OSTimeTick(os)
<1>1. /\ os.OSRunning /\ os' = Reschedule(o)
      /\ tmrCtr' = (IF TmrTask = NoTask THEN tmrCtr
                    ELSE IF tmrCtr = 1 THEN TmrUpdateCnt ELSE tmrCtr - 1)
      /\ pc' = pc /\ arg' = arg /\ tickPtr' = tickPtr /\ boot' = boot
  BY DEF TickISR
<1>2. OsInv(a, Creating) /\ Eases(os, a)
  BY TaskSemPostLemma, CoreAssumption DEF KInv
<1> HIDE DEF a
<1>3. OsInv(b, Creating) /\ Eases(os, b)
  <2>1. a \in KState /\ Rdy(a, Ready(a) \ Creating)
    BY <1>2 DEF OsInv
  <2>2. b \in KState /\ Rdy(b, Ready(a) \ Creating) /\ SameTasks(a, b)
    BY <2>1, SchedRoundRobinLemma
  <2> HIDE DEF b
  <2> QED
    BY <1>2, <2>2, SameTasksInv, EasesTransitive
<1>4. OsInv(o, Creating) /\ Eases(os, o)
  <2>1. o = IF TmrTask # NoTask /\ tmrCtr = 1 THEN OS_TaskSemPost(b, TmrTask) ELSE b
    BY DEF OSTimeTick, a
  <2> HIDE DEF b, o
  <2>2. CASE TmrTask # NoTask /\ tmrCtr = 1
    <3>1. TmrTask \in Task
      BY <2>2, KernelAssumption
    <3> QED
      BY <1>3, <2>1, <2>2, <3>1, TaskSemPostLemma, EasesTransitive
  <2>3. CASE ~(TmrTask # NoTask /\ tmrCtr = 1)
    BY <1>3, <2>1, <2>3
  <2> QED
    BY <2>2, <2>3
<1> HIDE DEF o
<1>5. IdleTask \in Ready(o) \ Creating /\ o.OSRunning /\ o.OSTCBCurPtr = cur
  BY <1>1, <1>4, IdleLemma DEF Eases, Ready, cur
<1>6. /\ OsInv(os', Creating) /\ os'.TaskState = o.TaskState /\ os'.OSRunning
      /\ os'.OSSchedLockNestingCtr = os.OSSchedLockNestingCtr
      /\ os'.OSTCBCurPtr \in Ready(os') \ Creating \/ os'.OSTCBCurPtr = cur
      /\ os.OSSchedLockNestingCtr = 0 => os'.OSTCBCurPtr \in Ready(os') \ Creating
  BY <1>1, <1>4, <1>5, RescheduleInv DEF Eases
<1>7. os'.OSTCBCurPtr \in Ready(os') \ Creating
  <2>1. CASE os.OSSchedLockNestingCtr = 0
    BY <1>6, <2>1
  <2>2. CASE os.OSSchedLockNestingCtr # 0
    <3>1. os.OSSchedLockNestingCtr > 0
      BY <2>2 DEF KInv, OsInv, KState
    <3>2. cur \in Task /\ os.TaskState[cur] = "RDY" /\ cur \notin Creating
      BY <1>1, <3>1 DEF KInv, RunningIsReady, KTypeOK, cur
    <3>3. os'.TaskState[cur] = "RDY"
      BY <1>4, <1>6, <3>2 DEF Eases
    <3> QED
      BY <1>6, <3>2, <3>3 DEF Ready
  <2> QED
    BY <2>1, <2>2
<1>8. /\ os'.TaskState[IdleTask] = "RDY" /\ os'.OSTCBCurPtr \in Task
      /\ \A u \in Task : pc[u] = "create" => arg'[u] = arg[u] /\ os'.TaskState[u] # "DEL"
  BY <1>1, <1>4, <1>5, <1>6, <1>7 DEF Eases, Ready, KInv, CreateInv
<1>9. tmrCtr' \in 1 .. TmrUpdateCnt
  <2>1. tmrCtr \in 1 .. TmrUpdateCnt
    BY DEF KInv, KTypeOK
  <2> QED
    BY <1>1, <2>1, KernelAssumption
<1>10. /\ pc' \in [Task -> PC] /\ arg' \in [Task -> Task \cup Obj \cup {NoTask, NoObj}]
       /\ \A u \in Task : pc'[u] = "create" <=> pc[u] = "create"
       /\ \A u \in Task : pc'[u] = "abort" => arg'[u] \in AppTask
       /\ tickPtr' \in Task \cup {NoTask}
  BY <1>1 DEF KInv, KTypeOK
<1>11. RunStep
  <2>1. Selects
    BY <1>1, <1>4, <1>5 DEF Selects, OsInv, Eases
  <2> QED
    BY <1>1, <1>6, <2>1 DEF RunStep
<1> QED
  BY <1>11, <1>1, <1>6, <1>7, <1>8, <1>9, <1>10, FrameLemma

\* The current task's place is not one of a service's: what it does keeps the
\* invariant if it blocks and deletes nobody.
LEMMA TickStepFrame ==
  ASSUME KInv, os.OSRunning, pc[cur] \in {"update", "spoke"}, NEW l \in {"update", "spoke", "app"},
         OsInv(os', Creating), Eases(os, os'), pc' = [pc EXCEPT ![cur] = l],
         arg' = arg, tickPtr' \in Task \cup {NoTask}, tmrCtr' = tmrCtr, boot' = boot
  PROVE  KInv' /\ RunStep
<1>1. cur \in Ready(os) \ Creating
  BY DEF KInv, RunningIsReady, KTypeOK, Ready, cur
<1>2. cur \in Task /\ os.TaskState[IdleTask] = "RDY" /\ os.TaskState[cur] = "RDY" /\ IdleTask \in Task
  BY <1>1, CoreAssumption DEF KInv, BootInv, Ready
<1>3. /\ os'.OSRunning /\ os'.TaskState[IdleTask] = "RDY" /\ os'.OSTCBCurPtr \in Task
      /\ os'.OSTCBCurPtr \in Ready(os') \ Creating
  BY <1>1, <1>2 DEF Eases, Ready, cur
<1>4. \A u \in Task : pc[u] = "create" => arg'[u] = arg[u] /\ os'.TaskState[u] # "DEL"
  BY DEF Eases, KInv, CreateInv
<1>5. pc \in [Task -> PC]
  BY DEF KInv, KTypeOK
<1>6. /\ pc' \in [Task -> PC]
      /\ \A u \in Task : pc'[u] = "create" <=> pc[u] = "create"
      /\ \A u \in Task : pc'[u] = "abort" => pc[u] = "abort"
  BY <1>2, <1>5 DEF PC
<1>7. /\ arg' \in [Task -> Task \cup Obj \cup {NoTask, NoObj}]
      /\ \A u \in Task : pc'[u] = "abort" => arg'[u] \in AppTask
      /\ tmrCtr' \in 1 .. TmrUpdateCnt
  BY <1>6 DEF KInv, KTypeOK
<1>8. RunStep
  <2>1. \A u \in Task : pc'[u] \in {"update", "spoke"} => pc[u] \in {"update", "spoke"}
    BY <1>2, <1>5
  <2> QED
    BY <1>3, <2>1 DEF RunStep, Owes, Eases, cur
<1> QED
  BY <1>3, <1>4, <1>6, <1>7, <1>8, FrameLemma

\* OS_TickListUpdate counts the tick and selects the spoke.
LEMMA TickListUpdateStep ==
  ASSUME KInv, OS_TickListUpdate
  PROVE  KInv' /\ RunStep
<1> DEFINE ctr == (os.OSTickCtr + 1) % TickMod
           s   == os.TickWheel[ctr % TickWheelSize]
           o   == [os EXCEPT !.OSTickCtr = ctr]
<1>1. /\ os.OSRunning /\ cur = TickTask /\ pc[cur] = "update" /\ os' = o
      /\ tickPtr' = (IF s = <<>> THEN NoTask ELSE Head(s))
      /\ pc' = [pc EXCEPT ![cur] = "spoke"] /\ arg' = arg /\ tmrCtr' = tmrCtr /\ boot' = boot
  BY DEF OS_TickListUpdate, Goto
<1>2. os \in KState /\ os.OSTickCtr \in Tick /\ os.TickWheel \in [Spoke -> Seq(Task)]
  BY DEF KInv, OsInv, KState
<1>3. ctr \in Tick /\ ctr % TickWheelSize \in Spoke
  BY <1>2, CoreAssumption, SMTT(30) DEF Tick, Spoke
<1> HIDE DEF ctr
<1>4. s \in Seq(Task)
  BY <1>2, <1>3
<1> HIDE DEF s
<1>5. tickPtr' \in Task \cup {NoTask}
  BY <1>1, <1>4
<1>6. o \in KState /\ SameSched(os, o)
  BY <1>2, <1>3 DEF KState, SameSched, SameTasks
<1> HIDE DEF o
<1>7. OsInv(os', Creating) /\ Eases(os, os')
  BY <1>1, <1>6, SameSchedInv DEF KInv
<1> QED
  BY <1>1, <1>5, <1>7, TickStepFrame

\* The loop of OS_TickListUpdate.
LEMMA TickListUpdateLoopStep ==
  ASSUME KInv, TickListUpdateLoop
  PROVE  KInv' /\ RunStep
<1> DEFINE n == os.OSTickCtr % TickWheelSize
           s == os.TickWheel[n]
<1>1. os.OSRunning /\ pc[cur] = "spoke" /\ arg' = arg /\ tmrCtr' = tmrCtr /\ boot' = boot
  BY DEF TickListUpdateLoop
<1>2. \/ pc' = [pc EXCEPT ![cur] = "app"] /\ tickPtr' = NoTask /\ os' = os
      \/ tickPtr # NoTask /\ os' = Expire(os, tickPtr) /\ tickPtr' = After(s, tickPtr) /\ pc' = pc
  BY DEF TickListUpdateLoop, Goto
<1>3. /\ os \in KState /\ os.OSTickCtr \in Tick /\ os.TickWheel \in [Spoke -> Seq(Task)]
      /\ OsInv(os, Creating) /\ tickPtr \in Task \cup {NoTask} /\ pc \in [Task -> PC] /\ cur \in Task
  BY <1>1 DEF KInv, OsInv, KState, KTypeOK, cur
<1>4. CASE pc' = [pc EXCEPT ![cur] = "app"] /\ tickPtr' = NoTask /\ os' = os
  <2>1. OsInv(os', Creating) /\ Eases(os, os')
    BY <1>3, <1>4 DEF Eases
  <2> QED
    BY <1>1, <1>4, <2>1, TickStepFrame
<1>5. CASE /\ tickPtr # NoTask /\ os' = Expire(os, tickPtr) /\ tickPtr' = After(s, tickPtr)
           /\ pc' = pc
  <2>1. OsInv(os', Creating) /\ Eases(os, os')
    BY <1>3, <1>5, ExpireLemma
  <2>2. n \in Spoke
    BY <1>3, CoreAssumption DEF Tick, Spoke
  <2> HIDE DEF n
  <2>3. s \in Seq(Task)
    BY <1>3, <2>2
  <2> HIDE DEF s
  <2>4. After(s, tickPtr) \in Task \cup {NoTask}
    <3>1. CASE tickPtr \in Range(s) /\ Pos(s, tickPtr) < Len(s)
      <4>1. Pos(s, tickPtr) \in 1 .. Len(s)
        BY <2>3, <3>1 DEF Range, Pos
      <4> QED
        BY <2>3, <3>1, <4>1 DEF After
    <3>2. CASE ~(tickPtr \in Range(s) /\ Pos(s, tickPtr) < Len(s))
      BY <3>2 DEF After
    <3> QED
      BY <3>1, <3>2
  <2>5. pc' = [pc EXCEPT ![cur] = "spoke"] /\ tickPtr' \in Task \cup {NoTask}
    BY <1>1, <1>3, <1>5, <2>4
  <2> QED
    BY <1>1, <2>1, <2>5, TickStepFrame
<1> QED
  BY <1>2, <1>4, <1>5
-----------------------------------------------------------------------------
(* Start-up. *)

\* OSInit establishes the invariant.
LEMMA InitLemma == KInit => KInv
<1> SUFFICES ASSUME KInit PROVE KInv
  OBVIOUS
<1>1. /\ os = OSInit /\ pc = [t \in Task |-> "app"] /\ arg = [t \in Task |-> NoTask]
      /\ tickPtr = NoTask /\ tmrCtr = TmrUpdateCnt /\ boot = 0
  BY DEF KInit
<1>2. Creating = {}
  BY <1>1 DEF Creating
<1>3. OsInv(os, Creating) /\ ~os.OSRunning /\ \A t \in Task : os.TaskState[t] = "DEL"
  BY <1>1, <1>2, OSInitLemma
<1>4. Len(BootOrder) \in Nat /\ DOMAIN BootOrder = 1 .. Len(BootOrder)
      /\ \A i \in DOMAIN BootOrder : BootOrder[i] \in Task
  BY KernelAssumption
<1>5. KTypeOK
  <2>1. pc \in [Task -> PC] /\ \A t \in Task : pc[t] = "app"
    BY <1>1 DEF PC
  <2> QED
    BY <1>1, <1>3, <1>4, <2>1, KernelAssumption DEF KTypeOK, OsInv
<1>6. RunningIsReady
  BY <1>3 DEF RunningIsReady
<1>7. CreateInv
  BY <1>1 DEF CreateInv
<1>8. BootInv
  BY <1>1, <1>3, <1>4 DEF BootInv
<1> QED
  BY <1>3, <1>5, <1>6, <1>7, <1>8 DEF KInv

\* OSInit and main() create one more task.
LEMMA BootStep ==
  ASSUME KInv, Boot
  PROVE  KInv' /\ ~os'.OSRunning /\ os'.OSSchedLockNestingCtr = os.OSSchedLockNestingCtr
<1> DEFINE t == BootOrder[boot + 1]
           f == FillTCB(os, t)
<1>1. /\ ~os.OSRunning /\ boot < Len(BootOrder) /\ os' = LinkTCB(f, t) /\ boot' = boot + 1
      /\ pc' = pc /\ arg' = arg /\ tickPtr' = tickPtr /\ tmrCtr' = tmrCtr
  BY DEF Boot
<1>2. /\ Len(BootOrder) \in Nat /\ DOMAIN BootOrder = 1 .. Len(BootOrder)
      /\ \A i \in DOMAIN BootOrder : BootOrder[i] \in Task
      /\ \A i, j \in DOMAIN BootOrder : BootOrder[i] = BootOrder[j] => i = j
  BY KernelAssumption
<1>3. boot \in 0 .. Len(BootOrder) /\ boot + 1 \in DOMAIN BootOrder
  BY <1>1, <1>2 DEF KInv, KTypeOK
<1>4. /\ t \in Task /\ pc = [u \in Task |-> "app"]
      /\ \A i \in DOMAIN BootOrder : os.TaskState[BootOrder[i]] = IF i <= boot THEN "RDY" ELSE "DEL"
  BY <1>1, <1>2, <1>3 DEF KInv, BootInv
<1>5. os.TaskState[t] = "DEL"
  BY <1>3, <1>4
<1>6. Creating = {} /\ Creating' = {}
  BY <1>1, <1>4 DEF Creating
<1>7. OsInv(f, {t}) /\ Moves(os, f, t, "RDY")
  <2>1. OsInv(os, {}) /\ {} \cup {t} = {t}
    BY <1>6 DEF KInv
  <2> QED
    BY <1>4, <1>5, <2>1, FillLemma
<1> HIDE DEF f
<1>8. OsInv(os', {}) /\ SameTasks(f, os')
  <2>1. {t} \ {t} = {} /\ t \in {t}
    OBVIOUS
  <2> QED
    BY <1>1, <1>7, <2>1, LinkLemma
<1>9. ~os'.OSRunning /\ os'.TaskState = [os.TaskState EXCEPT ![t] = "RDY"]
  BY <1>1, <1>7, <1>8 DEF Moves, SameTasks
<1>10. KTypeOK'
  <2>1. boot' \in 0 .. Len(BootOrder) /\ os' \in KState
    BY <1>1, <1>2, <1>3, <1>8 DEF OsInv
  <2> QED
    BY <1>1, <1>9, <2>1 DEF KInv, KTypeOK
<1>11. OsInv(os, Creating)'
  BY <1>6, <1>8 DEF OsInv, Ready, Rdy
<1>12. RunningIsReady' /\ CreateInv'
  BY <1>1, <1>4, <1>9 DEF RunningIsReady, CreateInv
<1>13. BootInv'
  <2>1. os.TaskState \in [Task -> State]
    BY DEF KInv, OsInv, KState
  <2>2. ASSUME NEW i \in DOMAIN BootOrder
        PROVE  os'.TaskState[BootOrder[i]] = IF i <= boot' THEN "RDY" ELSE "DEL"
    <3>1. CASE i = boot + 1
      BY <1>1, <1>3, <1>4, <1>9, <2>1, <3>1
    <3>2. CASE i # boot + 1
      <4>1. BootOrder[i] # t /\ BootOrder[i] \in Task
        BY <1>2, <1>3, <3>2
      <4>2. os'.TaskState[BootOrder[i]] = os.TaskState[BootOrder[i]]
        BY <1>9, <2>1, <4>1
      <4>3. i <= boot <=> i <= boot'
        BY <1>1, <1>2, <1>3, <3>2
      <4> QED
        BY <1>4, <4>2, <4>3
    <3> QED
      BY <3>1, <3>2
  <2> QED
    BY <1>1, <1>4, <1>9, <2>2 DEF BootInv
<1> QED
  BY <1>7, <1>8, <1>9, <1>10, <1>11, <1>12, <1>13 DEF KInv, Moves, SameTasks

\* OSStart gives the processor to the first task.
LEMMA StartStep ==
  ASSUME KInv, OSStart
  PROVE  KInv'
<1> DEFINE a == CtxSw(os)
           S == Ready(os)
<1>1. /\ ~os.OSRunning /\ boot = Len(BootOrder) /\ os' = [a EXCEPT !.OSRunning = TRUE]
      /\ pc' = pc /\ arg' = arg /\ tickPtr' = tickPtr /\ tmrCtr' = tmrCtr /\ boot' = boot
  BY DEF OSStart
<1>2. /\ pc = [u \in Task |-> "app"]
      /\ \A i \in DOMAIN BootOrder : os.TaskState[BootOrder[i]] = IF i <= boot THEN "RDY" ELSE "DEL"
  BY <1>1 DEF KInv, BootInv
<1>3. Creating = {} /\ Creating' = {}
  BY <1>1, <1>2 DEF Creating
<1>4. os.TaskState[IdleTask] = "RDY" /\ IdleTask \in Task
  <2>1. PICK i \in DOMAIN BootOrder : BootOrder[i] = IdleTask
    BY KernelAssumption DEF Range
  <2>2. i <= boot
    BY <1>1, KernelAssumption
  <2> QED
    BY <1>2, <2>1, <2>2, CoreAssumption
<1>5. os \in KState /\ Rdy(os, S) /\ S # {} /\ S \subseteq Task
  <2>1. OsInv(os, {}) /\ S \ {} = S
    BY <1>3 DEF KInv
  <2> QED
    BY <1>4, <2>1 DEF OsInv, Ready
<1>6. /\ a \in KState /\ Rdy(a, S) /\ a.TaskState = os.TaskState /\ a.Prio = os.Prio
      /\ a.OSTCBCurPtr \in S
  BY <1>5, CtxSwLemma
<1> HIDE DEF a
<1>7. /\ os' \in KState /\ os'.TaskState = os.TaskState /\ os'.Prio = os.Prio
      /\ os'.OSRdyList = a.OSRdyList /\ os'.OSPrioTbl = a.OSPrioTbl
      /\ os'.OSTCBCurPtr = a.OSTCBCurPtr /\ os'.OSRunning
  BY <1>1, <1>6 DEF KState
<1>8. Ready(os') = S /\ Rdy(os', S) /\ os'.OSTCBCurPtr \in Task
  BY <1>5, <1>6, <1>7 DEF Ready, Rdy
<1>9. KTypeOK'
  BY <1>1, <1>7, <1>8 DEF KInv, KTypeOK
<1>10. OsInv(os, Creating)'
  <2>1. OsInv(os', {})
    <3>1. \A u \in Task : os'.TaskState[u] # "DEL" => os'.Prio[u] \in Prio
      BY <1>7 DEF KInv, OsInv
    <3>2. Ready(os') \ {} = S /\ {} \subseteq Ready(os')
      BY <1>8
    <3> QED
      BY <1>7, <1>8, <3>1, <3>2 DEF OsInv
  <2> QED
    BY <1>3, <2>1 DEF OsInv, Ready, Rdy
<1>11. RunningIsReady'
  BY <1>3, <1>6, <1>7 DEF RunningIsReady, cur, Ready
<1>12. CreateInv'
  BY <1>1, <1>2 DEF CreateInv
<1>13. BootInv'
  BY <1>4, <1>7 DEF BootInv
<1> QED
  BY <1>9, <1>10, <1>11, <1>12, <1>13 DEF KInv
-----------------------------------------------------------------------------
(* The theorems. *)

\* A step of a task keeps the invariant: one case per service.
LEMMA TaskStepLemma ==
  ASSUME Hazard = {}, KInv, NEW t \in Task, TaskStep(t)
  PROVE  KInv' /\ RunStep
BY CreateStep, DelStep, SuspendStep, ResumeStep, CreateLinkStep, SchedStep, PendReturnStep, LockStep,
   YieldStep, RoundRobinCfgStep, TimeQuantaSetStep, ChangePrioStep, DlyStep, TimeSetStep, SemPendStep,
   SemPostStep, SemSetStep, SemPendAbortStep, SemPendAbort2Step
   DEF TaskStep

\* No step, and no stuttering, breaks the invariant.
LEMMA KInvInductive ==
  ASSUME Hazard = {}, KInv, [KNext]_kvars
  PROVE  KInv'
<1>1. CASE KNext
  <2>1. CASE Boot
    BY <2>1, BootStep
  <2>2. CASE OSStart
    BY <2>2, StartStep
  <2>3. CASE TickISR
    BY <2>3, TickISRStep
  <2>4. CASE TickStep
    BY <2>4, TickListUpdateStep, TickListUpdateLoopStep DEF TickStep
  <2>5. ASSUME NEW t \in Task, TaskStep(t)
        PROVE  KInv'
    BY <2>5, TaskStepLemma
  <2> QED
    BY <1>1, <2>1, <2>2, <2>3, <2>4, <2>5 DEF KNext
<1>2. CASE UNCHANGED kvars
  <2>1. os' = os /\ pc' = pc /\ arg' = arg /\ tickPtr' = tickPtr /\ tmrCtr' = tmrCtr /\ boot' = boot
    BY <1>2 DEF kvars
  <2>2. Creating' = Creating /\ cur' = cur
    BY <2>1 DEF Creating, cur
  <2> QED
    BY <2>1, <2>2 DEF KInv, KTypeOK, OsInv, Ready, Rdy, RunningIsReady, CreateInv, BootInv
<1> QED
  BY <1>1, <1>2

\* The kernel's data and the places of the tasks keep their types, whatever the
\* tasks, the priorities, the tick wheel's size and the services called, if no
\* call is one of the hazardous ones.
THEOREM KernelTypeOK ==
  ASSUME Hazard = {}
  PROVE  KSpec => []KTypeOK
<1>1. KInv /\ [KNext]_kvars => KInv'
  BY KInvInductive
<1>2. KInv => KTypeOK
  BY DEF KInv
<1> QED
  BY <1>1, <1>2, InitLemma, PTL DEF KSpec

\* The ready lists and the priority table agree with the tasks' states and
\* priorities in every reachable state: the scheduler sees every ready task and
\* no other.
THEOREM KernelRdyIntegrity ==
  ASSUME Hazard = {}
  PROVE  KSpec => []RdyIntegrity
<1>1. KInv /\ [KNext]_kvars => KInv'
  BY KInvInductive
<1>2. KInv => RdyIntegrity
  <2>1. Ready(os) \ Creating = RdySet
    BY DEF Ready, RdySet
  <2> QED
    BY <2>1 DEF KInv, OsInv, Rdy, RdyIntegrity
<1> QED
  BY <1>1, <1>2, InitLemma, PTL DEF KSpec

\* No service, tick or time-out lets a task execute that is blocked, suspended or
\* deleted, nor one whose TCB is only half made.
THEOREM KernelRunningIsReady ==
  ASSUME Hazard = {}
  PROVE  KSpec => []RunningIsReady
<1>1. KInv /\ [KNext]_kvars => KInv'
  BY KInvInductive
<1>2. KInv => RunningIsReady
  BY DEF KInv
<1> QED
  BY <1>1, <1>2, InitLemma, PTL DEF KSpec
-----------------------------------------------------------------------------
(* Who runs: preemption and the scheduler lock. *)

\* Only the tick task processes a tick, and nobody locks the scheduler before
\* OSStart.
RunInv ==
  /\ \A t \in Task : pc[t] \in {"update", "spoke"} => t = TickTask
  /\ ~os.OSRunning => os.OSSchedLockNestingCtr = 0

\* The scheduler's choice depends on the ready lists and the bitmap alone.
LEMMA HighRdyFrame ==
  ASSUME NEW o, NEW o2, o2.OSRdyList = o.OSRdyList, o2.OSPrioTbl = o.OSPrioTbl
  PROVE  HighRdy(o2) = HighRdy(o)
BY DEF HighRdy, OS_PrioGetHighest

\* OSCtxSw gives the processor to the task that OSSched has selected.
LEMMA CtxSwRun ==
  ASSUME NEW o \in KState
  PROVE  LET o2 == CtxSw(o)
         IN  /\ o2.OSTCBCurPtr = HighRdy(o) /\ HighRdy(o2) = HighRdy(o)
             /\ o2.OSSchedLockNestingCtr = o.OSSchedLockNestingCtr
             /\ DOMAIN o2 = DOMAIN o /\ o2.OSRdyList = o.OSRdyList /\ o2.OSPrioTbl = o.OSPrioTbl
<1> DEFINE h == HighRdy(o)
           p == OS_PrioGetHighest(o)
           o2 == CtxSw(o)
<1>1. o2 = [o EXCEPT !.OSTCBCurPtr = h, !.OSPrioCur = p]
  BY DEF CtxSw
<1> HIDE DEF h, p, o2
<1>2. /\ o2.OSTCBCurPtr = h /\ o2.OSSchedLockNestingCtr = o.OSSchedLockNestingCtr
      /\ DOMAIN o2 = DOMAIN o /\ o2.OSRdyList = o.OSRdyList /\ o2.OSPrioTbl = o.OSPrioTbl
  BY <1>1 DEF KState
<1> QED
  BY <1>2, HighRdyFrame DEF h, o2

\* OSSched and OSIntExit: with the scheduler unlocked the selected task runs,
\* else nothing changes.
LEMMA RescheduleRun ==
  ASSUME NEW o \in KState
  PROVE  LET o2 == Reschedule(o)
         IN  /\ o2.OSSchedLockNestingCtr = o.OSSchedLockNestingCtr
             /\ o.OSSchedLockNestingCtr = 0 => o2.OSTCBCurPtr = HighRdy(o2)
             /\ o.OSSchedLockNestingCtr > 0 => o2.OSTCBCurPtr = o.OSTCBCurPtr
<1>1. o.OSSchedLockNestingCtr \in Nat
  BY DEF KState
<1>2. CASE o.OSSchedLockNestingCtr > 0 \/ HighRdy(o) = o.OSTCBCurPtr
  BY <1>1, <1>2 DEF Reschedule
<1>3. CASE ~(o.OSSchedLockNestingCtr > 0 \/ HighRdy(o) = o.OSTCBCurPtr)
  <2>1. Reschedule(o) = CtxSw(o)
    BY <1>3 DEF Reschedule
  <2> QED
    BY <1>1, <1>3, <2>1, CtxSwRun
<1> QED
  BY <1>2, <1>3

\* A step of the running kernel keeps the claim that the highest ready task runs,
\* if every service that readies a task calls OSSched.
LEMMA RunStepHighest ==
  ASSUME "NO_SCHED" \notin PostOpts, KInv, RunInv, HighestRuns, RunStep
  PROVE  RunInv' /\ HighestRuns'
<1>1. /\ os.OSRunning /\ os'.OSRunning /\ os \in KState /\ cur \in Task
      /\ \A u \in Task : pc'[u] \in {"update", "spoke"} => u = TickTask
  BY DEF RunStep, RunInv, KInv, KTypeOK, cur
<1>2. RunInv'
  BY <1>1 DEF RunInv
<1>3. CASE SameRun(os, os') /\ pc[cur] \notin {"sched", "pend"}
  <2>1. HighRdy(os') = HighRdy(os) /\ os'.OSTCBCurPtr = cur
    BY <1>3, HighRdyFrame DEF SameRun, cur
  <2> QED
    BY <1>1, <1>2, <1>3, <2>1 DEF HighestRuns, SameRun, cur
<1>4. CASE Owes
  <2>1. CASE pc[cur] \in {"update", "spoke"}
    BY <1>1, <1>2, <1>4, <2>1 DEF Owes, RunInv, HighestRuns, cur
  <2>2. CASE pc[cur] \notin {"update", "spoke"}
    BY <1>2, <1>4, <2>2 DEF Owes, HighestRuns, cur
  <2> QED
    BY <2>1, <2>2
<1>5. CASE Selects
  <2>1. PICK o \in KState : os' = Reschedule(o)
    BY <1>5 DEF Selects
  <2>2. os'.OSSchedLockNestingCtr = 0 => os'.OSTCBCurPtr = HighRdy(os')
    BY <2>1, RescheduleRun
  <2> QED
    BY <1>2, <2>2 DEF HighestRuns, cur
<1> QED
  BY <1>2, <1>3, <1>4, <1>5 DEF RunStep

\* A step of the running kernel takes the processor from nobody who holds the
\* scheduler lock.
LEMMA RunStepLocked ==
  ASSUME KInv, RunInv, RunStep
  PROVE  RunInv' /\ (os.OSSchedLockNestingCtr > 0 => cur' = cur)
<1>1. RunInv'
  BY DEF RunStep, RunInv
<1>2. CASE SameRun(os, os') \/ Owes
  BY <1>1, <1>2 DEF SameRun, Owes, cur
<1>3. CASE Selects
  <2>1. PICK o \in KState : /\ os' = Reschedule(o) /\ o.OSTCBCurPtr = cur
                            /\ o.OSSchedLockNestingCtr = os.OSSchedLockNestingCtr
    BY <1>3 DEF Selects
  <2>2. os.OSSchedLockNestingCtr > 0 => os'.OSTCBCurPtr = cur
    BY <2>1, RescheduleRun
  <2> QED
    BY <1>1, <2>2 DEF cur
<1> QED
  BY <1>2, <1>3 DEF RunStep

\* Start-up: no task runs before OSStart, which starts the highest ready one.
LEMMA StartRun ==
  ASSUME KInv, RunInv, Boot \/ OSStart
  PROVE  RunInv' /\ HighestRuns' /\ os.OSSchedLockNestingCtr = 0
<1>1. /\ ~os.OSRunning /\ os.OSSchedLockNestingCtr = 0 /\ pc' = pc /\ os \in KState
      /\ \A t \in Task : pc'[t] \in {"update", "spoke"} => t = TickTask
  BY DEF Boot, OSStart, RunInv, KInv, KTypeOK
<1>2. CASE Boot
  <2>1. ~os'.OSRunning /\ os'.OSSchedLockNestingCtr = os.OSSchedLockNestingCtr
    BY <1>2, BootStep
  <2> QED
    BY <1>1, <2>1 DEF RunInv, HighestRuns
<1>3. CASE OSStart
  <2> DEFINE a == CtxSw(os)
  <2>1. /\ a.OSTCBCurPtr = HighRdy(os) /\ DOMAIN a = DOMAIN os
        /\ a.OSRdyList = os.OSRdyList /\ a.OSPrioTbl = os.OSPrioTbl
    BY <1>1, CtxSwRun
  <2>2. os' = [a EXCEPT !.OSRunning = TRUE]
    BY <1>3 DEF OSStart
  <2> HIDE DEF a
  <2>3. /\ os'.OSTCBCurPtr = HighRdy(os) /\ os'.OSRdyList = os.OSRdyList
        /\ os'.OSPrioTbl = os.OSPrioTbl /\ os'.OSRunning
    BY <1>1, <2>1, <2>2 DEF KState
  <2>4. HighRdy(os') = HighRdy(os)
    BY <2>3, HighRdyFrame
  <2> QED
    BY <1>1, <2>3, <2>4 DEF RunInv, HighestRuns, cur
<1> QED
  BY <1>1, <1>2, <1>3

\* Before OSStart the claims hold trivially.
LEMMA InitRun == KInit => RunInv /\ HighestRuns
<1>1. KInit => ~os.OSRunning /\ os.OSSchedLockNestingCtr = 0
  BY DEF KInit, OSInit
<1>2. KInit => \A t \in Task : pc[t] = "app"
  BY DEF KInit
<1> QED
  BY <1>1, <1>2 DEF RunInv, HighestRuns

\* What a step of the kernel does: start-up, a step of the running kernel, or
\* nothing.
LEMMA StepKinds ==
  ASSUME Hazard = {}, KInv, [KNext]_kvars
  PROVE  (Boot \/ OSStart) \/ RunStep \/ (os' = os /\ pc' = pc)
<1>1. CASE TickISR
  BY <1>1, TickISRStep
<1>2. CASE TickStep
  BY <1>2, TickListUpdateStep, TickListUpdateLoopStep DEF TickStep
<1>3. ASSUME NEW t \in Task, TaskStep(t)
      PROVE  RunStep
  BY <1>3, TaskStepLemma
<1>4. CASE UNCHANGED kvars
  BY <1>4 DEF kvars
<1> QED
  BY <1>1, <1>2, <1>3, <1>4 DEF KNext

\* Preemption is never owed: in every reachable state with the scheduler unlocked,
\* the task that executes its own code is the first of the highest ready list.
\* OS_OPT_POST_NO_SCHED asks for the opposite, so the posts go without it.
THEOREM KernelHighestRuns ==
  ASSUME Hazard = {}, "NO_SCHED" \notin PostOpts
  PROVE  KSpec => []HighestRuns
<1> DEFINE Inv == KInv /\ RunInv /\ HighestRuns
<1>1. KInit => Inv
  BY InitLemma, InitRun
<1>2. Inv /\ [KNext]_kvars => Inv'
  <2> SUFFICES ASSUME Inv, [KNext]_kvars PROVE Inv'
    OBVIOUS
  <2>1. KInv'
    BY KInvInductive
  <2>2. CASE os' = os /\ pc' = pc
    BY <2>1, <2>2 DEF RunInv, HighestRuns, cur
  <2> QED
    BY <2>1, <2>2, StepKinds, StartRun, RunStepHighest
<1>3. Inv => HighestRuns
  OBVIOUS
<1> QED
  BY <1>1, <1>2, <1>3, PTL DEF KSpec

\* The scheduler lock holds: no interrupt and no service, nested or not, takes the
\* processor from a task between its OSSchedLock and the last OSSchedUnlock.
THEOREM KernelNoSwitchWhileLocked ==
  ASSUME Hazard = {}
  PROVE  KSpec => NoSwitchWhileLocked
<1> DEFINE Inv == KInv /\ RunInv
           Keep == os.OSSchedLockNestingCtr > 0 /\ os'.OSSchedLockNestingCtr > 0 => cur' = cur
<1>1. KInit => Inv
  BY InitLemma, InitRun
<1>2. Inv /\ [KNext]_kvars => Inv' /\ [Keep]_kvars
  <2> SUFFICES ASSUME Inv, [KNext]_kvars PROVE Inv' /\ Keep
    OBVIOUS
  <2>1. KInv'
    BY KInvInductive
  <2>2. CASE os' = os /\ pc' = pc
    BY <2>1, <2>2 DEF RunInv, cur
  <2>3. CASE Boot \/ OSStart
    BY <2>1, <2>3, StartRun
  <2>4. CASE RunStep
    BY <2>1, <2>4, RunStepLocked
  <2> QED
    BY <2>2, <2>3, <2>4, StepKinds
<1> QED
  BY <1>1, <1>2, PTL DEF KSpec, NoSwitchWhileLocked
=============================================================================
