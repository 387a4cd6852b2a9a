------------------------------- MODULE OSMsg -------------------------------
(***************************************************************************)
(* os_msg.c: the message queues of the kernel.  The OS_MSG structures of   *)
(* one pool are linked into a free list and into the queues; a queue knows *)
(* its oldest (OutPtr) and newest (InPtr) OS_MSG and how many there are.   *)
(* The first message put into an empty queue keeps the link it had in the  *)
(* free list, so the counts, not the links, say where a queue ends.        *)
(***************************************************************************)
EXTENDS Integers, Sequences, Functions

CONSTANTS OSCfg_MsgPoolSize,   \* how many OS_MSG there are
          MsgQ,                \* the OS_MSG_Q structures
          Msg,                 \* what a message points to
          NbrEntriesSize       \* the size each queue was initialized with

ASSUME MsgAssumption == /\ OSCfg_MsgPoolSize \in Nat \ {0}
                        /\ Msg \subseteq Nat \ {0}
                        /\ NbrEntriesSize \in [MsgQ -> Nat]

VARIABLES OSMsgPool,           \* the free list
          NextPtr, MsgPtr,     \* the fields of every OS_MSG
          q                    \* the fields of every OS_MSG_Q

msgvars == <<OSMsgPool, NextPtr, MsgPtr, q>>

OS_MSG == 1 .. OSCfg_MsgPoolSize
Null   == 0

\* OS_MsgPoolInit, OS_MsgPoolCreate and an OS_MsgQInit for every queue.
MsgInit ==
  /\ OSMsgPool = [NextPtr |-> 1, NbrFree |-> OSCfg_MsgPoolSize, NbrUsed |-> 0]
  /\ NextPtr = [m \in OS_MSG |-> IF m < OSCfg_MsgPoolSize THEN m + 1 ELSE Null]
  /\ MsgPtr = [m \in OS_MSG |-> Null]
  /\ q = [x \in MsgQ |-> [InPtr |-> Null, OutPtr |-> Null, NbrEntries |-> 0]]
-----------------------------------------------------------------------------
\* Mutant of OS_MsgQPut: the message of a queue of one is taken for its head only.
MutMsgQPut(x, p_void, lifo) ==
  LET p_msg == OSMsgPool.NextPtr
  IN  /\ q[x].NbrEntries < NbrEntriesSize[x] /\ OSMsgPool.NbrFree > 0
      /\ OSMsgPool' = [NextPtr |-> NextPtr[p_msg], NbrFree |-> OSMsgPool.NbrFree - 1,
                       NbrUsed |-> OSMsgPool.NbrUsed + 1]
      /\ MsgPtr' = [MsgPtr EXCEPT ![p_msg] = p_void]
      /\ IF lifo
         THEN /\ q' = [q EXCEPT ![x].OutPtr = p_msg, ![x].NbrEntries = @ + 1]
              /\ NextPtr' = [NextPtr EXCEPT ![p_msg] = q[x].OutPtr]
         ELSE /\ q' = [q EXCEPT ![x].InPtr = p_msg, ![x].NbrEntries = @ + 1,
                                ![x].OutPtr = IF @ = Null THEN p_msg ELSE @]
              /\ NextPtr' = [m \in OS_MSG |-> IF m = q[x].InPtr THEN p_msg
                                              ELSE IF m = p_msg THEN Null ELSE NextPtr[m]]

\* Refused when the queue or the pool is at its limit.
OS_MsgQPut(x, p_void, lifo) ==
  LET p_msg == OSMsgPool.NextPtr
  IN  /\ q[x].NbrEntries < NbrEntriesSize[x] /\ OSMsgPool.NbrFree > 0
      /\ OSMsgPool' = [NextPtr |-> NextPtr[p_msg], NbrFree |-> OSMsgPool.NbrFree - 1,
                       NbrUsed |-> OSMsgPool.NbrUsed + 1]
      /\ MsgPtr' = [MsgPtr EXCEPT ![p_msg] = p_void]
      /\ IF q[x].NbrEntries = 0
         THEN /\ q' = [q EXCEPT ![x] = [InPtr |-> p_msg, OutPtr |-> p_msg, NbrEntries |-> 1]]
              /\ UNCHANGED NextPtr
         ELSE IF lifo
         THEN /\ q' = [q EXCEPT ![x].OutPtr = p_msg, ![x].NbrEntries = @ + 1]
              /\ NextPtr' = [NextPtr EXCEPT ![p_msg] = q[x].OutPtr]
         ELSE /\ q' = [q EXCEPT ![x].InPtr = p_msg, ![x].NbrEntries = @ + 1]
              /\ NextPtr' = [NextPtr EXCEPT ![q[x].InPtr] = p_msg, ![p_msg] = Null]

OS_MsgQGet(x) ==
  LET p_msg == q[x].OutPtr
      next  == NextPtr[p_msg]
  IN  /\ q[x].NbrEntries > 0
      /\ q' = [q EXCEPT ![x] = IF next = Null
                               THEN [InPtr |-> Null, OutPtr |-> Null, NbrEntries |-> 0]
                               ELSE [InPtr |-> q[x].InPtr, OutPtr |-> next,
                                     NbrEntries |-> q[x].NbrEntries - 1]]
      /\ NextPtr' = [NextPtr EXCEPT ![p_msg] = OSMsgPool.NextPtr]
      /\ OSMsgPool' = [NextPtr |-> p_msg, NbrFree |-> OSMsgPool.NbrFree + 1,
                       NbrUsed |-> OSMsgPool.NbrUsed - 1]
      /\ UNCHANGED MsgPtr

\* Mutant of OS_MsgQFreeAll: only the newest message goes back to the pool.
MutMsgQFreeAll(x) ==
  LET n == q[x].NbrEntries
  IN  /\ n > 0
      /\ NextPtr' = [NextPtr EXCEPT ![q[x].InPtr] = OSMsgPool.NextPtr]
      /\ OSMsgPool' = [NextPtr |-> q[x].InPtr, NbrFree |-> OSMsgPool.NbrFree + n,
                       NbrUsed |-> OSMsgPool.NbrUsed - n]
      /\ q' = [q EXCEPT ![x] = [InPtr |-> Null, OutPtr |-> Null, NbrEntries |-> 0]]
      /\ UNCHANGED MsgPtr

\* The whole list is put in front of the free list; nothing to do when empty.
OS_MsgQFreeAll(x) ==
  LET n == q[x].NbrEntries
  IN  /\ n > 0
      /\ NextPtr' = [NextPtr EXCEPT ![q[x].InPtr] = OSMsgPool.NextPtr]
      /\ OSMsgPool' = [NextPtr |-> q[x].OutPtr, NbrFree |-> OSMsgPool.NbrFree + n,
                       NbrUsed |-> OSMsgPool.NbrUsed - n]
      /\ q' = [q EXCEPT ![x] = [InPtr |-> Null, OutPtr |-> Null, NbrEntries |-> 0]]
      /\ UNCHANGED MsgPtr
-----------------------------------------------------------------------------
\* The n structures that follow one another from p on.
Chain(next, p, n) ==
  LET at[i \in 1 .. n] == IF i = 1 THEN p
                          ELSE IF at[i - 1] = Null THEN Null ELSE next[at[i - 1]]
  IN  at

FreeMsgs   == Chain(NextPtr, OSMsgPool.NextPtr, OSMsgPool.NbrFree)
QueuedMsgs == [x \in MsgQ |-> Chain(NextPtr, q[x].OutPtr, q[x].NbrEntries)]

\* Every OS_MSG is in exactly one place, the free list or one queue, once: no
\* put, get or flush loses one or links it twice, though links left over from
\* the free list stay in the queues (OS_MsgQPut, OS_MsgQGet, OS_MsgQFreeAll).
PoolIntegrity ==
  LET places == {FreeMsgs} \cup {QueuedMsgs[x] : x \in MsgQ}
      used   == UNION {Range(QueuedMsgs[x]) : x \in MsgQ}
  IN  /\ \A s \in places : \A i, j \in DOMAIN s : s[i] = s[j] => i = j
      /\ \A x, y \in MsgQ : x # y => Range(QueuedMsgs[x]) \cap Range(QueuedMsgs[y]) = {}
      /\ Range(FreeMsgs) \cap used = {} /\ Range(FreeMsgs) \cup used = OS_MSG
      /\ OSMsgPool.NbrFree + OSMsgPool.NbrUsed = OSCfg_MsgPoolSize
      /\ \A x \in MsgQ : q[x].NbrEntries > 0 => q[x].InPtr = QueuedMsgs[x][q[x].NbrEntries]

\* The messages of each queue, the next to leave first.
Contents == [x \in MsgQ |-> [i \in 1 .. q[x].NbrEntries |->
               IF QueuedMsgs[x][i] = Null THEN Null ELSE MsgPtr[QueuedMsgs[x][i]]]]

Queues == INSTANCE MsgQueues WITH queue <- Contents, Size <- NbrEntriesSize,
                                  PoolSize <- OSCfg_MsgPoolSize

\* The linked lists implement the queues: first in first out, or last in first
\* out where asked, whatever the other queues take from the pool meanwhile.
ImplementsMsgQueues == Queues!Spec
=============================================================================
