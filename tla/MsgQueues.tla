----------------------------- MODULE MsgQueues -----------------------------
(***************************************************************************)
(* What the message services need: queues of messages, each of a limited   *)
(* length, that share a pool of a limited size.  os_msg.c implements them  *)
(* with linked lists of OS_MSG (OSMsg); OSQ uses the sequences themselves. *)
(***************************************************************************)
EXTENDS Integers, Sequences, FiniteSets

CONSTANTS MsgQ,        \* the queues
          Msg,         \* what they carry
          Size,        \* the longest each may get
          PoolSize     \* the most messages that all of them hold together

VARIABLE queue         \* the messages in each, the next to leave first

Used == Cardinality(UNION {{q} \X DOMAIN queue[q] : q \in MsgQ})

CanPut(q) == Len(queue[q]) < Size[q] /\ Used < PoolSize

Init == queue = [q \in MsgQ |-> <<>>]

Put(q, m, lifo) == /\ CanPut(q)
                   /\ queue' = [queue EXCEPT ![q] = IF lifo THEN <<m>> \o @ ELSE Append(@, m)]

\* The first message of each of several queues is taken.
Get(S) == /\ \A q \in S : queue[q] # <<>>
          /\ queue' = [q \in MsgQ |-> IF q \in S THEN Tail(queue[q]) ELSE queue[q]]

Flush(q) == queue' = [queue EXCEPT ![q] = <<>>]

Next == \/ \E q \in MsgQ, m \in Msg, lifo \in BOOLEAN : Put(q, m, lifo)
        \/ \E S \in SUBSET MsgQ : Get(S)
        \/ \E q \in MsgQ : Flush(q)

Spec == Init /\ [][Next]_queue
=============================================================================
