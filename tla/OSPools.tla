------------------------------ MODULE OSPools ------------------------------
(***************************************************************************)
(* The two pools at work together: an application takes memory blocks from *)
(* a partition (OSMem), sends them through message queues (OSMsg) and puts *)
(* back what it receives.                                                  *)
(***************************************************************************)
EXTENDS OSMsg, OSMem

CONSTANT Words          \* model bound: what the application writes into a block

ASSUME PoolsAssumption == Msg = Blk /\ Words \subseteq {0} \cup Blk

VARIABLES held,        \* the blocks the application holds
          dropped      \* history: the blocks whose pointer went with a flushed queue

pvars == <<msgvars, memvars, held, dropped>>

PoolsInit == MsgInit /\ OSMemCreate /\ held = {} /\ dropped = {}

Allocate == /\ OSMemGet
            /\ held' = held \cup {p_blk}
            /\ UNCHANGED <<msgvars, dropped>>

\* The application writes into a block it holds.
Write(b, w) == /\ b \in held
               /\ word' = [word EXCEPT ![b] = w]
               /\ UNCHANGED <<FreeListPtr, NbrFree, msgvars, held, dropped>>

Send(x, b, lifo) == /\ b \in held
                    /\ OS_MsgQPut(x, b, lifo)
                    /\ held' = held \ {b}
                    /\ UNCHANGED <<memvars, dropped>>

Receive(x) == /\ OS_MsgQGet(x)
              /\ held' = held \cup {MsgPtr[q[x].OutPtr]}
              /\ UNCHANGED <<memvars, dropped>>

\* OSTaskQFlush, or OSTaskDel of the owner of the queue.
Flush(x) == /\ OS_MsgQFreeAll(x)
            /\ dropped' = dropped \cup Range(Contents[x])
            /\ UNCHANGED <<memvars, held>>

Release(b) == /\ b \in held
              /\ OSMemPut(b)
              /\ held' = held \ {b}
              /\ UNCHANGED <<msgvars, dropped>>

PoolsNext == \/ Allocate
             \/ \E b \in Blk : Release(b)
             \/ \E b \in Blk, w \in Words : Write(b, w)
             \/ \E x \in MsgQ, b \in Blk, lifo \in BOOLEAN : Send(x, b, lifo)
             \/ \E x \in MsgQ : Receive(x) \/ Flush(x)

PoolsSpec == PoolsInit /\ [][PoolsNext]_pvars
-----------------------------------------------------------------------------
FreeBlks == Chain(word, FreeListPtr, NbrFree)

\* A block is never in two hands and never lost: it is free, held, in one queue
\* once, or its pointer was thrown away with a flushed queue; whatever the
\* application writes into the word that links it while it is free (OSMemGet,
\* OSMemPut).
BlockConservation ==
  LET queued == UNION {Range(Contents[x]) : x \in MsgQ}
  IN  /\ \A i, j \in DOMAIN FreeBlks : FreeBlks[i] = FreeBlks[j] => i = j
      /\ \A x, y \in MsgQ : \A i \in DOMAIN Contents[x], j \in DOMAIN Contents[y] :
           Contents[x][i] = Contents[y][j] => x = y /\ i = j
      /\ Range(FreeBlks) \cap held = {} /\ Range(FreeBlks) \cap queued = {}
      /\ held \cap queued = {} /\ dropped \cap (Range(FreeBlks) \cup held \cup queued) = {}
      /\ Range(FreeBlks) \cup held \cup queued \cup dropped = Blk
=============================================================================
