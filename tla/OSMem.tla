------------------------------- MODULE OSMem -------------------------------
(***************************************************************************)
(* os_mem.c: a partition of equal blocks.  A free block holds the link to  *)
(* the next one in its first word; that word is the application's while    *)
(* the block is in use.                                                    *)
(***************************************************************************)
EXTENDS Integers

CONSTANT n_blks                \* the blocks of the partition, NbrMax

ASSUME MemAssumption == n_blks \in Nat \ {0, 1}

VARIABLES FreeListPtr, NbrFree,  \* the fields of the OS_MEM
          word                   \* the first word of every block

memvars == <<FreeListPtr, NbrFree, word>>

Blk == 1 .. n_blks

OSMemCreate == /\ FreeListPtr = 1
               /\ NbrFree = n_blks
               /\ word = [b \in Blk |-> IF b < n_blks THEN b + 1 ELSE 0]

\* The block that OSMemGet returns.
p_blk == FreeListPtr

OSMemGet == /\ NbrFree > 0
            /\ FreeListPtr' = word[p_blk]
            /\ NbrFree' = NbrFree - 1
            /\ UNCHANGED word

\* Mutant of OSMemPut: the link is written after the head has moved.
MutMemPut(b) == /\ NbrFree < n_blks
                /\ FreeListPtr' = b
                /\ word' = [word EXCEPT ![b] = b]
                /\ NbrFree' = NbrFree + 1

\* The only check is that some block is in use.
OSMemPut(b) == /\ NbrFree < n_blks
               /\ word' = [word EXCEPT ![b] = FreeListPtr]
               /\ FreeListPtr' = b
               /\ NbrFree' = NbrFree + 1
=============================================================================
