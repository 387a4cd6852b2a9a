------------------------------- MODULE OSPrio -------------------------------
(***************************************************************************)
(* os_prio.c: the ready-priority bitmap.  Each CPU word holds WordBits     *)
(* priorities, the smallest number in its most significant bit, so that    *)
(* counting leading zeros finds the highest priority.                      *)
(***************************************************************************)
EXTENDS Naturals, Bitwise

CONSTANTS PrioMax,               \* OS_CFG_PRIO_MAX
          WordBits               \* DEF_INT_CPU_NBR_BITS, four octets

ASSUME PrioAssumption == PrioMax \in Nat \ {0} /\ WordBits \in {4, 8, 16, 32}

OS_PRIO_TBL_SIZE == (PrioMax - 1) \div WordBits + 1

Prios == 0 .. PrioMax - 1

VARIABLES OSPrioTbl,             \* the table of words, each 0 .. 2^WordBits - 1
          prio                   \* what the last OS_PrioGetHighest returned

vars == <<OSPrioTbl, prio>>

\* The mask of a priority inside its word: 1 << (WordBits - 1 - bit_nbr).
Bit(p) == 2 ^ (WordBits - 1 - (p % WordBits))

\* The complement of a word, as ~ computes it in WordBits bits.
Complement(w) == 2 ^ WordBits - 1 - w

\* DEF_OCTET_NBR_BITS: a word has four octets.
OctetBits == WordBits \div 4

\* The table of an octet's leading zeros: all its bits for 0, one less at every
\* power of two.
CPU_CntLeadZerosTbl ==
  [ix \in 0 .. 2 ^ OctetBits - 1 |-> CHOOSE n \in 0 .. OctetBits :
                                       /\ ix < 2 ^ (OctetBits - n)
                                       /\ ix >= 2 ^ (OctetBits - n) \div 2]

\* CPU_CntLeadZeros32: the table gives the zeros of the first octet that is not 0,
\* which the comparisons find; the octets above it are counted whole.
CPU_CntLeadZeros(val) ==
  LET Tbl(octet) == CPU_CntLeadZerosTbl[val \div 2 ^ (octet * OctetBits)]
  IN  CASE val >= 2 ^ (3 * OctetBits) -> Tbl(3)
        [] val >= 2 ^ (2 * OctetBits) /\ val < 2 ^ (3 * OctetBits) -> Tbl(2) + OctetBits
        [] val >= 2 ^ OctetBits /\ val < 2 ^ (2 * OctetBits) -> Tbl(1) + 2 * OctetBits
        [] val < 2 ^ OctetBits -> Tbl(0) + 3 * OctetBits

\* The priority that scanning the words from word ix on finds.
Scan[ix \in 0 .. OS_PRIO_TBL_SIZE - 1] ==
  IF OSPrioTbl[ix] = 0 THEN Scan[ix + 1]
                       ELSE ix * WordBits + CPU_CntLeadZeros(OSPrioTbl[ix])

OS_PrioInit == /\ OSPrioTbl = [ix \in 0 .. OS_PRIO_TBL_SIZE - 1 |-> 0]
               /\ prio = 0

\* Mutant of OS_PrioInsert: the word is assigned the mask, not or-ed with it.
MutInsert(p) == /\ OSPrioTbl' = [OSPrioTbl EXCEPT ![p \div WordBits] = Bit(p)]
                /\ UNCHANGED prio

OS_PrioInsert(p) == /\ OSPrioTbl' = [OSPrioTbl EXCEPT ![p \div WordBits] = @ | Bit(p)]
                    /\ UNCHANGED prio

OS_PrioRemove(p) == /\ OSPrioTbl' = [OSPrioTbl EXCEPT ![p \div WordBits] = @ & Complement(Bit(p))]
                    /\ UNCHANGED prio

\* The caller guarantees a non-empty table: the idle task is always ready.
OS_PrioGetHighest == /\ \E ix \in DOMAIN OSPrioTbl : OSPrioTbl[ix] # 0
                     /\ prio' = Scan[0]
                     /\ UNCHANGED OSPrioTbl

Next == \/ \E p \in Prios : OS_PrioInsert(p) \/ OS_PrioRemove(p)
        \/ OS_PrioGetHighest

Spec == OS_PrioInit /\ [][Next]_vars
-----------------------------------------------------------------------------
\* The set of priorities whose bit is set.
PrioOf == {p \in Prios : (OSPrioTbl[p \div WordBits] \div Bit(p)) % 2 = 1}

Abstract == INSTANCE PrioSet WITH prios <- PrioOf, highest <- prio

\* The bitmap implements the set of ready priorities: OS_PrioInsert and
\* OS_PrioRemove touch one priority and no neighbour in the word, and
\* OS_PrioGetHighest answers the smallest priority of the set, across words.
ImplementsPrioSet == Abstract!Spec
=============================================================================
