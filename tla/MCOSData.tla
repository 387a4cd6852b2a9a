------------------------------ MODULE MCOSData ------------------------------
(***************************************************************************)
(* Instance of the kernel's data structures: the priority bitmap in three  *)
(* words of four bits, the last one only partly used, and the pools of     *)
(* messages and memory blocks.  Bitmap and pools share no state; each      *)
(* moves while the other is as initialized, and the run explores both.     *)
(***************************************************************************)
EXTENDS OSPrio, OSPools

CONSTANTS q1, q2

Sizes == [x \in MsgQ |-> IF x = q1 THEN 2 ELSE 1]
Blks  == 1 .. n_blks

DInit == OS_PrioInit /\ PoolsInit

DNext == \/ PoolsInit /\ Next /\ UNCHANGED pvars
         \/ OS_PrioInit /\ PoolsNext /\ UNCHANGED vars

DSpec == DInit /\ [][DNext]_<<vars, pvars>>
=============================================================================
