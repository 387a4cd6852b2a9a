------------------------------ MODULE MCOSPort ------------------------------
(***************************************************************************)
(* Instance of OSPort: the idle task and two tasks that come and go.       *)
(***************************************************************************)
EXTENDS OSPort
=============================================================================
