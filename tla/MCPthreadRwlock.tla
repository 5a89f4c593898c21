---------------------------- MODULE MCPthreadRwlock ----------------------------
(* Instances of PthreadRwlock for TLC. *)
EXTENDS PthreadRwlock

===============================================================================
