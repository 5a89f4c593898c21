-------------------------- MODULE MCSyncOnAddress --------------------------
(* Instances of SyncOnAddress for TLC. *)
EXTENDS SyncOnAddress

=============================================================================
