---------------------------- MODULE MCGuestThreads ----------------------------
(* Instances of GuestThreads for TLC. *)
EXTENDS GuestThreads

CONSTANTS main, a, b

\* The first thread starts the others, posts and ends them; a waits, with a
\* handler; b waits too, or for a.
CallsOf ==
  [t \in {main, a, b} |->
     CASE t = main -> {"create", "post", "cancel", "detach", "join"}
       [] t = a -> {"wait", "timedwait", "handlers", "state", "exit"}
       [] t = b -> {"wait", "join", "exit", "trywait"}]
===============================================================================
