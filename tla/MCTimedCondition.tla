--------------------------- MODULE MCTimedCondition ---------------------------
(* Instances of TimedCondition for TLC. *)
EXTENDS TimedCondition
===============================================================================
