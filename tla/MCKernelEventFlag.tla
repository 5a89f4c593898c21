-------------------------- MODULE MCKernelEventFlag --------------------------
(* Requests that differ in all that IsSatisfied and Consume distinguish.      *)
EXTENDS KernelEventFlag

CONSTANTS a, b

AllPatterns == SUBSET Bits
BothTaken == [bits |-> {a, b}, all |-> TRUE, clear |-> "pattern"]
EitherAll == [bits |-> {a, b}, all |-> FALSE, clear |-> "all"]

MixedRequests == {BothTaken, EitherAll}
==============================================================================
