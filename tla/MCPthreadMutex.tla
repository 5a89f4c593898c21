---------------------------- MODULE MCPthreadMutex ----------------------------
(* Instances of PthreadMutex for TLC. *)
EXTENDS PthreadMutex

CONSTANTS t1, t2, t3, plain, recursive, b1

MCThreads == {t1, t2, t3}
MCMutexes == {plain, recursive}
\* Both mutexes hash to the same bucket.
MCBucketOf == [m \in Mutexes |-> b1]
===============================================================================
