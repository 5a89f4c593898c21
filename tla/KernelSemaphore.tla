--------------------------- MODULE KernelSemaphore ---------------------------
(***************************************************************************)
(* The libkernel counting semaphore (libkernel/Semaphore/src/Semaphore.cpp)*)
(* over TimedWait::Condition (libkernel/Time/include/TimedWait.hpp).       *)
(*                                                                         *)
(* Every entry point runs under KernelSemaPrivate::mutex, so each is one   *)
(* action; sceKernelWaitSema releases the mutex only inside the condition, *)
(* so it is the section that ends asleep (or returns at once) followed by  *)
(* one Resume section per wake-up.  `sleeping` is the wait set of the      *)
(* condition; a thread that was notified, that woke spuriously or whose    *)
(* deadline passed has left it and still has to take the mutex again.      *)
(*                                                                         *)
(* A call refused by its early returns changes nothing and is no action.   *)
(***************************************************************************)
EXTENDS Integers, FiniteSets

CONSTANTS
  Threads,      \* guest threads
  MaxCount,     \* KernelSemaPrivate::maxCount
  Needs,        \* token counts the guest waits for
  MaxCancels    \* bound on sceKernelCancelSema calls per semaphore

ASSUME ConstantsAssumption ==
  /\ IsFiniteSet(Threads)
  /\ MaxCount \in Nat \ {0}
  /\ Needs \subseteq Nat \ {0}
  /\ MaxCancels \in Nat

VARIABLES
  alive,            \* the object exists (created and not yet freed)
  tokenCount, initCount, deleted, waiterCount, cancelableCount, cancelGeneration,
  sleeping,         \* threads in the wait set of KernelSemaPrivate::condition
  expired,          \* threads whose wait_until reported a timeout
  pc,               \* "idle", "waiting" in WaitSema or "deleting" in DeleteSema
  need, timed, generation,   \* locals of sceKernelWaitSema
  owed              \* history: waiters reported by cancels that have not returned

shared == <<alive, tokenCount, initCount, deleted, waiterCount, cancelableCount,
            cancelGeneration>>
locals == <<pc, need, timed, generation>>
vars == <<shared, sleeping, expired, locals, owed>>

Inside == {t \in Threads : pc[t] = "waiting"}
OfGeneration(g) == {t \in Inside : generation[t] = g}

TypeOK ==
  /\ alive \in BOOLEAN /\ deleted \in BOOLEAN
  /\ tokenCount \in 0..MaxCount /\ initCount \in 0..MaxCount
  /\ waiterCount \in Nat /\ cancelableCount \in Nat /\ owed \in Nat
  /\ cancelGeneration \in 0..MaxCancels
  /\ sleeping \subseteq Threads /\ expired \subseteq Threads
  /\ pc \in [Threads -> {"idle", "waiting", "deleting"}]
  /\ need \in [Threads -> Nat] /\ timed \in [Threads -> BOOLEAN]
  /\ generation \in [Threads -> 0..MaxCancels]

-----------------------------------------------------------------------------
(* Pieces of the entry points *)

\* TimedWait::Condition::NotifyAll, as the wait set it leaves behind.
NotifyAllButOne == IF sleeping = {} THEN {} ELSE {CHOOSE t \in sleeping : TRUE}
NotifyAll == {}

\* The predicate `released` of sceKernelWaitSema for a wait of n tokens begun in
\* generation g.
Released(n, g) == tokenCount >= n \/ deleted \/ cancelGeneration # g

\* The wait returns KERNEL_SEMA_OK: neither deleted nor cancelled, and satisfied.
Acquires(n, g) == ~deleted /\ cancelGeneration = g /\ tokenCount >= n

\* Room for count tokens in sceKernelSignalSema.
SignalFits(count) == count <= MaxCount - tokenCount

\* A waiter that holds the mutex again leaves the wait.
ReturnsOnlyReleased(t) == Released(need[t], generation[t])
Returns(t) == Released(need[t], generation[t]) \/ t \in expired

\* WaiterGuard's destructor takes a waiter of generation g off cancelableCount.
CancelableAfter(g) == IF cancelGeneration = g THEN cancelableCount - 1
                                              ELSE cancelableCount

\* What sceKernelCancelSema stores through `threads`.
ReportsWaiters == waiterCount
Reported == cancelableCount

\* The condition sceKernelDeleteSema waits for before it frees the object.
DrainedUnchecked == TRUE
Drained == waiterCount = 0

-----------------------------------------------------------------------------
Init ==
  /\ alive = FALSE /\ deleted = FALSE
  /\ tokenCount = 0 /\ initCount = 0
  /\ waiterCount = 0 /\ cancelableCount = 0 /\ cancelGeneration = 0
  /\ sleeping = {} /\ expired = {}
  /\ pc = [t \in Threads |-> "idle"]
  /\ need = [t \in Threads |-> 0]
  /\ timed = [t \in Threads |-> FALSE]
  /\ generation = [t \in Threads |-> 0]
  /\ owed = 0

\* sceKernelCreateSema: a fresh object, once the previous one is gone.
CreateSema(init) ==
  /\ ~alive
  /\ alive' = TRUE /\ deleted' = FALSE
  /\ tokenCount' = init /\ initCount' = init
  /\ waiterCount' = 0 /\ cancelableCount' = 0 /\ cancelGeneration' = 0
  /\ owed' = 0
  /\ UNCHANGED <<sleeping, expired, locals>>

\* sceKernelPollSema that finds its tokens.
PollSema(n) ==
  /\ alive
  /\ tokenCount >= n
  /\ tokenCount' = tokenCount - n
  /\ UNCHANGED <<alive, initCount, deleted, waiterCount, cancelableCount,
                 cancelGeneration, sleeping, expired, locals, owed>>

\* sceKernelSignalSema.
SignalSema(count) ==
  /\ alive
  /\ SignalFits(count)
  /\ tokenCount' = tokenCount + count
  /\ sleeping' = NotifyAll
  /\ UNCHANGED <<alive, initCount, deleted, waiterCount, cancelableCount,
                 cancelGeneration, expired, locals, owed>>

\* sceKernelWaitSema whose predicate holds on entry: it never releases the mutex,
\* and the guard's destructor notifies on the way out.
WaitSemaAtOnce(t, n) ==
  /\ alive
  /\ pc[t] = "idle"
  /\ Released(n, cancelGeneration)
  /\ tokenCount' = IF Acquires(n, cancelGeneration) THEN tokenCount - n ELSE tokenCount
  /\ sleeping' = NotifyAll
  /\ UNCHANGED <<alive, initCount, deleted, waiterCount, cancelableCount,
                 cancelGeneration, expired, locals, owed>>

\* sceKernelWaitSema that has to sleep: counted, then parked on the condition.
WaitSemaBlocks(t, n, withTimeout) ==
  /\ alive
  /\ pc[t] = "idle"
  /\ ~Released(n, cancelGeneration)
  /\ waiterCount' = waiterCount + 1
  /\ cancelableCount' = cancelableCount + 1
  /\ pc' = [pc EXCEPT ![t] = "waiting"]
  /\ need' = [need EXCEPT ![t] = n]
  /\ timed' = [timed EXCEPT ![t] = withTimeout]
  /\ generation' = [generation EXCEPT ![t] = cancelGeneration]
  /\ sleeping' = sleeping \cup {t}
  /\ UNCHANGED <<alive, tokenCount, initCount, deleted, cancelGeneration, expired, owed>>

\* The condition's timed wait gives up at the deadline.
Expire(t) ==
  /\ t \in sleeping
  /\ pc[t] = "waiting" /\ timed[t]
  /\ sleeping' = sleeping \ {t}
  /\ expired' = expired \cup {t}
  /\ UNCHANGED <<shared, locals, owed>>

\* std::condition_variable_any may wake a waiter nobody notified.
SpuriousWake(t) ==
  /\ t \in sleeping
  /\ sleeping' = sleeping \ {t}
  /\ UNCHANGED <<shared, expired, locals, owed>>

\* A woken waiter retakes the mutex, finds its predicate false and sleeps again.
ResumeSleeps(t) ==
  /\ pc[t] = "waiting" /\ t \notin sleeping /\ t \notin expired
  /\ ~Released(need[t], generation[t])
  /\ sleeping' = sleeping \cup {t}
  /\ UNCHANGED <<shared, expired, locals, owed>>

\* A woken waiter retakes the mutex and returns: EACCES, ECANCELED, ETIMEDOUT, or
\* OK with its tokens; the guard's destructor uncounts it and notifies.
ResumeReturns(t) ==
  /\ pc[t] = "waiting" /\ t \notin sleeping
  /\ Returns(t)
  /\ tokenCount' = IF Acquires(need[t], generation[t]) THEN tokenCount - need[t]
                                                       ELSE tokenCount
  /\ waiterCount' = waiterCount - 1
  /\ cancelableCount' = CancelableAfter(generation[t])
  /\ owed' = IF generation[t] # cancelGeneration THEN owed - 1 ELSE owed
  /\ sleeping' = NotifyAll
  /\ expired' = expired \ {t}
  /\ pc' = [pc EXCEPT ![t] = "idle"]
  /\ need' = [need EXCEPT ![t] = 0]
  /\ timed' = [timed EXCEPT ![t] = FALSE]
  /\ generation' = [generation EXCEPT ![t] = 0]
  /\ UNCHANGED <<alive, initCount, deleted, cancelGeneration>>

\* sceKernelCancelSema; a negative count restores initCount.
CancelSema(count) ==
  /\ alive
  /\ cancelGeneration < MaxCancels
  /\ tokenCount' = IF count < 0 THEN initCount ELSE count
  /\ owed' = owed + Reported
  /\ cancelableCount' = 0
  /\ cancelGeneration' = cancelGeneration + 1
  /\ sleeping' = NotifyAll
  /\ UNCHANGED <<alive, initCount, deleted, waiterCount, expired, locals>>

\* sceKernelDeleteSema up to its wait: no waiter inside, so it frees the object.
\* The guest deletes a semaphore once: a second call would free it twice.
DeleteSemaAtOnce(t) ==
  /\ alive /\ ~deleted
  /\ pc[t] = "idle"
  /\ Drained
  /\ deleted' = TRUE
  /\ alive' = FALSE
  /\ sleeping' = NotifyAll
  /\ UNCHANGED <<tokenCount, initCount, waiterCount, cancelableCount,
                 cancelGeneration, expired, locals, owed>>

\* sceKernelDeleteSema with waiters inside: notify them and sleep.
DeleteSemaBlocks(t) ==
  /\ alive /\ ~deleted
  /\ pc[t] = "idle"
  /\ ~Drained
  /\ deleted' = TRUE
  /\ sleeping' = NotifyAll \cup {t}
  /\ pc' = [pc EXCEPT ![t] = "deleting"]
  /\ UNCHANGED <<alive, tokenCount, initCount, waiterCount, cancelableCount,
                 cancelGeneration, expired, need, timed, generation, owed>>

DeleteSleeps(t) ==
  /\ pc[t] = "deleting" /\ t \notin sleeping
  /\ ~Drained
  /\ sleeping' = sleeping \cup {t}
  /\ UNCHANGED <<shared, expired, locals, owed>>

DeleteFrees(t) ==
  /\ pc[t] = "deleting" /\ t \notin sleeping
  /\ Drained
  /\ alive' = FALSE
  /\ pc' = [pc EXCEPT ![t] = "idle"]
  /\ UNCHANGED <<tokenCount, initCount, deleted, waiterCount, cancelableCount,
                 cancelGeneration, sleeping, expired, need, timed, generation, owed>>

Calls ==
  \/ \E init \in 0..MaxCount : CreateSema(init)
  \/ \E n \in Needs : PollSema(n)
  \/ \E count \in 0..MaxCount : SignalSema(count)
  \/ \E count \in -1..MaxCount : CancelSema(count)
  \/ \E t \in Threads, n \in Needs : WaitSemaAtOnce(t, n)
  \/ \E t \in Threads, n \in Needs, b \in BOOLEAN : WaitSemaBlocks(t, n, b)
  \/ \E t \in Threads : DeleteSemaAtOnce(t) \/ DeleteSemaBlocks(t)

Progress(t) == ResumeSleeps(t) \/ ResumeReturns(t) \/ DeleteSleeps(t) \/ DeleteFrees(t)

Next == Calls \/ \E t \in Threads : Progress(t) \/ Expire(t) \/ SpuriousWake(t)

Spec == Init /\ [][Next]_vars

\* The host scheduler runs a thread that can take the mutex, and an absolute
\* deadline passes however often the waiter is woken before it.
FairSpec ==
  /\ Spec
  /\ \A t \in Threads : WF_vars(Progress(t)) /\ SF_vars(Expire(t))

-----------------------------------------------------------------------------
(* Properties *)

\* waiterCount and cancelableCount, which Delete and Cancel act upon, are exactly
\* the waiters inside sceKernelWaitSema and those of the current generation.
WaitersAccounted ==
  alive => /\ waiterCount = Cardinality(Inside)
           /\ cancelableCount = Cardinality(OfGeneration(cancelGeneration))

\* The counts sceKernelCancelSema reports add up: the waiters reported so far and
\* not yet back are exactly the waiters inside whose generation is over, so no
\* waiter is reported twice and none is missed (tests/GuestSemaphore.cpp sums them).
CancelReportsExact ==
  alive => owed = Cardinality({t \in Inside : generation[t] # cancelGeneration})

\* No lost wake-up: a thread left asleep by the condition has nothing to wake for.
NoMissedWakeup ==
  \A t \in sleeping : /\ pc[t] = "waiting" => ~Released(need[t], generation[t])
                      /\ pc[t] = "deleting" => waiterCount # 0

\* The object is never freed under a thread that is still inside a call on it.
NeverFreedInUse == ~alive => \A t \in Threads : pc[t] = "idle"

\* sceKernelDeleteSema returns, whatever the other threads keep calling.
DeleteReturns == \A t \in Threads : pc[t] = "deleting" ~> pc[t] = "idle"

\* A wait with a deadline, or of a generation that was cancelled, returns, although
\* others may take the tokens it is woken for each time.
EndedWaitReturns ==
  \A t \in Threads :
    (pc[t] = "waiting" /\ (timed[t] \/ generation[t] # cancelGeneration)) ~> pc[t] = "idle"
=============================================================================
