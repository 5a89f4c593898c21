--------------------------- MODULE KernelEventFlag ---------------------------
(***************************************************************************)
(* The libkernel event flag (libkernel/EventFlag/src/EventFlag.cpp): a     *)
(* pattern of bits threads wait for, and may clear when they get them.     *)
(*                                                                         *)
(* Every entry point runs under _mutex, so each is one action; a wait that *)
(* has to sleep releases it in the condition and comes back one section    *)
(* per wake-up.  `sleeping` is the wait set of _changed.  Who deletes a    *)
(* flag leaves it to its last waiter to free, if it has any.               *)
(*                                                                         *)
(* A call refused by its early returns changes nothing and is no action;   *)
(* no call is taken to race the one that frees the flag.                   *)
(***************************************************************************)
EXTENDS Integers, FiniteSets

CONSTANTS
  Threads,
  Bits,         \* the bits of the pattern
  Patterns,     \* the sets of bits the guest passes to Create, Set, Clear and Cancel
  Requests,     \* what it waits or polls for: [bits, all, clear]
  MaxCancels    \* bound on sceKernelCancelEventFlag calls per flag

\* IsValidWaitMode: one of AND and OR, at most one of CLEAR_ALL and CLEAR_PAT.
WaitModes == [bits : SUBSET Bits \ {{}}, all : BOOLEAN, clear : {"none", "pattern", "all"}]

ASSUME ConstantsAssumption ==
  /\ IsFiniteSet(Threads)
  /\ Patterns \subseteq SUBSET Bits
  /\ Requests \subseteq WaitModes /\ Requests # {}
  /\ MaxCancels \in Nat

VARIABLES
  alive,           \* the object exists
  pattern, multipleWaiters, deleted, waiters, cancelGeneration,
  sleeping,        \* threads in the wait set of _changed
  expired,         \* threads whose deadline passed in it
  waiting,         \* threads inside sceKernelWaitEventFlag
  request, timed, generation,   \* their arguments and locals
  taken            \* history: per bit, how often it was cleared by who waited since last set

shared == <<alive, pattern, multipleWaiters, deleted, waiters, cancelGeneration>>
locals == <<waiting, request, timed, generation>>
vars == <<shared, sleeping, expired, locals, taken>>

TypeOK ==
  /\ alive \in BOOLEAN /\ deleted \in BOOLEAN /\ multipleWaiters \in BOOLEAN
  /\ pattern \subseteq Bits
  /\ waiters \in 0..Cardinality(Threads)
  /\ cancelGeneration \in 0..MaxCancels
  /\ sleeping \subseteq waiting /\ expired \subseteq waiting \ sleeping
  /\ waiting \subseteq Threads
  /\ request \in [Threads -> Requests]
  /\ timed \in [Threads -> BOOLEAN]
  /\ generation \in [Threads -> 0..MaxCancels]
  /\ taken \in [Bits -> Nat]

-----------------------------------------------------------------------------
(* Pieces of the entry points *)

IsSatisfied(r) == IF r.all THEN r.bits \subseteq pattern ELSE r.bits \cap pattern # {}

\* Consume: what is left of the pattern, and what the caller cleared of it.
LeftUncleared(r) == pattern
Left(r) == CASE r.clear = "all" -> {}
             [] r.clear = "pattern" -> pattern \ r.bits
             [] OTHER -> pattern

Consume(r) ==
  /\ pattern' = Left(r)
  /\ taken' = [b \in Bits |-> IF r.clear # "none" /\ b \in pattern /\ (r.clear = "all" \/ b \in r.bits)
                              THEN taken[b] + 1 ELSE taken[b]]

\* History: these bits are set anew.
Renewed(bits) == taken' = [b \in Bits |-> IF b \in bits THEN 0 ELSE taken[b]]

\* The predicate `released`.
ReleasedIgnoresCancel(r, g) == deleted \/ IsSatisfied(r)
Released(r, g) == deleted \/ cancelGeneration # g \/ IsSatisfied(r)

\* A single-waiter flag takes no second waiter.
Admits == multipleWaiters \/ waiters = 0

\* TimedWait::Condition::NotifyAll, as the wait set it leaves behind.
NotifiesOne == IF sleeping = {} THEN {} ELSE {CHOOSE t \in sleeping : TRUE}
NotifyAll == {}

-----------------------------------------------------------------------------
Init ==
  /\ alive = FALSE /\ deleted = FALSE /\ multipleWaiters = FALSE
  /\ pattern = {} /\ waiters = 0 /\ cancelGeneration = 0
  /\ sleeping = {} /\ expired = {} /\ waiting = {}
  /\ request \in [Threads -> Requests]
  /\ timed = [t \in Threads |-> FALSE]
  /\ generation = [t \in Threads |-> 0]
  /\ taken = [b \in Bits |-> 0]

\* sceKernelCreateEventFlag: a fresh object, once the previous one is gone.
CreateEventFlag(initial, multi) ==
  /\ ~alive
  /\ alive' = TRUE /\ deleted' = FALSE
  /\ pattern' = initial
  /\ multipleWaiters' = multi
  /\ waiters' = 0 /\ cancelGeneration' = 0
  /\ taken' = [b \in Bits |-> 0]
  /\ UNCHANGED <<sleeping, expired, locals>>

\* sceKernelDeleteEventFlag: freed at once, or by the last of the waiters it wakes.
DeleteEventFlag ==
  /\ alive /\ ~deleted
  /\ deleted' = TRUE
  /\ alive' = (waiters # 0)
  /\ sleeping' = NotifyAll
  /\ UNCHANGED <<pattern, multipleWaiters, waiters, cancelGeneration, expired, locals, taken>>

SetEventFlag(bits) ==
  /\ alive /\ ~deleted
  /\ pattern' = pattern \cup bits
  /\ Renewed(bits)
  /\ sleeping' = NotifyAll
  /\ UNCHANGED <<alive, multipleWaiters, deleted, waiters, cancelGeneration, expired, locals>>

\* sceKernelClearEventFlag keeps the bits it is given.
ClearEventFlag(bits) ==
  /\ alive /\ ~deleted
  /\ pattern' = pattern \cap bits
  /\ UNCHANGED <<alive, multipleWaiters, deleted, waiters, cancelGeneration, sleeping, expired,
                 locals, taken>>

CancelEventFlag(bits) ==
  /\ alive /\ ~deleted
  /\ cancelGeneration < MaxCancels
  /\ pattern' = bits
  /\ Renewed(bits)
  /\ cancelGeneration' = cancelGeneration + 1
  /\ sleeping' = NotifyAll
  /\ UNCHANGED <<alive, multipleWaiters, deleted, waiters, expired, locals>>

\* sceKernelPollEventFlag, or sceKernelWaitEventFlag whose predicate holds on entry.
TakeAtOnce(r) ==
  /\ alive /\ ~deleted
  /\ Admits
  /\ IsSatisfied(r)
  /\ Consume(r)
  /\ UNCHANGED <<alive, multipleWaiters, deleted, waiters, cancelGeneration, sleeping, expired,
                 locals>>

\* sceKernelWaitEventFlag that has to sleep.
WaitBlocks(t, r, withTimeout) ==
  /\ alive /\ ~deleted
  /\ t \notin waiting
  /\ Admits
  /\ ~IsSatisfied(r)
  /\ waiters' = waiters + 1
  /\ waiting' = waiting \cup {t}
  /\ sleeping' = sleeping \cup {t}
  /\ request' = [request EXCEPT ![t] = r]
  /\ timed' = [timed EXCEPT ![t] = withTimeout]
  /\ generation' = [generation EXCEPT ![t] = cancelGeneration]
  /\ UNCHANGED <<alive, pattern, multipleWaiters, deleted, cancelGeneration, expired, taken>>

\* The condition gives up at the deadline, or wakes a waiter nobody notified.
Expire(t) ==
  /\ t \in sleeping
  /\ timed[t]
  /\ sleeping' = sleeping \ {t}
  /\ expired' = expired \cup {t}
  /\ UNCHANGED <<shared, locals, taken>>

SpuriousWake(t) ==
  /\ t \in sleeping
  /\ sleeping' = sleeping \ {t}
  /\ UNCHANGED <<shared, expired, locals, taken>>

\* Awake with the mutex again.
Awake(t) == t \in waiting \ sleeping

ResumeSleeps(t) ==
  /\ Awake(t) /\ t \notin expired
  /\ ~Released(request[t], generation[t])
  /\ sleeping' = sleeping \cup {t}
  /\ UNCHANGED <<shared, expired, locals, taken>>

\* It returns if released or late.
Returns(t) == Awake(t) /\ (t \in expired \/ Released(request[t], generation[t]))

Uncounted == waiters - 1
NoLongerLate(t) == expired \ {t}

\* What every return does: the locals of the finished call are forgotten.
Leaves(t) ==
  /\ waiters' = Uncounted
  /\ waiting' = waiting \ {t}
  /\ expired' = NoLongerLate(t)
  /\ timed' = [timed EXCEPT ![t] = FALSE]
  /\ generation' = [generation EXCEPT ![t] = 0]
  /\ UNCHANGED <<multipleWaiters, deleted, cancelGeneration, sleeping, request>>

\* EACCES: the flag was deleted, and its last waiter frees it.
FirstFrees == TRUE
LastFrees == Uncounted = 0

ReturnDeleted(t) ==
  /\ Returns(t)
  /\ deleted
  /\ alive' = ~LastFrees
  /\ Leaves(t)
  /\ UNCHANGED <<pattern, taken>>

\* ECANCELED, or ETIMEDOUT when the predicate is still false at the deadline.
ReturnEmptyHanded(t) ==
  /\ Returns(t)
  /\ ~deleted
  /\ \/ cancelGeneration # generation[t]
     \/ t \in expired /\ ~IsSatisfied(request[t])
  /\ Leaves(t)
  /\ UNCHANGED <<alive, pattern, taken>>

\* SCE_OK: its bits are there, and it takes them.
ReturnSatisfied(t) ==
  /\ Returns(t)
  /\ ~deleted /\ cancelGeneration = generation[t]
  /\ IsSatisfied(request[t])
  /\ Consume(request[t])
  /\ Leaves(t)
  /\ UNCHANGED alive

Resume(t) ==
  \/ ResumeSleeps(t)
  \/ ReturnDeleted(t)
  \/ ReturnEmptyHanded(t)
  \/ ReturnSatisfied(t)

Next ==
  \/ \E bits \in Patterns :
       \/ \E multi \in BOOLEAN : CreateEventFlag(bits, multi)
       \/ SetEventFlag(bits)
       \/ ClearEventFlag(bits)
       \/ CancelEventFlag(bits)
  \/ DeleteEventFlag
  \/ \E r \in Requests : TakeAtOnce(r)
  \/ \E t \in Threads :
       \/ \E r \in Requests, b \in BOOLEAN : WaitBlocks(t, r, b)
       \/ Expire(t) \/ SpuriousWake(t) \/ Resume(t)

Spec == Init /\ [][Next]_vars

\* A thread that can take the mutex runs, and a deadline passes however often its
\* waiter is woken before it.
FairSpec == Spec /\ \A t \in Threads : WF_vars(Resume(t)) /\ SF_vars(Expire(t))

-----------------------------------------------------------------------------
(* Properties *)

\* _waiters is exact, and a single-waiter flag never has two: every way out of the wait
\* uncounts its caller before another is let in.
WaitersCounted ==
  alive => waiters = Cardinality(waiting) /\ (multipleWaiters \/ waiters <= 1)

\* A deleted flag stays while it has waiters and no longer: nobody frees it under a
\* waiter, and it does not leak when the last one leaves for another reason.
FreedByTheLast ==
  /\ ~alive => waiting = {}
  /\ alive /\ deleted => waiting # {}

\* A waiter left asleep has nothing to return for.
NoMissedWakeup == \A t \in sleeping : ~Released(request[t], generation[t])

\* A bit is taken once for each time it is set, however many waiters the notification
\* woke for it: the guest may use a clearing wait as a lock.
TakenOnce == \A b \in Bits : taken[b] <= 1 /\ (taken[b] = 1 => b \notin pattern)

\* A wait that is deleted, cancelled or timed ends, though others may clear its bits
\* again each time it is woken for them.
EndedWaitReturns ==
  \A t \in Threads :
    (t \in waiting /\ (deleted \/ timed[t] \/ generation[t] # cancelGeneration))
      ~> t \notin waiting

\* A wait does not last while its bits stay set.
SatisfiedReturns == \A t \in Threads : []<>~(t \in waiting /\ IsSatisfied(request[t]))
=============================================================================
