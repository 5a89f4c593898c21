----------------------- MODULE KernelSemaphoreProofs -----------------------
(***************************************************************************)
(* For every set of threads and every bound: the bookkeeping of            *)
(* KernelSemaphore is exact, no waiter misses its wake-up and the object   *)
(* is not freed in use.  The properties are not inductive one by one: the  *)
(* counts never go below zero only because they are exact, and an exact    *)
(* count survives a cancel only because no waiter is ahead of the          *)
(* generation.  IInv puts the facts together.                              *)
(***************************************************************************)
EXTENDS KernelSemaphore, FiniteSetTheorems, TLAPS

\* No waiter carries a generation that has not begun.
NoFutureGeneration ==
  \A t \in Threads : pc[t] = "waiting" => generation[t] <= cancelGeneration

\* The object is deleted once, by one thread, which is the last to leave it.
OneDeleter ==
  /\ \A t \in Threads : pc[t] = "deleting" => alive /\ deleted
  /\ \A t, u \in Threads : pc[t] = "deleting" /\ pc[u] = "deleting" => t = u

\* The condition's wait set and the expired waits belong to threads inside a call.
QueuesInUse ==
  /\ \A t \in sleeping : pc[t] # "idle"
  /\ expired \subseteq Inside

IInv ==
  /\ TypeOK
  /\ WaitersAccounted
  /\ CancelReportsExact
  /\ NoMissedWakeup
  /\ NeverFreedInUse
  /\ NoFutureGeneration
  /\ OneDeleter
  /\ QueuesInUse

Overtaken == {t \in Inside : generation[t] # cancelGeneration}

-----------------------------------------------------------------------------
\* Adding a new element to, and removing a member from, a set of threads moves its
\* cardinality by one.
LEMMA CountMoves ==
  ASSUME NEW S \in SUBSET Threads, NEW t \in Threads
  PROVE  /\ Cardinality(S) \in Nat
         /\ t \notin S => Cardinality(S \cup {t}) = Cardinality(S) + 1
         /\ t \in S => /\ Cardinality(S \ {t}) = Cardinality(S) - 1
                       /\ Cardinality(S) >= 1
         /\ Cardinality(S) = 0 => S = {}
<1>1. IsFiniteSet(S)
  BY ConstantsAssumption, FS_Subset
<1>2. Cardinality(S) \in Nat /\ Cardinality(S \ {t}) \in Nat
  BY <1>1, FS_CardinalityType, FS_RemoveElement
<1>3. QED
  BY <1>1, <1>2, FS_AddElement, FS_RemoveElement, FS_EmptySet

\* The sets the counts stand for are sets of threads.
LEMMA CountedSets ==
  /\ Inside \in SUBSET Threads
  /\ \A g : OfGeneration(g) \in SUBSET Threads
  /\ Overtaken \in SUBSET Threads
BY DEF Inside, OfGeneration, Overtaken

\* The initial state, before any semaphore is created, satisfies the invariant.
THEOREM InitHolds == Init => IInv
<1> SUFFICES ASSUME Init PROVE IInv
  OBVIOUS
<1> USE ConstantsAssumption DEF Init
<1>1. TypeOK
  <2>1. alive \in BOOLEAN /\ deleted \in BOOLEAN /\ timed \in [Threads -> BOOLEAN]
    OBVIOUS
  <2>2. /\ tokenCount \in 0..MaxCount /\ initCount \in 0..MaxCount
        /\ waiterCount \in Nat /\ cancelableCount \in Nat /\ owed \in Nat
        /\ cancelGeneration \in 0..MaxCancels
        /\ generation \in [Threads -> 0..MaxCancels]
    OBVIOUS
  <2>3. /\ sleeping \subseteq Threads /\ expired \subseteq Threads
        /\ pc \in [Threads -> {"idle", "waiting", "deleting"}]
        /\ need \in [Threads -> Nat]
    OBVIOUS
  <2>4. QED
    BY <2>1, <2>2, <2>3, Zenon DEF TypeOK
<1>2. QED
  BY <1>1 DEF IInv, WaitersAccounted, CancelReportsExact, NoMissedWakeup,
              NeverFreedInUse, NoFutureGeneration, OneDeleter, QueuesInUse

-----------------------------------------------------------------------------
\* A step that leaves the waiters and the generation alone keeps the counted sets.
LEMMA SameSets ==
  ASSUME UNCHANGED <<pc, generation>>
  PROVE  /\ Inside' = Inside
         /\ cancelGeneration' = cancelGeneration =>
              OfGeneration(cancelGeneration)' = OfGeneration(cancelGeneration)
         /\ cancelGeneration' = cancelGeneration => Overtaken' = Overtaken
BY DEF Inside, OfGeneration, Overtaken

\* One waiter enters.
LEMMA BlockKeeps ==
  ASSUME IInv, NEW t \in Threads, NEW n \in Needs, NEW b \in BOOLEAN, WaitSemaBlocks(t, n, b)
  PROVE  IInv'
<1> USE ConstantsAssumption DEF IInv
<1>1. n \in Nat
  OBVIOUS
<1>2. TypeOK'
  BY <1>1 DEF TypeOK, WaitSemaBlocks
<1>3. /\ Inside' = Inside \cup {t} /\ t \notin Inside
      /\ OfGeneration(cancelGeneration)' = OfGeneration(cancelGeneration) \cup {t}
      /\ t \notin OfGeneration(cancelGeneration)
      /\ Overtaken' = Overtaken
  BY DEF TypeOK, WaitSemaBlocks, Inside, OfGeneration, Overtaken
<1>4. WaitersAccounted'
  BY <1>3, CountMoves, CountedSets DEF WaitersAccounted, WaitSemaBlocks
<1>5. CancelReportsExact'
  BY <1>3 DEF CancelReportsExact, WaitSemaBlocks, Overtaken
<1>6. NoMissedWakeup' /\ NeverFreedInUse' /\ NoFutureGeneration' /\ OneDeleter' /\ QueuesInUse'
  BY DEF TypeOK, WaitSemaBlocks, NoMissedWakeup, NeverFreedInUse, NoFutureGeneration,
         OneDeleter, QueuesInUse, Released, Inside
<1>7. QED
  BY <1>2, <1>4, <1>5, <1>6

\* One waiter leaves: it is taken off the count its generation is in.
LEMMA ReturnKeeps ==
  ASSUME IInv, NEW t \in Threads, ResumeReturns(t)
  PROVE  IInv'
<1> USE ConstantsAssumption DEF IInv
<1>1. /\ Inside' = Inside \ {t} /\ t \in Inside
      /\ OfGeneration(cancelGeneration)' = OfGeneration(cancelGeneration) \ {t}
      /\ t \in OfGeneration(cancelGeneration) <=> generation[t] = cancelGeneration
      /\ Overtaken' = Overtaken \ {t}
      /\ t \in Overtaken <=> generation[t] # cancelGeneration
  BY DEF TypeOK, ResumeReturns, Inside, OfGeneration, Overtaken
<1>2. alive
  BY DEF NeverFreedInUse, ResumeReturns
<1>3. OfGeneration(cancelGeneration) \ {t} = OfGeneration(cancelGeneration)
        \/ generation[t] = cancelGeneration
  BY <1>1
<1>4. Overtaken \ {t} = Overtaken \/ generation[t] # cancelGeneration
  BY <1>1
<1>5. /\ waiterCount = Cardinality(Inside)
      /\ cancelableCount = Cardinality(OfGeneration(cancelGeneration))
      /\ owed = Cardinality(Overtaken)
  BY <1>2 DEF WaitersAccounted, CancelReportsExact, Overtaken
<1>6. /\ waiterCount' = Cardinality(Inside') /\ waiterCount' \in Nat
      /\ cancelableCount' = Cardinality(OfGeneration(cancelGeneration)')
      /\ cancelableCount' \in Nat
      /\ owed' = Cardinality(Overtaken') /\ owed' \in Nat
  <2>1. /\ Cardinality(Inside) \in Nat /\ Cardinality(Inside) >= 1
        /\ Cardinality(Inside \ {t}) = Cardinality(Inside) - 1
    BY <1>1, CountMoves, CountedSets
  <2>2. /\ waiterCount' = waiterCount - 1
        /\ cancelableCount' = IF cancelGeneration = generation[t] THEN cancelableCount - 1
                                                                  ELSE cancelableCount
        /\ owed' = IF generation[t] # cancelGeneration THEN owed - 1 ELSE owed
    BY DEF ResumeReturns, CancelableAfter
  <2> HIDE DEF IInv
  <2>3. waiterCount' = Cardinality(Inside') /\ waiterCount' \in Nat
    BY <1>1, <1>5, <2>1, <2>2
  <2>4. CASE generation[t] = cancelGeneration
    <3>1. /\ Cardinality(OfGeneration(cancelGeneration)) \in Nat
          /\ Cardinality(OfGeneration(cancelGeneration)) >= 1
          /\ Cardinality(OfGeneration(cancelGeneration) \ {t})
                = Cardinality(OfGeneration(cancelGeneration)) - 1
      BY <1>1, <2>4, CountMoves, CountedSets
    <3>2. cancelableCount' = Cardinality(OfGeneration(cancelGeneration)') /\ cancelableCount' \in Nat
      BY <1>1, <1>5, <2>2, <2>4, <3>1
    <3>3. Overtaken' = Overtaken /\ owed' = owed
      BY <1>1, <2>2, <2>4
    <3>4. Cardinality(Overtaken) \in Nat
      BY CountMoves, CountedSets
    <3>5. QED
      BY <1>5, <2>3, <3>2, <3>3, <3>4
  <2>5. CASE generation[t] # cancelGeneration
    <3>1. /\ Cardinality(Overtaken) \in Nat /\ Cardinality(Overtaken) >= 1
          /\ Cardinality(Overtaken \ {t}) = Cardinality(Overtaken) - 1
      BY <1>1, <2>5, CountMoves, CountedSets
    <3>2. owed' = Cardinality(Overtaken') /\ owed' \in Nat
      BY <1>1, <1>5, <2>2, <2>5, <3>1
    <3>3. OfGeneration(cancelGeneration)' = OfGeneration(cancelGeneration)
      BY <1>1, <1>3, <2>5
    <3>4. Cardinality(OfGeneration(cancelGeneration)) \in Nat
      BY CountMoves, CountedSets
    <3>5. QED
      BY <1>5, <2>2, <2>3, <2>5, <3>2, <3>3, <3>4
  <2>6. QED
    BY <2>4, <2>5
<1>7. WaitersAccounted' /\ CancelReportsExact'
  BY <1>6 DEF WaitersAccounted, CancelReportsExact, Overtaken
<1>8. tokenCount' \in 0..MaxCount
  BY DEF TypeOK, ResumeReturns, Acquires
<1>9. TypeOK'
  BY <1>6, <1>8 DEF TypeOK, ResumeReturns, NotifyAll
<1>10. NoMissedWakeup' /\ NeverFreedInUse' /\ NoFutureGeneration' /\ OneDeleter' /\ QueuesInUse'
  BY DEF TypeOK, ResumeReturns, NoMissedWakeup, NeverFreedInUse, NoFutureGeneration,
         OneDeleter, QueuesInUse, NotifyAll, Inside
<1>11. QED
  BY <1>7, <1>9, <1>10

\* A cancel moves every waiter of the current generation into the overtaken ones.
LEMMA CancelKeeps ==
  ASSUME IInv, NEW count \in -1..MaxCount, CancelSema(count)
  PROVE  IInv'
<1> USE ConstantsAssumption DEF IInv
<1>1. /\ OfGeneration(cancelGeneration)' = {}
      /\ Overtaken' = OfGeneration(cancelGeneration) \cup Overtaken
      /\ Overtaken' = Inside'
      /\ Inside' = Inside
  BY DEF TypeOK, CancelSema, locals, NoFutureGeneration, OfGeneration, Overtaken, Inside
<1>2. OfGeneration(cancelGeneration) \cap Overtaken = {}
  BY DEF OfGeneration, Overtaken
<1>3. /\ IsFiniteSet(OfGeneration(cancelGeneration)) /\ IsFiniteSet(Overtaken)
      /\ Cardinality(OfGeneration(cancelGeneration)) \in Nat
      /\ Cardinality(Overtaken) \in Nat
  BY CountedSets, FS_Subset, FS_CardinalityType
<1>4. Cardinality(Overtaken') = Cardinality(OfGeneration(cancelGeneration)) + Cardinality(Overtaken)
  BY <1>1, <1>2, <1>3, FS_Union, FS_EmptySet
<1>5. WaitersAccounted' /\ CancelReportsExact'
  <2>1. alive => /\ waiterCount = Cardinality(Inside)
                 /\ cancelableCount = Cardinality(OfGeneration(cancelGeneration))
                 /\ owed = Cardinality(Overtaken)
    BY DEF WaitersAccounted, CancelReportsExact, Overtaken
  <2>2. Cardinality(OfGeneration(cancelGeneration)') = 0
    BY <1>1, FS_EmptySet
  <2>3. waiterCount' = Cardinality(Inside')
    BY <1>1, <2>1 DEF CancelSema
  <2>4. owed' = Cardinality(Overtaken')
    BY <1>3, <1>4, <2>1 DEF CancelSema, Reported
  <2>5. cancelableCount' = 0
    BY DEF CancelSema
  <2>6. QED
    BY <2>2, <2>3, <2>4, <2>5 DEF WaitersAccounted, CancelReportsExact, Overtaken
<1>6. TypeOK'
  BY DEF TypeOK, CancelSema, locals, Reported, NotifyAll
<1>7. NoMissedWakeup' /\ NeverFreedInUse' /\ NoFutureGeneration' /\ OneDeleter' /\ QueuesInUse'
  BY DEF TypeOK, CancelSema, locals, NoMissedWakeup, NeverFreedInUse, NoFutureGeneration,
         OneDeleter, QueuesInUse, NotifyAll, Inside
<1>8. QED
  BY <1>5, <1>6, <1>7

\* The object is freed only when nobody is left inside.
LEMMA DeleteKeeps ==
  ASSUME IInv, NEW t \in Threads,
         DeleteSemaAtOnce(t) \/ DeleteSemaBlocks(t) \/ DeleteSleeps(t) \/ DeleteFrees(t)
  PROVE  IInv'
<1> USE ConstantsAssumption DEF IInv
<1>1. /\ Inside' = Inside
      /\ OfGeneration(cancelGeneration)' = OfGeneration(cancelGeneration)
      /\ Overtaken' = Overtaken
  BY DEF TypeOK, DeleteSemaAtOnce, DeleteSemaBlocks, DeleteSleeps, DeleteFrees,
         Inside, OfGeneration, Overtaken, locals, shared
<1>2. alive
  BY DEF DeleteSemaAtOnce, DeleteSemaBlocks, DeleteSleeps, DeleteFrees, OneDeleter
<1>3. WaitersAccounted' /\ CancelReportsExact'
  BY <1>1, <1>2 DEF WaitersAccounted, CancelReportsExact, Overtaken,
       DeleteSemaAtOnce, DeleteSemaBlocks, DeleteSleeps, DeleteFrees, shared
<1>4. waiterCount = 0 => Inside = {}
  BY <1>2, CountMoves, CountedSets DEF WaitersAccounted
<1>5. TypeOK'
  BY DEF TypeOK, DeleteSemaAtOnce, DeleteSemaBlocks, DeleteSleeps, DeleteFrees,
         NotifyAll, locals, shared
<1>6. NeverFreedInUse'
  BY <1>2, <1>4 DEF NeverFreedInUse, TypeOK, OneDeleter, Inside, Drained, DeleteSemaAtOnce,
       DeleteSemaBlocks, DeleteSleeps, DeleteFrees, locals, shared
<1>7. NoMissedWakeup' /\ NoFutureGeneration' /\ QueuesInUse'
  BY <1>4 DEF NoMissedWakeup, NoFutureGeneration, QueuesInUse, TypeOK, Inside, Drained,
         Released, NotifyAll, DeleteSemaAtOnce, DeleteSemaBlocks, DeleteSleeps, DeleteFrees,
         locals, shared
<1>8. OneDeleter'
  BY DEF OneDeleter, TypeOK, DeleteSemaAtOnce, DeleteSemaBlocks, DeleteSleeps, DeleteFrees,
         locals, shared
<1>9. QED
  BY <1>3, <1>5, <1>6, <1>7, <1>8

\* Steps that move only tokens and sleepers.
LEMMA TokensKeep ==
  ASSUME IInv,
         \/ \E init \in 0..MaxCount : CreateSema(init)
         \/ \E n \in Needs : PollSema(n)
         \/ \E count \in 0..MaxCount : SignalSema(count)
         \/ \E t \in Threads, n \in Needs : WaitSemaAtOnce(t, n)
         \/ \E t \in Threads : Expire(t) \/ SpuriousWake(t) \/ ResumeSleeps(t)
  PROVE  IInv'
<1> USE ConstantsAssumption DEF IInv
<1>1. CASE \E init \in 0..MaxCount : CreateSema(init)
  <2>1. Inside' = {} /\ OfGeneration(cancelGeneration)' = {} /\ Overtaken' = {}
    BY <1>1 DEF CreateSema, NeverFreedInUse, Inside, OfGeneration, Overtaken, locals
  <2>2. WaitersAccounted' /\ CancelReportsExact'
    BY <1>1, <2>1, FS_EmptySet DEF WaitersAccounted, CancelReportsExact, CreateSema, Overtaken
  <2>3. TypeOK'
    <3>1. /\ tokenCount' \in 0..MaxCount /\ initCount' \in 0..MaxCount
          /\ cancelGeneration' \in 0..MaxCancels
      BY <1>1 DEF CreateSema
    <3>2. alive' \in BOOLEAN /\ deleted' \in BOOLEAN
      BY <1>1, Zenon DEF CreateSema
    <3>3. /\ waiterCount' \in Nat /\ cancelableCount' \in Nat /\ owed' \in Nat
          /\ UNCHANGED <<sleeping, expired, locals>>
      BY <1>1 DEF CreateSema
    <3>4. QED
      BY <3>1, <3>2, <3>3, Zenon DEF TypeOK, locals
  <2>4. NoMissedWakeup' /\ NeverFreedInUse' /\ NoFutureGeneration' /\ OneDeleter' /\ QueuesInUse'
    BY <1>1 DEF TypeOK, CreateSema, NoMissedWakeup, NeverFreedInUse, NoFutureGeneration,
         OneDeleter, QueuesInUse, Inside, locals
  <2>5. QED
    BY <2>2, <2>3, <2>4
<1>2. CASE \E n \in Needs : PollSema(n)
  <2>1. TypeOK'
    BY <1>2 DEF TypeOK, PollSema, locals
  <2>2. WaitersAccounted' /\ CancelReportsExact'
    BY <1>2, SameSets DEF WaitersAccounted, CancelReportsExact, PollSema, Overtaken, locals
  <2>3. NoMissedWakeup' /\ NeverFreedInUse' /\ NoFutureGeneration' /\ OneDeleter' /\ QueuesInUse'
    BY <1>2 DEF TypeOK, PollSema, NoMissedWakeup, NeverFreedInUse, NoFutureGeneration,
         OneDeleter, QueuesInUse, Released, Inside, locals
  <2>4. QED
    BY <2>1, <2>2, <2>3
<1>3. CASE \E count \in 0..MaxCount : SignalSema(count)
  <2>1. TypeOK'
    BY <1>3 DEF TypeOK, SignalSema, SignalFits, NotifyAll, locals
  <2>2. WaitersAccounted' /\ CancelReportsExact'
    BY <1>3, SameSets DEF WaitersAccounted, CancelReportsExact, SignalSema, Overtaken, locals
  <2>3. NoMissedWakeup' /\ NeverFreedInUse' /\ NoFutureGeneration' /\ OneDeleter' /\ QueuesInUse'
    BY <1>3 DEF TypeOK, SignalSema, NoMissedWakeup, NeverFreedInUse, NoFutureGeneration,
         OneDeleter, QueuesInUse, NotifyAll, Inside, locals
  <2>4. QED
    BY <2>1, <2>2, <2>3
<1>4. CASE \E t \in Threads, n \in Needs : WaitSemaAtOnce(t, n)
  <2>1. TypeOK'
    BY <1>4 DEF TypeOK, WaitSemaAtOnce, Acquires, NotifyAll, locals
  <2>2. WaitersAccounted' /\ CancelReportsExact'
    BY <1>4, SameSets DEF WaitersAccounted, CancelReportsExact, WaitSemaAtOnce, Overtaken, locals
  <2>3. NoMissedWakeup' /\ NeverFreedInUse' /\ NoFutureGeneration' /\ OneDeleter' /\ QueuesInUse'
    BY <1>4 DEF TypeOK, WaitSemaAtOnce, NoMissedWakeup, NeverFreedInUse, NoFutureGeneration,
         OneDeleter, QueuesInUse, NotifyAll, Inside, locals
  <2>4. QED
    BY <2>1, <2>2, <2>3
<1>5. CASE \E t \in Threads : Expire(t) \/ SpuriousWake(t) \/ ResumeSleeps(t)
  <2>1. TypeOK'
    BY <1>5 DEF TypeOK, Expire, SpuriousWake, ResumeSleeps, locals, shared
  <2>2. UNCHANGED <<alive, waiterCount, cancelableCount, cancelGeneration, pc, generation, owed>>
    BY <1>5 DEF Expire, SpuriousWake, ResumeSleeps, locals, shared
  <2> WaitersAccounted' /\ CancelReportsExact'
    BY <2>2, SameSets DEF WaitersAccounted, CancelReportsExact, Overtaken
  <2>3. NoMissedWakeup' /\ NeverFreedInUse' /\ NoFutureGeneration' /\ OneDeleter' /\ QueuesInUse'
    BY <1>5 DEF TypeOK, Expire, SpuriousWake, ResumeSleeps, NoMissedWakeup, NeverFreedInUse,
         NoFutureGeneration, OneDeleter, QueuesInUse, Released, Inside, locals, shared
  <2>4. QED
    BY <2>1, <2>2, <2>3
<1>6. QED
  BY <1>1, <1>2, <1>3, <1>4, <1>5

-----------------------------------------------------------------------------
\* IInv is an invariant: the facts about counts, sleepers and the object's lifetime
\* support each other through every entry point of Semaphore.cpp.
THEOREM InvariantHolds == Spec => []IInv
<1>1. IInv /\ [Next]_vars => IInv'
  <2> SUFFICES ASSUME IInv, [Next]_vars PROVE IInv'
    OBVIOUS
  <2>1. CASE UNCHANGED vars
    BY <2>1 DEF vars, shared, locals, IInv, TypeOK, WaitersAccounted, CancelReportsExact,
         NoMissedWakeup, NeverFreedInUse, NoFutureGeneration, OneDeleter, QueuesInUse,
         Inside, OfGeneration, Released
  <2>2. CASE Calls
    BY <2>2, BlockKeeps, CancelKeeps, DeleteKeeps, TokensKeep DEF Calls
  <2>3. CASE \E t \in Threads : Progress(t) \/ Expire(t) \/ SpuriousWake(t)
    BY <2>3, ReturnKeeps, DeleteKeeps, TokensKeep DEF Progress
  <2>4. QED
    BY <2>1, <2>2, <2>3 DEF Next
<1>2. QED
  BY <1>1, InitHolds, PTL DEF Spec

\* The variables keep their types; in particular the token count stays inside
\* 0..maxCount through signals, polls, waits and cancels.
THEOREM TypeCorrect == Spec => []TypeOK
BY InvariantHolds, PTL DEF IInv

\* waiterCount and cancelableCount are exact for every number of threads.
THEOREM WaitersAccountedHolds == Spec => []WaitersAccounted
BY InvariantHolds, PTL DEF IInv

\* Cancel never reports a waiter twice and never misses one.
THEOREM CancelReportsHold == Spec => []CancelReportsExact
BY InvariantHolds, PTL DEF IInv

\* No thread sleeps in the condition with its predicate true.
THEOREM NoMissedWakeupHolds == Spec => []NoMissedWakeup
BY InvariantHolds, PTL DEF IInv

\* sceKernelDeleteSema frees the semaphore only when no call is left inside it.
THEOREM NeverFreedInUseHolds == Spec => []NeverFreedInUse
BY InvariantHolds, PTL DEF IInv
=============================================================================
