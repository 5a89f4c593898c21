------------------------------ MODULE EventProofs ------------------------------
(***************************************************************************)
(* Three components, proved about side by side: the event flags of the     *)
(* guest kernel, the queues of the GPU driver and the event queues of the  *)
(* guest kernel.  They share no name; each part is about the specification *)
(* of its component.                                                       *)
(***************************************************************************)
EXTENDS KernelEventFlag, SubmissionQueues, Equeue, QueueLemmas, WellFoundedInduction, TLAPS

-----------------------------------------------------------------------------
(***************************************************************************)
(* For every set of threads and bits: the waiters of KernelEventFlag are   *)
(* counted exactly, the last of them frees a deleted flag, none misses its *)
(* wake-up and a bit is taken once for each time it is set.  The count is  *)
(* exact also of a flag that is gone (Counted), which is what makes it     *)
(* safe to free the flag when the count comes to zero.                     *)
(***************************************************************************)

\* Everything TypeOK says but the bound of the count, which follows from Counted.
Typing ==
  /\ alive \in BOOLEAN /\ deleted \in BOOLEAN /\ multipleWaiters \in BOOLEAN
  /\ pattern \subseteq Bits
  /\ cancelGeneration \in 0..MaxCancels
  /\ sleeping \subseteq waiting /\ expired \subseteq waiting \ sleeping
  /\ waiting \subseteq Threads
  /\ request \in [Threads -> Requests]
  /\ timed \in [Threads -> BOOLEAN]
  /\ generation \in [Threads -> 0..MaxCancels]
  /\ taken \in [Bits -> Nat]

\* The count is exact, of a flag that is gone as well.
Counted == waiters = Cardinality(waiting)
OneUnlessMultiple == multipleWaiters \/ waiters <= 1

IInv ==
  /\ Typing
  /\ Counted /\ OneUnlessMultiple
  /\ FreedByTheLast
  /\ NoMissedWakeup
  /\ TakenOnce

-----------------------------------------------------------------------------
\* Only sets of finitely many threads are counted.
LEMMA WaitersFinite ==
  ASSUME IInv
  PROVE  /\ IsFiniteSet(waiting)
         /\ waiters \in Nat
         /\ waiters = 0 <=> waiting = {}
BY ConstantsAssumption, FS_Subset, FS_CardinalityType, FS_EmptySet DEF IInv, Typing, Counted

\* Taking the bits of a request: those counted were in the pattern, so they had not been
\* taken since they were set, and they are gone from it.
LEMMA ConsumeKeeps ==
  ASSUME IInv, NEW r \in Requests, Consume(r)
  PROVE  /\ pattern' \subseteq Bits
         /\ taken' \in [Bits -> Nat]
         /\ TakenOnce'
         /\ pattern' \subseteq pattern
<1>1. r.clear \in {"none", "pattern", "all"}
  BY ConstantsAssumption DEF WaitModes
<1>2. pattern' \subseteq pattern
  BY DEF Consume, Left
<1>3. pattern' \subseteq Bits
  BY <1>2 DEF IInv, Typing
<1>4. taken' \in [Bits -> Nat]
  BY DEF Consume, IInv, Typing
<1>5. ASSUME NEW b \in Bits PROVE taken'[b] <= 1 /\ (taken'[b] = 1 => b \notin pattern')
  <2>1. taken[b] \in Nat /\ taken[b] <= 1 /\ (taken[b] = 1 => b \notin pattern)
    BY DEF IInv, Typing, TakenOnce
  <2>2. CASE r.clear # "none" /\ b \in pattern /\ (r.clear = "all" \/ b \in r.bits)
    <3>1. taken[b] = 0
      BY <2>1, <2>2
    <3>2. taken'[b] = 1
      BY <2>2, <3>1 DEF Consume
    <3>3. b \notin pattern'
      BY <1>1, <2>2 DEF Consume, Left
    <3>4. QED
      BY <3>2, <3>3
  <2>3. CASE ~(r.clear # "none" /\ b \in pattern /\ (r.clear = "all" \/ b \in r.bits))
    <3>1. taken'[b] = taken[b]
      BY <2>3 DEF Consume
    <3>2. QED
      BY <1>2, <2>1, <3>1
  <2>4. QED
    BY <2>2, <2>3
<1>6. QED
  BY <1>2, <1>3, <1>4, <1>5 DEF TakenOnce

\* Setting bits starts their history anew.
LEMMA RenewKeeps ==
  ASSUME IInv, NEW bits \in SUBSET Bits, Renewed(bits), pattern' \subseteq pattern \cup bits
  PROVE  taken' \in [Bits -> Nat] /\ TakenOnce'
<1>1. taken' \in [Bits -> Nat]
  BY DEF Renewed, IInv, Typing
<1>2. ASSUME NEW b \in Bits PROVE taken'[b] <= 1 /\ (taken'[b] = 1 => b \notin pattern')
  BY DEF Renewed, IInv, Typing, TakenOnce
<1>3. QED
  BY <1>1, <1>2 DEF TakenOnce

-----------------------------------------------------------------------------
\* The guest's calls that do not wait.
LEMMA CallKeeps ==
  ASSUME IInv, NEW bits \in SUBSET Bits, NEW multi \in BOOLEAN,
         \/ CreateEventFlag(bits, multi) \/ SetEventFlag(bits)
         \/ ClearEventFlag(bits) \/ CancelEventFlag(bits) \/ DeleteEventFlag
  PROVE  IInv'
<1> USE ConstantsAssumption
<1>1. CASE CreateEventFlag(bits, multi)
  <2>1. waiting = {}
    BY <1>1 DEF CreateEventFlag, IInv, FreedByTheLast
  <2>2. Typing'
    <3>1. multipleWaiters' \in BOOLEAN /\ alive' \in BOOLEAN /\ deleted' \in BOOLEAN
      BY <1>1, Zenon DEF CreateEventFlag
    <3>2. QED
      BY <1>1, <3>1 DEF CreateEventFlag, locals, IInv, Typing
  <2>3. Counted' /\ OneUnlessMultiple'
    BY <1>1, <2>1, FS_EmptySet DEF CreateEventFlag, locals, Counted, OneUnlessMultiple
  <2>4. FreedByTheLast' /\ NoMissedWakeup' /\ TakenOnce'
    BY <1>1, <2>1 DEF CreateEventFlag, locals, IInv, Typing, FreedByTheLast, NoMissedWakeup,
         TakenOnce
  <2>5. QED
    BY <2>2, <2>3, <2>4 DEF IInv
<1>2. CASE SetEventFlag(bits)
  <2>1. taken' \in [Bits -> Nat] /\ TakenOnce'
    BY <1>2, RenewKeeps DEF SetEventFlag
  <2>2. QED
    BY <1>2, <2>1 DEF SetEventFlag, NotifyAll, locals, IInv, Typing, Counted, OneUnlessMultiple,
         FreedByTheLast, NoMissedWakeup
<1>3. CASE ClearEventFlag(bits)
  BY <1>3 DEF ClearEventFlag, locals, IInv, Typing, Counted, OneUnlessMultiple, FreedByTheLast,
       NoMissedWakeup, Released, IsSatisfied, TakenOnce
<1>4. CASE CancelEventFlag(bits)
  <2>1. taken' \in [Bits -> Nat] /\ TakenOnce'
    BY <1>4, RenewKeeps DEF CancelEventFlag
  <2>2. QED
    BY <1>4, <2>1 DEF CancelEventFlag, NotifyAll, locals, IInv, Typing, Counted,
         OneUnlessMultiple, FreedByTheLast, NoMissedWakeup
<1>5. CASE DeleteEventFlag
  <2>1. waiters = 0 <=> waiting = {}
    BY WaitersFinite
  <2>2. QED
    BY <1>5, <2>1 DEF DeleteEventFlag, NotifyAll, locals, IInv, Typing, Counted,
         OneUnlessMultiple, FreedByTheLast, NoMissedWakeup, TakenOnce
<1>6. QED
  BY <1>1, <1>2, <1>3, <1>4, <1>5

\* A poll, or a wait that does not sleep: taking bits satisfies nobody else.
LEMMA TakeKeeps ==
  ASSUME IInv, NEW r \in Requests, TakeAtOnce(r)
  PROVE  IInv'
<1>1. /\ pattern' \subseteq Bits /\ taken' \in [Bits -> Nat] /\ TakenOnce' /\ pattern' \subseteq pattern
  BY ConsumeKeeps DEF TakeAtOnce
<1>2. NoMissedWakeup'
  BY <1>1 DEF TakeAtOnce, locals, IInv, NoMissedWakeup, Released, IsSatisfied
<1>3. QED
  BY <1>1, <1>2 DEF TakeAtOnce, locals, IInv, Typing, Counted, OneUnlessMultiple, FreedByTheLast

\* A waiter joins.
LEMMA BlockKeeps ==
  ASSUME IInv, NEW t \in Threads, NEW r \in Requests, NEW b \in BOOLEAN, WaitBlocks(t, r, b)
  PROVE  IInv'
<1>1. Typing'
  BY DEF WaitBlocks, IInv, Typing
<1>2. Counted' /\ OneUnlessMultiple'
  <2>1. Cardinality(waiting \cup {t}) = Cardinality(waiting) + 1
    BY WaitersFinite, FS_AddElement DEF WaitBlocks
  <2>2. QED
    BY <2>1, WaitersFinite DEF WaitBlocks, Admits, IInv, Counted, OneUnlessMultiple
<1>3. FreedByTheLast' /\ NoMissedWakeup' /\ TakenOnce'
  BY DEF WaitBlocks, IInv, Typing, FreedByTheLast, NoMissedWakeup, Released, IsSatisfied,
       TakenOnce
<1>4. QED
  BY <1>1, <1>2, <1>3 DEF IInv

\* A waiter wakes, or sleeps again.
LEMMA SleepKeeps ==
  ASSUME IInv, NEW t \in Threads, Expire(t) \/ SpuriousWake(t) \/ ResumeSleeps(t)
  PROVE  IInv'
<1>1. UNCHANGED <<shared, locals, taken>>
  BY DEF Expire, SpuriousWake, ResumeSleeps
<1>2. Typing'
  BY <1>1 DEF Expire, SpuriousWake, ResumeSleeps, Awake, shared, locals, IInv, Typing
<1>3. NoMissedWakeup'
  BY <1>1 DEF Expire, SpuriousWake, ResumeSleeps, shared, locals, IInv, NoMissedWakeup,
       Released, IsSatisfied
<1>4. QED
  BY <1>1, <1>2, <1>3 DEF shared, locals, IInv, Counted, OneUnlessMultiple, FreedByTheLast,
       TakenOnce

\* A waiter returns: it is uncounted, and the flag goes if it was deleted and that was all.
LEMMA ReturnKeeps ==
  ASSUME IInv, NEW t \in Threads, ReturnDeleted(t) \/ ReturnEmptyHanded(t) \/ ReturnSatisfied(t)
  PROVE  IInv'
<1> USE ConstantsAssumption
<1>1. Leaves(t) /\ t \in waiting /\ t \notin sleeping
  BY DEF ReturnDeleted, ReturnEmptyHanded, ReturnSatisfied, Returns, Awake
<1>2. /\ pattern' \subseteq Bits /\ taken' \in [Bits -> Nat] /\ TakenOnce' /\ pattern' \subseteq pattern
  <2>1. CASE UNCHANGED <<pattern, taken>>
    BY <2>1 DEF IInv, Typing, TakenOnce
  <2>2. CASE ReturnSatisfied(t)
    <3>1. request[t] \in Requests /\ Consume(request[t])
      BY <2>2 DEF ReturnSatisfied, IInv, Typing
    <3>2. QED
      BY <3>1, ConsumeKeeps
  <2>3. QED
    BY <2>1, <2>2 DEF ReturnDeleted, ReturnEmptyHanded
<1>3. Typing'
  <2>1. alive' \in BOOLEAN
    BY Zenon DEF ReturnDeleted, ReturnEmptyHanded, ReturnSatisfied, IInv, Typing
  <2>2. QED
    BY <1>1, <1>2, <2>1 DEF Leaves, NoLongerLate, IInv, Typing
<1>4. Counted' /\ OneUnlessMultiple' /\ waiters' \in Nat /\ (waiters' = 0 <=> waiting' = {})
  <2>1. Cardinality(waiting \ {t}) = Cardinality(waiting) - 1 /\ IsFiniteSet(waiting \ {t})
    BY <1>1, WaitersFinite, FS_RemoveElement
  <2>2. Cardinality(waiting \ {t}) \in Nat /\ (Cardinality(waiting \ {t}) = 0 <=> waiting \ {t} = {})
    BY <2>1, FS_CardinalityType, FS_EmptySet
  <2>3. QED
    BY <1>1, <2>1, <2>2, WaitersFinite DEF Leaves, Uncounted, IInv, Counted, OneUnlessMultiple
<1>5. FreedByTheLast'
  <2>1. alive
    BY <1>1 DEF IInv, FreedByTheLast
  <2>2. CASE ReturnDeleted(t)
    BY <1>1, <1>4, <2>1, <2>2 DEF ReturnDeleted, LastFrees, Leaves, FreedByTheLast
  <2>3. CASE ReturnEmptyHanded(t) \/ ReturnSatisfied(t)
    BY <1>1, <2>1, <2>3 DEF ReturnEmptyHanded, ReturnSatisfied, Leaves, FreedByTheLast
  <2>4. QED
    BY <2>2, <2>3
<1>6. NoMissedWakeup'
  BY <1>1, <1>2 DEF Leaves, IInv, Typing, NoMissedWakeup, Released, IsSatisfied
<1>7. QED
  BY <1>2, <1>3, <1>4, <1>5, <1>6 DEF IInv

-----------------------------------------------------------------------------
\* Before the first flag is created nobody waits.
LEMMA InitHolds == Init => IInv
<1> SUFFICES ASSUME Init PROVE IInv
  OBVIOUS
<1>1. alive \in BOOLEAN /\ deleted \in BOOLEAN /\ multipleWaiters \in BOOLEAN /\ timed \in [Threads -> BOOLEAN]
  BY Zenon DEF Init
<1>2. Typing
  BY <1>1, ConstantsAssumption DEF Init, Typing
<1>3. QED
  BY <1>2, FS_EmptySet DEF Init, IInv, Counted, OneUnlessMultiple, FreedByTheLast,
       NoMissedWakeup, TakenOnce

\* IInv is an invariant of every entry point of EventFlag.cpp.
THEOREM InvariantHolds == Spec => []IInv
<1>1. IInv /\ [Next]_vars => IInv'
  <2> SUFFICES ASSUME IInv, [Next]_vars PROVE IInv'
    OBVIOUS
  <2>1. CASE UNCHANGED vars
    BY <2>1 DEF vars, shared, locals, IInv, Typing, Counted, OneUnlessMultiple, FreedByTheLast,
         NoMissedWakeup, Released, IsSatisfied, TakenOnce
  <2>2. ASSUME NEW bits \in Patterns, NEW multi \in BOOLEAN,
               \/ CreateEventFlag(bits, multi) \/ SetEventFlag(bits)
               \/ ClearEventFlag(bits) \/ CancelEventFlag(bits) \/ DeleteEventFlag
        PROVE  IInv'
    BY <2>2, CallKeeps, ConstantsAssumption
  <2>3. CASE DeleteEventFlag
    BY <2>3, CallKeeps
  <2>4. CASE \E r \in Requests : TakeAtOnce(r)
    BY <2>4, TakeKeeps
  <2>5. ASSUME NEW t \in Threads,
               \/ \E r \in Requests, b \in BOOLEAN : WaitBlocks(t, r, b)
               \/ Expire(t) \/ SpuriousWake(t) \/ Resume(t)
        PROVE  IInv'
    BY <2>5, BlockKeeps, SleepKeeps, ReturnKeeps DEF Resume
  <2>6. QED
    BY <2>1, <2>2, <2>3, <2>4, <2>5 DEF Next
<1>2. QED
  BY <1>1, InitHolds, PTL DEF Spec

\* The variables keep their types; the count stays inside 0..Cardinality(Threads).
THEOREM TypeCorrect == Spec => []TypeOK
<1>1. IInv => TypeOK
  <2> SUFFICES ASSUME IInv PROVE TypeOK
    OBVIOUS
  <2>1. waiters \in 0..Cardinality(Threads)
    BY WaitersFinite, ConstantsAssumption, FS_Subset, FS_CardinalityType DEF IInv, Typing, Counted
  <2>2. QED
    BY <2>1 DEF IInv, Typing, TypeOK
<1>2. QED
  BY <1>1, InvariantHolds, PTL

\* _waiters is exact, and a single-waiter flag never has two.
THEOREM WaitersCountedHolds == Spec => []WaitersCounted
<1>1. IInv => WaitersCounted
  BY DEF IInv, Counted, OneUnlessMultiple, WaitersCounted
<1>2. QED
  BY <1>1, InvariantHolds, PTL

\* A flag deleted under waiters is freed by the last of them, never earlier and not later.
THEOREM FreedByTheLastHolds == Spec => []FreedByTheLast
<1>1. IInv => FreedByTheLast
  BY DEF IInv
<1>2. QED
  BY <1>1, InvariantHolds, PTL

\* No waiter sleeps on with its predicate true.
THEOREM NoMissedWakeupHolds == Spec => []NoMissedWakeup
<1>1. IInv => NoMissedWakeup
  BY DEF IInv
<1>2. QED
  BY <1>1, InvariantHolds, PTL

\* A bit that was set once is taken once, whatever polls and waits race for it.
THEOREM TakenOnceHolds == Spec => []TakenOnce
<1>1. IInv => TakenOnce
  BY DEF IInv
<1>2. QED
  BY <1>1, InvariantHolds, PTL

-----------------------------------------------------------------------------
(***************************************************************************)
(* For every set of guests, queues and labels and for every program: what  *)
(* WaitIdle compares with covers finished work only, and a submission that *)
(* waits for nothing starts after all that queue 0 received before it.     *)
(* The second rests on Placed: until a failure or a stop, a submission of  *)
(* queue 0 is pending, at the worker, listed as uncommitted or finished,   *)
(* and on the order of serials across these places, by which the test of   *)
(* three first members in queue0Before speaks for all of them.             *)
(***************************************************************************)

\* Holding a submission that has not come to its end.
Before == {"held", "running", "blocked", "working"}

pending0 == pending[Queue0]

\* What is marked has been done.
Marked ==
  /\ CompletedMeansFinished
  /\ completedOutOfOrder \subseteq finished
  /\ \A q \in Queues : wpc[q] = "executed" => current[q].serial \in finished

\* Serials grow along queue 0: uncommitted, at the worker, pending.
Increasing ==
  /\ \A i, j \in DOMAIN pending0 : i < j => pending0[i].serial < pending0[j].serial
  /\ \A i, j \in DOMAIN queue0Uncommitted :
       i < j => queue0Uncommitted[i] < queue0Uncommitted[j]

Across ==
  /\ \A i \in DOMAIN pending0 :
       /\ current[Queue0].serial < pending0[i].serial
       /\ \A k \in DOMAIN queue0Uncommitted : queue0Uncommitted[k] < pending0[i].serial
  /\ wpc[Queue0] \in Before =>
       \A k \in DOMAIN queue0Uncommitted : queue0Uncommitted[k] < current[Queue0].serial

Accepted ==
  /\ \A i \in DOMAIN pending0 : pending0[i].serial <= accepted
  /\ \A k \in DOMAIN queue0Uncommitted : queue0Uncommitted[k] <= accepted
  /\ current[Queue0].serial <= accepted

DrawnAccepted == \A n \in drawn : n <= accepted

Uncommitted(n) == \E k \in DOMAIN queue0Uncommitted : queue0Uncommitted[k] = n
Pending(n) == \E i \in DOMAIN pending0 : pending0[i].serial = n /\ ~pending0[i].suspend

\* Handed to the pipeline, the worker's submission is listed; without one the
\* worker holds the empty submission.
Listed ==
  /\ wpc[Queue0] \in {"handing", "handedOver"} =>
       Uncommitted(current[Queue0].serial) \/ current[Queue0].serial \in finished
  /\ wpc[Queue0] \in {"none", "looking", "leaving"} => current[Queue0].suspend

Placed ==
  Over \/ \A n \in drawn :
    \/ n \in finished \/ Uncommitted(n) \/ Pending(n)
    \/ n = current[Queue0].serial /\ ~current[Queue0].suspend

Order == Increasing /\ Across /\ Accepted /\ DrawnAccepted /\ Listed /\ Placed
DriverInv == DriverTypeOK /\ Marked /\ Order

--------------------------------------------------------------------------------
(* Types *)

LEMMA Constants == /\ Queue0 \in Queues /\ NoLabel \notin Labels
                   /\ NoSubmission \in Submissions
BY DriverAssumption DEF NoSubmission, Submissions

LEMMA Renumbered ==
  ASSUME NEW s \in Submissions, NEW n \in Nat
  PROVE  [s EXCEPT !.serial = n] \in Submissions
BY DEF Submissions

LEMMA FlipShown ==
  ASSUME NEW s \in Submissions
  PROVE  /\ [s EXCEPT !.flip = FALSE] \in Submissions
         /\ [s EXCEPT !.flip = FALSE].serial = s.serial
         /\ [s EXCEPT !.flip = FALSE].suspend = s.suspend
BY DEF Submissions

LEMMA PopTyped ==
  ASSUME NEW S, NEW s \in Seq(S), s # <<>>
  PROVE  /\ Head(s) \in S /\ Head(s) = s[1] /\ Tail(s) \in Seq(S)
         /\ DOMAIN s = 1..Len(s) /\ Len(s) \in Nat /\ Len(s) >= 1
         /\ DOMAIN Tail(s) = 1..(Len(s) - 1)
         /\ \A i \in DOMAIN Tail(s) : i + 1 \in DOMAIN s /\ Tail(s)[i] = s[i + 1]
<1>1. Len(s) \in Nat /\ Len(s) >= 1 /\ DOMAIN s = 1..Len(s) /\ Head(s) = s[1]
  OBVIOUS
<1>2. /\ Head(s) \in S /\ Tail(s) \in Seq(S) /\ Len(Tail(s)) = Len(s) - 1
      /\ \A i \in 1..Len(Tail(s)) : Tail(s)[i] = s[i + 1]
  BY HeadTailProperties
<1>3. DOMAIN Tail(s) = 1..(Len(s) - 1)
  BY <1>2
<1>4. QED
  BY <1>1, <1>2, <1>3

LEMMA AppendTyped ==
  ASSUME NEW S, NEW s \in Seq(S), NEW x \in S
  PROVE  /\ Append(s, x) \in Seq(S)
         /\ DOMAIN s = 1..Len(s) /\ Len(s) \in Nat
         /\ DOMAIN Append(s, x) = 1..(Len(s) + 1)
         /\ \A i \in DOMAIN s : Append(s, x)[i] = s[i]
         /\ Append(s, x)[Len(s) + 1] = x
BY AppendProperties

LEMMA CallTyped ==
  ASSUME DriverTypeOK, NEW g \in Guests, todo[g] # <<>>
  PROVE  /\ Head(todo[g]) \in Calls
         /\ [todo EXCEPT ![g] = Tail(@)] \in [Guests -> Seq(Calls)]
<1>1. todo[g] \in Seq(Calls) /\ todo \in [Guests -> Seq(Calls)]
  BY DEF DriverTypeOK
<1>2. Head(todo[g]) \in Calls /\ Tail(todo[g]) \in Seq(Calls)
  BY <1>1, PopTyped
<1>3. QED
  BY <1>1, <1>2

LEMMA ReturnTyped ==
  ASSUME DriverTypeOK, NEW g \in Guests, todo[g] # <<>>, Return(g)
  PROVE  /\ todo' \in [Guests -> Seq(Calls)]
         /\ gpc' \in [Guests -> {"ready", "flipHeld", "submitting", "idle", "joining"}]
BY CallTyped DEF Return, DriverTypeOK

LEMMA InitTyped == DriverInit => DriverTypeOK
<1> SUFFICES ASSUME DriverInit PROVE DriverTypeOK
  OBVIOUS
<1>1. todo \in [Guests -> Seq(Calls)]
  BY DriverAssumption DEF DriverInit
<1>2. <<>> \in Seq(Submissions) /\ <<>> \in Seq(Nat)
  OBVIOUS
<1>3. /\ pending \in [Queues -> Seq(Submissions)] /\ current \in [Queues -> Submissions]
      /\ queue0Uncommitted \in Seq(Nat) /\ items \in Seq(Submissions)
  BY <1>2, Constants DEF DriverInit
<1>4. /\ gpc \in [Guests -> {"ready", "flipHeld", "submitting", "idle", "joining"}]
      /\ target \in [Guests -> Nat]
      /\ wpc \in [Queues -> Executing \cup {"none", "looking", "held", "leaving", "failing", "ended"}]
  BY DEF DriverInit
<1>5. /\ accepted \in Nat /\ completed \in Nat /\ completedOutOfOrder \subseteq Nat
      /\ flipsAhead \in Int
  BY DEF DriverInit
<1>6. /\ committing \in {"waiting", "reporting", "popping"} /\ committerStopped \in BOOLEAN
      /\ asleep \subseteq Guests \cup Queues
      /\ queue0AwaitsTitle \in BOOLEAN /\ failure \in BOOLEAN /\ stopping \in BOOLEAN
      /\ memory \subseteq Labels /\ finished \subseteq Nat /\ drawn \subseteq Nat
  BY DEF DriverInit
<1>7. QED
  BY <1>1, <1>3, <1>4, <1>5, <1>6 DEF DriverTypeOK

\* The sequences a worker and the committer touch.
LEMMA EnqueueTyped ==
  ASSUME DriverTypeOK, NEW s \in Submissions, enqueue(s)
  PROVE  /\ pending' \in [Queues -> Seq(Submissions)]
         /\ wpc' \in [Queues -> Executing \cup {"none", "looking", "held", "leaving", "failing", "ended"}]
         /\ accepted' \in Nat /\ asleep' \subseteq Guests \cup Queues
<1>1. s.queue \in Queues /\ s.serial \in Nat
  BY DEF Submissions
<1>2. Append(pending[s.queue], s) \in Seq(Submissions)
  BY <1>1 DEF DriverTypeOK
<1>3. pending' = [pending EXCEPT ![s.queue] = Append(pending[s.queue], s)]
  BY DEF enqueue
<1>4. pending' \in [Queues -> Seq(Submissions)]
  BY <1>1, <1>2, <1>3 DEF DriverTypeOK
<1>5. QED
  BY <1>1, <1>4 DEF enqueue, NotifyChanged, DriverTypeOK

LEMMA MarkTyped ==
  ASSUME DriverTypeOK, NEW n \in Nat, markCompleted(n)
  PROVE  completed' \in Nat /\ completedOutOfOrder' \subseteq Nat
BY DEF DriverTypeOK, markCompleted

LEMMA GuestTyped ==
  ASSUME DriverTypeOK, NEW g \in Guests, Guest(g)
  PROVE  DriverTypeOK'
<1>1. CASE HoldFlip(g)
  BY <1>1 DEF DriverTypeOK, HoldFlip, workerVars, countVars, pipeVars, flipVars, endVars
<1>2. CASE Submit(g)
  <2> DEFINE call == Head(todo[g])
             s == [serial |-> accepted + 1, queue |-> call.queue, suspend |-> FALSE,
                   waits |-> call.waits, writes |-> call.writes, flip |-> holdsFlip(call)]
  <2>1. todo[g] # <<>> /\ call \in Calls /\ enqueue(s) /\ Return(g)
    BY <1>2, CallTyped DEF Submit, Call
  <2>2. s \in Submissions
    <3>1. accepted + 1 \in Nat /\ holdsFlip(call) \in BOOLEAN
      BY <2>1 DEF DriverTypeOK, holdsFlip, Calls
    <3>2. call.queue \in Queues /\ call.waits \in Labels \cup {NoLabel} /\ call.writes \in SUBSET Labels
      BY <2>1 DEF Calls
    <3> HIDE DEF call
    <3>3. QED
      BY <3>1, <3>2 DEF Submissions
  <2> HIDE DEF s
  <2>3. /\ pending' \in [Queues -> Seq(Submissions)] /\ accepted' \in Nat
        /\ wpc' \in [Queues -> Executing \cup {"none", "looking", "held", "leaving", "failing", "ended"}]
        /\ asleep' \subseteq Guests \cup Queues
    BY <2>1, <2>2, EnqueueTyped
  <2>4. flipsAhead' \in Int /\ drawn' \subseteq Nat
    BY <1>2 DEF Submit, DriverTypeOK
  <2>5. QED
    BY <1>2, <2>1, <2>3, <2>4, ReturnTyped DEF Submit, DriverTypeOK, countVars, pipeVars, endVars
<1>3. CASE SuspendPoint(g)
  <2> DEFINE s == [NoSubmission EXCEPT !.serial = accepted + 1]
  <2>1. todo[g] # <<>> /\ enqueue(s) /\ Return(g)
    BY <1>3 DEF SuspendPoint, Call
  <2>2. s \in Submissions
    <3>1. accepted + 1 \in Nat
      BY DEF DriverTypeOK
    <3>2. QED
      BY <3>1, Constants, Renumbered
  <2> HIDE DEF s
  <2>3. /\ pending' \in [Queues -> Seq(Submissions)] /\ accepted' \in Nat
        /\ wpc' \in [Queues -> Executing \cup {"none", "looking", "held", "leaving", "failing", "ended"}]
        /\ asleep' \subseteq Guests \cup Queues
    BY <2>1, <2>2, EnqueueTyped
  <2>4. QED
    BY <1>3, <2>1, <2>3, ReturnTyped DEF SuspendPoint, DriverTypeOK, countVars, pipeVars,
         flipVars, endVars
<1>4. CASE Refuse(g) \/ Joined(g) \/ Store(g)
  <2>1. todo[g] # <<>> /\ Return(g)
    <3>1. CASE Joined(g)
      BY <3>1 DEF Joined, Call
    <3>2. QED
      BY <1>4, <3>1 DEF Refuse, Store, Call
  <2>2. memory' \subseteq Labels
    BY <1>4, CallTyped DEF Refuse, Joined, Store, Call, Calls, DriverTypeOK
  <2>3. QED
    BY <1>4, <2>1, <2>2, ReturnTyped DEF Refuse, Joined, Store, DriverTypeOK, workerVars,
         countVars, pipeVars, flipVars, endVars
<1>5. CASE WaitIdle(g)
  <2>1. todo[g] # <<>>
    BY <1>5 DEF WaitIdle, Call
  <2>2. target' \in [Guests -> Nat] /\ asleep' \subseteq Guests \cup Queues
    BY <1>5 DEF WaitIdle, DriverTypeOK
  <2>3. /\ todo' \in [Guests -> Seq(Calls)]
        /\ gpc' \in [Guests -> {"ready", "flipHeld", "submitting", "idle", "joining"}]
    <3>1. CASE Return(g)
      BY <2>1, <3>1, ReturnTyped
    <3>2. CASE ~Return(g)
      BY <1>5, <3>2 DEF WaitIdle, DriverTypeOK
    <3>3. QED
      BY <3>1, <3>2
  <2>4. QED
    BY <1>5, <2>2, <2>3 DEF WaitIdle, DriverTypeOK, workerVars, countVars, pipeVars, flipVars,
         endVars
<1>6. CASE Stop(g)
  <2>1. [q \in Queues |-> <<>>] \in [Queues -> Seq(Submissions)]
    OBVIOUS
  <2>2. QED
    BY <1>6, <2>1 DEF Stop, NotifyChanged, DriverTypeOK, workerVars, countVars, pipeVars, flipVars
<1>7. QED
  BY <1>1, <1>2, <1>3, <1>4, <1>5, <1>6 DEF Guest

LEMMA WorkerTyped ==
  ASSUME DriverTypeOK, NEW q \in Queues, Works(q) \/ Fail(q)
  PROVE  DriverTypeOK'
<1>1. CASE Sleep(q) \/ Release(q) \/ PassWait(q) \/ Block(q) \/ Unblock(q) \/ Leave(q) \/ End(q)
  BY <1>1 DEF DriverTypeOK, Sleep, Looking, Release, PassWait, Block, Unblock, Leave, End, At,
       NotifyIf, NotifyIfLast, Executing, guestVars, workerVars, countVars, pipeVars, flipVars,
       endVars
<1>2. CASE Take(q)
  <2>1. pending[q] \in Seq(Submissions) /\ pending[q] # <<>>
    BY <1>2 DEF Take, DriverTypeOK
  <2>2. Head(pending[q]) \in Submissions /\ Tail(pending[q]) \in Seq(Submissions)
    BY <2>1, PopTyped
  <2>3. /\ pending' \in [Queues -> Seq(Submissions)] /\ current' \in [Queues -> Submissions]
        /\ wpc' \in [Queues -> Executing \cup {"none", "looking", "held", "leaving", "failing", "ended"}]
    BY <1>2, <2>2 DEF Take, DriverTypeOK, Executing
  <2>4. QED
    BY <1>2, <2>3 DEF Take, DriverTypeOK, guestVars, countVars, pipeVars, flipVars, endVars
<1>3. CASE ShowFlip(q)
  <2>1. current' \in [Queues -> Submissions]
    <3>1. [current[q] EXCEPT !.flip = FALSE] \in Submissions
      BY FlipShown DEF DriverTypeOK
    <3>2. QED
      BY <1>3, <3>1 DEF ShowFlip, DriverTypeOK
  <2>2. QED
    BY <1>3, <2>1 DEF ShowFlip, NotifyIf, DriverTypeOK, guestVars, countVars, pipeVars, endVars
<1>4. CASE Execute(q)
  <2>1. current[q].writes \in SUBSET Labels /\ current[q].serial \in Nat
    BY DEF DriverTypeOK, Submissions
  <2>2. QED
    BY <1>4, <2>1 DEF Execute, At, Executing, DriverTypeOK, guestVars, countVars, pipeVars,
         flipVars, endVars
<1>5. CASE Complete(q)
  <2>1. current[q].serial \in Nat
    BY DEF DriverTypeOK, Submissions
  <2>2. completed' \in Nat /\ completedOutOfOrder' \subseteq Nat
    <3>1. CASE markCompleted(current[q].serial)
      BY <2>1, <3>1, MarkTyped
    <3>2. CASE UNCHANGED countVars
      BY <3>2 DEF countVars, DriverTypeOK
    <3>3. QED
      BY <1>5, <3>1, <3>2 DEF Complete
  <2>3. /\ current' \in [Queues -> Submissions]
        /\ wpc' \in [Queues -> Executing \cup {"none", "looking", "held", "leaving", "failing", "ended"}]
    BY <1>5, Constants DEF Complete, DriverTypeOK
  <2>4. QED
    BY <1>5, <2>2, <2>3 DEF Complete, NotifyIf, DriverTypeOK, guestVars, pipeVars, flipVars,
         endVars
<1>6. CASE Fail(q) \/ Interrupt(q) \/ Rethrow(q)
  <2>1. flipsAhead' \in Int /\ asleep' \subseteq Guests \cup Queues
    <3>1. Unwind(q) => flipsAhead' \in Int /\ asleep' = {}
      BY DEF Unwind, NotifyChanged, DriverTypeOK
    <3>2. Rethrow(q) => flipsAhead' \in Int /\ asleep' = {}
      BY DEF Rethrow, NotifyChanged, flipVars, DriverTypeOK
    <3>3. QED
      BY <1>6, <3>1, <3>2 DEF Fail, Interrupt
  <2>4. queue0AwaitsTitle' \in BOOLEAN
    BY <1>6, Zenon DEF Fail, Interrupt, Rethrow, Unwind, flipVars, DriverTypeOK
  <2>2. wpc' \in [Queues -> Executing \cup {"none", "looking", "held", "leaving", "failing", "ended"}]
    BY <1>6 DEF Fail, Interrupt, Rethrow, DriverTypeOK
  <2>3. QED
    BY <1>6, <2>1, <2>2, <2>4 DEF Fail, Interrupt, Rethrow, DriverTypeOK, guestVars, countVars,
         pipeVars, endVars
<1>7. CASE Report(q)
  <2>1. [p \in Queues |-> <<>>] \in [Queues -> Seq(Submissions)]
    OBVIOUS
  <2>2. QED
    BY <1>7, <2>1 DEF Report, ReportFailure, At, NotifyChanged, DriverTypeOK, guestVars,
         countVars, pipeVars, flipVars
<1>8. QED
  BY <1>1, <1>2, <1>3, <1>4, <1>5, <1>6, <1>7 DEF Works

LEMMA CommitterTyped ==
  ASSUME DriverTypeOK, DrawWorks \/ Commits
  PROVE  DriverTypeOK'
<1>1. CASE noteAwaitingTitle
  BY <1>1 DEF noteAwaitingTitle, NotifyChanged, DriverTypeOK, guestVars, workerVars, countVars,
       pipeVars, endVars
<1>2. CASE Defer
  <2>1. current[Queue0].serial \in Nat
    BY Constants DEF DriverTypeOK, Submissions
  <2>2. queue0Uncommitted' \in Seq(Nat)
    BY <1>2, <2>1, AppendTyped DEF Defer, DriverTypeOK
  <2>3. QED
    BY <1>2, <2>2 DEF Defer, At, Executing, DriverTypeOK, guestVars, countVars, flipVars, endVars
<1>3. CASE HandOver
  <2>1. items' \in Seq(Submissions)
    BY <1>3, Constants, AppendTyped DEF HandOver, DriverTypeOK
  <2>2. QED
    BY <1>3, <2>1 DEF HandOver, At, Executing, DriverTypeOK, guestVars, countVars, flipVars,
         endVars
<1>4. CASE Commit
  <2>1. Head(items) \in Submissions
    BY <1>4, PopTyped DEF Commit, DriverTypeOK
  <2>2. Head(items).serial \in Nat /\ Head(items).writes \in SUBSET Labels
    BY <2>1 DEF Submissions
  <2>3. completed' \in Nat /\ completedOutOfOrder' \subseteq Nat
    BY <1>4, <2>2, MarkTyped DEF Commit
  <2>4. queue0Uncommitted' \in Seq(Nat)
    <3>1. ASSUME NEW i \in DOMAIN queue0Uncommitted,
                 queue0Uncommitted' = RemoveAt(queue0Uncommitted, i)
          PROVE  queue0Uncommitted' \in Seq(Nat)
      <4>1. queue0Uncommitted \in Seq(Nat) /\ i \in 1..Len(queue0Uncommitted)
        BY DEF DriverTypeOK
      <4>2. RemoveAt(queue0Uncommitted, i) \in Seq(Nat)
        BY <4>1, RemoveOnePlaces
      <4>3. QED
        BY <3>1, <4>2
    <3>2. QED
      BY <1>4, <3>1 DEF Commit, DriverTypeOK
  <2>5. memory' \subseteq Labels /\ finished' \subseteq Nat /\ asleep' \subseteq Guests \cup Queues
    BY <1>4, <2>2 DEF Commit, NotifyIf, DriverTypeOK
  <2>6. QED
    BY <1>4, <2>3, <2>4, <2>5 DEF Commit, DriverTypeOK, guestVars, workerVars, flipVars, endVars
<1>5. CASE CommitFailed
  <2>1. [p \in Queues |-> <<>>] \in [Queues -> Seq(Submissions)]
    OBVIOUS
  <2>2. QED
    BY <1>5, <2>1 DEF CommitFailed, ReportFailure, NotifyChanged, DriverTypeOK, guestVars,
         workerVars, countVars, flipVars
<1>6. CASE Skip
  BY <1>6 DEF Skip, DriverTypeOK, guestVars, workerVars, countVars, flipVars, endVars
<1>7. CASE Pop
  <2>1. items' \in Seq(Submissions)
    BY <1>7 DEF Pop, DriverTypeOK
  <2>2. QED
    BY <1>7, <2>1 DEF Pop, DriverTypeOK, guestVars, workerVars, countVars, flipVars, endVars
<1>8. QED
  BY <1>1, <1>2, <1>3, <1>4, <1>5, <1>6, <1>7 DEF DrawWorks, Commits

LEMMA NextTyped == DriverTypeOK /\ [DriverNext]_driverVars => DriverTypeOK'
<1>1. ASSUME DriverTypeOK, UNCHANGED driverVars PROVE DriverTypeOK'
  BY <1>1 DEF DriverTypeOK, driverVars, guestVars, workerVars, countVars, pipeVars, flipVars,
       endVars
<1>2. QED
  BY <1>1, GuestTyped, WorkerTyped, CommitterTyped DEF DriverNext

--------------------------------------------------------------------------------
(* Steps that accept, take and complete nothing *)

\* A worker stays where it is, moves on before the end of its submission, or
\* ends; having executed, its submission is finished.
Moves(q) ==
  \/ wpc'[q] = wpc[q] \/ wpc'[q] \in {"failing", "ended"}
  \/ wpc[q] \in Before /\ wpc'[q] \in Before
  \/ wpc[q] \in {"none", "leaving"} /\ wpc'[q] = "looking"
  \/ wpc'[q] = "executed" /\ current[q].serial \in finished'
  \/ wpc[q] = "handing" /\ wpc'[q] = "handedOver"

Keeps(q) == current'[q].serial = current[q].serial /\ current'[q].suspend = current[q].suspend

Quiet ==
  /\ UNCHANGED <<accepted, completed, completedOutOfOrder, queue0Uncommitted, drawn>>
  /\ pending' = pending \/ (pending' = [q \in Queues |-> <<>>] /\ Over')
  /\ Over => Over'
  /\ finished \subseteq finished'
  /\ \A q \in Queues : Keeps(q) /\ Moves(q)

LEMMA QuietKeeps ==
  ASSUME DriverInv, Quiet
  PROVE  Marked' /\ Order'
<1>1. Marked'
  <2>1. CompletedMeansFinished' /\ completedOutOfOrder' \subseteq finished'
    BY DEF DriverInv, Marked, CompletedMeansFinished, Quiet
  <2>2. ASSUME NEW q \in Queues, wpc'[q] = "executed" PROVE current'[q].serial \in finished'
    BY <2>2 DEF DriverInv, Marked, Quiet, Keeps, Moves, Before
  <2>3. QED
    BY <2>1, <2>2 DEF Marked
<1>2. /\ Queue0 \in Queues /\ Keeps(Queue0) /\ Moves(Queue0)
      /\ queue0Uncommitted' = queue0Uncommitted /\ accepted' = accepted /\ drawn' = drawn
      /\ finished \subseteq finished' /\ (Over => Over')
  BY Constants DEF Quiet
<1>3. pending0' = pending0 \/ (DOMAIN pending0' = {} /\ Over')
  <2>1. CASE pending' = pending
    BY <2>1 DEF pending0
  <2>2. CASE pending' = [q \in Queues |-> <<>>] /\ Over'
    <3>1. pending0' = <<>>
      BY <1>2, <2>2 DEF pending0
    <3>2. DOMAIN <<>> = {}
      OBVIOUS
    <3>3. QED
      BY <2>2, <3>1, <3>2, Zenon
  <2>3. QED
    BY <2>1, <2>2 DEF Quiet
<1> HIDE DEF pending0
<1>4. Increasing' /\ Accepted'
  BY <1>2, <1>3 DEF DriverInv, Order, Increasing, Accepted, Keeps
<1>5. Across'
  <2>1. wpc'[Queue0] \in Before => wpc[Queue0] \in Before
    BY <1>2 DEF Moves, Before
  <2>2. QED
    BY <1>2, <1>3, <2>1 DEF DriverInv, Order, Across, Keeps
<1>6. Listed'
  <2>1. wpc'[Queue0] \in {"handing", "handedOver"} => wpc[Queue0] \in {"handing", "handedOver"}
    BY <1>2 DEF Moves, Before
  <2>2. wpc'[Queue0] \in {"none", "looking", "leaving"} => wpc[Queue0] \in {"none", "looking", "leaving"}
    BY <1>2 DEF Moves, Before
  <2>3. QED
    BY <1>2, <2>1, <2>2 DEF DriverInv, Order, Listed, Uncommitted, Keeps
<1>7. Placed'
  BY <1>2, <1>3 DEF DriverInv, Order, Placed, Uncommitted, Pending, Keeps
<1>8. DrawnAccepted'
  BY <1>2 DEF DriverInv, Order, DrawnAccepted
<1>9. QED
  BY <1>1, <1>4, <1>5, <1>6, <1>7, <1>8 DEF Order

LEMMA GuestQuiet ==
  ASSUME DriverTypeOK, NEW g \in Guests, Guest(g), ~Submit(g), ~SuspendPoint(g)
  PROVE  Quiet
BY DEF Guest, HoldFlip, Refuse, WaitIdle, Stop, Joined, Store, Over, Quiet, Keeps, Moves,
   guestVars, workerVars, countVars, pipeVars, flipVars, endVars

LEMMA WorkerQuiet ==
  ASSUME DriverTypeOK, NEW q \in Queues, Works(q) \/ Fail(q), ~Take(q), ~Complete(q)
  PROVE  Quiet
<1> USE DEF DriverTypeOK, Quiet, Keeps, Moves, At, Before, Over, guestVars, workerVars, countVars,
            pipeVars, flipVars, endVars
<1>1. CASE Sleep(q) \/ Release(q) \/ PassWait(q) \/ Block(q) \/ Unblock(q) \/ Leave(q) \/ End(q)
  BY <1>1 DEF Sleep, Release, PassWait, Block, Unblock, Leave, End
<1>2. CASE ShowFlip(q)
  <2>1. \A p \in Queues : Keeps(p)
    BY <1>2, FlipShown DEF ShowFlip
  <2>2. QED
    BY <1>2, <2>1 DEF ShowFlip
<1>3. CASE Execute(q)
  BY <1>3 DEF Execute
<1>4. CASE Fail(q) \/ Interrupt(q) \/ Rethrow(q)
  BY <1>4 DEF Fail, Interrupt, Rethrow
<1>5. CASE Report(q)
  BY <1>5 DEF Report, ReportFailure
<1>6. QED
  BY <1>1, <1>2, <1>3, <1>4, <1>5 DEF Works

LEMMA CommitterQuiet ==
  ASSUME DriverTypeOK, DrawWorks \/ Commits, ~Defer, ~Commit
  PROVE  Quiet
BY Constants DEF DrawWorks, Commits, noteAwaitingTitle, HandOver, CommitFailed, Skip, Pop,
     ReportFailure, DriverTypeOK, Quiet, Keeps, Moves, At, Over, guestVars, workerVars,
     countVars, pipeVars, flipVars, endVars

--------------------------------------------------------------------------------
(* Accepting, taking and completing *)

LEMMA MarkKeeps ==
  ASSUME DriverTypeOK, Marked, NEW n \in Nat, n \in finished', finished \subseteq finished',
         markCompleted(n)
  PROVE  CompletedMeansFinished' /\ completedOutOfOrder' \subseteq finished'
<1> DEFINE marked == completedOutOfOrder \cup {n}
<1>1. completed \in Nat /\ marked \subseteq finished' /\ marked \subseteq Nat
  BY DEF DriverTypeOK, Marked
<1>2. PICK last \in {completed} \cup marked :
        /\ last >= completed /\ (completed + 1)..last \subseteq marked
        /\ completed' = last /\ completedOutOfOrder' = marked \ ((completed + 1)..last)
  BY DEF markCompleted
<1> HIDE DEF marked
<1>3. ASSUME NEW m \in 1..last PROVE m \in finished'
  <2>1. CASE m <= completed
    BY <1>1, <2>1 DEF Marked, CompletedMeansFinished
  <2>2. CASE m > completed
    BY <1>1, <1>2, <2>2
  <2>3. QED
    BY <1>1, <1>2, <2>1, <2>2
<1>4. QED
  BY <1>1, <1>2, <1>3 DEF CompletedMeansFinished

LEMMA EnqueueKeeps ==
  ASSUME DriverInv, ~Over, NEW s \in Submissions, s.serial = accepted + 1, enqueue(s),
         drawn' \subseteq drawn \cup {accepted + 1},
         accepted + 1 \in drawn' => s.queue = Queue0 /\ ~s.suspend,
         UNCHANGED <<completed, completedOutOfOrder, finished, queue0Uncommitted, current, endVars>>
  PROVE  Marked' /\ Order'
<1>1. DriverTypeOK /\ Order /\ Marked /\ Queue0 \in Queues /\ s.queue \in Queues /\ accepted \in Nat
  BY Constants DEF DriverInv, DriverTypeOK, Submissions
<1>2. \A q \in Queues : wpc'[q] = wpc[q] \/ (wpc[q] = "none" /\ wpc'[q] = "looking")
  BY DEF enqueue, DriverInv, DriverTypeOK
<1>3. Marked'
  BY <1>1, <1>2 DEF Marked, CompletedMeansFinished
<1>4. accepted' = accepted + 1 /\ pending0 \in Seq(Submissions)
  BY <1>1 DEF enqueue, pending0, DriverTypeOK
<1>5. \/ s.queue # Queue0 /\ pending0' = pending0
      \/ s.queue = Queue0 /\ pending0' = Append(pending0, s)
  BY <1>1 DEF enqueue, pending0, DriverTypeOK
<1>6. /\ current' = current /\ queue0Uncommitted' = queue0Uncommitted /\ finished' = finished
      /\ failure' = failure /\ stopping' = stopping
  BY DEF endVars
<1>7. \A i \in DOMAIN pending0 : pending0[i] \in Submissions /\ pending0[i].serial \in Nat
  <2>1. \A i \in DOMAIN pending0 : pending0[i] \in Submissions
    BY <1>4
  <2>2. QED
    BY <2>1 DEF Submissions
<1>8. /\ \A k \in DOMAIN queue0Uncommitted : queue0Uncommitted[k] \in Nat
      /\ current[Queue0].serial \in Nat
  BY <1>1 DEF DriverTypeOK, Submissions
<1> HIDE DEF pending0
<1>11. DrawnAccepted'
  <2>1. drawn \subseteq Nat
    BY <1>1 DEF DriverTypeOK
  <2>2. QED
    BY <1>1, <1>4, <2>1 DEF Order, DrawnAccepted
<1>9. CASE s.queue # Queue0
  <2>1. pending0' = pending0 /\ drawn' \subseteq drawn
    BY <1>5, <1>9
  <2>2. Increasing' /\ Accepted' /\ Across'
    BY <1>1, <1>2, <1>4, <1>6, <1>7, <1>8, <2>1 DEF Order, Increasing, Accepted, Across, Before
  <2>3. Listed' /\ Placed'
    BY <1>1, <1>2, <1>6, <2>1 DEF Order, Listed, Placed, Over, Uncommitted, Pending
  <2>4. QED
    BY <1>3, <1>11, <2>2, <2>3 DEF Order
<1>10. CASE s.queue = Queue0
  <2>1. /\ DOMAIN pending0 = 1..Len(pending0) /\ Len(pending0) \in Nat
        /\ DOMAIN pending0' = 1..(Len(pending0) + 1)
        /\ \A i \in DOMAIN pending0 : pending0'[i] = pending0[i]
        /\ pending0'[Len(pending0) + 1] = s
    BY <1>4, <1>5, <1>10, AppendTyped
  <2>2. \A i \in DOMAIN pending0' : i \in DOMAIN pending0 \/ i = Len(pending0) + 1
    BY <2>1
  <2>3. Increasing'
    <3>1. ASSUME NEW i \in DOMAIN pending0', NEW j \in DOMAIN pending0', i < j
          PROVE  pending0'[i].serial < pending0'[j].serial
      <4>1. i \in DOMAIN pending0
        BY <2>1, <3>1
      <4>2. CASE j \in DOMAIN pending0
        BY <1>1, <2>1, <3>1, <4>1, <4>2 DEF Order, Increasing
      <4>3. CASE j = Len(pending0) + 1
        BY <1>1, <1>7, <2>1, <4>1, <4>3 DEF Order, Accepted
      <4>4. QED
        BY <2>2, <4>2, <4>3
    <3>2. QED
      BY <1>1, <1>6, <3>1 DEF Order, Increasing
  <2>4. Accepted'
    BY <1>1, <1>4, <1>6, <1>7, <1>8, <2>1, <2>2 DEF Order, Accepted
  <2>5. Across'
    <3>1. ASSUME NEW i \in DOMAIN pending0'
          PROVE  /\ current[Queue0].serial < pending0'[i].serial
                 /\ \A k \in DOMAIN queue0Uncommitted : queue0Uncommitted[k] < pending0'[i].serial
      <4>1. CASE i \in DOMAIN pending0
        BY <1>1, <2>1, <4>1 DEF Order, Across
      <4>2. CASE i = Len(pending0) + 1
        BY <1>1, <1>8, <2>1, <4>2 DEF Order, Accepted
      <4>3. QED
        BY <2>2, <4>1, <4>2
    <3>2. QED
      BY <1>1, <1>2, <1>6, <3>1 DEF Order, Across, Before
  <2>6. Listed'
    BY <1>1, <1>2, <1>6 DEF Order, Listed, Uncommitted
  <2>7. Placed'
    <3>1. ASSUME NEW n, Pending(n) PROVE Pending(n)'
      BY <2>1, <3>1 DEF Pending
    <3>2. ASSUME NEW n \in drawn', n = accepted + 1 PROVE Pending(n)'
      <4>1. Len(pending0) + 1 \in DOMAIN pending0' /\ ~s.suspend
        BY <2>1, <3>2
      <4>2. QED
        BY <2>1, <3>2, <4>1 DEF Pending
    <3>3. \A n : Uncommitted(n) => Uncommitted(n)'
      BY <1>6 DEF Uncommitted
    <3>4. ASSUME NEW n \in drawn'
          PROVE  \/ n \in finished \/ Uncommitted(n)' \/ Pending(n)'
                 \/ n = current[Queue0].serial /\ ~current[Queue0].suspend
      <4>1. CASE n \in drawn
        BY <1>1, <3>1, <3>3, <4>1 DEF Order, Placed
      <4>2. CASE n = accepted + 1
        BY <3>2, <3>4, <4>2
      <4>3. QED
        BY <3>4, <4>1, <4>2
    <3>5. QED
      BY <1>6, <3>4 DEF Placed
  <2>8. QED
    BY <1>3, <1>11, <2>3, <2>4, <2>5, <2>6, <2>7 DEF Order
<1>12. QED
  BY <1>9, <1>10

LEMMA SubmitKeeps ==
  ASSUME DriverInv, NEW g \in Guests, Submit(g) \/ SuspendPoint(g)
  PROVE  Marked' /\ Order'
<1>1. DriverTypeOK /\ todo[g] # <<>> /\ Head(todo[g]) \in Calls /\ accepted + 1 \in Nat
  BY CallTyped DEF DriverInv, Submit, SuspendPoint, Call, DriverTypeOK
<1>2. CASE Submit(g)
  <2> DEFINE call == Head(todo[g])
             s == [serial |-> accepted + 1, queue |-> call.queue, suspend |-> FALSE,
                   waits |-> call.waits, writes |-> call.writes, flip |-> holdsFlip(call)]
  <2>1. s \in Submissions
    <3>1. call.queue \in Queues /\ call.waits \in Labels \cup {NoLabel} /\ call.writes \in SUBSET Labels
      BY <1>1 DEF Calls
    <3>2. holdsFlip(call) \in BOOLEAN
      BY <1>1 DEF Calls, holdsFlip
    <3> HIDE DEF call
    <3>3. QED
      BY <1>1, <3>1, <3>2 DEF Submissions
  <2>2. /\ ~Over /\ enqueue(s)
        /\ drawn' = IF call.queue = Queue0 THEN drawn \cup {accepted + 1} ELSE drawn
        /\ UNCHANGED <<completed, completedOutOfOrder, finished, queue0Uncommitted, current,
                       endVars>>
    BY <1>2 DEF Submit, countVars, pipeVars
  <2>3. s.serial = accepted + 1 /\ s.queue = call.queue /\ ~s.suspend
    OBVIOUS
  <2> HIDE DEF s, call
  <2>4. accepted + 1 \in drawn' => s.queue = Queue0 /\ ~s.suspend
    <3>1. accepted + 1 \notin drawn
      BY <1>1 DEF DriverInv, Order, DrawnAccepted, DriverTypeOK
    <3>2. QED
      BY <2>2, <2>3, <3>1
  <2>5. drawn' \subseteq drawn \cup {accepted + 1}
    BY <2>2
  <2>6. QED
    BY <2>1, <2>2, <2>3, <2>4, <2>5, EnqueueKeeps
<1>3. CASE SuspendPoint(g)
  <2> DEFINE s == [NoSubmission EXCEPT !.serial = accepted + 1]
  <2>1. s \in Submissions /\ s.serial = accepted + 1
    <3>1. NoSubmission.serial = 0
      BY DEF NoSubmission
    <3>2. QED
      BY <1>1, Constants, Renumbered DEF NoSubmission
  <2>2. /\ ~Over /\ enqueue(s) /\ drawn' = drawn
        /\ UNCHANGED <<completed, completedOutOfOrder, finished, queue0Uncommitted, current,
                       endVars>>
    BY <1>3 DEF SuspendPoint, countVars, pipeVars
  <2> HIDE DEF s
  <2>3. accepted + 1 \notin drawn'
    BY <1>1, <2>2 DEF DriverInv, Order, DrawnAccepted, DriverTypeOK
  <2>4. QED
    BY <2>1, <2>2, <2>3, EnqueueKeeps
<1>4. QED
  BY <1>2, <1>3

LEMMA DriverTakeKeeps ==
  ASSUME DriverInv, NEW q \in Queues, Take(q)
  PROVE  Marked' /\ Order'
<1>1. DriverTypeOK /\ Order /\ Marked /\ Queue0 \in Queues
  BY Constants DEF DriverInv
<1>2. pending[q] \in Seq(Submissions) /\ pending[q] # <<>>
  BY <1>1 DEF Take, DriverTypeOK
<1> DEFINE s == Head(pending[q])
<1>3. /\ current' = [current EXCEPT ![q] = s]
      /\ pending' = [pending EXCEPT ![q] = Tail(pending[q])]
      /\ wpc[q] = "looking" /\ wpc' \in [Queues -> Executing \cup {"none", "looking", "held", "leaving", "failing", "ended"}]
      /\ wpc'[q] \in {"held", "running"} /\ \A p \in Queues \ {q} : wpc'[p] = wpc[p]
      /\ UNCHANGED <<accepted, completed, completedOutOfOrder, queue0Uncommitted, finished,
                     drawn, failure, stopping>>
  BY <1>1 DEF Take, Looking, DriverTypeOK, countVars, pipeVars, endVars, Executing
<1>4. s \in Submissions /\ s = pending[q][1]
  BY <1>2, PopTyped
<1> HIDE DEF s
<1>5. Marked'
  <2>1. ASSUME NEW p \in Queues, wpc'[p] = "executed" PROVE current'[p].serial \in finished
    BY <1>1, <1>3, <2>1 DEF Marked, DriverTypeOK
  <2>2. QED
    BY <1>1, <1>3, <2>1 DEF Marked, CompletedMeansFinished
<1>6. CASE q # Queue0
  <2>1. /\ pending0' = pending0 /\ current'[Queue0] = current[Queue0] /\ wpc'[Queue0] = wpc[Queue0]
    BY <1>1, <1>3, <1>6 DEF pending0, DriverTypeOK
  <2>2. QED
    BY <1>1, <1>3, <1>5, <2>1 DEF Order, Increasing, Across, Accepted, DrawnAccepted, Listed,
         Placed, Over, Uncommitted, Pending
<1>7. CASE q = Queue0
  <2>1. /\ pending0' = Tail(pending0) /\ current'[Queue0] = s /\ s = pending0[1]
        /\ pending0 \in Seq(Submissions) /\ pending0 # <<>>
        /\ wpc'[Queue0] \in Before /\ wpc'[Queue0] \notin {"handing", "handedOver", "none", "looking", "leaving"}
    BY <1>1, <1>2, <1>3, <1>4, <1>7 DEF pending0, DriverTypeOK, Before
  <2>2. current[Queue0].suspend
    BY <1>1, <1>3, <1>7 DEF Order, Listed
  <2> HIDE DEF pending0
  <2>3. /\ DOMAIN pending0 = 1..Len(pending0) /\ Len(pending0) \in Nat /\ Len(pending0) >= 1
        /\ DOMAIN pending0' = 1..(Len(pending0) - 1)
        /\ \A i \in DOMAIN pending0' : i + 1 \in DOMAIN pending0 /\ pending0'[i] = pending0[i + 1]
    BY <2>1, PopTyped
  <2>4. 1 \in DOMAIN pending0
    BY <2>3
  <2>5. Increasing'
    <3>1. ASSUME NEW i \in DOMAIN pending0', NEW j \in DOMAIN pending0', i < j
          PROVE  pending0'[i].serial < pending0'[j].serial
      <4>1. i + 1 \in DOMAIN pending0 /\ j + 1 \in DOMAIN pending0 /\ i + 1 < j + 1
        BY <2>3, <3>1
      <4>2. pending0[i + 1].serial < pending0[j + 1].serial
        BY <1>1, <4>1 DEF Order, Increasing
      <4>3. QED
        BY <2>3, <4>2
    <3>2. QED
      BY <1>1, <1>3, <3>1 DEF Order, Increasing
  <2>6. Across'
    <3>1. ASSUME NEW i \in DOMAIN pending0'
          PROVE  /\ s.serial < pending0'[i].serial
                 /\ \A k \in DOMAIN queue0Uncommitted : queue0Uncommitted[k] < pending0'[i].serial
      <4>1. i + 1 \in DOMAIN pending0 /\ 1 < i + 1 /\ pending0'[i] = pending0[i + 1]
        BY <2>3
      <4>2. pending0[1].serial < pending0[i + 1].serial
        BY <1>1, <2>4, <4>1 DEF Order, Increasing
      <4>3. QED
        BY <1>1, <2>1, <4>1, <4>2 DEF Order, Across
    <3>2. \A k \in DOMAIN queue0Uncommitted : queue0Uncommitted[k] < s.serial
      BY <1>1, <2>1, <2>4 DEF Order, Across
    <3>3. QED
      BY <1>3, <2>1, <3>1, <3>2 DEF Across
  <2>7. Accepted'
    BY <1>1, <1>3, <2>1, <2>3, <2>4 DEF Order, Accepted
  <2>8. Listed'
    BY <2>1 DEF Listed
  <2>9. Placed'
    <3>1. ASSUME NEW n, Pending(n) PROVE Pending(n)' \/ (n = s.serial /\ ~s.suspend)
      <4>1. PICK i \in DOMAIN pending0 : pending0[i].serial = n /\ ~pending0[i].suspend
        BY <3>1 DEF Pending
      <4>2. CASE i = 1
        BY <2>1, <4>1, <4>2
      <4>3. CASE i # 1
        <5>1. i - 1 \in DOMAIN pending0' /\ (i - 1) + 1 = i
          BY <2>3, <4>3
        <5>2. pending0'[i - 1] = pending0[i]
          BY <2>3, <5>1
        <5>3. QED
          BY <4>1, <5>1, <5>2 DEF Pending
      <4>4. QED
        BY <4>2, <4>3
    <3>2. \A n : Uncommitted(n)' <=> Uncommitted(n)
      BY <1>3 DEF Uncommitted
    <3>3. QED
      BY <1>1, <1>3, <2>1, <2>2, <3>1, <3>2 DEF Order, Placed, Over
  <2>10. DrawnAccepted'
    BY <1>1, <1>3 DEF Order, DrawnAccepted
  <2>11. QED
    BY <1>5, <2>5, <2>6, <2>7, <2>8, <2>9, <2>10 DEF Order
<1>8. QED
  BY <1>6, <1>7

LEMMA CompleteKeeps ==
  ASSUME DriverInv, NEW q \in Queues, Complete(q)
  PROVE  Marked' /\ Order'
<1>1. DriverTypeOK /\ Order /\ Marked /\ Queue0 \in Queues /\ current[q].serial \in Nat
  BY Constants DEF DriverInv, DriverTypeOK, Submissions
<1>2. /\ wpc[q] \in {"executed", "handedOver"}
      /\ wpc' = [wpc EXCEPT ![q] = "leaving"] /\ current' = [current EXCEPT ![q] = NoSubmission]
      /\ UNCHANGED <<accepted, pending, queue0Uncommitted, finished, drawn, failure, stopping>>
  BY DEF Complete, pipeVars, endVars
<1>3. Marked'
  <2>1. CompletedMeansFinished' /\ completedOutOfOrder' \subseteq finished'
    <3>1. CASE wpc[q] = "executed"
      <4>1. current[q].serial \in finished' /\ finished \subseteq finished'
        BY <1>1, <1>2, <3>1 DEF Marked
      <4>2. markCompleted(current[q].serial)
        BY <3>1 DEF Complete
      <4>3. QED
        BY <1>1, <4>1, <4>2, MarkKeeps
    <3>2. CASE wpc[q] # "executed"
      BY <1>1, <1>2, <3>2 DEF Complete, countVars, Marked, CompletedMeansFinished
    <3>3. QED
      BY <3>1, <3>2
  <2>2. ASSUME NEW p \in Queues, wpc'[p] = "executed" PROVE current'[p].serial \in finished'
    BY <1>1, <1>2, <2>2 DEF Marked, DriverTypeOK
  <2>3. QED
    BY <2>1, <2>2 DEF Marked
<1>4. pending0' = pending0 /\ DrawnAccepted'
  BY <1>1, <1>2 DEF pending0, Order, DrawnAccepted
<1> HIDE DEF pending0
<1>5. CASE q # Queue0
  <2>1. current'[Queue0] = current[Queue0] /\ wpc'[Queue0] = wpc[Queue0]
    BY <1>1, <1>2, <1>5 DEF DriverTypeOK
  <2>2. QED
    BY <1>1, <1>2, <1>3, <1>4, <2>1 DEF Order, Increasing, Across, Accepted, Listed, Placed,
         Over, Uncommitted, Pending
<1>6. CASE q = Queue0
  <2>1. /\ current'[Queue0].suspend /\ current'[Queue0].serial = 0 /\ wpc'[Queue0] = "leaving"
    BY <1>1, <1>2, <1>6 DEF DriverTypeOK, NoSubmission
  <2>2. /\ \A i \in DOMAIN pending0 : pending0[i].serial \in Nat
        /\ current[Queue0].serial \in Nat /\ accepted \in Nat
    <3>1. \A i \in DOMAIN pending0 : pending0[i] \in Submissions
      BY <1>1 DEF DriverTypeOK, pending0
    <3>2. QED
      BY <1>1, <1>6, <3>1 DEF DriverTypeOK, Submissions
  <2>3. Increasing' /\ Accepted' /\ Across' /\ Listed'
    BY <1>1, <1>2, <1>4, <2>1, <2>2 DEF Order, Increasing, Across, Accepted, Listed, Before
  <2>4. current[Queue0].serial \in finished \/ Uncommitted(current[Queue0].serial)
    BY <1>1, <1>2, <1>6 DEF Marked, Order, Listed
  <2>5. Placed'
    BY <1>1, <1>2, <1>4, <2>4 DEF Order, Placed, Over, Uncommitted, Pending
  <2>6. QED
    BY <1>3, <1>4, <2>3, <2>5 DEF Order
<1>7. QED
  BY <1>5, <1>6

LEMMA DeferKeeps ==
  ASSUME DriverInv, Defer
  PROVE  Marked' /\ Order'
<1> DEFINE n == current[Queue0].serial
           u == queue0Uncommitted
<1>1. DriverTypeOK /\ Order /\ Marked /\ Queue0 \in Queues /\ n \in Nat /\ u \in Seq(Nat)
  BY Constants DEF DriverInv, DriverTypeOK, Submissions
<1>2. /\ u' = Append(u, n) /\ wpc[Queue0] = "working" /\ wpc' = [wpc EXCEPT ![Queue0] = "handing"]
      /\ UNCHANGED <<accepted, pending, finished, drawn, failure, stopping, current, completed,
                     completedOutOfOrder>>
  BY DEF Defer, At, countVars, endVars
<1>3. /\ DOMAIN u = 1..Len(u) /\ Len(u) \in Nat /\ DOMAIN u' = 1..(Len(u) + 1)
      /\ \A k \in DOMAIN u : u'[k] = u[k] /\ u[k] \in Nat
      /\ u'[Len(u) + 1] = n
  BY <1>1, <1>2, AppendTyped
<1>4. \A k \in DOMAIN u' : k \in DOMAIN u \/ k = Len(u) + 1
  BY <1>3
<1>5. \A k \in DOMAIN u : u[k] < n
  BY <1>1, <1>2 DEF Order, Across, Before
<1>6. pending0' = pending0 /\ wpc'[Queue0] = "handing"
  BY <1>1, <1>2 DEF pending0, DriverTypeOK
<1> HIDE DEF pending0
<1>7. Marked' /\ DrawnAccepted'
  BY <1>1, <1>2 DEF Marked, CompletedMeansFinished, DriverTypeOK, Order, DrawnAccepted
<1>8. Increasing'
  <2>1. ASSUME NEW k \in DOMAIN u', NEW m \in DOMAIN u', k < m PROVE u'[k] < u'[m]
    <3>1. k \in DOMAIN u
      BY <1>3, <2>1
    <3>2. CASE m \in DOMAIN u
      BY <1>1, <1>3, <2>1, <3>1, <3>2 DEF Order, Increasing
    <3>3. CASE m = Len(u) + 1
      BY <1>3, <1>5, <3>1, <3>3
    <3>4. QED
      BY <1>4, <3>2, <3>3
  <2>2. QED
    BY <1>1, <1>6, <2>1 DEF Order, Increasing
<1>9. Across' /\ Accepted'
  BY <1>1, <1>2, <1>3, <1>4, <1>6 DEF Order, Across, Accepted, Before
<1>10. /\ \A m : Uncommitted(m) => Uncommitted(m)'
       /\ \E k \in DOMAIN u' : u'[k] = n
  <2>1. Len(u) + 1 \in DOMAIN u'
    BY <1>3
  <2>2. QED
    BY <1>3, <2>1 DEF Uncommitted
<1>11. Listed' /\ Placed'
  BY <1>1, <1>2, <1>6, <1>10 DEF Order, Listed, Placed, Over, Uncommitted, Pending
<1>12. QED
  BY <1>7, <1>8, <1>9, <1>11 DEF Order

LEMMA CommitKeeps ==
  ASSUME DriverInv, Commit
  PROVE  Marked' /\ Order'
<1> DEFINE n == Head(items).serial
           u == queue0Uncommitted
<1>1. DriverTypeOK /\ Order /\ Marked /\ Queue0 \in Queues /\ u \in Seq(Nat)
  BY Constants DEF DriverInv, DriverTypeOK
<1>2. n \in Nat
  <2>1. Head(items) \in Submissions
    BY <1>1, PopTyped DEF Commit, DriverTypeOK
  <2>2. QED
    BY <2>1 DEF Submissions
<1>3. /\ markCompleted(n) /\ finished' = finished \cup {n}
      /\ \/ \E i \in DOMAIN u : u[i] = n /\ u' = RemoveAt(u, i)
         \/ UNCHANGED u
      /\ UNCHANGED <<accepted, pending, drawn, failure, stopping, current, wpc>>
  BY DEF Commit, workerVars, endVars
<1> HIDE DEF n
<1>4. Marked'
  <2>1. CompletedMeansFinished' /\ completedOutOfOrder' \subseteq finished'
    BY <1>1, <1>2, <1>3, MarkKeeps
  <2>2. QED
    BY <1>1, <1>3, <2>1 DEF Marked
<1>5. /\ \A k, m \in DOMAIN u' : k < m => u'[k] < u'[m]
      /\ \A k \in DOMAIN u' : \E m \in DOMAIN u : u'[k] = u[m]
      /\ \A m \in DOMAIN u : u[m] = n \/ \E k \in DOMAIN u' : u'[k] = u[m]
  <2>1. \A k, m \in DOMAIN u : k < m => u[k] < u[m]
    BY <1>1 DEF Order, Increasing
  <2>2. ASSUME NEW i \in DOMAIN u, u[i] = n, u' = RemoveAt(u, i)
        PROVE  /\ \A k, m \in DOMAIN u' : k < m => u'[k] < u'[m]
               /\ \A k \in DOMAIN u' : \E m \in DOMAIN u : u'[k] = u[m]
               /\ \A m \in DOMAIN u : u[m] = n \/ \E k \in DOMAIN u' : u'[k] = u[m]
    <3>1. i \in 1..Len(u)
      BY <1>1
    <3>2. LET r == RemoveAt(u, i) IN
          /\ r \in Seq(Nat)
          /\ \A k, m \in DOMAIN r : k < m => r[k] < r[m]
          /\ \A k \in DOMAIN r : \E m \in DOMAIN u : r[k] = u[m]
          /\ \A m \in DOMAIN u : m # i => \E k \in DOMAIN r : r[k] = u[m]
      BY <1>1, <2>1, <3>1, RemoveOneIncreasing
    <3>3. QED
      BY <2>2, <3>2
  <2>3. QED
    BY <1>3, <2>1, <2>2
<1>6. pending0' = pending0 /\ DrawnAccepted'
  BY <1>1, <1>3 DEF pending0, Order, DrawnAccepted
<1> HIDE DEF pending0
<1>7. Increasing' /\ Across' /\ Accepted'
  BY <1>1, <1>3, <1>5, <1>6 DEF Order, Increasing, Across, Accepted
<1>8. \A m : Uncommitted(m) => Uncommitted(m)' \/ m \in finished'
  BY <1>3, <1>5 DEF Uncommitted
<1>9. Listed' /\ Placed'
  BY <1>1, <1>3, <1>6, <1>8 DEF Order, Listed, Placed, Over, Pending
<1>10. QED
  BY <1>4, <1>6, <1>7, <1>9 DEF Order

--------------------------------------------------------------------------------
(* The theorems *)

LEMMA DriverInitHolds == DriverInit => DriverInv
<1> SUFFICES ASSUME DriverInit PROVE DriverInv
  OBVIOUS
<1>1. Queue0 \in Queues /\ DOMAIN <<>> = {}
  BY Constants
<1>2. pending0 = <<>> /\ queue0Uncommitted = <<>> /\ current[Queue0] = NoSubmission
  BY <1>1 DEF DriverInit, pending0
<1>3. Marked
  BY DEF DriverInit, Marked, CompletedMeansFinished
<1>4. Increasing /\ Across /\ Accepted /\ DrawnAccepted
  BY <1>1, <1>2 DEF DriverInit, Increasing, Across, Accepted, DrawnAccepted, NoSubmission
<1>5. Listed /\ Placed
  BY <1>1, <1>2 DEF DriverInit, Listed, Placed, NoSubmission
<1>6. QED
  BY <1>3, <1>4, <1>5, InitTyped DEF DriverInv, Order

LEMMA Invariance == DriverInv /\ [DriverNext]_driverVars => DriverInv'
<1> SUFFICES ASSUME DriverInv, [DriverNext]_driverVars PROVE DriverInv'
  OBVIOUS
<1>1. DriverTypeOK /\ DriverTypeOK'
  BY NextTyped DEF DriverInv
<1>2. ASSUME NEW g \in Guests, Guest(g) PROVE Marked' /\ Order'
  BY <1>1, <1>2, GuestQuiet, QuietKeeps, SubmitKeeps
<1>3. ASSUME NEW q \in Queues, Works(q) \/ Fail(q) PROVE Marked' /\ Order'
  BY <1>1, <1>3, WorkerQuiet, QuietKeeps, DriverTakeKeeps, CompleteKeeps
<1>4. ASSUME DrawWorks \/ Commits PROVE Marked' /\ Order'
  BY <1>1, <1>4, CommitterQuiet, QuietKeeps, DeferKeeps, CommitKeeps
<1>5. ASSUME UNCHANGED driverVars PROVE Marked' /\ Order'
  <2>1. Quiet
    BY <1>5 DEF Quiet, Keeps, Moves, Over, driverVars, guestVars, workerVars, countVars,
         pipeVars, flipVars, endVars
  <2>2. QED
    BY <2>1, QuietKeeps
<1>6. Marked' /\ Order'
  BY <1>2, <1>3, <1>4, <1>5 DEF DriverNext
<1>7. QED
  BY <1>1, <1>6 DEF DriverInv

THEOREM DriverInvariantHolds == DriverSpec => []DriverInv
BY DriverInitHolds, Invariance, PTL DEF DriverSpec

\* Every variable keeps its type.
THEOREM DriverTypeCorrect == DriverSpec => []DriverTypeOK
<1>1. DriverInv => DriverTypeOK
  BY DEF DriverInv
<1>2. QED
  BY <1>1, DriverInvariantHolds, PTL

\* What WaitIdle compares with (Lifecycle.cpp:179) covers only submissions whose
\* work was done, though workers and committer mark them in any order
\* (QueueWorker.cpp:52-58).
THEOREM CompletedMeansFinishedHolds == DriverSpec => []CompletedMeansFinished
<1>1. DriverInv => CompletedMeansFinished
  BY DEF DriverInv, Marked
<1>2. QED
  BY <1>1, DriverInvariantHolds, PTL

\* A set of natural numbers that is not empty has a least member.
LEMMA LeastOf ==
  ASSUME NEW S \in SUBSET Nat, NEW i \in S
  PROVE  \E first \in S : \A j \in S : first <= j
<1> DEFINE Less == OpToRel(<, Nat)
<1>1. IsWellFoundedOn(Less, Nat)
  BY NatLessThanWellFounded
<1>2. Less = {p \in Nat \X Nat : p[1] < p[2]}
  BY DEF OpToRel
<1> HIDE DEF Less
<1>3. PICK first \in S : \A j \in S : <<j, first>> \notin Less
  <2>1. S \subseteq Nat /\ S # {}
    OBVIOUS
  <2>2. QED
    BY <1>1, <2>1, WFMin, Zenon
<1>4. ASSUME NEW j \in S PROVE first <= j
  <2>1. j \in Nat /\ first \in Nat /\ <<j, first>> \in Nat \X Nat
    OBVIOUS
  <2>2. ~(<<j, first>>[1] < <<j, first>>[2])
    BY <1>2, <1>3, <2>1
  <2>3. QED
    BY <2>1, <2>2
<1>5. QED
  BY <1>4

\* Where queue 0 has nothing before a serial, everything before it is finished.
LEMMA NothingBefore ==
  ASSUME DriverInv, ~Over, NEW c \in Nat, ~queue0Before(c), NEW n \in drawn, n < c
  PROVE  n \in finished
<1>1. DriverTypeOK /\ Order /\ Queue0 \in Queues
  BY Constants DEF DriverInv
<1>2. n \in Nat /\ queue0Uncommitted \in Seq(Nat) /\ pending0 \in Seq(Submissions)
  BY <1>1 DEF DriverTypeOK, pending0
<1>3. ~(n = current[Queue0].serial /\ ~current[Queue0].suspend)
  BY DEF queue0Before
<1>4. ~Uncommitted(n)
  <2>1. SUFFICES ASSUME NEW k \in DOMAIN queue0Uncommitted, queue0Uncommitted[k] = n PROVE FALSE
    BY DEF Uncommitted
  <2>2. queue0Uncommitted # <<>> /\ 1 \in DOMAIN queue0Uncommitted /\ k \in Nat /\ k >= 1
    BY <1>2
  <2>3. Head(queue0Uncommitted) = queue0Uncommitted[1] /\ queue0Uncommitted[1] \in Nat
    BY <1>2, <2>2
  <2>4. queue0Uncommitted[1] <= n
    <3>1. CASE k = 1
      BY <2>1, <2>3, <3>1
    <3>2. CASE 1 < k
      BY <1>1, <1>2, <2>1, <2>2, <2>3, <3>2 DEF Order, Increasing
    <3>3. QED
      BY <2>2, <3>1, <3>2
  <2>5. QED
    BY <1>2, <2>2, <2>3, <2>4 DEF queue0Before
<1>5. ~Pending(n)
  <2>1. SUFFICES ASSUME NEW i \in DOMAIN pending0, pending0[i].serial = n, ~pending0[i].suspend PROVE FALSE
    BY DEF Pending
  <2> DEFINE draws == {j \in DOMAIN pending0 : ~pending0[j].suspend}
  <2>2. draws \in SUBSET Nat /\ i \in draws
    BY <1>2, <2>1
  <2>3. PICK first \in draws : \A j \in draws : first <= j
    BY <2>2, LeastOf
  <2>4. /\ first \in DOMAIN pending0 /\ ~pending0[first].suspend
        /\ first \in Nat /\ first <= i /\ i \in Nat
        /\ \A j \in 1..(first - 1) : j \in DOMAIN pending0 /\ j \notin draws
    BY <1>2, <2>2, <2>3
  <2>5. \A j \in 1..(first - 1) : pending0[j].suspend
    BY <2>4
  <2>6. pending0[first].serial \in Nat
    <3>1. pending0[first] \in Submissions
      BY <1>2, <2>4
    <3>2. QED
      BY <3>1 DEF Submissions
  <2>7. pending0[first].serial <= n
    <3>1. CASE first = i
      BY <1>2, <2>1, <3>1
    <3>2. CASE first < i
      BY <1>1, <1>2, <2>1, <2>4, <2>6, <3>2 DEF Order, Increasing
    <3>3. QED
      BY <2>4, <3>1, <3>2
  <2>8. pending0[first].serial < c
    BY <1>2, <2>6, <2>7
  <2>9. QED
    BY <2>4, <2>5, <2>8 DEF queue0Before, pending0
<1>6. QED
  BY <1>1, <1>3, <1>4, <1>5 DEF Order, Placed

\* Only a release makes a worker that holds back run.
LEMMA OnlyRelease ==
  ASSUME DriverTypeOK, NEW q \in Queues, wpc[q] = "held", wpc'[q] = "running", [DriverNext]_driverVars
  PROVE  Release(q)
<1>1. ASSUME NEW g \in Guests, Guest(g) PROVE FALSE
  <2>1. wpc' = wpc \/ \E s : enqueue(s)
    BY <1>1 DEF Guest, HoldFlip, Submit, SuspendPoint, Refuse, WaitIdle, Stop, Joined, Store,
         workerVars
  <2>2. ASSUME NEW s, enqueue(s) PROVE wpc'[q] # "running"
    BY <2>2 DEF enqueue, DriverTypeOK
  <2>3. QED
    BY <2>1, <2>2
<1>2. ASSUME NEW p \in Queues, Works(p) \/ Fail(p), ~Release(p) PROVE FALSE
  BY <1>2 DEF Works, Fail, Sleep, Take, Looking, PassWait, Block, Unblock, ShowFlip, Execute,
       Complete, Leave, Interrupt, Rethrow, Report, End, At, DriverTypeOK, workerVars
<1>3. ASSUME NEW p \in Queues, Release(p) PROVE p = q
  BY <1>3 DEF Release, At, DriverTypeOK
<1>4. ASSUME DrawWorks \/ Commits \/ UNCHANGED driverVars PROVE FALSE
  BY <1>4 DEF DrawWorks, Commits, noteAwaitingTitle, Defer, HandOver, Commit, CommitFailed,
       Skip, Pop, At, DriverTypeOK, driverVars, workerVars
<1>5. QED
  BY <1>1, <1>2, <1>3, <1>4 DEF DriverNext

\* A submission held back starts after all that queue 0 received before it has
\* been committed (Submission.cpp:420-438), unless queue 0 waits or the driver stops.
THEOREM QueueZeroGoesFirstHolds == DriverSpec => QueueZeroGoesFirst
<1>1. ASSUME DriverInv, [DriverNext]_driverVars, NEW q \in Queues, wpc[q] = "held", wpc'[q] = "running",
             ~stopping, wpc[Queue0] # "blocked", NEW n \in drawn, n < current[q].serial
      PROVE  n \in finished
  <2>1. Release(q) /\ current[q].serial \in Nat
    BY <1>1, OnlyRelease DEF DriverInv, DriverTypeOK, Submissions
  <2>2. ~Over /\ ~queue0Before(current[q].serial)
    BY <1>1, <2>1 DEF Release, Over, orderReleased, queue0Awaited
  <2>3. QED
    BY <1>1, <2>1, <2>2, NothingBefore
<1>2. DriverInv /\ [DriverNext]_driverVars =>
        [\A q \in Queues :
           wpc[q] = "held" /\ wpc'[q] = "running" =>
             \/ stopping \/ wpc[Queue0] = "blocked"
             \/ \A n \in drawn : n < current[q].serial => n \in finished]_driverVars
  BY <1>1
<1>3. QED
  BY <1>2, DriverInvariantHolds, PTL DEF DriverSpec, QueueZeroGoesFirst

-----------------------------------------------------------------------------
(***************************************************************************)
(* For every set of events and waiters, every kind of queue and every room *)
(* the waits have: one notification for each trigger is enough, what an    *)
(* event has to report is what was triggered and not yet reported, and no  *)
(* event waits for room behind one that was reported meanwhile and stayed  *)
(* triggered. The invariant has a part for the events, by themselves       *)
(* (Sound) and in their order (LetsAhead), a part for the waiters, and the *)
(* count of the reports against the waiters that are awake, which needs    *)
(* both: without watched descriptors nobody polls (PollsForDescriptors),   *)
(* and what a pass takes it takes from what is ripe (CollectTakes).        *)
(***************************************************************************)

EventType == [triggered : BOOLEAN, enabled : BOOLEAN, forced : BOOLEAN,
              pending : Seq(1..MaxFired), ticks : 0..MaxFired, due : 0..MaxFired,
              fired : 0..MaxFired, got : 0..MaxFired, passed : SUBSET Ids]

WaitType == [room : 1..MaxRoom, limited : BOOLEAN, brief : BOOLEAN, watches : SUBSET Ids]

\* The triggers after the g-th, up to the f-th.
Numbers(g, f) == [i \in 1..(f - g) |-> g + i]

\* No period was reported twice, and none of an enabled timer is lost.
Accounted(r) ==
  /\ r.got + r.ticks + r.due <= r.fired
  /\ r.enabled => r.fired = r.got + r.ticks + r.due

\* An event's reports are those of its triggers that were not reported yet, and its
\* periods are all accounted for.
Sound(e, r) ==
  /\ r \in EventType
  /\ IF Kind(e) = "ampr"
     THEN /\ r.got <= r.fired /\ (r.triggered <=> r.pending # <<>>)
          /\ r.pending = Numbers(r.got, r.fired)
     ELSE r.pending = <<>>
  /\ Kind(e) = "timer" => Accounted(r)
  /\ Kind(e) \notin {"hrtimer", "timer"} => r.due = 0

EventsSound == \A e \in Ids : Sound(e, ev[e]) /\ (e \notin Registered => ev[e] = Fresh)

\* LastingEventsRotate, by events.
LetsAhead ==
  \A e, f \in Registered :
    (setup.once /\ f \in ev[e].passed /\ Kind(f) # "fd") => Earlier(e, f)

PollsForDescriptors ==
  (\A e \in Ids : Kind(e) # "fd") => Polling = {} /\ \A w \in Waiters : ~wait[w].brief

\* The list of the events and their records.
ListInv ==
  /\ setup \in Setups /\ closed \in BOOLEAN
  /\ order \in Seq(Ids) /\ IsInjective(order) /\ ev \in [Ids -> EventType]
  /\ EventsSound /\ LetsAhead /\ (closed => order = <<>>)

\* The waiters and what wakes them.
SleepInv ==
  /\ setup \in Setups /\ closed \in BOOLEAN
  /\ pc \in [Waiters -> {"idle", "checking", "asleep", "polling"}]
  /\ wait \in [Waiters -> WaitType] /\ signaled \subseteq Polling
  /\ CloseEndsWaits /\ PollsForDescriptors

EqueueInv == ready \subseteq Ids /\ ListInv /\ SleepInv /\ NoMissedTrigger

-----------------------------------------------------------------------------
(* One event *)

\* What the setups allow.
LEMMA SetupKinds ==
  ASSUME setup \in Setups, NEW e \in Ids
  PROVE  /\ Kind(e) \in Kinds /\ Flag(e) \in Flags
         /\ Kind(e) = "ampr" => ~setup.once /\ Flag(e) # "level"
         /\ Kind(e) = "hrtimer" => ~setup.once /\ Flag(e) = "oneshot"
         /\ Kind(e) = "timer" => Flag(e) # "level"
BY EqueueAssumption DEF EqueueAssumption, Kind, Flag, Flags

LEMMA NumbersFacts ==
  ASSUME NEW g \in Nat, NEW f \in Nat, g <= f
  PROVE  /\ Len(Numbers(g, f)) = f - g
         /\ \A m \in Nat : f <= m => Numbers(g, f) \in Seq(1..m)
         /\ Numbers(g, f) = <<>> <=> g = f
         /\ Append(Numbers(g, f), f + 1) = Numbers(g, f + 1)
         /\ \A k \in 0..(f - g) : SubSeq(Numbers(g, f), k + 1, f - g) = Numbers(g + k, f)
<1> DEFINE s == Numbers(g, f)
           n == f - g
<1>1. n \in Nat /\ s = [i \in 1..n |-> g + i]
  BY DEF Numbers
<1>2. s \in Seq(Nat) /\ Len(s) = n /\ DOMAIN s = 1..n
  BY <1>1
<1>3. ASSUME NEW m \in Nat, f <= m PROVE s \in Seq(1..m)
  <2>1. \A i \in 1..n : g + i \in 1..m
    BY <1>3
  <2>2. QED
    BY <1>1, <2>1
<1>4. s = <<>> <=> g = f
  BY <1>2, EmptySeq
<1>5. Append(s, f + 1) = Numbers(g, f + 1)
  <2>1. /\ Append(s, f + 1) \in Seq(Nat) /\ Len(Append(s, f + 1)) = n + 1
        /\ \A i \in 1..n : Append(s, f + 1)[i] = s[i]
        /\ Append(s, f + 1)[n + 1] = f + 1
    BY <1>2, AppendProperties
  <2>2. Numbers(g, f + 1) = [i \in 1..(n + 1) |-> g + i]
    <3>1. (f + 1) - g = n + 1
      OBVIOUS
    <3>2. QED
      BY <3>1 DEF Numbers
  <2>3. Numbers(g, f + 1) \in Seq(Nat) /\ Len(Numbers(g, f + 1)) = n + 1
    BY <1>1, <2>2
  <2>4. \A i \in 1..(n + 1) : Append(s, f + 1)[i] = Numbers(g, f + 1)[i]
    BY <1>1, <2>1, <2>2
  <2> HIDE DEF n, s
  <2>5. QED
    BY <2>1, <2>3, <2>4, SeqEqual
<1>6. ASSUME NEW k \in 0..n PROVE SubSeq(s, k + 1, n) = Numbers(g + k, f)
  <2> DEFINE u == SubSeq(s, k + 1, n)
  <2>1. /\ u \in Seq(Nat) /\ Len(u) = IF k + 1 <= n THEN n - (k + 1) + 1 ELSE 0
        /\ \A i \in 1..(n - (k + 1) + 1) : u[i] = s[(k + 1) + i - 1]
    <3>1. k + 1 \in Int /\ n \in Int /\ \A i \in (k + 1)..n : s[i] \in Nat
      BY <1>1, <1>2
    <3>2. QED
      BY <3>1, SubSeqProperties
  <2> HIDE DEF u
  <2>2. Len(u) = n - k /\ n - k \in Nat /\ n - (k + 1) + 1 = n - k /\ f - (g + k) = n - k
    BY <1>1, <2>1
  <2>3. ASSUME NEW i \in 1..(n - k) PROVE u[i] = (g + k) + i
    <3>1. u[i] = s[(k + 1) + i - 1]
      BY <2>1, <2>2
    <3>2. (k + 1) + i - 1 = k + i /\ k + i \in 1..n /\ g + (k + i) = (g + k) + i
      BY <1>1
    <3>3. QED
      BY <1>1, <3>1, <3>2
  <2>4. Numbers(g + k, f) = [i \in 1..(n - k) |-> (g + k) + i]
    BY <2>2 DEF Numbers
  <2>5. Numbers(g + k, f) \in Seq(Nat) /\ Len(Numbers(g + k, f)) = n - k
    BY <2>2, <2>4
  <2>6. \A i \in 1..(n - k) : u[i] = Numbers(g + k, f)[i]
    BY <2>3, <2>4
  <2>7. u = Numbers(g + k, f)
    BY <2>1, <2>2, <2>5, <2>6, SeqEqual
  <2>8. QED
    BY <2>7 DEF u
<1> HIDE DEF s, n
<1>7. QED
  BY <1>2, <1>3, <1>4, <1>5, <1>6 DEF s, n

\* What the provers need of an event's record.
LEMMA SoundFields ==
  ASSUME NEW e \in Ids, NEW r, Sound(e, r)
  PROVE  /\ MaxFired \in Nat /\ r \in EventType
         /\ r.due \in 0..MaxFired /\ r.ticks \in 0..MaxFired
         /\ r.got \in 0..MaxFired /\ r.fired \in 0..MaxFired
         /\ r.triggered \in BOOLEAN /\ r.enabled \in BOOLEAN
         /\ r.pending \in Seq(1..MaxFired) /\ r.passed \in SUBSET Ids
<1>1. MaxFired \in Nat /\ r \in EventType
  BY EqueueAssumption DEF EqueueAssumption, Sound
<1>2. QED
  BY <1>1 DEF EventType

LEMMA FreshSound == ASSUME NEW e \in Ids PROVE Sound(e, Fresh)
<1>1. MaxFired \in Nat
  BY EqueueAssumption DEF EqueueAssumption
<1>2. Fresh \in EventType
  BY <1>1 DEF Fresh, EventType
<1>3. Numbers(0, 0) = <<>>
  BY NumbersFacts
<1>4. QED
  BY <1>2, <1>3 DEF Fresh, Sound, Accounted

\* TriggerExpiredTimers accounts for the periods it finds.
LEMMA ExpiredSound ==
  ASSUME NEW e \in Ids, Sound(e, ev[e])
  PROVE  /\ Sound(e, Expired(e))
         /\ Kind(e) \notin {"hrtimer", "timer"} => Expired(e) = ev[e]
         /\ Kind(e) = "timer" /\ ev[e].enabled => Expired(e).due = 0
         /\ Expired(e).passed = ev[e].passed /\ Expired(e).pending = ev[e].pending
         /\ Expired(e).enabled = ev[e].enabled
<1> DEFINE r == ev[e]
           x == Expired(e)
<1>1. MaxFired \in Nat /\ r \in EventType
  BY SoundFields
<1>2. /\ r.due \in 0..MaxFired /\ r.ticks \in 0..MaxFired
      /\ r.got \in 0..MaxFired /\ r.fired \in 0..MaxFired
  BY SoundFields
<1>3. CASE r.due = 0 \/ ~r.enabled
  BY <1>3 DEF Expired, Sound
<1>4. CASE ~(r.due = 0 \/ ~r.enabled) /\ Kind(e) = "timer"
  <2> DEFINE s == r.ticks + r.due
  <2>1. s \in 0..MaxFired /\ r.fired = r.got + s + 0
    <3>1. r.fired = r.got + r.ticks + r.due
      BY <1>4 DEF Sound, Accounted
    <3>2. \A m \in Nat : \A f, a, b, c \in 0..m : f = a + b + c =>
            b + c \in 0..m /\ f = a + (b + c) + 0
      OBVIOUS
    <3>3. QED
      BY <1>1, <1>2, <3>1, <3>2
  <2>2. x = [r EXCEPT !.triggered = TRUE, !.ticks = s, !.due = 0]
    BY <1>4 DEF Expired
  <2>3. r.pending = <<>> /\ "timer" # "ampr"
    BY <1>4 DEF Sound
  <2>4. x \in EventType
    <3>1. 0 \in 0..MaxFired
      BY <1>1
    <3> HIDE DEF s, x, r
    <3>2. QED
      BY <1>1, <2>1, <2>2, <3>1 DEF EventType
  <2> HIDE DEF s
  <2>5. /\ x.pending = r.pending /\ x.passed = r.passed /\ x.enabled = r.enabled
        /\ x.fired = r.fired /\ x.got = r.got /\ x.ticks = s /\ x.due = 0
    BY <1>1, <2>2 DEF EventType
  <2> HIDE DEF x
  <2>6. Accounted(x)
    BY <1>1, <1>2, <2>1, <2>5 DEF Accounted
  <2>7. Sound(e, x)
    BY <1>4, <2>3, <2>4, <2>5, <2>6 DEF Sound
  <2>8. QED
    BY <1>4, <2>5, <2>7 DEF x
<1>5. CASE ~(r.due = 0 \/ ~r.enabled) /\ Kind(e) # "timer"
  <2>1. x = [r EXCEPT !.triggered = TRUE]
    BY <1>5 DEF Expired
  <2>2. Kind(e) = "hrtimer"
    BY <1>5 DEF Sound
  <2>3. x \in EventType
    BY <1>1, <2>1 DEF EventType
  <2>4. x.pending = r.pending /\ x.passed = r.passed /\ x.enabled = r.enabled
    BY <1>1, <2>1 DEF EventType
  <2>5. r.pending = <<>>
    BY <2>2 DEF Sound
  <2> HIDE DEF x
  <2>6. Sound(e, x)
    BY <2>2, <2>3, <2>4, <2>5 DEF Sound
  <2>7. QED
    BY <2>2, <2>4, <2>6 DEF x
<1>6. QED
  BY <1>3, <1>4, <1>5

\* What a pass sees of an event that is not a descriptor's.
LEMMA SeenSound ==
  ASSUME NEW e \in Ids, Sound(e, ev[e])
  PROVE  /\ Sound(e, Seen(e))
         /\ Kind(e) \notin {"hrtimer", "timer", "fd"} => Seen(e) = ev[e]
         /\ Kind(e) = "timer" /\ ev[e].enabled => Seen(e).due = 0
         /\ Seen(e).passed = ev[e].passed /\ Seen(e).pending = ev[e].pending
         /\ Seen(e).enabled = ev[e].enabled
<1> DEFINE r == ev[e]
<1>1. CASE Kind(e) = "fd" /\ r.enabled
  <2> DEFINE x == Seen(e)
             b == e \in ready
  <2>1. x = [r EXCEPT !.triggered = b]
    BY <1>1 DEF Seen
  <2>2. r \in EventType /\ b \in BOOLEAN
    BY DEF Sound
  <2> HIDE DEF b
  <2>3. x \in EventType /\ x.pending = r.pending /\ x.passed = r.passed /\ x.enabled = r.enabled
        /\ x.due = r.due
    BY <2>1, <2>2 DEF EventType
  <2>4. r.pending = <<>> /\ r.due = 0
    BY <1>1 DEF Sound
  <2> HIDE DEF x
  <2>5. Sound(e, x)
    BY <1>1, <2>3, <2>4 DEF Sound
  <2>6. QED
    BY <1>1, <2>3, <2>5 DEF x
<1>2. CASE ~(Kind(e) = "fd" /\ r.enabled)
  BY <1>2, ExpiredSound DEF Seen
<1>3. QED
  BY <1>1, <1>2

\* An event that is added again keeps its history.
LEMMA AddedSound ==
  ASSUME NEW e \in Ids, Sound(e, ev[e])
  PROVE  /\ Sound(e, Added(e)) /\ Added(e).passed = ev[e].passed
         /\ Added(e).pending = ev[e].pending /\ Added(e).enabled = ev[e].enabled
         /\ Kind(e) \notin {"hrtimer", "timer"} => Added(e).triggered = ev[e].triggered
<1> DEFINE r == IF Kind(e) = "timer" THEN Expired(e) ELSE ev[e]
           x == Added(e)
<1>1. /\ Sound(e, r) /\ r.passed = ev[e].passed /\ r.pending = ev[e].pending
      /\ r.enabled = ev[e].enabled
      /\ Kind(e) = "timer" /\ r.enabled => r.due = 0
      /\ Kind(e) # "timer" => r = ev[e]
  BY ExpiredSound
<1>2. x = [r EXCEPT !.due = 0]
  BY DEF Added
<1> HIDE DEF r, x
<1>3. MaxFired \in Nat /\ r \in EventType
  BY <1>1, SoundFields
<1>4. x \in EventType
  <2>1. 0 \in 0..MaxFired
    BY <1>3
  <2>2. QED
    BY <1>2, <1>3, <2>1 DEF EventType
<1>5. /\ x.triggered = r.triggered /\ x.enabled = r.enabled /\ x.pending = r.pending
      /\ x.ticks = r.ticks /\ x.due = 0 /\ x.fired = r.fired /\ x.got = r.got
      /\ x.passed = r.passed
  BY <1>2, <1>3 DEF EventType
<1>6. Kind(e) = "timer" => Accounted(x)
  <2>1. SUFFICES ASSUME Accounted(r), r.enabled => r.due = 0 PROVE Accounted(x)
    BY <1>1 DEF Sound
  <2>2. r.due \in 0..MaxFired /\ r.ticks \in 0..MaxFired /\ r.got \in 0..MaxFired
        /\ r.fired \in 0..MaxFired
    BY <1>1, SoundFields
  <2>3. QED
    BY <1>3, <1>5, <2>1, <2>2 DEF Accounted
<1>7. Sound(e, x)
  BY <1>1, <1>4, <1>5, <1>6 DEF Sound
<1>8. QED
  BY <1>1, <1>5, <1>7 DEF x, r

\* A trigger of an AMPR event is the last of its reports.
LEMMA TriggeredSound ==
  ASSUME NEW e \in Ids, Sound(e, ev[e]), Kind(e) \in {"user", "ampr"}, ev[e].fired < MaxFired
  PROVE  /\ Sound(e, Triggered(e)) /\ Triggered(e).passed = ev[e].passed
         /\ Triggered(e).triggered = TRUE /\ Triggered(e).enabled = ev[e].enabled
         /\ Kind(e) = "ampr" => Len(Triggered(e).pending) = Len(ev[e].pending) + 1
<1> DEFINE r == ev[e]
           x == Triggered(e)
<1>1. /\ MaxFired \in Nat /\ r \in EventType /\ r.fired \in 0..MaxFired /\ r.got \in 0..MaxFired
      /\ r.pending \in Seq(1..MaxFired)
  BY SoundFields
<1>2. CASE Kind(e) = "user"
  <2>1. x = [r EXCEPT !.triggered = TRUE]
    BY <1>2 DEF Triggered
  <2>2. x \in EventType /\ x.pending = r.pending /\ x.passed = r.passed /\ x.enabled = r.enabled
        /\ x.due = r.due /\ x.triggered = TRUE
    BY <1>1, <2>1 DEF EventType
  <2> HIDE DEF x
  <2>3. Sound(e, x)
    BY <1>2, <2>2 DEF Sound
  <2>4. QED
    BY <1>2, <2>2, <2>3 DEF x
<1>3. CASE Kind(e) = "ampr"
  <2> DEFINE p == Append(r.pending, r.fired + 1)
             f == r.fired + 1
  <2>1. x = [r EXCEPT !.triggered = TRUE, !.fired = f, !.pending = p]
    BY <1>3 DEF Triggered
  <2>2. f \in 0..MaxFired /\ f \in 1..MaxFired /\ r.got <= r.fired /\ r.got <= f
    BY <1>1, <1>3 DEF Sound
  <2>3. p = Numbers(r.got, f)
    <3>1. r.pending = Numbers(r.got, r.fired)
      BY <1>3 DEF Sound
    <3>2. Append(Numbers(r.got, r.fired), f) = Numbers(r.got, f)
      <4>1. \A g, h \in Nat : g <= h => Append(Numbers(g, h), h + 1) = Numbers(g, h + 1)
        BY NumbersFacts
      <4>2. r.got \in Nat /\ r.fired \in Nat
        BY <1>1
      <4>3. QED
        BY <2>2, <4>1, <4>2
    <3>3. QED
      BY <3>1, <3>2
  <2>4. p \in Seq(1..MaxFired) /\ Len(p) = Len(r.pending) + 1 /\ p # <<>>
    <3>1. \A s \in Seq(1..MaxFired), y \in 1..MaxFired :
            /\ Append(s, y) \in Seq(1..MaxFired) /\ Len(Append(s, y)) = Len(s) + 1
            /\ Append(s, y) # <<>>
      BY AppendProperties
    <3>2. QED
      BY <1>1, <2>2, <3>1
  <2> HIDE DEF p, f
  <2>5. x \in EventType
    BY <1>1, <2>1, <2>2, <2>4 DEF EventType
  <2>6. /\ x.triggered = TRUE /\ x.enabled = r.enabled /\ x.pending = p /\ x.due = r.due
        /\ x.fired = f /\ x.got = r.got /\ x.passed = r.passed
    BY <1>1, <2>1 DEF EventType
  <2> HIDE DEF x
  <2>7. Sound(e, x)
    BY <1>3, <2>2, <2>3, <2>4, <2>5, <2>6 DEF Sound
  <2>8. QED
    BY <1>3, <2>4, <2>6, <2>7 DEF x
<1>4. QED
  BY <1>2, <1>3

\* kevent enables, disables, forces and triggers events, of which a timer is only disabled.
LEMMA EditedSound ==
  ASSUME NEW e \in Ids, Sound(e, ev[e]), Kind(e) # "ampr",
         NEW enabled \in BOOLEAN, NEW forced \in BOOLEAN, NEW triggered \in BOOLEAN,
         Kind(e) = "timer" => ~enabled
  PROVE  LET x == [ev[e] EXCEPT !.enabled = enabled, !.forced = forced, !.triggered = triggered]
         IN  Sound(e, x) /\ x.passed = ev[e].passed
<1> DEFINE r == ev[e]
           x == [r EXCEPT !.enabled = enabled, !.forced = forced, !.triggered = triggered]
<1>1. r \in EventType
  BY SoundFields
<1>2. /\ x \in EventType /\ x.passed = r.passed /\ x.pending = r.pending /\ x.enabled = enabled
      /\ x.due = r.due /\ x.fired = r.fired /\ x.got = r.got /\ x.ticks = r.ticks
  BY <1>1 DEF EventType
<1> HIDE DEF x
<1>3. Sound(e, x)
  BY <1>2 DEF Sound, Accounted
<1>4. QED
  BY <1>2, <1>3 DEF x

\* A period that passes is due.
LEMMA TickedSound ==
  ASSUME NEW e \in Ids, Sound(e, ev[e]), setup \in Setups, Kind(e) \in {"hrtimer", "timer"},
         Flag(e) = "oneshot" => ev[e].due = 0, ev[e].fired < MaxFired
  PROVE  LET x == [ev[e] EXCEPT !.due = @ + 1, !.fired = IF Kind(e) = "timer" THEN @ + 1 ELSE @]
         IN  /\ Sound(e, x) /\ x.passed = ev[e].passed /\ x.pending = ev[e].pending
             /\ x.enabled = ev[e].enabled /\ x.triggered = ev[e].triggered
<1> DEFINE r == ev[e]
           d == r.due + 1
           f == IF Kind(e) = "timer" THEN r.fired + 1 ELSE r.fired
           x == [r EXCEPT !.due = d, !.fired = f]
<1>1. /\ MaxFired \in Nat /\ r \in EventType /\ r.fired \in 0..MaxFired /\ r.got \in 0..MaxFired
      /\ r.ticks \in 0..MaxFired /\ r.due \in 0..MaxFired
  BY SoundFields
<1>2. f \in 0..MaxFired
  BY <1>1
<1>3. d \in 0..MaxFired
  <2>1. CASE Kind(e) = "timer"
    <3>1. r.got + r.ticks + r.due <= r.fired
      BY <2>1 DEF Sound, Accounted
    <3>2. \A m \in Nat : \A a, b, c, g \in 0..m : (a + b + c <= g /\ g < m) => c + 1 \in 0..m
      OBVIOUS
    <3>3. QED
      BY <1>1, <3>1, <3>2
  <2>2. CASE Kind(e) = "hrtimer"
    BY <1>1, <2>2, SetupKinds
  <2>3. QED
    BY <2>1, <2>2
<1>4. Kind(e) = "timer" =>
        r.got + r.ticks + d <= f /\ (r.enabled => f = r.got + r.ticks + d)
  <2>1. ASSUME Kind(e) = "timer"
        PROVE  r.got + r.ticks + d <= f /\ (r.enabled => f = r.got + r.ticks + d)
    <3>1. r.got + r.ticks + r.due <= r.fired
          /\ (r.enabled => r.fired = r.got + r.ticks + r.due)
      BY <2>1 DEF Sound, Accounted
    <3>2. \A a, b, c, g \in Nat :
            /\ a + b + c <= g => a + b + (c + 1) <= g + 1
            /\ g = a + b + c => g + 1 = a + b + (c + 1)
      OBVIOUS
    <3>3. f = r.fired + 1
      BY <2>1
    <3> HIDE DEF r, f
    <3>4. QED
      BY <1>1, <3>1, <3>2, <3>3
  <2>2. QED
    BY <2>1
<1> HIDE DEF d, f
<1>5. /\ x \in EventType /\ x.passed = r.passed /\ x.pending = r.pending /\ x.enabled = r.enabled
      /\ x.triggered = r.triggered /\ x.due = d /\ x.fired = f /\ x.got = r.got
      /\ x.ticks = r.ticks
  BY <1>1, <1>2, <1>3 DEF EventType
<1>6. r.pending = <<>>
  BY DEF Sound
<1> HIDE DEF x
<1>7. Sound(e, x)
  BY <1>4, <1>5, <1>6 DEF Sound, Accounted
<1>8. QED
  BY <1>5, <1>7 DEF x, d, f

\* How many reports a pass may take of an event.
LEMMA ReportsType ==
  ASSUME NEW e \in Ids, Sound(e, ev[e])
  PROVE  /\ Reports(e) \in 0..MaxFired \cup {1}
         /\ Reports(e) > 0 => Seen(e).triggered /\ Seen(e).enabled
         /\ Kind(e) = "ampr" => Reports(e) <= Len(ev[e].pending)
         /\ Kind(e) # "ampr" => Reports(e) <= 1
<1>1. MaxFired \in Nat /\ ev[e].pending \in Seq(1..MaxFired)
      /\ ev[e].got \in 0..MaxFired /\ ev[e].fired \in 0..MaxFired
  BY SoundFields
<1>2. CASE Kind(e) = "ampr"
  <2> DEFINE g == ev[e].got
             f == ev[e].fired
  <2>1. g <= f /\ ev[e].pending = Numbers(g, f)
    BY <1>2 DEF Sound
  <2>2. g \in Nat /\ f \in Nat /\ f - g \in 0..MaxFired
    BY <1>1, <2>1
  <2> HIDE DEF f, g
  <2>3. Len(ev[e].pending) \in 0..MaxFired
    BY <2>1, <2>2, NumbersFacts
  <2>4. QED
    BY <1>1, <1>2, <2>3 DEF Reports
<1>3. CASE Kind(e) # "ampr"
  BY <1>1, <1>3 DEF Reports
<1>4. QED
  BY <1>2, <1>3

\* A pass leaves of an event what it did not take, in the same order.
LEMMA AfterSound ==
  ASSUME NEW e \in Ids, Sound(e, ev[e]), setup \in Setups,
         NEW k \in Nat, k <= Reports(e), NEW levels \in SUBSET Ids
  PROVE  LET x == After(e, k, levels)
         IN  /\ Sound(e, x)
             /\ x.passed = IF k = 0 /\ Seen(e).triggered /\ Seen(e).enabled
                           THEN ev[e].passed \cup levels ELSE {}
             /\ k = 0 => /\ x.triggered = Seen(e).triggered /\ x.enabled = ev[e].enabled
                         /\ x.pending = ev[e].pending
             /\ k > 0 /\ Kind(e) = "ampr" => Len(x.pending) = Len(ev[e].pending) - k
             /\ k > 0 /\ Kind(e) # "ampr" /\ Flag(e) # "level" => x.triggered = FALSE
<1> DEFINE r == Seen(e)
           x == After(e, k, levels)
<1>1. /\ MaxFired \in Nat /\ Sound(e, r) /\ r \in EventType
      /\ r.fired \in 0..MaxFired /\ r.got \in 0..MaxFired /\ r.ticks \in 0..MaxFired
      /\ r.due \in 0..MaxFired /\ r.pending \in Seq(1..MaxFired) /\ r.passed \in SUBSET Ids
      /\ r.triggered \in BOOLEAN /\ r.enabled \in BOOLEAN
      /\ r.passed = ev[e].passed /\ r.pending = ev[e].pending /\ r.enabled = ev[e].enabled
      /\ Kind(e) = "timer" /\ r.enabled => r.due = 0
  BY SeenSound, SoundFields
<1>2. CASE k = 0
  <2> DEFINE p == IF r.triggered /\ r.enabled THEN r.passed \cup levels ELSE {}
  <2>1. x = [r EXCEPT !.passed = p]
    BY <1>2 DEF After
  <2>2. p \in SUBSET Ids
    BY <1>1
  <2>3. p = IF k = 0 /\ r.triggered /\ r.enabled THEN ev[e].passed \cup levels ELSE {}
    BY <1>1, <1>2
  <2> HIDE DEF p, r
  <2>4. /\ x \in EventType /\ x.triggered = r.triggered /\ x.enabled = r.enabled
        /\ x.pending = r.pending /\ x.ticks = r.ticks /\ x.due = r.due /\ x.fired = r.fired
        /\ x.got = r.got /\ x.passed = p
    BY <1>1, <2>1, <2>2 DEF EventType
  <2> HIDE DEF x
  <2>5. Sound(e, x)
    BY <1>1, <2>4 DEF Sound, Accounted
  <2>6. QED
    BY <1>1, <1>2, <2>3, <2>4, <2>5 DEF x, r
<1>3. CASE k > 0
  <2> DEFINE left == SubSeq(r.pending, k + 1, Len(r.pending))
             got == r.got + (IF Kind(e) = "timer" THEN r.ticks ELSE k)
             done == got = r.fired \/ Kind(e) \notin {"ampr", "timer"}
             t == Lasting(e) \/ left # <<>>
             b == Flag(e) # "dispatch"
             p == IF done THEN <<>> ELSE left
             f == IF done THEN 0 ELSE r.fired
             g == IF done THEN 0 ELSE got
  <2>1. x = [r EXCEPT !.triggered = t, !.enabled = b, !.pending = p, !.ticks = 0, !.passed = {},
                      !.fired = f, !.got = g]
    BY <1>3 DEF After
  <2>2. r.triggered /\ r.enabled /\ (Kind(e) # "ampr" => k = 1)
        /\ (Kind(e) = "ampr" => k <= Len(r.pending))
    <3>1. /\ Reports(e) \in Int
          /\ Reports(e) > 0 => r.triggered /\ r.enabled
          /\ Kind(e) = "ampr" => Reports(e) <= Len(r.pending)
          /\ Kind(e) # "ampr" => Reports(e) <= 1
      BY <1>1, ReportsType
    <3>2. Len(r.pending) \in Nat
      BY <1>1
    <3> HIDE DEF r
    <3>3. QED
      BY <1>3, <3>1, <3>2
  <2>3. /\ p \in Seq(1..MaxFired) /\ f \in 0..MaxFired /\ g \in 0..MaxFired
        /\ Kind(e) = "ampr" => /\ g <= f /\ (t <=> p # <<>>) /\ p = Numbers(g, f)
                               /\ Len(p) = Len(r.pending) - k
        /\ Kind(e) # "ampr" => p = <<>> /\ (t => Flag(e) = "level")
        /\ Kind(e) = "timer" => f = 0 /\ g = 0 /\ r.due = 0
    <3>1. CASE Kind(e) = "ampr"
      <4>1. r.got <= r.fired /\ r.pending = Numbers(r.got, r.fired) /\ got = r.got + k
        BY <1>1, <3>1 DEF Sound
      <4> DEFINE h == r.fired
                 c == r.got
      <4>2. c \in Nat /\ h \in Nat /\ h \in 0..MaxFired /\ c <= h
        BY <1>1, <4>1
      <4> HIDE DEF c, h, p, f, g, r
      <4>3. Len(r.pending) = h - c
        BY <4>1, <4>2, NumbersFacts DEF c, h
      <4>4. k \in 0..(h - c) /\ c + k \in Nat /\ c + k <= h /\ c + k \in 0..MaxFired
            /\ h - (c + k) = (h - c) - k
        BY <1>1, <2>2, <3>1, <4>2, <4>3
      <4>5. left = Numbers(c + k, h)
        <5>1. SubSeq(Numbers(c, h), k + 1, h - c) = Numbers(c + k, h)
          <6>1. \A lo, hi \in Nat : lo <= hi =>
                  \A m \in 0..(hi - lo) : SubSeq(Numbers(lo, hi), m + 1, hi - lo) = Numbers(lo + m, hi)
            BY NumbersFacts
          <6>2. QED
            BY <4>2, <4>4, <6>1
        <5>2. QED
          BY <4>1, <4>3, <5>1 DEF c, h
      <4>6. left \in Seq(1..MaxFired) /\ Len(left) = Len(r.pending) - k
            /\ (left = <<>> <=> c + k = h)
        <5>1. /\ Len(Numbers(c + k, h)) = h - (c + k)
              /\ \A m \in Nat : h <= m => Numbers(c + k, h) \in Seq(1..m)
              /\ Numbers(c + k, h) = <<>> <=> c + k = h
          BY <4>2, <4>4, NumbersFacts
        <5> HIDE DEF left
        <5>2. QED
          BY <1>1, <4>2, <4>3, <4>4, <4>5, <5>1
      <4>7. Numbers(0, 0) = <<>> /\ 0 \in 0..MaxFired
        <5>1. Numbers(0, 0) = <<>>
          BY NumbersFacts
        <5>2. QED
          BY <1>1, <5>1
      <4>8. done <=> left = <<>>
        BY <3>1, <4>1, <4>6 DEF c, h
      <4>9. t <=> left # <<>>
        BY <3>1, SetupKinds DEF Lasting
      <4> HIDE DEF left, got, done, t
      <4>10. CASE done
        BY <3>1, <4>4, <4>6, <4>7, <4>8, <4>9, <4>10, EmptySeq DEF p, f, g
      <4>11. CASE ~done
        BY <3>1, <4>1, <4>2, <4>4, <4>5, <4>6, <4>8, <4>9, <4>11 DEF p, f, g, c, h
      <4>12. QED
        BY <4>10, <4>11
    <3>2. CASE Kind(e) # "ampr"
      <4>1. r.pending = <<>> /\ k = 1
        BY <1>1, <2>2, <3>2 DEF Sound
      <4>2. left = <<>>
        <5>1. Len(<<>>) = 0 /\ \A s \in Seq(1..MaxFired) : SubSeq(s, 2, 0) = <<>>
          OBVIOUS
        <5>2. QED
          BY <1>1, <4>1, <5>1
      <4>3. done /\ (Kind(e) = "timer" => r.due = 0)
        <5>1. CASE Kind(e) = "timer"
          <6>1. r.due = 0 /\ r.fired = r.got + r.ticks + r.due
            BY <1>1, <2>2, <5>1 DEF Sound, Accounted
          <6>2. QED
            BY <1>1, <5>1, <6>1
        <5>2. QED
          BY <3>2, <5>1
      <4> HIDE DEF left, done, got
      <4>4. QED
        BY <1>1, <3>2, <4>2, <4>3 DEF Lasting
    <3>3. QED
      BY <3>1, <3>2
  <2>4. t \in BOOLEAN /\ b \in BOOLEAN /\ {} \in SUBSET Ids /\ 0 \in 0..MaxFired
    BY <1>1
  <2>5. (x.passed = {}) => x.passed = IF k = 0 /\ r.triggered /\ r.enabled
                                      THEN ev[e].passed \cup levels ELSE {}
    BY <1>3
  <2> HIDE DEF r, t, b, p, f, g, left, got, done
  <2>6. /\ x \in EventType /\ x.triggered = t /\ x.enabled = b /\ x.pending = p /\ x.ticks = 0
        /\ x.due = r.due /\ x.fired = f /\ x.got = g /\ x.passed = {}
    BY <1>1, <2>1, <2>3, <2>4 DEF EventType
  <2> HIDE DEF x
  <2>7. Sound(e, x)
    <3>1. Kind(e) \notin {"hrtimer", "timer"} => x.due = 0
      BY <1>1, <2>6 DEF Sound
    <3>2. Kind(e) = "timer" => Accounted(x)
      BY <2>3, <2>6 DEF Accounted
    <3>3. QED
      BY <2>3, <2>6, <3>1, <3>2 DEF Sound
  <2>8. k > 0 /\ Kind(e) = "ampr" => Len(x.pending) = Len(ev[e].pending) - k
    BY <1>1, <2>3, <2>6
  <2>9. k > 0 /\ Kind(e) # "ampr" /\ Flag(e) # "level" => x.triggered = FALSE
    BY <2>3, <2>4, <2>6
  <2>10. QED
    BY <1>3, <2>5, <2>6, <2>7, <2>8, <2>9 DEF x, r
<1>4. k = 0 \/ k > 0
  OBVIOUS
<1>5. QED
  BY <1>2, <1>3, <1>4

-----------------------------------------------------------------------------
(* The list of the events *)

\* A member of a list that stands before another.
StandsBefore(s, e, f) == \E i, j \in DOMAIN s : i < j /\ s[i] = e /\ s[j] = f

\* A member that joins or leaves the list lets the others stand as they did.
LEMMA AppendKeepsBefore ==
  ASSUME NEW S, NEW s \in Seq(S), NEW x \in S, NEW e, NEW f, StandsBefore(s, e, f)
  PROVE  StandsBefore(Append(s, x), e, f)
<1> DEFINE r == Append(s, x)
<1>1. /\ r \in Seq(S) /\ Len(r) = Len(s) + 1 /\ \A i \in 1..Len(s) : r[i] = s[i]
  BY AppendProperties
<1> HIDE DEF r
<1>2. Len(s) \in Nat /\ DOMAIN s = 1..Len(s) /\ DOMAIN r = 1..(Len(s) + 1)
  BY <1>1
<1>3. PICK i \in DOMAIN s, j \in DOMAIN s : i < j /\ s[i] = e /\ s[j] = f
  BY DEF StandsBefore
<1>4. i \in DOMAIN r /\ j \in DOMAIN r /\ r[i] = e /\ r[j] = f
  BY <1>1, <1>2, <1>3
<1>5. StandsBefore(r, e, f)
  BY <1>3, <1>4 DEF StandsBefore
<1>6. QED
  BY <1>5 DEF r

LEMMA RemoveKeepsBefore ==
  ASSUME NEW S, NEW s \in Seq(S), NEW p \in 1..Len(s), NEW e, NEW f, StandsBefore(s, e, f),
         e # s[p], f # s[p]
  PROVE  StandsBefore(RemoveAt(s, p), e, f)
<1> DEFINE r == RemoveAt(s, p)
<1>1. /\ r \in Seq(S) /\ Len(r) = Len(s) - 1
      /\ \A i \in 1..(Len(s) - 1) : r[i] = IF i < p THEN s[i] ELSE s[i + 1]
  BY RemoveOnePlaces
<1> HIDE DEF r
<1>2. Len(s) \in Nat /\ DOMAIN s = 1..Len(s) /\ DOMAIN r = 1..(Len(s) - 1) /\ p \in Nat
  BY <1>1
<1>3. PICK i \in DOMAIN s, j \in DOMAIN s : i < j /\ s[i] = e /\ s[j] = f
  BY DEF StandsBefore
<1> DEFINE Place(k) == IF k < p THEN k ELSE k - 1
<1>4. \A k \in DOMAIN s : k # p => Place(k) \in DOMAIN r /\ r[Place(k)] = s[k]
  BY <1>1, <1>2
<1>5. i # p /\ j # p /\ Place(i) < Place(j)
  BY <1>2, <1>3
<1> HIDE DEF Place
<1>6. StandsBefore(r, e, f)
  BY <1>3, <1>4, <1>5 DEF StandsBefore
<1>7. QED
  BY <1>6 DEF r

\* One of two members stands before the other, and no two before each other.
LEMMA OneIsBefore ==
  ASSUME NEW S, NEW s \in Seq(S), IsInjective(s), NEW e \in ToSet(s), NEW f \in ToSet(s), e # f
  PROVE  StandsBefore(s, e, f) <=> ~StandsBefore(s, f, e)
<1>1. Len(s) \in Nat /\ DOMAIN s = 1..Len(s)
  OBVIOUS
<1>2. PICK i \in DOMAIN s : s[i] = e
  BY DEF ToSet
<1>3. PICK j \in DOMAIN s : s[j] = f
  BY DEF ToSet
<1>4. \A k \in DOMAIN s : (s[k] = e => k = i) /\ (s[k] = f => k = j)
  BY <1>2, <1>3 DEF IsInjective
<1>5. StandsBefore(s, e, f) <=> i < j
  BY <1>2, <1>3, <1>4 DEF StandsBefore
<1>6. StandsBefore(s, f, e) <=> j < i
  BY <1>2, <1>3, <1>4 DEF StandsBefore
<1>7. i # j
  BY <1>2, <1>3
<1>8. QED
  BY <1>1, <1>5, <1>6, <1>7

\* What a pass leaves in the list, and in which order.
LEMMA KeptFacts ==
  ASSUME order \in Seq(Ids), IsInjective(order), NEW taking, NEW list \in Kept(taking)
  PROVE  /\ list \in Seq(Ids) /\ IsInjective(list) /\ ToSet(list) = Stays(taking)
         /\ \A e, f \in Stays(taking) :
              (/\ e # f
               /\ IF e \in Requeued(taking) <=> f \in Requeued(taking)
                  THEN StandsBefore(order, e, f) ELSE f \in Requeued(taking))
                => StandsBefore(list, e, f)
<1> DEFINE Fits(s) ==
      \A i, j \in DOMAIN s : i < j =>
        IF s[i] \in Requeued(taking) <=> s[j] \in Requeued(taking)
        THEN Earlier(s[i], s[j]) ELSE s[j] \in Requeued(taking)
<1>1. /\ Stays(taking) \subseteq Ids /\ Stays(taking) \subseteq Registered
      /\ IsFiniteSet(Stays(taking))
  <2>1. Stays(taking) \subseteq Registered /\ Registered \subseteq Ids
    BY DEF Stays, Registered, ToSet
  <2>2. IsFiniteSet(Ids)
    BY EqueueAssumption DEF EqueueAssumption
  <2>3. QED
    BY <2>1, <2>2, FS_Subset
<1>2. /\ list \in Seq(Ids) /\ IsInjective(list) /\ ToSet(list) = Stays(taking) /\ Fits(list)
  <2>1. CASE Stays(taking) = Registered /\ Requeued(taking) = {}
    <3>1. list = order
      BY <2>1 DEF Kept
    <3>2. Fits(order)
      BY <2>1 DEF Earlier
    <3>3. QED
      BY <2>1, <3>1, <3>2 DEF Registered
  <2>2. CASE ~(Stays(taking) = Registered /\ Requeued(taking) = {})
    <3> DEFINE n == Cardinality(Stays(taking))
    <3>1. list \in SetToSeqs(Stays(taking)) /\ Fits(list)
      BY <2>2 DEF Kept
    <3>2. n \in Nat /\ IsFiniteSet(1..n) /\ Cardinality(1..n) = n
      <4>1. n \in Nat
        BY <1>1, FS_CardinalityType
      <4> HIDE DEF n
      <4>2. IsFiniteSet(1..n) /\ Cardinality(1..n) = IF 1 > n THEN 0 ELSE n - 1 + 1
        BY <4>1, FS_Interval
      <4>3. QED
        BY <4>1, <4>2
    <3>3. list \in [1..n -> Stays(taking)] /\ \A i, j \in 1..n : i # j => list[i] # list[j]
      BY <3>1 DEF SetToSeqs
    <3>4. list \in Injection(1..n, Stays(taking))
      BY <3>3 DEF Injection, IsInjective
    <3>5. list \in Surjection(1..n, Stays(taking))
      <4>1. Cardinality(1..n) = Cardinality(Stays(taking))
        BY <3>2
      <4> HIDE DEF n
      <4>2. QED
        BY <1>1, <3>4, <4>1, FS_Injection
    <3> HIDE DEF n
    <3>6. list \in Seq(Ids) /\ DOMAIN list = 1..n
      BY <1>1, <3>2, <3>3
    <3>7. ToSet(list) = Stays(taking)
      BY <3>3, <3>5, <3>6 DEF ToSet, Surjection
    <3>8. QED
      BY <3>1, <3>4, <3>6, <3>7 DEF Injection
  <2>3. QED
    BY <2>1, <2>2
<1>3. ASSUME NEW e \in Stays(taking), NEW f \in Stays(taking), e # f,
             IF e \in Requeued(taking) <=> f \in Requeued(taking)
             THEN StandsBefore(order, e, f) ELSE f \in Requeued(taking)
      PROVE  StandsBefore(list, e, f)
  <2>1. SUFFICES ASSUME StandsBefore(list, f, e) PROVE FALSE
    BY <1>2, <1>3, OneIsBefore
  <2>2. IF f \in Requeued(taking) <=> e \in Requeued(taking)
        THEN StandsBefore(order, f, e) ELSE e \in Requeued(taking)
    BY <1>2, <2>1 DEF StandsBefore, Earlier
  <2>3. e \in ToSet(order) /\ f \in ToSet(order)
    BY <1>1 DEF Registered
  <2>4. QED
    BY <1>3, <2>2, <2>3, OneIsBefore
<1>4. QED
  BY <1>2, <1>3

\* What a pass takes: of each event no more than it has to report, and nothing at
\* all only if no event has anything.
LEMMA TakenFacts ==
  ASSUME order \in Seq(Ids), IsInjective(order), EventsSound, NEW room \in Nat \ {0}
  PROVE  /\ \A e \in Ids : /\ Taken(room)[e] \in Nat /\ Taken(room)[e] <= Reports(e)
                           /\ e \notin Registered => Taken(room)[e] = 0
         /\ Taken(room) = Nothing => \A e \in Registered : Reports(e) = 0
<1>1. MaxFired \in Nat /\ IsFiniteSet(Ids)
  BY EqueueAssumption DEF EqueueAssumption
<1>2. \A e \in Ids : Reports(e) \in Nat
  BY <1>1, ReportsType DEF EventsSound
<1>3. ASSUME NEW e \in Ids PROVE Cardinality(Ahead(e)) \in Nat
  <2>1. Ahead(e) \subseteq Ids \X (0..MaxFired)
    BY DEF Ahead, Registered, ToSet
  <2>2. IsFiniteSet(Ids \X (0..MaxFired))
    <3>1. IsFiniteSet(0..MaxFired)
      BY <1>1, FS_Interval
    <3>2. QED
      BY <1>1, <3>1, FS_Product
  <2>3. QED
    BY <2>1, <2>2, FS_Subset, FS_CardinalityType
<1>4. \A e \in Ids : /\ Taken(room)[e] \in Nat /\ Taken(room)[e] <= Reports(e)
                     /\ e \notin Registered => Taken(room)[e] = 0
  BY <1>2, <1>3 DEF Taken
<1>5. ASSUME NEW d \in Registered, Reports(d) # 0 PROVE Taken(room) # Nothing
  <2> DEFINE S == {i \in DOMAIN order : Reports(order[i]) # 0}
  <2>1. S \in SUBSET Nat
    OBVIOUS
  <2>2. PICK i \in S : TRUE
    BY <1>5 DEF Registered, ToSet
  <2>3. PICK first \in S : \A j \in S : first <= j
    BY <2>1, <2>2, LeastOf
  <2> DEFINE e == order[first]
  <2>4. e \in Ids /\ e \in Registered /\ first \in DOMAIN order /\ Reports(e) # 0
    BY DEF Registered, ToSet
  <2>5. Ahead(e) = {}
    <3>1. SUFFICES ASSUME NEW r \in Ahead(e) PROVE FALSE
      OBVIOUS
    <3>2. r[1] \in Registered /\ r[2] \in 0..MaxFired /\ Earlier(r[1], e) /\ r[2] < Reports(r[1])
      BY DEF Ahead
    <3>3. PICK j \in DOMAIN order, k \in DOMAIN order : j < k /\ order[j] = r[1] /\ order[k] = e
      BY <3>2 DEF Earlier
    <3>4. k = first
      BY <2>4, <3>3 DEF IsInjective
    <3>5. j \notin S
      BY <2>1, <2>3, <3>3, <3>4
    <3>6. Reports(r[1]) = 0
      BY <3>3, <3>5
    <3>7. QED
      BY <1>1, <3>2, <3>6
  <2>6. Cardinality(Ahead(e)) = 0
    BY <2>5, FS_EmptySet
  <2> HIDE DEF e
  <2>7. Taken(room)[e] # 0
    BY <1>2, <2>4, <2>6 DEF Taken
  <2>8. QED
    BY <2>4, <2>7 DEF Nothing
<1>6. QED
  BY <1>4, <1>5

LEMMA AppendIsLast ==
  ASSUME NEW S, NEW s \in Seq(S), NEW x \in S, NEW e \in ToSet(s)
  PROVE  StandsBefore(Append(s, x), e, x)
<1> DEFINE r == Append(s, x)
<1>1. /\ r \in Seq(S) /\ Len(r) = Len(s) + 1 /\ \A i \in 1..Len(s) : r[i] = s[i]
      /\ r[Len(s) + 1] = x
  BY AppendProperties
<1> HIDE DEF r
<1>2. Len(s) \in Nat /\ DOMAIN s = 1..Len(s) /\ DOMAIN r = 1..(Len(s) + 1)
  BY <1>1
<1>3. PICK i \in DOMAIN s : s[i] = e
  BY DEF ToSet
<1>4. i \in DOMAIN r /\ Len(s) + 1 \in DOMAIN r /\ i < Len(s) + 1 /\ r[i] = e
  BY <1>1, <1>2, <1>3
<1>5. StandsBefore(r, e, x)
  BY <1>1, <1>4 DEF StandsBefore
<1>6. QED
  BY <1>5 DEF r

-----------------------------------------------------------------------------
(* The list and its events are kept by every step *)

LEMMA Carried ==
  ASSUME setup' = setup,
         \A e \in Ids : Sound(e, ev'[e]) /\ (e \notin ToSet(order') => ev'[e] = Fresh)
  PROVE  EventsSound'
BY DEF EventsSound, Registered, Sound, Kind, Accounted, EventType, Numbers

\* The events change and the list does not.
LEMMA SameList ==
  ASSUME ListInv, UNCHANGED <<setup, closed, order>>, ev' = [f \in Ids |-> ev'[f]],
         \A f \in Ids : /\ Sound(f, ev'[f]) /\ ev'[f].passed = ev[f].passed
                        /\ f \notin Registered => ev'[f] = ev[f]
  PROVE  ListInv'
<1>1. EventsSound'
  BY Carried DEF ListInv, EventsSound, Registered
<1>2. ev' \in [Ids -> EventType]
  <2>1. \A f \in Ids : ev'[f] \in EventType
    BY DEF Sound
  <2>2. QED
    BY <2>1
<1>3. Registered \subseteq Ids
  BY DEF ListInv, Registered, ToSet
<1>4. LetsAhead'
  BY <1>3 DEF ListInv, LetsAhead, Registered, Earlier, Kind
<1>5. QED
  BY <1>1, <1>2, <1>4 DEF ListInv, EventType

\* One event changes.
LEMMA OneChanges ==
  ASSUME ListInv, UNCHANGED <<setup, closed, order>>, NEW e \in Registered, NEW x,
         Sound(e, x), x.passed = ev[e].passed, ev' = [ev EXCEPT ![e] = x]
  PROVE  ListInv'
<1>1. ev \in [Ids -> EventType] /\ \A f \in Ids : Sound(f, ev[f])
  BY DEF ListInv, EventsSound
<1>2. \A f \in Ids : /\ Sound(f, ev'[f]) /\ ev'[f].passed = ev[f].passed
                     /\ f \notin Registered => ev'[f] = ev[f]
  BY <1>1
<1>3. ev' = [f \in Ids |-> ev'[f]]
  BY <1>1
<1>4. QED
  BY <1>2, <1>3, SameList

LEMMA AddKeepsList == ASSUME ListInv, NEW e \in Ids, AddEvent(e) PROVE ListInv'
<1>1. CASE e \in Registered
  <2>1. ev' = [f \in Ids |-> IF f = e THEN Added(e)
                             ELSE IF Kind(e) = "timer" /\ f \in Registered THEN Expired(f)
                             ELSE ev[f]]
        /\ UNCHANGED <<setup, closed, order>>
    BY <1>1 DEF AddEvent
  <2>2. \A f \in Ids : Sound(f, ev[f])
    BY DEF ListInv, EventsSound
  <2>3. ASSUME NEW f \in Ids
        PROVE  /\ Sound(f, ev'[f]) /\ ev'[f].passed = ev[f].passed
               /\ f \notin Registered => ev'[f] = ev[f]
    BY <1>1, <2>1, <2>2, AddedSound, ExpiredSound
  <2>4. ev' = [f \in Ids |-> ev'[f]]
    BY <2>1
  <2>5. QED
    BY <2>1, <2>3, <2>4, SameList
<1>2. CASE e \notin Registered
  <2>1. order' = Append(order, e) /\ ~closed /\ UNCHANGED <<setup, closed, ev>>
    BY <1>2 DEF AddEvent
  <2>2. order \in Seq(Ids) /\ IsInjective(order)
    BY DEF ListInv
  <2>3. order' \in Seq(Ids) /\ IsInjective(order') /\ ToSet(order') = Registered \cup {e}
    BY <1>2, <2>1, <2>2, AppendNew DEF Registered
  <2>4. EventsSound'
    BY <2>1, <2>3, Carried DEF ListInv, EventsSound
  <2>5. ev[e].passed = {} /\ Registered \subseteq Ids
    BY <1>2, <2>2 DEF ListInv, EventsSound, Fresh, Registered, ToSet
  <2>6. ASSUME NEW d \in ToSet(order'), NEW f \in ToSet(order'), setup.once, f \in ev[d].passed,
               Kind(f) # "fd"
        PROVE  StandsBefore(order', d, f)
    <3>1. d \in Registered
      BY <2>3, <2>5, <2>6
    <3>2. CASE f = e
      BY <2>1, <2>2, <3>1, <3>2, AppendIsLast DEF Registered
    <3>3. CASE f # e
      <4>1. StandsBefore(order, d, f)
        BY <2>3, <2>6, <3>1, <3>3 DEF ListInv, LetsAhead, Earlier, StandsBefore
      <4>2. QED
        BY <2>1, <2>2, <4>1, AppendKeepsBefore
    <3>4. QED
      BY <3>2, <3>3
  <2>7. LetsAhead'
    BY <2>1, <2>6 DEF LetsAhead, Earlier, StandsBefore, Registered, Kind
  <2>8. QED
    BY <2>1, <2>3, <2>4, <2>7 DEF ListInv, EventType
<1>3. QED
  BY <1>1, <1>2

LEMMA DeleteKeepsList == ASSUME ListInv, NEW e \in Ids, DeleteEvent(e) PROVE ListInv'
<1>1. PICK p \in DOMAIN order : order[p] = e /\ order' = RemoveAt(order, p)
  BY DEF DeleteEvent
<1>2. ev' = [ev EXCEPT ![e] = Fresh] /\ ~closed /\ UNCHANGED <<setup, closed>>
  BY DEF DeleteEvent
<1>3. order \in Seq(Ids) /\ IsInjective(order) /\ p \in 1..Len(order)
  BY DEF ListInv
<1>4. order' \in Seq(Ids) /\ IsInjective(order') /\ ToSet(order') = Registered \ {e}
  BY <1>1, <1>3, RemoveOne DEF Registered
<1>5. ev \in [Ids -> EventType] /\ Fresh \in EventType
  BY FreshSound DEF ListInv, Sound
<1>6. EventsSound'
  <2>1. \A f \in Ids : Sound(f, ev'[f]) /\ (f \notin ToSet(order') => ev'[f] = Fresh)
    BY <1>2, <1>4, <1>5, FreshSound DEF ListInv, EventsSound
  <2>2. QED
    BY <1>2, <2>1, Carried
<1>7. ASSUME NEW d \in ToSet(order'), NEW f \in ToSet(order'), setup.once, f \in ev'[d].passed,
             Kind(f) # "fd"
      PROVE  StandsBefore(order', d, f)
  <2>1. d \in Ids /\ d # e /\ f # e /\ d \in Registered /\ f \in Registered /\ ev'[d] = ev[d]
    <3>1. Registered \subseteq Ids
      BY <1>3 DEF Registered, ToSet
    <3>2. QED
      BY <1>2, <1>4, <1>5, <1>7, <3>1
  <2>2. StandsBefore(order, d, f)
    BY <1>7, <2>1 DEF ListInv, LetsAhead, Earlier, StandsBefore
  <2>3. QED
    BY <1>1, <1>3, <2>1, <2>2, RemoveKeepsBefore
<1>8. LetsAhead'
  BY <1>2, <1>7 DEF LetsAhead, Earlier, StandsBefore, Registered, Kind
<1>9. ev' \in [Ids -> EventType]
  BY <1>2, <1>5
<1>10. QED
  BY <1>2, <1>4, <1>6, <1>8, <1>9 DEF ListInv, EventType

LEMMA CloseKeepsList == ASSUME ListInv, Close PROVE ListInv'
<1>1. order' = <<>> /\ ev' = [e \in Ids |-> Fresh] /\ closed' = TRUE /\ setup' = setup
  BY DEF Close
<1>2. order' \in Seq(Ids) /\ IsInjective(order') /\ ToSet(order') = {}
  BY <1>1 DEF IsInjective, ToSet
<1>3. EventsSound' /\ ev' \in [Ids -> EventType]
  <2>1. \A e \in Ids : Sound(e, Fresh) /\ Fresh \in EventType
    BY FreshSound DEF Sound
  <2>2. QED
    BY <1>1, <2>1, Carried
<1>4. LetsAhead'
  BY <1>2 DEF LetsAhead, Registered
<1>5. QED
  BY <1>1, <1>2, <1>3, <1>4 DEF ListInv, EventType

LEMMA TriggerKeepsList == ASSUME ListInv, NEW e \in Ids, TriggerEvent(e) PROVE ListInv'
<1>1. e \in Registered /\ Kind(e) \in {"user", "ampr"} /\ ev[e].fired < MaxFired
      /\ UNCHANGED <<setup, closed, order>>
  BY DEF TriggerEvent
<1>2. Sound(e, ev[e])
  BY DEF ListInv, EventsSound
<1>3. ev' = [ev EXCEPT ![e] = Triggered(e)] \/ ev' = ev
  BY DEF TriggerEvent
<1>4. CASE ev' = [ev EXCEPT ![e] = Triggered(e)]
  BY <1>1, <1>2, <1>4, TriggeredSound, OneChanges
<1>5. CASE ev' = ev
  <2>1. ev' = [ev EXCEPT ![e] = ev[e]]
    BY <1>5 DEF ListInv
  <2>2. QED
    BY <1>1, <1>2, <2>1, OneChanges
<1>6. QED
  BY <1>3, <1>4, <1>5

LEMMA EditKeepsList ==
  ASSUME ListInv, NEW e \in Ids, NEW enabled \in BOOLEAN, NEW force \in BOOLEAN,
         NEW triggered \in BOOLEAN, EditEvent(e, enabled, force, triggered)
  PROVE  ListInv'
<1> DEFINE forced == ev[e].forced \/ force
           x == [ev[e] EXCEPT !.enabled = enabled, !.forced = forced, !.triggered = triggered]
<1>1. /\ e \in Registered /\ (Kind(e) = "timer" => ~enabled) /\ UNCHANGED <<setup, closed, order>>
      /\ setup.once /\ ev' = [ev EXCEPT ![e] = x]
  BY DEF EditEvent, ListInv
<1>2. Sound(e, ev[e]) /\ Kind(e) # "ampr" /\ forced \in BOOLEAN
  BY <1>1, SetupKinds DEF ListInv, EventsSound
<1> HIDE DEF forced
<1>3. Sound(e, x) /\ x.passed = ev[e].passed
  BY <1>1, <1>2, EditedSound
<1> HIDE DEF x
<1>4. QED
  BY <1>1, <1>3, OneChanges

LEMMA TickKeepsList == ASSUME ListInv, NEW e \in Ids, Tick(e) PROVE ListInv'
<1> DEFINE x == [ev[e] EXCEPT !.due = @ + 1, !.fired = IF Kind(e) = "timer" THEN @ + 1 ELSE @]
<1>1. /\ e \in Registered /\ Kind(e) \in {"hrtimer", "timer"} /\ ev[e].fired < MaxFired
      /\ Flag(e) = "oneshot" => ev[e].due = 0
      /\ UNCHANGED <<setup, closed, order>>
      /\ ev' = [ev EXCEPT ![e] = x]
  BY DEF Tick
<1>2. Sound(e, ev[e]) /\ setup \in Setups
  BY DEF ListInv, EventsSound
<1>3. Sound(e, x) /\ x.passed = ev[e].passed
  BY <1>1, <1>2, TickedSound
<1> HIDE DEF x
<1>4. QED
  BY <1>1, <1>3, OneChanges

\* A pass keeps the list sound: level events it reports go behind those that had to wait.
LEMMA CollectKeepsList ==
  ASSUME ListInv, NEW room \in Nat \ {0}, Collect(Taken(room)), UNCHANGED <<setup, closed>>
  PROVE  ListInv'
<1> DEFINE taking == Taken(room)
           levels == {e \in Registered : taking[e] > 0 /\ Flag(e) = "level"}
<1>1. order' \in Kept(taking)
      /\ ev' = [e \in Ids |-> IF e \notin Registered THEN ev[e]
                              ELSE IF taking[e] > 0 /\ Flag(e) = "oneshot" THEN Fresh
                              ELSE After(e, taking[e], levels)]
  BY DEF Collect
<1>2. /\ order \in Seq(Ids) /\ IsInjective(order) /\ EventsSound /\ setup \in Setups
      /\ Registered \subseteq Ids
  BY DEF ListInv, Registered, ToSet
<1>3. \A e \in Ids : taking[e] \in Nat /\ taking[e] <= Reports(e)
  BY <1>2, TakenFacts
<1> HIDE DEF taking
<1>4. /\ order' \in Seq(Ids) /\ IsInjective(order') /\ ToSet(order') = Stays(taking)
      /\ \A e, f \in Stays(taking) :
           (/\ e # f
            /\ IF e \in Requeued(taking) <=> f \in Requeued(taking)
               THEN StandsBefore(order, e, f) ELSE f \in Requeued(taking))
             => StandsBefore(order', e, f)
  BY <1>1, <1>2, KeptFacts
<1>5. levels \in SUBSET Ids
  BY <1>2
<1>6. ASSUME NEW e \in Ids
      PROVE  /\ Sound(e, ev'[e]) /\ (e \notin Stays(taking) => ev'[e] = Fresh)
             /\ ev'[e] \in EventType
             /\ e \in Stays(taking) =>
                  ev'[e].passed = IF taking[e] = 0 /\ Seen(e).triggered /\ Seen(e).enabled
                                  THEN ev[e].passed \cup levels ELSE {}
  <2>1. Sound(e, ev[e]) /\ (e \notin Registered => ev[e] = Fresh)
    BY <1>2 DEF EventsSound
  <2>2. CASE e \notin Stays(taking)
    <3>1. ev'[e] = Fresh
      BY <1>1, <2>1, <2>2 DEF Stays
    <3>2. QED
      BY <2>2, <3>1, FreshSound DEF Sound
  <2>3. CASE e \in Stays(taking)
    <3>1. ev'[e] = After(e, taking[e], levels)
      BY <1>1, <2>3 DEF Stays
    <3> HIDE DEF levels
    <3>2. /\ Sound(e, After(e, taking[e], levels))
          /\ After(e, taking[e], levels).passed =
               IF taking[e] = 0 /\ Seen(e).triggered /\ Seen(e).enabled
               THEN ev[e].passed \cup levels ELSE {}
      BY <1>2, <1>3, <1>5, <2>1, AfterSound
    <3>3. QED
      BY <2>3, <3>1, <3>2 DEF Sound
  <2>4. QED
    BY <2>2, <2>3
<1>7. EventsSound'
  BY <1>4, <1>6, Carried
<1>8. ev' \in [Ids -> EventType]
  BY <1>1, <1>6
<1>9. ASSUME NEW e \in Stays(taking), NEW f \in Stays(taking), setup.once, f \in ev'[e].passed,
             Kind(f) # "fd"
      PROVE  StandsBefore(order', e, f)
  <2>1. e \in Ids /\ e \in Registered /\ f \in Registered
    BY <1>2 DEF Stays
  <2>2. taking[e] = 0 /\ f \in ev[e].passed \cup levels
    BY <1>6, <1>9, <2>1
  <2>3. e \notin levels /\ e \notin Requeued(taking)
    BY <2>2 DEF Requeued
  <2>4. CASE f \in levels
    BY <1>4, <1>9, <2>3, <2>4 DEF Requeued, Lasting
  <2>5. CASE f \in ev[e].passed
    <3>1. StandsBefore(order, e, f)
      BY <1>9, <2>1, <2>5 DEF ListInv, LetsAhead, Earlier, StandsBefore
    <3>2. e # f
      BY <1>2, <3>1 DEF StandsBefore, IsInjective
    <3>3. QED
      BY <1>4, <2>3, <3>1, <3>2
  <2>6. QED
    BY <2>2, <2>4, <2>5
<1>10. LetsAhead'
  BY <1>4, <1>9 DEF LetsAhead, Earlier, StandsBefore, Registered, Kind
<1>11. closed' => order' = <<>>
  <2>1. ASSUME closed PROVE order' = <<>>
    <3>1. order = <<>>
      BY <2>1 DEF ListInv
    <3>2. ToSet(order') = {}
      BY <1>4, <3>1 DEF Stays, Registered, ToSet
    <3>3. DOMAIN order' = {}
      BY <1>4, <3>2 DEF ToSet
    <3>4. QED
      BY <1>4, <3>3, EmptySeq
  <2>2. QED
    BY <2>1
<1>12. QED
  BY <1>2, <1>4, <1>7, <1>8, <1>10, <1>11 DEF ListInv, EventType

-----------------------------------------------------------------------------
(* The waiters and their wakers are kept by every step *)

\* Nothing that the waiters depend on changes.
LEMMA SameSleep == ASSUME SleepInv, UNCHANGED <<setup, closed, pc, wait, signaled>> PROVE SleepInv'
BY DEF SleepInv, CloseEndsWaits, PollsForDescriptors, Polling, Asleep, Kind

\* The queue notifies one sleeper and the pollers.
LEMMA NotifyKeepsSleep ==
  ASSUME SleepInv, ~closed, Notify, UNCHANGED <<setup, closed, wait>>
  PROVE  SleepInv'
<1>1. /\ pc' \in [Waiters -> {"idle", "checking", "asleep", "polling"}]
      /\ Polling' = Polling /\ signaled' \subseteq Polling
  BY DEF SleepInv, Notify, Polling, Asleep
<1>2. QED
  BY <1>1 DEF SleepInv, CloseEndsWaits, PollsForDescriptors, Kind

\* One waiter moves on.
LEMMA MoveKeepsSleep ==
  ASSUME SleepInv, NEW w \in Waiters, NEW x \in {"idle", "checking", "asleep", "polling"},
         pc' = [pc EXCEPT ![w] = x], wait' \in [Waiters -> WaitType],
         \A v \in Waiters : v # w => wait'[v] = wait[v], UNCHANGED <<setup, closed>>,
         signaled' = IF pc[w] = "polling" THEN signaled \ {w} ELSE signaled,
         closed => x \in {"idle", "checking"} \/ (x = "asleep" /\ wait'[w].brief),
         wait'[w].brief => wait[w].brief \/ pc[w] = "polling",
         x = "polling" => \E e \in Ids : Kind(e) = "fd"
  PROVE  SleepInv'
<1>1. /\ pc \in [Waiters -> {"idle", "checking", "asleep", "polling"}]
      /\ signaled \subseteq Polling
  BY DEF SleepInv
<1>2. \A v \in Waiters : pc'[v] = IF v = w THEN x ELSE pc[v]
  BY <1>1
<1>3. pc' \in [Waiters -> {"idle", "checking", "asleep", "polling"}]
  BY <1>1
<1>4. signaled' \subseteq Polling'
  BY <1>1, <1>2 DEF Polling
<1>5. CloseEndsWaits'
  BY <1>1, <1>2 DEF SleepInv, CloseEndsWaits, Polling, Asleep
<1>6. PollsForDescriptors'
  BY <1>1, <1>2 DEF SleepInv, PollsForDescriptors, Polling, Kind
<1>7. QED
  BY <1>3, <1>4, <1>5, <1>6 DEF SleepInv

LEMMA NoWaitType == NoWait \in WaitType /\ NoWait.brief = FALSE
BY EqueueAssumption DEF EqueueAssumption, NoWait, WaitType

LEMMA LeaveKeepsSleep ==
  ASSUME SleepInv, NEW w \in Waiters, pc[w] = "checking", LeaveWait(w), UNCHANGED <<setup, closed>>
  PROVE  SleepInv'
<1>1. wait' = [wait EXCEPT ![w] = NoWait] /\ pc' = [pc EXCEPT ![w] = "idle"] /\ signaled' = signaled
  BY DEF LeaveWait
<1>2. wait \in [Waiters -> WaitType]
  BY DEF SleepInv, WaitType
<1>3. wait' \in [Waiters -> WaitType] /\ wait'[w].brief = FALSE
  BY <1>1, <1>2, NoWaitType
<1>4. \A v \in Waiters : v # w => wait'[v] = wait[v]
  BY <1>1, <1>2
<1>5. QED
  BY <1>1, <1>3, <1>4, MoveKeepsSleep DEF WaitType

LEMMA FallAsleepKeepsSleep ==
  ASSUME SleepInv, Registered \subseteq Ids, NEW w \in Waiters, pc[w] = "checking", ~closed,
         FallAsleep(w), UNCHANGED <<setup, closed>>
  PROVE  SleepInv' /\ wait'[w].brief = FALSE
<1> DEFINE x == IF \E e \in Registered : Kind(e) = "fd" /\ ev[e].enabled
                THEN "polling" ELSE "asleep"
           W == {e \in Registered : /\ Kind(e) \in {"hrtimer", "timer"}
                                    /\ ev[e].enabled /\ ~Seen(e).triggered}
           r == [wait[w] EXCEPT !.brief = FALSE, !.watches = W]
<1>1. pc' = [pc EXCEPT ![w] = x] /\ signaled' = signaled
  BY DEF FallAsleep
<1>2. x \in {"asleep", "polling"} /\ (x = "polling" => \E e \in Ids : Kind(e) = "fd")
  OBVIOUS
<1>3. wait \in [Waiters -> WaitType] /\ W \in SUBSET Ids
  BY DEF SleepInv, WaitType
<1>4. wait' = [wait EXCEPT ![w] = r]
  BY <1>3 DEF FallAsleep
<1> HIDE DEF x, W
<1>5. r \in WaitType /\ r.brief = FALSE
  BY <1>3 DEF WaitType
<1> HIDE DEF r
<1>6. wait' \in [Waiters -> WaitType] /\ wait'[w].brief = FALSE
      /\ \A v \in Waiters : v # w => wait'[v] = wait[v]
  BY <1>3, <1>4, <1>5
<1>7. QED
  BY <1>1, <1>2, <1>6, MoveKeepsSleep DEF WaitType

LEMMA WaitKeepsSleep ==
  ASSUME SleepInv, NEW w \in Waiters, NEW room \in 1..MaxRoom, NEW limited \in BOOLEAN,
         WaitForEvents(w, room, limited)
  PROVE  SleepInv' /\ wait'[w].brief = FALSE
<1> DEFINE r == [NoWait EXCEPT !.room = room, !.limited = limited]
<1>1. /\ pc[w] = "idle" /\ ~closed /\ pc' = [pc EXCEPT ![w] = "checking"]
      /\ wait' = [wait EXCEPT ![w] = r] /\ UNCHANGED <<setup, closed, signaled>>
  BY DEF WaitForEvents
<1>2. wait \in [Waiters -> WaitType]
  BY DEF SleepInv, WaitType
<1>3. r \in WaitType /\ r.brief = FALSE
  BY NoWaitType DEF WaitType
<1> HIDE DEF r
<1>4. wait' \in [Waiters -> WaitType] /\ wait'[w].brief = FALSE
      /\ \A v \in Waiters : v # w => wait'[v] = wait[v]
  BY <1>1, <1>2, <1>3
<1>5. QED
  BY <1>1, <1>4, MoveKeepsSleep DEF WaitType

\* A sleep or a poll ends.
LEMMA WakeKeepsSleep ==
  ASSUME SleepInv, NEW w \in Waiters, Interrupted(w) \/ TimesOut(w) \/ Wakes(w)
  PROVE  SleepInv'
<1>1. /\ pc[w] \in {"polling", "asleep"} /\ pc' = [pc EXCEPT ![w] = "checking"]
      /\ UNCHANGED <<setup, closed, wait>>
      /\ signaled' = IF pc[w] = "polling" THEN signaled \ {w} ELSE signaled
  BY DEF Interrupted, TimesOut, Wakes, PollEnds
<1>2. wait' \in [Waiters -> WaitType]
  BY <1>1 DEF SleepInv
<1>3. QED
  BY <1>1, <1>2, MoveKeepsSleep

LEMMA LastMillisecondKeepsSleep ==
  ASSUME SleepInv, NEW w \in Waiters, LastMillisecond(w)
  PROVE  SleepInv' /\ Polling # {}
<1> DEFINE r == [wait[w] EXCEPT !.brief = TRUE]
<1>1. /\ pc[w] = "polling" /\ pc' = [pc EXCEPT ![w] = "asleep"] /\ signaled' = signaled \ {w}
      /\ UNCHANGED <<setup, closed>>
  BY DEF LastMillisecond
<1>2. wait \in [Waiters -> WaitType]
  BY DEF SleepInv, WaitType
<1>3. wait' = [wait EXCEPT ![w] = r]
  BY <1>2 DEF LastMillisecond
<1>4. r \in WaitType /\ r.brief = TRUE
  BY <1>2 DEF WaitType
<1> HIDE DEF r
<1>5. wait' \in [Waiters -> WaitType] /\ wait'[w].brief = TRUE
      /\ \A v \in Waiters : v # w => wait'[v] = wait[v]
  BY <1>2, <1>3, <1>4
<1>6. Polling # {}
  BY <1>1 DEF Polling
<1>7. QED
  BY <1>1, <1>5, <1>6, MoveKeepsSleep DEF WaitType

LEMMA CloseKeepsSleep == ASSUME SleepInv, Close PROVE SleepInv'
<1>1. /\ closed' = TRUE /\ UNCHANGED <<setup, wait>> /\ signaled' = signaled \cup Polling
      /\ pc' = [w \in Waiters |-> IF w \in Asleep THEN "checking" ELSE pc[w]]
  BY DEF Close
<1>2. /\ pc' \in [Waiters -> {"idle", "checking", "asleep", "polling"}]
      /\ Polling' = Polling /\ Asleep' = {} /\ signaled' \subseteq Polling
  BY <1>1 DEF SleepInv, Polling, Asleep
<1>3. QED
  BY <1>1, <1>2 DEF SleepInv, CloseEndsWaits, PollsForDescriptors, Kind

LEMMA DeleteKeepsSleep == ASSUME SleepInv, NEW e \in Ids, DeleteEvent(e) PROVE SleepInv'
<1>1. /\ ~closed /\ UNCHANGED <<setup, closed, pc, wait>> /\ signaled' = signaled \cup Polling
  BY DEF DeleteEvent
<1>2. Polling' = Polling /\ signaled' \subseteq Polling
  BY <1>1 DEF SleepInv, Polling
<1>3. QED
  BY <1>1, <1>2 DEF SleepInv, CloseEndsWaits, PollsForDescriptors, Kind

-----------------------------------------------------------------------------
(* No more reports than waiters that are awake *)

LEMMA Finitely ==
  /\ \A S \in SUBSET (Ids \X (0..MaxFired)) : IsFiniteSet(S) /\ Cardinality(S) \in Nat
  /\ \A S \in SUBSET Waiters : IsFiniteSet(S) /\ Cardinality(S) \in Nat
<1>1. IsFiniteSet(Ids) /\ IsFiniteSet(Waiters) /\ IsFiniteSet(0..MaxFired)
  BY EqueueAssumption, FS_Interval DEF EqueueAssumption
<1>2. IsFiniteSet(Ids \X (0..MaxFired))
  BY <1>1, FS_Product
<1>3. QED
  BY <1>1, <1>2, FS_Subset, FS_CardinalityType

\* Nothing new to report, and nobody goes to sleep.
LEMMA NoMore ==
  ASSUME NoMissedTrigger, setup' = setup, RipeReports' \subseteq RipeReports,
         Attentive \subseteq Attentive', Asleep' \subseteq Asleep
  PROVE  NoMissedTrigger'
<1>1. SUFFICES ASSUME EachReportedOnce', (Asleep \ Attentive)' # {}
               PROVE  (Cardinality(RipeReports) <= Cardinality(Attentive))'
  BY DEF NoMissedTrigger
<1>2. EachReportedOnce /\ Asleep \ Attentive # {}
  BY <1>1 DEF EachReportedOnce, Kind
<1>3. /\ RipeReports \in SUBSET (Ids \X (0..MaxFired)) /\ Attentive' \in SUBSET Waiters
      /\ RipeReports' \in SUBSET RipeReports /\ Attentive \in SUBSET Attentive'
      /\ Attentive \in SUBSET Waiters /\ RipeReports' \in SUBSET (Ids \X (0..MaxFired))
  BY DEF RipeReports, Attentive
<1>4. Cardinality(RipeReports') <= Cardinality(RipeReports)
      /\ Cardinality(Attentive) <= Cardinality(Attentive')
  BY <1>3, Finitely, FS_Subset
<1>5. Cardinality(RipeReports) <= Cardinality(Attentive)
  BY <1>2 DEF NoMissedTrigger
<1>6. Cardinality(RipeReports') <= Cardinality(Attentive')
  BY <1>3, <1>4, <1>5, Finitely
<1>7. QED
  BY <1>6

\* One more report, and a sleeper that is woken for it.
LEMMA OneMoreNotified ==
  ASSUME SleepInv, NoMissedTrigger, Notify, UNCHANGED <<setup, wait>>, NEW x,
         EachReportedOnce => RipeReports' \subseteq RipeReports \cup {x}
  PROVE  NoMissedTrigger'
<1>1. SUFFICES ASSUME EachReportedOnce', (Asleep \ Attentive)' # {}
               PROVE  (Cardinality(RipeReports) <= Cardinality(Attentive))'
  BY DEF NoMissedTrigger
<1>2. EachReportedOnce
  BY <1>1 DEF EachReportedOnce, Kind
<1>3. \A w \in Waiters : ~wait[w].brief
  BY <1>2 DEF SleepInv, PollsForDescriptors, EachReportedOnce
<1>4. PICK w \in Asleep : pc' = [pc EXCEPT ![w] = "checking"]
  <2>1. Asleep # {}
    BY <1>1 DEF Notify, Asleep
  <2>2. QED
    BY <2>1 DEF Notify
<1>5. w \in Waiters /\ w \notin Attentive /\ Attentive' = Attentive \cup {w}
  BY <1>3, <1>4 DEF SleepInv, Attentive, Asleep
<1>6. Cardinality(RipeReports) <= Cardinality(Attentive)
  BY <1>2, <1>4, <1>5 DEF NoMissedTrigger
<1>7. /\ RipeReports \in SUBSET (Ids \X (0..MaxFired)) /\ Attentive \in SUBSET Waiters
      /\ RipeReports' \in SUBSET (Ids \X (0..MaxFired))
  BY DEF RipeReports, Attentive
<1>8. Cardinality(Attentive') = Cardinality(Attentive) + 1
  BY <1>5, <1>7, Finitely, FS_AddElement
<1>9. Cardinality(RipeReports') <= Cardinality(RipeReports) + 1
  <2> DEFINE S == RipeReports \cup {x}
  <2>1. IsFiniteSet(S)
        /\ Cardinality(S) = IF x \in RipeReports THEN Cardinality(RipeReports)
                            ELSE Cardinality(RipeReports) + 1
    BY <1>7, Finitely, FS_AddElement
  <2>2. RipeReports' \in SUBSET S
    BY <1>2
  <2> HIDE DEF S
  <2>3. Cardinality(RipeReports') <= Cardinality(S)
    BY <2>1, <2>2, FS_Subset
  <2>4. QED
    BY <1>7, <2>1, <2>3, Finitely
<1>10. Cardinality(RipeReports') <= Cardinality(Attentive')
  BY <1>6, <1>7, <1>8, <1>9, Finitely
<1>11. QED
  BY <1>10

LEMMA AddNotifies ==
  ASSUME ListInv, SleepInv, NoMissedTrigger, NEW e \in Ids, AddEvent(e)
  PROVE  NoMissedTrigger'
<1>1. Notify /\ UNCHANGED <<setup, wait>>
  BY DEF AddEvent
<1>2. ASSUME EachReportedOnce PROVE RipeReports' \subseteq RipeReports
  <2>1. \A f \in Ids : Sound(f, ev[f]) /\ (f \notin Registered => ev[f] = Fresh)
    BY DEF ListInv, EventsSound
  <2>2. CASE e \in Registered
    <3>1. order' = order
          /\ ev' = [f \in Ids |-> IF f = e THEN Added(e)
                                  ELSE IF Kind(e) = "timer" /\ f \in Registered THEN Expired(f)
                                  ELSE ev[f]]
      BY <2>2 DEF AddEvent
    <3>2. Kind(e) \notin {"hrtimer", "timer"}
      BY <1>2 DEF EachReportedOnce
    <3>3. \A f \in Ids : /\ ev'[f].triggered = ev[f].triggered /\ ev'[f].enabled = ev[f].enabled
                         /\ ev'[f].pending = ev[f].pending
      BY <2>1, <3>1, <3>2, AddedSound
    <3>4. \A f \in Ids : Ripe(f)' = Ripe(f)
      BY <1>1, <3>1, <3>3 DEF Ripe, Kind, Registered
    <3>5. QED
      BY <3>4 DEF RipeReports
  <2>3. CASE e \notin Registered
    <3>1. order' = Append(order, e) /\ ev' = ev
      BY <2>3 DEF AddEvent
    <3>2. ToSet(order') = Registered \cup {e}
      BY <2>3, <3>1, AppendNew DEF ListInv, Registered
    <3>3. ev[e].triggered = FALSE
      BY <2>1, <2>3 DEF Fresh
    <3>4. \A f \in Ids : Ripe(f)' = Ripe(f)
      BY <1>1, <2>3, <3>1, <3>2, <3>3 DEF Ripe, Kind, Registered
    <3>5. QED
      BY <3>4 DEF RipeReports
  <2>4. QED
    BY <2>2, <2>3
<1>3. EachReportedOnce => RipeReports' \subseteq RipeReports \cup {e}
  BY <1>2
<1>4. QED
  BY <1>1, <1>3, OneMoreNotified

LEMMA TriggerNotifies ==
  ASSUME ListInv, SleepInv, NoMissedTrigger, NEW e \in Ids, TriggerEvent(e)
  PROVE  NoMissedTrigger'
<1> DEFINE n == IF Kind(e) = "ampr" THEN Len(ev[e].pending) ELSE 0
<1>1. /\ Notify /\ UNCHANGED <<setup, order, wait>> /\ Kind(e) \in {"user", "ampr"}
      /\ ev[e].fired < MaxFired
      /\ ev' = ev \/ ev' = [ev EXCEPT ![e] = Triggered(e)]
  BY DEF TriggerEvent
<1>2. Sound(e, ev[e]) /\ ev \in [Ids -> EventType]
  BY DEF ListInv, EventsSound
<1>3. n \in Nat /\ ev[e].pending \in Seq(1..MaxFired) /\ ev[e].triggered \in BOOLEAN
  BY <1>2, SoundFields
<1>4. \A f \in Ids \ {e} : Ripe(f)' = Ripe(f)
  BY <1>1, <1>2 DEF Ripe, Kind, Registered
<1>5. \A m \in Nat : m < Ripe(e)' => m < Ripe(e) \/ m = n
  <2>1. CASE ev' = ev
    BY <1>1, <2>1 DEF Ripe, Kind, Registered
  <2>2. CASE ev' = [ev EXCEPT ![e] = Triggered(e)]
    <3>1. /\ ev'[e].enabled = ev[e].enabled
          /\ Kind(e) = "ampr" => Len(ev'[e].pending) = Len(ev[e].pending) + 1
      BY <1>1, <1>2, <2>2, TriggeredSound
    <3>2. CASE Kind(e) = "user"
      BY <1>1, <3>2 DEF Ripe, Kind, Registered
    <3>3. CASE Kind(e) = "ampr"
      <4>1. ev[e].triggered <=> n # 0
        BY <1>2, <1>3, <3>3, EmptySeq DEF Sound
      <4>2. n = Len(ev[e].pending)
        BY <3>3
      <4> HIDE DEF n
      <4>3. QED
        BY <1>1, <1>3, <3>1, <3>3, <4>1, <4>2 DEF Ripe, Kind, Registered
    <3>4. QED
      BY <1>1, <3>2, <3>3
  <2>3. QED
    BY <1>1, <2>1, <2>2
<1> HIDE DEF n
<1>6. RipeReports' \subseteq RipeReports \cup {<<e, n>>}
  <2>1. SUFFICES ASSUME NEW r \in Ids \X (0..MaxFired), r[2] < Ripe(r[1])', r \notin RipeReports
                 PROVE  r = <<e, n>>
    BY DEF RipeReports
  <2>2. ~(r[2] < Ripe(r[1]))
    BY <2>1 DEF RipeReports
  <2>3. r[1] = e
    BY <1>4, <2>1, <2>2
  <2>4. r[2] \in Nat
    BY EqueueAssumption DEF EqueueAssumption
  <2>5. r[2] = n
    BY <1>5, <2>1, <2>2, <2>3, <2>4
  <2>6. QED
    BY <2>3, <2>5
<1>7. QED
  BY <1>1, <1>6, OneMoreNotified

LEMMA EditNotifies ==
  ASSUME ListInv, SleepInv, NoMissedTrigger, NEW e \in Ids, NEW enabled, NEW force,
         NEW triggered, EditEvent(e, enabled, force, triggered)
  PROVE  NoMissedTrigger'
<1>1. /\ Notify /\ UNCHANGED <<setup, order, wait>> /\ setup.once
      /\ \A f \in Ids \ {e} : ev'[f] = ev[f]
  BY DEF EditEvent, ListInv
<1>2. setup \in Setups /\ ev \in [Ids -> EventType]
  BY DEF ListInv
<1>3. Kind(e) # "ampr"
  BY <1>1, <1>2, SetupKinds
<1>4. \A f \in Ids \ {e} : Ripe(f)' = Ripe(f)
  BY <1>1, <1>2 DEF Ripe, Kind, Registered
<1>5. \A m \in Nat : m < Ripe(e)' => m = 0
  BY <1>1, <1>3 DEF Ripe, Kind
<1>6. RipeReports' \subseteq RipeReports \cup {<<e, 0>>}
  <2>1. SUFFICES ASSUME NEW r \in Ids \X (0..MaxFired), r[2] < Ripe(r[1])', r \notin RipeReports
                 PROVE  r = <<e, 0>>
    BY DEF RipeReports
  <2>2. r[1] = e
    BY <1>4, <2>1 DEF RipeReports
  <2>3. r[2] \in Nat
    BY EqueueAssumption DEF EqueueAssumption
  <2>4. QED
    BY <1>5, <2>1, <2>2, <2>3
<1>7. QED
  BY <1>1, <1>6, OneMoreNotified

LEMMA DeleteMissesNothing ==
  ASSUME ListInv, NoMissedTrigger, NEW e \in Ids, DeleteEvent(e)
  PROVE  NoMissedTrigger'
<1>1. PICK p \in DOMAIN order : order[p] = e /\ order' = RemoveAt(order, p)
  BY DEF DeleteEvent
<1>2. ev' = [ev EXCEPT ![e] = Fresh] /\ UNCHANGED <<setup, pc, wait>>
  BY DEF DeleteEvent
<1>3. order \in Seq(Ids) /\ IsInjective(order) /\ p \in 1..Len(order) /\ ev \in [Ids -> EventType]
  BY DEF ListInv
<1>4. ToSet(order') = Registered \ {e}
  BY <1>1, <1>3, RemoveOne DEF Registered
<1>5. \A f \in Ids : Ripe(f)' = IF f = e THEN 0 ELSE Ripe(f)
  BY <1>2, <1>3, <1>4 DEF Ripe, Kind, Registered
<1>6. RipeReports' \subseteq RipeReports
  <2>1. \A r \in Ids \X (0..MaxFired) : ~(r[2] < 0)
    BY EqueueAssumption DEF EqueueAssumption
  <2>2. QED
    BY <1>5, <2>1 DEF RipeReports
<1>7. Attentive' = Attentive /\ Asleep' = Asleep
  BY <1>2 DEF Attentive, Asleep
<1>8. QED
  BY <1>2, <1>6, <1>7, NoMore

LEMMA CloseMissesNothing == ASSUME SleepInv, NoMissedTrigger, Close PROVE NoMissedTrigger'
<1>1. pc' = [w \in Waiters |-> IF w \in Asleep THEN "checking" ELSE pc[w]]
  BY DEF Close
<1>2. Asleep' = {}
  BY <1>1 DEF Asleep
<1>3. QED
  BY <1>2 DEF NoMissedTrigger

\* A pass takes what is ripe.
LEMMA CollectTakes ==
  ASSUME ListInv, EachReportedOnce, NEW room \in Nat \ {0}, Collect(Taken(room)), setup' = setup
  PROVE  /\ \A e \in Ids : /\ Ripe(e) \in Nat /\ Ripe(e)' \in Nat /\ Taken(room)[e] \in Nat
                           /\ Ripe(e) \in 0..MaxFired \cup {1}
                           /\ Taken(room)[e] <= Ripe(e)
                           /\ Ripe(e)' <= Ripe(e) - Taken(room)[e]
         /\ Taken(room) = Nothing => \A e \in Ids : Ripe(e) = 0
<1> DEFINE taking == Taken(room)
           levels == {e \in Registered : taking[e] > 0 /\ Flag(e) = "level"}
<1>1. order' \in Kept(taking)
      /\ ev' = [e \in Ids |-> IF e \notin Registered THEN ev[e]
                              ELSE IF taking[e] > 0 /\ Flag(e) = "oneshot" THEN Fresh
                              ELSE After(e, taking[e], levels)]
  BY DEF Collect
<1>2. /\ order \in Seq(Ids) /\ IsInjective(order) /\ EventsSound /\ setup \in Setups
      /\ Registered \subseteq Ids /\ MaxFired \in Nat
  BY EqueueAssumption DEF EqueueAssumption, ListInv, Registered, ToSet
<1>3. /\ \A e \in Ids : taking[e] \in Nat /\ taking[e] <= Reports(e)
                        /\ (e \notin Registered => taking[e] = 0)
      /\ taking = Nothing => \A e \in Registered : Reports(e) = 0
  BY <1>2, TakenFacts
<1> HIDE DEF taking
<1>4. ToSet(order') = Stays(taking)
  BY <1>1, <1>2, KeptFacts
<1>5. levels \in SUBSET Ids
  BY <1>2
<1> HIDE DEF levels
<1>6. ASSUME NEW e \in Ids
      PROVE  /\ e \in Registered => Ripe(e) = Reports(e)
             /\ e \notin Registered => Ripe(e) = 0
             /\ Ripe(e) \in Nat /\ Ripe(e) \in 0..MaxFired \cup {1}
             /\ Ripe(e)' \in Nat /\ taking[e] <= Ripe(e) /\ Ripe(e)' <= Ripe(e) - taking[e]
  <2>1. /\ Sound(e, ev[e]) /\ Kind(e) \in {"user", "ampr", "unused"} /\ Flag(e) # "level"
        /\ Seen(e) = ev[e]
    BY <1>2, SeenSound DEF EventsSound, EachReportedOnce, Flag
  <2>2. /\ e \in Registered => Ripe(e) = Reports(e)
        /\ e \notin Registered => Ripe(e) = 0
    BY <2>1 DEF Ripe, Reports
  <2>3. Ripe(e) \in 0..MaxFired \cup {1} /\ Ripe(e) \in Nat
    BY <1>2, <2>1, <2>2, ReportsType
  <2>4. taking[e] <= Ripe(e) /\ taking[e] \in Nat
    BY <1>3, <2>2
  <2>5. CASE e \notin Stays(taking)
    <3>1. Ripe(e)' = 0
      BY <1>4, <2>5 DEF Ripe, Registered
    <3>2. QED
      BY <2>2, <2>3, <2>4, <3>1
  <2>6. CASE e \in Stays(taking)
    <3> DEFINE x == After(e, taking[e], levels)
    <3>1. ev'[e] = x /\ e \in Registered
      BY <1>1, <2>6 DEF Stays
    <3>2. /\ Sound(e, x)
          /\ taking[e] = 0 => /\ x.triggered = ev[e].triggered /\ x.enabled = ev[e].enabled
                             /\ x.pending = ev[e].pending
          /\ taking[e] > 0 /\ Kind(e) = "ampr" => Len(x.pending) = Len(ev[e].pending) - taking[e]
          /\ taking[e] > 0 /\ Kind(e) # "ampr" => x.triggered = FALSE
      <4>1. taking[e] \in Nat /\ taking[e] <= Reports(e)
        BY <1>3
      <4>2. /\ Sound(e, x)
            /\ taking[e] = 0 => /\ x.triggered = Seen(e).triggered
                               /\ x.enabled = ev[e].enabled /\ x.pending = ev[e].pending
            /\ taking[e] > 0 /\ Kind(e) = "ampr" => Len(x.pending) = Len(ev[e].pending) - taking[e]
            /\ taking[e] > 0 /\ Kind(e) # "ampr" /\ Flag(e) # "level" => x.triggered = FALSE
        <5>1. Sound(e, ev[e]) /\ setup \in Setups
          BY <1>2, <2>1
        <5>2. \A k \in Nat, L \in SUBSET Ids :
                k <= Reports(e) =>
                  /\ Sound(e, After(e, k, L))
                  /\ k = 0 => /\ After(e, k, L).triggered = Seen(e).triggered
                              /\ After(e, k, L).enabled = ev[e].enabled
                              /\ After(e, k, L).pending = ev[e].pending
                  /\ k > 0 /\ Kind(e) = "ampr" =>
                       Len(After(e, k, L).pending) = Len(ev[e].pending) - k
                  /\ k > 0 /\ Kind(e) # "ampr" /\ Flag(e) # "level" =>
                       After(e, k, L).triggered = FALSE
          BY <5>1, AfterSound
        <5>3. QED
          BY <1>5, <4>1, <5>2
      <4> HIDE DEF x
      <4>3. QED
        BY <2>1, <4>2
    <3> HIDE DEF x
    <3>3. Len(x.pending) \in Nat
      BY <3>2, SoundFields
    <3>4. Ripe(e)' = IF ~(x.enabled /\ x.triggered) THEN 0
                     ELSE IF Kind(e) = "ampr" THEN Len(x.pending) ELSE 1
      BY <1>4, <2>6, <3>1 DEF Ripe, Registered, Kind
    <3>5. Ripe(e) = IF ~(ev[e].enabled /\ ev[e].triggered) THEN 0
                    ELSE IF Kind(e) = "ampr" THEN Len(ev[e].pending) ELSE 1
      BY <3>1 DEF Ripe
    <3>6. CASE taking[e] = 0
      BY <2>2, <2>3, <2>4, <3>2, <3>4, <3>5, <3>6
    <3>7. CASE taking[e] > 0 /\ Kind(e) = "ampr"
      BY <2>2, <2>3, <2>4, <3>2, <3>3, <3>4, <3>5, <3>7
    <3>8. CASE taking[e] > 0 /\ Kind(e) # "ampr"
      BY <2>2, <2>3, <2>4, <3>2, <3>4, <3>8
    <3>9. QED
      BY <2>4, <3>6, <3>7, <3>8
  <2>7. QED
    BY <2>2, <2>3, <2>4, <2>5, <2>6
<1>7. taking = Nothing => \A e \in Ids : Ripe(e) = 0
  BY <1>3, <1>6
<1>8. QED
  BY <1>3, <1>6, <1>7 DEF taking

LEMMA PollMissesNothing ==
  ASSUME ListInv, NoMissedTrigger, NEW room \in Nat \ {0}, Collect(Taken(room)),
         UNCHANGED <<setup, pc, wait>>
  PROVE  NoMissedTrigger'
<1>1. CASE EachReportedOnce
  <2>1. \A e \in Ids : Ripe(e)' <= Ripe(e) /\ Ripe(e) \in Nat /\ Ripe(e)' \in Nat
    BY <1>1, CollectTakes
  <2>2. RipeReports' \subseteq RipeReports
    BY <2>1, EqueueAssumption DEF RipeReports, EqueueAssumption
  <2>3. Attentive' = Attentive /\ Asleep' = Asleep
    BY DEF Attentive, Asleep
  <2>4. QED
    BY <2>2, <2>3, NoMore
<1>2. CASE ~EachReportedOnce
  BY <1>2 DEF NoMissedTrigger, EachReportedOnce, Kind
<1>3. QED
  BY <1>1, <1>2

LEMMA PassMissesNothing ==
  ASSUME ListInv, SleepInv, NoMissedTrigger, NEW w \in Waiters, Pass(w)
  PROVE  NoMissedTrigger'
<1> DEFINE taking == Taken(wait[w].room)
<1>1. /\ pc[w] = "checking" /\ setup' = setup /\ Collect(taking)
      /\ taking # Nothing => LeaveWait(w)
  BY DEF Pass
<1>2. wait[w].room \in Nat \ {0} /\ wait \in [Waiters -> WaitType]
      /\ pc \in [Waiters -> {"idle", "checking", "asleep", "polling"}]
  BY EqueueAssumption DEF EqueueAssumption, SleepInv, WaitType
<1>3. SUFFICES ASSUME EachReportedOnce', (Asleep \ Attentive)' # {}
               PROVE  (Cardinality(RipeReports) <= Cardinality(Attentive))'
  BY DEF NoMissedTrigger
<1>4. EachReportedOnce
  BY <1>1, <1>3 DEF EachReportedOnce, Kind
<1>5. /\ \A e \in Ids : /\ Ripe(e) \in Nat /\ Ripe(e)' \in Nat /\ taking[e] \in Nat
                        /\ Ripe(e) \in 0..MaxFired \cup {1}
                        /\ taking[e] <= Ripe(e) /\ Ripe(e)' <= Ripe(e) - taking[e]
      /\ taking = Nothing => \A e \in Ids : Ripe(e) = 0
  BY <1>1, <1>2, <1>4, CollectTakes
<1>6. taking \in [Ids -> Nat] /\ MaxFired \in Nat
  BY <1>5, EqueueAssumption DEF Taken, EqueueAssumption
<1> HIDE DEF taking
<1>7. /\ RipeReports \in SUBSET (Ids \X (0..MaxFired)) /\ Attentive \in SUBSET Waiters
      /\ RipeReports' \in SUBSET (Ids \X (0..MaxFired)) /\ Attentive' \in SUBSET Waiters
  BY DEF RipeReports, Attentive
<1>8. CASE taking = Nothing
  <2>1. \A e \in Ids : Ripe(e) = 0 /\ taking[e] = 0
    BY <1>5, <1>8 DEF Nothing
  <2>2. \A e \in Ids : ~\E m \in 0..MaxFired : m < Ripe(e)'
    BY <1>5, <1>6, <2>1
  <2>3. RipeReports' = {}
    BY <2>2 DEF RipeReports
  <2>4. Cardinality(RipeReports') = 0
    BY <2>3, FS_EmptySet
  <2>5. QED
    BY <1>7, <2>4, Finitely
<1>9. CASE taking # Nothing
  <2>1. PICK e \in Ids : taking[e] # 0
    BY <1>6, <1>9 DEF Nothing
  <2> DEFINE r == <<e, Ripe(e) - 1>>
  <2>2. r \in RipeReports
    BY <1>5, <1>6, <2>1 DEF RipeReports
  <2>3. RipeReports' \subseteq RipeReports \ {r}
    <3>1. ASSUME NEW q \in Ids \X (0..MaxFired), q[2] < Ripe(q[1])'
          PROVE  q[2] < Ripe(q[1]) /\ q # r
      <4>1. q[2] \in Nat /\ q[1] \in Ids
        BY <1>6
      <4>2. q[2] < Ripe(q[1]) - taking[q[1]]
        BY <1>5, <3>1, <4>1
      <4>3. q[2] < Ripe(q[1])
        BY <1>5, <4>1, <4>2
      <4>4. q[1] = e => q[2] # Ripe(e) - 1
        BY <1>5, <2>1, <4>1, <4>2
      <4>5. QED
        BY <4>3, <4>4
    <3>2. QED
      BY <3>1 DEF RipeReports
  <2> HIDE DEF r
  <2>4. Cardinality(RipeReports') <= Cardinality(RipeReports) - 1
    <3>1. IsFiniteSet(RipeReports \ {r})
          /\ Cardinality(RipeReports \ {r}) = Cardinality(RipeReports) - 1
      BY <1>7, <2>2, Finitely, FS_RemoveElement
    <3>2. QED
      BY <2>3, <3>1, FS_Subset
  <2>5. pc' = [pc EXCEPT ![w] = "idle"] /\ wait' = [wait EXCEPT ![w] = NoWait]
    BY <1>1, <1>9 DEF LeaveWait
  <2>6. w \in Attentive /\ Attentive' = Attentive \ {w}
    BY <1>1, <1>2, <2>5, NoWaitType DEF Attentive
  <2>7. Asleep \ Attentive # {}
    BY <1>2, <1>3, <2>5, <2>6 DEF Asleep
  <2>8. Cardinality(RipeReports) <= Cardinality(Attentive)
    BY <1>4, <2>7 DEF NoMissedTrigger
  <2>9. Cardinality(Attentive') = Cardinality(Attentive) - 1
    BY <1>7, <2>6, Finitely, FS_RemoveElement
  <2>10. Cardinality(RipeReports') <= Cardinality(Attentive')
    BY <1>7, <2>4, <2>8, <2>9, Finitely
  <2>11. QED
    BY <2>10
<1>10. QED
  BY <1>8, <1>9

\* The events stay as they are, and nobody goes to sleep.
LEMMA SameEvents ==
  ASSUME NoMissedTrigger, UNCHANGED <<setup, order, ev>>,
         Attentive \subseteq Attentive', Asleep' \subseteq Asleep
  PROVE  NoMissedTrigger'
<1>1. \A f \in Ids : Ripe(f)' = Ripe(f)
  BY DEF Ripe, Kind, Registered
<1>2. RipeReports' \subseteq RipeReports
  BY <1>1 DEF RipeReports
<1>3. QED
  BY <1>2, NoMore

-----------------------------------------------------------------------------
(* The invariant *)

LEMMA EqueueStarts == EqueueInit => EqueueInv
<1> SUFFICES ASSUME EqueueInit PROVE EqueueInv
  OBVIOUS
<1>1. /\ setup \in Setups /\ closed = FALSE /\ order = <<>> /\ ev = [e \in Ids |-> Fresh]
      /\ ready = {} /\ pc = [w \in Waiters |-> "idle"] /\ signaled = {}
      /\ wait = [w \in Waiters |-> NoWait]
  BY DEF EqueueInit
<1>2. order \in Seq(Ids) /\ IsInjective(order) /\ Registered = {}
  BY <1>1 DEF IsInjective, Registered, ToSet
<1>3. ev \in [Ids -> EventType] /\ \A e \in Ids : Sound(e, ev[e]) /\ ev[e] = Fresh
  BY <1>1, FreshSound DEF Sound
<1>4. ListInv
  BY <1>1, <1>2, <1>3 DEF ListInv, EventsSound, LetsAhead
<1>5. Asleep = {} /\ Polling = {}
  BY <1>1 DEF Asleep, Polling
<1>6. SleepInv
  <2>1. wait \in [Waiters -> WaitType] /\ \A w \in Waiters : ~wait[w].brief
    BY <1>1, NoWaitType
  <2>2. pc \in [Waiters -> {"idle", "checking", "asleep", "polling"}]
    BY <1>1
  <2>3. QED
    BY <1>1, <1>5, <2>1, <2>2 DEF SleepInv, WaitType, CloseEndsWaits, PollsForDescriptors
<1>7. NoMissedTrigger
  BY <1>5 DEF NoMissedTrigger
<1>8. QED
  BY <1>1, <1>4, <1>6, <1>7 DEF EqueueInv

LEMMA PassKeeps == ASSUME EqueueInv, NEW w \in Waiters, Pass(w) PROVE EqueueInv'
<1>1. ListInv /\ SleepInv /\ NoMissedTrigger /\ ready' = ready
  BY DEF EqueueInv, Pass
<1>2. /\ pc[w] = "checking" /\ Collect(Taken(wait[w].room)) /\ UNCHANGED <<setup, closed>>
      /\ LeaveWait(w) \/ (~closed /\ FallAsleep(w))
  BY DEF Pass
<1>3. wait[w].room \in Nat \ {0}
  BY <1>1, EqueueAssumption DEF EqueueAssumption, SleepInv, WaitType
<1>4. ListInv'
  BY <1>1, <1>2, <1>3, CollectKeepsList
<1>5. SleepInv'
  <2>1. Registered \subseteq Ids
    BY <1>1 DEF ListInv, Registered, ToSet
  <2>2. QED
    BY <1>1, <1>2, <2>1, LeaveKeepsSleep, FallAsleepKeepsSleep
<1>6. NoMissedTrigger'
  BY <1>1, PassMissesNothing
<1>7. QED
  BY <1>1, <1>4, <1>5, <1>6 DEF EqueueInv

LEMMA PollKeeps ==
  ASSUME EqueueInv, NEW w \in Waiters, NEW room \in 1..MaxRoom, GetTriggeredEvents(w, room)
  PROVE  EqueueInv'
<1>1. ListInv /\ SleepInv /\ NoMissedTrigger
  BY DEF EqueueInv
<1>2. Collect(Taken(room)) /\ UNCHANGED <<setup, closed, ready, pc, wait, signaled>>
      /\ room \in Nat \ {0}
  BY EqueueAssumption DEF EqueueAssumption, GetTriggeredEvents
<1>3. QED
  BY <1>1, <1>2, CollectKeepsList, SameSleep, PollMissesNothing DEF EqueueInv

\* A waiter comes to look at the events, or wakes.
LEMMA LookKeeps ==
  ASSUME EqueueInv, NEW w \in Waiters,
         \/ Interrupted(w) \/ TimesOut(w) \/ Wakes(w)
         \/ \E room \in 1..MaxRoom : \E limited \in BOOLEAN : WaitForEvents(w, room, limited)
  PROVE  EqueueInv'
<1>1. ListInv /\ SleepInv /\ NoMissedTrigger
  BY DEF EqueueInv
<1>2. /\ pc' = [pc EXCEPT ![w] = "checking"] /\ UNCHANGED <<setup, closed, order, ev, ready>>
      /\ \A v \in Waiters : v # w => wait'[v] = wait[v]
  BY <1>1 DEF SleepInv, Interrupted, TimesOut, Wakes, PollEnds, WaitForEvents
<1>3. SleepInv'
  BY <1>1, WakeKeepsSleep, WaitKeepsSleep
<1>4. ListInv'
  <2>1. \A f \in Ids : Sound(f, ev[f])
    BY <1>1 DEF ListInv, EventsSound
  <2>2. ev' = [f \in Ids |-> ev'[f]]
    BY <1>1, <1>2 DEF ListInv
  <2>3. QED
    BY <1>1, <1>2, <2>1, <2>2, SameList
<1>5. Attentive \subseteq Attentive' /\ Asleep' \subseteq Asleep
  BY <1>1, <1>2 DEF SleepInv, Attentive, Asleep
<1>6. QED
  BY <1>1, <1>2, <1>3, <1>4, <1>5, SameEvents DEF EqueueInv

LEMMA LastMillisecondKeeps ==
  ASSUME EqueueInv, NEW w \in Waiters, LastMillisecond(w) PROVE EqueueInv'
<1>1. ListInv /\ SleepInv /\ UNCHANGED <<setup, closed, order, ev, ready>>
  BY DEF EqueueInv, LastMillisecond
<1>2. SleepInv' /\ Polling # {}
  BY <1>1, LastMillisecondKeepsSleep
<1>3. ListInv'
  <2>1. \A f \in Ids : Sound(f, ev[f])
    BY <1>1 DEF ListInv, EventsSound
  <2>2. ev' = [f \in Ids |-> ev'[f]]
    BY <1>1 DEF ListInv
  <2>3. QED
    BY <1>1, <2>1, <2>2, SameList
<1>4. NoMissedTrigger'
  BY <1>1, <1>2 DEF SleepInv, PollsForDescriptors, NoMissedTrigger, EachReportedOnce, Kind
<1>5. QED
  BY <1>1, <1>2, <1>3, <1>4 DEF EqueueInv

LEMMA TickKeeps == ASSUME EqueueInv, NEW e \in Ids, Tick(e) PROVE EqueueInv'
<1>1. /\ ListInv /\ SleepInv /\ UNCHANGED <<setup, closed, order, ready, pc, wait, signaled>>
      /\ Kind(e) \in {"hrtimer", "timer"}
  BY DEF EqueueInv, Tick
<1>2. NoMissedTrigger'
  BY <1>1 DEF NoMissedTrigger, EachReportedOnce, Kind
<1>3. QED
  BY <1>1, <1>2, TickKeepsList, SameSleep DEF EqueueInv

\* Nothing happens, or a descriptor changes.
LEMMA SameKeeps ==
  ASSUME EqueueInv, ready' \subseteq Ids, UNCHANGED <<setup, closed, order, ev, pc, wait, signaled>>
  PROVE  EqueueInv'
<1>1. ListInv /\ SleepInv /\ NoMissedTrigger
  BY DEF EqueueInv
<1>2. ListInv'
  <2>1. \A f \in Ids : Sound(f, ev[f])
    BY <1>1 DEF ListInv, EventsSound
  <2>2. ev' = [f \in Ids |-> ev'[f]]
    BY <1>1 DEF ListInv
  <2>3. QED
    BY <1>1, <2>1, <2>2, SameList
<1>3. Attentive' = Attentive /\ Asleep' = Asleep
  BY DEF Attentive, Asleep
<1>4. QED
  BY <1>1, <1>2, <1>3, SameSleep, SameEvents DEF EqueueInv

LEMMA EqueueStep == EqueueInv /\ [EqueueNext]_equeueVars => EqueueInv'
<1> SUFFICES ASSUME EqueueInv, [EqueueNext]_equeueVars PROVE EqueueInv'
  OBVIOUS
<1>1. ready \subseteq Ids /\ ListInv /\ SleepInv /\ NoMissedTrigger
  BY DEF EqueueInv
<1>2. ASSUME NEW e \in Ids, AddEvent(e) PROVE EqueueInv'
  <2>1. ~closed /\ Notify /\ UNCHANGED <<setup, closed, ready, wait>>
    BY <1>2 DEF AddEvent
  <2>2. QED
    BY <1>1, <1>2, <2>1, AddKeepsList, NotifyKeepsSleep, AddNotifies DEF EqueueInv
<1>3. ASSUME NEW e \in Ids, TriggerEvent(e) PROVE EqueueInv'
  <2>1. ~closed /\ Notify /\ UNCHANGED <<setup, closed, ready, wait>>
    BY <1>3 DEF TriggerEvent
  <2>2. QED
    BY <1>1, <1>3, <2>1, TriggerKeepsList, NotifyKeepsSleep, TriggerNotifies DEF EqueueInv
<1>4. ASSUME NEW e \in Ids, NEW enabled \in BOOLEAN, NEW force \in BOOLEAN,
             NEW triggered \in BOOLEAN, EditEvent(e, enabled, force, triggered)
      PROVE  EqueueInv'
  <2>1. ~closed /\ Notify /\ UNCHANGED <<setup, closed, ready, wait>>
    BY <1>4 DEF EditEvent
  <2>2. QED
    BY <1>1, <1>4, <2>1, EditKeepsList, NotifyKeepsSleep, EditNotifies DEF EqueueInv
<1>5. ASSUME NEW e \in Ids, DeleteEvent(e) PROVE EqueueInv'
  <2>1. ready' = ready
    BY <1>5 DEF DeleteEvent
  <2>2. QED
    BY <1>1, <1>5, <2>1, DeleteKeepsList, DeleteKeepsSleep, DeleteMissesNothing DEF EqueueInv
<1>6. ASSUME NEW e \in Ids, DescriptorChanges(e) PROVE EqueueInv'
  <2>1. ready' \subseteq Ids /\ UNCHANGED <<setup, closed, order, ev, pc, wait, signaled>>
    BY <1>1, <1>6 DEF DescriptorChanges
  <2>2. QED
    BY <2>1, SameKeeps
<1>7. CASE Close
  <2>1. ready' = ready
    BY <1>7 DEF Close
  <2>2. QED
    BY <1>1, <1>7, <2>1, CloseKeepsList, CloseKeepsSleep, CloseMissesNothing DEF EqueueInv
<1>8. CASE UNCHANGED equeueVars
  BY <1>1, <1>8, SameKeeps DEF equeueVars
<1>9. QED
  BY <1>2, <1>3, <1>4, <1>5, <1>6, <1>7, <1>8, TickKeeps, PassKeeps, PollKeeps, LookKeeps,
     LastMillisecondKeeps DEF EqueueNext

\* The invariant holds in every state of the queue.
THEOREM EqueueInvariantHolds == EqueueSpec => []EqueueInv
BY EqueueStarts, EqueueStep, PTL DEF EqueueSpec

\* Every state has its type, no event is listed twice and no poller is signaled
\* that does not poll.
THEOREM EqueueTypeCorrect == EqueueSpec => []EqueueTypeOK
<1>1. EqueueInv => EqueueTypeOK
  BY DEF EqueueInv, ListInv, SleepInv, EqueueTypeOK, EventType, WaitType
<1>2. QED
  BY <1>1, EqueueInvariantHolds, PTL

\* However many wait and however little room they have, nobody sleeps beside more
\* reports than there are waiters on their way to take them, where every event is
\* reported once: TriggerEvent, AddEvent and EditEvent wake enough by waking one.
THEOREM NoMissedTriggerHolds == EqueueSpec => []NoMissedTrigger
<1>1. EqueueInv => NoMissedTrigger
  BY DEF EqueueInv
<1>2. QED
  BY <1>1, EqueueInvariantHolds, PTL

\* CollectTriggered and TriggerExpiredTimers lose no trigger of an AMPR event and
\* no period of an enabled timer, and report none twice.
THEOREM NothingLostHolds == EqueueSpec => []NothingLost
<1>1. EqueueInv => NothingLost
  <2>1. SUFFICES ASSUME EqueueInv PROVE NothingLost
    OBVIOUS
  <2>2. Registered \subseteq Ids /\ \A e \in Ids : Sound(e, ev[e])
    BY <2>1 DEF EqueueInv, ListInv, EventsSound, Registered, ToSet
  <2>3. QED
    BY <2>2 DEF NothingLost, Sound, Accounted, Numbers
<1>2. QED
  BY <1>1, EqueueInvariantHolds, PTL

\* CollectOncePerWait keeps in front what had to wait for room: a level event that it
\* reported, and that its report left triggered, is behind every event passed over meanwhile.
THEOREM LastingEventsRotateHolds == EqueueSpec => []LastingEventsRotate
<1>1. EqueueInv => LastingEventsRotate
  <2>1. SUFFICES ASSUME EqueueInv, NEW i \in DOMAIN order, NEW j \in DOMAIN order, setup.once,
                        order[j] \in ev[order[i]].passed, Kind(order[j]) # "fd"
                 PROVE  i < j
    BY DEF LastingEventsRotate
  <2>2. Earlier(order[i], order[j]) /\ IsInjective(order)
    BY <2>1 DEF EqueueInv, ListInv, LetsAhead, Registered, ToSet
  <2>3. QED
    BY <2>2 DEF Earlier, IsInjective
<1>2. QED
  BY <1>1, EqueueInvariantHolds, PTL

\* Close leaves nobody asleep who does not look again.
THEOREM CloseEndsWaitsHolds == EqueueSpec => []CloseEndsWaits
<1>1. EqueueInv => CloseEndsWaits
  BY DEF EqueueInv, SleepInv
<1>2. QED
  BY <1>1, EqueueInvariantHolds, PTL
===============================================================================
