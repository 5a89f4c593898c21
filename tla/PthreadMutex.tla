----------------------------- MODULE PthreadMutex -----------------------------
(***************************************************************************)
(* Guest mutexes (libkernel/Pthread/src/Mutex.cpp) over the parking lot of *)
(* TimedWait (libkernel/Time/TimedWait.cpp, TimedWait.hpp, ParkAcquire) as *)
(* built for Windows with precise waits.                                   *)
(*                                                                         *)
(* A lock call tries the native mutex, then counts itself into a bucket,   *)
(* queues a waiter there, tries again and only then sleeps on the waiter's *)
(* event.  An unlock frees the native mutex first and looks at the bucket  *)
(* afterwards, without the lock when the bucket's count is zero.  Every    *)
(* atomic access and every section under a bucket's lock is a step of its  *)
(* own.  try_lock of the native mutex fails only while it is held.         *)
(*                                                                         *)
(* The guest is taken to hold at most one mutex at a time and to destroy a *)
(* mutex only when no other thread still uses it; attributes, and a second *)
(* Init over a live mutex, are left out.                                   *)
(***************************************************************************)
EXTENDS Integers, FiniteSets, SequencesExt

CONSTANTS
  Threads,      \* guest threads
  Mutexes,      \* PthreadMutexPrivate objects: the keys of the parking lot
  Buckets,      \* parkBuckets
  BucketOf,     \* ParkBucketFor: the bucket a key hashes to
  Recursive,    \* the mutexes of type Recursive; the others refuse a relock
  MaxDepth,     \* bound on the levels of a recursive mutex
  NoThread      \* std::thread::id{}

ASSUME ConstantsAssumption ==
  /\ IsFiniteSet(Threads)
  /\ BucketOf \in [Mutexes -> Buckets]
  /\ Recursive \subseteq Mutexes
  /\ MaxDepth \in Nat \ {0}
  /\ NoThread \notin Threads

VARIABLES
  native,       \* who holds _mtx or _rmtx
  owner,        \* _owner
  count,        \* _count
  alive,        \* the handle names an object (else it was destroyed)
  parked,       \* ParkBucket::parked
  queue,        \* the bucket's list of waiters, by thread
  event,        \* threads whose waiter's event is set
  pc, target,   \* where a thread is in its call, and on which mutex
  timed         \* its call has a deadline

objects == <<native, owner, count, alive>>
lot == <<parked, queue, event>>
vars == <<objects, lot, pc, target, timed>>

\* Counted in `parked`, not yet released.
InLot == {"queueing", "rechecking", "parked", "cancelling", "left", "woken", "expired"}
\* A waiter is queued, or was taken off the queue by an unlocker.
Enqueued == {"rechecking", "parked", "cancelling"}
\* The native mutex is held by a call that is on its way in or out.
HoldsInCall == {"cancelling", "left", "taken", "releasing"}
\* The unlocker released the native mutex and has not finished Unpark.
AfterRelease == {"unparking", "scanning"}
States == InLot \cup HoldsInCall \cup AfterRelease
            \cup {"idle", "spinning", "counting", "retrying", "lastTry"}

TypeOK ==
  /\ native \in [Mutexes -> Threads \cup {NoThread}]
  /\ owner \in [Mutexes -> Threads \cup {NoThread}]
  /\ count \in [Mutexes -> 0..MaxDepth]
  /\ alive \in [Mutexes -> BOOLEAN]
  /\ parked \in [Buckets -> Nat]
  /\ queue \in [Buckets -> Seq(Threads)]
  /\ event \subseteq Threads
  /\ pc \in [Threads -> States]
  /\ target \in [Threads -> Mutexes]
  /\ timed \in [Threads -> BOOLEAN]

-----------------------------------------------------------------------------
(* Pieces of the entry points *)

Free(m) == native[m] = NoThread
Holds(t, m) == owner[m] = t
BucketFor(t) == BucketOf[target[t]]

GoTo(t, state) == pc' = [pc EXCEPT ![t] = state]

\* The waiters Unpark may release: the ones of its key.  It takes the first.
MatchingAny(m) == DOMAIN queue[BucketOf[m]]
Matching(m) == {i \in DOMAIN queue[BucketOf[m]] : target[queue[BucketOf[m]][i]] = m}
IsFirstMatching(m, i) == i \in Matching(m) /\ \A j \in Matching(m) : i <= j

\* try_lock after BeginPark failed: the thread may go to sleep.
MaySleepUnchecked(m) == TRUE
MaySleep(m) == ~Free(m)

\* The events once thread t consumed its own.
Unconsumed(t) == event
Consumed(t) == event \ {t}

\* LeavePark that finds its waiter still queued, at place i.
LeaveQueue(t, i) ==
  /\ queue[BucketFor(t)][i] = t
  /\ queue' = [queue EXCEPT ![BucketFor(t)] = RemoveAt(@, i)]
  /\ UNCHANGED event

\* LeavePark that finds its waiter gone: the signal is on its event and is consumed.
LeaveSignaled(t) ==
  /\ t \notin ToSet(queue[BucketFor(t)])
  /\ event' = Consumed(t)
  /\ UNCHANGED queue

\* The native mutex is unlocked for good: the outermost level of a recursive one.
LastLevelAlways(m) == TRUE
LastLevel(m) == m \in Recursive => count[m] = 1

\* ReleaseParked: the bucket's count after thread t left the lot.
Released(t) == [parked EXCEPT ![BucketFor(t)] = @ - 1]

-----------------------------------------------------------------------------
Init ==
  /\ native = [m \in Mutexes |-> NoThread]
  /\ owner = [m \in Mutexes |-> NoThread]
  /\ count = [m \in Mutexes |-> 0]
  /\ alive = [m \in Mutexes |-> TRUE]
  /\ parked = [b \in Buckets |-> 0]
  /\ queue = [b \in Buckets |-> <<>>]
  /\ event = {}
  /\ pc = [t \in Threads |-> "idle"]
  /\ target \in [Threads -> Mutexes]
  /\ timed = [t \in Threads |-> FALSE]

-----------------------------------------------------------------------------
(* Locking *)

\* acquireMutex on a mutex the caller does not own; the guest holds no other one.
Lock(t, m, withTimeout) ==
  /\ pc[t] = "idle"
  /\ alive[m]
  /\ \A n \in Mutexes : ~Holds(t, n)
  /\ GoTo(t, "spinning")
  /\ target' = [target EXCEPT ![t] = m]
  /\ timed' = [timed EXCEPT ![t] = withTimeout]
  /\ UNCHANGED <<objects, lot>>

\* scePthreadMutexTrylock that gets the mutex.
TryLock(t, m) ==
  /\ pc[t] = "idle"
  /\ alive[m]
  /\ \A n \in Mutexes : ~Holds(t, n)
  /\ Free(m)
  /\ native' = [native EXCEPT ![m] = t]
  /\ GoTo(t, "taken")
  /\ target' = [target EXCEPT ![t] = m]
  /\ UNCHANGED <<owner, count, alive, lot, timed>>

\* Any lock call of the owner of a recursive mutex: the first try succeeds.
Relock(t, m) ==
  /\ pc[t] = "idle"
  /\ Holds(t, m)
  /\ m \in Recursive
  /\ count[m] < MaxDepth
  /\ count' = [count EXCEPT ![m] = @ + 1]
  /\ UNCHANGED <<native, owner, alive, lot, pc, target, timed>>

\* A try_lock of the native mutex from state `from` that succeeds.
Try(t, from, to) ==
  /\ pc[t] = from
  /\ Free(target[t])
  /\ native' = [native EXCEPT ![target[t]] = t]
  /\ GoTo(t, to)
  /\ UNCHANGED <<owner, count, alive, lot, target, timed>>

SpinAcquires(t) == Try(t, "spinning", "taken")
RecheckAcquires(t) == Try(t, "rechecking", "cancelling")
RetryAcquires(t) == Try(t, "retrying", "taken")
LastTryAcquires(t) == Try(t, "lastTry", "taken")

\* The last of the PARK_SPINS tries fails.
SpinFails(t) ==
  /\ pc[t] = "spinning"
  /\ ~Free(target[t])
  /\ GoTo(t, "counting")
  /\ UNCHANGED <<objects, lot, target, timed>>

\* BeginPark: the fetch_add.
CountIn(t) ==
  /\ pc[t] = "counting"
  /\ parked' = [parked EXCEPT ![BucketFor(t)] = @ + 1]
  /\ GoTo(t, "queueing")
  /\ UNCHANGED <<objects, queue, event, target, timed>>

\* BeginPark: the waiter joins the bucket's list under its lock.
Enqueue(t) ==
  /\ pc[t] = "queueing"
  /\ queue' = [queue EXCEPT ![BucketFor(t)] = Append(@, t)]
  /\ GoTo(t, "rechecking")
  /\ UNCHANGED <<objects, parked, event, target, timed>>

RecheckFails(t) ==
  /\ pc[t] = "rechecking"
  /\ MaySleep(target[t])
  /\ GoTo(t, "parked")
  /\ UNCHANGED <<objects, lot, target, timed>>

\* CancelPark: LeavePark after the second try succeeded.
CancelLeaves(t) ==
  /\ pc[t] = "cancelling"
  /\ \/ \E i \in DOMAIN queue[BucketFor(t)] : LeaveQueue(t, i)
     \/ LeaveSignaled(t)
  /\ GoTo(t, "left")
  /\ UNCHANGED <<objects, parked, target, timed>>

\* CancelPark: ReleaseParked.
CancelReleases(t) ==
  /\ pc[t] = "left"
  /\ parked' = Released(t)
  /\ GoTo(t, "taken")
  /\ UNCHANGED <<objects, queue, event, target, timed>>

\* FinishPark: the wait returns because the event was set; the event resets itself.
Wake(t) ==
  /\ pc[t] = "parked"
  /\ t \in event
  /\ event' = Consumed(t)
  /\ GoTo(t, "woken")
  /\ UNCHANGED <<objects, parked, queue, target, timed>>

\* FinishPark: the deadline passes and nobody signaled the waiter.
TimeOut(t, i) ==
  /\ pc[t] = "parked"
  /\ timed[t]
  /\ LeaveQueue(t, i)
  /\ GoTo(t, "expired")
  /\ UNCHANGED <<objects, parked, target, timed>>

\* FinishPark: the deadline passes, but a signal came first.
TimeOutSignaled(t) ==
  /\ pc[t] = "parked"
  /\ timed[t]
  /\ LeaveSignaled(t)
  /\ GoTo(t, "woken")
  /\ UNCHANGED <<objects, parked, target, timed>>

\* FinishPark: ReleaseParked, signaled.
WokenReleases(t) ==
  /\ pc[t] = "woken"
  /\ parked' = Released(t)
  /\ GoTo(t, "retrying")
  /\ UNCHANGED <<objects, queue, event, target, timed>>

\* FinishPark: ReleaseParked, timed out.
ExpiredReleases(t) ==
  /\ pc[t] = "expired"
  /\ parked' = Released(t)
  /\ GoTo(t, "lastTry")
  /\ UNCHANGED <<objects, queue, event, target, timed>>

\* Signaled, but another thread took the mutex first: park again.
RetryFails(t) ==
  /\ pc[t] = "retrying"
  /\ ~Free(target[t])
  /\ GoTo(t, "counting")
  /\ UNCHANGED <<objects, lot, target, timed>>

\* ETIMEDOUT, or the next slice of MutexOperations::Timedlock.
LastTryFails(t) ==
  /\ pc[t] = "lastTry"
  /\ ~Free(target[t])
  /\ \E next \in {"idle", "spinning"} : GoTo(t, next)
  /\ UNCHANGED <<objects, lot, target, timed>>

\* acquireMutex after the native mutex was taken.
StoreOwner(t) ==
  /\ pc[t] = "taken"
  /\ count' = [count EXCEPT ![target[t]] = IF target[t] \in Recursive THEN @ + 1 ELSE @]
  /\ owner' = [owner EXCEPT ![target[t]] = t]
  /\ GoTo(t, "idle")
  /\ UNCHANGED <<native, alive, lot, target, timed>>

-----------------------------------------------------------------------------
(* Unlocking *)

\* An inner level of a recursive mutex: nothing is released.
UnlockLevel(t, m) ==
  /\ pc[t] = "idle"
  /\ Holds(t, m)
  /\ ~LastLevel(m)
  /\ count' = [count EXCEPT ![m] = @ - 1]
  /\ UNCHANGED <<native, owner, alive, lot, pc, target, timed>>

\* _owner is cleared while the native mutex is still held.
Unlock(t, m) ==
  /\ pc[t] = "idle"
  /\ Holds(t, m)
  /\ LastLevel(m)
  /\ count' = [count EXCEPT ![m] = IF m \in Recursive THEN @ - 1 ELSE @]
  /\ owner' = [owner EXCEPT ![m] = NoThread]
  /\ target' = [target EXCEPT ![t] = m]
  /\ GoTo(t, "releasing")
  /\ UNCHANGED <<native, alive, lot, timed>>

\* The native unlock; one level of a recursive native mutex.
UnlockNative(t) ==
  /\ pc[t] = "releasing"
  /\ native' = [native EXCEPT ![target[t]] = IF count[target[t]] = 0 THEN NoThread ELSE @]
  /\ GoTo(t, "unparking")
  /\ UNCHANGED <<owner, count, alive, lot, target, timed>>

\* Unpark: the load of the bucket's count.
UnparkLoads(t) ==
  /\ pc[t] = "unparking"
  /\ GoTo(t, IF parked[BucketFor(t)] = 0 THEN "idle" ELSE "scanning")
  /\ UNCHANGED <<objects, lot, target, timed>>

\* Unpark under the bucket's lock: the first waiter of this key leaves the list and
\* its event is set.
UnparkWakes(t, i) ==
  /\ pc[t] = "scanning"
  /\ IsFirstMatching(target[t], i)
  /\ LET b == BucketFor(t)
     IN /\ event' = event \cup {queue[b][i]}
        /\ queue' = [queue EXCEPT ![b] = RemoveAt(@, i)]
  /\ GoTo(t, "idle")
  /\ UNCHANGED <<objects, parked, target, timed>>

UnparkFindsNone(t) ==
  /\ pc[t] = "scanning"
  /\ Matching(target[t]) = {}
  /\ GoTo(t, "idle")
  /\ UNCHANGED <<objects, lot, target, timed>>

-----------------------------------------------------------------------------
(* Life of the object.  An unlocker in Unpark uses the address only as a key. *)

Destroy(t, m) ==
  /\ pc[t] = "idle"
  /\ alive[m]
  /\ owner[m] = NoThread
  /\ \A u \in Threads : target[u] = m => pc[u] \in {"idle"} \cup AfterRelease
  /\ alive' = [alive EXCEPT ![m] = FALSE]
  /\ UNCHANGED <<native, owner, count, lot, pc, target, timed>>

\* scePthreadMutexInit, at worst at the address of the destroyed mutex.
InitMutex(t, m) ==
  /\ pc[t] = "idle"
  /\ ~alive[m]
  /\ alive' = [alive EXCEPT ![m] = TRUE]
  /\ native' = [native EXCEPT ![m] = NoThread]
  /\ owner' = [owner EXCEPT ![m] = NoThread]
  /\ count' = [count EXCEPT ![m] = 0]
  /\ UNCHANGED <<lot, pc, target, timed>>

-----------------------------------------------------------------------------
\* What the guest decides to call.
Call(t) ==
  \E m \in Mutexes :
    \/ \E withTimeout \in BOOLEAN : Lock(t, m, withTimeout)
    \/ TryLock(t, m)
    \/ Relock(t, m)
    \/ UnlockLevel(t, m)
    \/ Unlock(t, m)
    \/ Destroy(t, m)
    \/ InitMutex(t, m)

\* The rest of a call, which runs without the guest's help.
Continue(t) ==
  \/ SpinAcquires(t)
  \/ SpinFails(t)
  \/ CountIn(t)
  \/ Enqueue(t)
  \/ RecheckAcquires(t)
  \/ RecheckFails(t)
  \/ CancelLeaves(t)
  \/ CancelReleases(t)
  \/ Wake(t)
  \/ \E i \in DOMAIN queue[BucketFor(t)] : TimeOut(t, i)
  \/ TimeOutSignaled(t)
  \/ WokenReleases(t)
  \/ ExpiredReleases(t)
  \/ RetryAcquires(t)
  \/ RetryFails(t)
  \/ LastTryAcquires(t)
  \/ LastTryFails(t)
  \/ StoreOwner(t)
  \/ UnlockNative(t)
  \/ UnparkLoads(t)
  \/ \E i \in DOMAIN queue[BucketFor(t)] : UnparkWakes(t, i)
  \/ UnparkFindsNone(t)

Next == \E t \in Threads : Call(t) \/ Continue(t)

Spec == Init /\ [][Next]_vars

\* The host runs every thread that has something to do, whatever the guest calls.
Fairness == \A t \in Threads : WF_vars(Continue(t))
FairSpec == Spec /\ Fairness

-----------------------------------------------------------------------------
(* Properties *)

\* Mutual exclusion through the stores around it: _owner names a thread only while
\* that thread holds the native mutex, and a native mutex is held only by its owner
\* or by a call on its way in or out.
OwnerIsHolder ==
  \A m \in Mutexes :
    /\ owner[m] # NoThread => native[m] = owner[m]
    /\ native[m] # NoThread =>
         \/ owner[m] = native[m]
         \/ target[native[m]] = m /\ pc[native[m]] \in HoldsInCall

\* Unpark's shortcut is sound: a bucket counts exactly the threads that are in it.
Counted(b) == {t \in Threads : pc[t] \in InLot /\ BucketFor(t) = b}
ParkedCounted == \A b \in Buckets : parked[b] = Cardinality(Counted(b))

\* A waiter's event is set only between its removal from the list and its own
\* return: a left-over signal would end its next wait while it is still queued.
NoStaleEvent ==
  \A t \in event : pc[t] \in Enqueued /\ t \notin ToSet(queue[BucketFor(t)])

\* Somebody will still try the mutex, or look for its waiters, without being woken.
Attends(u, m) ==
  /\ target[u] = m
  /\ \/ pc[u] \in AfterRelease \cup {"woken", "retrying"}
     \/ pc[u] \in {"rechecking", "parked"} /\ u \in event

\* No wake-up is lost: while a thread sleeps for a mutex that is free, an unlocker or
\* a woken waiter of that mutex is on its way.
NoLostWakeup ==
  \A m \in Mutexes :
    /\ Free(m)
    /\ \E w \in Threads : target[w] = m /\ pc[w] = "parked" /\ w \notin event
    => \E u \in Threads : Attends(u, m)

\* A free mutex with a sleeper does not stay so: it is taken, or the sleeper returns.
Sleeps(w, m) == target[w] = m /\ pc[w] = "parked"
FreeMutexIsTaken ==
  \A m \in Mutexes : \A w \in Threads :
    (Free(m) /\ Sleeps(w, m)) ~> (~Free(m) \/ ~Sleeps(w, m))
===============================================================================
