-------------------------- MODULE PthreadMutexProofs --------------------------
(***************************************************************************)
(* For every set of threads and mutexes and every hash of the mutexes into *)
(* buckets: _owner follows the native mutex, the parking lot's books are   *)
(* exact and no wake-up is lost.  NoLostWakeup is not inductive alone: an  *)
(* unlocker finds the sleeper only because the bucket counts it and lists  *)
(* it (ParkedCounted, Placed), and a woken thread stands for the others    *)
(* only because its event is its own (NoStaleEvent).                       *)
(***************************************************************************)
EXTENDS PthreadMutex, QueueLemmas, TLAPS

\* The levels of a mutex and its owner come and go together.
CountsMatch ==
  \A m \in Mutexes :
    /\ count[m] \in 0..MaxDepth
    /\ owner[m] = NoThread \/ m \notin Recursive => count[m] = 0
    /\ owner[m] # NoThread /\ m \in Recursive => count[m] >= 1

\* A call that holds the native mutex holds the one it targets, and _owner is not set.
HoldersInCall ==
  \A t \in Threads : pc[t] \in HoldsInCall =>
    native[target[t]] = t /\ owner[target[t]] = NoThread

\* Nobody but unlockers that are done with it refers to a destroyed mutex.
DeadUnused ==
  \A m \in Mutexes : ~alive[m] =>
    /\ native[m] = NoThread
    /\ \A t \in Threads : target[t] = m => pc[t] \in {"idle"} \cup AfterRelease

\* A bucket lists enqueued threads of its own, each once.
Listed ==
  \A b \in Buckets :
    /\ IsInjective(queue[b])
    /\ \A t \in ToSet(queue[b]) : pc[t] \in Enqueued /\ BucketFor(t) = b

\* An enqueued thread is on its bucket's list, or was taken off it and signaled.
Placed ==
  \A t \in Threads : pc[t] \in Enqueued => t \in event \/ t \in ToSet(queue[BucketFor(t)])

Objects ==
  /\ native \in [Mutexes -> Threads \cup {NoThread}]
  /\ owner \in [Mutexes -> Threads \cup {NoThread}]
  /\ count \in [Mutexes -> Int]
  /\ alive \in [Mutexes -> BOOLEAN]

Calls ==
  /\ pc \in [Threads -> States]
  /\ target \in [Threads -> Mutexes]
  /\ timed \in [Threads -> BOOLEAN]

Lot ==
  /\ parked \in [Buckets -> Int]
  /\ queue \in [Buckets -> Seq(Threads)]
  /\ event \subseteq Threads

Books == Objects /\ Calls /\ CountsMatch /\ HoldersInCall /\ OwnerIsHolder /\ DeadUnused
Lists == Lot /\ Listed /\ Placed /\ NoStaleEvent
IInv == Books /\ Lists /\ ParkedCounted /\ NoLostWakeup


-----------------------------------------------------------------------------
(* The objects *)

\* Each action keeps _owner, _count and the native mutex in step.
LEMMA BooksKept ==
  ASSUME Books, [Next]_vars
  PROVE  Books'
<1> USE ConstantsAssumption
<1>1. ASSUME NEW t \in Threads, Call(t) PROVE Books'
  <2>1. CASE \E m \in Mutexes : \E withTimeout \in BOOLEAN : Lock(t, m, withTimeout)
    BY <2>1 DEF Books, Objects, Calls, CountsMatch, HoldersInCall, OwnerIsHolder, DeadUnused, States, InLot, HoldsInCall, AfterRelease, Free, Holds, GoTo, LastLevel, Try, objects, Lock, lot
  <2>2. CASE \E m \in Mutexes : TryLock(t, m)
    BY <2>2 DEF Books, Objects, Calls, CountsMatch, HoldersInCall, OwnerIsHolder, DeadUnused, States, InLot, HoldsInCall, AfterRelease, Free, Holds, GoTo, LastLevel, Try, objects, TryLock, lot
  <2>3. CASE \E m \in Mutexes : Relock(t, m)
    BY <2>3 DEF Books, Objects, Calls, CountsMatch, HoldersInCall, OwnerIsHolder, DeadUnused, States, InLot, HoldsInCall, AfterRelease, Free, Holds, GoTo, LastLevel, Try, objects, Relock, lot
  <2>4. CASE \E m \in Mutexes : UnlockLevel(t, m)
    BY <2>4 DEF Books, Objects, Calls, CountsMatch, HoldersInCall, OwnerIsHolder, DeadUnused, States, InLot, HoldsInCall, AfterRelease, Free, Holds, GoTo, LastLevel, Try, objects, UnlockLevel, lot
  <2>5. CASE \E m \in Mutexes : Unlock(t, m)
    BY <2>5 DEF Books, Objects, Calls, CountsMatch, HoldersInCall, OwnerIsHolder, DeadUnused, States, InLot, HoldsInCall, AfterRelease, Free, Holds, GoTo, LastLevel, Try, objects, Unlock, lot
  <2>6. CASE \E m \in Mutexes : Destroy(t, m)
    BY <2>6 DEF Books, Objects, Calls, CountsMatch, HoldersInCall, OwnerIsHolder, DeadUnused, States, InLot, HoldsInCall, AfterRelease, Free, Holds, GoTo, LastLevel, Try, objects, Destroy, lot
  <2>7. CASE \E m \in Mutexes : InitMutex(t, m)
    BY <2>7 DEF Books, Objects, Calls, CountsMatch, HoldersInCall, OwnerIsHolder, DeadUnused, States, InLot, HoldsInCall, AfterRelease, Free, Holds, GoTo, LastLevel, Try, objects, InitMutex, lot
  <2>8. QED
    BY <1>1, <2>1, <2>2, <2>3, <2>4, <2>5, <2>6, <2>7 DEF Call
<1>2. ASSUME NEW t \in Threads, Continue(t) PROVE Books'
  <2>1. CASE SpinAcquires(t)
    BY <2>1 DEF Books, Objects, Calls, CountsMatch, HoldersInCall, OwnerIsHolder, DeadUnused, States, InLot, HoldsInCall, AfterRelease, Free, Holds, GoTo, LastLevel, Try, objects, SpinAcquires
  <2>2. CASE SpinFails(t)
    BY <2>2 DEF Books, Objects, Calls, CountsMatch, HoldersInCall, OwnerIsHolder, DeadUnused, States, InLot, HoldsInCall, AfterRelease, Free, Holds, GoTo, LastLevel, Try, objects, SpinFails
  <2>3. CASE CountIn(t)
    BY <2>3 DEF Books, Objects, Calls, CountsMatch, HoldersInCall, OwnerIsHolder, DeadUnused, States, InLot, HoldsInCall, AfterRelease, Free, Holds, GoTo, LastLevel, Try, objects, CountIn
  <2>4. CASE Enqueue(t)
    BY <2>4 DEF Books, Objects, Calls, CountsMatch, HoldersInCall, OwnerIsHolder, DeadUnused, States, InLot, HoldsInCall, AfterRelease, Free, Holds, GoTo, LastLevel, Try, objects, Enqueue
  <2>5. CASE RecheckAcquires(t)
    BY <2>5 DEF Books, Objects, Calls, CountsMatch, HoldersInCall, OwnerIsHolder, DeadUnused, States, InLot, HoldsInCall, AfterRelease, Free, Holds, GoTo, LastLevel, Try, objects, RecheckAcquires
  <2>6. CASE RecheckFails(t)
    BY <2>6 DEF Books, Objects, Calls, CountsMatch, HoldersInCall, OwnerIsHolder, DeadUnused, States, InLot, HoldsInCall, AfterRelease, Free, Holds, GoTo, LastLevel, Try, objects, RecheckFails
  <2>7. CASE CancelLeaves(t)
    BY <2>7 DEF Books, Objects, Calls, CountsMatch, HoldersInCall, OwnerIsHolder, DeadUnused, States, InLot, HoldsInCall, AfterRelease, Free, Holds, GoTo, LastLevel, Try, objects, CancelLeaves
  <2>8. CASE CancelReleases(t)
    BY <2>8 DEF Books, Objects, Calls, CountsMatch, HoldersInCall, OwnerIsHolder, DeadUnused, States, InLot, HoldsInCall, AfterRelease, Free, Holds, GoTo, LastLevel, Try, objects, CancelReleases
  <2>9. CASE Wake(t)
    BY <2>9 DEF Books, Objects, Calls, CountsMatch, HoldersInCall, OwnerIsHolder, DeadUnused, States, InLot, HoldsInCall, AfterRelease, Free, Holds, GoTo, LastLevel, Try, objects, Wake
  <2>10. CASE \E i \in DOMAIN queue[BucketFor(t)] : TimeOut(t, i)
    BY <2>10 DEF Books, Objects, Calls, CountsMatch, HoldersInCall, OwnerIsHolder, DeadUnused, States, InLot, HoldsInCall, AfterRelease, Free, Holds, GoTo, LastLevel, Try, objects, TimeOut
  <2>11. CASE TimeOutSignaled(t)
    BY <2>11 DEF Books, Objects, Calls, CountsMatch, HoldersInCall, OwnerIsHolder, DeadUnused, States, InLot, HoldsInCall, AfterRelease, Free, Holds, GoTo, LastLevel, Try, objects, TimeOutSignaled
  <2>12. CASE WokenReleases(t)
    BY <2>12 DEF Books, Objects, Calls, CountsMatch, HoldersInCall, OwnerIsHolder, DeadUnused, States, InLot, HoldsInCall, AfterRelease, Free, Holds, GoTo, LastLevel, Try, objects, WokenReleases
  <2>13. CASE ExpiredReleases(t)
    BY <2>13 DEF Books, Objects, Calls, CountsMatch, HoldersInCall, OwnerIsHolder, DeadUnused, States, InLot, HoldsInCall, AfterRelease, Free, Holds, GoTo, LastLevel, Try, objects, ExpiredReleases
  <2>14. CASE RetryAcquires(t)
    BY <2>14 DEF Books, Objects, Calls, CountsMatch, HoldersInCall, OwnerIsHolder, DeadUnused, States, InLot, HoldsInCall, AfterRelease, Free, Holds, GoTo, LastLevel, Try, objects, RetryAcquires
  <2>15. CASE RetryFails(t)
    BY <2>15 DEF Books, Objects, Calls, CountsMatch, HoldersInCall, OwnerIsHolder, DeadUnused, States, InLot, HoldsInCall, AfterRelease, Free, Holds, GoTo, LastLevel, Try, objects, RetryFails
  <2>16. CASE LastTryAcquires(t)
    BY <2>16 DEF Books, Objects, Calls, CountsMatch, HoldersInCall, OwnerIsHolder, DeadUnused, States, InLot, HoldsInCall, AfterRelease, Free, Holds, GoTo, LastLevel, Try, objects, LastTryAcquires
  <2>17. CASE LastTryFails(t)
    BY <2>17 DEF Books, Objects, Calls, CountsMatch, HoldersInCall, OwnerIsHolder, DeadUnused, States, InLot, HoldsInCall, AfterRelease, Free, Holds, GoTo, LastLevel, Try, objects, LastTryFails
  <2>18. CASE StoreOwner(t)
    BY <2>18 DEF Books, Objects, Calls, CountsMatch, HoldersInCall, OwnerIsHolder, DeadUnused, States, InLot, HoldsInCall, AfterRelease, Free, Holds, GoTo, LastLevel, Try, objects, StoreOwner
  <2>19. CASE UnlockNative(t)
    BY <2>19 DEF Books, Objects, Calls, CountsMatch, HoldersInCall, OwnerIsHolder, DeadUnused, States, InLot, HoldsInCall, AfterRelease, Free, Holds, GoTo, LastLevel, Try, objects, UnlockNative
  <2>20. CASE UnparkLoads(t)
    BY <2>20 DEF Books, Objects, Calls, CountsMatch, HoldersInCall, OwnerIsHolder, DeadUnused, States, InLot, HoldsInCall, AfterRelease, Free, Holds, GoTo, LastLevel, Try, objects, UnparkLoads
  <2>21. CASE \E i \in DOMAIN queue[BucketFor(t)] : UnparkWakes(t, i)
    BY <2>21 DEF Books, Objects, Calls, CountsMatch, HoldersInCall, OwnerIsHolder, DeadUnused, States, InLot, HoldsInCall, AfterRelease, Free, Holds, GoTo, LastLevel, Try, objects, UnparkWakes
  <2>22. CASE UnparkFindsNone(t)
    BY <2>22 DEF Books, Objects, Calls, CountsMatch, HoldersInCall, OwnerIsHolder, DeadUnused, States, InLot, HoldsInCall, AfterRelease, Free, Holds, GoTo, LastLevel, Try, objects, UnparkFindsNone
  <2>23. QED
    BY <1>2, <2>1, <2>2, <2>3, <2>4, <2>5, <2>6, <2>7, <2>8, <2>9, <2>10, <2>11, <2>12, <2>13, <2>14, <2>15, <2>16, <2>17, <2>18, <2>19, <2>20, <2>21, <2>22 DEF Continue
<1>3. CASE UNCHANGED vars
  BY <1>3 DEF Books, vars, objects, Objects, Calls, CountsMatch, HoldersInCall, OwnerIsHolder, DeadUnused
<1>4. QED
  BY <1>1, <1>2, <1>3 DEF Next


-----------------------------------------------------------------------------
(* The lists and the events *)

\* What Listed, Placed and NoStaleEvent say of one state, for the lists' contents.
LEMMA ListsFramed ==
  ASSUME Lists, Calls, parked' \in [Buckets -> Int], UNCHANGED <<queue, event>>,
         \A u \in Threads : pc'[u] \in Enqueued <=> pc[u] \in Enqueued,
         \A u \in Threads : pc[u] \in Enqueued => target'[u] = target[u]
  PROVE  Lists'
<1>1. \A b \in Buckets : ToSet(queue[b]) \subseteq Threads
  BY DEF Lists, Lot, ToSet
<1>2. QED
  BY <1>1 DEF Lists, Lot, Listed, Placed, NoStaleEvent, BucketFor

\* A waiter taken off its bucket's list: nothing else moves.
LEMMA Removal ==
  ASSUME Lists, NEW b \in Buckets, NEW i \in DOMAIN queue[b],
         queue' = [queue EXCEPT ![b] = RemoveAt(@, i)]
  PROVE  /\ queue' \in [Buckets -> Seq(Threads)]
         /\ \A c \in Buckets : IsInjective(queue'[c])
         /\ ToSet(queue'[b]) = ToSet(queue[b]) \ {queue[b][i]}
         /\ \A c \in Buckets : c # b => ToSet(queue'[c]) = ToSet(queue[c])
         /\ queue[b][i] \in Threads /\ queue[b][i] \in ToSet(queue[b])
<1>1. queue \in [Buckets -> Seq(Threads)] /\ \A c \in Buckets : IsInjective(queue[c])
  BY DEF Lists, Lot, Listed
<1>2. queue[b] \in Seq(Threads) /\ i \in 1..Len(queue[b])
  BY <1>1
<1>3. /\ RemoveAt(queue[b], i) \in Seq(Threads) /\ IsInjective(RemoveAt(queue[b], i))
      /\ ToSet(RemoveAt(queue[b], i)) = ToSet(queue[b]) \ {queue[b][i]}
  BY <1>1, <1>2, RemoveOne
<1>4. queue'[b] = RemoveAt(queue[b], i) /\ \A c \in Buckets : c # b => queue'[c] = queue[c]
  BY <1>1
<1>5. queue' \in [Buckets -> Seq(Threads)]
  BY <1>1, <1>3
<1>6. queue[b][i] \in Threads /\ queue[b][i] \in ToSet(queue[b])
  BY <1>2 DEF ToSet
<1>7. QED
  BY <1>1, <1>3, <1>4, <1>5, <1>6

\* Listed threads are threads.
LEMMA ListedAreThreads ==
  ASSUME Lists PROVE \A b \in Buckets : ToSet(queue[b]) \subseteq Threads
BY DEF Lists, Lot, ToSet

\* BeginPark appends a thread that is nowhere in the lot.
LEMMA EnqueueKeepsLists ==
  ASSUME Books, Lists, NEW t \in Threads, Enqueue(t)
  PROVE  Lists'
<1> DEFINE b == BucketFor(t)
<1>1. /\ b \in Buckets /\ queue[b] \in Seq(Threads) /\ IsInjective(queue[b])
      /\ pc[t] = "queueing" /\ pc' = [pc EXCEPT ![t] = "rechecking"]
      /\ queue' = [queue EXCEPT ![b] = Append(queue[b], t)]
      /\ UNCHANGED <<parked, event, target>>
      /\ pc \in [Threads -> States] /\ target \in [Threads -> Mutexes]
      /\ queue \in [Buckets -> Seq(Threads)]
  BY ConstantsAssumption DEF Enqueue, Books, Calls, Lists, Lot, Listed, BucketFor, GoTo
<1>2. t \notin event /\ \A c \in Buckets : t \notin ToSet(queue[c])
  BY <1>1 DEF Lists, Listed, NoStaleEvent, Enqueued
<1>3. /\ queue'[b] \in Seq(Threads) /\ IsInjective(queue'[b])
      /\ ToSet(queue'[b]) = ToSet(queue[b]) \cup {t}
  <2>1. queue'[b] = Append(queue[b], t)
    BY <1>1
  <2>2. QED
    BY <1>1, <1>2, <2>1, AppendNew
<1>4. \A c \in Buckets : c # b => queue'[c] = queue[c]
  BY <1>1
<1>5. Lot'
  <2>1. queue' \in [Buckets -> Seq(Threads)]
    BY <1>1, <1>3
  <2>2. QED
    BY <1>1, <2>1 DEF Lists, Lot
<1>6. \A u \in Threads : BucketFor(u)' = BucketFor(u)
  BY <1>1 DEF BucketFor
<1>7. Listed'
  BY <1>1, <1>3, <1>4, <1>6, ListedAreThreads DEF Lists, Listed, Enqueued
<1>8. Placed'
  BY <1>1, <1>3, <1>4, <1>6, ConstantsAssumption DEF Lists, Placed, Enqueued, BucketFor
<1>9. NoStaleEvent'
  BY <1>1, <1>2, <1>3, <1>4, <1>6, ConstantsAssumption
     DEF Lists, Lot, NoStaleEvent, Enqueued, BucketFor
<1>10. QED
  BY <1>5, <1>7, <1>8, <1>9 DEF Lists

\* A thread leaves the lot on its own: found on the list, or taken off it before.
LEMMA LeaveKeepsLists ==
  ASSUME Books, Lists, NEW t \in Threads, NEW to \in States \ Enqueued,
         pc[t] \in Enqueued, pc' = [pc EXCEPT ![t] = to], UNCHANGED <<parked, target>>,
         \/ \E i \in DOMAIN queue[BucketFor(t)] : LeaveQueue(t, i)
         \/ t \notin ToSet(queue[BucketFor(t)]) /\ event' = Consumed(t) /\ UNCHANGED queue
  PROVE  Lists'
<1> DEFINE b == BucketFor(t)
<1>1. /\ b \in Buckets /\ pc \in [Threads -> States] /\ target \in [Threads -> Mutexes]
      /\ event \subseteq Threads /\ queue \in [Buckets -> Seq(Threads)]
      /\ parked \in [Buckets -> Int]
  BY ConstantsAssumption DEF Books, Calls, Lists, Lot, BucketFor
<1>2. \A u \in Threads : BucketFor(u)' = BucketFor(u) /\ BucketFor(u) \in Buckets
  BY <1>1, ConstantsAssumption DEF BucketFor
<1>3. CASE \E i \in DOMAIN queue[b] : LeaveQueue(t, i)
  <2>1. PICK i \in DOMAIN queue[b] : LeaveQueue(t, i)
    BY <1>3
  <2>2. queue[b][i] = t /\ UNCHANGED event /\ queue' = [queue EXCEPT ![b] = RemoveAt(@, i)]
    BY <2>1 DEF LeaveQueue
  <2> HIDE DEF b
  <2>3. /\ queue' \in [Buckets -> Seq(Threads)]
        /\ \A c \in Buckets : IsInjective(queue'[c])
        /\ ToSet(queue'[b]) = ToSet(queue[b]) \ {t}
        /\ \A c \in Buckets : c # b => ToSet(queue'[c]) = ToSet(queue[c])
        /\ t \in ToSet(queue[b])
    BY <1>1, <2>2, Removal
  <2>4. t \notin event
    BY <2>3 DEF Lists, NoStaleEvent, b
  <2>5. Lot'
    BY <1>1, <2>2, <2>3 DEF Lot
  <2>6. Listed'
    <3>1. \A c \in Buckets : t \in ToSet(queue[c]) => c = b
      BY DEF Lists, Listed, b
    <3>2. ASSUME NEW c \in Buckets, NEW u \in ToSet(queue'[c])
          PROVE  u # t /\ u \in ToSet(queue[c])
      BY <1>1, <2>3, <3>1, <3>2
    <3>3. ASSUME NEW c \in Buckets, NEW u \in ToSet(queue'[c])
          PROVE  pc'[u] \in Enqueued /\ BucketFor(u)' = c
      <4>1. u \in Threads /\ u # t /\ pc[u] \in Enqueued /\ BucketFor(u) = c
        BY <3>2, <3>3, ListedAreThreads DEF Lists, Listed
      <4>2. pc'[u] = pc[u]
        BY <1>1, <4>1
      <4>3. QED
        BY <1>2, <4>1, <4>2
    <3>4. QED
      BY <2>3, <3>3 DEF Listed
  <2>7. Placed'
    BY <1>1, <1>2, <2>2, <2>3 DEF Lists, Placed
  <2>8. NoStaleEvent'
    BY <1>1, <1>2, <2>2, <2>3, <2>4 DEF Lists, NoStaleEvent
  <2>9. QED
    BY <2>5, <2>6, <2>7, <2>8 DEF Lists
<1>4. CASE t \notin ToSet(queue[b]) /\ event' = Consumed(t) /\ UNCHANGED queue
  <2>1. \A c \in Buckets : t \notin ToSet(queue[c])
    BY <1>4 DEF Lists, Listed
  <2>2. Lot'
    BY <1>1, <1>4 DEF Lot, Consumed
  <2>3. Listed'
    BY <1>1, <1>2, <1>4, <2>1, ListedAreThreads DEF Lists, Listed
  <2>4. Placed' /\ NoStaleEvent'
    BY <1>1, <1>2, <1>4 DEF Lists, Placed, NoStaleEvent, Consumed
  <2>5. QED
    BY <2>2, <2>3, <2>4 DEF Lists
<1>5. QED
  BY <1>3, <1>4

\* An unlocker moves a waiter from the list to its event.
LEMMA UnparkKeepsLists ==
  ASSUME Books, Lists, NEW t \in Threads, NEW i \in DOMAIN queue[BucketFor(t)], UnparkWakes(t, i)
  PROVE  Lists'
<1> DEFINE b == BucketFor(t)
           w == queue[b][i]
<1>1. /\ b \in Buckets /\ pc \in [Threads -> States] /\ target \in [Threads -> Mutexes]
      /\ event \subseteq Threads /\ parked \in [Buckets -> Int]
      /\ pc[t] = "scanning" /\ pc' = [pc EXCEPT ![t] = "idle"]
      /\ UNCHANGED <<parked, target>>
      /\ event' = event \cup {w} /\ queue' = [queue EXCEPT ![b] = RemoveAt(@, i)]
  BY ConstantsAssumption DEF Books, Calls, Lists, Lot, BucketFor, UnparkWakes, GoTo
<1>2. \A u \in Threads : BucketFor(u)' = BucketFor(u) /\ BucketFor(u) \in Buckets
  BY <1>1, ConstantsAssumption DEF BucketFor
<1> HIDE DEF b
<1>3. /\ queue' \in [Buckets -> Seq(Threads)]
      /\ \A c \in Buckets : IsInjective(queue'[c])
      /\ ToSet(queue'[b]) = ToSet(queue[b]) \ {w}
      /\ \A c \in Buckets : c # b => ToSet(queue'[c]) = ToSet(queue[c])
      /\ w \in Threads /\ w \in ToSet(queue[b])
  <2>1. i \in DOMAIN queue[b]
    BY DEF b
  <2>2. QED
    BY <1>1, <2>1, Removal
<1> HIDE DEF w
<1>4. pc[w] \in Enqueued /\ BucketFor(w) = b /\ w # t
  BY <1>1, <1>3 DEF Lists, Listed, Enqueued
<1>5. \A u \in Threads : pc'[u] \in Enqueued <=> pc[u] \in Enqueued
  BY <1>1 DEF Enqueued
<1>6. Lot'
  BY <1>1, <1>3 DEF Lot
<1>7. Listed'
  BY <1>1, <1>2, <1>3, <1>5, ListedAreThreads DEF Lists, Listed
<1>8. Placed'
  BY <1>1, <1>2, <1>3, <1>4, <1>5 DEF Lists, Placed
<1>9. NoStaleEvent'
  BY <1>1, <1>2, <1>3, <1>4, <1>5 DEF Lists, NoStaleEvent
<1>10. QED
  BY <1>6, <1>7, <1>8, <1>9 DEF Lists

\* A call of the guest starts outside the lot and does not touch it.
LEMMA CallsStayOut ==
  ASSUME Calls, NEW t \in Threads, Call(t)
  PROVE  /\ UNCHANGED lot
         /\ pc[t] = "idle" /\ pc'[t] \in {"idle", "spinning", "taken", "releasing"}
         /\ \A u \in Threads : u # t => pc'[u] = pc[u] /\ target'[u] = target[u]
         /\ pc' \in [Threads -> States] /\ target' \in [Threads -> Mutexes]
BY DEF Calls, States, HoldsInCall, Call, Lock, TryLock, Relock, UnlockLevel, Unlock, Destroy, InitMutex, GoTo

\* Each step of a call keeps the lists: most do not touch them.
LEMMA ListsKept ==
  ASSUME Books, Lists, [Next]_vars
  PROVE  Lists'
<1> USE ConstantsAssumption
<1>1. ASSUME NEW t \in Threads, Call(t) PROVE Lists'
  <2>1. Calls
    BY DEF Books
  <2>2. /\ \A u \in Threads : pc'[u] \in Enqueued <=> pc[u] \in Enqueued
        /\ \A u \in Threads : pc[u] \in Enqueued => target'[u] = target[u]
    BY <1>1, <2>1, CallsStayOut DEF Enqueued
  <2>3. parked' \in [Buckets -> Int] /\ UNCHANGED <<queue, event>>
    BY <1>1, <2>1, CallsStayOut DEF lot, Lists, Lot
  <2>4. QED
    BY <2>1, <2>2, <2>3, ListsFramed
<1>2. ASSUME NEW t \in Threads, Continue(t) PROVE Lists'
  <2>1. CASE Enqueue(t)
    BY <2>1, EnqueueKeepsLists
  <2>2. CASE CancelLeaves(t)
    <3>1. "left" \in States \ Enqueued
      BY DEF States, InLot, Enqueued
    <3>2. QED
      BY <2>2, <3>1, LeaveKeepsLists DEF CancelLeaves, LeaveSignaled, GoTo, Enqueued
  <2>3. CASE Wake(t)
    <3>1. "woken" \in States \ Enqueued
      BY DEF States, InLot, Enqueued
    <3>2. t \notin ToSet(queue[BucketFor(t)])
      BY <2>3 DEF Wake, Lists, NoStaleEvent
    <3>3. QED
      BY <2>3, <3>1, <3>2, LeaveKeepsLists DEF Wake, GoTo, Enqueued
  <2>4. CASE \E i \in DOMAIN queue[BucketFor(t)] : TimeOut(t, i)
    <3>1. "expired" \in States \ Enqueued
      BY DEF States, InLot, Enqueued
    <3>2. QED
      BY <2>4, <3>1, LeaveKeepsLists DEF TimeOut, GoTo, Enqueued
  <2>5. CASE TimeOutSignaled(t)
    <3>1. "woken" \in States \ Enqueued
      BY DEF States, InLot, Enqueued
    <3>2. QED
      BY <2>5, <3>1, LeaveKeepsLists DEF TimeOutSignaled, LeaveSignaled, GoTo, Enqueued
  <2>6. CASE \E i \in DOMAIN queue[BucketFor(t)] : UnparkWakes(t, i)
    BY <2>6, UnparkKeepsLists
  <2>7. ASSUME \/ SpinAcquires(t) \/ SpinFails(t) \/ CountIn(t)
               \/ RecheckAcquires(t) \/ RecheckFails(t) \/ CancelReleases(t)
               \/ WokenReleases(t) \/ ExpiredReleases(t) \/ RetryAcquires(t) \/ RetryFails(t)
               \/ LastTryAcquires(t) \/ LastTryFails(t) \/ StoreOwner(t)
               \/ UnlockNative(t) \/ UnparkLoads(t) \/ UnparkFindsNone(t)
        PROVE  Lists'
    <3>1. Calls
      BY DEF Books
    <3>2. BucketFor(t) \in Buckets
      BY <3>1 DEF BucketFor, Calls
    <3>3. parked' \in [Buckets -> Int] /\ UNCHANGED <<queue, event, target>>
      BY <2>7, <3>1, <3>2 DEF Lists, Lot, SpinAcquires, SpinFails, CountIn, RecheckAcquires,
         RecheckFails, CancelReleases, WokenReleases, ExpiredReleases, RetryAcquires, RetryFails,
         LastTryAcquires, LastTryFails, StoreOwner, UnlockNative, UnparkLoads, UnparkFindsNone,
         Try, Released, lot
    <3>4. \A u \in Threads : pc'[u] \in Enqueued <=> pc[u] \in Enqueued
      BY <2>7, <3>1 DEF Calls, SpinAcquires, SpinFails, CountIn, RecheckAcquires,
         RecheckFails, CancelReleases, WokenReleases, ExpiredReleases, RetryAcquires, RetryFails,
         LastTryAcquires, LastTryFails, StoreOwner, UnlockNative, UnparkLoads, UnparkFindsNone,
         Try, GoTo, Enqueued
    <3>5. QED
      BY <3>1, <3>3, <3>4, ListsFramed
  <2>8. QED
    BY <1>2, <2>1, <2>2, <2>3, <2>4, <2>5, <2>6, <2>7 DEF Continue
<1>3. CASE UNCHANGED vars
  BY <1>3 DEF vars, lot, Lists, Lot, Listed, Placed, NoStaleEvent, BucketFor
<1>4. QED
  BY <1>1, <1>2, <1>3 DEF Next

-----------------------------------------------------------------------------
(* The counts of the buckets *)

\* A step that moves nobody into or out of the lot keeps the counts.
LEMMA CountsFramed ==
  ASSUME ParkedCounted, UNCHANGED parked,
         \A u \in Threads : pc'[u] \in InLot <=> pc[u] \in InLot,
         \A u \in Threads : pc[u] \in InLot => target'[u] = target[u]
  PROVE  ParkedCounted'
<1>1. \A b \in Buckets : Counted(b)' = Counted(b)
  BY DEF Counted, BucketFor
<1>2. QED
  BY <1>1 DEF ParkedCounted

\* BeginPark's fetch_add counts a thread that was not counted.
LEMMA CountInCounts ==
  ASSUME Books, Lists, ParkedCounted, NEW t \in Threads, CountIn(t)
  PROVE  ParkedCounted'
<1>0. PICK b \in Buckets : b = BucketFor(t)
  BY ConstantsAssumption DEF Books, Calls, BucketFor
<1>1. /\ b = BucketFor(t) /\ pc[t] = "counting" /\ pc' = [pc EXCEPT ![t] = "queueing"]
      /\ pc \in [Threads -> States] /\ UNCHANGED target
      /\ parked \in [Buckets -> Int] /\ parked' = [parked EXCEPT ![b] = @ + 1]
  BY <1>0 DEF CountIn, Books, Calls, Lists, Lot, BucketFor, GoTo
<1>2. \A u \in Threads : BucketFor(u)' = BucketFor(u)
  BY <1>1 DEF BucketFor
<1>3. Counted(b)' = Counted(b) \cup {t} /\ t \notin Counted(b)
  BY <1>1, <1>2 DEF Counted, InLot
<1>4. \A c \in Buckets : c # b => Counted(c)' = Counted(c)
  BY <1>1, <1>2 DEF Counted, InLot
<1>5. Counted(b) \in SUBSET Threads
  BY DEF Counted
<1>6. Cardinality(Counted(b)') = Cardinality(Counted(b)) + 1
  BY <1>3, <1>5, CountMovesByOne, ConstantsAssumption
<1>7. QED
  BY <1>1, <1>4, <1>6 DEF ParkedCounted

\* ReleaseParked's fetch_sub takes off a thread that was counted.
LEMMA ReleaseCounts ==
  ASSUME Books, Lists, ParkedCounted, NEW t \in Threads, pc[t] \in InLot,
         NEW to \in States \ InLot, pc' = [pc EXCEPT ![t] = to], UNCHANGED target,
         parked' = Released(t)
  PROVE  ParkedCounted'
<1>0. PICK b \in Buckets : b = BucketFor(t)
  BY ConstantsAssumption DEF Books, Calls, BucketFor
<1>1. /\ b = BucketFor(t) /\ pc \in [Threads -> States]
      /\ parked \in [Buckets -> Int] /\ parked' = [parked EXCEPT ![b] = @ - 1]
  BY <1>0 DEF Released, Books, Calls, Lists, Lot, BucketFor
<1>2. \A u \in Threads : BucketFor(u)' = BucketFor(u)
  BY DEF BucketFor
<1>3. Counted(b)' = Counted(b) \ {t} /\ t \in Counted(b)
  BY <1>1, <1>2 DEF Counted
<1>4. \A c \in Buckets : c # b => Counted(c)' = Counted(c)
  BY <1>1, <1>2 DEF Counted
<1>5. Counted(b) \in SUBSET Threads
  BY DEF Counted
<1>6. Cardinality(Counted(b)') = Cardinality(Counted(b)) - 1
  BY <1>3, <1>5, CountMovesByOne, ConstantsAssumption
<1>7. QED
  BY <1>1, <1>4, <1>6 DEF ParkedCounted

\* Each step keeps the counts: only two kinds move them.
LEMMA CountsKept ==
  ASSUME Books, Lists, ParkedCounted, [Next]_vars
  PROVE  ParkedCounted'
<1>1. ASSUME NEW t \in Threads, Call(t) PROVE ParkedCounted'
  <2>1. /\ \A u \in Threads : pc'[u] \in InLot <=> pc[u] \in InLot
        /\ \A u \in Threads : pc[u] \in InLot => target'[u] = target[u]
    BY <1>1, CallsStayOut DEF Books, InLot
  <2>2. QED
    BY <1>1, <2>1, CallsStayOut, CountsFramed DEF Books, lot
<1>2. ASSUME NEW t \in Threads, Continue(t) PROVE ParkedCounted'
  <2>1. CASE CountIn(t)
    BY <2>1, CountInCounts
  <2>2. CASE CancelReleases(t) \/ WokenReleases(t) \/ ExpiredReleases(t)
    <3>1. {"taken", "retrying", "lastTry"} \subseteq States \ InLot
      BY DEF States, HoldsInCall, InLot
    <3>2. QED
      BY <2>2, <3>1, ReleaseCounts
         DEF CancelReleases, WokenReleases, ExpiredReleases, GoTo, InLot
  <2>3. ASSUME \/ SpinAcquires(t) \/ SpinFails(t) \/ Enqueue(t)
               \/ RecheckAcquires(t) \/ RecheckFails(t) \/ CancelLeaves(t)
               \/ Wake(t) \/ (\E i \in DOMAIN queue[BucketFor(t)] : TimeOut(t, i))
               \/ TimeOutSignaled(t) \/ RetryAcquires(t) \/ RetryFails(t)
               \/ LastTryAcquires(t) \/ LastTryFails(t) \/ StoreOwner(t)
               \/ UnlockNative(t) \/ UnparkLoads(t) \/ UnparkFindsNone(t)
               \/ (\E i \in DOMAIN queue[BucketFor(t)] : UnparkWakes(t, i))
        PROVE  ParkedCounted'
    <3>1. UNCHANGED <<parked, target>>
      BY <2>3 DEF SpinAcquires, SpinFails, Enqueue, RecheckAcquires,
         RecheckFails, CancelLeaves, Wake, TimeOut, TimeOutSignaled, RetryAcquires, RetryFails,
         LastTryAcquires, LastTryFails, StoreOwner, UnlockNative, UnparkLoads, UnparkFindsNone,
         UnparkWakes, Try, lot
    <3>2. \A u \in Threads : pc'[u] \in InLot <=> pc[u] \in InLot
      BY <2>3 DEF Books, Calls, SpinAcquires, SpinFails, Enqueue, RecheckAcquires,
         RecheckFails, CancelLeaves, Wake, TimeOut, TimeOutSignaled, RetryAcquires, RetryFails,
         LastTryAcquires, LastTryFails, StoreOwner, UnlockNative, UnparkLoads, UnparkFindsNone,
         UnparkWakes, Try, GoTo, InLot
    <3>3. QED
      BY <3>1, <3>2, CountsFramed
  <2>4. QED
    BY <1>2, <2>1, <2>2, <2>3 DEF Continue
<1>3. CASE UNCHANGED vars
  BY <1>3, CountsFramed DEF vars, lot
<1>4. QED
  BY <1>1, <1>2, <1>3 DEF Next

-----------------------------------------------------------------------------
(* Wake-ups *)

\* A mutex that stays as free as it was keeps its attendants, if the step takes none
\* of them away and puts nobody to sleep.
LEMMA WakeupsFramed ==
  ASSUME Books, NoLostWakeup,
         \A m \in Mutexes : Free(m)' => Free(m),
         \A u \in Threads : pc'[u] = "parked" /\ u \notin event' =>
            pc[u] = "parked" /\ u \notin event /\ target'[u] = target[u],
         \A m \in Mutexes, u \in Threads : Attends(u, m) => Attends(u, m)'
  PROVE  NoLostWakeup'
BY DEF NoLostWakeup

\* A step that leaves an attendant of its mutex behind, or the mutex held.
LEMMA WakeupsAttended ==
  ASSUME Books, NoLostWakeup, NEW t \in Threads, NEW n \in Mutexes, n = target[t],
         UNCHANGED target,
         \A m \in Mutexes : m # n /\ Free(m)' => Free(m),
         \A u \in Threads : u # t => pc'[u] = pc[u],
         \A u \in Threads : u # t /\ u \in event => u \in event',
         ~Free(n)' \/ \E u \in Threads : Attends(u, n)'
  PROVE  NoLostWakeup'
<1>1. SUFFICES ASSUME NEW m \in Mutexes, Free(m)', NEW w \in Threads,
                      target'[w] = m, pc'[w] = "parked", w \notin event'
               PROVE  \E u \in Threads : Attends(u, m)'
  BY DEF NoLostWakeup
<1>2. CASE m = n
  BY <1>1, <1>2
<1>3. CASE m # n
  <2>1. w # t /\ Free(m) /\ target[w] = m /\ pc[w] = "parked" /\ w \notin event
    BY <1>1, <1>3
  <2>2. PICK u \in Threads : Attends(u, m)
    BY <2>1 DEF NoLostWakeup
  <2>3. u # t
    BY <1>3, <2>2 DEF Attends
  <2>4. Attends(u, m)'
    BY <2>2, <2>3 DEF Attends
  <2>5. QED
    BY <2>4
<1>4. QED
  BY <1>2, <1>3

\* An unlocker that looks at the bucket finds every sleeper of its mutex.
LEMMA SleepersFound ==
  ASSUME Books, Lists, ParkedCounted, NEW w \in Threads, pc[w] = "parked", w \notin event
  PROVE  /\ parked[BucketFor(w)] # 0
         /\ Matching(target[w]) # {}
<1>1. PICK b \in Buckets : b = BucketFor(w)
  BY ConstantsAssumption DEF Books, Calls, BucketFor
<1>2. w \in Counted(b) /\ Counted(b) \in SUBSET Threads
  BY <1>1 DEF Counted, InLot
<1>3. parked[b] # 0
  BY <1>2, CountMovesByOne, ConstantsAssumption DEF ParkedCounted
<1>4. w \in ToSet(queue[b])
  BY <1>1 DEF Lists, Placed, Enqueued
<1>5. PICK i \in DOMAIN queue[b] : queue[b][i] = w
  BY <1>4 DEF ToSet
<1>6. i \in Matching(target[w])
  BY <1>1, <1>5 DEF Matching, BucketFor
<1>7. QED
  BY <1>1, <1>3, <1>6

\* Each step leaves a free mutex with a sleeper attended.
LEMMA WakeupsKept ==
  ASSUME Books, Lists, ParkedCounted, NoLostWakeup, [Next]_vars
  PROVE  NoLostWakeup'
<1> USE ConstantsAssumption
<1>0. Calls
  BY DEF Books
<1>1. ASSUME NEW t \in Threads, Call(t) PROVE NoLostWakeup'
  <2>1. \A m \in Mutexes : Free(m)' => Free(m)
    BY <1>1 DEF Books, Objects, DeadUnused, Call, Lock, TryLock, Relock, UnlockLevel, Unlock,
                Destroy, InitMutex, Free, objects
  <2>2. \A u \in Threads : pc'[u] = "parked" /\ u \notin event' =>
            pc[u] = "parked" /\ u \notin event /\ target'[u] = target[u]
    BY <1>0, <1>1, CallsStayOut DEF lot
  <2>3. \A m \in Mutexes, u \in Threads : Attends(u, m) => Attends(u, m)'
    BY <1>0, <1>1, CallsStayOut DEF lot, Attends, AfterRelease
  <2>4. QED
    BY <2>1, <2>2, <2>3, WakeupsFramed
<1>2. ASSUME NEW t \in Threads, Continue(t) PROVE NoLostWakeup'
  <2>0. PICK n \in Mutexes : n = target[t]
    BY <1>0 DEF Calls
  <2>1. ASSUME SpinAcquires(t) \/ RecheckAcquires(t) \/ RetryAcquires(t) \/ LastTryAcquires(t)
        PROVE  NoLostWakeup'
    <3>1. native' = [native EXCEPT ![n] = t] /\ UNCHANGED <<event, target>> /\ t # NoThread
      BY <2>0, <2>1 DEF SpinAcquires, RecheckAcquires, RetryAcquires, LastTryAcquires, Try, lot
    <3>2. \A u \in Threads : u # t => pc'[u] = pc[u]
      BY <1>0, <2>1 DEF Calls, SpinAcquires, RecheckAcquires, RetryAcquires, LastTryAcquires, Try, GoTo
    <3>3. ~Free(n)' /\ \A m \in Mutexes : m # n /\ Free(m)' => Free(m)
      BY <3>1 DEF Books, Objects, Free
    <3>4. QED
      BY <2>0, <3>1, <3>2, <3>3, WakeupsAttended
  <2>2. ASSUME SpinFails(t) \/ RecheckFails(t) \/ RetryFails(t) \/ LastTryFails(t)
        PROVE  NoLostWakeup'
    <3>1. UNCHANGED <<native, event, target>> /\ ~Free(n)
      BY <2>0, <2>2 DEF SpinFails, RecheckFails, RetryFails, LastTryFails, MaySleep, objects, lot
    <3>2. \A u \in Threads : u # t => pc'[u] = pc[u]
      BY <1>0, <2>2 DEF Calls, SpinFails, RecheckFails, RetryFails, LastTryFails, GoTo
    <3>3. ~Free(n)' /\ \A m \in Mutexes : m # n /\ Free(m)' => Free(m)
      BY <3>1 DEF Free
    <3>4. QED
      BY <2>0, <3>1, <3>2, <3>3, WakeupsAttended
  <2>3. ASSUME \/ CountIn(t) \/ Enqueue(t) \/ CancelLeaves(t) \/ CancelReleases(t)
               \/ (\E i \in DOMAIN queue[BucketFor(t)] : TimeOut(t, i))
               \/ ExpiredReleases(t) \/ StoreOwner(t)
        PROVE  NoLostWakeup'
    <3>1. UNCHANGED <<native, target>>
      BY <2>3 DEF CountIn, Enqueue, CancelLeaves, CancelReleases, TimeOut, ExpiredReleases,
                  StoreOwner, objects
    <3>2. /\ \A u \in Threads : u # t => pc'[u] = pc[u]
          /\ pc'[t] # "parked"
      BY <1>0, <2>3 DEF Calls, CountIn, Enqueue, CancelLeaves, CancelReleases, TimeOut,
                  ExpiredReleases, StoreOwner, GoTo
    <3>3. \A u \in Threads : u # t => (u \in event' <=> u \in event)
      BY <2>3 DEF CountIn, Enqueue, CancelLeaves, CancelReleases, TimeOut, ExpiredReleases,
                  StoreOwner, LeaveQueue, LeaveSignaled, Consumed, lot
    <3>4. \A m \in Mutexes : ~Attends(t, m)
      <4>1. ASSUME NEW i \in DOMAIN queue[BucketFor(t)], TimeOut(t, i) PROVE t \notin event
        <5>1. t \in ToSet(queue[BucketFor(t)])
          BY <4>1 DEF TimeOut, LeaveQueue, ToSet
        <5>2. QED
          BY <5>1 DEF Lists, NoStaleEvent
      <4>2. QED
        BY <2>3, <4>1 DEF CountIn, Enqueue, CancelLeaves, CancelReleases, TimeOut,
                  ExpiredReleases, StoreOwner, Attends, AfterRelease
    <3>5. QED
      BY <3>1, <3>2, <3>3, <3>4, WakeupsFramed DEF Free, Attends
  <2>4. ASSUME Wake(t) \/ TimeOutSignaled(t) PROVE NoLostWakeup'
    <3>1. /\ UNCHANGED <<native, target>> /\ event' = event \ {t}
          /\ pc' = [pc EXCEPT ![t] = "woken"]
      BY <2>4 DEF Wake, TimeOutSignaled, LeaveSignaled, Consumed, GoTo, objects
    <3>2. Attends(t, n)'
      BY <1>0, <2>0, <3>1 DEF Calls, Attends
    <3>3. QED
      BY <1>0, <2>0, <3>1, <3>2, WakeupsAttended DEF Calls, Free
  <2>5. ASSUME WokenReleases(t) PROVE NoLostWakeup'
    <3>1. UNCHANGED <<native, target, event>> /\ pc' = [pc EXCEPT ![t] = "retrying"]
      BY <2>5 DEF WokenReleases, GoTo, objects
    <3>2. Attends(t, n)'
      BY <1>0, <2>0, <3>1 DEF Calls, Attends
    <3>3. QED
      BY <1>0, <2>0, <3>1, <3>2, WakeupsAttended DEF Calls, Free
  <2>6. ASSUME UnlockNative(t) PROVE NoLostWakeup'
    <3>1. /\ UNCHANGED <<target, event>> /\ pc' = [pc EXCEPT ![t] = "unparking"]
          /\ \A m \in Mutexes : m # n => native'[m] = native[m]
      BY <2>0, <2>6 DEF UnlockNative, GoTo, lot, Books, Objects
    <3>2. Attends(t, n)'
      BY <1>0, <2>0, <3>1 DEF Calls, Attends, AfterRelease
    <3>3. QED
      BY <1>0, <2>0, <3>1, <3>2, WakeupsAttended DEF Calls, Free
  <2>7. ASSUME UnparkLoads(t) \/ UnparkFindsNone(t) PROVE NoLostWakeup'
    <3>1. /\ UNCHANGED <<native, target, event>>
          /\ pc' = [pc EXCEPT ![t] = "idle"] \/ pc' = [pc EXCEPT ![t] = "scanning"]
      BY <2>7 DEF UnparkLoads, UnparkFindsNone, GoTo, objects, lot
    <3>2. CASE pc' = [pc EXCEPT ![t] = "scanning"]
      <4>1. Attends(t, n)'
        BY <1>0, <2>0, <3>1, <3>2 DEF Calls, Attends, AfterRelease
      <4>2. QED
        BY <1>0, <2>0, <3>1, <3>2, <4>1, WakeupsAttended DEF Calls, Free
    <3>3. CASE pc' = [pc EXCEPT ![t] = "idle"]
      <4>1. \A w \in Threads : target[w] = n /\ pc[w] = "parked" => w \in event
        <5>1. SUFFICES ASSUME NEW w \in Threads, target[w] = n, pc[w] = "parked", w \notin event
                       PROVE  FALSE
          OBVIOUS
        <5>2. parked[BucketFor(t)] # 0 /\ Matching(target[t]) # {}
          BY <2>0, <5>1, SleepersFound DEF BucketFor
        <5>3. pc[t] # "idle" /\ t \in DOMAIN pc
          BY <1>0, <2>7 DEF UnparkLoads, UnparkFindsNone, Calls
        <5>4. QED
          BY <2>7, <3>3, <5>2, <5>3 DEF UnparkLoads, UnparkFindsNone, GoTo
      <4>2. \A w \in Threads : target[w] = n /\ pc'[w] = "parked" => w \in event'
        BY <1>0, <3>1, <3>3, <4>1 DEF Calls
      <4>3. \A m \in Mutexes : \A u \in Threads : m # n /\ Attends(u, m) => Attends(u, m)'
        BY <1>0, <2>0, <3>1, <3>3 DEF Calls, Attends
      <4>4. SUFFICES ASSUME NEW m \in Mutexes, Free(m)', NEW w \in Threads,
                            target'[w] = m, pc'[w] = "parked", w \notin event'
                     PROVE  \E u \in Threads : Attends(u, m)'
        BY DEF NoLostWakeup
      <4>5. m # n
        BY <3>1, <4>2, <4>4
      <4>6. Free(m) /\ target[w] = m /\ pc[w] = "parked" /\ w \notin event
        BY <1>0, <3>1, <3>3, <4>4 DEF Free, Calls
      <4>7. PICK u \in Threads : Attends(u, m)
        BY <4>6 DEF NoLostWakeup
      <4>8. QED
        BY <4>3, <4>5, <4>7
    <3>4. QED
      BY <3>1, <3>2, <3>3
  <2>8. ASSUME NEW i \in DOMAIN queue[BucketFor(t)], UnparkWakes(t, i) PROVE NoLostWakeup'
    <3>1. PICK w \in Threads : w = queue[BucketFor(t)][i]
      BY <1>0 DEF Lists, Lot, BucketFor, Calls
    <3>2. /\ UNCHANGED <<native, target>> /\ pc' = [pc EXCEPT ![t] = "idle"]
          /\ pc[t] = "scanning" /\ event' = event \cup {w} /\ target[w] = n
      BY <2>0, <2>8, <3>1 DEF UnparkWakes, GoTo, objects, IsFirstMatching, Matching, BucketFor
    <3>3. pc[w] \in Enqueued
      <4>1. w \in ToSet(queue[BucketFor(t)]) /\ BucketFor(t) \in Buckets
        BY <1>0, <3>1 DEF ToSet, BucketFor, Calls
      <4>2. QED
        BY <4>1 DEF Lists, Listed
    <3>4. w # t
      BY <3>2, <3>3 DEF Enqueued
    <3>5. CASE pc[w] = "cancelling"
      <4>1. ~Free(n)'
        BY <3>2, <3>5 DEF Books, HoldersInCall, HoldsInCall, Free
      <4>2. QED
        BY <1>0, <2>0, <3>2, <4>1, WakeupsAttended DEF Calls, Free
    <3>6. CASE pc[w] # "cancelling"
      <4>1. Attends(w, n)'
        BY <1>0, <3>2, <3>3, <3>4, <3>6 DEF Calls, Attends, Enqueued
      <4>2. QED
        BY <1>0, <2>0, <3>2, <4>1, WakeupsAttended DEF Calls, Free
    <3>7. QED
      BY <3>5, <3>6
  <2>9. QED
    BY <1>2, <2>1, <2>2, <2>3, <2>4, <2>5, <2>6, <2>7, <2>8 DEF Continue
<1>3. CASE UNCHANGED vars
  BY <1>3 DEF vars, objects, lot, NoLostWakeup, Free, Attends
<1>4. QED
  BY <1>1, <1>2, <1>3 DEF Next

-----------------------------------------------------------------------------
\* Nobody holds, parks or waits for anything at the start.
THEOREM InitHolds == Init => IInv
<1> SUFFICES ASSUME Init PROVE IInv
  OBVIOUS
<1> USE ConstantsAssumption DEF Init
<1>1. Books
  BY DEF Books, Objects, Calls, CountsMatch, HoldersInCall, OwnerIsHolder, DeadUnused,
         States, HoldsInCall
<1>2. Lists
  BY DEF Lists, Lot, Listed, Placed, NoStaleEvent, Enqueued, ToSet, IsInjective
<1>3. ParkedCounted
  <2>1. \A b \in Buckets : Counted(b) = {}
    BY DEF Counted, InLot
  <2>2. QED
    BY <2>1, FS_EmptySet DEF ParkedCounted
<1>4. NoLostWakeup
  BY DEF NoLostWakeup
<1>5. QED
  BY <1>1, <1>2, <1>3, <1>4 DEF IInv

\* The four groups of facts hold together: each step needs the others' last state.
THEOREM Invariance == Spec => []IInv
<1>1. IInv /\ [Next]_vars => IInv'
  BY BooksKept, ListsKept, CountsKept, WakeupsKept DEF IInv
<1>2. QED
  BY InitHolds, <1>1, PTL DEF Spec

\* Every variable keeps its type: in particular no bucket's count falls below zero and
\* no mutex is held deeper than it was locked.
THEOREM TypeCorrect == Spec => []TypeOK
<1>1. IInv => TypeOK
  <2> SUFFICES ASSUME IInv PROVE TypeOK
    OBVIOUS
  <2>1. parked \in [Buckets -> Nat]
    <3>1. \A b \in Buckets : Counted(b) \in SUBSET Threads /\ Cardinality(Counted(b)) \in Nat
      BY CountMovesByOne, FS_Subset, FS_CardinalityType, ConstantsAssumption DEF Counted
    <3>2. QED
      BY <3>1 DEF IInv, ParkedCounted, Lists, Lot
  <2>2. count \in [Mutexes -> 0..MaxDepth]
    BY DEF IInv, Books, Objects, CountsMatch
  <2>3. QED
    BY <2>1, <2>2 DEF IInv, Books, Objects, Calls, Lists, Lot, TypeOK
<1>2. QED
  BY Invariance, <1>1, PTL

\* _owner names a thread only while it holds the native mutex, which nobody else but a
\* call on its way in or out can hold: mutual exclusion as the guest sees it.
THEOREM OwnerIsHolderHolds == Spec => []OwnerIsHolder
<1>1. IInv => OwnerIsHolder
  BY DEF IInv, Books
<1>2. QED
  BY Invariance, <1>1, PTL

\* A bucket's count is the number of threads in it, so that zero lets Unpark return.
THEOREM ParkedCountedHolds == Spec => []ParkedCounted
<1>1. IInv => ParkedCounted
  BY DEF IInv
<1>2. QED
  BY Invariance, <1>1, PTL

\* No event outlives the wait it ended.
THEOREM NoStaleEventHolds == Spec => []NoStaleEvent
<1>1. IInv => NoStaleEvent
  BY DEF IInv, Lists
<1>2. QED
  BY Invariance, <1>1, PTL

\* A free mutex with a sleeper always has a thread on its way to look after it.
THEOREM NoLostWakeupHolds == Spec => []NoLostWakeup
<1>1. IInv => NoLostWakeup
  BY DEF IInv
<1>2. QED
  BY Invariance, <1>1, PTL
===============================================================================
