----------------------------- MODULE PthreadRwlock -----------------------------
(***************************************************************************)
(* Guest reader-writer locks (libkernel/Pthread/src/Rwlock.cpp) over       *)
(* TimedWait::Condition.                                                   *)
(*                                                                         *)
(* A call runs under PthreadRwlockPrivate::_state, which it gives up only  *)
(* inside the condition, and notifies after it has unlocked _state: that   *)
(* window is the pc "notifying".  A writer that waits keeps new readers    *)
(* out; a thread that holds any read lock is let in all the same, and what *)
(* it holds is one thread-local count over all locks.                      *)
(*                                                                         *)
(* The guest is taken to unlock only what it holds and to destroy a lock   *)
(* only when no call on it is under way; it may destroy one that is held.  *)
(* A call refused by its early returns changes nothing and is no action.   *)
(***************************************************************************)
EXTENDS Integers, FiniteSets

CONSTANTS
  Threads,       \* guest threads
  Writers,       \* those that also lock for writing
  Locks,
  MaxDepth,      \* bound on the read locks one thread holds on one lock
  MaxHeld,       \* bound on readLocksHeld
  DestroysHeld,  \* whether the guest destroys locks that are held
  NoThread       \* std::thread::id{}

ASSUME ConstantsAssumption ==
  /\ IsFiniteSet(Threads)
  /\ Writers \subseteq Threads
  /\ MaxDepth \in Nat /\ MaxHeld \in Nat
  /\ DestroysHeld \in BOOLEAN
  /\ NoThread \notin Threads

VARIABLES
  writer, readers, waitingWriters,   \* PthreadRwlockPrivate
  alive,            \* the handle names an object (else it was destroyed)
  sleeping,         \* the wait set of _changed
  readLocksHeld,    \* the thread-local count
  expired,          \* threads whose wait reported its deadline
  pc, target, timed,
  holds             \* history: the read locks the guest took and may unlock

object == <<writer, readers, waitingWriters, alive>>
call == <<pc, target, timed>>
vars == <<object, sleeping, readLocksHeld, expired, call, holds>>

Holds == Threads \X Locks \X (1..MaxDepth)
OnLock(l) == {h \in holds : h[2] = l}
OfThread(t) == {h \in holds : h[1] = t}
WaitingToWrite(l) == {t \in Threads : pc[t] = "writing" /\ target[t] = l}

TypeOK ==
  /\ writer \in [Locks -> Threads \cup {NoThread}]
  /\ readers \in [Locks -> Nat] /\ waitingWriters \in [Locks -> Nat]
  /\ alive \in [Locks -> BOOLEAN]
  /\ sleeping \in [Locks -> SUBSET Threads]
  /\ readLocksHeld \in [Threads -> Nat]
  /\ expired \subseteq Threads
  /\ pc \in [Threads -> {"idle", "reading", "writing", "notifying"}]
  /\ target \in [Threads -> Locks] /\ timed \in [Threads -> BOOLEAN]
  /\ holds \subseteq Holds

-----------------------------------------------------------------------------
(* Pieces of the entry points *)

OwnsWrite(t, l) == writer[l] = t

\* A waiting writer keeps out those that hold nothing.
ReaderMayEnterPoliteAlways(t, l) == writer[l] = NoThread /\ waitingWriters[l] = 0
ReaderMayEnterRude(t, l) == writer[l] = NoThread
ReaderMayEnter(t, l) ==
  /\ writer[l] = NoThread
  /\ waitingWriters[l] = 0 \/ readLocksHeld[t] # 0

WriterMayEnterOverReaders(l) == writer[l] = NoThread
WriterMayEnter(l) == writer[l] = NoThread /\ readers[l] = 0

MayEnter(t) == IF pc[t] = "writing" THEN WriterMayEnter(target[t])
                                    ELSE ReaderMayEnter(t, target[t])

\* The k-th read lock of t on l is the one it takes next, or gives back next.
IsNextDepth(t, l, k) == <<t, l, k>> \notin holds /\ \A j \in 1..(k - 1) : <<t, l, j>> \in holds
IsTopDepth(t, l, k) == <<t, l, k>> \in holds /\ <<t, l, k + 1>> \notin holds

EnterRead(t, l, k) ==
  /\ IsNextDepth(t, l, k)
  /\ readLocksHeld[t] < MaxHeld
  /\ readers' = [readers EXCEPT ![l] = @ + 1]
  /\ readLocksHeld' = [readLocksHeld EXCEPT ![t] = @ + 1]
  /\ holds' = holds \cup {<<t, l, k>>}
  /\ UNCHANGED <<writer, waitingWriters, alive>>

\* Unlock's decrement of the thread-local count.
HeldAfter(t) == IF readLocksHeld[t] # 0 THEN [readLocksHeld EXCEPT ![t] = @ - 1]
                                        ELSE readLocksHeld

\* How a writer whose deadline passed leaves: its caller notifies the readers it held back.
AfterTimeoutSilent == "idle"
AfterTimeout == "notifying"

\* The writer no longer waits.
StopWaiting(l) == [waitingWriters EXCEPT ![l] = @ - 1]

GoTo(t, state) == pc' = [pc EXCEPT ![t] = state]
Sleep(t, l) == sleeping' = [sleeping EXCEPT ![l] = @ \cup {t}]

-----------------------------------------------------------------------------
Init ==
  /\ writer = [l \in Locks |-> NoThread]
  /\ readers = [l \in Locks |-> 0]
  /\ waitingWriters = [l \in Locks |-> 0]
  /\ alive = [l \in Locks |-> TRUE]
  /\ sleeping = [l \in Locks |-> {}]
  /\ readLocksHeld = [t \in Threads |-> 0]
  /\ expired = {}
  /\ pc = [t \in Threads |-> "idle"]
  /\ target \in [Threads -> Locks]
  /\ timed = [t \in Threads |-> FALSE]
  /\ holds = {}

\* Rdlock, Tryrdlock and Timedrdlock that get in without waiting.
RdlockAtOnce(t, l, k) ==
  /\ pc[t] = "idle"
  /\ alive[l]
  /\ ~OwnsWrite(t, l)
  /\ ReaderMayEnter(t, l)
  /\ EnterRead(t, l, k)
  /\ UNCHANGED <<sleeping, expired, call>>

RdlockBlocks(t, l, withTimeout) ==
  /\ pc[t] = "idle"
  /\ alive[l]
  /\ ~OwnsWrite(t, l)
  /\ ~ReaderMayEnter(t, l)
  /\ GoTo(t, "reading")
  /\ target' = [target EXCEPT ![t] = l]
  /\ timed' = [timed EXCEPT ![t] = withTimeout]
  /\ Sleep(t, l)
  /\ UNCHANGED <<object, readLocksHeld, expired, holds>>

\* Wrlock, Trywrlock and Timedwrlock that get in without waiting.
WrlockAtOnce(t, l) ==
  /\ pc[t] = "idle"
  /\ alive[l]
  /\ ~OwnsWrite(t, l)
  /\ WriterMayEnter(l)
  /\ writer' = [writer EXCEPT ![l] = t]
  /\ UNCHANGED <<readers, waitingWriters, alive, sleeping, readLocksHeld, expired, call, holds>>

WrlockBlocks(t, l, withTimeout) ==
  /\ pc[t] = "idle"
  /\ alive[l]
  /\ ~OwnsWrite(t, l)
  /\ ~WriterMayEnter(l)
  /\ waitingWriters' = [waitingWriters EXCEPT ![l] = @ + 1]
  /\ GoTo(t, "writing")
  /\ target' = [target EXCEPT ![t] = l]
  /\ timed' = [timed EXCEPT ![t] = withTimeout]
  /\ Sleep(t, l)
  /\ UNCHANGED <<writer, readers, alive, readLocksHeld, expired, holds>>

-----------------------------------------------------------------------------
(* A waiter that is awake and has _state again *)

Awake(t, state) == pc[t] = state /\ t \notin sleeping[target[t]]

\* It was notified for somebody else, or woke spuriously.
SleepAgain(t) ==
  /\ \E state \in {"reading", "writing"} : Awake(t, state)
  /\ t \notin expired
  /\ ~MayEnter(t)
  /\ Sleep(t, target[t])
  /\ UNCHANGED <<object, readLocksHeld, expired, call, holds>>

ReadEnters(t, k) ==
  /\ Awake(t, "reading")
  /\ MayEnter(t)
  /\ EnterRead(t, target[t], k)
  /\ expired' = expired \ {t}
  /\ GoTo(t, "idle")
  /\ UNCHANGED <<sleeping, target, timed>>

ReadTimesOut(t) ==
  /\ Awake(t, "reading")
  /\ t \in expired
  /\ ~MayEnter(t)
  /\ expired' = expired \ {t}
  /\ GoTo(t, "idle")
  /\ UNCHANGED <<object, sleeping, readLocksHeld, target, timed, holds>>

WriteEnters(t) ==
  /\ Awake(t, "writing")
  /\ MayEnter(t)
  /\ waitingWriters' = StopWaiting(target[t])
  /\ writer' = [writer EXCEPT ![target[t]] = t]
  /\ expired' = expired \ {t}
  /\ GoTo(t, "idle")
  /\ UNCHANGED <<readers, alive, sleeping, readLocksHeld, target, timed, holds>>

WriteTimesOut(t) ==
  /\ Awake(t, "writing")
  /\ t \in expired
  /\ ~MayEnter(t)
  /\ waitingWriters' = StopWaiting(target[t])
  /\ expired' = expired \ {t}
  /\ GoTo(t, AfterTimeout)
  /\ UNCHANGED <<writer, readers, alive, sleeping, readLocksHeld, target, timed, holds>>

-----------------------------------------------------------------------------
UnlockWrite(t, l) ==
  /\ pc[t] = "idle"
  /\ alive[l]
  /\ OwnsWrite(t, l)
  /\ writer' = [writer EXCEPT ![l] = NoThread]
  /\ GoTo(t, "notifying")
  /\ target' = [target EXCEPT ![t] = l]
  /\ UNCHANGED <<readers, waitingWriters, alive, sleeping, readLocksHeld, expired, timed, holds>>

\* Only the last reader notifies.
UnlockRead(t, l, k) ==
  /\ pc[t] = "idle"
  /\ alive[l]
  /\ ~OwnsWrite(t, l)
  /\ writer[l] = NoThread
  /\ readers[l] # 0
  /\ IsTopDepth(t, l, k)
  /\ readLocksHeld' = HeldAfter(t)
  /\ readers' = [readers EXCEPT ![l] = @ - 1]
  /\ holds' = holds \ {<<t, l, k>>}
  /\ GoTo(t, IF readers[l] = 1 THEN "notifying" ELSE "idle")
  /\ target' = [target EXCEPT ![t] = l]
  /\ UNCHANGED <<writer, waitingWriters, alive, sleeping, expired, timed>>

\* NotifyAll, after _state was unlocked.
Notify(t) ==
  /\ pc[t] = "notifying"
  /\ sleeping' = [sleeping EXCEPT ![target[t]] = {}]
  /\ GoTo(t, "idle")
  /\ UNCHANGED <<object, readLocksHeld, expired, target, timed, holds>>

\* The handle becomes the destroyed mark; an object that is held is left behind.
\* What the guest held on it cannot be unlocked any more, and the thread-local counts
\* stay as they are.
Destroy(t, l) ==
  /\ pc[t] = "idle"
  /\ alive[l]
  /\ \A u \in Threads : target[u] = l => pc[u] = "idle"
  /\ DestroysHeld \/ (writer[l] = NoThread /\ readers[l] = 0)
  /\ alive' = [alive EXCEPT ![l] = FALSE]
  /\ holds' = holds \ OnLock(l)
  /\ UNCHANGED <<writer, readers, waitingWriters, sleeping, readLocksHeld, expired, call>>

\* scePthreadRwlockInit on the destroyed handle: a fresh object.
InitRwlock(t, l) ==
  /\ pc[t] = "idle"
  /\ ~alive[l]
  /\ alive' = [alive EXCEPT ![l] = TRUE]
  /\ writer' = [writer EXCEPT ![l] = NoThread]
  /\ readers' = [readers EXCEPT ![l] = 0]
  /\ waitingWriters' = [waitingWriters EXCEPT ![l] = 0]
  /\ UNCHANGED <<sleeping, readLocksHeld, expired, call, holds>>

-----------------------------------------------------------------------------
(* The condition *)

SpuriousWake(t) ==
  /\ t \in sleeping[target[t]]
  /\ sleeping' = [sleeping EXCEPT ![target[t]] = @ \ {t}]
  /\ UNCHANGED <<object, readLocksHeld, expired, call, holds>>

Expire(t) ==
  /\ t \in sleeping[target[t]]
  /\ timed[t]
  /\ sleeping' = [sleeping EXCEPT ![target[t]] = @ \ {t}]
  /\ expired' = expired \cup {t}
  /\ UNCHANGED <<object, readLocksHeld, call, holds>>

-----------------------------------------------------------------------------
Unlock(t) == \E l \in Locks : UnlockWrite(t, l) \/ \E k \in 1..MaxDepth : UnlockRead(t, l, k)

Call(t) ==
  \E l \in Locks :
    \/ \E k \in 1..MaxDepth : RdlockAtOnce(t, l, k)
    \/ \E withTimeout \in BOOLEAN : RdlockBlocks(t, l, withTimeout)
    \/ t \in Writers /\ WrlockAtOnce(t, l)
    \/ t \in Writers /\ \E withTimeout \in BOOLEAN : WrlockBlocks(t, l, withTimeout)
    \/ Destroy(t, l)
    \/ InitRwlock(t, l)

Continue(t) ==
  \/ SleepAgain(t)
  \/ \E k \in 1..MaxDepth : ReadEnters(t, k)
  \/ ReadTimesOut(t)
  \/ WriteEnters(t)
  \/ WriteTimesOut(t)
  \/ Notify(t)

Next == \E t \in Threads : Call(t) \/ Unlock(t) \/ Continue(t) \/ SpuriousWake(t) \/ Expire(t)

Spec == Init /\ [][Next]_vars

\* The host runs every thread that can go on, and the guest unlocks what it locked.
Fairness == \A t \in Threads : WF_vars(Continue(t)) /\ WF_vars(Unlock(t))
FairSpec == Spec /\ Fairness

-----------------------------------------------------------------------------
(* Properties *)

\* A writer is alone, and the count that WriterMayEnter and the last reader's
\* notification go by is the number of read locks the guest holds.
WritersExclude ==
  \A l \in Locks : alive[l] =>
    /\ readers[l] = Cardinality(OnLock(l))
    /\ writer[l] # NoThread => OnLock(l) = {}

\* Readers are held back by writers that wait and by no others: a writer that gave up
\* is not counted any more.
WaitingWritersCounted ==
  \A l \in Locks : alive[l] => waitingWriters[l] = Cardinality(WaitingToWrite(l))

\* A thread that holds a lock for reading never blocks when it takes it again, whatever
\* writers wait for it: they wait for that very thread.
RelockingReaderEnters ==
  \A t \in Threads : pc[t] = "reading" => OfThread(t) \cap OnLock(target[t]) = {}

\* Whoever sleeps although it may enter will be notified: the thread that let it is on
\* its way to NotifyAll.
NoMissedWakeup ==
  \A t \in Threads :
    t \in sleeping[target[t]] /\ MayEnter(t)
      => \E u \in Threads : pc[u] = "notifying" /\ target[u] = target[t]

\* Readers that come and go do not starve a writer: it gets in if every thread lets go
\* of all it counts now and then.  A thread that never does passes the writer each time:
\* one that relocks before it unlocks, waits for another lock while it reads, or held a
\* lock that was destroyed, which leaves its count too high for good.
WaitsForGood(t, l) == pc[t] = "writing" /\ target[t] = l /\ ~timed[t]
WriterGetsIn ==
  (\A u \in Threads : []<>(readLocksHeld[u] = 0))
    => \A t \in Writers : \A l \in Locks : WaitsForGood(t, l) ~> writer[l] # NoThread
===============================================================================
