-------------------------- MODULE PthreadWaitProofs --------------------------
(***************************************************************************)
(* Two components of the guest's pthread library, proved about side by     *)
(* side: the reader-writer lock and the host condition it waits on.  They  *)
(* share no name; each part is about the specification of its component.   *)
(***************************************************************************)
EXTENDS PthreadRwlock, TimedCondition, QueueLemmas, TLAPS

-----------------------------------------------------------------------------
(***************************************************************************)
(* For every set of threads and locks: writers exclude, the counts the     *)
(* predicates go by are exact, a reader that takes its lock again is not   *)
(* held back and nobody misses a wake-up.  RelockingReaderEnters rests on  *)
(* HeldCovers: the thread-local count is never below what the thread       *)
(* holds, though a lock destroyed while held leaves it above.              *)
(***************************************************************************)

\* What lets a reader through is never less than what it holds.
HeldCovers == \A t \in Threads : Cardinality(OfThread(t)) <= readLocksHeld[t]

\* No call is under way on a destroyed lock, and nothing on it can be unlocked.
DeadUnused ==
  \A l \in Locks : ~alive[l] =>
    /\ OnLock(l) = {}
    /\ \A t \in Threads : target[t] = l => pc[t] = "idle"

SleepersInCall ==
  \A l \in Locks : \A t \in sleeping[l] : target[t] = l /\ pc[t] \in {"reading", "writing"}

Typing == TypeOK /\ IsFiniteSet(holds)
Counts == WritersExclude /\ WaitingWritersCounted /\ HeldCovers
IInv == Typing /\ Counts /\ DeadUnused /\ SleepersInCall /\ RelockingReaderEnters /\ NoMissedWakeup

-----------------------------------------------------------------------------
(* Counting *)

\* The members of a thread's holds are counted by its entries.
LEMMA HoldsCounted ==
  ASSUME Typing
  PROVE  /\ \A l \in Locks : OnLock(l) \in SUBSET holds /\ Cardinality(OnLock(l)) \in Nat
         /\ \A t \in Threads : OfThread(t) \in SUBSET holds /\ Cardinality(OfThread(t)) \in Nat
<1>1. \A S \in SUBSET holds : Cardinality(S) \in Nat
  BY FS_Subset, FS_CardinalityType DEF Typing
<1>2. QED
  BY <1>1 DEF OnLock, OfThread

\* A read lock taken: counted once for its lock and once for its thread.
LEMMA HoldTaken ==
  ASSUME Typing, NEW t \in Threads, NEW l \in Locks, NEW k \in 1..MaxDepth,
         <<t, l, k>> \notin holds, holds' = holds \cup {<<t, l, k>>}
  PROVE  /\ IsFiniteSet(holds') /\ holds' \subseteq Holds
         /\ Cardinality(OnLock(l)') = Cardinality(OnLock(l)) + 1
         /\ \A m \in Locks : m # l => OnLock(m)' = OnLock(m)
         /\ Cardinality(OfThread(t)') = Cardinality(OfThread(t)) + 1
         /\ \A u \in Threads : u # t => OfThread(u)' = OfThread(u)
<1> DEFINE h == <<t, l, k>>
<1>1. IsFiniteSet(holds') /\ h \in holds' /\ holds' \subseteq Holds
  <2>1. h \in Holds
    BY DEF Holds
  <2>2. holds \subseteq Holds /\ IsFiniteSet(holds)
    BY DEF Typing, TypeOK
  <2> HIDE DEF h
  <2>3. holds' = holds \cup {h}
    BY DEF h
  <2>4. IsFiniteSet(holds')
    BY <2>2, <2>3, FS_AddElement
  <2>5. QED
    BY <2>1, <2>2, <2>3, <2>4
<1>2. /\ OnLock(l)' = OnLock(l) \cup {h} /\ h \notin OnLock(l) /\ OnLock(l) \in SUBSET holds'
      /\ OfThread(t)' = OfThread(t) \cup {h} /\ h \notin OfThread(t) /\ OfThread(t) \in SUBSET holds'
  BY DEF OnLock, OfThread
<1>3. /\ Cardinality(OnLock(l)') = Cardinality(OnLock(l)) + 1
      /\ Cardinality(OfThread(t)') = Cardinality(OfThread(t)) + 1
  BY <1>1, <1>2, CountMovesByOne
<1>4. /\ \A m \in Locks : m # l => OnLock(m)' = OnLock(m)
      /\ \A u \in Threads : u # t => OfThread(u)' = OfThread(u)
  BY DEF OnLock, OfThread
<1>5. QED
  BY <1>1, <1>3, <1>4

\* A read lock given back.
LEMMA HoldReturned ==
  ASSUME Typing, NEW t \in Threads, NEW l \in Locks, NEW k \in 1..MaxDepth,
         <<t, l, k>> \in holds, holds' = holds \ {<<t, l, k>>}
  PROVE  /\ IsFiniteSet(holds') /\ holds' \subseteq Holds
         /\ Cardinality(OnLock(l)') = Cardinality(OnLock(l)) - 1
         /\ OnLock(l)' \subseteq OnLock(l) /\ Cardinality(OnLock(l)) >= 1
         /\ \A m \in Locks : m # l => OnLock(m)' = OnLock(m)
         /\ Cardinality(OfThread(t)') = Cardinality(OfThread(t)) - 1
         /\ Cardinality(OfThread(t)) >= 1 /\ OfThread(t)' \subseteq OfThread(t)
         /\ \A u \in Threads : u # t => OfThread(u)' = OfThread(u)
<1> DEFINE h == <<t, l, k>>
<1>1. IsFiniteSet(holds) /\ IsFiniteSet(holds') /\ h \in holds /\ holds' \subseteq Holds
  BY FS_RemoveElement DEF Typing, TypeOK
<1>2. /\ OnLock(l)' = OnLock(l) \ {h} /\ h \in OnLock(l) /\ OnLock(l) \in SUBSET holds
      /\ OfThread(t)' = OfThread(t) \ {h} /\ h \in OfThread(t) /\ OfThread(t) \in SUBSET holds
  BY DEF OnLock, OfThread
<1>3. /\ Cardinality(OnLock(l)') = Cardinality(OnLock(l)) - 1 /\ Cardinality(OnLock(l)) >= 1
      /\ Cardinality(OfThread(t)') = Cardinality(OfThread(t)) - 1 /\ Cardinality(OfThread(t)) >= 1
  <2> HIDE DEF h
  <2>1. Cardinality(OnLock(l)') = Cardinality(OnLock(l)) - 1 /\ Cardinality(OnLock(l)) >= 1
    BY <1>1, <1>2, CountMovesByOne
  <2>2. Cardinality(OfThread(t)') = Cardinality(OfThread(t)) - 1 /\ Cardinality(OfThread(t)) >= 1
    BY <1>1, <1>2, CountMovesByOne
  <2>3. QED
    BY <2>1, <2>2
<1>4. /\ \A m \in Locks : m # l => OnLock(m)' = OnLock(m)
      /\ \A u \in Threads : u # t => OfThread(u)' = OfThread(u)
  BY DEF OnLock, OfThread
<1>5. QED
  BY <1>1, <1>2, <1>3, <1>4

\* Same holds, same counts.
LEMMA SameHolds ==
  ASSUME UNCHANGED holds
  PROVE  /\ \A l \in Locks : OnLock(l)' = OnLock(l)
         /\ \A t \in Threads : OfThread(t)' = OfThread(t)
BY DEF OnLock, OfThread

\* The writers that wait: one more, one fewer, or the same.
LEMMA WritersCounted ==
  ASSUME Typing, NEW t \in Threads, NEW l \in Locks,
         \A u \in Threads : u # t => pc'[u] = pc[u] /\ target'[u] = target[u]
  PROVE  /\ pc[t] # "writing" /\ pc'[t] = "writing" /\ target'[t] = l =>
              /\ Cardinality(WaitingToWrite(l)') = Cardinality(WaitingToWrite(l)) + 1
              /\ \A m \in Locks : m # l => WaitingToWrite(m)' = WaitingToWrite(m)
         /\ pc[t] = "writing" /\ target[t] = l /\ pc'[t] # "writing" =>
              /\ Cardinality(WaitingToWrite(l)') = Cardinality(WaitingToWrite(l)) - 1
              /\ Cardinality(WaitingToWrite(l)) >= 1
              /\ \A m \in Locks : m # l => WaitingToWrite(m)' = WaitingToWrite(m)
         /\ pc[t] # "writing" /\ pc'[t] # "writing" =>
              \A m \in Locks : WaitingToWrite(m)' = WaitingToWrite(m)
<1>1. WaitingToWrite(l) \in SUBSET Threads /\ IsFiniteSet(Threads)
  BY ConstantsAssumption DEF WaitingToWrite
<1>2. ASSUME pc[t] # "writing", pc'[t] = "writing", target'[t] = l
      PROVE  /\ Cardinality(WaitingToWrite(l)') = Cardinality(WaitingToWrite(l)) + 1
             /\ \A m \in Locks : m # l => WaitingToWrite(m)' = WaitingToWrite(m)
  <2>1. WaitingToWrite(l)' = WaitingToWrite(l) \cup {t} /\ t \notin WaitingToWrite(l)
    BY <1>2 DEF WaitingToWrite
  <2>2. \A m \in Locks : m # l => WaitingToWrite(m)' = WaitingToWrite(m)
    BY <1>2 DEF WaitingToWrite
  <2>3. QED
    BY <1>1, <2>1, <2>2, CountMovesByOne
<1>3. ASSUME pc[t] = "writing", target[t] = l, pc'[t] # "writing"
      PROVE  /\ Cardinality(WaitingToWrite(l)') = Cardinality(WaitingToWrite(l)) - 1
             /\ Cardinality(WaitingToWrite(l)) >= 1
             /\ \A m \in Locks : m # l => WaitingToWrite(m)' = WaitingToWrite(m)
  <2>1. WaitingToWrite(l)' = WaitingToWrite(l) \ {t} /\ t \in WaitingToWrite(l)
    BY <1>3 DEF WaitingToWrite
  <2>2. \A m \in Locks : m # l => WaitingToWrite(m)' = WaitingToWrite(m)
    BY <1>3 DEF WaitingToWrite
  <2>3. QED
    BY <1>1, <2>1, <2>2, CountMovesByOne
<1>4. ASSUME pc[t] # "writing", pc'[t] # "writing"
      PROVE  \A m \in Locks : WaitingToWrite(m)' = WaitingToWrite(m)
  BY <1>4 DEF WaitingToWrite
<1>5. QED
  BY <1>2, <1>3, <1>4

-----------------------------------------------------------------------------
(* A read lock is taken, at once or after a wait *)

\* Entering for reading keeps the invariant.
LEMMA ReadEntryKeeps ==
  ASSUME IInv, NEW t \in Threads, NEW l \in Locks, NEW k \in 1..MaxDepth,
         ReaderMayEnter(t, l), EnterRead(t, l, k), alive[l],
         pc[t] = "idle" \/ (pc[t] = "reading" /\ target[t] = l /\ t \notin sleeping[l]),
         pc' = [pc EXCEPT ![t] = "idle"], UNCHANGED <<sleeping, target, timed>>,
         expired' \subseteq Threads
  PROVE  IInv'
<1> USE DEF IInv
<1>1. /\ readers' = [readers EXCEPT ![l] = @ + 1]
      /\ readLocksHeld' = [readLocksHeld EXCEPT ![t] = @ + 1]
      /\ <<t, l, k>> \notin holds /\ holds' = holds \cup {<<t, l, k>>}
      /\ UNCHANGED <<writer, waitingWriters, alive>> /\ writer[l] = NoThread
  BY DEF EnterRead, IsNextDepth, ReaderMayEnter
<1>2. /\ IsFiniteSet(holds') /\ holds' \subseteq Holds
      /\ Cardinality(OnLock(l)') = Cardinality(OnLock(l)) + 1
      /\ \A m \in Locks : m # l => OnLock(m)' = OnLock(m)
      /\ Cardinality(OfThread(t)') = Cardinality(OfThread(t)) + 1
      /\ \A u \in Threads : u # t => OfThread(u)' = OfThread(u)
  BY <1>1, HoldTaken
<1>3. Typing'
  BY <1>1, <1>2 DEF Typing, TypeOK
<1>4. WritersExclude' /\ HeldCovers'
  <2>1. WritersExclude'
    BY <1>1, <1>2 DEF Counts, WritersExclude, Typing, TypeOK
  <2>2. HeldCovers'
    BY <1>1, <1>2, HoldsCounted DEF Counts, HeldCovers, Typing, TypeOK
  <2>3. QED
    BY <2>1, <2>2
<1>5. WaitingWritersCounted'
  <2>1. \A m \in Locks : WaitingToWrite(m)' = WaitingToWrite(m)
    BY WritersCounted DEF Typing, TypeOK
  <2>2. QED
    BY <1>1, <2>1 DEF Counts, WaitingWritersCounted
<1>6. DeadUnused'
  BY <1>1, <1>2 DEF DeadUnused, Typing, TypeOK
<1>7. SleepersInCall'
  BY DEF SleepersInCall, Typing, TypeOK
<1>8. RelockingReaderEnters'
  <2>1. \A u \in Threads : u # t => OfThread(u)' \cap OnLock(target[u])' = OfThread(u) \cap OnLock(target[u])
    BY <1>1 DEF OfThread, OnLock
  <2>2. QED
    BY <2>1 DEF RelockingReaderEnters, Typing, TypeOK
<1>9. NoMissedWakeup'
  BY <1>1, HoldsCounted DEF NoMissedWakeup, MayEnter, ReaderMayEnter, WriterMayEnter,
       SleepersInCall, Typing, TypeOK
<1>10. QED
  BY <1>3, <1>4, <1>5, <1>6, <1>7, <1>8, <1>9 DEF Counts

-----------------------------------------------------------------------------
(* A thread starts or ends a wait without entering, or notifies *)

\* So does a step into, in or out of a wait that takes no lock.
LEMMA WaitStepKeeps ==
  ASSUME IInv, NEW t \in Threads,
         \/ \E l \in Locks : \E withTimeout \in BOOLEAN : RdlockBlocks(t, l, withTimeout)
         \/ SleepAgain(t) \/ ReadTimesOut(t) \/ Notify(t) \/ SpuriousWake(t) \/ Expire(t)
  PROVE  IInv'
<1> USE DEF IInv
<1>1. UNCHANGED <<writer, readers, waitingWriters, alive, readLocksHeld, holds>>
  BY DEF RdlockBlocks, SleepAgain, ReadTimesOut, Notify, SpuriousWake, Expire, object
<1>2. /\ \A u \in Threads : u # t => pc'[u] = pc[u] /\ target'[u] = target[u]
      /\ pc[t] = "writing" => pc'[t] = "writing" /\ target'[t] = target[t]
      /\ pc[t] # "writing" => pc'[t] # "writing"
      /\ pc'[t] # "idle" => alive[target'[t]]
      /\ pc'[t] = "idle" => target'[t] = target[t]
      /\ pc'[t] = "reading" /\ pc[t] # "reading" =>
            readLocksHeld[t] = 0 \/ writer[target'[t]] # NoThread
      /\ pc'[t] = "reading" /\ pc[t] = "reading" => target'[t] = target[t]
  BY DEF RdlockBlocks, SleepAgain, ReadTimesOut, Notify, SpuriousWake, Expire, Typing, TypeOK,
         call, GoTo, DeadUnused, Awake, ReaderMayEnter
<1>3. Typing'
  BY <1>1 DEF RdlockBlocks, SleepAgain, ReadTimesOut, Notify, SpuriousWake, Expire, Typing,
       TypeOK, call, GoTo, Sleep, Awake
<1>4. \A m \in Locks : WaitingToWrite(m)' = WaitingToWrite(m) /\ OnLock(m)' = OnLock(m)
  BY <1>1, <1>2 DEF WaitingToWrite, OnLock
<1>5. \A u \in Threads : OfThread(u)' = OfThread(u)
  BY <1>1 DEF OfThread
<1>6. Counts'
  BY <1>1, <1>4, <1>5 DEF Counts, WritersExclude, WaitingWritersCounted, HeldCovers
<1>7. DeadUnused'
  BY <1>1, <1>2, <1>4 DEF DeadUnused
<1>8. SleepersInCall'
  BY DEF RdlockBlocks, SleepAgain, ReadTimesOut, Notify, SpuriousWake, Expire, Typing, TypeOK,
         call, GoTo, Sleep, Awake, SleepersInCall
<1>9. RelockingReaderEnters'
  <2>1. readLocksHeld[t] = 0 => OfThread(t) = {}
    <3>1. IsFiniteSet(OfThread(t)) /\ Cardinality(OfThread(t)) \in Nat
      BY FS_Subset, FS_CardinalityType DEF Typing, OfThread
    <3>2. QED
      BY <3>1, FS_EmptySet DEF Counts, HeldCovers, Typing, TypeOK
  <2>2. \A m \in Locks : alive[m] /\ writer[m] # NoThread => OnLock(m) = {}
    BY DEF Counts, WritersExclude
  <2>3. target'[t] \in Locks /\ \A u \in Threads : target[u] \in Locks
    BY <1>3 DEF Typing, TypeOK
  <2>4. QED
    BY <1>2, <1>4, <1>5, <2>1, <2>2, <2>3 DEF RelockingReaderEnters
<1>10. NoMissedWakeup'
  BY <1>1 DEF RdlockBlocks, SleepAgain, ReadTimesOut, Notify, SpuriousWake, Expire, Typing,
       TypeOK, call, GoTo, Sleep, Awake, SleepersInCall, NoMissedWakeup, MayEnter,
       ReaderMayEnter, WriterMayEnter
<1>11. QED
  BY <1>3, <1>6, <1>7, <1>8, <1>9, <1>10

-----------------------------------------------------------------------------
(* Writers *)

WriterStep(t) ==
  \/ \E l \in Locks : WrlockAtOnce(t, l) \/ \E withTimeout \in BOOLEAN : WrlockBlocks(t, l, withTimeout)
  \/ WriteEnters(t) \/ WriteTimesOut(t)

\* A writer that waits is counted, so that its lock's count can be taken down.
LEMMA WaiterCounted ==
  ASSUME IInv, NEW t \in Threads, pc[t] = "writing"
  PROVE  target[t] \in Locks /\ alive[target[t]] /\ waitingWriters[target[t]] >= 1
<1>1. target[t] \in Locks /\ alive[target[t]]
  BY DEF IInv, DeadUnused, Typing, TypeOK
<1>2. IsFiniteSet(WaitingToWrite(target[t])) /\ t \in WaitingToWrite(target[t])
  BY FS_Subset, ConstantsAssumption DEF WaitingToWrite
<1>3. Cardinality(WaitingToWrite(target[t])) \in Nat /\ Cardinality(WaitingToWrite(target[t])) # 0
  BY <1>2, FS_CardinalityType, FS_EmptySet
<1>4. QED
  BY <1>1, <1>3 DEF IInv, Counts, WaitingWritersCounted

\* So does a writer that blocks, enters or gives up.
LEMMA WriterStepKeeps ==
  ASSUME IInv, NEW t \in Threads, WriterStep(t)
  PROVE  IInv'
<1> USE DEF IInv
<1>1. UNCHANGED <<readers, alive, readLocksHeld, holds>>
  BY DEF WriterStep, WrlockAtOnce, WrlockBlocks, WriteEnters, WriteTimesOut
<1>2. /\ \A l \in Locks : OnLock(l)' = OnLock(l)
      /\ \A u \in Threads : OfThread(u)' = OfThread(u)
  BY <1>1, SameHolds
<1>3. /\ \A u \in Threads : u # t => pc'[u] = pc[u] /\ target'[u] = target[u]
      /\ pc'[t] # "idle" => alive[target'[t]]
      /\ pc'[t] = "idle" => target'[t] = target[t]
      /\ pc[t] # "reading" /\ pc'[t] # "reading" /\ pc[t] # "notifying"
  BY DEF WriterStep, WrlockAtOnce, WrlockBlocks, WriteEnters, WriteTimesOut, Typing, TypeOK, GoTo,
         call, DeadUnused, Awake, AfterTimeout
<1>4. \A l \in Locks : waitingWriters[l] \in Nat /\ readers[l] \in Nat
  BY DEF Typing, TypeOK
<1>5. pc[t] = "writing" => target[t] \in Locks /\ waitingWriters[target[t]] >= 1
  BY WaiterCounted
<1>6. Typing'
  BY <1>1, <1>5 DEF WriterStep, WrlockAtOnce, WrlockBlocks, WriteEnters, WriteTimesOut, Typing,
       TypeOK, GoTo, call, Awake, AfterTimeout, StopWaiting, Sleep
<1>7. WritersExclude'
  <2>1. \A l \in Locks : alive[l] /\ readers[l] = 0 => OnLock(l) = {}
    <3>1. \A l \in Locks : IsFiniteSet(OnLock(l))
      BY FS_Subset DEF Typing, OnLock
    <3>2. QED
      BY <3>1, FS_EmptySet DEF Counts, WritersExclude
  <2>2. \A l \in Locks : alive[l] /\ writer'[l] # NoThread => writer[l] # NoThread \/ readers[l] = 0
    BY DEF WriterStep, WrlockAtOnce, WrlockBlocks, WriteEnters, WriteTimesOut, Typing, TypeOK,
           MayEnter, WriterMayEnter, Awake
  <2>3. QED
    BY <1>1, <1>2, <2>1, <2>2 DEF Counts, WritersExclude
<1>8. WaitingWritersCounted'
  <2>1. CASE \E l \in Locks : WrlockAtOnce(t, l)
    <3>1. \A m \in Locks : WaitingToWrite(m)' = WaitingToWrite(m) /\ waitingWriters' = waitingWriters
      BY <2>1 DEF WrlockAtOnce, WaitingToWrite, call
    <3>2. QED
      BY <1>1, <3>1 DEF Counts, WaitingWritersCounted
  <2>2. CASE \E l \in Locks : \E withTimeout \in BOOLEAN : WrlockBlocks(t, l, withTimeout)
    <3>1. PICK l \in Locks : \E withTimeout \in BOOLEAN : WrlockBlocks(t, l, withTimeout)
      BY <2>2
    <3>2. /\ pc[t] # "writing" /\ pc'[t] = "writing" /\ target'[t] = l
          /\ waitingWriters' = [waitingWriters EXCEPT ![l] = @ + 1]
      BY <3>1 DEF WrlockBlocks, GoTo, Typing, TypeOK
    <3>3. /\ Cardinality(WaitingToWrite(l)') = Cardinality(WaitingToWrite(l)) + 1
          /\ \A m \in Locks : m # l => WaitingToWrite(m)' = WaitingToWrite(m)
      BY <1>3, <3>2, WritersCounted
    <3>4. QED
      BY <1>1, <1>4, <3>2, <3>3 DEF Counts, WaitingWritersCounted, Typing, TypeOK
  <2>3. CASE WriteEnters(t) \/ WriteTimesOut(t)
    <3>1. PICK l \in Locks : l = target[t]
      BY DEF Typing, TypeOK
    <3>2. /\ pc[t] = "writing" /\ pc'[t] # "writing"
          /\ waitingWriters' = [waitingWriters EXCEPT ![l] = @ - 1]
      BY <2>3, <3>1 DEF WriteEnters, WriteTimesOut, Awake, GoTo, StopWaiting, AfterTimeout,
           Typing, TypeOK
    <3>3. /\ Cardinality(WaitingToWrite(l)') = Cardinality(WaitingToWrite(l)) - 1
          /\ \A m \in Locks : m # l => WaitingToWrite(m)' = WaitingToWrite(m)
      BY <1>3, <3>1, <3>2, WritersCounted
    <3>4. \A m \in Locks : waitingWriters'[m] = IF m = l THEN waitingWriters[m] - 1 ELSE waitingWriters[m]
      BY <3>2 DEF Typing, TypeOK
    <3>5. \A m \in Locks : alive'[m] => waitingWriters[m] = Cardinality(WaitingToWrite(m))
      BY <1>1 DEF Counts, WaitingWritersCounted
    <3>6. \A m \in Locks : alive'[m] => waitingWriters'[m] = Cardinality(WaitingToWrite(m)')
      BY <3>1, <3>3, <3>4, <3>5
    <3>7. QED
      BY <3>6 DEF WaitingWritersCounted
  <2>4. QED
    BY <2>1, <2>2, <2>3 DEF WriterStep
<1>9. HeldCovers'
  BY <1>1, <1>2 DEF Counts, HeldCovers
<1>10. DeadUnused'
  BY <1>1, <1>2, <1>3 DEF DeadUnused
<1>11. SleepersInCall'
  <2>1. CASE \E l \in Locks : WrlockAtOnce(t, l)
    BY <2>1 DEF WrlockAtOnce, call, SleepersInCall
  <2>2. CASE \E l \in Locks : \E withTimeout \in BOOLEAN : WrlockBlocks(t, l, withTimeout)
    BY <2>2 DEF WrlockBlocks, GoTo, Sleep, Typing, TypeOK, SleepersInCall
  <2>3. CASE WriteEnters(t) \/ WriteTimesOut(t)
    BY <2>3 DEF WriteEnters, WriteTimesOut, Awake, GoTo, Typing, TypeOK, SleepersInCall
  <2>4. QED
    BY <2>1, <2>2, <2>3 DEF WriterStep
<1>12. RelockingReaderEnters'
  BY <1>2, <1>3, <1>6 DEF RelockingReaderEnters, Typing, TypeOK
<1>13. NoMissedWakeup'
  <2>1. CASE \E l \in Locks : WrlockAtOnce(t, l)
    BY <2>1 DEF WrlockAtOnce, NoMissedWakeup, MayEnter, ReaderMayEnter, WriterMayEnter, call,
         Typing, TypeOK
  <2>2. CASE \E l \in Locks : \E withTimeout \in BOOLEAN : WrlockBlocks(t, l, withTimeout)
    BY <1>4, <2>2 DEF WrlockBlocks, NoMissedWakeup, MayEnter, ReaderMayEnter, WriterMayEnter,
         Typing, TypeOK, GoTo, Sleep, SleepersInCall
  <2>3. CASE WriteEnters(t)
    BY <2>3, ConstantsAssumption DEF WriteEnters, NoMissedWakeup, MayEnter, ReaderMayEnter,
         WriterMayEnter, Typing, TypeOK, GoTo, Awake, StopWaiting
  <2>4. CASE WriteTimesOut(t)
    BY <1>3, <1>6, <2>4 DEF WriteTimesOut, NoMissedWakeup, MayEnter, ReaderMayEnter,
         WriterMayEnter, Typing, TypeOK, GoTo, Awake, StopWaiting, AfterTimeout
  <2>5. QED
    BY <2>1, <2>2, <2>3, <2>4 DEF WriterStep
<1>14. QED
  BY <1>6, <1>7, <1>8, <1>9, <1>10, <1>11, <1>12, <1>13 DEF Counts

-----------------------------------------------------------------------------
(* Unlocking *)

\* So does an unlock by the writer.
LEMMA UnlockWriteKeeps ==
  ASSUME IInv, NEW t \in Threads, NEW l \in Locks, UnlockWrite(t, l)
  PROVE  IInv'
<1> USE DEF IInv
<1>1. UNCHANGED <<readers, waitingWriters, alive, sleeping, readLocksHeld, holds>>
  BY DEF UnlockWrite
<1>2. /\ \A m \in Locks : OnLock(m)' = OnLock(m) /\ WaitingToWrite(m)' = WaitingToWrite(m)
      /\ \A u \in Threads : OfThread(u)' = OfThread(u)
  BY <1>1 DEF UnlockWrite, OnLock, OfThread, WaitingToWrite, Typing, TypeOK, GoTo
<1>3. Typing'
  BY <1>1 DEF UnlockWrite, Typing, TypeOK, GoTo
<1>4. Counts'
  BY <1>1, <1>2 DEF UnlockWrite, Counts, WritersExclude, WaitingWritersCounted, HeldCovers,
       Typing, TypeOK
<1>5. DeadUnused' /\ SleepersInCall'
  BY <1>1, <1>2 DEF UnlockWrite, DeadUnused, SleepersInCall, Typing, TypeOK, GoTo
<1>6. RelockingReaderEnters'
  BY <1>2, <1>3 DEF UnlockWrite, RelockingReaderEnters, Typing, TypeOK, GoTo
<1>7. NoMissedWakeup'
  BY <1>1, <1>3 DEF UnlockWrite, NoMissedWakeup, MayEnter, ReaderMayEnter, WriterMayEnter,
       SleepersInCall, Typing, TypeOK, GoTo
<1>8. QED
  BY <1>3, <1>4, <1>5, <1>6, <1>7

\* So does an unlock by a reader.
LEMMA UnlockReadKeeps ==
  ASSUME IInv, NEW t \in Threads, NEW l \in Locks, NEW k \in 1..MaxDepth, UnlockRead(t, l, k)
  PROVE  IInv'
<1> USE DEF IInv
<1>1. /\ <<t, l, k>> \in holds /\ holds' = holds \ {<<t, l, k>>}
      /\ readers' = [readers EXCEPT ![l] = @ - 1]
      /\ UNCHANGED <<writer, waitingWriters, alive, sleeping, expired, timed>>
      /\ alive[l] /\ writer[l] = NoThread /\ readers[l] # 0 /\ pc[t] = "idle"
      /\ pc' = [pc EXCEPT ![t] = IF readers[l] = 1 THEN "notifying" ELSE "idle"]
      /\ target' = [target EXCEPT ![t] = l]
      /\ readLocksHeld' = HeldAfter(t)
  BY DEF UnlockRead, IsTopDepth, GoTo
<1>2. /\ IsFiniteSet(holds') /\ holds' \subseteq Holds
      /\ Cardinality(OnLock(l)') = Cardinality(OnLock(l)) - 1
      /\ OnLock(l)' \subseteq OnLock(l)
      /\ \A m \in Locks : m # l => OnLock(m)' = OnLock(m)
      /\ Cardinality(OfThread(t)') = Cardinality(OfThread(t)) - 1
      /\ Cardinality(OfThread(t)) >= 1 /\ OfThread(t)' \subseteq OfThread(t)
      /\ \A u \in Threads : u # t => OfThread(u)' = OfThread(u)
  BY <1>1, HoldReturned
<1>3. readLocksHeld' = [readLocksHeld EXCEPT ![t] = @ - 1] /\ readLocksHeld[t] >= 1
  BY <1>1, <1>2, HoldsCounted DEF HeldAfter, Counts, HeldCovers, Typing, TypeOK
<1>4. Typing'
  BY <1>1, <1>2, <1>3 DEF Typing, TypeOK
<1>5. WritersExclude'
  BY <1>1, <1>2 DEF Counts, WritersExclude, Typing, TypeOK
<1>6. WaitingWritersCounted'
  <2>1. \A m \in Locks : WaitingToWrite(m)' = WaitingToWrite(m)
    BY <1>1 DEF WaitingToWrite, Typing, TypeOK
  <2>2. QED
    BY <1>1, <2>1 DEF Counts, WaitingWritersCounted
<1>7. HeldCovers'
  BY <1>2, <1>3, HoldsCounted DEF Counts, HeldCovers, Typing, TypeOK
<1>8. DeadUnused' /\ SleepersInCall'
  BY <1>1, <1>2 DEF DeadUnused, SleepersInCall, Typing, TypeOK
<1>9. RelockingReaderEnters'
  BY <1>1, <1>2, <1>4 DEF RelockingReaderEnters, OnLock, OfThread, Typing, TypeOK
<1>10. NoMissedWakeup'
  <2>1. SUFFICES ASSUME NEW u \in Threads, (u \in sleeping[target[u]])', MayEnter(u)'
                 PROVE  \E v \in Threads : pc'[v] = "notifying" /\ target'[v] = target'[u]
    BY DEF NoMissedWakeup
  <2>2. u # t /\ pc'[u] = pc[u] /\ target'[u] = target[u] /\ readLocksHeld'[u] = readLocksHeld[u]
    BY <1>1, <1>3, <2>1 DEF SleepersInCall, Typing, TypeOK
  <2>3. CASE MayEnter(u)
    <3>1. PICK v \in Threads : pc[v] = "notifying" /\ target[v] = target[u]
      BY <1>1, <2>1, <2>2, <2>3 DEF NoMissedWakeup
    <3>2. QED
      BY <1>1, <2>2, <3>1 DEF Typing, TypeOK
  <2>4. CASE ~MayEnter(u)
    <3>1. target[u] = l /\ readers'[l] = 0
      BY <1>1, <2>1, <2>2, <2>4 DEF MayEnter, ReaderMayEnter, WriterMayEnter, Typing, TypeOK
    <3>2. pc'[t] = "notifying" /\ target'[t] = l
      BY <1>1, <3>1 DEF Typing, TypeOK
    <3>3. QED
      BY <2>2, <3>1, <3>2
  <2>5. QED
    BY <2>3, <2>4
<1>11. QED
  BY <1>4, <1>5, <1>6, <1>7, <1>8, <1>9, <1>10 DEF Counts

-----------------------------------------------------------------------------
(* The life of the object *)

\* So does a destroy, though the lock may be held.
LEMMA DestroyKeeps ==
  ASSUME IInv, NEW t \in Threads, NEW l \in Locks, Destroy(t, l)
  PROVE  IInv'
<1> USE DEF IInv
<1>1. /\ UNCHANGED <<writer, readers, waitingWriters, sleeping, readLocksHeld, expired, pc, target, timed>>
      /\ alive' = [alive EXCEPT ![l] = FALSE] /\ holds' = holds \ OnLock(l)
      /\ \A u \in Threads : target[u] = l => pc[u] = "idle"
  BY DEF Destroy, call
<1>2. /\ OnLock(l)' = {} /\ \A m \in Locks : m # l => OnLock(m)' = OnLock(m)
      /\ \A u \in Threads : OfThread(u)' \in SUBSET OfThread(u)
      /\ \A m \in Locks : WaitingToWrite(m)' = WaitingToWrite(m)
  BY <1>1 DEF OnLock, OfThread, WaitingToWrite
<1>3. Typing'
  BY <1>1, FS_Subset DEF Typing, TypeOK
<1>4. HeldCovers'
  <2>1. \A u \in Threads : IsFiniteSet(OfThread(u))
    BY FS_Subset DEF Typing, OfThread
  <2>2. \A u \in Threads : Cardinality(OfThread(u)') <= Cardinality(OfThread(u))
    BY <1>2, <2>1, FS_Subset
  <2>3. \A u \in Threads : Cardinality(OfThread(u)') \in Nat /\ Cardinality(OfThread(u)) \in Nat
    BY <1>2, <2>1, FS_Subset, FS_CardinalityType
  <2>4. QED
    BY <1>1, <2>2, <2>3 DEF Counts, HeldCovers, Typing, TypeOK
<1>5. WritersExclude' /\ WaitingWritersCounted'
  BY <1>1, <1>2 DEF Counts, WritersExclude, WaitingWritersCounted, Typing, TypeOK
<1>6. DeadUnused' /\ SleepersInCall'
  BY <1>1, <1>2 DEF DeadUnused, SleepersInCall, Typing, TypeOK
<1>7. RelockingReaderEnters'
  BY <1>1 DEF RelockingReaderEnters, OnLock, OfThread
<1>8. NoMissedWakeup'
  BY <1>1 DEF NoMissedWakeup, MayEnter, ReaderMayEnter, WriterMayEnter
<1>9. QED
  BY <1>3, <1>4, <1>5, <1>6, <1>7, <1>8 DEF Counts

\* So does an init of a destroyed lock.
LEMMA InitRwlockKeeps ==
  ASSUME IInv, NEW t \in Threads, NEW l \in Locks, InitRwlock(t, l)
  PROVE  IInv'
<1> USE DEF IInv
<1>1. /\ UNCHANGED <<sleeping, readLocksHeld, expired, pc, target, timed, holds>>
      /\ ~alive[l]
      /\ writer' = [writer EXCEPT ![l] = NoThread] /\ readers' = [readers EXCEPT ![l] = 0]
      /\ waitingWriters' = [waitingWriters EXCEPT ![l] = 0] /\ alive' = [alive EXCEPT ![l] = TRUE]
  BY DEF InitRwlock, call
<1>2. /\ \A m \in Locks : OnLock(m)' = OnLock(m) /\ WaitingToWrite(m)' = WaitingToWrite(m)
      /\ \A u \in Threads : OfThread(u)' = OfThread(u)
  BY <1>1 DEF OnLock, OfThread, WaitingToWrite
<1>3. OnLock(l) = {} /\ WaitingToWrite(l) = {} /\ Cardinality({}) = 0
  BY <1>1, FS_EmptySet DEF DeadUnused, WaitingToWrite
<1>4. Typing'
  BY <1>1 DEF Typing, TypeOK
<1>5. Counts'
  BY <1>1, <1>2, <1>3 DEF Counts, WritersExclude, WaitingWritersCounted, HeldCovers, Typing,
       TypeOK
<1>6. DeadUnused' /\ SleepersInCall' /\ RelockingReaderEnters'
  BY <1>1, <1>2 DEF DeadUnused, SleepersInCall, RelockingReaderEnters, OnLock, OfThread, Typing,
       TypeOK
<1>7. NoMissedWakeup'
  BY <1>1 DEF NoMissedWakeup, MayEnter, ReaderMayEnter, WriterMayEnter, DeadUnused,
       SleepersInCall, Typing, TypeOK
<1>8. QED
  BY <1>4, <1>5, <1>6, <1>7

-----------------------------------------------------------------------------
(* The specification *)

\* No lock is held and nobody waits at the start.
LEMMA InitHolds == Init => IInv
<1> SUFFICES ASSUME Init PROVE IInv
  OBVIOUS
<1>1. IsFiniteSet({}) /\ Cardinality({}) = 0
  BY FS_EmptySet
<1>2. Typing
  BY <1>1 DEF Init, Typing, TypeOK
<1>3. /\ \A l \in Locks : OnLock(l) = {} /\ WaitingToWrite(l) = {}
      /\ \A t \in Threads : OfThread(t) = {}
  BY DEF Init, OnLock, OfThread, WaitingToWrite
<1>4. Counts
  <2>1. /\ \A l \in Locks : Cardinality(OnLock(l)) = 0 /\ Cardinality(WaitingToWrite(l)) = 0
        /\ \A t \in Threads : Cardinality(OfThread(t)) = 0
    BY <1>1, <1>3
  <2>2. QED
    BY <1>3, <2>1 DEF Init, Counts, WritersExclude, WaitingWritersCounted, HeldCovers
<1>5. DeadUnused /\ SleepersInCall /\ RelockingReaderEnters /\ NoMissedWakeup
  BY <1>2 DEF Init, DeadUnused, SleepersInCall, RelockingReaderEnters, NoMissedWakeup, Typing,
       TypeOK
<1>6. QED
  BY <1>2, <1>4, <1>5 DEF IInv

\* Every step keeps the invariant.
LEMMA Invariance == IInv /\ [Next]_vars => IInv'
<1> SUFFICES ASSUME IInv, [Next]_vars PROVE IInv'
  OBVIOUS
<1>1. ASSUME NEW t \in Threads, NEW l \in Locks, NEW k \in 1..MaxDepth, RdlockAtOnce(t, l, k) PROVE IInv'
  <2>1. /\ ReaderMayEnter(t, l) /\ EnterRead(t, l, k) /\ alive[l] /\ pc[t] = "idle"
        /\ UNCHANGED <<sleeping, target, timed, expired, pc>>
    BY <1>1 DEF RdlockAtOnce, call
  <2>2. pc' = [pc EXCEPT ![t] = "idle"] /\ expired' \subseteq Threads
    BY <2>1 DEF IInv, Typing, TypeOK
  <2>3. QED
    BY <2>1, <2>2, ReadEntryKeeps
<1>2. ASSUME NEW t \in Threads, NEW k \in 1..MaxDepth, ReadEnters(t, k) PROVE IInv'
  <2>1. PICK l \in Locks : l = target[t]
    BY DEF IInv, Typing, TypeOK
  <2>2. /\ ReaderMayEnter(t, l) /\ EnterRead(t, l, k) /\ pc[t] = "reading" /\ t \notin sleeping[l]
        /\ UNCHANGED <<sleeping, target, timed>> /\ pc' = [pc EXCEPT ![t] = "idle"]
    BY <1>2, <2>1 DEF ReadEnters, Awake, MayEnter, GoTo
  <2>3. alive[l] /\ expired' \subseteq Threads
    BY <1>2, <2>1, <2>2 DEF IInv, DeadUnused, Typing, TypeOK, ReadEnters
  <2>4. QED
    BY <2>1, <2>2, <2>3, ReadEntryKeeps
<1>3. ASSUME NEW t \in Threads, Call(t) PROVE IInv'
  BY <1>1, <1>3, WaitStepKeeps, WriterStepKeeps, DestroyKeeps, InitRwlockKeeps DEF Call,
       WriterStep
<1>4. ASSUME NEW t \in Threads, Unlock(t) PROVE IInv'
  BY <1>4, UnlockWriteKeeps, UnlockReadKeeps DEF Unlock
<1>5. ASSUME NEW t \in Threads, Continue(t) PROVE IInv'
  BY <1>2, <1>5, WaitStepKeeps, WriterStepKeeps DEF Continue, WriterStep
<1>6. CASE UNCHANGED vars
  BY <1>6 DEF vars, object, call, IInv, Typing, TypeOK, Counts, WritersExclude,
       WaitingWritersCounted, HeldCovers, DeadUnused, SleepersInCall, RelockingReaderEnters,
       NoMissedWakeup, OnLock, OfThread, WaitingToWrite, MayEnter, ReaderMayEnter,
       WriterMayEnter
<1>7. QED
  BY <1>3, <1>4, <1>5, <1>6, WaitStepKeeps DEF Next

\* The invariant holds of the specification.
THEOREM InvariantHolds == Spec => []IInv
BY InitHolds, Invariance, PTL DEF Spec

\* Every variable keeps its type: the reader and writer counts (Rwlock.cpp:48-57,
\* 131-161) never fall below zero.
THEOREM TypeCorrect == Spec => []TypeOK
<1>1. IInv => TypeOK
  BY DEF IInv, Typing
<1>2. QED
  BY <1>1, InvariantHolds, PTL

\* A writer is alone and the count of readers is the number of read locks held
\* (Rwlock.cpp:40-57, 146-161).
THEOREM WritersExcludeHolds == Spec => []WritersExclude
<1>1. IInv => WritersExclude
  BY DEF IInv, Counts
<1>2. QED
  BY <1>1, InvariantHolds, PTL

\* The count that keeps readers out is the number of writers that wait, those whose
\* deadline passed taken off it (Rwlock.cpp:115-120, 134-142).
THEOREM WaitingWritersCountedHolds == Spec => []WaitingWritersCounted
<1>1. IInv => WaitingWritersCounted
  BY DEF IInv, Counts
<1>2. QED
  BY <1>1, InvariantHolds, PTL

\* A reader that takes its lock again never waits (the last operand of ReaderMayEnter,
\* Rwlock.cpp:41).
THEOREM RelockingReaderEntersHolds == Spec => []RelockingReaderEnters
<1>1. IInv => RelockingReaderEnters
  BY DEF IInv
<1>2. QED
  BY <1>1, InvariantHolds, PTL

\* A sleeper that may enter has a notification on its way (Rwlock.cpp:142, 158-159).
THEOREM NoMissedWakeupHolds == Spec => []NoMissedWakeup
<1>1. IInv => NoMissedWakeup
  BY DEF IInv
<1>2. QED
  BY <1>1, InvariantHolds, PTL

-----------------------------------------------------------------------------
(***************************************************************************)
(* For every set of threads and conditions and every depth of nesting: the *)
(* lists of the conditions and the events of the waiters are exact, and    *)
(* every step of TimedCondition is one of ConditionVariable or a stutter.  *)
(* The invariants are inductive together: that a waiter off its list was   *)
(* notified (EventsAreOwed) needs that it is on no other (LinkedOnce); the *)
(* refinement also needs that only a wait with a deadline expires.         *)
(***************************************************************************)

ConditionTyping ==
  /\ queue \in [Conditions -> Seq(Waiters)]
  /\ event \subseteq Waiters
  /\ phase \in [Waiters -> {"idle", "waiting", "woken", "expired"}]
  /\ on \in [Waiters -> Conditions]
  /\ hasDeadline \in [Waiters -> BOOLEAN]
  /\ result \in [Waiters -> BOOLEAN]

OnlyTimedExpire == \A w \in Waiters : phase[w] = "expired" => hasDeadline[w]

ConditionIInv == ConditionTyping /\ LinkedOnce /\ EventsAreOwed /\ OnlyTimedExpire

-----------------------------------------------------------------------------
(* Lists *)

\* A waiter's place, by the contents of the lists.
LEMMA QueuedIsListed ==
  ASSUME ConditionTyping, NEW w \in Waiters
  PROVE  Queued(w) <=> w \in ToSet(queue[on[w]])
BY DEF Queued, ToSet

\* The lists hold waiters.
LEMMA ListedAreWaiters ==
  ASSUME ConditionTyping PROVE \A c \in Conditions : ToSet(queue[c]) \subseteq Waiters
BY DEF ConditionTyping, ToSet

\* A list with its first k waiters taken off, the others as they are.
LEMMA FirstUnlinked ==
  ASSUME ConditionTyping, LinkedOnce, NEW c \in Conditions, NEW k \in 1..Len(queue[c]),
         queue' = [queue EXCEPT ![c] = SubSeq(@, k + 1, Len(@))]
  PROVE  LET first == ToSet(SubSeq(queue[c], 1, k)) IN
         /\ queue' \in [Conditions -> Seq(Waiters)]
         /\ \A d \in Conditions : IsInjective(queue'[d])
         /\ ToSet(queue'[c]) = ToSet(queue[c]) \ first
         /\ \A d \in Conditions : d # c => ToSet(queue'[d]) = ToSet(queue[d])
         /\ first \subseteq ToSet(queue[c]) /\ first \subseteq Waiters
<1> DEFINE s == queue[c]
           first == ToSet(SubSeq(s, 1, k))
           rest == SubSeq(s, k + 1, Len(s))
<1>1. s \in Seq(Waiters) /\ IsInjective(s) /\ k \in 1..Len(s)
  BY DEF ConditionTyping, LinkedOnce
<1>2. /\ rest \in Seq(Waiters) /\ IsInjective(rest)
      /\ ToSet(rest) = ToSet(s) \ first /\ first \subseteq ToSet(s)
  <2> HIDE DEF s
  <2>1. QED
    BY <1>1, DropFirst
<1>3. queue'[c] = rest /\ \A d \in Conditions : d # c => queue'[d] = queue[d]
  BY DEF ConditionTyping
<1>4. first \subseteq Waiters
  BY <1>2, ListedAreWaiters
<1> HIDE DEF first, rest
<1>5. queue' \in [Conditions -> Seq(Waiters)]
  <2>1. \A d \in Conditions : queue'[d] \in Seq(Waiters)
    BY <1>2, <1>3 DEF ConditionTyping
  <2>2. queue' = [d \in Conditions |-> queue'[d]]
    BY DEF ConditionTyping
  <2>3. QED
    BY <2>1, <2>2
<1>6. \A d \in Conditions : IsInjective(queue'[d])
  BY <1>2, <1>3 DEF LinkedOnce
<1>7. QED
  BY <1>2, <1>3, <1>4, <1>5, <1>6 DEF first

\* NotifyOne and NotifyAll unlink a first part and set its events.
NotifiesFirst(c, k) ==
  /\ queue' = [queue EXCEPT ![c] = SubSeq(@, k + 1, Len(@))]
  /\ event' = event \cup ToSet(SubSeq(queue[c], 1, k))
  /\ UNCHANGED <<phase, on, hasDeadline, result>>

\* Either notification takes one waiter or all of them.
LEMMA NotifyUnlinks ==
  ASSUME ConditionTyping, NEW c \in Conditions, NotifyOne(c) \/ NotifyAll(c)
  PROVE  queue[c] # <<>> /\ \E k \in {1, Len(queue[c])} : k \in 1..Len(queue[c]) /\ NotifiesFirst(c, k)
<1> DEFINE s == queue[c]
<1>1. s \in Seq(Waiters) /\ s # <<>>
  BY DEF ConditionTyping, NotifyOne, NotifyAll
<1>2. /\ Len(s) \in Nat /\ Len(s) >= 1
      /\ Tail(s) = SubSeq(s, 2, Len(s)) /\ ToSet(SubSeq(s, 1, 1)) = {Head(s)}
      /\ SubSeq(s, 1, Len(s)) = s /\ SubSeq(s, Len(s) + 1, Len(s)) = <<>>
  <2> HIDE DEF s
  <2>1. QED
    BY <1>1, FirstAndAll
<1>3. CASE NotifyOne(c)
  <2>1. queue' = [queue EXCEPT ![c] = SubSeq(@, 1 + 1, Len(@))]
    <3>1. SubSeq(queue[c], 1 + 1, Len(queue[c])) = Tail(queue[c])
      BY <1>2, 1 + 1 = 2
    <3>2. queue' = [queue EXCEPT ![c] = Tail(queue[c])]
      BY <1>3 DEF NotifyOne
    <3>3. QED
      BY <3>1, <3>2, Zenon
  <2>2. event' = event \cup ToSet(SubSeq(queue[c], 1, 1)) /\ UNCHANGED <<phase, on, hasDeadline, result>>
    BY <1>2, <1>3 DEF NotifyOne
  <2>3. NotifiesFirst(c, 1)
    BY <2>1, <2>2 DEF NotifiesFirst
  <2>4. QED
    BY <1>1, <1>2, <2>3
<1>4. CASE NotifyAll(c)
  <2>1. NotifiesFirst(c, Len(s))
    BY <1>2, <1>4 DEF NotifyAll, NotifiesFirst, Signaled
  <2>2. QED
    BY <1>1, <1>2, <2>1
<1>5. QED
  BY <1>3, <1>4

-----------------------------------------------------------------------------
(* The invariant *)

\* Condition::enqueue keeps the invariant: the new waiter was on no list.
LEMMA EnqueueKeeps ==
  ASSUME ConditionIInv, NEW t \in HostThreads, NEW n \in 1..MaxNesting, NEW c \in Conditions,
         NEW withTimeout \in BOOLEAN, Enqueue(t, n, c, withTimeout)
  PROVE  ConditionIInv'
<1> USE DEF ConditionIInv
<1>0. PICK w \in Waiters : w = <<t, n>>
  BY DEF Waiters
<1>1. /\ phase[w] = "idle" /\ UNCHANGED <<event, result>>
      /\ queue' = [queue EXCEPT ![c] = Append(@, w)] /\ phase' = [phase EXCEPT ![w] = "waiting"]
      /\ on' = [on EXCEPT ![w] = c] /\ hasDeadline' = [hasDeadline EXCEPT ![w] = withTimeout]
  BY <1>0 DEF Enqueue, Acquires, Busy
<1>2. w \notin event /\ \A d \in Conditions : w \notin ToSet(queue[d])
  BY <1>1 DEF LinkedOnce, EventsAreOwed
<1>3. queue[c] \in Seq(Waiters) /\ IsInjective(queue[c])
  BY DEF ConditionTyping, LinkedOnce
<1>4. queue'[c] = Append(queue[c], w) /\ \A d \in Conditions : d # c => queue'[d] = queue[d]
  BY <1>1 DEF ConditionTyping
<1>5. /\ queue'[c] \in Seq(Waiters) /\ IsInjective(queue'[c])
      /\ ToSet(queue'[c]) = ToSet(queue[c]) \cup {w}
  BY <1>1, <1>2, <1>3, <1>4, AppendNew
<1>6. ConditionTyping'
  <2>1. queue' \in [Conditions -> Seq(Waiters)]
    BY <1>1, <1>5 DEF ConditionTyping
  <2>2. QED
    BY <1>1, <2>1 DEF ConditionTyping
<1>7. LinkedOnce'
  BY <1>1, <1>2, <1>4, <1>5, ListedAreWaiters DEF LinkedOnce, ConditionTyping
<1>8. EventsAreOwed'
  <2>1. \A u \in Waiters : u # w => (Queued(u)' <=> Queued(u))
    <3>1. \A u \in Waiters : Queued(u)' <=> u \in ToSet(queue'[on'[u]])
      BY <1>6 DEF Queued, ToSet
    <3>2. QED
      BY <1>1, <1>4, <1>5, <3>1, QueuedIsListed DEF ConditionTyping
  <2>2. Queued(w)'
    <3>1. w \in ToSet(queue'[on'[w]])
      BY <1>1, <1>5 DEF ConditionTyping
    <3>2. QED
      BY <3>1 DEF Queued, ToSet
  <2>3. QED
    BY <1>1, <1>2, <2>1, <2>2 DEF EventsAreOwed, ConditionTyping
<1>9. OnlyTimedExpire'
  BY <1>1 DEF OnlyTimedExpire, ConditionTyping
<1>10. QED
  BY <1>6, <1>7, <1>8, <1>9

\* So do NotifyOne and NotifyAll: who loses his place gets his event.
LEMMA NotifyKeeps ==
  ASSUME ConditionIInv, NEW c \in Conditions, NotifyOne(c) \/ NotifyAll(c)
  PROVE  ConditionIInv'
<1> USE DEF ConditionIInv
<1>1. PICK k \in 1..Len(queue[c]) : NotifiesFirst(c, k)
  BY NotifyUnlinks
<1> DEFINE first == ToSet(SubSeq(queue[c], 1, k))
<1>2. /\ event' = event \cup first /\ UNCHANGED <<phase, on, hasDeadline, result>>
      /\ queue' = [queue EXCEPT ![c] = SubSeq(@, k + 1, Len(@))]
  BY <1>1 DEF NotifiesFirst
<1>3. /\ queue' \in [Conditions -> Seq(Waiters)]
      /\ \A d \in Conditions : IsInjective(queue'[d])
      /\ ToSet(queue'[c]) = ToSet(queue[c]) \ first
      /\ \A d \in Conditions : d # c => ToSet(queue'[d]) = ToSet(queue[d])
      /\ first \subseteq ToSet(queue[c]) /\ first \subseteq Waiters
  BY <1>2, FirstUnlinked
<1> HIDE DEF first
<1>4. ConditionTyping'
  BY <1>2, <1>3 DEF ConditionTyping
<1>5. LinkedOnce'
  BY <1>2, <1>3 DEF LinkedOnce
<1>6. EventsAreOwed'
  <2>1. \A u \in Waiters : Queued(u)' <=> Queued(u) /\ u \notin first
    <3>1. SUFFICES ASSUME NEW u \in Waiters
                   PROVE  u \in ToSet(queue'[on[u]]) <=> u \in ToSet(queue[on[u]]) /\ u \notin first
      BY <1>2, <1>4, QueuedIsListed DEF Queued, ToSet
    <3>2. on[u] \in Conditions /\ (u \in first => on[u] = c)
      BY <1>3 DEF ConditionTyping, LinkedOnce
    <3>3. QED
      BY <1>3, <3>2
  <2>2. \A u \in first : Queued(u) /\ phase[u] \in {"waiting", "expired"}
    BY <1>3, QueuedIsListed DEF LinkedOnce
  <2>3. QED
    BY <1>2, <1>3, <2>1, <2>2 DEF EventsAreOwed
<1>7. OnlyTimedExpire'
  BY <1>2 DEF OnlyTimedExpire
<1>8. QED
  BY <1>4, <1>5, <1>6, <1>7

\* So does a waiter that goes on, expires or returns.
LEMMA ContinueKeeps ==
  ASSUME ConditionIInv, NEW t \in HostThreads, NEW n \in 1..MaxNesting, Proceed(t, n)
  PROVE  ConditionIInv'
<1> USE DEF ConditionIInv
<1>1. PICK w \in Waiters : w = <<t, n>>
  BY DEF Waiters
<1>2. ASSUME Wake(t, n) \/ DeadlinePasses(t, n) \/ WakeReturns(t, n) \/ ExpireSignaled(t, n) PROVE ConditionIInv'
  <2>1. UNCHANGED <<queue, on, hasDeadline>> /\ \A u \in Waiters : Queued(u)' <=> Queued(u)
    BY <1>2 DEF Wake, DeadlinePasses, WakeReturns, ExpireSignaled, Queued
  <2>2. /\ phase' \in [Waiters -> {"idle", "waiting", "woken", "expired"}]
        /\ \A u \in Waiters : u # w => phase'[u] = phase[u] /\ (u \in event' <=> u \in event)
        /\ result' \in [Waiters -> BOOLEAN] /\ event' \subseteq Waiters
    BY <1>1, <1>2 DEF Wake, DeadlinePasses, WakeReturns, ExpireSignaled, Returns, Consumed,
         Reported, ConditionTyping
  <2>3. /\ Queued(w) => phase[w] \in {"waiting", "expired"} /\ phase'[w] \in {"waiting", "expired"}
        /\ w \in event' <=> phase'[w] \in {"waiting", "expired"} /\ ~Queued(w)
    BY <1>1, <1>2, QueuedIsListed DEF Wake, DeadlinePasses, WakeReturns, ExpireSignaled,
         Returns, Consumed, EventsAreOwed, LinkedOnce, ConditionTyping
  <2>4. ConditionTyping'
    BY <2>1, <2>2 DEF ConditionTyping
  <2>5. LinkedOnce'
    BY <1>1, <2>1, <2>2, <2>3, ListedAreWaiters, QueuedIsListed DEF LinkedOnce
  <2>6. EventsAreOwed'
    BY <2>1, <2>2, <2>3 DEF EventsAreOwed
  <2>7. OnlyTimedExpire'
    BY <1>1, <1>2, <2>1 DEF Wake, DeadlinePasses, WakeReturns, ExpireSignaled, Returns,
         OnlyTimedExpire, ConditionTyping
  <2>8. QED
    BY <2>4, <2>5, <2>6, <2>7
<1>3. ASSUME NEW i \in DOMAIN queue[on[w]], ExpireUnlinks(t, n, i) PROVE ConditionIInv'
  <2>1. PICK c \in Conditions : c = on[w]
    BY <1>1 DEF ConditionTyping
  <2>2. /\ UNCHANGED <<event, on, hasDeadline>> /\ phase[w] = "expired" /\ queue[c][i] = w
        /\ phase' = [phase EXCEPT ![w] = "idle"] /\ result' = [result EXCEPT ![w] = FALSE]
        /\ queue' = [queue EXCEPT ![c] = RemoveAt(@, i)]
    BY <1>1, <1>3, <2>1 DEF ExpireUnlinks, Returns
  <2>3. queue[c] \in Seq(Waiters) /\ IsInjective(queue[c]) /\ i \in 1..Len(queue[c])
    BY <2>1 DEF ConditionTyping, LinkedOnce
  <2>4. /\ RemoveAt(queue[c], i) \in Seq(Waiters) /\ IsInjective(RemoveAt(queue[c], i))
        /\ ToSet(RemoveAt(queue[c], i)) = ToSet(queue[c]) \ {w}
    BY <2>2, <2>3, RemoveOne
  <2>5. queue'[c] = RemoveAt(queue[c], i) /\ \A d \in Conditions : d # c => queue'[d] = queue[d]
    BY <2>2 DEF ConditionTyping
  <2>6. w \in ToSet(queue[c])
    BY <2>2, <2>3 DEF ToSet
  <2>7. Queued(w) /\ w \notin event
    BY <1>1, <2>1, <2>6, QueuedIsListed DEF EventsAreOwed
  <2>8. ConditionTyping'
    <3>1. queue' \in [Conditions -> Seq(Waiters)]
      BY <2>2, <2>4 DEF ConditionTyping
    <3>2. QED
      BY <1>1, <2>2, <3>1 DEF ConditionTyping
  <2>9. LinkedOnce'
    <3>1. \A d \in Conditions : \A u \in ToSet(queue'[d]) : u \in ToSet(queue[d]) /\ u # w
      BY <2>1, <2>4, <2>5 DEF LinkedOnce
    <3>2. \A d \in Conditions : IsInjective(queue'[d])
      BY <2>4, <2>5 DEF LinkedOnce
    <3>3. \A u \in Waiters : u # w => phase'[u] = phase[u]
      BY <2>2 DEF ConditionTyping
    <3>4. QED
      BY <2>2, <3>1, <3>2, <3>3, ListedAreWaiters DEF LinkedOnce
  <2>10. EventsAreOwed'
    <3>1. \A u \in Waiters : u # w => (Queued(u)' <=> Queued(u))
      <4>1. \A u \in Waiters : Queued(u)' <=> u \in ToSet(queue'[on'[u]])
        BY <2>8 DEF Queued, ToSet
      <4>2. QED
        BY <2>2, <2>4, <2>5, <4>1, QueuedIsListed DEF ConditionTyping
    <3>2. QED
      BY <1>1, <2>2, <2>7, <3>1 DEF EventsAreOwed, ConditionTyping
  <2>11. OnlyTimedExpire'
    BY <2>2 DEF OnlyTimedExpire, ConditionTyping
  <2>12. QED
    BY <2>8, <2>9, <2>10, <2>11
<1>4. QED
  <2>1. on[w] = on[<<t, n>>]
    BY <1>1
  <2>2. QED
    BY <1>2, <1>3, <2>1 DEF Proceed

\* The initial state satisfies the invariant.
LEMMA ConditionInitHolds == ConditionInit => ConditionIInv
<1> SUFFICES ASSUME ConditionInit PROVE ConditionIInv
  OBVIOUS
<1>1. ConditionTyping
  BY DEF ConditionInit, ConditionTyping
<1>2. LinkedOnce
  BY DEF ConditionInit, LinkedOnce, IsInjective, ToSet
<1>3. EventsAreOwed
  BY DEF ConditionInit, EventsAreOwed
<1>4. OnlyTimedExpire
  BY DEF ConditionInit, OnlyTimedExpire
<1>5. QED
  BY <1>1, <1>2, <1>3, <1>4 DEF ConditionIInv

\* Every step keeps it.
LEMMA ConditionNextKeeps == ConditionIInv /\ [ConditionNext]_conditionVars => ConditionIInv'
<1> SUFFICES ASSUME ConditionIInv, [ConditionNext]_conditionVars PROVE ConditionIInv'
  OBVIOUS
<1>1. CASE UNCHANGED conditionVars
  BY <1>1 DEF conditionVars, ConditionIInv, ConditionTyping, LinkedOnce, EventsAreOwed,
       OnlyTimedExpire, Queued
<1>2. QED
  BY <1>1, EnqueueKeeps, NotifyKeeps, ContinueKeeps DEF ConditionNext

\* The invariant holds of the specification.
THEOREM ConditionInvariance == ConditionSpec => []ConditionIInv
BY ConditionInitHolds, ConditionNextKeeps, PTL DEF ConditionSpec

\* Every variable keeps its type and no list outgrows the waiters there are
\* (TimedWait.cpp:140-148, 178-198).
THEOREM ConditionTypeCorrect == ConditionSpec => []ConditionTypeOK
<1>1. ConditionIInv => ConditionTypeOK
  <2> SUFFICES ASSUME ConditionIInv PROVE ConditionTypeOK
    OBVIOUS
  <2>1. IsFiniteSet(Waiters)
    <3>1. IsFiniteSet(1..MaxNesting)
      BY FS_Interval, ConditionsAssumption
    <3>2. QED
      BY <3>1, FS_Product, ConditionsAssumption DEF Waiters
  <2>2. \A c \in Conditions : Len(queue[c]) <= Cardinality(Waiters)
    BY <2>1, ListFits DEF ConditionIInv, ConditionTyping, LinkedOnce
  <2>3. QED
    BY <2>2 DEF ConditionIInv, ConditionTyping, ConditionTypeOK
<1>2. QED
  BY <1>1, ConditionInvariance, PTL

\* A waiter is linked once at most, and only while its call is under way: `queued` is
\* exact and unlink (TimedWait.cpp:190-198) always finds it in the list it works on.
THEOREM LinkedOnceHolds == ConditionSpec => []LinkedOnce
<1>1. ConditionIInv => LinkedOnce
  BY DEF ConditionIInv
<1>2. QED
  BY <1>1, ConditionInvariance, PTL

\* No notification is lost to a deadline (TimedWait.cpp:207-214) or a nested wait, and
\* no event is left set for the thread's next wait.
THEOREM EventsAreOwedHolds == ConditionSpec => []EventsAreOwed
<1>1. ConditionIInv => EventsAreOwed
  BY DEF ConditionIInv
<1>2. QED
  BY <1>1, ConditionInvariance, PTL

-----------------------------------------------------------------------------
(* The refinement *)

\* The waiters as ConditionVariable sees them, by the events instead of the lists.
Seen(w) ==
  IF phase[w] = "idle" THEN "idle"
  ELSE IF phase[w] = "woken" \/ w \in event THEN "notified"
  ELSE IF hasDeadline[w] THEN "timed" ELSE "waiting"

\* One step of the code is one step of ConditionVariable, or none.
LEMMA StepImplements ==
  ASSUME ConditionIInv, ConditionIInv', [ConditionNext]_conditionVars
  PROVE  [CV!Next]_CV!vars
<1> DEFINE state == [w \in Waiters |-> IF ~Busy(w) THEN "idle"
                              ELSE IF ~Queued(w) THEN "notified"
                              ELSE IF hasDeadline[w] THEN "timed" ELSE "waiting"]
<1>1. state = [w \in Waiters |-> Seen(w)] /\ state' = [w \in Waiters |-> Seen(w)']
  <2>1. \A w \in Waiters : Queued(w) <=> phase[w] \in {"waiting", "expired"} /\ w \notin event
    BY QueuedIsListed DEF ConditionIInv, LinkedOnce, EventsAreOwed, ConditionTyping
  <2>2. \A w \in Waiters : Queued(w)' <=> w \in ToSet(queue'[on'[w]])
    BY DEF Queued, ToSet
  <2>3. \A w \in Waiters : Queued(w)' <=> phase'[w] \in {"waiting", "expired"} /\ w \notin event'
    BY <2>2 DEF ConditionIInv, LinkedOnce, EventsAreOwed, ConditionTyping
  <2>4. \A w \in Waiters : /\ phase[w] \in {"idle", "waiting", "woken", "expired"}
                           /\ phase'[w] \in {"idle", "waiting", "woken", "expired"}
    BY DEF ConditionIInv, ConditionTyping
  <2>5. \A w \in Waiters : state[w] = Seen(w) /\ state'[w] = Seen(w)'
    BY <2>1, <2>3, <2>4 DEF Busy, Seen
  <2>6. QED
    BY <2>5
<1> HIDE DEF state
<1>2. ASSUME UNCHANGED <<queue, result>>, \A u \in Waiters : Seen(u)' = Seen(u)
      PROVE  UNCHANGED CV!vars
  <2>1. state' = state
    BY <1>1, <1>2
  <2>2. QED
    BY <1>2, <2>1 DEF CV!vars, state
<1>3. ASSUME NEW w \in Waiters, NEW v, Seen(w)' = v, \A u \in Waiters : u # w => Seen(u)' = Seen(u)
      PROVE  state' = [state EXCEPT ![w] = v]
  BY <1>1, <1>3
<1>4. ASSUME NEW t \in HostThreads, NEW n \in 1..MaxNesting, NEW c \in Conditions, NEW b \in BOOLEAN,
             NEW w \in Waiters, w = <<t, n>>, Enqueue(t, n, c, b)
      PROVE  CV!Wait(w, c, b)
  <2>1. /\ phase[w] = "idle" /\ UNCHANGED <<event, result>>
        /\ queue' = [queue EXCEPT ![c] = Append(@, w)] /\ phase' = [phase EXCEPT ![w] = "waiting"]
        /\ hasDeadline' = [hasDeadline EXCEPT ![w] = b]
    BY <1>4 DEF Enqueue, Acquires, Busy
  <2>2. w \notin event
    BY <2>1 DEF ConditionIInv, EventsAreOwed
  <2>3. Seen(w)' = (IF b THEN "timed" ELSE "waiting") /\ \A u \in Waiters : u # w => Seen(u)' = Seen(u)
    BY <2>1, <2>2 DEF Seen, ConditionIInv, ConditionTyping
  <2>4. state[w] = "idle"
    BY <1>1, <2>1 DEF Seen
  <2>5. state' = [state EXCEPT ![w] = IF b THEN "timed" ELSE "waiting"]
    BY <1>3, <2>3
  <2>6. QED
    BY <2>1, <2>4, <2>5 DEF CV!Wait, state
<1>5. ASSUME NEW c \in Conditions, NotifyOne(c) \/ NotifyAll(c)
      PROVE  \E k \in 1..Len(queue[c]) : CV!Notify(c, k)
  <2>1. PICK k \in 1..Len(queue[c]) : k \in {1, Len(queue[c])} /\ NotifiesFirst(c, k)
    BY <1>5, NotifyUnlinks DEF ConditionIInv
  <2>2. queue[c] # <<>>
    BY <1>5, NotifyUnlinks DEF ConditionIInv
  <2> DEFINE first == ToSet(SubSeq(queue[c], 1, k))
  <2>3. /\ queue' = [queue EXCEPT ![c] = SubSeq(@, k + 1, Len(@))]
        /\ event' = event \cup first /\ UNCHANGED <<phase, on, hasDeadline, result>>
    BY <2>1 DEF NotifiesFirst
  <2>4. first \subseteq ToSet(queue[c]) /\ first \subseteq Waiters
    BY <2>3, FirstUnlinked DEF ConditionIInv
  <2>5. \A u \in first : phase[u] # "idle"
    BY <2>4 DEF ConditionIInv, LinkedOnce
  <2> HIDE DEF first
  <2>6. \A u \in Waiters : Seen(u)' = IF u \in first THEN "notified" ELSE Seen(u)
    BY <2>3, <2>5 DEF Seen
  <2>7. state' = [u \in Waiters |-> IF u \in first THEN "notified" ELSE state[u]]
    BY <1>1, <2>6
  <2>8. QED
    BY <2>1, <2>2, <2>3, <2>7 DEF CV!Notify, CV!ToSet, ToSet, first, state
<1>6. ASSUME NEW t \in HostThreads, NEW n \in 1..MaxNesting, NEW w \in Waiters, w = <<t, n>>,
             WakeReturns(t, n) \/ ExpireSignaled(t, n)
      PROVE  CV!Return(w)
  <2>1. /\ UNCHANGED <<queue, hasDeadline>> /\ phase' = [phase EXCEPT ![w] = "idle"]
        /\ result' = [result EXCEPT ![w] = TRUE]
        /\ phase[w] = "woken" \/ (phase[w] = "expired" /\ w \in event)
        /\ \A u \in Waiters : u # w => (u \in event' <=> u \in event)
    BY <1>6 DEF WakeReturns, ExpireSignaled, Returns, Reported, Consumed, ConditionIInv,
         EventsAreOwed
  <2>2. Seen(w)' = "idle" /\ Seen(w) = "notified" /\ \A u \in Waiters : u # w => Seen(u)' = Seen(u)
    BY <2>1 DEF Seen, ConditionIInv, ConditionTyping
  <2>3. state[w] = "notified" /\ state' = [state EXCEPT ![w] = "idle"]
    BY <1>1, <1>3, <2>2
  <2>4. QED
    BY <2>1, <2>3 DEF CV!Return, state
<1>7. ASSUME NEW t \in HostThreads, NEW n \in 1..MaxNesting, NEW w \in Waiters, w = <<t, n>>,
             NEW c \in Conditions, c = on[w], NEW i \in DOMAIN queue[c], ExpireUnlinks(t, n, i)
      PROVE  CV!TimeOut(w, c)
  <2>1. /\ UNCHANGED <<event, hasDeadline>> /\ phase[w] = "expired" /\ queue[c][i] = w
        /\ phase' = [phase EXCEPT ![w] = "idle"] /\ result' = [result EXCEPT ![w] = FALSE]
        /\ queue' = [queue EXCEPT ![c] = RemoveAt(@, i)]
    BY <1>7 DEF ExpireUnlinks, Returns
  <2>2. w \notin event /\ hasDeadline[w]
    <3>1. w \in ToSet(queue[c])
      BY <2>1 DEF ToSet
    <3>2. QED
      BY <1>7, <2>1, <3>1, QueuedIsListed DEF ConditionIInv, EventsAreOwed, OnlyTimedExpire
  <2>3. Seen(w)' = "idle" /\ Seen(w) = "timed" /\ \A u \in Waiters : u # w => Seen(u)' = Seen(u)
    BY <2>1, <2>2 DEF Seen, ConditionIInv, ConditionTyping
  <2>4. state[w] = "timed" /\ state' = [state EXCEPT ![w] = "idle"]
    BY <1>1, <1>3, <2>3
  <2>5. QED
    BY <2>1, <2>4 DEF CV!TimeOut, CV!RemoveAt, RemoveAt, state
<1>8. ASSUME NEW t \in HostThreads, NEW n \in 1..MaxNesting, NEW w \in Waiters, w = <<t, n>>,
             Wake(t, n) \/ DeadlinePasses(t, n)
      PROVE  UNCHANGED CV!vars
  <2>1. \A u \in Waiters : Seen(u)' = Seen(u)
    BY <1>8 DEF Wake, DeadlinePasses, Seen, ConditionIInv, ConditionTyping
  <2>2. QED
    BY <1>2, <1>8, <2>1 DEF Wake, DeadlinePasses
<1>9. CASE UNCHANGED conditionVars
  BY <1>2, <1>9 DEF conditionVars, Seen
<1>10. ASSUME NEW t \in HostThreads, NEW n \in 1..MaxNesting PROVE <<t, n>> \in Waiters
  BY DEF Waiters
<1>11. ASSUME NEW t \in HostThreads, NEW n \in 1..MaxNesting, Proceed(t, n)
       PROVE  [CV!Next]_CV!vars
  <2>1. PICK w \in Waiters : w = <<t, n>>
    BY <1>10
  <2>2. CASE Wake(t, n) \/ DeadlinePasses(t, n)
    BY <1>8, <2>1, <2>2
  <2>3. CASE WakeReturns(t, n) \/ ExpireSignaled(t, n)
    BY <1>6, <2>1, <2>3 DEF CV!Next
  <2>4. ASSUME NEW i \in DOMAIN queue[on[<<t, n>>]], ExpireUnlinks(t, n, i) PROVE CV!Next
    <3>1. PICK c \in Conditions : c = on[w]
      BY DEF ConditionIInv, ConditionTyping
    <3>2. CV!TimeOut(w, c)
      BY <1>7, <2>1, <2>4, <3>1
    <3>3. QED
      BY <3>2 DEF CV!Next
  <2>5. QED
    BY <1>11, <2>2, <2>3, <2>4 DEF Proceed
<1>12. ASSUME NEW t \in HostThreads, NEW n \in 1..MaxNesting, NEW c \in Conditions, NEW b \in BOOLEAN,
              Enqueue(t, n, c, b)
       PROVE  CV!Next
  <2>1. PICK w \in Waiters : w = <<t, n>>
    BY <1>10
  <2>2. CV!Wait(w, c, b)
    BY <1>4, <1>12, <2>1
  <2>3. QED
    BY <2>2 DEF CV!Next
<1>13. ASSUME NEW c \in Conditions, NotifyOne(c) \/ NotifyAll(c) PROVE CV!Next
  BY <1>5, <1>13 DEF CV!Next
<1>14. QED
  BY <1>9, <1>11, <1>12, <1>13 DEF ConditionNext

\* The lists and events keep the promise of ConditionVariable: a waiter leaves notified
\* or timed out and not both, the longest waiter is the one notified, and who was
\* notified reports it (TimedWait.cpp:178-242).
THEOREM Implements == ConditionSpec => ImplementsCondition
<1>1. ConditionInit => CV!Init
  BY DEF ConditionInit, CV!Init, Busy
<1>2. ConditionIInv /\ ConditionIInv' /\ [ConditionNext]_conditionVars => [CV!Next]_CV!vars
  BY StepImplements
<1>3. QED
  BY <1>1, <1>2, ConditionInvariance, PTL DEF ConditionSpec, ImplementsCondition, CV!Spec
===============================================================================
