------------------------- MODULE SyncOnAddressProofs -------------------------
(***************************************************************************)
(* For every set of threads, addresses, values and wake counts: the queues *)
(* of SyncOnAddress hold exactly the waiters that were not woken, wakes    *)
(* are first come first served, and the module implements AddressWait.     *)
(* The queues' contents are the invariant the rest follows from: a wake    *)
(* can be told from its order only because no thread is queued twice.      *)
(***************************************************************************)
EXTENDS SyncOnAddress, QueueLemmas, TLAPS

\* Only waiting threads sleep or time out, and only timed waits time out.
SleepersWait ==
  /\ \A t \in sleeping : pc[t] = "waiting" /\ t \notin expired
  /\ \A t \in expired : pc[t] = "waiting" /\ timed[t]

Typing ==
  /\ memory \in [Addresses -> Values]
  /\ entries \subseteq Addresses
  /\ queue \in [Addresses -> Seq(Threads)]
  /\ woken \in [Threads -> BOOLEAN] /\ timed \in [Threads -> BOOLEAN]
  /\ sleeping \subseteq Threads /\ expired \subseteq Threads
  /\ pc \in [Threads -> {"idle", "waiting"}]
  /\ at \in [Threads -> Addresses] /\ expected \in [Threads -> Values]
  /\ pending \in [Threads -> Seq(Addresses)]

IInv == Typing /\ QueuesHoldWaiters /\ NoMissedWakeup /\ SleepersWait

-----------------------------------------------------------------------------
\* WakeAddressLocked never takes more threads than are queued.
LEMMA TakenBound ==
  ASSUME NEW n \in Nat, NEW count \in Int, NEW b \in BOOLEAN
  PROVE  Taken(n, count, b) \in Int /\ Taken(n, count, b) <= n
<1> DEFINE least == IF b THEN 1 ELSE 0
           m == Max({count, least})
<1>1. least \in Int
  OBVIOUS
<1>2. m \in {count, least}
  <2> HIDE DEF least
  <2>1. \E x \in {count, least} : \A y \in {count, least} : x >= y
    BY <1>1
  <2>2. QED
    BY <2>1 DEF Max
<1>3. m \in Int
  BY <1>1, <1>2
<1> HIDE DEF m
<1>4. Min({n, m}) \in {n, m} /\ Min({n, m}) <= n
  <2>1. \E x \in {n, m} : \A y \in {n, m} : x <= y
    BY <1>3
  <2>2. QED
    BY <2>1 DEF Min
<1>5. QED
  BY <1>3, <1>4 DEF Taken, m

-----------------------------------------------------------------------------
(* The invariant *)

\* What a wake of the first k threads of a does to the state: the threads taken were
\* waiting there, and the queues lose exactly them.
LEMMA WakeKeeps ==
  ASSUME IInv, NEW a \in Addresses, NEW k \in 1..Len(queue[a]), WakeThreads(a, k),
         UNCHANGED <<expired, pc, at, timed, expected>>
  PROVE  /\ entries' \subseteq Addresses /\ queue' \in [Addresses -> Seq(Threads)]
         /\ woken' \in [Threads -> BOOLEAN] /\ sleeping' \subseteq Threads
         /\ QueuesHoldWaiters' /\ NoMissedWakeup' /\ SleepersWait'
<1> DEFINE q == queue[a]
           taken == ToSet(SubSeq(q, 1, k))
           rest == SubSeq(q, k + 1, Len(q))
<1> USE DEF IInv
<1>1. q \in Seq(Threads) /\ IsInjective(q) /\ ToSet(q) = {t \in Unwoken : at[t] = a}
  BY DEF Typing, QueuesHoldWaiters
<1>2. /\ rest \in Seq(Threads) /\ IsInjective(rest)
      /\ ToSet(rest) = ToSet(q) \ taken
      /\ taken \subseteq ToSet(q)
      /\ rest = <<>> <=> k = Len(q)
  BY <1>1, DropFirst
<1>3. /\ queue' = [queue EXCEPT ![a] = rest]
      /\ entries' = IF rest = <<>> THEN entries \ {a} ELSE entries
      /\ woken' = [t \in Threads |-> woken[t] \/ t \in taken]
      /\ sleeping' = sleeping \ taken
  BY <1>2 DEF WakeThreads, Notified
<1> HIDE DEF q, taken, rest
<1>4. taken \subseteq Threads
  BY <1>1, <1>2 DEF Unwoken
<1>5. /\ entries' \subseteq Addresses /\ queue' \in [Addresses -> Seq(Threads)]
      /\ woken' \in [Threads -> BOOLEAN] /\ sleeping' \subseteq Threads
  <2>1. woken' \in [Threads -> BOOLEAN]
    BY <1>3, Zenon
  <2>2. QED
    BY <2>1, <1>2, <1>3 DEF Typing
<1>6. Unwoken' = Unwoken \ taken
  <2>1. \A t \in Threads : woken'[t] <=> woken[t] \/ t \in taken
    BY <1>3, Zenon
  <2>2. QED
    BY <2>1 DEF Unwoken
<1>7. QueuesHoldWaiters'
  <2> SUFFICES ASSUME NEW c \in Addresses
               PROVE  /\ IsInjective(queue'[c])
                      /\ ToSet(queue'[c]) = {t \in Unwoken' : at'[t] = c}
                      /\ c \in entries' <=> queue'[c] # <<>>
    BY DEF QueuesHoldWaiters
  <2>1. CASE c = a
    <3>1. queue'[a] = rest
      BY <1>3 DEF Typing
    <3>2. ToSet(rest) = {t \in Unwoken' : at'[t] = a}
      BY <1>1, <1>2, <1>6
    <3>3. a \in entries' <=> rest # <<>>
      <4>1. q # <<>>
        BY <1>1, EmptySeq DEF q
      <4>2. QED
        BY <4>1, <1>3 DEF QueuesHoldWaiters, q
    <3>4. QED
      BY <2>1, <3>1, <3>2, <3>3, <1>2
  <2>2. CASE c # a
    <3>1. queue'[c] = queue[c] /\ (c \in entries' <=> c \in entries)
      BY <1>3, <2>2 DEF Typing
    <3>2. {t \in Unwoken' : at'[t] = c} = {t \in Unwoken : at[t] = c}
      BY <1>1, <1>2, <1>6, <2>2
    <3>3. QED
      BY <3>1, <3>2 DEF QueuesHoldWaiters
  <2>3. QED
    BY <2>1, <2>2
<1>8. NoMissedWakeup'
  <2>1. \A t \in Threads : woken'[t] <=> woken[t] \/ t \in taken
    BY <1>3, Zenon
  <2>2. QED
    BY <2>1, <1>3 DEF NoMissedWakeup, Typing
<1>9. SleepersWait'
  BY <1>3 DEF SleepersWait
<1>10. QED
  BY <1>5, <1>7, <1>8, <1>9

\* A step that leaves the queues and the waiters alone keeps what the queues hold.
LEMMA SameQueues ==
  ASSUME QueuesHoldWaiters, UNCHANGED <<entries, queue, woken, pc, at>>
  PROVE  QueuesHoldWaiters'
BY DEF QueuesHoldWaiters, Unwoken

\* Queueing a waiter keeps the invariant (WaitOnAddressLocked up to its sleep).
LEMMA WaitKeeps ==
  ASSUME IInv, NEW t \in Threads, NEW a \in Addresses, NEW v \in Values, NEW b \in BOOLEAN,
         WaitOnAddress(t, a, v, b)
  PROVE  IInv'
<1> USE DEF IInv
<1>1. Typing'
  <2>1. /\ woken' \in [Threads -> BOOLEAN] /\ timed' \in [Threads -> BOOLEAN]
    BY Zenon DEF Typing, WaitOnAddress
  <2>2. queue' \in [Addresses -> Seq(Threads)]
    BY AppendProperties DEF Typing, WaitOnAddress
  <2>3. QED
    BY <2>1, <2>2 DEF Typing, WaitOnAddress
<1>2. \A c \in Addresses : t \notin ToSet(queue[c])
  BY DEF QueuesHoldWaiters, Unwoken, WaitOnAddress, Free
<1>3. Unwoken' = Unwoken \cup {t} /\ t \notin Unwoken
  <2>1. /\ \A u \in Threads : u # t => (woken'[u] <=> woken[u]) /\ pc'[u] = pc[u]
        /\ ~woken'[t] /\ pc'[t] = "waiting" /\ pc[t] = "idle"
    BY Zenon DEF Typing, WaitOnAddress, Free
  <2>2. QED
    BY <2>1 DEF Unwoken
<1>4. QueuesHoldWaiters'
  <2> SUFFICES ASSUME NEW c \in Addresses
               PROVE  /\ IsInjective(queue'[c])
                      /\ ToSet(queue'[c]) = {u \in Unwoken' : at'[u] = c}
                      /\ c \in entries' <=> queue'[c] # <<>>
    BY DEF QueuesHoldWaiters
  <2>1. at'[t] = a /\ \A u \in Unwoken : at'[u] = at[u]
    BY <1>3 DEF Typing, WaitOnAddress, Unwoken
  <2>2. CASE c = a
    <3>1. queue'[a] = Append(queue[a], t) /\ a \in entries'
      BY DEF Typing, WaitOnAddress
    <3>2. /\ IsInjective(queue'[a]) /\ queue'[a] # <<>>
          /\ ToSet(queue'[a]) = ToSet(queue[a]) \cup {t}
      <4>1. queue[a] \in Seq(Threads) /\ IsInjective(queue[a]) /\ t \notin ToSet(queue[a])
        BY <1>2 DEF Typing, QueuesHoldWaiters
      <4>2. QED
        BY <3>1, <4>1, AppendNew
    <3>3. ToSet(queue[a]) = {u \in Unwoken : at[u] = a}
      BY DEF QueuesHoldWaiters
    <3>4. QED
      BY <2>1, <2>2, <3>1, <3>2, <3>3, <1>3
  <2>3. CASE c # a
    <3>1. queue'[c] = queue[c] /\ (c \in entries' <=> c \in entries)
      BY <2>3 DEF Typing, WaitOnAddress
    <3>2. {u \in Unwoken' : at'[u] = c} = {u \in Unwoken : at[u] = c}
      BY <1>3, <2>1, <2>3
    <3>3. QED
      BY <3>1, <3>2 DEF QueuesHoldWaiters
  <2>4. QED
    BY <2>2, <2>3
<1>5. NoMissedWakeup'
  <2>1. ~woken'[t] /\ \A u \in Threads : u # t => (woken'[u] <=> woken[u])
    BY Zenon DEF Typing, WaitOnAddress
  <2>2. QED
    BY <2>1 DEF NoMissedWakeup, Typing, WaitOnAddress
<1>6. SleepersWait'
  <2>1. t \notin expired /\ \A u \in expired : timed'[u] <=> timed[u]
    BY DEF SleepersWait, Typing, WaitOnAddress, Free
  <2>2. QED
    BY <2>1 DEF SleepersWait, Typing, WaitOnAddress
<1>7. QED
  BY <1>1, <1>4, <1>5, <1>6

\* So does a timed-out waiter that erases itself from its queue.
LEMMA TimeOutKeeps ==
  ASSUME IInv, NEW t \in Threads, ResumeTimedOut(t)
  PROVE  IInv'
<1> USE DEF IInv
<1> DEFINE a == at[t]
           q == queue[a]
<1>1. a \in Addresses /\ q \in Seq(Threads) /\ IsInjective(q)
  BY DEF Typing, QueuesHoldWaiters
<1>2. PICK p \in DOMAIN q :
        /\ q[p] = t
        /\ queue' = [queue EXCEPT ![a] = RemoveAt(@, p)]
        /\ entries' = IF RemoveAt(q, p) = <<>> THEN entries \ {a} ELSE entries
  BY DEF ResumeTimedOut, Erased
<1> DEFINE r == RemoveAt(q, p)
<1>3. r \in Seq(Threads) /\ IsInjective(r) /\ ToSet(r) = ToSet(q) \ {t}
  BY <1>1, <1>2, RemoveOne
<1>4. queue' = [queue EXCEPT ![a] = r] /\ queue'[a] = r
  BY <1>1, <1>2 DEF Typing
<1>5. a \in entries /\ ToSet(q) = {u \in Unwoken : at[u] = a}
  <2>1. q # <<>>
    BY <1>1, <1>2, EmptySeq
  <2>2. QED
    BY <2>1, <1>1 DEF QueuesHoldWaiters
<1>6. (entries' = IF r = <<>> THEN entries \ {a} ELSE entries)
  BY <1>2
<1> HIDE DEF a, q, r
<1>7. Typing'
  BY <1>1, <1>3, <1>4, <1>6 DEF Typing, ResumeTimedOut
<1>8. Unwoken' = Unwoken \ {t} /\ at' = at
  BY DEF Typing, ResumeTimedOut, Unwoken
<1>9. QueuesHoldWaiters'
  <2> SUFFICES ASSUME NEW c \in Addresses
               PROVE  /\ IsInjective(queue'[c])
                      /\ ToSet(queue'[c]) = {u \in Unwoken' : at'[u] = c}
                      /\ c \in entries' <=> queue'[c] # <<>>
    BY DEF QueuesHoldWaiters
  <2>1. CASE c = a
    <3>1. ToSet(r) = {u \in Unwoken' : at'[u] = a}
      BY <1>3, <1>5, <1>8
    <3>2. QED
      BY <2>1, <3>1, <1>3, <1>4, <1>5, <1>6
  <2>2. CASE c # a
    <3>1. queue'[c] = queue[c] /\ (c \in entries' <=> c \in entries)
      BY <1>4, <1>6, <2>2 DEF Typing
    <3>2. {u \in Unwoken' : at'[u] = c} = {u \in Unwoken : at[u] = c}
      BY <1>8, <2>2 DEF a
    <3>3. QED
      BY <3>1, <3>2 DEF QueuesHoldWaiters
  <2>3. QED
    BY <2>1, <2>2
<1>10. NoMissedWakeup' /\ SleepersWait'
  BY DEF NoMissedWakeup, SleepersWait, Typing, ResumeTimedOut
<1>11. QED
  BY <1>7, <1>9, <1>10

\* The arguments of the guest's NWAKE calls are sequences of addresses.
LEMMA ShortSequences == SeqOf(Addresses, 2) \subseteq Seq(Addresses)
<1>1. \A m \in 0..2 : [1..m -> Addresses] \subseteq Seq(Addresses)
  BY SeqDef
<1>2. QED
  BY <1>1 DEF SeqOf

\* A wake of all or some of an address in the middle of Next.
LEMMA WokeKeeps ==
  ASSUME IInv, NEW a \in Addresses, NEW k \in 1..Len(queue[a]), WakeThreads(a, k),
         UNCHANGED <<memory, expired, pc, at, timed, expected>>,
         pending' \in [Threads -> Seq(Addresses)]
  PROVE  IInv'
<1>1. Typing'
  BY WakeKeeps DEF IInv, Typing
<1>2. QED
  BY <1>1, WakeKeeps DEF IInv

\* The steps that leave the queues alone.
LEMMA QuietKeeps ==
  ASSUME IInv, NEW t \in Threads,
         \/ Expire(t) \/ SpuriousWake(t) \/ ResumeSleeps(t) \/ ResumeWoken(t)
         \/ \E addresses \in SeqOf(Addresses, 2) : NwakePrivate(t, addresses)
         \/ \E a \in Addresses, v \in Values : Publish(t, a, v)
  PROVE  IInv'
<1> USE DEF IInv
<1>1. CASE Expire(t)
  BY <1>1, SameQueues DEF Expire, Typing, NoMissedWakeup, SleepersWait
<1>2. CASE SpuriousWake(t)
  BY <1>2, SameQueues DEF SpuriousWake, Typing, NoMissedWakeup, SleepersWait
<1>3. CASE ResumeSleeps(t)
  BY <1>3, SameQueues DEF ResumeSleeps, Typing, NoMissedWakeup, SleepersWait
<1>4. CASE ResumeWoken(t)
  <2>1. Unwoken' = Unwoken /\ UNCHANGED <<entries, queue, at>>
    BY <1>4 DEF ResumeWoken, WasWoken, Unwoken, Typing
  <2>2. QueuesHoldWaiters'
    BY <2>1 DEF QueuesHoldWaiters
  <2>3. QED
    BY <1>4, <2>2 DEF ResumeWoken, Typing, NoMissedWakeup, SleepersWait
<1>5. CASE \E addresses \in SeqOf(Addresses, 2) : NwakePrivate(t, addresses)
  BY <1>5, SameQueues, ShortSequences DEF NwakePrivate, Typing, NoMissedWakeup, SleepersWait
<1>6. CASE \E a \in Addresses, v \in Values : Publish(t, a, v)
  BY <1>6, SameQueues DEF Publish, Typing, NoMissedWakeup, SleepersWait
<1>7. QED
  BY <1>1, <1>2, <1>3, <1>4, <1>5, <1>6

\* Wake and a turn of NWAKE take a prefix of a queue, or nothing at all.
LEMMA WakeStep ==
  ASSUME IInv, NEW t \in Threads,
         \/ \E a \in Addresses, count \in Counts, b \in BOOLEAN : Wake(t, a, count, b)
         \/ NwakeNext(t)
  PROVE  /\ UNCHANGED <<memory, expired, pc, at, timed, expected>>
         /\ pending' \in [Threads -> Seq(Addresses)]
         /\ \/ UNCHANGED <<entries, queue, woken, sleeping>>
            \/ \E a \in Addresses : \E k \in 1..Len(queue[a]) : WakeThreads(a, k)
<1>1. CASE \E a \in Addresses, count \in Counts, b \in BOOLEAN : Wake(t, a, count, b)
  <2>1. PICK a \in Addresses, count \in Counts, b \in BOOLEAN : Wake(t, a, count, b)
    BY <1>1
  <2>2. Len(queue[a]) \in Nat /\ count \in Int
    BY ConstantsAssumption DEF IInv, Typing
  <2>3. Taken(Len(queue[a]), count, b) \in 1..Len(queue[a])
    <3> DEFINE k == Taken(Len(queue[a]), count, b)
    <3>1. k \in Int /\ k <= Len(queue[a])
      BY <2>2, TakenBound
    <3>2. k > 0
      BY <2>1 DEF Wake
    <3> HIDE DEF k
    <3>3. QED
      BY <2>2, <3>1, <3>2 DEF k
  <2>4. QED
    BY <2>1, <2>3 DEF Wake, IInv, Typing
<1>2. CASE NwakeNext(t)
  <2>1. pending[t] \in Seq(Addresses) /\ pending[t] # <<>>
    BY <1>2 DEF NwakeNext, IInv, Typing
  <2>2. Head(pending[t]) \in Addresses /\ Tail(pending[t]) \in Seq(Addresses)
    BY <2>1, HeadTailProperties
  <2>3. pending' \in [Threads -> Seq(Addresses)]
    BY <1>2, <2>2 DEF NwakeNext, IInv, Typing
  <2>4. ASSUME Head(pending[t]) \in entries
        PROVE  Len(queue[Head(pending[t])]) \in 1..Len(queue[Head(pending[t])])
    BY <2>2, <2>4, EmptySeq DEF IInv, Typing, QueuesHoldWaiters
  <2>5. QED
    BY <1>2, <2>2, <2>3, <2>4 DEF NwakeNext
<1>3. QED
  BY <1>1, <1>2

\* The initial state, with no waiter and no map entry, satisfies the invariant.
THEOREM InitHolds == Init => IInv
<1> SUFFICES ASSUME Init PROVE IInv
  OBVIOUS
<1>1. Typing
  <2>1. woken \in [Threads -> BOOLEAN] /\ timed \in [Threads -> BOOLEAN]
    BY Zenon DEF Init
  <2>2. at \in [Threads -> Addresses] /\ expected \in [Threads -> Values]
    BY ConstantsAssumption DEF Init
  <2>3. QED
    BY <2>1, <2>2 DEF Init, Typing
<1>2. QueuesHoldWaiters
  BY DEF Init, QueuesHoldWaiters, Unwoken, IsInjective, ToSet
<1>3. QED
  BY <1>1, <1>2 DEF Init, IInv, NoMissedWakeup, SleepersWait

\* Every step of the calls keeps it.
LEMMA NextKeeps == IInv /\ [Next]_vars => IInv'
<1> SUFFICES ASSUME IInv, [Next]_vars PROVE IInv'
  OBVIOUS
<1>1. CASE UNCHANGED vars
  <2>1. UNCHANGED <<entries, queue, woken, pc, at>>
    BY <1>1 DEF vars
  <2>2. QED
    BY <1>1, <2>1, SameQueues DEF vars, IInv, Typing, NoMissedWakeup, SleepersWait
<1>2. ASSUME NEW t \in Threads, NEW a \in Addresses, NEW v \in Values, NEW b \in BOOLEAN,
             WaitOnAddress(t, a, v, b)
      PROVE  IInv'
  BY <1>2, WaitKeeps
<1>3. ASSUME NEW t \in Threads,
             \/ \E a \in Addresses, count \in Counts, b \in BOOLEAN : Wake(t, a, count, b)
             \/ NwakeNext(t)
      PROVE  IInv'
  <2>1. CASE \E a \in Addresses : \E k \in 1..Len(queue[a]) : WakeThreads(a, k)
    BY <1>3, <2>1, WakeStep, WokeKeeps
  <2>2. CASE UNCHANGED <<entries, queue, woken, sleeping>>
    <3>1. UNCHANGED <<memory, expired, pc, at, timed, expected>>
          /\ pending' \in [Threads -> Seq(Addresses)]
      BY <1>3, WakeStep
    <3>2. QED
      BY <2>2, <3>1, SameQueues DEF IInv, Typing, NoMissedWakeup, SleepersWait
  <2>3. QED
    BY <1>3, <2>1, <2>2, WakeStep
<1>4. ASSUME NEW t \in Threads, ResumeTimedOut(t) PROVE IInv'
  BY <1>4, TimeOutKeeps
<1>5. ASSUME NEW t \in Threads,
             \/ Expire(t) \/ SpuriousWake(t) \/ ResumeSleeps(t) \/ ResumeWoken(t)
             \/ \E addresses \in SeqOf(Addresses, 2) : NwakePrivate(t, addresses)
             \/ \E a \in Addresses, v \in Values : Publish(t, a, v)
      PROVE  IInv'
  BY <1>5, QuietKeeps
<1>6. QED
  BY <1>1, <1>2, <1>3, <1>4, <1>5 DEF Next, Resume

\* The invariant holds of the specification, whatever the threads, addresses and values.
THEOREM Invariance == Spec => []IInv
BY InitHolds, NextKeeps, PTL DEF Spec

\* The state keeps its type, and no queue outgrows the set of threads.
THEOREM TypeCorrect == Spec => []TypeOK
<1>1. IInv => TypeOK
  <2> SUFFICES ASSUME IInv PROVE TypeOK
    OBVIOUS
  <2>1. \A a \in Addresses : Len(queue[a]) <= Cardinality(Threads)
    BY ListFits, ConstantsAssumption DEF IInv, Typing, QueuesHoldWaiters
  <2>2. QED
    BY <2>1 DEF IInv, Typing, TypeOK
<1>2. QED
  BY <1>1, Invariance, PTL

\* The queues of g_waiters hold exactly the waiters nobody has woken, each once and
\* at its address: the iterator a waiter times out with is always valid.
THEOREM QueuesHoldWaitersHolds == Spec => []QueuesHoldWaiters
<1>1. IInv => QueuesHoldWaiters
  BY DEF IInv
<1>2. QED
  BY <1>1, Invariance, PTL

\* No waiter somebody woke sleeps on its condition.
THEOREM NoMissedWakeupHolds == Spec => []NoMissedWakeup
<1>1. IInv => NoMissedWakeup
  BY DEF IInv
<1>2. QED
  BY <1>1, Invariance, PTL

-----------------------------------------------------------------------------
(* First come, first served *)

\* A thread in a queue has not been woken.
LEMMA QueuedUnwoken ==
  ASSUME IInv, NEW a \in Addresses, NEW i \in DOMAIN queue[a]
  PROVE  /\ queue[a][i] \in Threads /\ queue[a][i] \in Unwoken /\ at[queue[a][i]] = a
         /\ ~woken[queue[a][i]]
<1>1. queue[a][i] \in ToSet(queue[a])
  BY DEF ToSet
<1>2. QED
  BY <1>1 DEF IInv, QueuesHoldWaiters, Unwoken

\* WakeAddressLocked, and nothing else, wakes queued threads, the oldest first.
THEOREM FirstComeFirstServedHolds == Spec => FirstComeFirstServed
<1> DEFINE Ordered == \A a \in Addresses : \A i, j \in DOMAIN queue[a] :
                        i < j /\ woken'[queue[a][j]] => woken'[queue[a][i]]
<1>1. IInv /\ [Next]_vars => [Ordered]_vars
  <2> SUFFICES ASSUME IInv, Next,
                      NEW a \in Addresses, NEW i \in DOMAIN queue[a], NEW j \in DOMAIN queue[a],
                      i < j, woken'[queue[a][j]]
               PROVE  woken'[queue[a][i]]
    BY DEF vars
  <2>1. /\ queue[a][i] \in Threads /\ queue[a][j] \in Threads
        /\ queue[a][j] \in Unwoken /\ at[queue[a][j]] = a /\ ~woken[queue[a][j]]
    BY QueuedUnwoken
  <2>2. woken' # woken
    BY <2>1
  <2>3. CASE \E c \in Addresses : \E k \in 1..Len(queue[c]) : WakeThreads(c, k)
    <3>0. PICK c \in Addresses : \E k \in 1..Len(queue[c]) : WakeThreads(c, k)
      BY <2>3
    <3>1. PICK k \in 1..Len(queue[c]) : WakeThreads(c, k)
      BY <3>0
    <3> DEFINE taken == ToSet(SubSeq(queue[c], 1, k))
    <3>2. \A u \in Threads : woken'[u] <=> woken[u] \/ u \in taken
      BY <3>1, Zenon DEF WakeThreads
    <3>3. queue[c] \in Seq(Threads) /\ IsInjective(queue[c])
      BY DEF IInv, Typing, QueuesHoldWaiters
    <3>4. /\ taken \subseteq ToSet(queue[c])
          /\ \A m \in 1..k : queue[c][m] \in taken
          /\ \A m \in (k + 1)..Len(queue[c]) : queue[c][m] \notin taken
      BY <3>3, DropFirst
    <3> HIDE DEF taken
    <3>5. queue[a][j] \in taken
      BY <2>1, <3>2
    <3>6. c = a
      BY <2>1, <3>4, <3>5 DEF IInv, QueuesHoldWaiters
    <3>7. Len(queue[a]) \in Nat /\ i \in 1..Len(queue[a]) /\ j \in 1..Len(queue[a])
      BY <3>3, <3>6
    <3>8. i \in 1..k
      BY <3>4, <3>5, <3>6, <3>7
    <3>9. QED
      BY <2>1, <3>2, <3>4, <3>6, <3>8
  <2>4. ASSUME NEW t \in Threads, NEW d \in Addresses, NEW v \in Values, NEW b \in BOOLEAN,
               WaitOnAddress(t, d, v, b)
        PROVE  FALSE
    <3>1. queue[a][j] # t
      BY <2>1, <2>4 DEF WaitOnAddress, Free, Unwoken
    <3>2. woken'[queue[a][j]] <=> woken[queue[a][j]]
      BY <2>1, <2>4, <3>1, Zenon DEF WaitOnAddress, IInv, Typing
    <3>3. QED
      BY <2>1, <3>2
  <2>5. QED
    BY <2>2, <2>3, <2>4, WakeStep DEF Next, Resume, ResumeSleeps, ResumeWoken, ResumeTimedOut,
       Expire, SpuriousWake, Publish, NwakePrivate
<1>2. QED
  BY <1>1, Invariance, PTL DEF Spec, FirstComeFirstServed

-----------------------------------------------------------------------------
(* A publisher's wake is not lost *)

\* The waiters left after a wake of a are those from before that were not taken, and
\* none at a when all were.
LEMMA WokenLeave ==
  ASSUME IInv, NEW a \in Addresses, NEW k \in 1..Len(queue[a]), WakeThreads(a, k),
         UNCHANGED <<pc, at>>
  PROVE  /\ Unwoken' \subseteq Unwoken
         /\ k = Len(queue[a]) => \A u \in Unwoken' : at[u] # a
<1> DEFINE q == queue[a]
           taken == ToSet(SubSeq(q, 1, k))
<1>1. \A u \in Threads : woken'[u] <=> woken[u] \/ u \in taken
  BY Zenon DEF WakeThreads
<1>2. q \in Seq(Threads) /\ IsInjective(q) /\ ToSet(q) = {u \in Unwoken : at[u] = a}
  BY DEF IInv, Typing, QueuesHoldWaiters
<1>3. \A i \in 1..k : q[i] \in taken
  BY <1>2, DropFirst
<1> HIDE DEF taken, q
<1>4. Unwoken' \subseteq Unwoken
  BY <1>1 DEF Unwoken
<1>5. ASSUME k = Len(q), NEW u \in Unwoken', at[u] = a PROVE FALSE
  <2>1. u \in ToSet(q)
    BY <1>2, <1>4, <1>5
  <2>2. u \in taken
    BY <1>2, <1>3, <1>5, <2>1 DEF ToSet
  <2>3. QED
    BY <1>1, <2>2 DEF Unwoken
<1>6. QED
  BY <1>4, <1>5 DEF q

\* A turn of NWAKE forgets no address but the one whose waiters it wakes.
LEMMA NwakeForgets ==
  ASSUME IInv, NEW t \in Threads, NwakeNext(t)
  PROVE  /\ Unwoken' \subseteq Unwoken
         /\ \A u \in Unwoken', w \in Threads :
              Contains(pending[w], at[u]) => Contains(pending'[w], at[u])
<1> DEFINE p == pending[t]
           a == Head(p)
<1>1. p \in Seq(Addresses) /\ p # <<>>
  BY DEF NwakeNext, IInv, Typing
<1>2. /\ a \in Addresses /\ a = p[1] /\ Tail(p) \in Seq(Addresses)
      /\ Len(Tail(p)) = Len(p) - 1
      /\ \A i \in 1..Len(Tail(p)) : Tail(p)[i] = p[i + 1]
  BY <1>1, HeadTailProperties
<1>3. /\ IF a \in entries THEN WakeThreads(a, Len(queue[a]))
                          ELSE UNCHANGED <<entries, queue, woken, sleeping>>
      /\ pending' = [pending EXCEPT ![t] = Tail(p)]
      /\ UNCHANGED <<pc, at>>
  BY DEF NwakeNext
<1> HIDE DEF p, a
<1>4. Unwoken' \subseteq Unwoken /\ \A u \in Unwoken' : at[u] # a
  <2>1. CASE a \in entries
    <3>1. Len(queue[a]) \in 1..Len(queue[a])
      BY <1>2, <2>1, EmptySeq DEF IInv, Typing, QueuesHoldWaiters
    <3>2. QED
      BY <1>2, <1>3, <2>1, <3>1, WokenLeave
  <2>2. CASE a \notin entries
    <3>1. Unwoken' = Unwoken
      BY <1>3, <2>2 DEF Unwoken
    <3>2. queue[a] = <<>> /\ ToSet(queue[a]) = {u \in Unwoken : at[u] = a}
      BY <1>2, <2>2 DEF IInv, QueuesHoldWaiters
    <3>3. {u \in Unwoken : at[u] = a} = {}
      BY <3>2 DEF ToSet
    <3>4. QED
      BY <3>1, <3>3
  <2>3. QED
    BY <2>1, <2>2
<1>5. ASSUME NEW b \in Addresses, b # a, Contains(p, b) PROVE Contains(Tail(p), b)
  <2>1. PICK i \in 1..Len(p) : p[i] = b
    BY <1>5 DEF Contains
  <2>2. Len(p) \in Nat
    BY <1>1
  <2>3. i # 1
    BY <1>2, <1>5, <2>1
  <2>4. i - 1 \in 1..Len(Tail(p)) /\ (i - 1) + 1 = i
    BY <1>2, <2>1, <2>2, <2>3
  <2>5. Tail(p)[i - 1] = b
    BY <1>2, <2>1, <2>4
  <2>6. QED
    BY <2>4, <2>5 DEF Contains
<1>6. ASSUME NEW u \in Unwoken', NEW w \in Threads, Contains(pending[w], at[u])
      PROVE  Contains(pending'[w], at[u])
  <2>1. at[u] \in Addresses /\ at[u] # a
    BY <1>4 DEF IInv, Typing, Unwoken
  <2>2. CASE w = t
    <3>1. pending'[w] = Tail(p)
      BY <1>3, <2>2 DEF IInv, Typing
    <3>2. QED
      BY <1>5, <1>6, <2>1, <2>2, <3>1 DEF p
  <2>3. CASE w # t
    BY <1>3, <1>6, <2>3 DEF IInv, Typing
  <2>4. QED
    BY <2>2, <2>3
<1>7. QED
  BY <1>4, <1>6

\* Nothing is pending at first for a thread that is Free.
LEMMA FreeOwesNothing == ASSUME NEW t \in Threads, Free(t), NEW a PROVE ~Contains(pending[t], a)
BY EmptySeq DEF Free, Contains

\* A waiter queued on a word that has changed will be woken for it: comparing and
\* queueing in one section leaves no gap for a store and its wake to fall into.
THEOREM StaleWaitersAreWokenHolds == Spec => []StaleWaitersAreWoken
<1>1. Init => StaleWaitersAreWoken
  BY DEF Init, StaleWaitersAreWoken, Unwoken
<1>2. ASSUME IInv, StaleWaitersAreWoken, [Next]_vars PROVE StaleWaitersAreWoken'
  <2> DEFINE Owed(u) == \E w \in Threads : Contains(pending[w], at[u])
      \* No waiter is new, and what is owed to the ones left stays owed.
      Keeps == /\ Unwoken' \subseteq Unwoken
               /\ UNCHANGED <<memory, at, expected>>
               /\ \A u \in Unwoken', w \in Threads :
                    Contains(pending[w], at[u]) => Contains(pending'[w], at[u])
  <2>1. ASSUME Keeps PROVE StaleWaitersAreWoken'
    BY <1>2, <2>1 DEF StaleWaitersAreWoken
  <2>2. CASE UNCHANGED vars
    BY <1>2, <2>2 DEF vars, StaleWaitersAreWoken, Unwoken
  <2>3. ASSUME NEW t \in Threads, NEW a \in Addresses, NEW v \in Values, NEW b \in BOOLEAN,
               WaitOnAddress(t, a, v, b)
        PROVE  StaleWaitersAreWoken'
    <3>1. /\ at'[t] = a /\ expected'[t] = v /\ memory'[a] = v
          /\ UNCHANGED <<memory, pending>>
          /\ \A u \in Threads \ {t} : at'[u] = at[u] /\ expected'[u] = expected[u]
      BY <1>2, <2>3 DEF WaitOnAddress, Matches, IInv, Typing
    <3>2. \A u \in Threads \ {t} : u \in Unwoken' => u \in Unwoken
      BY <1>2, <2>3 DEF WaitOnAddress, Unwoken, IInv, Typing
    <3>3. QED
      BY <1>2, <3>1, <3>2 DEF StaleWaitersAreWoken, Unwoken
  <2>4. ASSUME NEW t \in Threads, NEW a \in Addresses, NEW v \in Values, Publish(t, a, v)
        PROVE  StaleWaitersAreWoken'
    <3>1. /\ pending'[t] = <<a>> /\ \A w \in Threads \ {t} : pending'[w] = pending[w]
          /\ \A c \in Addresses \ {a} : memory'[c] = memory[c]
          /\ UNCHANGED <<at, expected>> /\ Unwoken' = Unwoken
      BY <1>2, <2>4 DEF Publish, IInv, Typing, Unwoken
    <3>2. Contains(pending'[t], a)
      BY <3>1 DEF Contains
    <3>3. \A c : ~Contains(pending[t], c)
      BY <2>4, FreeOwesNothing DEF Publish
    <3>4. SUFFICES ASSUME NEW u \in Unwoken, memory'[at[u]] # expected[u]
                   PROVE  \E w \in Threads : Contains(pending'[w], at[u])
      BY <3>1 DEF StaleWaitersAreWoken
    <3>5. CASE at[u] = a
      BY <3>2, <3>5
    <3>6. CASE at[u] # a
      <4>1. memory[at[u]] # expected[u]
        BY <1>2, <3>1, <3>4, <3>6 DEF IInv, Typing, Unwoken
      <4>2. QED
        BY <1>2, <3>1, <3>3, <4>1 DEF StaleWaitersAreWoken
    <3>7. QED
      BY <3>5, <3>6
  <2>5. ASSUME NEW t \in Threads, NEW addresses \in SeqOf(Addresses, 2),
               NwakePrivate(t, addresses)
        PROVE  Keeps
    <3>1. \A c : ~Contains(pending[t], c)
      BY <2>5, FreeOwesNothing DEF NwakePrivate
    <3>2. /\ \A w \in Threads \ {t} : pending'[w] = pending[w]
          /\ UNCHANGED <<memory, at, expected>> /\ Unwoken' = Unwoken
      BY <1>2, <2>5 DEF NwakePrivate, IInv, Typing, Unwoken
    <3>3. QED
      BY <3>1, <3>2
  <2>6. ASSUME NEW t \in Threads, NwakeNext(t) PROVE Keeps
    BY <1>2, <2>6, NwakeForgets, WakeStep
  <2>7. ASSUME NEW t \in Threads, NEW a \in Addresses, NEW count \in Counts, NEW b \in BOOLEAN,
               Wake(t, a, count, b)
        PROVE  Keeps
    <3>1. UNCHANGED <<memory, pc, at, expected, pending>>
      BY <2>7 DEF Wake
    <3>2. Unwoken' \subseteq Unwoken
      <4>1. CASE UNCHANGED <<entries, queue, woken, sleeping>>
        BY <3>1, <4>1 DEF Unwoken
      <4>2. CASE \E c \in Addresses : \E k \in 1..Len(queue[c]) : WakeThreads(c, k)
        BY <1>2, <3>1, <4>2, WokenLeave
      <4>3. QED
        BY <1>2, <2>7, <4>1, <4>2, WakeStep
    <3>3. QED
      BY <3>1, <3>2
  <2>8. ASSUME NEW t \in Threads, Expire(t) \/ SpuriousWake(t) \/ Resume(t) PROVE Keeps
    <3>1. UNCHANGED <<memory, at, expected, pending>>
      BY <2>8 DEF Expire, SpuriousWake, Resume, ResumeSleeps, ResumeWoken, ResumeTimedOut
    <3>2. Unwoken' \subseteq Unwoken
      BY <1>2, <2>8 DEF Expire, SpuriousWake, Resume, ResumeSleeps, ResumeWoken,
         ResumeTimedOut, Unwoken, IInv, Typing
    <3>3. QED
      BY <3>1, <3>2
  <2>9. QED
    BY <1>2, <2>1, <2>2, <2>3, <2>4, <2>5, <2>6, <2>7, <2>8 DEF Next
<1>3. QED
  BY <1>1, <1>2, Invariance, PTL DEF Spec

-----------------------------------------------------------------------------
(* The refinement *)

\* One step of the code is one step of AddressWait, or none.
LEMMA StepImplements ==
  ASSUME IInv, IInv', [Next]_vars
  PROVE  [AW!Next]_AW!vars
<1> DEFINE seen(t) == IF pc[t] = "idle" THEN "idle"
                      ELSE IF woken[t] THEN "woken"
                      ELSE IF timed[t] THEN "timed" ELSE "parked"
           state == [t \in Threads |-> seen(t)]
<1>1. ASSUME UNCHANGED <<memory, queue, pc, woken, timed, expected>> PROVE [AW!Next]_AW!vars
  BY <1>1 DEF AW!vars
<1>2. ASSUME NEW t \in Threads, NEW a \in Addresses, NEW v \in Values, NEW b \in BOOLEAN,
             WaitOnAddress(t, a, v, b)
      PROVE  AW!Park(t, a, v, b)
  <2>1. state[t] = "idle" /\ memory[a] = v /\ queue' = [queue EXCEPT ![a] = Append(@, t)]
        /\ memory' = memory /\ expected' = [expected EXCEPT ![t] = v]
    BY <1>2 DEF WaitOnAddress, Free, Matches
  <2>2. seen(t)' = IF b THEN "timed" ELSE "parked"
    BY <1>2 DEF WaitOnAddress, IInv, Typing
  <2>3. \A u \in Threads : u # t => seen(u)' = seen(u)
    BY <1>2 DEF WaitOnAddress, IInv, Typing
  <2>4. state' = [state EXCEPT ![t] = IF b THEN "timed" ELSE "parked"]
    BY <2>2, <2>3
  <2>5. QED
    BY <2>1, <2>4 DEF AW!Park
<1>3. ASSUME NEW a \in Addresses, NEW k \in 1..Len(queue[a]), WakeThreads(a, k),
             UNCHANGED <<memory, pc, timed, expected>>
      PROVE  AW!Wake(a, k)
  <2> DEFINE taken == ToSet(SubSeq(queue[a], 1, k))
  <2>1. \A u \in taken : pc[u] = "waiting"
    <3>1. queue[a] \in Seq(Threads) /\ IsInjective(queue[a])
      BY DEF IInv, Typing, QueuesHoldWaiters
    <3>2. taken \subseteq ToSet(queue[a])
      BY <3>1, DropFirst
    <3>3. QED
      BY <3>2 DEF IInv, QueuesHoldWaiters, Unwoken
  <2>2. \A u \in Threads : woken'[u] <=> woken[u] \/ u \in taken
    BY <1>3, Zenon DEF WakeThreads
  <2>3. queue' = [queue EXCEPT ![a] = SubSeq(@, k + 1, Len(@))]
    BY <1>3 DEF WakeThreads
  <2> HIDE DEF taken
  <2>4. \A u \in Threads : seen(u)' = IF u \in taken THEN "woken" ELSE seen(u)
    BY <1>3, <2>1, <2>2
  <2>5. state' = [u \in Threads |-> IF u \in taken THEN "woken" ELSE state[u]]
    BY <2>4
  <2>6. QED
    BY <1>3, <2>3, <2>5 DEF AW!Wake, AW!ToSet, ToSet, taken
<1>4. ASSUME NEW t \in Threads, ResumeWoken(t) PROVE AW!Return(t)
  <2>1. state[t] = "woken" /\ seen(t)' = "idle" /\ UNCHANGED <<memory, queue, expected>>
        /\ \A u \in Threads : u # t => seen(u)' = seen(u)
    BY <1>4 DEF ResumeWoken, WasWoken, IInv, Typing
  <2>2. state' = [state EXCEPT ![t] = "idle"]
    BY <2>1
  <2>3. QED
    BY <2>1, <2>2 DEF AW!Return
<1>5. ASSUME NEW t \in Threads, NEW a \in Addresses, a = at[t], ResumeTimedOut(t)
      PROVE  AW!GiveUp(t, a)
  <2>1. state[t] = "timed" /\ seen(t)' = "idle" /\ UNCHANGED <<memory, expected>>
        /\ \A u \in Threads : u # t => seen(u)' = seen(u)
    BY <1>5 DEF ResumeTimedOut, IInv, Typing, SleepersWait
  <2>2. state' = [state EXCEPT ![t] = "idle"]
    BY <2>1
  <2>3. \E i \in DOMAIN queue[a] :
          queue[a][i] = t /\ queue' = [queue EXCEPT ![a] = RemoveAt(@, i)]
    BY <1>5 DEF ResumeTimedOut, Erased
  <2>4. QED
    BY <2>1, <2>2, <2>3 DEF AW!GiveUp, AW!RemoveAt, RemoveAt
<1>6. ASSUME NEW t \in Threads, NEW a \in Addresses, NEW v \in Values, Publish(t, a, v)
      PROVE  AW!Store(a, v)
  BY <1>6 DEF Publish, AW!Store
<1>7. ASSUME NEW t \in Threads,
             \/ \E a \in Addresses, count \in Counts, b \in BOOLEAN : Wake(t, a, count, b)
             \/ NwakeNext(t)
      PROVE  [AW!Next]_AW!vars
  <2>1. UNCHANGED <<memory, pc, timed, expected>>
    BY <1>7, WakeStep
  <2>2. CASE UNCHANGED <<entries, queue, woken, sleeping>>
    BY <1>1, <2>1, <2>2
  <2>3. CASE \E a \in Addresses : \E k \in 1..Len(queue[a]) : WakeThreads(a, k)
    BY <1>3, <2>1, <2>3 DEF AW!Next
  <2>4. QED
    BY <1>7, <2>2, <2>3, WakeStep
<1>8. ASSUME NEW t \in Threads,
             \/ Expire(t) \/ SpuriousWake(t) \/ ResumeSleeps(t)
             \/ \E addresses \in SeqOf(Addresses, 2) : NwakePrivate(t, addresses)
      PROVE  [AW!Next]_AW!vars
  BY <1>1, <1>8 DEF Expire, SpuriousWake, ResumeSleeps, NwakePrivate
<1>9. CASE UNCHANGED vars
  BY <1>1, <1>9 DEF vars
<1>10. ASSUME NEW t \in Threads, ResumeTimedOut(t) PROVE at[t] \in Addresses
  BY DEF IInv, Typing
<1>11. ASSUME NEW t \in Threads, ResumeWoken(t) \/ ResumeTimedOut(t) PROVE AW!Next
  <2>1. CASE ResumeWoken(t)
    <3>1. AW!Return(t)
      BY <1>4, <2>1
    <3>2. QED
      BY <3>1, Zenon DEF AW!Next
  <2>2. CASE ResumeTimedOut(t)
    <3>1. PICK a \in Addresses : a = at[t]
      BY <1>10, <2>2
    <3>2. AW!GiveUp(t, a)
      BY <1>5, <2>2, <3>1
    <3>3. QED
      BY <3>2, Zenon DEF AW!Next
  <2>3. QED
    BY <1>11, <2>1, <2>2
<1>12. ASSUME NEW t \in Threads, NEW a \in Addresses, NEW v \in Values,
              Publish(t, a, v) \/ \E b \in BOOLEAN : WaitOnAddress(t, a, v, b)
       PROVE  AW!Next
  BY <1>2, <1>6, <1>12 DEF AW!Next
<1>13. QED
  BY <1>7, <1>8, <1>9, <1>11, <1>12 DEF Next, Resume

\* The map, the flags and the conditions keep the promise of AddressWait: a thread
\* parks only on a word that holds what it expects, leaves woken or by giving up its
\* timed wait, and wakes take the longest parked first.
THEOREM Implements == Spec => AW!Spec
<1>1. Init => AW!Init
  <2> SUFFICES ASSUME Init PROVE AW!Init
    OBVIOUS
  <2>1. expected \in [Threads -> Values]
    BY ConstantsAssumption DEF Init
  <2>2. QED
    BY <2>1 DEF Init, AW!Init
<1>2. IInv /\ IInv' /\ [Next]_vars => [AW!Next]_AW!vars
  BY StepImplements
<1>3. QED
  BY <1>1, <1>2, Invariance, PTL DEF Spec, AW!Spec
=============================================================================
