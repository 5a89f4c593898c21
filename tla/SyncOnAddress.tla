---------------------------- MODULE SyncOnAddress ----------------------------
(***************************************************************************)
(* Waiting on a guest address (libkernel/SyncOnAddress): the sceKernel-    *)
(* SyncOnAddress* calls and the _umtx_op waits and wakes built on them.    *)
(*                                                                         *)
(* g_waitersLock covers the comparison with the queueing of a waiter and   *)
(* each WakeAddress, so those are single actions; the guest's stores are   *)
(* plain and take no lock.  A waiter sleeps on a TimedWait::Condition of   *)
(* its own: it leaves it when notified, spuriously or at its deadline, and *)
(* then retakes g_waitersLock and looks at its `woken` flag (Resume...).   *)
(***************************************************************************)
EXTENDS Integers, SequencesExt

CONSTANTS
  Threads,     \* guest threads
  Addresses,   \* guest words waited on
  Values,      \* what they hold
  Counts       \* wake counts the guest passes, negative ones included

ASSUME ConstantsAssumption ==
  /\ IsFiniteSet(Threads) /\ IsFiniteSet(Addresses)
  /\ Addresses # {} /\ Values # {}
  /\ Counts \subseteq Int

VARIABLES
  memory,      \* the guest words
  entries,     \* keys of g_waiters
  queue,       \* g_waiters[a]: waiting threads in order of arrival
  woken,       \* AddressWaiter::woken
  sleeping,    \* threads asleep on their AddressWaiter::condition
  expired,     \* threads whose timed condition wait reported a timeout
  pc,          \* "idle" or "waiting" (inside WaitOnAddressLocked)
  at, timed,   \* address waited on; the wait has a deadline
  expected,    \* history: the value the waiter compared with
  pending      \* addresses a thread has yet to wake (UMTX_OP_NWAKE_PRIVATE's loop,
               \* or the wake a guest owes after publishing a value)

vars == <<memory, entries, queue, woken, sleeping, expired, pc, at, timed, expected, pending>>

Unwoken == {t \in Threads : pc[t] = "waiting" /\ ~woken[t]}

TypeOK ==
  /\ memory \in [Addresses -> Values]
  /\ entries \subseteq Addresses
  /\ queue \in [Addresses -> Seq(Threads)]
  /\ \A a \in Addresses : Len(queue[a]) <= Cardinality(Threads)
  /\ woken \in [Threads -> BOOLEAN] /\ timed \in [Threads -> BOOLEAN]
  /\ sleeping \subseteq Threads /\ expired \subseteq Threads
  /\ pc \in [Threads -> {"idle", "waiting"}]
  /\ at \in [Threads -> Addresses] /\ expected \in [Threads -> Values]
  /\ pending \in [Threads -> Seq(Addresses)]

Init ==
  /\ memory \in [Addresses -> Values]
  /\ entries = {}
  /\ queue = [a \in Addresses |-> <<>>]
  /\ woken = [t \in Threads |-> FALSE] /\ timed = [t \in Threads |-> FALSE]
  /\ sleeping = {} /\ expired = {}
  /\ pc = [t \in Threads |-> "idle"]
  /\ at = [t \in Threads |-> CHOOSE a \in Addresses : TRUE]
  /\ expected = [t \in Threads |-> CHOOSE v \in Values : TRUE]
  /\ pending = [t \in Threads |-> <<>>]

Free(t) == pc[t] = "idle" /\ pending[t] = <<>>

-----------------------------------------------------------------------------
(* Waiting *)

\* The word still holds the expected value, read under g_waitersLock.
MatchesUnread(a, v) == TRUE
Matches(a, v) == memory[a] = v

\* WaitOnAddressLocked up to its sleep.  A word that differs returns at once and
\* changes nothing.
WaitOnAddress(t, a, v, withTimeout) ==
  /\ Free(t)
  /\ Matches(a, v)
  /\ entries' = entries \cup {a}
  /\ queue' = [queue EXCEPT ![a] = Append(@, t)]
  /\ woken' = [woken EXCEPT ![t] = FALSE]
  /\ sleeping' = sleeping \cup {t}
  /\ pc' = [pc EXCEPT ![t] = "waiting"]
  /\ at' = [at EXCEPT ![t] = a]
  /\ timed' = [timed EXCEPT ![t] = withTimeout]
  /\ expected' = [expected EXCEPT ![t] = v]
  /\ UNCHANGED <<memory, expired, pending>>

\* The deadline passes, or the condition wakes a thread nobody notified.
Expire(t) ==
  /\ t \in sleeping /\ timed[t]
  /\ sleeping' = sleeping \ {t}
  /\ expired' = expired \cup {t}
  /\ UNCHANGED <<memory, entries, queue, woken, pc, at, timed, expected, pending>>

SpuriousWake(t) ==
  /\ t \in sleeping
  /\ sleeping' = sleeping \ {t}
  /\ UNCHANGED <<memory, entries, queue, woken, expired, pc, at, timed, expected, pending>>

\* Back under the lock without the flag or a timeout: sleep again.
ResumeSleeps(t) ==
  /\ pc[t] = "waiting" /\ t \notin sleeping
  /\ ~woken[t] /\ t \notin expired
  /\ sleeping' = sleeping \cup {t}
  /\ UNCHANGED <<memory, entries, queue, woken, expired, pc, at, timed, expected, pending>>

\* Back under the lock with the flag set, a timeout on the way notwithstanding: the
\* waker has taken this thread off the queue already.
WakesFirst(t) == woken[t] /\ t \notin expired
WasWoken(t) == woken[t]

ResumeWoken(t) ==
  /\ pc[t] = "waiting" /\ t \notin sleeping
  /\ WasWoken(t)
  /\ expired' = expired \ {t}
  /\ pc' = [pc EXCEPT ![t] = "idle"]
  /\ UNCHANGED <<memory, entries, queue, woken, sleeping, at, timed, expected, pending>>

\* Back under the lock without the flag after a timeout: the waiter erases itself at
\* its iterator `position`, and the map entry with it if it was the last.
Erased(q, position) == RemoveAt(q, position)

ResumeTimedOut(t) ==
  /\ pc[t] = "waiting" /\ t \notin sleeping
  /\ ~woken[t] /\ t \in expired
  /\ \E position \in DOMAIN queue[at[t]] :
       /\ queue[at[t]][position] = t
       /\ queue' = [queue EXCEPT ![at[t]] = Erased(@, position)]
       /\ entries' = IF Erased(queue[at[t]], position) = <<>> THEN entries \ {at[t]}
                                                             ELSE entries
  /\ expired' = expired \ {t}
  /\ pc' = [pc EXCEPT ![t] = "idle"]
  /\ UNCHANGED <<memory, woken, sleeping, at, timed, expected, pending>>

-----------------------------------------------------------------------------
(* Waking *)

\* How many threads the loop of WakeAddressLocked takes off a queue of n.
Taken(n, count, wakesAtLeastOne) ==
  Min({n, Max({count, IF wakesAtLeastOne THEN 1 ELSE 0})})

\* The condition of each thread taken is notified.
Notified(S) == sleeping \ S

\* WakeAddressLocked taking the first k > 0 threads off the queue of a.
WakeThreadsFromBack(a, k) ==
  LET left == Len(queue[a]) - k
      taken == ToSet(SubSeq(queue[a], left + 1, Len(queue[a]))) IN
  /\ queue' = [queue EXCEPT ![a] = SubSeq(@, 1, left)]
  /\ entries' = IF left = 0 THEN entries \ {a} ELSE entries
  /\ woken' = [t \in Threads |-> woken[t] \/ t \in taken]
  /\ sleeping' = sleeping \ taken
WakeThreads(a, k) ==
  LET taken == ToSet(SubSeq(queue[a], 1, k)) IN
  /\ queue' = [queue EXCEPT ![a] = SubSeq(@, k + 1, Len(@))]
  /\ entries' = IF k = Len(queue[a]) THEN entries \ {a} ELSE entries
  /\ woken' = [t \in Threads |-> woken[t] \/ t \in taken]
  /\ sleeping' = Notified(taken)

\* sceKernelSyncOnAddressWake (any count >= 0, possibly waking nobody) and the
\* UMTX_OP_WAKE operations (at least one, whatever the count).
Wake(t, a, count, wakesAtLeastOne) ==
  /\ Free(t)
  /\ a \in entries
  /\ count >= 0 \/ wakesAtLeastOne
  /\ LET k == Taken(Len(queue[a]), count, wakesAtLeastOne) IN k > 0 /\ WakeThreads(a, k)
  /\ UNCHANGED <<memory, expired, pc, at, timed, expected, pending>>

\* UMTX_OP_NWAKE_PRIVATE: wake every waiter of each address of an array.
NwakePrivate(t, addresses) ==
  /\ Free(t)
  /\ addresses # <<>>
  /\ pending' = [pending EXCEPT ![t] = addresses]
  /\ UNCHANGED <<memory, entries, queue, woken, sleeping, expired, pc, at, timed, expected>>

\* One turn of its loop, under g_waitersLock.
NwakeNext(t) ==
  /\ pending[t] # <<>>
  /\ LET a == Head(pending[t]) IN
       IF a \in entries
         THEN WakeThreads(a, Len(queue[a]))
         ELSE UNCHANGED <<entries, queue, woken, sleeping>>
  /\ pending' = [pending EXCEPT ![t] = Tail(@)]
  /\ UNCHANGED <<memory, expired, pc, at, timed, expected>>

\* The guest publishes a value: a plain store, then a wake of every waiter of it.
Publish(t, a, v) ==
  /\ Free(t)
  /\ v # memory[a]
  /\ memory' = [memory EXCEPT ![a] = v]
  /\ pending' = [pending EXCEPT ![t] = <<a>>]
  /\ UNCHANGED <<entries, queue, woken, sleeping, expired, pc, at, timed, expected>>

-----------------------------------------------------------------------------
Resume(t) == ResumeSleeps(t) \/ ResumeWoken(t) \/ ResumeTimedOut(t)

Next ==
  \E t \in Threads :
    \/ \E a \in Addresses, v \in Values, b \in BOOLEAN : WaitOnAddress(t, a, v, b)
    \/ \E a \in Addresses, count \in Counts, b \in BOOLEAN : Wake(t, a, count, b)
    \/ \E addresses \in SeqOf(Addresses, 2) : NwakePrivate(t, addresses)
    \/ NwakeNext(t)
    \/ \E a \in Addresses, v \in Values : Publish(t, a, v)
    \/ Expire(t)
    \/ SpuriousWake(t)
    \/ Resume(t)

Spec == Init /\ [][Next]_vars

\* A thread that can take g_waitersLock gets it, a deadline is absolute, and a waker
\* finishes its loop.
FairSpec ==
  /\ Spec
  /\ \A t \in Threads : WF_vars(Resume(t)) /\ SF_vars(Expire(t)) /\ WF_vars(NwakeNext(t))

-----------------------------------------------------------------------------
(* Properties *)

\* A waiter that has not been woken sits exactly once in the queue of its address and
\* in no other: the iterator it erases itself with is valid, and no queue keeps a
\* pointer to a waiter that has returned.  The map has an entry only for queues in use.
QueuesHoldWaiters ==
  /\ \A a \in Addresses :
       /\ IsInjective(queue[a])
       /\ ToSet(queue[a]) = {t \in Unwoken : at[t] = a}
       /\ a \in entries <=> queue[a] # <<>>

\* A waiter somebody woke is not left asleep on its condition.
NoMissedWakeup == \A t \in sleeping : ~woken[t]

\* No lost wake-up for a guest that wakes after it publishes: a waiter stays queued on
\* a word that changed only while the wake of that change is still to come.
StaleWaitersAreWoken ==
  \A t \in Unwoken :
    memory[at[t]] # expected[t] => \E u \in Threads : Contains(pending[u], at[t])

\* Wakes are first come, first served: nobody is woken past a thread that was queued
\* before it on the same address.
FirstComeFirstServed ==
  [][\A a \in Addresses : \A i, j \in DOMAIN queue[a] :
       i < j /\ woken'[queue[a][j]] => woken'[queue[a][i]]]_vars

\* The code keeps the promise of AddressWait: the map, the flags and the conditions
\* are hidden.
AW == INSTANCE AddressWait WITH
  parked <- queue, expects <- expected,
  state <- [t \in Threads |-> IF pc[t] = "idle" THEN "idle"
                              ELSE IF woken[t] THEN "woken"
                              ELSE IF timed[t] THEN "timed" ELSE "parked"]

ImplementsAddressWait == AW!FairSpec
=============================================================================
