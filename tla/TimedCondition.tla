---------------------------- MODULE TimedCondition ----------------------------
(***************************************************************************)
(* TimedWait::Condition on Windows (libkernel/Time/TimedWait.cpp): the     *)
(* wait set every blocking call of the guest sleeps on.                    *)
(*                                                                         *)
(* A waiter is linked under queueLock, before the caller's lock is given   *)
(* up, and then waits for its own auto-reset event; a notifier unlinks it  *)
(* and sets the event, both under queueLock.  The waits are alertable: an  *)
(* APC may run on the waiting thread and wait itself, on a further waiter  *)
(* of the thread (AcquireWaiter's `nested` chain), and the outer wait goes *)
(* on when it is done.  A waiter is <<thread, place in the chain>>.        *)
(*                                                                         *)
(* The callers' locks are left to the modules of the callers; who notifies *)
(* does not matter here.                                                   *)
(***************************************************************************)
EXTENDS Integers, SequencesExt

CONSTANTS
  HostThreads,
  Conditions,
  MaxNesting   \* bound on the waits under way on one thread

ASSUME ConditionsAssumption ==
  /\ IsFiniteSet(HostThreads)
  /\ Conditions # {}
  /\ MaxNesting \in Nat

VARIABLES
  queue,      \* the list head..tail of each condition
  event,      \* waiters whose event is set
  phase,         \* per waiter: "idle" (not busy), or where its call is
  on, hasDeadline,  \* the condition of its call, and whether it has a deadline
  result      \* what its last call returned: whether it was signaled

conditionVars == <<queue, event, phase, on, hasDeadline, result>>

Waiters == HostThreads \X (1..MaxNesting)
Busy(w) == phase[w] # "idle"
Queued(w) == \E i \in DOMAIN queue[on[w]] : queue[on[w]][i] = w

ConditionTypeOK ==
  /\ queue \in [Conditions -> Seq(Waiters)]
  /\ \A c \in Conditions : Len(queue[c]) <= Cardinality(Waiters)
  /\ event \subseteq Waiters
  /\ phase \in [Waiters -> {"idle", "waiting", "woken", "expired"}]
  /\ on \in [Waiters -> Conditions]
  /\ hasDeadline \in [Waiters -> BOOLEAN]
  /\ result \in [Waiters -> BOOLEAN]

ConditionInit ==
  /\ queue = [c \in Conditions |-> <<>>]
  /\ event = {}
  /\ phase = [w \in Waiters |-> "idle"]
  /\ on \in [Waiters -> Conditions]
  /\ hasDeadline = [w \in Waiters |-> FALSE]
  /\ result = [w \in Waiters |-> FALSE]

-----------------------------------------------------------------------------
(* Waiting *)

\* AcquireWaiter: the n-th waiter of t is the first that is not busy.
Acquires(t, n) == ~Busy(<<t, n>>) /\ \A m \in 1..(n - 1) : Busy(<<t, m>>)

\* Only the innermost wait of a thread runs.
Innermost(t, n) == Busy(<<t, n>>) /\ \A m \in (n + 1)..MaxNesting : ~Busy(<<t, m>>)

\* A call of Wait or WaitUntil, up to its sleep: by a thread that runs, or by an APC on
\* one that sleeps, drains after its event or has just seen its deadline pass.
Enqueue(t, n, c, withTimeout) ==
  LET w == <<t, n>> IN
  /\ Acquires(t, n)
  /\ queue' = [queue EXCEPT ![c] = Append(@, w)]
  /\ phase' = [phase EXCEPT ![w] = "waiting"]
  /\ on' = [on EXCEPT ![w] = c]
  /\ hasDeadline' = [hasDeadline EXCEPT ![w] = withTimeout]
  /\ UNCHANGED <<event, result>>

\* The event is set: it resets, and the call will report it.
Wake(t, n) ==
  LET w == <<t, n>> IN
  /\ Innermost(t, n)
  /\ phase[w] = "waiting"
  /\ w \in event
  /\ event' = event \ {w}
  /\ phase' = [phase EXCEPT ![w] = "woken"]
  /\ UNCHANGED <<queue, on, hasDeadline, result>>

\* WaitEventUntil: the deadline has passed and the event was not set when last looked at.
DeadlinePasses(t, n) ==
  LET w == <<t, n>> IN
  /\ Innermost(t, n)
  /\ phase[w] = "waiting"
  /\ hasDeadline[w]
  /\ w \notin event
  /\ phase' = [phase EXCEPT ![w] = "expired"]
  /\ UNCHANGED <<queue, event, on, hasDeadline, result>>

Returns(w, signaled) ==
  /\ phase' = [phase EXCEPT ![w] = "idle"]
  /\ result' = [result EXCEPT ![w] = signaled]

WakeReturns(t, n) ==
  LET w == <<t, n>> IN
  /\ Innermost(t, n)
  /\ phase[w] = "woken"
  /\ Returns(w, TRUE)
  /\ UNCHANGED <<queue, event, on, hasDeadline>>

\* Still linked when it looks under queueLock: nobody notified it.
ExpireUnlinks(t, n, i) ==
  LET w == <<t, n>> IN
  /\ Innermost(t, n)
  /\ phase[w] = "expired"
  /\ queue[on[w]][i] = w
  /\ queue' = [queue EXCEPT ![on[w]] = RemoveAt(@, i)]
  /\ Returns(w, FALSE)
  /\ UNCHANGED <<event, on, hasDeadline>>

\* Unlinked by a notifier meanwhile: the event it set is consumed and reported.
Unconsumed(w) == event
Consumed(w) == event \ {w}
ReportedLost == FALSE
Reported == TRUE

ExpireSignaled(t, n) ==
  LET w == <<t, n>> IN
  /\ Innermost(t, n)
  /\ phase[w] = "expired"
  /\ ~Queued(w)
  /\ event' = Consumed(w)
  /\ Returns(w, Reported)
  /\ UNCHANGED <<queue, on, hasDeadline>>

-----------------------------------------------------------------------------
(* Notifying *)

\* SetEvent of the waiters unlinked.
SignaledFirst(S, first) == event \cup {first}
Signaled(S, first) == event \cup S

NotifyOne(c) ==
  /\ queue[c] # <<>>
  /\ event' = event \cup {Head(queue[c])}
  /\ queue' = [queue EXCEPT ![c] = Tail(@)]
  /\ UNCHANGED <<phase, on, hasDeadline, result>>

NotifyAll(c) ==
  /\ queue[c] # <<>>
  /\ event' = Signaled(ToSet(queue[c]), Head(queue[c]))
  /\ queue' = [queue EXCEPT ![c] = <<>>]
  /\ UNCHANGED <<phase, on, hasDeadline, result>>

-----------------------------------------------------------------------------
Proceed(t, n) ==
  \/ Wake(t, n)
  \/ DeadlinePasses(t, n)
  \/ WakeReturns(t, n)
  \/ \E i \in DOMAIN queue[on[<<t, n>>]] : ExpireUnlinks(t, n, i)
  \/ ExpireSignaled(t, n)

ConditionNext ==
  \/ \E t \in HostThreads : \E n \in 1..MaxNesting :
       \/ \E c \in Conditions : \E withTimeout \in BOOLEAN : Enqueue(t, n, c, withTimeout)
       \/ Proceed(t, n)
  \/ \E c \in Conditions : NotifyOne(c) \/ NotifyAll(c)

ConditionSpec == ConditionInit /\ [][ConditionNext]_conditionVars

\* Threads that can go on do, and deadlines pass.
FairConditionSpec ==
  ConditionSpec /\ \A t \in HostThreads : \A n \in 1..MaxNesting : WF_conditionVars(Proceed(t, n))

-----------------------------------------------------------------------------
(* Properties *)

\* The list of a condition holds waiters of calls on that condition, each once: no
\* waiter is linked twice or stays linked when its call has returned.
LinkedOnce ==
  \A c \in Conditions :
    /\ IsInjective(queue[c])
    /\ \A w \in ToSet(queue[c]) : phase[w] \in {"waiting", "expired"} /\ on[w] = c

\* An event is set exactly while its waiter was notified and has not reported it: no
\* notification is lost to a deadline or to a nested wait, and none is left over to end
\* the thread's next wait, on whatever condition.
EventsAreOwed ==
  \A w \in Waiters : w \in event <=> phase[w] \in {"waiting", "expired"} /\ ~Queued(w)

\* What ConditionVariable sees of the lists, events and nested waiters.
CV == INSTANCE ConditionVariable WITH
  waiting <- queue,
  state <- [w \in Waiters |-> IF ~Busy(w) THEN "idle"
                              ELSE IF ~Queued(w) THEN "notified"
                              ELSE IF hasDeadline[w] THEN "timed" ELSE "waiting"]

\* Every step keeps the promise of a condition: in particular a waiter that was notified
\* reports it, though its deadline has passed and whatever nested in it.
ImplementsCondition == CV!Spec

\* A notified waiter returns, unless an APC has it wait again inside its wait: the outer
\* call cannot return before the inner one.
NotifiedReturns ==
  \A t \in HostThreads : \A n \in 1..MaxNesting :
    (Busy(<<t, n>>) /\ ~Queued(<<t, n>>)) ~> (~Busy(<<t, n>>) \/ ~Innermost(t, n))
===============================================================================
