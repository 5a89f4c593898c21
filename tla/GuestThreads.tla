----------------------------- MODULE GuestThreads -----------------------------
(***************************************************************************)
(* Guest threads as others see them (libkernel/Pthread): creation, exit    *)
(* with its cleanup handlers, join and detach (src/Thread.cpp), and their  *)
(* cancellation while they wait (include/Cancel.hpp) for a semaphore       *)
(* (src/Sem.cpp) or for another thread to finish.                          *)
(*                                                                         *)
(* Locks.  A wait holds the mutex of what it waits for, the semaphore's    *)
(* _mutex or the target's _join_mtx, from its predicate to its sleep       *)
(* (Locked).  cancelPending is set outside every lock and cancelWait       *)
(* changes under cancelLock only, so between the predicate and the sleep   *)
(* there is one action per access to them.  NotifyOne of a post and        *)
(* NotifyAll of a thread that finished come after the unlock.              *)
(*                                                                         *)
(* The asynchronous cancel type acts only at the end of the two calls that *)
(* set state and type, as TestCancel right after them does.  The guest is  *)
(* taken to keep to what a handle allows: one join at a time, none of a    *)
(* detached thread, no cancel of a thread another call may be freeing, no  *)
(* exit out of a cleanup handler.  Main is the thread scePthreadSelf       *)
(* adopts, which nobody joins.                                             *)
(***************************************************************************)
EXTENDS Integers, FiniteSets

CONSTANTS
  Threads,      \* guest threads, each created once
  Main,         \* the thread that is there from the start
  Sem,          \* the semaphore
  Nothing,      \* no object
  MaxCount,     \* _count the guest's posts stay below
  MaxHandlers,  \* cleanup handlers a thread pushes at a time
  MaxCancels,   \* bound on the guest's cancel calls
  Calls         \* per thread: which calls the guest's code makes in it

CallNames == {"create", "detach", "join", "cancel", "state", "handlers", "exit",
              "wait", "timedwait", "trywait", "post"}

\* What a thread waits on: the semaphore's _cv, or the _join_cv of a thread.
Conditions == Threads \cup {Sem}

ASSUME ConstantsAssumption ==
  /\ IsFiniteSet(Threads) /\ Main \in Threads
  /\ Sem \notin Threads /\ Nothing \notin Conditions
  /\ MaxCount \in Nat /\ MaxHandlers \in Nat /\ MaxCancels \in Nat
  /\ Calls \in [Threads -> SUBSET CallNames]

VARIABLES
  pc,             \* per thread: where it is
  on,             \* per thread: the object of its call
  timed, expired, \* waits with a deadline, and those whose deadline passed
  count,          \* PthreadSemPrivate::_count
  cancelPending,  \* threads asked to exit
  cancelEnabled,  \* threads with cancelState GUEST_CANCEL_ENABLE
  cancelWait,     \* the condition a canceller has to notify
  exiting,        \* threads past the start of their exit
  handlers,       \* cleanup handlers pushed
  inHandler,      \* threads running one on their way out
  finished,       \* threads with _finished set
  references, detached,  \* PthreadPrivate's
  cancels,        \* calls of scePthreadCancel so far
  dropped         \* history: tokens whose notified waiter was cancelled

waitVars == <<on, timed, expired>>
cancelVars == <<cancelPending, cancelEnabled, cancels>>
exitVars == <<exiting, handlers, inHandler>>
objectVars == <<finished, references, detached>>
semVars == <<count, dropped>>
vars == <<pc, waitVars, semVars, cancelWait, cancelVars, exitVars, objectVars>>

InWait == {"called", "begun", "entering", "asleep", "woken", "relocking"}
AtEnd == {"cleanup", "finished", "leaving", "gone"}
Places == {"none", "running", "posted", "cancelling", "joining", "releasing"} \cup InWait \cup AtEnd

\* The state keeps its type.
TypeOK ==
  /\ pc \in [Threads -> Places]
  /\ on \in [Threads -> Conditions \cup {Nothing}]
  /\ timed \subseteq Threads /\ expired \subseteq Threads
  /\ count \in 0..MaxCount /\ dropped \in Nat
  /\ cancelPending \subseteq Threads /\ cancelEnabled \subseteq Threads
  /\ cancelWait \in [Threads -> Conditions \cup {Nothing}] /\ cancels \in 0..MaxCancels
  /\ exiting \subseteq Threads /\ inHandler \subseteq Threads
  /\ handlers \in [Threads -> 0..MaxHandlers]
  /\ references \in [Threads -> 0..2]
  /\ finished \subseteq Threads /\ detached \subseteq Threads

Init ==
  /\ pc = [t \in Threads |-> IF t = Main THEN "running" ELSE "none"]
  /\ on = [t \in Threads |-> Nothing] /\ timed = {} /\ expired = {}
  /\ count = 0 /\ dropped = 0
  /\ cancelPending = {} /\ cancelEnabled = Threads /\ cancels = 0
  /\ cancelWait = [t \in Threads |-> Nothing]
  /\ exiting = {} /\ handlers = [t \in Threads |-> 0] /\ inHandler = {}
  /\ finished = {} /\ references = [t \in Threads |-> IF t = Main THEN 1 ELSE 0]
  /\ detached = {Main}

GoTo(t, place) == pc' = [pc EXCEPT ![t] = place]

\* The mutex of a condition is held by a wait between its predicate and its sleep.
Locked(c) == \E t \in Threads : pc[t] \in {"begun", "entering"} /\ on[t] = c

Asleep(c) == {t \in Threads : pc[t] = "asleep" /\ on[t] = c}

\* ThreadCancel::Requested.
RequestedWhileExiting(t) == t \in cancelEnabled /\ t \in cancelPending
Requested(t) == t \notin exiting /\ t \in cancelEnabled /\ t \in cancelPending

\* ThreadCancel::BeginWait.
BeginWait(t, c) == cancelWait' = [cancelWait EXCEPT ![t] = c]

\* The wait is over: t's call returns, or goes on at another place.
LeaveWait(t, place) ==
  /\ GoTo(t, place)
  /\ on' = [on EXCEPT ![t] = IF place = "joining" THEN @ ELSE Nothing]
  /\ timed' = timed \ {t} /\ expired' = expired \ {t}

-----------------------------------------------------------------------------
(* Life of a thread *)

Release(u) == references' = [references EXCEPT ![u] = @ - 1]

\* scePthreadCreate.  The creator of a detached thread gives its reference
\* back once the thread runs.
CreateOwningNothing(c, t, isDetached) ==
  /\ pc[c] = "running" /\ pc[t] = "none"
  /\ pc' = [pc EXCEPT ![t] = "running"]
  /\ references' = [references EXCEPT ![t] = 1]
  /\ detached' = IF isDetached THEN detached \cup {t} ELSE detached
  /\ UNCHANGED <<waitVars, semVars, cancelWait, cancelVars, exitVars, finished>>
Create(c, t, isDetached) ==
  /\ pc[c] = "running" /\ pc[t] = "none"
  /\ pc' = [pc EXCEPT ![t] = "running", ![c] = IF isDetached THEN "releasing" ELSE @]
  /\ on' = [on EXCEPT ![c] = IF isDetached THEN t ELSE @]
  /\ references' = [references EXCEPT ![t] = 2]
  /\ detached' = IF isDetached THEN detached \cup {t} ELSE detached
  /\ UNCHANGED <<timed, expired, semVars, cancelWait, cancelVars, exitVars, finished>>

\* Nobody else is in a call on u, and u's handle is the guest's to use.
HandleIsFree(t, u) ==
  /\ u # t /\ pc[u] # "none" /\ u \notin detached /\ references[u] > 0
  /\ \A v \in Threads : on[v] # u

\* scePthreadDetach.
Detach(t, u) ==
  /\ pc[t] = "running" /\ HandleIsFree(t, u)
  /\ detached' = detached \cup {u}
  /\ GoTo(t, "releasing") /\ on' = [on EXCEPT ![t] = u]
  /\ UNCHANGED <<timed, expired, semVars, cancelWait, cancelVars, exitVars, finished, references>>

ReleaseHandle(t) ==
  /\ pc[t] = "releasing" /\ Release(on[t])
  /\ GoTo(t, "running") /\ on' = [on EXCEPT ![t] = Nothing]
  /\ UNCHANGED <<timed, expired, semVars, cancelWait, cancelVars, exitVars, finished, detached>>

\* __pthread_cleanup_push_imp and __pthread_cleanup_pop_imp.
PushHandler(t) ==
  /\ pc[t] = "running" /\ handlers[t] < MaxHandlers
  /\ handlers' = [handlers EXCEPT ![t] = @ + 1]
  /\ UNCHANGED <<pc, waitVars, semVars, cancelWait, cancelVars, exiting, inHandler, objectVars>>

PopHandler(t) ==
  /\ pc[t] = "running" /\ handlers[t] > 0
  /\ handlers' = [handlers EXCEPT ![t] = @ - 1]
  /\ UNCHANGED <<pc, waitVars, semVars, cancelWait, cancelVars, exiting, inHandler, objectVars>>

\* scePthreadExit up to its handlers, called by the guest or by Check.
StartExit(t) ==
  /\ LeaveWait(t, "cleanup")
  /\ exiting' = exiting \cup {t}
  /\ UNCHANGED <<cancelVars, handlers, inHandler, objectVars>>

Exit(t) ==
  /\ pc[t] = "running" /\ t \notin exiting
  /\ StartExit(t) /\ UNCHANGED <<semVars, cancelWait>>

\* ThreadCancel::Check where the request is acted on: scePthreadTestcancel, the
\* setters under the asynchronous type, and the entry of join and semaphore waits.
Check(t) ==
  /\ pc[t] = "running" /\ Requested(t)
  /\ StartExit(t) /\ UNCHANGED <<semVars, cancelWait>>

RunHandler(t) ==
  /\ pc[t] = "cleanup" /\ handlers[t] > 0
  /\ handlers' = [handlers EXCEPT ![t] = @ - 1]
  /\ inHandler' = inHandler \cup {t} /\ GoTo(t, "running")
  /\ UNCHANGED <<waitVars, semVars, cancelWait, cancelVars, exiting, objectVars>>

HandlerReturns(t) ==
  /\ pc[t] = "running" /\ t \in inHandler
  /\ inHandler' = inHandler \ {t} /\ GoTo(t, "cleanup")
  /\ UNCHANGED <<waitVars, semVars, cancelWait, cancelVars, exiting, handlers, objectVars>>

\* The store of _finished in finishThread, under _join_mtx: after the handlers,
\* or straight from the thread's entry, which leaves its handlers pushed.
Finish(t) ==
  /\ \/ pc[t] = "cleanup" /\ handlers[t] = 0
     \/ pc[t] = "running" /\ t \notin exiting
  /\ ~Locked(t)
  /\ exiting' = exiting \cup {t} /\ finished' = finished \cup {t}
  /\ GoTo(t, "finished")
  /\ UNCHANGED <<waitVars, semVars, cancelWait, cancelVars, handlers, inHandler, references, detached>>

\* Every sleeper of a condition wakes, and t goes on.
WakeAllAnd(t, c, place) ==
  pc' = [u \in Threads |-> IF u = t THEN place ELSE IF u \in Asleep(c) THEN "woken" ELSE pc[u]]

NotifyJoin(t) ==
  /\ pc[t] = "finished" /\ WakeAllAnd(t, t, "leaving")
  /\ UNCHANGED <<waitVars, semVars, cancelWait, cancelVars, exitVars, objectVars>>

\* The host thread ends, which the guard of its start routine precedes.
Leave(t) ==
  /\ pc[t] = "leaving" /\ GoTo(t, "gone") /\ Release(t)
  /\ UNCHANGED <<waitVars, semVars, cancelWait, cancelVars, exitVars, finished, detached>>

-----------------------------------------------------------------------------
(* Waits *)

Call(t, c, withDeadline) ==
  /\ pc[t] = "running" /\ ~Requested(t)
  /\ GoTo(t, "called") /\ on' = [on EXCEPT ![t] = c]
  /\ timed' = IF withDeadline THEN timed \cup {t} ELSE timed
  /\ UNCHANGED <<expired, semVars, cancelWait, cancelVars, exitVars, objectVars>>

\* scePthreadSemWait, scePthreadSemTimedwait and scePthreadJoin up to their lock.
SemWait(t, withDeadline) == Call(t, Sem, withDeadline)
Join(t, u) == HandleIsFree(t, u) /\ Call(t, u, FALSE)

\* The predicate of the wait on c.
Ready(c) == IF c = Sem THEN count > 0 ELSE c \in finished

\* What a call whose predicate holds does under the lock, then without it.
Acquire(t) ==
  /\ LeaveWait(t, IF on[t] = Sem THEN "running" ELSE "joining")
  /\ IF on[t] = Sem THEN /\ count' = count - 1
                         /\ dropped' = IF count = 1 THEN 0 ELSE dropped
                    ELSE UNCHANGED semVars
  /\ UNCHANGED <<cancelVars, exitVars, objectVars>>

Begin(t) ==
  /\ GoTo(t, "begun") /\ BeginWait(t, on[t])
  /\ UNCHANGED <<waitVars, semVars, cancelVars, exitVars, objectVars>>

LockAndTest(t) ==
  /\ pc[t] = "called" /\ ~Locked(on[t])
  /\ IF Ready(on[t]) THEN Acquire(t) /\ UNCHANGED cancelWait ELSE Begin(t)

\* ThreadCancel::Wait, its look at the request: the wait ends before it starts.
EnterBlindly(t) ==
  /\ pc[t] = "begun" /\ GoTo(t, "entering")
  /\ UNCHANGED <<waitVars, semVars, cancelWait, cancelVars, exitVars, objectVars>>
CheckBegun(t) ==
  /\ pc[t] = "begun"
  /\ IF Requested(t)
     THEN BeginWait(t, Nothing) /\ StartExit(t)
     ELSE GoTo(t, "entering") /\ UNCHANGED <<waitVars, cancelWait, cancelVars, exitVars, objectVars>>
  /\ UNCHANGED semVars

Sleep(t) ==
  /\ pc[t] = "entering" /\ GoTo(t, "asleep")
  /\ UNCHANGED <<waitVars, semVars, cancelWait, cancelVars, exitVars, objectVars>>

SpuriousWake(t) ==
  /\ pc[t] = "asleep" /\ GoTo(t, "woken")
  /\ UNCHANGED <<waitVars, semVars, cancelWait, cancelVars, exitVars, objectVars>>

Expire(t) ==
  /\ pc[t] = "asleep" /\ t \in timed
  /\ GoTo(t, "woken") /\ expired' = expired \cup {t}
  /\ UNCHANGED <<on, timed, semVars, cancelWait, cancelVars, exitVars, objectVars>>

\* WaitLock::lock before the mutex: ThreadCancel::EndWait.
EndWait(t) ==
  /\ pc[t] = "woken" /\ GoTo(t, "relocking") /\ BeginWait(t, Nothing)
  /\ UNCHANGED <<waitVars, semVars, cancelVars, exitVars, objectVars>>

\* A cancelled waiter leaves whatever it was woken for.
Abandon(t) ==
  /\ StartExit(t) /\ UNCHANGED <<count, cancelWait>>
  /\ dropped' = IF on[t] = Sem /\ count > 0 THEN dropped + 1 ELSE dropped

TimeOut(t) == LeaveWait(t, "running") /\ UNCHANGED <<semVars, cancelWait, cancelVars, exitVars, objectVars>>

\* The rest of ThreadCancel::WaitUntil's loop body, and its predicate again.
Relock(t) ==
  /\ pc[t] = "relocking" /\ ~Locked(on[t])
  /\ IF Requested(t) THEN Abandon(t)
     ELSE IF Ready(on[t]) THEN Acquire(t) /\ UNCHANGED cancelWait
     ELSE IF t \in expired THEN TimeOut(t) ELSE Begin(t)

\* scePthreadJoin once its target finished: the host thread has to end too.
HostJoin(t) ==
  /\ pc[t] = "joining" /\ pc[on[t]] = "gone" /\ Release(on[t])
  /\ GoTo(t, "running") /\ on' = [on EXCEPT ![t] = Nothing]
  /\ UNCHANGED <<timed, expired, semVars, cancelWait, cancelVars, exitVars, finished, detached>>

-----------------------------------------------------------------------------
(* The semaphore and the canceller *)

\* scePthreadSemPost: the notification comes after the unlock.
Post(t) ==
  /\ pc[t] = "running" /\ ~Locked(Sem) /\ count < MaxCount
  /\ count' = count + 1 /\ GoTo(t, "posted")
  /\ UNCHANGED <<waitVars, dropped, cancelWait, cancelVars, exitVars, objectVars>>

NotifySem(t) ==
  /\ pc[t] = "posted"
  /\ IF Asleep(Sem) = {}
     THEN GoTo(t, "running")
     ELSE \E u \in Asleep(Sem) : pc' = [pc EXCEPT ![t] = "running", ![u] = "woken"]
  /\ UNCHANGED <<waitVars, semVars, cancelWait, cancelVars, exitVars, objectVars>>

\* scePthreadSemTrywait, not a cancellation point.
Trywait(t) ==
  /\ pc[t] = "running" /\ ~Locked(Sem) /\ count > 0
  /\ count' = count - 1 /\ dropped' = IF count = 1 THEN 0 ELSE dropped
  /\ UNCHANGED <<pc, waitVars, cancelWait, cancelVars, exitVars, objectVars>>

\* scePthreadSetcancelstate; its Check under the asynchronous type is Check above.
SetCancelState(t) ==
  /\ pc[t] = "running"
  /\ cancelEnabled' = IF t \in cancelEnabled THEN cancelEnabled \ {t} ELSE cancelEnabled \cup {t}
  /\ UNCHANGED <<pc, waitVars, semVars, cancelWait, cancelPending, cancels, exitVars, objectVars>>

\* scePthreadCancel.
Cancel(t, u) ==
  /\ pc[t] = "running" /\ cancels < MaxCancels
  /\ u = t \/ HandleIsFree(t, u)
  /\ cancelPending' = cancelPending \cup {u} /\ cancels' = cancels + 1
  /\ GoTo(t, "cancelling") /\ on' = [on EXCEPT ![t] = u]
  /\ UNCHANGED <<timed, expired, semVars, cancelWait, cancelEnabled, exitVars, objectVars>>

\* One pass of its loop, under the target's cancelLock.
NotifyOnce(t) ==
  /\ pc[t] = "cancelling"
  /\ WakeAllAnd(t, cancelWait[on[t]], "running") /\ on' = [on EXCEPT ![t] = Nothing]
  /\ UNCHANGED <<timed, expired, semVars, cancelWait, cancelVars, exitVars, objectVars>>
CancelPass(t) ==
  /\ pc[t] = "cancelling"
  /\ IF cancelWait[on[t]] = Nothing
     THEN GoTo(t, "running") /\ on' = [on EXCEPT ![t] = Nothing]
     ELSE WakeAllAnd(t, cancelWait[on[t]], "cancelling") /\ UNCHANGED on
  /\ UNCHANGED <<timed, expired, semVars, cancelWait, cancelVars, exitVars, objectVars>>

-----------------------------------------------------------------------------
\* What the guest asks for.
Guest(t) ==
  \/ "create" \in Calls[t] /\ \E u \in Threads, isDetached \in BOOLEAN : Create(t, u, isDetached)
  \/ "detach" \in Calls[t] /\ \E u \in Threads : Detach(t, u)
  \/ "join" \in Calls[t] /\ \E u \in Threads : Join(t, u)
  \/ "cancel" \in Calls[t] /\ \E u \in Threads : Cancel(t, u)
  \/ "state" \in Calls[t] /\ SetCancelState(t)
  \/ "handlers" \in Calls[t] /\ (PushHandler(t) \/ PopHandler(t))
  \/ "exit" \in Calls[t] /\ (Exit(t) \/ Finish(t))
  \/ "wait" \in Calls[t] /\ SemWait(t, FALSE)
  \/ "timedwait" \in Calls[t] /\ SemWait(t, TRUE)
  \/ "trywait" \in Calls[t] /\ Trywait(t)
  \/ "post" \in Calls[t] /\ Post(t)

\* What its calls and its exit do from there.
Continue(t) ==
  \/ ReleaseHandle(t) \/ RunHandler(t) \/ NotifyJoin(t) \/ Leave(t) \/ HostJoin(t)
  \/ CheckBegun(t) \/ Sleep(t) \/ EndWait(t) \/ NotifySem(t) \/ CancelPass(t)

\* The steps that take a mutex.
TakesMutex(t) == LockAndTest(t) \/ Relock(t) \/ (pc[t] = "cleanup" /\ Finish(t))

Next ==
  \E t \in Threads :
    \/ Guest(t) \/ Continue(t) \/ TakesMutex(t)
    \/ Check(t) \/ HandlerReturns(t) \/ SpuriousWake(t) \/ Expire(t)

Spec == Init /\ [][Next]_vars

\* The host runs a thread that can go on, and its mutexes let nobody wait for good.
FairSpec == Spec /\ \A t \in Threads : WF_vars(Continue(t)) /\ SF_vars(TakesMutex(t))

-----------------------------------------------------------------------------
\* Nobody sleeps through what it waits for: a cancelled sleeper has a canceller
\* at its heels, a joiner of a finished thread is about to be notified, and for
\* every token beside a sleeper somebody awake will take it, or a post has yet
\* to notify, or its notification went to a waiter that was cancelled.
NoMissedWakeup ==
  /\ \A t \in Threads : pc[t] = "asleep" /\ Requested(t) =>
       \E c \in Threads : pc[c] = "cancelling" /\ on[c] = t
  /\ \A t \in finished : Asleep(t) # {} => pc[t] = "finished"
  /\ Asleep(Sem) # {} =>
       count <= dropped + Cardinality({t \in Threads :
                  pc[t] = "posted" \/ (on[t] = Sem /\ pc[t] \in {"called", "woken", "relocking"})})

\* A thread on its way out runs each cleanup handler to its end: the
\* cancellation points in a handler do not start another exit.
CleanupUninterrupted == \A t \in Threads : pc[t] \in AtEnd => t \notin inHandler

\* A thread's block is deleted once it has ended and been joined or detached, in
\* whatever order, and under nobody's call; a cancelled join leaves it joinable.
NeverFreedInUse ==
  \A u \in Threads :
    /\ references[u] = 0 => pc[u] \in {"none", "gone"} /\ \A t \in Threads : on[t] # u
    /\ pc[u] = "gone" /\ u \in detached /\ (\A t \in Threads : on[t] # u) => references[u] = 0

\* A wait ends once its thread is asked to exit, whatever the moment of the
\* request, and a join once its target has finished and its host thread has ended.
WaitsEnd ==
  \A t \in Threads :
    (pc[t] \in InWait /\ (Requested(t) \/ on[t] \in finished)) ~> pc[t] \in {"running"} \cup AtEnd
=============================================================================
