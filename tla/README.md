# Haumea in TLA+

Haumea runs PlayStation 5 programs on a PC: the relinker rewrites the game's executables, and
the libraries under `core/libs/prx` stand in for the console's. A game is heavily threaded, and
nearly every thread of it blocks somewhere in `libkernel` or in the graphics driver. This project
specifies the part of Haumea that decides whether those threads wake up again, in the right order
and with the right result: the blocking kernel objects, the threads themselves with their
cancellation, the event queues, and the queues of commands for storage and for the GPU. It checks
them with TLC on small instances and proves the main results with TLAPS for all instances.

Paths below are relative to `core/libs/prx/libkernel` unless they begin with `core/` or `docs/`.

1. [Components](#components)
2. [Plan](#plan)
3. [How the models read the code](#how-the-models-read-the-code)
4. [Modules](#modules)
5. [Runs](#runs)
6. [Proofs](#proofs)
7. [What the code does that a reader may not expect](#what-the-code-does-that-a-reader-may-not-expect)
8. [Not modelled](#not-modelled)

## Components

| component | state | operations | hard behaviour | what makes it correct | module |
|---|---|---|---|---|---|
| libkernel semaphore (`Semaphore/`) | tokens, waiters, cancelable waiters, cancel generation | create, poll, signal, wait, cancel, delete | waiters of two generations at once, cancel twice in a row, delete under waiters | exact counts, no lost wake-up, freed only when empty, waits and delete end | `KernelSemaphore` |
| wait on address (`SyncOnAddress/`) | map from address to list of waiters, each with a flag and a condition | wait, timed wait, wake n, the `_umtx_op` family | the deadline races the wake; store and wake race the comparison | first come first served, no waiter left on a changed word, every waiter on the one right list | `SyncOnAddress`, promise in `AddressWait` |
| APR and AMM queues (`Apr/`) | per queue: submitted, completed, pending work, running flag; labels; last AMM id | submit, wait for an id, the worker loop, the commands | a buffer moves to the worker in the middle; two queues release each other; notifications after unlock | order within a queue, completion after execution, a wait blocks only its own queue | `AprQueue` |
| guest mutex and parking lot (`Pthread/src/Mutex.cpp`, `Time/TimedWait.cpp`) | native mutex, `_owner`, `_count`; buckets with a count, a list and one event per thread | init, destroy, lock, trylock, timed lock, unlock; park, unpark | unlock looks at the bucket without its lock; deadline against signal; mutexes that share a bucket | ownership follows the native mutex, no lost wake-up, no signal left over | `PthreadMutex` |
| guest reader-writer lock (`Pthread/src/Rwlock.cpp`) | writer, readers, waiting writers; a thread-local count over all locks | init, destroy, read and write locks (plain, try, timed), unlock | writers have priority but a relocking reader must pass; a writer's deadline frees readers | exclusion, exact counts, relock never blocks, no lost wake-up, writers get in | `PthreadRwlock` |
| timed condition (`Time/TimedWait.cpp`) | list of waiters, one event each, nested waiters per thread | wait, wait until, notify one, notify all | deadline against notification, APCs that wait inside a wait | every notification reaches a waiter that reports it | `TimedCondition`, promise in `ConditionVariable` |
| libkernel event flag (`EventFlag/`) | pattern, waiters, deleted mark, cancel generation | create, delete, set, clear, cancel, poll, wait | one set wakes all and the first may clear; the last waiter frees | exact waiters, freed by the last, a bit taken once, decided waits end | `KernelEventFlag` |
| guest threads (`Pthread/src/Thread.cpp`) | per thread: finished, detached, references, cleanup handlers, the request and the state of cancellation | create, exit, join, detach, cancel, cleanup handlers | a thread's end, its join and its detach in any order; a request between a predicate and a sleep | freed once and in time, handlers run once, called-off waits end | `GuestThreads` |
| guest semaphore and cancellation (`Pthread/src/Sem.cpp`, `Pthread/include/Cancel.hpp`) | count, sleepers; per thread the condition a canceller notifies | wait, timed wait, try wait, post | the cancelled waiter may be the one that was notified | no sleeper beside a token nobody goes for, but for the one loss the code has | `GuestThreads` |
| event queue (`Equeue/Equeue.cpp`) | registered events in order, pending reports, timers, waiters on a condition or in a poll | add, delete, trigger, wait, close; timers; descriptors | one notified waiter with room for fewer events than are ready; a poll outside the lock | every completion and period reported once and in order, close ends all waits | `Equeue` |
| kqueue (`Equeue/src/Kqueue.cpp`) | the same, an event reported once per wait, enabled or disabled | kevent's edits, waits | a level event that stays triggered before others | level events that stay triggered take turns; descriptors do not | `Equeue` |
| GPU submission (`core/libs/prx/libSceAgcDriver/Execution/src/Driver`) | pending submissions per queue, workers, completion counter, pipeline of queue 0, held flips, failure | submit, suspend, wait idle, stop; take, hold back, wait, execute, complete; commit | queues complete out of order; one queue holds another back while it waits for it; failure and stop at any point | the counter covers finished work only, order behind queue 0, every call returns | `SubmissionQueues` |
| guest condition variable (`Pthread/src/Cond.cpp`) | a timed condition, the mutex's levels | wait, timed wait, signal, broadcast | a recursive mutex is given up level by level and taken again | ownership and depth restored, no signal lost between unlock and sleep | not yet |
| AIO (`Aio/`) | slots of request states, next id | submit, poll, wait, cancel, delete | ids wrap | an id in use is not given out again | not yet |
| GPU labels (`.../Driver/Synchronization`) | labels deferred past their queue, waits for them | write, defer, land, wait | a write recorded on one queue and awaited on another | labels after their draws, in order | not yet |

The blocking objects meet in two places. Everything except the mutex sleeps on a
`TimedWait::Condition`, so `TimedCondition` is the foundation of the others. And the guest
combines them: the condition variable takes the mutex apart, cancellation notifies whatever
condition a thread sleeps on. No kernel object calls another one under its lock. The GPU driver
is apart from them: its threads share one mutex and one condition variable (`changed`), and the
labels that its queues and the guest write in memory.

The remaining components (memory, modules, files, audio, video, the GPU command processor, the
shader recompiler, the relinker, the guest's service libraries) are listed with their reasons in
`PROJECT.json` and under [Not modelled](#not-modelled).

`PROJECT.json` also lists the hazards: the places in the code where a test would hardly reach what
can go wrong. The properties were chosen from that list.

## Plan

Done, in this order; the core first:

1. `KernelSemaphore`, the pattern of all objects that are one mutex and one condition.
2. `SyncOnAddress` with the abstract `AddressWait` it implements.
3. `AprQueue`, the one component in which threads hand work to each other.
4. `PthreadMutex` over the parking lot, where the interleavings are finest.
5. `PthreadRwlock`.
6. `TimedCondition` with the abstract `ConditionVariable` it implements.
7. `KernelEventFlag`.
8. `GuestThreads`: threads, the guest semaphore and cancellation together, since what cancellation
   can do wrong shows only in what it interrupts.
9. `Equeue`, for equeues and kqueues.
10. `SubmissionQueues`, the workers of the GPU driver with the pipeline of queue 0.

Next:

11. `PthreadCond`: `Cond.cpp` composed with the abstract mutex that `PthreadMutex` provides and with
    `ConditionVariable`. Properties: depth and owner are restored; a signal sent after the
    waiter gave up its mutex reaches a waiter; the cancellation path reacquires. Theorems: the
    same as invariants.
12. The labels that are deferred past their queue (`Synchronization/DeferredLabels.cpp`), composed
    with `SubmissionQueues`, which takes a write for landed at the end of its submission.
13. `AprCounters` (bit fields written in two halves) and `AioIds` (ids that wrap), both small.

Abstract specifications worth stating besides the two that exist: a mutex with a set of waiters
(for `PthreadMutex`, and to compose with `PthreadCond`), a FIFO executor (for `AprQueue` and the
GPU queues), a counter with waiters (for both semaphores), a log of triggers that each event of
`Equeue` reports from.

Every invariant and every action property that a passing run checks is a theorem. Worth proving next are
the refinements that do not exist yet: that `PthreadMutex` implements the abstract mutex, that both
semaphores implement the counter, that `Equeue` reports from the log of triggers.

## How the models read the code

**Grain.** A section under a lock is one action. What the code does outside its lock is an action
of its own: the notification after an unlock (`AprQueue`, `PthreadRwlock`), each atomic access of
the parking lot (`PthreadMutex`), each command of a buffer (`AprQueue`). In `KernelSemaphore`,
`SyncOnAddress`, `KernelEventFlag` and `Equeue` the notification is made under the lock and belongs
to the action. In `GuestThreads` the requests of cancellation are atomics outside every lock, so
there is one action per access to them between a predicate and a sleep. In `SubmissionQueues` the
notification of `changed` follows the unlock and is part of the action all the same: who goes to
sleep in between has seen the new state, and a worker that is held back looks again by itself.

**Blocking calls.** A call that waits is cut where it gives up its lock: one action for the part
up to the sleep (or for the whole call when it does not sleep), one for each time it has the lock
again. A thread in the wait set leaves it by a notification, at its deadline (`Expire`) or for no
reason (`SpuriousWake`), and then still has to get the lock: other actions may come first.

**Conditions.** The modules over `TimedWait::Condition` keep its wait set as a set of threads and
allow spurious wake-ups, which the path over `std::condition_variable_any` has. On Windows the
code has a list and events of its own; `TimedCondition` models that and shows that it is a
condition without spurious wake-ups, which is stronger than what the others assume.

**Early returns.** A call refused by its argument checks, or a try that finds nothing, changes
nothing and is not an action: it would be a stuttering step.

**The guest.** The guest's code is not in the repository. It is any program that follows these
rules, each stated in the module that relies on it: no call is under way on an object when the
guest frees it by a call that is documented to need that (mutex, reader-writer lock), no call
races the one that frees a deleted event flag, a lock is unlocked only by who holds it, a thread
holds at most one mutex at a time (`PthreadMutex`), a gather follows a read in its buffer
(`AprQueue`; the code ends the process otherwise), a thread's handle is used while it is valid, by
one join at a time, and no cleanup handler exits (`GuestThreads`). Delete of a semaphore under waiters is
supported by the code and modelled.

**Time.** No clock is modelled. A wait is timed or not, and a timed one may expire at any moment
it sleeps. The conversions of the deadlines are left out.

**Data.** Tokens are small numbers, the bits of a flag, addresses, labels and files are model
values. A command is one of those the order of execution can tell apart. A GPU submission is the
label it waits for, the labels it writes at its end and whether it shows a frame; an event's
payload is the number of its trigger.

**History variables.** `owed` (semaphore), `taken` (event flag), `expected` (wait on address),
`issued`, `log`, `returned` (APR), `holds` (reader-writer lock), `dropped` (threads), `fired`, `got`,
`passed` (event queue), `finished` and `drawn` (GPU) record what happened for the properties, or
what the guest may do next; no action of the code's own reads them.

## Modules

### KernelSemaphore
`KernelSemaPrivate` is the variables `tokenCount` to `cancelGeneration`; `alive` says that it
exists. `sceKernelWaitSema` is `WaitSemaAtOnce` when its predicate holds on entry, else
`WaitSemaBlocks` followed by `ResumeSleeps` or `ResumeReturns` after each wake-up, where the
destructor of `WaiterGuard` (`CancelableAfter`, the notification) is part of the return.
`sceKernelDeleteSema` is `DeleteSemaAtOnce` or `DeleteSemaBlocks`, `DeleteSleeps`, `DeleteFrees`.
After a delete a new semaphore may be created.

Properties: `CancelReportsExact` (no waiter is reported by two cancels or by none; it needs the
counts to be exact, which is the theorem `WaitersAccountedHolds`), `NoMissedWakeup`, `NeverFreedInUse`,
`DeleteReturns`, `EndedWaitReturns` (timed or cancelled waits return although others may take
the tokens each time).

### SyncOnAddress and AddressWait
`g_waiters` is `entries` (the keys) and `queue` (the lists). `WaitOnAddress` compares and queues in
one action. A waiter that wakes finds its flag (`ResumeWoken`) or does not (`ResumeTimedOut`,
`ResumeSleeps`); the deadline and the wake may both have happened. `Wake` covers
`sceKernelSyncOnAddressWake` and the `UMTX_OP_WAKE` forms, `NwakePrivate` and `NwakeNext` the
array form with its lock released between the words. `Publish` is the guest's protocol: store,
then wake all; its wake is still owed in `pending`.

`AddressWait` promises: a wait on a word that holds the value parks, a wake releases the longest
parked first, a released thread returns, a timed thread leaves only while nobody released it. It
knows no map, flag or condition.

Properties: `StaleWaitersAreWoken`, `FirstComeFirstServed`, `ImplementsAddressWait` (with the
fairness of `AddressWait`).

### AprQueue
One `AprQueue` per name in `Queues`. `AprQueue::submit` is held by the thread in `Submitting(q)`.
`_submit` is `Submit`, then `ExecuteInline` per command until `CompleteInline` or `DeferWait`, then
`Enqueue`, and the notification. `_execute` reads the value of a wait twice: `PassWait` is the first
read (`Apr/src/Apr.cpp:654`) finding it satisfied, after which the submitter stands at the polling loop
of line 655 and ignores the deferral; `ExecuteInline` of a wait is the read that ends the loop. The
worker is `WorkerSleeps`, `WorkerTakes`, `WorkerExecutes`, `WorkerFinishes`, `WorkerNotifies`.
`AmmSubmit` stores `lastSubmit` after it left the lock: `StoreLast`. A label holds a value, a write maps
the old value to a new one, and a wait names the values that satisfy it, so a satisfied wait may become
unsatisfied again: by a command, or by a store of the guest (`GuestWrite`).

Properties: `ExecutedInOrder` (what ran is a prefix of what was submitted, with the file each gather
continues: every logged command is one of `Steps`, the log is increasing under `Precedes`, and with a
command it holds all that precede it), `CompletedWereExecuted`, `NoMissedWakeup`,
`SubmitReturnsOrTakenBack` (a submit returns, or stands at a wait whose value was taken back between the
two reads), `SubmittedCompletes` (no queue stands before waits that stay satisfied), and
`ReturnedIdsAreKnown`, which fails (see [Runs](#runs)).

### PthreadMutex
The Windows path with precise waits. A lock is `Lock` (spin), `CountIn` and `Enqueue` (`BeginPark`),
a second try (`RecheckAcquires`, `RecheckFails`), the sleep, and the way out of the lot; the last
try after a deadline is `LastTryAcquires` or `LastTryFails`. `StoreOwner` comes after the native
lock and `Unlock` clears `_owner` before `UnlockNative`. `UnparkLoads` reads the bucket's count
without its lock.

Properties: `OwnerIsHolder`, `NoStaleEvent`, `NoLostWakeup`, `FreeMutexIsTaken`.

### PthreadRwlock
One action per section under `_state`, and `Notify` after it. `readLocksHeld` is the thread-local
count over all locks; `holds` is what the guest may unlock. `DestroysHeld` lets the guest destroy
a lock that is held, which the code permits by leaving the object behind.

Properties: `WritersExclude`, `RelockingReaderEnters`, `NoMissedWakeup`, `WriterGetsIn` (for guests
whose threads all hold no read lock at some time, again and again: see its comment).

### TimedCondition and ConditionVariable
A waiter is `<<thread, n>>`, the `n`-th of the thread's nested chain. `Enqueue` links it, before
the caller's lock is given up; `Wake` is the event, `DeadlinePasses` the deadline seen with the event
unset, `ExpireUnlinks` and `ExpireSignaled` what it then finds under `queueLock`. Between any two
of them an APC may start a nested wait.

`ConditionVariable` promises: notifications reach the longest waiters, a notified waiter reports
that and no other does, a notified waiter returns.

Properties: `EventsAreOwed`, `ImplementsCondition`, `NotifiedReturns` (while no APC has the thread
wait again inside the wait).

### KernelEventFlag
`sceKernelWaitEventFlag` is `TakeAtOnce` or `WaitBlocks`, then `ResumeSleeps`, `ReturnDeleted`,
`ReturnEmptyHanded` (late or cancelled) or `ReturnSatisfied`. `sceKernelDeleteEventFlag` frees the
flag itself if nobody waits, else leaves it to the last waiter (`LastFrees`). `taken` counts per
bit how often a waiter cleared it since it was last set.

Properties: `FreedByTheLast`, `NoMissedWakeup`, `TakenOnce`, `EndedWaitReturns`,
`SatisfiedReturns` (a wait does not last while its bits stay set).

### GuestThreads
`pc` says where a thread is: "none" before its creation, "running" in guest code, in a wait, on its
way out, "gone" when its host thread has ended. A cancellable wait is `Begin` (the condition is
published under `cancelLock`), `CheckBegun` (the look at the request), `Sleep`, `EndWait` and
`Relock`, as `ThreadCancel::WaitLock` does it; a wait with a deadline adds `LockAndTest`,
`Abandon` and `TimeOut`. `Cancel` sets the request and `CancelPass` is one turn of the loop that
notifies until the target has left its wait. `StartExit`, `RunHandler`, `HandlerReturns`,
`Finish`, `NotifyJoin` and `Leave` are the way out; `Release` drops one of the references and
frees the block with the last.

Properties: `NoMissedWakeup` (of cancelled sleepers, joiners and tokens), `CleanupUninterrupted`,
`NeverFreedInUse` (freed under nobody's call, but freed once ended and given up), `WaitsEnd`.

### Equeue
`m_mutex` makes each operation one action. `Pass` is a turn of `WaitForEventsUntil`: timers that passed
are triggered, descriptors looked at, and what is ready is collected (`Collect`), in an equeue as
`CollectTriggered` does it, in a kqueue as `CollectOncePerWait`; with nothing collected the waiter
sleeps, on `m_cond` or in a poll (`FallAsleep`). What a waiter takes is the function `Taken`: of each
event in order, as many reports as the room leaves after all that is ahead of it. `order` is the order
of the events, in which the ones a kqueue reported go to the end (`Kept`). `Lasting` are the level
events among them that stay triggered: the `resetFunc` of a descriptor event untriggers it, so that it
keeps its place, and the next pass asks the descriptor again. `EditEvent` is an edit by kevent, which
can enable or disable an event, trigger it and make it one-shot (`EV_FORCEONESHOT`), and trigger or
untrigger a user event (`NOTE_TRIGGER`, `EV_CLEAR`); a timer it can only disable, in the kevent that
added it. `Tick` is a period of a timer that passes unseen. `LastMillisecond` is the end of a poll on
Windows, which leaves the rest of its deadline to the condition.

Properties: `NoMissedTrigger` (where every event is reported once, nobody sleeps beside more reports
than there are waiters awake to take them), `NothingLost` (of a timer that is disabled, by its
report or when it was added, periods may be lost, but none is reported twice), `LastingEventsRotate`
(a level event that stays triggered is not reported again before one that had to wait for room),
`CloseEndsWaits`, and `LevelEventsRotate`, the same of descriptors too, which fails (see [Runs](#runs)).

### SubmissionQueues
A guest's `Submit`, `SuspendPoint`, `WaitIdle` and `Stop` are one critical section of the driver's mutex
each, or two with a sleep between them; `HoldFlip` is the sleep of a flip behind another one. A worker
goes from "looking" over `Take` to "held" (a submission that waits for nothing, of another queue than 0)
or "running", from there over its wait (`PassWait`, or `Block` and `Unblock`) to "working", and to its
end: `Execute` and `Complete`, or on queue 0 `Defer`, `HandOver` and `Complete`, after which the
submission belongs to the committer (`Commit`, `Pop`). `Fail`, `CommitFailed`, `Interrupt` (at a packet
or in a wait), `Rethrow`, `Report` and `End` are the ways out under a failure or a stop.
`runningWorkers`, `orderHolders`, `idleWaiters`, `flipHolders` and `queue0Awaited` are operators: these
counters follow from where the threads are.

Properties: `CompletedMeansFinished` (what `WaitIdle` compares with covers no work still ahead),
`QueueZeroGoesFirst` (a submission that waits for nothing starts after all that queue 0 received
before it), `CallsReturn`.

### MC modules
`MC<module>` extends the module with the values a `.cfg` file cannot write: requests, command
buffers, the hash of mutexes into buckets, the calls each thread makes, the kinds of event queue, the
programs of GPU submissions, and symmetry where a run has no liveness property.

## Runs

`tlc -config X.cfg MCModule` for each row.

| run | instance | shows |
|---|---|---|
| `KernelSemaphore` | 3 threads, at most 2 tokens, waits for 1 and 2, 2 cancels | invariants, delete and ended waits return |
| `SyncOnAddress` | 3 threads, 1 word, 2 values, counts 0 to 2 | no stale waiter, order, refinement of `AddressWait` with its fairness |
| `AprQueue` | 2 threads, 3 submissions over both queues, buffers that wait in the middle or toggle the value waited for | order, completion, wake-ups, submits return, queues do not hold each other up |
| `AprQueue_ammIds` | 2 threads, 2 submissions, buffers that release | a counterexample, below |
| `PthreadMutex` | 3 threads, a plain and a recursive mutex in one bucket, depth 2 | ownership, the lot's events, no lost wake-up, a free mutex is taken |
| `PthreadRwlock` | a reader and 2 writers that may read too, 1 lock, depth 2, destroyed while held | exclusion, relocking, wake-ups, writers get in |
| `TimedCondition` | 2 threads, 1 condition, waits nested once | events, refinement of `ConditionVariable`, notified waits return |
| `KernelEventFlag` | 3 threads, 2 bits, AND and OR waits that clear, 1 cancel | invariants, decided and satisfied waits end |
| `GuestThreads` | the first thread and 2 it creates, 1 semaphore, 1 cancel, 1 cleanup handler each | wake-ups, cleanup, references, called-off waits end |
| `Equeue` | 8 kinds of queue, up to 3 events and 3 waiters, room for 1 or 2 reports | wake-ups, reports, turns, close |
| `Equeue_descriptors` | a kqueue with a descriptor and a user event, 1 waiter, room for 1 report | a counterexample, below |
| `SubmissionQueues` | 5 programs of 2 guest threads, queue 0 and 2 others, 2 items in the pipeline | the completion counter, order behind queue 0, calls return |

**The bounds and why they are enough.** The hazards of these objects are races between two
waiters, or a waiter and a notifier, with a third thread that gets in between; three threads give
all of them. Two tokens with waits for one and for two are the least in which a signal can
satisfy some waiters and not others. Two cancels are the least in which three generations of
waiters exist at once. Two mutexes in one bucket are the least in which a wake can go to the wrong
waiter; that words, conditions and reader-writer locks do not disturb each other is left to the
proofs, which hold for any number of them. Three submissions in all are the
least in which one queue has an order (a buffer behind one that waits) while the other queue, or a third
buffer, changes the value; one label with two values is the least that can be changed back.
One nested wait reaches every branch of `AcquireWaiter`.

In `GuestThreads` the `Calls` give each of the three threads a part: one creates, posts, cancels,
detaches and joins, one waits with a deadline or without, with a handler and with cancellation on or
off, one waits, joins the second or tries. Each hazard needs no more than these parts, and all threads
with all calls would not finish. The `Setups` of `Equeue` pair the kinds of event that can meet in a
queue: reported once or level, timers of both sorts and one that its report disables, a descriptor with
a timer and with a level event, events that kevent disables, triggers or makes one-shot; three waiters
where a wake-up can be given to the wrong one. The `Programs` of `SubmissionQueues` are chosen so that
each of them can finish: what is waited for is written by a call or a submission that does not itself
wait for the one that waits. They cover a wait of queue 0 for a label of a submission behind it, for one
that comes over a third queue, submissions in the pipeline that another queue waits for, a suspension, a
flip held behind one that waits for the guest, and a stop; a failure may come in any of them. The bounds
named `Max...` limit how often the guest does something (cancel, submit, lock again); they stand in the
guards of the guest's calls and hold back no step the code takes by itself.

**Fairness.** Each `FairSpec` assumes that the host runs a thread that can go on: weak fairness of the
actions that continue a call (`Progress`, `Resume`, `Continue`, `Proceed`, `SubmitStep`, `WaitStep`,
`WorkerStep`, `NwakeNext`, `Works`, `DrawWorks`, `Commits`). A thread contending for a lock that others
keep taking is assumed to get it eventually, as the host's mutexes provide in practice; `GuestThreads`
says so by strong fairness of `TakesMutex`. Deadlines are absolute and pass even if the waiter is woken
time and again before them, hence strong fairness of `Expire`. Nothing is assumed of the guest, which in
`AprQueue` may change a value back as it likes, with two exceptions: in `PthreadRwlock` it unlocks what
it locked, as no writer could get in otherwise, and in `SubmissionQueues` it goes on with its program,
without which a label that the guest stores would never come. No fairness is put on spurious wake-ups,
signals, posts, cancels or the failure of a submission.

`NotifiedReturns` speaks of innermost waits because an outer wait that was notified returns only
after the wait nested in it, and nothing in the code makes that one end. `WriterGetsIn` has a
premise of its own, because a thread that holds any read lock passes waiting writers on every lock.
`Equeue` has no liveness property: who waits without a deadline for an event that another waiter
may take waits as long as that happens.

**`AprQueue_ammIds`.** `docs/dev/ARCHITECTURE.md:72` says that waiting for an AMM id blocks until
the queue has completed it. `AmmSubmit` takes its id from `_submit` and stores it as the last one
known after the submit lock is released, with a plain store (`Apr/src/Apr.cpp:803`). If two threads
submit at once, the one with the later id may store first and the earlier id then overwrites it;
`AmmSubmitted` refuses the later id although the guest was given it, and the wait fails at once.
The run finds the interleaving.

**`Equeue_descriptors`.** `docs/dev/debt/libkernel.md:111` says of the kqueue that a level-triggered
event is reported once per call and moved behind the other events. `CollectOncePerWait` moves a reported
event only if it is still triggered after its `resetFunc` (`Equeue/Equeue.cpp:192`), and that of a
descriptor event sets `triggered` to false (`Equeue/Equeue.cpp:662`). The run registers a descriptor
that is ready and then a level user event that is triggered, and calls with room for one report: the
descriptor is reported, keeps its place before the user event, and the next pass triggers it again.
Every further call may report it, and the user event never.

**Deadlock.** The runs of the kernel objects check for it. The guest can always make another call in
these models, so what it rules out is a state in which even that is impossible; that no waiter is left
behind is the business of the `NoMissedWakeup`, `NoLostWakeup`, `NoMissedTrigger` and liveness
properties. Three runs really may stop and do not check it: threads end, a closed queue is not used
again, and the programs of the GPU submissions are finite.

## Proofs

The theorems hold for every value of the constants, from nothing but the assumption that the module
itself names (`ConstantsAssumption`, `ConditionsAssumption`, `DriverAssumption`,
`EqueueAssumption`): the sets of threads, queues or events are finite where something is counted,
the bounds are natural numbers, and the constants that stand for calls have the shape the
MC modules give them. TLC evaluates these assumptions in every run. Components whose names do not
meet are proved about side by side: `PthreadWaitProofs` is about `PthreadRwlock` and
`TimedCondition`, `EventProofs` about `KernelEventFlag`, `SubmissionQueues` and `Equeue`.

Each proof has the same outline: an inductive invariant (`IInv`, `ConditionIInv`, `DriverInv`,
`EqueueInv`), one lemma per action or per group of actions that disturb the same part of it, the
theorem that it always holds, and from that the properties.

**`KernelSemaphore`** (`KernelSemaphoreProofs`). The counts do not go below zero only because they
are exact, and they stay exact over a cancel only because no waiter is ahead of the generation
(`NoFutureGeneration`). That delete frees an empty object needs `OneDeleter`. `IInv` is those with
`TypeOK`, the four safety properties and `QueuesInUse`.

**`SyncOnAddress`** (`SyncOnAddressProofs`). `IInv` is the typing with `QueuesHoldWaiters`,
`NoMissedWakeup` and `SleepersWait`. From it follow the order of wakes (a thread is queued once, so
a wake of the first k passes nobody), `StaleWaitersAreWoken`, and `Implements`: every step is a
step of `AddressWait` or a stutter.

**`AprQueue`** (`AprQueueProofs`). That the log is in order says nothing about where the next command
comes from, so the invariant places every submitted buffer: the ids above `completed` are, in this
order, the worker's work, the pending works and the one call still in `_submit` (`Numbered`). Each
of these stands where the log of its queue stands and carries the read cursor of that place, and
only the first of them can have started (`Resumable`). With that, the command that runs next is the
one that follows the last in the log (`Logged`), whether the submitter or the worker runs it, and
across the hand-over of a buffer that waits in the middle. `Notified` says who still owes a sleeping
worker or waiter its notification. An action on one queue leaves the others alone by
`OtherQueueSame`.

**`PthreadMutex`** (`PthreadMutexProofs`). `NoLostWakeup` is not inductive alone. The unlocker finds
the sleeper because the bucket counts it (`ParkedCounted`) and lists it or has signaled it
(`Listed`, `Placed`); a woken thread stands for the other sleepers because its event is its own
(`NoStaleEvent`); the owner is exact because a call that holds the native mutex has not stored
`_owner` (`HoldersInCall`). The proof goes by part: `BooksKept`, `ListsKept`, `CountsKept` and
`WakeupsKept`, each over all actions.

**`PthreadRwlock`** (`PthreadWaitProofs`). `RelockingReaderEnters` rests on `HeldCovers`: the
thread-local count is never below what the thread holds, though a lock destroyed while held leaves
it above.

**`TimedCondition`** (`PthreadWaitProofs`). That a waiter off its list was notified (`EventsAreOwed`)
needs that it is on no other list (`LinkedOnce`), and both are inductive together. `Implements` is
the refinement of `ConditionVariable`; it also needs that only timed waits expire.

**`KernelEventFlag`** (`EventProofs`). The count is exact of a flag that is gone too (`Counted`), so
a count of zero at the last return means that nobody is left, which is `FreedByTheLast`. Taking bits
can only take the predicate away from the sleepers, setting them wakes all: `NoMissedWakeup`.
`TakenOnce` is inductive by itself, since whoever counts a bit found it in the pattern and leaves it
cleared.

**`GuestThreads`** (`GuestThreadsProofs`). `NeverFreedInUse` needs the references to be accounted for:
one is the thread's own until it is gone, the other the handle's, which one call at a time may use
and which a detached thread has only until it is given back (`Owned`). `NoMissedWakeup` cannot be
shown of sleepers alone, as a request may arrive at any step on the way to a sleep. `Watched` says
what a thread may rely on before it sleeps: a canceller that set the request either is still in its
loop or the thread will look at the request, the condition the loop notifies is the one the thread
is about to sleep on, and neither the count nor the joined thread's end changes while it holds the
mutex under which it looked. Tokens are then compared with the threads that are awake to
take them (`AttentiveCounts`, `TokensCovered`).

**`Equeue`** (`EventProofs`). An event's pending reports are exactly the numbers of its triggers not yet
reported, and a timer's periods are reported, collected, due or, if it is disabled, at most lost
(`Sound`); an event that is not registered is as new, which is what carries this over a delete and a
later add. That gives `NothingLost`. `LastingEventsRotate` is inductive in the form of `LetsAhead`: a
level event other than a descriptor that reported since another one was last passed over stands behind
it, and neither removing an event nor appending one at the end changes the order of the rest. For
`NoMissedTrigger` the argument is a count: a trigger adds one report and wakes one waiter (or finds
nobody asleep), and a waiter that looks either takes at least one report with it as it leaves or leaves
none behind (`CollectTakes`). Nobody polls in a queue without descriptors (`PollsForDescriptors`), so
there a waiter that is not awake can be woken by the condition.

**`SubmissionQueues`** (`EventProofs`). `CompletedMeansFinished` is inductive with the statement that
what is kept out of order, or about to be marked, has been done too (`Marked`). `QueueZeroGoesFirst`
rests on `Placed` and `Order`: until a failure or a stop, a submission of queue 0 is pending, at the
worker, listed as uncommitted or finished, and the serials increase along these places; so the three
first members that `queue0Before` looks at speak for all of them. The list is what carries it: a
submission is appended to it before the worker lets go (`Defer`) and removed only by the step that
finishes it (`Commit`).

`QueueLemmas` holds the facts about lists and cardinalities that several proofs cite: what
appending a new element, dropping the first k and removing one do to the contents, to
injectivity and to an increasing order, and that counts move by one.

Proved as well are the type invariants of all modules of the code, and facts that the properties rest
on and that no run lists by itself: `WaitersAccounted`, `WaitersCounted`, `ParkedCounted`,
`WaitingWritersCounted`, `QueuesHoldWaiters` and `LinkedOnce`.

Only model-checked: the liveness properties (`DeleteReturns`, `EndedWaitReturns`,
`SubmitReturnsOrTakenBack`, `SubmittedCompletes`, `FreeMutexIsTaken`, `WriterGetsIn`, `NotifiedReturns`,
`SatisfiedReturns`, `WaitsEnd`, `CallsReturn`) and the fairness half of `ImplementsAddressWait`, because
liveness and `ENABLED` are out of the prover's reach. No safety property is left to TLC alone.

## What the code does that a reader may not expect

But for the first, none of these contradicts a document; they came up while modelling, and the models
include them. The two findings are described under [Runs](#runs).

- A submit may be held at a wait after all: the value satisfies the read that would have deferred the wait
  (`Apr/src/Apr.cpp:654`) and is changed back before the polling loop reads it (line 655). The loop ignores
  the deferral, so the submitter stays until the value comes again, and with it all others that submit to
  the same queue, since it holds `AprQueue::submit`. `docs/dev/ARCHITECTURE.md:70` says that the rest of such
  a buffer runs on a worker. `SubmitReturnsOrTakenBack` shows that a submit stays for no other reason.

- A reader-writer lock destroyed while it is held leaves `readLocksHeld` of its holders too high for
  good; such a thread passes waiting writers on every lock from then on. `WriterGetsIn` is checked
  without such destroys.
- A thread that holds a read lock and asks for the write lock of the same lock waits for itself;
  only a second write lock by the owner is refused.
- A set of an event flag that is followed by a clear before the woken waiter gets the mutex is lost
  on that waiter. `SatisfiedReturns` is stated for bits that stay set.
- An event flag for a single waiter refuses callers while its waiter, already released, has not come
  back; and the number a cancel reports includes waiters that were released before it.
- A stray `Unpark` may come after the mutex was destroyed and another one initialised at its
  address. `PthreadMutex` includes it; it is harmless.
- A thread that is cancelled after a post notified it, but before it has looked at the count, takes
  the notification with it: another waiter then sleeps beside a positive count until the next post.
  `NoMissedWakeup` of `GuestThreads` counts these in `dropped` and shows that there is no other way.
- The loop of `scePthreadCancel` touches its target until it has left its wait, and a concurrent join
  may free it meanwhile; the model leaves the two apart, as a guest must. While the target has
  cancellation disabled, or waits in a cleanup handler, the loop goes on for as long.
- A thread that returns from its entry function leaves its pushed cleanup handlers unrun; only an
  exit or a cancellation runs them.
- A level event of an equeue wakes one waiter when it is triggered and stays triggered; the others
  sleep on beside it. `NoMissedTrigger` is for queues of events that are reported once.
- A timer of a kqueue that is disabled, since it was added or by its dispatch report, loses the periods
  that passed meanwhile when it is added anew: only enabled timers are looked at before the restart.
- A timer added while several threads sleep is watched by the one that is notified; the others keep
  the deadlines they went to sleep with.
- An `EV_ADD` with `EV_DISABLE` is two critical sections, so a waiter may see the event enabled.
- On Windows a poll leaves its last millisecond to `m_cond` without another look at the events.
- When the last submit of a deferred completion fails, the submission is marked completed before the
  failure is reported (`Queues/QueueWorker.cpp:93`): a `WaitIdle` in between returns without it.
- Under a stop a submission that is held back is let go out of its order. If it has a packet, the check before
  the first one ends it (`Packets/PacketExecution.cpp:165`); an empty one is completed.
- `stop` stores 0 in `worker.queued` while a worker that is held back has yet to take one off: its
  counter wraps. Nothing reads it then, as only that of queue 0 is looked at, which is never held.

## Not modelled

Of the modelled components: the trace and result-pattern outputs; argument checks; attribute objects;
deadline arithmetic; the non-Windows and coarse paths of the parking lot, which use the host's timed
mutex; APC delivery outside `TimedCondition`; the sixty-four bit counters of APR in their two halves;
submission ids that wrap after 2^32; a destroy that races a call (`docs/dev/debt/libkernel.md` names
it). Of threads: stacks, names, priorities, affinities, thread-specific keys and once-routines. Of event
queues: the change list of kevent with its error reports, the `fflags` of user events, file watches
(which trigger an event as anything else does), timers of period zero. Of the GPU queues: rewind tails,
flips at the end of a pipe, what the GPU still owes for recorded work (`completionsPending`) and the
idle results that are stored meanwhile, deferred labels, and everything a packet does besides waiting,
writing a label at its end and flipping.

Other components: memory, modules, files and sockets, `libc`, audio, fonts, networking and the other
guest libraries are sequential bookkeeping or thin layers over the host. Fibers switch contexts in
assembly. The shader recompiler and the relinker are compilers: their correctness is about the
meaning of instructions, which state exploration does not reach. The GPU resource and pipeline
caches follow the host driver, and are by far the largest part of the repository. Video output's flip
queue is a candidate. `PROJECT.json` gives the reason for each.
