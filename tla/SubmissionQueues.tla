--------------------------- MODULE SubmissionQueues ---------------------------
(***************************************************************************)
(* The queues of the GPU driver (libSceAgcDriver/Execution/src/Driver): a  *)
(* guest's calls accept submissions and wait for them (Queues/Submission,  *)
(* Lifecycle), one worker thread per queue executes its queue in order     *)
(* (Queues/QueueWorker, Packets/PacketExecution), and queue 0 leaves the   *)
(* end of its submissions to the committer of its pipeline                 *)
(* (Draw/DrawPipeline).  A submission of another queue that waits for no   *)
(* label is held back until queue 0 is past what was received before it.   *)
(*                                                                         *)
(* A submission is what the driver's control tells apart: the label it     *)
(* waits for before its work, the labels it writes at the end of it, and   *)
(* whether it shows a frame.  What the GPU still owes for recorded work is *)
(* taken to have landed: completionsPending and SnapshotWriteOverlaps are  *)
(* false, and no idle results are stored.  The serial stands for received  *)
(* too: both number the accepted submissions in one critical section, and  *)
(* a suspension, which has no received, is told by its flag.  Rewind tails *)
(* are left out.                                                           *)
(*                                                                         *)
(* A critical section of the driver's mutex is one action.  Its            *)
(* notify_all follows the unlock; it is part of the action, since whoever  *)
(* goes to sleep in between has seen the new state.                        *)
(***************************************************************************)
EXTENDS Integers, SequencesExt

CONSTANTS
  Guests,     \* threads of the guest that call the driver
  Queues,     \* queues, each with its worker
  Queue0,     \* the graphics queue
  Labels,     \* addresses that are awaited and written
  NoLabel,    \* no label awaited
  Depth,      \* items the pipeline holds
  Programs    \* which calls each guest makes, in order: one is chosen

\* Ends of a call's fields: queue, waits, writes and flip describe a
\* submission; a "store" is the guest's own write to the label it writes.
Calls == [op: {"submit", "suspend", "idle", "stop", "store"}, queue: Queues,
          waits: Labels \cup {NoLabel}, writes: SUBSET Labels, flip: BOOLEAN]

Submissions == [serial: Nat, queue: Queues, suspend: BOOLEAN,
                waits: Labels \cup {NoLabel}, writes: SUBSET Labels, flip: BOOLEAN]

NoSubmission == [serial |-> 0, queue |-> Queue0, suspend |-> TRUE,
                 waits |-> NoLabel, writes |-> {}, flip |-> FALSE]

ASSUME DriverAssumption ==
  /\ Queue0 \in Queues /\ NoLabel \notin Labels
  /\ Guests \cap Queues = {} /\ Depth \in Nat \ {0}
  /\ Programs \subseteq [Guests -> Seq(Calls)]

VARIABLES
  todo,         \* per guest: the calls it has yet to finish
  gpc,          \* per guest: where it is in the first of them
  target,       \* per guest: what its WaitIdle waits for
  accepted, completed, completedOutOfOrder,
  pending,      \* per queue: QueueWorker::pending
  wpc,          \* per queue: where its worker is
  current,      \* per queue: the submission its worker is at
  queue0Uncommitted,
  items,        \* the pipeline's items: submissions whose end is deferred
  committing,   \* where the committer is
  committerStopped,
  flipsAhead, queue0AwaitsTitle,
  asleep,       \* who sleeps on changed
  failure, stopping,
  memory,       \* labels that hold the value waited for
  finished,     \* history: serials whose work has been done
  drawn         \* history: serials of queue 0 that are not suspensions

guestVars == <<todo, gpc, target>>
workerVars == <<wpc, current>>
countVars == <<completed, completedOutOfOrder>>
pipeVars == <<queue0Uncommitted, items, committing, committerStopped>>
flipVars == <<flipsAhead, queue0AwaitsTitle>>
endVars == <<failure, stopping>>
driverVars == <<guestVars, workerVars, countVars, pipeVars, flipVars, endVars,
          accepted, pending, asleep, memory, finished, drawn>>

\* Holding a submission and not done with it, running or on the way out.
Executing == {"running", "blocked", "working", "handing", "executed", "handedOver"}

DriverTypeOK ==
  /\ todo \in [Guests -> Seq(Calls)]
  /\ gpc \in [Guests -> {"ready", "flipHeld", "submitting", "idle", "joining"}]
  /\ target \in [Guests -> Nat]
  /\ accepted \in Nat /\ completed \in Nat /\ completedOutOfOrder \subseteq Nat
  /\ pending \in [Queues -> Seq(Submissions)]
  /\ wpc \in [Queues -> Executing \cup {"none", "looking", "held", "leaving", "failing", "ended"}]
  /\ current \in [Queues -> Submissions]
  /\ queue0Uncommitted \in Seq(Nat) /\ items \in Seq(Submissions)
  /\ committing \in {"waiting", "reporting", "popping"} /\ committerStopped \in BOOLEAN
  /\ flipsAhead \in Int /\ queue0AwaitsTitle \in BOOLEAN
  /\ asleep \subseteq Guests \cup Queues
  /\ failure \in BOOLEAN /\ stopping \in BOOLEAN
  /\ memory \subseteq Labels /\ finished \subseteq Nat /\ drawn \subseteq Nat

DriverInit ==
  /\ todo \in Programs
  /\ gpc = [g \in Guests |-> "ready"] /\ target = [g \in Guests |-> 0]
  /\ accepted = 0 /\ completed = 0 /\ completedOutOfOrder = {}
  /\ pending = [q \in Queues |-> <<>>]
  /\ wpc = [q \in Queues |-> "none"] /\ current = [q \in Queues |-> NoSubmission]
  /\ queue0Uncommitted = <<>> /\ items = <<>>
  /\ committing = "waiting" /\ committerStopped = FALSE
  /\ flipsAhead = 0 /\ queue0AwaitsTitle = FALSE
  /\ asleep = {} /\ failure = FALSE /\ stopping = FALSE
  /\ memory = {} /\ finished = {} /\ drawn = {}

--------------------------------------------------------------------------------
(* Counters and atomics of the driver that follow from where threads are. *)

idleWaiters == {g \in Guests : gpc[g] = "idle"}
flipHolders == {g \in Guests : gpc[g] = "flipHeld"}
orderHolders == {q \in Queues : wpc[q] = "held"}
runningWorkers == {q \in Queues : wpc[q] \in (Executing \ {"blocked"}) \cup {"leaving"}}
queue0Awaited == IF wpc[Queue0] = "blocked" THEN current[Queue0].waits ELSE NoLabel

waitFree(s) == s.queue # Queue0 /\ s.waits = NoLabel

\* A notify_all of changed: everyone asleep looks at its predicate again.
NotifyChanged == asleep' = {}
NotifyIf(condition) == asleep' = IF condition THEN {} ELSE asleep

\* Worker q no longer counts as running; the last one to stop notifies.
NotifyIfLast(q) == NotifyIf(runningWorkers = {q})

At(q, from, to) == wpc[q] = from /\ wpc' = [wpc EXCEPT ![q] = to]

--------------------------------------------------------------------------------
(* The guest's calls. *)

Call(g, op) == todo[g] # <<>> /\ Head(todo[g]).op = op
Return(g) == /\ gpc' = [gpc EXCEPT ![g] = "ready"]
             /\ todo' = [todo EXCEPT ![g] = Tail(@)]
Over == failure \/ stopping

holdsFlip(call) == call.queue = Queue0 /\ call.flip

flipReleased == Over \/ flipsAhead = 0 \/ queue0AwaitsTitle

\* holdFlipBehindWorker, from its call or out of a sleep.
HoldFlip(g) ==
  /\ Call(g, "submit") /\ holdsFlip(Head(todo[g]))
  /\ gpc[g] = "ready" \/ (gpc[g] = "flipHeld" /\ g \notin asleep)
  /\ gpc' = [gpc EXCEPT ![g] = IF flipReleased THEN "submitting" ELSE "flipHeld"]
  /\ asleep' = IF flipReleased THEN asleep ELSE asleep \cup {g}
  /\ UNCHANGED <<todo, target, workerVars, countVars, pipeVars, flipVars, endVars,
                 accepted, pending, memory, finished, drawn>>

\* Puts s at the end of its queue; its worker is started with the first one.
enqueue(s) ==
  /\ pending' = [pending EXCEPT ![s.queue] = Append(@, s)]
  /\ wpc' = [wpc EXCEPT ![s.queue] = IF @ = "none" THEN "looking" ELSE @]
  /\ accepted' = s.serial
  /\ NotifyChanged

Submit(g) ==
  LET call == Head(todo[g]) IN
  /\ Call(g, "submit") /\ ~Over
  /\ gpc[g] = IF holdsFlip(call) THEN "submitting" ELSE "ready"
  /\ enqueue([serial |-> accepted + 1, queue |-> call.queue, suspend |-> FALSE,
              waits |-> call.waits, writes |-> call.writes, flip |-> holdsFlip(call)])
  /\ flipsAhead' = IF holdsFlip(call) THEN flipsAhead + 1 ELSE flipsAhead
  /\ drawn' = IF call.queue = Queue0 THEN drawn \cup {accepted + 1} ELSE drawn
  /\ Return(g)
  /\ UNCHANGED <<target, current, countVars, pipeVars, queue0AwaitsTitle, endVars,
                 memory, finished>>

SuspendPoint(g) ==
  /\ Call(g, "suspend") /\ gpc[g] = "ready" /\ ~Over
  /\ enqueue([NoSubmission EXCEPT !.serial = accepted + 1])
  /\ Return(g)
  /\ UNCHANGED <<target, current, countVars, pipeVars, flipVars, endVars,
                 memory, finished, drawn>>

\* The driver has failed or stops: the call throws.
Refuse(g) ==
  /\ Over
  /\ \/ Call(g, "submit") /\ gpc[g] \in {"ready", "submitting"}
     \/ Call(g, "suspend") /\ gpc[g] = "ready"
  /\ Return(g)
  /\ UNCHANGED <<target, workerVars, countVars, pipeVars, flipVars, endVars,
                 accepted, pending, asleep, memory, finished, drawn>>

\* WaitIdle, from its call or out of a sleep.
WaitIdle(g) ==
  LET goal == IF gpc[g] = "ready" THEN accepted ELSE target[g] IN
  /\ Call(g, "idle")
  /\ gpc[g] = "ready" \/ (gpc[g] = "idle" /\ g \notin asleep)
  /\ \/ /\ Over \/ completed >= goal
        /\ Return(g) /\ target' = [target EXCEPT ![g] = 0]
        /\ UNCHANGED asleep
     \/ /\ ~Over /\ completed < goal
        /\ gpc' = [gpc EXCEPT ![g] = "idle"] /\ target' = [target EXCEPT ![g] = goal]
        /\ asleep' = asleep \cup {g}
        /\ UNCHANGED todo
  /\ UNCHANGED <<workerVars, countVars, pipeVars, flipVars, endVars,
                 accepted, pending, memory, finished, drawn>>

\* stop: what is pending is dropped, then the workers are joined.
Stop(g) ==
  /\ Call(g, "stop") /\ gpc[g] = "ready"
  /\ stopping' = TRUE
  /\ pending' = [q \in Queues |-> <<>>]
  /\ NotifyChanged
  /\ gpc' = [gpc EXCEPT ![g] = "joining"]
  /\ UNCHANGED <<todo, target, workerVars, countVars, pipeVars, flipVars, failure,
                 accepted, memory, finished, drawn>>

Joined(g) ==
  /\ Call(g, "stop") /\ gpc[g] = "joining"
  /\ \A q \in Queues : wpc[q] \in {"none", "ended"}
  /\ Return(g)
  /\ UNCHANGED <<target, workerVars, countVars, pipeVars, flipVars, endVars,
                 accepted, pending, asleep, memory, finished, drawn>>

\* The guest's own code writes a label.
Store(g) ==
  /\ Call(g, "store") /\ gpc[g] = "ready"
  /\ memory' = memory \cup Head(todo[g]).writes
  /\ Return(g)
  /\ UNCHANGED <<target, workerVars, countVars, pipeVars, flipVars, endVars,
                 accepted, pending, asleep, finished, drawn>>

Guest(g) ==
  \/ HoldFlip(g) \/ Submit(g) \/ SuspendPoint(g) \/ Refuse(g)
  \/ WaitIdle(g) \/ Stop(g) \/ Joined(g) \/ Store(g)

--------------------------------------------------------------------------------
(* Completion. *)

markLatest(serial) ==
  /\ completed' = IF serial > completed THEN serial ELSE completed
  /\ UNCHANGED completedOutOfOrder

\* completed moves on over every serial marked in a row.
markCompleted(serial) ==
  LET marked == completedOutOfOrder \cup {serial} IN
  \E last \in {completed} \cup marked :
    /\ last >= completed
    /\ (completed + 1)..last \subseteq marked /\ last + 1 \notin marked
    /\ completed' = last
    /\ completedOutOfOrder' = marked \ ((completed + 1)..last)

\* Someone waits for a completion; without one the notify_all is skipped.
Awaited == idleWaiters # {} \/ orderHolders # {}

ReportFailure ==
  /\ failure' = TRUE
  /\ pending' = [q \in Queues |-> <<>>]
  /\ NotifyChanged

--------------------------------------------------------------------------------
(* A queue's worker. *)

\* Something queue 0 received before this serial is not committed yet: what
\* its worker is at, the first in the pipeline, or the first still pending.
queue0Before(serial) ==
  \/ ~current[Queue0].suspend /\ current[Queue0].serial < serial
  \/ queue0Uncommitted # <<>> /\ Head(queue0Uncommitted) < serial
  \/ \E i \in DOMAIN pending[Queue0] :
       /\ ~pending[Queue0][i].suspend /\ pending[Queue0][i].serial < serial
       /\ \A j \in 1..(i - 1) : pending[Queue0][j].suspend

orderReleasedStrictly(q) == ~queue0Before(current[q].serial)

\* Held back no longer: queue 0 is past it, or queue 0 waits for a label that
\* this queue still has to write, or for one while nobody runs.
orderReleased(q) ==
  \/ ~queue0Before(current[q].serial)
  \/ /\ queue0Awaited # NoLabel
     /\ \/ \E s \in ToSet(pending[q]) \cup {current[q]} : queue0Awaited \in s.writes
        \/ runningWorkers = {}

Looking(q) == wpc[q] = "looking" /\ q \notin asleep

Sleep(q) ==
  /\ Looking(q) /\ ~Over /\ pending[q] = <<>>
  /\ asleep' = asleep \cup {q}
  /\ UNCHANGED <<guestVars, workerVars, countVars, pipeVars, flipVars, endVars,
                 accepted, pending, memory, finished, drawn>>

Take(q) ==
  /\ Looking(q) /\ ~Over /\ pending[q] # <<>>
  /\ LET s == Head(pending[q]) IN
       /\ current' = [current EXCEPT ![q] = s]
       /\ wpc' = [wpc EXCEPT ![q] = IF waitFree(s) THEN "held" ELSE "running"]
  /\ pending' = [pending EXCEPT ![q] = Tail(@)]
  /\ UNCHANGED <<guestVars, countVars, pipeVars, flipVars, endVars,
                 accepted, asleep, memory, finished, drawn>>

\* Polled every millisecond.  Under a stop it goes on to execute as well, which then
\* ends at its first packet if it has one.
Release(q) ==
  /\ ~failure
  /\ stopping \/ orderReleased(q)
  /\ At(q, "held", "running")
  /\ UNCHANGED <<guestVars, current, countVars, pipeVars, flipVars, endVars,
                 accepted, pending, asleep, memory, finished, drawn>>

\* The label q waits for is there, in memory or, for queue 0, among what its
\* own pipeline has still to write.
Satisfied(q) ==
  \/ current[q].waits \in memory \cup {NoLabel}
  \/ q = Queue0 /\ \E s \in ToSet(items) : current[q].waits \in s.writes

PassWait(q) ==
  /\ Satisfied(q)
  /\ At(q, "running", "working")
  /\ UNCHANGED <<guestVars, current, countVars, pipeVars, flipVars, endVars,
                 accepted, pending, asleep, memory, finished, drawn>>

\* Queue 0 drains its pipeline before it waits.
Block(q) ==
  /\ ~Satisfied(q) /\ (q = Queue0 => items = <<>>)
  /\ At(q, "running", "blocked")
  /\ NotifyIf(runningWorkers = {q} \/ orderHolders # {})
  /\ UNCHANGED <<guestVars, current, countVars, pipeVars, flipVars, endVars,
                 accepted, pending, memory, finished, drawn>>

\* Nothing but the guest can write the label: let a held flip through.
noteAwaitingTitle ==
  /\ wpc[Queue0] = "blocked" /\ flipHolders # {} /\ ~queue0AwaitsTitle
  /\ runningWorkers = {} /\ orderHolders = {}
  /\ queue0AwaitsTitle' = TRUE
  /\ NotifyChanged
  /\ UNCHANGED <<guestVars, workerVars, countVars, pipeVars, flipsAhead, endVars,
                 accepted, pending, memory, finished, drawn>>

Unblock(q) ==
  /\ current[q].waits \in memory
  /\ At(q, "blocked", "working")
  /\ queue0AwaitsTitle' = IF q = Queue0 THEN FALSE ELSE queue0AwaitsTitle
  /\ UNCHANGED <<guestVars, current, countVars, pipeVars, flipsAhead, endVars,
                 accepted, pending, asleep, memory, finished, drawn>>

\* releaseFlipHold at the flip.
ShowFlip(q) ==
  /\ wpc[q] = "working" /\ current[q].flip
  /\ current' = [current EXCEPT ![q].flip = FALSE]
  /\ flipsAhead' = flipsAhead - 1
  /\ NotifyIf(flipHolders # {})
  /\ UNCHANGED <<guestVars, wpc, countVars, pipeVars, queue0AwaitsTitle, endVars,
                 accepted, pending, memory, finished, drawn>>

\* The end of execute where nothing is deferred: a suspension, another queue,
\* or labels of queue 0 that wait for the GPU.  Queue 0 drains its pipeline.
Execute(q) ==
  /\ ~current[q].flip /\ (q = Queue0 => items = <<>>)
  /\ At(q, "working", "executed")
  /\ memory' = memory \cup current[q].writes
  /\ finished' = finished \cup {current[q].serial}
  /\ UNCHANGED <<guestVars, current, countVars, pipeVars, flipVars, endVars,
                 accepted, pending, asleep, drawn>>

DeferUnlisted ==
  /\ ~current[Queue0].flip /\ ~current[Queue0].suspend
  /\ At(Queue0, "working", "handing")
  /\ UNCHANGED <<guestVars, current, countVars, pipeVars, flipVars, endVars,
                 accepted, pending, asleep, memory, finished, drawn>>

\* deferCompletion: listed as uncommitted first, then handed to the pipeline.
Defer ==
  /\ ~current[Queue0].flip /\ ~current[Queue0].suspend
  /\ At(Queue0, "working", "handing")
  /\ queue0Uncommitted' = Append(queue0Uncommitted, current[Queue0].serial)
  /\ UNCHANGED <<guestVars, current, countVars, items, committing, committerStopped,
                 flipVars, endVars, accepted, pending, asleep, memory, finished, drawn>>

HandOver ==
  /\ ~committerStopped /\ Len(items) < Depth
  /\ At(Queue0, "handing", "handedOver")
  /\ items' = Append(items, current[Queue0])
  /\ UNCHANGED <<guestVars, current, countVars, queue0Uncommitted, committing,
                 committerStopped, flipVars, endVars, accepted, pending, asleep,
                 memory, finished, drawn>>

Complete(q) ==
  /\ ~failure /\ wpc[q] \in {"executed", "handedOver"}
  /\ wpc' = [wpc EXCEPT ![q] = "leaving"]
  /\ current' = [current EXCEPT ![q] = NoSubmission]
  /\ IF wpc[q] = "executed" THEN markCompleted(current[q].serial) ELSE UNCHANGED countVars
  /\ NotifyIf(Awaited)
  /\ UNCHANGED <<guestVars, pipeVars, flipVars, endVars, accepted, pending, memory,
                 finished, drawn>>

\* The end of the loop's body, where Running goes out of scope.
Leave(q) ==
  /\ At(q, "leaving", "looking")
  /\ NotifyIfLast(q)
  /\ UNCHANGED <<guestVars, current, countVars, pipeVars, flipVars, endVars,
                 accepted, pending, memory, finished, drawn>>

\* What the unwinding out of execute gives up: the flip and the running count.
Unwind(q) ==
  /\ flipsAhead' = IF current[q].flip THEN flipsAhead - 1 ELSE flipsAhead
  /\ queue0AwaitsTitle' = IF q = Queue0 THEN FALSE ELSE queue0AwaitsTitle
  /\ NotifyChanged

\* execute throws of its own; queue 0 drains its pipeline on the way out.
Fail(q) ==
  /\ wpc[q] \in {"running", "working"} /\ (q = Queue0 => items = <<>>)
  /\ wpc' = [wpc EXCEPT ![q] = "failing"]
  /\ Unwind(q)
  /\ UNCHANGED <<guestVars, current, countVars, pipeVars, endVars, accepted, pending,
                 memory, finished, drawn>>

\* A failure or a stop ends what executes packets, at the next of them or in a wait:
\* CheckFailure throws, and queue 0 drains its pipeline on the way out.
Interrupt(q) ==
  /\ Over /\ wpc[q] \in {"running", "working", "blocked"} /\ ~current[q].suspend
  /\ q = Queue0 => items = <<>>
  /\ wpc' = [wpc EXCEPT ![q] = IF failure THEN "failing" ELSE "ended"]
  /\ Unwind(q)
  /\ UNCHANGED <<guestVars, current, countVars, pipeVars, endVars, accepted, pending,
                 memory, finished, drawn>>

\* rethrowFailure, wherever the worker or its pipeline look at the failure.
Rethrow(q) ==
  /\ failure
  /\ \/ Looking(q) \/ wpc[q] \in {"held", "executed", "handedOver"}
     \/ wpc[q] = "handing" /\ committerStopped /\ items = <<>>
  /\ wpc' = [wpc EXCEPT ![q] = "failing"]
  /\ NotifyChanged
  /\ UNCHANGED <<guestVars, current, countVars, pipeVars, flipVars, endVars,
                 accepted, pending, memory, finished, drawn>>

Report(q) ==
  /\ At(q, "failing", "ended")
  /\ ReportFailure
  /\ UNCHANGED <<guestVars, current, countVars, pipeVars, flipVars, stopping,
                 accepted, memory, finished, drawn>>

End(q) ==
  /\ stopping /\ ~failure /\ q \notin asleep
  /\ At(q, "looking", "ended")
  /\ UNCHANGED <<guestVars, current, countVars, pipeVars, flipVars, endVars,
                 accepted, pending, asleep, memory, finished, drawn>>

Works(q) ==
  \/ Sleep(q) \/ Take(q) \/ Release(q) \/ PassWait(q) \/ Block(q) \/ Unblock(q)
  \/ ShowFlip(q) \/ Execute(q) \/ Complete(q) \/ Leave(q)
  \/ Interrupt(q) \/ Rethrow(q) \/ Report(q) \/ End(q)

DrawWorks == noteAwaitingTitle \/ Defer \/ HandOver

--------------------------------------------------------------------------------
(* The committer of queue 0's pipeline. *)

\* What the first submission writes, then completeSubmission.  If its last
\* submit fails it is marked all the same, before the failure is reported.
Commit ==
  /\ committing = "waiting" /\ items # <<>> /\ ~committerStopped
  /\ LET s == Head(items) IN
       /\ memory' = memory \cup s.writes
       /\ finished' = finished \cup {s.serial}
       /\ markCompleted(s.serial)
       /\ \/ \E i \in DOMAIN queue0Uncommitted :
               /\ queue0Uncommitted[i] = s.serial
               /\ queue0Uncommitted' = RemoveAt(queue0Uncommitted, i)
          \/ s.serial \notin ToSet(queue0Uncommitted) /\ UNCHANGED queue0Uncommitted
  /\ NotifyIf(Awaited)
  /\ committing' \in {"popping", "reporting"}
  /\ UNCHANGED <<guestVars, workerVars, items, committerStopped, flipVars, endVars,
                 accepted, pending, drawn>>

CommitFailed ==
  /\ committing = "reporting" /\ committing' = "popping"
  /\ committerStopped' = TRUE
  /\ ReportFailure
  /\ UNCHANGED <<guestVars, workerVars, countVars, queue0Uncommitted, items, flipVars,
                 stopping, accepted, memory, finished, drawn>>

\* After a failure the rest of the items is dropped.
Skip ==
  /\ committing = "waiting" /\ items # <<>> /\ committerStopped
  /\ committing' = "popping"
  /\ UNCHANGED <<guestVars, workerVars, countVars, queue0Uncommitted, items,
                 committerStopped, flipVars, endVars, accepted, pending, asleep,
                 memory, finished, drawn>>

Pop ==
  /\ committing = "popping" /\ items # <<>> /\ committing' = "waiting"
  /\ items' = Tail(items)
  /\ UNCHANGED <<guestVars, workerVars, countVars, queue0Uncommitted, committerStopped,
                 flipVars, endVars, accepted, pending, asleep, memory, finished, drawn>>

Commits == Commit \/ CommitFailed \/ Skip \/ Pop

--------------------------------------------------------------------------------
DriverNext ==
  \/ \E g \in Guests : Guest(g)
  \/ \E q \in Queues : Works(q) \/ Fail(q)
  \/ DrawWorks \/ Commits

DriverSpec == DriverInit /\ [][DriverNext]_driverVars

\* Threads of the guest, workers and the committer keep running; that a
\* submission fails is not owed to anyone.
FairDriverSpec ==
  /\ DriverSpec
  /\ \A g \in Guests : WF_driverVars(Guest(g))
  /\ \A q \in Queues : WF_driverVars(Works(q))
  /\ WF_driverVars(DrawWorks) /\ WF_driverVars(Commits)

--------------------------------------------------------------------------------
(* Properties. *)

\* completed, which WaitIdle compares with, never covers a submission whose
\* work is still ahead, in whatever order the queues and the committer mark
\* theirs.
CompletedMeansFinished == \A n \in 1..completed : n \in finished

\* A submission that waits for no label starts only when everything queue 0
\* received before it has been committed, through the worker and its pipeline
\* alike; unless queue 0 sits in a wait itself, or the driver stops.
QueueZeroGoesFirst ==
  [][\A q \in Queues :
       wpc[q] = "held" /\ wpc'[q] = "running" =>
         \/ stopping \/ wpc[Queue0] = "blocked"
         \/ \A n \in drawn : n < current[q].serial => n \in finished]_driverVars

\* Every call of the driver returns: a flip held behind another one, a
\* WaitIdle, a shutdown that joins the workers.  In particular no submission
\* is held behind queue 0 while queue 0 waits for what only it will write.
CallsReturn == \A g \in Guests : gpc[g] # "ready" ~> gpc[g] = "ready"
================================================================================
