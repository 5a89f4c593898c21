------------------------------- MODULE AprQueue -------------------------------
(***************************************************************************)
(* The APR and AMM command queues (libkernel/Apr/src/Apr.cpp): submission, *)
(* execution on the submitting thread up to a wait that is not satisfied,  *)
(* the worker thread that takes over from there, and the waits for an id.  *)
(*                                                                         *)
(* Locks.  AprQueue::submit is held for the whole of _submit, so it is the *)
(* set Submitting(q).  Each section under AprQueue::mutex is one action,   *)
(* and so is each command: commands run under no lock but submit.  A wait  *)
(* on the submitting thread is two actions, for _execute reads its value   *)
(* twice: once to defer and once to go on.  The notifications of `ready`   *)
(* and `done` come after the unlock and are actions of their own.          *)
(*                                                                         *)
(* A command is one of those that the order of execution can tell apart: a *)
(* read that names a file, a gather that continues it, a reset of that     *)
(* state, a write of a label and a wait for one.  Labels stand for the     *)
(* guest addresses and counters of WriteAddress, WriteCounter and their    *)
(* waits.  A write stores, ors, xors or adds, so it maps the old value to  *)
(* the new one; a wait compares, so it names the values that satisfy it.   *)
(***************************************************************************)
EXTENDS Integers, SequencesExt

CONSTANTS
  Threads,      \* guest threads
  Labels,       \* addresses and counters waited on
  Values,       \* what they may hold
  Files,        \* ids of resolved files
  NoFile,       \* an invalid ReadCursor
  Buffers,      \* command buffers the guest submits
  MaxSubmits    \* bound on submissions

Queues == {"apr", "amm"}

Commands == [op : {"read"}, arg : Files] \cup [op : {"gather", "reset"}, arg : {NoFile}]
              \cup [op : {"write"}, arg : Labels, becomes : [Values -> Values]]
              \cup [op : {"wait"}, arg : Labels, until : SUBSET Values]

\* The file the read cursor names after the first i commands of b.
ReadAfter(b, i) ==
  LET sets == {j \in 1..i : b[j].op \in {"read", "reset"}} IN
  IF sets = {} THEN NoFile ELSE b[Max(sets)].arg

\* A gather without a preceding read ends the process, so buffers have none.
ASSUME ConstantsAssumption ==
  /\ IsFiniteSet(Threads) /\ MaxSubmits \in Nat
  /\ NoFile \notin Files
  /\ \A b \in Buffers :
       /\ b \in Seq(Commands)
       /\ \A i \in DOMAIN b : b[i].op = "gather" => ReadAfter(b, i) # NoFile

VARIABLES
  submitted, completed, pending, running,   \* AprQueue, one per queue
  worker,      \* where the worker thread of the queue is
  work,        \* the Work it executes
  lastSubmit,  \* AmmState::lastSubmit
  labels,      \* the value each label holds
  pc, on, call,  \* per thread: where it is, its queue, and the Work (or id) of its call
  sleeping,    \* threads asleep on AprQueue::done
  issued, log, \* history: buffers by id, and the commands executed, per queue
  returned     \* history: ids handed to the guest by AmmSubmit

queueVars == <<submitted, completed, pending, running>>
threadVars == <<pc, on, call>>
history == <<issued, log, returned>>
vars == <<queueVars, worker, work, lastSubmit, labels, threadVars, sleeping, history>>

Work == [commands : Seq(Commands), cursor : Nat, read : Files \cup {NoFile}, id : 0..MaxSubmits]
NewWork(b, id) == [commands |-> b, cursor |-> 0, read |-> NoFile, id |-> id]
NoWork == NewWork(<<>>, 0)

InSubmit == {"execute", "waits", "enqueue", "notifyReady", "notifyDone"}
Submitting(q) == {t \in Threads : pc[t] \in InSubmit /\ on[t] = q}

TypeOK ==
  /\ submitted \in [Queues -> 0..MaxSubmits] /\ completed \in [Queues -> 0..MaxSubmits]
  /\ pending \in [Queues -> Seq(Work)] /\ running \in [Queues -> BOOLEAN]
  /\ worker \in [Queues -> {"looking", "asleep", "executing", "notifying"}]
  /\ work \in [Queues -> Work]
  /\ lastSubmit \in 0..MaxSubmits
  /\ labels \in [Labels -> Values]
  /\ pc \in [Threads -> InSubmit \cup {"idle", "storeLast", "waiting"}]
  /\ on \in [Threads -> Queues] /\ call \in [Threads -> Work]
  /\ sleeping \subseteq Threads
  /\ issued \in [Queues -> Seq(Buffers)] /\ returned \subseteq 1..MaxSubmits
  /\ log \in [Queues -> Seq((1..MaxSubmits) \X Nat \X (Files \cup {NoFile}))]

Init ==
  /\ submitted = [q \in Queues |-> 0] /\ completed = [q \in Queues |-> 0]
  /\ pending = [q \in Queues |-> <<>>] /\ running = [q \in Queues |-> FALSE]
  /\ worker = [q \in Queues |-> "looking"] /\ work = [q \in Queues |-> NoWork]
  /\ lastSubmit = 0 /\ labels \in [Labels -> Values]
  /\ pc = [t \in Threads |-> "idle"] /\ on = [t \in Threads |-> "apr"]
  /\ call = [t \in Threads |-> NoWork]
  /\ sleeping = {}
  /\ issued = [q \in Queues |-> <<>>] /\ log = [q \in Queues |-> <<>>] /\ returned = {}

-----------------------------------------------------------------------------
(* Executing commands *)

Done(w) == w.cursor = Len(w.commands)
Command(w) == w.commands[w.cursor + 1]

AtWait(w) == ~Done(w) /\ Command(w).op = "wait"

\* _execute stands at a wait that the value read now does not satisfy.
Blocked(w) == AtWait(w) /\ labels[Command(w).arg] \notin Command(w).until

\* The read cursor _readResolved and ResetGatherScatterState leave behind.
Resolved(w) == IF Command(w).op \in {"read", "reset"} THEN Command(w).arg ELSE w.read

Stepped(w) == [w EXCEPT !.cursor = @ + 1, !.read = Resolved(w)]

\* One command of w runs on queue q, on whichever thread.
Execute(q, w) ==
  /\ ~Done(w) /\ ~Blocked(w)
  /\ labels' = IF Command(w).op = "write"
                  THEN [labels EXCEPT ![Command(w).arg] = Command(w).becomes[@]] ELSE labels
  /\ log' = [log EXCEPT ![q] = Append(@, <<w.id, w.cursor + 1, Resolved(w)>>)]

Raised(q, id) == [completed EXCEPT ![q] = Max({@, id})]

\* The wait set `done.notify_all()` of queue q leaves.
NotifyDoneOne(q) ==
  sleeping \ {t \in sleeping : on[t] = q /\ t = CHOOSE u \in sleeping : on[u] = q}
NotifyDone(q) == {t \in sleeping : on[t] # q}

\* `ready.notify_one()` of queue q: only its worker waits on `ready`.
NotifyReadyNever(q) == worker
NotifyReady(q) == [worker EXCEPT ![q] = IF @ = "asleep" THEN "looking" ELSE @]

-----------------------------------------------------------------------------
(* Submitting: _submit, sceKernelAprSubmitCommandBuffer*, AmmSubmit *)

\* The worker has or will have work of this queue, so the buffer goes behind it.
QueuedPending(q) == pending[q] # <<>>
Queued(q) == running[q] \/ pending[q] # <<>>

SubmitFree(q) == Submitting(q) = {}

Submit(t, q, b) ==
  /\ pc[t] = "idle"
  /\ SubmitFree(q)
  /\ submitted["apr"] + submitted["amm"] < MaxSubmits
  /\ submitted' = [submitted EXCEPT ![q] = @ + 1]
  /\ pc' = [pc EXCEPT ![t] = IF Queued(q) THEN "enqueue" ELSE "execute"]
  /\ on' = [on EXCEPT ![t] = q]
  /\ call' = [call EXCEPT ![t] = NewWork(b, submitted[q] + 1)]
  /\ issued' = [issued EXCEPT ![q] = Append(@, b)]
  /\ UNCHANGED <<completed, pending, running, worker, work, lastSubmit, labels, sleeping,
                 log, returned>>

\* A wait has passed the read that defers and is at the polling loop behind it, which
\* ends only with a value that satisfies it; every other command runs at once.
ExecuteInline(t) ==
  /\ pc[t] = (IF AtWait(call[t]) THEN "waits" ELSE "execute")
  /\ Execute(on[t], call[t])
  /\ pc' = [pc EXCEPT ![t] = "execute"]
  /\ call' = [call EXCEPT ![t] = Stepped(@)]
  /\ UNCHANGED <<queueVars, worker, work, lastSubmit, on, sleeping, issued, returned>>

\* The first read of a wait finds it satisfied.
PassWait(t) ==
  /\ pc[t] = "execute"
  /\ AtWait(call[t]) /\ ~Blocked(call[t])
  /\ pc' = [pc EXCEPT ![t] = "waits"]
  /\ UNCHANGED <<queueVars, worker, work, lastSubmit, labels, on, call, sleeping, history>>

\* The first read finds the wait at the cursor not satisfied: _execute hands back where
\* it stopped, with the read cursor, for the worker to resume.
DefersNever(w) == FALSE
Defers(w) == Blocked(w)

DeferWait(t) ==
  /\ pc[t] = "execute"
  /\ Defers(call[t])
  /\ pc' = [pc EXCEPT ![t] = "enqueue"]
  /\ UNCHANGED <<queueVars, worker, work, lastSubmit, labels, on, call, sleeping, history>>

CompleteInline(t) ==
  /\ pc[t] = "execute"
  /\ Done(call[t])
  /\ completed' = Raised(on[t], call[t].id)
  /\ pc' = [pc EXCEPT ![t] = "notifyDone"]
  /\ UNCHANGED <<submitted, pending, running, worker, work, lastSubmit, labels, on, call,
                 sleeping, history>>

\* What the lambda `enqueue` pushes: a copy of the commands and the resume point.
EnqueuedWithoutRead(w) == [w EXCEPT !.read = NoFile]
Enqueued(w) == w

Enqueue(t) ==
  /\ pc[t] = "enqueue"
  /\ pending' = [pending EXCEPT ![on[t]] = Append(@, Enqueued(call[t]))]
  /\ pc' = [pc EXCEPT ![t] = "notifyReady"]
  /\ UNCHANGED <<submitted, completed, running, worker, work, lastSubmit, labels, on, call,
                 sleeping, history>>

\* _submit returns and releases AprQueue::submit; AmmSubmit has its store to do.
LeaveSubmit(t) ==
  /\ pc' = [pc EXCEPT ![t] = IF on[t] = "amm" THEN "storeLast" ELSE "idle"]
  /\ call' = [call EXCEPT ![t] = IF on[t] = "amm" THEN @ ELSE NoWork]
  /\ UNCHANGED on

NotifyReadyThenReturn(t) ==
  /\ pc[t] = "notifyReady"
  /\ worker' = NotifyReady(on[t])
  /\ LeaveSubmit(t)
  /\ UNCHANGED <<queueVars, work, lastSubmit, labels, sleeping, history>>

NotifyDoneThenReturn(t) ==
  /\ pc[t] = "notifyDone"
  /\ sleeping' = NotifyDone(on[t])
  /\ LeaveSubmit(t)
  /\ UNCHANGED <<queueVars, worker, work, lastSubmit, labels, history>>

\* AmmSubmit's store, under no lock, and its return.
StoreLast(t) ==
  /\ pc[t] = "storeLast"
  /\ lastSubmit' = call[t].id
  /\ returned' = returned \cup {call[t].id}
  /\ pc' = [pc EXCEPT ![t] = "idle"]
  /\ call' = [call EXCEPT ![t] = NoWork]
  /\ UNCHANGED <<queueVars, worker, work, labels, on, sleeping, issued, log>>

-----------------------------------------------------------------------------
(* The worker thread of _startQueue *)

WorkerSleeps(q) ==
  /\ worker[q] = "looking"
  /\ pending[q] = <<>>
  /\ worker' = [worker EXCEPT ![q] = "asleep"]
  /\ UNCHANGED <<queueVars, work, lastSubmit, labels, threadVars, sleeping, history>>

WorkerTakes(q) ==
  /\ worker[q] = "looking"
  /\ pending[q] # <<>>
  /\ work' = [work EXCEPT ![q] = Head(pending[q])]
  /\ pending' = [pending EXCEPT ![q] = Tail(@)]
  /\ running' = [running EXCEPT ![q] = TRUE]
  /\ worker' = [worker EXCEPT ![q] = "executing"]
  /\ UNCHANGED <<submitted, completed, lastSubmit, labels, threadVars, sleeping, history>>

\* Without `defer` a wait spins: the worker stays at it until it is satisfied.
WorkerExecutes(q) ==
  /\ worker[q] = "executing"
  /\ Execute(q, work[q])
  /\ work' = [work EXCEPT ![q] = Stepped(@)]
  /\ UNCHANGED <<queueVars, worker, lastSubmit, threadVars, sleeping, issued, returned>>

WorkerFinishes(q) ==
  /\ worker[q] = "executing"
  /\ Done(work[q])
  /\ running' = [running EXCEPT ![q] = FALSE]
  /\ completed' = Raised(q, work[q].id)
  /\ work' = [work EXCEPT ![q] = NoWork]
  /\ worker' = [worker EXCEPT ![q] = "notifying"]
  /\ UNCHANGED <<submitted, pending, lastSubmit, labels, threadVars, sleeping, history>>

WorkerNotifies(q) ==
  /\ worker[q] = "notifying"
  /\ sleeping' = NotifyDone(q)
  /\ worker' = [worker EXCEPT ![q] = "looking"]
  /\ UNCHANGED <<queueVars, work, lastSubmit, labels, threadVars, history>>

-----------------------------------------------------------------------------
(* Waiting for an id: _waitSubmitted *)

\* Its predicate.
Reached(q, id) == completed[q] >= id \/ id > submitted[q]

\* AmmSubmitted refuses an id it has not seen submitted.
Known(id) == id # 0 /\ id <= lastSubmit

\* sceKernelAprWaitCommandBuffer, or sceAmprAmmWaitCommandBufferCompletion of a known
\* id, that has to sleep; the other calls return at once and change nothing.
WaitSubmitted(t, q, id) ==
  /\ pc[t] = "idle"
  /\ q = "amm" => Known(id)
  /\ ~Reached(q, id)
  /\ pc' = [pc EXCEPT ![t] = "waiting"]
  /\ on' = [on EXCEPT ![t] = q]
  /\ call' = [call EXCEPT ![t] = NewWork(<<>>, id)]
  /\ sleeping' = sleeping \cup {t}
  /\ UNCHANGED <<queueVars, worker, work, lastSubmit, labels, history>>

WaitSleepsAgain(t) ==
  /\ pc[t] = "waiting" /\ t \notin sleeping
  /\ ~Reached(on[t], call[t].id)
  /\ sleeping' = sleeping \cup {t}
  /\ UNCHANGED <<queueVars, worker, work, lastSubmit, labels, threadVars, history>>

WaitReturns(t) ==
  /\ pc[t] = "waiting" /\ t \notin sleeping
  /\ Reached(on[t], call[t].id)
  /\ pc' = [pc EXCEPT ![t] = "idle"]
  /\ call' = [call EXCEPT ![t] = NoWork]
  /\ UNCHANGED <<queueVars, worker, work, lastSubmit, labels, on, sleeping, history>>

-----------------------------------------------------------------------------
(* The environment *)

\* A guest thread, or the GPU, stores to a label some buffer waits for.
GuestWrite(l, v) ==
  /\ labels[l] # v
  /\ labels' = [labels EXCEPT ![l] = v]
  /\ UNCHANGED <<queueVars, worker, work, lastSubmit, threadVars, sleeping, history>>

\* std::condition_variable wakes without a notification.
SpuriousReady(q) ==
  /\ worker[q] = "asleep"
  /\ worker' = [worker EXCEPT ![q] = "looking"]
  /\ UNCHANGED <<queueVars, work, lastSubmit, labels, threadVars, sleeping, history>>

SpuriousDone(t) ==
  /\ t \in sleeping
  /\ sleeping' = sleeping \ {t}
  /\ UNCHANGED <<queueVars, worker, work, lastSubmit, labels, threadVars, history>>

-----------------------------------------------------------------------------
SubmitStep(t) ==
  \/ ExecuteInline(t) \/ PassWait(t) \/ DeferWait(t) \/ CompleteInline(t)
  \/ Enqueue(t) \/ NotifyReadyThenReturn(t) \/ NotifyDoneThenReturn(t) \/ StoreLast(t)

WaitStep(t) == WaitSleepsAgain(t) \/ WaitReturns(t)

WorkerStep(q) ==
  WorkerSleeps(q) \/ WorkerTakes(q) \/ WorkerExecutes(q) \/ WorkerFinishes(q) \/ WorkerNotifies(q)

Next ==
  \/ \E t \in Threads, q \in Queues :
       \/ \E b \in Buffers : Submit(t, q, b)
       \/ \E id \in 1..MaxSubmits : WaitSubmitted(t, q, id)
  \/ \E t \in Threads : SubmitStep(t) \/ WaitStep(t) \/ SpuriousDone(t)
  \/ \E q \in Queues : WorkerStep(q) \/ SpuriousReady(q)
  \/ \E l \in Labels, v \in Values : GuestWrite(l, v)

Spec == Init /\ [][Next]_vars

\* The host schedules every thread that can run.  Nothing is assumed of the guest: it
\* need not submit, wait or write a label, and may change one back.
FairSpec ==
  /\ Spec
  /\ \A t \in Threads : WF_vars(SubmitStep(t)) /\ WF_vars(WaitStep(t))
  /\ \A q \in Queues : WF_vars(WorkerStep(q))

-----------------------------------------------------------------------------
(* Properties *)

\* What queue q has to execute for its first n submissions: the number of a buffer, the
\* number of a command in it, and the file its read cursor names from there.
Steps(q, n) ==
  UNION {{<<id, i, ReadAfter(issued[q][id], i)>> : i \in DOMAIN issued[q][id]} : id \in 1..n}

Precedes(s, r) == s[1] < r[1] \/ (s[1] = r[1] /\ s[2] < r[2])

\* Order is kept inside a queue whatever thread executes: the commands run so far are
\* the first of the submitted buffers end to end, each run once and in its turn, and a
\* gather resumed by the worker continues the read it followed in its buffer.
ExecutedInOrder ==
  \A q \in Queues :
    /\ ToSet(log[q]) \subseteq Steps(q, submitted[q])
    /\ \A j, k \in DOMAIN log[q] : j < k => Precedes(log[q][j], log[q][k])
    /\ \A s \in Steps(q, submitted[q]), r \in ToSet(log[q]) : Precedes(s, r) => s \in ToSet(log[q])

\* An id counts as completed only after the last command of its buffer and of every
\* buffer before it: what a wait for that id returning tells the guest.
CompletedWereExecuted ==
  \A q \in Queues : Steps(q, completed[q]) \subseteq ToSet(log[q])

\* No lost wake-up: a worker asleep with work pending, or a thread asleep for an id
\* that has completed, still has a notification coming.
NoMissedWakeup ==
  /\ \A q \in Queues :
       worker[q] = "asleep" /\ pending[q] # <<>> =>
         \E t \in Threads : pc[t] = "notifyReady" /\ on[t] = q
  /\ \A t \in sleeping :
       Reached(on[t], call[t].id) =>
         \/ worker[on[t]] = "notifying"
         \/ \E u \in Threads : pc[u] = "notifyDone" /\ on[u] = on[t]

\* docs/dev/ARCHITECTURE.md: a submit returns although its buffer waits for something
\* that never comes, so that a submitter that satisfies the wait afterwards does not hang.
\* The code keeps this but for one case: the value passed the read that would have
\* deferred the wait and was changed back before the polling loop read it again.
SubmitReturnsOrTakenBack ==
  \A t \in Threads :
    pc[t] \in InSubmit ~> (pc[t] = "idle" \/ (pc[t] = "waits" /\ Blocked(call[t])))

\* The next submission of queue q to complete is issued and its waits are satisfied.
NextReleased(q) ==
  LET id == completed[q] + 1
  IN  /\ id <= submitted[q]
      /\ \A i \in DOMAIN issued[q][id] :
           issued[q][id][i].op = "wait" => labels[issued[q][id][i].arg] \in issued[q][id][i].until

\* docs/dev/ARCHITECTURE.md: a wait in one queue does not hold up the other.  A queue
\* stands still only before a submission one of whose waits is not satisfied for good,
\* whatever the other queue is stuck at; all before it have completed.
SubmittedCompletes == \A q \in Queues : []<>~NextReleased(q)

\* docs/dev/ARCHITECTURE.md: the AMM wait blocks until the queue has completed the id.
\* That takes every id AmmSubmit handed to the guest to be one AmmSubmitted knows.
ReturnedIdsAreKnown == \A id \in returned : Known(id)
=============================================================================
