--------------------------- MODULE AprQueueProofs ---------------------------
(***************************************************************************)
(* For every set of threads, labels and files and whatever buffers the     *)
(* guest submits: the APR and AMM queues execute the commands of their     *)
(* buffers once and in order, whichever thread executes them, count an id  *)
(* as completed only after its last command, and lose no notification.     *)
(*                                                                         *)
(* The invariant has four parts.  Numbered says where a submitted buffer   *)
(* is: the ids above completed are, in order, those of the worker's work,  *)
(* of the pending works and of the call still in _submit.  Resumable says  *)
(* that each of these works stands where the log of its queue stands and   *)
(* holds the read cursor of that place; only the first can have started.   *)
(* Logged is the order itself, and Notified says who will wake a sleeper.  *)
(***************************************************************************)
EXTENDS AprQueue, QueueLemmas, TLAPS

\* A call in _submit whose buffer is neither completed nor pending.
InHand(t) == pc[t] \in {"execute", "waits", "enqueue"}

\* A call whose buffer runs on the submitting thread.
Inline(t) == pc[t] \in {"execute", "waits"}

\* The last id before those of the pending works.
Taken(q) == completed[q] + (IF running[q] THEN 1 ELSE 0)

Numbered(q) ==
  /\ running[q] <=> worker[q] = "executing"
  /\ Len(issued[q]) = submitted[q] /\ completed[q] <= submitted[q]
  /\ running[q] => work[q].id = completed[q] + 1
  /\ \A i \in DOMAIN pending[q] : pending[q][i].id = Taken(q) + i
  /\ \A t, u \in Submitting(q) : t = u
  /\ \A t \in Submitting(q) : InHand(t) => call[t].id = Taken(q) + Len(pending[q]) + 1
  /\ submitted[q] = Taken(q) + Len(pending[q])
                      + (IF \E t \in Submitting(q) : InHand(t) THEN 1 ELSE 0)
  /\ \A t \in Submitting(q) : Inline(t) => ~running[q] /\ pending[q] = <<>>

\* The works of queue q that are not completed.
Open(q) ==
  (IF running[q] THEN {work[q]} ELSE {}) \cup {pending[q][i] : i \in DOMAIN pending[q]}
    \cup {call[t] : t \in {u \in Submitting(q) : InHand(u)}}

\* w stands where the log does.
Placed(q, w) ==
  /\ w.id \in 1..submitted[q] /\ w.commands = issued[q][w.id]
  /\ w.cursor \in 0..Len(w.commands) /\ w.read = ReadAfter(w.commands, w.cursor)
  /\ w.cursor > 0 => w.id = completed[q] + 1
  /\ \A s \in ToSet(log[q]) : s[1] = w.id => s[2] <= w.cursor
  /\ \A i \in 1..w.cursor : <<w.id, i, ReadAfter(w.commands, i)>> \in ToSet(log[q])

Resumable(q) == \A w \in Open(q) : Placed(q, w)

Logged(q) ==
  /\ ToSet(log[q]) \subseteq Steps(q, submitted[q])
  /\ \A s \in ToSet(log[q]) : s[1] <= completed[q] + 1
  /\ \A j, k \in DOMAIN log[q] : j < k => Precedes(log[q][j], log[q][k])
  /\ \A s \in Steps(q, submitted[q]), r \in ToSet(log[q]) : Precedes(s, r) => s \in ToSet(log[q])
  /\ Steps(q, completed[q]) \subseteq ToSet(log[q])

Notified ==
  /\ \A t \in sleeping : pc[t] = "waiting"
  /\ NoMissedWakeup

InOrder(q) == Numbered(q) /\ Resumable(q) /\ Logged(q)

\* Ids start at one.
Identified == \A t \in Threads : pc[t] # "idle" => call[t].id # 0

IInv == TypeOK /\ Identified /\ (\A q \in Queues : InOrder(q)) /\ Notified

\* What a step may not touch of queue q to leave its works alone.
Same(q) ==
  /\ submitted'[q] = submitted[q] /\ completed'[q] = completed[q] /\ pending'[q] = pending[q]
  /\ running'[q] = running[q] /\ issued'[q] = issued[q] /\ log'[q] = log[q]
  /\ worker'[q] = "executing" <=> worker[q] = "executing"
  /\ running[q] => work'[q] = work[q]
  /\ Submitting(q)' \subseteq Submitting(q)
  /\ \A t \in Submitting(q) : InHand(t) => t \in Submitting(q)' /\ InHand(t)'
  /\ \A t \in Submitting(q)' :
       /\ InHand(t)' => InHand(t) /\ call'[t] = call[t]
       /\ Inline(t)' => Inline(t)

-----------------------------------------------------------------------------
(* Commands *)

\* The greater of two numbers.
LEMMA MaxOfTwo ==
  ASSUME NEW a \in Nat, NEW b \in Nat
  PROVE  a <= b => Max({a, b}) = b
<1>1. SUFFICES ASSUME a <= b PROVE Max({a, b}) = b
  OBVIOUS
<1>2. \A x \in {a, b} : (\A y \in {a, b} : x >= y) <=> x = b
  BY <1>1
<1>3. QED
  BY <1>2 DEF Max

\* The file of the read cursor changes with a read and a reset only.
LEMMA ReadAfterNext ==
  ASSUME NEW b \in Seq(Commands), NEW i \in Nat, i < Len(b)
  PROVE  /\ ReadAfter(b, 0) = NoFile
         /\ ReadAfter(b, i + 1) = IF b[i + 1].op \in {"read", "reset"} THEN b[i + 1].arg
                                                                     ELSE ReadAfter(b, i)
<1> DEFINE sets(n) == {j \in 1..n : b[j].op \in {"read", "reset"}}
<1>1. sets(0) = {}
  OBVIOUS
<1>2. CASE b[i + 1].op \in {"read", "reset"}
  <2>1. i + 1 \in sets(i + 1) /\ \A j \in sets(i + 1) : j \in Nat /\ j <= i + 1
    BY <1>2
  <2>2. \A x \in sets(i + 1) : (\A y \in sets(i + 1) : x >= y) <=> x = i + 1
    BY <2>1
  <2> HIDE DEF sets
  <2>3. Max(sets(i + 1)) = i + 1
    BY <2>1, <2>2 DEF Max
  <2>4. QED
    BY <1>1, <1>2, <2>1, <2>3 DEF ReadAfter, sets
<1>3. CASE b[i + 1].op \notin {"read", "reset"}
  <2>1. sets(i + 1) = sets(i)
    BY <1>3
  <2>2. QED
    BY <1>1, <1>3, <2>1 DEF ReadAfter
<1>4. QED
  BY <1>2, <1>3

\* What running one command does to a work.
LEMMA CommandRuns ==
  ASSUME NEW w \in Work, w.cursor < Len(w.commands)
  PROVE  /\ Command(w) \in Commands /\ Resolved(w) \in Files \cup {NoFile}
         /\ Command(w).op = "write" =>
              Command(w).arg \in Labels /\ Command(w).becomes \in [Values -> Values]
         /\ Stepped(w) \in Work /\ Stepped(w).id = w.id /\ Stepped(w).commands = w.commands
         /\ Stepped(w).cursor = w.cursor + 1 /\ Stepped(w).read = Resolved(w)
         /\ w.read = ReadAfter(w.commands, w.cursor) =>
              Resolved(w) = ReadAfter(w.commands, w.cursor + 1)
<1>1. w.commands \in Seq(Commands) /\ w.cursor \in Nat /\ w.cursor + 1 \in DOMAIN w.commands
  BY DEF Work
<1>2. Command(w) \in Commands
  BY <1>1 DEF Command
<1>3. /\ Command(w).op \in {"read", "reset"} => Command(w).arg \in Files \cup {NoFile}
      /\ Command(w).op = "write" =>
           Command(w).arg \in Labels /\ Command(w).becomes \in [Values -> Values]
  BY <1>2 DEF Commands
<1>4. Resolved(w) \in Files \cup {NoFile}
  BY <1>3 DEF Resolved, Work
<1>5. /\ Stepped(w) \in Work /\ Stepped(w).id = w.id /\ Stepped(w).commands = w.commands
      /\ Stepped(w).cursor = w.cursor + 1 /\ Stepped(w).read = Resolved(w)
  <2> DEFINE read == Resolved(w)
             moved == [w EXCEPT !.cursor = @ + 1]
  <2>1. /\ moved \in Work /\ moved.id = w.id /\ moved.commands = w.commands
        /\ moved.cursor = w.cursor + 1
    BY <1>1 DEF Work
  <2> HIDE DEF moved, read
  <2>2. LET v == [moved EXCEPT !.read = read]
        IN  /\ v \in Work /\ v.id = w.id /\ v.commands = w.commands
            /\ v.cursor = w.cursor + 1 /\ v.read = read
    BY <1>4, <2>1 DEF Work, read
  <2>3. Stepped(w) = [moved EXCEPT !.read = read]
    BY DEF Stepped, moved, read
  <2>4. QED
    BY <2>2, <2>3 DEF read
<1>6. w.read = ReadAfter(w.commands, w.cursor) => Resolved(w) = ReadAfter(w.commands, w.cursor + 1)
  BY <1>1, ReadAfterNext DEF Resolved, Command
<1>7. QED
  BY <1>2, <1>3, <1>4, <1>5, <1>6

\* The steps of the first n buffers of a queue.
LEMMA StepOfBuffer ==
  ASSUME NEW q \in Queues, NEW n \in Nat, NEW s
  PROVE  s \in Steps(q, n) <=> \E id \in 1..n : \E i \in DOMAIN issued[q][id] :
                                   s = <<id, i, ReadAfter(issued[q][id], i)>>
BY DEF Steps
-----------------------------------------------------------------------------
(* Types *)

\* A work that may run, on the thread that submitted it or on the worker.
LEMMA RunningWorks ==
  ASSUME IInv
  PROVE  /\ \A t \in Threads : InHand(t) =>
              /\ on[t] \in Queues /\ t \in Submitting(on[t])
              /\ call[t] \in Work /\ Placed(on[t], call[t])
         /\ \A q \in Queues : worker[q] = "executing" =>
              running[q] /\ work[q] \in Work /\ Placed(q, work[q])
BY DEF IInv, InOrder, Resumable, Open, InHand, Submitting, InSubmit, TypeOK, Numbered

\* Running a command keeps the types of the labels and the log.
LEMMA ExecuteTyped ==
  ASSUME TypeOK, NEW q \in Queues, NEW w \in Work, Placed(q, w), Execute(q, w)
  PROVE  /\ labels' \in [Labels -> Values]
         /\ log' \in [Queues -> Seq((1..MaxSubmits) \X Nat \X (Files \cup {NoFile}))]
         /\ Stepped(w) \in Work /\ w.cursor < Len(w.commands)
<1>1. w.cursor \in Nat /\ Len(w.commands) \in Nat /\ w.cursor < Len(w.commands)
  BY DEF Placed, Execute, Done, Work
<1>2. /\ Resolved(w) \in Files \cup {NoFile} /\ Stepped(w) \in Work
      /\ Command(w).op = "write" =>
           Command(w).arg \in Labels /\ Command(w).becomes \in [Values -> Values]
  BY <1>1, CommandRuns
<1>3. labels' \in [Labels -> Values]
  BY <1>2 DEF Execute, TypeOK
<1> DEFINE Entry == (1..MaxSubmits) \X Nat \X (Files \cup {NoFile})
<1>4. <<w.id, w.cursor + 1, Resolved(w)>> \in Entry
  <2>1. w.id \in 1..MaxSubmits
    BY ConstantsAssumption DEF Placed, TypeOK
  <2>2. QED
    BY <1>1, <1>2, <2>1
<1>5. log[q] \in Seq(Entry)
  BY DEF TypeOK
<1> HIDE DEF Entry
<1>6. Append(log[q], <<w.id, w.cursor + 1, Resolved(w)>>) \in Seq(Entry)
  BY <1>4, <1>5
<1>7. log' \in [Queues -> Seq(Entry)]
  BY <1>6 DEF Execute, TypeOK, Entry
<1>8. QED
  BY <1>1, <1>2, <1>3, <1>7 DEF Entry

\* Every step keeps the types.
LEMMA TypeKept ==
  ASSUME IInv, Next
  PROVE  TypeOK'
<1> USE ConstantsAssumption
<1>t. TypeOK
  BY DEF IInv
<1>1. ASSUME NEW t \in Threads, NEW q \in Queues, NEW b \in Buffers, Submit(t, q, b) PROVE TypeOK'
  <2>1. submitted[q] + 1 \in 0..MaxSubmits
    <3>1. submitted["apr"] \in Nat /\ submitted["amm"] \in Nat /\ q \in {"apr", "amm"}
      BY <1>t DEF TypeOK, Queues
    <3>2. submitted["apr"] + submitted["amm"] < MaxSubmits
      BY <1>1 DEF Submit
    <3>3. QED
      BY <3>1, <3>2
  <2>2. NewWork(b, submitted[q] + 1) \in Work
    BY <2>1 DEF NewWork, Work
  <2>3. Append(issued[q], b) \in Seq(Buffers)
    BY <1>t DEF TypeOK
  <2>4. QED
    BY <1>1, <1>t, <2>1, <2>2, <2>3 DEF Submit, TypeOK, InSubmit
<1>2. ASSUME NEW t \in Threads, NEW q \in Queues, NEW id \in 1..MaxSubmits, WaitSubmitted(t, q, id)
      PROVE  TypeOK'
  <2>1. NewWork(<<>>, id) \in Work
    BY DEF NewWork, Work
  <2>2. QED
    BY <1>2, <1>t, <2>1 DEF WaitSubmitted, TypeOK, InSubmit, queueVars, history
<1>3. NoWork \in Work
  BY DEF NoWork, NewWork, Work
<1> USE <1>t DEF queueVars, threadVars, history, InSubmit
<1>4. ASSUME NEW t \in Threads, ExecuteInline(t) PROVE TypeOK'
  <2>1. call[t] \in Work /\ Placed(on[t], call[t]) /\ on[t] \in Queues
    BY <1>4, RunningWorks DEF ExecuteInline, InHand
  <2>2. /\ labels' \in [Labels -> Values] /\ Stepped(call[t]) \in Work
        /\ log' \in [Queues -> Seq((1..MaxSubmits) \X Nat \X (Files \cup {NoFile}))]
    BY <1>4, <2>1, ExecuteTyped DEF ExecuteInline
  <2>3. QED
    BY <1>4, <2>2 DEF ExecuteInline, TypeOK
<1>5. ASSUME NEW q \in Queues, WorkerExecutes(q) PROVE TypeOK'
  <2>1. work[q] \in Work /\ Placed(q, work[q])
    BY <1>5, RunningWorks DEF WorkerExecutes
  <2>2. /\ labels' \in [Labels -> Values] /\ Stepped(work[q]) \in Work
        /\ log' \in [Queues -> Seq((1..MaxSubmits) \X Nat \X (Files \cup {NoFile}))]
    BY <1>5, <2>1, ExecuteTyped DEF WorkerExecutes
  <2>3. QED
    BY <1>5, <2>2 DEF WorkerExecutes, TypeOK
<1>6. ASSUME NEW q \in Queues, NEW w \in Work PROVE Raised(q, w.id) \in [Queues -> 0..MaxSubmits]
  <2>1. completed[q] \in 0..MaxSubmits /\ w.id \in 0..MaxSubmits
    BY DEF TypeOK, Work
  <2>2. Max({completed[q], w.id}) \in 0..MaxSubmits
    <3>1. Max({completed[q], w.id}) = w.id \/ Max({w.id, completed[q]}) = completed[q]
      BY <2>1, MaxOfTwo
    <3>2. {completed[q], w.id} = {w.id, completed[q]}
      OBVIOUS
    <3>3. QED
      BY <2>1, <3>1, <3>2
  <2>3. QED
    BY <2>2 DEF Raised, TypeOK
<1>7. ASSUME NEW t \in Threads, CompleteInline(t) PROVE TypeOK'
  <2>1. completed' \in [Queues -> 0..MaxSubmits]
    BY <1>6, <1>7 DEF CompleteInline, TypeOK
  <2>2. QED
    BY <1>7, <2>1 DEF CompleteInline, TypeOK
<1>8. ASSUME NEW t \in Threads, Enqueue(t) PROVE TypeOK'
  <2>1. on[t] \in Queues /\ Append(pending[on[t]], call[t]) \in Seq(Work)
    BY DEF TypeOK
  <2>2. pending' \in [Queues -> Seq(Work)]
    BY <1>8, <2>1 DEF Enqueue, Enqueued, TypeOK
  <2>3. QED
    BY <1>8, <2>2 DEF Enqueue, TypeOK
<1>9. ASSUME NEW t \in Threads, StoreLast(t) PROVE TypeOK'
  <2> DEFINE id == call[t].id
  <2>1. id \in 0..MaxSubmits /\ id # 0 /\ lastSubmit' = id /\ returned' = returned \cup {id}
    BY <1>9 DEF StoreLast, IInv, Identified, TypeOK, Work
  <2> HIDE DEF id
  <2>2. lastSubmit' \in 0..MaxSubmits /\ returned' \subseteq 1..MaxSubmits
    <3>1. id \in 1..MaxSubmits /\ returned \subseteq 1..MaxSubmits
      BY <2>1 DEF TypeOK
    <3>2. QED
      BY <2>1, <3>1
  <2>3. /\ call' \in [Threads -> Work]
        /\ pc' \in [Threads -> InSubmit \cup {"idle", "storeLast", "waiting"}]
    BY <1>3, <1>9 DEF StoreLast, TypeOK
  <2>4. UNCHANGED <<queueVars, worker, work, labels, on, sleeping, issued, log>>
    BY <1>9 DEF StoreLast
  <2>5. QED
    BY <2>2, <2>3, <2>4 DEF TypeOK
<1>10. ASSUME NEW t \in Threads,
              \/ PassWait(t) \/ DeferWait(t)
              \/ NotifyReadyThenReturn(t) \/ NotifyDoneThenReturn(t)
       PROVE  TypeOK'
  <2>1. CASE PassWait(t) \/ DeferWait(t)
    BY <2>1 DEF PassWait, DeferWait, TypeOK
  <2>2. CASE NotifyReadyThenReturn(t)
    BY <1>3, <2>2 DEF NotifyReadyThenReturn, LeaveSubmit, NotifyReady, TypeOK
  <2>3. CASE NotifyDoneThenReturn(t)
    BY <1>3, <2>3 DEF NotifyDoneThenReturn, LeaveSubmit, NotifyDone, TypeOK
  <2>4. QED
    BY <1>10, <2>1, <2>2, <2>3
<1>11. ASSUME NEW t \in Threads, WaitStep(t) \/ SpuriousDone(t) PROVE TypeOK'
  <2>1. CASE WaitSleepsAgain(t)
    BY <2>1 DEF WaitSleepsAgain, TypeOK
  <2>2. CASE WaitReturns(t)
    BY <1>3, <2>2 DEF WaitReturns, TypeOK
  <2>3. CASE SpuriousDone(t)
    BY <2>3 DEF SpuriousDone, TypeOK
  <2>4. QED
    BY <1>11, <2>1, <2>2, <2>3 DEF WaitStep
<1>12. ASSUME NEW q \in Queues, WorkerTakes(q) PROVE TypeOK'
  <2>1. pending[q] \in Seq(Work) /\ pending[q] # <<>>
    BY <1>12 DEF WorkerTakes, TypeOK
  <2>2. Head(pending[q]) \in Work /\ Tail(pending[q]) \in Seq(Work)
    BY <2>1, HeadTailProperties
  <2>3. QED
    BY <1>12, <2>2 DEF WorkerTakes, TypeOK
<1>13. ASSUME NEW q \in Queues, WorkerFinishes(q) PROVE TypeOK'
  <2>1. completed' \in [Queues -> 0..MaxSubmits]
    BY <1>6, <1>13 DEF WorkerFinishes, TypeOK
  <2>2. QED
    BY <1>3, <1>13, <2>1 DEF WorkerFinishes, TypeOK
<1>14. ASSUME NEW q \in Queues, WorkerSleeps(q) \/ WorkerNotifies(q) \/ SpuriousReady(q)
       PROVE  TypeOK'
  <2>1. CASE WorkerSleeps(q)
    BY <2>1 DEF WorkerSleeps, TypeOK
  <2>2. CASE WorkerNotifies(q)
    BY <2>2 DEF WorkerNotifies, NotifyDone, TypeOK
  <2>3. CASE SpuriousReady(q)
    BY <2>3 DEF SpuriousReady, TypeOK
  <2>4. QED
    BY <1>14, <2>1, <2>2, <2>3
<1>15. ASSUME NEW l \in Labels, NEW v \in Values, GuestWrite(l, v) PROVE TypeOK'
  BY <1>15 DEF GuestWrite, TypeOK
<1>16. QED
  BY <1>1, <1>2, <1>4, <1>5, <1>7, <1>8, <1>9, <1>10, <1>11, <1>12, <1>13, <1>14, <1>15
     DEF Next, SubmitStep, WorkerStep

-----------------------------------------------------------------------------
(* Order *)

\* The works of a queue and where the log stands stay when neither moves.
LEMMA PlacesKept ==
  ASSUME TypeOK, NEW q \in Queues, InOrder(q), Open(q)' \subseteq Open(q),
         submitted'[q] = submitted[q], completed'[q] = completed[q],
         issued'[q] = issued[q], log'[q] = log[q]
  PROVE  Resumable(q)' /\ Logged(q)'
<1>1. \A n : Steps(q, n)' = Steps(q, n)
  BY DEF Steps
<1>2. Logged(q)'
  BY <1>1 DEF InOrder, Logged, Precedes, Steps
<1>3. Resumable(q)'
  BY DEF InOrder, Resumable, Placed
<1>4. QED
  BY <1>2, <1>3

\* A step that leaves the works of q alone.
LEMMA SameInOrder ==
  ASSUME TypeOK, NEW q \in Queues, InOrder(q), Same(q)
  PROVE  InOrder(q)'
<1>1. Open(q)' \subseteq Open(q)
  BY DEF Same, Open
<1>2. Resumable(q)' /\ Logged(q)'
  BY <1>1, PlacesKept DEF Same
<1>3. Taken(q)' = Taken(q)
  BY DEF Same, Taken
<1>4. (\E t \in Submitting(q) : InHand(t))' <=> \E t \in Submitting(q) : InHand(t)
  BY DEF Same
<1>5. Numbered(q)'
  BY <1>3, <1>4 DEF InOrder, Numbered, Same
<1>6. QED
  BY <1>2, <1>5 DEF InOrder

\* Two works of a queue have two ids; the one that runs has the next to complete.
LEMMA OpenIds ==
  ASSUME TypeOK, NEW q \in Queues, InOrder(q)
  PROVE  /\ \A v \in Open(q) : v \in Work /\ v.id > completed[q]
         /\ running[q] => /\ work[q] \in Open(q) /\ work[q].id = completed[q] + 1
                          /\ Taken(q) = completed[q] + 1
         /\ \A i \in DOMAIN pending[q] : pending[q][i] \in Open(q) /\ pending[q][i].id > Taken(q)
         /\ \A t \in Submitting(q) : InHand(t) => call[t] \in Open(q) /\ call[t].id > Taken(q)
         /\ \A t \in Submitting(q) : Inline(t) =>
              Open(q) = {call[t]} /\ call[t].id = completed[q] + 1
<1>1. /\ completed[q] \in Nat /\ Taken(q) \in Nat /\ completed[q] <= Taken(q)
      /\ pending[q] \in Seq(Work) /\ Len(pending[q]) \in Nat
      /\ DOMAIN pending[q] = 1..Len(pending[q])
  BY DEF TypeOK, Taken
<1>2. running[q] => work[q] \in Work /\ work[q].id = completed[q] + 1 /\ Taken(q) = completed[q] + 1
  BY DEF TypeOK, InOrder, Numbered, Taken
<1>3. \A i \in DOMAIN pending[q] :
        pending[q][i] \in Work /\ pending[q][i].id = Taken(q) + i /\ pending[q][i].id > Taken(q)
  BY <1>1 DEF InOrder, Numbered
<1>4. \A t \in Submitting(q) : InHand(t) =>
        call[t] \in Work /\ call[t].id = Taken(q) + Len(pending[q]) + 1 /\ call[t].id > Taken(q)
  BY <1>1 DEF TypeOK, InOrder, Numbered, Submitting
<1>5. \A v \in Open(q) :
        /\ v \in Work /\ v.id > completed[q]
        /\ \/ running[q] /\ v = work[q]
           \/ v.id > Taken(q)
  BY <1>1, <1>2, <1>3, <1>4 DEF Open
<1>6. \A t \in Submitting(q) : Inline(t) =>
        Open(q) = {call[t]} /\ call[t].id = completed[q] + 1
  <2> SUFFICES ASSUME NEW t \in Submitting(q), Inline(t)
               PROVE  Open(q) = {call[t]} /\ call[t].id = completed[q] + 1
    OBVIOUS
  <2>1. ~running[q] /\ pending[q] = <<>> /\ {u \in Submitting(q) : InHand(u)} = {t}
    BY DEF InOrder, Numbered, Inline, InHand
  <2>2. Taken(q) = completed[q] /\ Len(pending[q]) = 0
    BY <1>1, <2>1 DEF Taken
  <2>3. QED
    BY <1>1, <1>4, <2>1, <2>2 DEF Open, Inline, InHand
<1>7. /\ running[q] => work[q] \in Open(q)
      /\ \A i \in DOMAIN pending[q] : pending[q][i] \in Open(q)
      /\ \A t \in Submitting(q) : InHand(t) => call[t] \in Open(q)
  BY DEF Open
<1>8. QED
  BY <1>2, <1>3, <1>4, <1>5, <1>6, <1>7

\* What stands with a work of a queue.
LEMMA OpenPlaced ==
  ASSUME TypeOK, NEW q \in Queues, InOrder(q), NEW w \in Open(q)
  PROVE  /\ w \in Work /\ Placed(q, w) /\ completed[q] \in Nat /\ submitted[q] \in Nat
         /\ w.id \in 1..submitted[q] /\ w.commands = issued[q][w.id] /\ w.commands \in Seq(Commands)
         /\ w.cursor \in Nat /\ Len(w.commands) \in Nat /\ w.cursor <= Len(w.commands)
<1>1. w \in Work /\ Placed(q, w)
  BY OpenIds DEF InOrder, Resumable
<1>2. w.commands \in Seq(Commands) /\ w.cursor \in Nat /\ Len(w.commands) \in Nat
  BY <1>1 DEF Work
<1>3. completed[q] \in Nat /\ submitted[q] \in Nat
  BY DEF TypeOK
<1>4. QED
  BY <1>1, <1>2, <1>3 DEF Placed

\* A command of the work that is next to complete runs: it is the next of its queue.
LEMMA ExecuteInOrder ==
  ASSUME TypeOK, TypeOK', NEW q \in Queues, InOrder(q),
         NEW w \in Open(q), w.id = completed[q] + 1, Execute(q, w),
         submitted'[q] = submitted[q], completed'[q] = completed[q], issued'[q] = issued[q],
         \A v \in Open(q)' : v = Stepped(w) \/ (v \in Open(q) /\ v.id # w.id)
  PROVE  Resumable(q)' /\ Logged(q)'
<1> DEFINE c == completed[q]
           k == w.cursor
           b == w.commands
           x == <<w.id, k + 1, Resolved(w)>>
<1>1. /\ w \in Work /\ Placed(q, w) /\ c \in Nat /\ submitted[q] \in Nat
      /\ c + 1 \in 1..submitted[q] /\ b = issued[q][c + 1] /\ b \in Seq(Commands)
      /\ k \in Nat /\ Len(b) \in Nat /\ k < Len(b)
  BY OpenPlaced DEF Execute, Done
<1>2. /\ Stepped(w) \in Work /\ Stepped(w).id = w.id /\ Stepped(w).commands = b
      /\ Stepped(w).cursor = k + 1 /\ Stepped(w).read = Resolved(w)
      /\ Resolved(w) = ReadAfter(b, k + 1)
  BY <1>1, CommandRuns DEF Placed
<1>3. x = <<c + 1, k + 1, ReadAfter(b, k + 1)>> /\ x[1] = c + 1 /\ x[2] = k + 1
  BY <1>2
<1>4. /\ log[q] \in Seq((1..MaxSubmits) \X Nat \X (Files \cup {NoFile}))
      /\ log'[q] = Append(log[q], x)
  BY DEF TypeOK, Execute
<1> HIDE DEF x, c, k, b
<1>5. /\ ToSet(log'[q]) = ToSet(log[q]) \cup {x} /\ Len(log[q]) \in Nat
      /\ DOMAIN log[q] = 1..Len(log[q]) /\ DOMAIN log'[q] = 1..(Len(log[q]) + 1)
      /\ log'[q][Len(log[q]) + 1] = x /\ \A j \in DOMAIN log[q] : log'[q][j] = log[q][j]
  <2>1. /\ Len(log'[q]) = Len(log[q]) + 1 /\ DOMAIN log[q] = 1..Len(log[q])
        /\ DOMAIN log'[q] = 1..Len(log'[q]) /\ Len(log[q]) \in Nat
        /\ log'[q][Len(log[q]) + 1] = x /\ \A j \in DOMAIN log[q] : log'[q][j] = log[q][j]
    BY <1>4
  <2>2. Len(log[q]) + 1 \in DOMAIN log'[q]
    BY <2>1
  <2>3. \A j \in DOMAIN log'[q] : j \in DOMAIN log[q] \/ j = Len(log[q]) + 1
    BY <2>1
  <2>4. DOMAIN log[q] \subseteq DOMAIN log'[q]
    BY <2>1
  <2>5. ToSet(log'[q]) = ToSet(log[q]) \cup {x}
    BY <2>1, <2>2, <2>3, <2>4 DEF ToSet
  <2>6. QED
    BY <2>1, <2>5
<1>6. \A n : Steps(q, n)' = Steps(q, n)
  BY DEF Steps
<1>7. \A s \in ToSet(log[q]) :
        s[1] \in Nat /\ s[2] \in Nat /\ s[1] <= c + 1 /\ (s[1] = c + 1 => s[2] <= k)
  <2>1. \A s \in ToSet(log[q]) : s \in (1..MaxSubmits) \X Nat \X (Files \cup {NoFile})
    BY <1>4 DEF ToSet
  <2>2. \A s \in ToSet(log[q]) : s[1] \in 1..MaxSubmits /\ s[2] \in Nat
    BY <2>1
  <2>3. \A s \in ToSet(log[q]) : s[1] <= c + 1 /\ (s[1] = w.id => s[2] <= k)
    BY <1>1 DEF InOrder, Logged, Placed, c, k
  <2>4. QED
    BY <2>2, <2>3 DEF c
<1>8. \A s \in ToSet(log[q]) : Precedes(s, x)
  BY <1>1, <1>3, <1>7 DEF Precedes
<1>9. x \in Steps(q, submitted[q])
  <2>1. k + 1 \in DOMAIN issued[q][c + 1]
    BY <1>1
  <2>2. QED
    BY <1>1, <1>3, <2>1, StepOfBuffer
<1>10. ASSUME NEW s \in Steps(q, submitted[q]), Precedes(s, x) PROVE s \in ToSet(log[q])
  <2>0. PICK id \in 1..submitted[q] :
          \E i \in DOMAIN issued[q][id] : s = <<id, i, ReadAfter(issued[q][id], i)>>
    BY <1>1, StepOfBuffer
  <2>1. PICK i \in DOMAIN issued[q][id] : s = <<id, i, ReadAfter(issued[q][id], i)>>
    BY <2>0
  <2>2. s[1] = id /\ s[2] = i
    BY <2>1
  <2>3. CASE id < c + 1
    <3>1. id \in 1..c
      BY <1>1, <2>3
    <3>2. s \in Steps(q, c)
      BY <1>1, <2>1, <3>1, StepOfBuffer
    <3>3. QED
      BY <3>2 DEF InOrder, Logged, c
  <2>4. CASE id = c + 1 /\ i < k + 1
    <3>1. i \in 1..k
      BY <1>1, <2>1, <2>4
    <3>2. <<w.id, i, ReadAfter(b, i)>> \in ToSet(log[q])
      BY <1>1, <3>1 DEF Placed, k, b
    <3>3. QED
      BY <1>1, <2>1, <2>4, <3>2 DEF c
  <2>5. QED
    BY <1>3, <1>10, <2>2, <2>3, <2>4 DEF Precedes
<1>11. Logged(q)'
  <2>1. ToSet(log'[q]) \subseteq Steps(q, submitted[q])
    BY <1>5, <1>9 DEF InOrder, Logged
  <2>2. \A s \in ToSet(log'[q]) : s[1] <= c + 1
    BY <1>1, <1>3, <1>5, <1>7
  <2>3. ASSUME NEW i \in DOMAIN log'[q], NEW j \in DOMAIN log'[q], i < j
        PROVE  Precedes(log'[q][i], log'[q][j])
    <3>1. i \in DOMAIN log[q] /\ log'[q][i] = log[q][i] /\ log[q][i] \in ToSet(log[q])
      BY <1>5, <2>3 DEF ToSet
    <3>2. CASE j = Len(log[q]) + 1
      BY <1>5, <1>8, <3>1, <3>2
    <3>3. CASE j # Len(log[q]) + 1
      BY <1>5, <2>3, <3>1, <3>3 DEF InOrder, Logged
    <3>4. QED
      BY <3>2, <3>3
  <2>4. \A s \in Steps(q, submitted[q]), r \in ToSet(log'[q]) :
          Precedes(s, r) => s \in ToSet(log'[q])
    BY <1>5, <1>10 DEF InOrder, Logged
  <2>5. Steps(q, completed[q]) \subseteq ToSet(log'[q])
    BY <1>5 DEF InOrder, Logged
  <2>6. QED
    BY <1>6, <2>1, <2>2, <2>3, <2>4, <2>5 DEF Logged, Precedes, c
<1>12. ASSUME NEW v \in Open(q)' PROVE Placed(q, v)'
  <2>1. CASE v = Stepped(w)
    <3>1. \A s \in ToSet(log'[q]) : s[1] = w.id => s[2] <= k + 1
      BY <1>1, <1>3, <1>5, <1>7 DEF c
    <3>2. ASSUME NEW i \in 1..(k + 1) PROVE <<w.id, i, ReadAfter(b, i)>> \in ToSet(log'[q])
      <4>1. CASE i = k + 1
        BY <1>3, <1>5, <4>1 DEF c
      <4>2. CASE i # k + 1
        <5>1. i \in 1..k
          BY <1>1, <4>2
        <5>2. QED
          BY <1>1, <1>5, <5>1 DEF Placed, k, b
      <4>3. QED
        BY <4>1, <4>2
    <3>3. k + 1 \in 0..Len(b)
      BY <1>1
    <3>4. QED
      BY <1>1, <1>2, <2>1, <3>1, <3>2, <3>3 DEF Placed, b, c
  <2>2. CASE v \in Open(q) /\ v.id # w.id
    <3>1. Placed(q, v)
      BY <2>2 DEF InOrder, Resumable
    <3>2. x[1] # v.id
      BY <1>3, <2>2 DEF c
    <3>3. QED
      BY <1>5, <3>1, <3>2 DEF Placed
  <2>3. QED
    BY <2>1, <2>2
<1>13. QED
  BY <1>11, <1>12 DEF Resumable

\* The work that is next to complete has run its last command.
LEMMA CompleteInOrder ==
  ASSUME TypeOK, NEW q \in Queues, InOrder(q),
         NEW w \in Open(q), w.id = completed[q] + 1, Done(w), completed' = Raised(q, w.id),
         submitted'[q] = submitted[q], issued'[q] = issued[q], log'[q] = log[q],
         \A v \in Open(q)' : v \in Open(q) /\ v.id # w.id
  PROVE  Resumable(q)' /\ Logged(q)' /\ completed'[q] = completed[q] + 1
<1> DEFINE c == completed[q]
<1>1. /\ w \in Work /\ Placed(q, w) /\ c \in Nat /\ submitted[q] \in Nat
      /\ w.commands = issued[q][c + 1] /\ w.commands \in Seq(Commands)
      /\ w.cursor = Len(w.commands)
  BY OpenPlaced DEF Done
<1>2. completed'[q] = c + 1
  <2>1. Max({c, c + 1}) = c + 1
    BY <1>1, MaxOfTwo
  <2>2. QED
    BY <2>1 DEF Raised, TypeOK
<1>3. \A n : Steps(q, n)' = Steps(q, n)
  BY DEF Steps
<1> HIDE DEF c
<1>4. ASSUME NEW s \in Steps(q, c + 1) PROVE s \in ToSet(log[q])
  <2>0. PICK id \in 1..(c + 1) :
          \E i \in DOMAIN issued[q][id] : s = <<id, i, ReadAfter(issued[q][id], i)>>
    BY <1>1, StepOfBuffer
  <2>1. PICK i \in DOMAIN issued[q][id] : s = <<id, i, ReadAfter(issued[q][id], i)>>
    BY <2>0
  <2>2. CASE id = c + 1
    <3>1. i \in 1..w.cursor
      BY <1>1, <2>1, <2>2
    <3>2. QED
      BY <1>1, <2>1, <2>2, <3>1 DEF Placed, c
  <2>3. CASE id # c + 1
    <3>1. id \in 1..c
      BY <1>1, <2>3
    <3>2. s \in Steps(q, c)
      BY <1>1, <2>1, <3>1, StepOfBuffer
    <3>3. QED
      BY <3>2 DEF InOrder, Logged, c
  <2>4. QED
    BY <2>2, <2>3
<1>5. \A s \in ToSet(log[q]) : s[1] \in Nat /\ s[1] <= c + 1
  <2>1. log[q] \in Seq((1..MaxSubmits) \X Nat \X (Files \cup {NoFile}))
    BY DEF TypeOK
  <2>2. \A s \in ToSet(log[q]) : s \in (1..MaxSubmits) \X Nat \X (Files \cup {NoFile})
    BY <2>1 DEF ToSet
  <2>3. \A s \in ToSet(log[q]) : s[1] \in 1..MaxSubmits
    BY <2>2
  <2>4. QED
    BY <2>3 DEF InOrder, Logged, c
<1>6. Logged(q)'
  <2>1. \A s \in ToSet(log[q]) : s[1] <= (c + 1) + 1
    BY <1>1, <1>5
  <2>2. Steps(q, c + 1) \subseteq ToSet(log[q])
    BY <1>4
  <2>3. QED
    BY <1>2, <1>3, <2>1, <2>2 DEF InOrder, Logged, Precedes
<1>7. ASSUME NEW v \in Open(q)' PROVE Placed(q, v)'
  <2>1. Placed(q, v) /\ v.id # c + 1 /\ v \in Work
    BY OpenIds DEF InOrder, Resumable, c
  <2>2. v.cursor = 0
    BY <2>1 DEF Placed, c, Work
  <2>3. QED
    BY <2>1, <2>2 DEF Placed
<1>8. QED
  BY <1>2, <1>6, <1>7 DEF Resumable, c

-----------------------------------------------------------------------------
(* The steps of a queue *)

\* A submitted buffer goes behind every work there is.
LEMMA SubmitInOrder ==
  ASSUME TypeOK, NEW q \in Queues, InOrder(q), NEW t \in Threads, NEW b \in Buffers,
         Submit(t, q, b), NEW n, n = submitted[q]
  PROVE  InOrder(q)'
<1> DEFINE w == NewWork(b, n + 1)
<1>1. /\ n \in Nat /\ completed[q] \in Nat /\ completed[q] <= n /\ Len(issued[q]) = n
      /\ issued[q] \in Seq(Buffers)
  BY DEF TypeOK, InOrder, Numbered
<1>2. /\ Submitting(q) = {} /\ Submitting(q)' = {t} /\ InHand(t)' /\ call'[t] = w
      /\ Inline(t)' => ~running[q] /\ pending[q] = <<>>
  BY DEF Submit, SubmitFree, Submitting, InHand, Inline, InSubmit, Queued, TypeOK
<1>3. /\ submitted'[q] = n + 1 /\ completed' = completed /\ pending' = pending
      /\ running' = running /\ worker' = worker /\ work' = work /\ log' = log
      /\ issued'[q] = Append(issued[q], b)
  BY DEF Submit, TypeOK
<1>4. w.id = n + 1 /\ w.commands = b /\ w.cursor = 0 /\ w.read = NoFile
  BY DEF NewWork
<1> HIDE DEF w
<1>5. /\ Len(issued'[q]) = n + 1 /\ issued'[q][n + 1] = b
      /\ \A id \in 1..n : issued'[q][id] = issued[q][id]
  BY <1>1, <1>3
<1>6. Taken(q)' = Taken(q) /\ Taken(q) \in Nat /\ Len(pending[q]) \in Nat
  BY <1>1, <1>3 DEF Taken, TypeOK
<1>7. n = Taken(q) + Len(pending[q])
  BY <1>2, <1>6 DEF InOrder, Numbered
<1>8. Numbered(q)'
  BY <1>1, <1>2, <1>3, <1>4, <1>5, <1>6, <1>7 DEF InOrder, Numbered
<1>9. Open(q)' = Open(q) \cup {w}
  BY <1>2, <1>3 DEF Open
<1>10. ASSUME NEW m \in 0..n PROVE Steps(q, m)' = Steps(q, m)
  <2>1. \A id \in 1..m : issued'[q][id] = issued[q][id]
    BY <1>1, <1>5
  <2>2. QED
    BY <2>1 DEF Steps
<1>11. ASSUME NEW s \in Steps(q, n + 1)' PROVE s \in Steps(q, n) \/ s[1] = n + 1
  <2>1. PICK id \in 1..(n + 1) : \E i \in DOMAIN issued'[q][id] :
          s = <<id, i, ReadAfter(issued'[q][id], i)>>
    BY DEF Steps
  <2>2. CASE id = n + 1
    BY <2>1, <2>2
  <2>3. CASE id # n + 1
    <3>1. id \in 1..n
      BY <1>1, <2>3
    <3>2. QED
      BY <1>1, <1>5, <2>1, <3>1, StepOfBuffer
  <2>4. QED
    BY <2>2, <2>3
<1>12. \A s \in ToSet(log[q]) : s[1] \in Nat /\ s[1] <= n /\ s \in Steps(q, n)
  <2>1. ASSUME NEW s \in ToSet(log[q]) PROVE s \in Steps(q, n)
    BY DEF InOrder, Logged
  <2>2. ASSUME NEW s \in Steps(q, n) PROVE s[1] \in 1..n
    BY <1>1, StepOfBuffer
  <2>3. QED
    BY <1>1, <2>1, <2>2
<1>13. Logged(q)'
  <2>1. Steps(q, n) \subseteq Steps(q, n + 1)'
    <3>1. Steps(q, n)' = Steps(q, n)
      BY <1>1, <1>10
    <3>2. 1..n \subseteq 1..(n + 1)
      BY <1>1
    <3>3. Steps(q, n)' \subseteq Steps(q, n + 1)'
      BY <3>2 DEF Steps
    <3>4. QED
      BY <3>1, <3>3
  <2>2. ToSet(log[q]) \subseteq Steps(q, n + 1)'
    BY <1>12, <2>1
  <2>3. \A s \in Steps(q, n + 1)', r \in ToSet(log[q]) : Precedes(s, r) => s \in ToSet(log[q])
    <3>1. ASSUME NEW s \in Steps(q, n + 1)', NEW r \in ToSet(log[q]), Precedes(s, r), s[1] = n + 1
          PROVE  FALSE
      BY <1>1, <1>12, <3>1 DEF Precedes
    <3>2. QED
      BY <1>11, <3>1 DEF InOrder, Logged
  <2>4. Steps(q, completed[q])' \subseteq ToSet(log[q])
    BY <1>1, <1>3, <1>10 DEF InOrder, Logged
  <2>5. QED
    BY <1>3, <2>2, <2>3, <2>4 DEF InOrder, Logged, Precedes
<1>14. ASSUME NEW v \in Open(q)' PROVE Placed(q, v)'
  <2>1. CASE v \in Open(q)
    <3>1. Placed(q, v) /\ v.id \in 1..n
      BY <2>1 DEF InOrder, Resumable, Placed
    <3>2. v.id \in 1..(n + 1)
      BY <1>1, <3>1
    <3>3. QED
      BY <1>3, <1>5, <3>1, <3>2 DEF Placed
  <2>2. CASE v = w
    <3>1. ReadAfter(b, 0) = NoFile
      BY DEF ReadAfter
    <3>2. \A s \in ToSet(log[q]) : s[1] # n + 1
      BY <1>1, <1>12
    <3>3. n + 1 \in 1..(n + 1) /\ 0 \in 0..Len(b)
      BY <1>1, ConstantsAssumption
    <3>4. QED
      BY <1>3, <1>4, <1>5, <2>2, <3>1, <3>2, <3>3 DEF Placed
  <2>3. QED
    BY <1>9, <2>1, <2>2
<1>15. QED
  BY <1>8, <1>13, <1>14 DEF InOrder, Resumable

\* A command runs on the thread that submits its buffer.
LEMMA ExecuteInlineInOrder ==
  ASSUME TypeOK, TypeOK', NEW t \in Threads, NEW q, q = on[t], InOrder(q), ExecuteInline(t)
  PROVE  InOrder(q)'
<1> DEFINE w == call[t]
<1>1. /\ q \in Queues /\ t \in Submitting(q) /\ Inline(t) /\ InHand(t)
      /\ Submitting(q) = {t} /\ ~running[q] /\ pending[q] = <<>>
  BY DEF ExecuteInline, Submitting, InSubmit, Inline, InHand, TypeOK, InOrder, Numbered
<1>2. /\ Open(q) = {w} /\ w.id = completed[q] + 1 /\ w.cursor < Len(w.commands) /\ w \in Work
  BY <1>1, OpenIds, OpenPlaced DEF ExecuteInline, Execute, Done
<1>3. /\ UNCHANGED <<submitted, completed, pending, running, worker, work, on, issued>>
      /\ pc'[t] = "execute" /\ \A u \in Threads \ {t} : pc'[u] = pc[u]
      /\ call'[t] = Stepped(w) /\ Execute(q, w)
  BY DEF ExecuteInline, queueVars, TypeOK
<1> HIDE DEF w
<1>4. Submitting(q)' = {t} /\ InHand(t)' /\ Taken(q)' = Taken(q)
  BY <1>1, <1>3 DEF Submitting, InSubmit, InHand, Taken
<1>5. Stepped(w).id = w.id
  BY <1>2, CommandRuns
<1>6. Open(q)' = {Stepped(w)}
  BY <1>1, <1>3, <1>4 DEF Open
<1>7. Resumable(q)' /\ Logged(q)'
  BY <1>1, <1>2, <1>3, <1>6, ExecuteInOrder
<1>8. Numbered(q)'
  BY <1>1, <1>3, <1>4, <1>5 DEF InOrder, Numbered, w
<1>9. QED
  BY <1>7, <1>8 DEF InOrder

\* A command runs on the worker, with other works behind.
LEMMA WorkerExecutesInOrder ==
  ASSUME TypeOK, TypeOK', NEW q \in Queues, InOrder(q), WorkerExecutes(q)
  PROVE  InOrder(q)'
<1> DEFINE w == work[q]
<1>1. running[q] /\ w \in Open(q) /\ w.id = completed[q] + 1 /\ Taken(q) = completed[q] + 1
  BY OpenIds DEF WorkerExecutes, InOrder, Numbered
<1>2. w.cursor < Len(w.commands) /\ w \in Work
  BY <1>1, OpenPlaced DEF WorkerExecutes, Execute, Done
<1>3. /\ UNCHANGED <<submitted, completed, pending, running, worker, pc, on, call, issued>>
      /\ work'[q] = Stepped(w) /\ Execute(q, w)
  BY DEF WorkerExecutes, queueVars, threadVars, TypeOK
<1> HIDE DEF w
<1>4. /\ Submitting(q)' = Submitting(q) /\ Taken(q)' = Taken(q)
      /\ \A t \in Threads : (InHand(t)' <=> InHand(t)) /\ (Inline(t)' <=> Inline(t))
  BY <1>3 DEF Submitting, InHand, Inline, Taken
<1>5. Stepped(w).id = w.id
  BY <1>2, CommandRuns
<1>6. \A v \in Open(q)' : v = Stepped(w) \/ (v \in Open(q) /\ v.id > Taken(q))
  BY <1>1, <1>3, <1>4, OpenIds DEF Open, Submitting
<1>7. \A v \in Open(q)' : v = Stepped(w) \/ (v \in Open(q) /\ v.id # w.id)
  <2>1. completed[q] \in Nat
    BY DEF TypeOK
  <2>2. QED
    BY <1>1, <1>6, <2>1
<1>8. Resumable(q)' /\ Logged(q)'
  BY <1>1, <1>3, <1>7, ExecuteInOrder
<1>9. Numbered(q)'
  BY <1>1, <1>3, <1>4, <1>5 DEF InOrder, Numbered, Submitting, w
<1>10. QED
  BY <1>8, <1>9 DEF InOrder

\* A buffer that ran to its end on the thread that submits it.
LEMMA CompleteInlineInOrder ==
  ASSUME TypeOK, NEW t \in Threads, NEW q, q = on[t], InOrder(q), CompleteInline(t)
  PROVE  InOrder(q)'
<1> DEFINE w == call[t]
<1>1. /\ q \in Queues /\ t \in Submitting(q) /\ Inline(t) /\ InHand(t)
      /\ Submitting(q) = {t} /\ ~running[q] /\ pending[q] = <<>>
  BY DEF CompleteInline, Submitting, InSubmit, Inline, InHand, TypeOK, InOrder, Numbered
<1>2. Open(q) = {w} /\ w.id = completed[q] + 1
  BY <1>1, OpenIds
<1>3. /\ UNCHANGED <<submitted, pending, running, worker, work, on, call, issued, log>>
      /\ pc'[t] = "notifyDone" /\ Done(w) /\ completed' = Raised(q, w.id)
      /\ \A u \in Threads \ {t} : pc'[u] = pc[u]
  BY DEF CompleteInline, history, TypeOK
<1> HIDE DEF w
<1>4. Submitting(q)' = {t} /\ ~InHand(t)'
  BY <1>1, <1>3 DEF Submitting, InHand, InSubmit
<1>5. Open(q)' = {}
  BY <1>1, <1>3, <1>4 DEF Open
<1>6. Resumable(q)' /\ Logged(q)' /\ completed'[q] = completed[q] + 1
  BY <1>1, <1>2, <1>3, <1>5, CompleteInOrder
<1>7. Numbered(q)'
  <2>1. submitted[q] = completed[q] + 1 /\ completed[q] \in Nat
    BY <1>1 DEF InOrder, Numbered, Taken, TypeOK
  <2>2. Taken(q)' = completed[q] + 1 /\ Len(pending[q]) = 0
    BY <1>1, <1>3, <1>6, <2>1 DEF Taken
  <2>3. QED
    BY <1>1, <1>3, <1>4, <1>6, <2>1, <2>2 DEF InOrder, Numbered, InHand
<1>8. QED
  BY <1>6, <1>7 DEF InOrder

\* A work that ran to its end on the worker.
LEMMA WorkerFinishesInOrder ==
  ASSUME TypeOK, NEW q \in Queues, InOrder(q), WorkerFinishes(q)
  PROVE  InOrder(q)'
<1> DEFINE w == work[q]
<1>1. /\ running[q] /\ w \in Open(q) /\ w.id = completed[q] + 1 /\ Taken(q) = completed[q] + 1
      /\ completed[q] \in Nat
  <2>1. running[q] /\ completed[q] \in Nat
    BY DEF WorkerFinishes, InOrder, Numbered, TypeOK
  <2>2. QED
    BY <2>1, OpenIds
<1>2. /\ UNCHANGED <<submitted, pending, pc, on, call, issued, log>>
      /\ ~running'[q] /\ worker'[q] = "notifying" /\ Done(w) /\ completed' = Raised(q, w.id)
  BY DEF WorkerFinishes, history, threadVars, TypeOK
<1> HIDE DEF w
<1>3. /\ Submitting(q)' = Submitting(q)
      /\ \A t \in Threads : (InHand(t)' <=> InHand(t)) /\ (Inline(t)' <=> Inline(t))
  BY <1>2 DEF Submitting, InHand, Inline
<1>4. \A v \in Open(q)' : v \in Open(q) /\ v.id > Taken(q)
  BY <1>2, <1>3, OpenIds DEF Open, Submitting
<1>5. \A v \in Open(q)' : v \in Open(q) /\ v.id # w.id
  BY <1>1, <1>4
<1>6. Resumable(q)' /\ Logged(q)' /\ completed'[q] = completed[q] + 1
  BY <1>1, <1>2, <1>5, CompleteInOrder
<1>7. Taken(q)' = Taken(q)
  BY <1>1, <1>2, <1>6 DEF Taken
<1>8. completed'[q] <= submitted[q]
  BY <1>1, <1>6, OpenPlaced
<1>9. Numbered(q)'
  BY <1>2, <1>3, <1>7, <1>8 DEF InOrder, Numbered, Submitting
<1>10. QED
  BY <1>6, <1>9 DEF InOrder

\* The buffer in hand becomes the last of the pending works.
LEMMA EnqueueInOrder ==
  ASSUME TypeOK, NEW t \in Threads, NEW q, q = on[t], InOrder(q), Enqueue(t)
  PROVE  InOrder(q)'
<1> DEFINE w == call[t]
           p == pending[q]
<1>1. /\ q \in Queues /\ t \in Submitting(q) /\ InHand(t) /\ Submitting(q) = {t}
      /\ w.id = Taken(q) + Len(p) + 1 /\ w \in Work /\ p \in Seq(Work)
  BY DEF Enqueue, Submitting, InSubmit, InHand, TypeOK, InOrder, Numbered
<1>2. /\ UNCHANGED <<submitted, completed, running, worker, work, on, call, issued, log>>
      /\ pc'[t] = "notifyReady" /\ pending'[q] = Append(p, w)
      /\ \A u \in Threads \ {t} : pc'[u] = pc[u]
  BY <1>1 DEF Enqueue, Enqueued, history, TypeOK
<1>3. Submitting(q)' = {t} /\ ~InHand(t)' /\ ~Inline(t)' /\ Taken(q)' = Taken(q)
  BY <1>1, <1>2 DEF Submitting, InHand, Inline, InSubmit, Taken
<1> HIDE DEF w
<1>4. /\ Len(p) \in Nat /\ DOMAIN p = 1..Len(p) /\ Len(pending'[q]) = Len(p) + 1
      /\ DOMAIN pending'[q] = 1..(Len(p) + 1) /\ pending'[q][Len(p) + 1] = w
      /\ \A i \in DOMAIN p : pending'[q][i] = p[i]
  BY <1>1, <1>2
<1>5. \A i \in DOMAIN pending'[q] : i \in DOMAIN p \/ (i = Len(p) + 1 /\ pending'[q][i] = w)
  BY <1>4
<1>6. Open(q)' \subseteq Open(q)
  BY <1>1, <1>2, <1>3, <1>4, <1>5 DEF Open, w
<1>7. Resumable(q)' /\ Logged(q)'
  BY <1>1, <1>2, <1>6, PlacesKept
<1>8. Numbered(q)'
  <2>1. Taken(q) \in Nat
    BY <1>1 DEF Taken, TypeOK
  <2>2. submitted[q] = Taken(q) + (Len(p) + 1)
    BY <1>1, <1>4, <2>1 DEF InOrder, Numbered
  <2>3. ASSUME NEW i \in DOMAIN pending'[q] PROVE pending'[q][i].id = Taken(q) + i
    <3>1. CASE i \in DOMAIN p
      BY <1>4, <3>1 DEF InOrder, Numbered
    <3>2. CASE i = Len(p) + 1 /\ pending'[q][i] = w
      <4>1. Taken(q) + Len(p) + 1 = Taken(q) + (Len(p) + 1)
        BY <1>4, <2>1
      <4>2. QED
        BY <1>1, <3>2, <4>1
    <3>3. QED
      BY <1>5, <3>1, <3>2
  <2>4. QED
    BY <1>1, <1>2, <1>3, <1>4, <2>1, <2>2, <2>3 DEF InOrder, Numbered
<1>9. QED
  BY <1>7, <1>8 DEF InOrder

\* The first pending work becomes the worker's.
LEMMA WorkerTakesInOrder ==
  ASSUME TypeOK, NEW q \in Queues, InOrder(q), WorkerTakes(q)
  PROVE  InOrder(q)'
<1> DEFINE p == pending[q]
<1>1. p \in Seq(Work) /\ p # <<>> /\ ~running[q] /\ completed[q] \in Nat
  BY DEF WorkerTakes, TypeOK, InOrder, Numbered
<1>2. /\ UNCHANGED <<submitted, completed, pc, on, call, issued, log>>
      /\ running'[q] /\ worker'[q] = "executing" /\ work'[q] = Head(p) /\ pending'[q] = Tail(p)
  BY DEF WorkerTakes, threadVars, history, TypeOK
<1>3. Submitting(q)' = Submitting(q) /\ \A t \in Threads : InHand(t)' <=> InHand(t)
  BY <1>2 DEF Submitting, InHand
<1>4. /\ Len(p) \in Nat /\ DOMAIN p = 1..Len(p) /\ Len(p) >= 1 /\ work'[q] = p[1]
      /\ Len(pending'[q]) = Len(p) - 1 /\ DOMAIN pending'[q] = 1..(Len(p) - 1)
      /\ \A i \in 1..(Len(p) - 1) : pending'[q][i] = p[i + 1]
  BY <1>1, <1>2
<1>5. /\ 1 \in DOMAIN p
      /\ \A i \in DOMAIN pending'[q] : i + 1 \in DOMAIN p /\ pending'[q][i] = p[i + 1]
  BY <1>4
<1>6. Open(q)' \subseteq Open(q)
  BY <1>2, <1>3, <1>4, <1>5 DEF Open, Submitting
<1>7. Resumable(q)' /\ Logged(q)'
  BY <1>2, <1>6, PlacesKept
<1>8. Numbered(q)'
  <2>1. Taken(q) = completed[q] /\ Taken(q)' = completed[q] + 1
    BY <1>1, <1>2 DEF Taken
  <2>2. work'[q].id = completed[q] + 1
    BY <1>4, <1>5, <2>1 DEF InOrder, Numbered
  <2>3. ASSUME NEW i \in DOMAIN pending'[q] PROVE pending'[q][i].id = Taken(q)' + i
    <3>1. pending'[q][i].id = completed[q] + (i + 1)
      BY <1>5, <2>1 DEF InOrder, Numbered
    <3>2. i \in Nat
      BY <1>4
    <3>3. QED
      BY <1>1, <2>1, <3>1, <3>2
  <2>4. Taken(q)' + Len(pending'[q]) = Taken(q) + Len(p)
    <3>1. \A m, n \in Nat : (m + 1) + (n - 1) = m + n
      OBVIOUS
    <3>2. QED
      BY <1>1, <1>4, <2>1, <3>1
  <2>5. \A t \in Submitting(q) : ~Inline(t)
    BY <1>1 DEF InOrder, Numbered
  <2>6. QED
    BY <1>2, <1>3, <2>2, <2>3, <2>4, <2>5 DEF InOrder, Numbered, Inline, Submitting
<1>9. QED
  BY <1>7, <1>8 DEF InOrder

\* A step of a thread or of a worker leaves the other queue alone, and one that only
\* waits or notifies leaves both.
LEMMA OtherQueueSame ==
  ASSUME TypeOK, NEW q \in Queues
  PROVE  /\ \A t \in Threads, p \in Queues \ {q}, b \in Buffers : Submit(t, p, b) => Same(q)
         /\ \A t \in Threads : on[t] # q /\ SubmitStep(t) => Same(q)
         /\ \A p \in Queues \ {q} : WorkerStep(p) => Same(q)
<1> USE DEF TypeOK, Same, Submitting, InSubmit, Inline, InHand, queueVars, threadVars, history
<1>1. ASSUME NEW t \in Threads, NEW p \in Queues \ {q}, NEW b \in Buffers, Submit(t, p, b)
      PROVE  Same(q)
  BY <1>1 DEF Submit
<1>2. ASSUME NEW t \in Threads, on[t] # q, SubmitStep(t) PROVE Same(q)
  <2>1. CASE ExecuteInline(t)
    BY <1>2, <2>1 DEF ExecuteInline, Execute
  <2>2. CASE PassWait(t) \/ DeferWait(t) \/ CompleteInline(t)
    BY <1>2, <2>2 DEF PassWait, DeferWait, CompleteInline, Raised
  <2>3. CASE Enqueue(t) \/ StoreLast(t)
    BY <1>2, <2>3 DEF Enqueue, StoreLast
  <2>4. CASE NotifyReadyThenReturn(t) \/ NotifyDoneThenReturn(t)
    BY <1>2, <2>4 DEF NotifyReadyThenReturn, NotifyReady, NotifyDoneThenReturn, LeaveSubmit
  <2>5. QED
    BY <1>2, <2>1, <2>2, <2>3, <2>4 DEF SubmitStep
<1>3. ASSUME NEW p \in Queues \ {q}, WorkerStep(p) PROVE Same(q)
  BY <1>3 DEF WorkerStep, WorkerSleeps, WorkerTakes, WorkerExecutes, Execute, WorkerFinishes,
       Raised, WorkerNotifies
<1>4. QED
  BY <1>1, <1>2, <1>3

LEMMA QuietSame ==
  ASSUME TypeOK, NEW q \in Queues
  PROVE  /\ \A t \in Threads :
              PassWait(t) \/ DeferWait(t) \/ NotifyReadyThenReturn(t)
                \/ NotifyDoneThenReturn(t) \/ StoreLast(t) => Same(q)
         /\ \A t \in Threads : WaitStep(t) \/ SpuriousDone(t) => Same(q)
         /\ \A t \in Threads, p \in Queues, id \in 1..MaxSubmits :
              WaitSubmitted(t, p, id) => Same(q)
         /\ \A p \in Queues : WorkerSleeps(p) \/ WorkerNotifies(p) \/ SpuriousReady(p) => Same(q)
         /\ \A l \in Labels, v \in Values : GuestWrite(l, v) => Same(q)
<1> USE DEF TypeOK, Same, Submitting, InSubmit, Inline, InHand, queueVars, threadVars, history
<1>1. ASSUME NEW t \in Threads,
             PassWait(t) \/ DeferWait(t) \/ NotifyReadyThenReturn(t)
               \/ NotifyDoneThenReturn(t) \/ StoreLast(t)
      PROVE  Same(q)
  BY <1>1 DEF PassWait, DeferWait, NotifyReadyThenReturn, NotifyReady, NotifyDoneThenReturn, LeaveSubmit,
       StoreLast
<1>2. ASSUME NEW t \in Threads, WaitStep(t) \/ SpuriousDone(t) PROVE Same(q)
  BY <1>2 DEF WaitStep, WaitSleepsAgain, WaitReturns, SpuriousDone
<1>3. ASSUME NEW t \in Threads, NEW p \in Queues, NEW id \in 1..MaxSubmits, WaitSubmitted(t, p, id)
      PROVE  Same(q)
  BY <1>3 DEF WaitSubmitted
<1>4. ASSUME NEW p \in Queues, WorkerSleeps(p) \/ WorkerNotifies(p) \/ SpuriousReady(p)
      PROVE  Same(q)
  BY <1>4 DEF WorkerSleeps, WorkerNotifies, SpuriousReady
<1>5. ASSUME NEW l \in Labels, NEW v \in Values, GuestWrite(l, v) PROVE Same(q)
  BY <1>5 DEF GuestWrite
<1>6. QED
  BY <1>1, <1>2, <1>3, <1>4, <1>5

\* Every step keeps the order of every queue.
LEMMA InOrderKept ==
  ASSUME IInv, Next, TypeOK', NEW q \in Queues
  PROVE  InOrder(q)'
<1>t. TypeOK /\ InOrder(q)
  BY DEF IInv
<1>1. ASSUME Same(q) PROVE InOrder(q)'
  BY <1>t, <1>1, SameInOrder
<1>2. ASSUME NEW t \in Threads, NEW p \in Queues, NEW b \in Buffers, Submit(t, p, b)
      PROVE  InOrder(q)'
  BY <1>t, <1>1, <1>2, OtherQueueSame, SubmitInOrder
<1>3. ASSUME NEW t \in Threads, SubmitStep(t) PROVE InOrder(q)'
  <2>1. CASE on[t] # q
    BY <1>t, <1>1, <1>3, <2>1, OtherQueueSame
  <2>2. CASE on[t] = q /\ ExecuteInline(t)
    BY <1>t, <2>2, ExecuteInlineInOrder
  <2>3. CASE on[t] = q /\ CompleteInline(t)
    BY <1>t, <2>3, CompleteInlineInOrder
  <2>4. CASE on[t] = q /\ Enqueue(t)
    BY <1>t, <2>4, EnqueueInOrder
  <2>5. CASE PassWait(t) \/ DeferWait(t) \/ NotifyReadyThenReturn(t)
               \/ NotifyDoneThenReturn(t) \/ StoreLast(t)
    BY <1>t, <1>1, <2>5, QuietSame
  <2>6. QED
    BY <1>3, <2>1, <2>2, <2>3, <2>4, <2>5 DEF SubmitStep
<1>4. ASSUME NEW p \in Queues, WorkerStep(p) PROVE InOrder(q)'
  <2>1. CASE p # q
    BY <1>t, <1>1, <1>4, <2>1, OtherQueueSame
  <2>2. CASE WorkerTakes(q)
    BY <1>t, <2>2, WorkerTakesInOrder
  <2>3. CASE WorkerExecutes(q)
    BY <1>t, <2>3, WorkerExecutesInOrder
  <2>4. CASE WorkerFinishes(q)
    BY <1>t, <2>4, WorkerFinishesInOrder
  <2>5. CASE WorkerSleeps(p) \/ WorkerNotifies(p)
    BY <1>t, <1>1, <2>5, QuietSame
  <2>6. QED
    BY <1>4, <2>1, <2>2, <2>3, <2>4, <2>5 DEF WorkerStep
<1>5. ASSUME NEW t \in Threads, WaitStep(t) \/ SpuriousDone(t) PROVE InOrder(q)'
  BY <1>t, <1>1, <1>5, QuietSame
<1>6. ASSUME NEW t \in Threads, NEW p \in Queues, NEW id \in 1..MaxSubmits, WaitSubmitted(t, p, id)
      PROVE  InOrder(q)'
  BY <1>t, <1>1, <1>6, QuietSame
<1>7. ASSUME NEW p \in Queues, SpuriousReady(p) PROVE InOrder(q)'
  BY <1>t, <1>1, <1>7, QuietSame
<1>8. ASSUME NEW l \in Labels, NEW v \in Values, GuestWrite(l, v) PROVE InOrder(q)'
  BY <1>t, <1>1, <1>8, QuietSame
<1>9. QED
  BY <1>2, <1>3, <1>4, <1>5, <1>6, <1>7, <1>8 DEF Next

-----------------------------------------------------------------------------
(* Notifications *)

\* Every call has an id.
LEMMA IdentifiedKept ==
  ASSUME IInv, Next, TypeOK'
  PROVE  Identified'
<1>t. DOMAIN pc = Threads /\ DOMAIN call = Threads /\ Identified /\ submitted \in [Queues -> Nat]
  BY DEF IInv, TypeOK
<1> USE <1>t DEF Identified, queueVars, threadVars, history
<1>1. ASSUME NEW t \in Threads, NEW q \in Queues, NEW b \in Buffers, Submit(t, q, b)
      PROVE  Identified'
  BY <1>1 DEF Submit, NewWork
<1>2. ASSUME NEW t \in Threads, NEW q \in Queues, NEW id \in 1..MaxSubmits, WaitSubmitted(t, q, id)
      PROVE  Identified'
  BY <1>2 DEF WaitSubmitted, NewWork
<1>3. ASSUME NEW t \in Threads, ExecuteInline(t) PROVE Identified'
  <2>1. on[t] \in Queues /\ call[t] \in Work /\ Placed(on[t], call[t]) /\ TypeOK
    BY <1>3, RunningWorks DEF ExecuteInline, InHand, IInv
  <2>2. call[t].cursor < Len(call[t].commands)
    BY <1>3, <2>1, ExecuteTyped DEF ExecuteInline
  <2>3. Stepped(call[t]).id = call[t].id
    BY <2>1, <2>2, CommandRuns
  <2>4. QED
    BY <1>3, <2>3 DEF ExecuteInline
<1>4. ASSUME NEW t \in Threads, SubmitStep(t), ~ExecuteInline(t) PROVE Identified'
  <2>1. CASE PassWait(t) \/ DeferWait(t) \/ CompleteInline(t) \/ Enqueue(t)
    BY <2>1 DEF PassWait, DeferWait, CompleteInline, Enqueue
  <2>2. CASE NotifyReadyThenReturn(t) \/ NotifyDoneThenReturn(t)
    BY <2>2 DEF NotifyReadyThenReturn, NotifyDoneThenReturn, LeaveSubmit
  <2>3. CASE StoreLast(t)
    BY <2>3 DEF StoreLast
  <2>4. QED
    BY <1>4, <2>1, <2>2, <2>3 DEF SubmitStep
<1>5. ASSUME NEW t \in Threads, WaitStep(t) \/ SpuriousDone(t) PROVE Identified'
  BY <1>5 DEF WaitStep, WaitSleepsAgain, WaitReturns, SpuriousDone
<1>6. ASSUME NEW q \in Queues, WorkerStep(q) \/ SpuriousReady(q) PROVE Identified'
  BY <1>6 DEF WorkerStep, WorkerSleeps, WorkerTakes, WorkerExecutes, WorkerFinishes,
       WorkerNotifies, SpuriousReady
<1>7. ASSUME NEW l \in Labels, NEW v \in Values, GuestWrite(l, v) PROVE Identified'
  BY <1>7 DEF GuestWrite
<1>8. QED
  BY <1>1, <1>2, <1>3, <1>4, <1>5, <1>6, <1>7 DEF Next

\* A call that goes on or returns, and owes nobody a notification after it.
LEMMA CallGoesOn ==
  ASSUME Notified, sleeping \subseteq Threads, on \in [Threads -> Queues],
         NEW t \in Threads \ sleeping, pc[t] # "notifyDone",
         UNCHANGED <<submitted, completed, pending, sleeping, on>>,
         \A u \in Threads \ {t} : pc'[u] = pc[u] /\ call'[u] = call[u],
         \A q \in Queues : worker[q] = "notifying" => worker'[q] = "notifying",
         \A q \in Queues : worker'[q] = "asleep" =>
           worker[q] = "asleep" /\ ~(pc[t] = "notifyReady" /\ on[t] = q)
  PROVE  Notified'
<1>1. \A u \in sleeping' : pc'[u] = "waiting"
  BY DEF Notified
<1>2. ASSUME NEW q \in Queues, worker'[q] = "asleep", pending[q] # <<>>
      PROVE  \E v \in Threads : pc'[v] = "notifyReady" /\ on[v] = q
  <2>1. worker[q] = "asleep" /\ ~(pc[t] = "notifyReady" /\ on[t] = q)
    BY <1>2
  <2>2. PICK v \in Threads : pc[v] = "notifyReady" /\ on[v] = q
    BY <1>2, <2>1 DEF Notified, NoMissedWakeup
  <2>3. v \in Threads \ {t}
    BY <2>1, <2>2
  <2>4. QED
    BY <2>2, <2>3
<1>3. ASSUME NEW u \in sleeping, Reached(on[u], call[u].id)'
      PROVE  \/ worker'[on[u]] = "notifying"
             \/ \E v \in Threads : pc'[v] = "notifyDone" /\ on[v] = on[u]
  <2>1. Reached(on[u], call[u].id) /\ on[u] \in Queues
    <3>1. u \in Threads \ {t} /\ u \in Threads
      OBVIOUS
    <3>2. call'[u] = call[u] /\ completed' = completed /\ submitted' = submitted
      BY <3>1
    <3>3. QED
      BY <1>3, <3>1, <3>2 DEF Reached
  <2>2. CASE worker[on[u]] = "notifying"
    BY <2>1, <2>2
  <2>3. ASSUME NEW v \in Threads, pc[v] = "notifyDone", on[v] = on[u]
        PROVE  pc'[v] = "notifyDone"
    BY <2>3
  <2>4. QED
    BY <2>1, <2>2, <2>3 DEF Notified, NoMissedWakeup
<1>4. QED
  BY <1>1, <1>2, <1>3 DEF Notified, NoMissedWakeup

\* The step that makes a sleeper's condition true, or puts one to sleep, leaves its
\* notification to come; only that notification itself takes it away.
LEMMA NotifiedKept ==
  ASSUME IInv, Next, TypeOK'
  PROVE  Notified'
<1>t. /\ sleeping \subseteq Threads /\ DOMAIN pc = Threads /\ on \in [Threads -> Queues]
      /\ DOMAIN call = Threads /\ DOMAIN worker = Queues /\ DOMAIN pending = Queues
      /\ DOMAIN completed = Queues /\ submitted \in [Queues -> Nat]
  BY DEF IInv, TypeOK
<1>i. \A t \in Threads : call[t].id \in Nat
  BY DEF IInv, TypeOK, Work
<1>n. Notified
  BY DEF IInv
<1> USE <1>t, <1>n DEF Notified, NoMissedWakeup, Reached, InSubmit, queueVars, threadVars, history
<1>1. ASSUME NEW t \in Threads, NEW q \in Queues, NEW b \in Buffers, Submit(t, q, b) PROVE Notified'
  <2>1. /\ UNCHANGED <<completed, pending, worker, sleeping>>
        /\ \A u \in Threads \ {t} : pc'[u] = pc[u] /\ on'[u] = on[u] /\ call'[u] = call[u]
        /\ \A p \in Queues : submitted'[p] >= submitted[p]
        /\ pc[t] = "idle" /\ t \notin sleeping
    BY <1>1 DEF Submit
  <2>2. ASSUME NEW u \in sleeping, Reached(on[u], call[u].id)' PROVE Reached(on[u], call[u].id)
    <3>1. /\ u \in Threads \ {t} /\ on[u] \in Queues /\ call[u].id \in Nat
          /\ submitted'[on[u]] \in Nat /\ submitted[on[u]] \in Nat
      BY <1>i, <2>1 DEF TypeOK
    <3>2. QED
      BY <2>1, <2>2, <3>1
  <2> HIDE DEF Reached
  <2>3. \A u \in sleeping : u # t /\ on'[u] = on[u]
    BY <2>1
  <2>4. ASSUME NEW p \in Queues, worker[p] = "asleep" /\ pending[p] # <<>>
        PROVE  \E v \in Threads : pc'[v] = "notifyReady" /\ on'[v] = p
    BY <2>1, <2>4
  <2>5. ASSUME NEW u \in sleeping, Reached(on[u], call[u].id)
        PROVE  \/ worker'[on[u]] = "notifying"
               \/ \E v \in Threads : pc'[v] = "notifyDone" /\ on'[v] = on[u]
    BY <2>1, <2>5
  <2>6. /\ \A u \in sleeping' : pc'[u] = "waiting"
        /\ \A u \in sleeping' : Reached(on[u], call[u].id)' =>
             (\/ worker[on[u]] = "notifying"
              \/ \E v \in Threads : pc[v] = "notifyDone" /\ on[v] = on[u])'
    BY <2>1, <2>2, <2>3, <2>5
  <2>7. QED
    BY <2>1, <2>4, <2>6
<1>2. ASSUME NEW t \in Threads, NEW q \in Queues, NEW id \in 1..MaxSubmits, WaitSubmitted(t, q, id)
      PROVE  Notified'
  <2>1. /\ UNCHANGED <<submitted, completed, pending, worker>> /\ sleeping' = sleeping \cup {t}
        /\ \A u \in Threads \ {t} : pc'[u] = pc[u] /\ on'[u] = on[u] /\ call'[u] = call[u]
        /\ pc[t] = "idle" /\ pc'[t] = "waiting" /\ ~Reached(on[t], call[t].id)'
    BY <1>2 DEF WaitSubmitted, NewWork
  <2>2. \A u \in sleeping : u # t /\ (Reached(on[u], call[u].id)' <=> Reached(on[u], call[u].id))
    BY <2>1
  <2> HIDE DEF Reached
  <2>3. ASSUME NEW u \in sleeping', Reached(on[u], call[u].id)'
        PROVE  \/ worker[on[u]] = "notifying"
               \/ \E v \in Threads \ {t} : pc[v] = "notifyDone" /\ on[v] = on[u]
    BY <2>1, <2>2, <2>3
  <2>4. ASSUME NEW u \in sleeping', Reached(on[u], call[u].id)'
        PROVE  (\/ worker[on[u]] = "notifying"
                \/ \E v \in Threads : pc[v] = "notifyDone" /\ on[v] = on[u])'
    <3>1. u # t /\ on'[u] = on[u]
      BY <2>1, <2>4
    <3>2. QED
      BY <2>1, <2>3, <2>4, <3>1
  <2>5. \A u \in sleeping' : pc'[u] = "waiting"
    BY <2>1, <2>2
  <2>6. ASSUME NEW p \in Queues, worker'[p] = "asleep" /\ pending'[p] # <<>>
        PROVE  \E v \in Threads : pc'[v] = "notifyReady" /\ on'[v] = p
    BY <2>1, <2>6
  <2>7. QED
    BY <2>4, <2>5, <2>6
<1>3. ASSUME NEW t \in Threads, ExecuteInline(t) PROVE Notified'
  <2>1. /\ UNCHANGED <<queueVars, worker, on, sleeping>>
        /\ \A u \in Threads \ {t} : pc'[u] = pc[u] /\ call'[u] = call[u]
        /\ pc[t] \in {"execute", "waits"} /\ pc'[t] = "execute"
    BY <1>3 DEF ExecuteInline
  <2>2. \A u \in sleeping : u # t /\ pc'[u] = "waiting"
               /\ (Reached(on[u], call[u].id)' <=> Reached(on[u], call[u].id))
    BY <2>1
  <2>3. \A u \in Threads : pc[u] \in {"notifyReady", "notifyDone"} => pc'[u] = pc[u]
    BY <2>1
  <2> HIDE DEF Reached
  <2>4. QED
    BY <2>1, <2>2, <2>3
<1>4. ASSUME NEW t \in Threads, PassWait(t) \/ DeferWait(t) PROVE Notified'
  BY <1>4 DEF PassWait, DeferWait
<1>5. ASSUME NEW t \in Threads, CompleteInline(t) PROVE Notified'
  BY <1>5 DEF CompleteInline, Raised
<1>6. ASSUME NEW t \in Threads, Enqueue(t) PROVE Notified'
  <2>1. /\ UNCHANGED <<submitted, completed, worker, sleeping, on, call>>
        /\ \A u \in Threads \ {t} : pc'[u] = pc[u]
        /\ pc[t] = "enqueue" /\ pc'[t] = "notifyReady"
        /\ \A q \in Queues \ {on[t]} : pending'[q] = pending[q]
    BY <1>6 DEF Enqueue
  <2>2. QED
    BY <2>1
<1>7. ASSUME NEW t \in Threads, NotifyReadyThenReturn(t) PROVE Notified'
  <2>1. /\ UNCHANGED <<submitted, completed, pending, sleeping, on>>
        /\ pc[t] = "notifyReady" /\ t \notin sleeping
        /\ worker' = NotifyReady(on[t])
        /\ \A u \in Threads \ {t} : pc'[u] = pc[u] /\ call'[u] = call[u]
    BY <1>7 DEF NotifyReadyThenReturn, LeaveSubmit
  <2>2. \A q \in Queues :
          /\ worker[q] = "notifying" => worker'[q] = "notifying"
          /\ worker'[q] = "asleep" => worker[q] = "asleep" /\ on[t] # q
    BY <2>1 DEF NotifyReady
  <2> HIDE DEF Notified, NoMissedWakeup, Reached
  <2>3. QED
    BY <2>1, <2>2, CallGoesOn
<1>8. ASSUME NEW t \in Threads, NotifyDoneThenReturn(t) PROVE Notified'
  BY <1>8 DEF NotifyDoneThenReturn, NotifyDone, LeaveSubmit
<1>9. ASSUME NEW t \in Threads, StoreLast(t) PROVE Notified'
  BY <1>9 DEF StoreLast
<1>10. ASSUME NEW t \in Threads, WaitStep(t) \/ SpuriousDone(t) PROVE Notified'
  <2>1. CASE WaitSleepsAgain(t)
    BY <2>1 DEF WaitSleepsAgain
  <2>2. CASE WaitReturns(t)
    <3>1. /\ UNCHANGED <<submitted, completed, pending, worker, sleeping, on>>
          /\ pc[t] = "waiting" /\ t \notin sleeping
          /\ \A u \in Threads \ {t} : pc'[u] = pc[u] /\ call'[u] = call[u]
      BY <2>2 DEF WaitReturns
    <3> HIDE DEF Notified, NoMissedWakeup, Reached
    <3>2. QED
      BY <3>1, CallGoesOn
  <2>3. CASE SpuriousDone(t)
    BY <2>3 DEF SpuriousDone
  <2>4. QED
    BY <1>10, <2>1, <2>2, <2>3 DEF WaitStep
<1>11. ASSUME NEW q \in Queues, WorkerSleeps(q) PROVE Notified'
  BY <1>11 DEF WorkerSleeps
<1>12. ASSUME NEW q \in Queues, WorkerTakes(q) PROVE Notified'
  BY <1>12 DEF WorkerTakes
<1>13. ASSUME NEW q \in Queues, WorkerExecutes(q) PROVE Notified'
  BY <1>13 DEF WorkerExecutes
<1>14. ASSUME NEW q \in Queues, WorkerFinishes(q) PROVE Notified'
  BY <1>14 DEF WorkerFinishes, Raised
<1>15. ASSUME NEW q \in Queues, WorkerNotifies(q) PROVE Notified'
  BY <1>15 DEF WorkerNotifies, NotifyDone
<1>16. ASSUME NEW q \in Queues, SpuriousReady(q) PROVE Notified'
  BY <1>16 DEF SpuriousReady
<1>17. ASSUME NEW l \in Labels, NEW v \in Values, GuestWrite(l, v) PROVE Notified'
  BY <1>17 DEF GuestWrite
<1>18. QED
  BY <1>1, <1>2, <1>3, <1>4, <1>5, <1>6, <1>7, <1>8, <1>9, <1>10, <1>11, <1>12, <1>13, <1>14,
       <1>15,
     <1>16, <1>17 DEF Next, SubmitStep, WorkerStep

-----------------------------------------------------------------------------
\* No buffer is submitted and nobody sleeps.
LEMMA InitHolds == Init => IInv
<1> SUFFICES ASSUME Init PROVE IInv
  OBVIOUS
<1> USE ConstantsAssumption
<1>1. NoWork \in Work
  BY DEF NoWork, NewWork, Work
<1>2. TypeOK
  BY <1>1 DEF Init, TypeOK, InSubmit, Queues
<1>3. Identified /\ Notified
  BY DEF Init, Identified, Notified, NoMissedWakeup
<1>4. ASSUME NEW q \in Queues PROVE InOrder(q)
  <2>1. /\ Submitting(q) = {} /\ pending[q] = <<>> /\ ~running[q] /\ submitted[q] = 0
        /\ completed[q] = 0 /\ worker[q] = "looking" /\ issued[q] = <<>> /\ log[q] = <<>>
    BY DEF Init, Submitting, InSubmit
  <2>2. Taken(q) = 0 /\ Open(q) = {} /\ ToSet(log[q]) = {} /\ Steps(q, 0) = {}
    BY <2>1 DEF Taken, Open, ToSet, Steps
  <2>3. Numbered(q)
    BY <2>1, <2>2 DEF Numbered
  <2>4. Resumable(q) /\ Logged(q)
    BY <2>1, <2>2 DEF Resumable, Logged
  <2>5. QED
    BY <2>3, <2>4 DEF InOrder
<1>5. QED
  BY <1>2, <1>3, <1>4 DEF IInv

\* IInv is an invariant of submission, execution, the workers and the waits.
THEOREM InvariantHolds == Spec => []IInv
<1>1. IInv /\ [Next]_vars => IInv'
  <2> SUFFICES ASSUME IInv, [Next]_vars PROVE IInv'
    OBVIOUS
  <2>1. CASE Next
    BY <2>1, TypeKept, IdentifiedKept, InOrderKept, NotifiedKept DEF IInv
  <2>2. CASE UNCHANGED vars
    <3> USE <2>2 DEF vars, queueVars, threadVars, history, IInv
    <3>1. TypeOK' /\ Identified' /\ Notified'
      BY DEF TypeOK, Identified, Notified, NoMissedWakeup, Reached
    <3>2. ASSUME NEW q \in Queues PROVE InOrder(q)'
      <4>1. Same(q)
        BY DEF Same, Submitting, Inline, InHand
      <4>2. QED
        BY <4>1, SameInOrder
    <3>3. QED
      BY <3>1, <3>2
  <2>3. QED
    BY <2>1, <2>2
<1>2. QED
  BY <1>1, InitHolds, PTL DEF Spec

\* Every queue and every thread keeps its type.
THEOREM TypeCorrect == Spec => []TypeOK
BY InvariantHolds, PTL DEF IInv

\* Apr.cpp's two ways to execute a buffer, inline and on the worker, keep the order of
\* their queue and the read cursor of each buffer.
THEOREM ExecutedInOrderHolds == Spec => []ExecutedInOrder
<1>1. IInv => ExecutedInOrder
  BY DEF IInv, InOrder, Logged, ExecutedInOrder
<1>2. QED
  BY <1>1, InvariantHolds, PTL

\* AprQueue::completed passes an id only behind the last command of its buffer.
THEOREM CompletedWereExecutedHolds == Spec => []CompletedWereExecuted
<1>1. IInv => CompletedWereExecuted
  BY DEF IInv, InOrder, Logged, CompletedWereExecuted
<1>2. QED
  BY <1>1, InvariantHolds, PTL

\* Neither the worker, asleep on `ready`, nor a wait for an id, asleep on `done`, misses
\* the notification that comes after the unlock.
THEOREM NoMissedWakeupHolds == Spec => []NoMissedWakeup
<1>1. IInv => NoMissedWakeup
  BY DEF IInv, Notified
<1>2. QED
  BY <1>1, InvariantHolds, PTL
=============================================================================
