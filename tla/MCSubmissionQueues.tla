--------------------------- MODULE MCSubmissionQueues ---------------------------
(* Small programs for the driver.  In each, what is waited for is written by   *)
(* some call or submission that can be reached without it.                     *)
EXTENDS SubmissionQueues

CONSTANTS g1, g2, c1, c2, L, M

Call0 == [op |-> "idle", queue |-> Queue0, waits |-> NoLabel, writes |-> {}, flip |-> FALSE]
Idle == Call0
Suspend == [Call0 EXCEPT !.op = "suspend"]
Shutdown == [Call0 EXCEPT !.op = "stop"]
Stores(label) == [Call0 EXCEPT !.op = "store", !.writes = {label}]
Flip(label) == [Call0 EXCEPT !.op = "submit", !.waits = label, !.flip = TRUE]
Work(queue, label, writes) ==
  [Call0 EXCEPT !.op = "submit", !.queue = queue, !.waits = label, !.writes = writes]

Program(first, second) == [g \in Guests |-> IF g = g1 THEN first ELSE second]

\* Queue 0 waits for a label that a submission behind it writes.
WaitsForCompute ==
  Program(<<Work(Queue0, L, {}), Work(c1, NoLabel, {}), Work(c1, NoLabel, {L}), Idle>>,
          <<Idle>>)

\* The label comes from a queue that waits for one of a third queue.
WaitsForTwo ==
  Program(<<Work(Queue0, L, {}), Work(c1, NoLabel, {M}), Work(c2, M, {L}), Idle>>,
          <<Shutdown>>)

\* Submissions of queue 0 in the pipeline; another queue waits for their label.
Pipelined ==
  Program(<<Work(Queue0, NoLabel, {}), Work(Queue0, NoLabel, {L}), Idle>>,
          <<Work(c1, NoLabel, {}), Work(c1, L, {})>>)

\* Queue 0 waits for its own label, and a suspension drains the pipeline.
Suspended ==
  Program(<<Work(Queue0, NoLabel, {L}), Work(Queue0, L, {}), Suspend>>,
          <<Work(c1, NoLabel, {}), Idle>>)

\* A flip held behind one that waits for the guest itself.
HeldFlips ==
  Program(<<Flip(L), Flip(NoLabel), Stores(L), Idle>>,
          <<Work(c1, NoLabel, {}), Idle>>)

AllPrograms == {WaitsForCompute, WaitsForTwo, Pipelined, Suspended, HeldFlips}
================================================================================
