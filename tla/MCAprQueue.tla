----------------------------- MODULE MCAprQueue -----------------------------
(* Instances of AprQueue for TLC. *)
EXTENDS AprQueue, TLC

CONSTANTS f, l

Read(file) == [op |-> "read", arg |-> file]
Gather == [op |-> "gather", arg |-> NoFile]
Write(label, v) == [op |-> "write", arg |-> label, becomes |-> [x \in Values |-> v]]
Flip(label) == [op |-> "write", arg |-> label, becomes |-> [x \in Values |-> 1 - x]]
WaitOn(label) == [op |-> "wait", arg |-> label, until |-> {1}]
Reset == [op |-> "reset", arg |-> NoFile]

\* A read continued after a wait, and what releases that wait or takes the release back.
WaitInTheMiddle == <<Read(f), WaitOn(l), Gather>>
Toggle == <<Flip(l)>>
Release == <<Write(l, 1), Reset>>

WaitAndToggle == {WaitInTheMiddle, Toggle}
ReleaseOnly == {Release}
=============================================================================
