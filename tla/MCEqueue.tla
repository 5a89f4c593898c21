------------------------------- MODULE MCEqueue -------------------------------
(* Instances of Equeue for TLC. *)
EXTENDS Equeue, TLC

CONSTANTS a, b, c

Setup(once, waits, kinds, flags) ==
  LET Of(list) == [e \in {a, b, c} |-> list[CASE e = a -> 1 [] e = b -> 2 [] e = c -> 3]]
  IN  [once |-> once, waits |-> waits, kind |-> Of(kinds), flag |-> Of(flags)]

\* An equeue of events reported once; timers, with a socket or with each other; kqueues
\* of level events, with a socket or among each other; kqueues of events that end or are
\* disabled with their report, a timer among them.
SetupsOf ==
  {Setup(FALSE, 3, <<"ampr", "user", "ampr">>, <<"clear", "clear", "clear">>),
   Setup(FALSE, 2, <<"timer", "fd", "unused">>, <<"clear", "level", "level">>),
   Setup(FALSE, 2, <<"timer", "hrtimer", "user">>, <<"clear", "oneshot", "level">>),
   Setup(TRUE, 2, <<"user", "fd", "unused">>, <<"level", "level", "level">>),
   Setup(TRUE, 1, <<"user", "user", "user">>, <<"level", "level", "clear">>),
   Setup(TRUE, 1, <<"user", "user", "timer">>, <<"dispatch", "oneshot", "oneshot">>),
   Setup(TRUE, 2, <<"user", "user", "user">>, <<"dispatch", "oneshot", "clear">>),
   Setup(TRUE, 2, <<"timer", "user", "unused">>, <<"dispatch", "level", "level">>)}

\* A kqueue with a descriptor before a user event, both level events, and one caller.
DescriptorFirst == {Setup(TRUE, 1, <<"fd", "user", "unused">>, <<"level", "level", "level">>)}

Symmetry == Permutations(Waiters)
===============================================================================
