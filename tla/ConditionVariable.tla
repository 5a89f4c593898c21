-------------------------- MODULE ConditionVariable --------------------------
(***************************************************************************)
(* What a condition promises the code that waits on it: a waiter leaves    *)
(* notified or, if its wait is timed and nobody notified it, timed out;    *)
(* NotifyOne picks the longest waiter and that one reports it; there are   *)
(* no spurious wake-ups.  TimedCondition implements it.  The modules that  *)
(* wait on conditions assume less: they also let a waiter wake for no      *)
(* reason, as the host's std::condition_variable_any may.                  *)
(***************************************************************************)
EXTENDS SequencesExt

CONSTANTS Waiters, Conditions

VARIABLES
  waiting,    \* per condition, its waiters, longest first
  state,      \* per waiter: "idle", "waiting", "timed" or "notified"
  result      \* whether its last wait reported a notification

vars == <<waiting, state, result>>

Init ==
  /\ waiting = [c \in Conditions |-> <<>>]
  /\ state = [w \in Waiters |-> "idle"]
  /\ result = [w \in Waiters |-> FALSE]

Wait(w, c, withTimeout) ==
  /\ state[w] = "idle"
  /\ waiting' = [waiting EXCEPT ![c] = Append(@, w)]
  /\ state' = [state EXCEPT ![w] = IF withTimeout THEN "timed" ELSE "waiting"]
  /\ UNCHANGED result

\* The first k waiters are notified: one, or all.
Notify(c, k) ==
  /\ k \in {1, Len(waiting[c])} /\ waiting[c] # <<>>
  /\ waiting' = [waiting EXCEPT ![c] = SubSeq(@, k + 1, Len(@))]
  /\ state' = [w \in Waiters |-> IF w \in ToSet(SubSeq(waiting[c], 1, k)) THEN "notified"
                                                                          ELSE state[w]]
  /\ UNCHANGED result

Return(w) ==
  /\ state[w] = "notified"
  /\ state' = [state EXCEPT ![w] = "idle"]
  /\ result' = [result EXCEPT ![w] = TRUE]
  /\ UNCHANGED waiting

\* Nobody will find it any more.
TimeOut(w, c) ==
  /\ state[w] = "timed"
  /\ \E i \in DOMAIN waiting[c] : /\ waiting[c][i] = w
                                  /\ waiting' = [waiting EXCEPT ![c] = RemoveAt(@, i)]
  /\ state' = [state EXCEPT ![w] = "idle"]
  /\ result' = [result EXCEPT ![w] = FALSE]

Next ==
  \/ \E w \in Waiters, c \in Conditions :
       TimeOut(w, c) \/ \E withTimeout \in BOOLEAN : Wait(w, c, withTimeout)
  \/ \E c \in Conditions : \E k \in 1..Len(waiting[c]) : Notify(c, k)
  \/ \E w \in Waiters : Return(w)

Spec == Init /\ [][Next]_vars
===============================================================================
