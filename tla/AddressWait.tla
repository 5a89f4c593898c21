---------------------------- MODULE AddressWait ----------------------------
(***************************************************************************)
(* What waiting on an address promises its callers: a thread parks on an   *)
(* address only while the address still holds the value it expects, wakes  *)
(* take the longest parked threads first, and a parked thread leaves by    *)
(* being woken or, when its wait is timed, by giving up.  No map, no       *)
(* condition variable, no lock.  SyncOnAddress implements it.              *)
(***************************************************************************)
EXTENDS Integers, SequencesExt

CONSTANTS Threads, Addresses, Values

VARIABLES
  memory,     \* the guest words
  parked,     \* per address, the parked threads, longest parked first
  expects,    \* the value a thread last parked for
  state       \* per thread: "idle", "parked", "timed" (parked with a timeout) or "woken"

vars == <<memory, parked, expects, state>>

Init ==
  /\ memory \in [Addresses -> Values]
  /\ parked = [a \in Addresses |-> <<>>]
  /\ expects \in [Threads -> Values]
  /\ state = [t \in Threads |-> "idle"]

\* Threads other than the parked one change the words as they like.
Store(a, v) ==
  /\ memory' = [memory EXCEPT ![a] = v]
  /\ UNCHANGED <<parked, expects, state>>

\* The comparison and the parking are one step: no store or wake falls between.
Park(t, a, v, withTimeout) ==
  /\ state[t] = "idle"
  /\ memory[a] = v
  /\ parked' = [parked EXCEPT ![a] = Append(@, t)]
  /\ state' = [state EXCEPT ![t] = IF withTimeout THEN "timed" ELSE "parked"]
  /\ expects' = [expects EXCEPT ![t] = v]
  /\ UNCHANGED memory

\* Wake the first k threads parked on a.
Wake(a, k) ==
  /\ k \in 1..Len(parked[a])
  /\ parked' = [parked EXCEPT ![a] = SubSeq(@, k + 1, Len(@))]
  /\ state' = [t \in Threads |-> IF t \in ToSet(SubSeq(parked[a], 1, k)) THEN "woken"
                                                                         ELSE state[t]]
  /\ UNCHANGED <<memory, expects>>

\* A timed wait gives up, and is no longer found by later wakes.
GiveUp(t, a) ==
  /\ state[t] = "timed"
  /\ \E i \in DOMAIN parked[a] : /\ parked[a][i] = t
                                /\ parked' = [parked EXCEPT ![a] = RemoveAt(@, i)]
  /\ state' = [state EXCEPT ![t] = "idle"]
  /\ UNCHANGED <<memory, expects>>

Return(t) ==
  /\ state[t] = "woken"
  /\ state' = [state EXCEPT ![t] = "idle"]
  /\ UNCHANGED <<memory, parked, expects>>

Next ==
  \/ \E a \in Addresses, v \in Values : Store(a, v)
  \/ \E t \in Threads, a \in Addresses, v \in Values, b \in BOOLEAN : Park(t, a, v, b)
  \/ \E a \in Addresses : \E k \in 1..Len(parked[a]) : Wake(a, k)
  \/ \E t \in Threads, a \in Addresses : GiveUp(t, a)
  \/ \E t \in Threads : Return(t)

Spec == Init /\ [][Next]_vars

\* A woken thread returns to its caller, and a timed wait that nobody wakes ends.
FairSpec ==
  /\ Spec
  /\ \A t \in Threads : WF_vars(Return(t)) /\ WF_vars(\E a \in Addresses : GiveUp(t, a))
=============================================================================
