-------------------------------- MODULE Equeue --------------------------------
(***************************************************************************)
(* An event queue of the guest kernel (libkernel/Equeue/Equeue.cpp), used  *)
(* as an equeue and, reporting an event once per wait, as a kqueue         *)
(* (src/Kqueue.cpp).  Events are registered, triggered, edited and         *)
(* deleted while threads wait for them, each with room for so many         *)
(* reports; m_mutex makes every operation, and every pass of a waiter over *)
(* the events up to its sleep, one step.                                   *)
(*                                                                         *)
(* A waiter sleeps on m_cond or, while an event watches a descriptor, in a *)
(* poll outside the lock that the wakers in m_pollers interrupt.  Time is  *)
(* the number of periods of a timer that have passed unseen; a sleeper     *)
(* wakes when a timer it saw armed is due.  The Windows poll leaves the    *)
(* last millisecond to m_cond without another look at the events: the      *)
(* sleeper is then "brief".  The payload of an event is the number of its  *)
(* trigger.  Period zero, an event's udata and the file watches            *)
(* (src/FileEvent.cpp) are left out.                                       *)
(***************************************************************************)
EXTENDS Integers, FiniteSets, SequencesExt

CONSTANTS
  Waiters,   \* guest threads that wait
  Ids,       \* (ident, filter) pairs
  Setups,    \* what the queue is and which events the guest uses
  MaxRoom,   \* the largest number of reports a wait asks for
  MaxFired   \* bound on the triggers and periods not yet reported

\* user: triggered by the guest; fd: by its descriptor; the timers: by time.
Kinds == {"user", "ampr", "fd", "hrtimer", "timer", "unused"}
\* EV_CLEAR, EV_ONESHOT, EV_DISPATCH or none of them, a level event: what it was added with.
Flags == {"level", "clear", "oneshot", "dispatch"}

ASSUME EqueueAssumption ==
  /\ IsFiniteSet(Waiters) /\ IsFiniteSet(Ids)
  /\ Setups \subseteq [once : BOOLEAN, waits : Nat, kind : [Ids -> Kinds], flag : [Ids -> Flags]]
  /\ \A s \in Setups : \A e \in Ids :   \* the flags that the code adds these events with
       /\ s.kind[e] = "ampr" => ~s.once /\ s.flag[e] = "clear"
       /\ s.kind[e] = "hrtimer" => ~s.once /\ s.flag[e] = "oneshot"
       /\ s.kind[e] = "timer" => s.flag[e] # "level"
  /\ MaxRoom \in Nat \ {0} /\ MaxFired \in Nat

VARIABLES
  setup,     \* m_reportOncePerWait, how many wait at a time and the events, fixed
  closed,    \* m_closed
  order,     \* m_events: the identifiers, in order
  ev,        \* per identifier, its KernelEqueueEvent
  ready,     \* descriptors that would report
  pc,        \* per waiter: "idle", "checking", "asleep" or "polling"
  wait,      \* per waiter, its call and what ends its sleep
  signaled   \* pollers whose waker was signaled

equeueVars == <<setup, closed, order, ev, ready, pc, wait, signaled>>

Kind(e) == setup.kind[e]
Flag(e) == IF ev[e].forced THEN "oneshot" ELSE setup.flag[e]
Registered == ToSet(order)
Earlier(e, f) == \E i, j \in DOMAIN order : i < j /\ order[i] = e /\ order[j] = f

\* A level event that stays triggered with its report: the resetFunc of a descriptor
\* event untriggers it, until the next pass asks the descriptor again.
Lasting(e) == Flag(e) = "level" /\ Kind(e) # "fd"

\* forced: EV_FORCEONESHOT; fired and got count what was triggered and what was
\* reported since all of it was; passed: level events reported by passes with no
\* room left for this one.
Fresh == [triggered |-> FALSE, enabled |-> TRUE, forced |-> FALSE, pending |-> <<>>, ticks |-> 0,
          due |-> 0, fired |-> 0, got |-> 0, passed |-> {}]
NoWait == [room |-> 1, limited |-> FALSE, brief |-> FALSE, watches |-> {}]

EqueueInit ==
  /\ setup \in Setups /\ closed = FALSE
  /\ order = <<>> /\ ev = [e \in Ids |-> Fresh] /\ ready = {}
  /\ pc = [w \in Waiters |-> "idle"] /\ wait = [w \in Waiters |-> NoWait] /\ signaled = {}

-----------------------------------------------------------------------------
(* Waking *)

Asleep == {w \in Waiters : pc[w] = "asleep"}
Polling == {w \in Waiters : pc[w] = "polling"}

\* m_cond.NotifyOne and WakePollers.
Notify ==
  /\ signaled' = signaled \cup Polling
  /\ IF Asleep = {} THEN UNCHANGED pc
                    ELSE \E w \in Asleep : pc' = [pc EXCEPT ![w] = "checking"]

-----------------------------------------------------------------------------
(* The events *)

\* TriggerExpiredTimers.
Expired(e) ==
  IF ev[e].due = 0 \/ ~ev[e].enabled THEN ev[e]
  ELSE IF Kind(e) = "timer"
       THEN [ev[e] EXCEPT !.triggered = TRUE, !.ticks = @ + ev[e].due, !.due = 0]
       ELSE [ev[e] EXCEPT !.triggered = TRUE]

\* The event as a pass finds it: PollEvents after TriggerExpiredTimers.
Seen(e) ==
  IF Kind(e) = "fd" /\ ev[e].enabled THEN [ev[e] EXCEPT !.triggered = e \in ready] ELSE Expired(e)

\* AddEvent on an event that is there, which starts its timer anew.
AddedForgetting(e) == [ev[e] EXCEPT !.due = 0]
Added(e) == IF Kind(e) = "timer" THEN [Expired(e) EXCEPT !.due = 0] ELSE [ev[e] EXCEPT !.due = 0]

\* An event not there is fresh; kevent may disable it, which is EditEvent below.
AddEvent(e) ==
  /\ ~closed /\ Kind(e) # "unused"
  /\ IF e \in Registered
     THEN /\ ev' = [f \in Ids |-> IF f = e THEN Added(e)
                                 ELSE IF Kind(e) = "timer" /\ f \in Registered THEN Expired(f)
                                 ELSE ev[f]]
          /\ UNCHANGED order
     ELSE order' = Append(order, e) /\ UNCHANGED ev
  /\ Notify /\ UNCHANGED <<setup, closed, ready, wait>>

\* sceKernelTriggerUserEvent and the trigger function of AMPR events.
Triggered(e) ==
  IF Kind(e) = "ampr"
  THEN [ev[e] EXCEPT !.triggered = TRUE, !.fired = @ + 1, !.pending = Append(@, ev[e].fired + 1)]
  ELSE [ev[e] EXCEPT !.triggered = TRUE]

TriggerQuietly(e) ==
  /\ ~setup.once /\ ~closed
  /\ e \in Registered /\ Kind(e) \in {"user", "ampr"} /\ ev[e].fired < MaxFired
  /\ ev' = IF ev[e].enabled THEN [ev EXCEPT ![e] = Triggered(e)] ELSE ev
  /\ IF ev[e].triggered THEN UNCHANGED <<pc, signaled>> ELSE Notify
  /\ UNCHANGED <<setup, closed, order, ready, wait>>
TriggerEvent(e) ==
  /\ ~setup.once /\ ~closed
  /\ e \in Registered /\ Kind(e) \in {"user", "ampr"} /\ ev[e].fired < MaxFired
  /\ ev' = IF ev[e].enabled THEN [ev EXCEPT ![e] = Triggered(e)] ELSE ev
  /\ Notify /\ UNCHANGED <<setup, closed, order, ready, wait>>

\* kevent on an event that is there: EV_ENABLE, EV_DISABLE or neither, and
\* EV_FORCEONESHOT, which triggers it.  A user event may also be triggered
\* (NOTE_TRIGGER) or untriggered (EV_CLEAR).  A timer is only disabled, by the
\* kevent that added it.
EditEvent(e, enabled, force, triggered) ==
  /\ setup.once /\ ~closed /\ e \in Registered
  /\ Kind(e) = "timer" => ev[e].enabled /\ ~enabled /\ ~force
  /\ Kind(e) # "user" => triggered = (force \/ ev[e].triggered)
  /\ ev' = [ev EXCEPT ![e].enabled = enabled, ![e].forced = @ \/ force, ![e].triggered = triggered]
  /\ Notify /\ UNCHANGED <<setup, closed, order, ready, wait>>

\* DeleteEvent and RemoveDescriptorEvents: the pollers alone have to know.
DeleteEvent(e) ==
  /\ ~closed
  /\ \E i \in DOMAIN order : order[i] = e /\ order' = RemoveAt(order, i)
  /\ ev' = [ev EXCEPT ![e] = Fresh]
  /\ signaled' = signaled \cup Polling
  /\ UNCHANGED <<setup, closed, ready, pc, wait>>

\* sceKernelDeleteEqueue and the close of a kqueue's descriptor.
CloseNotifyingOne ==
  /\ ~closed /\ closed' = TRUE
  /\ order' = <<>> /\ ev' = [e \in Ids |-> Fresh]
  /\ Notify /\ UNCHANGED <<setup, ready, wait>>
Close ==
  /\ ~closed /\ closed' = TRUE
  /\ order' = <<>> /\ ev' = [e \in Ids |-> Fresh]
  /\ pc' = [w \in Waiters |-> IF w \in Asleep THEN "checking" ELSE pc[w]]
  /\ signaled' = signaled \cup Polling
  /\ UNCHANGED <<setup, ready, wait>>

\* A period of a timer passes, the only one of a one-shot timer.
Tick(e) ==
  /\ e \in Registered /\ Kind(e) \in {"hrtimer", "timer"}
  /\ Flag(e) = "oneshot" => ev[e].due = 0 /\ ~ev[e].triggered
  /\ ev[e].fired < MaxFired
  /\ ev' = [ev EXCEPT ![e].due = @ + 1, ![e].fired = IF Kind(e) = "timer" THEN @ + 1 ELSE @]
  /\ UNCHANGED <<setup, closed, order, ready, pc, wait, signaled>>

\* A descriptor begins or ceases to have something to report.
DescriptorChanges(e) ==
  /\ Kind(e) = "fd"
  /\ ready' = IF e \in ready THEN ready \ {e} ELSE ready \cup {e}
  /\ UNCHANGED <<setup, closed, order, ev, pc, wait, signaled>>

-----------------------------------------------------------------------------
(* A pass over the events *)

\* How many reports a ripe event has.
Reports(e) ==
  IF ~(Seen(e).triggered /\ Seen(e).enabled) THEN 0
  ELSE IF Kind(e) = "ampr" THEN Len(ev[e].pending) ELSE 1

\* The reports ahead of those of e, and how many of its own a pass with this room takes.
Ahead(e) == {r \in Registered \X (0..MaxFired) : Earlier(r[1], e) /\ r[2] < Reports(r[1])}
Taken(room) ==
  [e \in Ids |->
     LET left == room - Cardinality(Ahead(e))
     IN  IF e \notin Registered \/ left <= 0 THEN 0
         ELSE IF Reports(e) < left THEN Reports(e) ELSE left]

\* An event of which k reports were taken.  Its history begins anew when it has
\* nothing more to report.
After(e, k, levels) ==
  LET r == Seen(e)
      left == SubSeq(r.pending, k + 1, Len(r.pending))
      got == IF k = 0 THEN r.got ELSE r.got + (IF Kind(e) = "timer" THEN r.ticks ELSE k)
      done == got = r.fired \/ Kind(e) \notin {"ampr", "timer"}
  IN  IF k = 0 THEN [r EXCEPT !.passed = IF r.triggered /\ r.enabled THEN @ \cup levels ELSE {}]
      ELSE [r EXCEPT !.triggered = Lasting(e) \/ left # <<>>,
                     !.enabled = Flag(e) # "dispatch",
                     !.pending = IF done THEN <<>> ELSE left,
                     !.ticks = 0, !.passed = {},
                     !.fired = IF done THEN 0 ELSE @, !.got = IF done THEN 0 ELSE got]

\* CollectTriggered, or CollectOncePerWait, which moves what stays triggered to
\* the end of the list.
Stays(taken) == {e \in Registered : ~(taken[e] > 0 /\ Flag(e) = "oneshot")}
Requeued(taken) == {e \in Registered : setup.once /\ taken[e] > 0 /\ Lasting(e)}
KeptInPlace(taken) ==
  {list \in SetToSeqs(Stays(taken)) :
     \A i, j \in DOMAIN list : i < j => Earlier(list[i], list[j])}
Kept(taken) ==
  IF Stays(taken) = Registered /\ Requeued(taken) = {} THEN {order} ELSE
  {list \in SetToSeqs(Stays(taken)) :
     \A i, j \in DOMAIN list : i < j =>
       IF list[i] \in Requeued(taken) <=> list[j] \in Requeued(taken)
       THEN Earlier(list[i], list[j]) ELSE list[j] \in Requeued(taken)}

Collect(taken) ==
  LET levels == {e \in Registered : taken[e] > 0 /\ Flag(e) = "level"}
  IN  /\ order' \in Kept(taken)
      /\ ev' = [e \in Ids |-> IF e \notin Registered THEN ev[e]
                              ELSE IF taken[e] > 0 /\ Flag(e) = "oneshot" THEN Fresh
                              ELSE After(e, taken[e], levels)]

Nothing == [e \in Ids |-> 0]

-----------------------------------------------------------------------------
(* Waits *)

\* sceKernelWaitEqueue or kevent that polls: GetTriggeredEvents.
GetTriggeredEvents(w, room) ==
  /\ pc[w] = "idle" /\ ~closed
  /\ \E taken \in {Taken(room)} : Collect(taken)
  /\ UNCHANGED <<setup, closed, ready, pc, wait, signaled>>

\* WaitForEventsUntil, with or without a deadline.
WaitForEvents(w, room, limited) ==
  /\ pc[w] = "idle" /\ ~closed
  /\ Cardinality({v \in Waiters : pc[v] # "idle"}) < setup.waits
  /\ pc' = [pc EXCEPT ![w] = "checking"]
  /\ wait' = [wait EXCEPT ![w] = [NoWait EXCEPT !.room = room, !.limited = limited]]
  /\ UNCHANGED <<setup, closed, order, ev, ready, signaled>>

LeaveWait(w) ==
  /\ pc' = [pc EXCEPT ![w] = "idle"] /\ wait' = [wait EXCEPT ![w] = NoWait]
  /\ UNCHANGED signaled

\* The sleep ends when a timer the pass saw armed is due.
FallAsleep(w) ==
  /\ pc' = [pc EXCEPT ![w] = IF \E e \in Registered : Kind(e) = "fd" /\ ev[e].enabled
                             THEN "polling" ELSE "asleep"]
  /\ wait' = [wait EXCEPT ![w].brief = FALSE,
                ![w].watches = {e \in Registered : /\ Kind(e) \in {"hrtimer", "timer"}
                                                   /\ ev[e].enabled /\ ~Seen(e).triggered}]
  /\ UNCHANGED signaled

\* One turn of the loop of WaitForEventsUntil; a wait may find its deadline passed.
Pass(w) ==
  /\ pc[w] = "checking"
  /\ \E taken \in {Taken(wait[w].room)} :
       /\ Collect(taken)
       /\ IF taken # Nothing \/ closed THEN LeaveWait(w)
          ELSE FallAsleep(w) \/ (wait[w].limited /\ LeaveWait(w))
  /\ UNCHANGED <<setup, closed, ready>>

\* The poll ends for its waker, a descriptor or a deadline, or is interrupted.
PollEnds(w) ==
  /\ pc' = [pc EXCEPT ![w] = "checking"] /\ signaled' = signaled \ {w}
  /\ UNCHANGED <<setup, closed, order, ev, ready, wait>>

Due(w) == \E e \in wait[w].watches : ev[e].due > 0

Interrupted(w) ==
  /\ pc[w] = "polling"
  /\ w \in signaled \/ Due(w) \/ \E e \in Registered \cap ready : Kind(e) = "fd"
  /\ PollEnds(w)

\* WaitAny returned false, its deadline less than a millisecond away.
LastMillisecond(w) ==
  /\ pc[w] = "polling" /\ (wait[w].limited \/ wait[w].watches # {})
  /\ pc' = [pc EXCEPT ![w] = "asleep"] /\ signaled' = signaled \ {w}
  /\ wait' = [wait EXCEPT ![w].brief = TRUE]
  /\ UNCHANGED <<setup, closed, order, ev, ready>>

\* m_cond's wait ends at the deadline, its own or a timer's.
TimesOut(w) ==
  /\ pc[w] = "asleep" /\ (wait[w].brief \/ Due(w))
  /\ pc' = [pc EXCEPT ![w] = "checking"]
  /\ UNCHANGED <<setup, closed, order, ev, ready, wait, signaled>>

\* For no reason the queue knows of, or for the deadline of the call.
Wakes(w) ==
  \/ pc[w] = "polling" /\ PollEnds(w)
  \/ /\ pc[w] = "asleep" /\ pc' = [pc EXCEPT ![w] = "checking"]
     /\ UNCHANGED <<setup, closed, order, ev, ready, wait, signaled>>

-----------------------------------------------------------------------------
EqueueNext ==
  \/ \E e \in Ids : \/ AddEvent(e) \/ TriggerEvent(e) \/ DeleteEvent(e)
                    \/ Tick(e) \/ DescriptorChanges(e)
                    \/ \E enabled, force, triggered \in BOOLEAN :
                         EditEvent(e, enabled, force, triggered)
  \/ Close
  \/ \E w \in Waiters :
       \/ Pass(w) \/ Interrupted(w) \/ TimesOut(w) \/ LastMillisecond(w) \/ Wakes(w)
       \/ \E room \in 1..MaxRoom :
            GetTriggeredEvents(w, room) \/ \E limited \in BOOLEAN : WaitForEvents(w, room, limited)

EqueueSpec == EqueueInit /\ [][EqueueNext]_equeueVars

-----------------------------------------------------------------------------
\* The state keeps its type.
EqueueTypeOK ==
  /\ setup \in Setups /\ closed \in BOOLEAN /\ ready \subseteq Ids
  /\ order \in Seq(Ids) /\ IsInjective(order)
  /\ ev \in [Ids -> [triggered : BOOLEAN, enabled : BOOLEAN, forced : BOOLEAN,
                     pending : Seq(1..MaxFired), ticks : 0..MaxFired, due : 0..MaxFired,
                     fired : 0..MaxFired, got : 0..MaxFired, passed : SUBSET Ids]]
  /\ pc \in [Waiters -> {"idle", "checking", "asleep", "polling"}]
  /\ wait \in [Waiters -> [room : 1..MaxRoom, limited : BOOLEAN, brief : BOOLEAN,
                           watches : SUBSET Ids]]
  /\ signaled \subseteq Polling

Attentive == {w \in Waiters : pc[w] = "checking" \/ wait[w].brief}
Ripe(e) ==
  IF ~(e \in Registered /\ ev[e].enabled /\ ev[e].triggered) THEN 0
  ELSE IF Kind(e) = "ampr" THEN Len(ev[e].pending) ELSE 1
RipeReports == {r \in Ids \X (0..MaxFired) : r[2] < Ripe(r[1])}
EachReportedOnce ==
  \A e \in Ids : Kind(e) \in {"user", "ampr", "unused"} /\ setup.flag[e] # "level"

\* Where every event is reported once, nobody sleeps beside more reports than
\* waiters that are awake to take them: each notification of one waiter, however
\* little room that one has, is enough.
NoMissedTrigger ==
  (EachReportedOnce /\ Asleep \ Attentive # {})
    => Cardinality(RipeReports) <= Cardinality(Attentive)

\* Every trigger of an AMPR event is reported once and in order, every period of
\* a timer once, however little room the waits have and though the timer is
\* added anew.  Only a timer that is disabled, by its report or
\* since it was added, may lose what it is then due.
NothingLost ==
  \A e \in Registered :
    /\ Kind(e) = "ampr" => ev[e].pending = [i \in 1..(ev[e].fired - ev[e].got) |-> ev[e].got + i]
    /\ Kind(e) = "timer" =>
         LET known == ev[e].got + ev[e].ticks + ev[e].due
         IN  known <= ev[e].fired /\ (ev[e].enabled => ev[e].fired = known)

\* docs/dev/debt/libkernel.md: a level event is reported once per call and moved behind
\* the other events, as in kqueue_scan.  So those that a kqueue reported while another
\* had to wait for room are behind that one, which is reported before any of them again.
LevelEventsRotate ==
  \A i, j \in DOMAIN order :
    (setup.once /\ order[j] \in ev[order[i]].passed) => i < j

\* The code does so with the level events that stay triggered, not with descriptors,
\* whose reset function untriggers them before CollectOncePerWait looks.
LastingEventsRotate ==
  \A i, j \in DOMAIN order :
    (setup.once /\ order[j] \in ev[order[i]].passed /\ Kind(order[j]) # "fd") => i < j

\* No wait outlasts the close of its queue: every sleeper has been woken, or looks
\* again within the millisecond.
CloseEndsWaits == closed => Polling \subseteq signaled /\ \A w \in Asleep : wait[w].brief
===============================================================================
