------------------------- MODULE GuestThreadsProofs -------------------------
(***************************************************************************)
(* For every set of threads and whatever calls the guest makes in them: no *)
(* wait of GuestThreads misses its wake-up, cleanup handlers run to their  *)
(* end and a thread's block is deleted when its last user is done.         *)
(*                                                                         *)
(* The invariant has four parts.  Engaged says which object the call of a  *)
(* thread is about.  Exits keeps handlers to threads on their way out.     *)
(* Owned accounts for the references of a block: the thread's own until it *)
(* is gone, and the handle's, which one call at a time may use.  Watched   *)
(* says what a wait may rely on even before it sleeps: its canceller       *)
(* sees the condition it is about to sleep on, and while it holds the      *)
(* mutex neither the semaphore's count nor its target changes.             *)
(***************************************************************************)
EXTENDS GuestThreads, FiniteSetTheorems, TLAPS

Typing ==
  /\ pc \in [Threads -> Places]
  /\ on \in [Threads -> Conditions \cup {Nothing}]
  /\ timed \subseteq Threads /\ expired \subseteq Threads
  /\ count \in 0..MaxCount /\ dropped \in Nat
  /\ cancelPending \subseteq Threads /\ cancelEnabled \subseteq Threads
  /\ cancelWait \in [Threads -> Conditions \cup {Nothing}] /\ cancels \in 0..MaxCancels
  /\ exiting \subseteq Threads /\ inHandler \subseteq Threads
  /\ handlers \in [Threads -> 0..MaxHandlers]
  /\ references \in [Threads -> Nat]
  /\ finished \subseteq Threads /\ detached \subseteq Threads

\* A wait is for the semaphore or another thread, a join, a detach and a cancel
\* are about a thread, and outside these calls there is no object.
OnItsCall(t) ==
  /\ pc[t] \in InWait => on[t] \in Conditions \ {t}
  /\ pc[t] \in {"joining", "releasing"} => on[t] \in Threads \ {t}
  /\ pc[t] = "cancelling" => on[t] \in Threads
  /\ pc[t] \in {"none", "running", "posted"} \cup AtEnd => on[t] = Nothing
Engaged == \A t \in Threads : OnItsCall(t)

\* Only a thread on its way out runs handlers, one at a time.
Exits ==
  /\ inHandler \subseteq exiting
  /\ \A t \in Threads : pc[t] \in AtEnd => t \in exiting /\ t \notin inHandler

\* The reference the running thread holds on its own block.
Own(u) == IF pc[u] \in {"none", "gone"} THEN 0 ELSE 1

\* The references of a block beside its thread's own: that of the handle, which is
\* there while a call uses it, and of a detached thread only until it is given back.
OwnedOf(u) ==
  /\ references[u] \in {Own(u), Own(u) + 1}
  /\ pc[u] = "none" => references[u] = 0 /\ u \notin detached
  /\ u \notin detached /\ Own(u) = 1 => references[u] = 2
  /\ \A t \in Threads \ {u} : on[t] = u =>
       /\ references[u] = Own(u) + 1
       /\ \A s \in Threads \ {u} : on[s] = u => s = t
       /\ u \in detached <=> pc[t] = "releasing"
  /\ u \in detached /\ references[u] = Own(u) + 1 =>
       \E t \in Threads \ {u} : pc[t] = "releasing" /\ on[t] = u
Owned == \A u \in Threads : OwnedOf(u)

Followed(t) == \E c \in Threads : pc[c] = "cancelling" /\ on[c] = t

Attentive ==
  {t \in Threads : pc[t] = "posted" \/ (on[t] = Sem /\ pc[t] \in {"called", "woken", "relocking"})}

\* A canceller finds the condition of a wait from before its look at the request, and
\* what the predicate found under the mutex holds until the sleep.
Watched ==
  /\ \A t \in Threads :
       /\ pc[t] \in {"begun", "entering", "asleep", "woken"} => cancelWait[t] = on[t]
       /\ pc[t] \in {"entering", "asleep"} /\ Requested(t) => Followed(t)
       /\ pc[t] \in {"begun", "entering"} =>
            IF on[t] = Sem THEN count = 0 ELSE on[t] \notin finished
  /\ \A t \in finished : Asleep(t) # {} => pc[t] = "finished"
  /\ Asleep(Sem) # {} => count <= dropped + Cardinality(Attentive)

IInv == Typing /\ Engaged /\ Exits /\ Owned /\ Watched

\* The steps of one thread, by what they are about: its own life, another thread's
\* block, its wait, and those that others may be waiting for.
Lives(t) ==
  \/ PushHandler(t) \/ PopHandler(t) \/ Exit(t) \/ Check(t) \/ RunHandler(t)
  \/ HandlerReturns(t) \/ Finish(t) \/ Leave(t) \/ SetCancelState(t)
Manages(t) ==
  \/ \E u \in Threads : \/ \E isDetached \in BOOLEAN : Create(t, u, isDetached)
                        \/ Detach(t, u) \/ Cancel(t, u) \/ Join(t, u)
  \/ ReleaseHandle(t) \/ HostJoin(t)
Waits(t) ==
  \/ SemWait(t, TRUE) \/ SemWait(t, FALSE) \/ LockAndTest(t) \/ CheckBegun(t) \/ Sleep(t)
  \/ SpuriousWake(t) \/ Expire(t) \/ EndWait(t) \/ Relock(t)
Notifies(t) == Post(t) \/ Trywait(t) \/ NotifySem(t) \/ NotifyJoin(t) \/ CancelPass(t)
Step(t) == Lives(t) \/ Manages(t) \/ Waits(t) \/ Notifies(t)

-----------------------------------------------------------------------------
\* Every step keeps the types.
LEMMA TypingKept ==
  ASSUME Typing, Engaged, Owned, NEW t \in Threads, Step(t)
  PROVE  Typing'
<1> USE ConstantsAssumption DEF Typing, Engaged, OnItsCall, Owned, OwnedOf, Own,
      GoTo, LeaveWait, BeginWait, WakeAllAnd, Places, InWait, AtEnd, Conditions,
      waitVars, cancelVars, exitVars, objectVars, semVars
<1>1. CASE Lives(t)
  BY <1>1 DEF Lives, PushHandler, PopHandler, Exit, Check, StartExit, RunHandler,
       HandlerReturns, Finish, Leave, Release, SetCancelState
<1>2. CASE Manages(t)
  BY <1>2 DEF Manages, Create, Detach, ReleaseHandle, HostJoin, Release, Cancel, Join, Call,
       HandleIsFree
<1>3. CASE Waits(t)
  BY <1>3 DEF Waits, SemWait, Call, LockAndTest, Acquire, Begin, Ready, CheckBegun, StartExit,
       Sleep, SpuriousWake, Expire, EndWait, Relock, Abandon, TimeOut
<1>4. CASE Notifies(t)
  BY <1>4 DEF Notifies, Post, Trywait, NotifySem, NotifyJoin, CancelPass, Asleep
<1>5. QED
  BY <1>1, <1>2, <1>3, <1>4 DEF Step

\* Every step leaves each thread with the object its call is about.
LEMMA EngagedKept ==
  ASSUME Typing, Engaged, Owned, NEW t \in Threads, Step(t)
  PROVE  Engaged'
<1> USE ConstantsAssumption DEF Typing, Engaged, OnItsCall,
      GoTo, LeaveWait, BeginWait, WakeAllAnd, Places, InWait, AtEnd, Conditions,
      waitVars, cancelVars, exitVars, objectVars, semVars
<1>1. CASE Lives(t)
  BY <1>1 DEF Lives, PushHandler, PopHandler, Exit, Check, StartExit, RunHandler,
       HandlerReturns, Finish, Leave, Release, SetCancelState
<1>2. CASE Manages(t)
  BY <1>2 DEF Manages, Create, Detach, ReleaseHandle, HostJoin, Release, Cancel, Join, Call,
       HandleIsFree
<1>3. CASE Waits(t)
  BY <1>3 DEF Waits, SemWait, Call, LockAndTest, Acquire, Begin, Ready, CheckBegun, StartExit,
       Sleep, SpuriousWake, Expire, EndWait, Relock, Abandon, TimeOut
<1>4. CASE Notifies(t)
  BY <1>4 DEF Notifies, Post, Trywait, NotifySem, NotifyJoin, CancelPass, Asleep
<1>5. QED
  BY <1>1, <1>2, <1>3, <1>4 DEF Step

\* Every step keeps handlers to threads on their way out, and ends them before the thread.
LEMMA ExitsKept ==
  ASSUME Typing, Engaged, Exits, NEW t \in Threads, Step(t)
  PROVE  Exits'
<1> USE ConstantsAssumption DEF Typing, Exits, Requested,
      GoTo, LeaveWait, BeginWait, WakeAllAnd, Places, InWait, AtEnd, Conditions,
      waitVars, cancelVars, exitVars, objectVars, semVars
<1>1. CASE Lives(t)
  BY <1>1 DEF Lives, PushHandler, PopHandler, Exit, Check, StartExit, RunHandler,
       HandlerReturns, Finish, Leave, Release, SetCancelState
<1>2. CASE Manages(t)
  BY <1>2 DEF Manages, Create, Detach, ReleaseHandle, HostJoin, Release, Cancel, Join, Call,
       HandleIsFree
<1>3. CASE Waits(t)
  BY <1>3 DEF Waits, SemWait, Call, LockAndTest, Acquire, Begin, Ready, CheckBegun, StartExit,
       Sleep, SpuriousWake, Expire, EndWait, Relock, Abandon, TimeOut
<1>4. CASE Notifies(t)
  BY <1>4 DEF Notifies, Post, Trywait, NotifySem, NotifyJoin, CancelPass, Asleep
<1>5. QED
  BY <1>1, <1>2, <1>3, <1>4 DEF Step

\* A new thread has its own reference and the handle's, which is the guest's or, of a
\* detached thread, its creator's to give back.
LEMMA CreateKeepsOwned ==
  ASSUME Typing, Engaged, Owned, NEW t \in Threads, NEW u \in Threads, NEW isDetached \in BOOLEAN,
         Create(t, u, isDetached)
  PROVE  Owned'
<1> USE ConstantsAssumption DEF Typing, Conditions, Own
<1>1. u # t /\ pc[t] = "running" /\ pc[u] = "none" /\ on[t] = Nothing /\ u \notin detached
  BY DEF Create, Engaged, OnItsCall, Owned, OwnedOf
<1>2. \A s \in Threads \ {t} : on'[s] = on[s] /\ on[s] # u
  BY <1>1 DEF Create, Engaged, OnItsCall, Owned, OwnedOf
<1>3. \A v \in Threads \ {u} :
        /\ Own(v)' = Own(v) /\ references'[v] = references[v]
        /\ pc'[v] = "none" => pc[v] = "none"
        /\ v \in detached' <=> v \in detached
  BY <1>1 DEF Create
<1>4. references'[u] = 2 /\ Own(u)' = 1 /\ pc'[u] = "running"
  BY <1>1 DEF Create
<1>5. CASE isDetached
  <2>1. /\ pc'[t] = "releasing" /\ on'[t] = u /\ u \in detached'
        /\ \A s \in Threads \ {t, u} : pc'[s] = pc[s]
    BY <1>1, <1>5 DEF Create
  <2>2. \A s \in Threads \ {t} : on'[s] = on[s] /\ (pc'[s] = "releasing" <=> pc[s] = "releasing")
    BY <1>1, <1>2, <1>4, <2>1
  <2>3. \A v \in Threads \ {u}, s \in Threads : on'[s] = v <=> on[s] = v
    BY <1>1, <2>1, <2>2
  <2>4. ASSUME NEW v \in Threads \ {u} PROVE OwnedOf(v)'
    BY <1>1, <1>2, <1>3, <1>4, <2>1, <2>2, <2>3 DEF Owned, OwnedOf
  <2>5. OwnedOf(u)'
    BY <1>1, <1>2, <1>3, <1>4, <2>1, <2>2 DEF Owned, OwnedOf
  <2>6. QED
    BY <2>4, <2>5 DEF Owned
<1>6. CASE ~isDetached
  <2>1. /\ \A s \in Threads :
             on'[s] = on[s] /\ (pc'[s] = "releasing" <=> pc[s] = "releasing") /\ on'[s] # u
        /\ detached' = detached
    BY <1>1, <1>2, <1>6, ConstantsAssumption DEF Create, Conditions
  <2>2. ASSUME NEW v \in Threads \ {u} PROVE OwnedOf(v)'
    BY <1>1, <1>2, <1>3, <1>4, <2>1 DEF Owned, OwnedOf
  <2>3. OwnedOf(u)'
    BY <1>1, <1>2, <1>3, <1>4, <2>1 DEF Owned, OwnedOf
  <2>4. QED
    BY <2>2, <2>3 DEF Owned
<1>7. QED
  BY <1>5, <1>6

\* Every step accounts for the references of every block.
LEMMA OwnedKept ==
  ASSUME Typing, Engaged, Owned, NEW t \in Threads, Step(t)
  PROVE  Owned'
<1> USE ConstantsAssumption DEF Typing, Engaged, OnItsCall, Owned, OwnedOf, Own,
      GoTo, LeaveWait, BeginWait, WakeAllAnd, Places, InWait, AtEnd, Conditions,
      waitVars, cancelVars, exitVars, objectVars, semVars
<1>1. CASE Lives(t)
  BY <1>1 DEF Lives, PushHandler, PopHandler, Exit, Check, StartExit, RunHandler,
       HandlerReturns, Finish, Leave, Release, SetCancelState
<1>2. CASE Manages(t)
  <2>1. CASE \E u \in Threads, isDetached \in BOOLEAN : Create(t, u, isDetached)
    BY <2>1, CreateKeepsOwned
  <2>2. CASE \E u \in Threads : Detach(t, u)
    BY <2>2 DEF Detach, HandleIsFree
  <2>3. CASE \E u \in Threads : Join(t, u)
    BY <2>3 DEF Join, Call, HandleIsFree
  <2>4. CASE \E u \in Threads : Cancel(t, u)
    BY <2>4 DEF Cancel, HandleIsFree
  <2>5. CASE ReleaseHandle(t)
    BY <2>5 DEF ReleaseHandle, Release
  <2>6. CASE HostJoin(t)
    BY <2>6 DEF HostJoin, Release
  <2>7. QED
    BY <1>2, <2>1, <2>2, <2>3, <2>4, <2>5, <2>6 DEF Manages
<1>3. CASE Waits(t)
  BY <1>3 DEF Waits, SemWait, Call, LockAndTest, Acquire, Begin, Ready, CheckBegun, StartExit,
       Sleep, SpuriousWake, Expire, EndWait, Relock, Abandon, TimeOut
<1>4. CASE Notifies(t)
  BY <1>4 DEF Notifies, Post, Trywait, NotifySem, NotifyJoin, CancelPass, Asleep
<1>5. QED
  BY <1>1, <1>2, <1>3, <1>4 DEF Step

-----------------------------------------------------------------------------
\* cancelWait names the condition of a wait from its BeginWait to its EndWait.
LEMMA ConditionsShown ==
  ASSUME Typing, Engaged, Watched, NEW t \in Threads, Step(t)
  PROVE  (\A s \in Threads :
            pc[s] \in {"begun", "entering", "asleep", "woken"} => cancelWait[s] = on[s])'
<1> USE ConstantsAssumption DEF Typing, Engaged, OnItsCall, Watched,
      GoTo, LeaveWait, BeginWait, WakeAllAnd, Places, InWait, AtEnd, Conditions,
      waitVars, cancelVars, exitVars, objectVars, semVars
<1>1. CASE Lives(t)
  BY <1>1 DEF Lives, PushHandler, PopHandler, Exit, Check, StartExit, RunHandler,
       HandlerReturns, Finish, Leave, Release, SetCancelState
<1>2. CASE Manages(t)
  BY <1>2 DEF Manages, Create, Detach, ReleaseHandle, HostJoin, Release, Cancel, Join, Call,
       HandleIsFree
<1>3. CASE Waits(t)
  BY <1>3 DEF Waits, SemWait, Call, LockAndTest, Acquire, Begin, Ready, CheckBegun, StartExit,
       Sleep, SpuriousWake, Expire, EndWait, Relock, Abandon, TimeOut
<1>4. CASE Notifies(t)
  BY <1>4 DEF Notifies, Post, Trywait, NotifySem, NotifyJoin, CancelPass, Asleep
<1>5. QED
  BY <1>1, <1>2, <1>3, <1>4 DEF Step

\* A canceller stays with a thread whose wait began before its request.
LEMMA RequestsFollowed ==
  ASSUME Typing, Engaged, Watched, NEW t \in Threads, Step(t)
  PROVE  (\A s \in Threads : pc[s] \in {"entering", "asleep"} /\ Requested(s) => Followed(s))'
<1> USE ConstantsAssumption DEF Typing, Engaged, OnItsCall, Watched, Requested, Followed,
      GoTo, LeaveWait, BeginWait, WakeAllAnd, Places, InWait, AtEnd, Conditions,
      waitVars, cancelVars, exitVars, objectVars, semVars
<1>1. CASE Lives(t)
  BY <1>1 DEF Lives, PushHandler, PopHandler, Exit, Check, StartExit, RunHandler,
       HandlerReturns, Finish, Leave, Release, SetCancelState
<1>2. CASE Manages(t)
  BY <1>2 DEF Manages, Create, Detach, ReleaseHandle, HostJoin, Release, Cancel, Join, Call,
       HandleIsFree
<1>3. CASE Waits(t)
  BY <1>3 DEF Waits, SemWait, Call, LockAndTest, Acquire, Begin, Ready, CheckBegun, StartExit,
       Sleep, SpuriousWake, Expire, EndWait, Relock, Abandon, TimeOut
<1>4. CASE Notifies(t)
  BY <1>4 DEF Notifies, Post, Trywait, NotifySem, NotifyJoin, CancelPass, Asleep
<1>5. QED
  BY <1>1, <1>2, <1>3, <1>4 DEF Step

\* What a predicate found stays so while its wait holds the mutex.
LEMMA PredicatesHold ==
  ASSUME Typing, Engaged, Watched, NEW t \in Threads, Step(t)
  PROVE  (\A s \in Threads : pc[s] \in {"begun", "entering"} =>
           IF on[s] = Sem THEN count = 0 ELSE on[s] \notin finished)'
<1> USE ConstantsAssumption DEF Typing, Engaged, OnItsCall, Watched, Locked,
      GoTo, LeaveWait, BeginWait, WakeAllAnd, Places, InWait, AtEnd, Conditions,
      waitVars, cancelVars, exitVars, objectVars, semVars
<1>1. CASE Lives(t)
  BY <1>1 DEF Lives, PushHandler, PopHandler, Exit, Check, StartExit, RunHandler,
       HandlerReturns, Finish, Leave, Release, SetCancelState
<1>2. CASE Manages(t)
  BY <1>2 DEF Manages, Create, Detach, ReleaseHandle, HostJoin, Release, Cancel, Join, Call,
       HandleIsFree
<1>3. CASE Waits(t)
  BY <1>3 DEF Waits, SemWait, Call, LockAndTest, Acquire, Begin, Ready, CheckBegun, StartExit,
       Sleep, SpuriousWake, Expire, EndWait, Relock, Abandon, TimeOut
<1>4. CASE Notifies(t)
  BY <1>4 DEF Notifies, Post, Trywait, NotifySem, NotifyJoin, CancelPass, Asleep
<1>5. QED
  BY <1>1, <1>2, <1>3, <1>4 DEF Step

\* The joiners of a thread that has finished sleep no longer than to its notification.
LEMMA JoinersNotified ==
  ASSUME Typing, Engaged, Watched, NEW t \in Threads, Step(t)
  PROVE  (\A s \in finished : Asleep(s) # {} => pc[s] = "finished")'
<1> USE ConstantsAssumption DEF Typing, Engaged, OnItsCall, Watched, Asleep,
      GoTo, LeaveWait, BeginWait, WakeAllAnd, Places, InWait, AtEnd, Conditions,
      waitVars, cancelVars, exitVars, objectVars, semVars
<1>1. CASE Lives(t)
  BY <1>1 DEF Lives, PushHandler, PopHandler, Exit, Check, StartExit, RunHandler,
       HandlerReturns, Finish, Leave, Release, SetCancelState
<1>2. CASE Manages(t)
  BY <1>2 DEF Manages, Create, Detach, ReleaseHandle, HostJoin, Release, Cancel, Join, Call,
       HandleIsFree
<1>3. CASE Waits(t)
  BY <1>3 DEF Waits, SemWait, Call, LockAndTest, Acquire, Begin, Ready, CheckBegun, StartExit,
       Sleep, SpuriousWake, Expire, EndWait, Relock, Abandon, TimeOut
<1>4. CASE Notifies(t)
  BY <1>4 DEF Notifies, Post, Trywait, NotifySem, NotifyJoin, CancelPass, Asleep
<1>5. QED
  BY <1>1, <1>2, <1>3, <1>4 DEF Step

\* Sets of threads grow, shrink and stay together with their cardinality.
LEMMA AttentiveCounts ==
  ASSUME NEW A \in SUBSET Threads, NEW B \in SUBSET Threads, NEW t \in Threads
  PROVE  /\ Cardinality(A) \in Nat /\ Cardinality(B) \in Nat
         /\ A \subseteq B => Cardinality(A) <= Cardinality(B)
         /\ A \subseteq B /\ t \notin A /\ t \in B => Cardinality(A) + 1 <= Cardinality(B)
         /\ A \ {t} \subseteq B => Cardinality(A) <= Cardinality(B) + 1
<1>1. IsFiniteSet(A) /\ IsFiniteSet(B)
  BY ConstantsAssumption, FS_Subset
<1>2. /\ Cardinality(A) \in Nat /\ Cardinality(B) \in Nat
      /\ A \subseteq B => Cardinality(A) <= Cardinality(B)
  BY <1>1, FS_CardinalityType, FS_Subset
<1>3. ASSUME A \subseteq B, t \notin A, t \in B PROVE Cardinality(A) + 1 <= Cardinality(B)
  <2>1. Cardinality(A \cup {t}) = Cardinality(A) + 1 /\ A \cup {t} \subseteq B
    BY <1>1, <1>3, FS_AddElement
  <2>2. QED
    BY <1>1, <2>1, FS_Subset
<1>4. ASSUME A \ {t} \subseteq B PROVE Cardinality(A) <= Cardinality(B) + 1
  <2>1. Cardinality(A \ {t}) <= Cardinality(B)
    BY <1>1, <1>4, FS_Subset
  <2>2. Cardinality(A \ {t}) = IF t \in A THEN Cardinality(A) - 1 ELSE Cardinality(A)
    BY <1>1, FS_RemoveElement
  <2>3. QED
    BY <1>2, <2>1, <2>2
<1>5. QED
  BY <1>2, <1>3, <1>4

\* Whatever a step does to the tokens, it does to those who will look after them.
LEMMA TokensCovered ==
  ASSUME Typing, Engaged, Watched, Typing', NEW t \in Threads, Step(t), (Asleep(Sem) # {})'
  PROVE  (count <= dropped + Cardinality(Attentive))'
<1> USE ConstantsAssumption DEF Typing, Conditions
<1> DEFINE A == Attentive
           Covered == count <= dropped + Cardinality(A)
           Same == A \subseteq A' /\ count' = count /\ dropped' = dropped
<1>1. A \in SUBSET Threads /\ A' \in SUBSET Threads
  BY DEF Attentive
<1>2. /\ Cardinality(A) \in Nat /\ count \in Nat /\ dropped \in Nat
      /\ Cardinality(A)' \in Nat /\ count' \in Nat /\ dropped' \in Nat
  BY <1>1, AttentiveCounts
<1>3. CASE count' = 0
  BY <1>2, <1>3
<1>4. CASE Asleep(Sem) # {} /\ Same
  BY <1>1, <1>2, <1>4, AttentiveCounts DEF Watched
<1>5. CASE Post(t)
  <2>1. Asleep(Sem) # {}
    BY <1>5 DEF Post, GoTo, waitVars, Asleep
  <2>2. A \subseteq A' /\ t \notin A /\ t \in A'
    BY <1>5 DEF Post, GoTo, waitVars, Attentive, Engaged, OnItsCall
  <2>3. count' = count + 1 /\ dropped' = dropped
    BY <1>5 DEF Post
  <2>4. QED
    BY <1>1, <1>2, <2>1, <2>2, <2>3, AttentiveCounts DEF Watched
<1>6. CASE NotifySem(t)
  <2>1. PICK u \in Asleep(Sem) : pc' = [pc EXCEPT ![t] = "running", ![u] = "woken"]
    BY <1>6 DEF NotifySem, GoTo, waitVars, Asleep
  <2>2. u \in Threads \ A /\ u # t /\ t \in A /\ (A \ {t}) \cup {u} \subseteq A'
    BY <1>6, <2>1 DEF NotifySem, waitVars, Asleep, Attentive, Engaged, OnItsCall
  <2>3. Cardinality(A \ {t}) = Cardinality(A) - 1
    BY <1>1, <2>2, FS_RemoveElement, FS_Subset
  <2>4. Cardinality(A \ {t}) + 1 <= Cardinality(A')
    BY <1>1, <2>2, AttentiveCounts
  <2>5. count' = count /\ dropped' = dropped
    BY <1>6 DEF NotifySem, semVars
  <2>6. QED
    BY <1>2, <2>1, <2>3, <2>4, <2>5 DEF Watched
<1>7. ASSUME Asleep(Sem) # {}, A \ {t} \subseteq A',
             \/ count' = count - 1 /\ dropped' = dropped
             \/ count' = count /\ dropped' = dropped + 1
      PROVE  Covered'
  <2>1. count <= dropped + Cardinality(A)
    BY <1>7 DEF Watched
  <2>2. Cardinality(A) <= Cardinality(A') + 1
    BY <1>1, <1>7, AttentiveCounts
  <2> HIDE DEF Typing, A
  <2>3. CASE count' = count - 1 /\ dropped' = dropped
    BY <1>2, <2>1, <2>2, <2>3
  <2>4. CASE count' = count /\ dropped' = dropped + 1
    BY <1>2, <2>1, <2>2, <2>4
  <2>5. QED
    BY <1>7, <2>3, <2>4
<1> HIDE DEF A, Same
<1> USE DEF A, Same, Attentive, Asleep, Engaged, OnItsCall, GoTo, LeaveWait, BeginWait,
      WakeAllAnd, Places, InWait, AtEnd, waitVars, cancelVars, exitVars, objectVars, semVars
<1>8. CASE Sleep(t)
  <2>1. CASE on[t] = Sem
    BY <1>3, <1>8, <2>1 DEF Sleep, Watched
  <2>2. CASE on[t] # Sem
    BY <1>4, <1>8, <2>2 DEF Sleep
  <2>3. QED
    BY <2>1, <2>2
<1>9. CASE LockAndTest(t)
  <2>1. CASE on[t] # Sem
    BY <1>4, <1>9, <2>1 DEF LockAndTest, Acquire, Begin
  <2>2. CASE on[t] = Sem /\ count > 0
    <3>1. count' = count - 1 /\ (count' = 0 \/ dropped' = dropped)
      BY <1>2, <1>9, <2>2 DEF LockAndTest, Acquire, Ready
    <3>2. Asleep(Sem) # {} /\ A \ {t} \subseteq A'
      BY <1>9, <2>2 DEF LockAndTest, Acquire, Ready
    <3>3. QED
      BY <1>2, <1>3, <1>7, <3>1, <3>2
  <2>3. CASE on[t] = Sem /\ ~(count > 0)
    BY <1>2, <1>3, <1>9, <2>3 DEF LockAndTest, Begin, Ready
  <2>4. QED
    BY <2>1, <2>2, <2>3
<1>10. CASE Relock(t)
  <2>1. CASE on[t] # Sem
    BY <1>4, <1>10, <2>1 DEF Relock, Abandon, StartExit, Acquire, TimeOut, Begin
  <2>2. CASE on[t] = Sem /\ ~(count > 0)
    BY <1>2, <1>3, <1>10, <2>2 DEF Relock, Ready, Abandon, StartExit, TimeOut, Begin
  <2>3. CASE on[t] = Sem /\ count > 0 /\ Requested(t)
    BY <1>2, <1>7, <1>10, <2>3 DEF Relock, Abandon, StartExit
  <2>4. CASE on[t] = Sem /\ count > 0 /\ ~Requested(t)
    <3>1. count' = count - 1 /\ (count' = 0 \/ dropped' = dropped)
      BY <1>2, <1>10, <2>4 DEF Relock, Acquire, Ready
    <3>2. Asleep(Sem) # {} /\ A \ {t} \subseteq A'
      BY <1>10, <2>4 DEF Relock, Acquire, Ready
    <3>3. QED
      BY <1>2, <1>3, <1>7, <3>1, <3>2
  <2>5. QED
    BY <2>1, <2>2, <2>3, <2>4
<1>11. CASE \/ SemWait(t, TRUE) \/ SemWait(t, FALSE) \/ CheckBegun(t)
            \/ SpuriousWake(t) \/ Expire(t) \/ EndWait(t)
  BY <1>4, <1>11 DEF SemWait, Call, CheckBegun, StartExit, SpuriousWake, Expire, EndWait
<1>12. CASE Trywait(t)
  BY <1>2, <1>4, <1>7, <1>12 DEF Trywait
<1>13. CASE NotifyJoin(t) \/ CancelPass(t)
  BY <1>4, <1>13 DEF NotifyJoin, CancelPass
<1>14. CASE Lives(t)
  BY <1>4, <1>14 DEF Lives, PushHandler, PopHandler, Exit, Check, StartExit, RunHandler,
       HandlerReturns, Finish, Leave, SetCancelState
<1>15. CASE Manages(t)
  BY <1>4, <1>15 DEF Manages, Create, Detach, ReleaseHandle, HostJoin, Cancel, Join, Call
<1>16. QED
  BY <1>5, <1>6, <1>8, <1>9, <1>10, <1>11, <1>12, <1>13, <1>14, <1>15 DEF Step, Waits, Notifies

-----------------------------------------------------------------------------
\* One thread that owns itself, and nobody waits.
LEMMA InitHolds == Init => IInv
<1> USE ConstantsAssumption
<1>1. Init => Typing
  BY DEF Init, Typing, Places
<1>2. Init => Engaged /\ Exits
  BY DEF Init, Engaged, OnItsCall, Exits, InWait, AtEnd
<1>3. Init => Owned
  BY DEF Init, Owned, OwnedOf, Own, Conditions
<1>4. Init => Watched
  BY DEF Init, Watched, Asleep
<1>5. QED
  BY <1>1, <1>2, <1>3, <1>4 DEF IInv

\* IInv is an invariant of creation, exit, join, detach, cancellation and the waits.
THEOREM InvariantHolds == Spec => []IInv
<1>1. IInv /\ [Next]_vars => IInv'
  <2> SUFFICES ASSUME IInv, [Next]_vars PROVE IInv'
    OBVIOUS
  <2>1. CASE UNCHANGED vars
    BY <2>1 DEF vars, waitVars, cancelVars, exitVars, objectVars, semVars, IInv, Typing, Engaged,
         OnItsCall, Exits, Owned, OwnedOf, Own, Watched, Requested, Followed, Asleep, Attentive
  <2>2. ASSUME NEW t \in Threads, Step(t) PROVE IInv'
    <3>1. Typing' /\ Engaged' /\ Exits' /\ Owned'
      BY <2>2, TypingKept, EngagedKept, ExitsKept, OwnedKept DEF IInv
    <3>2. Watched'
      BY <2>2, <3>1, ConditionsShown, RequestsFollowed, PredicatesHold, JoinersNotified,
           TokensCovered DEF IInv, Watched
    <3>3. QED
      BY <3>1, <3>2 DEF IInv
  <2>3. Next => \E t \in Threads : Step(t)
    BY DEF Next, Guest, Continue, TakesMutex, Step, Lives, Manages, Waits, Notifies
  <2>4. QED
    BY <2>1, <2>2, <2>3
<1>2. QED
  BY <1>1, InitHolds, PTL DEF Spec

\* The variables keep their types; a block has at most its thread's reference and the
\* handle's.
THEOREM TypeCorrect == Spec => []TypeOK
<1>1. IInv => TypeOK
  <2> SUFFICES ASSUME IInv PROVE TypeOK
    OBVIOUS
  <2>1. \A u \in Threads : references[u] \in 0..2
    BY DEF IInv, Owned, OwnedOf, Own
  <2>2. QED
    BY <2>1 DEF IInv, Typing, TypeOK
<1>2. QED
  BY <1>1, InvariantHolds, PTL

\* Nobody sleeps through a cancellation, the end of its target or a token: of Cancel.hpp's
\* waits with the loop of scePthreadCancel, of scePthreadJoin and of the semaphore.
THEOREM NoMissedWakeupHolds == Spec => []NoMissedWakeup
<1>1. IInv => NoMissedWakeup
  BY DEF IInv, Watched, NoMissedWakeup, Followed, Attentive
<1>2. QED
  BY <1>1, InvariantHolds, PTL

\* No cancellation point in a cleanup handler starts a second exit: the handler returns
\* before its thread goes on to finish.
THEOREM CleanupUninterruptedHolds == Spec => []CleanupUninterrupted
<1>1. IInv => CleanupUninterrupted
  BY DEF IInv, Exits, CleanupUninterrupted
<1>2. QED
  BY <1>1, InvariantHolds, PTL

\* A PthreadPrivate is deleted by the last of its thread and its handle, never under a
\* call that uses it and not later than that.
THEOREM NeverFreedInUseHolds == Spec => []NeverFreedInUse
<1>1. IInv => NeverFreedInUse
  <2> SUFFICES ASSUME IInv, NEW u \in Threads
               PROVE  /\ references[u] = 0 =>
                           pc[u] \in {"none", "gone"} /\ \A t \in Threads : on[t] # u
                      /\ pc[u] = "gone" /\ u \in detached /\ (\A t \in Threads : on[t] # u) =>
                           references[u] = 0
    BY DEF NeverFreedInUse
  <2>1. OwnedOf(u) /\ OnItsCall(u)
    BY DEF IInv, Owned, Engaged
  <2>2. pc[u] \in {"none", "gone"} => on[u] # u
    BY <2>1, ConstantsAssumption DEF OnItsCall, AtEnd, Conditions
  <2>3. QED
    BY <2>1, <2>2 DEF OwnedOf, Own
<1>2. QED
  BY <1>1, InvariantHolds, PTL
=============================================================================
