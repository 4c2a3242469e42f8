--------------------------- MODULE SemaphoreProofs ---------------------------
(***************************************************************************)
(* Machine-checked proofs about Semaphore, for every set of threads and of *)
(* calls and for every predicate and function the callers pass.            *)
(***************************************************************************)
EXTENDS Semaphore, TLAPS

\* The functions given to when() and waitAndDo() make counts of counts.
FunNat == \A c \in Calls, k \in Nat : Fun(c, k) \in Nat

\* What a call record holds.
LEMMA CallFields ==
  ASSUME TypeOK, NEW t \in Threads
  PROVE  call[t] \in Calls /\ call[t].op \in Ops /\ call[t].n \in Nat
BY CallsAssumption DEF TypeOK

LEMMA TypeInit == Init => TypeOK
<1> SUFFICES ASSUME Init PROVE TypeOK
  OBVIOUS
<1>1. (CHOOSE c \in Calls : TRUE) \in Calls
  BY CallsAssumption
<1>2. call \in [Threads -> Calls]
  BY <1>1 DEF Init
<1>3. made \in [Threads -> Nat]
  BY DEF Init
<1>4. result \in [Threads -> BOOLEAN] /\ overlooked \subseteq Threads
  BY DEF Init
<1>5. /\ count \in Nat /\ mutex \subseteq Threads
      /\ pc \in [Threads -> {"out", "locking", "inside", "sleeping", "asleep",
                            "callback", "notifying", "leaving"}]
  BY DEF Init
<1> QED
  BY <1>2, <1>3, <1>4, <1>5 DEF TypeOK

\* The bodies by what they do: they perform the call, refuse it, or end it.
\* A call that notifies nobody does not raise the count.
LEMMA BodyCases ==
  ASSUME TypeOK, FunNat, NEW t \in Threads, Body(t)
  PROVE  \/ /\ pc[t] = "inside"
            /\ \E new \in Nat, holds \in BOOLEAN,
                  label \in {"notifying", "leaving", "callback"} :
                 /\ Perform(t, new, holds, label)
                 /\ label = "notifying" \/ new <= count
         \/ pc[t] = "inside" /\ ~Ready(t) /\ Refuse(t)
         \/ Callback(t) \/ Sleep(t) \/ Notify(t) \/ Unlock(t)
<1>1. count \in Nat /\ call[t].n \in Nat /\ Fun(call[t], count) \in Nat
  BY CallFields DEF TypeOK, FunNat
<1>2. count + call[t].n \in Nat
  BY <1>1
<1>3. count >= call[t].n => count - call[t].n \in Nat /\ count - call[t].n <= count
  BY <1>1
<1>4. count < call[t].n => ~(count >= call[t].n)
  BY <1>1
<1>5. count <= count
  BY <1>1
<1>6. CASE Release(t) \/ SetTo(t)
  BY <1>1, <1>2, <1>6 DEF Release, SetTo, Inside
<1>7. CASE Acquire(t) \/ AcquireAndDo(t)
  BY <1>3, <1>4, <1>7 DEF Acquire, AcquireAndDo, Inside, Ready, Atomic!Holds, Atomic!Testing
<1>8. CASE WaitFor(t)
  BY <1>1, <1>5, <1>8 DEF WaitFor, Inside, Ready, Atomic!Holds, Atomic!Testing
<1>9. CASE When(t) \/ IfThenSetTo(t)
  BY <1>1, <1>5, <1>9 DEF When, IfThenSetTo, Inside
<1>10. CASE WaitAndDo(t) \/ WaitAndSetTo(t)
  BY <1>1, <1>10 DEF WaitAndDo, WaitAndSetTo, Inside, Ready, Atomic!Holds, Atomic!Testing
<1> QED
  BY <1>6, <1>7, <1>8, <1>9, <1>10 DEF Body

LEMMA TypeStep ==
  ASSUME TypeOK, FunNat, [Next]_vars
  PROVE  TypeOK'
<1>1. ASSUME NEW t \in Threads, Enter(t) PROVE TypeOK'
  BY <1>1 DEF Enter, Goto, TypeOK
<1>2. ASSUME NEW t \in Threads, Lock(t) \/ SpuriousWakeup(t) PROVE TypeOK'
  BY <1>2 DEF Lock, SpuriousWakeup, Goto, TypeOK
<1>3. ASSUME NEW t \in Threads, Body(t) PROVE TypeOK'
  <2>1. ASSUME NEW new \in Nat, NEW holds \in BOOLEAN,
               NEW label \in {"notifying", "leaving", "callback"},
               Perform(t, new, holds, label)
        PROVE  TypeOK'
    <3>1. /\ count' \in Nat /\ mutex' \subseteq Threads /\ call' \in [Threads -> Calls]
          /\ made' \in [Threads -> Nat]
      BY <2>1 DEF Perform, TypeOK
    <3>2. pc' \in [Threads -> {"out", "locking", "inside", "sleeping", "asleep",
                              "callback", "notifying", "leaving"}]
      BY <2>1 DEF Perform, Goto, TypeOK
    <3>3. result' \in [Threads -> BOOLEAN] /\ overlooked' \subseteq Threads
      BY <2>1 DEF Perform, TypeOK, Atomic!MadeTrue
    <3> QED
      BY <3>1, <3>2, <3>3 DEF TypeOK
  <2>2. CASE Refuse(t) \/ Callback(t)
    BY <2>2 DEF Refuse, Callback, Goto, TypeOK
  <2>3. CASE Sleep(t) \/ Unlock(t)
    BY <2>3 DEF Sleep, Unlock, Goto, TypeOK
  <2>4. CASE Notify(t)
    BY <2>4 DEF Notify, TypeOK
  <2> QED
    BY <1>3, <2>1, <2>2, <2>3, <2>4, BodyCases
<1>4. CASE UNCHANGED vars
  BY <1>4 DEF vars, TypeOK
<1> QED
  BY <1>1, <1>2, <1>3, <1>4 DEF Next

LEMMA MutexStep ==
  ASSUME TypeOK, FunNat, MutualExclusion, [Next]_vars
  PROVE  MutualExclusion'
<1> USE DEF MutualExclusion, TypeOK, Goto
<1>1. ASSUME NEW t \in Threads, Enter(t) \/ Lock(t) \/ SpuriousWakeup(t)
      PROVE  MutualExclusion'
  BY <1>1 DEF Enter, Lock, SpuriousWakeup
<1>2. ASSUME NEW t \in Threads, Body(t) PROVE MutualExclusion'
  <2>1. ASSUME NEW new \in Nat, NEW holds \in BOOLEAN,
               NEW label \in {"notifying", "leaving", "callback"},
               Perform(t, new, holds, label), pc[t] = "inside"
        PROVE  MutualExclusion'
    BY <2>1 DEF Perform
  <2>2. CASE pc[t] = "inside" /\ Refuse(t)
    BY <2>2 DEF Refuse
  <2>3. CASE Callback(t) \/ Sleep(t) \/ Unlock(t)
    BY <2>3 DEF Callback, Sleep, Unlock
  <2>4. CASE Notify(t)
    BY <2>4 DEF Notify
  <2> QED
    BY <1>2, <2>1, <2>2, <2>3, <2>4, BodyCases
<1>3. CASE UNCHANGED vars
  BY <1>3 DEF vars
<1> QED
  BY <1>1, <1>2, <1>3 DEF Next

\* Only the calls that wait go to sleep.
SleepersBlock ==
  \A t \in Threads : pc[t] \in {"sleeping", "asleep"} => call[t].op \in Atomic!Blocking

LEMMA SleepersStep ==
  ASSUME TypeOK, SleepersBlock, [Next]_vars
  PROVE  SleepersBlock'
<1> USE DEF TypeOK, SleepersBlock, Goto
<1>1. ASSUME NEW t \in Threads, Enter(t) \/ Lock(t) \/ SpuriousWakeup(t)
      PROVE  SleepersBlock'
  BY <1>1 DEF Enter, Lock, SpuriousWakeup
<1>2. ASSUME NEW t \in Threads, Release(t) \/ SetTo(t) \/ When(t) \/ IfThenSetTo(t)
      PROVE  SleepersBlock'
  BY <1>2 DEF Release, SetTo, When, IfThenSetTo, Perform
<1>3. ASSUME NEW t \in Threads, Acquire(t) \/ AcquireAndDo(t) \/ WaitFor(t)
      PROVE  SleepersBlock'
  BY <1>3 DEF Acquire, AcquireAndDo, WaitFor, Inside, Perform, Refuse, Atomic!Blocking
<1>4. ASSUME NEW t \in Threads, WaitAndDo(t) \/ WaitAndSetTo(t)
      PROVE  SleepersBlock'
  BY <1>4 DEF WaitAndDo, WaitAndSetTo, Inside, Perform, Refuse, Atomic!Blocking
<1>5. ASSUME NEW t \in Threads, Callback(t) \/ Sleep(t) \/ Notify(t) \/ Unlock(t)
      PROVE  SleepersBlock'
  BY <1>5 DEF Callback, Sleep, Notify, Unlock
<1>6. CASE UNCHANGED vars
  BY <1>6 DEF vars
<1> QED
  BY <1>1, <1>2, <1>3, <1>4, <1>5, <1>6 DEF Next, Body

LEMMA WakeupStep ==
  ASSUME TypeOK, FunNat, MutualExclusion, SleepersBlock, NoMissedWakeup, [Next]_vars
  PROVE  NoMissedWakeup'
<1> USE DEF TypeOK
<1>1. ASSUME NEW t \in Threads, Enter(t) PROVE NoMissedWakeup'
  <2>1. /\ pc[t] = "out" /\ pc' = [pc EXCEPT ![t] = "locking"]
        /\ UNCHANGED <<count, overlooked>>
        /\ \A s \in Threads \ {t} : call'[s] = call[s]
    BY <1>1 DEF Enter, Goto
  <2> QED
    BY <2>1 DEF NoMissedWakeup, Ready, State
<1>2. ASSUME NEW t \in Threads, Lock(t) \/ SpuriousWakeup(t) PROVE NoMissedWakeup'
  <2>1. /\ pc[t] \in {"locking", "asleep"}
        /\ \E label \in {"inside", "locking"} : pc' = [pc EXCEPT ![t] = label]
        /\ UNCHANGED <<count, overlooked, call>>
    BY <1>2 DEF Lock, SpuriousWakeup, Goto
  <2> QED
    BY <2>1 DEF NoMissedWakeup, Ready, State
<1>3. ASSUME NEW t \in Threads, Body(t) PROVE NoMissedWakeup'
  <2>1. ASSUME NEW new \in Nat, NEW holds \in BOOLEAN,
               NEW label \in {"notifying", "leaving", "callback"},
               Perform(t, new, holds, label), pc[t] = "inside",
               label = "notifying" \/ new <= count
        PROVE  NoMissedWakeup'
    <3>1. /\ count' = new /\ pc' = [pc EXCEPT ![t] = label] /\ call' = call
          /\ overlooked' = IF label = "notifying" THEN {}
                           ELSE (overlooked \cup Atomic!MadeTrue(new)) \ {t}
      BY <2>1 DEF Perform, Goto
    <3>2. \A s \in Threads : pc[s] \notin {"sleeping", "notifying"}
      BY <2>1 DEF MutualExclusion
    <3>3. \A s \in Threads : pc'[s] # "sleeping"
      BY <3>1, <3>2
    <3>4. ASSUME NEW s \in Threads, pc'[s] = "asleep", Ready(s)', s \notin overlooked'
          PROVE  label = "notifying"
      <4>1. pc[s] = "asleep" /\ s # t
        BY <2>1, <3>1, <3>4
      <4>2. SUFFICES ASSUME label # "notifying"
                     PROVE  FALSE
        OBVIOUS
      <4>3. s \notin overlooked /\ s \notin Atomic!MadeTrue(new)
        BY <3>1, <3>4, <4>1, <4>2
      <4>4. ~Ready(s)
        BY <3>2, <4>1, <4>3 DEF NoMissedWakeup
      <4>5. Atomic!Holds(call[s], new) /\ ~Atomic!Holds(call[s], count)
        BY <3>1, <3>4, <4>4 DEF Ready
      <4>6. call[s].op \in Atomic!Blocking
        BY <4>1 DEF SleepersBlock
      <4> QED
        BY <4>1, <4>3, <4>5, <4>6 DEF Atomic!MadeTrue, State
    <3>5. label = "notifying" => \E s \in Threads : pc'[s] = "notifying"
      BY <3>1
    <3>6. ASSUME NEW s \in Threads, s \in overlooked'
          PROVE  /\ State(s)' = "called"
                 /\ call'[s].op \in {"waitFor", "waitAndDo", "waitAndSetTo"}
      <4>1. s # t /\ label # "notifying"
        BY <3>1, <3>6
      <4>2. State(s)' = State(s)
        BY <3>1, <4>1 DEF State
      <4>3. CASE s \in overlooked
        BY <3>1, <4>2, <4>3 DEF NoMissedWakeup
      <4>4. CASE s \in Atomic!MadeTrue(new)
        <5>1. /\ State(s) = "called" /\ call[s].op \in Atomic!Blocking
              /\ Atomic!Holds(call[s], new) /\ ~Atomic!Holds(call[s], count)
          BY <4>4 DEF Atomic!MadeTrue
        <5>2. new <= count /\ count \in Nat
          BY <2>1, <4>1
        <5>3. call[s].op \notin {"acquire", "acquireAndDo"}
          BY <5>1, <5>2, CallFields DEF Atomic!Holds, Atomic!Testing
        <5> QED
          BY <3>1, <4>2, <5>1, <5>3 DEF Atomic!Blocking
      <4> QED
        BY <3>1, <3>6, <4>1, <4>3, <4>4
    <3> QED
      BY <3>3, <3>4, <3>5, <3>6 DEF NoMissedWakeup
  <2>2. CASE ~Ready(t) /\ Refuse(t) /\ pc[t] = "inside"
    <3>1. pc' = [pc EXCEPT ![t] = "sleeping"] /\ UNCHANGED <<count, overlooked, call>>
      BY <2>2 DEF Refuse, Goto
    <3> QED
      BY <2>2, <3>1 DEF NoMissedWakeup, Ready, State
  <2>3. CASE Callback(t) \/ Unlock(t)
    <3>1. /\ pc[t] \in {"callback", "leaving"}
          /\ \E label \in {"leaving", "out"} : pc' = [pc EXCEPT ![t] = label]
          /\ UNCHANGED <<count, overlooked, call>>
      BY <2>3 DEF Callback, Unlock, Goto
    <3> QED
      BY <3>1 DEF NoMissedWakeup, Ready, State
  <2>4. CASE Sleep(t)
    <3>1. /\ pc[t] = "sleeping" /\ pc' = [pc EXCEPT ![t] = "asleep"]
          /\ UNCHANGED <<count, overlooked, call>>
      BY <2>4 DEF Sleep, Goto
    <3> QED
      BY <3>1 DEF NoMissedWakeup, Ready, State
  <2>5. CASE Notify(t)
    <3>1. \A s \in Threads : pc[s] # "sleeping"
      BY <2>5 DEF MutualExclusion, Notify
    <3>2. \A s \in Threads : pc'[s] \notin {"sleeping", "asleep"}
      BY <2>5, <3>1 DEF Notify
    <3>3. \A s \in Threads : State(s)' = State(s)
      BY <2>5 DEF Notify, State
    <3>4. call' = call /\ overlooked' = overlooked
      BY <2>5 DEF Notify
    <3> QED
      BY <3>2, <3>3, <3>4 DEF NoMissedWakeup
  <2> QED
    BY <1>3, <2>1, <2>2, <2>3, <2>4, <2>5, BodyCases
<1>4. CASE UNCHANGED vars
  BY <1>4 DEF vars, NoMissedWakeup, Ready, State
<1> QED
  BY <1>1, <1>2, <1>3, <1>4 DEF Next

-----------------------------------------------------------------------------
(* The theorems. *)

LEMMA SemaphoreInvariant ==
  ASSUME FunNat
  PROVE  Spec => [](TypeOK /\ MutualExclusion /\ SleepersBlock /\ NoMissedWakeup)
<1>1. Init => TypeOK /\ MutualExclusion /\ SleepersBlock /\ NoMissedWakeup
  <2>1. Init => MutualExclusion /\ SleepersBlock /\ NoMissedWakeup
    BY DEF Init, MutualExclusion, SleepersBlock, NoMissedWakeup
  <2> QED
    BY <2>1, TypeInit
<1>2. TypeOK /\ MutualExclusion /\ SleepersBlock /\ NoMissedWakeup /\ [Next]_vars
      => (TypeOK /\ MutualExclusion /\ SleepersBlock /\ NoMissedWakeup)'
  BY TypeStep, MutexStep, SleepersStep, WakeupStep
<1> QED
  BY <1>1, <1>2, PTL DEF Spec

\* The state of a semaphore keeps its type; its counter is never negative.
THEOREM SemaphoreTypes == ASSUME FunNat PROVE Spec => []TypeOK
BY SemaphoreInvariant, PTL

\* One thread at a time is inside an operation, and it owns the mutex.
THEOREM SemaphoreExcludes == ASSUME FunNat PROVE Spec => []MutualExclusion
BY SemaphoreInvariant, PTL

\* No thread sleeps through the change it waits for, as long as it waits for a
\* large count or no acquire() has overlooked the count.
THEOREM SemaphoreWakes == ASSUME FunNat PROVE Spec => []NoMissedWakeup
BY SemaphoreInvariant, PTL

-----------------------------------------------------------------------------
(* Semaphore implements AtomicSemaphore. *)

AtomicState == [t \in Threads |-> State(t)]

\* Performing a call is the abstract step of the same call.
LEMMA PerformRefines ==
  ASSUME TypeOK, NEW t \in Threads, pc[t] = "inside", NEW new, NEW holds \in BOOLEAN,
         NEW label \in {"notifying", "leaving", "callback"},
         Perform(t, new, holds, label),
         holds <=> Atomic!Holds(call[t], count),
         new = IF holds THEN Atomic!After(call[t], count) ELSE count,
         call[t].op \in Atomic!Blocking => holds,
         label = "notifying" <=> (call[t].op \in Atomic!Announcing /\ holds)
  PROVE  Atomic!Perform(t)
<1>1. pc' = [pc EXCEPT ![t] = label] /\ count' = new /\ call' = call
  BY DEF Perform, Goto
<1>2. AtomicState[t] = "called"
  BY DEF AtomicState, State
<1>3. AtomicState' = [AtomicState EXCEPT ![t] = "performed"]
  BY <1>1 DEF AtomicState, State, TypeOK
<1>4. result' = [result EXCEPT ![t] = Atomic!Holds(call[t], count)]
  <2>1. holds = Atomic!Holds(call[t], count)
    BY DEF Atomic!Holds
  <2>2. result' = [result EXCEPT ![t] = holds]
    BY DEF Perform
  <2> QED
    BY <2>1, <2>2
<1>5. overlooked' = IF call[t].op \in Atomic!Announcing /\ Atomic!Holds(call[t], count)
                    THEN {} ELSE (overlooked \cup Atomic!MadeTrue(count')) \ {t}
  <2>1. overlooked' = IF label = "notifying" THEN {}
                      ELSE (overlooked \cup Atomic!MadeTrue(new)) \ {t}
    BY DEF Perform
  <2> QED
    BY <1>1, <2>1
<1> QED
  BY <1>1, <1>2, <1>3, <1>4, <1>5 DEF Atomic!Perform, AtomicState

\* Steps between the abstract ones.
LEMMA InnerRefines ==
  ASSUME TypeOK, NEW t \in Threads,
         UNCHANGED <<count, call, result, overlooked>>,
         \A s \in Threads : State(s)' = State(s)
  PROVE  UNCHANGED Atomic!vars
BY DEF Atomic!vars

LEMMA BodyRefines ==
  ASSUME TypeOK, NEW t \in Threads, Body(t)
  PROVE  Atomic!Perform(t) \/ Atomic!Return(t) \/ UNCHANGED Atomic!vars
<1> USE DEF Atomic!Holds, Atomic!After, Atomic!Blocking, Atomic!Testing,
        Atomic!Announcing
<1>0. count \in Nat /\ call[t].n \in Nat
  BY CallFields DEF TypeOK
<1>1. CASE pc[t] = "inside" /\ Refuse(t)
  <2>1. UNCHANGED <<count, call, result, overlooked>>
    BY <1>1 DEF Refuse
  <2>2. \A s \in Threads : State(s)' = State(s)
    BY <1>1 DEF Refuse, Goto, State, TypeOK
  <2> QED
    BY <2>1, <2>2, InnerRefines
<1>2. CASE Release(t)
  BY <1>2, PerformRefines DEF Release, Inside
<1>3. CASE Acquire(t)
  BY <1>0, <1>1, <1>3, PerformRefines DEF Acquire, Inside
<1>4. CASE AcquireAndDo(t)
  BY <1>0, <1>1, <1>4, PerformRefines DEF AcquireAndDo, Inside
<1>5. CASE WaitFor(t)
  BY <1>1, <1>5, PerformRefines DEF WaitFor, Inside
<1>6. CASE SetTo(t)
  BY <1>6, PerformRefines DEF SetTo, Inside
<1>7. CASE When(t)
  BY <1>7, PerformRefines DEF When, Inside
<1>8. CASE IfThenSetTo(t)
  BY <1>8, PerformRefines DEF IfThenSetTo, Inside
<1>9. CASE WaitAndDo(t)
  BY <1>1, <1>9, PerformRefines DEF WaitAndDo, Inside
<1>10. CASE WaitAndSetTo(t)
  BY <1>1, <1>10, PerformRefines DEF WaitAndSetTo, Inside
<1>11. CASE Callback(t) \/ Sleep(t) \/ Notify(t)
  <2>1. UNCHANGED <<count, call, result, overlooked>>
    BY <1>11 DEF Callback, Sleep, Notify
  <2>2. \A s \in Threads : State(s)' = State(s)
    BY <1>11 DEF Callback, Sleep, Notify, Goto, State, TypeOK
  <2> QED
    BY <2>1, <2>2, InnerRefines
<1>12. CASE Unlock(t)
  <2>1. pc[t] = "leaving" /\ pc' = [pc EXCEPT ![t] = "out"]
        /\ UNCHANGED <<count, call, result, overlooked>>
    BY <1>12 DEF Unlock, Goto
  <2>2. AtomicState[t] = "performed" /\ AtomicState' = [AtomicState EXCEPT ![t] = "idle"]
    BY <2>1 DEF AtomicState, State, TypeOK
  <2> QED
    BY <2>1, <2>2 DEF Atomic!Return, AtomicState
<1> QED
  BY <1>2, <1>3, <1>4, <1>5, <1>6, <1>7, <1>8, <1>9, <1>10, <1>11, <1>12 DEF Body

LEMMA StepRefines ==
  ASSUME TypeOK, [Next]_vars
  PROVE  [Atomic!Next]_(Atomic!vars)
<1>1. ASSUME NEW t \in Threads, Enter(t) PROVE Atomic!Call(t)
  <2>1. pc[t] = "out" /\ pc' = [pc EXCEPT ![t] = "locking"] /\ UNCHANGED <<count, result, overlooked>>
        /\ \E c \in Calls : call' = [call EXCEPT ![t] = c]
    BY <1>1 DEF Enter, Goto
  <2>2. AtomicState[t] = "idle" /\ AtomicState' = [AtomicState EXCEPT ![t] = "called"]
    BY <2>1 DEF AtomicState, State, TypeOK
  <2> QED
    BY <2>1, <2>2 DEF Atomic!Call, AtomicState
<1>2. ASSUME NEW t \in Threads, Lock(t) \/ SpuriousWakeup(t) PROVE UNCHANGED Atomic!vars
  <2>1. UNCHANGED <<count, call, result, overlooked>>
    BY <1>2 DEF Lock, SpuriousWakeup
  <2>2. \A s \in Threads : State(s)' = State(s)
    BY <1>2 DEF Lock, SpuriousWakeup, Goto, State, TypeOK
  <2> QED
    BY <2>1, <2>2, InnerRefines
<1>3. CASE UNCHANGED vars
  BY <1>3 DEF vars, Atomic!vars, State
<1> QED
  BY <1>1, <1>2, <1>3, BodyRefines DEF Next, Atomic!Next

\* The steps of AtomicSemaphore, without its fairness.
AtomicSafety == Atomic!Init /\ [][Atomic!Next]_(Atomic!vars)

\* Under mutex and condition variable every call takes effect in one step, at a
\* count of which its condition holds, exactly once between call and return, and
\* what is overlooked meanwhile is what AtomicSemaphore says may be.
THEOREM SemaphoreRefines == ASSUME FunNat PROVE Spec => AtomicSafety
<1>1. Init => Atomic!Init
  BY DEF Init, Atomic!Init, State
<1>2. TypeOK /\ [Next]_vars => [Atomic!Next]_(Atomic!vars)
  BY StepRefines
<1> QED
  BY <1>1, <1>2, SemaphoreTypes, PTL DEF Spec, AtomicSafety
=============================================================================
