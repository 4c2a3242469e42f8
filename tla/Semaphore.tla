------------------------------ MODULE Semaphore ------------------------------
(***************************************************************************)
(* libs/Semaphore/Semaphore.cpp: a counter, a mutex and one condition      *)
(* variable that all waiting threads share.  The steps are those a thread  *)
(* can be interrupted between: taking the mutex, testing and changing the  *)
(* counter, going to sleep, notifying, the callback of acquireAndDo, and   *)
(* giving the mutex back.  get() reads the counter without the mutex and   *)
(* changes nothing.                                                        *)
(***************************************************************************)
EXTENDS Integers

CONSTANTS
  Threads,
  Calls,      \* records [op, n]: what the threads may call; n is the amount
              \* of release and acquire and the target of the SetTo calls
  Test(_, _), \* the caller's predicate p: does it hold of a count?
  Fun(_, _),  \* the caller's function f: the count it makes of a count
  Limit(_)    \* bound: this call is among a thread's first so many calls

Ops == {"release", "acquire", "acquireAndDo", "waitFor", "setTo", "when",
        "ifThenSetTo", "waitAndDo", "waitAndSetTo"}

ASSUME CallsAssumption == Calls # {} /\ Calls \subseteq [op : Ops, n : Nat]

VARIABLES
  count,
  mutex,      \* the threads that hold it
  pc,         \* what every thread does next; "asleep": on the condition
  call,       \* the call the thread is in
  result,     \* whether the condition of its last call held
  made,       \* how many calls it has made
  overlooked  \* the threads whose condition became true without a
              \* notification since the last one (history)

vars == <<count, mutex, pc, call, result, made, overlooked>>

TypeOK ==
  /\ count \in Nat
  /\ mutex \subseteq Threads
  /\ pc \in [Threads -> {"out", "locking", "inside", "sleeping", "asleep",
                         "callback", "notifying", "leaving"}]
  /\ call \in [Threads -> Calls]
  /\ result \in [Threads -> BOOLEAN]
  /\ made \in [Threads -> Nat]
  /\ overlooked \subseteq Threads

Init ==
  /\ count = 0
  /\ mutex = {}
  /\ pc = [t \in Threads |-> "out"]
  /\ call = [t \in Threads |-> CHOOSE c \in Calls : TRUE]
  /\ result = [t \in Threads |-> TRUE]
  /\ made = [t \in Threads |-> 0]
  /\ overlooked = {}

\* How far a thread's call is for those who see no mutex.
State(t) == CASE pc[t] = "out" -> "idle"
              [] pc[t] \in {"locking", "inside", "sleeping", "asleep"} -> "called"
              [] pc[t] \in {"callback", "notifying", "leaving"} -> "performed"

Atomic == INSTANCE AtomicSemaphore WITH state <- [t \in Threads |-> State(t)]

Goto(t, label) == pc' = [pc EXCEPT ![t] = label]

\* A thread calls an operation.
Enter(t) ==
  /\ pc[t] = "out"
  /\ \E c \in Calls : /\ made[t] < Limit(c)
                       /\ call' = [call EXCEPT ![t] = c]
  /\ Goto(t, "locking")
  /\ made' = [made EXCEPT ![t] = @ + 1]
  /\ UNCHANGED <<count, mutex, result, overlooked>>

\* lock_guard and unique_lock, and the re-acquisition at the end of a wait.
Lock(t) ==
  /\ pc[t] = "locking"
  /\ mutex = {}
  /\ mutex' = {t}
  /\ Goto(t, "inside")
  /\ UNCHANGED <<count, call, result, made, overlooked>>

Inside(t, op) == pc[t] = "inside" /\ call[t].op = op

\* The call's effect: the condition holds, or the call does without it.
Perform(t, new, holds, label) ==
  /\ count' = new
  /\ Goto(t, label)
  /\ result' = [result EXCEPT ![t] = holds]
  /\ overlooked' = IF label = "notifying" THEN {}
                   ELSE (overlooked \cup Atomic!MadeTrue(new)) \ {t}
  /\ UNCHANGED <<mutex, call, made>>

\* The condition does not hold and the thread is about to sleep.
Refuse(t) ==
  /\ Goto(t, "sleeping")
  /\ UNCHANGED <<count, mutex, call, result, made, overlooked>>

Release(t) ==
  /\ Inside(t, "release")
  /\ Perform(t, count + call[t].n, TRUE, "notifying")

Acquire(t) ==
  /\ Inside(t, "acquire")
  /\ \/ count >= call[t].n /\ Perform(t, count - call[t].n, TRUE, "leaving")
     \/ count < call[t].n /\ Refuse(t)

AcquireAndDo(t) ==
  /\ Inside(t, "acquireAndDo")
  /\ \/ count >= call[t].n /\ Perform(t, count - call[t].n, TRUE, "callback")
     \/ count < call[t].n /\ Refuse(t)

\* f() of acquireAndDo runs under the mutex.
Callback(t) ==
  /\ pc[t] = "callback"
  /\ Goto(t, "leaving")
  /\ UNCHANGED <<count, mutex, call, result, made, overlooked>>

WaitFor(t) ==
  /\ Inside(t, "waitFor")
  /\ \/ Test(call[t], count) /\ Perform(t, count, TRUE, "leaving")
     \/ ~Test(call[t], count) /\ Refuse(t)

SetTo(t) ==
  /\ Inside(t, "setTo")
  /\ Perform(t, call[t].n, TRUE, "notifying")

When(t) ==
  /\ Inside(t, "when")
  /\ \/ Test(call[t], count) /\ Perform(t, Fun(call[t], count), TRUE, "notifying")
     \/ ~Test(call[t], count) /\ Perform(t, count, FALSE, "leaving")

IfThenSetTo(t) ==
  /\ Inside(t, "ifThenSetTo")
  /\ \/ Test(call[t], count) /\ Perform(t, call[t].n, TRUE, "notifying")
     \/ ~Test(call[t], count) /\ Perform(t, count, FALSE, "leaving")

\* Slip: the new count is announced to nobody.
WaitAndDoSilent(t) ==
  /\ Inside(t, "waitAndDo")
  /\ \/ /\ Test(call[t], count)
        /\ count' = Fun(call[t], count)
        /\ Goto(t, "leaving")
        /\ result' = [result EXCEPT ![t] = TRUE]
        /\ UNCHANGED <<mutex, call, made, overlooked>>
     \/ ~Test(call[t], count) /\ Refuse(t)

WaitAndDo(t) ==
  /\ Inside(t, "waitAndDo")
  /\ \/ Test(call[t], count) /\ Perform(t, Fun(call[t], count), TRUE, "notifying")
     \/ ~Test(call[t], count) /\ Refuse(t)

WaitAndSetTo(t) ==
  /\ Inside(t, "waitAndSetTo")
  /\ \/ Test(call[t], count) /\ Perform(t, call[t].n, TRUE, "notifying")
     \/ ~Test(call[t], count) /\ Refuse(t)

\* condition.wait: the mutex is released and the thread sleeps, in one step.
Sleep(t) ==
  /\ pc[t] = "sleeping"
  /\ mutex' = mutex \ {t}
  /\ Goto(t, "asleep")
  /\ UNCHANGED <<count, call, result, made, overlooked>>

\* Slip: notify_one instead of notify_all.
NotifyOne(t) ==
  /\ pc[t] = "notifying"
  /\ IF \E s \in Threads : pc[s] = "asleep"
     THEN \E s \in Threads :
            /\ pc[s] = "asleep"
            /\ pc' = [pc EXCEPT ![s] = "locking", ![t] = "leaving"]
     ELSE Goto(t, "leaving")
  /\ UNCHANGED <<count, mutex, call, result, made, overlooked>>

\* condition.notify_all(), still under the mutex.
Notify(t) ==
  /\ pc[t] = "notifying"
  /\ pc' = [s \in Threads |-> IF s = t THEN "leaving"
                             ELSE IF pc[s] = "asleep" THEN "locking" ELSE pc[s]]
  /\ UNCHANGED <<count, mutex, call, result, made, overlooked>>

Unlock(t) ==
  /\ pc[t] = "leaving"
  /\ mutex' = mutex \ {t}
  /\ Goto(t, "out")
  /\ UNCHANGED <<count, call, result, made, overlooked>>

\* condition.wait may wake without a notification; its loop tests again.
SpuriousWakeup(t) ==
  /\ pc[t] = "asleep"
  /\ Goto(t, "locking")
  /\ UNCHANGED <<count, mutex, call, result, made, overlooked>>

Body(t) ==
  \/ Release(t) \/ Acquire(t) \/ AcquireAndDo(t) \/ Callback(t) \/ WaitFor(t)
  \/ SetTo(t) \/ When(t) \/ IfThenSetTo(t) \/ WaitAndDo(t) \/ WaitAndSetTo(t)
  \/ Sleep(t) \/ Notify(t) \/ Unlock(t)

Next == \E t \in Threads : Enter(t) \/ Lock(t) \/ Body(t) \/ SpuriousWakeup(t)

(***************************************************************************)
(* A thread that holds the mutex goes on.  std::mutex is not fair: a       *)
(* thread gets it only if it is free again and again (strong fairness).    *)
(* Nobody has to call anything and no spurious wake-up has to come.        *)
(***************************************************************************)
Fairness == \A t \in Threads : WF_vars(Body(t)) /\ SF_vars(Lock(t))

Spec == Init /\ [][Next]_vars /\ Fairness
-----------------------------------------------------------------------------
(* Properties. *)

\* A thread is between lock and unlock, awake, exactly if it owns the mutex,
\* and one thread at most does.
MutualExclusion ==
  /\ \A s, t \in mutex : s = t
  /\ \A t \in Threads : t \in mutex <=>
       pc[t] \in {"inside", "sleeping", "callback", "notifying", "leaving"}

\* What a thread waits for is true.
Ready(t) == Atomic!Holds(call[t], count)

\* Nobody goes to sleep on a condition that has become true, and nobody sleeps on
\* although what it waits for is true, unless the notification is on its way or
\* an acquire() made it true, which notifies nobody.  That never befalls those
\* who wait for the count to be large, as acquire() itself does.
NoMissedWakeup ==
  \A t \in Threads :
    /\ pc[t] = "sleeping" => ~Ready(t)
    /\ pc[t] = "asleep" /\ Ready(t) /\ t \notin overlooked =>
         \E s \in Threads : pc[s] = "notifying"
    /\ t \in overlooked =>
         State(t) = "called" /\ call[t].op \in {"waitFor", "waitAndDo", "waitAndSetTo"}

\* Every call takes effect in one step at which its condition holds, and a call
\* whose condition stays true returns, unless an acquire() made it true and
\* nothing has been announced since.
ImplementsAtomic == Atomic!Spec
=============================================================================
