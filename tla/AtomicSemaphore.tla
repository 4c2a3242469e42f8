--------------------------- MODULE AtomicSemaphore ---------------------------
(***************************************************************************)
(* What libs/Semaphore promises its callers: a counter that every call     *)
(* changes in one step, at a moment when the call's condition holds.  No   *)
(* mutex, no condition variable, no notification; what is left of these is *)
(* that acquire() and acquireAndDo() announce the lower count to nobody: a *)
(* call whose condition they make true may not learn of it.                *)
(***************************************************************************)
EXTENDS Integers

CONSTANTS
  Threads,
  Calls,      \* records [op, n]: what the threads may call
  Test(_, _), \* the caller's predicate p: does it hold of a count?
  Fun(_, _)   \* the caller's function f: the count it makes of a count

VARIABLES
  count,
  state,      \* of every thread: "idle", "called" or "performed"
  call,       \* the call the thread is in
  result,     \* whether the condition of its last call held
  overlooked  \* the threads whose condition became true unannounced

vars == <<count, state, call, result, overlooked>>

Blocking == {"acquire", "acquireAndDo", "waitFor", "waitAndDo", "waitAndSetTo"}
Testing == {"waitFor", "waitAndDo", "waitAndSetTo", "when", "ifThenSetTo"}

Holds(c, n) ==
  /\ c.op \in {"acquire", "acquireAndDo"} => n >= c.n
  /\ c.op \in Testing => Test(c, n)

After(c, n) ==
  CASE c.op = "release" -> n + c.n
    [] c.op \in {"acquire", "acquireAndDo"} -> n - c.n
    [] c.op = "waitFor" -> n
    [] c.op \in {"setTo", "ifThenSetTo", "waitAndSetTo"} -> c.n
    [] c.op \in {"when", "waitAndDo"} -> Fun(c, n)

\* The blocking calls whose condition is false of the count and true of n.
MadeTrue(n) ==
  {t \in Threads : /\ state[t] = "called" /\ call[t].op \in Blocking
                   /\ Holds(call[t], n) /\ ~Holds(call[t], count)}

Init ==
  /\ count = 0
  /\ state = [t \in Threads |-> "idle"]
  /\ call = [t \in Threads |-> CHOOSE c \in Calls : TRUE]
  /\ result = [t \in Threads |-> TRUE]
  /\ overlooked = {}

Call(t) ==
  /\ state[t] = "idle"
  /\ \E c \in Calls : call' = [call EXCEPT ![t] = c]
  /\ state' = [state EXCEPT ![t] = "called"]
  /\ UNCHANGED <<count, result, overlooked>>

\* The calls that wake all others when they have changed the count.
Announcing == {"release", "setTo", "when", "ifThenSetTo", "waitAndDo", "waitAndSetTo"}

Perform(t) ==
  /\ state[t] = "called"
  /\ call[t].op \in Blocking => Holds(call[t], count)
  /\ count' = IF Holds(call[t], count) THEN After(call[t], count) ELSE count
  /\ result' = [result EXCEPT ![t] = Holds(call[t], count)]
  /\ state' = [state EXCEPT ![t] = "performed"]
  /\ overlooked' = IF call[t].op \in Announcing /\ Holds(call[t], count) THEN {}
                   ELSE (overlooked \cup MadeTrue(count')) \ {t}
  /\ UNCHANGED call

Return(t) ==
  /\ state[t] = "performed"
  /\ state' = [state EXCEPT ![t] = "idle"]
  /\ UNCHANGED <<count, call, result, overlooked>>

Next == \E t \in Threads : Call(t) \/ Perform(t) \/ Return(t)

\* A call whose condition stays true is performed, unless it was overlooked
\* and nothing has been announced since; what is performed returns.
Fairness ==
  \A t \in Threads : WF_vars(t \notin overlooked /\ Perform(t)) /\ WF_vars(Return(t))

Spec == Init /\ [][Next]_vars /\ Fairness
=============================================================================
