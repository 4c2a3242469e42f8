----------------------------- MODULE MCSemaphore -----------------------------
(* The two halves of Semaphore's interface for TLC: the counting calls, and  *)
(* the calls of a state machine over the count.                              *)
EXTENDS Semaphore

CONSTANTS T1, T2, T3

Call(op, n) == [op |-> op, n |-> n]

\* Callers of the first group wait for a count of at least n.
CountingCalls ==
  {Call("release", 1), Call("release", 2), Call("acquire", 1),
   Call("acquireAndDo", 2), Call("waitFor", 2)}

\* Those of the second take the count one on, from n - 1 to n, or wait for it to
\* be exactly n - 1, as history_reader's predicates do for a count.  A release of
\* two and an acquire of one lead past a waiter for one, which stays asleep.
MachineCalls ==
  {Call("setTo", 1), Call("when", 2), Call("ifThenSetTo", 2),
   Call("waitAndDo", 2), Call("waitAndSetTo", 2), Call("waitFor", 3)}

AllCalls == CountingCalls \cup MachineCalls

Reached(c, k) == IF c \in CountingCalls THEN k >= c.n ELSE k = c.n - 1
Onward(c, k) == k + 1

\* A thread's second call is one of these: while a waiter for one sleeps on after
\* an acquire, they take the count away and bring it back.
SecondCalls == {Call("acquire", 1), Call("setTo", 1)}

OnceOrTwice(c) == IF c \in SecondCalls THEN 2 ELSE 1
=============================================================================
