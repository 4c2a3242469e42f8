---------------------------- MODULE HistoryBatch -----------------------------
(***************************************************************************)
(* What the history reader promises, without threads, queues or locks: a   *)
(* batch of types is worked off, the rows of a type are stored before it   *)
(* is marked as up to date and never after, every type is finished once,   *)
(* the batch is left only when all types are finished or after an          *)
(* interrupt, and nothing is in flight any more when it is closed.         *)
(***************************************************************************)
EXTENDS Integers

CONSTANT Types

VARIABLES
  phase,        \* of every type
  rows,         \* number of history rows stored for every type
  marked,       \* types with a fresh row in last_history_update
  interrupted,  \* SIGINT arrived
  stage         \* of the batch

vars == <<phase, rows, marked, interrupted, stage>>

Init ==
  /\ phase = [t \in Types |-> "waiting"]
  /\ rows = [t \in Types |-> 0]
  /\ marked = {}
  /\ interrupted = FALSE
  /\ stage = "running"

Interrupt ==
  /\ interrupted' = TRUE
  /\ UNCHANGED <<phase, rows, marked, stage>>

Start(t) ==
  /\ stage # "closed"
  /\ phase[t] = "waiting"
  /\ phase' = [phase EXCEPT ![t] = "active"]
  /\ UNCHANGED <<rows, marked, interrupted, stage>>

Store(t) ==
  /\ phase[t] = "active"
  /\ t \notin marked
  /\ rows' = [rows EXCEPT ![t] = @ + 1]
  /\ UNCHANGED <<phase, marked, interrupted, stage>>

Mark(t) ==
  /\ phase[t] = "active"
  /\ t \notin marked
  /\ marked' = marked \cup {t}
  /\ UNCHANGED <<phase, rows, interrupted, stage>>

Finish(t) ==
  /\ phase[t] = "active"
  /\ phase' = [phase EXCEPT ![t] = "finished"]
  /\ UNCHANGED <<rows, marked, interrupted, stage>>

Leave ==
  /\ stage = "running"
  /\ interrupted \/ \A t \in Types : phase[t] = "finished"
  /\ stage' = "closing"
  /\ UNCHANGED <<phase, rows, marked, interrupted>>

Close ==
  /\ stage = "closing"
  /\ \A t \in Types : phase[t] # "active"
  /\ stage' = "closed"
  /\ UNCHANGED <<phase, rows, marked, interrupted>>

Next ==
  \/ Interrupt
  \/ \E t \in Types : Start(t) \/ Store(t) \/ Mark(t) \/ Finish(t)
  \/ Leave \/ Close

Spec == Init /\ [][Next]_vars
=============================================================================
