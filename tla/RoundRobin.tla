------------------------------- MODULE RoundRobin ------------------------------
(***************************************************************************)
(* What the task manager promises: the tasks take turns.  `ring` lists the *)
(* tasks in the order of their turns, the one whose turn it is first; it   *)
(* is empty until the first task joins, and nobody runs until the first    *)
(* tick after that.  The promise ends when `broken` becomes TRUE.          *)
(***************************************************************************)
EXTENDS Sequences, SequencesExt

CONSTANTS Tasks,    \* the tasks that may join
          MaxTasks, \* TASK_MAX_TASKS
          Nobody    \* not a task

VARIABLES ring, running, broken
vars == <<ring, running, broken>>

Init ==
  /\ ring = <<>>
  /\ running = Nobody
  /\ broken = FALSE

\* A task joins anywhere in the ring, but never ahead of the one that runs.
Join(t) ==
  /\ ~broken
  /\ t \notin ToSet(ring)
  /\ Len(ring) < MaxTasks
  /\ \E n \in 1 .. Len(ring) + 1 :
       /\ running # Nobody => n > 1
       /\ ring' = InsertAt(ring, n, t)
  /\ UNCHANGED <<running, broken>>

\* The first tick starts the first task, every other one moves on by one.
Tick ==
  /\ ~broken
  /\ ring # <<>>
  /\ ring' = IF running = Nobody THEN ring ELSE Append(Tail(ring), Head(ring))
  /\ running' = Head(ring')
  /\ UNCHANGED broken

Next ==
  \/ Tick
  \/ \E t \in Tasks : Join(t)
  \/ broken'

Spec == Init /\ [][Next]_vars /\ WF_vars(Tick)
================================================================================
