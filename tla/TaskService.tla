---------------------------- MODULE TaskService ----------------------------
(***************************************************************************)
(* What users of the task pool rely on: a task that was handed over runs   *)
(* at most once, never before its due time, and never after cancel said    *)
(* that it was removed; the clock never runs backwards.                    *)
(***************************************************************************)
EXTENDS Naturals

CONSTANTS Task, MaxTime

VARIABLES
  waiting,   \* tasks handed over, not started and not cancelled
  due,       \* [Task -> time from which the task may run]
  started,   \* tasks that have been started
  time

vars == <<waiting, due, started, time>>

Init ==
  /\ waiting = {} /\ started = {} /\ time = 0
  /\ due = [t \in Task |-> 0]

Submit(t) ==
  /\ t \notin waiting \cup started
  /\ waiting' = waiting \cup {t}
  /\ \E d \in time .. MaxTime : due' = [due EXCEPT ![t] = d]
  /\ UNCHANGED <<started, time>>

Postpone(t) ==
  /\ t \in waiting
  /\ \E d \in due[t] .. MaxTime : due' = [due EXCEPT ![t] = d]
  /\ UNCHANGED <<waiting, started, time>>

Cancel(t) ==
  /\ t \in waiting
  /\ waiting' = waiting \ {t}
  /\ UNCHANGED <<due, started, time>>

Start(t) ==
  /\ t \in waiting /\ due[t] <= time
  /\ waiting' = waiting \ {t}
  /\ started' = started \cup {t}
  /\ UNCHANGED <<due, time>>

Pass == time' > time /\ UNCHANGED <<waiting, due, started>>

Next ==
  \/ \E t \in Task : Submit(t) \/ Postpone(t) \/ Cancel(t) \/ Start(t)
  \/ Pass

Spec == Init /\ [][Next]_vars
=============================================================================
