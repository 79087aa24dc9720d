------------------------------ MODULE TaskPool ------------------------------
(***************************************************************************)
(* task_pool (task_pool.h) with its one worker (thread_pool.h, started by  *)
(* main with one thread). Immediate tasks are a queue; delayed ones are a  *)
(* vector sorted by due time, the earliest at the back. push, pushDelayed  *)
(* and stop hold the pool's lock, so each is one step against the worker's *)
(* "nothing to do: wait" step; cancel and delay hold only _task_mutex.     *)
(***************************************************************************)
EXTENDS Naturals, Sequences, SequencesExt, FiniteSets

CONSTANTS
  Task,      \* task objects; each is handed over once
  MaxTime,   \* bound on the clock
  None

VARIABLES
  clock,
  tasks,      \* _tasks
  timers,     \* _timer_tasks: records [at, id], latest first
  poolOn,     \* _continue
  wpc,        \* worker: "loop", "run", "park", "waiting", "drain", "done"
  wcur,       \* the task the worker runs
  wuntil,     \* deadline of wait_until; MaxTime + 1 for a plain wait
  dueAt,      \* due time of every task handed over (0 for push)
  begun,      \* tasks the worker has started
  dropped     \* tasks cancel removed

poolVars == <<clock, tasks, timers, poolOn, wpc, wcur, wuntil, dueAt, begun,
              dropped>>

Queued == ToSet(tasks) \cup {timers[i].id : i \in DOMAIN timers}
Fresh(t) == t \notin Queued \cup begun \cup dropped

Init ==
  /\ clock = 0 /\ tasks = <<>> /\ timers = <<>> /\ poolOn = TRUE
  /\ wpc = "loop" /\ wcur = None /\ wuntil = 0
  /\ dueAt = [t \in Task |-> 0] /\ begun = {} /\ dropped = {}

\* notify_one / notify_all: the waiting worker goes round its loop again.
Notified == IF wpc = "waiting" THEN "loop" ELSE wpc

Push(t) ==
  /\ Fresh(t)
  /\ tasks' = Append(tasks, t)
  /\ dueAt' = [dueAt EXCEPT ![t] = clock]
  /\ wpc' = Notified
  /\ UNCHANGED <<clock, timers, poolOn, wcur, wuntil, begun, dropped>>

\* The new entry goes before the first one that is due earlier.
InsertTimer(ts, e) ==
  LET i == SelectInSeq(ts, LAMBDA x : x.at < e.at)
  IN InsertAt(ts, IF i = 0 THEN Len(ts) + 1 ELSE i, e)

PushDelayed(t, d) ==
  /\ Fresh(t) /\ clock + d <= MaxTime
  /\ timers' = InsertTimer(timers, [at |-> clock + d, id |-> t])
  /\ dueAt' = [dueAt EXCEPT ![t] = clock + d]
  /\ wpc' = Notified
  /\ UNCHANGED <<clock, tasks, poolOn, wcur, wuntil, begun, dropped>>

\* delay(): the entry takes its new time and is bubbled to the front past the
\* ones due earlier; it wakes nobody. The program never calls it; the model
\* lets it postpone, as its name says.
Delay(t, d) ==
  \E i \in DOMAIN timers :
    /\ timers[i].id = t /\ clock + d \in timers[i].at .. MaxTime
    /\ timers' = InsertTimer(SubSeq(timers, 1, i - 1), [at |-> clock + d, id |-> t])
                 \o SubSeq(timers, i + 1, Len(timers))
    /\ dueAt' = [dueAt EXCEPT ![t] = clock + d]
    /\ UNCHANGED <<clock, tasks, poolOn, wpc, wcur, wuntil, begun, dropped>>

\* Mutant of Cancel: the entry stays in the vector.
CancelKeeps(t) ==
  \E i \in DOMAIN timers :
    /\ timers[i].id = t /\ t \notin dropped
    /\ dropped' = dropped \cup {t}
    /\ UNCHANGED <<clock, tasks, timers, poolOn, wpc, wcur, wuntil, dueAt, begun>>

\* cancel() returns true only when the task still was in the vector.
Cancel(t) ==
  \E i \in DOMAIN timers :
    /\ timers[i].id = t
    /\ timers' = RemoveAt(timers, i)
    /\ dropped' = dropped \cup {t}
    /\ UNCHANGED <<clock, tasks, poolOn, wpc, wcur, wuntil, dueAt, begun>>

Stop ==
  /\ poolOn /\ poolOn' = FALSE
  /\ wpc' = Notified
  /\ UNCHANGED <<clock, tasks, timers, wcur, wuntil, dueAt, begun, dropped>>

TimerReady == timers # <<>> /\ Last(timers).at <= clock
Ready == tasks # <<>> \/ TimerReady

\* pop(): an immediate task first, then the earliest timer if it is due.
Pop ==
  IF tasks # <<>>
  THEN wcur' = Head(tasks) /\ tasks' = Tail(tasks) /\ UNCHANGED timers
  ELSE wcur' = Last(timers).id /\ timers' = Front(timers) /\ UNCHANGED tasks

WorkerPop ==
  /\ \/ wpc = "loop" /\ poolOn
     \/ wpc = "drain"
  /\ Ready /\ Pop
  /\ begun' = begun \cup {wcur'}
  /\ wpc' = IF wpc = "drain" THEN "lastRun" ELSE "run"
  /\ UNCHANGED <<clock, poolOn, wuntil, dueAt, dropped>>

WorkerNothing ==
  /\ wpc = "loop" /\ poolOn /\ ~Ready
  /\ wpc' = "park"
  /\ UNCHANGED <<clock, tasks, timers, poolOn, wcur, wuntil, dueAt, begun, dropped>>

\* The loop ends when _continue was cleared; what is ready is still run.
WorkerStops ==
  /\ \/ wpc = "loop" /\ ~poolOn /\ wpc' = "drain"
     \/ wpc = "drain" /\ ~Ready /\ wpc' = "done"
  /\ UNCHANGED <<clock, tasks, timers, poolOn, wcur, wuntil, dueAt, begun, dropped>>

WorkerRun ==
  /\ wpc \in {"run", "lastRun"}
  /\ wpc' = IF wpc = "run" THEN "loop" ELSE "drain"
  /\ wcur' = None
  /\ UNCHANGED <<clock, tasks, timers, poolOn, wuntil, dueAt, begun, dropped>>

\* Mutant of WorkerPark: readiness is not checked again under the lock.
WorkerParkBlind ==
  /\ wpc = "park"
  /\ wpc' = IF ~poolOn THEN "drain" ELSE "waiting"
  /\ wuntil' = MaxTime + 1
  /\ UNCHANGED <<clock, tasks, timers, poolOn, wcur, dueAt, begun, dropped>>

\* Under _lock: ready again, stopped, or wait until the earliest timer.
WorkerPark ==
  /\ wpc = "park"
  /\ wpc' = IF Ready THEN "loop" ELSE IF ~poolOn THEN "drain" ELSE "waiting"
  /\ wuntil' = IF timers = <<>> THEN MaxTime + 1 ELSE Last(timers).at
  /\ UNCHANGED <<clock, tasks, timers, poolOn, wcur, dueAt, begun, dropped>>

WaitExpires ==
  /\ wpc = "waiting" /\ wuntil <= clock /\ wpc' = "loop"
  /\ UNCHANGED <<clock, tasks, timers, poolOn, wcur, wuntil, dueAt, begun, dropped>>

Tick ==
  /\ clock < MaxTime /\ clock' = clock + 1
  /\ UNCHANGED <<tasks, timers, poolOn, wpc, wcur, wuntil, dueAt, begun, dropped>>

WorkerStep == WorkerPop \/ WorkerNothing \/ WorkerStops \/ WorkerRun \/ WorkerPark
          \/ WaitExpires

Next ==
  \/ \E t \in Task : Push(t) \/ Cancel(t)
  \/ \E t \in Task, d \in 0 .. MaxTime : PushDelayed(t, d) \/ Delay(t, d)
  \/ Stop
  \/ WorkerStep
  \/ Tick

Spec == Init /\ [][Next]_poolVars
FairSpec == Spec /\ WF_poolVars(WorkerStep) /\ WF_poolVars(Tick)

----------------------------------------------------------------------------
\* The pool implements the service its users rely on: a task runs once, not
\* before it is due, and never after cancel returned true (task_pool.h cancel,
\* pop; thread_pool.h _main).
Service == INSTANCE TaskService
             WITH waiting <- Queued \ dropped, due <- dueAt, started <- begun,
                  time <- clock
ImplementsService == Service!Spec

\* The vector stays sorted whatever order tasks are pushed, delayed and
\* cancelled in, so looking only at its back (task_pool.h pop) never makes a
\* due timer wait behind one that is not.
EarliestAtBack ==
  \A i \in DOMAIN timers : Last(timers).at <= timers[i].at

\* No wakeup is lost (thread_pool.h _main): a worker that waits waits no longer
\* than until the earliest timer and never while an immediate task is queued.
NoLostWakeup ==
  wpc = "waiting" =>
    /\ tasks = <<>>
    /\ timers # <<>> => wuntil <= Last(timers).at \/ wuntil <= clock
    /\ poolOn

\* Every task handed over before stop is run or cancelled in the end, unless
\* the pool is stopped.
EveryTaskRuns ==
  \A t \in Task : (t \in Queued) ~> (t \in begun \cup dropped \/ ~poolOn)

\* join() of the pool returns: the worker ends once the pool is stopped.
StopEndsWorker == ~poolOn ~> wpc = "done"
=============================================================================
