---------------------------- MODULE AppProcess ----------------------------
(***************************************************************************)
(* The launched application (process.cpp, proc_t): execute() runs the prep *)
(* commands and starts the app, running() polls it, terminate() kills it   *)
(* and unwinds the prep commands, refresh() replaces the whole object.     *)
(*                                                                         *)
(* The only object proc::proc is used without a lock by the HTTPS worker   *)
(* (/launch, /resume, /cancel), the HTTP worker (/serverinfo), the control *)
(* thread (running() in every pass) and the configuration UI (close, save).*)
(* Each step below is a statement, or a run of statements that touches no  *)
(* state another thread may write.                                         *)
(*                                                                         *)
(* waitpid() is modelled by what POSIX says of it: it sees the caller's    *)
(* own children only, and an exit status is delivered once. A status that  *)
(* somebody else collected is lost; what boost then reports as exit code   *)
(* is left open.                                                           *)
(***************************************************************************)
EXTENDS Integers, Sequences, TLC

CONSTANTS
  Apps,     \* the apps by id: [cmd, waitAll, autoDetach : BOOLEAN, prep : Seq]
  AppId,    \* the ids clients ask for; some may not be an app
  Worker,   \* threads that launch, cancel, close and save
  Poller,   \* threads that only call running()
  MaxPrep,  \* the longest list of prep commands
  CanSave   \* may the UI save the app list (refresh)?

ASSUME AppAssumption ==
  /\ MaxPrep \in Nat
  /\ AppId \subseteq Nat \ {0} /\ DOMAIN Apps \subseteq AppId
  /\ \A a \in DOMAIN Apps :
       /\ Apps[a].prep \in Seq([do : BOOLEAN, undo : BOOLEAN])
       /\ Len(Apps[a].prep) <= MaxPrep

Thread == Worker \cup Poller

NoApp == [cmd |-> FALSE, waitAll |-> FALSE, autoDetach |-> FALSE,
          prep |-> <<>>]

VARIABLES
  appId,    \* _app_id: 0 initially, -1 after terminate()
  app,      \* _app
  placebo,  \* placebo
  handle,   \* _process and _process_group hold a process
  status,   \* exit status _process knows: "active", "clean" or "failed"
  prepIt,   \* _app_prep_it - _app_prep_begin
  recent,   \* the app was launched less than 5 s ago
  leader,   \* the started process: "none", "running", "zombie" or "reaped"
  exit,     \* its exit status once it has ended
  kids,     \* other processes of its group are alive
  pc,       \* where each thread is
  goal,     \* what it does after running() or terminate()
  target,   \* the app id its /launch asked for
  child,    \* the prep or undo command it is waiting for
  applied   \* history: prep commands passed and not unwound

procVars == <<appId, app, placebo, handle, status, prepIt, recent>>
osVars == <<leader, exit, kids>>
vars == <<procVars, osVars, pc, goal, target, child, applied>>

Init ==
  /\ appId = 0 /\ app = NoApp /\ placebo = FALSE
  /\ handle = FALSE /\ status = "active" /\ prepIt = 0 /\ recent = FALSE
  /\ leader = "none" /\ exit = "clean" /\ kids = FALSE
  /\ pc = [t \in Thread |-> "idle"]
  /\ goal = [t \in Thread |-> "poll"]
  /\ target = [t \in Thread |-> 0]
  /\ child = [t \in Thread |-> "none"]
  /\ applied = {}

Goto(t, p) == pc' = [pc EXCEPT ![t] = p]

(***************************************************************************)
(* The callers.                                                            *)
(***************************************************************************)

\* /serverinfo, /resume and the control loop: running().
Poll(t) ==
  /\ pc[t] = "idle" /\ Goto(t, "check")
  /\ goal' = [goal EXCEPT ![t] = "poll"]
  /\ UNCHANGED <<procVars, osVars, target, child, applied>>

\* /launch: execute() unless running() reports an app.
Launch(t, a) ==
  /\ pc[t] = "idle" /\ Goto(t, "check")
  /\ goal' = [goal EXCEPT ![t] = "launch"]
  /\ target' = [target EXCEPT ![t] = a]
  /\ UNCHANGED <<procVars, osVars, child, applied>>

\* /cancel: terminate() if running() reports an app.
Cancel(t) ==
  /\ pc[t] = "idle" /\ Goto(t, "check")
  /\ goal' = [goal EXCEPT ![t] = "cancel"]
  /\ UNCHANGED <<procVars, osVars, target, child, applied>>

\* The UI closes the app: terminate().
Close(t) ==
  /\ pc[t] = "idle" /\ Goto(t, "term")
  /\ goal' = [goal EXCEPT ![t] = "close"]
  /\ UNCHANGED <<procVars, osVars, target, child, applied>>

\* The UI saves the app list: refresh() moves a new proc_t over the old one,
\* whatever the old one was doing.
Save(t) ==
  /\ CanSave /\ pc[t] = "idle"
  /\ appId' = 0 /\ app' = NoApp /\ placebo' = FALSE
  /\ handle' = FALSE /\ status' = "active" /\ prepIt' = 0
  /\ UNCHANGED <<recent, osVars, pc, goal, target, child, applied>>

\* What the caller does with the result r of running().
Result(t, r) ==
  /\ pc' = [pc EXCEPT ![t] =
       IF (goal[t] = "cancel" /\ r > 0) \/ (goal[t] = "launch" /\ r <= 0)
         THEN "term" ELSE "idle"]
  /\ goal' = [goal EXCEPT ![t] =
       CASE goal[t] = "cancel" -> "close"
         [] goal[t] = "launch" -> "execute"
         [] OTHER -> @]

(***************************************************************************)
(* running().                                                              *)
(***************************************************************************)

Dead(p) == IF p = "zombie" THEN "reaped" ELSE p

\* platf::process_group_running: waitpid on the group, without blocking. It
\* finds the leader alive or collects it; it cannot see the leader's children.
GroupRunning == leader \in {"running", "zombie"}

\* The fail guard of running(): collect every child that has ended.
Reap == /\ leader' = Dead(leader)
        /\ child' = [u \in Thread |-> Dead(child[u])]

\* running() finds the app still there.
CheckAlive(t) ==
  /\ pc[t] = "check"
  /\ placebo \/ (handle /\ ((app.waitAll /\ GroupRunning)
                             \/ leader = "running"))
  /\ Result(t, appId)
  /\ Reap
  /\ UNCHANGED <<procVars, exit, kids, target, applied>>

\* Mutant of CheckOver: the poll that finds the app ended does not clean up.
CheckOverIdle(t, known) ==
  /\ pc[t] = "check" /\ ~placebo /\ handle
  /\ ~(app.waitAll /\ GroupRunning) /\ leader # "running"
  /\ known = exit /\ status' = known
  /\ leader' = "reaped"
  /\ Goto(t, IF app.autoDetach /\ known = "clean" /\ recent
               THEN "detach" ELSE "idle")
  /\ UNCHANGED <<appId, app, placebo, handle, prepIt, recent, exit, kids,
                 goal, target, child, applied>>

\* running() finds that the process has ended. known is what _process reports
\* as its exit status, lost if somebody else collected it.
CheckOver(t, known) ==
  /\ pc[t] = "check" /\ ~placebo /\ handle
  /\ ~(app.waitAll /\ GroupRunning) /\ leader # "running"
  /\ CASE status # "active" -> known = status
       [] status = "active" /\ leader = "zombie" -> known = exit
       [] OTHER -> known \in {"clean", "failed"}
  /\ status' = known
  /\ leader' = "reaped"
  /\ Goto(t, IF app.autoDetach /\ known = "clean" /\ recent
               THEN "detach" ELSE "term")
  /\ UNCHANGED <<appId, app, placebo, handle, prepIt, recent, exit, kids,
                 goal, target, child, applied>>

\* No process at all: running() returns 0.
CheckNone(t) ==
  /\ pc[t] = "check" /\ ~placebo /\ ~handle
  /\ Result(t, 0)
  /\ Reap
  /\ UNCHANGED <<procVars, exit, kids, target, applied>>

\* The app ended well within 5 s: treat it as detached.
Detach(t) ==
  /\ pc[t] = "detach"
  /\ placebo' = TRUE
  /\ Result(t, appId)
  /\ Reap
  /\ UNCHANGED <<appId, app, handle, status, prepIt, recent, exit, kids,
                 target, applied>>

(***************************************************************************)
(* terminate().                                                            *)
(***************************************************************************)

Terminate(t) ==
  /\ pc[t] = "term" /\ Goto(t, "kill")
  /\ placebo' = FALSE
  /\ UNCHANGED <<appId, app, handle, status, prepIt, recent, osVars, goal,
                 target, child, applied>>

\* terminate_process_group, which may take exit_timeout: the group is asked
\* to end and then killed, if process_group_running() sees anyone in it.
KillGroup(t) ==
  /\ pc[t] = "kill" /\ Goto(t, "reset")
  /\ IF handle /\ GroupRunning
       THEN leader' = "reaped" /\ kids' = FALSE
       ELSE UNCHANGED <<leader, kids>>
  /\ UNCHANGED <<procVars, exit, goal, target, child, applied>>

\* Both handles are given up.
ResetHandles(t) ==
  /\ pc[t] = "reset" /\ Goto(t, "undo")
  /\ handle' = FALSE /\ status' = "active"
  /\ UNCHANGED <<appId, app, placebo, prepIt, recent, osVars, goal, target,
                 child, applied>>

\* Unwind the prep commands, last one first. The iterator moves only after
\* the undo command has ended; its failure is logged and ignored.
UndoSpawn(t) ==
  /\ pc[t] = "undo" /\ prepIt \in 1 .. Len(app.prep)
  /\ app.prep[prepIt].undo
  /\ Goto(t, "undoWait")
  /\ child' = [child EXCEPT ![t] = "running"]
  /\ UNCHANGED <<procVars, osVars, goal, target, applied>>

\* There is no undo command, or it cannot be started, which is logged: the
\* wait for the child that does not exist returns at once (external).
UndoSkip(t) ==
  /\ pc[t] = "undo" /\ prepIt \in 1 .. Len(app.prep)
  /\ Goto(t, "undoNext")
  /\ UNCHANGED <<procVars, osVars, goal, target, child, applied>>

UndoWaited(t) ==
  /\ pc[t] = "undoWait" /\ child[t] = "zombie"
  /\ Goto(t, "undoNext")
  /\ child' = [child EXCEPT ![t] = "none"]
  /\ UNCHANGED <<procVars, osVars, goal, target, applied>>

\* Mutant of UndoNext: the commands are unwound first one first.
UndoNextForward(t) ==
  /\ pc[t] = "undoNext" /\ Goto(t, "undo")
  /\ prepIt' = prepIt - 1
  /\ applied' = applied \ {Len(app.prep) + 1 - prepIt}
  /\ UNCHANGED <<appId, app, placebo, handle, status, recent, osVars, goal,
                 target, child>>

UndoNext(t) ==
  /\ pc[t] = "undoNext" /\ Goto(t, "undo")
  /\ prepIt' = prepIt - 1
  /\ applied' = applied \ {prepIt}
  /\ UNCHANGED <<appId, app, placebo, handle, status, recent, osVars, goal,
                 target, child>>

\* Mutant of TerminateEnd: the loop stops one prep command early.
TerminateEndEarly(t) ==
  /\ pc[t] = "undo" /\ prepIt \in {0, 1}
  /\ appId' = -1
  /\ CASE goal[t] \in {"poll", "cancel", "launch"} -> Result(t, 0) /\ Reap
       [] goal[t] = "execute" ->
            Goto(t, "load") /\ UNCHANGED <<goal, leader, child>>
       [] OTHER -> Goto(t, "idle") /\ UNCHANGED <<goal, leader, child>>
  /\ UNCHANGED <<app, placebo, handle, status, prepIt, recent, exit, kids,
                 target, applied>>

\* The end of terminate(): back to running(), to execute() or to the caller.
TerminateEnd(t) ==
  /\ pc[t] = "undo" /\ prepIt = 0
  /\ appId' = -1
  /\ CASE goal[t] \in {"poll", "cancel", "launch"} -> Result(t, 0) /\ Reap
       [] goal[t] = "execute" ->
            Goto(t, "load") /\ UNCHANGED <<goal, leader, child>>
       [] OTHER -> Goto(t, "idle") /\ UNCHANGED <<goal, leader, child>>
  /\ UNCHANGED <<app, placebo, handle, status, prepIt, recent, exit, kids,
                 target, applied>>

(***************************************************************************)
(* execute(), after its terminate().                                       *)
(***************************************************************************)

\* Look the app up: 404 without one.
Load(t) ==
  /\ pc[t] = "load"
  /\ IF target[t] \in DOMAIN Apps
       THEN /\ appId' = target[t] /\ app' = Apps[target[t]] /\ prepIt' = 0
            /\ Goto(t, "prep")
       ELSE Goto(t, "idle") /\ UNCHANGED <<appId, app, prepIt>>
  /\ UNCHANGED <<placebo, handle, status, recent, osVars, goal, target,
                 child, applied>>

PrepSpawn(t) ==
  /\ pc[t] = "prep" /\ prepIt < Len(app.prep)
  /\ app.prep[prepIt + 1].do
  /\ Goto(t, "prepWait")
  /\ child' = [child EXCEPT ![t] = "running"]
  /\ UNCHANGED <<procVars, osVars, goal, target, applied>>

PrepPass ==
  /\ prepIt' = prepIt + 1
  /\ applied' = applied \cup {prepIt + 1}

\* An empty command is skipped.
PrepSkip(t) ==
  /\ pc[t] = "prep" /\ prepIt < Len(app.prep)
  /\ ~app.prep[prepIt + 1].do
  /\ PrepPass
  /\ UNCHANGED <<appId, app, placebo, handle, status, recent, osVars, pc,
                 goal, target, child>>

PrepWaited(t) ==
  /\ pc[t] = "prepWait" /\ child[t] = "zombie"
  /\ Goto(t, "prep")
  /\ child' = [child EXCEPT ![t] = "none"]
  /\ PrepPass
  /\ UNCHANGED <<appId, app, placebo, handle, status, recent, osVars, goal,
                 target>>

\* The command of an app without a command of its own may not be started for
\* lack of permission: execute() goes on to wait for a child that does not
\* exist (external), which this step takes for a success, PrepFails for a
\* failure.
PrepDenied(t) ==
  /\ pc[t] = "prep" /\ prepIt < Len(app.prep)
  /\ app.prep[prepIt + 1].do /\ ~app.cmd
  /\ PrepPass
  /\ UNCHANGED <<appId, app, placebo, handle, status, recent, osVars, pc,
                 goal, target, child>>

\* Mutant of PrepFails: execute() returns -1 without its fail guard.
PrepFailsUnguarded(t) ==
  /\ \/ pc[t] = "prep" /\ prepIt < Len(app.prep) /\ app.prep[prepIt + 1].do
     \/ pc[t] = "prepWait" /\ child[t] \in {"zombie", "reaped"}
  /\ Goto(t, "idle")
  /\ child' = [child EXCEPT ![t] = "none"]
  /\ UNCHANGED <<procVars, osVars, goal, target, applied>>

\* The command does not start, cannot be waited for or exits with an error:
\* execute() returns -1 and its fail guard calls terminate().
PrepFails(t) ==
  /\ \/ pc[t] = "prep" /\ prepIt < Len(app.prep) /\ app.prep[prepIt + 1].do
     \/ pc[t] = "prepWait" /\ child[t] \in {"zombie", "reaped"}
  /\ Goto(t, "term")
  /\ goal' = [goal EXCEPT ![t] = "close"]
  /\ child' = [child EXCEPT ![t] = "none"]
  /\ UNCHANGED <<procVars, osVars, target, applied>>

\* Start the app: a process of its own group, or nothing for an app without
\* a command. The detached commands before it change no state kept here.
Start(t) ==
  /\ pc[t] = "prep" /\ prepIt = Len(app.prep)
  /\ Goto(t, "idle")
  /\ recent' = TRUE
  /\ IF app.cmd
       THEN /\ handle' = TRUE /\ status' = "active"
            /\ leader' = "running" /\ kids' \in BOOLEAN
            /\ UNCHANGED placebo
       ELSE placebo' = TRUE /\ UNCHANGED <<handle, status, leader, kids>>
  /\ UNCHANGED <<appId, app, prepIt, exit, goal, target, child, applied>>

\* The app cannot be started: the fail guard unwinds.
StartFails(t) ==
  /\ pc[t] = "prep" /\ prepIt = Len(app.prep) /\ app.cmd
  /\ Goto(t, "term")
  /\ goal' = [goal EXCEPT ![t] = "close"]
  /\ UNCHANGED <<procVars, osVars, target, child, applied>>

(***************************************************************************)
(* The operating system.                                                   *)
(***************************************************************************)

LeaderExits(code) ==
  /\ leader = "running" /\ leader' = "zombie" /\ exit' = code
  /\ UNCHANGED <<procVars, kids, pc, goal, target, child, applied>>

KidsExit ==
  /\ kids /\ kids' = FALSE
  /\ UNCHANGED <<procVars, leader, exit, pc, goal, target, child, applied>>

ChildExits(t) ==
  /\ child[t] = "running"
  /\ child' = [child EXCEPT ![t] = "zombie"]
  /\ UNCHANGED <<procVars, osVars, pc, goal, target, applied>>

FiveSecondsPass ==
  /\ recent /\ recent' = FALSE
  /\ UNCHANGED <<appId, app, placebo, handle, status, prepIt, osVars, pc,
                 goal, target, child, applied>>

----------------------------------------------------------------------------
Step(t) ==
  \/ CheckAlive(t) \/ CheckNone(t) \/ Detach(t)
  \/ \E known \in {"clean", "failed"} : CheckOver(t, known)
  \/ Terminate(t) \/ KillGroup(t) \/ ResetHandles(t)
  \/ UndoSpawn(t) \/ UndoSkip(t) \/ UndoWaited(t) \/ UndoNext(t)
  \/ TerminateEnd(t)
  \/ Load(t) \/ PrepSpawn(t) \/ PrepSkip(t) \/ PrepWaited(t)
  \/ PrepDenied(t) \/ PrepFails(t)
  \/ Start(t) \/ StartFails(t)

Request(t) ==
  \/ \E a \in AppId : Launch(t, a)
  \/ Cancel(t) \/ Close(t) \/ Save(t)

System ==
  \/ \E code \in {"clean", "failed"} : LeaderExits(code)
  \/ KidsExit \/ FiveSecondsPass
  \/ \E t \in Thread : ChildExits(t)

Next ==
  \/ \E t \in Thread : Step(t) \/ Poll(t)
  \/ \E t \in Worker : Request(t)
  \/ System

Spec == Init /\ [][Next]_vars

\* Each thread goes on, prep and undo commands end, and running() is polled
\* again and again (by the control thread in every pass, by clients).
Fairness ==
  \A t \in Thread :
    /\ WF_vars(Step(t)) /\ WF_vars(ChildExits(t))
    /\ SF_vars(Poll(t))

FairSpec == Spec /\ Fairness

----------------------------------------------------------------------------
Place == {"idle", "check", "detach", "term", "kill", "reset", "undo", "undoWait",
          "undoNext", "load", "prep", "prepWait"}

TypeOK ==
  /\ appId \in AppId \cup {0, -1}
  /\ app \in {NoApp} \cup {Apps[a] : a \in DOMAIN Apps}
  /\ placebo \in BOOLEAN /\ handle \in BOOLEAN /\ recent \in BOOLEAN
  /\ status \in {"active", "clean", "failed"}
  /\ prepIt \in 0 .. MaxPrep
  /\ leader \in {"none", "running", "zombie", "reaped"}
  /\ exit \in {"clean", "failed"} /\ kids \in BOOLEAN
  /\ pc \in [Thread -> Place]
  /\ goal \in [Thread -> {"poll", "launch", "cancel", "close", "execute"}]
  /\ target \in [Thread -> AppId \cup {0}]
  /\ child \in [Thread -> {"none", "running", "zombie", "reaped"}]
  /\ applied \subseteq 1 .. MaxPrep

Quiet == \A t \in Thread : pc[t] = "idle"

\* Whenever nobody is inside proc_t and no app is up, every prep command that
\* had passed has been unwound: by the cancel, by the poll that found the app
\* ended, or by the fail guard of a launch that failed half-way.
PrepUnwound == Quiet /\ ~placebo /\ ~handle => applied = {}

\* execute() begins with terminate(), "Ensure starting from a clean slate":
\* when it reaches its first prep command, nothing of an earlier app is left,
\* neither a prep command to unwind nor its process.
CleanSlate ==
  \A t \in Thread : pc[t] = "prep" /\ prepIt = 0 =>
    applied = {} /\ leader # "running"

\* running() returns "_app_id if a process is running, otherwise 0": when
\* nobody is inside proc_t, an app that counts as running has an id.
RunningReturnsId == Quiet /\ (placebo \/ handle) => appId > 0

\* Prep commands are unwound in the reverse of their order: the one unwound
\* is the last one still applied.
ReverseOrder ==
  [][\A i \in applied \ applied' : \A j \in applied : j <= i]_vars

\* Once the app's process has ended, polling unwinds its prep commands,
\* unless it counts as a detached app from then on.
EndedIsUnwound ==
  (leader \in {"zombie", "reaped"} /\ handle) ~> (placebo \/ applied = {})

\* "The app is still running if any process in the group is still running":
\* running() does not take a wait-all app for ended while one is.
WaitsForAll ==
  [][\A t \in Thread, known \in {"clean", "failed"} :
       CheckOver(t, known) /\ pc'[t] = "term" /\ app.waitAll => ~kids]_vars

\* The reaper in running() "must be synchronized carefully with calls to
\* bp::wait()": it does not take the exit status a thread is waiting for.
ReaperSynchronized == \A t \in Thread : child[t] # "reaped"
-----------------------------------------------------------------------------
\* A small instance for TLC.
Both == [do |-> TRUE, undo |-> TRUE]
UndoOnly == [do |-> FALSE, undo |-> TRUE]
DoOnly == [do |-> TRUE, undo |-> FALSE]

\* 1: a game with two prep commands; 2: a launcher that waits for its first
\* process only; 3: the desktop, without a command.
MCApps ==
  (1 :> [cmd |-> TRUE, waitAll |-> TRUE, autoDetach |-> FALSE,
         prep |-> <<Both, UndoOnly>>]) @@
  (2 :> [cmd |-> TRUE, waitAll |-> FALSE, autoDetach |-> TRUE,
         prep |-> <<DoOnly, Both>>]) @@
  (3 :> [cmd |-> FALSE, waitAll |-> TRUE, autoDetach |-> TRUE,
         prep |-> <<Both>>])
=============================================================================
