---------------------------- MODULE MainLifetime ----------------------------
(***************************************************************************)
(* The life of the process (main.cpp, entry_handler.cpp, system_tray.cpp)  *)
(* from the moment the signal handlers are in place: main starts what it   *)
(* publishes and the servers, waits in its loop, joins and unwinds, while  *)
(* signals and exit_sunshine run the interrupt handler on other threads.   *)
(* Ten seconds are longer than everything that does not hang: the forced   *)
(* shutdown comes when nothing else moves. A server thread that hangs is   *)
(* in the set stuck.                                                       *)
(***************************************************************************)
EXTENDS Naturals, Sequences, FiniteSets

CONSTANTS
  Caller,    \* threads on which the handler runs, "session" the monitor's
  Code,      \* exit codes asked for; a signal from outside asks for 0
  MayHang    \* server threads that may hang

Server == {"http", "config", "rtsp"}
Publisher == <<"upnp", "mdns">>   \* the locals of main, in the order of their end

VARIABLES
  mpc,       \* main
  os, wants, \* the platform, and whether the tray is enabled
  tray,      \* "none", "up" (tray_initialized) or "quit"
  event,     \* mail::shutdown
  serving,   \* server threads that run
  stuck,     \* server threads that do not notice the event
  starting,  \* asynchronous starts under way
  alive,     \* locals of main that the starts write to
  armed,     \* a forced shutdown waits in the task pool
  hpc,       \* per caller: the interrupt handler
  exitCode,  \* desired_exit_code
  guarded,   \* display_device_deinit_guard is set
  late       \* ghost: the tray came up after the event was raised

lifeVars == <<mpc, os, wants, tray, event, serving, stuck, starting, alive, armed, hpc, exitCode, guarded, late>>
mainVars == <<mpc, tray, serving, starting, alive, late>>

Init ==
  /\ mpc = "init" /\ os \in {"linux", "windows"} /\ wants \in BOOLEAN
  /\ tray = "none" /\ event = FALSE /\ serving = {} /\ stuck \in {{}} \cup {{s} : s \in MayHang}
  /\ starting = {} /\ alive = {} /\ armed = FALSE
  /\ hpc = [c \in Caller |-> "idle"] /\ exitCode = 0 /\ guarded = TRUE /\ late = FALSE

----------------------------------------------------------------------------
(* exit_sunshine and the interrupt handler, on any thread at any time. *)

\* exit_sunshine: the first code that is not 0 stays.
ExitSunshine(c, code) ==
  /\ hpc[c] = "idle" /\ mpc \notin {"done", "trapped"}
  /\ c = "session" => os = "windows"
  /\ hpc' = [hpc EXCEPT ![c] = "push"]
  /\ exitCode' = IF exitCode = 0 THEN code ELSE exitCode
  /\ UNCHANGED <<mainVars, os, wants, event, stuck, armed, guarded>>

\* end_tray.
EndTray(t) == IF t = "up" THEN "quit" ELSE t

\* The handler: push the forced shutdown, raise the event, end the tray, give
\* the display back. The session monitor's call then waits for ever.
Handler(c) ==
  LET At(a, b) == hpc[c] = a /\ hpc' = [hpc EXCEPT ![c] = b]
  IN /\ mpc \notin {"done", "trapped"}
     /\ \/ At("push", "raise") /\ armed' = TRUE /\ UNCHANGED <<event, tray, guarded>>
        \/ At("raise", "tray") /\ event' = TRUE /\ UNCHANGED <<armed, tray, guarded>>
        \/ At("tray", "guard") /\ tray' = EndTray(tray) /\ UNCHANGED <<armed, event, guarded>>
        \/ /\ At("guard", IF c = "session" THEN "wait" ELSE "over")
           /\ guarded' = FALSE /\ UNCHANGED <<armed, event, tray>>
     /\ UNCHANGED <<mpc, serving, starting, alive, late, os, wants, stuck, exitCode>>

----------------------------------------------------------------------------
(* main *)

MainStep(from, to) == mpc = from /\ mpc' = to
MainKeeps == UNCHANGED <<os, wants, event, stuck, armed, hpc, exitCode, guarded>>

\* http::init fails: main returns, on Windows after ten seconds.
HttpFails ==
  /\ MainStep("init", IF os = "windows" THEN "sleep" ELSE "unwind") /\ MainKeeps
  /\ UNCHANGED <<tray, serving, starting, alive, late>>
SleepEnds ==
  /\ MainStep("sleep", "unwind") /\ MainKeeps
  /\ UNCHANGED <<tray, serving, starting, alive, late>>

\* mDNS and UPnP are started in the background.
StartPublishing ==
  /\ MainStep("init", "peek") /\ MainKeeps
  /\ starting' = {"mdns", "upnp"} /\ alive' = {"mdns", "upnp"}
  /\ UNCHANGED <<tray, serving, late>>

\* A shutdown before the servers exist ends main at once.
PeekShutdown ==
  /\ mpc = "peek" /\ MainKeeps
  /\ IF event THEN mpc' = "unwind" /\ UNCHANGED serving
     ELSE mpc' = "tray" /\ serving' = Server
  /\ UNCHANGED <<tray, starting, alive, late>>

\* init_tray, which may fail; on Windows in a thread of its own.
InitTray(ok) ==
  /\ MainStep("tray", "loop") /\ MainKeeps
  /\ tray' = IF wants /\ ok THEN "up" ELSE tray
  /\ late' = (wants /\ ok /\ event)
  /\ UNCHANGED <<serving, starting, alive>>

\* mainThreadLoop: the loop of the tray on the main thread, or a wait for the
\* event. A tray that is not there ends its loop.
LoopEnds == IF os = "linux" /\ wants THEN tray # "up" ELSE event
MainLoop ==
  /\ LoopEnds /\ MainStep("loop", "join") /\ MainKeeps
  /\ UNCHANGED <<tray, serving, starting, alive, late>>

Join ==
  /\ serving = {} /\ MainStep("join", "unwind") /\ MainKeeps
  /\ UNCHANGED <<tray, serving, starting, alive, late>>

\* The futures are destroyed before what they write to.
Waited(p) == p \notin starting

\* The locals of main end in the reverse of their order; a start that is still
\* running is waited for. The monitor thread is joined, or detached after a second.
Unwind(p) ==
  /\ mpc = "unwind" /\ MainKeeps
  /\ p \in alive /\ (p = Publisher[2] => Publisher[1] \notin alive)
  /\ Waited(p) /\ alive' = alive \ {p}
  /\ UNCHANGED <<mpc, tray, serving, starting, late>>
Return ==
  /\ alive = {} /\ MainStep("unwind", "done") /\ guarded' = FALSE
  /\ UNCHANGED <<tray, serving, starting, alive, late, os, wants, event, stuck, armed, hpc, exitCode>>

MainRuns ==
  \/ HttpFails \/ SleepEnds \/ StartPublishing \/ PeekShutdown \/ MainLoop \/ Join \/ Return
  \/ (\E ok \in BOOLEAN : InitTray(ok)) \/ \E p \in alive : Unwind(p)

----------------------------------------------------------------------------
(* The other threads. *)

Started(p) ==
  /\ p \in starting /\ starting' = starting \ {p} /\ MainKeeps
  /\ UNCHANGED <<mpc, tray, serving, alive, late>>

\* A server sees the event and ends.
ServerEnds(s) ==
  /\ s \in serving \ stuck /\ event /\ serving' = serving \ {s} /\ MainKeeps
  /\ UNCHANGED <<mpc, tray, starting, alive, late>>

\* Ten seconds have passed since the handler ran, and nothing but a hanging
\* thread or the tray is waited for: the task pool's worker traps. task_pool.stop
\* keeps it from doing so once the servers are joined.
Hangs ==
  /\ \A c \in Caller : hpc[c] \in {"idle", "over", "wait"}
  /\ \/ mpc = "sleep"
     \/ mpc = "loop" /\ ~LoopEnds
     \/ mpc = "join" /\ serving # {} /\ serving \subseteq stuck
ForceShutdown ==
  /\ armed /\ Hangs /\ mpc' = "trapped" /\ MainKeeps
  /\ UNCHANGED <<tray, serving, starting, alive, late>>

OthersRun == (\E p \in starting : Started(p)) \/ (\E s \in Server : ServerEnds(s)) \/ ForceShutdown

Next ==
  \/ \E c \in Caller, code \in Code : ExitSunshine(c, code)
  \/ \E c \in Caller : Handler(c)
  \/ MainRuns \/ OthersRun

Spec == Init /\ [][Next]_lifeVars

\* Threads run, the starts end, servers that do not hang see the event.
FairSpec == Spec /\ WF_lifeVars(MainRuns) /\ WF_lifeVars(OthersRun)
  /\ \A c \in Caller : WF_lifeVars(Handler(c))

----------------------------------------------------------------------------
\* The background starts of main write into locals that still exist, also when
\* main returns early (main.cpp, sync_mDNS and sync_upnp).
StartsHaveATarget == starting \subseteq alive

\* The process is trapped only after someone asked for its end and something
\* hangs: a server thread, the start-up, or the tray's loop because the request
\* came between the look at the event and init_tray; and the display has been
\* given back by then, as "It also should be destroyed before forced shutdown"
\* says (main.cpp, on_signal).
TrapOnlyWhenStuck ==
  mpc = "trapped" => armed /\ ~guarded /\ (stuck # {} \/ late \/ alive = {})

\* The inductive invariant behind it: a handler that has come so far has armed the
\* forced shutdown, raised the event, ended the tray and given the display back.
Past(places) == \E c \in Caller : hpc[c] \in places
TrapInv ==
  /\ hpc \in [Caller -> {"idle", "push", "raise", "tray", "guard", "over", "wait"}]
  /\ armed => Past({"raise", "tray", "guard", "over", "wait"})
  /\ Past({"tray", "guard", "over", "wait"}) => event
  /\ Past({"guard", "over", "wait"}) => tray # "up" \/ late
  /\ Past({"over", "wait"}) => ~guarded
  /\ mpc \in {"init", "sleep"} => alive = {}
  /\ mpc \in {"init", "sleep", "peek", "tray"} => tray # "up"
  /\ TrapOnlyWhenStuck

\* A shutdown that was asked for ends the process, cleanly or by force, whatever
\* it was doing and whichever threads hang.
ShuttingDown == event
LifeOver == mpc \in {"done", "trapped"}
ShutdownEnds == ShuttingDown ~> LifeOver
=============================================================================
