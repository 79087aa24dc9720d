--------------------------- MODULE StreamSession ---------------------------
(***************************************************************************)
(* The life of streaming sessions (stream.cpp, namespace session), the     *)
(* RTSP server's slots that own them (rtsp.cpp, rtsp_server_t), the        *)
(* control thread that serves them (stream.cpp, controlBroadcastThread)    *)
(* and the reference-counted broadcast context they share (thread_safe.h,  *)
(* shared_t; stream.cpp, start_broadcast and end_broadcast).               *)
(*                                                                         *)
(* Threads: the RTSP handler thread, which answers ANNOUNCE and cleans up  *)
(* after every event; HTTP workers, which call session_count() and         *)
(* terminate_sessions(); the thread of rtsp_stream::start(), which stops   *)
(* the server at shutdown; one control thread per broadcast context; and a *)
(* video and an audio thread per session.                                  *)
(*                                                                         *)
(* Not modelled here: the pending launch session (LaunchEvent), the        *)
(* content of packets, and the ten-second watchdog of session::join, which *)
(* kills the process when join does not return; the liveness properties    *)
(* say that join returns.                                                  *)
(***************************************************************************)
EXTENDS Integers, FiniteSets, TLC

CONSTANTS
  Session,       \* stream::session_t objects, each allocated at most once
  Http,          \* HTTP worker threads that call into the RTSP server
  Rtsp,          \* the thread "rtsp::handler"
  Main,          \* the thread of rtsp_stream::start()
  NoOne,         \* no thread, no session
  UintRange,     \* 2^32 in the code: the range of atomic_uint running_sessions
  Env            \* which events the environment may produce, see EnvEvents

EnvEvents == {"acceptFail", "appExit", "bcastFail", "bindFail", "cancel",
              "shutdown"}

ASSUME ThreadAssumption ==
  /\ Rtsp \notin Http /\ Main \notin Http /\ Rtsp # Main
  /\ NoOne \notin Http \cup {Rtsp, Main} \cup Session
ASSUME EnvAssumption == Env \subseteq EnvEvents
ASSUME RangeAssumption == UintRange \in Nat \ {0}

\* For TLC: sessions are interchangeable; no action orders them.
SessionSymmetry == Permutations(Session)

Thread == Http \cup {Rtsp, Main}
Media == {"video", "audio"}

VARIABLES
  life,        \* a session_t: "none", "live" or "freed" (destroyed)
  state,       \* session_t::state; STARTING is declared but never stored
  av,          \* the session's video and audio threads
  shutdownEv,  \* sessions whose shutdown_event is raised
  controlEnd,  \* sessions whose controlEnd is raised
  slots,       \* rtsp_server_t::_session_slots
  slotsLock,   \* holder of the lock of _session_slots
  rpc,         \* where the RTSP thread is
  rcur,        \* the session cmd_announce is starting (it owns a reference)
  cpc,         \* where each caller of rtsp_server_t::clear is
  cmode,       \* its argument: TRUE for clear(all)
  ctodo,       \* slots its loop has not reached
  ccur,        \* the slot it is joining
  refs,        \* holders of a shared_t<broadcast_ctx_t>::ptr_t
  bcast,       \* the context: "down", "up" or "ending" (in end_broadcast)
  bShutdown,   \* mail::broadcast_shutdown is raised
  ctl,         \* where the control thread is
  sessions,    \* control_server_t::_sessions
  hasPeer,     \* sessions with control.peer set
  peerMap,     \* control_server_t::_peer_to_session
  ctlTodo,     \* sessions this pass of the control loop has not visited
  awaiting,    \* has_session_awaiting_peer
  running,     \* running_sessions
  appRunning,  \* proc::proc.running() # 0
  shutdown     \* mail::shutdown is raised

sessionVars == <<life, state, av, shutdownEv, controlEnd>>
slotVars == <<slots, slotsLock>>
rtspVars == <<rpc, rcur>>
clearVars == <<cpc, cmode, ctodo, ccur>>
bcastVars == <<refs, bcast, bShutdown>>
ctlVars == <<ctl, sessions, hasPeer, peerMap, ctlTodo, awaiting>>
envVars == <<appRunning, shutdown>>
vars == <<sessionVars, slotVars, rtspVars, clearVars, bcastVars, ctlVars,
          running, envVars>>

Init ==
  /\ life = [s \in Session |-> "none"]
  /\ state = [s \in Session |-> "STOPPED"]
  /\ av = [s \in Session |-> [m \in Media |-> "none"]]
  /\ shutdownEv = {} /\ controlEnd = {}
  /\ slots = {} /\ slotsLock = NoOne
  /\ rpc = "iterate" /\ rcur = NoOne
  /\ cpc = [t \in Thread |-> "idle"]
  /\ cmode = [t \in Thread |-> FALSE]
  /\ ctodo = [t \in Thread |-> {}]
  /\ ccur = [t \in Thread |-> NoOne]
  /\ refs = {} /\ bcast = "down" /\ bShutdown = FALSE
  /\ ctl = "none" /\ sessions = {} /\ hasPeer = {} /\ peerMap = {}
  /\ ctlTodo = {} /\ awaiting = FALSE
  /\ running = 0
  /\ appRunning = TRUE /\ shutdown = FALSE

(***************************************************************************)
(* Helpers: session::stop, and taking a reference to the broadcast.        *)
(***************************************************************************)

\* Mutant of Stop: the shutdown event is not raised.
StopSilently(s) ==
  /\ state' = IF state[s] = "RUNNING" THEN [state EXCEPT ![s] = "STOPPING"]
                                      ELSE state
  /\ UNCHANGED shutdownEv

\* session::stop: one compare-exchange; only the caller that moves RUNNING
\* to STOPPING raises the session's shutdown event.
Stop(s) ==
  IF state[s] = "RUNNING"
    THEN /\ state' = [state EXCEPT ![s] = "STOPPING"]
         /\ shutdownEv' = shutdownEv \cup {s}
    ELSE UNCHANGED <<state, shutdownEv>>

\* shared_t::ref with start_broadcast as constructor. The lock of shared_t is
\* held throughout end_broadcast, so nobody gets a reference meanwhile.
Ref(holder) ==
  /\ bcast # "ending"
  /\ refs' = refs \cup {holder}
  /\ IF refs = {}
       THEN bcast' = "up" /\ ctl' = "top"
       ELSE UNCHANGED <<bcast, ctl>>

\* Mutant of DestroySession: the broadcast is ended without looking at the
\* reference count.
DestroySessionUncounted(s) ==
  /\ life' = [life EXCEPT ![s] = "freed"]
  /\ refs' = refs \ {<<s, "session">>}
  /\ bcast' = "ending" /\ bShutdown' = TRUE

\* ~session_t: the session's own reference is released; the last one runs
\* end_broadcast, which raises broadcast_shutdown and then waits.
DestroySession(s) ==
  /\ life' = [life EXCEPT ![s] = "freed"]
  /\ refs' = refs \ {<<s, "session">>}
  /\ IF refs = {<<s, "session">>}
       THEN bcast' = "ending" /\ bShutdown' = TRUE
       ELSE UNCHANGED <<bcast, bShutdown>>

(***************************************************************************)
(* The RTSP thread: cmd_announce and session::start.                       *)
(***************************************************************************)

\* cmd_announce has parsed the request: session::alloc and server->insert.
Announce(s) ==
  /\ rpc = "iterate" /\ cpc[Main] = "idle"
  /\ life[s] = "none"
  /\ slotsLock = NoOne
  /\ life' = [life EXCEPT ![s] = "live"]
  /\ slots' = slots \cup {s}
  /\ rpc' = "ref" /\ rcur' = s
  /\ UNCHANGED <<state, av, shutdownEv, controlEnd, slotsLock, clearVars,
                 bcastVars, ctlVars, running, envVars>>

\* session::start takes the session's broadcast reference.
StartRef ==
  /\ rpc = "ref"
  /\ Ref(<<rcur, "session">>)
  /\ rpc' = "push"
  /\ UNCHANGED <<sessionVars, slotVars, rcur, clearVars, bShutdown, sessions,
                 hasPeer, peerMap, ctlTodo, awaiting, running, envVars>>

\* start_broadcast fails (a port is taken): session::start returns -1.
StartRefFails ==
  /\ "bindFail" \in Env
  /\ rpc = "ref" /\ bcast = "down"
  /\ rpc' = "remove"
  /\ UNCHANGED <<sessionVars, slotVars, rcur, clearVars, bcastVars, ctlVars,
                 running, envVars>>

\* The failed session leaves the slots and is destroyed; it holds no
\* reference. Response 500.
RemoveFailed ==
  /\ rpc = "remove" /\ slotsLock = NoOne
  /\ slots' = slots \ {rcur}
  /\ life' = [life EXCEPT ![rcur] = "freed"]
  /\ rpc' = "peek" /\ rcur' = NoOne
  /\ UNCHANGED <<state, av, shutdownEv, controlEnd, slotsLock, clearVars,
                 bcastVars, ctlVars, running, envVars>>

\* Insert the session into the control server's list, under its lock.
StartPush ==
  /\ rpc = "push" /\ ctl # "pass"
  /\ sessions' = sessions \cup {rcur}
  /\ rpc' = "audio"
  /\ UNCHANGED <<sessionVars, slotVars, rcur, clearVars, bcastVars, ctl,
                 hasPeer, peerMap, ctlTodo, awaiting, running, envVars>>

\* Spawn the audio thread, then the video thread.
StartThread(m) ==
  /\ rpc = m
  /\ av' = [av EXCEPT ![rcur] = [@ EXCEPT ![m] = "spawned"]]
  /\ rpc' = IF m = "audio" THEN "video" ELSE "run"
  /\ UNCHANGED <<life, state, shutdownEv, controlEnd, slotVars, rcur,
                 clearVars, bcastVars, ctlVars, running, envVars>>

\* Mutant of StartRun: STARTING is stored.
StartRunStarting ==
  /\ rpc = "run"
  /\ state' = [state EXCEPT ![rcur] = "STARTING"]
  /\ rpc' = "count"
  /\ UNCHANGED <<life, av, shutdownEv, controlEnd, slotVars, rcur, clearVars,
                 bcastVars, ctlVars, running, envVars>>

\* session.state.store(RUNNING)
StartRun ==
  /\ rpc = "run"
  /\ state' = [state EXCEPT ![rcur] = "RUNNING"]
  /\ rpc' = "count"
  /\ UNCHANGED <<life, av, shutdownEv, controlEnd, slotVars, rcur, clearVars,
                 bcastVars, ctlVars, running, envVars>>

\* ++running_sessions; the platform callback does nothing on Linux.
StartCount ==
  /\ rpc = "count"
  /\ running' = (running + 1) % UintRange
  /\ rpc' = "respond"
  /\ UNCHANGED <<sessionVars, slotVars, rcur, clearVars, bcastVars, ctlVars,
                 envVars>>

\* cmd_announce answers 200 and drops its reference to the session, which
\* is the last one when a concurrent clear has erased the slot already.
Respond ==
  /\ rpc = "respond"
  /\ rcur' = NoOne
  /\ IF rcur \in slots
       THEN /\ rpc' = "peek"
            /\ UNCHANGED <<life, refs, bcast, bShutdown>>
       ELSE /\ DestroySession(rcur)
            /\ rpc' = IF refs = {<<rcur, "session">>} THEN "end" ELSE "peek"
  /\ UNCHANGED <<state, av, shutdownEv, controlEnd, slotVars, clearVars,
                 ctlVars, running, envVars>>

\* The io_context ran some other handler, or its 500 ms wait ended.
RtspIdle ==
  /\ rpc = "iterate"
  /\ rpc' = "peek"
  /\ UNCHANGED <<sessionVars, slotVars, rcur, clearVars, bcastVars, ctlVars,
                 running, envVars>>

(***************************************************************************)
(* rtsp_server_t::clear, called by the RTSP thread, by HTTP workers and by *)
(* the thread of rtsp_stream::start(). The slots' lock is held to its end. *)
(***************************************************************************)

ClearBegin(t, all) ==
  /\ slotsLock = NoOne
  /\ slotsLock' = t
  /\ cpc' = [cpc EXCEPT ![t] = "scan"]
  /\ cmode' = [cmode EXCEPT ![t] = all]
  /\ ctodo' = [ctodo EXCEPT ![t] = slots]
  /\ UNCHANGED <<sessionVars, slots, rcur, ccur, bcastVars, ctlVars, running,
                 envVars>>

\* The RTSP thread after each event: clear() if the broadcast is shutting
\* down, clear(false) otherwise; clear() once its loop has ended.
RtspClear ==
  \/ rpc = "peek" /\ ClearBegin(Rtsp, bShutdown) /\ rpc' = "clear"
  \/ rpc = "exit" /\ ClearBegin(Rtsp, TRUE) /\ rpc' = "last"

\* handle_accept with an error: "Stop server", all sessions are cleared. The
\* io_context no longer runs handlers once it has been stopped.
AcceptFails ==
  /\ "acceptFail" \in Env
  /\ rpc = "iterate" /\ cpc[Main] = "idle"
  /\ ClearBegin(Rtsp, TRUE) /\ rpc' = "accept"

\* session_count(), called by /launch and /resume.
HttpSessionCount(t) == cpc[t] = "idle" /\ ClearBegin(t, FALSE) /\ UNCHANGED rpc

\* terminate_sessions(), called by /cancel and by the configuration UI.
HttpTerminate(t) ==
  "cancel" \in Env /\ cpc[t] = "idle" /\ ClearBegin(t, TRUE) /\ UNCHANGED rpc

\* rtsp_server_t::stop(), once mail::shutdown is raised.
MainStop ==
  shutdown /\ cpc[Main] = "idle" /\ ClearBegin(Main, TRUE) /\ UNCHANGED rpc

\* Mutant of ClearVisit: the slot is joined without having been stopped.
ClearVisitWithoutStop(t, s) ==
  /\ cpc[t] = "scan" /\ s \in ctodo[t]
  /\ ctodo' = [ctodo EXCEPT ![t] = @ \ {s}]
  /\ cpc' = [cpc EXCEPT ![t] = "join"]
  /\ ccur' = [ccur EXCEPT ![t] = s]
  /\ UNCHANGED <<sessionVars, slotVars, rtspVars, cmode, bcastVars, ctlVars,
                 running, envVars>>

\* One turn of the loop: a slot to clear is stopped and then joined.
ClearVisit(t, s) ==
  /\ cpc[t] = "scan" /\ s \in ctodo[t]
  /\ ctodo' = [ctodo EXCEPT ![t] = @ \ {s}]
  /\ IF cmode[t] \/ state[s] = "STOPPING"
       THEN /\ Stop(s)
            /\ cpc' = [cpc EXCEPT ![t] = "join"]
            /\ ccur' = [ccur EXCEPT ![t] = s]
       ELSE UNCHANGED <<state, shutdownEv, cpc, ccur>>
  /\ UNCHANGED <<life, av, controlEnd, slotVars, rtspVars, cmode, bcastVars,
                 ctlVars, running, envVars>>

\* session::join on a session whose threads do not exist yet: std::thread
\* throws. An HTTP worker unwinds and its server catches the exception
\* (external). The thread of rtsp_stream::start() has no handler: it stays
\* where it is, lock held, while the process is terminated.
JoinThrows(t) ==
  /\ cpc[t] = "join" /\ av[ccur[t]]["video"] = "none"
  /\ IF t = Main
       THEN /\ cpc' = [cpc EXCEPT ![t] = "aborted"]
            /\ UNCHANGED <<slotsLock, cmode, ctodo, ccur>>
       ELSE /\ cpc' = [cpc EXCEPT ![t] = "idle"]
            /\ cmode' = [cmode EXCEPT ![t] = FALSE]
            /\ ctodo' = [ctodo EXCEPT ![t] = {}]
            /\ ccur' = [ccur EXCEPT ![t] = NoOne]
            /\ slotsLock' = NoOne
  /\ UNCHANGED <<sessionVars, slots, rtspVars, bcastVars, ctlVars, running,
                 envVars>>

\* Mutants of Join: it does not wait for controlEnd; it joins the video thread
\* only; running_sessions is not decremented.
JoinWithoutControlEnd(t) ==
  /\ cpc[t] = "join"
  /\ \A m \in Media : av[ccur[t]][m] = "exited"
  /\ running' = (running + UintRange - 1) % UintRange
  /\ cpc' = [cpc EXCEPT ![t] = "erase"]
  /\ UNCHANGED <<sessionVars, slotVars, rtspVars, cmode, ctodo, ccur,
                 bcastVars, ctlVars, envVars>>

JoinVideoOnly(t) ==
  /\ cpc[t] = "join"
  /\ av[ccur[t]]["video"] = "exited"
  /\ ccur[t] \in controlEnd
  /\ running' = (running + UintRange - 1) % UintRange
  /\ cpc' = [cpc EXCEPT ![t] = "erase"]
  /\ UNCHANGED <<sessionVars, slotVars, rtspVars, cmode, ctodo, ccur,
                 bcastVars, ctlVars, envVars>>

JoinWithoutCount(t) ==
  /\ cpc[t] = "join"
  /\ \A m \in Media : av[ccur[t]][m] = "exited"
  /\ ccur[t] \in controlEnd
  /\ cpc' = [cpc EXCEPT ![t] = "erase"]
  /\ UNCHANGED <<sessionVars, slotVars, rtspVars, cmode, ctodo, ccur,
                 bcastVars, ctlVars, running, envVars>>

\* session::join: both threads joined and controlEnd seen; --running_sessions.
Join(t) ==
  /\ cpc[t] = "join"
  /\ \A m \in Media : av[ccur[t]][m] = "exited"
  /\ ccur[t] \in controlEnd
  /\ running' = (running + UintRange - 1) % UintRange
  /\ cpc' = [cpc EXCEPT ![t] = "erase"]
  /\ UNCHANGED <<sessionVars, slotVars, rtspVars, cmode, ctodo, ccur,
                 bcastVars, ctlVars, envVars>>

\* The slot is erased. The session is destroyed with it, unless cmd_announce
\* still holds it.
Erase(t) ==
  /\ cpc[t] = "erase"
  /\ slots' = slots \ {ccur[t]}
  /\ ccur' = [ccur EXCEPT ![t] = NoOne]
  /\ IF rcur = ccur[t]
       THEN /\ cpc' = [cpc EXCEPT ![t] = "scan"]
            /\ UNCHANGED <<life, refs, bcast, bShutdown>>
       ELSE /\ DestroySession(ccur[t])
            /\ cpc' = [cpc EXCEPT ![t] =
                 IF refs = {<<ccur[t], "session">>} THEN "end" ELSE "scan"]
  /\ UNCHANGED <<state, av, shutdownEv, controlEnd, slotsLock, rtspVars,
                 cmode, ctodo, ctlVars, running, envVars>>

\* The loop is over: unlock and return. The RTSP thread then looks at the
\* shutdown event to go around again or to clear everything and end.
ClearEnd(t) ==
  /\ cpc[t] = "scan" /\ ctodo[t] = {}
  /\ slotsLock' = NoOne
  /\ cpc' = [cpc EXCEPT ![t] = IF t = Main THEN "done" ELSE "idle"]
  /\ rpc' = CASE t # Rtsp -> rpc
              [] t = Rtsp /\ rpc = "last" -> "done"
              [] t = Rtsp /\ rpc = "accept" -> "peek"
              [] OTHER -> IF shutdown THEN "exit" ELSE "iterate"
  /\ cmode' = [cmode EXCEPT ![t] = FALSE]
  /\ UNCHANGED <<sessionVars, slots, rcur, ctodo, ccur, bcastVars, ctlVars,
                 running, envVars>>

\* The rest of end_broadcast: the control thread has been joined, the
\* context is destroyed and broadcast_shutdown is reset.
EndBroadcast ==
  /\ bcast = "ending" /\ ctl = "exited"
  /\ bcast' = "down" /\ bShutdown' = FALSE
  /\ ctl' = "none" /\ sessions' = {} /\ peerMap' = {}

ClearEndBroadcast(t) ==
  /\ cpc[t] = "end" /\ EndBroadcast
  /\ cpc' = [cpc EXCEPT ![t] = "scan"]
  /\ UNCHANGED <<sessionVars, slotVars, rtspVars, cmode, ctodo, ccur, refs,
                 hasPeer, ctlTodo, awaiting, running, envVars>>

RtspEndBroadcast ==
  /\ rpc = "end" /\ EndBroadcast
  /\ rpc' = "peek"
  /\ UNCHANGED <<sessionVars, slotVars, rcur, clearVars, refs, hasPeer,
                 ctlTodo, awaiting, running, envVars>>

(***************************************************************************)
(* videoThread and audioThread of a session.                               *)
(***************************************************************************)

\* The thread takes its own broadcast reference and waits for a ping.
AvStart(s, m) ==
  /\ av[s][m] = "spawned"
  /\ Ref(<<s, m>>)
  /\ av' = [av EXCEPT ![s] = [@ EXCEPT ![m] = "pinging"]]
  /\ UNCHANGED <<life, state, shutdownEv, controlEnd, slotVars, rtspVars,
                 clearVars, bShutdown, sessions, hasPeer, peerMap, ctlTodo,
                 awaiting, running, envVars>>

\* recv_ping returns 0.
AvPing(s, m) ==
  /\ av[s][m] = "pinging"
  /\ av' = [av EXCEPT ![s] = [@ EXCEPT ![m] = "capturing"]]
  /\ UNCHANGED <<life, state, shutdownEv, controlEnd, slotVars, rtspVars,
                 clearVars, bcastVars, ctlVars, running, envVars>>

\* The initial ping timed out, or capture returned because of the shutdown
\* event or of a failure. The thread's reference is released first, then the
\* fail guard stops the session. The session's own reference keeps the
\* broadcast up.
AvExit(s, m) ==
  /\ av[s][m] \in {"pinging", "capturing"}
  /\ av' = [av EXCEPT ![s] = [@ EXCEPT ![m] = "exited"]]
  /\ refs' = refs \ {<<s, m>>}
  /\ Stop(s)
  /\ UNCHANGED <<life, controlEnd, slotVars, rtspVars, clearVars, bcast,
                 bShutdown, ctlVars, running, envVars>>

(***************************************************************************)
(* The control thread.                                                     *)
(***************************************************************************)

Stopping == shutdown \/ bShutdown

\* The top of the loop: leave it, or lock _sessions and visit them.
CtlTop ==
  /\ ctl = "top"
  /\ IF Stopping
       THEN ctl' = "drain" /\ UNCHANGED <<ctlTodo, awaiting>>
       ELSE ctl' = "pass" /\ ctlTodo' = sessions /\ awaiting' = FALSE
  /\ UNCHANGED <<sessionVars, slotVars, rtspVars, clearVars, bcastVars,
                 sessions, hasPeer, peerMap, running, envVars>>

\* Mutants of CtlVisit: a stopping session leaves the list without being
\* told; a ping timeout is not acted on.
CtlVisitUntold(s, timedOut) ==
  /\ ctl = "pass" /\ ~Stopping /\ s \in ctlTodo
  /\ ctlTodo' = ctlTodo \ {s}
  /\ IF timedOut THEN Stop(s) ELSE UNCHANGED <<state, shutdownEv>>
  /\ IF state'[s] = "STOPPING"
       THEN /\ sessions' = sessions \ {s}
            /\ peerMap' = peerMap \ {s}
            /\ UNCHANGED awaiting
       ELSE /\ awaiting' = (awaiting \/ s \notin hasPeer)
            /\ UNCHANGED <<sessions, peerMap>>
  /\ UNCHANGED <<life, av, controlEnd, slotVars, rtspVars, clearVars,
                 bcastVars, ctl, hasPeer, running, envVars>>

CtlVisitWithoutTimeout(s, timedOut) ==
  /\ ctl = "pass" /\ ~Stopping /\ s \in ctlTodo
  /\ ctlTodo' = ctlTodo \ {s}
  /\ IF state[s] = "STOPPING"
       THEN /\ sessions' = sessions \ {s}
            /\ peerMap' = peerMap \ {s}
            /\ controlEnd' = controlEnd \cup {s}
            /\ UNCHANGED awaiting
       ELSE /\ awaiting' = (awaiting \/ s \notin hasPeer)
            /\ UNCHANGED <<sessions, peerMap, controlEnd>>
  /\ UNCHANGED <<life, state, av, shutdownEv, slotVars, rtspVars, clearVars,
                 bcastVars, ctl, hasPeer, running, envVars>>

\* One session: stop it on ping timeout; if it is stopping, forget it, drop
\* its peer and raise controlEnd; else note whether it has a peer.
CtlVisit(s, timedOut) ==
  /\ ctl = "pass" /\ ~Stopping /\ s \in ctlTodo
  /\ ctlTodo' = ctlTodo \ {s}
  /\ IF timedOut THEN Stop(s) ELSE UNCHANGED <<state, shutdownEv>>
  /\ IF state'[s] = "STOPPING"
       THEN /\ sessions' = sessions \ {s}
            /\ peerMap' = peerMap \ {s}
            /\ controlEnd' = controlEnd \cup {s}
            /\ UNCHANGED awaiting
       ELSE /\ awaiting' = (awaiting \/ s \notin hasPeer)
            /\ UNCHANGED <<sessions, peerMap, controlEnd>>
  /\ UNCHANGED <<life, av, slotVars, rtspVars, clearVars, bcastVars, ctl,
                 hasPeer, running, envVars>>

\* Unlock; leave the loop when the app has ended and nobody is connecting.
CtlEndPass ==
  /\ ctl = "pass" /\ (ctlTodo = {} \/ Stopping)
  /\ ctlTodo' = {} /\ awaiting' = FALSE
  /\ ctl' = IF ~appRunning /\ ~awaiting THEN "drain" ELSE "iterate"
  /\ UNCHANGED <<sessionVars, slotVars, rtspVars, clearVars, bcastVars,
                 sessions, hasPeer, peerMap, running, envVars>>

\* control_server_t::iterate without an event, or with one that leaves the
\* session alone.
CtlQuiet ==
  /\ ctl = "iterate" /\ ctl' = "top"
  /\ UNCHANGED <<sessionVars, slotVars, rtspVars, clearVars, bcastVars,
                 sessions, hasPeer, peerMap, ctlTodo, awaiting, running,
                 envVars>>

\* A new peer: get_session binds it to a session that has none.
CtlConnect(s) ==
  /\ ctl = "iterate" /\ ctl' = "top"
  /\ s \in sessions \ hasPeer
  /\ hasPeer' = hasPeer \cup {s}
  /\ peerMap' = peerMap \cup {s}
  /\ UNCHANGED <<sessionVars, slotVars, rtspVars, clearVars, bcastVars,
                 sessions, ctlTodo, awaiting, running, envVars>>

\* The peer disconnects, or sends a message that fails to decrypt.
CtlStop(s) ==
  /\ ctl = "iterate" /\ ctl' = "top"
  /\ s \in peerMap
  /\ Stop(s)
  /\ UNCHANGED <<life, av, controlEnd, slotVars, rtspVars, clearVars,
                 bcastVars, sessions, hasPeer, peerMap, ctlTodo, awaiting,
                 running, envVars>>

\* After the loop: tell every remaining session, and end.
CtlDrain ==
  /\ ctl = "drain" /\ ctl' = "exited"
  /\ shutdownEv' = shutdownEv \cup sessions
  /\ controlEnd' = controlEnd \cup sessions
  /\ UNCHANGED <<life, state, av, slotVars, rtspVars, clearVars, bcastVars,
                 sessions, hasPeer, peerMap, ctlTodo, awaiting, running,
                 envVars>>

(***************************************************************************)
(* The environment.                                                        *)
(***************************************************************************)

\* The app ends, or /launch starts one.
AppChange ==
  /\ "appExit" \in Env
  /\ appRunning' = ~appRunning
  /\ UNCHANGED <<sessionVars, slotVars, rtspVars, clearVars, bcastVars,
                 ctlVars, running, shutdown>>

\* audioBroadcastThread gives up and raises broadcast_shutdown.
BroadcastFails ==
  /\ "bcastFail" \in Env /\ bcast = "up"
  /\ bShutdown' = TRUE
  /\ UNCHANGED <<sessionVars, slotVars, rtspVars, clearVars, refs, bcast,
                 ctlVars, running, envVars>>

\* mail::shutdown is raised (a signal, the UI).
Shutdown ==
  /\ "shutdown" \in Env
  /\ shutdown' = TRUE
  /\ UNCHANGED <<sessionVars, slotVars, rtspVars, clearVars, bcastVars,
                 ctlVars, running, appRunning>>

----------------------------------------------------------------------------

AnnounceNext ==
  \/ \E s \in Session : Announce(s)
  \/ StartRef \/ StartRefFails \/ RemoveFailed \/ StartPush
  \/ \E m \in Media : StartThread(m)
  \/ StartRun \/ StartCount \/ Respond \/ RtspEndBroadcast

ClearNext(t) ==
  \/ \E s \in Session : ClearVisit(t, s)
  \/ JoinThrows(t) \/ Join(t) \/ Erase(t) \/ ClearEnd(t)
  \/ ClearEndBroadcast(t)

ControlNext ==
  \/ CtlTop \/ CtlEndPass \/ CtlQuiet \/ CtlDrain
  \/ \E s \in Session :
       \/ \E timedOut \in BOOLEAN : CtlVisit(s, timedOut)
       \/ CtlConnect(s) \/ CtlStop(s)

AvNext(s, m) == AvStart(s, m) \/ AvPing(s, m) \/ AvExit(s, m)

Next ==
  \/ AnnounceNext \/ RtspIdle \/ RtspClear \/ AcceptFails \/ MainStop
  \/ \E t \in Http : HttpSessionCount(t) \/ HttpTerminate(t)
  \/ \E t \in Thread : ClearNext(t)
  \/ \E s \in Session, m \in Media : AvNext(s, m)
  \/ ControlNext
  \/ AppChange \/ BroadcastFails \/ Shutdown

Spec == Init /\ [][Next]_vars

(***************************************************************************)
(* Fairness. Every thread that can go on does (weak fairness); a thread    *)
(* waiting for a mutex that is released again and again gets it (strong    *)
(* fairness): the slots' lock for RtspClear and RemoveFailed, the control  *)
(* list's lock for StartPush. io_context.run_one_for returns after 500 ms  *)
(* while there are slots. A ping wait ends after ping_timeout and capture  *)
(* ends once the shutdown event is raised; a session without a control     *)
(* peer is found past its pingTimeout in some pass. A capture nobody stops *)
(* is not assumed to end, nor the client's messages to come.               *)
(***************************************************************************)
AvEnds(s, m) ==
  (av[s][m] = "pinging" \/ s \in shutdownEv) /\ AvExit(s, m)

PendingExpires(s) == s \notin hasPeer /\ CtlVisit(s, TRUE)

Fairness ==
  /\ WF_vars(AnnounceNext /\ rpc # "iterate")
  /\ SF_vars(RemoveFailed) /\ SF_vars(StartPush) /\ SF_vars(RtspClear)
  /\ WF_vars(RtspIdle /\ slots # {})
  /\ \A t \in Thread : WF_vars(ClearNext(t))
  /\ \A s \in Session, m \in Media :
       WF_vars(AvStart(s, m)) /\ WF_vars(AvEnds(s, m))
  /\ WF_vars(ControlNext)
  /\ \A s \in Session : SF_vars(PendingExpires(s))

FairSpec == Spec /\ Fairness

(***************************************************************************)
(* Properties.                                                             *)
(***************************************************************************)

TypeOK ==
  /\ life \in [Session -> {"none", "live", "freed"}]
  /\ state \in [Session -> {"STOPPED", "RUNNING", "STOPPING"}]
  /\ av \in [Session -> [Media ->
       {"none", "spawned", "pinging", "capturing", "exited"}]]
  /\ shutdownEv \subseteq Session /\ controlEnd \subseteq Session
  /\ slots \subseteq Session /\ slotsLock \in Thread \cup {NoOne}
  /\ rpc \in {"iterate", "ref", "push", "audio", "video", "run", "count",
              "respond", "remove", "end", "peek", "clear", "accept", "exit",
              "last", "done"}
  /\ rcur \in Session \cup {NoOne}
  /\ cpc \in [Thread -> {"idle", "scan", "join", "erase", "end", "done",
                         "aborted"}]
  /\ cmode \in [Thread -> BOOLEAN]
  /\ ctodo \in [Thread -> SUBSET Session]
  /\ ccur \in [Thread -> Session \cup {NoOne}]
  /\ refs \subseteq Session \X {"session", "video", "audio"}
  /\ bcast \in {"down", "up", "ending"} /\ bShutdown \in BOOLEAN
  /\ ctl \in {"none", "top", "pass", "iterate", "drain", "exited"}
  /\ sessions \subseteq Session /\ hasPeer \subseteq Session
  /\ peerMap \subseteq Session /\ ctlTodo \subseteq Session
  /\ awaiting \in BOOLEAN
  /\ running \in 0 .. UintRange - 1
  /\ appRunning \in BOOLEAN /\ shutdown \in BOOLEAN

\* The control thread keeps raw session_t pointers in _sessions and in
\* _peer_to_session. As long as it runs, none of them, nor one it is still to
\* visit in this pass, points to a destroyed session.
NoDanglingSession ==
  ctl \in {"top", "pass", "iterate", "drain"} =>
    \A s \in sessions \cup peerMap \cup ctlTodo : life[s] = "live"

\* A session is destroyed only after its video and audio threads have ended:
\* they use the session_t, and a joinable std::thread must not be destroyed.
NoThreadOutlivesSession ==
  \A s \in Session : \A m \in Media :
    av[s][m] \in {"spawned", "pinging", "capturing"} => life[s] = "live"

\* The broadcast context (sockets, queues, control server) is up as long as
\* a media thread or a registered session uses it, and end_broadcast runs
\* only when nobody does.
BroadcastOutlivesUsers ==
  /\ (\E s \in Session, m \in Media : av[s][m] \in {"pinging", "capturing"})
       => bcast = "up"
  /\ (\E s \in Session : life[s] = "live" /\ s \in sessions) => bcast = "up"

\* Once a control thread has left its loop, every session registered with it
\* has been told (controlEnd is raised), so that join cannot wait for it.
\* The control loop's comment: "Don't break until any pending sessions
\* either expire or connect".
ExitedControlTellsAll == ctl = "exited" => sessions \subseteq controlEnd

\* clear(true) "clears all sessions": a session it joins has been stopped,
\* so that its threads end.
JoinedSessionIsStopped ==
  \A t \in Thread : cpc[t] = "join" => state[ccur[t]] # "RUNNING"

\* running_sessions is back at 0 when no session is left: the increments of
\* session::start and the decrements of session::join pair up, whatever the
\* order in which they happen.
RunningBalanced == (\A s \in Session : life[s] # "live") => running = 0

\* A session that is stopping never runs again, and its shutdown event,
\* which ends its threads, stays raised.
StopIsFinal ==
  [][\A s \in Session : state[s] = "STOPPING" =>
       state'[s] = "STOPPING" /\ s \in shutdownEv']_vars

\* A stopped session is eventually joined, erased and destroyed.
StoppedIsFreed ==
  \A s \in Session : (state[s] = "STOPPING") ~> (life[s] = "freed")

\* The control loop's promise about sessions that are connecting: each one
\* "either expires or connects". An expired one is destroyed.
PendingResolves ==
  \A s \in Session : (s \in sessions) ~> (s \in hasPeer \/ life[s] = "freed")

\* Nobody stays in clear() for ever: no deadlock between the slots' lock, the
\* control list's lock, thread joins and end_broadcast.
ClearReturns == \A t \in Thread : (cpc[t] # "idle") ~> (cpc[t] = "idle")

(***************************************************************************)
(* The inductive invariant behind the safety properties: who owns a        *)
(* session, who holds a broadcast reference, and what the control thread   *)
(* may still point to.                                                     *)
(***************************************************************************)
Looping == {"top", "pass", "iterate", "drain"}
Holding == {"scan", "join", "erase", "end", "aborted"}
Announcing == {"ref", "remove", "push", "audio", "video", "run", "count",
               "respond"}

\* cmd_announce owns a session exactly while it is at work, and has started
\* its threads in order.
AnnounceInv ==
  /\ (rpc \in Announcing) <=> (rcur # NoOne)
  /\ rpc \in Announcing =>
       /\ (av[rcur]["audio"] = "none") <=>
            (rpc \in {"ref", "remove", "push", "audio"})
       /\ (av[rcur]["video"] = "none") <=>
            (rpc \in {"ref", "remove", "push", "audio", "video"})
  /\ rpc \in {"ref", "remove", "push"} =>
       rcur \notin sessions \cup controlEnd
  /\ rpc \in {"ref", "remove"} => <<rcur, "session">> \notin refs
  /\ rpc \in {"clear", "accept", "last"} <=> cpc[Rtsp] \in Holding

\* The slots' lock is held by the thread that is inside clear().
LockInv ==
  \A t \in Thread :
    /\ (slotsLock = t) <=> (cpc[t] \in Holding)
    /\ cpc[t] \in Holding => ctodo[t] \subseteq slots
    /\ cpc[t] \in {"join", "erase"} => ccur[t] \in slots \ ctodo[t]
    /\ cpc[t] = "erase" =>
         /\ ccur[t] \in controlEnd
         /\ \A m \in Media : av[ccur[t]][m] = "exited"

\* A session lives as long as a slot or cmd_announce owns it; one that left
\* the slots has been told the control thread is done with it.
OwnerInv ==
  \A s \in Session :
    /\ (life[s] = "live") <=> (s \in slots \/ rcur = s)
    /\ life[s] = "none" => s \notin sessions \cup controlEnd
    /\ life[s] = "live" /\ s \notin slots => s \in controlEnd

\* Media threads exist only in live sessions. Every slot cmd_announce is done
\* with has them, and a session that left the slots has had them joined.
ThreadInv ==
  \A s \in Session, m \in Media :
    /\ life[s] = "none" => av[s][m] = "none"
    /\ life[s] = "live" /\ s \notin slots => av[s][m] = "exited"
    /\ s \in slots /\ rcur # s => av[s][m] # "none"
    /\ av[s][m] \in {"spawned", "pinging", "capturing"} => life[s] = "live"

\* Who holds a reference to the broadcast, and what that keeps up.
RefInv ==
  /\ \A s \in Session :
       /\ (<<s, "session">> \in refs) <=>
            (life[s] = "live" /\ ~(rcur = s /\ rpc \in {"ref", "remove"}))
       /\ \A m \in Media :
            (<<s, m>> \in refs) <=> (av[s][m] \in {"pinging", "capturing"})
  /\ (bcast = "up") <=> (refs # {})
  /\ (bcast = "down") <=> (ctl = "none")
  /\ bcast = "down" => sessions = {} /\ peerMap = {}

\* What the control thread may point to.
ControlInv ==
  /\ peerMap \subseteq sessions /\ ctlTodo \subseteq sessions
  /\ ctl # "pass" => ctlTodo = {}
  /\ ctl \in Looping =>
       \A s \in sessions : life[s] = "live" /\ s \notin controlEnd

\* What session::stop relies on: a stopping session has its shutdown event
\* raised, and a session is STOPPED until session::start stores RUNNING.
StopInv ==
  /\ \A s \in Session : state[s] = "STOPPING" => s \in shutdownEv
  /\ \A s \in Session : life[s] = "none" => state[s] = "STOPPED"
  /\ rpc \in Announcing \ {"count", "respond"} => state[rcur] = "STOPPED"

\* session::start has counted a session once its threads run and it is past
\* ++running_sessions; session::join has discounted it once its slot is being
\* erased. The two come in either order.
Started(s) == av[s]["video"] # "none"
Counted(s) == Started(s) /\ ~(rcur = s /\ rpc \in {"run", "count"})
Discounted(s) ==
  /\ Started(s)
  /\ s \in slots => \E t \in Thread : cpc[t] = "erase" /\ ccur[t] = s
Owed == {s \in Session : Counted(s) /\ ~Discounted(s)}
Early == {s \in Session : Discounted(s) /\ ~Counted(s)}

\* running_sessions is the difference, wrapped to its range.
CountInv ==
  /\ IsFiniteSet(Owed) /\ IsFiniteSet(Early)
  /\ running = (Cardinality(Owed) - Cardinality(Early)) % UintRange

\* Without terminate_sessions() and shutdown only the RTSP thread clears all, and
\* never while it starts a session; the others join what is already stopping.
JoinInv ==
  /\ ~shutdown /\ \A t \in Thread \ {Rtsp} : ~cmode[t]
  /\ \A t \in Thread : cpc[t] = "join" =>
       /\ state[ccur[t]] # "RUNNING"
       /\ t # Rtsp => state[ccur[t]] = "STOPPING"

IInv ==
  /\ TypeOK /\ AnnounceInv /\ LockInv
  /\ OwnerInv /\ ThreadInv /\ RefInv /\ ControlInv
=============================================================================
