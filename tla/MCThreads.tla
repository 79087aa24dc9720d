-------------------------- MODULE MCThreads --------------------------
(***************************************************************************)
(* Small instances of the components that are threads, or that threads     *)
(* share: the application process, the task pool, queues, events and       *)
(* mailboxes, and the threads of capture, encoding, audio and input with   *)
(* their timers. As in MCMedia the initial state chooses the component     *)
(* whose variables the slots v1, v2, ... are; the application process and  *)
(* the task pool keep variables of their own, which do not move in the     *)
(* other parts.                                                            *)
(***************************************************************************)
EXTENDS AppProcess

CONSTANTS
  Task, MaxTime,              \* the task pool: TaskPool
  Consumer, Cap, MaxRaise,    \* queues, events and mailboxes: ThreadSafe
  Waiter, MaxEvent,
  User, Names, MaxPost,
  Viewer, MaxAudio, MaxDisplay, SyncViewer,                   \* AudioCapture, VideoCapture, VideoSync
  Key, Modifier, Hotkey, Flag, TimerAddr, MaxPacket, MaxSession,   \* InputKeys
  Player, Controller, MaxGamepads, MaxPad,                    \* InputGamepad
  Dim, MaxFrame, MaxInit,                                     \* PortalCapture
  OutDevice, MaxUser, MaxStart,                               \* WasapiAudio
  Screen, MaxResize, MaxRefresh, Pointer, CursorSize,         \* X11Capture
  None

ASSUME ThreadsAssumption == MaxTime \in Nat /\ Cap \in Nat \ {0} /\ Names \in Nat

\* None is no delayed task, and the thread of VideoSync no session.
ASSUME TimerAssumption == None \notin [kind : {"left"}, session : Nat]
ASSUME SyncAssumption == "thread" \notin SyncViewer

ASSUME PadAssumption == MaxGamepads \in Nat

\* The Steam speakers are none of the user's devices.
ASSUME SpeakerAssumption == "steam" \notin OutDevice /\ None \notin OutDevice \cup {"steam"}

ASSUME ScreenAssumption ==
  Screen \subseteq Nat /\ Screen # {} /\ Pointer \subseteq Int /\ CursorSize \in Nat

MCPointer == -3..4

VARIABLES part, v1, v2, v3, v4, v5, v6, v7, v8, v9, v10, v11, v12, v13, v14, v15, v16, v17,
  clock, tasks, timers, poolOn, wpc, wcur, wuntil, dueAt, begun, dropped   \* the task pool

pool == <<part, v1, v2, v3, v4, v5, v6, v7, v8, v9, v10, v11, v12, v13, v14, v15, v16, v17>>
taskVars == <<clock, tasks, timers, poolOn, wpc, wcur, wuntil, dueAt, begun, dropped>>

Tasks == INSTANCE TaskPool

Saving == INSTANCE AppProcess WITH
  CanSave <- TRUE, appId <- v1, app <- v2, placebo <- v3, handle <- v4, status <- v5,
  prepIt <- v6, recent <- v7, leader <- v8, exit <- v9, kids <- v10, pc <- v11, goal <-
  v12, target <- v13, child <- v14, applied <- v15

Safe == INSTANCE ThreadSafe WITH
  queue <- v1, queueOn <- v2, qpc <- v3, raised <- v4, popped <- v5, lost <- v6, status
  <- v1, eventOn <- v2, wstate <- v3, count <- v4, taken <- v5, postName <- v1, held <-
  v2, registry <- v3, dying <- v4, nulls <- v5

Audio == INSTANCE AudioCapture WITH
  Session <- Viewer, apc <- v1, hostAudio <- v2, control <- v3, sinkFlag
  <- v4, restoreSink <- v5, hostSink <- v6, nulls <- v7, defSink <- v8, audioStop <- v9,
  packetsOn <- v10, setFailed <- v11, captures <- v12

Video == INSTANCE VideoCapture WITH
  Session <- Viewer, cpc <- v1, capOn <- v2, capQueue <- v3, ctxs <-
  v4, disp <- v5, made <- v6, wp <- v7, reinit <- v8, imgOn <- v9, img <- v10, vpc <-
  v11, held <- v12, fresh <- v13, refs <- v14, stopEv <- v15, raced <- v16

Sync == INSTANCE VideoSync WITH
  Session <- SyncViewer, tpc <- v1, syncOn <- v2, syncQueue <- v3, synced <- v4,
  syncRefs <- v5, wpc <- v6, joined <- v7, syncStop <- v8, stranded <- v9

Keys == INSTANCE InputKeys WITH
  Shift <- Modifier, Addr <- TimerAddr, Remap <- FALSE, keyPress <- v1, osKeys <- v2, mods
  <- v3, repeatId <- v4, keyTimers <- v5, mousePress <- v6, osMouse <- v7, leftTimeout <-
  v8, inpc <- v9, inSession <- v10, packets <- v11, leftLost <- v12

Pads == INSTANCE InputGamepad WITH
  Session <- Player, mask <- v1, padId <- v2, back <- v3, forcedUp <- v4, backTimer <- v5,
  plugged <- v6, padTasks <- v7, padAlive <- v8, padCount <- v9

\* Its other half is a part of MCMedia.
Stream == INSTANCE PortalCapture WITH
  prev <- v1, running <- v2, stopped <-
  v3, dead <- v4, ready <- v5, current <- v6, front <- v7, content <- v8, writing <-
  v9, frames <- v10, pc <- v11, expired <- v12, result <- v13, encoding <- v14, first
  <- v15, leftover <- v16, inits <- v17, Display <- {}, MaxCreated <- 0, portal <- 0,
  created <- 0, handle <- 0, valid <- 0, cacheFd <- 0, fds <- 0, caller <- 0, step <-
  0, remote <- 0, display <- 0, displayFd <- 0, abandoned <- 0

Sound == INSTANCE WasapiAudio WITH
  Device <- OutDevice, Frames <- 3, FrameSize <- 2,
  Continuous <- TRUE, MaxSample <- 8, active <- v1, default <- v2, picked <- v3, host <-
  v4, assigned <- v5, mic <- v6, changed <- v7, note <- v8, step <- v9, users <- v10,
  starts <- v11, faulty <- v12, missed <- v13, device <- v1, made <- v2, buf <- v3, at
  <- v4, late <- v5, dropped <- v6, out <- v7

X11 == INSTANCE X11Capture WITH
  Dim <- Screen, MaxTask <- MaxRefresh, server
  <- v1, xattr <- v2, env <- v3, shm <- v4, queued <- v5, taskId <- v6, task <- v7,
  newId <- v8, ids <- v9, capture <- v10, resizes <- v11, uaf <- v12

\* Slots a component does not use hold 0.
Unused16 == v17 = 0
Rest16 == <<v17>>
Unused15 == v16 = 0 /\ Unused16
Rest15 == <<v16, Rest16>>
Unused13 == v14 = 0 /\ v15 = 0 /\ Unused15
Rest13 == <<v14, v15, Rest15>>
Unused12 == v13 = 0 /\ Unused13
Rest12 == <<v13, Rest13>>
Unused9 == v10 = 0 /\ v11 = 0 /\ v12 = 0 /\ Unused12
Rest9 == <<v10, v11, v12, Rest12>>
Unused6 == v7 = 0 /\ v8 = 0 /\ v9 = 0 /\ Unused9
Rest6 == <<v7, v8, v9, Rest9>>
Unused5 == v6 = 0 /\ Unused6
Rest5 == <<v6, Rest6>>
Unused0 == v1 = 0 /\ v2 = 0 /\ v3 = 0 /\ v4 = 0 /\ v5 = 0 /\ Unused5
Rest0 == <<v1, v2, v3, v4, v5, Rest5>>

ThreadsInit ==
  \/ part = "app" /\ Init /\ Tasks!Init /\ Unused0
  \/ part = "tasks" /\ Init /\ Tasks!Init /\ Unused0
  \/ part = "saving" /\ Init /\ Tasks!Init /\ Saving!Init /\ Unused15
  \/ part = "queue" /\ Init /\ Tasks!Init /\ Safe!QueueInit /\ Unused6
  \/ part = "event" /\ Init /\ Tasks!Init /\ Safe!EventInit /\ Unused5
  \/ part = "mail" /\ Init /\ Tasks!Init /\ Safe!MailInit /\ Unused5
  \/ part = "audio" /\ Init /\ Tasks!Init /\ Audio!Init /\ Unused12
  \/ part = "video" /\ Init /\ Tasks!Init /\ Video!Init /\ Unused16
  \/ part = "sync" /\ Init /\ Tasks!Init /\ Sync!Init /\ Unused9
  \/ part = "keys" /\ Init /\ Tasks!Init /\ Keys!Init /\ Unused12
  \/ part = "pads" /\ Init /\ Tasks!Init /\ Pads!Init /\ Unused9
  \/ part = "portal" /\ Init /\ Tasks!Init /\ Stream!StreamInit
  \/ part = "sound" /\ Init /\ Tasks!Init /\ Sound!SinkInit /\ Unused13
  \/ part = "x11" /\ Init /\ Tasks!Init /\ X11!Init /\ Unused12

ThreadsNext ==
  \/ part = "app" /\ Next /\ UNCHANGED <<part, Rest0, taskVars>>
  \/ part = "tasks" /\ Tasks!Next /\ UNCHANGED <<part, Rest0, vars>>
  \/ part = "saving" /\ Saving!Next /\ UNCHANGED <<part, Rest15, vars, taskVars>>
  \/ part = "queue" /\ Safe!QueueNext /\ UNCHANGED <<part, Rest6, vars, taskVars>>
  \/ part = "event" /\ Safe!EventNext /\ UNCHANGED <<part, Rest5, vars, taskVars>>
  \/ part = "mail" /\ Safe!MailNext /\ UNCHANGED <<part, Rest5, vars, taskVars>>
  \/ part = "audio" /\ Audio!Next /\ UNCHANGED <<part, Rest12, vars, taskVars>>
  \/ part = "video" /\ Video!Next /\ UNCHANGED <<part, Rest16, vars, taskVars>>
  \/ part = "sync" /\ Sync!Next /\ UNCHANGED <<part, Rest9, vars, taskVars>>
  \/ part = "keys" /\ Keys!Next /\ UNCHANGED <<part, Rest12, vars, taskVars>>
  \/ part = "pads" /\ Pads!Next /\ UNCHANGED <<part, Rest9, vars, taskVars>>
  \/ part = "portal" /\ Stream!StreamNext /\ UNCHANGED <<part, vars, taskVars>>
  \/ part = "sound" /\ Sound!SinkNext /\ UNCHANGED <<part, Rest13, vars, taskVars>>
  \/ part = "x11" /\ X11!Next /\ UNCHANGED <<part, Rest12, vars, taskVars>>

ThreadsSpec == ThreadsInit /\ [][ThreadsNext]_<<pool, vars, taskVars>>

\* The sessions that call into the synchronous encoding thread: the members of
\* SyncViewer, as those of Viewer are 1 and 2.
Caller == <<"s", "t", "u">>

\* The steps of the component's i-th thread, callback or timer, which go on as
\* long as they can: threads run, commands end, time passes, displays call back
\* once per timeout and can be opened again, Windows delivers its notifications.
FairStep(i) ==
  \/ /\ part = "app" /\ UNCHANGED <<pool, taskVars>>
     /\ \E t \in Thread : (i = 1 /\ Step(t)) \/ (i = 2 /\ ChildExits(t))
  \/ /\ part = "tasks" /\ UNCHANGED <<pool, vars>>
     /\ (i = 1 /\ Tasks!WorkerStep) \/ (i = 2 /\ Tasks!Tick)
  \/ /\ UNCHANGED <<part, vars, taskVars>>
     /\ \/ part = "queue" /\ i <= 2 /\ (Safe!PopResume(i) \/ Safe!TimedPopResume(i)) /\ UNCHANGED Rest6
        \/ part = "audio" /\ i <= 2 /\ Audio!Step(i) /\ UNCHANGED Rest12
        \/ /\ part = "video" /\ UNCHANGED Rest16
           /\ \/ i <= 2 /\ Video!EncodeRuns(i)
              \/ i \in 3..4 /\ Video!LoopHead(i - 2)
              \/ i = 5 /\ (Video!CaptureRuns \/ Video!CaptureSeesStop)
              \/ i = 6 /\ Video!DisplayOpens
        \/ /\ part = "sync" /\ UNCHANGED Rest9
           /\ (i <= 3 /\ (Sync!RaiseContext(Caller[i]) \/ Sync!Return(Caller[i]))) \/ (i = 4 /\ Sync!ThreadStep)
        \/ part = "keys" /\ ((i = 1 /\ Keys!Timer) \/ (i = 2 /\ Keys!Reset)) /\ UNCHANGED Rest12
        \/ part = "pads" /\ i = 1 /\ (\E p \in Pads!Id : Pads!FreeTask(p)) /\ UNCHANGED Rest9
        \/ part = "portal" /\ ((i = 1 /\ Stream!CaptureRuns) \/ (i = 2 /\ Stream!Expire))
        \/ /\ part = "sound" /\ UNCHANGED Rest13
           /\ (i = 1 /\ Sound!Deliver) \/ (i = 2 /\ (Sound!Noticed \/ Sound!Reopen))
        \/ /\ part = "x11" /\ UNCHANGED Rest12
           /\ (i = 1 /\ (X11!SnapshotPlain \/ X11!SnapshotShm)) \/ (i = 2 /\ X11!TaskStep)

\* Steps that are tried again and again, and succeed when they can often enough:
\* the poll of the app, giving back the capture thread's last reference, and the
\* cancel in the destructor's loop.
Retried ==
  \/ part = "app" /\ (\E t \in Thread : Poll(t)) /\ UNCHANGED <<pool, taskVars>>
  \/ part = "video" /\ (\E s \in Viewer : Video!DropRef(s)) /\ UNCHANGED <<part, Rest16, vars, taskVars>>
  \/ part = "x11" /\ X11!Destroy /\ UNCHANGED <<part, Rest12, vars, taskVars>>

FairThreadsSpec ==
  /\ ThreadsSpec /\ SF_<<pool, vars, taskVars>>(Retried)
  /\ \A i \in 1..6 : WF_<<pool, vars, taskVars>>(FairStep(i))

-----------------------------------------------------------------------------
\* proc_t is consistent between requests (process.cpp): an app starts from a clean
\* slate, and saving the app list while one is up (refresh) leaves the prep
\* iterator in range and a running app with an id.
AppIsConsistent ==
  /\ part = "app" => CleanSlate
  /\ part = "saving" => Saving!TypeOK /\ Saving!RunningReturnsId

\* The task pool implements the service its users rely on: a task runs once, not
\* before it is due, and never after cancel returned true (task_pool.h cancel,
\* pop; thread_pool.h _main).
ImplementsService == Tasks!ImplementsService

\* No wakeup is lost (thread_pool.h _main; thread_safe.h queue_t, event_t): a
\* thread waits only while there is nothing to do for it, and the earliest timer
\* is the one looked at.
NoLostWakeup ==
  /\ part = "tasks" => Tasks!NoLostWakeup /\ Tasks!EarliestAtBack
  /\ part = "queue" => Safe!QueueNoLostWakeup
  /\ part = "event" => Safe!EventNoLostWakeup

\* What threads hand to each other arrives once and in order (thread_safe.h): a
\* queue loses elements only as a whole when it overflows, an event is popped by
\* one thread, a mailbox name means one post, and every post cleans up after
\* itself.
HandedOverOnce ==
  /\ part = "queue" => Safe!FifoUpToOverflow
  /\ part = "event" => Safe!PoppedOnce
  /\ part = "mail" => Safe!OnePostPerName /\ Safe!CleanupBalanced

\* What a session holds on the host is known, and the user gets it back: a key that
\* is down is tracked and released by reset, one key repeats, a left click is
\* released, a gamepad id has one owner and does not leak, Home is emulated only
\* while Back is held (input.cpp), and without a session the default sink is the
\* user's (audio.cpp stop_audio_control; windows/audio.cpp reset_default_device).
HeldIsKnown ==
  /\ part = "keys" => Keys!DownIsTracked /\ Keys!OneRepeat /\ Keys!LeftReleasePending /\ Keys!NoKeyStuck
  /\ part = "pads" => Pads!OneOwner /\ Pads!NoIdLeaks /\ Pads!HomeOnlyWhileHeld
  /\ part = "audio" => Audio!SinkRestored
  /\ part = "sound" => Sound!IdleIsAudible

\* Threads that share a display let go of it in time (video.cpp, x11grab.cpp,
\* portalgrab.cpp): nobody waits for images that will not come, an old display is
\* used only through the known race, a join event is raised only while its frame
\* exists, the refresh task does not touch a destroyed display, the cursor is
\* drawn inside the image, and a stream is not ended by the mark of an earlier one.
CaptureIsHandedOver ==
  /\ part = "video" => Video!EndedReachesAll /\ Video!OldDisplayOnlyByRace
  /\ part = "sync" => Sync!NoDanglingJoin /\ Sync!WaitersAreKnown
  /\ part = "x11" => X11!NoUseAfterFree /\ X11!CursorStaysInside
  /\ part = "portal" => Stream!FreshNotStopped

\* The i-th thread, task, device or display of the component is to end, and has.
ToEnd(i) ==
  \/ part = "tasks" /\ IF i <= 3 THEN i \in Tasks!Queued ELSE ~poolOn
  \/ part = "queue" /\ i = 1 /\ Safe!QueueStopped
  \/ part = "audio" /\ i <= 2 /\ Audio!AudioStopping(i)
  \/ part = "video" /\ IF i <= 2 THEN Video!Stopping(i) ELSE i = 3 /\ Video!Draining
  \/ part = "sync" /\ i <= 3 /\ Sync!Stopping(Caller[i])
  \/ part = "keys" /\ i = 1 /\ Keys!SessionOff
  \/ part = "pads" /\ i = 1 /\ Pads!NoSessions
  \/ part = "portal" /\ i = 1 /\ Stream!Dying
  \/ part = "sound" /\ i = 1 /\ Sound!SinkAssigned
  \/ part = "x11" /\ i = 1 /\ X11!Destroying
HasEnded(i) ==
  /\ part = "tasks" => IF i <= 3 THEN i \in begun \cup dropped \/ ~poolOn ELSE wpc = "done"
  /\ part = "queue" => Safe!AllReleased
  /\ part = "audio" /\ i <= 2 => Audio!AudioEnded(i)
  /\ part = "video" => IF i <= 2 THEN Video!Left(i) ELSE ~Video!Draining
  /\ part = "sync" /\ i <= 3 => Sync!Left(Caller[i])
  /\ part = "keys" => Keys!RepeatSilent
  /\ part = "pads" => Pads!NoDevices \/ ~Pads!NoSessions
  /\ part = "portal" => Stream!Ended
  /\ part = "sound" => Sound!SinkIsDefault
  /\ part = "x11" => X11!Destroyed

\* What is stopped ends: the pool's worker (thread_pool.h), consumers of a stopped
\* queue (thread_safe.h), the audio and video threads of a stopped session
\* (audio.cpp, video.cpp), a capture whose stream died (portalgrab.cpp), a display
\* being reinitialised (video.cpp) or destroyed (x11grab.cpp). Every task of a
\* running pool is run or cancelled (task_pool.h). And what a session took it
\* gives back: keys stop repeating after its end, its gamepads are unplugged
\* (input.cpp), and the default device that another program took during it
\* returns to the session's (windows/audio.cpp).
EndsAreReached == \A i \in 1..4 : ToEnd(i) ~> HasEnded(i)
=============================================================================
