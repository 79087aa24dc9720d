---------------------------- MODULE VideoCapture ----------------------------
(***************************************************************************)
(* Parallel capturing (video.cpp): one capture thread feeds the encoding   *)
(* threads of all sessions through an image event each. capture_async is   *)
(* the encoding thread of a session, captureThread the capture thread,     *)
(* which exists while some session holds capture_thread_async. A display   *)
(* is named by its generation; the encoding threads reach the current one  *)
(* through the weak pointer display_wp.                                    *)
(***************************************************************************)
EXTENDS Naturals, FiniteSets

CONSTANTS
  Session,    \* sessions that stream video
  MaxDisplay  \* bound on the displays created

VARIABLES
  cpc,        \* the capture thread
  capOn,      \* capture_ctx_queue->running()
  capQueue,   \* sessions whose capture_ctx_t is in the queue
  ctxs,       \* capture_ctxs
  disp,       \* the capture thread's display, 0 for none
  made,       \* displays created so far
  wp,         \* display_wp: the display it points to
  reinit,     \* reinit_event
  imgOn,      \* sessions whose images event still runs
  img,        \* img[s]: the display of the image in the event, 0 for none
  vpc,        \* the encoding thread of the session
  held,       \* held[s]: the display the encoding thread shares, 0 for none
  fresh,      \* sessions that have not encoded a frame (frame_nr = 1)
  refs,       \* sessions holding capture_thread_async
  stopEv,     \* sessions whose shutdown event is raised
  raced       \* sessions that hold a display they locked when it was given up

captureVars == <<cpc, capOn, capQueue, ctxs, disp, made, wp, reinit>>
encodeVars == <<imgOn, img, vpc, held, fresh, refs, stopEv, raced>>
videoVars == <<captureVars, encodeVars>>

Init ==
  /\ cpc = "none" /\ capOn = FALSE /\ capQueue = {} /\ ctxs = {}
  /\ disp = 0 /\ made = 0 /\ wp = 0 /\ reinit = FALSE
  /\ imgOn = Session /\ img = [s \in Session |-> 0]
  /\ vpc = [s \in Session |-> "out"] /\ held = [s \in Session |-> 0]
  /\ fresh = Session /\ refs = {} /\ stopEv = {} /\ raced = {}

\* shared_ptr references to a display. Images may hold one (img_t of some
\* back ends), as long as the event they are in exists; a display nobody refers
\* to makes display_wp expire.
HasEvent(s) == vpc[s] # "done" \/ s \in ctxs \cup capQueue
Users(d) == {s \in Session : held[s] = d \/ (img[s] = d /\ HasEvent(s))}
Expired == wp = 0 \/ (disp # wp /\ Users(wp) = {})

\* shared_t keeps its lock while it destroys: nobody takes a reference then.
Joining == \E s \in Session : vpc[s] = "join"

At(s, a, b) == vpc[s] = a /\ vpc' = [vpc EXCEPT ![s] = b]

----------------------------------------------------------------------------
(* capture_async *)

\* capture_thread_async.ref(), with start_capture_async for the first one.
TakeRef(s) ==
  /\ ~Joining /\ At(s, "out", "raise")
  /\ refs' = refs \cup {s}
  /\ IF refs = {}
     THEN cpc' = "wait" /\ capOn' = TRUE /\ capQueue' = {} /\ ctxs' = {} /\ reinit' = FALSE
     ELSE UNCHANGED <<cpc, capOn, capQueue, ctxs, reinit>>
  /\ UNCHANGED <<disp, made, wp, imgOn, img, held, fresh, stopEv, raced>>

\* raise(capture_ctx_t), which a stopped queue ignores
RaiseContext(s) ==
  /\ At(s, "raise", "running")
  /\ capQueue' = IF capOn THEN capQueue \cup {s} ELSE capQueue
  /\ UNCHANGED <<cpc, capOn, ctxs, disp, made, wp, reinit,
                 imgOn, img, held, fresh, refs, stopEv, raced>>

CheckRunning(s) ==
  /\ At(s, "running", IF capOn THEN "loop" ELSE "leave")
  /\ UNCHANGED <<captureVars, imgOn, img, held, fresh, refs, stopEv, raced>>

\* The head of the loop; reinit_event is looked at before display_wp is locked.
LoopHead(s) ==
  /\ \/ At(s, "loop", "leave") /\ (s \in stopEv \/ s \notin imgOn)
     \/ At(s, "loop", "lock") /\ s \notin stopEv /\ s \in imgOn /\ ~reinit
  /\ UNCHANGED <<captureVars, imgOn, img, held, fresh, refs, stopEv, raced>>

LockDisplay(s) ==
  /\ \/ At(s, "lock", "loop") /\ Expired /\ UNCHANGED <<held, raced>>
     \/ /\ At(s, "lock", "encode") /\ ~Expired
        /\ held' = [held EXCEPT ![s] = wp]
        /\ raced' = IF reinit \/ disp # wp THEN raced \cup {s} ELSE raced
  /\ UNCHANGED <<captureVars, imgOn, img, fresh, refs, stopEv>>

\* make_encode_device or make_encode_session fails, or convert or encode does:
\* the first leaves capture_async, the others end encode_run only.
EncodeFails(s) ==
  /\ At(s, "encode", "loop") \/ At(s, "encode", "leave")
  /\ held' = [held EXCEPT ![s] = 0] /\ raced' = raced \ {s}
  /\ UNCHANGED <<captureVars, imgOn, img, fresh, refs, stopEv>>

\* Why encode_run leaves its loop.
MustBreak(s) == s \in stopEv \/ s \notin imgOn \/ (reinit /\ s \notin fresh)

\* The loop of encode_run: it ends, or encodes one frame, of an image if there
\* is one and of the previous contents after max_frametime if not.
EncodeRun(s) ==
  /\ \/ /\ MustBreak(s) /\ At(s, "encode", "loop")
        /\ held' = [held EXCEPT ![s] = 0] /\ raced' = raced \ {s}
        /\ UNCHANGED <<img, fresh>>
     \/ /\ ~MustBreak(s) /\ vpc[s] = "encode"
        /\ img' = [img EXCEPT ![s] = 0]
        /\ fresh' = fresh \ {s}
        /\ UNCHANGED <<vpc, held, raced>>
  /\ UNCHANGED <<captureVars, imgOn, refs, stopEv>>

\* The destructors of capture_async: the reference first, which for the last
\* session stops the queue and joins the capture thread (end_capture_async).
DropRef(s) ==
  /\ ~Joining
  /\ refs' = refs \ {s}
  /\ IF refs = {s} THEN At(s, "leave", "join") /\ capOn' = FALSE
     ELSE At(s, "leave", "guard") /\ UNCHANGED capOn
  /\ UNCHANGED <<cpc, capQueue, ctxs, disp, made, wp, reinit,
                 imgOn, img, held, fresh, stopEv, raced>>

JoinCapture(s) ==
  /\ cpc = "ended" /\ At(s, "join", "guard") /\ cpc' = "none"
  /\ UNCHANGED <<capOn, capQueue, ctxs, disp, made, wp, reinit,
                 imgOn, img, held, fresh, refs, stopEv, raced>>

\* then the fail guard: images->stop() and the session's shutdown event
LeaveGuard(s) ==
  /\ At(s, "guard", "done")
  /\ imgOn' = imgOn \ {s} /\ stopEv' = stopEv \cup {s}
  /\ UNCHANGED <<captureVars, img, held, fresh, refs, raced>>

\* session::stop, from anywhere
Shutdown(s) ==
  /\ s \notin stopEv
  /\ stopEv' = stopEv \cup {s}
  /\ UNCHANGED <<captureVars, imgOn, img, vpc, held, fresh, refs, raced>>

----------------------------------------------------------------------------
(* captureThread *)

\* The first context, or nothing because the queue was stopped.
PopInitial ==
  /\ cpc = "wait"
  /\ \/ \E s \in capQueue : capQueue' = capQueue \ {s} /\ ctxs' = {s} /\ cpc' = "open"
     \/ ~capOn /\ cpc' = "fail" /\ UNCHANGED <<capQueue, ctxs>>
  /\ UNCHANGED <<capOn, disp, made, wp, reinit, encodeVars>>

NewDisplay == disp' = made + 1 /\ made' = made + 1 /\ wp' = made + 1

\* refresh_displays and platf::display, which may fail.
OpenDisplay ==
  /\ cpc = "open"
  /\ \/ made < MaxDisplay /\ NewDisplay /\ cpc' = "capture"
     \/ cpc' = "fail" /\ UNCHANGED <<disp, made, wp>>
  /\ UNCHANGED <<capOn, capQueue, ctxs, reinit, encodeVars>>

\* push_captured_image_callback: contexts that stopped are dropped, the others
\* get the frame, new contexts are taken in; the callback, or the display, may
\* then end the capture, for a new display (reinit_event is raised) or for good.
Captured(frame) ==
  /\ cpc = "capture"
  /\ img' = [s \in Session |-> IF frame /\ s \in ctxs \cap imgOn THEN disp ELSE img[s]]
  /\ \/ capOn /\ ctxs' = (ctxs \cap imgOn) \cup capQueue /\ capQueue' = {}
        /\ \/ cpc' = "capture" /\ UNCHANGED reinit
           \/ made < MaxDisplay /\ cpc' = "drain" /\ reinit' = TRUE
     \/ ctxs' = ctxs \cap imgOn /\ cpc' = "fail" /\ UNCHANGED <<capQueue, reinit>>
  /\ UNCHANGED <<capOn, disp, made, wp,
                 imgOn, vpc, held, fresh, refs, stopEv, raced>>

\* Reinitialisation: a wait until nobody else refers to the display, freeing
\* unused images.
DrainUsers ==
  /\ cpc = "drain"
  /\ IF Users(disp) = {} THEN cpc' = "reset" /\ UNCHANGED <<ctxs, img>>
     ELSE /\ ctxs' = ctxs \cap imgOn
          /\ img' = [s \in Session |-> IF s \in ctxs \cap imgOn THEN 0 ELSE img[s]]
          /\ UNCHANGED cpc
  /\ UNCHANGED <<capOn, capQueue, disp, made, wp, reinit,
                 imgOn, vpc, held, fresh, refs, stopEv, raced>>

\* disp.reset() and reset_display, again and again until there is a display or
\* the queue has stopped.
ResetDisplay ==
  /\ cpc = "reset"
  /\ \/ capOn /\ disp' = 0 /\ UNCHANGED <<made, wp, cpc, reinit>>
     \/ capOn /\ NewDisplay /\ cpc' = "capture" /\ reinit' = FALSE
     \/ ~capOn /\ disp = 0 /\ cpc' = "fail" /\ UNCHANGED <<disp, made, wp, reinit>>
     \/ ~capOn /\ disp # 0 /\ cpc' = "capture" /\ reinit' = FALSE /\ UNCHANGED <<disp, made, wp>>
  /\ UNCHANGED <<capOn, capQueue, ctxs, encodeVars>>

\* The fail guard, whose first step stops the queue.
StopQueue ==
  /\ cpc = "fail" /\ cpc' = "failing" /\ capOn' = FALSE
  /\ UNCHANGED <<capQueue, ctxs, disp, made, wp, reinit, encodeVars>>

StopSessions ==
  /\ cpc = "failing" /\ cpc' = "ended"
  /\ imgOn' = imgOn \ (ctxs \cup capQueue)
  /\ disp' = 0
  /\ UNCHANGED <<capOn, capQueue, ctxs, made, wp, reinit,
                 img, vpc, held, fresh, refs, stopEv, raced>>

CaptureStep ==
  \/ PopInitial \/ OpenDisplay \/ (\E f \in BOOLEAN : Captured(f))
  \/ DrainUsers \/ ResetDisplay \/ StopQueue \/ StopSessions

EncodeStep(s) ==
  \/ TakeRef(s) \/ RaiseContext(s) \/ CheckRunning(s) \/ LoopHead(s) \/ LockDisplay(s)
  \/ EncodeFails(s) \/ EncodeRun(s) \/ DropRef(s) \/ JoinCapture(s) \/ LeaveGuard(s)

Next == CaptureStep \/ \E s \in Session : EncodeStep(s) \/ Shutdown(s)

Spec == Init /\ [][Next]_videoVars

\* Threads run; the capture thread of a stopped queue sees it at the next
\* callback, which the displays make at least once per timeout; a display can
\* be opened again at some point. LoopHead is taken when a spinning thread can.
CaptureRuns == PopInitial \/ OpenDisplay \/ DrainUsers \/ StopQueue \/ StopSessions
CaptureSeesStop == Captured(FALSE) /\ cpc' = "fail" /\ ~capOn
DisplayOpens == ResetDisplay /\ cpc' # "reset"
EncodeRuns(s) ==
  \/ RaiseContext(s) \/ CheckRunning(s) \/ LockDisplay(s) \/ EncodeRun(s)
  \/ JoinCapture(s) \/ LeaveGuard(s)
FairSpec ==
  /\ Spec /\ WF_videoVars(CaptureRuns \/ CaptureSeesStop) /\ WF_videoVars(DisplayOpens)
  /\ \A s \in Session :
       WF_videoVars(EncodeRuns(s)) /\ WF_videoVars(LoopHead(s)) /\ SF_videoVars(DropRef(s))

----------------------------------------------------------------------------
\* When the capture thread has stopped its queue and its sessions, no encoding
\* thread waits for images that nobody will raise: it has been told, or will
\* find the queue stopped, even if it put its context in at the last moment.
EndedReachesAll ==
  cpc \in {"ended", "none"} =>
    \A s \in Session : vpc[s] \in {"loop", "lock", "encode"} => s \notin imgOn

\* Beside the current display nobody uses an older one, except a session that
\* locked it after it had looked at reinit_event and before the capture thread
\* let go (the window between the two reads of capture_async), or that found in
\* display_wp the display of an earlier capture thread, kept by an unused image.
OldDisplayOnlyByRace ==
  \A s \in Session : held[s] # 0 /\ disp # 0 /\ held[s] # disp => s \in raced

\* The inductive invariants behind the two. Sessions: the queue stops only for the
\* last of them or with the thread, and who runs has been put in or taken in.
QueueInv ==
  /\ vpc = [s \in Session |-> vpc[s]] /\ refs \subseteq Session
  /\ \A s \in Session : s \in refs <=> vpc[s] \in {"raise", "running", "loop", "lock", "encode", "leave"}
  /\ cpc = "none" \/ refs # {} \/ Joining
  /\ cpc \in {"failing", "ended", "none"} => ~capOn
  /\ cpc = "wait" => ctxs = {}
  /\ \A s \in Session :
       /\ vpc[s] \in {"out", "raise"} => s \notin ctxs \cup capQueue /\ s \in imgOn
       /\ vpc[s] = "running" /\ capOn => s \in ctxs \cup capQueue /\ s \in imgOn
       /\ vpc[s] \in {"loop", "lock", "encode"} /\ s \in imgOn => s \in ctxs \cup capQueue
  /\ EndedReachesAll

\* Displays: before the first display and between two, whoever holds one holds an
\* older one, and knows nothing of it.
DisplayInv ==
  /\ held = [s \in Session |-> held[s]] /\ made \in Nat
  /\ \A s \in Session : held[s] # 0 => vpc[s] = "encode"
  /\ cpc \in {"none", "wait", "open", "ended"} => disp = 0
  /\ cpc \in {"capture", "drain"} => disp # 0
  /\ cpc \in {"drain", "reset"} => reinit
  /\ cpc \in {"wait", "open", "reset"} => \A s \in Session : held[s] # 0 => s \in raced
  /\ OldDisplayOnlyByRace

\* A session that is told to stop leaves capture_async, whatever the capture
\* thread does then: waiting for other sessions, reopening the display, ending.
Stopping(s) == s \in stopEv /\ vpc[s] # "out"
Left(s) == vpc[s] = "done"
StopEnds == \A s \in Session : Stopping(s) ~> Left(s)

\* A reinitialisation ends, in a new display or in the end of the thread: the
\* capture thread does not wait for ever for references to the old display.
Draining == cpc = "drain"
ReinitEnds == Draining ~> ~Draining
=============================================================================
