---------------------------- MODULE PortalCapture ----------------------------
(***************************************************************************)
(* Capture through the XDG desktop portal and PipeWire (portalgrab.cpp):   *)
(* the session with the portal, and the stream it gives.                   *)
(***************************************************************************)
EXTENDS Integers, FiniteSets

CONSTANT None

(***************************************************************************)
(* The XDG portal session behind a captured screen (portalgrab.cpp): a     *)
(* chain of D-Bus requests, each answered by a signal, first for a remote  *)
(* desktop session and, where that fails, for a screencast one; a cache    *)
(* that keeps the result; and the displays that take a duplicate of its    *)
(* PipeWire descriptor and drop the cache when they are destroyed.         *)
(***************************************************************************)
CONSTANTS
  Display,     \* portal_t objects that may be alive at once
  MaxCreated   \* bound on portal sessions created

VARIABLES
  portal,     \* sessions open in the portal
  created,    \* sessions created so far
  handle,     \* session_handle of dbus_, None while there is none
  valid,      \* valid_
  cacheFd,    \* pipewire_fd_: a descriptor, or None
  fds,        \* open descriptors: the PipeWire ones and 0, standard input
  caller,     \* the display whose get_or_create_session holds the mutex, or None
  step,       \* what the caller waits for
  remote,     \* the request under way is for a remote desktop session
  display,    \* per display: "none", "starting", "failed" or "open"
  displayFd,  \* per display: its descriptor, 0 until it is given one
  abandoned   \* remote desktop sessions given up for a screencast one

portalVars == <<portal, created, handle, valid, cacheFd, fds, caller, step, remote, display, displayFd, abandoned>>

SessionInit ==
  /\ portal = {} /\ created = 0 /\ handle = None /\ valid = FALSE /\ cacheFd = None /\ fds = {0}
  /\ caller = None /\ step = "idle" /\ remote = TRUE
  /\ display = [d \in Display |-> "none"] /\ displayFd = [d \in Display |-> 0] /\ abandoned = {}

\* The kernel hands out the lowest free descriptor.
Lowest(open) == CHOOSE n \in 0..Cardinality(open) : n \notin open /\ \A m \in 0..(n - 1) : m \in open
FreshFd == Lowest(fds)

Finish(d, ok) ==
  /\ caller' = None /\ step' = "idle"
  /\ display' = [display EXCEPT ![d] = IF ok THEN "open" ELSE "failed"]

\* pipewire_fd = dup(pipewire_fd_)
TakeDup(d) == displayFd' = [displayFd EXCEPT ![d] = FreshFd] /\ fds' = fds \cup {FreshFd}

\* get_or_create_session with a valid cache.
GetCached(d) ==
  /\ display[d] = "none" /\ caller = None /\ valid
  /\ TakeDup(d) /\ display' = [display EXCEPT ![d] = "open"]
  /\ UNCHANGED <<portal, created, handle, valid, cacheFd, caller, step, remote, abandoned>>

\* get_or_create_session without one: a new dbus_t. Its init may fail, and the
\* half-made object stays; assigning over an old one closes its session.
CreateDbus(d) ==
  /\ display[d] = "none" /\ caller = None /\ ~valid /\ created < MaxCreated
  /\ portal' = portal \ {handle} /\ handle' = None
  /\ \/ /\ caller' = d /\ step' = "session" /\ remote' = TRUE
        /\ display' = [display EXCEPT ![d] = "starting"]
     \/ Finish(d, FALSE) /\ UNCHANGED remote
  /\ UNCHANGED <<created, valid, cacheFd, fds, displayFd, abandoned>>

\* The chain fails: connect_to_portal returns -1 and dbus_ is destroyed, which
\* closes the session whose handle it holds.
ConnectFails(open) ==
  /\ portal' = open \ {handle'} /\ Finish(caller, FALSE)

\* create_portal_session: the handle is kept for the destructor. A refused
\* remote desktop session is followed by a screencast one.
CreatePortalSession ==
  /\ caller # None /\ step = "session"
  /\ \/ /\ created < MaxCreated
        /\ created' = created + 1 /\ portal' = portal \cup {created + 1} /\ handle' = created + 1
        /\ step' = "select" /\ UNCHANGED <<remote, caller, display>>
     \/ /\ remote /\ remote' = FALSE /\ UNCHANGED <<created, portal, handle, step, caller, display>>
     \/ /\ ~remote /\ handle' = handle /\ ConnectFails(portal) /\ UNCHANGED <<created, remote>>
  /\ UNCHANGED <<valid, cacheFd, fds, displayFd, abandoned>>

\* select_remote_desktop_devices and select_screencast_sources. When either is
\* refused the session path is freed and the handle is left to be overwritten.
SelectSources ==
  /\ caller # None /\ step = "select"
  /\ \/ /\ step' = "start" /\ UNCHANGED <<portal, remote, caller, display, abandoned>>
     \/ /\ remote /\ remote' = FALSE /\ step' = "session"
        /\ abandoned' = abandoned \cup {handle} /\ UNCHANGED <<portal, caller, display>>
     \/ /\ ~remote /\ portal' = portal \ {handle} /\ Finish(caller, FALSE) /\ UNCHANGED <<remote, abandoned>>
  /\ UNCHANGED <<created, handle, valid, cacheFd, fds, displayFd>>

\* start_portal_session, open_pipewire_remote and the caching of the result.
StartSession ==
  /\ caller # None /\ step = "start"
  /\ \/ LET cached == FreshFd
            own == Lowest(fds \cup {cached})
        IN  /\ valid' = TRUE /\ cacheFd' = cached /\ fds' = fds \cup {cached, own}
            /\ displayFd' = [displayFd EXCEPT ![caller] = own]
            /\ Finish(caller, TRUE) /\ UNCHANGED portal
     \/ /\ portal' = portal \ {handle} /\ Finish(caller, FALSE)
        /\ UNCHANGED <<valid, cacheFd, fds, displayFd>>
  /\ UNCHANGED <<created, handle, remote, abandoned>>

\* invalidate: dbus_.reset() closes the session.
Invalidate == [portal |-> IF valid THEN portal \ {handle} ELSE portal,
               handle |-> IF valid THEN None ELSE handle]

\* ~pipewire_t: cleanup_stream invalidates the cache, whoever else uses it, and
\* the display's descriptor is closed, which in a display whose init failed is
\* still 0. It needs the cache's mutex.
Destroy(d) ==
  /\ display[d] \in {"open", "failed"} /\ caller = None
  /\ display' = [display EXCEPT ![d] = "none"] /\ displayFd' = [displayFd EXCEPT ![d] = 0]
  /\ fds' = fds \ ({displayFd[d]} \cup (IF valid THEN {cacheFd} ELSE {}))
  /\ cacheFd' = IF valid THEN None ELSE cacheFd
  /\ portal' = Invalidate.portal /\ handle' = Invalidate.handle /\ valid' = FALSE
  /\ UNCHANGED <<created, caller, step, remote, abandoned>>

SessionNext ==
  \/ CreatePortalSession \/ SelectSources \/ StartSession
  \/ \E d \in Display : GetCached(d) \/ CreateDbus(d) \/ Destroy(d)

SessionSpec == SessionInit /\ [][SessionNext]_portalVars

-----------------------------------------------------------------------------
\* When no display is left, no screen recording is: every portal session is
\* closed and every descriptor with it, whichever request of the chain failed -
\* save the remote desktop session a screencast one replaced, whose handle the
\* code has overwritten.
ClosedWhenUnused ==
  (caller = None /\ \A d \in Display : display[d] = "none") => portal \subseteq abandoned /\ fds \subseteq {0}

\* Every open display has a PipeWire descriptor of its own, and it is open:
\* neither the cache nor another display has closed it. Descriptor 0 is the
\* exception: a display whose init failed closes it, whoever has it by then.
OwnDescriptor ==
  \A d \in Display : display[d] = "open" /\ displayFd[d] # 0 =>
    /\ displayFd[d] \in fds
    /\ \A e \in Display \ {d} : displayFd[e] # displayFd[d]

\* The inductive invariant behind both: who may close which descriptor and which
\* session, and that a cached session has a display that will drop it.
PortalInv ==
  /\ IsFiniteSet(fds) /\ fds \subseteq Nat /\ (caller # None => caller \in Display /\ display[caller] = "starting")
  /\ display \in [Display -> {"none", "starting", "failed", "open"}]
  /\ displayFd \in [Display -> Nat] /\ cacheFd \in Nat \cup {None}
  /\ \A d \in Display : displayFd[d] # 0 => display[d] = "open" /\ displayFd[d] \in fds /\ displayFd[d] # cacheFd
  /\ \A d, e \in Display : d # e /\ displayFd[d] # 0 => displayFd[d] # displayFd[e]
  /\ fds \subseteq {0, cacheFd} \cup {displayFd[d] : d \in Display}
  /\ (cacheFd # None /\ cacheFd # 0 => cacheFd \in fds) /\ (valid <=> cacheFd # None)
  /\ valid => caller = None /\ \E d \in Display : display[d] = "open"
  /\ portal \subseteq abandoned \cup (IF valid \/ (caller # None /\ step \in {"select", "start"}) THEN {handle} ELSE {})

(***************************************************************************)
(* Capturing a PipeWire stream (portalgrab.cpp): the PipeWire thread runs  *)
(* on_process and on_stream_state_changed, the capture thread waits for    *)
(* frames, fills images and pushes them to the encoder. Frames in memory   *)
(* are copied to the back buffer and the two buffers are swapped; an image *)
(* points into the front buffer. Four flags outlive the display: the size  *)
(* last captured, whether a capture runs and whether it is to stop.        *)
(***************************************************************************)
CONSTANTS
  Dim,       \* screen sizes
  MaxFrame,  \* bound on frames the compositor delivers
  MaxInit    \* bound on displays initialised

VARIABLES
  prev,      \* previous_width, previous_height; None stands for 0
  running,   \* capture_running
  stopped,   \* stream_stopped
  dead,      \* stream_dead
  ready,     \* frame_ready
  current,   \* current_buffer is not null
  front,     \* front_buffer, "a" or "b"
  content,   \* the frame in each buffer
  writing,   \* on_process has copied its frame but not swapped yet
  frames,    \* frames delivered
  pc,        \* capture thread: "none", "ready", "top", "wait", "pull" or "ended"
  expired,   \* the deadline of snapshot has passed
  result,    \* what capture returned
  encoding,  \* the image with the encoder: [buffer, frame], or None
  first,     \* the display is the first of its stream session
  leftover,  \* a stream session ended between a reinit and the next capture
  inits      \* displays initialised

streamVars == <<prev, running, stopped, dead, ready, current, front, content, writing, frames,
                pc, expired, result, encoding, first, leftover, inits>>

StreamInit ==
  /\ prev = None /\ running = FALSE /\ stopped = FALSE /\ dead = FALSE /\ ready = FALSE
  /\ current = FALSE /\ front = "a" /\ content = [b \in {"a", "b"} |-> 0] /\ writing = FALSE
  /\ frames = 0 /\ pc = "none" /\ expired = FALSE /\ result = "none" /\ encoding = None
  /\ first = TRUE /\ leftover = FALSE /\ inits = 0

Back == CHOOSE b \in {"a", "b"} : b # front
PipeWire == <<front, content, writing, frames>>

\* portal_t::init: the size last captured, still being captured, means that the
\* user stopped the stream.
InitDisplay(dim) ==
  /\ pc = "none" /\ inits < MaxInit
  /\ pc' = "ready" /\ inits' = inits + 1
  /\ IF prev = dim THEN stopped' = (stopped \/ running) /\ UNCHANGED prev
     ELSE prev' = dim /\ UNCHANGED stopped
  /\ dead' = FALSE /\ ready' = FALSE /\ current' = FALSE /\ writing' = FALSE
  /\ result' = "none" /\ encoding' = None
  /\ UNCHANGED <<running, front, content, frames, expired, first, leftover>>

\* A display that was only probed, or whose session ends first.
DropDisplay ==
  /\ pc = "ready" /\ pc' = "none"
  /\ leftover' = (leftover \/ running) /\ first' = TRUE
  /\ UNCHANGED <<prev, running, stopped, dead, ready, current, expired, result, encoding, inits>> /\ UNCHANGED PipeWire

StartCapture ==
  /\ pc = "ready" /\ pc' = "top" /\ running' = TRUE
  /\ UNCHANGED <<prev, stopped, dead, ready, current, expired, result, encoding, first, leftover, inits>>
  /\ UNCHANGED PipeWire

\* What capture clears before it returns anything but reinit.
ClearFlags == running' = FALSE /\ stopped' = FALSE /\ prev' = None

End(r) == pc' = "ended" /\ result' = r

\* The head of the loop: a stopped stream ends the capture, a dead one asks for
\* a new display and leaves the flags as they are.
LoopTop ==
  /\ pc = "top"
  /\ \/ stopped /\ ClearFlags /\ End("error") /\ UNCHANGED <<dead, expired>>
     \/ ~stopped /\ dead /\ dead' = FALSE /\ End("reinit") /\ UNCHANGED <<prev, running, stopped, expired>>
     \/ ~stopped /\ ~dead /\ pc' = "wait" /\ expired' = FALSE /\ UNCHANGED <<prev, running, stopped, dead, result>>
  /\ UNCHANGED <<ready, current, encoding, first, leftover, inits>> /\ UNCHANGED PipeWire

\* Time passes in snapshot.
Expire ==
  /\ pc \in {"wait", "pull"} /\ ~expired /\ expired' = TRUE
  /\ UNCHANGED <<prev, running, stopped, dead, ready, current, pc, result, encoding, first, leftover, inits>>
  /\ UNCHANGED PipeWire

\* wait_for_frame
WaitForFrame ==
  /\ pc = "wait" /\ ~expired /\ (ready \/ dead)
  /\ ready' = FALSE /\ pc' = "pull"
  /\ UNCHANGED <<prev, running, stopped, dead, current, expired, result, encoding, first, leftover, inits>>
  /\ UNCHANGED PipeWire

\* snapshot times out: a pull tells whether the session is shutting down.
SnapshotTimeout ==
  /\ pc = "wait" /\ expired
  /\ \/ pc' = "top" /\ UNCHANGED <<prev, running, stopped, result>>
     \/ ClearFlags /\ End("interrupted")
  /\ UNCHANGED <<dead, ready, current, expired, encoding, first, leftover, inits>> /\ UNCHANGED PipeWire

\* pull_free_image_cb and fill_img: without data the wait starts over.
FillImage ==
  /\ pc = "pull"
  /\ \/ ClearFlags /\ End("interrupted") /\ UNCHANGED encoding
     \/ /\ UNCHANGED <<prev, running, stopped, result>>
        /\ IF dead \/ ~current THEN pc' = "wait" /\ UNCHANGED encoding
           ELSE pc' = "top" /\ encoding' = [buffer |-> front, frame |-> content[front]]
  /\ UNCHANGED <<dead, ready, current, expired, first, leftover, inits>> /\ UNCHANGED PipeWire

\* The encoder is through with the image.
Encoded ==
  /\ encoding # None /\ encoding' = None
  /\ UNCHANGED <<prev, running, stopped, dead, ready, current, pc, expired, result, first, leftover, inits>>
  /\ UNCHANGED PipeWire

\* The capture thread destroys the display; reinit makes a new one in the same session.
DestroyDisplay ==
  /\ pc = "ended" /\ pc' = "none" /\ first' = (result # "reinit")
  /\ encoding' = None
  /\ UNCHANGED <<prev, running, stopped, dead, ready, current, expired, result, leftover, inits>> /\ UNCHANGED PipeWire

\* on_process, memory buffers: the copy to the back buffer without the lock ...
OnProcessCopy ==
  /\ pc \notin {"none", "ended"} /\ ~dead /\ ~writing /\ frames < MaxFrame
  /\ frames' = frames + 1 /\ content' = [content EXCEPT ![Back] = frames + 1] /\ writing' = TRUE
  /\ UNCHANGED <<prev, running, stopped, dead, ready, current, front, pc, expired, result, encoding, first, leftover, inits>>
\* ... and the swap under it.
OnProcessSwap ==
  /\ writing /\ pc \notin {"none", "ended"}
  /\ writing' = FALSE /\ front' = Back /\ ready' = TRUE /\ current' = TRUE
  /\ UNCHANGED <<prev, running, stopped, dead, content, frames, pc, expired, result, encoding, first, leftover, inits>>

\* on_stream_state_changed: paused drops the frame, an error leaves it.
OnStateChanged ==
  /\ pc \notin {"none", "ended"} /\ ~writing /\ ~dead /\ dead' = TRUE
  /\ \/ ready' = FALSE /\ current' = FALSE
     \/ UNCHANGED <<ready, current>>
  /\ UNCHANGED <<prev, running, stopped, pc, expired, result, encoding, first, leftover, inits>> /\ UNCHANGED PipeWire

CaptureRuns == LoopTop \/ WaitForFrame \/ SnapshotTimeout \/ FillImage
StreamNext ==
  \/ CaptureRuns \/ Expire \/ DropDisplay \/ StartCapture \/ Encoded \/ DestroyDisplay
  \/ OnProcessCopy \/ OnProcessSwap \/ OnStateChanged
  \/ \E dim \in Dim : InitDisplay(dim)

StreamSpec == StreamInit /\ [][StreamNext]_streamVars

\* The capture thread runs, and its deadlines pass.
FairStreamSpec == StreamSpec /\ WF_streamVars(CaptureRuns) /\ WF_streamVars(Expire)

-----------------------------------------------------------------------------
\* A stream session is never ended by the stop mark of an earlier one, unless
\* that one ended between a reinit and its next capture.
FreshNotStopped == pc # "none" /\ first /\ ~leftover => ~stopped

\* The inductive invariant behind it: only a capture that runs is marked to stop,
\* and only a reinit leaves it running.
MarkInv ==
  /\ stopped => running
  /\ pc = "ended" => result = "reinit" \/ ~running
  /\ pc \in {"none", "ready"} /\ first /\ ~leftover => ~running /\ ~stopped
  /\ FreshNotStopped

\* A stream that died ends the capture: no interleaving of the two threads
\* leaves it waiting for frames that will not come.
Dying == dead /\ pc \in {"top", "wait", "pull"}
Ended == pc = "ended"
DeadEnds == Dying ~> Ended
=============================================================================
