----------------------------- MODULE X11Capture -----------------------------
(***************************************************************************)
(* X11 capture (x11grab.cpp). The shared-memory display keeps a copy of    *)
(* the server's size that a task of the task pool refreshes every two      *)
(* seconds; each run of the task schedules the next one and stores its id. *)
(* The destructor cancels the task by that id, over and over until it      *)
(* catches one that is waiting. The display without shared memory asks the *)
(* server before each frame.                                               *)
(***************************************************************************)
EXTENDS Integers, FiniteSets

CONSTANTS Dim,       \* sizes of the X screen
          MaxResize, \* bound on changes of the screen
          MaxTask,   \* bound on runs of the refresh task before the destructor
          Pointer,   \* cursor positions, hot spot and offset subtracted
          CursorSize

VARIABLES
  server,     \* the size of the X screen
  xattr,      \* xattr: the size last read
  env,        \* env_width, env_height: the size at init
  shm,        \* the display uses shared memory
  queued,     \* ids of the refresh tasks waiting in the pool
  taskId,     \* refresh_task_id
  task,       \* the pool's worker: "none", "popped", "refreshed" or "pushed"
  newId,      \* the id that pushDelayed returned to the worker
  ids,        \* ids given out
  capture,    \* "none", "running", "reinit", "destroying" or "freed"
  resizes,
  uaf         \* the worker touched a display that was freed
x11Vars == <<server, xattr, env, shm, queued, taskId, task, newId, ids, capture, resizes, uaf>>

Init ==
  /\ server = CHOOSE d \in Dim : \A e \in Dim : d <= e
  /\ xattr = server /\ env = server /\ shm = FALSE /\ queued = {} /\ taskId = 0
  /\ task = "none" /\ newId = 0 /\ ids = 0 /\ capture = "none" /\ resizes = 0 /\ uaf = FALSE

PoolVars == <<queued, taskId, task, newId, ids>>

\* The constructor schedules the task, init reads the size; without the extension
\* the plain display is used.
Create(useShm) ==
  /\ capture = "none" /\ capture' = "running" /\ shm' = useShm
  /\ xattr' = server /\ env' = server
  /\ IF useShm THEN queued' = {1} /\ taskId' = 1 /\ ids' = 1 ELSE UNCHANGED <<queued, taskId, ids>>
  /\ UNCHANGED <<server, task, newId, resizes, uaf>>

\* The X screen changes its size.
Resize(d) ==
  /\ resizes < MaxResize /\ d # server /\ server' = d /\ resizes' = resizes + 1
  /\ UNCHANGED <<xattr, env, shm, capture, uaf>> /\ UNCHANGED PoolVars

\* snapshot of x11_attr_t
SnapshotPlain ==
  /\ capture = "running" /\ ~shm
  /\ xattr' = server /\ capture' = IF server # env THEN "reinit" ELSE "running"
  /\ UNCHANGED <<server, env, shm, resizes, uaf>> /\ UNCHANGED PoolVars

\* snapshot of shm_attr_t: an image the server cannot deliver also ends it.
SnapshotShm ==
  /\ capture = "running" /\ shm
  /\ \/ capture' = IF xattr # env THEN "reinit" ELSE "running"
     \/ server # env /\ capture' = "reinit"
  /\ UNCHANGED <<server, xattr, env, shm, resizes, uaf>> /\ UNCHANGED PoolVars

\* The capture ends, with a request for a new display or without.
Drop ==
  /\ capture \in {"running", "reinit"} /\ capture' = "destroying"
  /\ UNCHANGED <<server, xattr, env, shm, resizes, uaf>> /\ UNCHANGED PoolVars

\* ~shm_attr_t: one turn of the loop that succeeds; the others change nothing.
Destroy ==
  /\ capture = "destroying" /\ (shm => taskId \in queued)
  /\ capture' = "freed" /\ queued' = queued \ {taskId}
  /\ UNCHANGED <<server, xattr, env, shm, taskId, task, newId, ids, resizes, uaf>>

Touch == uaf' = (uaf \/ capture = "freed")

\* The pool's worker takes the task when its two seconds are over.
TaskPop ==
  /\ task = "none" /\ taskId \in queued /\ (ids < MaxTask \/ capture = "destroying")
  /\ queued' = {} /\ task' = "popped"
  /\ UNCHANGED <<server, xattr, env, shm, taskId, newId, ids, capture, resizes, uaf>>

\* delayed_refresh: refresh ...
TaskRefresh ==
  /\ task = "popped" /\ task' = "refreshed" /\ xattr' = server /\ Touch
  /\ UNCHANGED <<server, env, shm, queued, taskId, newId, ids, capture, resizes>>

\* ... pushDelayed; the old task still exists, so the new id differs from its id ...
TaskPush ==
  /\ task = "refreshed" /\ task' = "pushed"
  /\ newId' = 3 - taskId /\ queued' = {3 - taskId} /\ ids' = IF ids < MaxTask THEN ids + 1 ELSE ids
  /\ UNCHANGED <<server, xattr, env, shm, taskId, capture, resizes, uaf>>

\* ... and the assignment of the id, the last access to the display.
TaskStore ==
  /\ task = "pushed" /\ task' = "none" /\ taskId' = newId /\ Touch
  /\ UNCHANGED <<server, xattr, env, shm, queued, newId, ids, capture, resizes>>

Next ==
  \/ SnapshotPlain \/ SnapshotShm \/ Drop \/ Destroy \/ TaskPop \/ TaskRefresh \/ TaskPush \/ TaskStore
  \/ \E d \in Dim : Resize(d)
  \/ \E b \in BOOLEAN : Create(b)

Spec == Init /\ [][Next]_x11Vars

TaskStep == TaskPop \/ TaskRefresh \/ TaskPush \/ TaskStore

\* The worker and the capture thread run; a cancel that is tried again and again
\* meets the task waiting for its two seconds.
FairSpec ==
  /\ Spec /\ WF_x11Vars(SnapshotPlain \/ SnapshotShm) /\ SF_x11Vars(Destroy)
  /\ WF_x11Vars(TaskStep)

(***************************************************************************)
(* blend_cursor                                                            *)
(***************************************************************************)

\* The columns of the image that the cursor at x is drawn on.
BlendSpan(x, width) ==
  LET from == IF x < 0 THEN 0 ELSE x
      room == IF width - from > 0 THEN width - from ELSE 0
  IN from..(from + (IF CursorSize < room THEN CursorSize ELSE room) - 1)

(***************************************************************************)
(* Properties                                                              *)
(***************************************************************************)

\* The refresh task never touches a display that was destroyed.
NoUseAfterFree == ~uaf

\* A cursor partly or wholly outside the screen is never drawn outside the image.
CursorStaysInside == \A x \in Pointer : BlendSpan(x, env) \subseteq 0..(env - 1)

\* The inductive invariant behind the two: the id the destructor cancels by is that
\* of the only task there is, unless the worker has that task.
RefreshInv ==
  /\ server \in Dim /\ env \in Dim
  /\ taskId \in (IF queued = {} /\ task = "none" THEN 0..2 ELSE 1..2)
  /\ task \in {"none", "popped", "refreshed", "pushed"}
  /\ task = "none" => queued \subseteq {taskId}
  /\ task \in {"popped", "refreshed"} => queued = {}
  /\ task = "pushed" => newId = 3 - taskId /\ queued = {newId}
  /\ capture \in {"none", "freed"} \/ ~shm => task = "none" /\ queued = {}
  /\ NoUseAfterFree

\* The destructor gets out of its loop.
Destroying == capture = "destroying"
Destroyed == capture = "freed"
DestructorEnds == Destroying ~> Destroyed
=============================================================================
