--------------------------- MODULE WaylandCapture ---------------------------
(***************************************************************************)
(* Capture through wlr-screencopy (wayland.cpp, wlgrab.cpp). snapshot asks *)
(* the compositor for a frame and dispatches its events until the frame is *)
(* ready, has failed, or the time is up. The events of a frame arrive in   *)
(* order: its format, buffer_done (the code creates a buffer object and    *)
(* exports it), params created or failed, ready or failed. All of them act *)
(* on one dmabuf_t: nothing in it tells which frame an event belongs to.   *)
(* The compositor is external.                                             *)
(***************************************************************************)
EXTENDS Integers, FiniteSets

CONSTANTS
  Dim,         \* output sizes
  Image,       \* images of the capture pool
  MaxRequest,  \* bound on frames requested
  MaxDisplay,  \* bound on displays created
  None

Request == 1..MaxRequest
NoFrame == [fd |-> None, dim |-> None]

VARIABLES
  display,    \* the display: the size it was initialised with, or None
  displays,   \* displays created
  requests,   \* frames requested
  stage,      \* per frame: "none", "asked", "formats", "params", "copying" or "gone"
  dmabuf,     \* dmabuf_info: a size, or None when not supported
  bo,         \* current_bo: the descriptor exported from it, or None
  frame,      \* the two frames: descriptor and size
  cur,        \* current_frame
  status,     \* "READY", "WAITING" or "REINIT"
  open,       \* open descriptors; a descriptor is named by the frame it was made for
  filled,     \* descriptors whose buffer holds a screen
  image,      \* descriptor in each image of the pool
  pc,         \* capture thread: "idle", "top", "dispatch", "got" or "ended"
  overlap,    \* a frame was requested while another was outstanding
  badClose    \* a descriptor was closed that was not open

waylandVars == <<display, displays, requests, stage, dmabuf, bo, frame, cur,
                 status, open, filled, image, pc, overlap, badClose>>
Display == <<display, displays>>

Init ==
  /\ display = None /\ displays = 0 /\ requests = 0
  /\ stage = [r \in Request |-> "none"] /\ dmabuf = None /\ bo = None
  /\ frame = [i \in {0, 1} |-> NoFrame] /\ cur = 0 /\ status = "READY" /\ open = {} /\ filled = {}
  /\ image = [i \in Image |-> None] /\ pc = "idle" /\ overlap = FALSE /\ badClose = FALSE

Next1 == 1 - cur
Close(fds) == open' = open \ fds /\ badClose' = (badClose \/ ~(fds \subseteq open))
Fd(f) == {f.fd} \ {None}
Closed(f) == [f EXCEPT !.fd = None]

(***************************************************************************)
(* Choosing an output                                                      *)
(***************************************************************************)

\* wl_display_names: the names are the positions of the outputs in the registry,
\* none when a protocol is missing.
DisplayNames(wired, heads) == IF wired THEN 0..(heads - 1) ELSE {}

\* wlr_t::init: a position that is no longer there means the first output. A
\* compositor without outputs is not guarded against; the model excludes it.
Chosen(name, heads) == IF name < heads THEN name ELSE 0

\* The outputs, each with its size, may have changed since the names were listed.
InitDisplay(wired, heads, name, dims) ==
  /\ pc = "idle" /\ displays < MaxDisplay
  /\ name \in DisplayNames(wired, heads) /\ wired
  /\ display' = dims[Chosen(name, Cardinality(DOMAIN dims))]
  /\ displays' = displays + 1 /\ pc' = "top" /\ status' = "READY"
  /\ UNCHANGED <<requests, stage, dmabuf, bo, frame, cur, open, filled, image, overlap, badClose>>

(***************************************************************************)
(* snapshot                                                                *)
(***************************************************************************)

Outstanding == {r \in Request : stage[r] \notin {"none", "gone"}}

\* dmabuf_t::listen
Listen ==
  /\ pc = "top" /\ requests < MaxRequest
  /\ requests' = requests + 1 /\ stage' = [stage EXCEPT ![requests + 1] = "asked"]
  /\ dmabuf' = None /\ status' = "WAITING" /\ pc' = "dispatch"
  /\ overlap' = (overlap \/ Outstanding # {})
  /\ UNCHANGED <<bo, frame, cur, open, filled, image, badClose>> /\ UNCHANGED Display

\* Nothing arrived within the timeout; the callback may end the capture.
SnapshotTimeout ==
  /\ pc = "dispatch" /\ status = "WAITING"
  /\ pc' \in {"top", "ended"}
  /\ UNCHANGED <<requests, stage, dmabuf, bo, frame, cur, status, open, filled, image, overlap, badClose>>
  /\ UNCHANGED Display

\* The tail of wlr_t::snapshot
Dispatched ==
  /\ pc = "dispatch" /\ status # "WAITING"
  /\ pc' = IF status = "REINIT" \/ frame[cur].dim # display THEN "ended" ELSE "got"
  /\ UNCHANGED <<requests, stage, dmabuf, bo, frame, cur, status, open, filled, image, overlap, badClose>>
  /\ UNCHANGED Display

\* wlr_vram_t::snapshot: the image gives up its old descriptors and takes the frame's.
VramSnapshot(i) ==
  /\ pc = "got"
  /\ Close({image[i]} \ {None})
  /\ image' = [image EXCEPT ![i] = frame[cur].fd] /\ frame' = [frame EXCEPT ![cur] = Closed(@)]
  /\ pc' \in {"top", "ended"}
  /\ UNCHANGED <<requests, stage, dmabuf, bo, cur, status, filled, overlap>> /\ UNCHANGED Display

\* wlr_ram_t::snapshot copies the pixels out; a pull that fails interrupts both.
RamSnapshot ==
  /\ pc = "got" /\ pc' \in {"top", "ended"}
  /\ UNCHANGED <<requests, stage, dmabuf, bo, frame, cur, status, open, filled, image, overlap, badClose>>
  /\ UNCHANGED Display

\* The display goes away with its images, its frames and its connection.
Destroy ==
  /\ pc = "ended" /\ pc' = "idle" /\ display' = None
  /\ Close(Fd(frame[0]) \cup Fd(frame[1]) \cup ({image[i] : i \in Image} \ {None}))
  /\ frame' = [i \in {0, 1} |-> NoFrame] /\ cur' = 0 /\ bo' = None /\ dmabuf' = None
  /\ image' = [i \in Image |-> None] /\ status' = "READY"
  /\ stage' = [r \in Request |-> IF r <= requests THEN "gone" ELSE "none"]
  /\ UNCHANGED <<displays, requests, filled, overlap>>

(***************************************************************************)
(* Events, dispatched by the capture thread                                *)
(***************************************************************************)

Dispatching == pc = "dispatch"

\* linux_dmabuf, or only buffer (shared memory)
Format(r, dim) ==
  /\ Dispatching /\ stage[r] = "asked"
  /\ stage' = [stage EXCEPT ![r] = "formats"] /\ dmabuf' = dim
  /\ UNCHANGED <<requests, bo, frame, cur, status, open, filled, image, pc, overlap, badClose>>
  /\ UNCHANGED Display

\* buffer_done and create_and_copy_dmabuf: a failure to make or export the buffer,
\* or no buffer type that is implemented, gives up the frame.
BufferDone(r) ==
  /\ Dispatching /\ stage[r] = "formats"
  /\ \/ /\ dmabuf # None
        /\ bo' = r /\ open' = open \cup {r}
        /\ frame' = [frame EXCEPT ![Next1] = [fd |-> r, dim |-> dmabuf]]
        /\ stage' = [stage EXCEPT ![r] = "params"] /\ UNCHANGED status
     \/ /\ stage' = [stage EXCEPT ![r] = "gone"] /\ status' = "REINIT"
        /\ frame' = IF dmabuf = None THEN frame ELSE [frame EXCEPT ![Next1].dim = dmabuf]
        /\ UNCHANGED <<bo, open>>
  /\ UNCHANGED <<requests, dmabuf, cur, filled, image, pc, overlap, badClose>> /\ UNCHANGED Display

\* buffer_params_created starts the copy, buffer_params_failed gives up.
ParamsAnswered(r) ==
  /\ Dispatching /\ stage[r] = "params"
  /\ \/ stage' = [stage EXCEPT ![r] = "copying"] /\ UNCHANGED <<bo, status>>
     \/ stage' = [stage EXCEPT ![r] = "gone"] /\ bo' = None /\ status' = "REINIT"
  /\ UNCHANGED <<requests, dmabuf, frame, cur, open, filled, image, pc, overlap, badClose>>
  /\ UNCHANGED Display

\* ready: the previous frame is destroyed and the frames are swapped.
Ready(r) ==
  /\ Dispatching /\ stage[r] = "copying"
  /\ Close(Fd(frame[cur])) /\ frame' = [frame EXCEPT ![cur] = Closed(@)]
  /\ cur' = Next1 /\ bo' = None /\ status' = "READY"
  /\ filled' = filled \cup {r} /\ stage' = [stage EXCEPT ![r] = "gone"]
  /\ UNCHANGED <<requests, dmabuf, image, pc, overlap>> /\ UNCHANGED Display

\* failed
FrameFailed(r) ==
  /\ Dispatching /\ stage[r] \in {"asked", "formats", "params", "copying"}
  /\ Close(Fd(frame[Next1])) /\ frame' = [frame EXCEPT ![Next1] = Closed(@)]
  /\ bo' = None /\ status' = "REINIT" /\ stage' = [stage EXCEPT ![r] = "gone"]
  /\ UNCHANGED <<requests, dmabuf, cur, filled, image, pc, overlap>> /\ UNCHANGED Display

Next ==
  \/ Listen \/ SnapshotTimeout \/ Dispatched \/ RamSnapshot \/ Destroy
  \/ \E wired \in BOOLEAN, heads \in 1..2, name \in 0..1, n \in 0..1 :
       \E dims \in [0..n -> Dim] : InitDisplay(wired, heads, name, dims)
  \/ \E i \in Image : VramSnapshot(i)
  \/ \E r \in Request : BufferDone(r) \/ ParamsAnswered(r) \/ Ready(r) \/ FrameFailed(r)
  \/ \E r \in Request, dim \in Dim \cup {None} : Format(r, dim)

Spec == Init /\ [][Next]_waylandVars

(***************************************************************************)
(* Properties                                                              *)
(***************************************************************************)

\* The frame handed on after a snapshot that did not overlap another frame is a
\* whole one: an open buffer of the display's size that the compositor has filled.
DeliveredIsFilled ==
  pc = "got" /\ ~overlap => /\ frame[cur].fd \in open \cap filled
                            /\ frame[cur].dim = display

\* A descriptor is owned by one frame or one image and is closed once: none is
\* leaked while frames do not overlap, and none is closed twice.
DescriptorsOwned ==
  ~overlap =>
    /\ ~badClose
    /\ open = Fd(frame[0]) \cup Fd(frame[1]) \cup ({image[i] : i \in Image} \ {None})
    /\ \A i \in Image : image[i] # None => image[i] \notin Fd(frame[0]) \cup Fd(frame[1])

\* The inductive invariant behind both: while frames do not overlap only the last
\* one asked for is on its way, and the frame behind the current one holds its
\* descriptor from buffer_done on.
Stages == {"none", "asked", "formats", "params", "copying", "gone"}
FrameType ==
  /\ requests \in 0..MaxRequest /\ stage \in [Request -> Stages] /\ cur \in {0, 1}
  /\ dmabuf \in Dim \cup {None} /\ status \in {"READY", "WAITING", "REINIT"}
  /\ frame \in [{0, 1} -> [fd : Request \cup {None}, dim : Dim \cup {None}]]
  /\ image \in [Image -> Request \cup {None}]
  /\ open \subseteq 1..requests /\ \A r \in Request : r > requests => stage[r] = "none"
FrameIsHeld ==
  LET next == frame[Next1].fd
  IN /\ Outstanding \subseteq {requests}
     /\ \A r \in Outstanding : stage[r] \in {"params", "copying"} => next = r
     /\ \A r \in Outstanding : stage[r] \in {"asked", "formats"} => next = None /\ r \notin open
     /\ Outstanding = {} /\ status # "REINIT" => next = None
     /\ pc \in {"top", "got", "idle"} => status # "REINIT"
     /\ (pc \in {"got", "idle"} \/ status = "REINIT") => Outstanding = {}
     /\ pc \in {"dispatch", "got"} /\ status # "WAITING" => Outstanding = {}
     /\ pc \in {"dispatch", "got"} /\ status = "READY" => frame[cur].fd \in open \cap filled
     /\ pc = "got" => status = "READY"
OneHolder ==
  /\ frame[0].fd # None => frame[0].fd # frame[1].fd
  /\ \A i, j \in Image : i # j /\ image[i] # None => image[i] # image[j]
WaylandInv == FrameType /\ DescriptorsOwned /\ DeliveredIsFilled /\ (~overlap => FrameIsHeld /\ OneHolder)
=============================================================================
