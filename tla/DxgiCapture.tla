--------------------------- MODULE DxgiCapture ---------------------------
(***************************************************************************)
(* How a Windows display turns updates of the desktop into images          *)
(* (display_vram.cpp, display_ram.cpp, the duplication_t of                *)
(* display_base.cpp). A duplication reports pictures and cursors apart, so *)
(* the last picture is kept for later cursors: as the image it was         *)
(* delivered in, or on a surface of its own to draw cursors over a copy.   *)
(* Images come from the pool of CaptureImages and are read by an encoder.  *)
(*                                                                         *)
(* The pacing of display_base_t::capture (display_base.cpp): frames are    *)
(* taken in groups, the k-th one k client intervals after the moment the   *)
(* first was displayed, until one is missing or the thread is late. Time   *)
(* passes anywhere: the sleep may overshoot, the push callback may take    *)
(* long. One tick is a fraction of the client's frame interval.            *)
(*                                                                         *)
(* The frames of Windows.Graphics.Capture (display_wgc.cpp), which a       *)
(* thread of the system produces and the capture thread consumes.          *)
(***************************************************************************)
EXTENDS Integers, Sequences, FiniteSets

(***************************************************************************)
(* Images                                                                  *)
(***************************************************************************)
CONSTANTS
  Image,    \* pooled images
  Picture,  \* contents of the desktop, from 1 on; 0 is black
  Cursor,   \* cursors, from 1 on; 0 is none
  Kinds,    \* classes of display: "vram", "ram" (duplication), "wgc"
  Format,   \* formats of the desktop
  None

VARIABLES
  kind,      \* class of the display, None while there is none
  screen,    \* the desktop: pic, cur, fmt
  updates,   \* what changed since the last frame was acquired: "pic", "cur"
  format,    \* capture_format, None while unknown
  acquired,  \* the newest picture a frame brought, 0 before the first
  cursor,    \* cursor_alpha, cursor_xor or cursor: 0 when not visible
  drawn,     \* display_cursor: cursors are to be drawn
  lastFrame, \* last_frame_variant: None, or kind "img" or "surface" and img or pic;
             \* for "ram" the staging texture
  oldSurface,\* old_surface_delayed_destruction: its contents, or None
  imgs,      \* per image: texture (pic, cur) and dummy
  event,     \* the image raised to the encoder and its contents then, or None
  encoding   \* the image the encoder reads, likewise

dxgiVars == <<kind, screen, updates, format, acquired, cursor, drawn, lastFrame, oldSurface,
              imgs, event, encoding>>

NewImage == [texture |-> None, dummy |-> FALSE]

ImageInit ==
  /\ kind = None /\ screen = [pic |-> 1, cur |-> 0, fmt |-> CHOOSE f \in Format : TRUE]
  /\ updates = {} /\ format = None /\ acquired = 0 /\ cursor = 0 /\ drawn = TRUE
  /\ lastFrame = None /\ oldSurface = None
  /\ imgs = [i \in Image |-> NewImage] /\ event = None /\ encoding = None

\* duplication_t::init, or WGC, which knows its format and its pictures. The
\* first frame of a duplication may bring the cursor only.
OpenCapture(k, first) ==
  /\ kind = None /\ kind' = k /\ updates' = IF k = "wgc" THEN {"pic", "cur"} ELSE first
  /\ format' = IF k = "wgc" THEN screen.fmt ELSE None
  /\ acquired' = 0 /\ cursor' = 0 /\ lastFrame' = None /\ oldSurface' = None
  /\ UNCHANGED <<screen, drawn, imgs, event, encoding>>

\* The desktop changes, or the user toggles the cursor.
Desktop ==
  /\ \/ \E p \in Picture : screen' = [screen EXCEPT !.pic = p] /\ updates' = updates \cup {"pic"} /\ UNCHANGED drawn
     \/ \E c \in Cursor \cup {0} : screen' = [screen EXCEPT !.cur = c] /\ updates' = updates \cup {"cur"} /\ UNCHANGED drawn
     \/ \E f \in Format : screen' = [screen EXCEPT !.fmt = f] /\ updates' = updates \cup {"pic"} /\ UNCHANGED drawn
     \/ drawn' = ~drawn /\ UNCHANGED <<screen, updates>>
  /\ UNCHANGED <<kind, format, acquired, cursor, lastFrame, oldSurface, imgs, event, encoding>>

Holds(e, i) == e # None /\ e.img = i

\* pull_free_image_cb: images nobody else refers to.
Free(kept) == {i \in Image : ~Holds(event, i) /\ ~Holds(encoding, i) /\ kept # [kind |-> "img", img |-> i]}

\* next_frame and the reading of the frame's information.
Acquire ==
  /\ acquired' = IF "pic" \in updates THEN screen.pic ELSE acquired
  /\ cursor' = IF "cur" \in updates THEN screen.cur ELSE cursor
  /\ format' = IF "pic" \in updates /\ format = None THEN screen.fmt ELSE format
  /\ updates' = {}

Blend == drawn /\ cursor' # 0

\* Which last and which out frame action: lfa and ofa.
Plan(new) ==
  CASE format' = None -> <<"nothing", "dummy">>
    [] format' # None /\ new /\ Blend -> <<"copy_src_to_surface", "blend">>
    [] format' # None /\ new /\ ~Blend -> <<"copy_src_to_img", "forward">>
    [] format' # None /\ ~new /\ lastFrame = None -> <<"nothing", "dummy">>
    [] format' # None /\ ~new /\ lastFrame # None /\ Blend ->
         <<IF lastFrame.kind = "img" THEN "replace_img_with_surface" ELSE "nothing", "blend">>
    [] OTHER -> <<IF lastFrame.kind = "surface" THEN "replace_surface_with_img" ELSE "nothing", "forward">>

\* complete_img: the texture of an image that changes between dummy and not is
\* made anew.
Complete(im, dummy) ==
  IF im.texture # None /\ im.dummy = dummy THEN im
  ELSE [texture |-> [pic |-> 0, cur |-> 0], dummy |-> dummy]

CopyTo(im, p, c) == [Complete(im, FALSE) EXCEPT !.texture = [pic |-> p, cur |-> c]]

\* create_surface and the copy onto it
SurfaceOf(p) == [kind |-> "surface", pic |-> p]

\* What the last frame action leaves: the last frame, the old surface, the
\* images. i is the image it pulls where it needs one.
LastFrame(action, i) ==
  LET r(l, o, ims) == [last |-> l, old |-> o, imgs |-> ims]
  IN  CASE action = "nothing" -> r(lastFrame, oldSurface, imgs)
        [] action = "copy_src_to_surface" ->
             IF lastFrame # None /\ lastFrame.kind = "surface" THEN r([lastFrame EXCEPT !.pic = screen.pic], oldSurface, imgs)
             ELSE r(SurfaceOf(screen.pic), None, imgs)
        [] action = "copy_src_to_img" ->
             r([kind |-> "img", img |-> i], oldSurface, [imgs EXCEPT ![i] = CopyTo(@, screen.pic, 0)])
        [] action = "replace_img_with_surface" ->
             r(SurfaceOf(imgs[lastFrame.img].texture.pic), None, imgs)
        [] action = "replace_surface_with_img" ->
             r([kind |-> "img", img |-> i], lastFrame.pic, [imgs EXCEPT ![i] = CopyTo(@, lastFrame.pic, 0)])

\* The image that goes out: j is pulled where the action needs a new one. A
\* dummy that was used before is cleared.
OutFrame(action, l, ims, j) ==
  CASE action = "forward" -> [img |-> l.img, imgs |-> ims]
    [] action = "blend" -> [img |-> j, imgs |-> [ims EXCEPT ![j] = CopyTo(@, l.pic, cursor')]]
    [] action = "dummy" -> [img |-> j, imgs |-> [ims EXCEPT ![j] =
         [Complete(@, TRUE) EXCEPT !.texture = [pic |-> 0, cur |-> IF Blend THEN cursor' ELSE 0]]]]

\* push_captured_image_cb: the newest image takes the place of an unread one.
Push(j) == event' = [img |-> j, texture |-> imgs'[j].texture]

Ready(k) == kind = k /\ updates # {} /\ ("pic" \in updates => format \in {None, screen.fmt})

\* display_ddup_vram_t::snapshot. The old surface goes after ten seconds.
SnapshotVram ==
  /\ Ready("vram") /\ Acquire
  /\ LET plan == Plan("pic" \in updates)
         pulls == plan[1] \in {"copy_src_to_img", "replace_surface_with_img"}
         kept == IF plan[1] = "copy_src_to_img" THEN None ELSE lastFrame
     IN  \E i \in IF pulls THEN Free(kept) ELSE {None} :
           LET l == LastFrame(plan[1], i)
           IN  \E j \in IF plan[2] = "forward" THEN {None} ELSE Free(l.last) :
                 LET out == OutFrame(plan[2], l.last, l.imgs, j)
                 IN  /\ lastFrame' = l.last /\ oldSurface' \in {l.old, None} /\ imgs' = out.imgs
                     /\ Push(out.img)
  /\ UNCHANGED <<kind, screen, drawn, encoding>>

\* display_ddup_ram_t::snapshot: the picture waits in the staging texture.
SnapshotRam ==
  /\ Ready("ram") /\ Acquire
  /\ lastFrame' = IF "pic" \in updates THEN SurfaceOf(screen.pic) ELSE lastFrame
  /\ \E j \in Free(None) :
       /\ imgs' = [imgs EXCEPT ![j] = CopyTo(@, IF format' = None THEN 0 ELSE lastFrame'.pic,
                                             IF Blend THEN cursor' ELSE 0)]
       /\ Push(j)
  /\ UNCHANGED <<kind, screen, drawn, oldSurface, encoding>>

\* display_wgc_vram_t::snapshot: the system draws the cursor.
SnapshotWgc ==
  /\ Ready("wgc") /\ acquired' = screen.pic /\ cursor' = screen.cur /\ updates' = {}
  /\ \E j \in Free(None) :
       imgs' = [imgs EXCEPT ![j] = CopyTo(@, screen.pic, IF drawn THEN screen.cur ELSE 0)] /\ Push(j)
  /\ UNCHANGED <<kind, screen, format, drawn, lastFrame, oldSurface, encoding>>

\* The capture ends: access is lost, the size or the format changed, or a call
\* fails; the images go with the display once the encoder has let go of them.
CaptureEnds ==
  /\ kind # None /\ encoding = None
  /\ kind' = None /\ event' = None /\ imgs' = [i \in Image |-> NewImage]
  /\ lastFrame' = None /\ oldSurface' = None
  /\ UNCHANGED <<screen, updates, format, acquired, cursor, drawn, encoding>>

\* The encoder takes the image out of the event, and lets go of it after convert.
TakeImage == event # None /\ encoding = None /\ encoding' = event /\ event' = None
Convert == encoding # None /\ encoding' = None /\ UNCHANGED event

Encoder ==
  /\ TakeImage \/ Convert
  /\ UNCHANGED <<kind, screen, updates, format, acquired, cursor, drawn, lastFrame, oldSurface, imgs>>

ImageNext ==
  \/ \E k \in Kinds, first \in {{"pic", "cur"}, {"cur"}} : OpenCapture(k, first)
  \/ Desktop \/ SnapshotVram \/ SnapshotRam \/ SnapshotWgc \/ CaptureEnds \/ Encoder

ImageSpec == ImageInit /\ [][ImageNext]_dxgiVars

\* An image that waits for the encoder or is being read has the contents it was
\* pushed with, however the capture side reuses images, surfaces and dummies.
EncoderReadsPushed == \A e \in {event, encoding} \ {None} : imgs[e.img].texture = e.texture

\* The inductive invariant behind it and PushIsCurrent. Images that are waited
\* for, read or kept are images of the pool; what is kept, as an image or on a
\* surface, is the newest picture without a cursor; and from the first picture
\* on something is kept.
Duplicated == kind \in {"vram", "ram"}
KeptIsNewest ==
  \/ lastFrame = [kind |-> "surface", pic |-> acquired]
  \/ /\ kind = "vram" /\ lastFrame = [kind |-> "img", img |-> lastFrame.img] /\ lastFrame.img \in Image
     /\ imgs[lastFrame.img].texture = [pic |-> acquired, cur |-> 0]
ImageInv ==
  /\ screen = [pic |-> screen.pic, cur |-> screen.cur, fmt |-> screen.fmt]
  /\ screen.pic \in Nat /\ screen.fmt \in Format /\ acquired \in Nat
  /\ imgs = [i \in Image |-> [texture |-> imgs[i].texture, dummy |-> imgs[i].dummy]] /\ EncoderReadsPushed
  /\ \A e \in {event, encoding} \ {None} : e.img \in Image
  /\ lastFrame # None => Duplicated /\ format # None /\ KeptIsNewest
  /\ Duplicated /\ lastFrame = None => format = None /\ acquired = 0

\* An image that is pushed shows the newest picture a frame brought and over it
\* the cursor as last reported, where cursors are drawn: no way of keeping the
\* last picture brings back an older one, or a cursor drawn before.
PushIsCurrent ==
  updates # {} /\ updates' = {} /\ event' # None =>
    event'.texture = [pic |-> acquired', cur |-> IF drawn THEN cursor' ELSE 0]

(***************************************************************************)
(* Frame pacing                                                            *)
(***************************************************************************)
CONSTANTS
  Interval,  \* the client's frame interval, after adjust_client_frame_rate
  MaxNow     \* bound on time

VARIABLES
  now,       \* steady_clock::now()
  pending,   \* when the newest frame not yet acquired was displayed, or None
  group,     \* frame_pacing_group_start, or None
  count,     \* frame_pacing_group_frames
  pacePc,    \* "top", "sleep", "wait" (the 200 ms snapshot), "push"
  taken      \* when the last frames were taken, the latest last; at most three

paceVars == <<now, pending, group, count, pacePc, taken>>

PaceInit == now = 0 /\ pending = None /\ group = None /\ count = 0 /\ pacePc = "top" /\ taken = <<>>

Target == group + count * Interval

\* We missed next frame time, invalidating current frame pacing group
MissedTarget == Target <= now

EndGroup == group' = None /\ count' = 0

LoopTop ==
  /\ pacePc = "top"
  /\ \/ group = None /\ pacePc' = "wait" /\ UNCHANGED <<group, count>>
     \/ group # None /\ MissedTarget /\ pacePc' = "wait" /\ EndGroup
     \/ group # None /\ ~MissedTarget /\ pacePc' = "sleep" /\ UNCHANGED <<group, count>>
  /\ UNCHANGED <<now, pending, taken>>

Take ==
  /\ pending' = None
  /\ taken' = Append(IF Len(taken) = 3 THEN Tail(taken) ELSE taken, now)

\* snapshot with zero timeout, after the sleep
SnapshotZero ==
  /\ pacePc = "sleep" /\ now >= Target
  /\ \/ pending # None /\ Take /\ count' = count + 1 /\ pacePc' = "push" /\ UNCHANGED group
     \/ pending = None /\ EndGroup /\ pacePc' = "wait" /\ UNCHANGED <<pending, taken>>
  /\ UNCHANGED now

\* snapshot with 200 ms: a new group starts when its frame was displayed, or
\* nothing came.
SnapshotWait ==
  /\ pacePc = "wait" /\ pacePc' = "push"
  /\ \/ pending # None /\ Take /\ group' = pending /\ count' = 1
     \/ pending = None /\ UNCHANGED <<pending, taken, group, count>>
  /\ UNCHANGED now

\* push_captured_image_cb and release_snapshot
PushImage == pacePc = "push" /\ pacePc' = "top" /\ UNCHANGED <<now, pending, group, count, taken>>

\* capture returns (reinit, error, interrupted, the push callback says so) from
\* wherever it is, and a later call starts without a group.
CaptureReturns == EndGroup /\ pacePc' = "top" /\ taken' = <<>> /\ UNCHANGED <<now, pending>>

Present == pending' = now /\ UNCHANGED <<now, group, count, pacePc, taken>>
Tick == now < MaxNow /\ now' = now + 1 /\ UNCHANGED <<pending, group, count, pacePc, taken>>

PaceNext == LoopTop \/ SnapshotZero \/ SnapshotWait \/ PushImage \/ CaptureReturns \/ Present \/ Tick

PaceSpec == PaceInit /\ [][PaceNext]_paceVars

\* The client is not flooded, however late the thread is and however often
\* groups restart: a third frame is taken at least one interval after the first.
NoBurst == Len(taken) = 3 => taken[3] - taken[1] >= Interval

\* The inductive invariant behind it. Before is the frame taken before the latest:
\* it was taken in time for the group, and once the group has ended, or when the
\* next of the group is due, an interval has passed since.
Latest == taken[Len(taken)]
Before == taken[Len(taken) - 1]
PaceInv ==
  /\ now \in Nat /\ taken \in Seq(Nat) /\ Len(taken) <= 3 /\ count \in Nat
  /\ taken # <<>> => Latest <= now
  /\ Len(taken) > 1 => Before <= Latest
  /\ pending # None => pending \in 0..now /\ (taken # <<>> => Latest <= pending)
  /\ group # None => /\ group \in Nat /\ taken # <<>> /\ count > 0
                     /\ Len(taken) > 1 => Before <= group + (count - 1) * Interval
  /\ pacePc = "sleep" => group # None /\ Latest <= Target
  /\ pacePc = "wait" => group = None
  /\ group = None /\ Len(taken) > 1 => Before + Interval <= now
  /\ NoBurst

(***************************************************************************)
(* Windows.Graphics.Capture                                                *)
(***************************************************************************)
CONSTANTS
  Buffers,   \* buffers of the frame pool, 2
  MaxArrived \* bound on frames

VARIABLES
  arrived,   \* frames the system has drawn; frame n is the n-th
  ready,     \* the frame the system has ready in the pool, or None
  open,      \* frames taken from the pool and not closed
  producer,  \* the frame in on_frame_arrived, or None
  produced,  \* produced_frame
  consumed,  \* consumed_frame
  wgcPc,     \* the capture thread: "out", "sleep" in the condition variable, "use"
  lastUsed   \* ghost: the frame used last

wgcVars == <<arrived, ready, open, producer, produced, consumed, wgcPc, lastUsed>>

WgcInit ==
  /\ arrived = 0 /\ ready = None /\ open = {} /\ producer = None /\ produced = None
  /\ consumed = None /\ wgcPc = "out" /\ lastUsed = 0

\* The system draws into a buffer that is free, if there is one.
Draw ==
  /\ ready = None /\ arrived < MaxArrived
  /\ Cardinality(open) < Buffers
  /\ arrived' = arrived + 1 /\ ready' = arrived + 1
  /\ UNCHANGED <<open, producer, produced, consumed, wgcPc, lastUsed>>

\* on_frame_arrived: TryGetNextFrame, which may fail ...
TryGetNextFrame(ok) ==
  /\ producer = None /\ ready # None
  /\ IF ok THEN producer' = ready /\ ready' = None /\ open' = open \cup {ready}
     ELSE UNCHANGED <<producer, ready, open>>
  /\ UNCHANGED <<arrived, produced, consumed, wgcPc, lastUsed>>

\* ... and, under the lock, the exchange of the frame nobody took.
OnFrameArrived ==
  /\ producer # None /\ produced' = producer /\ producer' = None
  /\ open' = open \ {produced}
  /\ UNCHANGED <<arrived, ready, consumed, wgcPc, lastUsed>>

\* A frame that is there is taken.
Consume ==
  /\ consumed' = produced /\ produced' = None /\ wgcPc' = "use" /\ lastUsed' = produced
  /\ UNCHANGED <<arrived, ready, producer>>

\* next_frame: release_frame, then the lock and perhaps the wait.
NextFrame ==
  /\ wgcPc = "out" /\ open' = open \ {consumed}
  /\ IF produced # None THEN Consume
     ELSE /\ consumed' = None /\ wgcPc' = "sleep"
          /\ UNCHANGED <<arrived, ready, producer, produced, lastUsed>>

\* Woken, also for no reason, or the time is up: without a frame it is a timeout.
NextFrameWakes ==
  /\ wgcPc = "sleep" /\ UNCHANGED open
  /\ \/ produced # None /\ Consume
     \/ wgcPc' = "out" /\ UNCHANGED <<arrived, ready, producer, produced, consumed, lastUsed>>

\* snapshot has copied the frame, or returned early without releasing it.
ReleaseSnapshot(released) ==
  /\ wgcPc = "use" /\ wgcPc' = "out"
  /\ IF released THEN open' = open \ {consumed} /\ consumed' = None ELSE UNCHANGED <<open, consumed>>
  /\ UNCHANGED <<arrived, ready, producer, produced, lastUsed>>

WgcNext ==
  \/ Draw \/ OnFrameArrived \/ NextFrame \/ NextFrameWakes
  \/ \E b \in BOOLEAN : TryGetNextFrame(b) \/ ReleaseSnapshot(b)
WgcSpec == WgcInit /\ [][WgcNext]_wgcVars

\* Every frame that was taken from the pool has exactly one holder, who closes it:
\* the pool is never used up by frames nobody knows, and no frame is closed while
\* it is copied from.
FramesAreHeld ==
  /\ open = {producer, produced, consumed} \ {None}
  /\ producer # None => producer \notin {produced, consumed}
  /\ produced # None => produced # consumed

\* The capture thread never goes back to an older frame.
NewestIsUsed == \A f \in {ready, producer, produced} \ {None} : f > lastUsed

\* The inductive invariant behind both: a frame comes before the one that follows
\* it on its way through the pool.
WgcInv ==
  /\ arrived \in Nat /\ lastUsed \in 0..arrived /\ ready \in {arrived, None}
  /\ {producer, produced, consumed} \subseteq 1..arrived \cup {None}
  /\ ready # None => {producer, produced, consumed, lastUsed} \subseteq 0..(ready - 1) \cup {None}
  /\ producer # None => {produced, consumed, lastUsed} \subseteq 0..(producer - 1) \cup {None}
  /\ produced # None => lastUsed < produced
  /\ (consumed # None => consumed <= lastUsed) /\ (wgcPc = "sleep" => consumed = None)
  /\ FramesAreHeld
=============================================================================
