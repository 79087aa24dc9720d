------------------------------ MODULE KmsGrab ------------------------------
(***************************************************************************)
(* KMS capture on Linux (kmsgrab.cpp), in two parts.                       *)
(*                                                                         *)
(* Monitors: how they are named (kms_display_names) and how the plane      *)
(* behind a name is found again (kms::display_t::init). A name is the      *)
(* position of a plane among the planes in use, counted over all cards;    *)
(* the position of its monitor on the desktop is guessed from the          *)
(* connector's type and number, which Wayland's output names carry.        *)
(* A card is [ok, nvidia, planes, connectors]; a plane [crtc, used,        *)
(* cursor, fb], fb in {"ok", "none", "nohandle"}; a connector [type, crtc],*)
(* crtc 0 when it drives none.                                             *)
(*                                                                         *)
(* Capture: each frame looks at the plane that was opened (refresh), reads *)
(* the cursor plane when its image seems to have changed (update_cursor),  *)
(* and hands out a pooled image that carries its own copy of the cursor,   *)
(* renewed by serial number (display_vram_t) or drawn into the picture     *)
(* (display_ram_t).                                                        *)
(***************************************************************************)
EXTENDS Integers, Sequences, SequencesExt, FiniteSets, FiniteSetsExt, Functions

CONSTANTS
  Hardware,   \* sequences of cards the machine may have
  NvencForced,\* config::video.encoder = "nvenc"
  Image,      \* the images of the pool
  MaxSerial,  \* bound on cursor images read
  Screen,     \* width of the screen, in cells
  CursorSize, \* width of the cursor, at most Screen
  Margin,     \* how far off the screen the cursor may be
  None

(* Monitors *)

VARIABLES
  hw,          \* the cards as they are now
  kmsNames,    \* what the last kms_display_names counted: <<card, plane>> per name
  listed,      \* [hw, mem] that enumeration saw
  descriptors, \* card_descriptors: card -> crtc -> [type, index]
  kmsOpen      \* the display init opened: [name, card, plane, output], card 0 if it failed; or None

kmsVars == <<hw, kmsNames, listed, descriptors, kmsOpen>>

MonitorsInit ==
  /\ hw = <<>> /\ kmsNames = <<>> /\ listed = None /\ descriptors = <<>> /\ kmsOpen = None

\* Cards another encoder owns are skipped.
Considered(card, mem) ==
  /\ card.ok
  /\ mem = "cuda" => card.nvidia \/ NvencForced
  /\ mem = "vaapi" => ~card.nvidia

\* Planes that scan out a buffer and are not cursors, in the order of the card.
Ascending(S, n) ==
  LET up[i \in 0..n] == IF i = 0 THEN <<>> ELSE IF i \in S THEN Append(up[i - 1], i) ELSE up[i - 1]
  IN  up[n]
Scanned(card) == {p \in DOMAIN card.planes : card.planes[p].used /\ ~card.planes[p].cursor}
ScanPlanes(card) == Ascending(Scanned(card), Len(card.planes))

\* init walks the planes of the considered cards in order.
Candidates(h, mem) ==
  FlattenSeq([c \in DOMAIN h |-> IF Considered(h[c], mem)
                                 THEN [i \in DOMAIN ScanPlanes(h[c]) |-> <<c, ScanPlanes(h[c])[i]>>]
                                 ELSE <<>>])

\* One card's share of the names: a plane whose buffer cannot be had is passed
\* over, one whose handle is withheld ends the card's list.
ListedPlanes(card) ==
  LET fb(p) == card.planes[p].fb
  IN  Ascending({p \in Scanned(card) : fb(p) = "ok" /\ \A q \in Scanned(card) : fb(q) = "nohandle" => p < q},
                Len(card.planes))
Names(h, mem) ==
  FlattenSeq([c \in DOMAIN h |-> IF Considered(h[c], mem)
                                 THEN [i \in DOMAIN ListedPlanes(h[c]) |-> <<c, ListedPlanes(h[c])[i]>>]
                                 ELSE <<>>])

\* Mutant of TypeIndex: connectors that drive nothing have no number.
TypeIndexDriven(h, mem, c, k) ==
  1 + Cardinality(UNION {{<<d, j>> : j \in {j \in DOMAIN h[d].connectors :
        /\ h[d].connectors[j].type = h[c].connectors[k].type
        /\ h[d].connectors[j].crtc # 0 /\ (d < c \/ j < k)}} : d \in {d \in 1..c : Considered(h[d], mem)}})

\* monitors: connectors of a type are numbered over the cards looked at.
TypeIndex(h, mem, c, k) ==
  1 + Cardinality(UNION {{<<d, j>> : j \in {j \in DOMAIN h[d].connectors :
        /\ h[d].connectors[j].type = h[c].connectors[k].type
        /\ (d < c \/ j < k)}} : d \in {d \in 1..c : Considered(h[d], mem)}})

\* map_crtc_to_monitor: the first connector on a CRTC stands for it.
CrtcToMonitor(h, mem, c) ==
  LET conns == h[c].connectors
      first(crtc) == CHOOSE k \in DOMAIN conns : /\ conns[k].crtc = crtc
                                                  /\ \A j \in DOMAIN conns : conns[j].crtc = crtc => k <= j
  IN  [crtc \in {conns[k].crtc : k \in DOMAIN conns} |->
         [type |-> conns[first(crtc)].type, index |-> TypeIndex(h, mem, c, first(crtc))]]

Monitors(h, mem) == [c \in {c \in DOMAIN h : Considered(h[c], mem)} |-> CrtcToMonitor(h, mem, c)]

\* kms_display_names, with correlate_to_wayland.
KmsDisplayNames(mem) ==
  /\ kmsNames' = Names(hw, mem)
  /\ descriptors' = Monitors(hw, mem)
  /\ listed' = [hw |-> hw, mem |-> mem] /\ kmsOpen' = None
  /\ UNCHANGED hw

\* init: the plane at the name's position among the planes in use; one without
\* a readable buffer fails, and the monitor descriptor names its output.
OpenPlane(name, mem) ==
  LET planes == Candidates(hw, mem)
      c == planes[name][1]
      p == hw[c].planes[planes[name][2]]
  IN  IF name \in DOMAIN planes /\ p.fb = "ok" /\ c \in DOMAIN descriptors
      THEN [name |-> name, card |-> c, plane |-> planes[name][2],
            output |-> IF p.crtc \in DOMAIN descriptors[c] THEN descriptors[c][p.crtc] ELSE None]
      ELSE [name |-> name, card |-> 0, plane |-> 0, output |-> None]

\* The capture thread opens a display under the name it was just given.
OpenMonitor(name) ==
  /\ listed # None /\ kmsOpen = None /\ name \in DOMAIN kmsNames
  /\ kmsOpen' = OpenPlane(name, listed.mem)
  /\ UNCHANGED <<hw, kmsNames, listed, descriptors>>

\* A monitor or card appears, disappears or is reconfigured.
Plug(h) ==
  /\ hw' = h /\ h # hw /\ kmsOpen = None
  /\ UNCHANGED <<kmsNames, listed, descriptors, kmsOpen>>

MonitorsNext ==
  \/ \E h \in Hardware : Plug(h)
  \/ \E mem \in {"system", "vaapi", "cuda"} : KmsDisplayNames(mem)
  \/ \E name \in 1..4 : OpenMonitor(name)

MonitorsSpec == MonitorsInit /\ [][MonitorsNext]_kmsVars

-----------------------------------------------------------------------------
Opened == kmsOpen # None /\ kmsOpen.card # 0
Readable(h) == \A c \in DOMAIN h : \A p \in DOMAIN h[c].planes : h[c].planes[p].fb = "ok"

\* The monitor a name was given to is the one that is captured under it, as
\* long as the hardware is as it was listed and every buffer could be read:
\* listing and opening count planes with two pieces of code.
NameMeansPlane ==
  /\ Opened /\ listed.hw = hw /\ Readable(hw) => <<kmsOpen.card, kmsOpen.plane>> = kmsNames[kmsOpen.name]
  /\ kmsOpen # None /\ ~Opened => listed.hw # hw \/ ~Readable(hw)

\* The kernel numbers the connectors of a type over all cards. A display's
\* monitor on the desktop is that of a connector on its own CRTC, as long as no
\* card was left out of the count.
KernelIndex(h, c, k) ==
  1 + Cardinality(UNION {{<<d, j>> : j \in {j \in DOMAIN h[d].connectors :
        /\ h[d].connectors[j].type = h[c].connectors[k].type
        /\ (d < c \/ (d = c /\ j < k))}} : d \in DOMAIN h})
OutputIsOwn ==
  Opened /\ listed.hw = hw /\ kmsOpen.output # None /\ (\A c \in DOMAIN hw : Considered(hw[c], listed.mem)) =>
    \E k \in DOMAIN hw[kmsOpen.card].connectors :
      /\ hw[kmsOpen.card].connectors[k].crtc = hw[kmsOpen.card].planes[kmsOpen.plane].crtc
      /\ kmsOpen.output.type = hw[kmsOpen.card].connectors[k].type
      /\ kmsOpen.output.index = KernelIndex(hw, kmsOpen.card, k)

\* What both rest on: the names and the monitors are those of the hardware that was
\* listed, and the display opened is the one init finds on the hardware as it is.
MonitorsInv ==
  /\ hw \in Hardware \cup {<<>>}
  /\ listed # None =>
       kmsNames = Names(listed.hw, listed.mem) /\ descriptors = Monitors(listed.hw, listed.mem)
  /\ kmsOpen # None => listed # None /\ \E name \in DOMAIN kmsNames : kmsOpen = OpenPlane(name, listed.mem)

-----------------------------------------------------------------------------
(* Capture *)

VARIABLES
  plane,     \* the hardware: [fb, src] of the cursor plane, fb 0 when hidden
  screen,    \* the scanned-out buffer: "same", "resized", "missing" or "denied"
  hdrBlob,   \* HDR_OUTPUT_METADATA of the connector; 0 when the display was opened
  hasPlane,  \* cursor_plane_id >= 0
  captured,  \* captured_cursor: [visible, fb, src, pixels, serial]
  imgs,      \* per image: its copy of the cursor, [serial, buffer]
  frame,     \* the image just pushed: [img, cursor, drawn], or None
  status     \* "ok" while capture() runs, else what it returned

kmsCaptureVars == <<plane, screen, hdrBlob, hasPlane, captured, imgs, frame, status>>

Position == (-Margin)..(Screen + Margin)   \* captured_cursor.x - img_offset_x
NoCursor == [visible |-> FALSE, fb |-> 0, src |-> 0, pixels |-> None, serial |-> 0]

CaptureInit ==
  /\ plane = [fb |-> 0, src |-> 1] /\ screen = "same" /\ hdrBlob = 0
  /\ hasPlane = TRUE /\ captured = NoCursor
  /\ imgs = [i \in Image |-> [serial |-> -1, buffer |-> None]]  \* alloc_img: the largest serial
  /\ frame = None /\ status = "ok"

\* The compositor moves on.
Flip ==
  /\ status = "ok"
  /\ \/ \E fb \in 0..2, src \in 1..2 : plane' = [fb |-> fb, src |-> src] /\ UNCHANGED <<screen, hdrBlob>>
     \/ \E s \in {"same", "resized", "missing", "denied"} : screen' = s /\ UNCHANGED <<plane, hdrBlob>>
     \/ hdrBlob' = 1 /\ UNCHANGED <<plane, screen>>
  /\ frame' = None
  /\ UNCHANGED <<hasPlane, captured, imgs, status>>

\* Mutant of Dirty: a new source rectangle in the same buffer goes unnoticed.
DirtyByBuffer(c) == plane.fb # 0 /\ plane.fb # c.fb

\* The cursor image has to be read again.
Dirty(c) == plane.fb # 0 /\ (plane.fb # c.fb \/ plane.src # c.src)

\* The pixels of the source rectangle are copied under a new serial.
CursorRead(c) ==
  [visible |-> TRUE, fb |-> plane.fb, src |-> plane.src, pixels |-> plane, serial |-> c.serial + 1]

\* update_cursor: the possible new values of <<hasPlane, captured>>. Missing
\* properties, a foreign format or a tiled buffer give the plane up for good;
\* a buffer that cannot be read now only hides the cursor.
UpdateCursor ==
  IF ~hasPlane THEN {<<hasPlane, captured>>}
  ELSE {<<FALSE, [captured EXCEPT !.visible = FALSE]>>}
       \cup (IF plane.fb = 0 THEN {<<TRUE, [captured EXCEPT !.visible = FALSE, !.fb = 0]>>}
             ELSE IF ~Dirty(captured) THEN {<<TRUE, captured>>}
             ELSE {<<TRUE, [captured EXCEPT !.visible = FALSE]>>}
                  \cup (IF captured.serial < MaxSerial THEN {<<TRUE, CursorRead(captured)>>} ELSE {}))

\* refresh: what the frame is worth before the cursor is looked at.
Refreshed ==
  IF hdrBlob # 0 THEN "reinit"
  ELSE CASE screen = "missing" -> "timeout"
         [] screen = "denied" -> "error"
         [] screen = "resized" -> "reinit"
         [] OTHER -> "ok"

\* capture: a frame that failed ends the loop, a timeout pushes nothing new.
CaptureEnds ==
  /\ status = "ok" /\ Refreshed \in {"reinit", "error"}
  /\ status' = Refreshed /\ frame' = None
  /\ UNCHANGED <<plane, screen, hdrBlob, hasPlane, captured, imgs>>
CaptureTimeout ==
  /\ status = "ok" /\ Refreshed = "timeout" /\ frame' = None
  /\ UNCHANGED <<plane, screen, hdrBlob, hasPlane, captured, imgs, status>>

\* snapshot of display_vram_t: the image's copy is renewed when its serial is
\* not the captured one.
SnapshotVram(i) ==
  /\ status = "ok" /\ Refreshed = "ok"
  /\ \E u \in UpdateCursor :
       LET c == u[2]
           img == IF c.visible /\ imgs[i].serial # c.serial
                  THEN [serial |-> c.serial, buffer |-> c.pixels] ELSE imgs[i]
       IN  /\ hasPlane' = u[1] /\ captured' = c
           /\ imgs' = [imgs EXCEPT ![i] = img]
           /\ frame' = [cursor |-> IF c.visible THEN img.buffer ELSE None, drawn |-> {}]
  /\ UNCHANGED <<plane, screen, hdrBlob, status>>

\* blend_cursor, one axis: cells len of the cursor from src on go to dst on. The
\* subtraction is unsigned.
BlendSpan(pos) ==
  LET dst == Max({0, pos})
      delta == dst - Max({-CursorSize, pos})
  IN  [dst |-> dst, src |-> delta,
       len |-> (Min({CursorSize, Max({0, Screen - dst})}) - delta) % 65536]

\* snapshot of display_ram_t: the cursor is drawn into the picture.
SnapshotRam(pos) ==
  /\ status = "ok" /\ Refreshed = "ok"
  /\ \E u \in UpdateCursor :
       LET c == u[2]
           b == BlendSpan(pos)
       IN  /\ hasPlane' = u[1] /\ captured' = c
           /\ frame' = [cursor |-> IF c.visible THEN c.pixels ELSE None,
                        drawn |-> IF c.visible THEN {<<pos, b.dst + k, b.src + k>> : k \in 0..(b.len - 1)} ELSE {}]
  /\ UNCHANGED <<plane, screen, hdrBlob, imgs, status>>

\* The pull or push callback ends the capture.
CaptureStops ==
  /\ status = "ok" /\ status' = "interrupted" /\ frame' = None
  /\ UNCHANGED <<plane, screen, hdrBlob, hasPlane, captured, imgs>>

CaptureNext ==
  \/ Flip \/ CaptureEnds \/ CaptureTimeout \/ CaptureStops
  \/ \E i \in Image : SnapshotVram(i)
  \/ \E pos \in Position : SnapshotRam(pos)

CaptureSpec == CaptureInit /\ [][CaptureNext]_kmsCaptureVars

-----------------------------------------------------------------------------
\* A frame that carries a cursor carries the one on the screen at that moment,
\* whichever pooled image it uses and however often the cursor's buffer or
\* source rectangle changed, was hidden or could not be read since.
FrameCursorIsCurrent == frame # None /\ frame.cursor # None => frame.cursor = plane /\ plane.fb # 0

\* Drawing a cursor that lies partly or wholly off the screen touches exactly
\* the visible cells, each with its own cell of the cursor image.
DrawsVisiblePart ==
  frame # None /\ frame.cursor # None /\ frame.drawn # {} =>
    \E pos \in Position :
      frame.drawn = {<<pos, pos + k, k>> : k \in {k \in 0..(CursorSize - 1) : pos + k \in 0..(Screen - 1)}}

\* The inductive invariant behind both: a visible cursor was read from the buffer
\* and source rectangle it names, and an image's copy is the one of its serial.
CursorInv ==
  /\ plane \in [fb : 0..2, src : 1..2]
  /\ captured \in [visible : BOOLEAN, fb : 0..2, src : 0..2, pixels : [fb : 0..2, src : 1..2] \cup {None},
                   serial : Nat]
  /\ captured.visible => hasPlane /\ captured.pixels = [fb |-> captured.fb, src |-> captured.src]
  /\ imgs \in [Image -> [serial : Int, buffer : [fb : 0..2, src : 1..2] \cup {None}]]
  /\ \A i \in Image : /\ imgs[i].serial <= captured.serial
                      /\ imgs[i].serial = captured.serial => imgs[i].buffer = captured.pixels
  /\ FrameCursorIsCurrent /\ DrawsVisiblePart
=============================================================================
