------------------------------ MODULE MCStream ------------------------------
(***************************************************************************)
(* Instances of the components a stream's pictures and input pass through: *)
(* encoders, the displays of KMS and the virtual display, the batching of  *)
(* input and the devices of Windows. Their variables are the slots v1, v2, *)
(* ...; MCMedia says which component the slots belong to.                  *)
(***************************************************************************)
EXTENDS Integers, Sequences, FiniteSets

CONSTANTS
  Capture, Mode, MaxOpen,                                     \* HeadlessDisplay
  HevcModes, Av1Modes, Config, Caps, Delay, MaxCoded,         \* VideoEncoders
  Machines, NvencForced,                                      \* KmsGrab
  KmsImage, MaxSerial, ScreenWidth, CursorSize, Margin,
  Slot, Finger, Rumble, MaxAlloc, Slots, Pointer,             \* WinInput
  MaxSent, Half,                                              \* InputBatch
  Dpb, MaxFrame, Word,                                        \* RefInvalidation
  None

\* Gamepads have a number, None is no number and no kind of gamepad, and no
\* finger is taken for the pen.
ASSUME InputAssumption ==
  /\ None \notin {0, 1} /\ None \notin Slot /\ None \notin {"x360", "ds4"}
  /\ Slots \in Nat \ {0} /\ "pen" \notin Pointer /\ Half \in Nat \ {0}

\* What a client may ask of an encoder, and the frames a codec holds back.
ASSUME ConfigAssumption ==
  /\ Config \subseteq [format : {"h264", "hevc", "av1"}, range : {0, 1}, chroma : {0, 1}, csc : {"rec709", "bt2020sdr"}]
  /\ Delay \in Nat /\ None \notin Nat

\* Graphics cards have a sequence of planes and one of connectors.
ASSUME MachineAssumption ==
  Machines \subseteq Seq(
    [ok : BOOLEAN, nvidia : BOOLEAN, connectors : Seq([type : STRING, crtc : Nat]),
     planes : Seq([crtc : Nat, used : BOOLEAN, cursor : BOOLEAN, fb : {"ok", "none", "nohandle"}])])

\* None is no capture source.
ASSUME SourceAssumption == None \notin {"nvfbc", "wlr", "kms", "x11", "portal", "headless"}

\* The size of the buffer of reference frames.
ASSUME DpbAssumption == Dpb \in Nat

\* What an encoder is capable of: a display that refuses HDR, or an encoder
\* without H.264, comes with one kind of HEVC support only.
MCHardware ==
  {h \in [display : {"sdr", "ok"}, h264 : {"none", "auto", "ok"},
          hevc : {"none", "broken", "auto", "sdr", "hdr444"}, av1 : {"broken"}] :
     h.display = "sdr" \/ h.h264 = "none" => h.hevc = "sdr" /\ h.h264 # "auto"}

\* Client configurations and capabilities that disagree in every respect.
MCConfig ==
  {[format |-> "hevc", range |-> r, chroma |-> c, csc |-> s] : r, c \in {0, 1}, s \in {"rec709", "bt2020sdr"}}
    \cap {c \in [format : {"hevc"}, range : {0, 1}, chroma : {0, 1}, csc : {"rec709", "bt2020sdr"}] :
            c.chroma = 1 => c.range = 1 /\ c.csc = "rec709"}
MCCaps == {{"PASSED"}, {"PASSED", "DYNAMIC_RANGE", "VUI"}, {"PASSED", "DYNAMIC_RANGE", "YUV444"}}

\* Cards with two screens and a cursor, planes with and without a buffer, and
\* connectors of which one may be unplugged; or two such cards.
Plane(c, cursor, f) == [crtc |-> c, used |-> TRUE, cursor |-> cursor, fb |-> f]
Card(n, f, g, cs) ==
  [ok |-> TRUE, nvidia |-> n, connectors |-> cs,
   planes |-> <<Plane(1, FALSE, f), Plane(1, TRUE, "ok"), [Plane(2, FALSE, g) EXCEPT !.used = (g # "none")]>>]
Ports ==
  {<<[type |-> "hdmi", crtc |-> 1], [type |-> "hdmi", crtc |-> 2]>>,
   <<[type |-> "hdmi", crtc |-> 0], [type |-> "hdmi", crtc |-> 1], [type |-> "dp", crtc |-> 2]>>}
Cards == {Card(n, f, g, cs) : n \in BOOLEAN, f \in {"ok", "none"}, g \in {"ok", "none", "nohandle"}, cs \in Ports}
Fine == {x \in Cards : x.planes[1].fb = "ok" /\ x.planes[3].fb = "ok"}
MCCards == {<<x>> : x \in Cards} \cup {<<x, y>> : x \in Fine, y \in Fine}

-----------------------------------------------------------------------------
VARIABLES v1, v2, v3, v4, v5, v6, v7, v8, v9, v10, v11, v12, v13, v14, v15

Encoders == INSTANCE VideoEncoders WITH
  Encoders <- <<"e1", "e2">>, H264Only <- {"e2"}, Yuv444 <- {"e1"}, Hardware <- MCHardware,
  MaxFrame <- MaxCoded, hw <- v1, conf <- v2, chosen <- v3, caps <- v4, hevcMode <- v5,
  av1Mode <- v6, yuv <- v7, probed <- v8, config <- v1, bits <- v2, hdr <- v3, device <- v4,
  session <- v5, opened <- v6, frameNr <- v7, wantIdr <- v8, inside <- v9, packets <- v10,
  owed <- v11, answered <- v12

Rfi == INSTANCE RefInvalidation WITH
  frames <- v1, report <- v2, idrEvent <- v3,
  force <- v4, handles <- v5, rfi <- v6, state <- v7, base <- v8, invalid <- v9, told <-
  v10

Headless == INSTANCE HeadlessDisplay WITH
  host <- v1, sources <- v2, opening <- v3, object <- v4, kernel <- v5, shown <- v6, refused <- v7,
  opened <- v8

Kms == INSTANCE KmsGrab WITH
  Hardware <- Machines, Image <- KmsImage, Screen <- ScreenWidth,
  hw <- v1, kmsNames <- v2, listed <- v3, descriptors <- v4, kmsOpen <- v5,
  plane <- v1, screen <- v2, hdrBlob <- v3, hasPlane <- v4, captured <- v5, imgs <- v6,
  frame <- v7, status <- v8

Batching == INSTANCE InputBatch WITH
  inq <- v1, sent <- v2, delivered <- v3

Pads == INSTANCE WinInput WITH
  pads <- v1, connected <- v2, failures <- v3, repeat <- v4, taken <- v5, notices <- v6,
  last <- v7, asked <- v8, told <- v9, touch <- v10, held <- v11, allocs <- v12,
  touchInfo <- v1, active <- v2, touchRepeat <- v3, penFlags <- v4, penRepeat <- v5,
  contact <- v6, client <- v7, failed <- v8
=============================================================================
