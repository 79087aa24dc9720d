---------------------------- MODULE VideoEncoders ----------------------------
(***************************************************************************)
(* Encoders (video.cpp): how one is chosen and what is advertised of it,   *)
(* and the sessions that are opened with it.                               *)
(***************************************************************************)
EXTENDS Sequences, SequencesExt, FiniteSets, FiniteSetsExt, Integers

CONSTANT None

(***************************************************************************)
(* The choice of an encoder (video.cpp, probe_encoders and                 *)
(* validate_encoder) and what /serverinfo advertises of it (nvhttp.cpp).   *)
(* What the hardware can do is an input: for every encoder whether its     *)
(* displays open, how well H.264 works, and a grade for HEVC and for AV1.  *)
(* The hardware may change between two probes.                             *)
(***************************************************************************)
CONSTANTS
  Encoders,    \* encoders, in the order of the list
  H264Only,    \* those with the H264_ONLY flag
  Yuv444,      \* those with the YUV444_SUPPORT flag
  Hardware,    \* what an encoder may be capable of: a set of records
  HevcModes,   \* values of hevc_mode that are tried
  Av1Modes     \* values of av1_mode that are tried

\* A record of Hardware has the fields
\*   display: "none", "sdr" (the HDR display does not open) or "ok";
\*   h264: "none" (not supported or fails), "auto" (fails with max_ref_frames), "ok";
\*   hevc, av1: "none" (not supported by the GPU), "broken" (supported, but every
\*   validation fails), "auto" (fails with max_ref_frames), "sdr", "hdr", "hdr444".

VARIABLES
  hw,          \* hw[e]: a record of Hardware
  conf,        \* config::video: encoder, hevc_mode, av1_mode
  chosen,      \* chosen_encoder
  caps,        \* caps[codec]: the capability bits of the chosen encoder
  hevcMode,    \* active_hevc_mode
  av1Mode,     \* active_av1_mode
  yuv,         \* last_encoder_probe_supported_yuv444_for_codec
  probed       \* "no", "ok" or "failed": the result of the last probe

probeVars == <<hw, conf, chosen, caps, hevcMode, av1Mode, yuv, probed>>

Enc == ToSet(Encoders)
Codec == {"h264", "hevc", "av1"}
AllFlags == {"PASSED", "REF_FRAMES_RESTRICT", "DYNAMIC_RANGE", "YUV444", "VUI"}
Conf == [encoder : Enc \cup {None}, hevc_mode : HevcModes, av1_mode : Av1Modes]

ProbeInit ==
  /\ hw = [e \in Enc |-> CHOOSE h \in Hardware : TRUE]
  /\ conf = [encoder |-> None, hevc_mode |-> 0, av1_mode |-> 0]
  /\ chosen = None /\ caps = [c \in Codec |-> {}]
  /\ hevcMode = 0 /\ av1Mode = 0 /\ yuv = {} /\ probed = "no"

\* The configuration is read at start.
Configure ==
  /\ probed = "no" /\ conf' \in Conf
  /\ UNCHANGED <<hw, chosen, caps, hevcMode, av1Mode, yuv, probed>>

\* The hardware of an encoder appears, disappears or changes its abilities.
HardwareChanges(e) ==
  /\ \E h \in Hardware : hw' = [hw EXCEPT ![e] = h]
  /\ UNCHANGED <<conf, chosen, caps, hevcMode, av1Mode, yuv, probed>>

----------------------------------------------------------------------------
(* validate_encoder *)

\* validate_config for max_ref_frames and for autoselect: a success has bit 0
\* (VUI_PARAMS), and so has the -1 of a failure.
MaxRefOk(g) == g \in {"sdr", "hdr", "hdr444"}

\* The bits of HEVC or AV1, which all start set. "If H.264 succeeded with max
\* ref frames": autoselect is not tried again. test_hdr_and_yuv444 leaves a
\* codec that did not pass alone.
CodecFlags(g, tested, h264Max, can444) ==
  IF ~tested \/ g = "none" THEN {}
  ELSE LET passed == MaxRefOk(g) \/ (g = "auto" /\ ~h264Max)
       IN IF ~passed THEN AllFlags \ {"PASSED", "REF_FRAMES_RESTRICT"}
          ELSE {"PASSED", "VUI"}
               \cup (IF MaxRefOk(g) THEN {"REF_FRAMES_RESTRICT"} ELSE {})
               \cup (IF g \in {"hdr", "hdr444"} THEN {"DYNAMIC_RANGE"} ELSE {})
               \cup (IF g = "hdr444" /\ can444 THEN {"YUV444"} ELSE {})

Tested(mode, e) == mode >= 2 \/ (mode = 0 /\ e \notin H264Only)

\* Does the encoder pass, and with which bits?
Passes(e) == hw[e].display = "ok" /\ hw[e].h264 # "none"
Validated(e, hevc, av1) ==
  LET h264Max == hw[e].h264 = "ok"
  IN [h264 |-> {"PASSED", "VUI"} \cup (IF h264Max THEN {"REF_FRAMES_RESTRICT"} ELSE {})
                                 \cup (IF e \in Yuv444 THEN {"YUV444"} ELSE {}),
      hevc |-> CodecFlags(hw[e].hevc, Tested(hevc, e), h264Max, e \in Yuv444),
      av1 |-> CodecFlags(hw[e].av1, Tested(av1, e), h264Max, e \in Yuv444)]

----------------------------------------------------------------------------
(* probe_encoders *)

Meets(mode, bits) ==
  /\ mode >= 2 => "PASSED" \in bits
  /\ mode = 3 => "DYNAMIC_RANGE" \in bits

\* adjust_encoder_constraints
Adjusted(mode, bits) ==
  IF (mode = 3 /\ "DYNAMIC_RANGE" \notin bits) \/ (mode = 2 /\ "PASSED" \notin bits)
  THEN 0 ELSE mode

\* What an undecided mode becomes.
Resolved(mode, bits) ==
  IF mode # 0 THEN mode
  ELSE IF "PASSED" \notin bits THEN 1 ELSE IF "DYNAMIC_RANGE" \in bits THEN 3 ELSE 2

FirstOf(S) == Encoders[Min({i \in DOMAIN Encoders : Encoders[i] \in S})]

\* Mutant of Pick: an encoder that failed is not replaced by another.
PickConfigured(hevc, av1) ==
  IF conf.encoder # None
  THEN IF Passes(conf.encoder) THEN [e |-> conf.encoder, adjust |-> TRUE]
       ELSE [e |-> None, adjust |-> FALSE]
  ELSE IF \E e \in Enc : Passes(e) THEN [e |-> FirstOf({e \in Enc : Passes(e)}), adjust |-> TRUE]
  ELSE [e |-> None, adjust |-> FALSE]

\* The configured encoder if it passes; else the first that meets the codec
\* requirements; else the first that passes. Only the second way leaves the
\* modes as they are.
Pick(hevc, av1) ==
  LET passing == {e \in Enc : Passes(e)}
      fit == {e \in passing : LET v == Validated(e, hevc, av1)
                              IN Meets(hevc, v.hevc) /\ Meets(av1, v.av1)}
  IN IF conf.encoder \in passing THEN [e |-> conf.encoder, adjust |-> TRUE]
     ELSE IF fit # {} /\ (hevc >= 2 \/ av1 >= 2) THEN [e |-> FirstOf(fit), adjust |-> FALSE]
     ELSE IF passing # {} THEN [e |-> FirstOf(passing), adjust |-> TRUE]
     ELSE [e |-> None, adjust |-> FALSE]

\* needs: platf::needs_encoder_reenumeration() or the ALWAYS_REPROBE flag.
Probe(needs) ==
  IF chosen # None /\ ~needs THEN probed' = "ok" /\ UNCHANGED <<hw, conf, chosen, caps, hevcMode, av1Mode, yuv>>
  ELSE
    LET p == Pick(conf.hevc_mode, conf.av1_mode)
        v == Validated(p.e, conf.hevc_mode, conf.av1_mode)
        mode(m, bits) == IF p.adjust THEN Adjusted(m, bits) ELSE m
    IN /\ chosen' = p.e
       /\ IF p.e = None
          THEN /\ probed' = "failed" /\ UNCHANGED <<caps, yuv>>
               /\ hevcMode' = conf.hevc_mode /\ av1Mode' = conf.av1_mode
          ELSE /\ probed' = "ok"
               /\ caps' = v
               /\ yuv' = {c \in Codec : {"PASSED", "YUV444"} \subseteq v[c]}
               /\ hevcMode' = Resolved(mode(conf.hevc_mode, v.hevc), v.hevc)
               /\ av1Mode' = Resolved(mode(conf.av1_mode, v.av1), v.av1)
       /\ UNCHANGED <<hw, conf>>

\* ServerCodecModeSupport of /serverinfo
CodecModeFlags ==
  {"H264"} \cup (IF "h264" \in yuv THEN {"H264_HIGH8_444"} ELSE {})
  \cup (IF hevcMode >= 2 THEN {"HEVC"} \cup (IF "hevc" \in yuv THEN {"HEVC_REXT8_444"} ELSE {}) ELSE {})
  \cup (IF hevcMode >= 3 THEN {"HEVC_MAIN10"} \cup (IF "hevc" \in yuv THEN {"HEVC_REXT10_444"} ELSE {}) ELSE {})
  \cup (IF av1Mode >= 2 THEN {"AV1_MAIN8"} \cup (IF "av1" \in yuv THEN {"AV1_HIGH8_444"} ELSE {}) ELSE {})
  \cup (IF av1Mode >= 3 THEN {"AV1_MAIN10"} \cup (IF "av1" \in yuv THEN {"AV1_HIGH10_444"} ELSE {}) ELSE {})

ProbeNext ==
  \/ Configure \/ (\E e \in Enc : HardwareChanges(e))
  \/ \E needs \in BOOLEAN : Probe(needs)

ProbeSpec == ProbeInit /\ [][ProbeNext]_probeVars

----------------------------------------------------------------------------
\* A probe that runs finds an encoder whenever one of them works, whatever is
\* configured: preferences never leave the host without an encoder.
FindsAnEncoder ==
  hw' = hw /\ probed' = "failed" => \A e \in Enc : ~Passes(e)

\* What /serverinfo advertises under automatic modes the chosen encoder has
\* passed: never a codec or a colour depth its own validation did not confirm.
AutomaticIsSupported ==
  probed = "ok" /\ conf.hevc_mode = 0 /\ conf.av1_mode = 0 =>
    /\ "HEVC" \in CodecModeFlags => "PASSED" \in caps.hevc
    /\ "HEVC_MAIN10" \in CodecModeFlags => {"PASSED", "DYNAMIC_RANGE"} \subseteq caps.hevc
    /\ "AV1_MAIN8" \in CodecModeFlags => "PASSED" \in caps.av1
    /\ "AV1_MAIN10" \in CodecModeFlags => {"PASSED", "DYNAMIC_RANGE"} \subseteq caps.av1

\* The same for the second level, which the code does reach: mode 2 is given up.
MainIsSupported ==
  probed = "ok" =>
    /\ hevcMode = 2 => "PASSED" \in caps.hevc
    /\ av1Mode = 2 => "PASSED" \in caps.av1

\* What both rest on: an encoder, once chosen, was chosen under the modes that
\* are configured, and a mode it serves was asked for or passed.
Served(wanted, mode, bits) ==
  /\ mode = 2 => "PASSED" \in bits
  /\ wanted = 0 => (mode >= 2 => "PASSED" \in bits) /\ (mode >= 3 => {"PASSED", "DYNAMIC_RANGE"} \subseteq bits)
ProbeInv ==
  /\ conf.hevc_mode \in HevcModes /\ conf.av1_mode \in Av1Modes
  /\ probed = "no" => chosen = None
  /\ probed = "ok" => chosen # None
  /\ chosen # None => Served(conf.hevc_mode, hevcMode, caps.hevc) /\ Served(conf.av1_mode, av1Mode, caps.av1)

(***************************************************************************)
(* Encoders of one stream (video.cpp): make_encode_device and              *)
(* make_encode_session build one for the client's configuration on the     *)
(* display that is there, encode_run feeds it until the display has to be  *)
(* opened again, and its packets go to the broadcast. The codec is         *)
(* external: it may hold frames back, fail, or refuse its options. Codecs  *)
(* that give no IDR frames on demand (FIXED_GOP_SIZE) are left out.        *)
(***************************************************************************)
CONSTANTS
  Config,    \* client configurations: format, range (dynamicRange), chroma, csc
  Caps,      \* what probing found: sets of "PASSED", "DYNAMIC_RANGE", "YUV444", "VUI"
  Delay,     \* most frames the codec holds back
  MaxFrame,  \* bound on frames
  MaxOpen    \* bound on sessions

VARIABLES
  config, bits,  \* chosen once
  hdr,           \* disp.is_hdr(), which the user may change
  device,        \* format: depth and chroma, and space; or None
  session,       \* swFmt, space, options ("plain" or "fallback"), inject; or None
  opened,
  frameNr,       \* frame_nr, kept from session to session
  wantIdr,       \* idr_events
  inside,        \* frames the codec holds: n, key, stamp
  packets,       \* the last two packets raised: n, sent (the frame's stamp), stamp, key, replaced
  owed,          \* the client asked for an IDR frame that was not encoded yet
  answered       \* FALSE once a frame was encoded that should have been an IDR frame

encodeVars == <<config, bits, hdr, device, session, opened, frameNr, wantIdr, inside, packets, owed, answered>>

EncodeInit ==
  /\ config = None /\ bits = {} /\ hdr = FALSE /\ device = None /\ session = None /\ opened = 0
  /\ frameNr = 1 /\ wantIdr = FALSE /\ inside = <<>> /\ packets = <<>>
  /\ owed = FALSE /\ answered = TRUE

\* A client announced c; h264 has no dynamic range.
Start(c, s) ==
  /\ config = None /\ config' = c /\ bits' = IF c.format = "h264" THEN s \ {"DYNAMIC_RANGE"} ELSE s
  /\ UNCHANGED <<hdr, device, session, opened, frameNr, wantIdr, inside, packets, owed, answered>>

\* Mutant of ColorSpace: the space of an HDR display is used whatever the client asks.
ColorSpaceDisplay(c, h) ==
  [depth |-> IF c.range = 0 THEN 8 ELSE 10, space |-> IF h THEN "bt2020" ELSE c.csc]

\* colorspace_from_client_config. Rec. 2020 without HDR needs ten bits.
ColorSpace(c, h) ==
  LET depth == IF c.range = 0 THEN 8 ELSE 10
  IN  [depth |-> depth,
       space |-> IF c.range > 0 /\ h THEN "bt2020"
                 ELSE IF c.csc = "bt2020sdr" /\ depth # 10 THEN "rec709" ELSE c.csc]

\* make_encode_device
MakeDevice(works) ==
  /\ config # None /\ device = None /\ session = None /\ opened < MaxOpen /\ opened' = opened + 1
  /\ device' = IF works THEN [chroma |-> config.chroma, color |-> ColorSpace(config, hdr)] ELSE None
  /\ UNCHANGED <<config, bits, hdr, session, frameNr, wantIdr, inside, packets, owed, answered>>

Supported ==
  /\ "PASSED" \in bits
  /\ config.range > 0 => "DYNAMIC_RANGE" \in bits
  /\ config.chroma = 1 => "YUV444" \in bits

\* 0 ==> don't inject; for h264 and hevc without VUI parameters
Inject == config.format \in {"h264", "hevc"} /\ "VUI" \notin bits

\* The codec's context, tried with the plain options and once more with the
\* fallback options.
Opened(plain, fallback) == IF plain THEN "plain" ELSE IF fallback THEN "fallback" ELSE None

SessionOf(options) ==
  [chroma |-> config.chroma, color |-> device.color, options |-> options,
   inject |-> Inject, replacements |-> FALSE, first |-> TRUE]

\* make_encode_session: avcodec_open2 succeeds or not (plain, fallback), and so
\* does all else (rest): hardware frames, the software device, set_frame.
MakeSession(plain, fallback, rest) ==
  /\ device # None /\ device' = None
  /\ session' = IF Supported /\ Opened(plain, fallback) # None /\ rest
                THEN SessionOf(Opened(plain, fallback)) ELSE None
  /\ UNCHANGED <<config, bits, hdr, opened, frameNr, wantIdr, inside, packets, owed, answered>>

HdrChanges == hdr' = ~hdr /\ UNCHANGED <<config, bits, device, session, opened, frameNr, wantIdr, inside, packets, owed, answered>>
RequestIdr ==
  /\ ~wantIdr /\ wantIdr' = TRUE /\ owed' = TRUE
  /\ UNCHANGED <<config, bits, hdr, device, session, opened, frameNr, inside, packets, answered>>

\* av_packet->pts == frame_nr
Stamped(f, n, stamp) == IF f.n = n THEN stamp ELSE None

\* Mutant of KeyFrame: the flag is forgotten when an image came.
KeyFrameIdle(image) == (wantIdr /\ ~image) \/ session.first

\* request_idr_frame before the frame, request_normal_frame after it; the first
\* frame of a codec is one anyway.
KeyFrame(image) == wantIdr \/ session.first

LastTwo(q) == IF Len(q) > 2 THEN SubSeq(q, Len(q) - 1, Len(q)) ELSE q

\* encode_run's loop body and encode_avcodec: an image, or the last one again,
\* is sent; the codec holds back at most Delay frames and gives out the others
\* in order. The first packet of a session that injects fills the replacements.
Encode(image, out) ==
  /\ session # None /\ frameNr <= MaxFrame
  /\ LET f == [n |-> frameNr, key |-> KeyFrame(image), stamp |-> IF image THEN frameNr ELSE None]
         held == Append(inside, f)
     IN  /\ out <= Len(held) /\ Len(held) - out <= Delay
         /\ inside' = SubSeq(held, out + 1, Len(held))
         /\ session' = LET fill == out > 0 /\ session.inject
                       IN  [session EXCEPT !.inject = @ /\ ~fill, !.replacements = @ \/ fill, !.first = FALSE]
         /\ packets' = LastTwo(packets \o
              [i \in 1..out |-> [n |-> held[i].n, key |-> held[i].key, sent |-> held[i].stamp,
                                 stamp |-> Stamped(held[i], frameNr, f.stamp), replaced |-> session'.replacements]])
         /\ answered' = (answered /\ (owed => f.key)) /\ owed' = (owed /\ ~f.key)
  /\ frameNr' = frameNr + 1 /\ wantIdr' = FALSE
  /\ UNCHANGED <<config, bits, hdr, device, opened>>

\* encode_run ends: the session goes with the frames it holds; the number of the
\* next frame stays.
LeaveRun == session' = None /\ inside' = <<>> /\ UNCHANGED frameNr

EncodeEnds ==
  /\ session # None /\ LeaveRun
  /\ UNCHANGED <<config, bits, hdr, device, opened, wantIdr, packets, owed, answered>>

\* An image cannot be converted, or a frame not encoded, after the request for
\* an IDR frame was popped.
EncodeFails ==
  /\ session # None /\ wantIdr' = FALSE /\ session' = None /\ inside' = <<>>
  /\ frameNr' \in {frameNr, frameNr + 1}
  /\ UNCHANGED <<config, bits, hdr, device, opened, packets, owed, answered>>

EncodeNext ==
  \/ \E c \in Config, s \in Caps : Start(c, s)
  \/ \E works \in BOOLEAN : MakeDevice(works)
  \/ \E plain, fallback, rest \in BOOLEAN : MakeSession(plain, fallback, rest)
  \/ HdrChanges \/ RequestIdr
  \/ \E image \in BOOLEAN, out \in 0..(Delay + 1) : Encode(image, out)
  \/ EncodeEnds \/ EncodeFails

EncodeSpec == EncodeInit /\ [][EncodeNext]_encodeVars

\* A session has the depth and chroma that probing found to work, and high
\* dynamic range only for a client that asked for it.
SessionIsSupported ==
  session # None =>
    /\ session.color.depth = 10 => "DYNAMIC_RANGE" \in bits
    /\ session.chroma = 1 => "YUV444" \in bits
    /\ session.color.space \in {"bt2020", "bt2020sdr"} => session.color.depth = 10

\* What that rests on: a device is made for the client's configuration, and
\* a session was made from one when the configuration was supported.
Color == [depth : {8, 10}, space : {"bt2020", "rec709", "bt2020sdr"}]
DeviceInv ==
  /\ config = None => device = None /\ session = None
  /\ config # None => config \in Config
  /\ device # None =>
       /\ device.color \in Color
       /\ device.color.depth = 10 => config.range > 0
       /\ device.color.space \in {"bt2020", "bt2020sdr"} => device.color.depth = 10
  /\ session # None =>
       /\ session \in [chroma : {0, 1}, color : Color, options : {"plain", "fallback"}, inject : BOOLEAN,
                       replacements : BOOLEAN, first : BOOLEAN]
       /\ SessionIsSupported

\* Packets carry growing frame numbers over all sessions of the stream, so that
\* the client can name lost frames; and a stamp is never that of another frame.
PacketsInOrder ==
  /\ \A i, j \in DOMAIN packets : i < j => packets[i].n < packets[j].n
  /\ \A i \in DOMAIN packets : packets[i].stamp \in {None, packets[i].sent}

\* The first frame encoded after the client asked for an IDR frame is one, also
\* when the session that took the request failed on it; and where the parameter
\* sets lack VUI every packet has replacements.
IdrIsAnswered ==
  /\ answered
  /\ config # None /\ config.format # "av1" /\ "VUI" \notin bits => \A i \in DOMAIN packets : packets[i].replaced

\* What both rest on, besides the type of the session: the frames inside the codec
\* come after those that were given out and before the next one; a request that is
\* not answered is still to be seen, or the next frame is the first of a session;
\* and where replacements are needed the session has them or will with its first packet.
Held == [n : Nat, key : BOOLEAN, stamp : Nat \cup {None}]
Raised == [n : Nat, key : BOOLEAN, sent : Nat \cup {None}, stamp : Nat \cup {None}, replaced : BOOLEAN]
NeedsReplacements == config # None /\ config.format # "av1" /\ "VUI" \notin bits
OrderInv ==
  /\ DeviceInv /\ frameNr \in Nat /\ inside \in Seq(Held) /\ packets \in Seq(Raised)
  /\ config = None => packets = <<>>
  /\ \A i \in DOMAIN inside : inside[i].n < frameNr
  /\ \A i, j \in DOMAIN inside : i < j => inside[i].n < inside[j].n
  /\ \A i \in DOMAIN packets : packets[i].n < frameNr
  /\ \A i \in DOMAIN packets, j \in DOMAIN inside : packets[i].n < inside[j].n
  /\ owed /\ session # None => wantIdr \/ session.first
  /\ NeedsReplacements /\ session # None => session.inject \/ session.replacements
  /\ PacketsInOrder /\ IdrIsAnswered
=============================================================================
