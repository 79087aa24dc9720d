-------------------------- MODULE MCMedia --------------------------
(***************************************************************************)
(* Small instances of the components that handle pictures, sound and input *)
(* packets. The components share no state, so one run takes them in turn:  *)
(* the initial state chooses the component (part), whose variables are the *)
(* slots v1, v2, ..., and every step is a step of that component. The      *)
(* reachable states are those of each component by itself; a property      *)
(* that several components must have is stated for all of them at once.    *)
(***************************************************************************)
EXTENDS MCStream

CONSTANTS
  PoolSize, TrimTimeout, MaxClock, Monitor,                   \* CaptureImages
  Recorder, MaxCreated,                                       \* PortalCapture
  Dim, PoolImage, MaxRequest, MaxDisplay,                     \* WaylandCapture
  Texture, Picture, CursorShape, DisplayKind, PixelFormat,    \* DxgiCapture
  Interval, MaxNow, Buffers, MaxArrived,
  MaxChange, MaxStart,                                        \* NvPrefs
  Frames, FrameSize, Continuous, MaxSample,                   \* WasapiAudio
  Block, Header, FrameHeader, Size, Percent, MinFec,          \* RtpPackets
  InsertBound, MaxWire, AudioSpan, MaxShards, BatchSize, SegMax

\* None is no number, no setting, no display and no other object.
ASSUME NoneAssumption ==
  None \notin Int \cup Recorder \cup {"none", "off", "on", "empty", "vram", "ram", "wgc", "e1", "e2"} \cup PixelFormat
            \cup [kind : {"surface"}, pic : Nat] \cup [kind : {"img"}, img : Texture]
            \cup [mode : Mode, mem : {"system", "vaapi", "cuda", "vulkan"}, by : {"headless", "kms"},
                 vram : BOOLEAN, step : {"create", "open", "buffer", "mode", "software", "wrap"}]
            \cup [kind : {"blank", "kms", "other"}, mem : {"system", "vaapi", "cuda", "vulkan"},
                 card : BOOLEAN, mode : Mode \cup {None}]

\* A cursor fits the screen, and its size 16 bits.
ASSUME CursorAssumption ==
  ScreenWidth \in Nat /\ CursorSize \in 0..ScreenWidth /\ CursorSize < 65536 /\ Margin \in Nat

\* Pictures are numbered from 1 on, and the desktop has a format.
ASSUME PictureAssumption == Picture \subseteq Nat \ {0} /\ PixelFormat # {}

ASSUME BufferAssumption == Frames \in Nat \ {0} /\ FrameSize \in Nat \ {0} /\ Continuous \in BOOLEAN
ASSUME BoundAssumption == Interval \in Nat /\ MaxRequest \in Nat /\ PoolSize \in Nat

\* hevc_mode and av1_mode: automatic, none, main, main 10
ASSUME ModeAssumption == HevcModes \cup Av1Modes \subseteq 0..3 /\ 0 \in HevcModes \cap Av1Modes

\* A packet holds more than its header; config::stream.fec_percentage is 1 to 255,
\* and a client asks for at most 2 parity packets a block, as Moonlight does: with
\* 3 the percentage of a block of one packet would not fit its 8 bits.
ASSUME PacketAssumption ==
  /\ Header \in Nat /\ Block \in Nat /\ Block >= Header + 1 /\ Block >= 3 /\ FrameHeader \in Nat \ {0}
  /\ Size \subseteq Nat /\ Percent \subseteq 1..255 /\ MinFec \subseteq 0..2

\* The numbers of audio packets wrap between two blocks of four.
ASSUME AudioAssumption == AudioSpan \in Nat \ {0} /\ AudioSpan % 4 = 0
ASSUME SendAssumption == MaxShards \in Nat /\ BatchSize \in Nat \ {0} /\ SegMax \in Nat \ {0}

\* Frames around the limits of a shard, of a block and of four blocks.
MCSize == (1..9) \cup (141..143) \cup (421..424) \cup (1690..1694) \cup {1701, 3000}

VARIABLE part   \* the component the slots belong to

pool == <<part, v1, v2, v3, v4, v5, v6, v7, v8, v9, v10, v11, v12, v13, v14, v15>>

Images == INSTANCE CaptureImages WITH
  pool <- v1, usedAt <- v2, clock <- v3, names <- v4, nameP <- v5

Rtp == INSTANCE RtpPackets WITH
  ShardMax <- 255, MaxBlocks <- 4, SeqSpan <- 65536, MaxFrame <- MaxWire, DataShards <- 4,
  frame <- v1, lowseq <- v2, nextIv <- v3, wire <- v4, torn <- v5, frames
  <- v6, audioSeq <- v1, shardSeq <- v2, fecBase <- v3, parity <- v4, audioOn <- v5,
  baseFresh <- v6, shardCount <- v1, nextShard <- v2, batch <- v3, sendPath <- v4,
  segDone <- v5, onWire <- v6, dropped <- v7, faults <- v8

\* Its other half is a part of MCThreads.
Portal == INSTANCE PortalCapture WITH
  Display <- Recorder, portal <- v1, created <- v2, handle <- v3,
  valid <- v4, cacheFd <- v5, fds <- v6, caller <- v7, step <- v8, remote <- v9,
  display <- v10, displayFd <- v11, abandoned <- v12, Dim <- {}, MaxFrame <- 0,
  MaxInit <- 0, prev <- 0, running <- 0, stopped <- 0, dead <- 0, ready <- 0, current
  <- 0, front <- 0, content <- 0, writing <- 0, frames <- 0, pc <- 0, expired <- 0,
  result <- 0, encoding <- 0, first <- 0, leftover <- 0, inits <- 0

Wayland == INSTANCE WaylandCapture WITH
  Image <- PoolImage, display <- v1,
  displays <- v2, requests <- v3, stage <- v4, dmabuf <- v5, bo <- v6, frame <- v7, cur
  <- v8, status <- v9, open <- v10, filled <- v11, image <- v12, pc <- v13, overlap <-
  v14, badClose <- v15

Dxgi == INSTANCE DxgiCapture WITH
  Image <- Texture, Cursor <- CursorShape, Kinds <- DisplayKind, Format <- PixelFormat,
  kind <- v1, screen <- v2, updates <- v3, format <- v4, acquired <- v5, cursor <- v6, drawn <-
  v7, lastFrame <- v8, oldSurface <- v9, imgs <- v10, event <- v11, encoding <- v12, now
  <- v1, pending <- v2, group <- v3, count <- v4, pacePc <- v5, taken <- v6, arrived <-
  v1, ready <- v2, open <- v3, producer <- v4, produced <- v5, consumed <- v6, wgcPc <-
  v7, lastUsed <- v8

Prefs == INSTANCE NvPrefs WITH
  driver <- v1, session <- v2, user <- v3, ours <- v4,
  file <- v5, handle <- v6, undo <- v7, step <- v8, leaving <- v9, power <- v10, raced
  <- v11, gaveUp <- v12, changes <- v13, starts <- v14

Wasapi == INSTANCE WasapiAudio WITH
  Device <- {}, MaxUser <- 0, active <- v1, default <- v2, picked <- v3, host <-
  v4, assigned <- v5, mic <- v6, changed <- v7, note <- v8, step <- v9, users <- v10,
  starts <- v11, faulty <- v12, missed <- v13, device <- v1, made <- v2, buf <- v3, at
  <- v4, late <- v5, dropped <- v6, out <- v7

\* Slots a component does not use hold 0.
Unused14 == v15 = 0
Rest14 == <<v15>>
Unused12 == v13 = 0 /\ v14 = 0 /\ Unused14
Rest12 == <<v13, v14, Rest14>>
Unused10 == v11 = 0 /\ v12 = 0 /\ Unused12
Rest10 == <<v11, v12, Rest12>>
Unused8 == v9 = 0 /\ v10 = 0 /\ Unused10
Rest8 == <<v9, v10, Rest10>>
Unused7 == v8 = 0 /\ Unused8
Rest7 == <<v8, Rest8>>
Unused6 == v7 = 0 /\ Unused7
Rest6 == <<v7, Rest7>>
Unused5 == v6 = 0 /\ Unused6
Rest5 == <<v6, Rest6>>
Unused3 == v4 = 0 /\ v5 = 0 /\ Unused5
Rest3 == <<v4, v5, Rest5>>

Init ==
  \/ part = "images" /\ Images!Init /\ Unused5
  \/ part = "probe" /\ Encoders!ProbeInit /\ Unused8
  \/ part = "encode" /\ Encoders!EncodeInit /\ Unused12
  \/ part = "rfi" /\ Rfi!Init /\ Unused10
  \/ part = "video" /\ Rtp!VideoInit /\ Unused6
  \/ part = "audio" /\ Rtp!AudioInit /\ Unused6
  \/ part = "send" /\ Rtp!SendInit /\ Unused8
  \/ part = "headless" /\ Headless!Init /\ Unused8
  \/ part = "monitors" /\ Kms!MonitorsInit /\ Unused5
  \/ part = "kms" /\ Kms!CaptureInit /\ Unused8
  \/ part = "portal" /\ Portal!SessionInit /\ Unused12
  \/ part = "wayland" /\ Wayland!Init
  \/ part = "dxgi" /\ Dxgi!ImageInit /\ Unused12
  \/ part = "pacing" /\ Dxgi!PaceInit /\ Unused6
  \/ part = "wgc" /\ Dxgi!WgcInit /\ Unused8
  \/ part = "batch" /\ Batching!Init /\ Unused3
  \/ part = "touch" /\ Pads!PointerInit /\ Unused8
  \/ part = "pen" /\ Pads!PointerInit /\ Unused8
  \/ part = "pads" /\ Pads!GamepadInit /\ Unused12
  \/ part = "rumble" /\ Pads!GamepadInit /\ Unused12
  \/ part = "touchpad" /\ Pads!GamepadInit /\ Unused12
  \/ part = "prefs" /\ Prefs!Init /\ Unused14
  \/ part = "samples" /\ Wasapi!BufferInit /\ Unused7

Next ==
  \/ part = "images" /\ Images!Next /\ UNCHANGED <<part, Rest5>>
  \/ part = "probe" /\ Encoders!ProbeNext /\ UNCHANGED <<part, Rest8>>
  \/ part = "encode" /\ Encoders!EncodeNext /\ UNCHANGED <<part, Rest12>>
  \/ part = "rfi" /\ Rfi!Next /\ UNCHANGED <<part, Rest10>>
  \/ part = "video" /\ Rtp!VideoNext /\ UNCHANGED <<part, Rest6>>
  \/ part = "audio" /\ Rtp!AudioNext /\ UNCHANGED <<part, Rest6>>
  \/ part = "send" /\ Rtp!SendNext /\ UNCHANGED <<part, Rest8>>
  \/ part = "headless" /\ Headless!Next /\ UNCHANGED <<part, Rest8>>
  \/ part = "monitors" /\ Kms!MonitorsNext /\ UNCHANGED <<part, Rest5>>
  \/ part = "kms" /\ Kms!CaptureNext /\ UNCHANGED <<part, Rest8>>
  \/ part = "portal" /\ Portal!SessionNext /\ UNCHANGED <<part, Rest12>>
  \/ part = "wayland" /\ Wayland!Next /\ UNCHANGED part
  \/ part = "dxgi" /\ Dxgi!ImageNext /\ UNCHANGED <<part, Rest12>>
  \/ part = "pacing" /\ Dxgi!PaceNext /\ UNCHANGED <<part, Rest6>>
  \/ part = "wgc" /\ Dxgi!WgcNext /\ UNCHANGED <<part, Rest8>>
  \/ part = "batch" /\ Batching!Next /\ UNCHANGED <<part, Rest3>>
  \/ part = "touch" /\ Pads!TouchNext /\ UNCHANGED <<part, Rest8>>
  \/ part = "pen" /\ Pads!PenNext /\ UNCHANGED <<part, Rest8>>
  \/ part = "pads" /\ (Pads!PadNext \/ Pads!ReportNext) /\ UNCHANGED <<part, Rest12>>
  \/ part = "rumble" /\ (Pads!PadNext \/ Pads!FeedbackNext) /\ UNCHANGED <<part, Rest12>>
  \/ part = "touchpad" /\ (Pads!PadNext \/ Pads!TouchpadNext) /\ UNCHANGED <<part, Rest12>>
  \/ part = "prefs" /\ Prefs!Next /\ UNCHANGED <<part, Rest14>>
  \/ part = "samples" /\ Wasapi!BufferNext /\ UNCHANGED <<part, Rest7>>

Spec == Init /\ [][Next]_pool

-----------------------------------------------------------------------------
\* Images and displays are not taken from under their users (video.cpp: the
\* capture thread's pool, refresh_displays; display_vram.cpp: snapshot): a pull
\* never hands out a shared image, the pool keeps as many images as were in use
\* within the timeout, a refreshed list keeps the display that is captured, and
\* an image pushed shows the newest picture and cursor.
ImagesAreKept ==
  [][/\ part = "images" => Images!SharedStays /\ Images!RecentUseIsKept /\ Images!DisplayKept
     /\ part = "dxgi" => Dxgi!PushIsCurrent]_pool

\* A probe fails only when no encoder of the list works (video.cpp,
\* probe_encoders), and a report of lost frames is answered by the next frame
\* (nvenc_base.cpp, invalidate_ref_frames).
FailuresAreAnswered ==
  [][/\ part = "probe" => Encoders!FindsAnEncoder
     /\ part = "rfi" => Rfi!ReportIsAnswered]_pool

\* Nothing is promised to a client, and no encoder opened, that probing has not
\* confirmed (video.cpp: probe_encoders, make_avcodec_encode_session; nvhttp.cpp:
\* serverinfo).
OffersAreSupported ==
  /\ part = "probe" => Encoders!AutomaticIsSupported /\ Encoders!MainIsSupported
  /\ part = "encode" => Encoders!SessionIsSupported

\* Frames reach the client in order and decodable: numbers grow and stamps
\* belong to their frame across sessions, an IDR request is answered whatever
\* fails, and after lost frames the stream resumes without referring to them.
FramesInOrder ==
  /\ part = "encode" => Encoders!PacketsInOrder /\ Encoders!IdrIsAnswered
  /\ part = "rfi" => Rfi!ResumesClean

\* What the client reassembles is what was encoded (stream.cpp,
\* videoBroadcastThread and audioBroadcastThread): headers stand where the
\* client looks for them, the blocks cover the frame, each fits the Reed-Solomon
\* code, both sides compute the same number of parity shards, parity packets
\* belong to their block, no AES-GCM nonce is used twice, and every shard goes out
\* however the batches are sent (linux/misc.cpp, send_batch).
PacketsMatch ==
  /\ part = "video" =>
       /\ Rtp!InsertedRight /\ Rtp!BlocksCoverPayload /\ Rtp!ShardsFit
       /\ Rtp!ClientCountsParity /\ Rtp!IvNeverReused
  /\ part = "audio" => Rtp!ParityMatches
  /\ part = "send" => Rtp!ShardsGoOut

\* Every kernel, compositor and driver object has one owner, who releases it:
\* DMA-BUF descriptors (wayland.cpp), PipeWire descriptors and portal sessions
\* (portalgrab.cpp), DRM objects of the virtual display (headless.cpp), NVENC
\* objects (nvenc_base.cpp), frames of the capture pool (display_wgc.cpp), and the
\* ViGEm connection (windows/input.cpp).
HandlesAreOwned ==
  /\ part = "wayland" => Wayland!DescriptorsOwned
  /\ part = "portal" => Portal!OwnDescriptor /\ Portal!ClosedWhenUnused
  /\ part = "headless" => Headless!NoDrmLeak
  /\ part = "rfi" => Rfi!NoHalfEncoder
  /\ part = "wgc" => Dxgi!FramesAreHeld
  /\ part \in {"pads", "rumble"} => Pads!ConnectedWhileUsed

\* The picture handed on is the one captured: the cursor drawn is the current
\* one and stays on the screen (kmsgrab.cpp), the buffer was filled
\* (wayland.cpp), the encoder reads what was pushed (display_vram.cpp) and no
\* two frames are taken in a burst (display_base.cpp, capture) or in the wrong
\* order (display_wgc.cpp).
FrameIsCurrent ==
  /\ part = "kms" => Kms!FrameCursorIsCurrent /\ Kms!DrawsVisiblePart
  /\ part = "wayland" => Wayland!DeliveredIsFilled
  /\ part = "dxgi" => Dxgi!EncoderReadsPushed
  /\ part = "pacing" => Dxgi!NoBurst
  /\ part = "wgc" => Dxgi!NewestIsUsed

\* The display opened is the one that was listed: a name means one plane, whose
\* connector is its own (kmsgrab.cpp), and where the virtual display was offered
\* opening it is not refused (headless.cpp, misc.cpp).
DisplayIsTheListed ==
  /\ part = "monitors" => Kms!NameMeansPlane /\ Kms!OutputIsOwn
  /\ part = "headless" => Headless!NeverRefused

\* The host sees the input the client sent: packets in order and merged only
\* when they repeat (input.cpp, batch), contacts, touchpad fingers and rumble
\* as the other side has them (windows/input.cpp), one repeat task per pad.
InputMatches ==
  /\ part = "batch" => Batching!StreamInOrder /\ Batching!OnlyRepeatsMerge
  /\ part \in {"touch", "pen"} => Pads!ContactsMatch
  /\ part = "pads" => Pads!OneRepeat
  /\ part = "rumble" => Pads!RumbleDelivered
  /\ part = "touchpad" => Pads!TouchpadMatches

\* The user's driver setting can be restored after a crash at any point and is
\* (nvprefs), and captured samples are dropped only when the reader is late
\* (windows/audio.cpp).
NothingIsLost ==
  /\ part = "prefs" => Prefs!UndoIsOnDisk /\ Prefs!UserValueKept
  /\ part = "samples" => Wasapi!DropOnlyWhenLate /\ Wasapi!NoSampleLost
=============================================================================
