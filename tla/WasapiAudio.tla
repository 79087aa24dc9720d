--------------------------- MODULE WasapiAudio ---------------------------
(***************************************************************************)
(* The default audio device on Windows (platform/windows/audio.cpp). A     *)
(* session makes the Steam Streaming Speakers the default, the microphone  *)
(* that captures them is told when something else becomes the default and  *)
(* has them set again, and at program start a default left behind by a     *)
(* program that died is moved elsewhere: the device is hidden for a        *)
(* moment, so that Windows picks another one. The three roles of a default *)
(* are one here. Windows and the user are external.                        *)
(*                                                                         *)
(* The sample buffer of the Windows microphone (mic_wasapi_t::sample and   *)
(* _fill_buffer in platform/windows/audio.cpp). The device hands out       *)
(* packets; the buffer holds what is left over from the last frame plus    *)
(* what one wake-up drains. Samples are numbered; 0 is silence.            *)
(***************************************************************************)
EXTENDS Naturals, FiniteSets, Integers, Sequences

(***************************************************************************)
(* The default device                                                      *)
(***************************************************************************)
CONSTANTS Device,    \* devices other than the Steam speakers
          MaxUser,   \* bound on actions of the user
          MaxStart,  \* bound on program starts
          None

Steam == "steam"

VARIABLES
  active,    \* devices present and visible
  default,   \* the default device, or None
  picked,    \* reset_default_device: the default while the speakers were hidden
  host,      \* the default when the session began
  assigned,  \* assigned_sink
  mic,       \* "none", "open", or "reinit" between two microphones
  changed,   \* default_render_device_changed_flag of the microphone
  note,      \* a notification of Windows is on its way
  step,      \* "off", "start", "hidden", "shown", "idle" or "session"
  users, starts,
  faulty,    \* a call of the policy interface failed, or a device went away
  missed     \* a change happened while no microphone was registered
sinkVars == <<active, default, picked, host, assigned, mic, changed, note, step, users, starts, faulty, missed>>

SinkInit ==
  /\ active = Device \cup {Steam} /\ default \in Device /\ default = CHOOSE d \in Device : TRUE
  /\ picked = None /\ host = None /\ assigned = None /\ mic = "none" /\ changed = FALSE /\ note = FALSE
  /\ step = "off" /\ users = 0 /\ starts = 0 /\ faulty = FALSE /\ missed = FALSE

Mic == <<mic, changed, note, missed>>
Bounds == <<users, starts>>

\* What Windows makes the default when the old one is not there.
Picks(devices) == IF default \in devices THEN {default} ELSE IF devices = {} THEN {None} ELSE devices
\* A change of the default is notified to whoever is registered.
Notify(d) == note' = (note \/ (d # default /\ mic = "open")) /\ missed' = (missed \/ (d # default /\ mic = "reinit"))

(***************************************************************************)
(* Program start: reset_default_device                                     *)
(***************************************************************************)

Start ==
  /\ step = "off" /\ starts < MaxStart /\ step' = "start" /\ starts' = starts + 1
  /\ UNCHANGED <<active, default, picked, host, assigned, users, faulty>> /\ UNCHANGED Mic

ResetHide ==
  /\ step = "start"
  /\ IF Steam \in active /\ default = Steam
     THEN \/ /\ active' = active \ {Steam} /\ default' \in Picks(active \ {Steam})
             /\ step' = "hidden" /\ UNCHANGED faulty
          \/ step' = "idle" /\ faulty' = TRUE /\ UNCHANGED <<active, default>>
     ELSE step' = "idle" /\ UNCHANGED <<active, default, faulty>>
  /\ UNCHANGED <<picked, host, assigned>> /\ UNCHANGED Mic /\ UNCHANGED Bounds

\* The speakers come back, and Windows may make them the default again.
ResetShow ==
  /\ step = "hidden" /\ picked' = default
  /\ \/ active' = active \cup {Steam} /\ step' = "shown" /\ UNCHANGED faulty
        /\ default' \in (IF default = None THEN {Steam} ELSE {default, Steam})
     \/ step' = "idle" /\ faulty' = TRUE /\ UNCHANGED <<active, default>>
  /\ UNCHANGED <<host, assigned>> /\ UNCHANGED Mic /\ UNCHANGED Bounds

ResetSet ==
  /\ step = "shown" /\ step' = "idle" /\ picked' = None
  /\ \/ picked # None /\ picked \in active /\ default' = picked /\ UNCHANGED faulty
     \/ picked = None /\ UNCHANGED <<default, faulty>>
     \/ picked # None /\ faulty' = TRUE /\ UNCHANGED default
  /\ UNCHANGED <<active, host, assigned>> /\ UNCHANGED Mic /\ UNCHANGED Bounds

(***************************************************************************)
(* A session                                                               *)
(***************************************************************************)

\* set_sink with set_format: a device that is not there, or a role that cannot be
\* set, is a failure, after which the sink is not remembered.
SetSink(d) ==
  \/ d \in active /\ default' = d /\ assigned' = d /\ UNCHANGED faulty /\ Notify(d)
  \/ faulty' = TRUE /\ UNCHANGED <<default, assigned, note, missed>>

\* sink_info and set_sink of audio::capture, then microphone
SessionStart ==
  /\ step = "idle" /\ default # None /\ Steam \in active
  /\ step' = "session" /\ host' = default /\ mic' = "open" /\ changed' = FALSE
  /\ SetSink(Steam)
  /\ UNCHANGED <<active, picked>> /\ UNCHANGED Bounds

\* OnDefaultDeviceChanged
Deliver ==
  /\ note /\ note' = FALSE /\ changed' = (mic = "open") /\ missed' = (missed \/ mic # "open")
  /\ UNCHANGED <<active, default, picked, host, assigned, mic, step, faulty>> /\ UNCHANGED Bounds

\* The head of _fill_buffer: the callback sets the sink again while the
\* microphone is still registered, then the microphone is reopened.
Noticed ==
  /\ mic = "open" /\ changed /\ changed' = FALSE /\ mic' = "reinit"
  /\ IF assigned = Steam THEN SetSink(Steam) ELSE UNCHANGED <<default, assigned, faulty, note, missed>>
  /\ UNCHANGED <<active, picked, host, step>> /\ UNCHANGED Bounds

\* audio::capture opens the next microphone on the default device of that moment.
Reopen ==
  /\ mic = "reinit" /\ step = "session"
  /\ mic' = "open" /\ changed' = FALSE
  /\ UNCHANGED <<active, default, picked, host, assigned, note, missed, step, faulty>> /\ UNCHANGED Bounds

\* stop_audio_control: the device of the beginning is the default again.
SessionEnd ==
  /\ step = "session" /\ step' = "idle" /\ mic' = "none" /\ changed' = FALSE /\ note' = FALSE /\ host' = None
  /\ \/ host \in active /\ default' = host /\ assigned' = host /\ UNCHANGED faulty
     \/ faulty' = TRUE /\ UNCHANGED <<default, assigned>>
  /\ UNCHANGED <<active, picked, missed>> /\ UNCHANGED Bounds

Crash ==
  /\ step # "off" /\ step' = "off" /\ mic' = "none" /\ changed' = FALSE /\ note' = FALSE
  /\ picked' = None /\ host' = None /\ assigned' = None
  /\ faulty' = (faulty \/ step = "hidden")  \* the speakers stay hidden
  /\ UNCHANGED <<active, default, missed>> /\ UNCHANGED Bounds

(***************************************************************************)
(* The user                                                                *)
(***************************************************************************)

UserChooses(d) ==
  /\ users < MaxUser /\ users' = users + 1 /\ d \in active /\ d # default /\ default' = d /\ Notify(d)
  /\ UNCHANGED <<active, picked, host, assigned, mic, changed, step, starts, faulty>>

Unplug(d) ==
  /\ users < MaxUser /\ users' = users + 1 /\ d \in active /\ active' = active \ {d}
  /\ default' \in Picks(active \ {d}) /\ Notify(default') /\ faulty' = TRUE
  /\ UNCHANGED <<picked, host, assigned, mic, changed, step, starts>>

SinkNext ==
  \/ Start \/ ResetHide \/ ResetShow \/ ResetSet \/ SessionStart \/ Deliver \/ Noticed \/ Reopen
  \/ SessionEnd \/ Crash
  \/ \E d \in Device : UserChooses(d) \/ Unplug(d)

SinkSpec == SinkInit /\ [][SinkNext]_sinkVars
\* Windows delivers its notifications and the capture thread keeps running.
FairSinkSpec == SinkSpec /\ WF_sinkVars(Deliver) /\ WF_sinkVars(Noticed \/ Reopen)

(***************************************************************************)
(* Properties                                                              *)
(***************************************************************************)

\* Whatever happened to earlier runs of the program, once it has started no user
\* is left with the Steam speakers, which nobody hears, as the default device.
IdleIsAudible == step = "idle" /\ ~faulty => default # Steam

\* The inductive invariant behind it: what a session or the reset remembers to go
\* back to is a device of the user.
AudibleInv ==
  /\ Device # {} /\ (mic # "none" => step = "session")
  /\ ~faulty =>
       /\ active = (IF step = "hidden" THEN Device ELSE Device \cup {Steam}) /\ default \in active
       /\ (step = "session" => host \in Device) /\ (step = "shown" => picked \in Device)
       /\ step = "idle" => default # Steam

\* When another program takes the default away from a session, the session gets it
\* back, unless the change fell between two microphones.
SinkAssigned == step = "session" /\ assigned = Steam
SinkIsDefault == default = Steam \/ step # "session" \/ faulty \/ missed
SinkIsHeld == SinkAssigned ~> SinkIsDefault

(***************************************************************************)
(* The sample buffer                                                       *)
(***************************************************************************)
CONSTANTS Frames,     \* GetBufferSize of the device
          FrameSize,  \* sample_size, the length of one frame
          Continuous, \* continuous_audio
          MaxSample   \* bound on samples produced

VARIABLES
  device,   \* samples in the device's buffer
  made,     \* samples produced
  buf,      \* sample_buf up to sample_buf_pos
  at,       \* "sample", "wait" or "drain"
  late,     \* samples arrived while the device was being drained
  dropped,  \* the buffer overflowed
  out       \* the last sample handed to the encoder, silence not counted
bufferVars == <<device, made, buf, at, late, dropped, out>>

BufferInit == device = <<>> /\ made = 0 /\ buf = <<>> /\ at = "sample" /\ late = FALSE /\ dropped = FALSE /\ out = 0

\* "needs to fit double"
BufferSize == 2 * (IF Frames > FrameSize THEN Frames ELSE FrameSize)

\* The device records one more sample; it holds at most its own buffer.
Produce ==
  /\ made < MaxSample /\ Len(device) < Frames
  /\ made' = made + 1 /\ device' = Append(device, made + 1) /\ late' = (late \/ at = "drain")
  /\ UNCHANGED <<buf, at, dropped, out>>

\* The positions of recorded samples; the last of them.
Real(s) == {i \in DOMAIN s : s[i] # 0}
Last(s) == IF Real(s) = {} THEN out
           ELSE s[CHOOSE i \in Real(s) : \A j \in Real(s) : j <= i]

\* sample: a frame is handed out and the excess is moved to the front.
Sample ==
  /\ at = "sample"
  /\ IF Len(buf) >= FrameSize
     THEN /\ buf' = SubSeq(buf, FrameSize + 1, Len(buf))
          /\ out' = Last(SubSeq(buf, 1, FrameSize)) /\ UNCHANGED at
     ELSE at' = "wait" /\ UNCHANGED <<buf, out>>
  /\ UNCHANGED <<device, made, late, dropped>>

\* The device signals, or the wait times out: silence fills in for a frame.
Wake ==
  /\ at = "wait"
  /\ \/ device # <<>> /\ at' = "drain" /\ UNCHANGED buf
     \/ /\ device = <<>> /\ at' = "sample"
        /\ buf' = IF Continuous THEN buf \o [i \in 1..FrameSize |-> 0] ELSE buf
  /\ UNCHANGED <<device, made, late, dropped, out>>

\* One packet of the loop: what does not fit is lost.
Packet(n) ==
  /\ at = "drain" /\ n \in 1..Len(device)
  /\ LET room == BufferSize - Len(buf)
         k == IF n < room THEN n ELSE room
     IN buf' = buf \o SubSeq(device, 1, k) /\ dropped' = (dropped \/ k < n)
  /\ device' = SubSeq(device, n + 1, Len(device))
  /\ UNCHANGED <<made, at, late, out>>

Drained ==
  /\ at = "drain" /\ device = <<>> /\ at' = "sample"
  /\ UNCHANGED <<device, made, buf, late, dropped, out>>

BufferNext == Produce \/ Sample \/ Wake \/ Drained \/ \E n \in 1..Frames : Packet(n)
BufferSpec == BufferInit /\ [][BufferNext]_bufferVars

\* The buffer fits the left-over of a frame and everything the device can hold:
\* nothing is dropped unless the device records faster than it is drained.
DropOnlyWhenLate == Len(buf) <= BufferSize /\ (dropped => late)

\* Every recorded sample reaches the encoder once and in order: the samples behind
\* the last one handed out are in the buffer or in the device.
InOrder(s, lo, hi) ==
  /\ \A i \in Real(s) : s[i] \in (lo + 1)..hi
  /\ \A x \in (lo + 1)..hi : \E i \in Real(s) : s[i] = x
  /\ \A i, j \in Real(s) : i < j => s[i] < s[j]
NoSampleLost ==
  ~dropped =>
    LET kept == made - Len(device)
    IN InOrder(buf, out, kept) /\ \A i \in DOMAIN device : device[i] = kept + i

\* What the device and the buffer can hold, and whose turn it is.
BufferInv ==
  /\ device \in Seq(Nat) /\ buf \in Seq(Nat) /\ made \in Nat /\ out \in Nat
  /\ Len(device) <= Frames /\ Len(buf) <= BufferSize
  /\ (dropped => late)
  /\ at = "wait" => Len(buf) < FrameSize
  /\ at = "drain" /\ ~late => Len(buf) + Len(device) <= BufferSize
  /\ ~dropped => out <= made - Len(device)
  /\ NoSampleLost
=============================================================================
