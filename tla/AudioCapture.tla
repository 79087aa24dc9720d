---------------------------- MODULE AudioCapture ----------------------------
(***************************************************************************)
(* Audio capture (audio.cpp) on PulseAudio (platform/linux/audio.cpp): the *)
(* sessions share one control object behind a shared_t; the first of them  *)
(* may switch the default sink to a virtual one, and destroying the object *)
(* switches back. Each session opens a microphone, samples until its       *)
(* shutdown event, and re-opens it when asked to.                          *)
(***************************************************************************)
EXTENDS Naturals, FiniteSets

CONSTANTS
  Session,
  MaxAudio     \* bound on captures started

VARIABLES
  apc,         \* session: "out", "ref", "flag", "set", "mic", "run", "reopen", "view"
  hostAudio,   \* HOST_AUDIO flag of the session
  control,     \* "none" (no object), "dead" (no control), "up"
  sinkFlag, restoreSink,   \* of the control object
  hostSink,    \* sink.host: the default sink when the control object was made
  nulls,       \* the three null sinks exist
  defSink,     \* the server's default sink: "speaker" or "null"
  audioStop,   \* the session's shutdown event
  packetsOn,   \* the global audio_packets queue has not been stopped
  setFailed,   \* ghost: switching back failed
  captures

captureVars == <<apc, hostAudio, control, sinkFlag, restoreSink, hostSink, nulls,
                 defSink, audioStop, packetsOn, setFailed, captures>>

Init ==
  /\ apc = [s \in Session |-> "out"] /\ hostAudio = [s \in Session |-> FALSE]
  /\ control = "none" /\ sinkFlag = FALSE /\ restoreSink = FALSE
  /\ hostSink = "speaker" /\ nulls = FALSE /\ defSink = "speaker"
  /\ audioStop = [s \in Session |-> FALSE] /\ packetsOn = TRUE
  /\ setFailed = FALSE /\ captures = 0

Goto(s, pc) == apc' = [apc EXCEPT ![s] = pc]
Holders == {s \in Session : apc[s] # "out"}
ctlVars == <<control, sinkFlag, restoreSink, hostSink, nulls>>
othVars == <<hostAudio, audioStop, packetsOn, setFailed, captures>>

----------------------------------------------------------------------------
(* The control object, server_t of platform/linux/audio.cpp. *)

\* init: the main loop's thread runs once the context is ready or has failed.
Connected(up) == IF up THEN "up" ELSE "dead"

\* sink_info: the default sink, and the null sinks that were found or could be
\* loaded; they are of use when all three are there.
SinkInfo(up, null) ==
  IF up THEN [host |-> defSink, nulls |-> nulls \/ null] ELSE [host |-> hostSink, nulls |-> nulls]

\* set_sink.
DefaultSink(sink, ok) == IF ok THEN sink ELSE defSink

\* The destructor unloads the null sinks.
Unloaded == IF control = "up" THEN FALSE ELSE nulls

----------------------------------------------------------------------------
\* get_audio_ctx_ref. The first reference runs start_audio_control: connect to the
\* server, find or load the null sinks, remember the default sink. A control
\* object without a server is kept all the same.
Ref(s, host, up, null) ==
  /\ apc[s] = "out" /\ captures < MaxAudio /\ captures' = captures + 1
  /\ hostAudio' = [hostAudio EXCEPT ![s] = host]
  /\ audioStop' = [audioStop EXCEPT ![s] = FALSE]
  /\ Goto(s, "ref")
  /\ IF control # "none" THEN UNCHANGED ctlVars
     ELSE /\ control' = Connected(up)
          /\ sinkFlag' = FALSE /\ restoreSink' = FALSE
          /\ hostSink' = SinkInfo(up, null).host /\ nulls' = SinkInfo(up, null).nulls
  /\ UNCHANGED <<defSink, packetsOn, setFailed>>

\* The sink a session wants: the virtual one unless it wants host audio.
Sink(s) == IF nulls /\ ~hostAudio[s] THEN "null" ELSE hostSink

\* "Only the first to start a session may change the default sink".
TakeFlag(s) ==
  /\ apc[s] = "ref" /\ control = "up"
  /\ sinkFlag' = TRUE
  /\ IF sinkFlag THEN Goto(s, "mic") /\ UNCHANGED restoreSink
     ELSE /\ restoreSink' = (hostSink # Sink(s))
          /\ Goto(s, IF restoreSink' THEN "set" ELSE "mic")
  /\ UNCHANGED <<control, hostSink, nulls, defSink, othVars>>

\* Without a control the session runs without audio until it is stopped.
NoControl(s) ==
  /\ apc[s] = "ref" /\ control = "dead" /\ Goto(s, "view")
  /\ UNCHANGED <<ctlVars, defSink, othVars>>

\* control->set_sink.
SetSink(s, ok) ==
  /\ apc[s] = "set"
  /\ defSink' = DefaultSink(Sink(s), ok)
  /\ Goto(s, IF ok THEN "mic" ELSE "view")
  /\ UNCHANGED <<ctlVars, othVars>>

\* control->microphone; failing, the session goes on without audio.
Microphone(s, ok) ==
  /\ apc[s] = "mic" /\ Goto(s, IF ok THEN "run" ELSE "view")
  /\ UNCHANGED <<ctlVars, defSink, othVars>>

\* mic->sample asks to be re-opened, or fails for good.
Sampled(s, status) ==
  /\ apc[s] = "run" /\ ~audioStop[s]
  /\ Goto(s, IF status = "reinit" THEN "reopen" ELSE "view")
  /\ UNCHANGED <<ctlVars, defSink, othVars>>

\* The re-open loop: until there is a microphone or the event is raised; the wait
\* for the event is the pause between two attempts.
Reopen(s, ok) ==
  /\ apc[s] = "reopen" /\ (ok \/ audioStop[s])
  /\ Goto(s, "run")
  /\ UNCHANGED <<ctlVars, defSink, othVars>>

\* encodeThread: an encoder error stops the queue of all sessions.
EncodeFails(s) ==
  /\ apc[s] = "run" /\ packetsOn /\ packetsOn' = FALSE
  /\ UNCHANGED <<apc, ctlVars, defSink, hostAudio, audioStop, setFailed, captures>>

\* The loop ends, the encoder thread is joined and the event has been seen.
LoopEnds(s) ==
  /\ apc[s] = "run" /\ audioStop[s] /\ Goto(s, "view")
  /\ UNCHANGED <<ctlVars, defSink, othVars>>

\* session::stop, also through broadcast_shutdown once audio_packets is stopped.
StopSession(s) ==
  /\ s \in Holders /\ ~audioStop[s] /\ audioStop' = [audioStop EXCEPT ![s] = TRUE]
  /\ UNCHANGED <<apc, ctlVars, defSink, hostAudio, packetsOn, setFailed, captures>>

\* capture returns and drops its reference; the last one runs stop_audio_control,
\* which may fail to switch back, and unloads the null sinks.
Leave(s, ok) ==
  /\ apc[s] = "view" /\ audioStop[s] /\ Goto(s, "out")
  /\ IF Holders # {s} THEN UNCHANGED <<ctlVars, defSink, setFailed>>
     ELSE /\ control' = "none"
          /\ defSink' = DefaultSink(hostSink, control = "up" /\ restoreSink /\ ok)
          /\ setFailed' = (setFailed \/ (control = "up" /\ restoreSink /\ ~ok))
          /\ nulls' = Unloaded
          /\ UNCHANGED <<sinkFlag, restoreSink, hostSink>>
  /\ UNCHANGED <<hostAudio, audioStop, packetsOn, captures>>

\* What the thread does by itself; the microphone may never be there again.
Step(s) ==
  \/ TakeFlag(s) \/ NoControl(s) \/ LoopEnds(s) \/ Reopen(s, FALSE)
  \/ \E ok \in BOOLEAN : SetSink(s, ok) \/ Microphone(s, ok) \/ Leave(s, ok)
Next ==
  \E s \in Session :
    \/ \E h, u, n \in BOOLEAN : Ref(s, h, u, n)
    \/ Step(s) \/ Reopen(s, TRUE)
    \/ \E st \in {"reinit", "error"} : Sampled(s, st)
    \/ EncodeFails(s) \/ StopSession(s)

Spec == Init /\ [][Next]_captureVars
FairSpec == Spec /\ \A s \in Session : WF_captureVars(Step(s))

----------------------------------------------------------------------------
\* When no session streams audio the host's default sink is the user's again
\* (audio.cpp stop_audio_control), whichever session changed it, whatever failed
\* and in which order they ended; only a failed switch back is forgiven.
SinkRestored == (control = "none" /\ ~setFailed) => defSink = "speaker"

\* The inductive invariant behind it: the control object exists while a session
\* refers to it, and remembers to switch back once the sink may have been switched.
SinkInv ==
  /\ apc = [s \in Session |-> apc[s]] /\ (control = "none" <=> Holders = {})
  /\ restoreSink => sinkFlag
  /\ \A s \in Session : apc[s] = "set" => control = "up" /\ restoreSink
  /\ ~setFailed => hostSink = "speaker"
  /\ ~setFailed /\ defSink # "speaker" => control = "up" /\ restoreSink

\* A stopped session's audio thread ends (audio.cpp capture), also while it tries
\* to re-open the microphone and when it never had one.
AudioStopping(s) == audioStop[s] /\ apc[s] # "out"
AudioEnded(s) == apc[s] = "out"
AudioEnds == \A s \in Session : AudioStopping(s) ~> AudioEnded(s)
=============================================================================
