-------------------------- MODULE RefInvalidation --------------------------
(***************************************************************************)
(* Recovery from lost video frames: a client reports a range of frames or  *)
(* asks for an IDR frame (stream.cpp, control messages); the encoding loop *)
(* (video.cpp, encode_run) hands that to the encoder session, which either *)
(* excludes the frames from further reference (nvenc_base.cpp) or forces   *)
(* an IDR frame. What NVENC itself does is external: a frame refers to the *)
(* latest frame of its buffer that was not invalidated, and is intra coded *)
(* when there is none.                                                     *)
(***************************************************************************)
EXTENDS Integers, Sequences, FiniteSets, FiniteSetsExt

CONSTANTS
  Dpb,        \* encoder_params.ref_frames_in_dpb
  MaxFrame,   \* bound on the frames encoded
  Word        \* size of the unsigned type of the range computation

VARIABLES
  frames,     \* frames[n] = [ref, idr, marked]: what was sent; ref 0 for none
  report,     \* the event invalidate_ref_frames_events: a range or <<>>
  idrEvent,   \* the event idr_events
  force,      \* force_idr of the session
  handles,    \* NVENC objects of the session; empty when there is no encoder
  rfi,        \* encoder_params.rfi
  state,      \* encoder_state: last (last_encoded_frame_index), range, confirm
  base,       \* the first frame of this encoder
  invalid,    \* frames nvEncInvalidateRefFrames has excluded
  told        \* what the encoder was told since its last IDR frame: [lo, hi, at]

rfiVars == <<frames, report, idrEvent, force, handles, rfi, state, base, invalid, told>>

NoState == [last |-> 0, range |-> <<0, 0>>, confirm |-> FALSE]
Steps == <<"session", "event", "bitstream", "input">>

Init ==
  /\ frames = <<>> /\ report = <<>> /\ idrEvent = TRUE /\ force = FALSE
  /\ handles = {} /\ rfi = FALSE /\ state = NoState /\ base = 1
  /\ invalid = {} /\ told = {}

\* create_encoder makes its objects one after the other; a step that fails
\* destroys the earlier ones. n steps succeed. rfi depends on the GPU.
CreateEncoder(n, supports) ==
  /\ handles = {} /\ force' = FALSE
  /\ handles' = IF n = Len(Steps) THEN {Steps[i] : i \in 1..n} ELSE {}
  /\ rfi' = (n = Len(Steps) /\ supports)
  /\ state' = NoState /\ base' = Len(frames) + 1 /\ invalid' = {} /\ told' = {}
  /\ UNCHANGED <<frames, report, idrEvent>>

\* destroy_encoder, at the end of encode_run: a new display or a failure
DestroyEncoder ==
  /\ handles # {} /\ handles' = {} /\ rfi' = FALSE /\ state' = NoState
  /\ UNCHANGED <<frames, report, idrEvent, force, base, invalid, told>>

\* IDX_INVALIDATE_REF_FRAMES: the event holds one range, the latest.
Report(first, last) ==
  /\ first \in 1..Len(frames) /\ last \in 1..Len(frames)
  /\ report' = <<first, last>>
  /\ UNCHANGED <<frames, idrEvent, force, handles, rfi, state, base, invalid, told>>

\* IDX_REQUEST_IDR_FRAME
RequestIdr ==
  /\ idrEvent' = TRUE
  /\ UNCHANGED <<frames, report, force, handles, rfi, state, base, invalid, told>>

\* The number of frames from first to last, in unsigned arithmetic.
Span(first, last) == (last - first + 1 + Word) % Word

\* nvenc_base::invalidate_ref_frames: is it done without an IDR frame, the new
\* state and the frames excluded. A range inside the last one is done already.
Invalidate(first, last, works) ==
  IF ~rfi THEN [ok |-> FALSE, s |-> state, out |-> {}]
  ELSE IF first >= state.range[1] /\ last <= state.range[2]
    THEN [ok |-> TRUE, s |-> state, out |-> {}]
  ELSE IF last < first
    THEN [ok |-> FALSE, s |-> [state EXCEPT !.confirm = TRUE], out |-> {}]
  ELSE LET to == state.last
           s2 == [state EXCEPT !.confirm = TRUE, !.range = <<first, to>>]
       IN IF Span(first, to) >= Dpb \/ ~works
          THEN [ok |-> FALSE, s |-> s2, out |-> {}]
          ELSE [ok |-> TRUE, s |-> s2, out |-> first..to]

\* The buffer: the last Dpb frames of this encoder since the last IDR frame.
LastIdr == Max({0} \cup {n \in base..Len(frames) : frames[n].idr})
Usable(out) == {n \in Max({base, LastIdr, Len(frames) - Dpb + 1})..Len(frames) : n > 0} \ out

\* What the encoder learns from a report: the frames from its first one on, all
\* of them up to now unless it knew the range already.
Told == IF report = <<>> THEN {}
        ELSE {[lo |-> report[1], at |-> Len(frames),
               hi |-> IF report[2] <= state.range[2] THEN report[2] ELSE Len(frames)]}

\* One turn of encode_run's loop: reports, the IDR request, one frame.
EncodeFrame(works) ==
  /\ handles # {} /\ Len(frames) < MaxFrame
  /\ LET inv == IF report = <<>> THEN [ok |-> TRUE, s |-> state, out |-> {}]
                ELSE Invalidate(report[1], report[2], works)
         intra == force \/ idrEvent \/ ~inv.ok \/ Usable(invalid \cup inv.out) = {}
         ref == IF intra THEN 0 ELSE Max(Usable(invalid \cup inv.out))
     IN /\ frames' = Append(frames, [ref |-> ref, idr |-> intra, marked |-> inv.s.confirm])
        /\ state' = [inv.s EXCEPT !.confirm = FALSE, !.last = Len(frames) + 1]
        /\ invalid' = IF intra THEN {} ELSE invalid \cup inv.out
        /\ told' = IF intra THEN {} ELSE told \cup Told
  /\ report' = <<>> /\ idrEvent' = FALSE /\ force' = FALSE
  /\ UNCHANGED <<handles, rfi, base>>

Next ==
  \/ DestroyEncoder \/ RequestIdr \/ (\E w \in BOOLEAN : EncodeFrame(w))
  \/ \E n \in 0..Len(Steps), b \in BOOLEAN : CreateEncoder(n, b)
  \/ \E f, l \in 1..MaxFrame : Report(f, l)

Spec == Init /\ [][Next]_rfiVars

----------------------------------------------------------------------------
\* The frames a decoder needs for frame n.
Needed == LET need[n \in 0..Len(frames)] == IF n = 0 THEN {} ELSE {n} \cup need[frames[n].ref]
          IN need

\* A frame that the client is told to resume with (after_ref_frame_invalidation)
\* rests on no frame that was lost or that rests on a lost one: none from the
\* start of a reported range up to the moment the encoder was told, through
\* later reports, repeated reports and changes of the encoder.
ResumesClean ==
  \A n \in base..Len(frames), t \in told :
    frames[n].marked /\ t.at < n => Needed[n] \cap (t.lo)..(t.hi) = {}

\* A report is answered: the frame encoded next is an IDR frame or is marked,
\* unless the encoder had been told of the whole range before.
ReportIsAnswered ==
  handles # {} /\ report # <<>> /\ Len(frames') > Len(frames) =>
    LET f == frames'[Len(frames')]
    IN f.idr \/ f.marked \/ (report[1] >= state.range[1] /\ report[2] <= state.range[2])

\* No NVENC object survives a creation that failed: a second attempt starts
\* from nothing.
NoHalfEncoder == handles = {} \/ Cardinality(handles) = Len(Steps)

\* What was sent is a sequence of frames; a report, the state and the first frame
\* of the encoder are what the code declares.
Sent == [ref : Nat, idr : BOOLEAN, marked : BOOLEAN]
SentInv ==
  /\ frames \in Seq(Sent) /\ base \in Nat
  /\ state \in [last : Nat, range : Nat \X Nat, confirm : BOOLEAN]
  /\ report \in {<<>>} \cup Nat \X Nat

\* The objects of an encoder exist together.
HandlesInv == handles \in {{}, {Steps[i] : i \in 1..Len(Steps)}}

\* What clean resumption rests on: frames refer to earlier ones; a frame that can
\* still be referred to, because no IDR frame came after it and it was not excluded,
\* rests on none that was reported and none of the range that counts as done; and
\* the encoder knows the number of the frame before the next one.
Live(n) == n \in base..Len(frames) /\ (\A m \in n + 1..Len(frames) : ~frames[m].idr) /\ n \notin invalid
ResumeInv ==
  /\ SentInv /\ base \in 1..Len(frames) + 1 /\ told \subseteq [lo : Nat, hi : 0..Len(frames), at : 0..Len(frames)]
  /\ \A n \in DOMAIN frames : frames[n].ref < n
  /\ report # <<>> => report[1] \in 1..Len(frames) /\ report[2] \in 1..Len(frames)
  /\ state.range[2] <= Len(frames) /\ state.last <= Len(frames)
  /\ handles # {} /\ base <= Len(frames) => state.last = Len(frames)
  /\ \A n \in base..Len(frames) : Live(n) =>
       /\ Needed[n] \cap (state.range[1])..(state.range[2]) = {}
       /\ \A t \in told : Needed[n] \cap (t.lo)..(t.hi) = {}
  /\ \A n \in base..Len(frames), t \in told : t.at < n => Needed[n] \cap (t.lo)..(t.hi) = {}
=============================================================================
