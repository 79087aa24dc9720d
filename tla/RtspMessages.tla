---------------------------- MODULE RtspMessages ----------------------------
(***************************************************************************)
(* RTSP messages of one launch session (socket_t and the cmd_ handlers of  *)
(* rtsp.cpp): every message has a TCP connection of its own, whose bytes   *)
(* arrive in pieces. What DESCRIBE offers, the client takes up in ANNOUNCE *)
(* on a later connection; between the two the encoders may be probed       *)
(* again. Which session a connection gets is LaunchEvent's, what a started *)
(* one does is StreamSession's.                                            *)
(***************************************************************************)
EXTENDS Integers, FiniteSets

CONSTANTS
  Buffer,    \* size of msg_buf
  Ending,    \* length of the empty line that ends a header
  Sealed,    \* length of encrypted_rtsp_header_t
  MaxHead,   \* longest header a client sends, its ending included
  MaxBody,   \* longest body
  MaxTalk,   \* bound on connections
  None

VARIABLES
  cipher,   \* the session has an rtsp_cipher
  policy,   \* encryption_mode_for_address: "never", "opportunistic", "mandatory"
  conn,     \* the connection: state, msg (head, body, sealed), begin, split
  talks,    \* connections so far
  hevc,     \* active_hevc_mode # 1
  offer,    \* what the last DESCRIBE said, or None
  counter,  \* rtsp_iv_counter
  ivs,      \* IVs responses were sealed with
  repeated, \* an IV was used twice
  answer,   \* status of the last response, and whether it followed the offer
  stream    \* flags and codec of the session started by ANNOUNCE, or None

rtspVars == <<cipher, policy, conn, talks, hevc, offer, counter, ivs, repeated, answer, stream>>

Closed == [state |-> "closed", msg |-> None, begin |-> 0, split |-> FALSE]
Flags == {"control", "video", "audio"}

Init ==
  /\ cipher = FALSE /\ policy = None /\ conn = Closed /\ talks = 0
  /\ hevc = TRUE /\ offer = None /\ counter = 0 /\ ivs = {} /\ repeated = FALSE
  /\ answer = None /\ stream = None

\* A launch, and the address it comes from.
NewLaunch(c, p) ==
  /\ policy = None /\ cipher' = c /\ policy' = p
  /\ UNCHANGED <<conn, talks, hevc, offer, counter, ivs, repeated, answer, stream>>

Connect(m) ==
  /\ policy # None /\ conn.state = "closed" /\ talks < MaxTalk
  /\ talks' = talks + 1 /\ conn' = [Closed EXCEPT !.state = "header", !.msg = m]
  /\ UNCHANGED <<cipher, policy, hevc, offer, counter, ivs, repeated, answer, stream>>

Length(m) == IF m.sealed THEN Sealed + m.body ELSE m.head + m.body

\* respond: a sealed answer takes the next IV.
Seal(status) ==
  IF ~cipher THEN UNCHANGED <<counter, ivs, repeated>>
  ELSE /\ counter' = counter + 1
       /\ ivs' = ivs \cup {counter'} /\ repeated' = (repeated \/ counter' \in ivs)

Respond(status, followed) ==
  Seal(status) /\ answer' = [status |-> status, followed |-> followed] /\ conn' = Closed

Refuse == Respond(400, FALSE)

\* Mutant of Enough: one byte more than announced is waited for.
EnoughMore(m, end) == end - m.head > m.body

\* handle_plaintext_payload compares what came after the header with Content-length.
Enough(m, end) == end - m.head >= m.body

\* handle_read_plaintext and handle_plaintext_payload. The ending of the header
\* is searched for in the bytes of this read only: begin - 4 is never the larger.
\* A buffer that is full without a message ends the connection.
ReadPlain(n) ==
  LET m == conn.msg
      end == conn.begin + n
      found == conn.state = "body" \/ (~m.sealed /\ conn.begin <= m.head - Ending /\ end >= m.head)
      split == ~m.sealed /\ conn.state = "header" /\ conn.begin > m.head - Ending
  IN  /\ ~cipher /\ conn.state \in {"header", "body"} /\ end <= Length(m) /\ end <= Buffer
      /\ IF found /\ Enough(m, end)
         THEN conn' = [conn EXCEPT !.state = "handled", !.begin = end] /\ UNCHANGED <<counter, ivs, repeated, answer>>
         ELSE IF end = Buffer THEN Refuse
         ELSE /\ conn' = [conn EXCEPT !.state = IF found THEN "body" ELSE "header", !.begin = end,
                                      !.split = conn.split \/ split]
              /\ UNCHANGED <<counter, ivs, repeated, answer>>
      /\ UNCHANGED <<cipher, policy, talks, hevc, offer, stream>>

\* handle_read_encrypted_header: the whole header is read at once.
ReadSealedHeader ==
  /\ cipher /\ conn.state = "header" /\ Length(conn.msg) >= Sealed
  /\ IF ~conn.msg.sealed \/ Length(conn.msg) >= Buffer THEN Refuse
     ELSE conn' = [conn EXCEPT !.state = "body", !.begin = Sealed] /\ UNCHANGED <<counter, ivs, repeated, answer>>
  /\ UNCHANGED <<cipher, policy, talks, hevc, offer, stream>>

\* handle_read_encrypted_message: its tag is verified or not.
ReadSealedMessage(valid) ==
  /\ cipher /\ conn.state = "body"
  /\ IF ~valid THEN Refuse
     ELSE conn' = [conn EXCEPT !.state = "handled", !.begin = Length(conn.msg)]
          /\ UNCHANGED <<counter, ivs, repeated, answer>>
  /\ UNCHANGED <<cipher, policy, talks, hevc, offer, stream>>

\* The client hangs up, or a read fails.
HangUp ==
  /\ conn.state \in {"header", "body"} /\ conn' = Closed
  /\ UNCHANGED <<cipher, policy, talks, hevc, offer, counter, ivs, repeated, answer, stream>>

\* cmd_option, cmd_play, cmd_setup with a known stream, and cmd_not_found
Plain(status) ==
  /\ conn.state = "handled" /\ Respond(status, FALSE)
  /\ UNCHANGED <<cipher, policy, talks, hevc, offer, stream>>

\* What cmd_describe says of encryption.
Supported == {"control", "audio"} \cup (IF policy # "never" THEN {"video"} ELSE {})
Requested == {"control"} \cup (IF policy = "mandatory" THEN {"video", "audio"} ELSE {})

Describe ==
  /\ conn.state = "handled"
  /\ offer' = [supported |-> Supported, requested |-> Requested, hevc |-> hevc]
  /\ Respond(200, FALSE)
  /\ UNCHANGED <<cipher, policy, talks, hevc, stream>>

\* The client enables flags of those supported, the requested ones among them,
\* and a codec that is offered; nothing was probed since.
Follows(flags, codec) ==
  /\ offer # None /\ flags \subseteq offer.supported /\ offer.requested \cap offer.supported \subseteq flags
  /\ codec = "hevc" => offer.hevc
  /\ hevc = offer.hevc

\* cmd_announce: arguments may be missing; a codec that is off and a client that
\* does not encrypt where it must are refused; the session may fail to start.
Announce(flags, codec, complete, starts) ==
  /\ conn.state = "handled" /\ stream = None
  /\ LET followed == Follows(flags, codec) /\ complete /\ starts
         status == CASE ~complete -> 400
                     [] complete /\ codec = "hevc" /\ ~hevc -> 400
                     [] complete /\ (codec = "hevc" => hevc) /\ policy = "mandatory" /\ ~({"video", "audio"} \subseteq flags) -> 403
                     [] OTHER -> IF starts THEN 200 ELSE 500
     IN  /\ Respond(status, followed)
         /\ stream' = IF status = 200 THEN [flags |-> flags, codec |-> codec] ELSE None
  /\ UNCHANGED <<cipher, policy, talks, hevc, offer>>

\* Another launch probes the encoders.
Reprobe ==
  /\ hevc' = ~hevc /\ UNCHANGED <<cipher, policy, conn, talks, offer, counter, ivs, repeated, answer, stream>>

Message == {m \in [head : Ending..MaxHead, body : 0..MaxBody, sealed : BOOLEAN] : m.sealed => m.head = Ending}

Next ==
  \/ \E c \in BOOLEAN, p \in {"never", "opportunistic", "mandatory"} : NewLaunch(c, p)
  \/ \E m \in Message : Connect(m)
  \/ \E n \in 1..(MaxHead + MaxBody) : ReadPlain(n)
  \/ ReadSealedHeader \/ (\E valid \in BOOLEAN : ReadSealedMessage(valid)) \/ HangUp
  \/ (\E status \in {200, 404} : Plain(status)) \/ Describe
  \/ \E f \in SUBSET Flags, codec \in {"h264", "hevc"}, complete, starts \in BOOLEAN : Announce(f, codec, complete, starts)
  \/ Reprobe

Spec == Init /\ [][Next]_rtspVars

\* However its bytes are cut, a message that has arrived as a whole and fits the
\* buffer is not waited for any longer, unless the ending of its header came in
\* two reads.
CompleteIsHandled ==
  ~cipher /\ conn.state \in {"header", "body"} /\ ~conn.msg.sealed /\ conn.begin = Length(conn.msg) => conn.split

\* A client that takes up what DESCRIBE offered and requested, with nothing
\* probed in between, is not refused by ANNOUNCE, under any encryption policy.
OfferIsHonoured == answer # None /\ answer.followed => answer.status = 200

\* The inductive invariant behind the two: where a connection stands, and what the
\* last DESCRIBE said of the policy, which does not change.
TalkInv ==
  /\ conn \in [state : {"closed", "header", "body", "handled"}, msg : Message \cup {None},
               begin : Nat, split : BOOLEAN]
  /\ policy = None => conn.state = "closed" /\ offer = None
  /\ conn.state # "closed" => conn.msg \in Message
  /\ offer # None => offer.supported = Supported /\ offer.requested = Requested
  /\ CompleteIsHandled /\ OfferIsHonoured

\* No two answers of a session are sealed with the same IV, errors included.
IvNeverRepeats == ~repeated

\* The counter is ahead of every IV used: the inductive invariant behind
\* IvNeverRepeats.
CounterInv == counter \in Nat /\ ivs \subseteq 1 .. counter /\ repeated = FALSE
=============================================================================
