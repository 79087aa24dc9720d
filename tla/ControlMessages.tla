-------------------------- MODULE ControlMessages --------------------------
(***************************************************************************)
(* Messages on the control stream of one session (stream.cpp): feedback,   *)
(* HDR mode and termination are sealed and sent by the control thread once *)
(* the peer is known; what the client sends is opened and dispatched. ENet *)
(* delivers in order. A client seals all messages (new or old style), or   *)
(* only its input, each with an IV taken from the message before.          *)
(***************************************************************************)
EXTENDS Integers, Sequences

CONSTANTS
  SeqSpan,  \* sequence numbers (2^32)
  LowSpan,  \* sequence numbers that differ in their low byte (256)
  MaxOut,   \* bound on messages to the client
  MaxIn,    \* bound on messages from the client
  None

VARIABLES
  style,    \* "v2", "old" (control protocol 13) or "plain"
  peer,     \* control.peer is known
  seq,      \* control.seq
  sent,     \* messages sealed so far
  lastUse,  \* per IV: the message it was last used for, 0 if none
  minGap,   \* the smallest distance of two messages with one IV, or None
  hdrQueue, \* hdr_queue: the mode raised and not yet sent, or None
  hdrMode,  \* the mode of the newest encoder
  told,     \* the mode the client was last told
  hostIv,   \* legacy_input_enc_iv: the message it is from, 0 for the launch's IV
  clientIv, \* the client's
  inbox,    \* messages of the client under way
  clientSent,
  damaged,  \* a message was damaged or malformed
  stopped   \* session::stop

controlVars == <<style, peer, seq, sent, lastUse, minGap, hdrQueue, hdrMode, told, hostIv, clientIv,
                 inbox, clientSent, damaged, stopped>>
outVars == <<seq, sent, lastUse, minGap, hdrQueue, hdrMode, told>>
inVars == <<hostIv, clientIv, inbox, clientSent, damaged, stopped>>

Init ==
  /\ style = None /\ peer = FALSE /\ seq = 0 /\ sent = 0 /\ lastUse = [i \in 0..(SeqSpan - 1) |-> 0] /\ minGap = None
  /\ hdrQueue = None /\ hdrMode = FALSE /\ told = FALSE
  /\ hostIv = 0 /\ clientIv = 0 /\ inbox = <<>> /\ clientSent = 0 /\ damaged = FALSE /\ stopped = FALSE

Announced(s) == style = None /\ style' = s /\ UNCHANGED <<peer, outVars, inVars>>
PeerConnects == style # None /\ ~peer /\ peer' = TRUE /\ UNCHANGED <<style, outVars, inVars>>

\* The IV of encode_control: all of seq, or its low byte.
OutgoingIv(n) == IF style = "v2" THEN n ELSE n % LowSpan

Closer(gap) == IF minGap = None \/ gap < minGap THEN gap ELSE minGap

\* encode_control: a plain message takes no sequence number.
EncodeControl ==
  IF style = "plain" THEN UNCHANGED <<seq, sent, lastUse, minGap>>
  ELSE LET iv == OutgoingIv(seq)
       IN  /\ sent < MaxOut /\ sent' = sent + 1 /\ seq' = (seq + 1) % SeqSpan
           /\ lastUse' = [lastUse EXCEPT ![iv] = sent']
           /\ minGap' = IF lastUse[iv] = 0 THEN minGap ELSE Closer(sent' - lastUse[iv])

\* send_feedback_msg, and the termination message
SendFeedback == peer /\ EncodeControl /\ UNCHANGED <<style, peer, hdrQueue, hdrMode, told, inVars>>

\* The encoder of a (re)created display raises its mode; the newest one counts.
HdrRaised(m) ==
  /\ style # None /\ hdrMode' = m /\ hdrQueue' = [mode |-> m]
  /\ UNCHANGED <<style, peer, seq, sent, lastUse, minGap, told, inVars>>

\* while (session->control.peer && hdr_queue->peek())
MayTell == peer /\ hdrQueue # None

SendHdrMode ==
  /\ MayTell /\ hdrQueue' = None
  /\ IF peer THEN EncodeControl /\ told' = hdrQueue.mode ELSE UNCHANGED <<seq, sent, lastUse, minGap, told>>
  /\ UNCHANGED <<style, peer, hdrMode, inVars>>

\* The client sends: input, sealed with its chain in plain style, or a sealed
\* message; long ones carry the next IV. A message may be damaged or malformed.
ClientSends(kind, long) ==
  /\ peer /\ clientSent < MaxIn /\ clientSent' = clientSent + 1
  /\ inbox' = Append(inbox, [n |-> clientSent', kind |-> kind, long |-> long, iv |-> clientIv])
  /\ clientIv' = IF style = "plain" /\ kind = "input" /\ long THEN clientSent' ELSE clientIv
  /\ damaged' = (damaged \/ kind \in {"broken", "nested"})
  /\ UNCHANGED <<style, peer, outVars, hostIv, stopped>>

\* Mutant of NextIv: the IV is kept for messages of any length.
NextIvAlways(m) == m.n

\* tagged_cipher_length >= 16 + iv.size()
NextIv(m) == IF m.long THEN m.n ELSE hostIv

\* iterate and call: IDX_INPUT_DATA as it comes in plain style; otherwise
\* IDX_ENCRYPTED opens the message, whose input goes on, and anything unsealed
\* is dropped. A tag that does not verify, or a sealed message in a sealed one,
\* stops the session.
Receive ==
  /\ inbox # <<>> /\ inbox' = Tail(inbox)
  /\ LET m == Head(inbox)
         opened == IF style = "plain" THEN m.kind = "input" /\ m.iv = hostIv ELSE m.kind \in {"input", "other"}
     IN  /\ hostIv' = IF style = "plain" /\ opened THEN NextIv(m) ELSE hostIv
         /\ stopped' = (stopped \/ (IF style = "plain" THEN m.kind \in {"input", "broken"} /\ ~opened
                                    ELSE m.kind \in {"broken", "nested"}))
  /\ UNCHANGED <<style, peer, outVars, clientIv, clientSent, damaged>>

OutNext == SendFeedback \/ SendHdrMode \/ \E m \in BOOLEAN : HdrRaised(m)
InNext == Receive \/ \E k \in {"input", "other", "broken", "nested", "unsealed"}, long \in BOOLEAN : ClientSends(k, long)

Setup == (\E s \in {"v2", "old", "plain"} : Announced(s)) \/ PeerConnects

Next == Setup \/ OutNext \/ InNext

Spec == Init /\ [][Next]_controlVars

\* "The sequence number is 32 bits long which allows for 2^32 control stream
\* messages to be sent to each client before the IV repeats": in the new style;
\* the old one repeats an IV after 256.
Span == IF style = "v2" THEN SeqSpan ELSE LowSpan
IvSpaced == minGap # None => minGap >= Span

\* The mode the client was told is that of the newest encoder once nothing is
\* queued, also when the mode was known long before the peer.
HdrReachesClient == style # None /\ hdrQueue = None => told = hdrMode

\* A client whose messages arrive undamaged is never taken for a forger: the
\* chained IVs of host and client stay in step over short and long messages.
GenuineNotStopped == stopped => damaged

(***************************************************************************)
(* The inductive invariants behind IvSpaced and GenuineNotStopped.         *)
(***************************************************************************)

\* Nothing is exchanged before the peer is known, and the style before that.
SetupInv ==
  /\ style = None => ~peer
  /\ ~peer => sent = 0 /\ minGap = None /\ inbox = <<>> /\ hostIv = clientIv

\* seq counts the messages; an IV was last used for a message it belongs to.
IvInv ==
  /\ sent \in Nat /\ seq = sent % SeqSpan
  /\ lastUse \in [0 .. SeqSpan - 1 -> Nat]
  /\ \A i \in 0 .. SeqSpan - 1 : lastUse[i] # 0 =>
       lastUse[i] <= sent /\ (lastUse[i] - 1) % Span = i
  /\ minGap # None => minGap \in Nat /\ minGap >= Span

\* The IV with which message m leaves its sender.
IvAfter(m) == IF m.kind = "input" /\ m.long THEN m.n ELSE m.iv

\* The messages under way link the host's IV to the client's, each with the IV
\* that the one before it left.
ChainInv ==
  /\ inbox \in Seq([n : Nat, kind : {"input", "other", "broken", "nested", "unsealed"},
                     long : BOOLEAN, iv : Nat])
  /\ hostIv \in Nat /\ clientIv \in Nat /\ clientSent \in Nat
  /\ damaged \in BOOLEAN /\ stopped \in BOOLEAN
  /\ \A i \in DOMAIN inbox : inbox[i].kind \in {"broken", "nested"} => damaged
  /\ style = "plain" =>
       /\ hostIv = IF inbox = <<>> THEN clientIv ELSE inbox[1].iv
       /\ \A i \in DOMAIN inbox :
            IvAfter(inbox[i]) = IF i = Len(inbox) THEN clientIv ELSE inbox[i + 1].iv
  /\ GenuineNotStopped

ControlInv == SetupInv /\ IvInv /\ ChainInv

\* What HdrReachesClient rests on: the queue holds the newest mode, or it was told.
HdrInv == IF hdrQueue = None THEN told = hdrMode ELSE hdrQueue.mode = hdrMode
=============================================================================
