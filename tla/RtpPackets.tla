---------------------------- MODULE RtpPackets ----------------------------
(***************************************************************************)
(* From an encoded frame to packets (stream.cpp): headers are inserted, the *)
(* payload is split into FEC blocks, parity shards are added, and every     *)
(* shard gets its sequence number and, with encryption, its IV.             *)
(* Sizes are in bytes; the bytes themselves are left out, except in         *)
(* ConcatAndInsert, where byte i of the input is the number i.              *)
(*                                                                         *)
(* audioBroadcastThread (stream.cpp): audio packets of a session get 16    *)
(* bit numbers, go out as they come and are kept as the data shards of a   *)
(* block; after the fourth the parity packets of the block follow. An      *)
(* exception while sending skips the rest of a packet's work; a failed     *)
(* encryption ends the thread.                                             *)
(*                                                                         *)
(* The sending of a block's shards in batches (stream.cpp) over a socket   *)
(* of Linux (linux/misc.cpp, send_batch and send): segmentation offload,   *)
(* then sendmmsg, then one by one.                                         *)
(***************************************************************************)
EXTENDS Integers, Sequences, SequencesExt, FiniteSetsExt

(***************************************************************************)
(* Video                                                                   *)
(***************************************************************************)
CONSTANTS
  Block,       \* blocksize: a packet with its headers
  Header,      \* sizeof(video_packet_raw_t)
  FrameHeader, \* sizeof(video_short_frame_header_t)
  ShardMax,    \* DATA_SHARDS_MAX, 255
  MaxBlocks,   \* MAX_FEC_BLOCKS, 4
  Size,        \* sizes of encoded frames
  Percent,     \* config::stream.fec_percentage
  MinFec,      \* minRequiredFecPackets of the client
  SeqSpan,     \* 2^16 in the code
  InsertBound, \* frames up to this size are checked byte by byte
  MaxFrame     \* bound on frames

VARIABLES
  frame,       \* the frame last sent: size, percent, minimum
  lowseq,      \* session->video.lowseq
  nextIv,      \* gcm_iv_counter
  wire,        \* per frame: first RTP number, first IV, number of shards
  torn,        \* ghost: a frame failed half way since the last whole one
  frames

packetVars == <<frame, lowseq, nextIv, wire, torn, frames>>

VideoInit ==
  /\ frame = [size |-> 1, percent |-> 0, min |-> 0] /\ lowseq = 0 /\ nextIv = 0
  /\ wire = <<>> /\ torn = FALSE /\ frames = 0

----------------------------------------------------------------------------
(* The arithmetic of a frame. *)

CeilDiv(a, b) == (a + b - 1) \div b

\* concat_and_insert: slice x of the loop. At a slice that runs past the end of the
\* first buffer the second one takes over.
CopySlice(acc, x, insert, slice, len1, len2) ==
  LET total == len1 + len2
      n == IF x = CeilDiv(total, slice) - 1 THEN total - x * slice ELSE slice
      at == x * (insert + slice) + insert
      left == acc.end - acc.next
  IN IF acc.next + n > acc.end
     THEN [next |-> n - left, end |-> len2, base |-> len1,
           out |-> acc.out \cup {<<at + i, acc.base + acc.next + i>> : i \in 0 .. left - 1}
                           \cup {<<at + left + i, len1 + i>> : i \in 0 .. n - left - 1}]
     ELSE [next |-> acc.next + n, end |-> acc.end, base |-> acc.base,
           out |-> acc.out \cup {<<at + i, acc.base + acc.next + i>> : i \in 0 .. n - 1}]

\* The loop, and what it leaves in the result: <<place, byte>>.
Copied(insert, slice, len1, len2) ==
  LET copied[x \in 0 .. CeilDiv(len1 + len2, slice)] ==
        IF x = 0 THEN [next |-> 0, end |-> len1, base |-> 0, out |-> {}]
        ELSE CopySlice(copied[x - 1], x - 1, insert, slice, len1, len2)
  IN copied
ConcatAndInsert(insert, slice, len1, len2) ==
  Copied(insert, slice, len1, len2)[CeilDiv(len1 + len2, slice)].out

\* The payload after concat_and_insert: a header for every slice.
PayloadSize(f) ==
  LET data == FrameHeader + f.size
  IN CeilDiv(data, Block - Header) * Header + data

\* The FEC blocks of a frame; one that needs more than four gets no parity.
Blocks(f) ==
  LET p == PayloadSize(f)
      perBlock == ((ShardMax * 100) \div (100 + f.percent)) * Block
      needed == CeilDiv(p, perBlock)
      n == IF needed > MaxBlocks THEN MaxBlocks ELSE needed
      aligned == CeilDiv(p \div n, Block) * Block
  IN [percent |-> IF needed > MaxBlocks THEN 0 ELSE f.percent,
      sizes |-> [x \in 1 .. n |-> IF x = n THEN p - (n - 1) * aligned ELSE aligned]]

\* Mutant of FecEncode: the percentage stays the configured one.
FecEncodeSamePercent(size, percent, min) ==
  LET data == CeilDiv(size, Block)
      par == CeilDiv(data * percent, 100)
  IN [data |-> data, parity |-> IF par < min /\ percent # 0 THEN min ELSE par,
      percent |-> percent]

\* fec::encode: data shards, parity shards, and the percentage raised when the
\* client's minimum is not met.
FecEncode(size, percent, min) ==
  LET data == CeilDiv(size, Block)
      par == CeilDiv(data * percent, 100)
      raise == par < min /\ percent # 0
  IN [data |-> data, parity |-> IF raise THEN min ELSE par,
      percent |-> IF raise THEN (100 * min) \div data ELSE percent]

Shards(f) ==
  [x \in DOMAIN Blocks(f).sizes |->
     FecEncode(Blocks(f).sizes[x], Blocks(f).percent, f.min)]

\* What the first elements of a sequence add up to, and so the packets of the
\* first blocks.
RunningSum(s) == LET sum[i \in 0 .. Len(s)] == IF i = 0 THEN 0 ELSE sum[i - 1] + s[i] IN sum
Count(shards, blocks) ==
  RunningSum([x \in 1 .. Len(shards) |-> shards[x].data + shards[x].parity])[blocks]

----------------------------------------------------------------------------
(* The threads. *)

\* videoBroadcastThread for one frame; an exception in the last block leaves the
\* frame half sent and lowseq as it was, while the IV counter has moved on.
SendFrame(f, fails) ==
  LET shards == Shards(f)
      total == Count(shards, Len(shards) - (IF fails THEN 1 ELSE 0))
  IN /\ frames < MaxFrame /\ frames' = frames + 1 /\ frame' = f
     /\ wire' = Append(wire, [seq |-> lowseq % SeqSpan, iv |-> nextIv, n |-> total])
     /\ nextIv' = nextIv + total
     /\ lowseq' = IF fails THEN lowseq ELSE lowseq + total
     /\ torn' = (torn \/ fails)

VideoNext ==
  \E s \in Size, p \in Percent, m \in MinFec, b \in BOOLEAN :
    SendFrame([size |-> s, percent |-> p, min |-> m], b)

VideoSpec == VideoInit /\ [][VideoNext]_packetVars

----------------------------------------------------------------------------
\* Insertion loses, duplicates and moves no byte, wherever the end of the first
\* buffer falls (stream.cpp concat_and_insert).
InsertedRight ==
  LET slice == Block - Header
  IN frame.size <= InsertBound =>
     ConcatAndInsert(Header, slice, FrameHeader, frame.size) =
       {<<(i \div slice) * Block + Header + (i % slice), i>> : i \in 0 .. FrameHeader + frame.size - 1}

\* The FEC blocks are the payload, none is empty and all but the last are whole
\* packets (stream.cpp videoBroadcastThread): substr stays inside the payload.
BlocksCoverPayload ==
  LET sizes == Blocks(frame).sizes
  IN /\ RunningSum(sizes)[Len(sizes)] = PayloadSize(frame)
     /\ \A x \in DOMAIN sizes : sizes[x] > 0 /\ (x < Len(sizes) => sizes[x] % Block = 0)

\* Reed-Solomon is never asked for more shards than it can do, and what goes into
\* fecInfo fits its 10 bits of shard count and 8 bits of percentage.
ShardsFit ==
  \A x \in DOMAIN Shards(frame) :
    LET s == Shards(frame)[x]
    IN /\ s.parity > 0 => s.data + s.parity <= ShardMax
       /\ s.percent < 256

\* The client, which only learns the data shards and the percentage, computes the
\* number of parity shards that were sent, also where the minimum raised them.
ClientCountsParity ==
  \A x \in DOMAIN Shards(frame) :
    LET s == Shards(frame)[x] IN CeilDiv(s.data * s.percent, 100) = s.parity

\* No IV is used twice, also after a frame failed half way (stream.cpp,
\* gcm_iv_counter); RTP numbers run without a gap unless a frame failed.
IvNeverReused ==
  \A i, j \in DOMAIN wire : i < j =>
    /\ wire[i].iv + wire[i].n <= wire[j].iv
    /\ (~torn /\ j = i + 1) => wire[j].seq = (wire[i].seq + wire[i].n) % SeqSpan

\* What a frame is, and that the next one follows the last in both numbers.
WireInv ==
  /\ frame \in [size : Nat, percent : 0..255, min : 0..2]
  /\ lowseq \in Nat /\ nextIv \in Nat /\ torn \in BOOLEAN
  /\ wire \in Seq([seq : Nat, iv : Nat, n : Nat])
  /\ \A i \in DOMAIN wire : wire[i].iv + wire[i].n <= nextIv
  /\ wire # <<>> /\ ~torn =>
       lowseq % SeqSpan = (wire[Len(wire)].seq + wire[Len(wire)].n) % SeqSpan
  /\ IvNeverReused

(***************************************************************************)
(* Audio                                                                   *)
(***************************************************************************)
CONSTANTS
  AudioSpan,   \* 2^16 in the code, a multiple of RTPA_DATA_SHARDS
  DataShards   \* RTPA_DATA_SHARDS, 4

VARIABLES
  audioSeq,    \* session->audio.sequenceNumber
  shardSeq,    \* which packet each data shard holds
  fecBase,     \* fecHeader.baseSequenceNumber
  parity,      \* the parity packets last sent: base, first number, shards
  audioOn,     \* the thread runs
  baseFresh    \* ghost: the send of the block's first packet did not throw

audioVars == <<audioSeq, shardSeq, fecBase, parity, audioOn, baseFresh>>

NoParity == [base |-> 0, first |-> 0, covers |-> {}, fresh |-> FALSE]

AudioInit ==
  /\ audioSeq = 0 /\ shardSeq = [i \in 0 .. DataShards - 1 |-> i] /\ fecBase = 0
  /\ parity = NoParity /\ audioOn = TRUE /\ baseFresh = TRUE

Filled == [shardSeq EXCEPT ![audioSeq % DataShards] = audioSeq]
First == audioSeq % DataShards = 0

\* One packet: it takes its shard, the first of a block sets the base, the last is
\* followed by the parity packets.
SendAudio ==
  LET s == audioSeq
      base == IF First THEN s ELSE fecBase
  IN /\ audioOn
     /\ shardSeq' = Filled /\ fecBase' = base /\ audioSeq' = (s + 1) % AudioSpan
     /\ baseFresh' = (baseFresh \/ First)
     /\ parity' = IF (s + 1) % DataShards = 0
                  THEN [base |-> base, first |-> (s + 1) % AudioSpan,
                        covers |-> {Filled[k] : k \in DOMAIN Filled},
                        fresh |-> baseFresh']
                  ELSE parity
     /\ UNCHANGED audioOn

\* The send throws after the number was advanced: neither base nor parity.
SendThrows ==
  /\ audioOn
  /\ shardSeq' = Filled /\ audioSeq' = (audioSeq + 1) % AudioSpan
  /\ baseFresh' = (baseFresh /\ ~First)
  /\ UNCHANGED <<fecBase, parity, audioOn>>

EncryptFails ==
  /\ audioOn /\ audioOn' = FALSE
  /\ UNCHANGED <<audioSeq, shardSeq, fecBase, parity, baseFresh>>

AudioNext == SendAudio \/ SendThrows \/ EncryptFails
AudioSpec == AudioInit /\ [][AudioNext]_audioVars

----------------------------------------------------------------------------
\* Parity packets cover four consecutive packets and carry the numbers that follow
\* them, across the wrap of the 16 bit number and after sends that threw; and
\* they name the first of the four unless its own send threw (fresh).
ParityMatches ==
  parity # NoParity =>
    LET first == (parity.first + AudioSpan - DataShards) % AudioSpan
    IN /\ parity.covers = {(first + i) % AudioSpan : i \in 0 .. DataShards - 1}
       /\ first % DataShards = 0
       /\ parity.fresh => parity.base = first

\* The shards of the block that is being filled are its packets so far, and the
\* base is its first one unless that one's own send threw.
AudioInv ==
  /\ audioSeq \in 0 .. AudioSpan - 1 /\ shardSeq \in [0 .. DataShards - 1 -> Nat]
  /\ fecBase \in Nat /\ baseFresh \in BOOLEAN
  /\ LET first == audioSeq - (audioSeq % DataShards)
     IN /\ \A k \in 0 .. DataShards - 1 : first + k < audioSeq => shardSeq[k] = first + k
        /\ first < audioSeq /\ baseFresh => fecBase = first
  /\ ParityMatches

(***************************************************************************)
(* Sending                                                                 *)
(***************************************************************************)
CONSTANTS
  MaxShards,   \* bound on the shards of a block
  BatchSize,   \* send_batch_size
  SegMax       \* seg_max: what the kernel segments at once

VARIABLES
  shardCount,  \* shards.size()
  nextShard,   \* next_shard_to_send: shards up to here are dealt with
  batch,       \* current_batch_size
  sendPath,    \* "idle", or where in send_batch, or "each": the unbatched send
  segDone,     \* seg_index, blocks_sent or y
  onWire,      \* ghost: the shards the kernel took, in order
  dropped,     \* ghost: shards whose own send failed
  faults       \* ghost: "poll": poll failed below sendmmsg; "part": a batch failed half way

sendVars == <<shardCount, nextShard, batch, sendPath, segDone, onWire, dropped, faults>>

SendInit ==
  /\ shardCount = 0 /\ nextShard = 0 /\ batch = 0 /\ sendPath = "idle" /\ segDone = 0
  /\ onWire = <<>> /\ dropped = {} /\ faults = {}

StartBlock(n) ==
  /\ sendPath = "idle" /\ nextShard = shardCount
  /\ shardCount' = n /\ nextShard' = 0 /\ onWire' = <<>> /\ dropped' = {} /\ faults' = {}
  /\ UNCHANGED <<batch, sendPath, segDone>>

\* A whole batch, or what is left of the block.
NextBatch ==
  /\ sendPath = "idle" /\ nextShard < shardCount
  /\ batch' = Min({BatchSize, shardCount - nextShard}) /\ segDone' = 0 /\ sendPath' = "gso"
  /\ UNCHANGED <<shardCount, nextShard, onWire, dropped, faults>>

\* The kernel takes the next k shards of the batch.
Take(k) == onWire' = onWire \o [i \in 1..k |-> nextShard + segDone + i]
BatchOver == sendPath' = "idle" /\ nextShard' = nextShard + batch /\ UNCHANGED <<batch, segDone>>
Advance(k) ==
  IF segDone + k = batch THEN BatchOver
  ELSE segDone' = segDone + k /\ UNCHANGED <<sendPath, nextShard, batch>>

\* sendmsg with UDP_SEGMENT takes all of its segments or none. While there is no
\* room it is tried again after a poll.
GsoSend ==
  /\ sendPath = "gso"
  /\ LET k == Min({SegMax, batch - segDone}) IN Take(k) /\ Advance(k)
  /\ UNCHANGED <<shardCount, dropped, faults>>

\* It fails, or poll does. A first call that fails means there is no offload.
GsoFails ==
  /\ sendPath = "gso" /\ segDone' = 0 /\ sendPath' = IF segDone = 0 THEN "mmsg" ELSE "each"
  /\ faults' = IF segDone = 0 THEN faults ELSE faults \cup {"part"}
  /\ UNCHANGED <<shardCount, nextShard, batch, onWire, dropped>>

MmsgSend(k) ==
  /\ sendPath = "mmsg" /\ k <= batch - segDone /\ Take(k) /\ Advance(k)
  /\ UNCHANGED <<shardCount, dropped, faults>>

\* When poll fails here send_batch returns true all the same.
MmsgFails(poll) ==
  /\ sendPath = "mmsg"
  /\ IF poll THEN BatchOver /\ faults' = faults \cup {"poll"}
     ELSE /\ sendPath' = "each" /\ segDone' = 0 /\ UNCHANGED <<nextShard, batch>>
          /\ faults' = IF segDone = 0 THEN faults ELSE faults \cup {"part"}
  /\ UNCHANGED <<shardCount, onWire, dropped>>

\* platf::send for every shard of the batch; its result is not looked at.
SendEach(ok) ==
  /\ sendPath = "each" /\ Advance(1)
  /\ IF ok THEN Take(1) /\ UNCHANGED dropped
     ELSE dropped' = dropped \cup {nextShard + segDone + 1} /\ UNCHANGED onWire
  /\ UNCHANGED <<shardCount, faults>>

SendNext ==
  \/ \E n \in 1..MaxShards : StartBlock(n)
  \/ NextBatch \/ GsoSend \/ GsoFails
  \/ \E k \in 1..BatchSize : MmsgSend(k)
  \/ \E b \in BOOLEAN : MmsgFails(b) \/ SendEach(b)
SendSpec == SendInit /\ [][SendNext]_sendVars

----------------------------------------------------------------------------
\* Whatever mixture of offload, sendmmsg and single sends a block goes through, no
\* shard is forgotten unless its own send or a poll failed (stream.cpp,
\* next_shard_to_send), the client gets them in order unless a batch failed half
\* way and was sent again, and none goes out a third time.
ShardsGoOut ==
  /\ sendPath = "idle" /\ "poll" \notin faults => ToSet(onWire) \cup dropped = 1..nextShard
  /\ "part" \notin faults => \A i, j \in DOMAIN onWire : i < j => onWire[i] < onWire[j]
  /\ \A i, j, k \in DOMAIN onWire : i < j /\ j < k /\ onWire[i] = onWire[j] => onWire[k] # onWire[i]

\* Shards dealt with so far, of whole batches and of the one under way. Up to there
\* every shard went out or was dropped; beyond it one can only have been sent by
\* a batch that failed half way, and once.
Dealt == IF sendPath = "idle" THEN nextShard ELSE nextShard + segDone
SendInv ==
  /\ shardCount \in Nat /\ nextShard \in Nat /\ segDone \in Nat /\ batch \in Nat
  /\ sendPath \in {"idle", "gso", "mmsg", "each"} /\ (sendPath # "idle" => segDone < batch)
  /\ onWire \in Seq(Nat) /\ dropped \subseteq 1 .. (IF sendPath = "each" THEN Dealt ELSE nextShard)
  /\ ToSet(onWire) \subseteq 1 .. (IF sendPath = "idle" THEN nextShard ELSE nextShard + batch)
  /\ sendPath # "each" \/ "part" \notin faults => ToSet(onWire) \subseteq 1..Dealt
  /\ "poll" \notin faults => 1..Dealt \subseteq ToSet(onWire) \cup dropped
  /\ \A i, j \in DOMAIN onWire : i < j =>
       /\ "part" \notin faults => onWire[i] < onWire[j]
       /\ onWire[i] = onWire[j] => onWire[i] <= (IF sendPath = "each" THEN Dealt ELSE nextShard)
       /\ \A k \in DOMAIN onWire : j < k /\ onWire[i] = onWire[j] => onWire[k] # onWire[i]
=============================================================================
