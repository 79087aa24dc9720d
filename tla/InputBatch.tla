----------------------------- MODULE InputBatch -----------------------------
(***************************************************************************)
(* The input queue and its batching (input.cpp): the control thread        *)
(* appends packets, a task of the pool takes the first one and merges into *)
(* it what follows. A packet is its kind, the stream it belongs to (the    *)
(* pointer, controller or sensor), its state (event type, buttons, mask or *)
(* reference size) and its data: a number n that stands for a position or  *)
(* axis state, and delta for what is summed.                               *)
(***************************************************************************)
EXTENDS Integers, Sequences, SequencesExt

CONSTANTS
  MaxSent,   \* bound on the packets sent
  Half       \* 2^15 in the code: a short is in -Half .. Half - 1

Summed == {"rel", "scroll"}                  \* hscroll goes as scroll does
Deltas == {-Half, Half - 1}
Packet ==
  [kind : Summed, key : {0}, state : {"any"}, delta : Deltas]
  \cup [kind : {"abs"}, key : {0}, state : {"size1", "size2"}, delta : {0}]
  \cup [kind : {"pad"}, key : {1, 2}, state : {"mask1", "mask2", "button"}, delta : {0}]
  \cup [kind : {"touch"}, key : {1, 2}, state : {"move", "hover", "down"}, delta : {0}]
  \cup [kind : {"padTouch"}, key : {1, 2}, state : {"move", "down"}, delta : {0}]
  \cup [kind : {"pen"}, key : {0}, state : {"move", "down"}, delta : {0}]
  \cup [kind : {"motion"}, key : {1, 2}, state : {"any"}, delta : {0}]
  \cup [kind : {"key"}, key : {0}, state : {"any"}, delta : {0}]

VARIABLES
  inq,        \* input_queue
  sent,       \* ghost: every packet sent, with its number
  delivered   \* packets passed to the OS, in order

batchVars == <<inq, sent, delivered>>

Init == inq = <<>> /\ sent = <<>> /\ delivered = <<>>

----------------------------------------------------------------------------
Moves == {"move", "hover"}

\* __builtin_add_overflow: the sum of two shorts does not fit a short, and the
\* wrapped sum it stores.
Overflows(a, b) == a + b \notin -Half .. Half - 1
Wrapped(a, b) == ((a + b + Half) % (2 * Half)) - Half

\* A later packet that takes the place of dest, or adds to it.
Taken(dest, src) ==
  IF dest.kind \in Summed THEN [src EXCEPT !.delta = Wrapped(dest.delta, src.delta)] ELSE src

\* batch(): what happens to src when dest is about to be sent. The sums are
\* merged when they do overflow.
Batch(dest, src) ==
  LET moves == dest.state \in Moves
      same == dest.state = src.state
  IN IF dest.kind # src.kind THEN "terminate"
     ELSE
       CASE dest.kind \in Summed ->
            IF Overflows(dest.delta, src.delta) THEN "batched" ELSE "terminate"
       [] dest.kind = "abs" -> IF same THEN "batched" ELSE "terminate"
       [] dest.kind = "pad" ->
            \* a packet of another mask ends the batch before the controller is looked at
            IF (dest.state = "mask2") # (src.state = "mask2") THEN "terminate"
            ELSE IF dest.key # src.key THEN "skip"
            ELSE IF same THEN "batched" ELSE "terminate"
       [] dest.kind = "touch" ->
            IF ~moves \/ src.state \notin Moves THEN "terminate"
            ELSE IF dest.key # src.key THEN "skip"
            ELSE IF same THEN "batched" ELSE "terminate"
       [] dest.kind = "pen" -> IF moves /\ same THEN "batched" ELSE "terminate"
       [] dest.kind = "padTouch" ->
            IF ~moves THEN "terminate"
            ELSE IF dest.key # src.key THEN "skip"
            ELSE IF same THEN "batched" ELSE "terminate"
       [] dest.kind = "motion" -> IF dest.key # src.key THEN "skip" ELSE "batched"
       [] OTHER -> "terminate"

\* The loop of passthrough_next_message over what follows: the packet so far, what
\* stays in the queue, and whether the batch has ended.
BatchStep(acc, src) ==
  LET r == IF acc.ended THEN "terminate" ELSE Batch(acc.dest, src)
  IN CASE r = "batched" -> [acc EXCEPT !.dest = Taken(@, src)]
       [] r = "skip" -> [acc EXCEPT !.rest = Append(@, src)]
       [] OTHER -> [acc EXCEPT !.rest = Append(@, src), !.ended = TRUE]
BatchUpTo(q) ==
  LET upTo[k \in 1..Len(q)] ==
        IF k = 1 THEN [dest |-> Head(q), rest |-> <<>>, ended |-> FALSE] ELSE BatchStep(upTo[k - 1], q[k])
  IN  upTo
BatchAll(q) == BatchUpTo(q)[Len(q)]

----------------------------------------------------------------------------
\* passthrough on the control thread.
Queue(p) ==
  /\ Len(sent) < MaxSent
  /\ LET q == [kind |-> p.kind, key |-> p.key, state |-> p.state, delta |-> p.delta,
               n |-> Len(sent) + 1]
     IN sent' = Append(sent, q) /\ inq' = Append(inq, q)
  /\ UNCHANGED delivered

\* passthrough_next_message: one task per packet queued; one that finds the
\* queue empty, because its packet was merged, does nothing.
NextMessage ==
  /\ inq # <<>>
  /\ inq' = BatchAll(inq).rest
  /\ delivered' = Append(delivered, BatchAll(inq).dest)
  /\ UNCHANGED sent

Next == (\E p \in Packet : Queue(p)) \/ NextMessage
Spec == Init /\ [][Next]_batchVars

----------------------------------------------------------------------------
Stream(p) == <<p.kind, p.key>>
Gone == {i \in DOMAIN sent : \A p \in ToSet(inq) \cup ToSet(delivered) : p.n # i}

\* Packets of one pointer, controller or sensor reach the OS in the order they
\* were sent (input.cpp passthrough_next_message), although batching takes
\* packets from behind those of another.
StreamInOrder ==
  \A i, j \in DOMAIN delivered :
    i < j /\ Stream(delivered[i]) = Stream(delivered[j]) => delivered[i].n < delivered[j].n

\* A packet disappears only into a later one of its stream with the same state,
\* and no change of state lies between: no press, release, arrival or change of
\* the reference size is swallowed (input.cpp batch).
OnlyRepeatsMerge ==
  \A i \in Gone : \E j \in i + 1 .. Len(sent) :
    /\ j \notin Gone /\ Stream(sent[j]) = Stream(sent[i])
    /\ \A k \in i .. j :
         Stream(sent[k]) = Stream(sent[i]) => sent[k].state = sent[i].state

\* What both rest on: the queue and what was delivered are packets that were sent,
\* with their stream and state; the queue is in order, and what it holds of a
\* stream is later than what was delivered of it.
Kinds == {p.kind : p \in Packet}
States == {p.state : p \in Packet}
Numbered == [kind : Kinds, key : {0, 1, 2}, state : States, delta : Int, n : Nat]
Form(p) == <<p.kind, p.key, p.state>>
OfThoseSent(p) == p.n \in DOMAIN sent /\ Form(p) = Form(sent[p.n])
BatchInv ==
  /\ sent \in Seq(Numbered) /\ inq \in Seq(Numbered) /\ delivered \in Seq(Numbered)
  /\ \A i \in DOMAIN sent : sent[i].n = i /\ \E p \in Packet : Form(p) = Form(sent[i])
  /\ \A i \in DOMAIN inq : OfThoseSent(inq[i])
  /\ \A i \in DOMAIN delivered : OfThoseSent(delivered[i])
  /\ \A i, j \in DOMAIN inq : i < j => inq[i].n < inq[j].n
  /\ \A i \in DOMAIN delivered, j \in DOMAIN inq :
       Stream(delivered[i]) = Stream(inq[j]) => delivered[i].n < inq[j].n
  /\ StreamInOrder /\ OnlyRepeatsMerge

Sum(ps) == FoldLeft(LAMBDA acc, p : acc + p.delta, 0, ps)
\* "Batching is safe as long as the result doesn't overflow a 16-bit integer"
\* (input.cpp batch of relative moves and scrolls): what was sent is delivered.
SumsAreExact == inq = <<>> => Sum(delivered) = Sum(sent)
=============================================================================
