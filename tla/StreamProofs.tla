--------------------------- MODULE StreamProofs ---------------------------
(***************************************************************************)
(* Lemmas about the components of MCStream, for every value of the         *)
(* parameters: the inductive invariants of the input a client sends, of    *)
(* the order of encoded frames, of the answers to lost frames, and of the  *)
(* displays that KMS and the virtual display offer.                        *)
(***************************************************************************)
EXTENDS MCStream, NaturalsInduction, SequenceTheorems, FiniteSetTheorems,
        FunctionTheorems, WellFoundedInduction, TLAPS

\* A nonempty set of numbers has a least one.
LEMMA LeastNat ==
  ASSUME NEW S \in SUBSET Nat, S # {}
  PROVE  \E x \in S : \A y \in S : x <= y
<1>1. PICK x \in S : \A y \in S : ~(<<y, x>> \in OpToRel(<, Nat))
  BY NatLessThanWellFounded, WFMin
<1>2. \A y \in S : ~(y < x)
  BY <1>1 DEF OpToRel
<1> QED
  BY <1>2

(***************************************************************************)
(* The batching of input packets (input.cpp).                              *)
(***************************************************************************)

\* A packet of one of the forms that are sent.
Formed(p) == \E w \in Batching!Packet : Batching!Form(w) = Batching!Form(p)

\* The fields that the form of a packet fixes.
LEMMA FormFacts ==
  ASSUME NEW p, Formed(p)
  PROVE  /\ p.kind \in {"rel", "scroll", "abs", "pen", "key"} => p.key = 0
         /\ p.kind \in {"rel", "scroll", "motion"} => p.state = "any"
<1>1. PICK w \in Batching!Packet : Batching!Form(w) = Batching!Form(p)
  BY DEF Formed
<1>2. w.kind = p.kind /\ w.key = p.key /\ w.state = p.state
  BY <1>1 DEF Batching!Form
<1>3. /\ w.kind \in {"rel", "scroll", "abs", "pen", "key"} => w.key = 0
      /\ w.kind \in {"rel", "scroll", "motion"} => w.state = "any"
  BY DEF Batching!Packet, Batching!Summed
<1> QED
  BY <1>2, <1>3

\* A packet is merged only into one of its stream and state, and passed over only
\* when it is of another stream.
LEMMA BatchMeans ==
  ASSUME NEW a, NEW b, Formed(a), Formed(b)
  PROVE  /\ Batching!Batch(a, b) = "batched" => Batching!Form(a) = Batching!Form(b)
         /\ Batching!Batch(a, b) = "skip" => Batching!Stream(a) # Batching!Stream(b)
<1>1. Batching!Batch(a, b) # "terminate" => a.kind = b.kind
  BY DEF Batching!Batch
<1>2. ASSUME a.kind = b.kind PROVE Batching!Batch(a, b) = "skip" => a.key # b.key
  BY <1>2 DEF Batching!Batch, Batching!Summed
<1>3. ASSUME a.kind = b.kind, Batching!Batch(a, b) = "batched" PROVE a.key = b.key /\ a.state = b.state
  <2>1. CASE a.kind \in Batching!Summed
    BY <1>3, <2>1, FormFacts DEF Batching!Summed
  <2>2. CASE a.kind = "abs"
    BY <1>3, <2>2, FormFacts DEF Batching!Summed, Batching!Batch
  <2>3. CASE a.kind = "pad"
    BY <1>3, <2>3 DEF Batching!Summed, Batching!Batch
  <2>4. CASE a.kind = "touch"
    BY <1>3, <2>4 DEF Batching!Summed, Batching!Batch
  <2>5. CASE a.kind = "pen"
    BY <1>3, <2>5, FormFacts DEF Batching!Summed, Batching!Batch
  <2>6. CASE a.kind = "padTouch"
    BY <1>3, <2>6 DEF Batching!Summed, Batching!Batch
  <2>7. CASE a.kind = "motion"
    BY <1>3, <2>7, FormFacts DEF Batching!Summed, Batching!Batch
  <2>8. CASE a.kind \notin Batching!Summed \cup {"abs", "pad", "touch", "pen", "padTouch", "motion"}
    BY <1>3, <2>8 DEF Batching!Batch
  <2> QED
    BY <2>1, <2>2, <2>3, <2>4, <2>5, <2>6, <2>7, <2>8
<1> QED
  BY <1>1, <1>2, <1>3 DEF Batching!Form, Batching!Stream

\* The loop of passthrough_next_message: the function that defines it exists.
LEMMA BatchUnfolds ==
  ASSUME NEW q \in Seq(Batching!Numbered)
  PROVE  Batching!BatchUpTo(q) = [k \in 1..Len(q) |->
           IF k = 1 THEN [dest |-> Head(q), rest |-> <<>>, ended |-> FALSE]
           ELSE Batching!BatchStep(Batching!BatchUpTo(q)[k - 1], q[k])]
<1> DEFINE Start == [dest |-> Head(q), rest |-> <<>>, ended |-> FALSE]
           Turn(acc, k) == Batching!BatchStep(acc, q[k])
           P(f, l) == f = [k \in 1..l |-> IF k = 1 THEN Start ELSE Turn(f[k - 1], k)]
           S == {l \in Nat : ~ \E f : P(f, l)}
<1> HIDE DEF Start, Turn
<1>1. S = {}
  <2> SUFFICES ASSUME S # {} PROVE FALSE
    OBVIOUS
  <2>1. PICK l \in S : \A y \in S : l <= y
    BY LeastNat
  <2>2. P([k \in 1..0 |-> Start], 0)
    OBVIOUS
  <2>3. l # 0 /\ l \in Nat
    BY <2>1, <2>2
  <2>4. l - 1 \in Nat /\ l - 1 \notin S
    <3> HIDE DEF S
    <3> QED
      BY <2>1, <2>3
  <2>5. PICK f : P(f, l - 1)
    BY <2>4
  <2> DEFINE g == [k \in 1..l |-> IF k = l THEN (IF l = 1 THEN Start ELSE Turn(f[l - 1], l)) ELSE f[k]]
  <2>6. \A k \in 1..l : g[k] = IF k = 1 THEN Start ELSE Turn(g[k - 1], k)
    BY <2>3, <2>4, <2>5
  <2>7. P(g, l)
    BY <2>6
  <2> QED
    BY <2>1, <2>7
<1>2. Len(q) \in Nat
  OBVIOUS
<1>3. \E f : P(f, Len(q))
  BY <1>1, <1>2
<1>4. P(CHOOSE f : P(f, Len(q)), Len(q))
  BY <1>3
<1> QED
  BY <1>4 DEF Batching!BatchUpTo, Start, Turn

\* A queue of packets that were sent, in the order they were sent in.
Ordered(q) ==
  /\ q \in Seq(Batching!Numbered)
  /\ \A i \in DOMAIN q : Formed(q[i])
  /\ \A i, j \in DOMAIN q : i < j => q[i].n < q[j].n

\* What the loop keeps while it works through the first k packets of q: the packet
\* built so far, a, has the number of one of them and the form of the first; what
\* stays is in order, and of the stream of a only what is later than a; and what
\* is gone is of a's stream and state.
LoopInv(q, a, k) ==
  /\ a \in [dest : Batching!Numbered, rest : Seq(Batching!Numbered), ended : BOOLEAN]
  /\ Batching!Form(a.dest) = Batching!Form(q[1])
  /\ \E x \in 1..k : a.dest.n = q[x].n /\ Batching!Form(a.dest) = Batching!Form(q[x])
  /\ \A i \in DOMAIN a.rest : \E x \in 1..k : a.rest[i] = q[x]
  /\ \A i, j \in DOMAIN a.rest : i < j => a.rest[i].n < a.rest[j].n
  /\ \A i \in DOMAIN a.rest : Batching!Stream(a.rest[i]) = Batching!Stream(a.dest) => a.ended /\ a.dest.n < a.rest[i].n
  /\ \A x \in 1..k : Batching!Stream(q[x]) = Batching!Stream(a.dest) /\ q[x].n <= a.dest.n => q[x].state = a.dest.state
  /\ \A x \in 1..k :
       \/ q[x].n = a.dest.n
       \/ \E i \in DOMAIN a.rest : a.rest[i] = q[x]
       \/ Batching!Form(q[x]) = Batching!Form(a.dest) /\ q[x].n < a.dest.n

\* After the first packet batch holds that packet alone.
LEMMA LoopStart ==
  ASSUME NEW q, Ordered(q), q # <<>>
  PROVE  LoopInv(q, [dest |-> Head(q), rest |-> <<>>, ended |-> FALSE], 1)
<1>1. Head(q) = q[1] /\ 1 \in DOMAIN q /\ q[1] \in Batching!Numbered
  BY DEF Ordered
<1>2. <<>> \in Seq(Batching!Numbered)
  OBVIOUS
<1> QED
  BY <1>1, <1>2 DEF LoopInv, Ordered

\* One more packet is merged into the first one, or kept behind it.
LEMMA LoopStep ==
  ASSUME NEW q, Ordered(q), NEW k \in 2..Len(q), NEW a, LoopInv(q, a, k - 1), Half \in Nat \ {0}
  PROVE  LoopInv(q, Batching!BatchStep(a, q[k]), k)
<1> DEFINE b == Batching!BatchStep(a, q[k])
           r == IF a.ended THEN "terminate" ELSE Batching!Batch(a.dest, q[k])
<1> SUFFICES LoopInv(q, b, k)
  OBVIOUS
<1>1. /\ q \in Seq(Batching!Numbered) /\ k \in DOMAIN q /\ k - 1 \in DOMAIN q /\ 1 \in DOMAIN q
      /\ q[k] \in Batching!Numbered
      /\ \A x \in 1..(k - 1) : x \in DOMAIN q /\ x < k
      /\ \A x \in 1..k : x \in 1..(k - 1) \/ x = k
  BY DEF Ordered
<1>2. \A x \in 1..(k - 1) : q[x].n < q[k].n /\ q[x].n \in Nat /\ q[k].n \in Nat /\ q[x] \in Batching!Numbered
  <2>1. \A x \in 1..k : q[x] \in Batching!Numbered
    BY <1>1
  <2>2. \A x \in 1..k : q[x].n \in Nat
    BY <2>1 DEF Batching!Numbered
  <2> QED
    BY <1>1, <2>1, <2>2 DEF Ordered
<1>3. /\ a \in [dest : Batching!Numbered, rest : Seq(Batching!Numbered), ended : BOOLEAN]
      /\ a.dest \in Batching!Numbered /\ a.rest \in Seq(Batching!Numbered) /\ a.ended \in BOOLEAN
      /\ a.dest.n \in Nat /\ a.dest.n < q[k].n
  BY <1>2 DEF LoopInv, Batching!Numbered
<1>4. \A i \in DOMAIN a.rest : a.rest[i].n < q[k].n /\ a.rest[i].n \in Nat
  BY <1>2 DEF LoopInv
<1>5. Formed(a.dest) /\ Formed(q[k])
  BY <1>1 DEF Ordered, LoopInv, Formed
<1>6. CASE r = "batched"
  <2>1. b = [a EXCEPT !.dest = Batching!Taken(a.dest, q[k])]
    BY <1>6 DEF Batching!BatchStep
  <2> DEFINE d == Batching!Taken(a.dest, q[k])
  <2>2. d \in Batching!Numbered /\ Batching!Form(d) = Batching!Form(q[k]) /\ d.n = q[k].n
    <3>1. CASE a.dest.kind \in Batching!Summed
      <4>1. d = [q[k] EXCEPT !.delta = Batching!Wrapped(a.dest.delta, q[k].delta)]
        BY <3>1 DEF Batching!Taken
      <4>2. a.dest.delta \in Int /\ q[k].delta \in Int
        BY <1>1, <1>3 DEF Batching!Numbered
      <4>3. Batching!Wrapped(a.dest.delta, q[k].delta) \in Int
        BY <4>2 DEF Batching!Wrapped
      <4> QED
        BY <1>1, <4>1, <4>3 DEF Batching!Numbered, Batching!Form
    <3>2. CASE a.dest.kind \notin Batching!Summed
      BY <1>1, <3>2 DEF Batching!Taken
    <3> QED
      BY <3>1, <3>2
  <2>3. ~a.ended /\ Batching!Form(a.dest) = Batching!Form(q[k])
    BY <1>5, <1>6, BatchMeans
  <2>4. /\ Batching!Stream(d) = Batching!Stream(a.dest) /\ d.state = a.dest.state
        /\ Batching!Form(d) = Batching!Form(a.dest)
    BY <2>2, <2>3 DEF Batching!Form, Batching!Stream
  <2> HIDE DEF d
  <2>5. /\ b \in [dest : Batching!Numbered, rest : Seq(Batching!Numbered), ended : BOOLEAN] /\ b.dest = d
        /\ b.rest = a.rest /\ b.ended = a.ended
    BY <1>3, <2>1, <2>2 DEF d
  <2> HIDE DEF b
  <2>6. /\ Batching!Form(b.dest) = Batching!Form(q[1])
        /\ \E x \in 1..k : b.dest.n = q[x].n /\ Batching!Form(b.dest) = Batching!Form(q[x])
    BY <2>2, <2>3, <2>5 DEF LoopInv
  <2>7. /\ \A i \in DOMAIN b.rest : \E x \in 1..k : b.rest[i] = q[x]
        /\ \A i, j \in DOMAIN b.rest : i < j => b.rest[i].n < b.rest[j].n
        /\ \A i \in DOMAIN b.rest :
             Batching!Stream(b.rest[i]) = Batching!Stream(b.dest) => b.ended /\ b.dest.n < b.rest[i].n
    BY <1>1, <2>3, <2>4, <2>5 DEF LoopInv
  <2>8. \A x \in 1..k : Batching!Stream(q[x]) = Batching!Stream(b.dest) /\ q[x].n <= b.dest.n => q[x].state = b.dest.state
    <3> SUFFICES ASSUME NEW x \in 1..k, Batching!Stream(q[x]) = Batching!Stream(b.dest)
                 PROVE  q[x].state = b.dest.state
      OBVIOUS
    <3>1. CASE x = k
      BY <2>2, <2>5, <3>1 DEF Batching!Form
    <3>2. CASE x \in 1..(k - 1)
      <4>1. Batching!Stream(q[x]) = Batching!Stream(a.dest)
        BY <2>4, <2>5
      <4>2. ~(\E i \in DOMAIN a.rest : a.rest[i] = q[x])
        BY <2>3, <4>1 DEF LoopInv
      <4>3. q[x].n = a.dest.n \/ Batching!Form(q[x]) = Batching!Form(a.dest)
        BY <3>2, <4>2 DEF LoopInv
      <4>4. q[x].n = a.dest.n => q[x].state = a.dest.state
        BY <1>2, <1>3, <3>2, <4>1 DEF LoopInv
      <4> QED
        BY <2>4, <2>5, <4>3, <4>4 DEF Batching!Form
    <3> QED
      BY <1>1, <3>1, <3>2
  <2>9. \A x \in 1..k :
       \/ q[x].n = b.dest.n
       \/ \E i \in DOMAIN b.rest : b.rest[i] = q[x]
       \/ Batching!Form(q[x]) = Batching!Form(b.dest) /\ q[x].n < b.dest.n
    <3> SUFFICES ASSUME NEW x \in 1..k, x # k
                 PROVE  (\E i \in DOMAIN b.rest : b.rest[i] = q[x]) \/ (Batching!Form(q[x]) = Batching!Form(b.dest) /\ q[x].n < b.dest.n)
      BY <2>2, <2>5
    <3>1. x \in 1..(k - 1) /\ q[x].n < d.n
      BY <1>1, <1>2, <2>2
    <3>2. CASE q[x].n = a.dest.n
      <4>1. PICK y \in 1..(k - 1) : a.dest.n = q[y].n /\ Batching!Form(a.dest) = Batching!Form(q[y])
        BY DEF LoopInv
      <4>2. x = y
        BY <1>1, <1>2, <3>1, <3>2, <4>1 DEF Ordered
      <4> QED
        BY <2>4, <2>5, <3>1, <4>1, <4>2, SMTT(30)
    <3>3. CASE \E i \in DOMAIN a.rest : a.rest[i] = q[x]
      BY <2>5, <3>3
    <3>4. CASE Batching!Form(q[x]) = Batching!Form(a.dest) /\ q[x].n < a.dest.n
      BY <2>4, <2>5, <3>1, <3>4
    <3> QED
      BY <3>1, <3>2, <3>3, <3>4 DEF LoopInv
  <2> QED
    BY <2>5, <2>6, <2>7, <2>8, <2>9 DEF LoopInv
<1>7. CASE r # "batched"
  <2>1. /\ b = IF r = "skip" THEN [a EXCEPT !.rest = Append(@, q[k])]
               ELSE [a EXCEPT !.rest = Append(@, q[k]), !.ended = TRUE]
    BY <1>7 DEF Batching!BatchStep
  <2> DEFINE rest == Append(a.rest, q[k])
  <2>2. /\ rest \in Seq(Batching!Numbered) /\ Len(rest) = Len(a.rest) + 1
        /\ \A i \in DOMAIN rest : (i \in DOMAIN a.rest /\ rest[i] = a.rest[i]) \/ (i = Len(a.rest) + 1 /\ rest[i] = q[k])
        /\ \A i \in DOMAIN a.rest : i \in DOMAIN rest /\ rest[i] = a.rest[i]
        /\ Len(a.rest) + 1 \in DOMAIN rest /\ rest[Len(a.rest) + 1] = q[k]
    BY <1>1, <1>3
  <2> HIDE DEF rest
  <2>3. /\ b \in [dest : Batching!Numbered, rest : Seq(Batching!Numbered), ended : BOOLEAN] /\ b.dest = a.dest
        /\ b.rest = rest
    <3>1. CASE r = "skip"
      BY <1>3, <2>1, <2>2, <3>1 DEF rest
    <3>2. CASE r # "skip"
      BY <1>3, <2>1, <2>2, <3>2 DEF rest
    <3> QED
      BY <3>1, <3>2
  <2>4. b.ended = a.ended \/ b.ended
    <3>1. CASE r = "skip"
      BY <1>3, <2>1, <2>2, <3>1 DEF rest
    <3>2. CASE r # "skip"
      BY <1>3, <2>1, <2>2, <3>2 DEF rest
    <3> QED
      BY <3>1, <3>2
  <2>5. Batching!Stream(q[k]) = Batching!Stream(a.dest) => b.ended
    <3>1. CASE r = "skip"
      BY <1>5, <3>1, BatchMeans
    <3>2. CASE r # "skip"
      BY <1>3, <2>1, <2>2, <3>2 DEF rest
    <3> QED
      BY <3>1, <3>2
  <2> HIDE DEF b, r
  <2>6. /\ Batching!Form(b.dest) = Batching!Form(q[1])
        /\ \E x \in 1..k : b.dest.n = q[x].n /\ Batching!Form(b.dest) = Batching!Form(q[x])
    <3>1. Batching!Form(a.dest) = Batching!Form(q[1])
      BY DEF LoopInv
    <3>2. PICK x \in 1..(k - 1) : a.dest.n = q[x].n /\ Batching!Form(a.dest) = Batching!Form(q[x])
      BY DEF LoopInv
    <3> QED
      BY <1>1, <2>3, <3>1, <3>2
  <2>7. \A i \in DOMAIN b.rest : \E x \in 1..k : b.rest[i] = q[x]
    BY <1>1, <2>2, <2>3 DEF LoopInv
  <2>8. \A i, j \in DOMAIN b.rest : i < j => b.rest[i].n < b.rest[j].n
    <3> SUFFICES ASSUME NEW i \in DOMAIN rest, NEW j \in DOMAIN rest, i < j PROVE rest[i].n < rest[j].n
      BY <2>3
    <3>1. i \in DOMAIN a.rest /\ rest[i] = a.rest[i]
      BY <1>3, <2>2
    <3>2. CASE j \in DOMAIN a.rest /\ rest[j] = a.rest[j]
      BY <3>1, <3>2 DEF LoopInv
    <3>3. CASE rest[j] = q[k]
      BY <1>4, <3>1, <3>3
    <3> QED
      BY <2>2, <3>2, <3>3
  <2>9. \A i \in DOMAIN b.rest : Batching!Stream(b.rest[i]) = Batching!Stream(b.dest) => b.ended /\ b.dest.n < b.rest[i].n
    <3> SUFFICES ASSUME NEW i \in DOMAIN rest, Batching!Stream(rest[i]) = Batching!Stream(a.dest)
                 PROVE  b.ended /\ a.dest.n < rest[i].n
      BY <2>3
    <3>1. CASE i \in DOMAIN a.rest /\ rest[i] = a.rest[i]
      BY <2>4, <3>1 DEF LoopInv
    <3>2. CASE rest[i] = q[k]
      BY <1>3, <2>5, <3>2
    <3> QED
      BY <2>2, <3>1, <3>2
  <2>10. \A x \in 1..k : Batching!Stream(q[x]) = Batching!Stream(b.dest) /\ q[x].n <= b.dest.n => q[x].state = b.dest.state
    <3> SUFFICES ASSUME NEW x \in 1..k, Batching!Stream(q[x]) = Batching!Stream(a.dest), q[x].n <= a.dest.n
                 PROVE  q[x].state = a.dest.state
      BY <2>3
    <3>1. x \in 1..(k - 1)
      BY <1>1, <1>2, <1>3
    <3> QED
      BY <3>1 DEF LoopInv
  <2>11. \A x \in 1..k :
       \/ q[x].n = b.dest.n
       \/ \E i \in DOMAIN b.rest : b.rest[i] = q[x]
       \/ Batching!Form(q[x]) = Batching!Form(b.dest) /\ q[x].n < b.dest.n
    <3> SUFFICES ASSUME NEW x \in 1..k
                 PROVE  \/ q[x].n = a.dest.n
                        \/ \E i \in DOMAIN rest : rest[i] = q[x]
                        \/ Batching!Form(q[x]) = Batching!Form(a.dest) /\ q[x].n < a.dest.n
      BY <2>3
    <3>1. CASE x = k
      BY <2>2, <3>1
    <3>2. CASE x \in 1..(k - 1)
      <4>1. \/ q[x].n = a.dest.n
            \/ \E i \in DOMAIN a.rest : a.rest[i] = q[x]
            \/ Batching!Form(q[x]) = Batching!Form(a.dest) /\ q[x].n < a.dest.n
        BY <3>2 DEF LoopInv
      <4> QED
        BY <2>2, <4>1
    <3> QED
      BY <1>1, <3>1, <3>2
  <2> QED
    BY <2>3, <2>6, <2>7, <2>8, <2>9, <2>10, <2>11 DEF LoopInv
<1> QED
  BY <1>6, <1>7

\* What one message delivers and leaves in the queue.
LEMMA BatchAllGives ==
  ASSUME NEW q, Ordered(q), q # <<>>, Half \in Nat \ {0}
  PROVE  LoopInv(q, Batching!BatchAll(q), Len(q))
<1>1. q \in Seq(Batching!Numbered) /\ Len(q) \in Nat /\ Len(q) >= 1
  BY DEF Ordered
<1> DEFINE up == Batching!BatchUpTo(q)
           S == {k \in 1..Len(q) : ~LoopInv(q, up[k], k)}
<1>2. /\ up[1] = [dest |-> Head(q), rest |-> <<>>, ended |-> FALSE]
      /\ \A k \in 2..Len(q) : up[k] = Batching!BatchStep(up[k - 1], q[k])
  <2>1. up = [k \in 1..Len(q) |->
           IF k = 1 THEN [dest |-> Head(q), rest |-> <<>>, ended |-> FALSE] ELSE Batching!BatchStep(up[k - 1], q[k])]
    BY <1>1, BatchUnfolds
  <2> HIDE DEF up
  <2>2. \A k \in 1..Len(q) :
          up[k] = IF k = 1 THEN [dest |-> Head(q), rest |-> <<>>, ended |-> FALSE]
                  ELSE Batching!BatchStep(up[k - 1], q[k])
    BY <2>1
  <2>3. 1 \in 1..Len(q) /\ \A k \in 2..Len(q) : k \in 1..Len(q) /\ k # 1
    BY <1>1
  <2> QED
    BY <2>2, <2>3
<1> HIDE DEF up
<1>3. S = {}
  <2> SUFFICES ASSUME S # {} PROVE FALSE
    OBVIOUS
  <2>0. S \in SUBSET Nat
    OBVIOUS
  <2>1. PICK k \in S : \A y \in S : k <= y
    <3> HIDE DEF S
    <3> QED
      BY <2>0, LeastNat
  <2>2. k # 1
    BY <1>2, <2>1, LoopStart
  <2>3. k \in 2..Len(q) /\ k - 1 \in 1..Len(q) /\ ~LoopInv(q, up[k], k)
    BY <1>1, <2>1, <2>2
  <2>4. LoopInv(q, up[k - 1], k - 1)
    BY <2>1, <2>3
  <2> QED
    BY <1>2, <2>3, <2>4, LoopStep
<1> QED
  BY <1>1, <1>3 DEF Batching!BatchAll, up

\* A packet that is gone was sent, and is neither queued nor delivered: it was merged.
LEMMA GoneMeans ==
  ASSUME NEW i
  PROVE  i \in Batching!Gone <=> /\ i \in DOMAIN v2
                                 /\ \A z \in DOMAIN v1 : v1[z].n # i
                                 /\ \A y \in DOMAIN v3 : v3[y].n # i
BY DEF Batching!Gone, Batching!ToSet

\* An empty queue is in order.
LEMMA BatchInit == Batching!Init => Batching!BatchInv
<1> SUFFICES ASSUME Batching!Init PROVE Batching!BatchInv
  OBVIOUS
<1>1. v2 = <<>> /\ v1 = <<>> /\ v3 = <<>> /\ <<>> \in Seq(Batching!Numbered)
  BY DEF Batching!Init
<1>2. Batching!Gone = {}
  BY <1>1 DEF Batching!Gone
<1> QED
  BY <1>1, <1>2 DEF Batching!BatchInv, Batching!StreamInOrder, Batching!OnlyRepeatsMerge

\* A packet queued is the newest of its stream.
LEMMA QueueKeeps ==
  ASSUME Batching!BatchInv, NEW p \in Batching!Packet, Batching!Queue(p), Half \in Nat \ {0}
  PROVE  Batching!BatchInv'
<1> DEFINE m == Len(v2) + 1
           q == [kind |-> p.kind, key |-> p.key, state |-> p.state, delta |-> p.delta, n |-> m]
<1>1. v2' = Append(v2, q) /\ v1' = Append(v1, q) /\ v3' = v3
  BY DEF Batching!Queue
<1>2. v2 \in Seq(Batching!Numbered) /\ v1 \in Seq(Batching!Numbered) /\ v3 \in Seq(Batching!Numbered)
  BY DEF Batching!BatchInv
<1>3. p.kind \in Batching!Kinds /\ p.state \in Batching!States /\ p.key \in {0, 1, 2} /\ p.delta \in Int /\ m \in Nat
  <2>1. p.kind \in Batching!Kinds /\ p.state \in Batching!States
    BY DEF Batching!Kinds, Batching!States
  <2>2. p.key \in {0, 1, 2}
    BY DEF Batching!Packet
  <2>3. p.delta \in Int
    BY DEF Batching!Packet, Batching!Deltas
  <2> QED
    BY <1>2, <2>1, <2>2, <2>3
<1>4. q \in Batching!Numbered /\ q.n = m /\ Batching!Form(q) = Batching!Form(p) /\ Formed(q)
  BY <1>3 DEF Batching!Numbered, Batching!Form, Formed
<1> HIDE DEF q
<1>5. /\ v2' \in Seq(Batching!Numbered) /\ v1' \in Seq(Batching!Numbered) /\ v3' \in Seq(Batching!Numbered)
      /\ DOMAIN v2' = DOMAIN v2 \cup {m} /\ \A i \in DOMAIN v2 : v2'[i] = v2[i] /\ i < m
      /\ DOMAIN v2 = 1..Len(v2) /\ Len(v2) \in Nat /\ Len(v2') = m
      /\ v2'[m] = q
      /\ DOMAIN v1' = DOMAIN v1 \cup {Len(v1) + 1} /\ \A i \in DOMAIN v1 : v1'[i] = v1[i] /\ i < Len(v1) + 1
      /\ v1'[Len(v1) + 1] = q
  BY <1>1, <1>2, <1>4
<1>6. \A i \in DOMAIN v1 : v1[i].n \in DOMAIN v2 /\ Batching!Form(v1[i]) = Batching!Form(v2[v1[i].n])
  BY DEF Batching!BatchInv, Batching!OfThoseSent
<1>7. \A i \in DOMAIN v3 : v3[i].n \in DOMAIN v2 /\ Batching!Form(v3[i]) = Batching!Form(v2[v3[i].n])
  BY DEF Batching!BatchInv, Batching!OfThoseSent
<1>8. Batching!Gone' = Batching!Gone
  <2>1. ASSUME NEW i PROVE i \in Batching!Gone' <=> i \in Batching!Gone
    <3>1. i \in Batching!Gone' <=> (i \in DOMAIN v2' /\ (\A z \in DOMAIN v1' : v1'[z].n # i)
                               /\ \A y \in DOMAIN v3' : v3'[y].n # i)
      BY DEF Batching!Gone, Batching!ToSet
    <3>2. i \in Batching!Gone => i \in Batching!Gone'
      BY <1>1, <1>4, <1>5, <3>1, GoneMeans
    <3>3. ASSUME i \in Batching!Gone' PROVE i \in Batching!Gone
      <4>1. i \in DOMAIN v2' /\ (\A z \in DOMAIN v1' : v1'[z].n # i) /\ \A y \in DOMAIN v3' : v3'[y].n # i
        BY <3>1, <3>3
      <4>2. i # m /\ i \in DOMAIN v2
        BY <1>4, <1>5, <4>1
      <4>3. \A z \in DOMAIN v1 : v1[z].n # i
        BY <1>5, <4>1
      <4>4. \A y \in DOMAIN v3 : v3[y].n # i
        BY <1>1, <4>1
      <4> QED
        BY <4>2, <4>3, <4>4, GoneMeans
    <3> QED
      BY <3>2, <3>3
  <2> QED
    BY <2>1
<1>9. \A i \in DOMAIN v2' : v2'[i].n = i /\ \E w \in Batching!Packet : Batching!Form(w) = Batching!Form(v2'[i])
  BY <1>4, <1>5 DEF Batching!BatchInv, Formed
<1>10. \A i \in DOMAIN v1' : v1'[i].n \in DOMAIN v2' /\ Batching!Form(v1'[i]) = Batching!Form(v2'[v1'[i].n])
  BY <1>4, <1>5, <1>6
<1>11. \A i \in DOMAIN v3' : v3'[i].n \in DOMAIN v2' /\ Batching!Form(v3'[i]) = Batching!Form(v2'[v3'[i].n])
  BY <1>1, <1>5, <1>7
<1>12. \A i, j \in DOMAIN v1' : i < j => v1'[i].n < v1'[j].n
  <2> SUFFICES ASSUME NEW i \in DOMAIN v1', NEW j \in DOMAIN v1', i < j PROVE v1'[i].n < v1'[j].n
    OBVIOUS
  <2>1. i \in DOMAIN v1
    BY <1>2, <1>5
  <2>2. CASE j \in DOMAIN v1
    BY <1>5, <2>1, <2>2 DEF Batching!BatchInv
  <2>3. CASE j = Len(v1) + 1
    BY <1>4, <1>5, <1>6, <2>1, <2>3
  <2> QED
    BY <1>5, <2>2, <2>3
<1>13. \A i \in DOMAIN v3', j \in DOMAIN v1' :
         Batching!Stream(v3'[i]) = Batching!Stream(v1'[j]) => v3'[i].n < v1'[j].n
  BY <1>1, <1>4, <1>5, <1>7 DEF Batching!BatchInv
<1>14. Batching!StreamInOrder'
  BY <1>1 DEF Batching!BatchInv, Batching!StreamInOrder
<1>15. Batching!OnlyRepeatsMerge'
  <2> SUFFICES ASSUME NEW i \in Batching!Gone
               PROVE  \E j \in i + 1 .. Len(v2') :
                        /\ j \notin Batching!Gone /\ Batching!Stream(v2'[j]) = Batching!Stream(v2'[i])
                        /\ \A k \in i .. j : Batching!Stream(v2'[k]) = Batching!Stream(v2'[i]) => v2'[k].state = v2'[i].state
    BY <1>8 DEF Batching!OnlyRepeatsMerge
  <2>1. PICK j \in i + 1 .. Len(v2) :
          /\ j \notin Batching!Gone /\ Batching!Stream(v2[j]) = Batching!Stream(v2[i])
          /\ \A k \in i .. j : Batching!Stream(v2[k]) = Batching!Stream(v2[i]) => v2[k].state = v2[i].state
    BY DEF Batching!BatchInv, Batching!OnlyRepeatsMerge
  <2>2. i \in DOMAIN v2
    BY DEF Batching!Gone
  <2>3. j \in DOMAIN v2 /\ j \in i + 1 .. Len(v2') /\ \A k \in i .. j : k \in DOMAIN v2
    BY <1>5, <2>2
  <2> QED
    BY <1>5, <2>1, <2>2, <2>3
<1> QED
  BY <1>5, <1>9, <1>10, <1>11, <1>12, <1>13, <1>14, <1>15 DEF Batching!BatchInv, Batching!OfThoseSent

\* What next_message delivers leaves the queue in order.
LEMMA NextMessageKeeps ==
  ASSUME Batching!BatchInv, Batching!NextMessage, Half \in Nat \ {0}
  PROVE  Batching!BatchInv'
<1> DEFINE a == Batching!BatchAll(v1)
           l == Len(v1)
<1>1. v1 # <<>> /\ v1' = a.rest /\ v3' = Append(v3, a.dest) /\ v2' = v2
  BY DEF Batching!NextMessage
<1>2. /\ v2 \in Seq(Batching!Numbered) /\ v1 \in Seq(Batching!Numbered) /\ v3 \in Seq(Batching!Numbered)
      /\ DOMAIN v1 = 1..l /\ DOMAIN v2 = 1..Len(v2) /\ Len(v2) \in Nat
  BY DEF Batching!BatchInv
<1>3. \A i \in DOMAIN v1 : /\ v1[i].n \in DOMAIN v2 /\ Batching!Form(v1[i]) = Batching!Form(v2[v1[i].n])
                             /\ Batching!Stream(v1[i]) = Batching!Stream(v2[v1[i].n])
                             /\ v1[i].state = v2[v1[i].n].state
  BY DEF Batching!BatchInv, Batching!OfThoseSent, Batching!Form, Batching!Stream
<1>4. \A i \in DOMAIN v3 : /\ v3[i].n \in DOMAIN v2 /\ Batching!Form(v3[i]) = Batching!Form(v2[v3[i].n])
                                   /\ Batching!Stream(v3[i]) = Batching!Stream(v2[v3[i].n])
  BY DEF Batching!BatchInv, Batching!OfThoseSent, Batching!Form, Batching!Stream
<1>5. Ordered(v1)
  BY <1>2, <1>3 DEF Ordered, Batching!BatchInv, Formed
<1>6. LoopInv(v1, a, l)
  BY <1>1, <1>5, BatchAllGives
<1> HIDE DEF a, l
<1>7. a.dest \in Batching!Numbered /\ a.rest \in Seq(Batching!Numbered) /\ a.dest.n \in Nat
  BY <1>6 DEF LoopInv, Batching!Numbered
<1>8. PICK x \in DOMAIN v1 : a.dest.n = v1[x].n /\ Batching!Form(a.dest) = Batching!Form(v1[x])
  BY <1>2, <1>6 DEF LoopInv
<1>9. /\ a.dest.n \in DOMAIN v2 /\ Batching!Form(a.dest) = Batching!Form(v2[a.dest.n])
      /\ Batching!Stream(a.dest) = Batching!Stream(v2[a.dest.n]) /\ a.dest.state = v2[a.dest.n].state
      /\ Batching!Stream(a.dest) = Batching!Stream(v1[x])
  BY <1>3, <1>8 DEF Batching!Form, Batching!Stream
<1>10. /\ v1' \in Seq(Batching!Numbered) /\ v3' \in Seq(Batching!Numbered) /\ v2' \in Seq(Batching!Numbered)
       /\ DOMAIN v3' = DOMAIN v3 \cup {Len(v3) + 1}
       /\ \A i \in DOMAIN v3 : v3'[i] = v3[i] /\ i < Len(v3) + 1
       /\ v3'[Len(v3) + 1] = a.dest
  BY <1>1, <1>2, <1>7
<1>11. \A i \in DOMAIN v1' : \E z \in DOMAIN v1 : v1'[i] = v1[z]
  BY <1>1, <1>2, <1>6 DEF LoopInv
<1>12. \A i \in DOMAIN v1' : Batching!OfThoseSent(v1[i])'
  BY <1>1, <1>3, <1>11 DEF Batching!OfThoseSent
<1>13. \A i \in DOMAIN v3' : Batching!OfThoseSent(v3[i])'
  BY <1>1, <1>4, <1>9, <1>10 DEF Batching!OfThoseSent
<1>14. \A i, j \in DOMAIN v1' : i < j => v1'[i].n < v1'[j].n
  BY <1>1, <1>6 DEF LoopInv
<1>15. \A i \in DOMAIN v3', j \in DOMAIN v1' :
         Batching!Stream(v3'[i]) = Batching!Stream(v1'[j]) => v3'[i].n < v1'[j].n
  <2> SUFFICES ASSUME NEW i \in DOMAIN v3', NEW j \in DOMAIN v1', Batching!Stream(v3'[i]) = Batching!Stream(v1'[j])
               PROVE  v3'[i].n < v1'[j].n
    OBVIOUS
  <2>1. CASE i \in DOMAIN v3
    BY <1>10, <1>11, <2>1 DEF Batching!BatchInv
  <2>2. CASE i = Len(v3) + 1
    BY <1>1, <1>6, <1>10, <2>2 DEF LoopInv
  <2> QED
    BY <1>10, <2>1, <2>2
<1>16. Batching!StreamInOrder'
  <2> SUFFICES ASSUME NEW i \in DOMAIN v3', NEW j \in DOMAIN v3', i < j,
                      Batching!Stream(v3'[i]) = Batching!Stream(v3'[j])
               PROVE  v3'[i].n < v3'[j].n
    BY DEF Batching!StreamInOrder, Batching!Stream
  <2>1. i \in DOMAIN v3
    BY <1>2, <1>10
  <2>2. CASE j \in DOMAIN v3
    BY <1>10, <2>1, <2>2 DEF Batching!BatchInv, Batching!StreamInOrder
  <2>3. CASE j = Len(v3) + 1
    BY <1>8, <1>9, <1>10, <2>1, <2>3 DEF Batching!BatchInv
  <2> QED
    BY <1>10, <2>2, <2>3
<1> DEFINE Into(i, j) == /\ Batching!Stream(v2[j]) = Batching!Stream(v2[i])
                         /\ \A k \in i .. j : Batching!Stream(v2[k]) = Batching!Stream(v2[i]) => v2[k].state = v2[i].state
<1> DEFINE Lost == {i \in DOMAIN v2 :
                      /\ \A z \in DOMAIN v1' : v1'[z].n # i
                      /\ \A y \in DOMAIN v3' : v3'[y].n # i}
<1>17. Batching!Gone' = Lost
  <2>1. Batching!Gone' = {i \in DOMAIN v2' : \A p \in Batching!ToSet(v1') \cup Batching!ToSet(v3') : p.n # i}
    BY DEF Batching!Gone
  <2>2. \A i : i \in Batching!Gone' <=> i \in Lost
    BY <1>1, <2>1 DEF Batching!ToSet
  <2> QED
    BY <2>2
<1>18. a.dest.n \notin Lost
  <2>1. Len(v3) + 1 \in DOMAIN v3' /\ v3'[Len(v3) + 1].n = a.dest.n
    BY <1>10
  <2> QED
    BY <1>17, <2>1
<1>19. ASSUME NEW i, i \in Lost, i \notin Batching!Gone
       PROVE  i < a.dest.n /\ Into(i, a.dest.n)
  <2>1. i \in DOMAIN v2 /\ ~ \E y \in DOMAIN v3 : v3[y].n = i
    BY <1>10, <1>17, <1>19
  <2>2. PICK z \in DOMAIN v1 : v1[z].n = i
    BY <1>19, <2>1, GoneMeans
  <2>3. ~ \E y \in DOMAIN a.rest : a.rest[y] = v1[z]
    BY <1>1, <1>17, <1>19, <2>2
  <2>4. v1[z].n # a.dest.n
    BY <1>10, <1>17, <1>19, <2>2
  <2>5. Batching!Form(v1[z]) = Batching!Form(a.dest) /\ i < a.dest.n
    BY <1>2, <1>6, <2>2, <2>3, <2>4 DEF LoopInv
  <2>6. /\ Batching!Stream(v2[i]) = Batching!Stream(a.dest) /\ Batching!Stream(v2[a.dest.n]) = Batching!Stream(v2[i])
        /\ v2[i].state = a.dest.state
    BY <1>3, <1>9, <2>2, <2>5 DEF Batching!Form, Batching!Stream
  <2>7. ASSUME NEW k \in i .. a.dest.n, Batching!Stream(v2[k]) = Batching!Stream(v2[i])
        PROVE  v2[k].state = v2[i].state
    <3>1. k \in DOMAIN v2 /\ k \in Nat
      BY <1>2, <1>9, <2>1, <2>7
    <3>2. PICK m \in DOMAIN v2 : /\ m \notin Batching!Gone /\ m >= k /\ Batching!Stream(v2[m]) = Batching!Stream(v2[k])
                                   /\ \A h \in k .. m : Batching!Stream(v2[h]) = Batching!Stream(v2[k]) => v2[h].state = v2[k].state
      <4>1. CASE k \in Batching!Gone
        <5>1. PICK j \in k + 1 .. Len(v2) : /\ j \notin Batching!Gone /\ Batching!Stream(v2[j]) = Batching!Stream(v2[k])
                  /\ \A h \in k .. j : Batching!Stream(v2[h]) = Batching!Stream(v2[k]) => v2[h].state = v2[k].state
          BY <4>1 DEF Batching!BatchInv, Batching!OnlyRepeatsMerge
        <5>2. j \in DOMAIN v2 /\ j >= k
          BY <1>2, <3>1
        <5> QED
          BY <5>1, <5>2
      <4>2. CASE k \notin Batching!Gone
        BY <3>1, <4>2
      <4> QED
        BY <4>1, <4>2
    <3>3. ~ \E y \in DOMAIN v3 : v3[y].n = m
      <4> SUFFICES ASSUME NEW y \in DOMAIN v3, v3[y].n = m PROVE FALSE
        OBVIOUS
      <4>1. Batching!Stream(v3[y]) = Batching!Stream(v1[z])
        BY <1>3, <1>4, <2>2, <2>7, <3>2
      <4>2. m < i
        BY <2>2, <4>1 DEF Batching!BatchInv
      <4> QED
        BY <1>2, <2>1, <2>7, <3>1, <3>2, <4>2
    <3>4. PICK g \in DOMAIN v1 : v1[g].n = m
      BY <3>2, <3>3, GoneMeans
    <3>5. Batching!Stream(v1[g]) = Batching!Stream(a.dest)
      BY <1>3, <2>6, <2>7, <3>2, <3>4
    <3>6. CASE m <= a.dest.n
      <4>1. v1[g].state = a.dest.state
        BY <1>2, <1>6, <3>4, <3>5, <3>6 DEF LoopInv
      <4>2. v2[m].state = a.dest.state
        BY <1>3, <3>4, <4>1
      <4>3. v2[m].state = v2[k].state
        BY <1>2, <3>1, <3>2
      <4> QED
        BY <2>6, <4>2, <4>3
    <3>7. CASE ~(m <= a.dest.n)
      <4>1. a.dest.n \in k .. m
        BY <1>2, <1>7, <2>7, <3>1, <3>7
      <4>2. v2[a.dest.n].state = v2[k].state
        BY <2>6, <2>7, <3>2, <4>1
      <4> QED
        BY <1>9, <2>6, <4>2
    <3> QED
      BY <3>6, <3>7
  <2> QED
    BY <2>5, <2>6, <2>7, SMTT(30)
<1>20. Batching!OnlyRepeatsMerge'
  <2> SUFFICES ASSUME NEW i, i \in Lost
               PROVE  \E j \in i + 1 .. Len(v2) : j \notin Lost /\ Into(i, j)
    BY <1>1, <1>17 DEF Batching!OnlyRepeatsMerge, Batching!Stream
  <2>1. i \in DOMAIN v2
    OBVIOUS
  <2>2. CASE i \notin Batching!Gone
    <3>1. i < a.dest.n /\ Into(i, a.dest.n)
      BY <1>19, <2>2
    <3>2. a.dest.n \in i + 1 .. Len(v2)
      BY <1>2, <1>9, <2>1, <3>1
    <3> QED
      BY <1>18, <3>1, <3>2
  <2>3. CASE i \in Batching!Gone
    <3>1. PICK j \in i + 1 .. Len(v2) : j \notin Batching!Gone /\ Into(i, j)
      BY <2>3 DEF Batching!BatchInv, Batching!OnlyRepeatsMerge
    <3>2. CASE j \notin Lost
      BY <3>1, <3>2
    <3>3. CASE j \in Lost
      <4>1. j < a.dest.n /\ Into(j, a.dest.n)
        BY <1>19, <3>1, <3>3
      <4>2. a.dest.n \in i + 1 .. Len(v2)
        BY <1>2, <1>9, <2>1, <3>1, <4>1
      <4>3. ASSUME NEW k \in i .. a.dest.n, Batching!Stream(v2[k]) = Batching!Stream(v2[i])
            PROVE  v2[k].state = v2[i].state
        <5>1. CASE k \in i .. j
          BY <3>1, <4>3, <5>1
        <5>2. CASE k \in j .. a.dest.n
          <6>1. j \in i .. j
            BY <1>2, <2>1, <3>1
          <6> QED
            BY <3>1, <4>1, <4>3, <5>2, <6>1
        <5> QED
          BY <1>2, <1>9, <2>1, <3>1, <5>1, <5>2
      <4>4. Into(i, a.dest.n)
        BY <3>1, <4>1, <4>3
      <4> QED
        BY <1>18, <4>2, <4>4
    <3> QED
      BY <3>2, <3>3
  <2> QED
    BY <2>2, <2>3
<1> QED
  BY <1>1, <1>10, <1>12, <1>13, <1>14, <1>15, <1>16, <1>20 DEF Batching!BatchInv

\* Every step of the input queue keeps its order.
LEMMA BatchKept ==
  ASSUME Half \in Nat \ {0}, Batching!BatchInv, [Batching!Next]_(Batching!batchVars)
  PROVE  Batching!BatchInv'
<1>1. CASE UNCHANGED Batching!batchVars
  BY <1>1 DEF Batching!batchVars, Batching!BatchInv, Batching!StreamInOrder, Batching!OnlyRepeatsMerge,
     Batching!Gone, Batching!OfThoseSent
<1> QED
  BY <1>1, QueueKeeps, NextMessageKeeps DEF Batching!Next

(***************************************************************************)
(* Virtual gamepads (windows/input.cpp).                                   *)
(***************************************************************************)

PadRecord == [gp : {"x360", "ds4", None}, attached : BOOLEAN, session : Nat, life : Nat]

\* What alloc_gamepad and free_target make of the pads.
LEMMA AllocGives ==
  ASSUME Pads!PadsTyped, NEW s \in Slot, NEW type \in {"x360", "ds4"}, NEW o \in {"ok", "noclient", "noadd"},
         Pads!Alloc(s, type, o)
  PROVE  /\ Pads!PadsTyped' /\ ~v1[s].attached
         /\ \A r \in Slot : r # s => v1'[r] = v1[r]
         /\ v1'[s].attached => v1'[s].gp = type /\ o = "ok"
         /\ \/ v1'[s] = v1[s] /\ v10' = v10
            \/ /\ v1'[s].gp = type /\ v1'[s].life = v1[s].life + 1
               /\ v10' = IF type = "x360" THEN v10 ELSE [v10 EXCEPT ![s].available = {0, 1}, ![s].down = {}]
<1>1. v1 \in [Slot -> PadRecord] /\ v12 \in Nat /\ v12' \in Nat /\ ~v1[s].attached
  BY DEF Pads!Alloc, Pads!PadsTyped, PadRecord
<1>2. CASE o = "noclient"
  <2>1. v1' = v1 /\ v10' = v10
    BY <1>2 DEF Pads!Alloc
  <2> QED
    BY <1>1, <2>1 DEF Pads!PadsTyped, PadRecord
<1>3. CASE o # "noclient"
  <2> DEFINE new == [gp |-> type, attached |-> o = "ok", session |-> v12', life |-> v1[s].life + 1]
  <2>1. /\ v1' = [v1 EXCEPT ![s] = new]
        /\ v10' = IF type = "x360" THEN v10 ELSE [v10 EXCEPT ![s].available = {0, 1}, ![s].down = {}]
    BY <1>3 DEF Pads!Alloc
  <2>2. v1[s].life \in Nat
    BY <1>1 DEF PadRecord
  <2>3. new \in PadRecord /\ new.gp = type /\ new.life = v1[s].life + 1 /\ (new.attached => o = "ok")
    BY <1>1, <2>2 DEF PadRecord
  <2> HIDE DEF new
  <2>4. v1' \in [Slot -> PadRecord] /\ v1'[s] = new /\ \A r \in Slot : r # s => v1'[r] = v1[r]
    BY <1>1, <2>1, <2>3
  <2> QED
    BY <1>1, <2>1, <2>3, <2>4 DEF Pads!PadsTyped, PadRecord
<1> QED
  BY <1>2, <1>3

\* A gamepad given back is no longer attached; the others stay.
LEMMA FreeGives ==
  ASSUME Pads!PadsTyped, NEW s \in Slot, Pads!Free(s)
  PROVE  /\ Pads!PadsTyped' /\ ~v1'[s].attached /\ v1'[s].life = v1[s].life /\ v1[s].attached
         /\ \A r \in Slot : r # s => v1'[r] = v1[r]
<1>1. v1 \in [Slot -> PadRecord] /\ v12 \in Nat /\ v12' = v12 /\ v1[s] \in PadRecord
  BY DEF Pads!Free, Pads!PadsTyped, PadRecord
<1> DEFINE new == [v1[s] EXCEPT !.gp = None, !.attached = FALSE]
<1>2. v1' = [v1 EXCEPT ![s] = new]
  BY <1>1 DEF Pads!Free
<1>3. new \in PadRecord /\ ~new.attached /\ new.life = v1[s].life
  BY <1>1 DEF PadRecord
<1> HIDE DEF new
<1>4. v1' \in [Slot -> PadRecord] /\ v1'[s] = new /\ \A r \in Slot : r # s => v1'[r] = v1[r]
  BY <1>1, <1>2, <1>3
<1> QED
  BY <1>1, <1>3, <1>4 DEF Pads!PadsTyped, PadRecord, Pads!Free

(* One repeat task per pad.                                                *)

\* Without gamepads there is no repeat task.
LEMMA RepeatInit == Pads!GamepadInit => Pads!RepeatInv
<1> SUFFICES ASSUME Pads!GamepadInit PROVE Pads!RepeatInv
  OBVIOUS
<1>1. Pads!PadsTyped
  BY DEF Pads!GamepadInit, Pads!PadsTyped
<1>2. v4 \in [Slot -> Nat] /\ v5 = None /\ \A s \in Slot : v4[s] = 0
  BY DEF Pads!GamepadInit
<1> QED
  BY <1>1, <1>2 DEF Pads!RepeatInv, Pads!OneRepeat

\* An update leaves a repeat task to an attached gamepad only.
LEMMA UpdateAndSendKeeps ==
  ASSUME Pads!RepeatInv, NEW s \in Slot, NEW works \in BOOLEAN, Pads!UpdateAndSend(s, works),
         v1[s].attached => v1[s].gp = "ds4",
         v1' = v1, v12' = v12, v5' \in Slot \cup {None}, v5' = None, None \notin Slot
  PROVE  Pads!RepeatInv'
<1>1. /\ v4' \in [Slot -> Nat]
      /\ \A r \in Slot : r # s => v4'[r] = v4[r]
      /\ v4'[s] \in {0, 1} /\ (v4'[s] = 1 => v1[s].attached)
  BY DEF Pads!UpdateAndSend, Pads!RepeatInv
<1>2. Pads!OneRepeat'
  BY <1>1 DEF Pads!RepeatInv, Pads!OneRepeat
<1> QED
  BY <1>1, <1>2 DEF Pads!RepeatInv, Pads!PadsTyped

\* Every step of the gamepads keeps one repeat task at most.
LEMMA RepeatKept ==
  ASSUME Pads!RepeatInv, [Pads!PadNext \/ Pads!ReportNext]_(Pads!gamepadVars), None \notin Slot
  PROVE  Pads!RepeatInv'
<1>0. Pads!PadsTyped /\ v4 \in [Slot -> Nat] /\ v5 \in Slot \cup {None}
  BY DEF Pads!RepeatInv
<1>1. ASSUME NEW s \in Slot, NEW type \in {"x360", "ds4"}, NEW o \in {"ok", "noclient", "noadd"}, Pads!Alloc(s, type, o)
      PROVE  Pads!RepeatInv'
  <2>1. v4' = v4 /\ v5' = v5 /\ v5 = None
    BY <1>1 DEF Pads!Alloc
  <2>2. /\ Pads!PadsTyped' /\ ~v1[s].attached
        /\ \A r \in Slot : r # s => v1'[r] = v1[r]
    BY <1>0, <1>1, AllocGives
  <2>3. Pads!OneRepeat'
    BY <1>0, <2>1, <2>2 DEF Pads!OneRepeat, Pads!RepeatInv
  <2> QED
    BY <1>0, <2>1, <2>2, <2>3 DEF Pads!RepeatInv
<1>2. ASSUME NEW s \in Slot, Pads!Free(s) PROVE Pads!RepeatInv'
  <2>1. v5' = v5 /\ v4' = [v4 EXCEPT ![s] = 0]
    BY <1>2 DEF Pads!Free
  <2>2. Pads!PadsTyped' /\ ~v1'[s].attached /\ \A r \in Slot : r # s => v1'[r] = v1[r]
    BY <1>0, <1>2, FreeGives
  <2>3. v4' \in [Slot -> Nat] /\ v4'[s] = 0 /\ \A r \in Slot : r # s => v4'[r] = v4[r]
    BY <1>0, <2>1
  <2>4. Pads!OneRepeat'
    BY <2>1, <2>2, <2>3 DEF Pads!RepeatInv, Pads!OneRepeat
  <2> QED
    BY <1>0, <2>1, <2>2, <2>3, <2>4 DEF Pads!RepeatInv
<1>3. ASSUME NEW s \in Slot, Pads!RepeatTaken(s) PROVE Pads!RepeatInv'
  <2>1. v1' = v1 /\ v12' = v12 /\ v5' = s /\ v4[s] > 0 /\ v4' = [v4 EXCEPT ![s] = v4[s] - 1]
    BY <1>3 DEF Pads!RepeatTaken
  <2>2. v4[s] = 1 /\ v1[s].attached /\ v1[s].gp = "ds4"
    BY <1>0, <2>1 DEF Pads!RepeatInv, Pads!OneRepeat
  <2>3. v4' \in [Slot -> Nat] /\ v4'[s] = 0 /\ \A r \in Slot : r # s => v4'[r] = v4[r]
    BY <1>0, <2>1, <2>2
  <2>4. Pads!OneRepeat'
    BY <2>1, <2>3 DEF Pads!RepeatInv, Pads!OneRepeat
  <2> QED
    BY <1>0, <2>1, <2>2, <2>3, <2>4 DEF Pads!RepeatInv, Pads!PadsTyped
<1>4. ASSUME NEW s \in Slot, NEW works \in BOOLEAN, Pads!GamepadUpdate(s, works) PROVE Pads!RepeatInv'
  <2>1. v1' = v1 /\ v12' = v12 /\ v5' = v5 /\ v5 = None
    BY <1>4 DEF Pads!GamepadUpdate
  <2>2. CASE v1[s].gp = "ds4"
    <3>1. Pads!UpdateAndSend(s, works)
      BY <1>4, <2>2 DEF Pads!GamepadUpdate
    <3> QED
      BY <2>1, <2>2, <3>1, UpdateAndSendKeeps
  <2>3. CASE v1[s].gp # "ds4"
    <3>1. v4' = v4
      BY <1>4, <2>3 DEF Pads!GamepadUpdate
    <3> QED
      BY <2>1, <3>1 DEF Pads!RepeatInv, Pads!PadsTyped, Pads!OneRepeat
  <2> QED
    BY <2>2, <2>3
<1>5. ASSUME NEW works \in BOOLEAN, Pads!RepeatRuns(works) PROVE Pads!RepeatInv'
  <2>1. /\ v1' = v1 /\ v12' = v12 /\ v5' = None /\ v5 \in Slot /\ Pads!UpdateAndSend(v5, works)
        /\ (v1[v5].attached => v1[v5].gp = "ds4")
    BY <1>0, <1>5 DEF Pads!RepeatRuns, Pads!RepeatInv
  <2> QED
    BY <2>1, UpdateAndSendKeeps
<1>6. CASE UNCHANGED Pads!gamepadVars
  BY <1>6 DEF Pads!gamepadVars, Pads!RepeatInv, Pads!PadsTyped, Pads!OneRepeat
<1> QED
  BY <1>1, <1>2, <1>3, <1>4, <1>5, <1>6 DEF Pads!PadNext, Pads!ReportNext

(* Rumble.                                                                 *)

\* No gamepad rumbles at first.
LEMMA RumbleInit ==
  ASSUME Pads!GamepadInit PROVE Pads!RumbleInv
<1>1. Pads!PadsTyped
  BY DEF Pads!GamepadInit, Pads!PadsTyped
<1>2. v6 = <<>> /\ Pads!NoticesOf(0) = {} /\ \A s : Pads!NoticesOf(s) = {}
  BY DEF Pads!GamepadInit, Pads!NoticesOf
<1>3. {v7, v8, v9} \subseteq [Slot -> Rumble \cup {0}]
  BY DEF Pads!GamepadInit
<1>4. \A s \in Slot : v1[s].life = 0 /\ ~v1[s].attached /\ v7[s] = 0
  BY DEF Pads!GamepadInit
<1>5. <<>> \in Seq([slot : Slot, session : Nat, value : Rumble \cup {0}])
  OBVIOUS
<1> QED
  BY <1>1, <1>2, <1>3, <1>4, <1>5 DEF Pads!RumbleInv, Pads!FirstPad, Pads!Feedback

\* What was asked for has been told, or is on its way.
LEMMA RumbleTold == Pads!RumbleInv => Pads!RumbleDelivered
<1> SUFFICES ASSUME Pads!RumbleInv, v6 = <<>>, NEW s \in Slot, Pads!FirstPad(s) PROVE v9[s] = v8[s]
  BY DEF Pads!RumbleDelivered, Pads!FirstPad
<1>1. Pads!NoticesOf(s) = {}
  BY DEF Pads!NoticesOf
<1> QED
  BY <1>1 DEF Pads!RumbleInv, Pads!WillBeTold

\* Every step of the gamepads keeps what their clients were told.
LEMMA RumbleKept ==
  ASSUME Pads!RumbleInv, [Pads!PadNext \/ Pads!FeedbackNext]_(Pads!gamepadVars), None \notin {"x360", "ds4"}
  PROVE  Pads!RumbleInv'
<1>0. /\ Pads!PadsTyped /\ v6 \in Seq(Pads!Feedback)
      /\ v7 \in [Slot -> Rumble \cup {0}] /\ v8 \in [Slot -> Rumble \cup {0}] /\ v9 \in [Slot -> Rumble \cup {0}]
      /\ \A s \in Slot : v1[s].life = 0 => ~v1[s].attached /\ v7[s] = 0 /\ Pads!NoticesOf(s) = {}
      /\ \A s \in Slot : Pads!FirstPad(s) => Pads!WillBeTold(s)
      /\ \A s \in Slot : v1[s].life \in Nat
  BY DEF Pads!RumbleInv, Pads!PadsTyped
<1> SUFFICES /\ Pads!PadsTyped' /\ v6' \in Seq(Pads!Feedback)
             /\ v7' \in [Slot -> Rumble \cup {0}] /\ v8' \in [Slot -> Rumble \cup {0}]
             /\ v9' \in [Slot -> Rumble \cup {0}]
             /\ \A s \in Slot : v1'[s].life = 0 => ~v1'[s].attached /\ v7'[s] = 0 /\ Pads!NoticesOf(s)' = {}
             /\ \A s \in Slot : Pads!FirstPad(s)' => Pads!WillBeTold(s)'
  BY DEF Pads!RumbleInv
<1>1. ASSUME NEW s \in Slot, NEW type \in {"x360", "ds4"}, NEW o \in {"ok", "noclient", "noadd"}, Pads!Alloc(s, type, o)
      PROVE  /\ Pads!PadsTyped' /\ v6' \in Seq(Pads!Feedback)
             /\ v7' \in [Slot -> Rumble \cup {0}] /\ v8' \in [Slot -> Rumble \cup {0}]
             /\ v9' \in [Slot -> Rumble \cup {0}]
             /\ \A r \in Slot : v1'[r].life = 0 => ~v1'[r].attached /\ v7'[r] = 0 /\ Pads!NoticesOf(r)' = {}
             /\ \A r \in Slot : Pads!FirstPad(r)' => Pads!WillBeTold(r)'
  <2>1. v6' = v6 /\ v7' = v7 /\ v8' = [v8 EXCEPT ![s] = 0] /\ v9' = [v9 EXCEPT ![s] = 0]
    BY <1>1 DEF Pads!Alloc
  <2>2. /\ Pads!PadsTyped' /\ ~v1[s].attached
        /\ \A r \in Slot : r # s => v1'[r] = v1[r]
        /\ v1'[s].attached => v1'[s].gp = type
        /\ v1'[s] = v1[s] \/ (v1'[s].gp = type /\ v1'[s].life = v1[s].life + 1)
    BY <1>0, <1>1, AllocGives
  <2>3. \A r \in Slot : Pads!NoticesOf(r)' = Pads!NoticesOf(r)
    BY <2>1 DEF Pads!NoticesOf
  <2>4. /\ v8' \in [Slot -> Rumble \cup {0}] /\ v9' \in [Slot -> Rumble \cup {0}] /\ v8'[s] = 0 /\ v9'[s] = 0
        /\ \A r \in Slot : r # s => v8'[r] = v8[r] /\ v9'[r] = v9[r]
    BY <1>0, <2>1
  <2>5. ASSUME NEW r \in Slot, Pads!FirstPad(r)' PROVE Pads!WillBeTold(r)'
    <3>1. CASE r = s
      <4>1. v1[s].life = 0 /\ v1'[s].gp = type
        BY <1>0, <2>2, <2>5, <3>1 DEF Pads!FirstPad
      <4>2. v7[s] = 0 /\ Pads!NoticesOf(s) = {}
        BY <1>0, <4>1
      <4> QED
        BY <2>1, <2>3, <2>4, <3>1, <4>1, <4>2 DEF Pads!WillBeTold
    <3>2. CASE r # s
      <4>1. Pads!FirstPad(r) /\ Pads!WillBeTold(r)
        BY <1>0, <2>2, <2>5, <3>2 DEF Pads!FirstPad
      <4> QED
        BY <2>1, <2>2, <2>3, <2>4, <3>2, <4>1 DEF Pads!WillBeTold
    <3> QED
      BY <3>1, <3>2
  <2>6. ASSUME NEW r \in Slot, v1'[r].life = 0 PROVE ~v1'[r].attached /\ v7'[r] = 0 /\ Pads!NoticesOf(r)' = {}
    BY <1>0, <2>1, <2>2, <2>3, <2>6
  <2> QED
    BY <1>0, <2>1, <2>2, <2>4, <2>5, <2>6
<1>2. ASSUME NEW s \in Slot, Pads!Free(s)
      PROVE  /\ Pads!PadsTyped' /\ v6' \in Seq(Pads!Feedback)
             /\ v7' \in [Slot -> Rumble \cup {0}] /\ v8' \in [Slot -> Rumble \cup {0}]
             /\ v9' \in [Slot -> Rumble \cup {0}]
             /\ \A r \in Slot : v1'[r].life = 0 => ~v1'[r].attached /\ v7'[r] = 0 /\ Pads!NoticesOf(r)' = {}
             /\ \A r \in Slot : Pads!FirstPad(r)' => Pads!WillBeTold(r)'
  <2>1. v6' = v6 /\ v7' = v7 /\ v8' = v8 /\ v9' = v9
    BY <1>2 DEF Pads!Free
  <2>2. Pads!PadsTyped' /\ ~v1'[s].attached /\ v1'[s].life = v1[s].life /\ \A r \in Slot : r # s => v1'[r] = v1[r]
    BY <1>0, <1>2, FreeGives
  <2>3. \A r \in Slot : Pads!NoticesOf(r)' = Pads!NoticesOf(r)
    BY <2>1 DEF Pads!NoticesOf
  <2>4. ASSUME NEW r \in Slot, Pads!FirstPad(r)' PROVE Pads!WillBeTold(r)'
    <3>1. r # s /\ Pads!FirstPad(r) /\ Pads!WillBeTold(r)
      BY <1>0, <2>2, <2>4 DEF Pads!FirstPad
    <3> QED
      BY <2>1, <2>2, <2>3, <3>1 DEF Pads!WillBeTold
  <2>5. ASSUME NEW r \in Slot, v1'[r].life = 0 PROVE ~v1'[r].attached /\ v7'[r] = 0 /\ Pads!NoticesOf(r)' = {}
    BY <1>0, <2>1, <2>2, <2>3, <2>5
  <2> QED
    BY <1>0, <2>1, <2>2, <2>4, <2>5
<1>3. ASSUME NEW s \in Slot, NEW v \in Rumble \cup {0}, Pads!Notify(s, v)
      PROVE  /\ Pads!PadsTyped' /\ v6' \in Seq(Pads!Feedback)
             /\ v7' \in [Slot -> Rumble \cup {0}] /\ v8' \in [Slot -> Rumble \cup {0}]
             /\ v9' \in [Slot -> Rumble \cup {0}]
             /\ \A r \in Slot : v1'[r].life = 0 => ~v1'[r].attached /\ v7'[r] = 0 /\ Pads!NoticesOf(r)' = {}
             /\ \A r \in Slot : Pads!FirstPad(r)' => Pads!WillBeTold(r)'
  <2> DEFINE new == [slot |-> s, session |-> v1[s].session, value |-> v]
             m == Len(v6) + 1
  <2>1. /\ v6' = Append(v6, new) /\ v8' = [v8 EXCEPT ![s] = v] /\ v7' = v7 /\ v9' = v9
        /\ v1' = v1 /\ v12' = v12 /\ v1[s].attached
    BY <1>3 DEF Pads!Notify
  <2>2. new \in Pads!Feedback /\ new.slot = s /\ new.session = v1[s].session /\ new.value = v
    BY <1>0 DEF Pads!Feedback, Pads!PadsTyped
  <2> HIDE DEF new
  <2>3. /\ v6' \in Seq(Pads!Feedback) /\ DOMAIN v6' = DOMAIN v6 \cup {m} /\ v6'[m] = new
        /\ \A i \in DOMAIN v6 : v6'[i] = v6[i] /\ i < m /\ i \in Nat
        /\ m \in Nat
    BY <1>0, <2>1, <2>2
  <2> HIDE DEF m
  <2>4. /\ Pads!NoticesOf(s)' = Pads!NoticesOf(s) \cup {m}
        /\ \A r \in Slot : r # s => Pads!NoticesOf(r)' = Pads!NoticesOf(r)
    BY <2>2, <2>3 DEF Pads!NoticesOf
  <2>5. v8' \in [Slot -> Rumble \cup {0}] /\ v8'[s] = v /\ \A r \in Slot : r # s => v8'[r] = v8[r]
    BY <1>0, <2>1
  <2>6. ASSUME NEW r \in Slot, Pads!FirstPad(r)' PROVE Pads!WillBeTold(r)'
    <3>1. Pads!FirstPad(r) /\ Pads!WillBeTold(r)
      BY <1>0, <2>1, <2>6 DEF Pads!FirstPad
    <3>2. CASE r # s
      BY <2>1, <2>3, <2>4, <2>5, <3>1, <3>2 DEF Pads!WillBeTold, Pads!NoticesOf
    <3>3. CASE r = s
      <4>1. v1'[s].gp # None /\ v9'[s] = v7'[s] /\ Pads!NoticesOf(s)' # {}
        BY <2>1, <2>4, <3>1, <3>3 DEF Pads!WillBeTold
      <4>2. ASSUME NEW i \in Pads!NoticesOf(s)'
            PROVE  /\ v6'[i].session = v1'[s].session
                   /\ (\A j \in Pads!NoticesOf(s)' : j <= i) => v6'[i].value = v8'[s]
        <5>1. CASE i = m
          BY <2>1, <2>2, <2>3, <2>5, <5>1
        <5>2. CASE i \in Pads!NoticesOf(s)
          <6>1. i \in DOMAIN v6 /\ i < m /\ m \in Pads!NoticesOf(s)'
            BY <2>3, <2>4, <5>2 DEF Pads!NoticesOf
          <6>2. v6'[i].session = v1'[s].session
            <7>1. v6[i].session = v1[s].session
              BY <3>1, <3>3, <5>2 DEF Pads!WillBeTold
            <7> QED
              BY <2>1, <2>3, <6>1, <7>1
          <6>3. ~(\A j \in Pads!NoticesOf(s)' : j <= i)
            BY <2>3, <6>1
          <6> QED
            BY <6>2, <6>3
        <5> QED
          BY <2>4, <4>2, <5>1, <5>2
      <4> QED
        BY <3>3, <4>1, <4>2 DEF Pads!WillBeTold
    <3> QED
      BY <3>2, <3>3
  <2>7. ASSUME NEW r \in Slot, v1'[r].life = 0 PROVE ~v1'[r].attached /\ v7'[r] = 0 /\ Pads!NoticesOf(r)' = {}
    BY <1>0, <2>1, <2>4, <2>7
  <2> QED
    BY <1>0, <2>1, <2>3, <2>5, <2>6, <2>7 DEF Pads!PadsTyped
<1>4. ASSUME Pads!RumbleTask
      PROVE  /\ Pads!PadsTyped' /\ v6' \in Seq(Pads!Feedback)
             /\ v7' \in [Slot -> Rumble \cup {0}] /\ v8' \in [Slot -> Rumble \cup {0}]
             /\ v9' \in [Slot -> Rumble \cup {0}]
             /\ \A r \in Slot : v1'[r].life = 0 => ~v1'[r].attached /\ v7'[r] = 0 /\ Pads!NoticesOf(r)' = {}
             /\ \A r \in Slot : Pads!FirstPad(r)' => Pads!WillBeTold(r)'
  <2> DEFINE n == Head(v6)
             s == n.slot
             found == v1[s].gp # None /\ v1[s].session = n.session
  <2>1. v6 # <<>> /\ v6' = Tail(v6) /\ v1' = v1 /\ v8' = v8 /\ v12' = v12
    BY <1>4 DEF Pads!RumbleTask
  <2>2. /\ n \in Pads!Feedback /\ n = v6[1] /\ s \in Slot /\ n.value \in Rumble \cup {0}
        /\ 1 \in DOMAIN v6 /\ DOMAIN v6 = 1..Len(v6) /\ Len(v6) \in Nat
        /\ v6' \in Seq(Pads!Feedback) /\ \A i \in DOMAIN v6' : i + 1 \in DOMAIN v6 /\ v6'[i] = v6[i + 1] /\ i \in Nat
        /\ \A i \in DOMAIN v6 : i # 1 => i - 1 \in DOMAIN v6'
    <3>1. /\ n = v6[1] /\ 1 \in DOMAIN v6 /\ DOMAIN v6 = 1..Len(v6) /\ Len(v6) \in Nat
          /\ v6' \in Seq(Pads!Feedback) /\ DOMAIN v6' = 1..(Len(v6) - 1)
          /\ \A i \in DOMAIN v6' : v6'[i] = v6[i + 1]
      BY <1>0, <2>1
    <3>2. n \in Pads!Feedback
      BY <1>0, <3>1
    <3>3. s \in Slot /\ n.value \in Rumble \cup {0}
      BY <3>2 DEF Pads!Feedback
    <3> QED
      BY <3>1, <3>2, <3>3
  <2>3. /\ v7' \in [Slot -> Rumble \cup {0}] /\ v9' \in [Slot -> Rumble \cup {0}]
        /\ \A r \in Slot : r # s => v7'[r] = v7[r] /\ v9'[r] = v9[r]
        /\ found /\ v9[s] = v7[s] => v7'[s] = n.value /\ v9'[s] = n.value
    <3>1. CASE found /\ n.value # v7[s]
      <4>1. v7' = [v7 EXCEPT ![s] = n.value] /\ v9' = [v9 EXCEPT ![s] = n.value]
        BY <1>4, <3>1 DEF Pads!RumbleTask, Pads!Resend
      <4> HIDE DEF n, s
      <4> QED
        BY <1>0, <2>2, <4>1
    <3>2. CASE ~(found /\ n.value # v7[s])
      <4>1. v7' = v7 /\ v9' = v9
        BY <1>4, <3>2 DEF Pads!RumbleTask, Pads!Resend
      <4> QED
        BY <1>0, <3>2, <4>1
    <3> QED
      BY <3>1, <3>2
  <2> HIDE DEF found
  <2>4. \A r \in Slot : \A i : i \in Pads!NoticesOf(r)' <=> i \in DOMAIN v6' /\ i + 1 \in Pads!NoticesOf(r)
    BY <2>2 DEF Pads!NoticesOf
  <2>5. 1 \in Pads!NoticesOf(s) /\ \A r \in Slot : r # s => 1 \notin Pads!NoticesOf(r)
    BY <2>2 DEF Pads!NoticesOf
  <2> HIDE DEF n, s
  <2>6. ASSUME NEW r \in Slot, Pads!FirstPad(r)' PROVE Pads!WillBeTold(r)'
    <3>1. Pads!FirstPad(r) /\ Pads!WillBeTold(r)
      BY <1>0, <2>1, <2>6 DEF Pads!FirstPad
    <3>2. v9'[r] = v7'[r]
      <4>1. CASE r # s
        BY <2>3, <3>1, <4>1 DEF Pads!WillBeTold
      <4>2. CASE r = s
        <5>1. v6[1].session = v1[s].session /\ v1[s].gp # None /\ v9[s] = v7[s]
          BY <2>5, <3>1, <4>2 DEF Pads!WillBeTold
        <5>2. found
          BY <2>2, <5>1 DEF found, n, s
        <5> QED
          BY <2>3, <4>2, <5>1, <5>2
      <4> QED
        BY <4>1, <4>2
    <3>3. ASSUME NEW i \in Pads!NoticesOf(r)'
          PROVE  /\ v6'[i].session = v1'[r].session
                 /\ (\A j \in Pads!NoticesOf(r)' : j <= i) => v6'[i].value = v8'[r]
      <4>1. i + 1 \in Pads!NoticesOf(r) /\ v6'[i] = v6[i + 1] /\ i \in Nat
        BY <2>2, <2>4, <3>3
      <4>2. ASSUME \A j \in Pads!NoticesOf(r)' : j <= i, NEW j \in Pads!NoticesOf(r) PROVE j <= i + 1
        <5>1. j \in DOMAIN v6 /\ j \in Nat
          BY <2>2 DEF Pads!NoticesOf
        <5>2. CASE j = 1
          BY <4>1, <5>2
        <5>3. CASE j # 1
          <6>1. j - 1 \in DOMAIN v6' /\ (j - 1) + 1 = j
            BY <2>2, <5>1, <5>3
          <6>2. j - 1 \in Pads!NoticesOf(r)'
            BY <2>4, <6>1
          <6> QED
            BY <4>1, <4>2, <5>1, <6>2
        <5> QED
          BY <5>2, <5>3
      <4>3. /\ v6[i + 1].session = v1[r].session
            /\ (\A j \in Pads!NoticesOf(r) : j <= i + 1) => v6[i + 1].value = v8[r]
        BY <3>1, <4>1 DEF Pads!WillBeTold
      <4> QED
        BY <2>1, <4>1, <4>2, <4>3
    <3>4. ASSUME Pads!NoticesOf(r)' = {} PROVE v9'[r] = v8'[r]
      <4>1. ASSUME NEW j \in Pads!NoticesOf(r) PROVE j = 1
        <5>1. j \in DOMAIN v6 /\ j \in Nat
          BY <2>2 DEF Pads!NoticesOf
        <5>2. j # 1 => j - 1 \in Pads!NoticesOf(r)'
          BY <2>2, <2>4, <5>1
        <5> QED
          BY <3>4, <5>2
      <4>2. CASE r # s
        <5>1. Pads!NoticesOf(r) = {}
          BY <2>5, <4>1, <4>2
        <5> QED
          BY <2>1, <2>3, <3>1, <4>2, <5>1 DEF Pads!WillBeTold
      <4>3. CASE r = s
        <5>1. v6[1].value = v8[r] /\ v6[1].session = v1[r].session
          <6>1. 1 \in Pads!NoticesOf(r) /\ \A j \in Pads!NoticesOf(r) : j <= 1
            BY <2>5, <4>1, <4>3
          <6>2. \A i \in Pads!NoticesOf(r) :
                  /\ v6[i].session = v1[r].session
                  /\ (\A j \in Pads!NoticesOf(r) : j <= i) => v6[i].value = v8[r]
            BY <3>1 DEF Pads!WillBeTold
          <6> QED
            BY <6>1, <6>2
        <5>2. found /\ v9[s] = v7[s]
          BY <2>2, <3>1, <4>3, <5>1 DEF Pads!WillBeTold, found, n, s
        <5> QED
          BY <2>1, <2>2, <2>3, <4>3, <5>1, <5>2
      <4> QED
        BY <4>2, <4>3
    <3> QED
      BY <2>1, <3>1, <3>2, <3>3, <3>4 DEF Pads!WillBeTold
  <2>7. ASSUME NEW r \in Slot, v1'[r].life = 0 PROVE ~v1'[r].attached /\ v7'[r] = 0 /\ Pads!NoticesOf(r)' = {}
    <3>1. ~v1'[r].attached /\ v7[r] = 0 /\ Pads!NoticesOf(r) = {} /\ r # s
      BY <1>0, <2>1, <2>5, <2>7
    <3> QED
      BY <2>3, <2>4, <3>1
  <2> QED
    BY <1>0, <2>1, <2>2, <2>3, <2>6, <2>7 DEF Pads!PadsTyped
<1>5. CASE UNCHANGED Pads!gamepadVars
  BY <1>0, <1>5 DEF Pads!gamepadVars, Pads!PadsTyped, Pads!NoticesOf, Pads!FirstPad, Pads!WillBeTold
<1> QED
  BY <1>1, <1>2, <1>3, <1>4, <1>5 DEF Pads!PadNext, Pads!FeedbackNext

(* Fingers on the touchpad.                                                *)

\* No finger is on a touchpad at first.
LEMMA TouchpadInit == Pads!GamepadInit => Pads!TouchpadInv
<1> SUFFICES ASSUME Pads!GamepadInit PROVE Pads!TouchpadInv
  OBVIOUS
<1>1. Pads!PadsTyped
  BY DEF Pads!GamepadInit, Pads!PadsTyped
<1>2. Pads!NoTouch \in [map : [Finger -> {0, 1, None}], available : SUBSET {0, 1}, down : SUBSET {0, 1}]
  BY DEF Pads!NoTouch
<1>3. v10 = [s \in Slot |-> Pads!NoTouch] /\ v11 \in [Slot -> SUBSET Finger]
  BY DEF Pads!GamepadInit
<1>4. \A s \in Slot : ~v1[s].attached
  BY DEF Pads!GamepadInit
<1> QED
  BY <1>1, <1>2, <1>3, <1>4 DEF Pads!TouchpadInv, Pads!FirstPad

TouchRecord == [map : [Finger -> {0, 1, None}], available : SUBSET {0, 1}, down : SUBSET {0, 1}]

\* What TouchpadInv says of a touchpad's report t and the fingers h on it.
Fits(t, h) ==
  /\ t.down \cap t.available = {} /\ t.down \cup t.available = {0, 1}
  /\ \A f \in Finger : t.map[f] # None =>
       /\ f \in h /\ t.map[f] \in t.down
       /\ \A g \in Finger : t.map[g] = t.map[f] => g = f

Holds(h, f, e) == CASE e = "down" -> h \cup {f} [] e = "up" -> h \ {f}
                    [] e = "cancel_all" -> {} [] OTHER -> h

\* A touchpad without fingers fits any fingers held.
LEMMA NoTouchFits == ASSUME NEW h PROVE Fits(Pads!NoTouch, h) /\ Pads!NoTouch \in TouchRecord
BY DEF Pads!NoTouch, Fits, TouchRecord

\* A touchpad stays one: two fingers at most.
LEMMA TouchedTyped ==
  ASSUME NEW t \in TouchRecord, NEW f \in Finger, NEW e
  PROVE  Pads!Touched(t, f, e) \in TouchRecord
<1>0. /\ t.map \in [Finger -> {0, 1, None}] /\ t.available \in SUBSET {0, 1} /\ t.down \in SUBSET {0, 1}
      /\ t.map[f] \in {0, 1, None}
  BY DEF TouchRecord
<1>1. CASE e = "down" /\ t.available # {}
  <2> DEFINE i == IF 0 \in t.available THEN 0 ELSE 1
  <2>1. Pads!Touched(t, f, e) = [map |-> [t.map EXCEPT ![f] = i], available |-> t.available \ {i}, down |-> t.down \cup {i}]
    BY <1>1 DEF Pads!Touched
  <2>2. i \in {0, 1}
    OBVIOUS
  <2> HIDE DEF i
  <2> QED
    BY <1>0, <2>1, <2>2 DEF TouchRecord
<1>2. CASE e = "up" /\ t.map[f] # None
  BY <1>0, <1>2 DEF Pads!Touched, TouchRecord
<1>3. CASE e = "cancel_all"
  BY <1>3, NoTouchFits DEF Pads!Touched
<1>4. CASE ~(e = "down" /\ t.available # {}) /\ ~(e = "up" /\ t.map[f] # None) /\ e # "cancel_all"
  BY <1>4 DEF Pads!Touched
<1> QED
  BY <1>1, <1>2, <1>3, <1>4

\* An event of a finger leaves the touchpad as the fingers held.
LEMMA TouchedFits ==
  ASSUME NEW t \in TouchRecord, NEW f \in Finger, NEW e, NEW h, Fits(t, h), None \notin {0, 1}
  PROVE  Fits(Pads!Touched(t, f, e), Holds(h, f, e))
<1>0. /\ t.map \in [Finger -> {0, 1, None}] /\ t.available \in SUBSET {0, 1} /\ t.down \in SUBSET {0, 1}
      /\ t.map[f] \in {0, 1, None}
  BY DEF TouchRecord
<1>1. CASE e = "down" /\ t.available # {}
  <2> DEFINE i == IF 0 \in t.available THEN 0 ELSE 1
             map == [t.map EXCEPT ![f] = i]
  <2>1. /\ Pads!Touched(t, f, e) = [map |-> map, available |-> t.available \ {i}, down |-> t.down \cup {i}]
        /\ Holds(h, f, e) = h \cup {f}
    BY <1>1 DEF Pads!Touched, Holds
  <2>2. i \in t.available /\ i \in {0, 1} /\ i \notin t.down
    BY <1>0, <1>1 DEF Fits
  <2> HIDE DEF i
  <2>3. map[f] = i /\ \A g \in Finger : g # f => map[g] = t.map[g]
    BY <1>0
  <2> HIDE DEF map
  <2>4. \A g \in Finger : g # f => map[g] # i
    BY <2>2, <2>3 DEF Fits
  <2>5. \A g \in Finger : map[g] # None =>
          /\ g \in h \cup {f} /\ map[g] \in t.down \cup {i}
          /\ \A k \in Finger : map[k] = map[g] => k = g
    BY <2>2, <2>3, <2>4 DEF Fits
  <2>6. (t.down \cup {i}) \cap (t.available \ {i}) = {} /\ (t.down \cup {i}) \cup (t.available \ {i}) = {0, 1}
    BY <2>2 DEF Fits
  <2> QED
    BY <2>1, <2>5, <2>6 DEF Fits
<1>2. CASE e = "up" /\ t.map[f] # None
  <2> DEFINE i == t.map[f]
             map == [t.map EXCEPT ![f] = None]
  <2>1. /\ Pads!Touched(t, f, e) = [map |-> map, available |-> t.available \cup {i}, down |-> t.down \ {i}]
        /\ Holds(h, f, e) = h \ {f}
    BY <1>2 DEF Pads!Touched, Holds
  <2>2. i \in {0, 1} /\ i \in t.down /\ \A g \in Finger : g # f => t.map[g] # i
    BY <1>0, <1>2 DEF Fits
  <2>3. map[f] = None /\ \A g \in Finger : g # f => map[g] = t.map[g]
    BY <1>0
  <2> HIDE DEF map, i
  <2>5. \A g \in Finger : map[g] # None =>
          /\ g \in h \ {f} /\ map[g] \in t.down \ {i}
          /\ \A k \in Finger : map[k] = map[g] => k = g
    BY <2>2, <2>3 DEF Fits
  <2>6. (t.down \ {i}) \cap (t.available \cup {i}) = {} /\ (t.down \ {i}) \cup (t.available \cup {i}) = {0, 1}
    BY <2>2 DEF Fits
  <2> QED
    BY <2>1, <2>5, <2>6 DEF Fits
<1>3. CASE e = "cancel_all"
  BY <1>3, NoTouchFits DEF Pads!Touched
<1>4. CASE ~(e = "down" /\ t.available # {}) /\ ~(e = "up" /\ t.map[f] # None) /\ e # "cancel_all"
  <2>1. Pads!Touched(t, f, e) = t
    BY <1>4 DEF Pads!Touched
  <2>2. \A g \in Finger : g \in h /\ t.map[g] # None => g \in Holds(h, f, e)
    BY <1>4 DEF Holds
  <2> QED
    BY <2>1, <2>2 DEF Fits
<1> QED
  BY <1>1, <1>2, <1>3, <1>4

\* Every step of the gamepads keeps their touchpads.
LEMMA TouchpadKept ==
  ASSUME Pads!TouchpadInv, [Pads!PadNext \/ Pads!TouchpadNext]_(Pads!gamepadVars), None \notin {0, 1}
  PROVE  Pads!TouchpadInv'
<1>0. /\ Pads!PadsTyped /\ v10 \in [Slot -> TouchRecord] /\ v11 \in [Slot -> SUBSET Finger]
      /\ \A s \in Slot : v1[s].life = 0 => ~v1[s].attached /\ v10[s] = Pads!NoTouch
      /\ \A s \in Slot : Pads!FirstPad(s) => Fits(v10[s], v11[s])
      /\ \A s \in Slot : v1[s].life \in Nat
  BY DEF Pads!TouchpadInv, TouchRecord, Fits, Pads!PadsTyped
<1> SUFFICES /\ Pads!PadsTyped' /\ v10' \in [Slot -> TouchRecord] /\ v11' \in [Slot -> SUBSET Finger]
             /\ \A s \in Slot : v1'[s].life = 0 => ~v1'[s].attached /\ v10'[s] = Pads!NoTouch
             /\ \A s \in Slot : Pads!FirstPad(s)' => Fits(v10'[s], v11'[s])
  BY DEF Pads!TouchpadInv, TouchRecord, Fits
<1>1. ASSUME NEW s \in Slot, NEW type \in {"x360", "ds4"}, NEW o \in {"ok", "noclient", "noadd"}, Pads!Alloc(s, type, o)
      PROVE  /\ Pads!PadsTyped' /\ v10' \in [Slot -> TouchRecord] /\ v11' \in [Slot -> SUBSET Finger]
             /\ \A r \in Slot : v1'[r].life = 0 => ~v1'[r].attached /\ v10'[r] = Pads!NoTouch
             /\ \A r \in Slot : Pads!FirstPad(r)' => Fits(v10'[r], v11'[r])
  <2>1. v11' = [v11 EXCEPT ![s] = {}]
    BY <1>1 DEF Pads!Alloc
  <2>2. /\ Pads!PadsTyped' /\ ~v1[s].attached
        /\ \A r \in Slot : r # s => v1'[r] = v1[r]
        /\ \/ v1'[s] = v1[s] /\ v10' = v10
           \/ /\ v1'[s].gp = type /\ v1'[s].life = v1[s].life + 1
              /\ v10' = IF type = "x360" THEN v10 ELSE [v10 EXCEPT ![s].available = {0, 1}, ![s].down = {}]
    BY <1>0, <1>1, AllocGives
  <2>3. v11' \in [Slot -> SUBSET Finger] /\ v11'[s] = {} /\ \A r \in Slot : r # s => v11'[r] = v11[r]
    BY <1>0, <2>1
  <2>4. v10' \in [Slot -> TouchRecord] /\ \A r \in Slot : r # s => v10'[r] = v10[r]
    BY <1>0, <2>2 DEF TouchRecord
  <2>5. v10[s] = Pads!NoTouch => v10'[s] = Pads!NoTouch
    <3>1. CASE v10' = v10
      BY <3>1
    <3>2. CASE v10' = [v10 EXCEPT ![s].available = {0, 1}, ![s].down = {}]
      <4> SUFFICES ASSUME v10[s] = Pads!NoTouch PROVE v10'[s] = Pads!NoTouch
        OBVIOUS
      <4>1. v10'[s] = [[v10[s] EXCEPT !.available = {0, 1}] EXCEPT !.down = {}]
        BY <1>0, <3>2
      <4>2. \A r \in TouchRecord : r.available = {0, 1} => [r EXCEPT !.available = {0, 1}] = r
        BY DEF TouchRecord
      <4>3. \A r \in TouchRecord : r.down = {} => [r EXCEPT !.down = {}] = r
        BY DEF TouchRecord
      <4>4. Pads!NoTouch \in TouchRecord /\ Pads!NoTouch.available = {0, 1} /\ Pads!NoTouch.down = {}
        BY NoTouchFits DEF Pads!NoTouch
      <4> QED
        BY <4>1, <4>2, <4>3, <4>4
    <3> QED
      BY <2>2, <3>1, <3>2
  <2>6. ASSUME NEW r \in Slot, Pads!FirstPad(r)' PROVE Fits(v10'[r], v11'[r])
    <3>1. CASE r = s
      <4>1. v1[s].life = 0
        BY <1>0, <2>2, <2>6, <3>1 DEF Pads!FirstPad
      <4> QED
        BY <1>0, <2>5, <3>1, <4>1, NoTouchFits
    <3>2. CASE r # s
      BY <1>0, <2>2, <2>3, <2>4, <2>6, <3>2 DEF Pads!FirstPad
    <3> QED
      BY <3>1, <3>2
  <2>7. ASSUME NEW r \in Slot, v1'[r].life = 0 PROVE ~v1'[r].attached /\ v10'[r] = Pads!NoTouch
    BY <1>0, <2>2, <2>4, <2>5, <2>7
  <2> QED
    BY <2>2, <2>3, <2>4, <2>6, <2>7
<1>2. ASSUME NEW s \in Slot, Pads!Free(s)
      PROVE  /\ Pads!PadsTyped' /\ v10' \in [Slot -> TouchRecord] /\ v11' \in [Slot -> SUBSET Finger]
             /\ \A r \in Slot : v1'[r].life = 0 => ~v1'[r].attached /\ v10'[r] = Pads!NoTouch
             /\ \A r \in Slot : Pads!FirstPad(r)' => Fits(v10'[r], v11'[r])
  <2>1. v10' = v10 /\ v11' = v11
    BY <1>2 DEF Pads!Free
  <2>2. /\ Pads!PadsTyped' /\ ~v1'[s].attached /\ v1[s].attached /\ v1'[s].life = v1[s].life
        /\ \A r \in Slot : r # s => v1'[r] = v1[r]
    BY <1>0, <1>2, FreeGives
  <2> QED
    BY <1>0, <2>1, <2>2 DEF Pads!FirstPad
<1>3. ASSUME NEW s \in Slot, NEW f \in Finger, NEW e \in {"down", "up", "move", "cancel_all"}, NEW works \in BOOLEAN,
             Pads!TouchEvent(s, f, e, works)
      PROVE  /\ Pads!PadsTyped' /\ v10' \in [Slot -> TouchRecord] /\ v11' \in [Slot -> SUBSET Finger]
             /\ \A r \in Slot : v1'[r].life = 0 => ~v1'[r].attached /\ v10'[r] = Pads!NoTouch
             /\ \A r \in Slot : Pads!FirstPad(r)' => Fits(v10'[r], v11'[r])
  <2>1. /\ v1' = v1 /\ v12' = v12 /\ v1[s].attached
        /\ v10' = [v10 EXCEPT ![s] = Pads!Touched(v10[s], f, e)] /\ v11' = [v11 EXCEPT ![s] = Holds(v11[s], f, e)]
    BY <1>3 DEF Pads!TouchEvent, Holds
  <2>2. Pads!Touched(v10[s], f, e) \in TouchRecord
    BY <1>0, TouchedTyped
  <2>3. Holds(v11[s], f, e) \in SUBSET Finger
    BY <1>0 DEF Holds
  <2>4. /\ v10' \in [Slot -> TouchRecord] /\ v10'[s] = Pads!Touched(v10[s], f, e)
        /\ \A r \in Slot : r # s => v10'[r] = v10[r]
        /\ v11' \in [Slot -> SUBSET Finger] /\ v11'[s] = Holds(v11[s], f, e)
        /\ \A r \in Slot : r # s => v11'[r] = v11[r]
    BY <1>0, <2>1, <2>2, <2>3
  <2>5. Pads!FirstPad(s) => Fits(v10'[s], v11'[s])
    BY <1>0, <2>4, TouchedFits
  <2> QED
    BY <1>0, <2>1, <2>4, <2>5 DEF Pads!PadsTyped, Pads!FirstPad
<1>4. CASE UNCHANGED Pads!gamepadVars
  BY <1>0, <1>4 DEF Pads!gamepadVars, Pads!PadsTyped, Pads!FirstPad
<1> QED
  BY <1>1, <1>2, <1>3, <1>4 DEF Pads!PadNext, Pads!TouchpadNext

\* The fingers shown are the fingers held.
LEMMA TouchpadSeen == Pads!TouchpadInv => Pads!TouchpadMatches
<1> SUFFICES ASSUME Pads!TouchpadInv, NEW s \in Slot, Pads!FirstPad(s)
             PROVE  LET known == {f \in Finger : v10[s].map[f] # None}
                        used == {v10[s].map[f] : f \in known}
                    IN  /\ known \subseteq v11[s] /\ Pads!Cardinality(used) = Pads!Cardinality(known)
                        /\ used \subseteq v10[s].down /\ v10[s].down \cap v10[s].available = {}
                        /\ v10[s].down \cup v10[s].available = {0, 1}
  BY DEF Pads!TouchpadMatches, Pads!FirstPad
<1> DEFINE known == {f \in Finger : v10[s].map[f] # None}
           used == {v10[s].map[f] : f \in known}
           bij == [f \in known |-> v10[s].map[f]]
<1>1. v10[s].map \in [Finger -> {0, 1, None}]
  BY DEF Pads!TouchpadInv
<1>2. /\ known \subseteq v11[s] /\ used \subseteq v10[s].down /\ v10[s].down \cap v10[s].available = {}
      /\ v10[s].down \cup v10[s].available = {0, 1}
      /\ \A f, g \in known : v10[s].map[f] = v10[s].map[g] => f = g
  BY DEF Pads!TouchpadInv
<1>3. used \subseteq {0, 1} /\ IsFiniteSet({0, 1})
  <2>1. used \subseteq {0, 1}
    BY <1>1
  <2>2. IsFiniteSet({0}) /\ {0} \cup {1} = {0, 1}
    BY FS_Singleton
  <2>3. IsFiniteSet({0} \cup {1})
    BY <2>2, FS_AddElement, Zenon
  <2> HIDE DEF used
  <2> QED
    BY <2>1, <2>2, <2>3
<1>4. IsFiniteSet(used)
  BY <1>3, FS_Subset
<1>5. bij \in Injection(known, used) /\ bij \in Surjection(known, used)
  <2>1. bij \in [known -> used] /\ \A t \in used : \E f \in known : bij[f] = t
    OBVIOUS
  <2>2. \A f, g \in known : bij[f] = bij[g] => f = g
    BY <1>2
  <2> QED
    BY <2>1, <2>2 DEF Injection, Surjection, IsInjective
<1>7. Pads!Cardinality(used) = Pads!Cardinality(known)
  <2>1. Cardinality(used) = Cardinality(known)
    BY <1>4, <1>5, FS_Injection
  <2> HIDE DEF used, known
  <2> QED
    BY <2>1 DEF Pads!Cardinality, Cardinality
<1> QED
  BY <1>2, <1>7

(***************************************************************************)
(* Touch and pen (windows/input.cpp).                                      *)
(***************************************************************************)

\* The least of a set of numbers.
LEMMA MinMeans ==
  ASSUME NEW S \in SUBSET Nat, S # {}
  PROVE  Pads!Min(S) \in S /\ \A y \in S : Pads!Min(S) <= y
<1>1. \E x \in S : \A y \in S : x <= y
  BY LeastNat
<1> QED
  BY <1>1 DEF Pads!Min

Entry == [id : Pointer \cup {None}, flags : SUBSET {"range", "contact"}]

\* A table of pointers: of each there is one slot.
Table(u) ==
  /\ u \in [1..Slots -> Entry]
  /\ \A i \in Pads!Used(u) : u[i].id \in Pointer
  /\ \A i, j \in Pads!Used(u) : u[i].id = u[j].id => i = j

Entries(u) == {u[i] : i \in Pads!Used(u)}
Contacts(u) == {u[i].id : i \in {k \in DOMAIN u : "contact" \in u[k].flags}}

\* The contacts of a table of slots.
LEMMA ContactsOf ==
  ASSUME NEW u, NEW x
  PROVE  x \in Contacts(u) <=> \E e \in Entries(u) : e.id = x /\ "contact" \in e.flags
BY DEF Contacts, Entries, Pads!Used

\* The empty slot has no pointer and no flags.
LEMMA EmptyFits == Pads!Empty \in Entry /\ Pads!Empty.flags = {} /\ Pads!Empty.id = None
BY DEF Pads!Empty, Entry

\* One turn of the compaction keeps the entries.
LEMMA FilledKeeps ==
  ASSUME Slots \in Nat, NEW u, Table(u), NEW i \in 1..Slots,
         \A k \in 1..i - 1 : k \in Pads!Used(u) \/ \A j \in Pads!Used(u) : j <= k
  PROVE  /\ Table(Pads!Filled(u, i)) /\ Entries(Pads!Filled(u, i)) = Entries(u)
         /\ \A k \in 1..i : k \in Pads!Used(Pads!Filled(u, i)) \/ \A j \in Pads!Used(Pads!Filled(u, i)) : j <= k
<1> DEFINE later == {j \in Pads!Used(u) : j > i}
<1>0. DOMAIN u = 1..Slots /\ Pads!Used(u) \subseteq 1..Slots /\ i \in Nat
  BY DEF Table, Pads!Used
<1>1. CASE i \in Pads!Used(u)
  <2>1. Pads!Filled(u, i) = u
    BY <1>1 DEF Pads!Filled
  <2> QED
    BY <1>0, <1>1, <2>1
<1>2. CASE later = {}
  <2>1. Pads!Filled(u, i) = u
    BY <1>2 DEF Pads!Filled
  <2>2. \A j \in Pads!Used(u) : j <= i
    BY <1>0, <1>2
  <2> QED
    BY <1>0, <2>1, <2>2
<1>3. CASE i \notin Pads!Used(u) /\ later # {}
  <2> DEFINE m == Pads!Min(later)
             v == [u EXCEPT ![i] = u[m], ![m] = Pads!Empty]
  <2>1. Pads!Filled(u, i) = v
    BY <1>3 DEF Pads!Filled
  <2>2. later \in SUBSET Nat
    BY <1>0
  <2>3. m \in later /\ \A y \in later : m <= y
    BY <1>3, <2>2, MinMeans
  <2> HIDE DEF m
  <2>4. m \in Pads!Used(u) /\ m \in 1..Slots /\ i # m /\ i < m /\ \A j \in Pads!Used(u) : j <= i \/ m <= j
    BY <1>0, <2>3
  <2>5. /\ v \in [1..Slots -> Entry] /\ v[i] = u[m] /\ v[m] = Pads!Empty
        /\ \A k \in 1..Slots : k # i /\ k # m => v[k] = u[k]
    BY <1>0, <2>4, EmptyFits DEF Table
  <2> HIDE DEF v, later
  <2>6. DOMAIN v = 1..Slots
    BY <2>5
  <2>7. Pads!Used(v) = (Pads!Used(u) \ {m}) \cup {i}
    <3>1. \A k \in 1..Slots : k # i /\ k # m => (k \in Pads!Used(v) <=> k \in Pads!Used(u))
      BY <1>0, <2>5, <2>6 DEF Pads!Used
    <3>2. i \in Pads!Used(v) /\ m \notin Pads!Used(v)
      BY <1>0, <2>4, <2>5, <2>6, EmptyFits DEF Pads!Used
    <3>3. Pads!Used(v) \subseteq 1..Slots
      BY <2>6 DEF Pads!Used
    <3> QED
      BY <1>0, <2>4, <3>1, <3>2, <3>3
  <2>8. \A k \in Pads!Used(v) : IF k = i THEN v[k] = u[m] ELSE k \in Pads!Used(u) /\ k # m /\ v[k] = u[k]
    BY <1>0, <1>3, <2>5, <2>7
  <2>9. Entries(v) = Entries(u)
    <3>1. ASSUME NEW k \in Pads!Used(u) PROVE u[k] \in Entries(v)
      <4>1. CASE k = m
        BY <2>5, <2>7, <4>1 DEF Entries
      <4>2. CASE k # m
        BY <1>0, <1>3, <2>5, <2>7, <4>2 DEF Entries
      <4> QED
        BY <4>1, <4>2
    <3>2. ASSUME NEW k \in Pads!Used(v) PROVE v[k] \in Entries(u)
      BY <2>4, <2>8 DEF Entries
    <3> QED
      BY <3>1, <3>2 DEF Entries
  <2>10. Table(v)
    <3>1. \A k \in Pads!Used(v) : v[k].id \in Pointer
      BY <2>4, <2>8 DEF Table
    <3>2. \A k, j \in Pads!Used(v) : v[k].id = v[j].id => k = j
      BY <2>4, <2>8 DEF Table
    <3> QED
      BY <2>5, <3>1, <3>2 DEF Table
  <2>11. ASSUME NEW k \in 1..i PROVE k \in Pads!Used(v) \/ \A j \in Pads!Used(v) : j <= k
    <3>1. CASE k = i
      BY <2>7, <3>1
    <3>2. CASE k # i
      <4>1. k \in 1..i - 1 /\ k < m
        BY <1>0, <2>4, <3>2
      <4>2. k \in Pads!Used(u)
        BY <2>4, <4>1
      <4> QED
        BY <2>7, <4>1, <4>2
    <3> QED
      BY <3>1, <3>2
  <2> QED
    BY <2>1, <2>9, <2>10, <2>11
<1> QED
  BY <1>1, <1>2, <1>3

\* Compaction goes from slot to slot.
LEMMA CompactionUnfolds ==
  ASSUME Slots \in Nat, NEW t
  PROVE  Pads!CompactedUpTo(t) = [i \in 0..Slots |-> IF i = 0 THEN t ELSE Pads!Filled(Pads!CompactedUpTo(t)[i - 1], i)]
<1> DEFINE P(f, l) == f = [i \in 0..l |-> IF i = 0 THEN t ELSE Pads!Filled(f[i - 1], i)]
           S == {l \in Nat : ~ \E f : P(f, l)}
<1>1. S = {}
  <2> SUFFICES ASSUME S # {} PROVE FALSE
    OBVIOUS
  <2>1. PICK l \in S : \A y \in S : l <= y
    BY LeastNat
  <2>2. P([i \in 0..0 |-> t], 0)
    OBVIOUS
  <2>3. l # 0 /\ l \in Nat
    BY <2>1, <2>2
  <2>4. l - 1 \in Nat /\ l - 1 \notin S
    <3> HIDE DEF S
    <3> QED
      BY <2>1, <2>3
  <2>5. PICK f : P(f, l - 1)
    BY <2>4
  <2> DEFINE g == [i \in 0..l |-> IF i = l THEN Pads!Filled(f[l - 1], l) ELSE f[i]]
  <2>6. \A i \in 0..l : g[i] = IF i = 0 THEN t ELSE Pads!Filled(g[i - 1], i)
    BY <2>3, <2>4, <2>5
  <2>7. P(g, l)
    BY <2>6
  <2> QED
    BY <2>1, <2>7
<1>3. \E f : P(f, Slots)
  BY <1>1
<1>4. P(CHOOSE f : P(f, Slots), Slots)
  BY <1>3
<1> QED
  BY <1>4 DEF Pads!CompactedUpTo

\* A set of slots without a gap is that of the first ones.
LEMMA Prefix ==
  ASSUME NEW n \in Nat, NEW S \in SUBSET (1..n), \A k \in 1..n : k \in S \/ \A j \in S : j <= k
  PROVE  \E u \in 0..n : S = 1..u
<1> DEFINE B == {u \in Nat : \A j \in S : j <= u}
<1>1. n \in B
  OBVIOUS
<1>2. PICK u \in B : \A y \in B : u <= y
  <2>1. B \in SUBSET Nat /\ B # {}
    BY <1>1
  <2> HIDE DEF B
  <2> QED
    BY <2>1, LeastNat
<1>3. u \in 0..n
  BY <1>1, <1>2
<1>4. S \subseteq 1..u
  BY <1>2
<1>5. ASSUME NEW k \in 1..u PROVE k \in S
  <2>1. CASE k \in S
    BY <2>1
  <2>2. CASE k \notin S
    <3>1. \A j \in S : j <= k /\ j # k
      BY <1>3, <2>2
    <3>2. k - 1 \in Nat /\ \A j \in S : j <= k - 1
      BY <3>1
    <3>3. k - 1 \in B
      BY <3>2
    <3>4. u <= k - 1
      BY <1>2, <3>3
    <3> QED
      BY <1>3, <3>4
  <2> QED
    BY <2>1, <2>2
<1> QED
  BY <1>3, <1>4, <1>5

\* Compaction keeps every pointer and leaves the used slots in front.
LEMMA CompactedMeans ==
  ASSUME Slots \in Nat, NEW t, Table(t)
  PROVE  /\ Table(Pads!Compacted(t)) /\ Entries(Pads!Compacted(t)) = Entries(t)
         /\ \E u \in 0..Slots : Pads!Used(Pads!Compacted(t)) = 1..u
<1> DEFINE c == Pads!CompactedUpTo(t)
           Good(n) == /\ Table(c[n]) /\ Entries(c[n]) = Entries(t)
                      /\ \A k \in 1..n : k \in Pads!Used(c[n]) \/ \A j \in Pads!Used(c[n]) : j <= k
           S == {n \in Nat : n <= Slots /\ ~Good(n)}
<1>1. c[0] = t /\ \A n \in 1..Slots : c[n] = Pads!Filled(c[n - 1], n)
  BY CompactionUnfolds
<1> HIDE DEF c
<1>2. Good(0)
  BY <1>1
<1>3. ASSUME NEW n \in 1..Slots, Good(n - 1) PROVE Good(n)
  BY <1>1, <1>3, FilledKeeps
<1> HIDE DEF Good
<1>4. S = {}
  <2> SUFFICES ASSUME S # {} PROVE FALSE
    OBVIOUS
  <2>1. PICK n \in S : \A y \in S : n <= y
    BY LeastNat
  <2>2. n \in 1..Slots
    BY <1>2, <2>1
  <2>3. n - 1 \in Nat /\ n - 1 \notin S
    <3> HIDE DEF S
    <3> QED
      BY <2>1, <2>2
  <2>4. Good(n - 1)
    BY <2>2, <2>3
  <2> QED
    BY <1>3, <2>1, <2>2, <2>4
<1>5. Good(Slots)
  BY <1>4
<1>6. /\ Table(Pads!Compacted(t)) /\ Entries(Pads!Compacted(t)) = Entries(t)
      /\ \A k \in 1..Slots : k \in Pads!Used(Pads!Compacted(t)) \/ \A j \in Pads!Used(Pads!Compacted(t)) : j <= k
  BY <1>5 DEF Good, c, Pads!Compacted
<1>7. Pads!Used(Pads!Compacted(t)) \in SUBSET (1..Slots)
  BY <1>6 DEF Table, Pads!Used
<1> QED
  BY <1>6, <1>7, Prefix

\* There are u slots from the first to the u-th.
LEMMA InitialSlots ==
  ASSUME NEW u \in Nat
  PROVE  Pads!Cardinality(1..u) = u
<1>1. Cardinality(1..u) = u
  BY FS_Interval
<1> QED
  BY <1>1 DEF Pads!Cardinality, Cardinality

\* Where a pointer's event goes: to its own slot, or to the one after the used.
LEMMA SlotMeans ==
  ASSUME Slots \in Nat, NEW t, Table(t), NEW u \in 0..Slots, Pads!Used(t) = 1..u, NEW p \in Pointer
  PROVE  /\ Pads!SlotOf(t, p) \in 0..Slots
         /\ Pads!SlotOf(t, p) # 0 =>
              /\ Pads!SlotOf(t, p) \in 1..u + 1
              /\ Pads!SlotOf(t, p) \in 1..u => t[Pads!SlotOf(t, p)].id = p
              /\ Pads!SlotOf(t, p) \notin 1..u => \A i \in 1..u : t[i].id # p
<1> DEFINE own == {i \in Pads!Used(t) : t[i].id = p}
           free == DOMAIN t \ Pads!Used(t)
<1>0. DOMAIN t = 1..Slots /\ own \in SUBSET Nat /\ free \in SUBSET Nat
  BY DEF Table
<1>1. CASE own # {}
  <2>1. Pads!SlotOf(t, p) = Pads!Min(own)
    BY <1>1 DEF Pads!SlotOf
  <2>2. Pads!Min(own) \in own
    BY <1>0, <1>1, MinMeans
  <2> QED
    BY <2>1, <2>2
<1>2. CASE own = {} /\ free # {}
  <2>1. Pads!SlotOf(t, p) = Pads!Min(free)
    BY <1>2 DEF Pads!SlotOf
  <2> HIDE DEF free
  <2>2. Pads!Min(free) \in free /\ \A y \in free : Pads!Min(free) <= y
    BY <1>0, <1>2, MinMeans
  <2> DEFINE m == Pads!Min(free)
  <2>3. m \in 1..Slots /\ m \notin 1..u
    BY <1>0, <2>2 DEF free
  <2>4. u + 1 \in free
    BY <1>0, <2>3 DEF free
  <2>5. m = u + 1
    BY <2>2, <2>3, <2>4
  <2> QED
    BY <1>2, <2>1, <2>3, <2>5
<1>3. CASE own = {} /\ free = {}
  BY <1>3 DEF Pads!SlotOf
<1> QED
  BY <1>1, <1>2, <1>3

\* What an event makes of a pointer's flags.
LEMMA FlagsMean ==
  ASSUME NEW f \in SUBSET {"range", "contact"}, NEW e \in Pads!Event
  PROVE  /\ Pads!Flags(f, e) \ Pads!Edge \in SUBSET {"range", "contact"}
         /\ "contact" \in Pads!Flags(f, e) <=> (e \in {"down", "move"} \/ (e = "button" /\ "contact" \in f))
         /\ "contact" \in Pads!Flags(f, e) \ Pads!Edge <=> "contact" \in Pads!Flags(f, e)
<1>1. "contact" \notin Pads!Edge /\ "range" \notin Pads!Edge
  BY DEF Pads!Edge
<1>2. Pads!Flags(f, e) \subseteq {"range", "contact"} \cup Pads!Edge
  BY DEF Pads!Flags, Pads!Edge, Pads!Event
<1>3. "contact" \in Pads!Flags(f, e) <=> (e \in {"down", "move"} \/ (e = "button" /\ "contact" \in f))
  BY DEF Pads!Flags, Pads!Event
<1> QED
  BY <1>1, <1>2, <1>3

\* The table after the event of pointer p in slot s: as it is injected, and as it stays.
Placed(t, s, p, e) == [t EXCEPT ![s] = [id |-> p, flags |-> Pads!Flags(t[s].flags, e)]]
Left(t, s, p, e) == Placed(t, s, p, e)[s].flags \ Pads!Edge
TableAfter(t, s, p, e) ==
  [Placed(t, s, p, e) EXCEPT ![s] = IF Left(t, s, p, e) = {} THEN Pads!Empty ELSE [id |-> p, flags |-> Left(t, s, p, e)]]
Reach(u, s) == IF s \in 1..u THEN u ELSE s

\* One event of pointer p, put into slot s of the compacted table t.
LEMMA EventKeeps ==
  ASSUME Slots \in Nat, NEW t, Table(t), NEW u \in 0..Slots, Pads!Used(t) = 1..u,
         NEW p \in Pointer, NEW e \in Pads!Event, NEW s \in 1..Slots, s \in 1..u + 1,
         s \in 1..u => t[s].id = p, s \notin 1..u => \A i \in 1..u : t[i].id # p
  PROVE  /\ Table(TableAfter(t, s, p, e)) /\ \A i \in Pads!Used(TableAfter(t, s, p, e)) : i <= Reach(u, s)
         /\ Pads!Touching(Placed(t, s, p, e), Reach(u, s)) = Contacts(TableAfter(t, s, p, e))
         /\ Contacts(TableAfter(t, s, p, e)) = Pads!Says(Contacts(t), p, e)
         /\ Contacts(TableAfter(t, s, p, e)) # {} => Reach(u, s) > 1 \/ Left(t, s, p, e) # {}
<1> DEFINE new == Placed(t, s, p, e)
           left == Left(t, s, p, e)
           kept == TableAfter(t, s, p, e)
           n == Reach(u, s)
<1>0. /\ DOMAIN t = 1..Slots /\ t \in [1..Slots -> Entry] /\ t[s].flags \in SUBSET {"range", "contact"}
      /\ s \in Nat /\ n \in 1..Slots /\ s <= n /\ u <= n /\ \A k \in 1..n : k = s \/ k \in 1..u
  BY DEF Table, Entry, Reach
<1>30. /\ new = [t EXCEPT ![s] = [id |-> p, flags |-> Pads!Flags(t[s].flags, e)]] /\ left = new[s].flags \ Pads!Edge
       /\ kept = [new EXCEPT ![s] = IF left = {} THEN Pads!Empty ELSE [id |-> p, flags |-> left]]
  BY DEF Placed, Left, TableAfter
<1> HIDE DEF new, left, kept, n
<1>1. /\ DOMAIN new = 1..Slots /\ new[s].id = p /\ new[s].flags = Pads!Flags(t[s].flags, e)
      /\ \A k \in 1..Slots : k # s => new[k] = t[k]
  BY <1>0, <1>30
<1>2. /\ left \in SUBSET {"range", "contact"}
      /\ "contact" \in new[s].flags <=> (e \in {"down", "move"} \/ (e = "button" /\ "contact" \in t[s].flags))
      /\ "contact" \in left <=> "contact" \in new[s].flags
  <2>1. left = Pads!Flags(t[s].flags, e) \ Pads!Edge /\ new[s].flags = Pads!Flags(t[s].flags, e)
    BY <1>1, <1>30
  <2>2. /\ Pads!Flags(t[s].flags, e) \ Pads!Edge \in SUBSET {"range", "contact"}
        /\ "contact" \in Pads!Flags(t[s].flags, e) <=> (e \in {"down", "move"} \/ (e = "button" /\ "contact" \in t[s].flags))
        /\ "contact" \in Pads!Flags(t[s].flags, e) \ Pads!Edge <=> "contact" \in Pads!Flags(t[s].flags, e)
    BY <1>0, FlagsMean
  <2> QED
    BY <2>1, <2>2
<1>3. /\ DOMAIN kept = 1..Slots /\ kept[s] = IF left = {} THEN Pads!Empty ELSE [id |-> p, flags |-> left]
      /\ \A k \in 1..Slots : k # s => kept[k] = t[k]
  BY <1>1, <1>30
<1>4. kept[s] \in Entry /\ kept[s].flags = left /\ (left # {} => kept[s].id = p)
  <2>1. CASE left = {}
    BY <1>3, <2>1, EmptyFits
  <2>2. CASE left # {}
    <3>1. kept[s] = [id |-> p, flags |-> left]
      BY <1>3, <2>2
    <3>2. [id |-> p, flags |-> left] \in Entry
      BY <1>2 DEF Entry
    <3>3. [id |-> p, flags |-> left].flags = left /\ [id |-> p, flags |-> left].id = p
      OBVIOUS
    <3> QED
      BY <3>1, <3>2, <3>3, Zenon
  <2> QED
    BY <2>1, <2>2
<1>5. kept = [k \in 1..Slots |-> kept[k]]
  BY <1>0, <1>30
<1>6. kept \in [1..Slots -> Entry]
  <2>1. \A k \in 1..Slots : kept[k] \in Entry
    BY <1>0, <1>3, <1>4
  <2> QED
    BY <1>5, <2>1
<1>7. \A k \in 1..Slots : k # s => (k \in Pads!Used(kept) <=> k \in 1..u)
  BY <1>0, <1>3 DEF Pads!Used
<1>8. Pads!Used(kept) \subseteq 1..n
  BY <1>0, <1>3, <1>7 DEF Pads!Used
<1>9. \A i \in 1..u : i # s => t[i].id # p
  BY DEF Table
<1>10. Table(kept)
  <2>1. s \in Pads!Used(kept) => left # {}
    BY <1>4 DEF Pads!Used
  <2>2. Pads!Used(kept) \subseteq 1..Slots
    BY <1>3 DEF Pads!Used
  <2>3. \A i \in Pads!Used(kept) : kept[i].id \in Pointer
    BY <1>3, <1>4, <1>7, <2>1, <2>2 DEF Table
  <2>4. \A i \in Pads!Used(kept) : IF i = s THEN kept[i].id = p ELSE i \in 1..u /\ kept[i].id = t[i].id
    BY <1>3, <1>4, <1>7, <2>1, <2>2
  <2>5. \A i, j \in 1..u : t[i].id = t[j].id => i = j
    BY DEF Table
  <2>6. ASSUME NEW i \in Pads!Used(kept), NEW j \in Pads!Used(kept), kept[i].id = kept[j].id PROVE i = j
    <3>1. CASE i = s \/ j = s
      BY <1>9, <2>4, <2>6, <3>1
    <3>2. CASE i # s /\ j # s
      BY <2>4, <2>5, <2>6, <3>2
    <3> QED
      BY <3>1, <3>2
  <2> QED
    BY <1>6, <2>3, <2>6 DEF Table
<1>11. \A k \in 1..Slots : "contact" \in kept[k].flags <=> "contact" \in new[k].flags
  BY <1>1, <1>2, <1>3, <1>4
<1>12. \A k \in 1..Slots : "contact" \in kept[k].flags => k \in 1..n /\ kept[k].id = new[k].id
  <2>1. \A k \in 1..Slots : "contact" \in kept[k].flags => k \in Pads!Used(kept)
    BY <1>3 DEF Pads!Used
  <2>2. "contact" \in kept[s].flags => kept[s].id = new[s].id
    BY <1>1, <1>4
  <2> QED
    BY <1>1, <1>3, <1>8, <2>1, <2>2
<1>13. Pads!Touching(new, n) = Contacts(kept)
  <2>1. ASSUME NEW k \in 1..n, "contact" \in new[k].flags PROVE new[k].id \in Contacts(kept)
    <3>1. k \in 1..Slots
      BY <1>0
    <3> QED
      BY <1>3, <1>11, <1>12, <2>1, <3>1 DEF Contacts
  <2>2. ASSUME NEW k \in 1..Slots, "contact" \in kept[k].flags PROVE kept[k].id \in Pads!Touching(new, n)
    BY <1>11, <1>12, <2>2 DEF Pads!Touching
  <2> QED
    BY <1>3, <2>1, <2>2 DEF Contacts, Pads!Touching
<1>14. \A x : x \in Contacts(kept) <=> \E k \in 1..Slots : "contact" \in kept[k].flags /\ kept[k].id = x
  BY <1>3 DEF Contacts
<1>15. \A x : x \in Contacts(t) <=> \E k \in 1..Slots : "contact" \in t[k].flags /\ t[k].id = x
  BY <1>0 DEF Contacts
<1>16. ASSUME NEW x, x # p PROVE x \in Contacts(kept) <=> x \in Contacts(t)
  <2>1. "contact" \in kept[s].flags => kept[s].id = p
    BY <1>4
  <2>2. "contact" \in t[s].flags => t[s].id = p
    BY <1>0 DEF Pads!Used
  <2>3. ASSUME NEW k \in 1..Slots, "contact" \in kept[k].flags, kept[k].id = x PROVE x \in Contacts(t)
    <3>1. k # s
      BY <1>16, <2>1, <2>3
    <3> QED
      BY <1>3, <1>15, <2>3, <3>1
  <2>4. ASSUME NEW k \in 1..Slots, "contact" \in t[k].flags, t[k].id = x PROVE x \in Contacts(kept)
    <3>1. k # s
      BY <1>16, <2>2, <2>4
    <3> QED
      BY <1>3, <1>14, <2>4, <3>1
  <2> QED
    BY <1>14, <1>15, <2>3, <2>4
<1>17. p \in Contacts(kept) <=> "contact" \in new[s].flags
  <2>1. ASSUME NEW k \in 1..Slots, "contact" \in kept[k].flags, kept[k].id = p PROVE k = s
    <3>1. k # s => k \in 1..u
      BY <1>3, <1>7, <2>1 DEF Pads!Used
    <3> QED
      BY <1>3, <1>9, <2>1, <3>1
  <2> QED
    BY <1>4, <1>11, <1>14, <2>1, <1>2
<1>18. p \in Contacts(t) <=> "contact" \in t[s].flags
  <2>1. ASSUME NEW k \in 1..Slots, "contact" \in t[k].flags, t[k].id = p PROVE k = s
    <3>1. k \in 1..u
      BY <1>0, <2>1 DEF Pads!Used
    <3> QED
      BY <1>9, <2>1, <3>1
  <2>2. "contact" \in t[s].flags => t[s].id = p
    BY <1>0 DEF Pads!Used
  <2> QED
    BY <1>15, <2>1, <2>2
<1>19. Contacts(kept) = Pads!Says(Contacts(t), p, e)
  <2>1. p \in Contacts(kept) <=> p \in Pads!Says(Contacts(t), p, e)
    BY <1>2, <1>17, <1>18 DEF Pads!Says
  <2>2. ASSUME NEW x, x # p PROVE x \in Pads!Says(Contacts(t), p, e) <=> x \in Contacts(t)
    BY <2>2 DEF Pads!Says
  <2>3. ASSUME NEW x PROVE x \in Contacts(kept) <=> x \in Pads!Says(Contacts(t), p, e)
    BY <1>16, <2>1, <2>2
  <2> HIDE DEF Pads!Says
  <2> QED
    BY <2>3, Zenon
<1>20. ASSUME Contacts(kept) # {} PROVE n > 1 \/ left # {}
  <2>1. PICK k \in 1..Slots : "contact" \in kept[k].flags
    BY <1>14, <1>20
  <2>2. k # s => n > 1
    BY <1>0, <1>12, <2>1
  <2> QED
    BY <1>4, <2>1, <2>2
<1>21. ASSUME NEW i \in Pads!Used(kept) PROVE i <= n
  <2>1. i \in 1..n
    BY <1>8
  <2> QED
    BY <1>0, <2>1
<1> QED
  BY <1>10, <1>13, <1>19, <1>20, <1>21 DEF new, left, kept, n

\* What the invariant of the touch table says.
LEMMA TouchMeans ==
  ASSUME ~v8
  PROVE  Pads!TouchInv <=> /\ Table(v1) /\ \A i \in Pads!Used(v1) : i <= v2
                           /\ v2 \in 0..Slots /\ v6 = v7 /\ v6 = Contacts(v1)
                           /\ (v6 # {} => v3)
BY DEF Pads!TouchInv, Table, Entry, Contacts, Pads!Touches

\* An empty table has no contacts.
LEMMA EmptyTable ==
  ASSUME NEW t, t = [i \in 1..Slots |-> Pads!Empty]
  PROVE  Table(t) /\ Pads!Used(t) = {} /\ Contacts(t) = {}
<1>1. \A i \in 1..Slots : t[i] = Pads!Empty
  OBVIOUS
<1>2. DOMAIN t = 1..Slots /\ t \in [1..Slots -> Entry]
  BY EmptyFits
<1>3. Pads!Used(t) = {}
  BY <1>1, <1>2, EmptyFits DEF Pads!Used
<1>4. Contacts(t) = {}
  BY <1>1, <1>2, EmptyFits DEF Contacts
<1> QED
  BY <1>2, <1>3, <1>4 DEF Table

\* No pointer touches at first.
LEMMA TouchInit ==
  ASSUME Slots \in Nat, Pads!PointerInit
  PROVE  Pads!TouchInv
<1>1. Table(v1) /\ Pads!Used(v1) = {} /\ Contacts(v1) = {}
  BY EmptyTable DEF Pads!PointerInit
<1>2. ~v8 /\ v2 = 0 /\ v6 = {} /\ v7 = {}
  BY DEF Pads!PointerInit
<1> QED
  BY <1>1, <1>2, TouchMeans

\* Every step of touch keeps the table of contacts.
LEMMA TouchKept ==
  ASSUME Slots \in Nat \ {0}, "pen" \notin Pointer, Pads!TouchInv, [Pads!TouchNext]_(Pads!pointerVars)
  PROVE  Pads!TouchInv'
<1> DEFINE Seen == /\ Table(v1) /\ \A i \in Pads!Used(v1) : i <= v2
                   /\ v2 \in 0..Slots /\ v6 = v7 /\ v6 = Contacts(v1)
                   /\ (v6 # {} => v3)
<1>1. (Seen /\ ~v8)' => Pads!TouchInv'
  BY DEF Pads!TouchInv, Table, Entry, Contacts, Pads!Touches
<1>2. v8' => Pads!TouchInv'
  BY DEF Pads!TouchInv
<1>3. CASE UNCHANGED Pads!pointerVars
  BY <1>3 DEF Pads!pointerVars, Pads!TouchInv, Pads!Touches, Pads!Used
<1> SUFFICES ASSUME Pads!TouchNext PROVE Pads!TouchInv'
  BY <1>3
<1>4. ~v8 /\ Seen
  BY TouchMeans DEF Pads!TouchNext
<1>5. v6 \cap {"pen"} = {} /\ Pads!ClientPen = {}
  <2>1. v6 \subseteq Pointer
    BY <1>4 DEF Contacts, Table, Pads!Used
  <2> QED
    BY <1>4, <2>1 DEF Pads!ClientPen
<1> HIDE DEF Seen
<1> DEFINE table == Pads!Compacted(v1)
<1>6. /\ Table(table) /\ Entries(table) = Entries(v1)
      /\ \E u \in 0..Slots : Pads!Used(table) = 1..u
  BY <1>4, CompactedMeans DEF Seen
<1> HIDE DEF table
<1>7. PICK u \in 0..Slots : Pads!Used(table) = 1..u
  BY <1>6
<1>8. Pads!Cardinality(Pads!Used(table)) = u
  BY <1>7, InitialSlots
<1>9. Contacts(table) = v6
  <2>1. ASSUME NEW x PROVE x \in Contacts(table) <=> x \in Contacts(v1)
    BY <1>6, ContactsOf
  <2>2. Contacts(table) = Contacts(v1)
    <3> HIDE DEF Contacts
    <3> QED
      BY <2>1, Zenon
  <2> QED
    BY <1>4, <2>2 DEF Seen
<1>10. ASSUME NEW p \in Pointer, NEW e \in Pads!Event, NEW works \in BOOLEAN, Pads!TouchUpdate(p, e, works)
       PROVE  Pads!TouchInv'
  <2> DEFINE found == Pads!SlotOf(table, p)
             tab == IF found # 0 THEN table ELSE [i \in 1..Slots |-> Pads!Empty]
             slot == IF found # 0 THEN found ELSE 1
             new == [tab EXCEPT ![slot] = [id |-> p, flags |-> Pads!Flags(tab[slot].flags, e)]]
             n == IF slot \in Pads!Used(tab) THEN Pads!Cardinality(Pads!Used(tab)) ELSE slot
             left == new[slot].flags \ Pads!Edge
             kept == [new EXCEPT ![slot] = IF left = {} THEN Pads!Empty ELSE [id |-> p, flags |-> left]]
  <2>1. /\ v2' = n
        /\ v7' = Pads!Says(IF found # 0 THEN v7 ELSE Pads!ClientPen, p, e)
        /\ IF works
           THEN /\ v6' = Pads!Touching(new, n) \cup (v6 \cap {"pen"})
                /\ v1' = kept
                /\ v3' = (n > 1 \/ left # {}) /\ v8' = v8
           ELSE v8' = TRUE
    BY <1>10 DEF Pads!TouchUpdate, Pads!Inject, table
  <2>2. CASE ~works
    BY <1>2, <2>1, <2>2
  <2>3. CASE works
    <3>1. /\ found \in 0..Slots
          /\ found # 0 => /\ found \in 1..u + 1
                          /\ found \in 1..u => table[found].id = p
                          /\ found \notin 1..u => \A i \in 1..u : table[i].id # p
      BY <1>6, <1>7, SlotMeans
    <3> DEFINE w == IF found # 0 THEN u ELSE 0
    <3>2. /\ Table(tab) /\ w \in 0..Slots /\ Pads!Used(tab) = 1..w /\ slot \in 1..Slots /\ slot \in 1..w + 1
          /\ slot \in 1..w => tab[slot].id = p
          /\ slot \notin 1..w => \A i \in 1..w : tab[i].id # p
          /\ Contacts(tab) = IF found # 0 THEN v7 ELSE Pads!ClientPen
      <4>1. CASE found # 0
        <5>1. tab = table /\ w = u /\ slot = found
          BY <4>1
        <5>2. v6 = v7
          BY <1>4 DEF Seen
        <5> HIDE DEF tab, w, slot, found
        <5> QED
          BY <1>6, <1>7, <1>9, <3>1, <4>1, <5>1, <5>2
      <4>2. CASE found = 0
        <5>1. tab = [i \in 1..Slots |-> Pads!Empty] /\ w = 0 /\ slot = 1
          BY <4>2
        <5>2. Table(tab) /\ Pads!Used(tab) = {} /\ Contacts(tab) = {}
          BY <5>1, EmptyTable
        <5> HIDE DEF tab, w, slot, found
        <5> QED
          BY <1>5, <4>2, <5>1, <5>2
      <4> QED
        BY <4>1, <4>2
    <3> HIDE DEF found, tab, slot, w
    <3>3. Pads!Cardinality(Pads!Used(tab)) = w
      BY <3>2, InitialSlots
    <3>4. n = Reach(w, slot)
      BY <3>2, <3>3 DEF Reach
    <3>5. n \in 0..Slots
      BY <3>2, <3>4 DEF Reach
    <3>6. new = Placed(tab, slot, p, e) /\ left = Left(tab, slot, p, e) /\ kept = TableAfter(tab, slot, p, e)
      BY DEF Placed, Left, TableAfter
    <3> HIDE DEF n, new, left, kept
    <3>9. /\ Table(kept) /\ \A i \in Pads!Used(kept) : i <= n
          /\ Pads!Touching(new, n) = Contacts(kept)
          /\ Contacts(kept) = Pads!Says(Contacts(tab), p, e)
          /\ Contacts(kept) # {} => n > 1 \/ left # {}
      BY <3>2, <3>4, <3>6, EventKeeps
    <3>10. /\ v2' = n /\ v7' = Pads!Says(Contacts(tab), p, e) /\ v6' = Contacts(kept) /\ v1' = kept
           /\ v3' = (n > 1 \/ left # {}) /\ v8' = v8
      BY <1>5, <2>1, <2>3, <3>2, <3>9
    <3>11. (Table(v1) /\ \A i \in Pads!Used(v1) : i <= v2)'
      BY <3>9, <3>10 DEF Table, Pads!Used
    <3>12. Contacts(v1)' = Contacts(kept)
      BY <3>10 DEF Contacts
    <3>13. (Seen /\ ~v8)'
      BY <1>4, <3>5, <3>9, <3>10, <3>11, <3>12 DEF Seen
    <3> QED
      BY <1>1, <3>13
  <2> QED
    BY <2>2, <2>3
<1>11. ASSUME NEW works \in BOOLEAN, Pads!CancelAll(works) PROVE Pads!TouchInv'
  <2>1. /\ v1' = [i \in 1..Slots |-> Pads!Empty] /\ v2' = 0 /\ v7' = {}
    BY <1>5, <1>11 DEF Pads!CancelAll
  <2>2. (Table(v1) /\ Pads!Used(v1) = {} /\ Contacts(v1) = {})'
    BY <2>1, EmptyTable
  <2>3. v6' = {} \/ v8'
    <3>1. CASE u = 0
      <4>1. v6 = {}
        <5>1. Pads!Used(table) = {}
          BY <1>7, <3>1
        <5> QED
          BY <1>9, <5>1 DEF Contacts, Pads!Used
      <4> QED
        BY <1>8, <1>11, <3>1, <4>1 DEF Pads!CancelAll, table
    <3>2. CASE u # 0 /\ works
      <4>1. v6' = Pads!Touching(Pads!CancelledTable(table, u), u) \cup (v6 \cap {"pen"})
        BY <1>8, <1>11, <3>2 DEF Pads!CancelAll, Pads!Inject, table
      <4>2. Pads!Touching(Pads!CancelledTable(table, u), u) = {}
        <5> SUFFICES ASSUME NEW k \in 1..u PROVE "contact" \notin Pads!CancelledTable(table, u)[k].flags
          BY DEF Pads!Touching
        <5>1. table \in [1..Slots -> Entry] /\ k \in 1..Slots /\ table[k] \in Entry
          BY <1>6, <1>7 DEF Table
        <5>2. Pads!CancelledTable(table, u)[k] = [table[k] EXCEPT !.flags = Pads!Flags(table[k].flags, "cancel")]
          BY <5>1 DEF Pads!CancelledTable
        <5>3. Pads!CancelledTable(table, u)[k].flags = Pads!Flags(table[k].flags, "cancel")
          BY <5>1, <5>2 DEF Entry
        <5> QED
          BY <5>3 DEF Pads!Flags
      <4> QED
        BY <1>5, <4>1, <4>2
    <3>3. CASE u # 0 /\ ~works
      BY <1>8, <1>11, <3>3 DEF Pads!CancelAll, table
    <3> QED
      BY <3>1, <3>2, <3>3
  <2>4. CASE v8'
    BY <1>2, <2>4
  <2>5. CASE ~v8'
    <3>2. (v2 \in 0..Slots)' /\ \A i \in Pads!Used(v1)' : i <= v2'
      BY <2>1, <2>2
    <3>1. (Seen /\ ~v8)'
      BY <2>1, <2>2, <2>3, <2>5, <3>2 DEF Seen
    <3> QED
      BY <1>1, <3>1
  <2> QED
    BY <2>4, <2>5
<1>12. ASSUME NEW works \in BOOLEAN, Pads!RepeatTouch(works) PROVE Pads!TouchInv'
  <2>1. /\ v1' = v1 /\ v2' = v2 /\ v3' = v3 /\ v7' = v7
        /\ IF works THEN v6' = Pads!Touching(v1, v2) \cup (v6 \cap {"pen"}) /\ v8' = v8
           ELSE v8' = TRUE
    BY <1>12 DEF Pads!RepeatTouch, Pads!Inject
  <2>2. Pads!Touching(v1, v2) = Contacts(v1)
    <3>1. DOMAIN v1 = 1..Slots /\ v2 \in 0..Slots /\ \A i \in Pads!Used(v1) : i <= v2
      BY <1>4 DEF Seen, Table
    <3>2. \A k \in 1..Slots : "contact" \in v1[k].flags => k \in 1..v2
      BY <3>1 DEF Pads!Used
    <3> QED
      BY <3>1, <3>2 DEF Pads!Touching, Contacts
  <2>3. CASE works
    <3>2. (Table(v1) /\ \A i \in Pads!Used(v1) : i <= v2)'
      BY <1>4, <2>1 DEF Seen, Table, Pads!Used
    <3>3. Contacts(v1)' = Contacts(v1)
      BY <2>1 DEF Contacts
    <3>1. (Seen /\ ~v8)'
      BY <1>4, <1>5, <2>1, <2>2, <2>3, <3>2, <3>3 DEF Seen
    <3> QED
      BY <1>1, <3>1
  <2> QED
    BY <1>2, <2>1, <2>3
<1> QED
  BY <1>10, <1>11, <1>12 DEF Pads!TouchNext

\* The contacts injected are those of the client.
LEMMA TouchSeen ==
  ASSUME Pads!TouchInv, "pen" \notin Pointer
  PROVE  Pads!ContactsMatch
<1>1. ~v8 => v6 \subseteq Pointer
  BY TouchMeans DEF Contacts, Table, Pads!Used
<1> QED
  BY <1>1 DEF Pads!TouchInv, Pads!ContactsMatch

\* The pen is away at first.
LEMMA PenInit == Pads!PointerInit => Pads!PenInv
BY DEF Pads!PointerInit, Pads!PenInv

\* Every step of the pen keeps its contact.
LEMMA PenKept ==
  ASSUME Pads!PenInv, [Pads!PenNext]_(Pads!pointerVars)
  PROVE  Pads!PenInv'
<1>1. CASE UNCHANGED Pads!pointerVars
  BY <1>1 DEF Pads!pointerVars, Pads!PenInv
<1>2. ASSUME NEW works \in BOOLEAN, NEW e \in Pads!Event, ~v8, Pads!PenUpdate(e, works) PROVE Pads!PenInv'
  <2> DEFINE flags == Pads!Flags(v4, e)
  <2>1. /\ v7' = Pads!Says(v7, "pen", e)
        /\ IF works
           THEN /\ v6' = (v6 \ {"pen"}) \cup (IF "contact" \in flags THEN {"pen"} ELSE {})
                /\ v4' = flags \ Pads!Edge /\ v5' = (flags \ Pads!Edge # {}) /\ v8' = v8
           ELSE v8' = TRUE
    BY <1>2 DEF Pads!PenUpdate
  <2>2. CASE ~works
    BY <2>1, <2>2 DEF Pads!PenInv
  <2>3. CASE works
    <3>1. v6 = v7 /\ v6 = (IF "contact" \in v4 THEN {"pen"} ELSE {})
      BY <1>2 DEF Pads!PenInv
    <3>2. "contact" \in flags \ Pads!Edge <=> "contact" \in flags
      BY DEF Pads!Edge
    <3>3. "contact" \in flags <=> (e \in {"down", "move"} \/ (e = "button" /\ "contact" \in v4))
      BY <1>2 DEF Pads!Flags, Pads!Event
    <3>4. v7' = IF "contact" \in flags THEN {"pen"} ELSE {}
      BY <2>1, <3>1, <3>3 DEF Pads!Says
    <3>5. v6' = IF "contact" \in flags THEN {"pen"} ELSE {}
      BY <2>1, <2>3, <3>1
    <3> HIDE DEF flags
    <3>6. v4' = flags \ Pads!Edge /\ (v5' <=> v4' # {})
      BY <2>1, <2>3
    <3> QED
      BY <3>2, <3>4, <3>5, <3>6 DEF Pads!PenInv
  <2> QED
    BY <2>2, <2>3
<1> QED
  BY <1>1, <1>2 DEF Pads!PenNext

\* The contact injected is that of the client.
LEMMA PenSeen == Pads!PenInv => Pads!ContactsMatch
BY DEF Pads!PenInv, Pads!ContactsMatch

(***************************************************************************)
(* The frames of an encoder (video.cpp).                                   *)
(***************************************************************************)

\* An encoder is opened for the configuration its device was made for.
LEMMA DeviceStarts == Encoders!EncodeInit => Encoders!DeviceInv
BY DEF Encoders!EncodeInit, Encoders!DeviceInv

\* Every step of the encoder keeps its device.
LEMMA DeviceKeeps == Encoders!DeviceInv /\ [Encoders!EncodeNext]_(Encoders!encodeVars) => Encoders!DeviceInv'
<1> SUFFICES ASSUME Encoders!DeviceInv, [Encoders!EncodeNext]_(Encoders!encodeVars) PROVE Encoders!DeviceInv'
  OBVIOUS
<1>1. CASE UNCHANGED Encoders!encodeVars
  BY <1>1 DEF Encoders!encodeVars, Encoders!DeviceInv, Encoders!SessionIsSupported
<1>2. ASSUME NEW c \in Config, NEW s \in Caps, Encoders!Start(c, s) PROVE Encoders!DeviceInv'
  BY <1>2 DEF Encoders!Start, Encoders!DeviceInv
<1>3. ASSUME NEW works \in BOOLEAN, Encoders!MakeDevice(works) PROVE Encoders!DeviceInv'
  <2>1. /\ v1 # None /\ v1 \in Config /\ v5 = None /\ v1' = v1 /\ v5' = v5
        /\ v4' = IF works THEN [chroma |-> v1.chroma, color |-> Encoders!ColorSpace(v1, v3)] ELSE None
    BY <1>3 DEF Encoders!MakeDevice, Encoders!DeviceInv
  <2>2. v1.range \in {0, 1} /\ v1.csc \in {"rec709", "bt2020sdr"}
    BY <2>1, ConfigAssumption
  <2>3. /\ Encoders!ColorSpace(v1, v3) \in Encoders!Color
        /\ Encoders!ColorSpace(v1, v3).depth = 10 => v1.range > 0
        /\ Encoders!ColorSpace(v1, v3).space \in {"bt2020", "bt2020sdr"} => Encoders!ColorSpace(v1, v3).depth = 10
    BY <2>2 DEF Encoders!ColorSpace, Encoders!Color
  <2>4. v4' # None => v4'.color = Encoders!ColorSpace(v1, v3)
    BY <2>1
  <2> QED
    BY <2>1, <2>3, <2>4 DEF Encoders!DeviceInv
<1>4. ASSUME NEW plain \in BOOLEAN, NEW fallback \in BOOLEAN, NEW rest \in BOOLEAN,
             Encoders!MakeSession(plain, fallback, rest)
      PROVE  Encoders!DeviceInv'
  <2> DEFINE o == Encoders!Opened(plain, fallback)
             s == Encoders!SessionOf(o)
  <2>1. /\ v4 # None /\ v4' = None /\ v1' = v1 /\ v2' = v2 /\ v1 # None /\ v1 \in Config
        /\ v5' = IF Encoders!Supported /\ o # None /\ rest THEN s ELSE None
        /\ v4.color \in Encoders!Color /\ (v4.color.depth = 10 => v1.range > 0)
        /\ v4.color.space \in {"bt2020", "bt2020sdr"} => v4.color.depth = 10
    BY <1>4 DEF Encoders!MakeSession, Encoders!DeviceInv
  <2>2. CASE v5' = None
    BY <2>1, <2>2 DEF Encoders!DeviceInv
  <2>3. CASE v5' # None
    <3>1. Encoders!Supported /\ o # None /\ v5' = s
      BY <2>1, <2>3
    <3>2. o \in {"plain", "fallback"}
      BY <3>1 DEF Encoders!Opened
    <3>3. v1.chroma \in {0, 1} /\ Encoders!Inject \in BOOLEAN
      BY <2>1, ConfigAssumption DEF Encoders!Inject
    <3> HIDE DEF o
    <3>4. /\ s \in [chroma : {0, 1}, color : Encoders!Color, options : {"plain", "fallback"}, inject : BOOLEAN,
                    replacements : BOOLEAN, first : BOOLEAN]
          /\ s.color = v4.color /\ s.chroma = v1.chroma
      BY <2>1, <3>2, <3>3 DEF Encoders!SessionOf
    <3> HIDE DEF s
    <3>5. Encoders!SessionIsSupported'
      BY <2>1, <3>1, <3>4 DEF Encoders!SessionIsSupported, Encoders!Supported
    <3> QED
      BY <2>1, <3>1, <3>4, <3>5 DEF Encoders!DeviceInv
  <2> QED
    BY <2>2, <2>3
<1>5. CASE Encoders!HdrChanges
  BY <1>5 DEF Encoders!HdrChanges, Encoders!DeviceInv, Encoders!SessionIsSupported
<1>6. CASE Encoders!RequestIdr
  BY <1>6 DEF Encoders!RequestIdr, Encoders!DeviceInv, Encoders!SessionIsSupported
<1>7. ASSUME NEW image \in BOOLEAN, NEW out \in 0..(Delay + 1), Encoders!Encode(image, out) PROVE Encoders!DeviceInv'
  <2> DEFINE fill == out > 0 /\ v5.inject
             a == v5.inject /\ ~fill
             b == v5.replacements \/ fill
             s == [v5 EXCEPT !.inject = a, !.replacements = b, !.first = FALSE]
  <2>1. v5 # None /\ v5' = s /\ v1' = v1 /\ v2' = v2 /\ v4' = v4
    BY <1>7, Zenon DEF Encoders!Encode
  <2>2. a \in BOOLEAN /\ b \in BOOLEAN
    OBVIOUS
  <2>3. v5 \in [chroma : {0, 1}, color : Encoders!Color, options : {"plain", "fallback"}, inject : BOOLEAN,
                replacements : BOOLEAN, first : BOOLEAN]
    BY <2>1 DEF Encoders!DeviceInv
  <2> HIDE DEF fill, a, b
  <2>4. /\ s \in [chroma : {0, 1}, color : Encoders!Color, options : {"plain", "fallback"}, inject : BOOLEAN,
                  replacements : BOOLEAN, first : BOOLEAN]
        /\ s.color = v5.color /\ s.chroma = v5.chroma
    BY <2>2, <2>3
  <2> HIDE DEF s
  <2>5. Encoders!SessionIsSupported'
    BY <2>1, <2>4 DEF Encoders!SessionIsSupported, Encoders!DeviceInv
  <2> QED
    BY <2>1, <2>4, <2>5 DEF Encoders!DeviceInv
<1>8. CASE Encoders!EncodeEnds
  BY <1>8 DEF Encoders!EncodeEnds, Encoders!LeaveRun, Encoders!DeviceInv
<1>9. CASE Encoders!EncodeFails
  BY <1>9 DEF Encoders!EncodeFails, Encoders!DeviceInv
<1> QED
  BY <1>1, <1>2, <1>3, <1>4, <1>5, <1>6, <1>7, <1>8, <1>9 DEF Encoders!EncodeNext

\* The last two of a sequence are its end.
LEMMA LastTwoMeans ==
  ASSUME NEW T, NEW q \in Seq(T)
  PROVE  /\ Encoders!LastTwo(q) \in Seq(T)
         /\ \E d \in Nat : \A i \in DOMAIN Encoders!LastTwo(q) :
              i \in Nat /\ i + d \in DOMAIN q /\ Encoders!LastTwo(q)[i] = q[i + d]
<1>1. CASE Len(q) > 2
  <2> DEFINE l == SubSeq(q, Len(q) - 1, Len(q))
  <2>1. Encoders!LastTwo(q) = l
    BY <1>1 DEF Encoders!LastTwo
  <2>2. Len(q) \in Nat /\ Len(q) - 1 \in 1..Len(q)
    BY <1>1
  <2>3. l \in Seq(T) /\ Len(l) = 2 /\ \A i \in 1..2 : l[i] = q[i + (Len(q) - 2)] /\ i + (Len(q) - 2) \in DOMAIN q
    BY <2>2
  <2>4. DOMAIN l = 1..2
    BY <2>3
  <2> HIDE DEF l
  <2>5. /\ Len(q) - 2 \in Nat
        /\ \A i \in DOMAIN l : i \in Nat /\ i + (Len(q) - 2) \in DOMAIN q /\ l[i] = q[i + (Len(q) - 2)]
    BY <1>1, <2>2, <2>3, <2>4
  <2> QED
    BY <2>1, <2>3, <2>5
<1>2. CASE ~(Len(q) > 2)
  <2>1. Encoders!LastTwo(q) = q
    BY <1>2 DEF Encoders!LastTwo
  <2>2. \A i \in DOMAIN q : i \in Nat /\ i + 0 \in DOMAIN q /\ q[i] = q[i + 0]
    OBVIOUS
  <2> QED
    BY <2>1, <2>2
<1> QED
  BY <1>1, <1>2

\* Nothing has been encoded at first.
LEMMA OrderStarts == Encoders!EncodeInit => Encoders!OrderInv
<1> SUFFICES ASSUME Encoders!EncodeInit PROVE Encoders!OrderInv
  OBVIOUS
<1>1. /\ v1 = None /\ v4 = None /\ v5 = None /\ v7 = 1 /\ v9 = <<>> /\ v10 = <<>> /\ v11 = FALSE /\ v12 = TRUE
  BY DEF Encoders!EncodeInit
<1>2. Encoders!DeviceInv
  BY DeviceStarts
<1>3. v9 \in Seq(Encoders!Held) /\ v10 \in Seq(Encoders!Raised) /\ DOMAIN v9 = {} /\ DOMAIN v10 = {}
  BY <1>1
<1> QED
  BY <1>1, <1>2, <1>3 DEF Encoders!OrderInv, Encoders!PacketsInOrder, Encoders!IdrIsAnswered,
     Encoders!NeedsReplacements

\* A frame is encoded: it comes last into the codec, and what comes out of it comes
\* after the packets before, each with its own stamp or none.
LEMMA EncodeOrders ==
  ASSUME Encoders!OrderInv, NEW image \in BOOLEAN, NEW out \in 0..(Delay + 1), Encoders!Encode(image, out)
  PROVE  Encoders!OrderInv'
<1> DEFINE f == [n |-> v7, key |-> Encoders!KeyFrame(image), stamp |-> IF image THEN v7 ELSE None]
           held == Append(v9, f)
           fill == out > 0 /\ v5.inject
           s == [v5 EXCEPT !.inject = v5.inject /\ ~fill, !.replacements = v5.replacements \/ fill, !.first = FALSE]
           P(i) == [n |-> held[i].n, key |-> held[i].key, sent |-> held[i].stamp,
                    stamp |-> Encoders!Stamped(held[i], v7, f.stamp), replaced |-> v5'.replacements]
           new == [i \in 1..out |-> P(i)]
           all == v10 \o new
           l == Len(v9)
<1>1. /\ v5 # None /\ out <= Len(held) /\ v9' = SubSeq(held, out + 1, Len(held)) /\ v5' = s
      /\ v10' = Encoders!LastTwo(all) /\ v12' = (v12 /\ (v11 => f.key)) /\ v11' = (v11 /\ ~f.key)
      /\ v7' = v7 + 1 /\ v1' = v1 /\ v2' = v2 /\ v4' = v4
  BY Zenon DEF Encoders!Encode
<1>2. Encoders!DeviceInv'
  <2>1. Encoders!DeviceInv /\ [Encoders!EncodeNext]_(Encoders!encodeVars)
    BY DEF Encoders!OrderInv, Encoders!EncodeNext
  <2> QED
    BY <2>1, DeviceKeeps
<1>3. /\ v7 \in Nat /\ v9 \in Seq(Encoders!Held) /\ v10 \in Seq(Encoders!Raised)
      /\ l \in Nat /\ out \in Nat /\ DOMAIN v9 = 1..l
  BY ConfigAssumption DEF Encoders!OrderInv
<1>4. v5 \in [chroma : {0, 1}, color : Encoders!Color, options : {"plain", "fallback"}, inject : BOOLEAN,
              replacements : BOOLEAN, first : BOOLEAN]
  BY <1>1 DEF Encoders!OrderInv, Encoders!DeviceInv
<1>5. /\ v5'.first = FALSE /\ v5'.replacements = (v5.replacements \/ fill)
      /\ v5'.inject = (v5.inject /\ ~fill) /\ v5'.replacements \in BOOLEAN
  <2> DEFINE a == v5.inject /\ ~fill
             b == v5.replacements \/ fill
  <2>1. a \in BOOLEAN /\ b \in BOOLEAN
    OBVIOUS
  <2>2. v5' = [v5 EXCEPT !.inject = a, !.replacements = b, !.first = FALSE]
    BY <1>1
  <2> HIDE DEF a, b
  <2>3. v5'.first = FALSE /\ v5'.replacements = b /\ v5'.inject = a
    BY <1>4, <2>2
  <2> QED
    BY <2>1, <2>3 DEF a, b
<1>6. f \in Encoders!Held /\ f.n = v7 /\ f.stamp \in Nat \cup {None} /\ (f.key <=> v8 \/ v5.first)
  <2>1. Encoders!KeyFrame(image) \in BOOLEAN /\ (Encoders!KeyFrame(image) <=> v8 \/ v5.first)
    BY DEF Encoders!KeyFrame
  <2> QED
    BY <1>3, <2>1 DEF Encoders!Held
<1>7. v11 => f.key
  BY <1>1, <1>6 DEF Encoders!OrderInv
<1> HIDE DEF f, s
<1>8. /\ held \in Seq(Encoders!Held) /\ Len(held) = l + 1 /\ DOMAIN held = 1..l + 1 /\ held[l + 1] = f
      /\ \A i \in 1..l : held[i] = v9[i]
  BY <1>3, <1>6
<1> HIDE DEF held, l
<1>9. \A i \in 1..l + 1 : /\ held[i] \in Encoders!Held /\ held[i].n \in Nat /\ held[i].n < v7 + 1
                          /\ held[i].n = v7 => i = l + 1
  <2>1. \A i \in 1..l : v9[i].n < v7
    BY <1>3 DEF Encoders!OrderInv
  <2>2. \A i \in 1..l + 1 : i \in 1..l \/ i = l + 1
    BY <1>3
  <2>3. \A i \in 1..l + 1 : held[i] \in Encoders!Held
    BY <1>8
  <2>4. \A i \in 1..l + 1 : held[i].n \in Nat
    BY <2>3 DEF Encoders!Held
  <2> QED
    BY <1>3, <1>6, <1>8, <2>1, <2>2, <2>3, <2>4
<1>10. \A i, j \in 1..l + 1 : i < j => held[i].n < held[j].n
  <2> SUFFICES ASSUME NEW i \in 1..l + 1, NEW j \in 1..l + 1, i < j PROVE held[i].n < held[j].n
    OBVIOUS
  <2>1. i \in 1..l /\ (j \in 1..l \/ j = l + 1)
    BY <1>3
  <2>2. v9[i].n < v7
    BY <1>3, <2>1 DEF Encoders!OrderInv
  <2>3. j \in 1..l => v9[i].n < v9[j].n
    BY <1>3, <2>1 DEF Encoders!OrderInv
  <2> QED
    BY <1>6, <1>8, <2>1, <2>2, <2>3
<1>11. \A i \in DOMAIN v10, j \in 1..l + 1 : v10[i].n < held[j].n
  <2> SUFFICES ASSUME NEW i \in DOMAIN v10, NEW j \in 1..l + 1 PROVE v10[i].n < held[j].n
    OBVIOUS
  <2>1. j \in 1..l \/ j = l + 1
    BY <1>3
  <2>2. v10[i].n < v7
    BY DEF Encoders!OrderInv
  <2>3. j \in 1..l => v10[i].n < v9[j].n
    BY <1>3 DEF Encoders!OrderInv
  <2> QED
    BY <1>6, <1>8, <2>1, <2>2, <2>3
<1>12. \A i \in 1..out : i \in 1..l + 1
  BY <1>1, <1>3, <1>8
<1>13. \A i \in 1..out : /\ P(i) \in Encoders!Raised /\ P(i).n = held[i].n /\ P(i).stamp \in {None, P(i).sent}
                         /\ P(i).replaced = v5'.replacements
  <2> SUFFICES ASSUME NEW i \in 1..out
               PROVE  /\ P(i) \in Encoders!Raised /\ P(i).n = held[i].n /\ P(i).stamp \in {None, P(i).sent}
                      /\ P(i).replaced = v5'.replacements
    OBVIOUS
  <2>1. held[i].stamp \in Nat \cup {None} /\ held[i].key \in BOOLEAN /\ held[i].n \in Nat
    BY <1>9, <1>12 DEF Encoders!Held
  <2>2. Encoders!Stamped(held[i], v7, f.stamp) \in {None, held[i].stamp}
    <3>1. held[i].n = v7 => held[i].stamp = f.stamp
      BY <1>8, <1>9, <1>12
    <3> QED
      BY <3>1 DEF Encoders!Stamped
  <2>3. Encoders!Stamped(held[i], v7, f.stamp) \in Nat \cup {None}
    BY <2>1, <2>2
  <2> QED
    BY <1>5, <2>1, <2>2, <2>3 DEF Encoders!Raised
<1> HIDE DEF P
<1>14. new \in Seq(Encoders!Raised) /\ Len(new) = out /\ \A i \in 1..out : new[i] = P(i)
  BY <1>3, <1>13
<1> HIDE DEF new
<1>15. /\ all \in Seq(Encoders!Raised) /\ Len(v10) \in Nat /\ DOMAIN v10 = 1..Len(v10)
       /\ \A i \in DOMAIN all : \/ i \in DOMAIN v10 /\ all[i] = v10[i]
                                \/ i > Len(v10) /\ i - Len(v10) \in 1..out /\ all[i] = P(i - Len(v10))
  <2>1. all \in Seq(Encoders!Raised) /\ Len(all) = Len(v10) + out /\ Len(v10) \in Nat /\ DOMAIN v10 = 1..Len(v10)
    BY <1>3, <1>14
  <2>2. \A i \in 1..Len(all) : all[i] = IF i <= Len(v10) THEN v10[i] ELSE new[i - Len(v10)]
    BY <1>3, <1>14
  <2> HIDE DEF all
  <2>3. DOMAIN all = 1..Len(all)
    BY <2>1
  <2>4. ASSUME NEW i \in 1..Len(all), i > Len(v10) PROVE i - Len(v10) \in 1..out
    BY <1>3, <2>1, <2>4
  <2>5. ASSUME NEW i \in 1..Len(all)
        PROVE  \/ i \in DOMAIN v10 /\ all[i] = v10[i]
               \/ i > Len(v10) /\ i - Len(v10) \in 1..out /\ all[i] = P(i - Len(v10))
    BY <1>14, <2>1, <2>2, <2>4
  <2> QED
    BY <2>1, <2>3, <2>5
<1> HIDE DEF all
<1>16. \A i, j \in DOMAIN all : i < j => all[i].n < all[j].n
  <2> SUFFICES ASSUME NEW i \in DOMAIN all, NEW j \in DOMAIN all, i < j PROVE all[i].n < all[j].n
    OBVIOUS
  <2>0. i \in Nat /\ j \in Nat
    BY <1>15
  <2>1. CASE j \in DOMAIN v10 /\ all[j] = v10[j]
    <3>1. i \in DOMAIN v10 /\ all[i] = v10[i]
      BY <1>15, <2>0, <2>1
    <3> QED
      BY <2>1, <3>1 DEF Encoders!OrderInv, Encoders!PacketsInOrder
  <2>2. CASE j > Len(v10) /\ j - Len(v10) \in 1..out /\ all[j] = P(j - Len(v10))
    <3> DEFINE b == j - Len(v10)
    <3>1. all[j].n = held[b].n /\ b \in 1..l + 1
      BY <1>12, <1>13, <2>2
    <3>2. CASE i \in DOMAIN v10 /\ all[i] = v10[i]
      BY <1>11, <3>1, <3>2
    <3>3. CASE i > Len(v10) /\ i - Len(v10) \in 1..out /\ all[i] = P(i - Len(v10))
      <4> DEFINE a == i - Len(v10)
      <4>1. all[i].n = held[a].n /\ a \in 1..l + 1
        BY <1>12, <1>13, <3>3
      <4>2. a < b
        BY <1>15, <2>0
      <4> HIDE DEF a, b
      <4> QED
        BY <1>10, <3>1, <4>1, <4>2
    <3> QED
      BY <1>15, <3>2, <3>3
  <2> QED
    BY <1>15, <2>1, <2>2
<1>17. \A i \in DOMAIN all : all[i].n < v7 + 1 /\ all[i].stamp \in {None, all[i].sent}
  <2> SUFFICES ASSUME NEW i \in DOMAIN all PROVE all[i].n < v7 + 1 /\ all[i].stamp \in {None, all[i].sent}
    OBVIOUS
  <2>1. CASE i \in DOMAIN v10 /\ all[i] = v10[i]
    <3>1. v10[i] \in Encoders!Raised
      BY <1>3, <2>1
    <3>2. v10[i].n \in Nat
      BY <3>1 DEF Encoders!Raised
    <3>3. v10[i].n < v7 /\ v10[i].stamp \in {None, v10[i].sent}
      BY <2>1 DEF Encoders!OrderInv, Encoders!PacketsInOrder
    <3> QED
      BY <1>3, <2>1, <3>2, <3>3
  <2>2. CASE i > Len(v10) /\ i - Len(v10) \in 1..out /\ all[i] = P(i - Len(v10))
    BY <1>9, <1>12, <1>13, <2>2
  <2> QED
    BY <1>15, <2>1, <2>2
<1>18. Encoders!NeedsReplacements =>
         (v5'.inject \/ v5'.replacements) /\ \A i \in DOMAIN all : all[i].replaced
  <2> SUFFICES ASSUME Encoders!NeedsReplacements
               PROVE  (v5'.inject \/ v5'.replacements) /\ \A i \in DOMAIN all : all[i].replaced
    OBVIOUS
  <2>1. v5.inject \/ v5.replacements
    BY <1>1 DEF Encoders!OrderInv
  <2>2. \A i \in DOMAIN v10 : v10[i].replaced
    BY DEF Encoders!OrderInv, Encoders!IdrIsAnswered, Encoders!NeedsReplacements
  <2>3. out > 0 => v5'.replacements
    BY <1>5, <2>1
  <2>4. \A i \in 1..out : P(i).replaced
    <3>1. \A i \in 1..out : out > 0
      BY <1>3
    <3> QED
      BY <1>13, <2>3, <3>1
  <2> QED
    BY <1>5, <1>15, <2>1, <2>2, <2>4
<1>19. /\ v9' \in Seq(Encoders!Held)
       /\ \A i \in DOMAIN v9' : i \in Nat /\ out + i \in 1..l + 1 /\ out + i > out /\ v9'[i] = held[out + i]
  <2>1. out + 1 \in 1..(l + 2) /\ l + 1 \in Nat
    BY <1>1, <1>3, <1>8
  <2>2. v9' = SubSeq(held, out + 1, l + 1)
    BY <1>1, <1>8
  <2>3. v9' \in Seq(Encoders!Held) /\ Len(v9') = (l + 1) - out /\ \A i \in 1..(l + 1) - out : v9'[i] = held[out + i]
    BY <1>1, <1>3, <1>8, <2>1, <2>2, SMTT(30)
  <2> QED
    BY <1>1, <1>3, <1>8, <2>3
<1>20. PICK d \in Nat : \A i \in DOMAIN v10' : i \in Nat /\ i + d \in DOMAIN all /\ v10'[i] = all[i + d]
  BY <1>1, <1>15, LastTwoMeans
<1>21. v10' \in Seq(Encoders!Raised)
  BY <1>1, <1>15, LastTwoMeans
<1>22. Encoders!PacketsInOrder' /\ \A i \in DOMAIN v10' : v10'[i].n < v7'
  <2>1. \A i, j \in DOMAIN v10' : i < j => v10'[i].n < v10'[j].n
    BY <1>16, <1>20
  <2>2. \A i \in DOMAIN v10' : v10'[i].stamp \in {None, v10'[i].sent}
    BY <1>17, <1>20
  <2>3. \A i \in DOMAIN v10' : v10'[i].n < v7'
    BY <1>1, <1>17, <1>20
  <2> QED
    BY <2>1, <2>2, <2>3 DEF Encoders!PacketsInOrder
<1>23. Encoders!IdrIsAnswered' /\ (Encoders!NeedsReplacements' => v5'.inject \/ v5'.replacements)
  <2>1. Encoders!NeedsReplacements' <=> Encoders!NeedsReplacements
    BY <1>1 DEF Encoders!NeedsReplacements
  <2>2. Encoders!NeedsReplacements' => \A i \in DOMAIN v10' : v10'[i].replaced
    BY <1>18, <1>20, <2>1
  <2>3. v12'
    BY <1>1, <1>7 DEF Encoders!OrderInv, Encoders!IdrIsAnswered
  <2> QED
    BY <1>18, <2>1, <2>2, <2>3 DEF Encoders!IdrIsAnswered, Encoders!NeedsReplacements
<1>24. \A i, j \in DOMAIN v9' : i < j => v9'[i].n < v9'[j].n
  <2> SUFFICES ASSUME NEW i \in DOMAIN v9', NEW j \in DOMAIN v9', i < j PROVE v9'[i].n < v9'[j].n
    OBVIOUS
  <2>1. i \in Nat /\ j \in Nat /\ out + i \in 1..l + 1 /\ out + j \in 1..l + 1
    BY <1>19
  <2>2. v9'[i] = held[out + i] /\ v9'[j] = held[out + j]
    BY <1>19
  <2>3. out + i < out + j
    BY <1>3, <2>1
  <2> QED
    BY <1>10, <2>1, <2>2, <2>3
<1>25. \A i \in DOMAIN v9' : v9'[i].n < v7'
  BY <1>1, <1>9, <1>19
<1>26. \A i \in DOMAIN v10', j \in DOMAIN v9' : v10'[i].n < v9'[j].n
  <2> SUFFICES ASSUME NEW i \in DOMAIN all, NEW j \in 1..l + 1, j > out PROVE all[i].n < held[j].n
    BY <1>19, <1>20
  <2>1. CASE i \in DOMAIN v10 /\ all[i] = v10[i]
    BY <1>11, <2>1
  <2>2. CASE i > Len(v10) /\ i - Len(v10) \in 1..out /\ all[i] = P(i - Len(v10))
    <3>1. i - Len(v10) < j
      BY <1>3, <2>2
    <3> QED
      BY <1>10, <1>12, <1>13, <2>2, <3>1
  <2> QED
    BY <1>15, <2>1, <2>2
<1>27. ~v11'
  BY <1>1, <1>7
<1>28. v1' # None
  BY <1>1 DEF Encoders!OrderInv, Encoders!DeviceInv
<1>29. v7' \in Nat
  BY <1>1, <1>3
<1>30. /\ v1' = None => v10' = <<>>
       /\ v11' /\ v5' # None => v8' \/ v5'.first
       /\ Encoders!NeedsReplacements' /\ v5' # None => v5'.inject \/ v5'.replacements
  BY <1>23, <1>27, <1>28
<1> HIDE DEF fill
<1> QED
  BY <1>2, <1>19, <1>21, <1>22, <1>23, <1>24, <1>25, <1>26, <1>29, <1>30, Zenon DEF Encoders!OrderInv

\* Whatever is done around the encoding keeps the order: a new session starts with
\* an IDR frame and injects what its client needs, and one that ends or fails leaves
\* the number of the next frame and the packets that were given out.
LEMMA OrderKeeps ==
  ASSUME Encoders!OrderInv, [Encoders!EncodeNext]_(Encoders!encodeVars)
  PROVE  Encoders!OrderInv'
<1>0. Encoders!DeviceInv'
  BY DeviceKeeps DEF Encoders!OrderInv
<1>1. /\ Encoders!DeviceInv /\ v7 \in Nat /\ v9 \in Seq(Encoders!Held) /\ v10 \in Seq(Encoders!Raised)
      /\ v1 = None => v5 = None /\ v10 = <<>>
  BY DEF Encoders!OrderInv, Encoders!DeviceInv
<1>2. ASSUME NEW c \in Config, NEW s \in Caps, Encoders!Start(c, s) PROVE Encoders!OrderInv'
  <2>1. /\ v1 = None /\ v5' = v5 /\ v7' = v7 /\ v8' = v8 /\ v9' = v9 /\ v10' = v10 /\ v11' = v11 /\ v12' = v12
    BY <1>2 DEF Encoders!Start
  <2>2. v10 = <<>> /\ DOMAIN v10 = {} /\ v5' = None
    BY <1>1, <2>1
  <2>3. (Encoders!PacketsInOrder /\ Encoders!IdrIsAnswered)'
    BY <2>1, <2>2 DEF Encoders!PacketsInOrder, Encoders!IdrIsAnswered, Encoders!OrderInv
  <2> QED
    BY <1>0, <2>1, <2>2, <2>3 DEF Encoders!OrderInv
<1>3. ASSUME NEW works \in BOOLEAN, Encoders!MakeDevice(works) PROVE Encoders!OrderInv'
  <2>1. /\ v1' = v1 /\ v2' = v2 /\ v5' = v5 /\ v7' = v7 /\ v8' = v8 /\ v9' = v9 /\ v10' = v10
        /\ v11' = v11 /\ v12' = v12
    BY <1>3 DEF Encoders!MakeDevice
  <2> QED
    BY <1>0, <2>1 DEF Encoders!OrderInv, Encoders!PacketsInOrder, Encoders!IdrIsAnswered, Encoders!NeedsReplacements
<1>4. ASSUME NEW plain \in BOOLEAN, NEW fallback \in BOOLEAN, NEW rest \in BOOLEAN,
             Encoders!MakeSession(plain, fallback, rest)
      PROVE  Encoders!OrderInv'
  <2>1. /\ v1' = v1 /\ v2' = v2 /\ v7' = v7 /\ v8' = v8 /\ v9' = v9 /\ v10' = v10 /\ v11' = v11 /\ v12' = v12
        /\ v4 # None
        /\ v5' = None \/ (\E o \in {"plain", "fallback"} : v5' = Encoders!SessionOf(o))
    BY <1>4 DEF Encoders!MakeSession, Encoders!Opened
  <2>2. v5' # None => v5'.first /\ (Encoders!NeedsReplacements => v5'.inject)
    <3> SUFFICES ASSUME v5' # None PROVE v5'.first /\ (Encoders!NeedsReplacements => v5'.inject)
      OBVIOUS
    <3>1. PICK o \in {"plain", "fallback"} : v5' = Encoders!SessionOf(o)
      BY <2>1
    <3>2. v5'.first = TRUE /\ v5'.inject = Encoders!Inject
      BY <3>1 DEF Encoders!SessionOf
    <3>3. v1 \in Config
      BY <1>1, <2>1 DEF Encoders!DeviceInv
    <3>4. v1.format \in {"h264", "hevc", "av1"}
      BY <3>3, ConfigAssumption
    <3> QED
      BY <3>2, <3>4 DEF Encoders!NeedsReplacements, Encoders!Inject
  <2> QED
    BY <1>0, <2>1, <2>2
    DEF Encoders!OrderInv, Encoders!PacketsInOrder, Encoders!IdrIsAnswered, Encoders!NeedsReplacements
<1>5. ASSUME Encoders!HdrChanges PROVE Encoders!OrderInv'
  <2>1. /\ v1' = v1 /\ v2' = v2 /\ v5' = v5 /\ v7' = v7 /\ v8' = v8 /\ v9' = v9 /\ v10' = v10
        /\ v11' = v11 /\ v12' = v12
    BY <1>5 DEF Encoders!HdrChanges
  <2> QED
    BY <1>0, <2>1 DEF Encoders!OrderInv, Encoders!PacketsInOrder, Encoders!IdrIsAnswered, Encoders!NeedsReplacements
<1>6. ASSUME Encoders!RequestIdr PROVE Encoders!OrderInv'
  <2>1. /\ v1' = v1 /\ v2' = v2 /\ v5' = v5 /\ v7' = v7 /\ v8' = TRUE /\ v9' = v9 /\ v10' = v10 /\ v12' = v12
    BY <1>6 DEF Encoders!RequestIdr
  <2> QED
    BY <1>0, <2>1 DEF Encoders!OrderInv, Encoders!PacketsInOrder, Encoders!IdrIsAnswered, Encoders!NeedsReplacements
<1>7. ASSUME NEW image \in BOOLEAN, NEW out \in 0..(Delay + 1), Encoders!Encode(image, out)
      PROVE  Encoders!OrderInv'
  BY <1>7, EncodeOrders
<1>8. ASSUME Encoders!EncodeEnds \/ Encoders!EncodeFails PROVE Encoders!OrderInv'
  <2>1. /\ v1' = v1 /\ v2' = v2 /\ v5' = None /\ v9' = <<>> /\ v10' = v10 /\ v11' = v11 /\ v12' = v12
        /\ v7' = v7 \/ v7' = v7 + 1
    BY <1>8 DEF Encoders!EncodeEnds, Encoders!EncodeFails, Encoders!LeaveRun
  <2>2. v7' \in Nat /\ v7' >= v7 /\ DOMAIN v9' = {} /\ v9' \in Seq(Encoders!Held)
    BY <1>1, <2>1
  <2>3. \A i \in DOMAIN v10 : v10[i].n < v7'
    <3> SUFFICES ASSUME NEW i \in DOMAIN v10 PROVE v10[i].n < v7'
      OBVIOUS
    <3>1. v10[i] \in Encoders!Raised /\ v10[i].n < v7
      BY <1>1 DEF Encoders!OrderInv
    <3>2. v10[i].n \in Nat
      BY <3>1 DEF Encoders!Raised
    <3> QED
      BY <1>1, <2>2, <3>1, <3>2
  <2> QED
    BY <1>0, <2>1, <2>2, <2>3
    DEF Encoders!OrderInv, Encoders!PacketsInOrder, Encoders!IdrIsAnswered, Encoders!NeedsReplacements
<1>9. ASSUME UNCHANGED Encoders!encodeVars PROVE Encoders!OrderInv'
  <2>1. /\ v1' = v1 /\ v2' = v2 /\ v5' = v5 /\ v7' = v7 /\ v8' = v8 /\ v9' = v9 /\ v10' = v10
        /\ v11' = v11 /\ v12' = v12
    BY <1>9 DEF Encoders!encodeVars
  <2> QED
    BY <1>0, <2>1 DEF Encoders!OrderInv, Encoders!PacketsInOrder, Encoders!IdrIsAnswered, Encoders!NeedsReplacements
<1> QED
  BY <1>2, <1>3, <1>4, <1>5, <1>6, <1>7, <1>8, <1>9 DEF Encoders!EncodeNext

(***************************************************************************)
(* Recovery from lost frames (nvenc_base.cpp, video.cpp).                  *)
(***************************************************************************)

\* The latest frame of a set of frames, and the greatest of three numbers.
LEMMA MaxIsGreatest ==
  ASSUME NEW n \in Nat, NEW S \in SUBSET (0..n), S # {}
  PROVE  Rfi!Max(S) \in S /\ \A x \in S : x <= Rfi!Max(S)
<1> DEFINE D == {n - x : x \in S}
<1>1. D \in SUBSET Nat /\ D # {}
  <2>1. \A x \in S : n - x \in Nat
    OBVIOUS
  <2>2. PICK x \in S : TRUE
    OBVIOUS
  <2>3. n - x \in D
    BY <2>2
  <2> QED
    BY <2>1, <2>3
<1>2. PICK d \in D : \A e \in D : d <= e
  <2> HIDE DEF D
  <2> QED
    BY <1>1, LeastNat
<1>3. PICK x \in S : d = n - x
  BY <1>2
<1>4. \A y \in S : n - y \in D
  OBVIOUS
<1>5. \A y \in S : d <= n - y
  BY <1>2, <1>4
<1>6. \A y \in S : x >= y
  BY <1>3, <1>5
<1>7. Rfi!Max(S) \in S /\ \A y \in S : Rfi!Max(S) >= y
  BY <1>6, Zenon DEF Rfi!Max
<1> QED
  BY <1>7

\* The greatest of three numbers.
LEMMA MaxOfThree ==
  ASSUME NEW a \in Int, NEW b \in Int, NEW c \in Int
  PROVE  Rfi!Max({a, b, c}) \in Int /\ Rfi!Max({a, b, c}) >= a /\ Rfi!Max({a, b, c}) >= b
<1>1. \E x \in {a, b, c} : \A y \in {a, b, c} : x >= y
  <2>1. CASE a >= b /\ a >= c
    BY <2>1
  <2>2. CASE b >= a /\ b >= c
    BY <2>2
  <2>3. CASE c >= a /\ c >= b
    BY <2>3
  <2> QED
    BY <2>1, <2>2, <2>3
<1>2. Rfi!Max({a, b, c}) \in {a, b, c} /\ \A y \in {a, b, c} : Rfi!Max({a, b, c}) >= y
  BY <1>1, Zenon DEF Rfi!Max
<1> HIDE DEF Rfi!Max
<1> QED
  BY <1>2

\* What was sent is a sequence of frames, whatever was reported and created.
LEMMA SentStarts == Rfi!Init => Rfi!SentInv
<1> SUFFICES ASSUME Rfi!Init PROVE Rfi!SentInv
  OBVIOUS
<1>1. v1 = <<>> /\ v2 = <<>> /\ v8 = 1 /\ v7 = Rfi!NoState
  BY DEF Rfi!Init
<1>2. v1 \in Seq(Rfi!Sent)
  BY <1>1
<1> QED
  BY <1>1, <1>2 DEF Rfi!SentInv, Rfi!NoState

\* A report of lost frames is answered by the next frame.
LEMMA SentStep == Rfi!SentInv /\ [Rfi!Next]_(Rfi!rfiVars) => Rfi!SentInv' /\ Rfi!ReportIsAnswered
<1> SUFFICES ASSUME Rfi!SentInv, [Rfi!Next]_(Rfi!rfiVars)
             PROVE  Rfi!SentInv' /\ Rfi!ReportIsAnswered
  OBVIOUS
<1>1. /\ v1 \in Seq(Rfi!Sent) /\ v8 \in Nat
      /\ v7 \in [last : Nat, range : Nat \X Nat, confirm : BOOLEAN]
      /\ v2 \in {<<>>} \cup Nat \X Nat
  BY DEF Rfi!SentInv
<1>2. ASSUME v1' = v1 PROVE Rfi!ReportIsAnswered
  <2>1. Len(v1) \in Nat
    BY <1>1
  <2> QED
    BY <1>2, <2>1 DEF Rfi!ReportIsAnswered
<1>3. CASE UNCHANGED Rfi!rfiVars
  BY <1>2, <1>3 DEF Rfi!rfiVars, Rfi!SentInv
<1>4. CASE Rfi!DestroyEncoder
  <2>1. v1' = v1 /\ v2' = v2 /\ v8' = v8 /\ v7' = Rfi!NoState
    BY <1>4 DEF Rfi!DestroyEncoder
  <2> QED
    BY <1>1, <1>2, <2>1 DEF Rfi!SentInv, Rfi!NoState
<1>5. CASE Rfi!RequestIdr
  BY <1>1, <1>2, <1>5 DEF Rfi!RequestIdr, Rfi!SentInv
<1>6. ASSUME NEW n \in 0..Len(Rfi!Steps), NEW b \in BOOLEAN, Rfi!CreateEncoder(n, b)
      PROVE  Rfi!SentInv' /\ Rfi!ReportIsAnswered
  <2>1. v1' = v1 /\ v2' = v2 /\ v8' = Len(v1) + 1 /\ v7' = Rfi!NoState
    BY <1>6 DEF Rfi!CreateEncoder
  <2>2. v8' \in Nat
    BY <1>1, <2>1
  <2> QED
    BY <1>1, <1>2, <2>1, <2>2 DEF Rfi!SentInv, Rfi!NoState
<1>7. ASSUME NEW f \in 1..MaxFrame, NEW l \in 1..MaxFrame, Rfi!Report(f, l)
      PROVE  Rfi!SentInv' /\ Rfi!ReportIsAnswered
  <2>1. v1' = v1 /\ v2' = <<f, l>> /\ v8' = v8 /\ v7' = v7 /\ f \in Nat /\ l \in Nat
    BY <1>1, <1>7 DEF Rfi!Report
  <2> QED
    BY <1>1, <1>2, <2>1 DEF Rfi!SentInv
<1>8. ASSUME NEW works \in BOOLEAN, Rfi!EncodeFrame(works)
      PROVE  Rfi!SentInv' /\ Rfi!ReportIsAnswered
  <2> DEFINE same == [ok |-> TRUE, s |-> v7, out |-> {}]
             inv == IF v2 = <<>> THEN same ELSE Rfi!Invalidate(v2[1], v2[2], works)
             usable == Rfi!Usable(v9 \cup inv.out)
             intra == v4 \/ v3 \/ ~inv.ok \/ usable = {}
             ref == IF intra THEN 0 ELSE Rfi!Max(usable)
             f == [ref |-> ref, idr |-> intra, marked |-> inv.s.confirm]
             State == [last : Nat, range : Nat \X Nat, confirm : BOOLEAN]
  <2> HIDE DEF inv, usable, intra, ref
  <2>1. /\ v1' = Append(v1, f) /\ v7' = [inv.s EXCEPT !.confirm = FALSE, !.last = Len(v1) + 1]
        /\ v2' = <<>> /\ v8' = v8
    BY <1>8, Zenon DEF Rfi!EncodeFrame, inv, usable, intra, ref
  <2>2. inv.s \in State
    <3>1. CASE v2 = <<>>
      BY <1>1, <3>1 DEF inv
    <3>2. CASE v2 # <<>>
      <4>1. v2[1] \in Nat /\ v2[2] \in Nat
        BY <1>1, <3>2
      <4>2. inv.s \in {v7, [v7 EXCEPT !.confirm = TRUE],
                       [v7 EXCEPT !.confirm = TRUE, !.range = <<v2[1], v7.last>>]}
        BY <3>2 DEF inv, Rfi!Invalidate
      <4>3. v7.last \in Nat
        BY <1>1
      <4>4. [v7 EXCEPT !.confirm = TRUE] \in State
        BY <1>1
      <4>5. [v7 EXCEPT !.confirm = TRUE, !.range = <<v2[1], v7.last>>] \in State
        BY <1>1, <4>1, <4>3
      <4> QED
        BY <1>1, <4>2, <4>4, <4>5
    <3> QED
      BY <3>1, <3>2
  <2>3. /\ v2 # <<>> /\ ~intra =>
             \/ inv.s.confirm
             \/ v2[1] >= v7.range[1] /\ v2[2] <= v7.range[2]
    <3> SUFFICES ASSUME v2 # <<>>, ~intra, ~(v2[1] >= v7.range[1] /\ v2[2] <= v7.range[2])
                 PROVE  inv.s.confirm
      OBVIOUS
    <3>1. inv.ok
      BY DEF intra
    <3> DEFINE s2 == [v7 EXCEPT !.confirm = TRUE, !.range = <<v2[1], v7.last>>]
    <3>2. s2.confirm
      BY <1>1
    <3> HIDE DEF s2
    <3>3. inv.s = s2
      BY <3>1 DEF inv, Rfi!Invalidate, s2
    <3> QED
      BY <3>2, <3>3
  <2>4. intra \in BOOLEAN
    BY DEF intra
  <2>5. ref \in Nat
    <3>1. CASE intra
      BY <3>1 DEF ref
    <3>2. CASE ~intra
      <4>1. usable # {}
        BY <3>2 DEF intra
      <4>2. usable \in SUBSET (1..Len(v1))
        BY <1>1 DEF usable, Rfi!Usable
      <4>3. usable \in SUBSET (0..Len(v1)) /\ Len(v1) \in Nat
        BY <1>1, <4>2
      <4>4. Rfi!Max(usable) \in usable
        BY <4>1, <4>3, MaxIsGreatest
      <4>5. ref = Rfi!Max(usable)
        BY <3>2, Zenon DEF ref
      <4>6. \A x \in usable : x \in Nat
        BY <4>2
      <4> QED
        BY <4>4, <4>5, <4>6
    <3> QED
      BY <3>1, <3>2
  <2>6. f \in Rfi!Sent
    BY <2>2, <2>4, <2>5 DEF Rfi!Sent
  <2>7. f.idr = intra /\ f.marked = inv.s.confirm
    OBVIOUS
  <2> HIDE DEF f
  <2>8. v1' \in Seq(Rfi!Sent) /\ Len(v1') = Len(v1) + 1 /\ v1'[Len(v1')] = f
    BY <1>1, <2>1, <2>6, AppendProperties
  <2>9. Rfi!SentInv'
    <3>1. v7' \in State
      <4> DEFINE s == inv.s
                 n == Len(v1) + 1
      <4>1. s \in State /\ n \in Nat /\ v7' = [s EXCEPT !.confirm = FALSE, !.last = n]
        BY <1>1, <2>1, <2>2
      <4> HIDE DEF s, n
      <4> QED
        BY <4>1
    <3> QED
      BY <1>1, <2>1, <2>8, <3>1 DEF Rfi!SentInv
  <2>10. Rfi!ReportIsAnswered
    BY <2>3, <2>7, <2>8 DEF Rfi!ReportIsAnswered
  <2> QED
    BY <2>9, <2>10
<1> QED
  BY <1>3, <1>4, <1>5, <1>6, <1>7, <1>8 DEF Rfi!Next

\* The frames that a frame of fs rests on, itself with them.
NeedOf(fs) == LET need[n \in 0..Len(fs)] == IF n = 0 THEN {} ELSE {n} \cup need[fs[n].ref]
              IN need

\* Frames that refer to earlier ones only.
Backward(fs) == fs \in Seq(Rfi!Sent) /\ \A n \in DOMAIN fs : fs[n].ref < n

\* What a frame rests on, step by step.
LEMMA NeedUnfolds ==
  ASSUME NEW fs, Backward(fs)
  PROVE  NeedOf(fs) = [n \in 0..Len(fs) |-> IF n = 0 THEN {} ELSE {n} \cup NeedOf(fs)[fs[n].ref]]
<1> DEFINE P(f, l) == f = [n \in 0..l |-> IF n = 0 THEN {} ELSE {n} \cup f[fs[n].ref]]
           S == {l \in Nat : l <= Len(fs) /\ ~ \E f : P(f, l)}
<1>1. Len(fs) \in Nat /\ \A n \in 1..Len(fs) : fs[n].ref \in Nat /\ fs[n].ref < n
  <2>1. fs \in Seq(Rfi!Sent) /\ DOMAIN fs = 1..Len(fs) /\ Len(fs) \in Nat
    BY DEF Backward
  <2>2. \A n \in 1..Len(fs) : fs[n] \in Rfi!Sent /\ fs[n].ref < n
    BY <2>1 DEF Backward
  <2> QED
    BY <2>1, <2>2 DEF Rfi!Sent
<1>2. S = {}
  <2> SUFFICES ASSUME S # {} PROVE FALSE
    OBVIOUS
  <2>1. PICK l \in S : \A y \in S : l <= y
    BY LeastNat
  <2>2. P([n \in 0..0 |-> {}], 0)
    OBVIOUS
  <2>3. l # 0 /\ l \in Nat /\ l <= Len(fs)
    BY <2>1, <2>2
  <2>4. l - 1 \in Nat /\ l - 1 \notin S
    <3> HIDE DEF S
    <3> QED
      BY <2>1, <2>3
  <2>5. PICK f : P(f, l - 1)
    BY <1>1, <2>3, <2>4
  <2> DEFINE g == [n \in 0..l |-> IF n = l THEN {l} \cup f[fs[l].ref] ELSE f[n]]
  <2>6. ASSUME NEW n \in 0..l PROVE g[n] = IF n = 0 THEN {} ELSE {n} \cup g[fs[n].ref]
    <3>1. n # 0 => fs[n].ref \in 0..l /\ fs[n].ref # l
      BY <1>1, <2>3
    <3>2. n # 0 => g[fs[n].ref] = f[fs[n].ref]
      BY <3>1
    <3>3. CASE n = l
      BY <2>3, <3>2, <3>3
    <3>4. CASE n # l
      <4>1. n \in 0..l - 1 /\ g[n] = f[n]
        BY <2>3, <3>4
      <4>2. f[n] = IF n = 0 THEN {} ELSE {n} \cup f[fs[n].ref]
        BY <2>5, <4>1
      <4> QED
        BY <3>2, <4>1, <4>2
    <3> QED
      BY <3>3, <3>4
  <2>7. P(g, l)
    BY <2>6
  <2> QED
    BY <2>1, <2>7
<1>3. Len(fs) \notin S
  <2> HIDE DEF S
  <2> QED
    BY <1>2
<1>4. \E f : P(f, Len(fs))
  <2> HIDE DEF P
  <2> QED
    BY <1>1, <1>3
<1>5. P(CHOOSE f : P(f, Len(fs)), Len(fs))
  BY <1>4
<1> QED
  BY <1>5 DEF NeedOf

\* A frame rests on none that comes after it.
LEMMA NeedIsEarlier ==
  ASSUME NEW fs, Backward(fs)
  PROVE  \A n \in 0..Len(fs) : NeedOf(fs)[n] \subseteq 1..n
<1> DEFINE S == {n \in Nat : n <= Len(fs) /\ ~(NeedOf(fs)[n] \subseteq 1..n)}
<1>1. Len(fs) \in Nat /\ \A n \in 1..Len(fs) : fs[n].ref \in Nat /\ fs[n].ref < n
  <2>1. fs \in Seq(Rfi!Sent) /\ DOMAIN fs = 1..Len(fs) /\ Len(fs) \in Nat
    BY DEF Backward
  <2>2. \A n \in 1..Len(fs) : fs[n] \in Rfi!Sent /\ fs[n].ref < n
    BY <2>1 DEF Backward
  <2> QED
    BY <2>1, <2>2 DEF Rfi!Sent
<1>2. ASSUME NEW n \in 0..Len(fs) PROVE NeedOf(fs)[n] = IF n = 0 THEN {} ELSE {n} \cup NeedOf(fs)[fs[n].ref]
  BY NeedUnfolds
<1>3. S = {}
  <2> SUFFICES ASSUME S # {} PROVE FALSE
    OBVIOUS
  <2>1. PICK l \in S : \A y \in S : l <= y
    BY LeastNat
  <2>2. l \in 0..Len(fs) /\ l \in Nat
    BY <1>1, <2>1
  <2>3. l # 0
    BY <1>2, <2>1, <2>2
  <2>4. fs[l].ref \in Nat /\ fs[l].ref < l /\ NeedOf(fs)[l] = {l} \cup NeedOf(fs)[fs[l].ref]
    <3>1. l \in 1..Len(fs)
      BY <1>1, <2>2, <2>3
    <3> QED
      BY <1>1, <1>2, <2>2, <2>3, <3>1
  <2>5. fs[l].ref \notin S
    <3> HIDE DEF S
    <3> QED
      BY <2>1, <2>2, <2>4
  <2>6. NeedOf(fs)[fs[l].ref] \subseteq 1..fs[l].ref
    BY <1>1, <2>2, <2>4, <2>5
  <2>7. NeedOf(fs)[l] \subseteq 1..l
    BY <2>2, <2>3, <2>4, <2>6
  <2> QED
    BY <2>1, <2>7
<1> QED
  BY <1>1, <1>3

\* What is sent later changes nothing of what the frames before rest on.
LEMMA NeedStays ==
  ASSUME NEW fs, NEW f \in Rfi!Sent, Backward(fs), f.ref <= Len(fs)
  PROVE  /\ Backward(Append(fs, f)) /\ Len(Append(fs, f)) = Len(fs) + 1 /\ Append(fs, f)[Len(fs) + 1] = f
         /\ \A n \in 1..Len(fs) : Append(fs, f)[n] = fs[n]
         /\ \A n \in 0..Len(fs) : NeedOf(Append(fs, f))[n] = NeedOf(fs)[n]
         /\ NeedOf(Append(fs, f))[Len(fs) + 1] = {Len(fs) + 1} \cup NeedOf(fs)[f.ref]
<1> DEFINE g == Append(fs, f)
           S == {n \in Nat : n <= Len(fs) /\ NeedOf(g)[n] # NeedOf(fs)[n]}
<1>1. fs \in Seq(Rfi!Sent) /\ DOMAIN fs = 1..Len(fs) /\ Len(fs) \in Nat
  BY DEF Backward
<1>2. /\ g \in Seq(Rfi!Sent) /\ Len(g) = Len(fs) + 1 /\ DOMAIN g = 1..Len(fs) + 1 /\ g[Len(fs) + 1] = f
      /\ \A n \in 1..Len(fs) : g[n] = fs[n]
  BY <1>1
<1> HIDE DEF g
<1>3. \A n \in 1..Len(fs) : fs[n].ref \in Nat /\ fs[n].ref < n
  <2>1. \A n \in 1..Len(fs) : fs[n] \in Rfi!Sent /\ fs[n].ref < n
    BY <1>1 DEF Backward
  <2> QED
    BY <2>1 DEF Rfi!Sent
<1>4. f.ref \in Nat
  BY DEF Rfi!Sent
<1>5. Backward(g)
  <2>1. \A n \in 1..Len(fs) + 1 : n \in 1..Len(fs) \/ n = Len(fs) + 1
    BY <1>1
  <2>2. \A n \in 1..Len(fs) + 1 : g[n].ref < n
    BY <1>1, <1>2, <1>3, <1>4, <2>1
  <2> QED
    BY <1>2, <2>2 DEF Backward
<1>6. ASSUME NEW n \in 0..Len(fs) PROVE NeedOf(fs)[n] = IF n = 0 THEN {} ELSE {n} \cup NeedOf(fs)[fs[n].ref]
  BY NeedUnfolds
<1>7. ASSUME NEW n \in 0..Len(fs) + 1 PROVE NeedOf(g)[n] = IF n = 0 THEN {} ELSE {n} \cup NeedOf(g)[g[n].ref]
  BY <1>2, <1>5, NeedUnfolds, SMTT(30)
<1>8. S = {}
  <2> SUFFICES ASSUME S # {} PROVE FALSE
    OBVIOUS
  <2>1. PICK l \in S : \A y \in S : l <= y
    BY LeastNat
  <2>2. l \in 0..Len(fs) /\ l \in 0..Len(fs) + 1 /\ l \in Nat
    BY <1>1, <2>1
  <2>3. l # 0
    BY <1>6, <1>7, <2>1, <2>2
  <2>4. l \in 1..Len(fs) /\ g[l] = fs[l]
    BY <1>2, <2>2, <2>3
  <2>5. fs[l].ref \in Nat /\ fs[l].ref < l /\ fs[l].ref <= Len(fs)
    BY <1>1, <1>3, <2>4
  <2>6. fs[l].ref \notin S
    <3> HIDE DEF S
    <3> QED
      BY <2>1, <2>2, <2>5
  <2>7. NeedOf(g)[fs[l].ref] = NeedOf(fs)[fs[l].ref]
    BY <2>5, <2>6
  <2>8. NeedOf(g)[l] = NeedOf(fs)[l]
    <3>1. NeedOf(g)[l] = {l} \cup NeedOf(g)[g[l].ref]
      BY <1>7, <2>2, <2>3
    <3>2. NeedOf(fs)[l] = {l} \cup NeedOf(fs)[fs[l].ref]
      BY <1>6, <2>2, <2>3
    <3> QED
      BY <2>4, <2>7, <3>1, <3>2, Zenon
  <2> QED
    BY <2>1, <2>8
<1>9. \A n \in 0..Len(fs) : NeedOf(g)[n] = NeedOf(fs)[n]
  BY <1>1, <1>8
<1>10. NeedOf(g)[Len(fs) + 1] = {Len(fs) + 1} \cup NeedOf(fs)[f.ref]
  <2>1. Len(fs) + 1 \in 0..Len(fs) + 1 /\ Len(fs) + 1 # 0 /\ f.ref \in 0..Len(fs)
    BY <1>1, <1>4
  <2> QED
    BY <1>2, <1>7, <1>9, <2>1
<1> QED
  BY <1>2, <1>5, <1>9, <1>10 DEF g

\* Before the first frame nothing is lost.
LEMMA ResumeStarts == Rfi!Init => Rfi!ResumeInv
<1> SUFFICES ASSUME Rfi!Init PROVE Rfi!ResumeInv
  OBVIOUS
<1>1. Rfi!SentInv
  BY SentStarts
<1>2. v1 = <<>> /\ v2 = <<>> /\ v5 = {} /\ v7 = Rfi!NoState /\ v8 = 1 /\ v10 = {}
  BY DEF Rfi!Init
<1>3. Len(v1) = 0 /\ DOMAIN v1 = {} /\ v7.range[2] = 0 /\ v7.last = 0
  BY <1>2 DEF Rfi!NoState
<1> QED
  BY <1>1, <1>2, <1>3 DEF Rfi!ResumeInv

\* What the invariant says of the frames, in terms of NeedOf.
LEMMA ResumeFacts ==
  ASSUME Rfi!ResumeInv
  PROVE  /\ Backward(v1) /\ Len(v1) \in Nat /\ DOMAIN v1 = 1..Len(v1) /\ v8 \in 1..Len(v1) + 1
         /\ \A n \in 0..Len(v1) : NeedOf(v1)[n] \subseteq 1..n
         /\ v7 \in [last : Nat, range : Nat \X Nat, confirm : BOOLEAN] /\ v7.range \in Nat \X Nat /\ v7.last \in Nat
         /\ v7.range[1] \in Nat /\ v7.range[2] \in Nat
         /\ v7.range[2] <= Len(v1) /\ v7.last <= Len(v1)
         /\ v10 \subseteq [lo : Nat, hi : 0..Len(v1), at : 0..Len(v1)]
         /\ \A n \in v8..Len(v1) : Rfi!Live(n) =>
              /\ NeedOf(v1)[n] \cap (v7.range[1])..(v7.range[2]) = {}
              /\ \A t \in v10 : NeedOf(v1)[n] \cap (t.lo)..(t.hi) = {}
         /\ \A n \in v8..Len(v1), t \in v10 : t.at < n => NeedOf(v1)[n] \cap (t.lo)..(t.hi) = {}
<1>1. Rfi!Needed = NeedOf(v1)
  BY DEF Rfi!Needed, NeedOf
<1>2. Backward(v1) /\ Len(v1) \in Nat /\ DOMAIN v1 = 1..Len(v1)
  BY DEF Rfi!ResumeInv, Rfi!SentInv, Backward
<1>3. v7 \in [last : Nat, range : Nat \X Nat, confirm : BOOLEAN]
  BY DEF Rfi!ResumeInv, Rfi!SentInv
<1>4. v7.range \in Nat \X Nat /\ v7.last \in Nat
  BY <1>3
<1>5. v7.range[1] \in Nat /\ v7.range[2] \in Nat
  BY <1>4
<1> QED
  BY <1>1, <1>2, <1>3, <1>4, <1>5, NeedIsEarlier DEF Rfi!ResumeInv

\* A frame that may be referred to after what was left out is in reach: no IDR frame
\* came after it and it was not excluded.
LEMMA UsableIsLive ==
  ASSUME Rfi!ResumeInv, NEW out, NEW n \in Rfi!Usable(v9 \cup out)
  PROVE  n \in v8..Len(v1) /\ Rfi!Live(n) /\ n \notin out
<1> DEFINE idrs == {k \in v8..Len(v1) : v1[k].idr}
           from == Rfi!Max({v8, Rfi!LastIdr, Len(v1) - Dpb + 1})
<1>1. Len(v1) \in Nat /\ v8 \in 1..Len(v1) + 1
  BY ResumeFacts
<1>2. Rfi!LastIdr \in Int /\ \A k \in idrs : k <= Rfi!LastIdr
  <2> DEFINE all == {0} \cup idrs
  <2>1. all \in SUBSET (0..Len(v1)) /\ all # {} /\ \A k \in idrs : k \in all
    BY <1>1
  <2>2. Rfi!LastIdr = Rfi!Max(all)
    BY DEF Rfi!LastIdr
  <2> HIDE DEF idrs, all
  <2>3. Rfi!Max(all) \in all /\ \A k \in all : k <= Rfi!Max(all)
    BY <1>1, <2>1, MaxIsGreatest
  <2>4. \A k \in all : k \in Int
    BY <2>1
  <2> QED
    BY <2>1, <2>2, <2>3, <2>4
<1>3. from \in Int /\ from >= v8 /\ from >= Rfi!LastIdr
  <2>1. v8 \in Int /\ Len(v1) - Dpb + 1 \in Int
    BY <1>1, DpbAssumption
  <2> QED
    BY <1>2, <2>1, MaxOfThree
<1>4. n \in from..Len(v1) /\ n \notin v9 /\ n \notin out
  BY DEF Rfi!Usable
<1> HIDE DEF from
<1>5. n \in v8..Len(v1) /\ n >= Rfi!LastIdr
  BY <1>1, <1>2, <1>3, <1>4
<1>6. ASSUME NEW m \in n + 1..Len(v1) PROVE ~v1[m].idr
  <2>1. m \in v8..Len(v1) /\ ~(m <= Rfi!LastIdr)
    BY <1>1, <1>2, <1>5
  <2> QED
    BY <1>2, <2>1
<1> QED
  BY <1>4, <1>5, <1>6 DEF Rfi!Live

\* Frames that are still in reach rest neither on what the encoder counts as done
\* after a report nor on what it is told by it.
LEMMA ReportIsClean ==
  ASSUME Rfi!ResumeInv, v5 # {}, NEW works \in BOOLEAN,
         NEW inv, inv = IF v2 = <<>> THEN [ok |-> TRUE, s |-> v7, out |-> {}]
                        ELSE Rfi!Invalidate(v2[1], v2[2], works)
  PROVE  /\ inv.s.range \in Nat \X Nat /\ inv.s.range[2] <= Len(v1)
         /\ Rfi!Told \subseteq [lo : Nat, hi : 0..Len(v1), at : {Len(v1)}]
         /\ inv.ok => \A n \in v8..Len(v1) : Rfi!Live(n) /\ n \notin inv.out =>
              /\ NeedOf(v1)[n] \cap (inv.s.range[1])..(inv.s.range[2]) = {}
              /\ \A t \in Rfi!Told : NeedOf(v1)[n] \cap (t.lo)..(t.hi) = {}
<1>0. /\ Len(v1) \in Nat /\ v8 \in 1..Len(v1) + 1
      /\ \A n \in 0..Len(v1) : NeedOf(v1)[n] \subseteq 1..n
      /\ v7 \in [last : Nat, range : Nat \X Nat, confirm : BOOLEAN] /\ v7.range \in Nat \X Nat /\ v7.last \in Nat
      /\ v7.range[1] \in Nat /\ v7.range[2] \in Nat
      /\ v7.range[2] <= Len(v1) /\ v7.last <= Len(v1)
      /\ \A n \in v8..Len(v1) : Rfi!Live(n) => NeedOf(v1)[n] \cap (v7.range[1])..(v7.range[2]) = {}
  BY ResumeFacts
<1>1. CASE v2 = <<>>
  <2>1. inv.s = v7 /\ Rfi!Told = {}
    BY <1>1 DEF Rfi!Told
  <2> QED
    BY <1>0, <2>1
<1>2. CASE v2 # <<>>
  <2> DEFINE first == v2[1]
             last == v2[2]
             hi == IF last <= v7.range[2] THEN last ELSE Len(v1)
             to == v7.last
             s1 == [v7 EXCEPT !.confirm = TRUE]
             s2 == [v7 EXCEPT !.confirm = TRUE, !.range = <<first, to>>]
  <2>1. first \in 1..Len(v1) /\ last \in 1..Len(v1)
    BY <1>2 DEF Rfi!ResumeInv
  <2>2. Rfi!Told = {[lo |-> first, at |-> Len(v1), hi |-> hi]} /\ hi \in 0..Len(v1)
    BY <1>0, <1>2, <2>1 DEF Rfi!Told
  <2>3. s1.range = v7.range /\ s2.range = <<first, to>>
    BY <1>0
  <2>4. <<first, to>> \in Nat \X Nat /\ <<first, to>>[1] = first /\ <<first, to>>[2] = to
    BY <1>0, <2>1
  <2> HIDE DEF hi, s1, s2
  <2>5. /\ inv.s \in {v7, s1, s2}
        /\ inv.ok => \/ first >= v7.range[1] /\ last <= v7.range[2] /\ inv.s = v7
                     \/ inv.s = s2 /\ inv.out = first..to
    BY <1>2 DEF Rfi!Invalidate, s1, s2
  <2>6. inv.s.range \in Nat \X Nat /\ inv.s.range[2] <= Len(v1)
    BY <1>0, <2>3, <2>4, <2>5
  <2>7. Rfi!Told \subseteq [lo : Nat, hi : 0..Len(v1), at : {Len(v1)}]
    BY <1>0, <2>1, <2>2
  <2>8. ASSUME inv.ok, NEW n \in v8..Len(v1), Rfi!Live(n), n \notin inv.out
        PROVE  /\ NeedOf(v1)[n] \cap (inv.s.range[1])..(inv.s.range[2]) = {}
               /\ NeedOf(v1)[n] \cap first..hi = {}
    <3>1. NeedOf(v1)[n] \subseteq 1..n /\ n \in Nat /\ n <= Len(v1) /\ v8 <= Len(v1)
      BY <1>0
    <3>2. NeedOf(v1)[n] \cap (v7.range[1])..(v7.range[2]) = {}
      BY <1>0, <2>8
    <3>3. CASE first >= v7.range[1] /\ last <= v7.range[2] /\ inv.s = v7
      <4>1. first..hi \subseteq (v7.range[1])..(v7.range[2])
        BY <1>0, <2>1, <3>3 DEF hi
      <4> QED
        BY <3>2, <3>3, <4>1
    <3>4. CASE inv.s = s2 /\ inv.out = first..to
      <4>1. to = Len(v1)
        BY <3>1 DEF Rfi!ResumeInv
      <4>2. n < first
        BY <1>0, <2>1, <2>8, <3>1, <3>4, <4>1
      <4>3. \A k \in NeedOf(v1)[n] : k < first
        BY <2>1, <3>1, <4>2
      <4>4. NeedOf(v1)[n] \cap first..to = {} /\ NeedOf(v1)[n] \cap first..hi = {}
        BY <2>1, <2>2, <4>1, <4>3
      <4>5. inv.s.range[1] = first /\ inv.s.range[2] = to
        BY <2>3, <2>4, <3>4
      <4> QED
        BY <4>4, <4>5
    <3> QED
      BY <2>5, <2>8, <3>3, <3>4
  <2>9. \A t \in Rfi!Told : t.lo = first /\ t.hi = hi
    BY <2>2
  <2> QED
    BY <2>6, <2>7, <2>8, <2>9
<1> QED
  BY <1>1, <1>2

\* The next frame is sent: an IDR frame rests on itself alone and what was told is
\* forgotten; any other rests on one that is still in reach.
LEMMA FrameResumes ==
  ASSUME Rfi!ResumeInv, NEW works \in BOOLEAN, Rfi!EncodeFrame(works)
  PROVE  Rfi!ResumeInv'
<1> DEFINE L == Len(v1)
           inv == IF v2 = <<>> THEN [ok |-> TRUE, s |-> v7, out |-> {}]
                  ELSE Rfi!Invalidate(v2[1], v2[2], works)
           usable == Rfi!Usable(v9 \cup inv.out)
           intra == v4 \/ v3 \/ ~inv.ok \/ usable = {}
           ref == IF intra THEN 0 ELSE Rfi!Max(usable)
           f == [ref |-> ref, idr |-> intra, marked |-> inv.s.confirm]
           told == v10 \cup Rfi!Told
           Clean(n, lo, hi) == NeedOf(v1)[n] \cap lo..hi = {}
<1> HIDE DEF inv, usable, intra, ref
<1>1. /\ v5 # {} /\ v1' = Append(v1, f) /\ v7' = [inv.s EXCEPT !.confirm = FALSE, !.last = Len(v1) + 1]
      /\ v9' = (IF intra THEN {} ELSE v9 \cup inv.out) /\ v10' = (IF intra THEN {} ELSE told)
      /\ v2' = <<>> /\ v5' = v5 /\ v8' = v8
  BY Zenon DEF Rfi!EncodeFrame, inv, usable, intra, ref
<1>2. Rfi!SentInv'
  BY SentStep DEF Rfi!Next, Rfi!ResumeInv
<1>3. /\ Backward(v1) /\ L \in Nat /\ DOMAIN v1 = 1..L /\ v8 \in 1..L + 1
      /\ \A n \in 0..L : NeedOf(v1)[n] \subseteq 1..n
      /\ v10 \subseteq [lo : Nat, hi : 0..L, at : 0..L]
      /\ \A n \in v8..L : Rfi!Live(n) => \A t \in v10 : Clean(n, t.lo, t.hi)
      /\ \A n \in v8..L, t \in v10 : t.at < n => Clean(n, t.lo, t.hi)
  BY ResumeFacts
<1>4. /\ inv.s.range \in Nat \X Nat /\ inv.s.range[2] <= L
      /\ Rfi!Told \subseteq [lo : Nat, hi : 0..L, at : {L}]
      /\ inv.ok => \A n \in v8..L : Rfi!Live(n) /\ n \notin inv.out =>
           /\ Clean(n, inv.s.range[1], inv.s.range[2])
           /\ \A t \in Rfi!Told : Clean(n, t.lo, t.hi)
  BY <1>1, ReportIsClean DEF inv
<1>5. v7'.range = inv.s.range /\ v7'.last = L + 1
  <2>1. v7' \in [last : Nat, range : Nat \X Nat, confirm : BOOLEAN]
    BY <1>2 DEF Rfi!SentInv
  <2>2. DOMAIN inv.s = DOMAIN v7'
    BY <1>1
  <2>3. DOMAIN v7' = {"last", "range", "confirm"}
    BY <2>1
  <2> QED
    BY <1>1, <2>2, <2>3
<1>6. ~intra => /\ inv.ok /\ ref \in v8..L /\ Rfi!Live(ref) /\ ref \notin inv.out
  <2> SUFFICES ASSUME ~intra PROVE inv.ok /\ ref \in v8..L /\ Rfi!Live(ref) /\ ref \notin inv.out
    OBVIOUS
  <2>1. inv.ok /\ usable # {} /\ ref = Rfi!Max(usable)
    BY Zenon DEF intra, ref
  <2>2. \A n \in usable : n \in v8..L /\ Rfi!Live(n) /\ n \notin inv.out
    BY UsableIsLive DEF usable
  <2>3. usable \in SUBSET (0..L)
    BY <1>3, <2>2
  <2>4. Rfi!Max(usable) \in usable
    BY <1>3, <2>1, <2>3, MaxIsGreatest
  <2> QED
    BY <2>1, <2>2, <2>4
<1>7. ref \in 0..L /\ intra \in BOOLEAN
  BY <1>3, <1>6 DEF ref, intra
<1>8. f \in Rfi!Sent
  <2>1. v1' \in Seq(Rfi!Sent) /\ v1'[L + 1] = f /\ L + 1 \in DOMAIN v1'
    BY <1>1, <1>2, <1>3 DEF Rfi!SentInv, Backward
  <2> QED
    BY <2>1
<1>9. f.ref = ref /\ f.idr = intra
  OBVIOUS
<1> HIDE DEF f
<1>10. /\ Backward(v1') /\ Len(v1') = L + 1 /\ v1'[L + 1] = f
       /\ \A n \in 1..L : v1'[n] = v1[n]
       /\ \A n \in 0..L : NeedOf(v1')[n] = NeedOf(v1)[n]
       /\ NeedOf(v1')[L + 1] = {L + 1} \cup NeedOf(v1)[ref]
  BY <1>1, <1>3, <1>7, <1>8, <1>9, NeedStays
<1>11. Rfi!Needed' = NeedOf(v1')
  BY DEF Rfi!Needed, NeedOf
<1> HIDE DEF L
<1>12. /\ told \subseteq [lo : Nat, hi : 0..L, at : 0..L]
       /\ v10' \subseteq told
  <2>1. [lo : Nat, hi : 0..L, at : {L}] \subseteq [lo : Nat, hi : 0..L, at : 0..L]
    BY <1>3
  <2> QED
    BY <1>1, <1>3, <1>4, <2>1
<1>13. ASSUME ~intra, NEW n \in v8..L, Rfi!Live(n), n \notin inv.out
       PROVE  Clean(n, inv.s.range[1], inv.s.range[2]) /\ \A t \in told : Clean(n, t.lo, t.hi)
  BY <1>3, <1>4, <1>6, <1>13
<1>14. NeedOf(v1')[L + 1] \cap (inv.s.range[1])..(inv.s.range[2]) = {}
  <2>1. inv.s.range[1] \in Nat /\ inv.s.range[2] \in Nat
    BY <1>4
  <2>2. L + 1 \notin (inv.s.range[1])..(inv.s.range[2])
    BY <1>3, <1>4, <2>1
  <2>3. NeedOf(v1)[ref] \cap (inv.s.range[1])..(inv.s.range[2]) = {}
    <3>1. CASE intra
      <4>1. ref = 0 /\ NeedOf(v1)[0] \subseteq 1..0
        BY <1>3, <3>1 DEF ref
      <4> QED
        BY <4>1
    <3>2. CASE ~intra
      BY <1>6, <1>13, <3>2
    <3> QED
      BY <3>1, <3>2
  <2> QED
    BY <1>10, <2>2, <2>3
<1>15. ASSUME NEW t \in v10' PROVE NeedOf(v1')[L + 1] \cap (t.lo)..(t.hi) = {}
  <2>1. ~intra /\ t \in told
    BY <1>1, <1>12
  <2>2. t.lo \in Nat /\ t.hi \in 0..L
    BY <1>12, <2>1
  <2>3. L + 1 \notin (t.lo)..(t.hi)
    BY <1>3, <2>2
  <2>4. NeedOf(v1)[ref] \cap (t.lo)..(t.hi) = {}
    BY <1>6, <1>13, <2>1
  <2> QED
    BY <1>10, <2>3, <2>4
<1>16. ASSUME NEW n \in v8..L PROVE NeedOf(v1')[n] = NeedOf(v1)[n] /\ n \in 1..L /\ n \in Nat /\ n < L + 1
  BY <1>3, <1>10
<1>17. ASSUME NEW n \in v8..L, Rfi!Live(n)' PROVE ~intra /\ Rfi!Live(n) /\ n \notin inv.out
  <2>1. \A m \in n + 1..L + 1 : ~v1'[m].idr
    BY <1>1, <1>10, <1>17 DEF Rfi!Live
  <2>2. ~intra
    <3>1. L + 1 \in n + 1..L + 1
      BY <1>3, <1>16
    <3> QED
      BY <1>9, <1>10, <2>1, <3>1
  <2>3. n \notin v9 /\ n \notin inv.out
    BY <1>1, <1>17, <2>2 DEF Rfi!Live
  <2>4. \A m \in n + 1..L : m \in n + 1..L + 1 /\ m \in 1..L
    BY <1>3, <1>16
  <2>5. \A m \in n + 1..L : ~v1[m].idr
    BY <1>10, <2>1, <2>4
  <2> QED
    BY <2>2, <2>3, <2>5 DEF Rfi!Live, L
<1>18. ASSUME NEW n \in v8..L + 1, Rfi!Live(n)'
       PROVE  /\ NeedOf(v1')[n] \cap (inv.s.range[1])..(inv.s.range[2]) = {}
              /\ \A t \in v10' : NeedOf(v1')[n] \cap (t.lo)..(t.hi) = {}
  <2>1. CASE n = L + 1
    BY <1>14, <1>15, <2>1
  <2>2. CASE n # L + 1
    <3>1. n \in v8..L
      BY <1>3, <2>2
    <3>2. ~intra /\ Rfi!Live(n) /\ n \notin inv.out
      BY <1>17, <1>18, <3>1
    <3> QED
      BY <1>12, <1>13, <1>16, <3>1, <3>2
  <2> QED
    BY <2>1, <2>2
<1>19. ASSUME NEW n \in v8..L + 1, NEW t \in v10', t.at < n
       PROVE  NeedOf(v1')[n] \cap (t.lo)..(t.hi) = {}
  <2>1. CASE n = L + 1
    BY <1>15, <2>1
  <2>2. CASE n # L + 1
    <3>1. n \in v8..L
      BY <1>3, <2>2
    <3>2. t \in told
      BY <1>12
    <3>3. t \notin Rfi!Told
      <4>1. t \in Rfi!Told => t.at = L
        BY <1>4
      <4> QED
        BY <1>3, <1>16, <1>19, <3>1, <4>1
    <3> QED
      BY <1>3, <1>16, <1>19, <3>1, <3>2, <3>3
  <2> QED
    BY <2>1, <2>2
<1>20. \A n \in DOMAIN v1' : v1'[n].ref < n
  BY <1>10 DEF Backward
<1>21. v8 \in 1..Len(v1') + 1 /\ v10' \subseteq [lo : Nat, hi : 0..Len(v1'), at : 0..Len(v1')]
  <2>1. [lo : Nat, hi : 0..L, at : 0..L] \subseteq [lo : Nat, hi : 0..L + 1, at : 0..L + 1]
    BY <1>3
  <2> QED
    BY <1>3, <1>10, <1>12, <2>1
<1>22. v7'.range[2] <= Len(v1') /\ v7'.last = Len(v1') /\ v7'.last <= Len(v1')
  BY <1>3, <1>4, <1>5, <1>10
<1> HIDE DEF inv, told
<1> QED
  BY <1>1, <1>2, <1>5, <1>10, <1>11, <1>18, <1>19, <1>20, <1>21, <1>22 DEF Rfi!ResumeInv

\* What changes nothing of the frames, of the encoder or of what it was told keeps
\* them clean.
LEMMA SentUnchanged ==
  ASSUME Rfi!ResumeInv, Rfi!SentInv', v1' = v1, v8' = v8, v9' = v9, v10' = v10,
         v7' = v7 \/ v7' = Rfi!NoState, (v5' = v5 /\ v7' = v7) \/ v5' = {},
         v2' # <<>> => v2'[1] \in 1..Len(v1) /\ v2'[2] \in 1..Len(v1)
  PROVE  Rfi!ResumeInv'
<1>1. /\ Len(v1) \in Nat /\ v8 \in 1..Len(v1) + 1 /\ \A n \in 0..Len(v1) : NeedOf(v1)[n] \subseteq 1..n
      /\ v7.range[2] <= Len(v1) /\ v7.last <= Len(v1)
      /\ \A n \in v8..Len(v1) : Rfi!Live(n) =>
           /\ NeedOf(v1)[n] \cap (v7.range[1])..(v7.range[2]) = {}
           /\ \A t \in v10 : NeedOf(v1)[n] \cap (t.lo)..(t.hi) = {}
  BY ResumeFacts
<1>2. Rfi!Needed = NeedOf(v1) /\ Rfi!Needed' = NeedOf(v1)
  <2>1. Rfi!Needed' = NeedOf(v1')
    BY DEF Rfi!Needed, NeedOf
  <2> QED
    BY <2>1 DEF Rfi!Needed, NeedOf
<1>3. \A n : Rfi!Live(n)' <=> Rfi!Live(n)
  BY DEF Rfi!Live
<1>4. \A n \in v8..Len(v1) : n \in 0..Len(v1) /\ NeedOf(v1)[n] \cap 0..0 = {}
  BY <1>1
<1>5. /\ v7'.range[2] <= Len(v1) /\ v7'.last <= Len(v1)
      /\ \A n \in v8..Len(v1) : Rfi!Live(n) => NeedOf(v1)[n] \cap (v7'.range[1])..(v7'.range[2]) = {}
  <2>1. CASE v7' = v7
    BY <1>1, <2>1
  <2>2. CASE v7' = Rfi!NoState
    <3>1. v7'.range[1] = 0 /\ v7'.range[2] = 0 /\ v7'.last = 0
      BY <2>2 DEF Rfi!NoState
    <3> QED
      BY <1>1, <1>4, <3>1
  <2> QED
    BY <2>1, <2>2
<1> QED
  BY <1>1, <1>2, <1>3, <1>5 DEF Rfi!ResumeInv

\* Every step of the encoder keeps lost frames out of use.
LEMMA ResumeKeeps ==
  ASSUME Rfi!ResumeInv, [Rfi!Next]_(Rfi!rfiVars)
  PROVE  Rfi!ResumeInv'
<1>1. Rfi!SentInv'
  BY SentStep DEF Rfi!ResumeInv
<1>2. v2 # <<>> => v2[1] \in 1..Len(v1) /\ v2[2] \in 1..Len(v1)
  BY DEF Rfi!ResumeInv
<1>3. CASE UNCHANGED Rfi!rfiVars
  <2>1. /\ v1' = v1 /\ v2' = v2 /\ v5' = v5 /\ v7' = v7 /\ v8' = v8 /\ v9' = v9 /\ v10' = v10
    BY <1>3 DEF Rfi!rfiVars
  <2> QED
    BY <1>1, <1>2, <2>1, SentUnchanged
<1>4. CASE Rfi!DestroyEncoder
  <2>1. /\ v1' = v1 /\ v2' = v2 /\ v5' = {} /\ v7' = Rfi!NoState /\ v8' = v8 /\ v9' = v9 /\ v10' = v10
    BY <1>4 DEF Rfi!DestroyEncoder
  <2> QED
    BY <1>1, <1>2, <2>1, SentUnchanged
<1>5. CASE Rfi!RequestIdr
  <2>1. /\ v1' = v1 /\ v2' = v2 /\ v5' = v5 /\ v7' = v7 /\ v8' = v8 /\ v9' = v9 /\ v10' = v10
    BY <1>5 DEF Rfi!RequestIdr
  <2> QED
    BY <1>1, <1>2, <2>1, SentUnchanged
<1>6. ASSUME NEW n \in 0..Len(Rfi!Steps), NEW b \in BOOLEAN, Rfi!CreateEncoder(n, b) PROVE Rfi!ResumeInv'
  <2>1. v1' = v1 /\ v2' = v2 /\ v8' = Len(v1) + 1 /\ v7' = Rfi!NoState /\ v10' = {}
    BY <1>6 DEF Rfi!CreateEncoder
  <2>2. Len(v1) \in Nat /\ v8' \in 1..Len(v1) + 1 /\ v8'..Len(v1) = {} /\ ~(v8' <= Len(v1))
    BY <2>1, ResumeFacts
  <2>3. v7'.range[2] = 0 /\ v7'.last = 0
    BY <2>1 DEF Rfi!NoState
  <2> QED
    BY <1>1, <2>1, <2>2, <2>3 DEF Rfi!ResumeInv
<1>7. ASSUME NEW first \in 1..MaxFrame, NEW last \in 1..MaxFrame, Rfi!Report(first, last) PROVE Rfi!ResumeInv'
  <2>1. /\ v1' = v1 /\ v2' = <<first, last>> /\ v5' = v5 /\ v7' = v7 /\ v8' = v8 /\ v9' = v9 /\ v10' = v10
        /\ first \in 1..Len(v1) /\ last \in 1..Len(v1)
    BY <1>7 DEF Rfi!Report
  <2>2. v2'[1] \in 1..Len(v1) /\ v2'[2] \in 1..Len(v1)
    BY <2>1
  <2> QED
    BY <1>1, <2>1, <2>2, SentUnchanged
<1>8. ASSUME NEW works \in BOOLEAN, Rfi!EncodeFrame(works) PROVE Rfi!ResumeInv'
  BY <1>8, FrameResumes
<1> QED
  BY <1>3, <1>4, <1>5, <1>6, <1>7, <1>8 DEF Rfi!Next

(***************************************************************************)
(* The monitors of KMS and their names (kmsgrab.cpp).                      *)
(***************************************************************************)

\* The planes listed in ascending order are those of the set.
LEMMA AscendingStays ==
  ASSUME NEW n \in Nat, NEW S
  PROVE  Kms!Ascending(S, n) \in Seq(S)
<1> DEFINE More(s, i) == IF i \in S THEN Append(s, i) ELSE s
           P(f, l) == f = [i \in 0..l |-> IF i = 0 THEN <<>> ELSE More(f[i - 1], i)]
           Q == {l \in Nat : ~ \E f : P(f, l)}
<1> HIDE DEF More
<1>1. Q = {}
  <2> SUFFICES ASSUME Q # {} PROVE FALSE
    OBVIOUS
  <2>1. PICK l \in Q : \A y \in Q : l <= y
    BY LeastNat
  <2>2. P([i \in 0..0 |-> <<>>], 0)
    OBVIOUS
  <2>3. l # 0 /\ l \in Nat
    BY <2>1, <2>2
  <2>4. l - 1 \in Nat /\ l - 1 \notin Q
    <3> HIDE DEF Q
    <3> QED
      BY <2>1, <2>3
  <2>5. PICK f : P(f, l - 1)
    BY <2>4
  <2> DEFINE g == [i \in 0..l |-> IF i = l THEN More(f[l - 1], l) ELSE f[i]]
  <2>6. \A i \in 0..l : g[i] = IF i = 0 THEN <<>> ELSE More(g[i - 1], i)
    BY <2>3, <2>4, <2>5
  <2>7. P(g, l)
    BY <2>6
  <2> QED
    BY <2>1, <2>7
<1>2. \E f : P(f, n)
  BY <1>1
<1> DEFINE u == CHOOSE f : P(f, n)
<1>3. P(u, n)
  BY <1>2
<1>4. Kms!Ascending(S, n) = u[n]
  BY DEF Kms!Ascending, More
<1> HIDE DEF u
<1>5. \A i \in 0..n : u[i] = IF i = 0 THEN <<>> ELSE More(u[i - 1], i)
  BY <1>3
<1> HIDE DEF P
<1> DEFINE R == {i \in Nat : i <= n /\ u[i] \notin Seq(S)}
<1>6. R = {}
  <2> SUFFICES ASSUME R # {} PROVE FALSE
    OBVIOUS
  <2>1. PICK l \in R : \A y \in R : l <= y
    BY LeastNat
  <2>2. l \in 0..n /\ u[l] \notin Seq(S)
    BY <2>1
  <2>3. l # 0
    <3>1. u[0] = <<>> /\ <<>> \in Seq(S)
      BY <1>5
    <3> QED
      BY <2>2, <3>1
  <2>4. l - 1 \notin R
    <3> HIDE DEF R
    <3> QED
      BY <2>1, <2>2
  <2>5. u[l - 1] \in Seq(S)
    BY <2>2, <2>3, <2>4
  <2>6. u[l] \in Seq(S)
    <3>1. \A s \in Seq(S) : More(s, l) \in Seq(S)
      BY DEF More
    <3> QED
      BY <1>5, <2>2, <2>3, <2>5, <3>1
  <2> QED
    BY <2>2, <2>6
<1> QED
  BY <1>4, <1>6

\* Sequences of sequences become one sequence.
LEMMA FlatStays ==
  ASSUME NEW T, NEW q \in Seq(Seq(T))
  PROVE  Kms!FlattenSeq(q) \in Seq(T)
<1> DEFINE Join(s, i) == s \o q[i]
           P(f, l) == f = [i \in 1..l |-> IF i = 1 THEN q[i] ELSE Join(f[i - 1], i)]
           Q == {l \in Nat : ~ \E f : P(f, l)}
<1> HIDE DEF Join
<1>1. Q = {}
  <2> SUFFICES ASSUME Q # {} PROVE FALSE
    OBVIOUS
  <2>1. PICK l \in Q : \A y \in Q : l <= y
    BY LeastNat
  <2>2. P([i \in 1..0 |-> <<>>], 0)
    OBVIOUS
  <2>3. l # 0 /\ l \in Nat
    BY <2>1, <2>2
  <2>4. l - 1 \in Nat /\ l - 1 \notin Q
    <3> HIDE DEF Q
    <3> QED
      BY <2>1, <2>3
  <2>5. PICK f : P(f, l - 1)
    BY <2>4
  <2> DEFINE g == [i \in 1..l |-> IF i = l THEN (IF l = 1 THEN q[l] ELSE Join(f[l - 1], l)) ELSE f[i]]
  <2>6. \A i \in 1..l : g[i] = IF i = 1 THEN q[i] ELSE Join(g[i - 1], i)
    BY <2>3, <2>4, <2>5
  <2>7. P(g, l)
    BY <2>6
  <2> QED
    BY <2>1, <2>7
<1>2. Len(q) \in Nat
  OBVIOUS
<1>3. \E f : P(f, Len(q))
  BY <1>1, <1>2
<1> DEFINE u == CHOOSE f : P(f, Len(q))
<1>4. P(u, Len(q))
  BY <1>3
<1>5. Kms!FlattenSeq(q) = IF Len(q) = 0 THEN q ELSE u[Len(q)]
  BY DEF Kms!FlattenSeq, Join
<1> HIDE DEF u
<1>6. \A i \in 1..Len(q) : u[i] = IF i = 1 THEN q[i] ELSE Join(u[i - 1], i)
  BY <1>4
<1> HIDE DEF P
<1> DEFINE R == {i \in Nat : i \in 1..Len(q) /\ u[i] \notin Seq(T)}
<1>7. R = {}
  <2> SUFFICES ASSUME R # {} PROVE FALSE
    OBVIOUS
  <2>1. PICK l \in R : \A y \in R : l <= y
    BY LeastNat
  <2>2. l \in 1..Len(q) /\ u[l] \notin Seq(T) /\ q[l] \in Seq(T)
    BY <2>1
  <2>3. l # 1
    BY <1>6, <2>2
  <2>4. l - 1 \notin R
    <3> HIDE DEF R
    <3> QED
      BY <2>1, <2>2
  <2>5. u[l - 1] \in Seq(T)
    BY <1>2, <2>2, <2>3, <2>4
  <2>6. u[l] \in Seq(T)
    <3>1. \A s \in Seq(T) : Join(s, l) \in Seq(T)
      BY <2>2 DEF Join
    <3> QED
      BY <1>6, <2>2, <2>3, <2>5, <3>1
  <2> QED
    BY <2>2, <2>6
<1>8. CASE Len(q) = 0
  BY <1>5, <1>8
<1>9. CASE Len(q) # 0
  BY <1>2, <1>5, <1>7, <1>9
<1> QED
  BY <1>8, <1>9

\* The hardware: cards with planes and connectors.
CardRecord ==
  [ok : BOOLEAN, nvidia : BOOLEAN, connectors : Seq([type : STRING, crtc : Nat]),
   planes : Seq([crtc : Nat, used : BOOLEAN, cursor : BOOLEAN, fb : {"ok", "none", "nohandle"}])]

\* The planes init may open: those in use of the cards it considers.
InUse(h, mem) ==
  {x \in (DOMAIN h) \X Nat : /\ Kms!Considered(h[x[1]], mem)
                          /\ x[2] \in DOMAIN h[x[1]].planes}

\* The candidates of init are planes of the cards it considers.
LEMMA CandidatesStay ==
  ASSUME NEW h \in Seq(CardRecord), NEW mem
  PROVE  Kms!Candidates(h, mem) \in Seq(InUse(h, mem))
<1> DEFINE part(c) == IF Kms!Considered(h[c], mem)
                      THEN [i \in DOMAIN Kms!ScanPlanes(h[c]) |-> <<c, Kms!ScanPlanes(h[c])[i]>>] ELSE <<>>
           q == [c \in DOMAIN h |-> part(c)]
<1>1. ASSUME NEW c \in DOMAIN h PROVE part(c) \in Seq(InUse(h, mem))
  <2> DEFINE l == Kms!ScanPlanes(h[c])
  <2>1. h[c].planes \in Seq([crtc : Nat, used : BOOLEAN, cursor : BOOLEAN, fb : {"ok", "none", "nohandle"}])
    <3>1. h[c] \in CardRecord
      BY <1>1
    <3> QED
      BY <3>1 DEF CardRecord
  <2>2. Len(h[c].planes) \in Nat /\ DOMAIN h[c].planes \subseteq Nat
    BY <2>1
  <2>3. l \in Seq(Kms!Scanned(h[c]))
    BY <2>2, AscendingStays DEF Kms!ScanPlanes
  <2> HIDE DEF l
  <2>4. \A i \in 1..Len(l) : l[i] \in Nat /\ l[i] \in DOMAIN h[c].planes
    BY <2>2, <2>3 DEF Kms!Scanned
  <2>5. Len(l) \in Nat /\ DOMAIN l = 1..Len(l)
    BY <2>3
  <2>6. CASE Kms!Considered(h[c], mem)
    <3>1. ASSUME NEW i \in 1..Len(l) PROVE <<c, l[i]>> \in InUse(h, mem)
      <4> DEFINE x == <<c, l[i]>>
      <4>1. x \in (DOMAIN h) \X Nat /\ x[1] = c /\ x[2] = l[i]
        BY <1>1, <2>4
      <4> HIDE DEF x
      <4>2. x \in InUse(h, mem)
        BY <2>4, <2>6, <4>1 DEF InUse
      <4> QED
        BY <4>2 DEF x
    <3>2. part(c) = [i \in 1..Len(l) |-> <<c, l[i]>>]
      BY <2>5, <2>6 DEF l
    <3> QED
      BY <2>5, <3>1, <3>2
  <2>7. CASE ~Kms!Considered(h[c], mem)
    BY <2>7
  <2> QED
    BY <2>6, <2>7
<1> HIDE DEF part
<1>2. q \in Seq(Seq(InUse(h, mem)))
  <2>1. Len(h) \in Nat /\ DOMAIN h = 1..Len(h)
    OBVIOUS
  <2> QED
    BY <1>1, <2>1
<1>3. Kms!Candidates(h, mem) = Kms!FlattenSeq(q)
  BY DEF Kms!Candidates, part
<1> HIDE DEF q
<1> QED
  BY <1>2, <1>3, FlatStays

\* When every buffer can be read, listing and opening count the same planes.
LEMMA NamesAreCandidates ==
  ASSUME NEW h \in Seq(CardRecord), NEW mem, Kms!Readable(h)
  PROVE  Kms!Names(h, mem) = Kms!Candidates(h, mem)
<1> DEFINE scan(c) == Kms!ScanPlanes(h[c])
           list(c) == Kms!ListedPlanes(h[c])
<1>1. ASSUME NEW c \in DOMAIN h PROVE list(c) = scan(c)
  <2> DEFINE S == Kms!Scanned(h[c])
             L == {p \in S : /\ h[c].planes[p].fb = "ok"
                             /\ \A q \in S : h[c].planes[q].fb = "nohandle" => p < q}
  <2>1. \A p \in S : h[c].planes[p].fb = "ok"
    BY <1>1 DEF Kms!Readable, Kms!Scanned
  <2>2. L = S
    BY <2>1
  <2>3. list(c) = Kms!Ascending(L, Len(h[c].planes)) /\ scan(c) = Kms!Ascending(S, Len(h[c].planes))
    BY DEF Kms!ListedPlanes, Kms!ScanPlanes
  <2> QED
    BY <2>2, <2>3
<1> DEFINE named(c) == IF Kms!Considered(h[c], mem) THEN [i \in DOMAIN list(c) |-> <<c, list(c)[i]>>] ELSE <<>>
           found(c) == IF Kms!Considered(h[c], mem) THEN [i \in DOMAIN scan(c) |-> <<c, scan(c)[i]>>] ELSE <<>>
<1>2. \A c \in DOMAIN h : named(c) = found(c)
  BY <1>1
<1>3. /\ Kms!Names(h, mem) = Kms!FlattenSeq([c \in DOMAIN h |-> named(c)])
      /\ Kms!Candidates(h, mem) = Kms!FlattenSeq([c \in DOMAIN h |-> found(c)])
  BY DEF Kms!Names, Kms!Candidates
<1> HIDE DEF named, found
<1>4. [c \in DOMAIN h |-> named(c)] = [c \in DOMAIN h |-> found(c)]
  BY <1>2
<1> QED
  BY <1>3, <1>4

\* No monitors are listed at first.
LEMMA MonitorsStart == Kms!MonitorsInit => Kms!MonitorsInv
BY DEF Kms!MonitorsInit, Kms!MonitorsInv

\* Every step of the monitors keeps what was listed and opened for one machine.
LEMMA MonitorsKeep ==
  ASSUME Kms!MonitorsInv, [Kms!MonitorsNext]_(Kms!kmsVars)
  PROVE  Kms!MonitorsInv'
<1>1. ASSUME NEW h \in Machines, Kms!Plug(h) PROVE Kms!MonitorsInv'
  BY <1>1 DEF Kms!MonitorsInv, Kms!Plug
<1>2. ASSUME NEW mem, Kms!KmsDisplayNames(mem) PROVE Kms!MonitorsInv'
  <2>1. /\ v2' = Kms!Names(v1, mem) /\ v4' = Kms!Monitors(v1, mem) /\ v1' = v1 /\ v5' = None
        /\ v3' = [hw |-> v1, mem |-> mem]
    BY <1>2 DEF Kms!KmsDisplayNames
  <2>2. v3'.hw = v1 /\ v3'.mem = mem
    BY <2>1
  <2> QED
    BY <2>1, <2>2 DEF Kms!MonitorsInv
<1>3. ASSUME NEW name, Kms!OpenMonitor(name) PROVE Kms!MonitorsInv'
  <2>1. /\ v3 # None /\ name \in DOMAIN v2 /\ v5' = Kms!OpenPlane(name, v3.mem)
        /\ v1' = v1 /\ v2' = v2 /\ v3' = v3 /\ v4' = v4
    BY <1>3 DEF Kms!OpenMonitor
  <2>2. v5' = Kms!OpenPlane(name, v3.mem)'
    BY <2>1 DEF Kms!OpenPlane
  <2>3. Kms!OpenPlane(name, v3.mem)' = Kms!OpenPlane(name, v3.mem)
    BY <2>1, <2>2
  <2> QED
    BY <2>1, <2>2 DEF Kms!MonitorsInv
<1>4. ASSUME UNCHANGED Kms!kmsVars PROVE Kms!MonitorsInv'
  <2>1. v1' = v1 /\ v2' = v2 /\ v3' = v3 /\ v4' = v4 /\ v5' = v5
    BY <1>4 DEF Kms!kmsVars
  <2> QED
    BY <2>1 DEF Kms!MonitorsInv, Kms!OpenPlane
<1> QED
  BY <1>1, <1>2, <1>3, <1>4 DEF Kms!MonitorsNext

\* A name means the plane it was given for, and its own connector.
LEMMA MonitorsHold ==
  ASSUME Kms!MonitorsInv
  PROVE  Kms!NameMeansPlane /\ Kms!OutputIsOwn
<1>1. v1 \in Seq(CardRecord)
  <2>1. v1 \in Machines \cup {<<>>}
    BY DEF Kms!MonitorsInv
  <2>2. Machines \subseteq Seq(CardRecord)
    BY MachineAssumption DEF CardRecord
  <2>3. <<>> \in Seq(CardRecord)
    OBVIOUS
  <2> QED
    BY <2>1, <2>2, <2>3, Zenon
<1> SUFFICES ASSUME v5 # None PROVE Kms!NameMeansPlane /\ Kms!OutputIsOwn
  BY DEF Kms!NameMeansPlane, Kms!OutputIsOwn, Kms!Opened
<1> SUFFICES ASSUME v3.hw = v1 PROVE Kms!NameMeansPlane /\ Kms!OutputIsOwn
  BY DEF Kms!NameMeansPlane, Kms!OutputIsOwn
<1> DEFINE mem == v3.mem
           planes == Kms!Candidates(v1, mem)
<1>2. PICK name \in DOMAIN v2 : v5 = Kms!OpenPlane(name, mem)
  BY DEF Kms!MonitorsInv
<1>3. v2 = Kms!Names(v1, mem) /\ v4 = Kms!Monitors(v1, mem)
  BY DEF Kms!MonitorsInv
<1> DEFINE c == planes[name][1]
           i == planes[name][2]
           p == v1[c].planes[i]
           opens == name \in DOMAIN planes /\ p.fb = "ok" /\ c \in DOMAIN v4
           out == IF p.crtc \in DOMAIN v4[c] THEN v4[c][p.crtc] ELSE None
<1>4. /\ opens => v5 = [name |-> name, card |-> c, plane |-> i, output |-> out]
      /\ ~opens => v5.card = 0
  BY <1>2 DEF Kms!OpenPlane
<1>5. opens => v5.name = name /\ v5.card = c /\ v5.plane = i /\ v5.output = out
  BY <1>4, SMTT(30)
<1>6. DOMAIN v4 = {d \in DOMAIN v1 : Kms!Considered(v1[d], mem)}
  BY <1>3 DEF Kms!Monitors
<1>7. name \in DOMAIN planes => /\ planes[name] = <<c, i>> /\ c \in DOMAIN v4 /\ c \in Nat \ {0}
                                /\ i \in DOMAIN v1[c].planes
  <2> SUFFICES ASSUME name \in DOMAIN planes
               PROVE  planes[name] = <<c, i>> /\ c \in DOMAIN v4 /\ c \in Nat \ {0} /\ i \in DOMAIN v1[c].planes
    OBVIOUS
  <2>1. planes \in Seq(InUse(v1, mem))
    BY <1>1, CandidatesStay
  <2> HIDE DEF planes
  <2>2. planes[name] \in InUse(v1, mem)
    BY <2>1
  <2>3. planes[name] \in (DOMAIN v1) \X Nat /\ Kms!Considered(v1[c], mem) /\ i \in DOMAIN v1[c].planes
    BY <2>2 DEF InUse
  <2>4. c \in DOMAIN v1 /\ planes[name] = <<c, i>>
    BY <2>3
  <2>5. c \in Nat \ {0}
    BY <1>1, <2>4
  <2> HIDE DEF c, i
  <2> QED
    BY <1>6, <2>3, <2>4, <2>5
<1> HIDE DEF planes, opens, out
<1>8. Kms!NameMeansPlane
  <2> SUFFICES ASSUME Kms!Readable(v1)
               PROVE  opens /\ c # 0 /\ <<c, i>> = v2[name]
    BY <1>4, <1>5 DEF Kms!NameMeansPlane, Kms!Opened
  <2>1. v2 = planes
    BY <1>1, <1>3, NamesAreCandidates DEF planes
  <2>2. p.fb = "ok"
    BY <1>1, <1>6, <1>7, <2>1 DEF Kms!Readable
  <2> QED
    BY <1>7, <2>1, <2>2 DEF opens
<1>9. Kms!OutputIsOwn
  <2> SUFFICES ASSUME opens, out # None, \A d \in DOMAIN v1 : Kms!Considered(v1[d], mem)
               PROVE  \E k \in DOMAIN v1[c].connectors :
                        /\ v1[c].connectors[k].crtc = p.crtc
                        /\ out.type = v1[c].connectors[k].type
                        /\ out.index = Kms!KernelIndex(v1, c, k)
    BY <1>4, <1>5 DEF Kms!OutputIsOwn, Kms!Opened
  <2> DEFINE conns == v1[c].connectors
             on(x) == {k \in DOMAIN conns : conns[k].crtc = x}
             first(x) == CHOOSE k \in DOMAIN conns : /\ conns[k].crtc = x
                                                   /\ \A j \in DOMAIN conns : conns[j].crtc = x => k <= j
             crtcs == {conns[k].crtc : k \in DOMAIN conns}
  <2>1. c \in DOMAIN v4 /\ c \in DOMAIN v1 /\ c \in Nat \ {0} /\ v4[c] = Kms!CrtcToMonitor(v1, mem, c)
    BY <1>3, <1>6, <1>7 DEF Kms!Monitors, opens
  <2>2. v4[c] = [x \in crtcs |-> [type |-> conns[first(x)].type, index |-> Kms!TypeIndex(v1, mem, c, first(x))]]
    BY <2>1 DEF Kms!CrtcToMonitor
  <2> DEFINE k == first(p.crtc)
  <2>3. p.crtc \in crtcs /\ out.type = conns[k].type /\ out.index = Kms!TypeIndex(v1, mem, c, k)
    <3> HIDE DEF first, p, c, crtcs
    <3>1. DOMAIN v4[c] = crtcs
      BY <2>2
    <3>2. p.crtc \in crtcs /\ out = v4[c][p.crtc]
      BY <3>1 DEF out
    <3>3. v4[c][p.crtc] = [type |-> conns[k].type, index |-> Kms!TypeIndex(v1, mem, c, k)]
      BY <2>2, <3>2
    <3> QED
      BY <3>2, <3>3
  <2>4. v1[c] \in CardRecord /\ conns \in Seq([type : STRING, crtc : Nat])
    <3>1. v1[c] \in CardRecord
      BY <1>1, <2>1
    <3> QED
      BY <3>1 DEF CardRecord
  <2>5. k \in DOMAIN conns /\ conns[k].crtc = p.crtc
    <3>1. on(p.crtc) \in SUBSET Nat /\ on(p.crtc) # {}
      <4> HIDE DEF conns, p
      <4>1. DOMAIN conns \subseteq Nat
        BY <2>4
      <4>2. PICK j \in DOMAIN conns : conns[j].crtc = p.crtc
        BY <2>3
      <4> QED
        BY <4>1, <4>2
    <3>2. \E x \in on(p.crtc) : \A y \in on(p.crtc) : x <= y
      BY <3>1, LeastNat
    <3> HIDE DEF p, conns
    <3>3. \E j \in DOMAIN conns : /\ conns[j].crtc = p.crtc
                                 /\ \A m \in DOMAIN conns : conns[m].crtc = p.crtc => j <= m
      BY <3>2
    <3> QED
      BY <3>3, Zenon DEF first
  <2> HIDE DEF first, k
  <2>6. Kms!TypeIndex(v1, mem, c, k) = Kms!KernelIndex(v1, c, k)
    <3> DEFINE same(d) == {j \in DOMAIN v1[d].connectors : v1[d].connectors[j].type = v1[c].connectors[k].type}
               A(d) == {<<d, j>> : j \in {j \in DOMAIN v1[d].connectors :
                          /\ v1[d].connectors[j].type = v1[c].connectors[k].type /\ (d < c \/ j < k)}}
               B(d) == {<<d, j>> : j \in {j \in DOMAIN v1[d].connectors :
                          /\ v1[d].connectors[j].type = v1[c].connectors[k].type /\ (d < c \/ (d = c /\ j < k))}}
               D == {d \in 1..c : Kms!Considered(v1[d], mem)}
    <3>1. D \subseteq DOMAIN v1 /\ \A d \in DOMAIN v1 : d \in Nat /\ (d \in D \/ d > c)
      BY <1>1, <2>1
    <3>2. \A d \in D : A(d) = B(d)
      <4>1. \A d \in D : d < c \/ d = c
        BY <2>1
      <4> HIDE DEF D
      <4> QED
        BY <4>1
    <3>3. \A d \in DOMAIN v1 : d \notin D => B(d) = {}
      <4>1. \A d \in DOMAIN v1 : d \notin D => ~(d < c) /\ d # c
        BY <2>1, <3>1
      <4> HIDE DEF D
      <4> QED
        BY <4>1
    <3> HIDE DEF A, B, D
    <3>4. UNION {A(d) : d \in D} = UNION {B(d) : d \in DOMAIN v1}
      <4>1. ASSUME NEW x PROVE x \in UNION {A(d) : d \in D} <=> x \in UNION {B(d) : d \in DOMAIN v1}
        BY <3>1, <3>2, <3>3
      <4> QED
        BY <4>1
    <3>5. /\ Kms!TypeIndex(v1, mem, c, k) = 1 + Kms!Cardinality(UNION {A(d) : d \in D})
          /\ Kms!KernelIndex(v1, c, k) = 1 + Kms!Cardinality(UNION {B(d) : d \in DOMAIN v1})
      BY DEF Kms!TypeIndex, Kms!KernelIndex, A, B, D
    <3> QED
      BY <3>4, <3>5
  <2> QED
    BY <2>3, <2>5, <2>6
<1> QED
  BY <1>8, <1>9

(***************************************************************************)
(* The virtual display (misc.cpp, headless.cpp, kmsgrab.cpp).              *)
(***************************************************************************)

\* With the headless source there is a source for every memory type.
LEMMA SourceIsFound ==
  ASSUME NEW mem, "headless" \in v2
  PROVE  Headless!SourceFor(mem) # None
<1> DEFINE sought == Headless!Preference
           fits == {i \in DOMAIN sought : sought[i] \in v2 /\ (sought[i] = "nvfbc" => mem = "cuda")}
           first == CHOOSE i \in fits : \A j \in fits : i <= j
<1>1. /\ DOMAIN sought = 1..6 /\ sought[6] = "headless"
      /\ \A i \in 1..6 : sought[i] \in {"nvfbc", "wlr", "kms", "x11", "portal", "headless"}
  BY DEF Headless!Preference
<1> HIDE DEF sought
<1>2. 6 \in fits /\ fits \in SUBSET Nat /\ fits \subseteq 1..6
  BY <1>1
<1>3. Headless!SourceFor(mem) = IF fits = {} THEN None ELSE sought[first]
  BY DEF Headless!SourceFor, sought
<1> HIDE DEF fits
<1>4. \E i \in fits : \A j \in fits : i <= j
  BY <1>2, LeastNat
<1>5. first \in fits
  BY <1>4, Zenon
<1> HIDE DEF first
<1> QED
  BY <1>1, <1>2, <1>3, <1>5, SourceAssumption

\* The source that is used was found.
LEMMA SourceIsPresent ==
  ASSUME NEW mem, Headless!SourceFor(mem) # None
  PROVE  Headless!SourceFor(mem) \in v2
<1> DEFINE sought == Headless!Preference
           fits == {i \in DOMAIN sought : sought[i] \in v2 /\ (sought[i] = "nvfbc" => mem = "cuda")}
           first == CHOOSE i \in fits : \A j \in fits : i <= j
<1>1. DOMAIN sought = 1..6
  BY DEF Headless!Preference
<1> HIDE DEF sought
<1>2. Headless!SourceFor(mem) = IF fits = {} THEN None ELSE sought[first]
  BY DEF Headless!SourceFor, sought
<1>3. fits # {} /\ fits \in SUBSET Nat /\ \A i \in fits : sought[i] \in v2
  BY <1>1, <1>2
<1> HIDE DEF fits
<1>4. \E i \in fits : \A j \in fits : i <= j
  BY <1>3, LeastNat
<1>5. first \in fits
  BY <1>4, Zenon
<1> HIDE DEF first
<1> QED
  BY <1>2, <1>3, <1>5

\* No display has been refused at first.
LEMMA RefusalStarts == Headless!Init /\ Headless!HeadlessInv => Headless!RefusalInv
BY DEF Headless!Init, Headless!RefusalInv, Headless!NeverRefused

\* A display is refused only where KMS offers one: the virtual display that the
\* headless source wraps is valid, if only as a software display.
LEMMA RefusalStep ==
  ASSUME Headless!RefusalInv, Headless!HeadlessInv', [Headless!Next]_(Headless!headlessVars)
  PROVE  Headless!RefusalInv'
<1> DEFINE Offered == "headless" \in v2 /\ "kms" \notin v2
           Good == /\ Offered' => ~v7'
                   /\ v2' = {} => ~v7' /\ v3' = None
                   /\ v3' # None => /\ v3'.by = "kms" => "kms" \in v2'
                                    /\ v3'.step = "wrap" => v4'.valid
<1>1. /\ Offered => ~v7
      /\ v2 = {} => ~v7 /\ v3 = None
      /\ v3 # None => /\ v3 \in Headless!Opening /\ v4 \in Headless!Object
                      /\ v3.by = "kms" => "kms" \in v2
                      /\ v3.step = "wrap" => v4.valid
  BY DEF Headless!RefusalInv, Headless!HeadlessInv, Headless!NeverRefused
<1>2. Good => Headless!RefusalInv'
  <2> SUFFICES ASSUME Good PROVE Headless!RefusalInv'
    OBVIOUS
  <2>1. Headless!NeverRefused'
    BY DEF Headless!NeverRefused
  <2>2. /\ v2' = {} => ~v7' /\ v3' = None
        /\ v3' # None => /\ v3'.by = "kms" => "kms" \in v2'
                         /\ v3'.step = "wrap" => v4'.valid
    BY Zenon
  <2> HIDE DEF Offered, Good
  <2> QED
    BY <2>1, <2>2, Zenon DEF Headless!RefusalInv
<1>3. ASSUME v3 # None, NEW s \in {"create", "open", "buffer", "mode", "software", "wrap"},
             v3' = [v3 EXCEPT !.step = s], v2' = v2, v7' = v7, s = "wrap" => v4'.valid
      PROVE  Headless!RefusalInv'
  <2>1. v3'.by = v3.by /\ v3'.step = s
    BY <1>1, <1>3 DEF Headless!Opening
  <2>2. v2 # {}
    BY <1>1, <1>3
  <2> QED
    BY <1>1, <1>2, <1>3, <2>1, <2>2
<1>4. CASE UNCHANGED Headless!headlessVars
  <2>1. v2' = v2 /\ v3' = v3 /\ v4' = v4 /\ v7' = v7
    BY <1>4 DEF Headless!headlessVars
  <2> QED
    BY <1>1, <1>2, <2>1
<1>5. CASE Headless!Boot
  <2>1. v2 = {} /\ v3' = v3 /\ v7' = v7
    BY <1>5 DEF Headless!Boot
  <2> QED
    BY <1>1, <1>2, <2>1
<1>6. ASSUME NEW mode \in Mode, NEW mem \in Headless!MemType, Headless!OpenDisplay(mode, mem)
      PROVE  Headless!RefusalInv'
  <2> DEFINE source == Headless!SourceFor(mem)
  <2>1. v2 # {} /\ v3 = None /\ v2' = v2 /\ v4' = v4
    BY <1>6 DEF Headless!OpenDisplay
  <2>2. CASE Headless!Virtual(mem)
    <3>1. /\ source \in {"headless", "kms"} /\ v7' = v7
          /\ v3' = [mode |-> mode, mem |-> mem, by |-> source, step |-> "create",
                    vram |-> source = "kms" /\ mem # "system"]
      BY <1>6, <2>2 DEF Headless!OpenDisplay, Headless!Virtual
    <3>2. source = "kms" => "kms" \in v2
      BY SourceIsPresent, SourceAssumption
    <3> HIDE DEF source
    <3>3. v3'.by = source /\ v3'.step = "create"
      BY <3>1
    <3> QED
      BY <1>1, <1>2, <2>1, <3>1, <3>2, <3>3
  <2>3. CASE ~Headless!Virtual(mem)
    <3>1. v3' = v3 /\ v7' = (source = None)
      BY <1>6, <2>3 DEF Headless!OpenDisplay
    <3>2. Offered => ~v7'
      BY <3>1, SourceIsFound
    <3> QED
      BY <1>2, <2>1, <3>1, <3>2
  <2> QED
    BY <2>2, <2>3
<1>7. CASE Headless!Create
  <2>1. /\ v3 # None /\ v2' = v2 /\ v7' = v7
        /\ v3' = [v3 EXCEPT !.step = "software"] \/ v3' = [v3 EXCEPT !.step = "open"]
    BY <1>7 DEF Headless!Create
  <2> QED
    BY <1>3, <2>1
<1>8. CASE Headless!SetupOpen
  <2>1. /\ v3 # None /\ v2' = v2 /\ v7' = v7
        /\ v3' = [v3 EXCEPT !.step = "software"] \/ v3' = [v3 EXCEPT !.step = "buffer"]
    BY <1>8 DEF Headless!SetupOpen
  <2> QED
    BY <1>3, <2>1
<1>9. CASE Headless!SetupBuffer
  <2>1. /\ v3 # None /\ v2' = v2 /\ v7' = v7
        /\ v3' = [v3 EXCEPT !.step = "software"] \/ v3' = [v3 EXCEPT !.step = "mode"]
    BY <1>9 DEF Headless!SetupBuffer
  <2> QED
    BY <1>3, <2>1
<1>10. CASE Headless!SetupMode
  <2>1. /\ v3 # None /\ v2' = v2 /\ v7' = v7
        /\ \/ v3' = [v3 EXCEPT !.step = "wrap"] /\ v4' = [v4 EXCEPT !.valid = TRUE, !.mode = v3.mode]
           \/ v3' = [v3 EXCEPT !.step = "software"]
    BY <1>10 DEF Headless!SetupMode
  <2>2. [v4 EXCEPT !.valid = TRUE, !.mode = v3.mode].valid
    BY <1>1, <2>1 DEF Headless!Object
  <2> QED
    BY <1>3, <2>1, <2>2
<1>11. CASE Headless!SetupSoftware
  <2>1. /\ v3 # None /\ v2' = v2 /\ v7' = v7
        /\ v3' = [v3 EXCEPT !.step = "wrap"]
        /\ v4' = [v4 EXCEPT !.valid = TRUE, !.software = TRUE, !.mode = v3.mode]
    BY <1>11 DEF Headless!SetupSoftware
  <2>2. v4'.valid
    BY <1>1, <2>1 DEF Headless!Object
  <2> QED
    BY <1>3, <2>1, <2>2
<1>12. CASE Headless!WrapHeadless
  <2>1. v3' = None /\ ~v7' /\ v2' = v2
    BY <1>1, <1>12 DEF Headless!WrapHeadless, Headless!Show
  <2> QED
    BY <1>2, <2>1
<1>13. CASE Headless!WrapKms
  <2>1. /\ v3 # None /\ v3.by = "kms" /\ v2' = v2
        /\ \/ v3' = None
           \/ v3' = [v3 EXCEPT !.vram = FALSE, !.step = "create"] /\ v7' = v7
    BY <1>13 DEF Headless!WrapKms, Headless!Show, Headless!Refuse
  <2>2. "kms" \in v2
    BY <1>1, <2>1
  <2>3. [v3 EXCEPT !.vram = FALSE, !.step = "create"].step = "create"
    BY <1>1, <2>1 DEF Headless!Opening
  <2> QED
    BY <1>2, <2>1, <2>2, <2>3
<1>14. CASE Headless!CloseDisplay
  <2>1. v2' = v2 /\ v3' = v3 /\ v7' = v7 /\ (v3 # None => v4' = Headless!NoObject)
    BY <1>14 DEF Headless!CloseDisplay
  <2>2. v3 = None
    BY <1>14 DEF Headless!CloseDisplay, Headless!RefusalInv, Headless!HeadlessInv
  <2> QED
    BY <1>1, <1>2, <2>1, <2>2
<1> QED
  BY <1>4, <1>5, <1>6, <1>7, <1>8, <1>9, <1>10, <1>11, <1>12, <1>13, <1>14 DEF Headless!Next
=============================================================================
