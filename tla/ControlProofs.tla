--------------------------- MODULE ControlProofs ---------------------------
(***************************************************************************)
(* Theorems about who may stream and how: the pending launch of            *)
(* LaunchEvent, for any set of launches; as parts of MCControl pairing,    *)
(* for any ids, certificates, PINs and number of devices, the nonces of    *)
(* the control stream and of RTSP, for any width of the sequence numbers,  *)
(* what an idle host has left behind, for any clients and ports, what the  *)
(* web UI, the application list and the leases keep, and what RTSP, the    *)
(* HDR mode, the display mode and the shutdown promise.                    *)
(***************************************************************************)
EXTENDS MCControl, SequenceTheorems, WellFoundedInduction, TLAPS

(***************************************************************************)
(* The pending launch.                                                     *)
(***************************************************************************)

\* What session_raise knows between its steps: from its view on, the launch
\* it is about to raise exists, and after the view the event stays empty,
\* because nobody else raises it. What is pending has been requested.
RaiseInv ==
  /\ hpc # "idle" => hcur \in requested
  /\ hpc = "raise" => pending = None
  /\ pending # None => pending \in requested

LInv == TypeOK /\ RaiseInv /\ PendingIsGuarded

\* The initial state: nothing pending, every thread idle.
LEMMA LInvInit == Init => LInv
  BY DEF Init, LInv, TypeOK, RaiseInv, PendingIsGuarded

\* No step of the HTTPS worker, the RTSP thread or the control thread breaks
\* the invariant.
LEMMA LInvStep == LInv /\ [Next]_vars => LInv'
<1> SUFFICES ASSUME LInv, [Next]_vars PROVE LInv'
  OBVIOUS
<1> USE NoneAssumption DEF LInv, TypeOK, RaiseInv, PendingIsGuarded
<1>1. ASSUME NEW l \in Launch, Request(l) PROVE LInv'
  BY <1>1 DEF Request
<1>2. CASE RaiseView
  BY <1>2 DEF RaiseView
<1>3. CASE RaiseEvent
  BY <1>3 DEF RaiseEvent
<1>4. CASE RaiseArm
  BY <1>4 DEF RaiseArm
<1>5. CASE TimerExpires
  <2>1. armed \in Launch /\ fired' = Append(fired, armed) /\ armed' = None
    BY <1>5 DEF TimerExpires
  <2>2. fired' \in Seq(Launch) /\ fired' # <<>>
    BY <2>1
  <2> QED
    BY <1>5, <2>1, <2>2 DEF TimerExpires
<1>6. CASE TimerHandler
  <2>1. fired' \in Seq(Launch)
    BY <1>6 DEF TimerHandler
  <2> QED
    BY <1>6, <2>1 DEF TimerHandler
<1>7. CASE Accept
  BY <1>7 DEF Accept
<1>8. ASSUME NEW l \in Launch, Announce(l) PROVE LInv'
  BY <1>8 DEF Announce
<1>9. ASSUME NEW l \in Launch, ClearView(l) PROVE LInv'
  BY <1>9 DEF ClearView
<1>10. CASE ClearCancel
  BY <1>10 DEF ClearCancel
<1>11. CASE ClearPop
  BY <1>11 DEF ClearPop
<1>12. CASE UNCHANGED vars
  BY <1>12 DEF vars
<1> QED
  BY <1>1, <1>2, <1>3, <1>4, <1>5, <1>6, <1>7, <1>8, <1>9, <1>10, <1>11,
     <1>12 DEF Next, RaiseNext, ClearNext

\* LInv holds in every reachable state.
THEOREM LInvHolds == Spec => []LInv
<1> QED
  BY LInvInit, LInvStep, PTL DEF Spec

\* A pending launch always has somebody who is going to discard it.
THEOREM GuardedTheorem == Spec => []PendingIsGuarded
<1>1. LInv => PendingIsGuarded
  BY DEF LInv
<1> QED
  BY <1>1, LInvHolds, PTL

\* session_raise never replaces a pending launch by another one: between its
\* look at the event and its raise nobody else raises it.
THEOREM NeverOverwrittenTheorem == Spec => NeverOverwritten
<1>1. ASSUME LInv, [Next]_vars
      PROVE  [pending # None /\ pending' # pending => pending' = None]_vars
  <2> SUFFICES ASSUME Next, pending # None, pending' # pending
               PROVE  pending' = None
    BY <1>1 DEF vars
  <2> QED
    BY <1>1 DEF LInv, RaiseInv, Next, RaiseNext, ClearNext, Request,
       RaiseView, RaiseEvent, RaiseArm, TimerExpires, TimerHandler, Accept,
       Announce, ClearView, ClearCancel, ClearPop
<1> QED
  BY <1>1, LInvHolds, PTL DEF Spec, NeverOverwritten

(***************************************************************************)
(* Pairing.                                                                *)
(***************************************************************************)

\* A paired device, and a session under way.
Device == [cert : Cert, on : BOOLEAN]
Handshake == [phase : Pairs!Phases, cert : Cert, key : Pin \cup {None}, good : BOOLEAN]

PairType ==
  /\ v1 \in [Id -> Handshake \cup {None}]
  /\ v2 \in Seq(Device) /\ v5 \in [ok : BOOLEAN, named : Seq(Device)]
  /\ v3 \in SUBSET Cert /\ v4 \in SUBSET Cert
  /\ v6 \in BOOLEAN /\ v7 \in BOOLEAN /\ v9 \in BOOLEAN

\* What a session under way has shown: past its first phase a key that is the
\* client's PIN was typed by the user, and a good hash needs that key.
SessionIsVouched ==
  \A i \in Id : v1[i] # None =>
    /\ v1[i].phase # "NONE" /\ v1[i].key = Pairs!PinOf[v1[i].cert] =>
         v1[i].cert \in v8
    /\ v1[i].good =>
         v1[i].phase = "SERVERCHALLENGERESP" /\ v1[i].key = Pairs!PinOf[v1[i].cert]

PairInv == PairType /\ SessionIsVouched /\ Pairs!PairedKnowsPin /\ Pairs!RestartKeepsClients

-----------------------------------------------------------------------------
(* The list of clients. *)

\* push_back adds one certificate.
LEMMA CertsOfAppend ==
  ASSUME NEW ns \in Seq(Device), NEW d \in Device
  PROVE  Append(ns, d) \in Seq(Device) /\ Pairs!CertsOf(Append(ns, d)) = Pairs!CertsOf(ns) \cup {d.cert}
<1> DEFINE n == Len(ns)
           r == Append(ns, d)
<1>1. /\ n \in Nat /\ DOMAIN ns = 1 .. n /\ r \in Seq(Device) /\ DOMAIN r = 1 .. n + 1
      /\ \A i \in 1 .. n : r[i] = ns[i]
      /\ r[n + 1] = d
  BY AppendProperties, LenProperties
<1> HIDE DEF n, r
<1>2. Pairs!CertsOf(r) = Pairs!CertsOf(ns) \cup {d.cert}
  BY <1>1 DEF Pairs!CertsOf
<1> QED
  BY <1>1, <1>2 DEF r

\* erase adds none.
LEMMA CertsOfRemoveAt ==
  ASSUME NEW ns \in Seq(Device), NEW k \in DOMAIN ns
  PROVE  Pairs!RemoveAt(ns, k) \in Seq(Device) /\ Pairs!CertsOf(Pairs!RemoveAt(ns, k)) \subseteq Pairs!CertsOf(ns)
<1> DEFINE a == SubSeq(ns, 1, k - 1)
           b == SubSeq(ns, k + 1, Len(ns))
           r == a \o b
<1>1. Len(ns) \in Nat /\ DOMAIN ns = 1 .. Len(ns) /\ \A i \in 1 .. Len(ns) : ns[i] \in Device
  BY LenProperties, ElementOfSeq
<1>2. a \in Seq(Device) /\ Len(a) = k - 1 /\ \A i \in 1 .. k - 1 : a[i] = ns[i]
  BY <1>1, SubSeqProperties
<1>3. /\ b \in Seq(Device) /\ Len(b) = Len(ns) - k
      /\ \A i \in 1 .. Len(ns) - k : b[i] = ns[k + 1 + i - 1]
  <2>1. /\ \A i \in k + 1 .. Len(ns) : ns[i] \in Device
        /\ k + 1 \in Int /\ Len(ns) \in Int
    BY <1>1
  <2>2. /\ b \in Seq(Device)
        /\ Len(b) = IF k + 1 <= Len(ns) THEN Len(ns) - (k + 1) + 1 ELSE 0
        /\ \A i \in 1 .. Len(ns) - (k + 1) + 1 : b[i] = ns[k + 1 + i - 1]
    BY <2>1, SubSeqProperties
  <2> HIDE DEF b
  <2> QED
    BY <1>1, <2>2
<1> HIDE DEF a, b
<1>4. /\ r \in Seq(Device) /\ DOMAIN r = 1 .. (k - 1) + (Len(ns) - k)
      /\ \A i \in 1 .. k - 1 : r[i] = a[i]
      /\ \A i \in k .. Len(ns) - 1 : r[i] = b[i - (k - 1)]
  <2>1. /\ r \in Seq(Device) /\ Len(r) = Len(a) + Len(b)
        /\ \A i \in 1 .. Len(a) + Len(b) :
             r[i] = IF i <= Len(a) THEN a[i] ELSE b[i - Len(a)]
    BY <1>2, <1>3, ConcatProperties
  <2>2. DOMAIN r = 1 .. Len(r)
    BY <2>1, LenProperties
  <2> HIDE DEF r
  <2> QED
    BY <1>1, <1>2, <1>3, <2>1, <2>2, SMTT(40)
<1> HIDE DEF r
<1>5. \A i \in DOMAIN r : \E j \in DOMAIN ns : r[i] = ns[j]
  <2> SUFFICES ASSUME NEW i \in DOMAIN r PROVE \E j \in DOMAIN ns : r[i] = ns[j]
    OBVIOUS
  <2>1. CASE i <= k - 1
    BY <1>1, <1>2, <1>4, <2>1
  <2>2. CASE i > k - 1
    <3>1. /\ i \in k .. Len(ns) - 1 /\ i - (k - 1) \in 1 .. Len(ns) - k
          /\ i + 1 \in 1 .. Len(ns) /\ k + 1 + (i - (k - 1)) - 1 = i + 1
      BY <1>1, <1>4, <2>2
    <3>2. r[i] = ns[i + 1]
      BY <1>3, <1>4, <3>1
    <3> QED
      BY <1>1, <3>1, <3>2
  <2> QED
    BY <1>1, <1>4, <2>1, <2>2
<1>6. Pairs!RemoveAt(ns, k) = r
  BY DEF Pairs!RemoveAt, r, a, b
<1> QED
  BY <1>4, <1>5, <1>6 DEF Pairs!CertsOf

\* Setting a flag adds none.
LEMMA CertsOfEnabled ==
  ASSUME NEW ns \in Seq(Device), NEW k \in DOMAIN ns, NEW b \in BOOLEAN
  PROVE  /\ [ns EXCEPT ![k].on = b] \in Seq(Device)
         /\ Pairs!CertsOf([ns EXCEPT ![k].on = b]) = Pairs!CertsOf(ns)
<1> DEFINE r == [ns EXCEPT ![k].on = b]
           d == [ns[k] EXCEPT !.on = b]
<1>1. ns[k] \in Device /\ k \in 1 .. Len(ns) /\ DOMAIN ns = 1 .. Len(ns)
  BY ElementOfSeq, LenProperties
<1>2. d \in Device /\ d.cert = ns[k].cert
  BY <1>1 DEF Device
<1>3. r = [ns EXCEPT ![k] = d]
  OBVIOUS
<1> HIDE DEF d
<1>4. r \in Seq(Device) /\ DOMAIN r = DOMAIN ns
  BY <1>1, <1>2, <1>3, ExceptSeq
<1>5. \A i \in DOMAIN ns : r[i].cert = ns[i].cert
  BY <1>2, <1>3
<1> HIDE DEF r
<1>6. Pairs!CertsOf(r) = Pairs!CertsOf(ns)
  BY <1>4, <1>5 DEF Pairs!CertsOf
<1> QED
  BY <1>4, <1>6 DEF r

\* Whom an index of the list names.
LEMMA SomeCert ==
  ASSUME NEW ns \in Seq(Device)
  PROVE  Pairs!CertsOf(ns) \in SUBSET Cert
<1>1. \A i \in DOMAIN ns : ns[i] \in Device
  BY ElementOfSeq, LenProperties
<1> QED
  BY <1>1 DEF Pairs!CertsOf, Device
-----------------------------------------------------------------------------
(* Saving and loading. *)

\* save_state writes the list, or leaves the old file or an unreadable one; an
\* unreadable file always counts as unsaved.
LEMMA SaveMoves ==
  ASSUME PairType, NEW ns \in Seq(Device), Pairs!SaveState(ns)
  PROVE  /\ v5' \in [ok : BOOLEAN, named : Seq(Device)] /\ v6' \in BOOLEAN
         /\ v9' \in BOOLEAN
         /\ Pairs!CertsOf(v5'.named) \subseteq Pairs!CertsOf(ns) \cup Pairs!CertsOf(v5.named)
         /\ v9' \/ v5' = [ok |-> TRUE, named |-> ns]
<1> DEFINE cut == [ok |-> FALSE, named |-> <<>>]
           new == [ok |-> TRUE, named |-> ns]
<1>1. <<>> \in Seq(Device) /\ Pairs!CertsOf(<<>>) = {}
  BY EmptySeq DEF Pairs!CertsOf
<1>2. /\ cut \in [ok : BOOLEAN, named : Seq(Device)] /\ Pairs!CertsOf(cut.named) = {}
      /\ new \in [ok : BOOLEAN, named : Seq(Device)] /\ new.named = ns
  BY <1>1
<1>3. v5 \in [ok : BOOLEAN, named : Seq(Device)] /\ v5.ok \in BOOLEAN
  BY DEF PairType
<1>4. /\ v6' = v5.ok
      /\ \/ v5' = new /\ v9' = FALSE
         \/ v5' \in {v5, cut} /\ v9' = TRUE
  BY DEF Pairs!SaveState
<1> HIDE DEF cut, new
<1>5. /\ v6' \in BOOLEAN /\ v9' \in BOOLEAN
      /\ v5' \in [ok : BOOLEAN, named : Seq(Device)]
      /\ v9' \/ v5' = new
  BY <1>2, <1>3, <1>4
<1>6. Pairs!CertsOf(v5'.named) \subseteq Pairs!CertsOf(ns) \cup Pairs!CertsOf(v5.named)
  BY <1>2, <1>4
<1> QED
  BY <1>5, <1>6 DEF new

\* load_state takes the list from the file if it can be parsed.
LEMMA LoadMoves ==
  ASSUME NEW f \in [ok : BOOLEAN, named : Seq(Device)], NEW ns \in Seq(Device),
         NEW ch \in SUBSET Cert, Pairs!LoadState(f, ns, ch)
  PROVE  /\ v2' \in Seq(Device) /\ v3' \in SUBSET Cert
         /\ Pairs!CertsOf(v2') \subseteq Pairs!CertsOf(ns) \cup Pairs!CertsOf(f.named)
         /\ v3' \subseteq ch \cup Pairs!CertsOf(f.named)
         /\ f.ok => v2' = f.named
BY SomeCert DEF Pairs!LoadState

\* A save followed by a load brings in no certificate but those of the list, the
\* file and the chain, and leaves list and file equal unless the save failed.
LEMMA SaveAndLoad ==
  ASSUME PairInv, NEW ns \in Seq(Device), Pairs!SaveState(ns), Pairs!LoadState(v5', ns, v3),
         Pairs!CertsOf(ns) \subseteq v8', v8 \subseteq v8',
         v4' \subseteq v8', v4' \in SUBSET Cert, UNCHANGED v7,
         v1' \in [Id -> Handshake \cup {None}], SessionIsVouched'
  PROVE  PairInv'
<1>1. /\ v5' \in [ok : BOOLEAN, named : Seq(Device)] /\ v6' \in BOOLEAN
      /\ v9' \in BOOLEAN
      /\ Pairs!CertsOf(v5'.named) \subseteq Pairs!CertsOf(ns) \cup Pairs!CertsOf(v5.named)
  BY SaveMoves DEF PairInv
<1>2. v3 \in SUBSET Cert
  BY DEF PairInv, PairType
<1>3. /\ v2' \in Seq(Device) /\ v3' \in SUBSET Cert
      /\ Pairs!CertsOf(v2') \subseteq Pairs!CertsOf(ns) \cup Pairs!CertsOf(v5'.named)
      /\ v3' \subseteq v3 \cup Pairs!CertsOf(v5'.named)
      /\ v5'.ok => v2' = v5'.named
  BY <1>1, <1>2, LoadMoves
<1>4. PairType'
  BY <1>1, <1>3 DEF PairInv, PairType
<1>5. Pairs!PairedKnowsPin'
  BY <1>1, <1>3 DEF PairInv, Pairs!PairedKnowsPin
<1>6. Pairs!RestartKeepsClients'
  BY <1>3 DEF Pairs!RestartKeepsClients
<1> QED
  BY <1>4, <1>5, <1>6 DEF PairInv

\* A step of a handshake.
LEMMA HandshakeStep ==
  ASSUME PairInv, UNCHANGED <<v2, v3, v4, v5, v6, v7, v9>>,
         v1' \in [Id -> Handshake \cup {None}], SessionIsVouched',
         v8 \subseteq v8'
  PROVE  PairInv'
BY DEF PairInv, PairType, Pairs!PairedKnowsPin, Pairs!RestartKeepsClients

-----------------------------------------------------------------------------
(* The handlers. *)

\* The phases of the handshake: none makes a session's client look vouched for,
\* and none makes a hash good, that was not so before.
LEMMA PhasesStep ==
  ASSUME PairInv, NEW i \in Id,
         \/ \E c \in Cert : Pairs!GetServerCert(i, c) \/ Pairs!ServerChallengeResp(i, c)
         \/ Pairs!ClientChallenge(i)
  PROVE  PairInv'
<1>1. PICK s \in Handshake \cup {None} :
        /\ v1' = [v1 EXCEPT ![i] = s]
        /\ s # None =>
             /\ s.phase # "NONE" /\ s.key = Pairs!PinOf[s.cert] => s.cert \in v8
             /\ s.good => s.phase = "SERVERCHALLENGERESP" /\ s.key = Pairs!PinOf[s.cert]
  <2>0. /\ v1[i] \in Handshake \cup {None}
        /\ v1[i] # None =>
             /\ v1[i].phase # "NONE" /\ v1[i].key = Pairs!PinOf[v1[i].cert] =>
                  v1[i].cert \in v8
             /\ v1[i].good => v1[i].phase = "SERVERCHALLENGERESP"
                                /\ v1[i].key = Pairs!PinOf[v1[i].cert]
    BY DEF PairInv, PairType, SessionIsVouched
  <2> DEFINE Fine(s) ==
        /\ s \in Handshake \cup {None} /\ v1' = [v1 EXCEPT ![i] = s]
        /\ s # None =>
             /\ s.phase # "NONE" /\ s.key = Pairs!PinOf[s.cert] => s.cert \in v8
             /\ s.good => s.phase = "SERVERCHALLENGERESP" /\ s.key = Pairs!PinOf[s.cert]
  <2>1. ASSUME NEW c \in Cert, Pairs!GetServerCert(i, c) PROVE \E s : Fine(s)
    <3> DEFINE n == [phase |-> "NONE", cert |-> c, key |-> None, good |-> FALSE]
    <3>1. n \in Handshake /\ n.phase = "NONE" /\ ~n.good
      BY DEF Handshake, Pairs!Phases
    <3>2. v1' = [v1 EXCEPT ![i] = IF v1[i] = None THEN n ELSE v1[i]]
      BY <2>1 DEF Pairs!GetServerCert
    <3> HIDE DEF n
    <3>3. CASE v1[i] = None
      <4>1. Fine(n)
        BY <3>1, <3>2, <3>3
      <4> QED
        BY <4>1
    <3>4. CASE v1[i] # None
      <4>1. Fine(v1[i])
        BY <2>0, <3>2, <3>4
      <4> QED
        BY <4>1
    <3> QED
      BY <3>3, <3>4
  <2>2. ASSUME v1' = [v1 EXCEPT ![i] = None] PROVE \E s : Fine(s)
    <3>1. Fine(None)
      BY <2>2
    <3> QED
      BY <3>1
  <2>3. ASSUME NEW c \in Cert, Pairs!ServerChallengeResp(i, c) PROVE \E s : Fine(s)
    <3> DEFINE n == [v1[i] EXCEPT !.phase = "SERVERCHALLENGERESP",
                       !.good = v1[i].cert = c /\ v1[i].key = Pairs!PinOf[c]]
    <3>1. v1[i] # None /\ v1' = [v1 EXCEPT ![i] = IF v1[i].phase = "CLIENTCHALLENGE"
                                                          THEN n ELSE None]
      BY <2>3 DEF Pairs!ServerChallengeResp, Pairs!Advance
    <3>2. CASE v1[i].phase = "CLIENTCHALLENGE"
      <4>1. /\ n \in Handshake /\ n.phase = "SERVERCHALLENGERESP"
            /\ n.key = v1[i].key /\ n.cert = v1[i].cert
            /\ n.good => v1[i].cert = c /\ v1[i].key = Pairs!PinOf[c]
        BY <2>0, <3>1 DEF Handshake, Pairs!Phases
      <4> HIDE DEF n
      <4>2. Fine(n)
        BY <2>0, <3>1, <3>2, <4>1
      <4> QED
        BY <4>2
    <3>3. CASE v1[i].phase # "CLIENTCHALLENGE"
      BY <2>2, <3>1, <3>3
    <3> QED
      BY <3>2, <3>3
  <2>4. ASSUME Pairs!ClientChallenge(i) PROVE \E s : Fine(s)
    <3> DEFINE n == [v1[i] EXCEPT !.phase = "CLIENTCHALLENGE"]
    <3>1. v1[i] # None /\ v1' = [v1 EXCEPT ![i] = IF v1[i].phase = "GETSERVERCERT"
                                                          THEN n ELSE None]
      BY <2>4 DEF Pairs!ClientChallenge, Pairs!Advance
    <3>2. CASE v1[i].phase = "GETSERVERCERT"
      <4>1. /\ n \in Handshake /\ n.key = v1[i].key /\ n.cert = v1[i].cert
            /\ n.good = v1[i].good
        BY <2>0, <3>1 DEF Handshake, Pairs!Phases
      <4> HIDE DEF n
      <4>2. Fine(n)
        BY <2>0, <3>1, <3>2, <4>1
      <4> QED
        BY <4>2
    <3>3. CASE v1[i].phase # "GETSERVERCERT"
      BY <2>2, <3>1, <3>3
    <3> QED
      BY <3>2, <3>3
  <2> HIDE DEF Fine
  <2>5. \E s : Fine(s)
    BY <2>1, <2>3, <2>4
  <2> QED
    BY <2>5 DEF Fine
<1>2. UNCHANGED <<v2, v3, v4, v5, v6, v7, v8, v9>>
  BY DEF Pairs!GetServerCert, Pairs!ServerChallengeResp, Pairs!ClientChallenge, Pairs!Advance
<1>3. v1' \in [Id -> Handshake \cup {None}]
  BY <1>1 DEF PairInv, PairType
<1>4. SessionIsVouched'
  <2>1. \A j \in Id : v1'[j] = IF j = i THEN s ELSE v1[j]
    BY <1>1 DEF PairInv, PairType
  <2> QED
    BY <1>1, <1>2, <2>1 DEF PairInv, SessionIsVouched
<1> QED
  BY <1>2, <1>3, <1>4, HandshakeStep

\* pin(): the only step that vouches, and only for the PIN's own client.
LEMMA PinStep ==
  ASSUME PairInv, NEW i \in Id, NEW p \in Pin, Pairs!PinTyped(i, p)
  PROVE  PairInv'
<1> DEFINE n == [v1[i] EXCEPT !.phase = "GETSERVERCERT", !.key = p]
<1>1. /\ v1[i] # None
      /\ v1' = [v1 EXCEPT ![i] = IF v1[i].phase # "NONE" THEN None ELSE n]
      /\ v8' = IF v1[i].phase = "NONE" /\ p = Pairs!PinOf[v1[i].cert]
                      THEN v8 \cup {v1[i].cert} ELSE v8
      /\ UNCHANGED <<v2, v3, v4, v5, v6, v7, v9>>
  BY DEF Pairs!PinTyped
<1>2. /\ v1[i] \in Handshake
      /\ v1[i].good => v1[i].phase = "SERVERCHALLENGERESP"
  BY <1>1 DEF PairInv, PairType, SessionIsVouched
<1>3. n \in Handshake /\ n.key = p /\ n.cert = v1[i].cert /\ n.good = v1[i].good
  BY <1>2 DEF Handshake, Pairs!Phases
<1> HIDE DEF n
<1>4. v1' \in [Id -> Handshake \cup {None}]
  BY <1>1, <1>3 DEF PairInv, PairType
<1>5. \A j \in Id : v1'[j] = IF j # i THEN v1[j]
                               ELSE IF v1[i].phase # "NONE" THEN None ELSE n
  BY <1>1 DEF PairInv, PairType
<1>6. SessionIsVouched'
  BY <1>1, <1>2, <1>3, <1>5 DEF PairInv, SessionIsVouched
<1> QED
  BY <1>1, <1>4, <1>6, HandshakeStep

\* clientpairingsecret: only a good hash pairs, and its client was vouched for.
LEMMA SecretStep ==
  ASSUME PairInv, NEW i \in Id, NEW signed \in BOOLEAN, Pairs!ClientPairingSecret(i, signed)
  PROVE  PairInv'
<1> DEFINE c == v1[i].cert
           paired == v1[i].phase = "SERVERCHALLENGERESP" /\ v1[i].good /\ signed
           ns == Append(v2, [cert |-> c, on |-> TRUE])
<1>1. v1[i] # None /\ v1' = [v1 EXCEPT ![i] = None] /\ UNCHANGED <<v7, v8>>
  BY DEF Pairs!ClientPairingSecret
<1>2. c \in Cert
  BY <1>1 DEF PairInv, PairType, Handshake
<1>3. v1' \in [Id -> Handshake \cup {None}] /\ SessionIsVouched'
  BY <1>1 DEF PairInv, PairType, SessionIsVouched
<1>4. CASE ~paired
  BY <1>1, <1>3, <1>4, HandshakeStep DEF Pairs!ClientPairingSecret
<1>5. CASE paired
  <2>1. c \in v8
    BY <1>1, <1>5 DEF PairInv, SessionIsVouched
  <2>2. ns \in Seq(Device) /\ Pairs!CertsOf(ns) = Pairs!CertsOf(v2) \cup {c}
    <3>1. v2 \in Seq(Device) /\ [cert |-> c, on |-> TRUE] \in Device
      BY <1>2 DEF PairInv, PairType, Device
    <3> QED
      BY <3>1, CertsOfAppend
  <2>3. v4' = v4 \cup {c}
    BY <1>5 DEF Pairs!ClientPairingSecret
  <2>4. /\ Pairs!CertsOf(ns) \subseteq v8' /\ v4' \subseteq v8'
        /\ v4' \in SUBSET Cert
    BY <1>1, <1>2, <2>1, <2>2, <2>3 DEF PairInv, PairType, Pairs!PairedKnowsPin
  <2>5. CASE v7
    <3>1. v2' = ns /\ UNCHANGED <<v3, v5, v6, v9>>
      BY <1>5, <2>5 DEF Pairs!ClientPairingSecret
    <3> HIDE DEF ns, c, paired
    <3>2. PairType'
      BY <1>1, <1>3, <2>2, <2>4, <3>1 DEF PairInv, PairType
    <3>3. Pairs!PairedKnowsPin'
      BY <1>1, <2>4, <3>1 DEF PairInv, Pairs!PairedKnowsPin
    <3>4. Pairs!RestartKeepsClients'
      BY <1>1, <2>5 DEF Pairs!RestartKeepsClients
    <3> QED
      BY <1>3, <3>2, <3>3, <3>4 DEF PairInv
  <2>6. CASE ~v7
    <3>1. Pairs!SaveState(ns) /\ Pairs!LoadState(v5', ns, v3)
      BY <1>5, <2>6 DEF Pairs!ClientPairingSecret
    <3> HIDE DEF ns, c, paired
    <3> QED
      BY <1>1, <1>3, <2>2, <2>4, <3>1, SaveAndLoad
  <2> QED
    BY <2>5, <2>6
<1> QED
  BY <1>4, <1>5

\* Connections, the client list of the web UI and a restart.
LEMMA ClientsStep ==
  ASSUME PairInv,
         \/ \E c \in Cert : Pairs!Connect(c)
         \/ \E k \in 1 .. MaxNamed : Pairs!Unpair(k)
         \/ \E k \in 1 .. MaxNamed, b \in BOOLEAN : Pairs!SetClientEnabled(k, b)
         \/ Pairs!EraseAllClients
         \/ \E f \in BOOLEAN : Pairs!Restart(f)
  PROVE  PairInv'
<1>1. /\ v1 \in [Id -> Handshake \cup {None}] /\ v2 \in Seq(Device)
      /\ v5 \in [ok : BOOLEAN, named : Seq(Device)] /\ <<>> \in Seq(Device)
      /\ Pairs!CertsOf(<<>>) = {} /\ Pairs!CertsOf(v2) \subseteq v8
      /\ v4 \subseteq v8 /\ v4 \in SUBSET Cert
  BY EmptySeq DEF PairInv, PairType, Pairs!PairedKnowsPin, Pairs!CertsOf
<1>2. ASSUME NEW c \in Cert, Pairs!Connect(c) PROVE PairInv'
  BY <1>2 DEF Pairs!Connect, PairInv, PairType, SessionIsVouched, Pairs!PairedKnowsPin,
     Pairs!RestartKeepsClients
<1>3. ASSUME NEW k \in 1 .. MaxNamed, Pairs!Unpair(k) PROVE PairInv'
  <2> DEFINE ns == Pairs!RemoveAt(v2, k)
  <2>1. /\ k \in DOMAIN v2 /\ Pairs!SaveState(ns) /\ Pairs!LoadState(v5', ns, v3)
        /\ UNCHANGED <<v1, v4, v7, v8>>
    BY <1>3 DEF Pairs!Unpair
  <2>2. ns \in Seq(Device) /\ Pairs!CertsOf(ns) \subseteq Pairs!CertsOf(v2)
    BY <1>1, <2>1, CertsOfRemoveAt
  <2> HIDE DEF ns
  <2>3. SessionIsVouched'
    BY <2>1 DEF PairInv, SessionIsVouched
  <2> QED
    BY <1>1, <2>1, <2>2, <2>3, SaveAndLoad
<1>4. ASSUME NEW k \in 1 .. MaxNamed, NEW b \in BOOLEAN, Pairs!SetClientEnabled(k, b)
      PROVE  PairInv'
  <2> DEFINE ns == [v2 EXCEPT ![k].on = b]
  <2>1. /\ k \in DOMAIN v2 /\ v2' = ns /\ Pairs!SaveState(v2')
        /\ UNCHANGED <<v1, v3, v4, v7, v8>>
    BY <1>4 DEF Pairs!SetClientEnabled
  <2>2. ns \in Seq(Device) /\ Pairs!CertsOf(ns) = Pairs!CertsOf(v2)
    BY <1>1, <2>1, CertsOfEnabled
  <2> HIDE DEF ns
  <2>3. Pairs!SaveState(ns)
    BY <2>1
  <2>4. /\ v5' \in [ok : BOOLEAN, named : Seq(Device)] /\ v6' \in BOOLEAN
        /\ v9' \in BOOLEAN
        /\ Pairs!CertsOf(v5'.named) \subseteq Pairs!CertsOf(ns) \cup Pairs!CertsOf(v5.named)
        /\ v9' \/ v5' = [ok |-> TRUE, named |-> ns]
    BY <2>2, <2>3, SaveMoves DEF PairInv
  <2>5. PairType'
    BY <1>1, <2>1, <2>2, <2>4 DEF PairInv, PairType
  <2>6. Pairs!PairedKnowsPin'
    BY <2>1, <2>2, <2>4 DEF PairInv, Pairs!PairedKnowsPin
  <2>7. Pairs!RestartKeepsClients' /\ SessionIsVouched'
    BY <2>1, <2>4 DEF PairInv, Pairs!RestartKeepsClients, SessionIsVouched
  <2> QED
    BY <2>5, <2>6, <2>7 DEF PairInv
<1>5. CASE Pairs!EraseAllClients
  <2>1. /\ v2' = <<>> /\ v3' = {} /\ Pairs!SaveState(<<>>)
        /\ UNCHANGED <<v1, v4, v7, v8>>
    BY <1>5 DEF Pairs!EraseAllClients
  <2>2. /\ v5' \in [ok : BOOLEAN, named : Seq(Device)] /\ v6' \in BOOLEAN
        /\ v9' \in BOOLEAN
        /\ Pairs!CertsOf(v5'.named) \subseteq Pairs!CertsOf(<<>>) \cup Pairs!CertsOf(v5.named)
        /\ v9' \/ v5' = [ok |-> TRUE, named |-> <<>>]
    BY <1>1, <2>1, SaveMoves DEF PairInv
  <2>3. PairType'
    BY <1>1, <2>1, <2>2 DEF PairInv, PairType
  <2>4. Pairs!PairedKnowsPin'
    BY <1>1, <2>1, <2>2 DEF PairInv, Pairs!PairedKnowsPin
  <2>5. Pairs!RestartKeepsClients' /\ SessionIsVouched'
    BY <2>1, <2>2 DEF PairInv, Pairs!RestartKeepsClients, SessionIsVouched
  <2> QED
    BY <2>3, <2>4, <2>5 DEF PairInv
<1>6. ASSUME NEW f \in BOOLEAN, Pairs!Restart(f) PROVE PairInv'
  <2>1. /\ v7' = f /\ v1' = [i \in Id |-> None] /\ v4' = {}
        /\ Pairs!LoadState(v5, <<>>, {}) /\ v9' = FALSE
        /\ UNCHANGED <<v5, v6, v8>>
    BY <1>6 DEF Pairs!Restart
  <2>2. /\ v2' \in Seq(Device) /\ v3' \in SUBSET Cert
        /\ Pairs!CertsOf(v2') \subseteq Pairs!CertsOf(<<>>) \cup Pairs!CertsOf(v5.named)
        /\ v3' \subseteq {} \cup Pairs!CertsOf(v5.named)
        /\ v5.ok => v2' = v5.named
    BY <1>1, <2>1, LoadMoves
  <2>3. PairType'
    BY <1>1, <1>6, <2>1, <2>2 DEF PairInv, PairType
  <2>4. Pairs!PairedKnowsPin'
    BY <1>1, <2>1, <2>2 DEF PairInv, Pairs!PairedKnowsPin
  <2>5. Pairs!RestartKeepsClients' /\ SessionIsVouched'
    BY <2>1, <2>2 DEF Pairs!RestartKeepsClients, SessionIsVouched
  <2> QED
    BY <2>3, <2>4, <2>5 DEF PairInv
<1> QED
  BY <1>2, <1>3, <1>4, <1>5, <1>6

\* Every request, save and restart keeps the invariant.
LEMMA PairStep == PairInv /\ [Pairs!Next]_(Pairs!pairVars) => PairInv'
<1> SUFFICES ASSUME PairInv, [Pairs!Next]_(Pairs!pairVars) PROVE PairInv'
  OBVIOUS
<1>1. CASE Pairs!Next
  BY <1>1, PhasesStep, PinStep, SecretStep, ClientsStep DEF Pairs!Next
<1>2. CASE UNCHANGED Pairs!pairVars
  BY <1>2 DEF Pairs!pairVars, PairInv, PairType, SessionIsVouched, Pairs!PairedKnowsPin,
     Pairs!RestartKeepsClients
<1> QED
  BY <1>1, <1>2

\* Nobody is paired at first.
LEMMA PairInit == Pairs!Init => PairInv
<1> SUFFICES ASSUME Pairs!Init PROVE PairInv
  OBVIOUS
<1>1. <<>> \in Seq(Device) /\ Pairs!CertsOf(<<>>) = {}
  BY EmptySeq DEF Pairs!CertsOf
<1>2. PairType
  BY <1>1 DEF Pairs!Init, PairType
<1> QED
  BY <1>1, <1>2 DEF Pairs!Init, PairInv, SessionIsVouched, Pairs!PairedKnowsPin, Pairs!RestartKeepsClients

\* A certificate gets into the chain, the list or the state file only if the user
\* typed that client's PIN into its session, in whatever order the phases of any
\* number of clients come, saves fail and the host restarts (nvhttp.cpp pair, pin,
\* save_state, load_state).
THEOREM PairedIsVouched == Pairs!Spec => []Pairs!PairedKnowsPin
<1>1. PairInv => Pairs!PairedKnowsPin
  BY DEF PairInv
<1> QED
  BY <1>1, PairInit, PairStep, PTL DEF Pairs!Spec

\* Outside FRESH_STATE a readable state file holds the list in memory, unless the
\* last save failed: a restart then forgets nobody (save_state, load_state).
THEOREM RestartIsLossless == Pairs!Spec => []Pairs!RestartKeepsClients
<1>1. PairInv => Pairs!RestartKeepsClients
  BY DEF PairInv
<1> QED
  BY <1>1, PairInit, PairStep, PTL DEF Pairs!Spec

\* The first entry with a client's certificate decides, so a client all of whose
\* entries are disabled is refused (verify, is_client_enabled).
LEMMA FirstEntryDecides ==
  ASSUME PairInv
  PROVE  Pairs!DisabledIsRefused
<1> SUFFICES ASSUME NEW c \in Cert, c \in Pairs!CertsOf(v2), Pairs!Accepted(c)
             PROVE  \E i \in DOMAIN v2 : v2[i].cert = c /\ v2[i].on
  BY DEF Pairs!DisabledIsRefused
<1> DEFINE I == {i \in 1 .. Len(v2) : v2[i].cert = c}
<1>1. DOMAIN v2 = 1 .. Len(v2) /\ Len(v2) \in Nat
  BY LenProperties DEF PairInv, PairType
<1>2. I # {} /\ I \in SUBSET Nat
  BY <1>1 DEF Pairs!CertsOf
<1>3. Pairs!Min(I) \in I
  <2>1. PICK x \in I : \A y \in I : ~(<<y, x>> \in OpToRel(<, Nat))
    BY <1>2, NatLessThanWellFounded, WFMin
  <2>2. \A y \in Nat : y < x => <<y, x>> \in OpToRel(<, Nat)
    BY <1>2 DEF OpToRel
  <2> HIDE DEF I
  <2>3. \A y \in I : ~(y < x)
    BY <1>2, <2>1, <2>2
  <2>4. \A y \in I : x <= y
    BY <1>2, <2>3
  <2> QED
    BY <2>4 DEF Pairs!Min
<1>4. v2[Pairs!Min(I)].on
  BY <1>2 DEF Pairs!Accepted, Pairs!SelectInSeq
<1> QED
  BY <1>1, <1>3, <1>4

\* A disabled client is refused, also right after it was paired (verify).
THEOREM DisabledStaysOut == Pairs!Spec => []Pairs!DisabledIsRefused
<1> QED
  BY FirstEntryDecides, PairInit, PairStep, PTL DEF Pairs!Spec

\* A save touches the file only together with a good backup.
LEMMA BackupStep == [Pairs!Next]_(Pairs!pairVars) => Pairs!BackupBeforeWrite
<1> SUFFICES ASSUME [Pairs!Next]_(Pairs!pairVars) PROVE Pairs!BackupBeforeWrite
  OBVIOUS
<1>1. (v5' = v5) \/ (v6' = v5.ok)
  BY DEF Pairs!Next, Pairs!GetServerCert, Pairs!ServerChallengeResp, Pairs!PinTyped, Pairs!ClientChallenge,
     Pairs!Advance,
     Pairs!ClientPairingSecret, Pairs!Connect, Pairs!Unpair, Pairs!SetClientEnabled, Pairs!EraseAllClients, Pairs!Restart,
     Pairs!SaveState, Pairs!pairVars
<1> QED
  BY <1>1 DEF Pairs!BackupBeforeWrite

\* A save that leaves the state file unreadable leaves a readable backup
\* (save_state copies the file before it writes it).
THEOREM BackupComesFirst == Pairs!Spec => [][Pairs!BackupBeforeWrite]_(Pairs!pairVars)
  BY BackupStep, PTL DEF Pairs!Spec

(***************************************************************************)
(* Nonces: the remainders they come from, the messages of the control      *)
(* stream, and the answers of the RTSP server.                             *)
(***************************************************************************)

\* Two numbers with one remainder are a whole span apart.
LEMMA Gap ==
  ASSUME NEW a \in Nat, NEW b \in Nat, NEW S \in Nat \ {0}, a % S = b % S, a < b
  PROVE  b - a >= S
  BY SMT

\* Adding whole spans does not change a remainder.
LEMMA Shift ==
  ASSUME NEW n \in Nat, NEW q \in Nat, NEW S \in Nat \ {0}
  PROVE  (S * q + n) % S = n % S
<1> DEFINE d == n \div S
           r == n % S
<1>1. d \in Nat /\ r \in 0 .. S - 1 /\ n = S * d + r
  BY SMT
<1> HIDE DEF d, r
<1>2. S * q + n = S * (q + d) + r /\ q + d \in Nat
  BY <1>1
<1>3. \A m \in Nat, t \in 0 .. S - 1 : (S * m + t) % S = t
  BY SMT
<1>4. (S * (q + d) + r) % S = r
  BY <1>1, <1>2, <1>3
<1> QED
  BY <1>2, <1>4 DEF r

\* A counter kept modulo the span counts on like the whole one.
LEMMA ModNext ==
  ASSUME NEW s \in Nat, NEW S \in Nat \ {0}
  PROVE  ((s % S) + 1) % S = (s + 1) % S
<1> DEFINE q == s \div S
           n == (s % S) + 1
<1>1. n \in Nat /\ q \in Nat /\ s + 1 = S * q + n
  BY SMT
<1> HIDE DEF q, n
<1>2. (S * q + n) % S = n % S
  BY <1>1, Shift
<1> QED
  BY <1>1, <1>2 DEF n

\* The low byte of a sequence number is that of the message's number.
LEMMA ModMod ==
  ASSUME NEW s \in Nat, NEW S \in Nat \ {0}, NEW L \in Nat \ {0}, S % L = 0
  PROVE  (s % S) % L = s % L
<1> DEFINE a == s \div S
           n == s % S
           k == S \div L
<1>1. a \in Nat /\ n \in Nat /\ s = S * a + n
  BY SMT
<1>2. k \in Nat /\ S = L * k
  BY SMT
<1> HIDE DEF a, n, k
<1>3. k * a \in Nat /\ s = L * (k * a) + n
  BY <1>1, <1>2
<1>4. (L * (k * a) + n) % L = n % L
  BY <1>1, <1>3, Shift
<1> QED
  BY <1>3, <1>4 DEF n

\* Nothing has been exchanged, and no IV used.
LEMMA ControlInitHolds == Control!Init => Control!ControlInv
<1> SUFFICES ASSUME Control!Init PROVE Control!ControlInv
  OBVIOUS
<1>1. 0 % SeqSpan = 0
  BY SpanAssumption
<1>2. Control!SetupInv
  BY DEF Control!Init, Control!SetupInv
<1>3. Control!IvInv
  BY <1>1, SpanAssumption DEF Control!Init, Control!IvInv
<1>4. Control!ChainInv
  <2>1. /\ v12 = <<>> /\ DOMAIN v12 = {}
        /\ v12 \in Seq([n : Nat, kind : {"input", "other", "broken", "nested", "unsealed"}, long : BOOLEAN, iv : Nat])
    BY DEF Control!Init
  <2> QED BY <2>1 DEF Control!Init, Control!ChainInv, Control!GenuineNotStopped
<1> QED BY <1>2, <1>3, <1>4 DEF Control!ControlInv

\* The span is that of the IVs in use: it divides the sequence numbers, and the
\* IV of the next message is its number modulo the span.
LEMMA OutgoingIvIsModulo ==
  ASSUME NEW n \in Nat, v1 # "plain"
  PROVE  /\ Control!Span \in Nat \ {0}
         /\ Control!OutgoingIv(n % SeqSpan) = n % Control!Span
         /\ Control!OutgoingIv(n % SeqSpan) \in 0 .. SeqSpan - 1
<1>1. /\ SeqSpan \in Nat \ {0} /\ LowSpan \in Nat \ {0} /\ SeqSpan % LowSpan = 0
  BY SpanAssumption
<1>2. Control!Span \in Nat \ {0}
  BY <1>1 DEF Control!Span
<1>3. (n % SeqSpan) % LowSpan = n % LowSpan
  BY <1>1, ModMod
<1>4. Control!OutgoingIv(n % SeqSpan) = n % Control!Span
  BY <1>3 DEF Control!OutgoingIv, Control!Span
<1>5. n % SeqSpan \in 0 .. SeqSpan - 1 /\ n % LowSpan \in 0 .. LowSpan - 1
  BY <1>1
<1>6. LowSpan <= SeqSpan
  BY <1>1
<1>7. Control!OutgoingIv(n % SeqSpan) \in 0 .. SeqSpan - 1
  BY <1>1, <1>3, <1>5, <1>6 DEF Control!OutgoingIv
<1> QED BY <1>2, <1>4, <1>7

\* Sealing a message keeps the distance: the IV it takes was last used a whole
\* number of spans ago.
LEMMA SealKeepsSpacing ==
  ASSUME Control!IvInv, Control!EncodeControl, v1' = v1
  PROVE  Control!IvInv'
<1>1. CASE v1 = "plain"
  <2>1. UNCHANGED <<v1, v3, v4, v5, v6>>
    BY <1>1 DEF Control!EncodeControl
  <2> QED BY <2>1 DEF Control!IvInv, Control!Span
<1>2. CASE v1 # "plain"
  <2> DEFINE iv == Control!OutgoingIv(v3)
             S == Control!Span
             gap == (v4 + 1) - v5[iv]
  <2>1. /\ v4 \in Nat /\ v3 = v4 % SeqSpan /\ v5 \in [0 .. SeqSpan - 1 -> Nat]
        /\ \A i \in 0 .. SeqSpan - 1 : v5[i] # 0 => v5[i] <= v4 /\ (v5[i] - 1) % S = i
        /\ v6 # None => v6 \in Nat /\ v6 >= S
    BY DEF Control!IvInv
  <2>2. /\ v4' = v4 + 1 /\ v3' = (v3 + 1) % SeqSpan
        /\ v5' = [v5 EXCEPT ![iv] = v4']
        /\ v6' = IF v5[iv] = 0 THEN v6 ELSE Control!Closer(v4' - v5[iv])
    BY <1>2 DEF Control!EncodeControl
  <2>3. S \in Nat \ {0} /\ iv = v4 % S /\ iv \in 0 .. SeqSpan - 1
    BY <1>2, <2>1, OutgoingIvIsModulo
  <2>4. S' = S
    BY DEF Control!Span
  <2>5. v3' = v4' % SeqSpan /\ v4' \in Nat
    <3>1. ((v4 % SeqSpan) + 1) % SeqSpan = (v4 + 1) % SeqSpan
      BY <2>1, SpanAssumption, ModNext
    <3>2. v3' = ((v4 % SeqSpan) + 1) % SeqSpan
      BY <2>1, <2>2
    <3> QED BY <2>1, <2>2, <3>1, <3>2
  <2>6. v5[iv] # 0 => gap \in Nat /\ gap >= S
    <3> SUFFICES ASSUME v5[iv] # 0 PROVE gap \in Nat /\ gap >= S
      OBVIOUS
    <3> DEFINE a == v5[iv] - 1
    <3>1. a \in Nat /\ a < v4 /\ a % S = v4 % S /\ gap = v4 - a
      BY <2>1, <2>3
    <3> HIDE DEF a, gap, S, iv
    <3>2. v4 - a >= S
      BY <2>1, <2>3, <3>1, Gap
    <3> QED BY <2>1, <2>3, <3>1, <3>2
  <2>7. v6' # None => v6' \in Nat /\ v6' >= S
    <3> HIDE DEF S, iv
    <3>1. v6' = v6 \/ (v5[iv] # 0 /\ v6' = gap)
      BY <2>2 DEF Control!Closer
    <3> QED BY <2>1, <2>6, <3>1
  <2>8. v5' \in [0 .. SeqSpan - 1 -> Nat]
    BY <2>1, <2>2, <2>3, <2>5
  <2>9. ASSUME NEW i \in 0 .. SeqSpan - 1, v5'[i] # 0
        PROVE  v5'[i] <= v4' /\ (v5'[i] - 1) % S = i
    <3> HIDE DEF S, iv
    <3>1. CASE i = iv
      <4>1. v5'[i] = v4 + 1
        BY <2>1, <2>2, <2>3, <3>1
      <4>2. (v4 + 1) - 1 = v4
        BY <2>1
      <4> QED BY <2>1, <2>2, <2>3, <3>1, <4>1, <4>2
    <3>2. CASE i # iv
      <4>1. v5'[i] = v5[i]
        BY <2>1, <2>2, <2>3, <3>2
      <4>2. v5[i] <= v4 /\ (v5[i] - 1) % S = i /\ v5[i] \in Nat
        BY <2>1, <2>9, <4>1
      <4> QED BY <2>1, <2>2, <4>1, <4>2
    <3> QED BY <3>1, <3>2
  <2> HIDE DEF S
  <2> QED BY <2>4, <2>5, <2>7, <2>8, <2>9 DEF Control!IvInv, S
<1> QED BY <1>1, <1>2

\* The client's message joins the chain at its end.
LEMMA SendKeepsChain ==
  ASSUME Control!ChainInv, NEW kind \in {"input", "other", "broken", "nested", "unsealed"},
         NEW long \in BOOLEAN, Control!ClientSends(kind, long)
  PROVE  Control!ChainInv'
<1> DEFINE Kind == {"input", "other", "broken", "nested", "unsealed"}
           Msg == [n : Nat, kind : Kind, long : BOOLEAN, iv : Nat]
           m == [n |-> v13 + 1, kind |-> kind, long |-> long, iv |-> v11]
<1>1. /\ v12 \in Seq(Msg) /\ v10 \in Nat /\ v11 \in Nat /\ v13 \in Nat
      /\ v14 \in BOOLEAN /\ v15 \in BOOLEAN
  BY DEF Control!ChainInv
<1>2. /\ v13' = v13 + 1 /\ v12' = Append(v12, m) /\ v1' = v1 /\ v10' = v10 /\ v15' = v15
      /\ v11' = IF v1 = "plain" /\ kind = "input" /\ long THEN v13' ELSE v11
      /\ v14' = (v14 \/ kind \in {"broken", "nested"})
  BY DEF Control!ClientSends
<1>3. m \in Msg
  BY <1>1
<1>4. /\ v12' \in Seq(Msg) /\ Len(v12') = Len(v12) + 1 /\ DOMAIN v12' = 1 .. Len(v12) + 1
      /\ v12'[Len(v12) + 1] = m /\ \A i \in 1 .. Len(v12) : v12'[i] = v12[i]
  <2> HIDE DEF m, Msg
  <2> QED BY <1>1, <1>2, <1>3
<1>5. DOMAIN v12 = 1 .. Len(v12) /\ Len(v12) \in Nat
  BY <1>1
<1>6. \A i \in DOMAIN v12' : v12'[i].kind \in {"broken", "nested"} => v14'
  <2> SUFFICES ASSUME NEW i \in DOMAIN v12', v12'[i].kind \in {"broken", "nested"} PROVE v14'
    OBVIOUS
  <2>1. CASE i = Len(v12) + 1
    <3>1. kind \in {"broken", "nested"}
      BY <1>4, <2>1
    <3> QED BY <1>2, <3>1
  <2>2. CASE i # Len(v12) + 1
    <3>1. i \in DOMAIN v12 /\ v12'[i] = v12[i]
      BY <1>4, <1>5, <2>2
    <3>2. v12[i].kind \in {"broken", "nested"}
      BY <3>1
    <3>3. v14
      BY <3>1, <3>2 DEF Control!ChainInv
    <3> QED BY <1>1, <1>2, <3>3
  <2> QED BY <2>1, <2>2
<1>7. ASSUME v1 = "plain"
      PROVE  /\ v10' = IF v12' = <<>> THEN v11' ELSE v12'[1].iv
             /\ \A i \in DOMAIN v12' :
                  Control!IvAfter(v12'[i]) = IF i = Len(v12') THEN v11' ELSE v12'[i + 1].iv
  <2>1. /\ v10 = IF v12 = <<>> THEN v11 ELSE v12[1].iv
        /\ \A i \in DOMAIN v12 :
             Control!IvAfter(v12[i]) = IF i = Len(v12) THEN v11 ELSE v12[i + 1].iv
    BY <1>7 DEF Control!ChainInv
  <2>2. v12' # <<>>
    BY <1>4, <1>5
  <2>3. v10' = v12'[1].iv
    <3>1. CASE v12 = <<>>
      BY <1>2, <1>4, <2>1, <3>1
    <3>2. CASE v12 # <<>>
      BY <1>1, <1>2, <1>4, <1>5, <2>1, <3>2
    <3> QED BY <3>1, <3>2
  <2>4. ASSUME NEW i \in DOMAIN v12'
        PROVE  Control!IvAfter(v12'[i]) = IF i = Len(v12') THEN v11' ELSE v12'[i + 1].iv
    <3>1. CASE i = Len(v12) + 1
      BY <1>2, <1>4, <1>7, <3>1 DEF Control!IvAfter
    <3>2. CASE i = Len(v12)
      <4>1. i \in 1 .. Len(v12)
        BY <1>4, <1>5, <2>4, <3>2
      <4>2. i \in DOMAIN v12 /\ v12'[i] = v12[i] /\ i # Len(v12')
        <5>1. i \in DOMAIN v12
          BY <1>5, <4>1
        <5>2. v12'[i] = v12[i]
          BY <1>4, <4>1
        <5>3. i # Len(v12')
          <6> HIDE DEF m, Msg
          <6>1. Len(v12') = Len(v12) + 1 /\ Len(v12) \in Nat
            BY <1>4, <1>5
          <6> QED BY <3>2, <6>1
        <5> QED BY <5>1, <5>2, <5>3
      <4>3. Control!IvAfter(v12[i]) = v11
        BY <2>1, <3>2, <4>2
      <4>4. v12'[i + 1].iv = v11
        BY <1>4, <3>2
      <4> QED BY <4>2, <4>3, <4>4
    <3>3. CASE i # Len(v12) /\ i # Len(v12) + 1
      <4>1. /\ i \in DOMAIN v12 /\ i + 1 \in 1 .. Len(v12) /\ i # Len(v12')
        BY <1>4, <1>5, <2>4, <3>3
      <4>2. v12'[i] = v12[i] /\ v12'[i + 1] = v12[i + 1]
        BY <1>4, <1>5, <4>1
      <4> QED BY <2>1, <3>3, <4>1, <4>2
    <3> QED BY <3>1, <3>2, <3>3
  <2> QED BY <2>2, <2>3, <2>4
<1>8. v11' \in Nat /\ v13' \in Nat /\ v14' \in BOOLEAN
  BY <1>1, <1>2
<1>9. Control!GenuineNotStopped'
  BY <1>1, <1>2 DEF Control!ChainInv, Control!GenuineNotStopped
<1> HIDE DEF m
<1> QED BY <1>1, <1>2, <1>4, <1>6, <1>7, <1>8, <1>9 DEF Control!ChainInv

\* What the host opens it takes from the front of the chain, and its IV moves to
\* the next link.
LEMMA ReceiveKeepsChain ==
  ASSUME Control!ChainInv, Control!Receive
  PROVE  Control!ChainInv'
<1> DEFINE Kind == {"input", "other", "broken", "nested", "unsealed"}
           Msg == [n : Nat, kind : Kind, long : BOOLEAN, iv : Nat]
           m == Head(v12)
           opened == IF v1 = "plain" THEN m.kind = "input" /\ m.iv = v10 ELSE m.kind \in {"input", "other"}
<1>1. /\ v12 \in Seq(Msg) /\ v10 \in Nat /\ v11 \in Nat /\ v13 \in Nat
      /\ v14 \in BOOLEAN /\ v15 \in BOOLEAN
  BY DEF Control!ChainInv
<1>2. /\ v12 # <<>> /\ v12' = Tail(v12) /\ v1' = v1 /\ v11' = v11 /\ v13' = v13 /\ v14' = v14
      /\ v10' = IF v1 = "plain" /\ opened THEN Control!NextIv(m) ELSE v10
      /\ v15' = (v15 \/ (IF v1 = "plain" THEN m.kind \in {"input", "broken"} /\ ~opened
                         ELSE m.kind \in {"broken", "nested"}))
  BY DEF Control!Receive
<1>3. /\ 1 \in DOMAIN v12 /\ m = v12[1] /\ m \in Msg /\ Len(v12) \in Nat \ {0}
      /\ v12' \in Seq(Msg) /\ Len(v12') = Len(v12) - 1 /\ DOMAIN v12' = 1 .. Len(v12) - 1
      /\ DOMAIN v12 = 1 .. Len(v12)
      /\ \A i \in 1 .. Len(v12) - 1 : v12'[i] = v12[i + 1]
  <2> HIDE DEF Msg
  <2> QED BY <1>1, <1>2
<1>4. m.kind \in Kind /\ m.n \in Nat /\ m.long \in BOOLEAN /\ m.iv \in Nat
  <2> HIDE DEF m
  <2> QED BY <1>3
<1>5. m.kind \in {"broken", "nested"} => v14
  <2> HIDE DEF m
  <2> QED BY <1>3 DEF Control!ChainInv
<1>6. v1 = "plain" => v10 = m.iv
  <2> HIDE DEF m
  <2> QED BY <1>2, <1>3 DEF Control!ChainInv
<1>7. v1 = "plain" => v10' = Control!IvAfter(m)
  <2> HIDE DEF m
  <2> QED BY <1>2, <1>4, <1>6 DEF Control!NextIv, Control!IvAfter
<1>8. v10' \in Nat
  <2> HIDE DEF m
  <2> QED BY <1>1, <1>2, <1>4 DEF Control!NextIv
<1>9. Control!GenuineNotStopped' /\ v15' \in BOOLEAN
  <2> HIDE DEF m
  <2> QED BY <1>1, <1>2, <1>4, <1>5, <1>6 DEF Control!ChainInv, Control!GenuineNotStopped
<1>10. \A i \in DOMAIN v12' : v12'[i].kind \in {"broken", "nested"} => v14'
  BY <1>2, <1>3 DEF Control!ChainInv
<1>11. ASSUME v1 = "plain"
       PROVE  /\ v10' = IF v12' = <<>> THEN v11' ELSE v12'[1].iv
              /\ \A i \in DOMAIN v12' :
                   Control!IvAfter(v12'[i]) = IF i = Len(v12') THEN v11' ELSE v12'[i + 1].iv
  <2> HIDE DEF m
  <2>1. \A i \in DOMAIN v12 :
          Control!IvAfter(v12[i]) = IF i = Len(v12) THEN v11 ELSE v12[i + 1].iv
    BY <1>11 DEF Control!ChainInv
  <2>2. v10' = IF 1 = Len(v12) THEN v11 ELSE v12[2].iv
    BY <1>3, <1>7, <1>11, <2>1
  <2>3. v12' = <<>> <=> Len(v12) = 1
    BY <1>3
  <2>4. v10' = IF v12' = <<>> THEN v11' ELSE v12'[1].iv
    <3>1. CASE Len(v12) = 1
      BY <1>2, <2>2, <2>3, <3>1
    <3>2. CASE Len(v12) # 1
      <4>1. 1 \in 1 .. Len(v12) - 1
        BY <1>3, <3>2
      <4>2. v12'[1] = v12[2]
        BY <1>3, <4>1
      <4> QED BY <2>2, <2>3, <3>2, <4>2
    <3> QED BY <3>1, <3>2
  <2>5. ASSUME NEW i \in DOMAIN v12'
        PROVE  Control!IvAfter(v12'[i]) = IF i = Len(v12') THEN v11' ELSE v12'[i + 1].iv
    <3>1. i + 1 \in DOMAIN v12 /\ v12'[i] = v12[i + 1] /\ (i = Len(v12') <=> i + 1 = Len(v12))
      BY <1>3, SMTT(40)
    <3>2. CASE i = Len(v12')
      BY <1>2, <2>1, <3>1, <3>2
    <3>3. CASE i # Len(v12')
      <4>1. i + 1 \in 1 .. Len(v12) - 1
        BY <1>3, <3>3
      <4>2. v12'[i + 1] = v12[(i + 1) + 1]
        BY <1>3, <4>1
      <4> QED BY <2>1, <3>1, <3>3, <4>2
    <3> QED BY <3>2, <3>3
  <2> QED BY <2>4, <2>5
<1> HIDE DEF m
<1> QED BY <1>1, <1>2, <1>3, <1>8, <1>9, <1>10, <1>11 DEF Control!ChainInv

\* No step of the session, the control thread or the client breaks the invariant.
LEMMA ControlInvStep == Control!ControlInv /\ [Control!Next]_(Control!controlVars) => Control!ControlInv'
<1> SUFFICES ASSUME Control!SetupInv, Control!IvInv, Control!ChainInv, [Control!Next]_(Control!controlVars)
    PROVE  Control!SetupInv' /\ Control!IvInv' /\ Control!ChainInv'
  BY DEF Control!ControlInv
<1> USE DEF Control!outVars, Control!inVars
<1>1. ASSUME NEW s \in {"v2", "old", "plain"}, Control!Announced(s)
      PROVE  Control!SetupInv' /\ Control!IvInv' /\ Control!ChainInv'
  <2>1. v1 = None /\ v1' = s /\ ~v2 /\ UNCHANGED <<v2, Control!outVars, Control!inVars>>
    BY <1>1 DEF Control!Announced, Control!SetupInv
  <2>2. v4 = 0 /\ v6 = None /\ v12 = <<>> /\ v10 = v11
    BY <2>1 DEF Control!SetupInv
  <2>3. Control!SetupInv'
    BY <2>1, <2>2 DEF Control!SetupInv
  <2>4. \A i \in 0 .. SeqSpan - 1 : v5[i] = 0
    BY <2>2 DEF Control!IvInv
  <2>5. Control!IvInv'
    BY <2>1, <2>2, <2>4 DEF Control!IvInv
  <2>6. Control!ChainInv'
    <3>1. DOMAIN v12 = {}
      BY <2>2
    <3> QED BY <2>1, <2>2, <3>1 DEF Control!ChainInv, Control!GenuineNotStopped
  <2> QED BY <2>3, <2>5, <2>6
<1>2. CASE Control!PeerConnects
  BY <1>2 DEF Control!PeerConnects, Control!SetupInv, Control!IvInv, Control!Span,
     Control!ChainInv, Control!IvAfter,
     Control!GenuineNotStopped
<1>3. ASSUME Control!EncodeControl, v2, UNCHANGED <<v1, v2, Control!inVars>>
      PROVE  Control!SetupInv' /\ Control!IvInv' /\ Control!ChainInv'
  <2>1. Control!IvInv'
    BY <1>3, SealKeepsSpacing
  <2>2. Control!SetupInv'
    BY <1>3 DEF Control!SetupInv
  <2>3. Control!ChainInv'
    BY <1>3 DEF Control!ChainInv, Control!GenuineNotStopped
  <2> QED BY <2>1, <2>2, <2>3
<1>4. CASE Control!SendFeedback
  BY <1>3, <1>4 DEF Control!SendFeedback
<1>5. CASE Control!SendHdrMode
  BY <1>3, <1>5 DEF Control!SendHdrMode, Control!MayTell
<1>6. ASSUME UNCHANGED <<v1, v2, v3, v4, v5, v6, Control!inVars>>
      PROVE  Control!SetupInv' /\ Control!IvInv' /\ Control!ChainInv'
  <2>1. Control!SetupInv'
    BY <1>6 DEF Control!SetupInv
  <2>2. Control!IvInv'
    BY <1>6 DEF Control!IvInv, Control!Span
  <2>3. Control!ChainInv'
    BY <1>6 DEF Control!ChainInv, Control!GenuineNotStopped
  <2> QED BY <2>1, <2>2, <2>3
<1>7. ASSUME NEW m \in BOOLEAN, Control!HdrRaised(m)
      PROVE  Control!SetupInv' /\ Control!IvInv' /\ Control!ChainInv'
  BY <1>6, <1>7 DEF Control!HdrRaised
<1>8. CASE Control!Receive
  <2>1. Control!ChainInv'
    BY <1>8, ReceiveKeepsChain
  <2>2. v2 /\ UNCHANGED <<v1, v2, v3, v4, v5, v6>>
    BY <1>8 DEF Control!Receive, Control!SetupInv
  <2> QED BY <2>1, <2>2 DEF Control!SetupInv, Control!IvInv, Control!Span
<1>9. ASSUME NEW k \in {"input", "other", "broken", "nested", "unsealed"}, NEW long \in BOOLEAN,
             Control!ClientSends(k, long)
      PROVE  Control!SetupInv' /\ Control!IvInv' /\ Control!ChainInv'
  <2>1. Control!ChainInv'
    BY <1>9, SendKeepsChain
  <2>2. v2 /\ UNCHANGED <<v1, v2, v3, v4, v5, v6>>
    BY <1>9 DEF Control!ClientSends
  <2> QED BY <2>1, <2>2 DEF Control!SetupInv, Control!IvInv, Control!Span
<1>10. CASE UNCHANGED Control!controlVars
  BY <1>6, <1>10 DEF Control!controlVars
<1> QED
  BY <1>1, <1>2, <1>4, <1>5, <1>7, <1>8, <1>9, <1>10
     DEF Control!Next, Control!Setup, Control!OutNext, Control!InNext

\* No answer is sealed with a number that the counter has passed.
LEMMA CounterStep == Rtsp!CounterInv /\ [Rtsp!Next]_(Rtsp!rtspVars) => Rtsp!CounterInv'
<1> SUFFICES ASSUME Rtsp!CounterInv, [Rtsp!Next]_(Rtsp!rtspVars) PROVE Rtsp!CounterInv'
  OBVIOUS
<1>1. ASSUME NEW status, Rtsp!Seal(status) PROVE Rtsp!CounterInv'
  <2>1. v7 \in Nat /\ v8 \subseteq 1 .. v7 /\ v9 = FALSE
    BY DEF Rtsp!CounterInv
  <2>2. CASE ~v1
    BY <1>1, <2>1, <2>2 DEF Rtsp!Seal, Rtsp!CounterInv
  <2>3. CASE v1
    <3>1. v7' = v7 + 1 /\ v8' = v8 \cup {v7'} /\ v9' = (v9 \/ v7' \in v8)
      BY <1>1, <2>3 DEF Rtsp!Seal
    <3>2. v7' \in Nat /\ v8' \subseteq 1 .. v7' /\ ~(v7' \in v8)
      BY <2>1, <3>1
    <3>3. v9' = FALSE
      BY <2>1, <3>1, <3>2
    <3> QED BY <3>2, <3>3 DEF Rtsp!CounterInv
  <2> QED BY <2>2, <2>3
<1>2. ASSUME UNCHANGED <<v7, v8, v9>> PROVE Rtsp!CounterInv'
  BY <1>2 DEF Rtsp!CounterInv
<1> USE DEF Rtsp!Refuse, Rtsp!Respond
<1>3. ASSUME NEW c \in BOOLEAN, NEW p \in {"never", "opportunistic", "mandatory"}, Rtsp!NewLaunch(c, p)
      PROVE  Rtsp!CounterInv'
  BY <1>2, <1>3 DEF Rtsp!NewLaunch
<1>4. ASSUME NEW m \in Rtsp!Message, Rtsp!Connect(m) PROVE Rtsp!CounterInv'
  BY <1>2, <1>4 DEF Rtsp!Connect
<1>5. ASSUME NEW n, Rtsp!ReadPlain(n) PROVE Rtsp!CounterInv'
  <2>1. Rtsp!Seal(400) \/ UNCHANGED <<v7, v8, v9>>
    BY <1>5 DEF Rtsp!ReadPlain
  <2> QED BY <1>1, <1>2, <2>1
<1>6. CASE Rtsp!ReadSealedHeader
  BY <1>1, <1>2, <1>6 DEF Rtsp!ReadSealedHeader
<1>7. ASSUME NEW valid \in BOOLEAN, Rtsp!ReadSealedMessage(valid) PROVE Rtsp!CounterInv'
  BY <1>1, <1>2, <1>7 DEF Rtsp!ReadSealedMessage
<1>8. CASE Rtsp!HangUp
  BY <1>2, <1>8 DEF Rtsp!HangUp
<1>9. ASSUME NEW status \in {200, 404}, Rtsp!Plain(status) PROVE Rtsp!CounterInv'
  BY <1>1, <1>9 DEF Rtsp!Plain
<1>10. CASE Rtsp!Describe
  BY <1>1, <1>10 DEF Rtsp!Describe
<1>11. ASSUME NEW f \in SUBSET Rtsp!Flags, NEW codec \in {"h264", "hevc"},
              NEW complete \in BOOLEAN, NEW starts \in BOOLEAN, Rtsp!Announce(f, codec, complete, starts)
       PROVE  Rtsp!CounterInv'
  <2>1. \E status : Rtsp!Seal(status)
    BY <1>11 DEF Rtsp!Announce
  <2> QED BY <1>1, <2>1
<1>12. CASE Rtsp!Reprobe
  BY <1>2, <1>12 DEF Rtsp!Reprobe
<1>13. CASE UNCHANGED Rtsp!rtspVars
  BY <1>2, <1>13 DEF Rtsp!rtspVars
<1>14. ASSUME Rtsp!Next PROVE Rtsp!CounterInv'
  <2>1. CASE \E c \in BOOLEAN, p \in {"never", "opportunistic", "mandatory"} : Rtsp!NewLaunch(c, p)
    BY <1>3, <2>1
  <2>2. CASE \E m \in Rtsp!Message : Rtsp!Connect(m)
    BY <1>4, <2>2
  <2>3. CASE \E n : Rtsp!ReadPlain(n)
    BY <1>5, <2>3
  <2>4. CASE \E valid \in BOOLEAN : Rtsp!ReadSealedMessage(valid)
    BY <1>7, <2>4
  <2>5. CASE \E status \in {200, 404} : Rtsp!Plain(status)
    BY <1>9, <2>5
  <2>6. CASE \E f \in SUBSET Rtsp!Flags, codec \in {"h264", "hevc"}, complete, starts \in BOOLEAN :
               Rtsp!Announce(f, codec, complete, starts)
    BY <1>11, <2>6
  <2> QED
    BY <1>6, <1>8, <1>10, <1>12, <1>14, <2>1, <2>2, <2>3, <2>4, <2>5, <2>6 DEF Rtsp!Next
<1> QED
  BY <1>13, <1>14

(***************************************************************************)
(* The idle host: the display and who has it reverted, the mappings of the *)
(* UPnP thread, and what the start of main leaves running.                 *)
(***************************************************************************)

\* clear() of the RTSP server leaves a session (v5), an application (v4) or a
\* revert (v8), if it joins a session at all.
LEMMA ClearHandsOver ==
  ASSUME Display!LaunchPlaces, NEW all \in BOOLEAN, Display!Clear(all)
  PROVE  /\ v5' \in Nat /\ v6' = 0
         /\ v4 = "none" => v4' = "none"
         /\ \/ v5' > 0 \/ v4' # "none" \/ v8' = "revert"
            \/ v5' = v5 /\ v4' = v4 /\ v8' = v8
BY DEF Display!LaunchPlaces, Display!Clear, Display!EndedJob, Display!Polled,
   Display!PolledJob

\* Every step leaves a changed display to somebody whose end reverts it.
LEMMA LaunchInvStep ==
  Display!LaunchInv /\ [Display!LaunchNext]_(Display!reqVars) => Display!LaunchInv'
<1> SUFFICES ASSUME Display!LaunchPlaces, Display!Changed => Display!Answered,
                    [Display!LaunchNext]_(Display!reqVars)
             PROVE  Display!LaunchPlaces' /\ (Display!Changed' => Display!Answered')
  BY DEF Display!LaunchInv
<1>1. ASSUME NEW op \in {"launch", "resume"}, NEW a \in BOOLEAN,
             Display!Enter([op |-> op, appid |-> a])
      PROVE  Display!LaunchPlaces' /\ (Display!Changed' => Display!Answered')
  <2>1. /\ v1 = "idle" /\ v2' = [op |-> op, appid |-> a] /\ v3' = FALSE
        /\ v4' = Display!Polled /\ v8' = Display!PolledJob(v8)
        /\ v1' \in {"count", "idle"}
        /\ v1' = "count" => (op = "launch" <=> v4' = "none")
        /\ v5' = v5 /\ v6' = v6 /\ v9' = v9 /\ v10' = v10
    BY <1>1 DEF Display!Enter
  <2>2. Display!LaunchPlaces'
    BY <2>1 DEF Display!LaunchPlaces
  <2>3. Display!Changed' => Display!Answered'
    BY <2>1 DEF Display!Changed, Display!Answered, Display!Polled, Display!PolledJob
  <2> QED
    BY <2>2, <2>3
<1>2. CASE Display!Count
  <2>1. /\ v5' \in Nat /\ v6' = 0
        /\ v4 = "none" => v4' = "none"
        /\ \/ v5' > 0 \/ v4' # "none" \/ v8' = "revert"
           \/ v5' = v5 /\ v4' = v4 /\ v8' = v8
    BY <1>2, ClearHandsOver DEF Display!Count
  <2>2. Display!LaunchPlaces'
    BY <1>2, <2>1 DEF Display!Count, Display!LaunchPlaces
  <2>3. Display!Changed' => Display!Answered'
    BY <1>2, <2>1 DEF Display!Count, Display!Changed, Display!Answered
  <2> QED
    BY <2>2, <2>3
<1>3. CASE Display!CancelClear
  <2>1. /\ v5' \in Nat /\ v6' = 0
        /\ v4 = "none" => v4' = "none"
        /\ \/ v5' > 0 \/ v4' # "none" \/ v8' = "revert"
           \/ v5' = v5 /\ v4' = v4 /\ v8' = v8
    BY <1>3, ClearHandsOver DEF Display!CancelClear
  <2>2. Display!LaunchPlaces'
    BY <1>3, <2>1 DEF Display!CancelClear, Display!LaunchPlaces
  <2>3. Display!Changed' => Display!Answered'
    BY <1>3, <2>1 DEF Display!CancelClear, Display!Changed, Display!Answered
  <2> QED
    BY <2>2, <2>3
<1>4. CASE Display!RtspClear
  <2>1. /\ v5' \in Nat /\ v6' = 0
        /\ v4 = "none" => v4' = "none"
        /\ \/ v5' > 0 \/ v4' # "none" \/ v8' = "revert"
           \/ v5' = v5 /\ v4' = v4 /\ v8' = v8
    BY <1>4, ClearHandsOver DEF Display!RtspClear
  <2>2. Display!LaunchPlaces'
    BY <1>4, <2>1 DEF Display!RtspClear, Display!LaunchPlaces
  <2>3. Display!Changed' => Display!Answered'
    BY <1>4, <2>1 DEF Display!RtspClear, Display!Changed, Display!Answered
  <2> QED
    BY <2>2, <2>3
<1>5. CASE Display!Configure
  <2>1. Display!LaunchPlaces'
    BY <1>5 DEF Display!Configure, Display!Configured, Display!LaunchPlaces
  <2>2. Display!Changed' => Display!Answered'
    BY <1>5 DEF Display!Configure, Display!Configured, Display!Changed, Display!Answered,
       Display!LaunchPlaces
  <2> QED
    BY <2>1, <2>2
<1>6. CASE Display!Probe
  <2>1. Display!LaunchPlaces'
    BY <1>6 DEF Display!Probe, Display!Check, Display!Fail, Display!LaunchPlaces
  <2>2. Display!Changed' => Display!Answered'
    BY <1>6 DEF Display!Probe, Display!Check, Display!Fail, Display!Changed,
       Display!Answered, Display!LaunchPlaces
  <2> QED
    BY <2>1, <2>2
<1>7. CASE Display!Encrypt
  <2>1. Display!LaunchPlaces'
    BY <1>7 DEF Display!Encrypt, Display!Check, Display!Fail, Display!LaunchPlaces
  <2>2. Display!Changed' => Display!Answered'
    BY <1>7 DEF Display!Encrypt, Display!Check, Display!Fail, Display!Changed,
       Display!Answered, Display!LaunchPlaces
  <2> QED
    BY <2>1, <2>2
<1>8. CASE Display!Execute
  <2>1. Display!LaunchPlaces'
    BY <1>8 DEF Display!Execute, Display!Fail, Display!LaunchPlaces
  <2>2. Display!Changed' => Display!Answered'
    BY <1>8 DEF Display!Execute, Display!Fail, Display!Changed, Display!Answered,
       Display!LaunchPlaces
  <2> QED
    BY <2>1, <2>2
<1>9. CASE Display!Raise
  <2>1. Display!LaunchPlaces'
    BY <1>9 DEF Display!Raise, Display!LaunchPlaces
  <2>2. Display!Changed' => Display!Answered'
    BY <1>9 DEF Display!Raise, Display!Changed, Display!Answered, Display!LaunchPlaces
  <2> QED
    BY <2>1, <2>2
<1>10. CASE Display!CancelRevert
  <2>1. Display!LaunchPlaces'
    BY <1>10 DEF Display!CancelRevert, Display!LaunchPlaces
  <2>2. Display!Changed' => Display!Answered'
    BY <1>10 DEF Display!CancelRevert, Display!Changed, Display!Answered,
       Display!LaunchPlaces
  <2> QED
    BY <2>1, <2>2
<1>11. CASE Display!SessionStart
  <2>1. Display!LaunchPlaces'
    <3>1. v5' = v5 + 1 /\ v6' = v6 /\ v10' = FALSE /\ UNCHANGED <<v1, v2, v3, v4>>
      BY <1>11 DEF Display!SessionStart
    <3>2. v5' \in Nat /\ v6' \in Nat /\ v6' <= v5'
      BY <3>1 DEF Display!LaunchPlaces
    <3> QED
      BY <3>1, <3>2 DEF Display!LaunchPlaces
  <2>2. Display!Changed' => Display!Answered'
    BY <1>11 DEF Display!SessionStart, Display!Changed, Display!Answered,
       Display!LaunchPlaces
  <2> QED
    BY <2>1, <2>2
<1>12. CASE Display!PendingExpires
  <2>1. Display!LaunchPlaces'
    BY <1>12 DEF Display!PendingExpires, Display!LaunchPlaces
  <2>2. Display!Changed' => Display!Answered'
    BY <1>12 DEF Display!PendingExpires, Display!Changed, Display!Answered,
       Display!LaunchPlaces
  <2> QED
    BY <2>1, <2>2
<1>13. CASE Display!SessionStops
  <2>1. Display!LaunchPlaces'
    BY <1>13 DEF Display!SessionStops, Display!LaunchPlaces
  <2>2. Display!Changed' => Display!Answered'
    BY <1>13 DEF Display!SessionStops, Display!Changed, Display!Answered,
       Display!LaunchPlaces
  <2> QED
    BY <2>1, <2>2
<1>14. CASE Display!AppExits
  <2>1. Display!LaunchPlaces'
    BY <1>14 DEF Display!AppExits, Display!LaunchPlaces
  <2>2. Display!Changed' => Display!Answered'
    BY <1>14 DEF Display!AppExits, Display!Changed, Display!Answered, Display!LaunchPlaces
  <2> QED
    BY <2>1, <2>2
<1>15. CASE Display!PollApp
  <2>1. Display!LaunchPlaces'
    BY <1>15 DEF Display!PollApp, Display!LaunchPlaces
  <2>2. Display!Changed' => Display!Answered'
    BY <1>15 DEF Display!PollApp, Display!Changed, Display!Answered, Display!LaunchPlaces
  <2> QED
    BY <2>1, <2>2
<1>16. CASE Display!JobDone
  <2>1. Display!LaunchPlaces'
    BY <1>16 DEF Display!JobDone, Display!LaunchPlaces
  <2>2. Display!Changed' => Display!Answered'
    BY <1>16 DEF Display!JobDone, Display!Changed, Display!Answered, Display!LaunchPlaces
  <2> QED
    BY <2>1, <2>2
<1>17. CASE Display!ApplyFails
  <2>1. Display!LaunchPlaces'
    BY <1>17 DEF Display!ApplyFails, Display!LaunchPlaces
  <2>2. Display!Changed' => Display!Answered'
    BY <1>17 DEF Display!ApplyFails, Display!Changed, Display!Answered, Display!LaunchPlaces
  <2> QED
    BY <2>1, <2>2
<1>18. CASE UNCHANGED Display!reqVars
  BY <1>18 DEF Display!reqVars, Display!LaunchPlaces, Display!Changed, Display!Answered
<1> QED
  BY <1>1, <1>2, <1>3, <1>4, <1>5, <1>6, <1>7, <1>8, <1>9, <1>10, <1>11, <1>12, <1>13,
     <1>14, <1>15, <1>16, <1>17, <1>18
     DEF Display!LaunchNext, Display!Https

\* What the UPnP thread has deleted stays deleted.
LEMMA PortInvStep ==
  Ports!PortInv /\ [Ports!Next]_(Ports!mapVars) => Ports!PortInv'
<1> SUFFICES ASSUME Ports!PortInv, [Ports!Next]_(Ports!mapVars)
             PROVE  Ports!PortInv'
  OBVIOUS
<1> USE DEF Ports!PortInv, Ports!Router
<1>1. CASE Ports!Discover \/ Ports!RoundEnd \/ Ports!UnmapEnd \/ Ports!Shutdown
  BY <1>1 DEF Ports!Discover, Ports!RoundEnd, Ports!UnmapEnd, Ports!Shutdown
<1>2. CASE Ports!WaitEnd
  BY <1>2 DEF Ports!WaitEnd
<1>3. CASE Ports!Fault
  BY <1>3 DEF Ports!Fault
<1>4. ASSUME NEW p \in Ports!Mappings, Ports!MapPort(p)
      PROVE  Ports!PortInv'
  BY <1>4 DEF Ports!MapPort
<1>5. ASSUME NEW p \in Ports!Mappings, Ports!Unmap(p)
      PROVE  Ports!PortInv'
  BY <1>5 DEF Ports!Unmap
<1>6. CASE UNCHANGED Ports!mapVars
  BY <1>6 DEF Ports!mapVars
<1> QED
  BY <1>1, <1>2, <1>3, <1>4, <1>5, <1>6 DEF Ports!Next

\* A start in the background is waited for before its target goes.
LEMMA StartsStep ==
  Life!StartsHaveATarget /\ [Life!Next]_(Life!lifeVars) => Life!StartsHaveATarget'
<1> SUFFICES ASSUME Life!StartsHaveATarget, [Life!Next]_(Life!lifeVars)
             PROVE  Life!StartsHaveATarget'
  OBVIOUS
<1> USE DEF Life!StartsHaveATarget, Life!MainStep, Life!MainKeeps, Life!mainVars
<1>1. CASE \/ \E c \in Caller, code \in Code : Life!ExitSunshine(c, code)
           \/ \E c \in Caller : Life!Handler(c)
  BY <1>1 DEF Life!ExitSunshine, Life!Handler
<1>2. CASE Life!OthersRun
  BY <1>2 DEF Life!OthersRun, Life!Started, Life!ServerEnds, Life!ForceShutdown
<1>3. CASE Life!MainRuns
  BY <1>3 DEF Life!MainRuns, Life!HttpFails, Life!SleepEnds, Life!StartPublishing,
     Life!PeekShutdown, Life!MainLoop, Life!Join, Life!Return, Life!InitTray, Life!Unwind,
     Life!Waited
<1>4. CASE UNCHANGED Life!lifeVars
  BY <1>4 DEF Life!lifeVars
<1> QED
  BY <1>1, <1>2, <1>3, <1>4 DEF Life!Next

(***************************************************************************)
(* Ping routing: first what the announcements make of the routes, whatever *)
(* their number, then the sessions and the receiving thread.               *)
(***************************************************************************)

\* A non-empty set of naturals has a least element: this is how what holds for
\* every prefix of a sequence is shown, the least prefix without it being absurd.
LEMMA LeastNat ==
  ASSUME NEW S \in SUBSET Nat, S # {}
  PROVE  \E x \in S : \A y \in S : x <= y
<1>1. PICK x \in S : \A y \in S : ~(<<y, x>> \in OpToRel(<, Nat))
  BY NatLessThanWellFounded, WFMin
<1>2. \A y \in S : ~(y < x)
  BY <1>1 DEF OpToRel
<1> QED
  BY <1>2

\* The announcements applied one after the other: the function that defines
\* Applied exists.
LEMMA AppliedUnfolds ==
  ASSUME NEW m, NEW T, NEW rs \in Seq(T)
  PROVE  \E f : /\ f = [n \in 0 .. Len(rs) |->
                         IF n = 0 THEN m ELSE Pings!Apply(f[n - 1], rs[n])]
                /\ Pings!Applied(m, rs) = f[Len(rs)]
<1> DEFINE P(f, l) == f = [n \in 0 .. l |-> IF n = 0 THEN m ELSE Pings!Apply(f[n - 1], rs[n])]
           S == {l \in Nat : ~ \E f : P(f, l)}
<1>1. S = {}
  <2> SUFFICES ASSUME S # {} PROVE FALSE
    OBVIOUS
  <2>1. PICK l \in S : \A y \in S : l <= y
    BY LeastNat
  <2>2. P([n \in 0 .. 0 |-> m], 0)
    OBVIOUS
  <2>3. l # 0 /\ l \in Nat
    BY <2>1, <2>2
  <2>4. l - 1 \in Nat /\ l - 1 \notin S
    <3> HIDE DEF S
    <3> QED
      BY <2>1, <2>3
  <2>5. PICK f : P(f, l - 1)
    BY <2>4
  <2> DEFINE g == [n \in 0 .. l |-> IF n = l THEN Pings!Apply(f[l - 1], rs[l]) ELSE f[n]]
  <2>6. \A n \in 0 .. l : g[n] = IF n = 0 THEN m ELSE Pings!Apply(g[n - 1], rs[n])
    BY <2>3, <2>4, <2>5
  <2>7. P(g, l)
    BY <2>6
  <2> QED
    BY <2>1, <2>7
<1>2. Len(rs) \in Nat
  OBVIOUS
<1>3. \E f : P(f, Len(rs))
  BY <1>1, <1>2
<1> QED
  BY <1>3 DEF Pings!Applied

LEMMA AppliedToNone ==
  ASSUME NEW m PROVE Pings!Applied(m, <<>>) = m
<1> DEFINE rs == <<>>
<1>1. rs \in Seq({}) /\ Len(rs) = 0
  OBVIOUS
<1> HIDE DEF rs
<1>2. PICK f : /\ f = [n \in 0 .. Len(rs) |->
                         IF n = 0 THEN m ELSE Pings!Apply(f[n - 1], rs[n])]
               /\ Pings!Applied(m, rs) = f[Len(rs)]
  BY <1>1, AppliedUnfolds
<1>3. Pings!Applied(m, rs) = m
  BY <1>1, <1>2
<1> QED
  BY <1>3 DEF rs

LEMMA AppliedToAppend ==
  ASSUME NEW m, NEW T, NEW rs \in Seq(T), NEW r \in T
  PROVE  Pings!Applied(m, Append(rs, r)) = Pings!Apply(Pings!Applied(m, rs), r)
<1> DEFINE qs == Append(rs, r)
<1>1. qs \in Seq(T) /\ Len(qs) = Len(rs) + 1 /\ Len(rs) \in Nat /\ qs[Len(rs) + 1] = r
      /\ \A i \in 1 .. Len(rs) : qs[i] = rs[i]
  OBVIOUS
<1> HIDE DEF qs
<1>2. PICK f : /\ f = [n \in 0 .. Len(rs) |-> IF n = 0 THEN m ELSE Pings!Apply(f[n - 1], rs[n])]
               /\ Pings!Applied(m, rs) = f[Len(rs)]
  BY AppliedUnfolds
<1>3. PICK g : /\ g = [n \in 0 .. Len(qs) |-> IF n = 0 THEN m ELSE Pings!Apply(g[n - 1], qs[n])]
               /\ Pings!Applied(m, qs) = g[Len(qs)]
  BY <1>1, AppliedUnfolds
<1> DEFINE S == {n \in 0 .. Len(rs) : f[n] # g[n]}
<1>4. S = {}
  <2> SUFFICES ASSUME S # {} PROVE FALSE
    OBVIOUS
  <2>1. S \in SUBSET Nat
    OBVIOUS
  <2>2. PICK n \in S : \A y \in S : n <= y
    <3> HIDE DEF S
    <3> QED
      BY <2>1, LeastNat
  <2>3. CASE n = 0
    BY <1>1, <1>2, <1>3, <2>2, <2>3
  <2>4. CASE n # 0
    <3>1. n \in 0 .. Len(rs)
      BY <2>2
    <3>2. n \in 0 .. Len(rs) /\ n - 1 \in 0 .. Len(rs) /\ n - 1 \notin S
      <4> HIDE DEF S
      <4> QED
        BY <1>1, <2>2, <2>4, <3>1
    <3>3. f[n - 1] = g[n - 1] /\ qs[n] = rs[n]
      BY <1>1, <2>4, <3>2
    <3>4. f[n] = Pings!Apply(f[n - 1], rs[n])
      BY <1>2, <2>4, <3>2
    <3>5. g[n] = Pings!Apply(g[n - 1], qs[n])
      <4>1. n \in 0 .. Len(qs)
        BY <1>1, <3>2
      <4> QED
        BY <1>3, <2>4, <4>1
    <3> QED
      BY <2>2, <3>3, <3>4, <3>5
  <2> QED
    BY <2>3, <2>4
<1>5. f[Len(rs)] = g[Len(rs)]
  BY <1>1, <1>4
<1>6. g[Len(qs)] = Pings!Apply(g[Len(rs)], qs[Len(rs) + 1])
  <2>1. Len(qs) \in 0 .. Len(qs) /\ Len(qs) # 0 /\ Len(qs) - 1 = Len(rs)
    BY <1>1
  <2> QED
    BY <1>1, <1>3, <2>1
<1>7. Pings!Applied(m, qs) = Pings!Apply(Pings!Applied(m, rs), r)
  BY <1>1, <1>2, <1>3, <1>5, <1>6
<1> QED
  BY <1>7 DEF qs

\* emplace leaves an entry alone, erase removes it.
LEMMA ApplyMoves ==
  ASSUME NEW m, NEW r
  PROVE  /\ r[2] = None =>
              /\ DOMAIN Pings!Apply(m, r) = DOMAIN m \ {r[1]}
              /\ \A k \in DOMAIN m \ {r[1]} : Pings!Apply(m, r)[k] = m[k]
         /\ r[2] # None =>
              /\ DOMAIN Pings!Apply(m, r) = DOMAIN m \cup {r[1]}
              /\ \A k \in DOMAIN m : Pings!Apply(m, r)[k] = m[k]
              /\ r[1] \notin DOMAIN m => Pings!Apply(m, r)[r[1]] = r[2]
BY DEF Pings!Apply, Pings!Restrict

\* Where a route comes from: it was there and is not erased, or it was announced
\* and not erased afterwards.
Origin(m, rs, k, q) ==
  \/ /\ k \in DOMAIN m /\ q = m[k]
     /\ \A j \in DOMAIN rs : rs[j] # <<k, None>>
  \/ \E i \in DOMAIN rs :
       /\ rs[i] = <<k, q>> /\ rs[i][2] # None
       /\ \A j \in DOMAIN rs : j > i => rs[j] # <<k, None>>

LEMMA RouteOrigin ==
  ASSUME NEW m, NEW K, NEW Q, NEW rs \in Seq(K \X Q), NEW k \in DOMAIN Pings!Applied(m, rs)
  PROVE  Origin(m, rs, k, Pings!Applied(m, rs)[k])
<1>1. PICK f : /\ f = [n \in 0 .. Len(rs) |-> IF n = 0 THEN m ELSE Pings!Apply(f[n - 1], rs[n])]
               /\ Pings!Applied(m, rs) = f[Len(rs)]
  BY AppliedUnfolds
<1>2. Len(rs) \in Nat /\ DOMAIN rs = 1 .. Len(rs)
  OBVIOUS
<1> DEFINE Old(n) == /\ k \in DOMAIN m /\ f[n][k] = m[k]
                     /\ \A j \in 1 .. n : rs[j] # <<k, None>>
           New(n) == \E i \in 1 .. n :
                       /\ rs[i] = <<k, f[n][k]>> /\ rs[i][2] # None
                       /\ \A j \in 1 .. n : j > i => rs[j] # <<k, None>>
           S == {n \in 0 .. Len(rs) : k \in DOMAIN f[n] /\ ~Old(n) /\ ~New(n)}
<1>3. S = {}
  <2> SUFFICES ASSUME S # {} PROVE FALSE
    OBVIOUS
  <2>1. S \in SUBSET Nat
    OBVIOUS
  <2>2. PICK n \in S : \A y \in S : n <= y
    <3> HIDE DEF S
    <3> QED
      BY <2>1, LeastNat
  <2>3. n # 0
    BY <1>1, <1>2, <2>2
  <2>4. n \in 0 .. Len(rs)
    BY <2>2
  <2>5. n \in 1 .. Len(rs) /\ n - 1 \in 0 .. Len(rs) /\ n - 1 \notin S
    <3> HIDE DEF S
    <3> QED
      BY <1>2, <2>2, <2>3, <2>4
  <2>6. f[n] = Pings!Apply(f[n - 1], rs[n])
    BY <1>1, <2>3, <2>5
  <2>7. rs[n] \in K \X Q /\ rs[n] = <<rs[n][1], rs[n][2]>>
    BY <2>5
  <2>8. /\ rs[n][2] = None =>
             /\ DOMAIN f[n] = DOMAIN f[n - 1] \ {rs[n][1]}
             /\ \A x \in DOMAIN f[n - 1] \ {rs[n][1]} : f[n][x] = f[n - 1][x]
        /\ rs[n][2] # None =>
             /\ DOMAIN f[n] = DOMAIN f[n - 1] \cup {rs[n][1]}
             /\ \A x \in DOMAIN f[n - 1] : f[n][x] = f[n - 1][x]
             /\ rs[n][1] \notin DOMAIN f[n - 1] => f[n][rs[n][1]] = rs[n][2]
    <3> DEFINE a == f[n - 1]
               r == rs[n]
    <3> HIDE DEF S, Old, New, a, r
    <3>1. f[n] = Pings!Apply(a, r)
      BY <2>6 DEF a, r
    <3>2. /\ r[2] = None =>
               /\ DOMAIN Pings!Apply(a, r) = DOMAIN a \ {r[1]}
               /\ \A x \in DOMAIN a \ {r[1]} : Pings!Apply(a, r)[x] = a[x]
          /\ r[2] # None =>
               /\ DOMAIN Pings!Apply(a, r) = DOMAIN a \cup {r[1]}
               /\ \A x \in DOMAIN a : Pings!Apply(a, r)[x] = a[x]
               /\ r[1] \notin DOMAIN a => Pings!Apply(a, r)[r[1]] = r[2]
      BY ApplyMoves
    <3> QED
      BY <3>1, <3>2 DEF a, r
  <2>9. CASE k \in DOMAIN f[n - 1] /\ rs[n] # <<k, None>>
    <3>1. k \in DOMAIN f[n]
      BY <2>2
    <3>2. f[n][k] = f[n - 1][k]
      <4> HIDE DEF S, Old, New
      <4>1. CASE rs[n][2] = None
        BY <2>8, <2>9, <3>1, <4>1
      <4>2. CASE rs[n][2] # None
        BY <2>8, <2>9, <4>2
      <4> QED
        BY <4>1, <4>2
    <3>3. Old(n - 1) \/ New(n - 1)
      BY <2>5, <2>9
    <3>4. \A j \in 1 .. n : j = n \/ j \in 1 .. n - 1
      BY <2>5
    <3>5. Old(n - 1) => Old(n)
      BY <2>9, <3>2, <3>4
    <3>6. New(n - 1) => New(n)
      <4> SUFFICES ASSUME NEW i \in 1 .. n - 1, rs[i] = <<k, f[n - 1][k]>>, rs[i][2] # None,
                          \A j \in 1 .. n - 1 : j > i => rs[j] # <<k, None>>
                   PROVE  New(n)
        OBVIOUS
      <4>1. i \in 1 .. n
        BY <2>5
      <4> QED
        BY <2>9, <3>2, <3>4, <4>1
    <3> QED
      BY <2>2, <3>3, <3>5, <3>6
  <2>10. CASE k \notin DOMAIN f[n - 1]
    <3>1. k \in DOMAIN f[n]
      BY <2>2
    <3>2. rs[n][2] # None /\ k = rs[n][1] /\ f[n][k] = rs[n][2]
      <4> HIDE DEF S, Old, New
      <4> QED
        BY <2>8, <2>10, <3>1
    <3>3. New(n)
      BY <2>5, <2>7, <3>2
    <3> QED
      BY <2>2, <3>3
  <2>11. CASE rs[n] = <<k, None>>
    <3>1. k \in DOMAIN f[n]
      BY <2>2
    <3>2. rs[n][1] = k /\ rs[n][2] = None
      BY <2>11
    <3> HIDE DEF S, Old, New
    <3> QED
      BY <2>8, <3>1, <3>2
  <2> QED
    BY <2>9, <2>10, <2>11
<1>4. Old(Len(rs)) \/ New(Len(rs))
  <2>1. Len(rs) \in 0 .. Len(rs) /\ k \in DOMAIN f[Len(rs)]
    BY <1>1, <1>2
  <2> HIDE DEF Old, New
  <2> QED
    BY <1>3, <2>1
<1> QED
  BY <1>1, <1>2, <1>4 DEF Origin

\* qs is rs with announcements of the keys in ks behind it, all with owner q.
Behind(rs, qs, ks, q) ==
  /\ Len(rs) \in Nat /\ Len(qs) \in Nat /\ Len(rs) <= Len(qs)
  /\ \A i \in 1 .. Len(rs) : qs[i] = rs[i]
  /\ \A i \in 1 .. Len(qs) : i > Len(rs) => qs[i][1] \in ks /\ qs[i][2] = q
  /\ \A k \in ks : \E j \in 1 .. Len(qs) : j > Len(rs) /\ qs[j] = <<k, q>>

LEMMA BehindTwo ==
  ASSUME NEW rs, NEW ps, NEW qs, NEW as, NEW bs, NEW q,
         Behind(rs, ps, as, q), Behind(ps, qs, bs, q)
  PROVE  Behind(rs, qs, as \cup bs, q)
<1> USE DEF Behind
<1>1. /\ Len(rs) \in Nat /\ Len(ps) \in Nat /\ Len(qs) \in Nat
      /\ Len(rs) <= Len(ps) /\ Len(ps) <= Len(qs) /\ Len(rs) <= Len(qs)
  OBVIOUS
<1>2. \A i \in 1 .. Len(rs) : i \in 1 .. Len(ps) /\ qs[i] = rs[i]
  BY <1>1
<1>3. ASSUME NEW i \in 1 .. Len(qs), i > Len(rs)
      PROVE  qs[i][1] \in as \cup bs /\ qs[i][2] = q
  <2>1. CASE i > Len(ps)
    <3>1. qs[i][1] \in bs /\ qs[i][2] = q
      BY <2>1
    <3> QED
      BY <3>1
  <2>2. CASE i <= Len(ps)
    <3>1. i \in 1 .. Len(ps) /\ qs[i] = ps[i]
      BY <1>1, <1>3, <2>2
    <3>2. ps[i][1] \in as /\ ps[i][2] = q
      BY <1>3, <3>1
    <3> QED
      BY <3>1, <3>2
  <2>3. i > Len(ps) \/ i <= Len(ps)
    BY <1>1
  <2> HIDE DEF Behind
  <2> QED
    BY <2>1, <2>2, <2>3
<1>4. ASSUME NEW k \in as
      PROVE  \E j \in 1 .. Len(qs) : j > Len(rs) /\ qs[j] = <<k, q>>
  <2>1. PICK j \in 1 .. Len(ps) : j > Len(rs) /\ ps[j] = <<k, q>>
    BY <1>4
  <2> QED
    BY <1>1, <2>1
<1>5. ASSUME NEW k \in bs
      PROVE  \E j \in 1 .. Len(qs) : j > Len(rs) /\ qs[j] = <<k, q>>
  <2>1. PICK j \in 1 .. Len(qs) : j > Len(ps) /\ qs[j] = <<k, q>>
    BY <1>5
  <2> QED
    BY <1>1, <2>1
<1> QED
  BY <1>1, <1>2, <1>3, <1>4, <1>5

\* The routes old and new differ at k only: q = None erases it, and another q
\* is where it leads unless it leads somewhere already.
RoutedTo(old, new, k, q) ==
  /\ \A x : x # k => (x \in DOMAIN new <=> x \in DOMAIN old)
  /\ \A x \in DOMAIN old : x # k => new[x] = old[x]
  /\ q = None => k \notin DOMAIN new
  /\ q # None => k \in DOMAIN new
  /\ q # None /\ k \notin DOMAIN old => new[k] = q

\* k leads to the same owner in both, or in both to none.
RoutedAlike(old, new, k) ==
  /\ k \in DOMAIN new <=> k \in DOMAIN old
  /\ k \in DOMAIN old => new[k] = old[k]

LEMMA AnnounceOne ==
  ASSUME NEW m, NEW K, NEW Q, NEW rs \in Seq(K \X Q), NEW k \in K, NEW q \in Q
  PROVE  /\ Append(rs, <<k, q>>) \in Seq(K \X Q)
         /\ Behind(rs, Append(rs, <<k, q>>), {k}, q)
         /\ RoutedTo(Pings!Applied(m, rs), Pings!Applied(m, Append(rs, <<k, q>>)), k, q)
<1> DEFINE qs == Append(rs, <<k, q>>)
           old == Pings!Applied(m, rs)
           new == Pings!Applied(m, qs)
           r == <<k, q>>
<1>1. qs \in Seq(K \X Q) /\ Behind(rs, qs, {k}, q)
  BY DEF Behind
<1>2. r \in K \X Q /\ r[1] = k /\ r[2] = q
  OBVIOUS
<1>3. new = Pings!Apply(old, r)
  BY <1>2, AppliedToAppend
<1>4. /\ r[2] = None =>
           /\ DOMAIN Pings!Apply(old, r) = DOMAIN old \ {r[1]}
           /\ \A x \in DOMAIN old \ {r[1]} : Pings!Apply(old, r)[x] = old[x]
      /\ r[2] # None =>
           /\ DOMAIN Pings!Apply(old, r) = DOMAIN old \cup {r[1]}
           /\ \A x \in DOMAIN old : Pings!Apply(old, r)[x] = old[x]
           /\ r[1] \notin DOMAIN old => Pings!Apply(old, r)[r[1]] = r[2]
  <2> HIDE DEF old, r
  <2> QED
    BY ApplyMoves
<1>5. RoutedTo(old, new, k, q)
  <2> HIDE DEF old, new, r
  <2> QED
    BY <1>2, <1>3, <1>4 DEF RoutedTo
<1> QED
  BY <1>1, <1>5

AllKeys == UNION {Pings!Keys(c) : c \in Client}
Owner == Client \cup {None}

\* What a session announces goes to the end of the queue (v1) and concerns its
\* own keys: no other session's payload leads elsewhere for it.
LEMMA AnnounceStep ==
  ASSUME v1 \in Seq(AllKeys \X Owner), NEW c \in Client, NEW q \in Owner,
         v1' = v1 \o Pings!Announce(c, q), v2' = v2
  PROVE  /\ v1' \in Seq(AllKeys \X Owner)
         /\ Behind(v1, v1', Pings!Keys(c), q)
         /\ \A d \in Client \ {c} :
              RoutedAlike(Pings!Populate, Pings!Populate', Pings!IdKey(d))
         /\ q = None => Pings!IdKey(c) \notin DOMAIN Pings!Populate'
         /\ q # None /\ Pings!IdKey(c) \notin DOMAIN Pings!Populate =>
              Pings!IdKey(c) \in DOMAIN Pings!Populate' /\ Pings!Populate'[Pings!IdKey(c)] = q
<1> DEFINE id == Pings!IdKey(c)
           addr == Pings!AddrKey(c)
<1>1. id \in Pings!Keys(c) /\ Pings!Keys(c) \subseteq AllKeys
  BY DEF AllKeys, Pings!Keys
<1>2. /\ addr # id
      /\ \A d \in Client \ {c} : Pings!IdKey(d) # addr /\ Pings!IdKey(d) # id
  BY DEF Pings!IdKey, Pings!AddrKey
<1> DEFINE mid == IF c \in Legacy THEN Append(v1, <<addr, q>>) ELSE v1
           old == Pings!Applied(v2, v1)
           half == Pings!Applied(v2, mid)
           new == Pings!Applied(v2, v1')
<1>3. v1' = Append(mid, <<id, q>>)
  <2>1. c \in Legacy => <<addr, q>> \in AllKeys \X Owner
    <3>1. c \in Legacy => addr \in Pings!Keys(c)
      BY DEF Pings!Keys
    <3> HIDE DEF addr
    <3> QED
      BY <1>1, <3>1
  <2>2. <<id, q>> \in AllKeys \X Owner
    BY <1>1
  <2> DEFINE a == <<addr, q>>
             b == <<id, q>>
  <2>3. v1' = v1 \o ((IF c \in Legacy THEN <<a>> ELSE <<>>) \o <<b>>)
    BY DEF Pings!Announce
  <2>4. mid = IF c \in Legacy THEN Append(v1, a) ELSE v1
    OBVIOUS
  <2> HIDE DEF a, b, mid
  <2>5. CASE c \in Legacy
    <3>1. a \in AllKeys \X Owner /\ b \in AllKeys \X Owner
      BY <2>1, <2>2, <2>5 DEF a, b
    <3>2. v1 \o (<<a>> \o <<b>>) = Append(Append(v1, a), b)
      BY <3>1
    <3>3. v1' = v1 \o (<<a>> \o <<b>>) /\ mid = Append(v1, a)
      BY <2>3, <2>4, <2>5
    <3> QED
      BY <3>2, <3>3 DEF b
  <2>6. CASE c \notin Legacy
    <3>1. b \in AllKeys \X Owner
      BY <2>2 DEF b
    <3>2. v1 \o (<<>> \o <<b>>) = Append(v1, b)
      BY <3>1
    <3>3. v1' = v1 \o (<<>> \o <<b>>) /\ mid = v1
      BY <2>3, <2>4, <2>6
    <3> QED
      BY <3>2, <3>3 DEF b
  <2> QED
    BY <2>5, <2>6
<1>4. old = Pings!Populate /\ new = Pings!Populate'
  BY DEF Pings!Populate
<1>5. /\ mid \in Seq(AllKeys \X Owner)
      /\ IF c \in Legacy THEN Behind(v1, mid, {addr}, q) /\ RoutedTo(old, half, addr, q)
         ELSE mid = v1 /\ half = old
  <2>1. CASE c \in Legacy
    <3>1. addr \in AllKeys
      BY <2>1 DEF AllKeys, Pings!Keys
    <3> HIDE DEF addr
    <3> QED
      BY <2>1, <3>1, AnnounceOne
  <2> QED
    BY <2>1
<1>6. /\ v1' \in Seq(AllKeys \X Owner) /\ Behind(mid, v1', {id}, q)
      /\ RoutedTo(half, new, id, q)
  <2>1. id \in AllKeys
    BY <1>1
  <2> HIDE DEF mid, id
  <2>2. /\ Append(mid, <<id, q>>) \in Seq(AllKeys \X Owner)
        /\ Behind(mid, Append(mid, <<id, q>>), {id}, q)
        /\ RoutedTo(half, Pings!Applied(v2, Append(mid, <<id, q>>)), id, q)
    BY <1>5, <2>1, AnnounceOne
  <2> QED
    BY <1>3, <2>2
<1>7. Behind(v1, v1', Pings!Keys(c), q)
  <2>1. CASE c \in Legacy
    <3>1. Pings!Keys(c) = {addr} \cup {id}
      BY <2>1 DEF Pings!Keys
    <3> HIDE DEF mid, id, addr, half, old, new
    <3> QED
      BY <1>5, <1>6, <2>1, <3>1, BehindTwo
  <2>2. CASE c \notin Legacy
    <3>1. Pings!Keys(c) = {id}
      BY <2>2 DEF Pings!Keys
    <3> HIDE DEF mid, id, addr, half, old, new
    <3> QED
      BY <1>5, <1>6, <2>2, <3>1
  <2> QED
    BY <2>1, <2>2
<1>8. ASSUME NEW k, k # id, k # addr
      PROVE  RoutedAlike(old, new, k)
  <2> HIDE DEF mid, id, addr, half, old, new
  <2> QED
    BY <1>5, <1>6, <1>8 DEF RoutedTo, RoutedAlike
<1>9. id \notin DOMAIN old => id \notin DOMAIN half
  <2> HIDE DEF mid, id, addr, half, old, new
  <2> QED
    BY <1>2, <1>5 DEF RoutedTo
<1>10. /\ q = None => id \notin DOMAIN new
       /\ q # None /\ id \notin DOMAIN old => id \in DOMAIN new /\ new[id] = q
  <2> HIDE DEF mid, id, addr, half, old, new
  <2> QED
    BY <1>6, <1>9 DEF RoutedTo
<1>11. \A d \in Client \ {c} : RoutedAlike(old, new, Pings!IdKey(d))
  <2> HIDE DEF mid, id, addr, half, old, new
  <2> QED
    BY <1>2, <1>8
<1> HIDE DEF mid, half, old, new
<1> QED
  BY <1>4, <1>6, <1>7, <1>10, <1>11

\* The types of RouteInv; what it says of the routes (v2), of the queue (v1) and
\* of payloads is taken one at a time.
RouteTypes ==
  /\ v4 \in [Client -> {"out", "wait", "accepted", "failed"}]
  /\ v1 \in Seq(AllKeys \X Owner)

LEMMA RouteInvParts ==
  /\ Pings!RouteInv <=>
       /\ RouteTypes
       /\ \A k \in DOMAIN v2 : Pings!Live(k, v2[k], 0)
       /\ \A i \in DOMAIN v1 : v1[i][2] # None => Pings!Live(v1[i][1], v1[i][2], i)
       /\ \A c \in Client :
            IF v4[c] = "wait"
            THEN Pings!IdKey(c) \in DOMAIN Pings!Populate /\ Pings!Populate[Pings!IdKey(c)] = c
            ELSE Pings!IdKey(c) \notin DOMAIN Pings!Populate
BY DEF Pings!RouteInv, RouteTypes, AllKeys, Owner

\* A session that begins to wait, or ends its wait, announces so: what leads to
\* it then is either alive or about to be taken back.
LEMMA AnnouncedStays ==
  ASSUME RouteTypes, NEW c \in Client, NEW q \in Owner,
         Behind(v1, v1', Pings!Keys(c), q),
         \A d \in Client \ {c} : v4'[d] = v4[d],
         IF q = None THEN v4'[c] # "wait" ELSE v4[c] # "wait" /\ v4'[c] = "wait",
         NEW k, NEW d, NEW i \in 0 .. Len(v1), Pings!Live(k, d, i)
  PROVE  Pings!Live(k, d, i)'
<1>1. d \in Client /\ k \in Pings!Keys(d)
  BY DEF Pings!Live
<1>2. \A j \in DOMAIN v1 : j \in DOMAIN v1' /\ v1'[j] = v1[j]
  BY DEF Behind, RouteTypes
<1>3. CASE \E j \in DOMAIN v1 : j > i /\ v1[j] = <<k, None>>
  BY <1>1, <1>2, <1>3 DEF Pings!Live
<1>4. CASE v4[d] = "wait" /\ d # c
  BY <1>1, <1>4 DEF Pings!Live
<1>5. CASE v4[d] = "wait" /\ d = c
  <2>1. q = None
    BY <1>5
  <2>2. PICK j \in 1 .. Len(v1') : j > Len(v1) /\ v1'[j] = <<k, None>>
    BY <1>1, <1>5, <2>1 DEF Behind
  <2>3. j \in DOMAIN v1' /\ j > i
    BY <2>2 DEF Behind
  <2> QED
    BY <1>1, <2>2, <2>3 DEF Pings!Live
<1> QED
  BY <1>3, <1>4, <1>5 DEF Pings!Live

LEMMA SessionStep ==
  ASSUME Pings!RouteInv, NEW c \in Client, NEW q \in Owner,
         v1' = v1 \o Pings!Announce(c, q), v2' = v2,
         v4' \in [Client -> {"out", "wait", "accepted", "failed"}],
         \A d \in Client \ {c} : v4'[d] = v4[d],
         IF q = None THEN v4'[c] # "wait" ELSE q = c /\ v4[c] # "wait" /\ v4'[c] = "wait"
  PROVE  Pings!RouteInv'
<1>1. /\ RouteTypes
      /\ \A k \in DOMAIN v2 : Pings!Live(k, v2[k], 0)
      /\ \A i \in DOMAIN v1 : v1[i][2] # None => Pings!Live(v1[i][1], v1[i][2], i)
      /\ \A d \in Client :
           IF v4[d] = "wait"
           THEN Pings!IdKey(d) \in DOMAIN Pings!Populate /\ Pings!Populate[Pings!IdKey(d)] = d
           ELSE Pings!IdKey(d) \notin DOMAIN Pings!Populate
  BY RouteInvParts
<1>2. v1 \in Seq(AllKeys \X Owner)
  BY <1>1 DEF RouteTypes
<1>3. /\ v1' \in Seq(AllKeys \X Owner)
      /\ Behind(v1, v1', Pings!Keys(c), q)
      /\ \A d \in Client \ {c} :
           RoutedAlike(Pings!Populate, Pings!Populate', Pings!IdKey(d))
      /\ q = None => Pings!IdKey(c) \notin DOMAIN Pings!Populate'
      /\ q # None /\ Pings!IdKey(c) \notin DOMAIN Pings!Populate =>
           Pings!IdKey(c) \in DOMAIN Pings!Populate' /\ Pings!Populate'[Pings!IdKey(c)] = q
  BY <1>2, AnnounceStep
<1>4. RouteTypes'
  BY <1>3 DEF RouteTypes
<1>5. \A k, d : \A i \in 0 .. Len(v1) : Pings!Live(k, d, i) => Pings!Live(k, d, i)'
  BY <1>1, <1>3, AnnouncedStays
<1>6. Len(v1) \in Nat /\ DOMAIN v1 = 1 .. Len(v1) /\ DOMAIN v1' = 1 .. Len(v1')
  BY <1>2, <1>3
<1>7. (\A k \in DOMAIN v2 : Pings!Live(k, v2[k], 0))'
  BY <1>1, <1>5, <1>6
<1>8. ASSUME NEW i \in DOMAIN v1', v1'[i][2] # None
      PROVE  Pings!Live(v1[i][1], v1[i][2], i)'
  <2>1. CASE i <= Len(v1)
    <3>1. i \in DOMAIN v1 /\ v1'[i] = v1[i]
      BY <1>3, <1>6, <1>8, <2>1 DEF Behind
    <3>2. Pings!Live(v1[i][1], v1[i][2], i)
      BY <1>1, <1>8, <3>1
    <3>3. i \in 0 .. Len(v1)
      BY <1>6, <3>1
    <3>4. \A k, d : Pings!Live(k, d, i) => Pings!Live(k, d, i)'
      BY <1>5, <3>3
    <3> QED
      BY <3>1, <3>2, <3>4
  <2>2. CASE i > Len(v1)
    <3>1. v1'[i][1] \in Pings!Keys(c) /\ v1'[i][2] = q
      BY <1>3, <1>6, <1>8, <2>2 DEF Behind
    <3>2. q = c /\ v4'[c] = "wait"
      BY <1>8, <3>1
    <3> QED
      BY <3>1, <3>2 DEF Pings!Live
  <2>3. i <= Len(v1) \/ i > Len(v1)
    BY <1>6
  <2> QED
    BY <2>1, <2>2, <2>3
<1>9. ASSUME NEW d \in Client
      PROVE  IF v4'[d] = "wait"
             THEN Pings!IdKey(d) \in DOMAIN Pings!Populate' /\ Pings!Populate'[Pings!IdKey(d)] = d
             ELSE Pings!IdKey(d) \notin DOMAIN Pings!Populate'
  <2>1. CASE d = c
    BY <1>1, <1>3, <2>1, ClientAssumption
  <2>2. CASE d # c
    BY <1>1, <1>3, <2>2 DEF RoutedAlike
  <2> QED
    BY <2>1, <2>2
<1> QED
  BY <1>4, <1>7, <1>8, <1>9 DEF Pings!RouteInv, RouteTypes, AllKeys, Owner

\* recvThread takes all announcements at once: what is routed then is routed to
\* sessions that wait.
LEMMA ReceiveStep ==
  ASSUME Pings!RouteInv, v1' = <<>>, v2' = Pings!Populate, v4' = v4
  PROVE  Pings!RouteInv'
<1>1. /\ RouteTypes
      /\ \A k \in DOMAIN v2 : Pings!Live(k, v2[k], 0)
      /\ \A i \in DOMAIN v1 : v1[i][2] # None => Pings!Live(v1[i][1], v1[i][2], i)
  BY RouteInvParts
<1>2. Pings!Populate = Pings!Applied(v2, v1) /\ Pings!Populate' = Pings!Applied(v2', v1')
  BY DEF Pings!Populate
<1>3. Pings!Populate' = Pings!Populate
  BY <1>2, AppliedToNone
<1>4. RouteTypes'
  BY <1>1 DEF RouteTypes
<1>5. ASSUME NEW k \in DOMAIN Pings!Populate
      PROVE  LET d == Pings!Populate[k]
             IN  d \in Client /\ k \in Pings!Keys(d) /\ v4[d] = "wait"
  <2>1. v1 \in Seq(AllKeys \X Owner)
    BY <1>1 DEF RouteTypes
  <2>2. DOMAIN v1 = 1 .. Len(v1) /\ Len(v1) \in Nat
    BY <2>1
  <2> DEFINE d == Pings!Populate[k]
  <2>3. \/ /\ k \in DOMAIN v2 /\ d = v2[k]
           /\ \A j \in DOMAIN v1 : v1[j] # <<k, None>>
        \/ \E i \in DOMAIN v1 :
             /\ v1[i] = <<k, d>> /\ v1[i][2] # None
             /\ \A j \in DOMAIN v1 : j > i => v1[j] # <<k, None>>
    <3>1. k \in DOMAIN Pings!Applied(v2, v1) /\ d = Pings!Applied(v2, v1)[k]
      BY <1>2, <1>5
    <3>2. Origin(v2, v1, k, Pings!Applied(v2, v1)[k])
      BY <2>1, <3>1, RouteOrigin
    <3> QED
      BY <3>1, <3>2 DEF Origin
  <2> HIDE DEF d
  <2>4. d \in Client /\ k \in Pings!Keys(d) /\ v4[d] = "wait"
    <3>1. CASE /\ k \in DOMAIN v2 /\ d = v2[k]
               /\ \A j \in DOMAIN v1 : v1[j] # <<k, None>>
      BY <1>1, <3>1 DEF Pings!Live
    <3>2. ASSUME NEW i \in DOMAIN v1, v1[i] = <<k, d>>, v1[i][2] # None,
                 \A j \in DOMAIN v1 : j > i => v1[j] # <<k, None>>
          PROVE  d \in Client /\ k \in Pings!Keys(d) /\ v4[d] = "wait"
      <4>1. Pings!Live(k, d, i)
        BY <1>1, <3>2
      <4> QED
        BY <3>2, <4>1 DEF Pings!Live
    <3> QED
      BY <2>3, <3>1, <3>2
  <2> QED
    BY <2>4 DEF d
<1>6. (\A k \in DOMAIN v2 : Pings!Live(k, v2[k], 0))'
  BY <1>5 DEF Pings!Live
<1>7. \A c \in Client :
        IF v4'[c] = "wait"
        THEN Pings!IdKey(c) \in DOMAIN Pings!Populate' /\ Pings!Populate'[Pings!IdKey(c)] = c
        ELSE Pings!IdKey(c) \notin DOMAIN Pings!Populate'
  BY <1>3, RouteInvParts
<1>8. DOMAIN v1' = {}
  OBVIOUS
<1> QED
  BY <1>4, <1>6, <1>7, <1>8 DEF Pings!RouteInv, RouteTypes, AllKeys, Owner

LEMMA RouteInvStep ==
  Pings!RouteInv /\ [Pings!Next]_(Pings!pingVars) => Pings!RouteInv'
<1> SUFFICES ASSUME Pings!RouteInv, [Pings!Next]_(Pings!pingVars)
             PROVE  Pings!RouteInv'
  OBVIOUS
<1>1. v4 \in [Client -> {"out", "wait", "accepted", "failed"}]
  BY DEF Pings!RouteInv
<1>2. ASSUME v1' = v1, v2' = v2, v4' = v4
      PROVE  Pings!RouteInv'
  BY <1>2 DEF Pings!RouteInv, Pings!Live, Pings!Populate, Pings!Applied
<1>3. ASSUME NEW c \in Client, Pings!Register(c)
      PROVE  Pings!RouteInv'
  BY <1>1, <1>3, SessionStep, ClientAssumption DEF Pings!Register, Owner
<1>4. ASSUME NEW c \in Client, Pings!Accept(c) \/ Pings!Timeout(c)
      PROVE  Pings!RouteInv'
  BY <1>1, <1>4, SessionStep DEF Pings!Accept, Pings!Timeout, Pings!Unregister, Owner
<1>5. ASSUME NEW c \in Client, Pings!Skip(c)
      PROVE  Pings!RouteInv'
  BY <1>2, <1>5 DEF Pings!Skip
<1>6. ASSUME NEW c \in Client, NEW msg, Pings!Receive(c, msg)
      PROVE  Pings!RouteInv'
  BY <1>6, ReceiveStep DEF Pings!Receive
<1>7. CASE UNCHANGED Pings!pingVars
  BY <1>2, <1>7 DEF Pings!pingVars
<1> QED
  BY <1>3, <1>4, <1>5, <1>6, <1>7 DEF Pings!Next

LEMMA RouteInvInit == Pings!Init => Pings!RouteInv
<1> SUFFICES ASSUME Pings!Init PROVE Pings!RouteInv
  OBVIOUS
<1>1. Pings!Populate = Pings!NoRoutes
  BY AppliedToNone DEF Pings!Init, Pings!Populate
<1> QED
  BY <1>1 DEF Pings!Init, Pings!RouteInv, Pings!NoRoutes

(***************************************************************************)
(* What the user and the client were told: the forced shutdown, edits in   *)
(* the web UI, and the steps that come in an order.                        *)
(***************************************************************************)

\* The handler that armed the forced shutdown has given the display back before it
\* comes, and what it then finds hanging is stuck, started late or not there.
LEMMA TrapInvStep == Life!TrapInv /\ [Life!Next]_(Life!lifeVars) => Life!TrapInv'
<1> SUFFICES ASSUME Life!TrapInv, [Life!Next]_(Life!lifeVars) PROVE Life!TrapInv'
  OBVIOUS
<1> USE DEF Life!TrapInv, Life!Past, Life!TrapOnlyWhenStuck, Life!MainStep, Life!MainKeeps
<1>1. ASSUME NEW c \in Caller, NEW code \in Code, Life!ExitSunshine(c, code)
      PROVE  Life!TrapInv'
  <2>1. v11' \in [Caller -> {"idle", "push", "raise", "tray", "guard", "over", "wait"}]
    BY <1>1 DEF Life!ExitSunshine
  <2> QED
    BY <1>1, <2>1 DEF Life!ExitSunshine, Life!mainVars
<1>2. ASSUME NEW c \in Caller, Life!Handler(c) PROVE Life!TrapInv'
  <2>1. v11' \in [Caller -> {"idle", "push", "raise", "tray", "guard", "over", "wait"}]
    BY <1>2 DEF Life!Handler
  <2> USE DEF Life!Handler, Life!EndTray
  <2>2. CASE v11[c] = "push"
    BY <1>2, <2>1, <2>2
  <2>3. CASE v11[c] = "raise"
    BY <1>2, <2>1, <2>3
  <2>4. CASE v11[c] = "tray"
    BY <1>2, <2>1, <2>4
  <2>5. CASE v11[c] = "guard"
    BY <1>2, <2>1, <2>5
  <2> QED
    BY <1>2, <2>2, <2>3, <2>4, <2>5
<1>3. CASE Life!HttpFails
  BY <1>3 DEF Life!HttpFails
<1>4. CASE Life!SleepEnds
  BY <1>4 DEF Life!SleepEnds
<1>5. CASE Life!StartPublishing
  BY <1>5 DEF Life!StartPublishing
<1>6. CASE Life!PeekShutdown
  BY <1>6 DEF Life!PeekShutdown
<1>7. CASE Life!MainLoop
  BY <1>7 DEF Life!MainLoop
<1>8. CASE Life!Join
  BY <1>8 DEF Life!Join
<1>9. CASE Life!Return
  BY <1>9 DEF Life!Return
<1>10. ASSUME NEW ok \in BOOLEAN, Life!InitTray(ok) PROVE Life!TrapInv'
  BY <1>10 DEF Life!InitTray
<1>11. ASSUME NEW p \in v9, Life!Unwind(p) PROVE Life!TrapInv'
  BY <1>11 DEF Life!Unwind
<1>12. ASSUME NEW p \in v8, Life!Started(p) PROVE Life!TrapInv'
  BY <1>12 DEF Life!Started
<1>13. ASSUME NEW s \in Life!Server, Life!ServerEnds(s) PROVE Life!TrapInv'
  BY <1>13 DEF Life!ServerEnds
<1>14. CASE Life!ForceShutdown
  <2>1. PICK c \in Caller : v11[c] \in {"over", "wait"}
    BY <1>14 DEF Life!ForceShutdown, Life!Hangs
  <2>2. v5 /\ (v4 # "up" \/ v14) /\ ~v13
    BY <2>1
  <2>3. v7 # {} \/ v14 \/ v9 = {}
    BY <1>14, <2>2 DEF Life!ForceShutdown, Life!Hangs, Life!LoopEnds
  <2> QED
    BY <1>14, <2>2, <2>3 DEF Life!ForceShutdown
<1>15. CASE UNCHANGED Life!lifeVars
  BY <1>15 DEF Life!lifeVars
<1> QED
  BY <1>1, <1>2, <1>3, <1>4, <1>5, <1>6, <1>7, <1>8, <1>9, <1>10, <1>11, <1>12, <1>13,
     <1>14, <1>15 DEF Life!Next, Life!MainRuns, Life!OthersRun

\* Whoever disables a client ends its session in the same step.
LEMMA DisabledStep == [Ui!Next]_(Ui!uiVars) => Ui!DisabledStops
<1> SUFFICES ASSUME [Ui!Next]_(Ui!uiVars) PROVE Ui!DisabledStops
  OBVIOUS
<1> QED
  BY DEF Ui!uiVars, Ui!Next, Ui!DisabledStops, Ui!LoginNext, Ui!AppsNext, Ui!TokensNext, Ui!ClientsNext,
     Ui!Restart, Ui!SavePassword, Ui!GetApps, Ui!DeleteApp, Ui!SaveApp, Ui!WriteApps, Ui!Tick,
     Ui!GetToken, Ui!CheckToken, Ui!UnpairAll, Ui!CloseApp, Ui!Admit, Ui!StartSession,
     Ui!EndSession, Ui!Unpair, Ui!UpdateClient, Ui!clientVars

\* The login in force is the one in the file, through saves that fail and restarts.
LEMMA LoginStep == Ui!LoginSurvives /\ [Ui!Next]_(Ui!uiVars) => Ui!LoginSurvives'
<1> SUFFICES ASSUME Ui!LoginSurvives, [Ui!Next]_(Ui!uiVars) PROVE Ui!LoginSurvives'
  OBVIOUS
<1>1. CASE Ui!LoginNext
  BY <1>1 DEF Ui!LoginNext, Ui!LoginSurvives, Ui!Restart, Ui!SavePassword, Ui!Reload
<1>2. CASE UNCHANGED Ui!loginVars
  BY <1>2 DEF Ui!loginVars, Ui!LoginSurvives
<1>3. CASE Ui!AppsNext \/ Ui!TokensNext
  BY <1>2, <1>3 DEF Ui!AppsNext, Ui!TokensNext, Ui!GetApps, Ui!DeleteApp, Ui!SaveApp,
     Ui!WriteApps, Ui!Tick, Ui!GetToken, Ui!CheckToken
<1>4. CASE Ui!ClientsNext
  BY <1>2, <1>4 DEF Ui!ClientsNext, Ui!UnpairAll, Ui!CloseApp, Ui!Admit, Ui!StartSession,
     Ui!EndSession, Ui!Unpair, Ui!UpdateClient
<1>5. CASE UNCHANGED Ui!uiVars
  BY <1>2, <1>5 DEF Ui!uiVars
<1> QED
  BY <1>1, <1>3, <1>4, <1>5 DEF Ui!Next

\* Another user's token, a check or the time take a token from nobody before it expires.
LEMMA TokenStep == Ui!TokenInv /\ [Ui!Next]_(Ui!uiVars) => Ui!TokenInv'
<1> SUFFICES ASSUME Ui!TokenInv, [Ui!Next]_(Ui!uiVars) PROVE Ui!TokenInv'
  OBVIOUS
<1> USE UiAssumption DEF Ui!TokenInv
<1>1. CASE UNCHANGED Ui!tokenVars
  BY <1>1 DEF Ui!tokenVars
<1>2. CASE Ui!Restart
  BY <1>2 DEF Ui!Restart
<1>3. ASSUME NEW o \in Login, NEW n \in Login, Ui!SavePassword(o, n) PROVE Ui!TokenInv'
  BY <1>1, <1>3 DEF Ui!SavePassword
<1>4. CASE Ui!AppsNext
  BY <1>1, <1>4 DEF Ui!AppsNext, Ui!GetApps, Ui!DeleteApp, Ui!SaveApp, Ui!WriteApps
<1>5. CASE Ui!Tick
  BY <1>5 DEF Ui!Tick
<1>6. ASSUME NEW u \in User, Ui!GetToken(u) PROVE Ui!TokenInv'
  <2> DEFINE tok == [number |-> IF v9[u] = None THEN 1 ELSE 3 - v9[u].number,
                     expires |-> v10 + Lifetime]
  <2>1. tok.expires \in Nat
    OBVIOUS
  <2>2. v9' = [v9 EXCEPT ![u] = tok] /\ v10' = v10
        /\ v8' = [v \in User |-> IF v = u THEN tok ELSE IF Ui!Fresh(v8[v]) THEN v8[v] ELSE None]
    BY <1>6 DEF Ui!GetToken
  <2> HIDE DEF tok
  <2> QED
    BY <2>1, <2>2 DEF Ui!Fresh
<1>7. ASSUME NEW u \in User, Ui!CheckToken(u) PROVE Ui!TokenInv'
  BY <1>7 DEF Ui!CheckToken, Ui!Fresh
<1>8. CASE Ui!ClientsNext
  BY <1>1, <1>8 DEF Ui!ClientsNext, Ui!UnpairAll, Ui!CloseApp, Ui!Admit, Ui!StartSession,
     Ui!EndSession, Ui!Unpair, Ui!UpdateClient
<1>9. CASE UNCHANGED Ui!uiVars
  BY <1>1, <1>9 DEF Ui!uiVars
<1> QED
  BY <1>2, <1>3, <1>4, <1>5, <1>6, <1>7, <1>8, <1>9 DEF Ui!Next, Ui!LoginNext, Ui!TokensNext

\* The queue of HDR modes holds the newest one, or the client was told it.
LEMMA HdrStep == Control!HdrInv /\ [Control!Next]_(Control!controlVars) => Control!HdrInv'
<1> SUFFICES ASSUME Control!HdrInv, [Control!Next]_(Control!controlVars)
             PROVE  Control!HdrInv'
  OBVIOUS
<1>1. CASE UNCHANGED <<v7, v8, v9>>
  BY <1>1 DEF Control!HdrInv
<1>2. CASE Control!Setup
  BY <1>1, <1>2 DEF Control!Setup, Control!Announced, Control!PeerConnects, Control!outVars
<1>3. CASE Control!InNext
  BY <1>1, <1>3 DEF Control!InNext, Control!Receive, Control!ClientSends, Control!outVars
<1>4. CASE Control!SendFeedback
  BY <1>1, <1>4 DEF Control!SendFeedback
<1>5. CASE Control!SendHdrMode
  BY <1>5 DEF Control!SendHdrMode, Control!MayTell, Control!HdrInv
<1>6. ASSUME NEW m \in BOOLEAN, Control!HdrRaised(m)
      PROVE  Control!HdrInv'
  <2>1. [mode |-> m] # None
    BY RecordAssumption
  <2> QED
    BY <1>6, <2>1 DEF Control!HdrRaised, Control!HdrInv
<1>7. CASE UNCHANGED Control!controlVars
  BY <1>1, <1>7 DEF Control!controlVars
<1> QED
  BY <1>2, <1>3, <1>4, <1>5, <1>6, <1>7 DEF Control!Next, Control!OutNext

\* A round of the UPnP thread renews every mapping of this host for the whole
\* lifetime, which is longer than the interval to the next round.
LEMMA LeaseStep == Ports!LeaseInv /\ [Ports!Next]_(Ports!mapVars) => Ports!LeaseInv'
<1> SUFFICES ASSUME Ports!LeaseInv, [Ports!Next]_(Ports!mapVars)
             PROVE  Ports!LeaseInv'
  OBVIOUS
<1> USE LeaseAssumption DEF Ports!LeaseInv, Ports!Renewed, Ports!Router
<1>1. CASE Ports!Discover \/ Ports!UnmapEnd \/ Ports!Shutdown
  BY <1>1 DEF Ports!Discover, Ports!UnmapEnd, Ports!Shutdown
<1>2. CASE Ports!RoundEnd
  BY <1>2 DEF Ports!RoundEnd
<1>3. CASE Ports!WaitEnd
  <2>1. v1' \in [Ports!Mappings -> {None} \cup [host : {"us", "other"}, lease : 0..Lease]]
    <3>1. CASE v7
      BY <1>3, <3>1 DEF Ports!WaitEnd
    <3>2. CASE ~v7
      <4>1. ASSUME NEW p \in Ports!Mappings
            PROVE  v1'[p] \in {None} \cup [host : {"us", "other"}, lease : 0..Lease]
        BY <1>3, <3>2, SMTT(40) DEF Ports!WaitEnd
      <4>2. v1' = [p \in Ports!Mappings |-> v1'[p]]
        BY <1>3, <3>2 DEF Ports!WaitEnd
      <4> QED
        BY <4>1, <4>2
    <3> QED
      BY <3>1, <3>2
  <2> QED
    BY <1>3, <2>1 DEF Ports!WaitEnd
<1>4. CASE Ports!Fault
  BY <1>4 DEF Ports!Fault
<1>5. ASSUME NEW p \in Ports!Mappings, Ports!MapPort(p)
      PROVE  Ports!LeaseInv'
  <2>1. PICK m \in Ports!Mapped(p) : v1' = [v1 EXCEPT ![p] = m]
    BY <1>5 DEF Ports!MapPort
  <2>2. m \in {None} \cup [host : {"us", "other"}, lease : 0..Lease]
    BY <2>1 DEF Ports!Mapped
  <2>3. m # None /\ m.host = "us" => m.lease \in {0, Lease}
    BY <2>1, RecordAssumption DEF Ports!Mapped
  <2> QED
    BY <1>5, <2>1, <2>2, <2>3 DEF Ports!MapPort
<1>6. ASSUME NEW p \in Ports!Mappings, Ports!Unmap(p)
      PROVE  Ports!LeaseInv'
  BY <1>6 DEF Ports!Unmap
<1>7. CASE UNCHANGED Ports!mapVars
  BY <1>7 DEF Ports!mapVars
<1> QED
  BY <1>1, <1>2, <1>3, <1>4, <1>5, <1>6, <1>7 DEF Ports!Next

\* What is renewed outlasts the interval.
LEMMA LeaseLasts ==
  Ports!LeaseInv /\ [Ports!Next]_(Ports!mapVars) => Ports!LeasesOutlast
<1> SUFFICES ASSUME Ports!LeaseInv, [Ports!Next]_(Ports!mapVars) PROVE Ports!LeasesOutlast
  OBVIOUS
<1>1. CASE Ports!WaitEnd /\ ~v7
  BY <1>1, LeaseAssumption, RecordAssumption
     DEF Ports!WaitEnd, Ports!LeasesOutlast, Ports!LeaseInv, Ports!Renewed
<1>2. CASE ~(v6 = "wait" /\ v6' = "discover")
  BY <1>2 DEF Ports!LeasesOutlast
<1> QED
  BY <1>1, <1>2 DEF Ports!Next, Ports!Discover, Ports!RoundEnd, Ports!WaitEnd, Ports!UnmapEnd,
     Ports!Shutdown, Ports!Fault, Ports!MapPort, Ports!Unmap, Ports!mapVars

\* Before the launch there is no connection.
LEMMA TalkInit == Rtsp!Init => Rtsp!TalkInv
<1> SUFFICES ASSUME Rtsp!Init PROVE Rtsp!TalkInv
  OBVIOUS
<1>1. v3 \in [state : {"closed", "header", "body", "handled"},
               msg : Rtsp!Message \cup {None}, begin : Nat, split : BOOLEAN]
  BY DEF Rtsp!Init, Rtsp!Closed
<1> QED
  BY <1>1 DEF Rtsp!Init, Rtsp!TalkInv, Rtsp!Closed, Rtsp!CompleteIsHandled,
     Rtsp!OfferIsHonoured

\* However a message is cut, its connection knows what is missing, and what
\* DESCRIBE said of the policy ANNOUNCE still finds.
LEMMA TalkStep == Rtsp!TalkInv /\ [Rtsp!Next]_(Rtsp!rtspVars) => Rtsp!TalkInv'
<1> DEFINE S == {"closed", "header", "body", "handled"}
           M == Rtsp!Message \cup {None}
           C == [state : S, msg : M, begin : Nat, split : BOOLEAN]
<1> SUFFICES ASSUME Rtsp!TalkInv, [Rtsp!Next]_(Rtsp!rtspVars) PROVE Rtsp!TalkInv'
  OBVIOUS
<1>1. /\ v3 \in C
      /\ v2 = None => v3.state = "closed" /\ v6 = None
      /\ v3.state # "closed" => v3.msg \in Rtsp!Message
      /\ v6 # None => v6.supported = Rtsp!Supported /\ v6.requested = Rtsp!Requested
      /\ Rtsp!CompleteIsHandled /\ Rtsp!OfferIsHonoured
  BY DEF Rtsp!TalkInv
<1>2. /\ Ending \in Nat \ {0}
      /\ \A m \in Rtsp!Message :
           /\ m.head \in Nat /\ m.body \in Nat /\ m.sealed \in BOOLEAN /\ m.head >= Ending
           /\ ~m.sealed => Rtsp!Length(m) = m.head + m.body
           /\ Rtsp!Length(m) \in Nat
  BY MessageAssumption DEF Rtsp!Message, Rtsp!Length
<1>3. Rtsp!Closed \in C /\ Rtsp!Closed.state = "closed"
  BY DEF Rtsp!Closed
<1>4. Rtsp!Closed.begin = 0
  BY DEF Rtsp!Closed
<1>5. v3.state \in S /\ v3.begin \in Nat /\ v3.split \in BOOLEAN
  BY <1>1
<1> HIDE DEF C, M, S
<1>6. \A status, followed : Rtsp!Respond(status, followed) /\ (followed => status = 200)
         => v3' = Rtsp!Closed /\ Rtsp!OfferIsHonoured'
  BY DEF Rtsp!Respond, Rtsp!OfferIsHonoured
<1> DEFINE Kept == v2' = v2 /\ v6' = v6
\* what closes the connection, or does not touch it
<1>7. ASSUME v3' = Rtsp!Closed, Rtsp!OfferIsHonoured', Kept PROVE Rtsp!TalkInv'
  BY <1>1, <1>3, <1>7 DEF Rtsp!TalkInv, Rtsp!CompleteIsHandled, C, M, S, Rtsp!Supported,
     Rtsp!Requested
<1>8. ASSUME v3' = v3, v1' = v1, v10' = v10, Kept PROVE Rtsp!TalkInv'
  BY <1>1, <1>8 DEF Rtsp!TalkInv, Rtsp!CompleteIsHandled, Rtsp!OfferIsHonoured, C, M,
     Rtsp!Supported, Rtsp!Requested
\* what goes on with the message
<1>9. ASSUME v3' \in C, v3'.state # "closed", v3'.msg \in Rtsp!Message, v2 # None, Kept,
              v10' = v10, Rtsp!CompleteIsHandled'
       PROVE  Rtsp!TalkInv'
  BY <1>1, <1>9 DEF Rtsp!TalkInv, Rtsp!OfferIsHonoured, C, M, S, Rtsp!Supported,
     Rtsp!Requested
<1> HIDE DEF Kept
<1>10. ASSUME NEW c \in BOOLEAN, NEW p \in {"never", "opportunistic", "mandatory"},
              Rtsp!NewLaunch(c, p)
       PROVE  Rtsp!TalkInv'
  BY <1>1, <1>10 DEF Rtsp!NewLaunch, Rtsp!TalkInv, Rtsp!CompleteIsHandled,
     Rtsp!OfferIsHonoured, C, M, S
<1>11. ASSUME NEW m \in Rtsp!Message, Rtsp!Connect(m) PROVE Rtsp!TalkInv'
  <2>1. v3' = [Rtsp!Closed EXCEPT !.state = "header", !.msg = m] /\ v2 # None /\ v10' = v10
        /\ Kept
    BY <1>11 DEF Rtsp!Connect, Kept
  <2>2. v3' \in C /\ v3'.state = "header" /\ v3'.msg = m /\ v3'.begin = 0
    BY <2>1, <1>3, <1>4 DEF C, S, M
  <2>3. Rtsp!CompleteIsHandled'
    BY <2>2, <1>2 DEF Rtsp!CompleteIsHandled, Rtsp!Length
  <2> QED
    BY <1>9, <2>1, <2>2, <2>3
<1>12. ASSUME NEW n \in 1 .. (MaxHead + MaxBody), Rtsp!ReadPlain(n) PROVE Rtsp!TalkInv'
  <2> DEFINE m == v3.msg
             end == v3.begin + n
             found == v3.state = "body"
                      \/ (~m.sealed /\ v3.begin <= m.head - Ending /\ end >= m.head)
             split == ~m.sealed /\ v3.state = "header" /\ v3.begin > m.head - Ending
  <2>1. /\ ~v1 /\ v1' = v1 /\ v3.state \in {"header", "body"} /\ end <= Rtsp!Length(m) /\ Kept
        /\ v2 # None /\ m \in Rtsp!Message /\ end \in Nat
    BY <1>12, <1>1, <1>5, MessageAssumption DEF Rtsp!ReadPlain, Kept
  <2>2. CASE found /\ Rtsp!Enough(m, end)
    <3>1. v3' = [v3 EXCEPT !.state = "handled", !.begin = end] /\ v10' = v10
      BY <1>12, <2>2 DEF Rtsp!ReadPlain
    <3>2. v3' \in C /\ v3'.state = "handled" /\ v3'.msg = m
      BY <3>1, <2>1, <1>1 DEF C, S
    <3> QED
      BY <1>9, <2>1, <3>1, <3>2 DEF Rtsp!CompleteIsHandled
  <2>3. CASE ~(found /\ Rtsp!Enough(m, end)) /\ end = Buffer
    <3>1. Rtsp!Refuse
      BY <1>12, <2>3 DEF Rtsp!ReadPlain
    <3> QED
      BY <1>6, <1>7, <2>1, <3>1 DEF Rtsp!Refuse
  <2>4. CASE ~(found /\ Rtsp!Enough(m, end)) /\ end # Buffer
    <3> DEFINE t == IF found THEN "body" ELSE "header"
               b == v3.split \/ split
    <3>1. v3' = [v3 EXCEPT !.state = t, !.begin = end, !.split = b] /\ v10' = v10
      BY <1>12, <2>4 DEF Rtsp!ReadPlain
    <3>2. t \in S /\ t # "closed" /\ b \in BOOLEAN
      BY <1>5 DEF S
    <3>3. ~m.sealed /\ end = Rtsp!Length(m) => b
      BY <2>1, <2>4, <1>2, <1>5 DEF Rtsp!Enough
    <3> HIDE DEF t, b, end
    <3>4. v3' \in C /\ v3'.state = t /\ v3'.msg = m /\ v3'.begin = end /\ v3'.split = b
      BY <3>1, <3>2, <2>1, <1>1 DEF C
    <3>5. Rtsp!CompleteIsHandled'
      BY <3>3, <3>4 DEF Rtsp!CompleteIsHandled, Rtsp!Length
    <3> QED
      BY <1>9, <2>1, <3>1, <3>2, <3>4, <3>5
  <2> QED
    BY <2>2, <2>3, <2>4
<1>13. CASE Rtsp!ReadSealedHeader
  <2>1. CASE Rtsp!Refuse
    BY <1>6, <1>7, <1>13, <2>1 DEF Rtsp!ReadSealedHeader, Rtsp!Refuse, Kept
  <2>2. CASE ~Rtsp!Refuse
    <3>1. /\ v3' = [v3 EXCEPT !.state = "body", !.begin = Sealed] /\ v10' = v10 /\ v1' = v1 /\ v1
          /\ v3.state = "header" /\ Kept
      BY <1>13, <2>2 DEF Rtsp!ReadSealedHeader, Kept
    <3>2. v3' \in C /\ v3'.state = "body" /\ v3'.msg = v3.msg
      BY <3>1, <1>1, MessageAssumption DEF C, S
    <3> QED
      BY <1>1, <1>9, <3>1, <3>2 DEF Rtsp!CompleteIsHandled
  <2> QED
    BY <2>1, <2>2
<1>14. ASSUME NEW valid \in BOOLEAN, Rtsp!ReadSealedMessage(valid) PROVE Rtsp!TalkInv'
  <2>1. CASE ~valid
    BY <1>6, <1>7, <1>14, <2>1 DEF Rtsp!ReadSealedMessage, Rtsp!Refuse, Kept
  <2>2. CASE valid
    <3>1. /\ v3' = [v3 EXCEPT !.state = "handled", !.begin = Rtsp!Length(v3.msg)] /\ v10' = v10
          /\ v3.state = "body" /\ Kept
      BY <1>14, <2>2 DEF Rtsp!ReadSealedMessage, Kept
    <3>2. v3' \in C /\ v3'.state = "handled" /\ v3'.msg = v3.msg
      BY <3>1, <1>1, <1>2 DEF C, S
    <3> QED
      BY <1>1, <1>9, <3>1, <3>2 DEF Rtsp!CompleteIsHandled
  <2> QED
    BY <2>1, <2>2
<1>15. CASE Rtsp!HangUp
  BY <1>1, <1>7, <1>15 DEF Rtsp!HangUp, Rtsp!OfferIsHonoured, Kept
<1>16. ASSUME NEW status \in {200, 404}, Rtsp!Plain(status) PROVE Rtsp!TalkInv'
  BY <1>6, <1>7, <1>16 DEF Rtsp!Plain, Kept
<1>17. CASE Rtsp!Describe
  <2>1. v3' = Rtsp!Closed /\ Rtsp!OfferIsHonoured'
    BY <1>6, <1>17 DEF Rtsp!Describe
  <2>2. v2' = v2 /\ v2 # None /\ v6'.supported = Rtsp!Supported /\ v6'.requested = Rtsp!Requested
    BY <1>1, <1>17 DEF Rtsp!Describe
  <2> QED
    BY <1>3, <2>1, <2>2 DEF Rtsp!TalkInv, Rtsp!CompleteIsHandled, C, M, S, Rtsp!Supported,
       Rtsp!Requested
<1>18. ASSUME NEW f \in SUBSET Rtsp!Flags, NEW codec \in {"h264", "hevc"}, NEW complete \in BOOLEAN,
              NEW starts \in BOOLEAN, Rtsp!Announce(f, codec, complete, starts)
       PROVE  Rtsp!TalkInv'
  <2> DEFINE followed == Rtsp!Follows(f, codec) /\ complete /\ starts
             status == CASE ~complete -> 400
                         [] complete /\ codec = "hevc" /\ ~v5 -> 400
                         [] complete /\ (codec = "hevc" => v5) /\ v2 = "mandatory"
                              /\ ~({"video", "audio"} \subseteq f) -> 403
                         [] OTHER -> IF starts THEN 200 ELSE 500
  <2>1. Rtsp!Respond(status, followed) /\ Kept
    BY <1>18 DEF Rtsp!Announce, Kept
  <2>2. ASSUME followed PROVE status = 200
    <3>1. v2 = "mandatory" => {"video", "audio"} \subseteq f
      BY <1>1, <2>2 DEF Rtsp!Follows, Rtsp!Supported, Rtsp!Requested
    <3>2. complete /\ starts /\ (codec = "hevc" => v5)
      BY <2>2 DEF Rtsp!Follows
    <3> QED
      BY <3>1, <3>2
  <2> HIDE DEF status, followed
  <2> QED
    BY <1>6, <1>7, <2>1, <2>2
<1>19. CASE Rtsp!Reprobe
  BY <1>8, <1>19 DEF Rtsp!Reprobe, Kept
<1>20. CASE UNCHANGED Rtsp!rtspVars
  BY <1>8, <1>20 DEF Rtsp!rtspVars, Kept
<1> QED
  BY <1>10, <1>11, <1>12, <1>13, <1>14, <1>15, <1>16, <1>17, <1>18, <1>19, <1>20 DEF Rtsp!Next

\* The first entry that decides is one of those that do.
LEMMA MinIsLeast ==
  ASSUME NEW S \in SUBSET Nat, S # {}
  PROVE  Display!Min(S) \in S /\ \A y \in S : Display!Min(S) <= y
BY LeastNat DEF Display!Min

\* What the remapping may make of a mode: nothing, a failure, or what an entry of
\* the list that it does not skip says.
Replaces(r, p, mode) ==
  /\ p.ok /\ r.ok
  /\ r.res = IF p.toRes # Display!NotSet THEN p.toRes ELSE mode.res
  /\ r.rate = IF p.toRate # Display!NotSet THEN p.toRate ELSE mode.rate

\* The remapping does one of the three.
LEMMA Remaps ==
  ASSUME NEW es \in Seq(Display!Entry), NEW type, NEW s, NEW a, NEW b, NEW mode, NEW r,
         mode = [res |-> a, rate |-> b, ok |-> TRUE],
         r = Display!RemapFrom(es, type, s, mode)
  PROVE  \/ r = mode
         \/ r = Display!Failed
         \/ \E i \in DOMAIN es :
              /\ ~Display!Skips(Display!ParseEntry(es[i], type), s, mode)
              /\ Replaces(r, Display!ParseEntry(es[i], type), mode)
<1> DEFINE p(i) == Display!ParseEntry(es[i], type)
           Bad(q) == ~q.ok \/ (q.toRes = Display!NotSet /\ q.toRate = Display!NotSet)
           deciding == {i \in DOMAIN es : Bad(p(i)) \/ ~Display!Skips(p(i), s, mode)}
           n == Display!Min(deciding)
<1>1. CASE deciding = {}
  BY <1>1 DEF Display!RemapFrom
<1>2. CASE deciding # {}
  <2>1. deciding \in SUBSET Nat
    OBVIOUS
  <2>2. n \in deciding
    <3> HIDE DEF deciding
    <3> QED
      BY <1>2, <2>1, MinIsLeast
  <2>3. r = IF Bad(p(n)) THEN Display!Failed
            ELSE [mode EXCEPT !.res = IF p(n).toRes # Display!NotSet THEN p(n).toRes ELSE @,
                              !.rate = IF p(n).toRate # Display!NotSet THEN p(n).toRate ELSE @]
    BY <1>2 DEF Display!RemapFrom
  <2>4. CASE Bad(p(n))
    BY <2>3, <2>4
  <2>5. CASE ~Bad(p(n))
    <3>1. n \in DOMAIN es /\ ~Display!Skips(p(n), s, mode) /\ p(n).ok
      BY <2>2, <2>5
    <3> HIDE DEF p, n
    <3>2. Replaces(r, p(n), mode)
      BY <2>3, <2>5, <3>1 DEF Replaces
    <3> QED
      BY <3>1, <3>2 DEF p
  <2> QED
    BY <2>4, <2>5
<1> QED
  BY <1>1, <1>2

\* The first entry decides when it is good and is not skipped.
LEMMA FirstRemaps ==
  ASSUME NEW es \in Seq(Display!Entry), es # <<>>, NEW type, NEW s, NEW a, NEW b, NEW mode, NEW r,
         mode = [res |-> a, rate |-> b, ok |-> TRUE],
         r = Display!RemapFrom(es, type, s, mode),
         NEW p, p = Display!ParseEntry(es[1], type), p.ok,
         p.toRate # Display!NotSet, ~Display!Skips(p, s, mode)
  PROVE  r.rate = p.toRate
<1> DEFINE q(i) == Display!ParseEntry(es[i], type)
           Bad(e) == ~e.ok \/ (e.toRes = Display!NotSet /\ e.toRate = Display!NotSet)
           deciding == {i \in DOMAIN es : Bad(q(i)) \/ ~Display!Skips(q(i), s, mode)}
           n == Display!Min(deciding)
<1>1. 1 \in deciding /\ deciding \in SUBSET Nat /\ \A i \in deciding : i >= 1
  OBVIOUS
<1>2. n = 1
  <2> HIDE DEF deciding
  <2>1. n \in deciding /\ n <= 1
    BY <1>1, MinIsLeast
  <2>2. n \in Nat /\ n >= 1
    BY <1>1, <2>1
  <2> HIDE DEF n
  <2> QED
    BY <2>1, <2>2
<1>3. r = IF Bad(q(n)) THEN Display!Failed
          ELSE [mode EXCEPT !.res = IF q(n).toRes # Display!NotSet THEN q(n).toRes ELSE @,
                            !.rate = IF q(n).toRate # Display!NotSet THEN q(n).toRate ELSE @]
  BY <1>1 DEF Display!RemapFrom
<1>4. q(n) = p
  BY <1>2
<1> HIDE DEF q, n
<1> QED
  BY <1>3, <1>4

\* What parse_configuration makes of any settings, any list and any client.
LEMMA ModeHolds == Display!ModeInv => Display!NoSopsNoResolution /\ Display!RemapsOnlyAutomatic
<1> SUFFICES ASSUME Display!ModeInv
             PROVE  Display!NoSopsNoResolution /\ Display!RemapsOnlyAutomatic
  OBVIOUS
<1> DEFINE r == Display!ParseResolutionOption(v1, v3, v4)
           f == Display!ParseRefreshRateOption(v2, v3, v4)
           type == Display!RemappingType(v1, v2)
           mode == [res |-> r.res, rate |-> f.rate, ok |-> TRUE]
           to == Display!RemapFrom(v5, type, v4, mode)
           result == Display!Result
           p(i) == Display!ParseEntry(v5[i], type)
<1>1. /\ v1 \in Display!Option /\ v2 \in Display!Option /\ v5 \in Seq(Display!Entry)
  BY DEF Display!ModeInv
<1>2. result = IF ~r.ok \/ ~f.ok THEN Display!Failed ELSE IF type = {} THEN mode ELSE to
  BY DEF Display!Result, Display!Parse
<1>3. /\ ~v4.sops => r.res = Display!NotSet
      /\ v1 = "disabled" => r.res = Display!NotSet /\ r.ok
      /\ v1 = "manual" => r.res \in {Display!NotSet, v3.value}
      /\ v2 = "disabled" => f.rate = Display!NotSet
      /\ v2 = "manual" => f.rate = v3.value
      /\ v2 = "automatic" => f.ok = v4.valid
  BY DEF Display!ParseResolutionOption, Display!ParseRefreshRateOption
<1>4. /\ mode.res = r.res /\ mode.rate = f.rate /\ mode.ok = TRUE
      /\ Display!Failed.res = Display!NotSet /\ Display!Failed.ok = FALSE
  BY DEF Display!Failed
<1>5. \A i \in DOMAIN v5 :
        /\ v1 # "automatic" => p(i).toRes = Display!NotSet /\ p(i).fromRes = Display!NotSet
        /\ v2 # "automatic" => p(i).toRate = Display!NotSet
        /\ ~Display!Skips(p(i), v4, mode) /\ ~v4.sops => p(i).toRes = Display!NotSet
  BY DEF Display!ParseEntry, Display!RemappingType, Display!Skips
<1>6. \/ to = mode
      \/ to = Display!Failed
      \/ \E i \in DOMAIN v5 : ~Display!Skips(p(i), v4, mode) /\ Replaces(to, p(i), mode)
  <2> DEFINE a == r.res
             b == f.rate
  <2>1. mode = [res |-> a, rate |-> b, ok |-> TRUE]
    OBVIOUS
  <2> HIDE DEF r, f, type, mode
  <2> QED
    BY <1>1, <2>1, Remaps
<1>7. ASSUME v1 = "disabled", v2 = "automatic", v4.valid, v5 # <<>>,
             v5[1].toRate.parses = "ok", v5[1].fromRate.parses = "empty"
      PROVE  result.rate = v5[1].toRate.value
  <2>1. v5[1] \in Display!Entry
    BY <1>1, <1>7
  <2>2. /\ v5[1].toRate.value \in Value /\ v5[1].fromRate.value = Display!NotSet
        /\ v5[1].toRate.value # Display!NotSet
    BY <1>7, <2>1, ModeAssumption DEF Display!Entry, Display!Text, Display!NotSet
  <2>3. type = {"rate"}
    BY <1>7 DEF Display!RemappingType
  <2>4. p(1).ok /\ p(1).toRate = v5[1].toRate.value /\ p(1).fromRate = Display!NotSet
        /\ p(1).fromRes = Display!NotSet /\ p(1).toRes = Display!NotSet
    BY <1>7, <2>2, <2>3 DEF Display!ParseEntry
  <2>5. ~Display!Skips(p(1), v4, mode)
    BY <2>4 DEF Display!Skips
  <2>6. to.rate = p(1).toRate
    <3> DEFINE a == r.res
               b == f.rate
               q == p(1)
    <3>1. mode = [res |-> a, rate |-> b, ok |-> TRUE]
      OBVIOUS
    <3>2. q = Display!ParseEntry(v5[1], type) /\ q.ok /\ q.toRate # Display!NotSet
          /\ ~Display!Skips(q, v4, mode)
      BY <2>2, <2>4, <2>5
    <3> HIDE DEF r, f, type, mode, q
    <3>3. to.rate = q.toRate
      BY <1>1, <1>7, <3>1, <3>2, FirstRemaps
    <3> QED
      BY <3>3 DEF q
  <2> HIDE DEF r, f, mode, to, result, p
  <2> QED
    BY <1>2, <1>3, <1>7, <2>3, <2>4, <2>6
<1> HIDE DEF r, f, type, mode, to, p
<1>8. ~v4.sops => result.res = Display!NotSet
  <2> HIDE DEF result
  <2> QED
    BY <1>2, <1>3, <1>4, <1>5, <1>6 DEF Replaces
<1>9. /\ result.ok /\ v1 # "automatic" => result.res \in {Display!NotSet, v3.value}
      /\ result.ok /\ v2 # "automatic" => result.rate \in {Display!NotSet, v3.value}
  <2> HIDE DEF result
  <2> QED
    BY <1>1, <1>2, <1>3, <1>4, <1>5, <1>6 DEF Replaces, Display!Option
<1> QED
  BY <1>7, <1>8, <1>9 DEF Display!NoSopsNoResolution, Display!RemapsOnlyAutomatic

\* Before anything is picked the settings are defaults.
LEMMA ModeStarts == Display!ModeInit => Display!ModeInv
<1> SUFFICES ASSUME Display!ModeInit PROVE Display!ModeInv
  OBVIOUS
<1>1. v3 \in Display!Text
  BY DEF Display!ModeInit, Display!Text
<1> QED
  BY <1>1 DEF Display!ModeInit, Display!ModeInv, Display!Option

\* The settings picked are settings.
LEMMA ModeStep == Display!ModeInv /\ [Display!ModeNext]_(Display!modeVars) => Display!ModeInv'
<1> SUFFICES ASSUME Display!ModeInv, [Display!ModeNext]_(Display!modeVars)
             PROVE  Display!ModeInv'
  OBVIOUS
<1>1. CASE Display!ModeNext
  <2>1. PICK n \in 0 .. MaxEntry : v5' \in [1 .. n -> Display!Entry]
    BY <1>1 DEF Display!ModeNext, Display!Pick
  <2>2. n \in Nat
    BY ModeAssumption
  <2>3. v5' \in Seq(Display!Entry)
    BY <2>1, <2>2
  <2> QED
    BY <1>1, <2>3 DEF Display!ModeNext, Display!Pick, Display!ModeInv
<1>2. CASE UNCHANGED Display!modeVars
  BY <1>2 DEF Display!modeVars, Display!ModeInv
<1> QED
  BY <1>1, <1>2

\* std::sort leaves the same entries in another order.
LEMMA SortedKeeps ==
  ASSUME NEW T, NEW s \in Seq(T), NEW t \in Ui!Sorted(s)
  PROVE  /\ t \in Seq(T) /\ DOMAIN t = DOMAIN s
         /\ Ui!Ids(t) = Ui!Ids(s)
         /\ \A i \in DOMAIN t : \E j \in DOMAIN s : t[i] = s[j]
         /\ (\A i, j \in DOMAIN s : s[i].id = s[j].id => i = j)
              => \A i, j \in DOMAIN t : t[i].id = t[j].id => i = j
<1>1. PICK f \in Ui!Bijection(DOMAIN s, DOMAIN s) : t = [i \in DOMAIN s |-> s[f[i]]]
  BY DEF Ui!Sorted
<1>2. /\ f \in [DOMAIN s -> DOMAIN s]
      /\ \A j \in DOMAIN s : \E i \in DOMAIN s : f[i] = j
      /\ \A i, j \in DOMAIN s : f[i] = f[j] => i = j
  BY <1>1 DEF Ui!Bijection, Ui!Surjection, Ui!Injection, Ui!IsInjective
<1>3. DOMAIN t = DOMAIN s /\ \A i \in DOMAIN s : t[i] = s[f[i]] /\ f[i] \in DOMAIN s
  BY <1>1, <1>2
<1>4. Ui!Ids(t) = Ui!Ids(s)
  <2>1. \A x : x \in Ui!Ids(t) <=> \E i \in DOMAIN t : x = t[i].id
    BY DEF Ui!Ids
  <2>2. \A x : x \in Ui!Ids(s) <=> \E i \in DOMAIN s : x = s[i].id
    BY DEF Ui!Ids
  <2>3. ASSUME NEW x, x \in Ui!Ids(t) PROVE x \in Ui!Ids(s)
    <3>1. PICK i \in DOMAIN t : x = t[i].id
      BY <2>1, <2>3
    <3>2. t[i] = s[f[i]] /\ f[i] \in DOMAIN s
      BY <1>3, <3>1
    <3> QED
      BY <2>2, <3>1, <3>2
  <2>4. ASSUME NEW x, x \in Ui!Ids(s) PROVE x \in Ui!Ids(t)
    <3>1. PICK j \in DOMAIN s : x = s[j].id
      BY <2>2, <2>4
    <3>2. PICK i \in DOMAIN s : f[i] = j
      BY <1>2, <3>1
    <3> QED
      BY <1>3, <2>1, <3>1, <3>2
  <2> QED
    BY <2>3, <2>4
<1>5. t \in Seq(T)
  <2>1. DOMAIN s = 1 .. Len(s) /\ Len(s) \in Nat /\ \A i \in DOMAIN s : s[i] \in T
    OBVIOUS
  <2>2. t = [i \in 1 .. Len(s) |-> t[i]] /\ \A i \in 1 .. Len(s) : t[i] \in T
    BY <1>1, <1>3, <2>1
  <2>3. t \in [1 .. Len(s) -> T]
    BY <2>2
  <2> QED
    BY <2>1, <2>3, SeqDef
<1>6. ASSUME \A i, j \in DOMAIN s : s[i].id = s[j].id => i = j
      PROVE  \A i, j \in DOMAIN t : t[i].id = t[j].id => i = j
  <2> SUFFICES ASSUME NEW i \in DOMAIN t, NEW j \in DOMAIN t, t[i].id = t[j].id
               PROVE  i = j
    OBVIOUS
  <2>1. f[i] = f[j]
    BY <1>3, <1>6
  <2> QED
    BY <1>2, <1>3, <2>1
<1>7. \A i \in DOMAIN t : \E j \in DOMAIN s : t[i] = s[j]
  BY <1>3
<1> QED
  BY <1>3, <1>4, <1>5, <1>6, <1>7

\* What the invariant says of the file while nothing is spoiled, with the entries
\* as a set E.
LEMMA ListFacts ==
  ASSUME Ui!ListInv, ~v7, NEW E, E = [name : Name, id : Nat]
  PROVE  /\ v3 \in Seq(E) /\ Len(v3) \in Nat /\ DOMAIN v3 = 1 .. Len(v3) /\ v5 \in Nat
         /\ Ui!Ids(v3) = v6 /\ Len(FirstApps) \in Nat
         /\ \A i \in DOMAIN v3 : v3[i] \in E /\ v3[i].id \in Nat /\ v3[i].id <= Len(FirstApps) + v5
         /\ \A i, j \in DOMAIN v3 : v3[i].id = v3[j].id => i = j
<1> DEFINE F == [name : Name, id : Nat]
<1>1. v3 \in Seq(F) /\ E = F
  BY DEF Ui!ListInv
<1>2. \A e \in F : e.id \in Nat
  OBVIOUS
<1> HIDE DEF F
<1>3. \A i \in DOMAIN v3 : v3[i] \in F
  BY <1>1
<1>4. \A i \in DOMAIN v3 : v3[i].id \in Nat
  BY <1>2, <1>3
<1>5. Len(v3) \in Nat /\ DOMAIN v3 = 1 .. Len(v3) /\ Len(FirstApps) \in Nat
  BY <1>1, UiAssumption
<1> QED
  BY <1>1, <1>3, <1>4, <1>5 DEF Ui!ListInv

\* A list of entries with these ids, each its own and none above top.
Lists(t, ids, top) ==
  /\ t \in Seq([name : Name, id : Nat])
  /\ Ui!Ids(t) = ids
  /\ \A i \in DOMAIN t : t[i].id <= top
  /\ \A i, j \in DOMAIN t : t[i].id = t[j].id => i = j

\* saveApp: the new entry, whose id is larger than all, comes in and the old one of
\* that place goes.
LEMMA SavedIds ==
  ASSUME Ui!ListInv, ~v7, NEW name \in Name, NEW index \in 0 .. Len(v3),
         NEW e, e = [name |-> name, id |-> Len(FirstApps) + v5 + 1],
         NEW old, old = IF index = 0 THEN {} ELSE {v3[index].id},
         NEW t \in Ui!Saved(index, e)
  PROVE  Lists(t, (v6 \ old) \cup {e.id}, Len(FirstApps) + v5 + 1)
<1> DEFINE E == [name : Name, id : Nat]
           n == Len(FirstApps) + v5 + 1
           a == v3
           s == IF index = 0 THEN Append(a, e)
                ELSE [i \in DOMAIN a |-> IF i = index THEN e ELSE a[i]]
           Fits(q) == /\ q \in Seq(E)
                      /\ Ui!Ids(q) = (v6 \ old) \cup {n}
                      /\ \A i \in DOMAIN q : q[i].id <= n
                      /\ \A i, j \in DOMAIN q : q[i].id = q[j].id => i = j
<1>1. /\ a \in Seq(E) /\ Len(a) \in Nat /\ DOMAIN a = 1 .. Len(a) /\ v5 \in Nat
      /\ Ui!Ids(a) = v6 /\ Len(FirstApps) \in Nat
      /\ \A i \in DOMAIN a : a[i] \in E /\ a[i].id \in Nat /\ a[i].id < n
      /\ \A i, j \in DOMAIN a : a[i].id = a[j].id => i = j
  <2> HIDE DEF E
  <2>1. /\ a \in Seq(E) /\ Len(a) \in Nat /\ DOMAIN a = 1 .. Len(a) /\ v5 \in Nat
        /\ Ui!Ids(a) = v6 /\ Len(FirstApps) \in Nat
        /\ \A i \in DOMAIN a : a[i] \in E /\ a[i].id \in Nat /\ a[i].id <= Len(FirstApps) + v5
        /\ \A i, j \in DOMAIN a : a[i].id = a[j].id => i = j
    BY ListFacts DEF E
  <2> QED
    BY <2>1
<1>2. e \in E /\ e.id = n /\ n \in Nat
  BY <1>1
<1>3. \A x : x \in v6 <=> \E i \in DOMAIN a : x = a[i].id
  BY <1>1 DEF Ui!Ids
<1> HIDE DEF E, n, a
<1>4. ASSUME index = 0 PROVE Fits(s)
  <2>1. /\ s = Append(a, e) /\ s \in Seq(E) /\ DOMAIN s = 1 .. Len(a) + 1 /\ s[Len(a) + 1] = e
        /\ \A i \in DOMAIN a : s[i] = a[i]
    BY <1>1, <1>2, <1>4
  <2> HIDE DEF s
  <2>2. \A x : x \in Ui!Ids(s) <=> \E i \in DOMAIN s : x = s[i].id
    BY DEF Ui!Ids
  <2>3. \A x : x \in Ui!Ids(s) <=> x \in v6 \/ x = n
    BY <1>1, <1>2, <1>3, <2>1, <2>2
  <2>4. Ui!Ids(s) = (v6 \ old) \cup {n}
    BY <1>4, <2>3 DEF a
  <2>5. \A i \in DOMAIN s : i = Len(a) + 1 \/ i \in DOMAIN a
    BY <1>1, <2>1
  <2>6. \A i \in DOMAIN s : s[i].id <= n
    BY <1>1, <1>2, <2>1, <2>5
  <2>7. \A i, j \in DOMAIN s : s[i].id = s[j].id => i = j
    BY <1>1, <1>2, <2>1, <2>5
  <2> QED
    BY <2>1, <2>4, <2>6, <2>7
<1>5. ASSUME index # 0 PROVE Fits(s)
  <2>1. /\ DOMAIN s = DOMAIN a /\ index \in DOMAIN a /\ s[index] = e
        /\ \A i \in DOMAIN a : i # index => s[i] = a[i]
    BY <1>1, <1>5 DEF a
  <2>2. s \in Seq(E)
    <3>1. s = [i \in 1 .. Len(a) |-> s[i]] /\ \A i \in 1 .. Len(a) : s[i] \in E
      BY <1>1, <1>2, <1>5
    <3> HIDE DEF s
    <3>2. s \in [1 .. Len(a) -> E]
      BY <3>1
    <3> QED
      BY <1>1, <3>2, SeqDef
  <2> HIDE DEF s
  <2>3. \A x : x \in Ui!Ids(s) <=> \E i \in DOMAIN s : x = s[i].id
    BY DEF Ui!Ids
  <2>4. \A x : x \in Ui!Ids(s) <=> (x \in v6 /\ x # a[index].id) \/ x = n
    <3>1. ASSUME NEW x, x \in Ui!Ids(s) PROVE (x \in v6 /\ x # a[index].id) \/ x = n
      <4>1. PICK i \in DOMAIN s : x = s[i].id
        BY <2>3, <3>1
      <4>2. CASE i = index
        BY <1>2, <2>1, <4>1, <4>2
      <4>3. CASE i # index
        <5>1. s[i] = a[i] /\ i \in DOMAIN a
          BY <2>1, <4>3
        <5> QED
          BY <1>1, <1>3, <2>1, <4>1, <4>3, <5>1
      <4> QED
        BY <4>2, <4>3
    <3>2. ASSUME NEW x, x \in v6, x # a[index].id PROVE x \in Ui!Ids(s)
      <4>1. PICK i \in DOMAIN a : x = a[i].id
        BY <1>3, <3>2
      <4>2. i # index /\ s[i] = a[i]
        BY <2>1, <3>2, <4>1
      <4> QED
        BY <2>1, <2>3, <4>1, <4>2
    <3>3. n \in Ui!Ids(s)
      BY <1>2, <2>1, <2>3
    <3> QED
      BY <3>1, <3>2, <3>3
  <2>5. Ui!Ids(s) = (v6 \ old) \cup {n}
    BY <1>5, <2>4 DEF a
  <2>6. \A i \in DOMAIN s : s[i].id <= n
    BY <1>1, <1>2, <2>1
  <2>7. ASSUME NEW i \in DOMAIN s, NEW j \in DOMAIN s, s[i].id = s[j].id PROVE i = j
    <3>1. \A k \in DOMAIN a : a[k].id # n /\ (k # index => s[k].id = a[k].id)
      BY <1>1, <2>1
    <3>2. CASE i = index \/ j = index
      BY <1>2, <2>1, <2>7, <3>1, <3>2
    <3>3. CASE i # index /\ j # index
      BY <1>1, <2>1, <2>7, <3>1, <3>3
    <3> QED
      BY <3>2, <3>3
  <2> QED
    BY <2>2, <2>5, <2>6, <2>7
<1>6. Fits(s)
  BY <1>4, <1>5
<1>7. t \in Ui!Sorted(s)
  BY DEF Ui!Saved, a
<1> HIDE DEF s
<1>8. /\ t \in Seq(E) /\ Ui!Ids(t) = Ui!Ids(s)
      /\ \A i \in DOMAIN t : \E j \in DOMAIN s : t[i] = s[j]
      /\ \A i, j \in DOMAIN t : t[i].id = t[j].id => i = j
  BY <1>6, <1>7, SortedKeeps
<1> QED
  BY <1>2, <1>6, <1>8 DEF Lists, E, n, a

\* deleteApp: one id goes.
LEMMA DeletedIds ==
  ASSUME Ui!ListInv, ~v7, NEW index \in DOMAIN v3, NEW t \in Ui!Deleted(index)
  PROVE  Lists(t, v6 \ {v3[index].id}, Len(FirstApps) + v5)
<1> DEFINE E == [name : Name, id : Nat]
           At(i) == IF i < index THEN i ELSE i + 1
           D == 1 .. (Len(v3) - 1)
<1>1. /\ v3 \in Seq(E) /\ Len(v3) \in Nat /\ DOMAIN v3 = 1 .. Len(v3) /\ v5 \in Nat
      /\ Ui!Ids(v3) = v6 /\ Len(FirstApps) \in Nat
      /\ \A i \in DOMAIN v3 : v3[i] \in E /\ v3[i].id \in Nat /\ v3[i].id <= Len(FirstApps) + v5
      /\ \A i, j \in DOMAIN v3 : v3[i].id = v3[j].id => i = j
  <2> HIDE DEF E
  <2> QED
    BY ListFacts DEF E
<1> HIDE DEF E
<1>2. index \in 1 .. Len(v3) /\ Len(v3) - 1 \in Nat
  BY <1>1
<1>3. /\ \A i \in D : At(i) \in DOMAIN v3 /\ At(i) # index
      /\ \A i, j \in D : At(i) = At(j) => i = j
      /\ \A k \in DOMAIN v3 : k # index => \E i \in D : At(i) = k
  <2>1. \A i \in D : At(i) \in DOMAIN v3 /\ At(i) # index
    BY <1>1, <1>2
  <2>2. \A i, j \in D : At(i) = At(j) => i = j
    BY <1>1, <1>2
  <2>3. ASSUME NEW k \in DOMAIN v3, k # index PROVE \E i \in D : At(i) = k
    <3>1. CASE k < index
      <4>1. k \in D /\ At(k) = k
        BY <1>1, <1>2, <3>1
      <4> QED
        BY <4>1
    <3>2. CASE k > index
      <4>1. k - 1 \in D /\ At(k - 1) = k
        BY <1>1, <1>2, <3>2
      <4> QED
        BY <4>1
    <3> QED
      BY <1>1, <1>2, <2>3, <3>1, <3>2
  <2> QED
    BY <2>1, <2>2, <2>3
<1>4. /\ t = [i \in 1 .. (Len(v3) - 1) |-> t[i]] /\ DOMAIN t = D
      /\ \A i \in D : t[i] = v3[At(i)]
  BY DEF Ui!Deleted
<1>5. t \in Seq(E)
  <2>1. \A i \in 1 .. (Len(v3) - 1) : t[i] \in E
    BY <1>1, <1>3, <1>4
  <2>2. t \in [1 .. (Len(v3) - 1) -> E]
    BY <1>4, <2>1
  <2> QED
    BY <1>2, <2>2, SeqDef
<1> HIDE DEF At, D
<1>6. \A x : x \in Ui!Ids(t) <=> \E i \in D : x = v3[At(i)].id
  BY <1>4 DEF Ui!Ids
<1>7. \A x : x \in v6 <=> \E k \in DOMAIN v3 : x = v3[k].id
  BY <1>1 DEF Ui!Ids
<1>8. \A x : x \in Ui!Ids(t) <=> x \in v6 /\ x # v3[index].id
  BY <1>1, <1>3, <1>6, <1>7, SMTT(40)
<1>9. Ui!Ids(t) = v6 \ {v3[index].id}
  BY <1>8
<1>10. \A i \in DOMAIN t : t[i].id <= Len(FirstApps) + v5
  BY <1>1, <1>3, <1>4
<1>11. ASSUME NEW i \in DOMAIN t, NEW j \in DOMAIN t, t[i].id = t[j].id PROVE i = j
  <2>1. i \in D /\ j \in D /\ v3[At(i)].id = v3[At(j)].id
    BY <1>4, <1>11
  <2>2. At(i) \in DOMAIN v3 /\ At(j) \in DOMAIN v3
    BY <1>3, <2>1
  <2>3. At(i) = At(j)
    BY <1>1, <2>1, <2>2
  <2> QED
    BY <1>3, <2>1, <2>3
<1> QED
  BY <1>5, <1>9, <1>10, <1>11 DEF Lists, E

\* Nothing is lost: an edit of the current list that is written changes the file as
\* it changes what is meant, one of an outdated list spoils it, and the rest of the
\* web UI leaves it alone.
LEMMA ListStep == Ui!ListInv /\ [Ui!Next]_(Ui!uiVars) => Ui!ListInv'
<1> SUFFICES ASSUME Ui!ListInv, [Ui!Next]_(Ui!uiVars) PROVE Ui!ListInv'
  OBVIOUS
<1>1. CASE UNCHANGED <<v3, v5, v6, v7>>
  BY <1>1 DEF Ui!ListInv, Ui!Ids
<1>2. ASSUME NEW t \in Tab, NEW index \in Nat, NEW name \in Name, Ui!SaveApp(t, index, name)
      PROVE  Ui!ListInv'
  <2> DEFINE e == [name |-> name, id |-> Len(FirstApps) + v5 + 1]
             old == IF index = 0 THEN {} ELSE {v4[t][index].id}
  <2>1. v5 \in Nat /\ v5' = v5 + 1 /\ index \in 0 .. Len(v4[t])
    BY <1>2 DEF Ui!SaveApp, Ui!ListInv
  <2>2. CASE v7'
    BY <2>1, <2>2 DEF Ui!ListInv
  <2>3. CASE ~v7'
    <3>1. ~v7 /\ v4[t] = v3 /\ v3' \in Ui!Saved(index, e)
          /\ v6' = (v6 \ old) \cup {e.id}
      BY <1>2, <2>3 DEF Ui!SaveApp, Ui!WriteApps
    <3>2. index \in 0 .. Len(v3) /\ old = IF index = 0 THEN {} ELSE {v3[index].id}
      BY <2>1, <3>1
    <3>3. e = [name |-> name, id |-> Len(FirstApps) + v5 + 1]
      OBVIOUS
    <3> HIDE DEF e, old
    <3>4. Lists(v3', (v6 \ old) \cup {e.id}, Len(FirstApps) + v5 + 1)
      BY <3>1, <3>2, <3>3, SavedIds
    <3>5. Len(FirstApps) \in Nat
      BY UiAssumption
    <3>6. Len(FirstApps) + v5 + 1 = Len(FirstApps) + v5'
      BY <2>1, <3>5
    <3>7. Ui!Ids(v3)' = v6'
      BY <3>1, <3>4 DEF Ui!Ids, Lists
    <3> QED
      BY <2>1, <3>4, <3>6, <3>7 DEF Lists, Ui!ListInv
  <2> QED
    BY <2>2, <2>3
<1>3. ASSUME NEW t \in Tab, NEW index \in Nat, Ui!DeleteApp(t, index) PROVE Ui!ListInv'
  <2>1. v5' = v5 /\ v5 \in Nat
    BY <1>3 DEF Ui!DeleteApp, Ui!ListInv
  <2>2. CASE v7'
    BY <2>1, <2>2 DEF Ui!ListInv
  <2>3. CASE ~v7'
    <3>1. ~v7 /\ v4[t] = v3 /\ v3' \in Ui!Deleted(index) /\ index \in DOMAIN v3
          /\ v6' = v6 \ {v3[index].id}
      BY <1>3, <2>3 DEF Ui!DeleteApp, Ui!WriteApps
    <3>2. Lists(v3', v6 \ {v3[index].id}, Len(FirstApps) + v5)
      BY <3>1, DeletedIds
    <3>3. Ui!Ids(v3)' = v6'
      BY <3>1, <3>2 DEF Ui!Ids, Lists
    <3> QED
      BY <2>1, <3>2, <3>3 DEF Lists, Ui!ListInv
  <2> QED
    BY <2>2, <2>3
<1>4. CASE Ui!LoginNext
  BY <1>1, <1>4 DEF Ui!LoginNext, Ui!Restart, Ui!SavePassword, Ui!appsVars
<1>5. ASSUME NEW t \in Tab, Ui!GetApps(t) PROVE Ui!ListInv'
  BY <1>1, <1>5 DEF Ui!GetApps
<1>6. CASE Ui!TokensNext \/ Ui!ClientsNext
  BY <1>1, <1>6 DEF Ui!TokensNext, Ui!ClientsNext, Ui!appsVars, Ui!Tick, Ui!GetToken,
     Ui!CheckToken, Ui!UnpairAll, Ui!CloseApp, Ui!Admit, Ui!StartSession, Ui!EndSession,
     Ui!Unpair, Ui!UpdateClient
<1>7. CASE UNCHANGED Ui!uiVars
  BY <1>1, <1>7 DEF Ui!uiVars, Ui!appsVars
<1>8. \A i \in 0 .. (MaxSave + Len(FirstApps)) : i \in Nat
  OBVIOUS
<1> QED
  BY <1>2, <1>3, <1>4, <1>5, <1>6, <1>7, <1>8 DEF Ui!Next, Ui!AppsNext

\* The web UI starts with the file as it is meant, without a login or a token.
LEMMA UiInit == Ui!Init => Ui!ListInv /\ Ui!TokenInv /\ Ui!LoginSurvives
<1> SUFFICES ASSUME Ui!Init PROVE Ui!ListInv /\ Ui!TokenInv /\ Ui!LoginSurvives
  OBVIOUS
<1>1. v3 = FirstApps /\ v5 = 0 /\ v6 = Ui!Ids(v3)
  BY DEF Ui!Init
<1>2. Len(FirstApps) \in Nat /\ DOMAIN FirstApps = 1 .. Len(FirstApps)
  BY UiAssumption
<1>3. /\ \A i \in DOMAIN v3 : v3[i].id = i
      /\ v3 \in Seq([name : Name, id : Nat])
  BY <1>1, UiAssumption
<1>4. /\ \A i \in DOMAIN v3 : v3[i].id <= Len(FirstApps) + v5
      /\ \A i, j \in DOMAIN v3 : v3[i].id = v3[j].id => i = j
  BY <1>1, <1>2, <1>3
<1>5. Ui!ListInv
  BY <1>1, <1>3, <1>4 DEF Ui!ListInv
<1>6. Ui!TokenInv
  BY DEF Ui!Init, Ui!TokenInv
<1>7. Ui!LoginSurvives
  BY DEF Ui!Init, Ui!LoginSurvives
<1> QED
  BY <1>5, <1>6, <1>7

\* The loop of parse: the function that defines it exists.
LEMMA ParsedUnfolds ==
  ASSUME NEW T, NEW list \in Seq(T)
  PROVE  Apps!ParsedUpTo(list) =
           [n \in 0 .. Len(list) |->
             IF n = 0 THEN <<>>
             ELSE Append(Apps!ParsedUpTo(list)[n - 1],
                         Apps!Identified(Apps!ParsedUpTo(list)[n - 1], list[n]))]
<1> DEFINE Next1(acc, n) == Append(acc, Apps!Identified(acc, list[n]))
           P(f, l) == f = [n \in 0 .. l |-> IF n = 0 THEN <<>> ELSE Next1(f[n - 1], n)]
           S == {l \in Nat : ~ \E f : P(f, l)}
<1> HIDE DEF Next1
<1>1. S = {}
  <2> SUFFICES ASSUME S # {} PROVE FALSE
    OBVIOUS
  <2>1. PICK l \in S : \A y \in S : l <= y
    BY LeastNat
  <2>2. P([n \in 0 .. 0 |-> <<>>], 0)
    OBVIOUS
  <2>3. l # 0 /\ l \in Nat
    BY <2>1, <2>2
  <2>4. l - 1 \in Nat /\ l - 1 \notin S
    <3> HIDE DEF S
    <3> QED
      BY <2>1, <2>3
  <2>5. PICK f : P(f, l - 1)
    BY <2>4
  <2> DEFINE g == [n \in 0 .. l |-> IF n = l THEN Next1(f[l - 1], l) ELSE f[n]]
  <2>6. \A n \in 0 .. l : g[n] = IF n = 0 THEN <<>> ELSE Next1(g[n - 1], n)
    BY <2>3, <2>4, <2>5
  <2>7. P(g, l)
    BY <2>6
  <2> QED
    BY <2>1, <2>7
<1>2. Len(list) \in Nat
  OBVIOUS
<1>3. \E f : P(f, Len(list))
  BY <1>1, <1>2
<1>4. P(CHOOSE f : P(f, Len(list)), Len(list))
  BY <1>3
<1> QED
  BY <1>4 DEF Apps!ParsedUpTo, Next1

\* An application with a name is one of App.
LEMMA NamedIsTyped ==
  ASSUME NEW a \in App \cup {Apps!Nameless}, a.name # None
  PROVE  a \in App /\ a.name \in Seq(Apps!Letter \ {"#"}) \ {<<>>} /\ a.image \in BOOLEAN
BY AppsAssumption DEF Apps!Nameless

\* What calculate_app_id hashes is a text, whichever of the two is taken.
LEMMA AppIdIsText ==
  ASSUME NEW name \in Seq(Apps!Letter), NEW image \in BOOLEAN, NEW n \in 0 .. Len(Digit) - 1, NEW ids
  PROVE  Apps!NewId(ids, Apps!AppId(name, image, n)) \in Seq(Apps!Letter)
<1> DEFINE text == name \o (IF image THEN <<"#">> ELSE <<>>)
<1>1. "#" \in Apps!Letter
  BY DEF Apps!Letter
<1>2. Digit[n + 1] \in Apps!Letter
  BY AppsAssumption
<1> HIDE DEF Apps!Letter
<1>3. text \in Seq(Apps!Letter)
  <2>1. <<"#">> \in Seq(Apps!Letter) /\ <<>> \in Seq(Apps!Letter)
    BY <1>1
  <2> QED
    BY <2>1
<1> HIDE DEF text
<1>4. Append(text, Digit[n + 1]) \in Seq(Apps!Letter)
  BY <1>2, <1>3
<1> QED
  BY <1>3, <1>4 DEF Apps!NewId, Apps!AppId, text

\* An application put behind a list whose ids are given gets one, too, and changes
\* none before it.
LEMMA IdentifiedGives ==
  ASSUME NEW acc \in Seq(Apps!LoadedApp), Len(acc) < MaxApps, Apps!GivenIds(acc),
         NEW a \in App \cup {Apps!Nameless}, a.name # None
  PROVE  /\ Append(acc, Apps!Identified(acc, a)) \in Seq(Apps!LoadedApp)
         /\ Apps!GivenIds(Append(acc, Apps!Identified(acc, a)))
<1> DEFINE x == Apps!Identified(acc, a)
           ids == {acc[i].id : i \in DOMAIN acc}
           n == Len(acc)
           y == Append(acc, x)
<1>1. a \in App /\ a.name \in Seq(Apps!Letter) /\ a.image \in BOOLEAN
  <2>1. a \in App /\ a.name \in Seq(Apps!Letter \ {"#"}) /\ a.image \in BOOLEAN
    BY NamedIsTyped
  <2> QED
    BY <2>1, SeqMonotonic
<1>2. n \in 0 .. Len(Digit) - 1
  BY AppsAssumption
<1>3. x = [name |-> a.name, image |-> a.image,
           id |-> Apps!NewId(ids, Apps!AppId(a.name, a.image, n))]
  BY DEF Apps!Identified
<1>4. Apps!NewId(ids, Apps!AppId(a.name, a.image, n)) \in Seq(Apps!Letter)
  BY <1>1, <1>2, AppIdIsText
<1>5. x \in Apps!LoadedApp
  BY <1>1, <1>3, <1>4 DEF Apps!LoadedApp
<1>6. x.name = a.name /\ x.image = a.image
      /\ x.id = Apps!NewId(ids, Apps!AppId(a.name, a.image, n))
  BY <1>3
<1> HIDE DEF x
<1>7. /\ y \in Seq(Apps!LoadedApp) /\ DOMAIN y = 1 .. n + 1 /\ y[n + 1] = x
      /\ \A i \in 1 .. n : y[i] = acc[i]
      /\ n \in Nat /\ DOMAIN acc = 1 .. n
  BY <1>5
<1> HIDE DEF n, y
<1>8. \A i \in 1 .. n : Apps!Before(y, i) = Apps!Before(acc, i)
  BY <1>7 DEF Apps!Before
<1>9. Apps!Before(y, n + 1) = ids
  <2>1. n + 1 - 1 = n
    BY <1>7
  <2> QED
    BY <1>7, <2>1 DEF Apps!Before
<1> HIDE DEF ids
<1>10. ASSUME NEW i \in DOMAIN y
       PROVE  y[i].id = Apps!NewId(Apps!Before(y, i), Apps!AppId(y[i].name, y[i].image, i - 1))
  <2>1. CASE i = n + 1
    <3>1. i - 1 = n
      BY <1>7, <2>1
    <3> QED
      BY <1>6, <1>7, <1>9, <2>1, <3>1
  <2>2. CASE i # n + 1
    <3>1. i \in 1 .. n /\ i \in DOMAIN acc /\ y[i] = acc[i]
      BY <1>7, <2>2
    <3>2. acc[i].id = Apps!NewId(Apps!Before(acc, i), Apps!AppId(acc[i].name, acc[i].image, i - 1))
      BY <3>1 DEF Apps!GivenIds
    <3> QED
      BY <1>8, <3>1, <3>2
  <2> QED
    BY <2>1, <2>2
<1> QED
  BY <1>7, <1>10 DEF y, x, Apps!GivenIds

\* parse gives every application of a list an id, and keeps their order.
LEMMA ParseGives ==
  ASSUME NEW list \in Seq(App \cup {Apps!Nameless}), Len(list) <= MaxApps,
         \A i \in DOMAIN list : list[i].name # None
  PROVE  /\ Apps!ParsedUpTo(list)[Len(list)] \in Seq(Apps!LoadedApp)
         /\ Len(Apps!ParsedUpTo(list)[Len(list)]) = Len(list)
         /\ Apps!GivenIds(Apps!ParsedUpTo(list)[Len(list)])
<1> DEFINE f == Apps!ParsedUpTo(list)
           Good(n) == f[n] \in Seq(Apps!LoadedApp) /\ Len(f[n]) = n /\ Apps!GivenIds(f[n])
           S == {n \in 0 .. Len(list) : ~Good(n)}
<1>1. \A n \in 0 .. Len(list) :
        f[n] = IF n = 0 THEN <<>> ELSE Append(f[n - 1], Apps!Identified(f[n - 1], list[n]))
  BY ParsedUnfolds
<1>2. Len(list) \in Nat /\ MaxApps \in Nat
  BY AppsAssumption
<1> HIDE DEF f
<1>3. Good(0)
  <2>1. f[0] = <<>>
    BY <1>1, <1>2
  <2> QED
    BY <2>1 DEF Apps!GivenIds
<1>4. ASSUME NEW n \in 1 .. Len(list), Good(n - 1) PROVE Good(n)
  <2> DEFINE acc == f[n - 1]
             a == list[n]
  <2>1. acc \in Seq(Apps!LoadedApp) /\ Len(acc) = n - 1 /\ Apps!GivenIds(acc) /\ Len(acc) < MaxApps
    BY <1>2, <1>4
  <2>2. a \in App \cup {Apps!Nameless} /\ a.name # None
    OBVIOUS
  <2>3. f[n] = Append(acc, Apps!Identified(acc, a))
    <3>1. n \in 0 .. Len(list) /\ n # 0
      BY <1>2
    <3>2. f[n] = IF n = 0 THEN <<>> ELSE Append(f[n - 1], Apps!Identified(f[n - 1], list[n]))
      BY <1>1, <3>1
    <3> QED
      BY <3>1, <3>2
  <2> HIDE DEF acc, a
  <2>4. f[n] \in Seq(Apps!LoadedApp) /\ Apps!GivenIds(f[n])
    BY <2>1, <2>2, <2>3, IdentifiedGives
  <2>5. Len(f[n]) = n
    BY <1>2, <2>1, <2>3
  <2> QED
    BY <2>4, <2>5
<1>5. S = {}
  <2> SUFFICES ASSUME S # {} PROVE FALSE
    OBVIOUS
  <2>1. S \in SUBSET Nat
    OBVIOUS
  <2>2. PICK n \in S : \A y \in S : n <= y
    <3> HIDE DEF S
    <3> QED
      BY <2>1, LeastNat
  <2> HIDE DEF Good
  <2>3. n \in 0 .. Len(list) /\ ~Good(n)
    BY <2>2
  <2>4. n \in 1 .. Len(list)
    BY <1>2, <1>3, <2>3
  <2>5. n - 1 \notin S /\ n - 1 \in 0 .. Len(list)
    <3> HIDE DEF S
    <3> QED
      BY <1>2, <2>1, <2>2, <2>4
  <2>6. Good(n - 1)
    BY <2>5
  <2> QED
    BY <1>4, <2>3, <2>4, <2>6
<1> HIDE DEF Good
<1>6. Good(Len(list))
  BY <1>2, <1>5
<1> QED
  BY <1>6 DEF Good, f

\* Nothing is loaded before the first refresh.
LEMMA LoadedInit == Apps!Init => Apps!LoadedInv
<1> SUFFICES ASSUME Apps!Init PROVE Apps!LoadedInv
  OBVIOUS
<1>1. v3 = <<>> /\ v4 = <<>> /\ MaxApps \in Nat
  BY AppsAssumption DEF Apps!Init
<1> QED
  BY <1>1 DEF Apps!LoadedInv, Apps!GivenIds

\* An edit changes the file, and refresh the list to what parse makes of it.
LEMMA LoadedStep == Apps!LoadedInv /\ [Apps!Next]_(Apps!fileVars) => Apps!LoadedInv'
<1> SUFFICES ASSUME Apps!LoadedInv, [Apps!Next]_(Apps!fileVars) PROVE Apps!LoadedInv'
  OBVIOUS
<1> DEFINE T == App \cup {Apps!Nameless}
<1>1. v3 \in Seq(T) /\ Len(v3) <= MaxApps /\ MaxApps \in Nat /\ Len(v3) \in Nat
  BY AppsAssumption DEF Apps!LoadedInv
<1> HIDE DEF T
<1>2. ASSUME v3' \in Seq(T), Len(v3') <= MaxApps, v4' = v4 PROVE Apps!LoadedInv'
  BY <1>2 DEF Apps!LoadedInv, Apps!GivenIds, Apps!Before, T
<1>3. CASE Apps!Edit
  <2>1. ASSUME Len(v3) < MaxApps, NEW i \in 1 .. Len(v3) + 1, NEW a \in T, v3' = Apps!InsertAt(v3, i, a)
        PROVE  v3' \in Seq(T) /\ Len(v3') <= MaxApps
    <3> DEFINE b == SubSeq(v3, 1, i - 1)
               c == SubSeq(v3, i, Len(v3))
    <3>1. b \in Seq(T) /\ c \in Seq(T) /\ Len(b) = i - 1 /\ Len(c) = Len(v3) - i + 1
      BY <1>1
    <3> HIDE DEF b, c
    <3>2. v3' = b \o <<a>> \o c
      BY <2>1 DEF Apps!InsertAt, b, c
    <3>3. v3' \in Seq(T) /\ Len(v3') = Len(b) + 1 + Len(c)
      BY <3>1, <3>2
    <3> QED
      BY <1>1, <2>1, <3>1, <3>3
  <2>2. ASSUME NEW i \in DOMAIN v3, v3' = Apps!RemoveAt(v3, i)
        PROVE  v3' \in Seq(T) /\ Len(v3') <= MaxApps
    <3> DEFINE b == SubSeq(v3, 1, i - 1)
               c == SubSeq(v3, i + 1, Len(v3))
    <3>1. b \in Seq(T) /\ c \in Seq(T) /\ Len(b) = i - 1 /\ Len(c) = Len(v3) - i
      BY <1>1
    <3> HIDE DEF b, c
    <3>2. v3' = b \o c
      BY <2>2 DEF Apps!RemoveAt, b, c
    <3>3. v3' \in Seq(T) /\ Len(v3') = Len(b) + Len(c)
      BY <3>1, <3>2, ConcatProperties
    <3> QED
      BY <1>1, <3>1, <3>3
  <2> QED
    BY <1>2, <1>3, <2>1, <2>2 DEF Apps!Edit, T
<1>4. CASE Apps!Refresh
  <2>1. CASE Apps!Parse(v3) = None
    BY <1>1, <1>2, <1>4, <2>1 DEF Apps!Refresh
  <2>2. CASE Apps!Parse(v3) # None
    <3>1. \A i \in DOMAIN v3 : v3[i].name # None
      BY <2>2 DEF Apps!Parse
    <3>2. v4' = Apps!ParsedUpTo(v3)[Len(v3)] /\ v3' = v3
      BY <1>4, <2>2, <3>1 DEF Apps!Refresh, Apps!Parse
    <3>3. v4' \in Seq(Apps!LoadedApp) /\ Len(v4') = Len(v3) /\ Apps!GivenIds(v4')
      BY <1>1, <3>1, <3>2, ParseGives DEF T
    <3>4. Apps!GivenIds(v4)'
      BY <3>3 DEF Apps!GivenIds, Apps!Before
    <3> QED
      BY <1>1, <3>2, <3>3, <3>4 DEF Apps!LoadedInv, T
  <2> QED
    BY <2>1, <2>2
<1>5. CASE Apps!TextNext \/ UNCHANGED Apps!fileVars
  BY <1>1, <1>2, <1>5 DEF Apps!TextNext, Apps!PickText, Apps!PickImage, Apps!fileVars
<1> QED
  BY <1>3, <1>4, <1>5 DEF Apps!Next, Apps!ListNext

\* The text that is hashed without the index.
PlainText(name, image) == name \o (IF image THEN <<"#">> ELSE <<>>)

\* It tells names and images apart.
LEMMA TextTells ==
  ASSUME NEW a \in Seq(Apps!Letter \ {"#"}), NEW b \in Seq(Apps!Letter \ {"#"}),
         NEW p \in BOOLEAN, NEW q \in BOOLEAN, PlainText(a, p) = PlainText(b, q)
  PROVE  a = b /\ p = q
<1> DEFINE L == Apps!Letter \ {"#"}
<1> HIDE DEF L
<1>1. \A c \in Seq(L) : PlainText(c, FALSE) = c
  BY DEF PlainText
<1>2. \A c \in Seq(L) : PlainText(c, TRUE) = Append(c, "#")
  <2> SUFFICES ASSUME NEW c \in Seq(L) PROVE c \o <<"#">> = Append(c, "#")
    BY DEF PlainText
  <2> QED
    OBVIOUS
<1>3. \A c \in Seq(L) : \A i \in 1 .. Len(c) : c[i] # "#"
  <2> SUFFICES ASSUME NEW c \in Seq(L), NEW i \in 1 .. Len(c) PROVE c[i] # "#"
    OBVIOUS
  <2>1. c[i] \in L
    OBVIOUS
  <2> QED
    BY <2>1 DEF L
<1>4. ASSUME NEW c \in Seq(L), NEW d \in Seq(L), c = Append(d, "#") PROVE FALSE
  <2>1. Len(c) = Len(d) + 1 /\ c[Len(c)] = "#" /\ Len(d) \in Nat
    BY <1>4
  <2> QED
    BY <1>3, <2>1
<1>5. ASSUME NEW c \in Seq(L), NEW d \in Seq(L), Append(c, "#") = Append(d, "#") PROVE c = d
  <2>1. Len(c) = Len(d) /\ \A i \in 1 .. Len(c) : c[i] = d[i]
    <3>1. Len(c) + 1 = Len(d) + 1 /\ Len(c) \in Nat /\ Len(d) \in Nat
      BY <1>5
    <3>2. \A i \in 1 .. Len(c) : c[i] = Append(c, "#")[i] /\ d[i] = Append(d, "#")[i]
      BY <3>1
    <3> QED
      BY <1>5, <3>1, <3>2
  <2> QED
    BY <2>1
<1>6. a \in Seq(L) /\ b \in Seq(L)
  BY DEF L
<1>7. CASE p /\ q
  BY <1>2, <1>5, <1>6, <1>7
<1>8. CASE ~p /\ ~q
  BY <1>1, <1>6, <1>8
<1>9. CASE p /\ ~q
  BY <1>1, <1>2, <1>4, <1>6, <1>9
<1>10. CASE ~p /\ q
  BY <1>1, <1>2, <1>4, <1>6, <1>10
<1> QED
  BY <1>7, <1>8, <1>9, <1>10

\* It is another's with an index behind it only if the names are.
LEMMA IndexTells ==
  ASSUME NEW a \in Seq(Apps!Letter \ {"#"}), NEW b \in Seq(Apps!Letter \ {"#"}) \ {<<>>},
         NEW p \in BOOLEAN, NEW q \in BOOLEAN, NEW d \in Apps!Letter \ {"#"},
         PlainText(a, p) = Append(PlainText(b, q), d)
  PROVE  Apps!Front(a) = b /\ Len(a) > 1
<1> DEFINE L == Apps!Letter \ {"#"}
<1>1. a \in Seq(L) /\ b \in Seq(L) /\ d \in L /\ b # <<>> /\ d # "#"
  OBVIOUS
<1>2. ASSUME NEW c \in Seq(L), NEW i \in 1 .. Len(c) PROVE c[i] # "#"
  <2> HIDE DEF L
  <2>1. c[i] \in L
    OBVIOUS
  <2> QED
    BY <2>1 DEF L
<1> HIDE DEF L
<1>3. \A c \in Seq(L) : PlainText(c, FALSE) = c
  BY DEF PlainText
<1>4. \A c \in Seq(L) : PlainText(c, TRUE) = Append(c, "#")
  <2> SUFFICES ASSUME NEW c \in Seq(L) PROVE c \o <<"#">> = Append(c, "#")
    BY DEF PlainText
  <2> QED
    OBVIOUS
<1>5. ~p
  <2> SUFFICES ASSUME p PROVE FALSE
    OBVIOUS
  <2> DEFINE t == PlainText(b, q)
  <2>1. Append(a, "#") = Append(t, d)
    BY <1>1, <1>4
  <2>2. \E T : t \in Seq(T)
    <3>1. CASE q
      <4>1. t \in Seq(L \cup {"#"})
        <5> DEFINE M == L \cup {"#"}
        <5>1. b \in Seq(M) /\ "#" \in M
          BY <1>1, SeqMonotonic
        <5> HIDE DEF M
        <5>2. Append(b, "#") \in Seq(M)
          BY <5>1
        <5> QED
          BY <1>1, <1>4, <3>1, <5>2 DEF M
      <4> QED
        BY <4>1
    <3>2. CASE ~q
      BY <1>1, <1>3, <3>2
    <3> QED
      BY <3>1, <3>2
  <2> HIDE DEF t
  <2>3. PICK T : t \in Seq(T)
    BY <2>2
  <2>4. Append(a, "#")[Len(a) + 1] = "#" /\ Append(t, d)[Len(t) + 1] = d /\ Len(a) = Len(t)
    <3>1. Len(Append(a, "#")) = Len(a) + 1 /\ Len(Append(t, d)) = Len(t) + 1
          /\ Len(a) \in Nat /\ Len(t) \in Nat
      BY <1>1, <2>3
    <3>2. Append(a, "#")[Len(a) + 1] = "#" /\ Append(t, d)[Len(t) + 1] = d
      BY <1>1, <2>3
    <3> QED
      BY <2>1, <3>1, <3>2
  <2> QED
    BY <1>1, <2>1, <2>4
<1>6. ~q
  <2> SUFFICES ASSUME q PROVE FALSE
    OBVIOUS
  <2>1. a = Append(Append(b, "#"), d)
    BY <1>1, <1>3, <1>4, <1>5
  <2>2. Len(a) = Len(b) + 2 /\ a[Len(b) + 1] = "#" /\ Len(b) \in Nat
    BY <1>1, <2>1
  <2> QED
    BY <1>1, <1>2, <2>2
<1>7. a = Append(b, d)
  BY <1>1, <1>3, <1>5, <1>6
<1>8. Len(a) = Len(b) + 1 /\ Len(b) \in Nat /\ Len(b) # 0
  BY <1>1, <1>7
<1>9. SubSeq(a, 1, Len(a) - 1) = b
  BY <1>1, <1>7, <1>8
<1> QED
  BY <1>8, <1>9 DEF Apps!Front

\* The ids of the loaded applications, with what they are made of.
LEMMA LoadedFacts ==
  ASSUME NEW list \in Seq(Apps!LoadedApp), Len(list) <= MaxApps, Apps!GivenIds(list),
         NEW i \in DOMAIN list
  PROVE  /\ list[i].name \in Seq(Apps!Letter \ {"#"}) \ {<<>>}
         /\ list[i].image \in BOOLEAN
         /\ Digit[i] \in Apps!Letter \ {"#"}
         /\ list[i].id = IF PlainText(list[i].name, list[i].image) \in Apps!Before(list, i)
                         THEN Append(PlainText(list[i].name, list[i].image), Digit[i])
                         ELSE PlainText(list[i].name, list[i].image)
<1>1. list[i] \in Apps!LoadedApp
  OBVIOUS
<1>2. list[i].name \in {a.name : a \in App} /\ list[i].image \in BOOLEAN
  BY <1>1 DEF Apps!LoadedApp
<1>3. list[i].name \in Seq(Apps!Letter \ {"#"}) \ {<<>>}
  BY <1>2, AppsAssumption
<1>4. i \in DOMAIN Digit /\ i - 1 + 1 = i
  BY AppsAssumption
<1>5. Digit[i] \in Apps!Letter \ {"#"}
  BY <1>4, AppsAssumption
<1>6. list[i].id = Apps!NewId(Apps!Before(list, i), Apps!AppId(list[i].name, list[i].image, i - 1))
  BY DEF Apps!GivenIds
<1> QED
  BY <1>2, <1>3, <1>4, <1>5, <1>6 DEF Apps!NewId, Apps!AppId, PlainText

\* An id that looks like a later one's makes its name confusable with the other's.
LEMMA LaterId ==
  ASSUME NEW list \in Seq(Apps!LoadedApp), Len(list) <= MaxApps, Apps!GivenIds(list),
         NEW i \in DOMAIN list, NEW j \in DOMAIN list, i < j, list[i].id = list[j].id
  PROVE  Apps!Confusable(list[i], list)
<1> DEFINE t(k) == PlainText(list[k].name, list[k].image)
<1>1. list[i].id \in Apps!Before(list, j)
  BY DEF Apps!Before
<1>2. list[j].id = Append(t(j), Digit[j])
  <2>1. list[j].id = IF t(j) \in Apps!Before(list, j) THEN Append(t(j), Digit[j]) ELSE t(j)
    BY LoadedFacts
  <2> HIDE DEF t
  <2> QED
    BY <1>1, <2>1
<1>3. list[i].id \in {t(i), Append(t(i), Digit[i])}
  BY LoadedFacts
<1>4. \A k \in {i, j} : \E T : t(k) \in Seq(T) /\ Digit[k] \in T
  <2> SUFFICES ASSUME NEW k \in {i, j} PROVE \E T : t(k) \in Seq(T) /\ Digit[k] \in T
    OBVIOUS
  <2>1. list[k].name \in Seq(Apps!Letter \ {"#"}) /\ Digit[k] \in Apps!Letter
    BY LoadedFacts
  <2>2. list[k].name \in Seq(Apps!Letter)
    BY <2>1, SeqMonotonic
  <2>3. "#" \in Apps!Letter
    BY DEF Apps!Letter
  <2>4. t(k) \in Seq(Apps!Letter)
    BY <2>2, <2>3, ConcatProperties DEF PlainText
  <2> QED
    BY <2>1, <2>4
<1> HIDE DEF t
<1>5. list[i].id # Append(t(i), Digit[i])
  <2> SUFFICES ASSUME Append(t(i), Digit[i]) = Append(t(j), Digit[j]) PROVE FALSE
    BY <1>2
  <2>1. PICK T : t(i) \in Seq(T) /\ Digit[i] \in T
    BY <1>4
  <2>2. PICK U : t(j) \in Seq(U) /\ Digit[j] \in U
    BY <1>4
  <2>3. Len(t(i)) + 1 = Len(t(j)) + 1 /\ Len(t(i)) \in Nat /\ Len(t(j)) \in Nat
    BY <2>1, <2>2
  <2>4. Digit[i] = Digit[j]
    BY <2>1, <2>2, <2>3
  <2>5. i \in DOMAIN Digit /\ j \in DOMAIN Digit
    BY AppsAssumption
  <2> QED
    BY <2>4, <2>5, AppsAssumption
<1>6. t(i) = Append(t(j), Digit[j])
  BY <1>2, <1>3, <1>5
<1>7. Apps!Front(list[i].name) = list[j].name /\ Len(list[i].name) > 1
  BY <1>6, LoadedFacts, IndexTells DEF t
<1> QED
  BY <1>7 DEF Apps!Confusable

\* Ids are unique but for confusable names.
LEMMA IdsUnique == Apps!LoadedInv => Apps!IdsAreUnique
<1> SUFFICES ASSUME Apps!LoadedInv, NEW i \in DOMAIN v4, NEW j \in DOMAIN v4, i # j,
                    v4[i].id = v4[j].id
             PROVE  Apps!Confusable(v4[i], v4) \/ Apps!Confusable(v4[j], v4)
  BY DEF Apps!IdsAreUnique
<1>1. v4 \in Seq(Apps!LoadedApp) /\ Len(v4) <= MaxApps /\ Apps!GivenIds(v4)
  BY DEF Apps!LoadedInv
<1>2. i < j \/ j < i
  BY <1>1
<1> QED
  BY <1>1, <1>2, LaterId

\* An application that nobody shares name and image with, and whose name is not
\* confusable, has the id without the index.
LEMMA SoleKeepsText ==
  ASSUME NEW list \in Seq(Apps!LoadedApp), Len(list) <= MaxApps, Apps!GivenIds(list),
         NEW i \in DOMAIN list, Apps!Sole(list, i), ~Apps!Confusable(list[i], list)
  PROVE  list[i].id = PlainText(list[i].name, list[i].image)
<1> DEFINE t(k) == PlainText(list[k].name, list[k].image)
<1> SUFFICES ASSUME t(i) \in Apps!Before(list, i) PROVE FALSE
  BY LoadedFacts
<1>1. PICK k \in 1 .. i - 1 : list[k].id = t(i)
  BY DEF Apps!Before
<1>2. k \in DOMAIN list /\ k # i
  BY <1>1
<1> DEFINE L == Apps!Letter \ {"#"}
<1>3. /\ list[i].name \in Seq(L) /\ list[i].image \in BOOLEAN
      /\ list[k].name \in Seq(L) /\ list[k].name # <<>> /\ list[k].image \in BOOLEAN
      /\ Digit[k] \in L
  BY <1>2, LoadedFacts
<1>4. CASE list[k].id = t(k)
  <2>1. list[k].name = list[i].name /\ list[k].image = list[i].image
    <3>1. t(k) = t(i)
      BY <1>1, <1>4
    <3> QED
      BY <1>3, <3>1, TextTells
  <2> QED
    BY <1>2, <2>1 DEF Apps!Sole
<1>5. CASE list[k].id = Append(t(k), Digit[k])
  <2>1. Apps!Front(list[i].name) = list[k].name /\ Len(list[i].name) > 1
    <3>1. list[k].name \in Seq(L) \ {<<>>}
      BY <1>3
    <3>2. t(i) = Append(t(k), Digit[k])
      BY <1>1, <1>5
    <3> QED
      BY <1>3, <3>1, <3>2, IndexTells
  <2> QED
    BY <1>2, <2>1 DEF Apps!Confusable
<1> QED
  BY <1>2, <1>4, <1>5, LoadedFacts

\* So it keeps it when the list is loaded again.
LEMMA IdsStay == Apps!LoadedInv /\ Apps!LoadedInv' => Apps!IdsSurvive
<1> SUFFICES ASSUME Apps!LoadedInv, Apps!LoadedInv', NEW i \in DOMAIN v4, NEW j \in DOMAIN v4',
                    v4[i].name = v4'[j].name, v4[i].image = v4'[j].image,
                    Apps!Sole(v4, i), Apps!Sole(v4', j),
                    ~Apps!Confusable(v4[i], v4), ~Apps!Confusable(v4[i], v4')
             PROVE  v4[i].id = v4'[j].id
  BY DEF Apps!IdsSurvive
<1>1. v4 \in Seq(Apps!LoadedApp) /\ Len(v4) <= MaxApps /\ Apps!GivenIds(v4)
  BY DEF Apps!LoadedInv
<1>2. v4' \in Seq(Apps!LoadedApp) /\ Len(v4') <= MaxApps /\ Apps!GivenIds(v4')
  BY DEF Apps!LoadedInv, Apps!GivenIds, Apps!Before
<1>3. ~Apps!Confusable(v4'[j], v4')
  BY DEF Apps!Confusable
<1>4. v4[i].id = PlainText(v4[i].name, v4[i].image)
  BY <1>1, SoleKeepsText
<1>5. v4'[j].id = PlainText(v4'[j].name, v4'[j].image)
  BY <1>2, <1>3, SoleKeepsText
<1> QED
  BY <1>4, <1>5

(***************************************************************************)
(* The parts together.                                                     *)
(***************************************************************************)

controlVars == <<pool, vars>>

\* A step of MCControl is a step of the component it is about, and leaves the
\* others alone.
LEMMA ControlMoves ==
  ASSUME [ControlNext]_controlVars
  PROVE  /\ part' = part
         /\ [Next]_vars
         /\ part = "pairing" => [Pairs!Next]_(Pairs!pairVars)
         /\ part \in {"sending", "receiving"} => [Control!Next]_(Control!controlVars)
         /\ part = "rtsp" => [Rtsp!Next]_(Rtsp!rtspVars)
         /\ part = "display" => [Display!LaunchNext]_(Display!reqVars)
         /\ part = "upnp" => [Ports!Next]_(Ports!mapVars)
         /\ part = "ping" => [Pings!Next]_(Pings!pingVars)
         /\ part = "life" => [Life!Next]_(Life!lifeVars)
         /\ part \in {"login", "apps", "tokens", "clients"} => [Ui!Next]_(Ui!uiVars)
         /\ part \in {"texts", "list"} => [Apps!Next]_(Apps!fileVars)
         /\ part = "mode" => [Display!ModeNext]_(Display!modeVars)
<1>1. CASE UNCHANGED controlVars
  BY <1>1 DEF controlVars, pool, Pairs!pairVars, Control!controlVars, Control!outVars,
     Control!inVars, Rtsp!rtspVars, Display!reqVars, Ports!mapVars, Pings!pingVars,
     Life!lifeVars, Ui!uiVars, Ui!loginVars, Ui!appsVars, Ui!tokenVars, Ui!clientVars,
     Apps!fileVars, Display!modeVars
<1>2. CASE ControlNext
  <2>1. CASE part = "pairing"
    BY <1>2, <2>1 DEF ControlNext
  <2>2. CASE part \in {"sending", "receiving"}
    BY <1>2, <2>2 DEF ControlNext, Control!Next
  <2>3. CASE part = "rtsp"
    BY <1>2, <2>3 DEF ControlNext
  <2>4. CASE part \in {"display", "upnp", "ping", "life"}
    BY <1>2, <2>4 DEF ControlNext
  <2>5. CASE part \in {"login", "apps", "tokens", "clients"}
    BY <1>2, <2>5 DEF ControlNext, Ui!Next
  <2>6. CASE part \in {"texts", "list", "mode"}
    BY <1>2, <2>6 DEF ControlNext, Apps!Next
  <2>7. CASE part \notin {"pairing", "sending", "receiving", "rtsp", "display", "upnp", "ping",
                          "life", "login", "apps", "tokens", "clients", "texts", "list", "mode"}
    BY <1>2, <2>7 DEF ControlNext
  <2> QED
    BY <2>1, <2>2, <2>3, <2>4, <2>5, <2>6, <2>7
<1> QED
  BY <1>1, <1>2

\* Trust is earned and kept (nvhttp.cpp): a paired certificate belongs to a client
\* that knew the PIN, a disabled or unpaired one is refused, and a restart forgets
\* no client.
THEOREM OnlyTheTrusted == ControlSpec => []TrustIsEarned
<1> DEFINE Inv == part = "pairing" => PairInv
<1>1. ControlInit => Inv
  BY PairInit DEF ControlInit
<1>2. Inv /\ [ControlNext]_controlVars => Inv'
  BY ControlMoves, PairStep
<1>3. Inv => TrustIsEarned
  BY FirstEntryDecides DEF TrustIsEarned, PairInv
<1> QED
  BY <1>1, <1>2, <1>3, PTL DEF ControlSpec, controlVars

\* Encrypted messages (stream.cpp, rtsp.cpp), for sequence numbers of any width:
\* an AES-GCM nonce comes back only after the whole span of them, on no RTSP
\* response at all, and the chained IVs of input messages stay in step, so that
\* no genuine client is stopped as a forger.
THEOREM NoncesStayInStep == ControlSpec => []NoncesInStep
<1> DEFINE Inv == /\ part \in {"sending", "receiving"} => Control!ControlInv
                  /\ part = "rtsp" => Rtsp!CounterInv
<1>1. ControlInit => Inv
  <2>1. Rtsp!Init => Rtsp!CounterInv
    BY DEF Rtsp!Init, Rtsp!CounterInv
  <2> QED
    BY <2>1, ControlInitHolds DEF ControlInit
<1>2. Inv /\ [ControlNext]_controlVars => Inv'
  BY ControlMoves, ControlInvStep, CounterStep
<1>3. Inv => NoncesInStep
  BY DEF NoncesInStep, Control!ControlInv, Control!IvInv, Control!IvSpaced,
     Control!ChainInv,
     Rtsp!CounterInv, Rtsp!IvNeverRepeats
<1> QED
  BY <1>1, <1>2, <1>3, PTL DEF ControlSpec, controlVars

\* What ends leaves nothing behind: an idle host has its own display or a revert
\* under way (display_device.cpp), no port stays mapped (upnp.cpp), no ping is
\* routed to a session that is gone and a waiting one is routed to (stream.cpp),
\* and what starts in the background writes to locals of main that exist
\* (main.cpp). For any preparation and revert setting of the display, any ports,
\* and any number of clients, however many share an address.
THEOREM NothingIsStale == ControlSpec => []NothingStale
<1> DEFINE Inv == /\ part = "display" => Display!LaunchInv
                  /\ part = "upnp" => Ports!PortInv
                  /\ part = "ping" => Pings!RouteInv
                  /\ part = "life" => Life!StartsHaveATarget
<1>1. ControlInit => Inv
  <2>1. Display!LaunchInit => Display!LaunchInv
    <3> SUFFICES ASSUME Display!LaunchInit PROVE Display!LaunchInv
      OBVIOUS
    <3>1. ~Display!Changed
      BY DEF Display!LaunchInit, Display!Changed
    <3>2. v2 = [op |-> "launch", appid |-> TRUE] /\ v3 = FALSE /\ v10 = FALSE
      BY DEF Display!LaunchInit, Display!LaunchRequest
    <3>3. v2 \in [op : {"launch", "resume"}, appid : BOOLEAN] /\ v2.op = "launch"
      BY <3>2
    <3>4. v5 \in Nat /\ v6 \in Nat /\ v6 <= v5 /\ v4 = "none"
      BY DEF Display!LaunchInit
    <3>5. v3 \in BOOLEAN /\ v10 \in BOOLEAN
      BY <3>2
    <3>6. Display!LaunchPlaces
      BY <3>3, <3>4, <3>5 DEF Display!LaunchPlaces
    <3> QED
      BY <3>1, <3>6 DEF Display!LaunchInv
  <2>2. Ports!Init => Ports!PortInv
    BY DEF Ports!Init, Ports!PortInv
  <2>3. Life!Init => Life!StartsHaveATarget
    BY DEF Life!Init, Life!StartsHaveATarget
  <2> QED
    BY <2>1, <2>2, <2>3, RouteInvInit DEF ControlInit
<1>2. Inv /\ [ControlNext]_controlVars => Inv'
  BY ControlMoves, LaunchInvStep, PortInvStep, RouteInvStep, StartsStep
<1>3. Inv => NothingStale
  <2>1. Display!LaunchInv => Display!IdleIsReverting
    BY DEF Display!LaunchInv, Display!IdleIsReverting, Display!Idle, Display!Changed,
       Display!Answered
  <2>2. Ports!PortInv => Ports!NothingLeftBehind
    BY DEF Ports!PortInv, Ports!NothingLeftBehind
  <2>3. Pings!RouteInv => Pings!NoDeadRoute /\ Pings!WaitingIsRouted
    BY DEF Pings!RouteInv, Pings!NoDeadRoute, Pings!WaitingIsRouted, Pings!Live
  <2> QED
    BY <2>1, <2>2, <2>3 DEF NothingStale
<1> QED
  BY <1>1, <1>2, <1>3, PTL DEF ControlSpec, controlVars

\* The invariants of the parts behind the three theorems that follow.
KeptInv ==
  /\ part \in {"login", "apps", "tokens", "clients"} =>
       Ui!ListInv /\ Ui!TokenInv /\ Ui!LoginSurvives
  /\ part \in {"texts", "list"} => Apps!LoadedInv
  /\ part = "mode" => Display!ModeInv
  /\ part \in {"sending", "receiving"} => Control!HdrInv
  /\ part = "rtsp" => Rtsp!TalkInv
  /\ part = "upnp" => Ports!LeaseInv
  /\ part = "life" => Life!TrapInv

\* They hold in the initial states and are kept by every step.
LEMMA KeptInvHolds ==
  /\ ControlInit => KeptInv
  /\ KeptInv /\ [ControlNext]_controlVars => KeptInv'
<1>1. ControlInit => KeptInv
  <2>1. Control!Init => Control!HdrInv
    BY DEF Control!Init, Control!HdrInv
  <2>2. Ports!Init => Ports!LeaseInv
    BY DEF Ports!Init, Ports!LeaseInv
  <2>3. Life!Init => Life!TrapInv
    BY DEF Life!Init, Life!TrapInv, Life!Past, Life!TrapOnlyWhenStuck
  <2> QED
    BY <2>1, <2>2, <2>3, UiInit, LoadedInit, ModeStarts, TalkInit DEF ControlInit, KeptInv
<1>2. KeptInv /\ [ControlNext]_controlVars => KeptInv'
  BY ControlMoves, ListStep, TokenStep, LoginStep, LoadedStep, ModeStep, HdrStep, TalkStep,
     LeaseStep, TrapInvStep DEF KeptInv
<1> QED
  BY <1>1, <1>2

\* No edit of the web UI is lost (confighttp.cpp, httpcommon.cpp), for any file to
\* begin with, any number of tabs, logins, users and edits: the application list
\* holds what its users meant, a changed login survives a restart, the newest CSRF
\* token is accepted, and applications have ids of their own unless an index can be
\* mistaken for part of a name (process.cpp).
THEOREM NoEditIsLost == ControlSpec => []EditsAreKept
<1>1. KeptInv => EditsAreKept
  <2>1. Ui!ListInv => Ui!NothingLost
    BY DEF Ui!ListInv, Ui!NothingLost
  <2>2. Ui!TokenInv => Ui!NewestTokenAccepted
    BY DEF Ui!TokenInv, Ui!NewestTokenAccepted
  <2> QED
    BY <2>1, <2>2, IdsUnique DEF KeptInv, EditsAreKept
<1> QED
  BY <1>1, KeptInvHolds, PTL DEF ControlSpec, controlVars

\* Steps that must not be taken before another: the state file is overwritten only
\* once its backup is good (nvhttp.cpp), disabling a client ends its sessions at
\* once (confighttp.cpp), a lease is renewed before it runs out (upnp.cpp), and an
\* application that is reloaded keeps the id clients know (process.cpp). For any
\* lifetime of a lease longer than the interval, any clients and applications.
THEOREM StepsAreOrdered == ControlSpec => StepsInOrder
<1> DEFINE A == /\ part = "pairing" => Pairs!BackupBeforeWrite
                /\ part = "clients" => Ui!DisabledStops
                /\ part = "upnp" => Ports!LeasesOutlast
                /\ part = "list" => Apps!IdsSurvive
<1>1. KeptInv /\ KeptInv' /\ [ControlNext]_controlVars => [A]_pool
  <2> SUFFICES ASSUME KeptInv, KeptInv', [ControlNext]_controlVars PROVE A
    OBVIOUS
  <2>1. part = "pairing" => Pairs!BackupBeforeWrite
    BY ControlMoves, BackupStep
  <2>2. part = "clients" => Ui!DisabledStops
    BY ControlMoves, DisabledStep
  <2>3. part = "upnp" => Ports!LeasesOutlast
    BY ControlMoves, LeaseLasts DEF KeptInv
  <2>4. part = "list" => Apps!IdsSurvive
    BY ControlMoves, IdsStay DEF KeptInv
  <2> QED
    BY <2>1, <2>2, <2>3, <2>4
<1> QED
  BY <1>1, KeptInvHolds, PTL DEF ControlSpec, controlVars, StepsInOrder

\* What the client and the user were told holds: a complete RTSP message is handled
\* however it was cut, what DESCRIBE offered ANNOUNCE accepts (rtsp.cpp), the client
\* knows the current HDR mode (stream.cpp), the display mode is changed only as the
\* settings and the client allow (display_device.cpp), and the process is stopped by
\* force only when it hangs (main.cpp). Of the texts only that images which are served
\* are PNGs (process.cpp): expanding variables is a recursion over data.
THEOREM PromisesAreKept ==
  ControlSpec => []IF part = "texts" THEN Apps!ServedIsPng ELSE PromisesKept
<1>1. KeptInv => IF part = "texts" THEN Apps!ServedIsPng ELSE PromisesKept
  <2>1. Rtsp!TalkInv => Rtsp!CompleteIsHandled /\ Rtsp!OfferIsHonoured
    BY DEF Rtsp!TalkInv
  <2>2. Control!HdrInv => Control!HdrReachesClient
    BY DEF Control!HdrInv, Control!HdrReachesClient
  <2>3. Life!TrapInv => Life!TrapOnlyWhenStuck
    BY DEF Life!TrapInv
  <2> QED
    BY <2>1, <2>2, <2>3, ModeHolds
       DEF KeptInv, PromisesKept, Apps!ServedIsPng, Apps!ValidateImage, Apps!ValidPng
<1> QED
  BY <1>1, KeptInvHolds, PTL DEF ControlSpec, controlVars
=============================================================================
