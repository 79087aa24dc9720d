---------------------------- MODULE MediaProofs ---------------------------
(***************************************************************************)
(* Theorems about MCMedia, for every value of the parameters: the image    *)
(* pool, the encoders, the driver setting, the samples, the gamepads; and  *)
(* with what CaptureProofs says of capture, the owners of all handles.     *)
(***************************************************************************)
EXTENDS CaptureProofs, StreamProofs

(***************************************************************************)
(* The NVIDIA setting (nvprefs).                                           *)
(***************************************************************************)

LEMMA UndoInit == Prefs!Init => Prefs!UndoInv
BY DEF Prefs!Init, Prefs!UndoInv, Prefs!Values, Prefs!Procedure

LEMMA UndoStep == Prefs!UndoInv /\ [Prefs!Next]_(Prefs!nvVars) => Prefs!UndoInv'
<1> SUFFICES ASSUME Prefs!UndoInv, [Prefs!Next]_(Prefs!nvVars) PROVE Prefs!UndoInv'
  OBVIOUS
<1> USE NoneAssumption DEF Prefs!UndoInv, Prefs!Values, Prefs!Procedure, Prefs!Settings, Prefs!Undo,
        Prefs!Ghosts
<1>1. CASE UNCHANGED Prefs!nvVars
  BY <1>1 DEF Prefs!nvVars
<1>2. ASSUME NEW v \in Prefs!Values, Prefs!UserChange(v) PROVE Prefs!UndoInv'
  BY <1>2 DEF Prefs!UserChange
<1>3. CASE Prefs!Load
  BY <1>3 DEF Prefs!Load
<1>4. CASE Prefs!Exit
  BY <1>4 DEF Prefs!Exit
<1>5. CASE Prefs!Crash
  BY <1>5 DEF Prefs!Crash
<1>6. CASE Prefs!Recover
  <2>1. CASE v5 \in {None, "empty"}
    BY <1>6, <2>1 DEF Prefs!Recover
  <2>2. CASE v5 \notin {None, "empty"}
    <3>1. Prefs!SaveRestored(v5) /\ v8' = "recovered" /\ UNCHANGED <<v11, v5, v7>> /\ v8 = "recover"
      BY <1>6, <2>2 DEF Prefs!Recover
    <3>2. v3' = v3 /\ v2' = Prefs!Restored(v5)
      BY <3>1 DEF Prefs!SaveRestored
    <3>3. CASE v3 = "on" \/ v11 \/ v12
      <4>1. /\ v12 => v12'
            /\ v4' => v4 /\ (v2' = v2 \/ v1' = v1)
            /\ v1' = v1 \/ v1' = IF v2' = v2 THEN v1 ELSE v2'
        <5>1. v12 => v12'
          BY <3>1, Zenon DEF Prefs!SaveRestored
        <5>2. v4' => v4 /\ (v2' = v2 \/ v1' = v1)
          BY <3>1, Zenon DEF Prefs!SaveRestored
        <5>3. v1' = v1 \/ v1' = IF v2' = v2 THEN v1 ELSE v2'
          BY <3>1, Zenon DEF Prefs!SaveRestored
        <5> QED
          BY <5>1, <5>2, <5>3
      <4> QED
        BY <3>1, <3>2, <3>3, <4>1
    <3>4. CASE ~v11 /\ ~v12 /\ v3 # "on" /\ v4
      <4>1. v1 = "on" /\ v2 = v1 /\ v5 = v3 /\ v2' = v3
        BY <3>1, <3>2, <3>4 DEF Prefs!Restored
      <4>2. v12' \/ (~v4' /\ v1' = v3)
        BY <3>1, <3>4, <4>1 DEF Prefs!SaveRestored
      <4>3. v4' => v1' = "on"
        BY <3>1, <4>1 DEF Prefs!SaveRestored
      <4> QED
        BY <3>1, <3>2, <4>1, <4>2, <4>3
    <3>5. CASE ~v11 /\ ~v12 /\ v3 # "on" /\ ~v4
      <4>1. v1 = v3 /\ v2 = v1 /\ v2' = v3
        BY <3>1, <3>2, <3>5 DEF Prefs!Restored
      <4>2. v1' = v1 \/ v1' = IF v2' = v2 THEN v1 ELSE v2'
        BY <3>1, Zenon DEF Prefs!SaveRestored
      <4>3. v4' => v4
        BY <3>1, Zenon DEF Prefs!SaveRestored
      <4> QED
        BY <3>1, <3>2, <3>5, <4>1, <4>2, <4>3
    <3> QED
      BY <3>3, <3>4, <3>5
  <2> QED
    BY <2>1, <2>2
<1>7. CASE Prefs!RecoverDelete
  BY <1>7 DEF Prefs!RecoverDelete
<1>8. CASE Prefs!Restore
  <2>1. /\ v8 = "restore" /\ v3' = v3 /\ v5' = v5 /\ UNCHANGED <<v11, v12>>
        /\ v8' = "restored" \/ v8' = "off"
        /\ v7' = IF v8' = "off" THEN None ELSE v7
    BY <1>8, Zenon DEF Prefs!Restore
  <2>2. \/ v1' = v1 /\ v2' = v2 /\ (v4' <=> v4) /\ v8' = "off"
        \/ /\ v2' = Prefs!Restored(v7) /\ v1' = (IF v2' = v2 THEN v1 ELSE v2') /\ v7 # None
           /\ (v4' <=> v4 /\ v2' = v2) /\ v8' = "restored"
    BY <1>8, Zenon DEF Prefs!Restore
  <2> QED
    BY <2>1, <2>2 DEF Prefs!Restored
<1>9. CASE Prefs!RestoreDelete
  BY <1>9 DEF Prefs!RestoreDelete
<1>10. CASE Prefs!RestoreTool
  BY <1>10 DEF Prefs!RestoreTool
<1>11. CASE Prefs!Profile
  BY <1>11 DEF Prefs!Profile
<1>12. CASE Prefs!Modify
  BY <1>12 DEF Prefs!Modify
<1>13. CASE Prefs!WriteClear
  BY <1>13 DEF Prefs!WriteClear, Prefs!Merged
<1>14. CASE Prefs!Write
  BY <1>14 DEF Prefs!Write
<1>15. CASE Prefs!Save
  BY <1>15 DEF Prefs!Save
<1> QED
  BY <1>1, <1>2, <1>3, <1>4, <1>5, <1>6, <1>7, <1>8, <1>9, <1>10, <1>11, <1>12, <1>13,
     <1>14, <1>15 DEF Prefs!Next

(***************************************************************************)
(* The handles.                                                            *)
(***************************************************************************)

LEMMA HandlesInit == Rfi!Init => Rfi!HandlesInv
BY DEF Rfi!Init, Rfi!HandlesInv

LEMMA HandlesStep == Rfi!HandlesInv /\ [Rfi!Next]_(Rfi!rfiVars) => Rfi!HandlesInv'
<1> SUFFICES ASSUME Rfi!HandlesInv, [Rfi!Next]_(Rfi!rfiVars) PROVE Rfi!HandlesInv'
  OBVIOUS
<1>1. v5' \in {v5, {}, {Rfi!Steps[i] : i \in 1..Len(Rfi!Steps)}}
  BY DEF Rfi!Next, Rfi!rfiVars, Rfi!DestroyEncoder, Rfi!RequestIdr, Rfi!EncodeFrame,
     Rfi!CreateEncoder, Rfi!Report
<1> QED
  BY <1>1 DEF Rfi!HandlesInv

LEMMA HandlesHold == Rfi!HandlesInv => Rfi!NoHalfEncoder
<1> DEFINE all == {"session", "event", "bitstream", "input"}
<1>1. {Rfi!Steps[i] : i \in 1..Len(Rfi!Steps)} = all
  <2>1. Len(Rfi!Steps) = 4 /\ Rfi!Steps[1] = "session" /\ Rfi!Steps[2] = "event"
        /\ Rfi!Steps[3] = "bitstream" /\ Rfi!Steps[4] = "input"
    BY DEF Rfi!Steps
  <2>2. 1..4 = {1, 2, 3, 4}
    OBVIOUS
  <2> QED
    BY <2>1, <2>2
<1>2. Cardinality(all) = 4
  <2>1. IsFiniteSet({}) /\ Cardinality({}) = 0
    BY FS_EmptySet
  <2>2. IsFiniteSet({"session"}) /\ Cardinality({"session"}) = 1
    BY FS_Singleton
  <2>3. IsFiniteSet({"session", "event"}) /\ Cardinality({"session", "event"}) = 2
    <3>1. {"session"} \cup {"event"} = {"session", "event"} /\ "event" \notin {"session"}
      OBVIOUS
    <3> QED
      BY <2>2, <3>1, FS_AddElement
  <2>4. IsFiniteSet({"session", "event", "bitstream"}) /\ Cardinality({"session", "event", "bitstream"}) = 3
    <3>1. /\ {"session", "event"} \cup {"bitstream"} = {"session", "event", "bitstream"}
          /\ "bitstream" \notin {"session", "event"}
      OBVIOUS
    <3> QED
      BY <2>3, <3>1, FS_AddElement
  <2>5. {"session", "event", "bitstream"} \cup {"input"} = all /\ "input" \notin {"session", "event", "bitstream"}
    OBVIOUS
  <2> QED
    BY <2>4, <2>5, FS_AddElement
<1> QED
  BY <1>1, <1>2 DEF Rfi!HandlesInv, Rfi!NoHalfEncoder, Rfi!Steps, Rfi!Cardinality, Cardinality

(***************************************************************************)
(* The sample buffer (windows/audio.cpp).                                  *)
(***************************************************************************)

\* Silence is not counted.
LEMMA SilenceKeeps ==
  ASSUME NEW s \in Seq(Nat), NEW z \in Seq(Nat), \A i \in 1..Len(z) : z[i] = 0,
         NEW lo \in Nat, NEW hi \in Nat, Wasapi!InOrder(s, lo, hi)
  PROVE  Wasapi!InOrder(s \o z, lo, hi)
<1> DEFINE t == s \o z
<1>1. /\ t \in Seq(Nat) /\ Len(t) = Len(s) + Len(z)
      /\ \A i \in 1..Len(s) : t[i] = s[i]
      /\ \A i \in Len(s) + 1..Len(t) : t[i] = 0
  OBVIOUS
<1>2. DOMAIN s = 1..Len(s) /\ DOMAIN t = 1..Len(t)
  BY <1>1
<1> HIDE DEF t
<1>3. Wasapi!Real(t) = Wasapi!Real(s)
  BY <1>1, <1>2 DEF Wasapi!Real
<1>4. \A i \in Wasapi!Real(s) : t[i] = s[i]
  BY <1>1, <1>2 DEF Wasapi!Real
<1>5. Wasapi!InOrder(t, lo, hi)
  BY <1>3, <1>4 DEF Wasapi!InOrder
<1> QED
  BY <1>5 DEF t

\* A packet continues where the buffer ends.
LEMMA PacketFollows ==
  ASSUME NEW s \in Seq(Nat), NEW p \in Seq(Nat), NEW lo \in Nat, NEW hi \in Nat, lo <= hi,
         \A i \in 1..Len(p) : p[i] = hi + i, Wasapi!InOrder(s, lo, hi)
  PROVE  Wasapi!InOrder(s \o p, lo, hi + Len(p))
<1> DEFINE t == s \o p
<1>1. /\ t \in Seq(Nat) /\ Len(t) = Len(s) + Len(p)
      /\ \A i \in 1..Len(s) : t[i] = s[i]
      /\ \A i \in Len(s) + 1..Len(t) : t[i] = hi + (i - Len(s))
  OBVIOUS
<1>2. DOMAIN s = 1..Len(s) /\ DOMAIN t = 1..Len(t)
  BY <1>1
<1> HIDE DEF t
<1>3. Wasapi!Real(t) = Wasapi!Real(s) \cup (Len(s) + 1..Len(t))
  BY <1>1, <1>2, SMTT(30) DEF Wasapi!Real
<1>4. \A i \in Wasapi!Real(s) : i \in 1..Len(s) /\ t[i] = s[i] /\ t[i] \in (lo + 1)..hi
  BY <1>1, <1>2 DEF Wasapi!Real, Wasapi!InOrder
<1> DEFINE a == Len(s)
           n == Len(p)
<1>9. /\ a \in Nat /\ n \in Nat
      /\ \A i \in Wasapi!Real(t) :
           i \in Wasapi!Real(s) \/ (i \in a + 1..a + n /\ t[i] = hi + (i - a))
      /\ \A i \in a + 1..a + n : i \in Wasapi!Real(t) /\ t[i] = hi + (i - a)
      /\ \A i \in Wasapi!Real(s) : i \in 1..a /\ i \in Wasapi!Real(t) /\ t[i] = s[i] /\ t[i] \in (lo + 1)..hi
  BY <1>1, <1>3, <1>4
<1> HIDE DEF a, n
<1>5. ASSUME NEW i \in Wasapi!Real(t) PROVE t[i] \in (lo + 1)..(hi + n)
  BY <1>9
<1>6. ASSUME NEW x \in (lo + 1)..(hi + n) PROVE \E i \in Wasapi!Real(t) : t[i] = x
  <2>1. CASE x <= hi
    <3>1. PICK i \in Wasapi!Real(s) : s[i] = x
      BY <2>1 DEF Wasapi!InOrder
    <3> QED
      BY <3>1, <1>9
  <2>2. CASE x > hi
    <3>1. a + (x - hi) \in a + 1..a + n /\ hi + ((a + (x - hi)) - a) = x
      BY <2>2, <1>9
    <3> QED
      BY <3>1, <1>9
  <2> QED
    BY <2>1, <2>2
<1>7. ASSUME NEW i \in Wasapi!Real(t), NEW j \in Wasapi!Real(t), i < j PROVE t[i] < t[j]
  <2>1. CASE i \in Wasapi!Real(s) /\ j \in Wasapi!Real(s)
    <3>1. s[i] < s[j]
      BY <2>1, <1>7 DEF Wasapi!InOrder
    <3> QED
      BY <2>1, <3>1, <1>9
  <2>2. CASE i \in Wasapi!Real(s) /\ j \notin Wasapi!Real(s)
    BY <2>2, <1>9
  <2>3. CASE i \notin Wasapi!Real(s) /\ j \in Wasapi!Real(s)
    BY <2>3, <1>7, <1>9
  <2>4. CASE i \notin Wasapi!Real(s) /\ j \notin Wasapi!Real(s)
    BY <2>4, <1>7, <1>9
  <2> QED
    BY <2>1, <2>2, <2>3, <2>4
<1>8. Wasapi!InOrder(t, lo, hi + Len(p))
  BY <1>5, <1>6, <1>7 DEF Wasapi!InOrder, n
<1> QED
  BY <1>8 DEF t

\* A frame takes the oldest samples out.
LEMMA FrameTakes ==
  ASSUME NEW s \in Seq(Nat), NEW f \in 1..Len(s), NEW hi \in Nat, v7 \in Nat, v7 <= hi,
         Wasapi!InOrder(s, v7, hi)
  PROVE  LET x == Wasapi!Last(SubSeq(s, 1, f))
         IN x \in v7..hi /\ Wasapi!InOrder(SubSeq(s, f + 1, Len(s)), x, hi)
<1> DEFINE a == SubSeq(s, 1, f)
           b == SubSeq(s, f + 1, Len(s))
           n == Len(s)
           x == Wasapi!Last(a)
           R == Wasapi!Real(a)
<1>1. /\ n \in Nat /\ f \in Nat /\ f <= n
      /\ Len(a) = f /\ \A i \in 1..f : a[i] = s[i]
      /\ Len(b) = n - f /\ \A i \in 1..(n - f) : b[i] = s[i + f]
      /\ DOMAIN a = 1..f /\ DOMAIN b = 1..(n - f) /\ DOMAIN s = 1..n
      /\ \A i \in 1..n : s[i] \in Nat
  OBVIOUS
<1> HIDE DEF a, b, n
<1>2. R \subseteq 1..f /\ \A i \in R : i \in Wasapi!Real(s) /\ a[i] = s[i]
  BY <1>1 DEF Wasapi!Real
<1>3. \A i \in Wasapi!Real(s) : i \in 1..n /\ (i <= f => i \in R) /\ (i > f => i - f \in Wasapi!Real(b))
  BY <1>1, SMTT(40) DEF Wasapi!Real
<1>4. \A i \in Wasapi!Real(b) : i \in 1..(n - f) /\ i + f \in Wasapi!Real(s) /\ b[i] = s[i + f]
  <2> SUFFICES ASSUME NEW i \in Wasapi!Real(b)
               PROVE  i \in 1..(n - f) /\ i + f \in Wasapi!Real(s) /\ b[i] = s[i + f]
    OBVIOUS
  <2>1. i \in 1..(n - f) /\ b[i] # 0
    BY <1>1 DEF Wasapi!Real
  <2>2. b[i] = s[i + f] /\ i + f \in 1..n
    BY <2>1, <1>1
  <2> QED
    BY <2>1, <2>2, <1>1 DEF Wasapi!Real
<1>5. /\ x \in v7..hi
      /\ \A i \in R : s[i] <= x
      /\ \A i \in Wasapi!Real(b) : s[i + f] > x
  <2>1. CASE R = {}
    <3>1. x = v7
      BY <2>1 DEF Wasapi!Last
    <3> QED
      BY <2>1, <3>1, <1>4 DEF Wasapi!InOrder
  <2>2. CASE R # {}
    <3> DEFINE m == CHOOSE i \in R : \A j \in R : j <= i
    <3>1. m \in R /\ \A j \in R : j <= m
      <4>1. \E i \in R : \A j \in R : j <= i
        BY <2>2, <1>1, <1>2, Greatest
      <4> QED
        BY <4>1
    <3>2. x = a[m]
      BY <2>2 DEF Wasapi!Last
    <3> HIDE DEF m, x, R
    <3>3. m \in Wasapi!Real(s) /\ x = s[m] /\ m \in 1..f
      BY <3>1, <3>2, <1>2
    <3>4. \A i \in R : s[i] <= x
      <4> SUFFICES ASSUME NEW i \in R PROVE s[i] <= x
        OBVIOUS
      <4>1. i \in Wasapi!Real(s) /\ i <= m /\ i \in Nat /\ s[i] \in Nat /\ s[m] \in Nat
        BY <1>1, <1>2, <3>1, <3>3
      <4> QED
        BY <4>1, <3>3, SMTT(30) DEF Wasapi!InOrder
    <3>5. \A i \in Wasapi!Real(b) : s[i + f] > x
      <4> SUFFICES ASSUME NEW i \in Wasapi!Real(b) PROVE s[i + f] > x
        OBVIOUS
      <4>1. i + f \in Wasapi!Real(s) /\ m < i + f /\ s[i + f] \in Nat /\ s[m] \in Nat
        BY <1>1, <1>4, <3>3, SMTT(40)
      <4> QED
        BY <4>1, <3>3, SMTT(30) DEF Wasapi!InOrder
    <3>6. x \in v7..hi
      BY <3>3 DEF Wasapi!InOrder
    <3> QED
      BY <3>4, <3>5, <3>6
  <2> QED
    BY <2>1, <2>2
<1> HIDE DEF x, R
<1>6. ASSUME NEW i \in Wasapi!Real(b) PROVE b[i] \in (x + 1)..hi
  <2>1. i + f \in Wasapi!Real(s) /\ b[i] = s[i + f] /\ s[i + f] > x
    BY <1>4, <1>5
  <2>2. s[i + f] \in (v7 + 1)..hi
    BY <2>1 DEF Wasapi!InOrder
  <2> QED
    BY <2>1, <2>2, <1>5
<1>7. ASSUME NEW y \in (x + 1)..hi PROVE \E i \in Wasapi!Real(b) : b[i] = y
  <2>1. y \in (v7 + 1)..hi
    BY <1>5
  <2>2. PICK i \in Wasapi!Real(s) : s[i] = y
    BY <2>1 DEF Wasapi!InOrder
  <2>3. i > f
    BY <2>2, <1>1, <1>3, <1>5
  <2>4. i - f \in Wasapi!Real(b) /\ (i - f) + f = i
    BY <2>2, <2>3, <1>1, <1>3
  <2> QED
    BY <2>2, <2>4, <1>4
<1>8. ASSUME NEW i \in Wasapi!Real(b), NEW j \in Wasapi!Real(b), i < j PROVE b[i] < b[j]
  <2>1. i + f < j + f
    BY <1>1, <1>4, <1>8
  <2> QED
    BY <2>1, <1>4 DEF Wasapi!InOrder
<1>9. Wasapi!InOrder(b, x, hi)
  BY <1>6, <1>7, <1>8 DEF Wasapi!InOrder
<1> QED
  BY <1>5, <1>9 DEF a, b, n, x

LEMMA Joined ==
  ASSUME NEW s \in Seq(Nat), NEW z \in Seq(Nat)
  PROVE  s \o z \in Seq(Nat) /\ Len(s \o z) = Len(s) + Len(z)
OBVIOUS

\* What is left of a sequence when its first n elements are gone.
LEMMA Dropped ==
  ASSUME NEW s \in Seq(Nat), NEW n \in 1..Len(s)
  PROVE  /\ SubSeq(s, n + 1, Len(s)) \in Seq(Nat) /\ Len(SubSeq(s, n + 1, Len(s))) = Len(s) - n
         /\ \A i \in 1..Len(s) - n : SubSeq(s, n + 1, Len(s))[i] = s[i + n]
<1>1. Len(s) \in Nat /\ n \in Nat /\ n <= Len(s)
  OBVIOUS
<1>2. SubSeq(s, n + 1, Len(s)) = [i \in 1..Len(s) - n |-> s[i + n]]
  <2>1. SubSeq(s, n + 1, Len(s)) = [i \in 1..(1 + Len(s) - (n + 1)) |-> s[i + (n + 1) - 1]]
    BY <1>1
  <2>2. 1 + Len(s) - (n + 1) = Len(s) - n /\ \A i \in 1..Len(s) - n : i + (n + 1) - 1 = i + n
    BY <1>1
  <2> QED
    BY <2>1, <2>2
<1>3. \A i \in 1..Len(s) - n : i + n \in 1..Len(s) /\ s[i + n] \in Nat
  BY <1>1
<1>4. Len(s) - n \in Nat
  BY <1>1
<1> QED
  BY <1>2, <1>3, <1>4

LEMMA BufferInit == Wasapi!BufferInit => Wasapi!BufferInv
<1> SUFFICES ASSUME Wasapi!BufferInit PROVE Wasapi!BufferInv
  OBVIOUS
<1>1. v1 = <<>> /\ v2 = 0 /\ v3 = <<>> /\ v4 = "sample" /\ v5 = FALSE /\ v6 = FALSE /\ v7 = 0
  BY DEF Wasapi!BufferInit
<1>2. Wasapi!BufferSize \in Nat
  BY BufferAssumption DEF Wasapi!BufferSize
<1>3. Wasapi!Real(v3) = {}
  BY <1>1 DEF Wasapi!Real
<1>4. Wasapi!NoSampleLost
  BY <1>1, <1>3 DEF Wasapi!NoSampleLost, Wasapi!InOrder
<1> QED
  BY <1>1, <1>2, <1>4, BufferAssumption DEF Wasapi!BufferInv

LEMMA BufferStep == Wasapi!BufferInv /\ [Wasapi!BufferNext]_(Wasapi!bufferVars) => Wasapi!BufferInv'
<1> SUFFICES ASSUME Wasapi!BufferInv, [Wasapi!BufferNext]_(Wasapi!bufferVars) PROVE Wasapi!BufferInv'
  OBVIOUS
<1> DEFINE kept == v2 - Len(v1)
<1>1. /\ v1 \in Seq(Nat) /\ v3 \in Seq(Nat) /\ v2 \in Nat /\ v7 \in Nat
      /\ Len(v1) <= Frames /\ Len(v3) <= Wasapi!BufferSize /\ Len(v1) \in Nat /\ Len(v3) \in Nat
      /\ v6 => v5
      /\ v4 = "wait" => Len(v3) < FrameSize
      /\ v4 = "drain" /\ ~v5 => Len(v3) + Len(v1) <= Wasapi!BufferSize
      /\ ~v6 => v7 <= kept
  BY DEF Wasapi!BufferInv
<1>2. ASSUME ~v6 PROVE /\ kept \in Nat /\ v7 <= kept /\ Wasapi!InOrder(v3, v7, kept)
                       /\ \A i \in 1..Len(v1) : v1[i] = kept + i
  BY <1>1, <1>2 DEF Wasapi!BufferInv, Wasapi!NoSampleLost
<1>3. /\ Wasapi!BufferSize \in Nat /\ 2 * FrameSize <= Wasapi!BufferSize /\ 2 * Frames <= Wasapi!BufferSize
      /\ Frames \in Nat \ {0} /\ FrameSize \in Nat \ {0}
  BY BufferAssumption DEF Wasapi!BufferSize
<1> DEFINE InPlace == ~v6' => /\ v7' <= v2' - Len(v1') /\ Wasapi!InOrder(v3', v7', v2' - Len(v1'))
                           /\ \A i \in 1..Len(v1') : v1'[i] = v2' - Len(v1') + i
           Sizes == /\ v1' \in Seq(Nat) /\ v3' \in Seq(Nat) /\ v2' \in Nat /\ v7' \in Nat
                    /\ Len(v1') <= Frames /\ Len(v3') <= Wasapi!BufferSize
                    /\ (v6' => v5')
                    /\ v4' = "wait" => Len(v3') < FrameSize
                    /\ v4' = "drain" /\ ~v5' => Len(v3') + Len(v1') <= Wasapi!BufferSize
<1>4. InPlace /\ Sizes => Wasapi!BufferInv'
  <2> SUFFICES ASSUME InPlace, Sizes PROVE Wasapi!BufferInv'
    OBVIOUS
  <2>1. DOMAIN v1' = 1..Len(v1')
    OBVIOUS
  <2>2. Wasapi!NoSampleLost'
    BY <2>1 DEF Wasapi!NoSampleLost, Wasapi!InOrder, Wasapi!Real
  <2>3. (Wasapi!BufferSize)' = Wasapi!BufferSize
    BY DEF Wasapi!BufferSize
  <2> QED
    BY <2>2, <2>3 DEF Wasapi!BufferInv
<1>5. CASE UNCHANGED Wasapi!bufferVars
  <2>1. UNCHANGED <<v1, v2, v3, v4, v5, v6, v7>>
    BY <1>5 DEF Wasapi!bufferVars
  <2> QED
    BY <2>1, <1>1, <1>2, <1>4
<1>6. CASE Wasapi!Produce
  <2>1. /\ Len(v1) < Frames /\ v2' = v2 + 1 /\ v1' = Append(v1, v2 + 1)
        /\ UNCHANGED <<v3, v4, v6, v7>>
    BY <1>6 DEF Wasapi!Produce
  <2>2. v5' <=> (v5 \/ v4 = "drain")
    BY <1>6, Zenon DEF Wasapi!Produce
  <2>3. /\ Len(v1') = Len(v1) + 1 /\ v1' \in Seq(Nat) /\ v1'[Len(v1) + 1] = v2 + 1
        /\ \A i \in 1..Len(v1) : v1'[i] = v1[i]
    BY <2>1, <1>1
  <2>4. Sizes
    BY <2>1, <2>2, <2>3, <1>1, <1>3
  <2>5. InPlace
    <3> SUFFICES ASSUME ~v6 PROVE /\ v7 <= v2' - Len(v1') /\ Wasapi!InOrder(v3, v7, v2' - Len(v1'))
                                  /\ \A i \in 1..Len(v1') : v1'[i] = v2' - Len(v1') + i
      BY <2>1
    <3>1. v2' - Len(v1') = kept
      BY <2>1, <2>3, <1>1
    <3>2. \A i \in 1..Len(v1') : v1'[i] = kept + i
      <4> SUFFICES ASSUME NEW i \in 1..Len(v1') PROVE v1'[i] = kept + i
        OBVIOUS
      <4>1. CASE i \in 1..Len(v1)
        BY <4>1, <1>2, <2>3
      <4>2. CASE i = Len(v1) + 1
        <5>1. v2 + 1 = kept + i
          BY <4>2, <1>1
        <5> QED
          BY <4>2, <5>1, <2>3
      <4> QED
        BY <4>1, <4>2, <2>3, <1>1
    <3> QED
      BY <3>1, <3>2, <1>2
  <2> QED
    BY <2>4, <2>5, <1>4
<1>7. CASE Wasapi!Sample
  <2>1. UNCHANGED <<v1, v2, v5, v6>> /\ v4 = "sample"
    BY <1>7 DEF Wasapi!Sample
  <2>2. CASE Len(v3) >= FrameSize
    <3> DEFINE b == SubSeq(v3, FrameSize + 1, Len(v3))
               x == Wasapi!Last(SubSeq(v3, 1, FrameSize))
    <3>1. v3' = b /\ v7' = x /\ v4' = v4
      BY <1>7, <2>2 DEF Wasapi!Sample
    <3>2. FrameSize \in 1..Len(v3)
      BY <2>2, <1>1, <1>3
    <3>3. b \in Seq(Nat) /\ Len(b) <= Len(v3)
      BY <3>2, <1>1
    <3>4. InPlace
      <4> SUFFICES ASSUME ~v6 PROVE x <= kept /\ Wasapi!InOrder(b, x, kept)
                                    /\ \A i \in 1..Len(v1) : v1[i] = kept + i
        BY <2>1, <3>1
      <4>1. x \in v7..kept /\ Wasapi!InOrder(b, x, kept)
        BY <1>1, <1>2, <3>2, FrameTakes
      <4> QED
        BY <4>1, <1>1, <1>2
    <3>5. x \in Nat
      <4> DEFINE a == SubSeq(v3, 1, FrameSize)
                 m == CHOOSE i \in Wasapi!Real(a) : \A j \in Wasapi!Real(a) : j <= i
      <4>1. /\ a \in Seq(Nat) /\ DOMAIN a = 1..FrameSize /\ \A i \in 1..FrameSize : a[i] \in Nat
        BY <1>1, <3>2
      <4>2. CASE Wasapi!Real(a) = {}
        BY <4>2, <1>1 DEF Wasapi!Last
      <4>3. CASE Wasapi!Real(a) # {}
        <5>1. Wasapi!Real(a) \subseteq 1..FrameSize
          BY <4>1 DEF Wasapi!Real
        <5>2. \E i \in Wasapi!Real(a) : \A j \in Wasapi!Real(a) : j <= i
          BY <5>1, <4>3, <1>3, Greatest
        <5>3. m \in 1..FrameSize
          BY <5>1, <5>2
        <5>4. x = a[m]
          BY <4>3 DEF Wasapi!Last
        <5> QED
          BY <5>3, <5>4, <4>1
      <4> QED
        BY <4>2, <4>3
    <3> HIDE DEF b, x
    <3>6. v3' \in Seq(Nat) /\ Len(v3') <= Len(v3) /\ Len(v3') \in Nat /\ v7' \in Nat /\ v4' = "sample"
      BY <2>1, <3>1, <3>3, <3>5
    <3>7. Len(v3') <= Wasapi!BufferSize
      BY <3>6, <1>1, <1>3
    <3>8. Sizes
      BY <2>1, <3>6, <3>7, <1>1
    <3> QED
      BY <3>4, <3>8, <1>4
  <2>3. CASE ~(Len(v3) >= FrameSize)
    <3>1. v4' = "wait" /\ UNCHANGED <<v3, v7>>
      BY <1>7, <2>3 DEF Wasapi!Sample
    <3>2. InPlace
      BY <2>1, <3>1, <1>2
    <3>3. Sizes
      BY <2>1, <2>3, <3>1, <1>1, <1>3
    <3> QED
      BY <3>2, <3>3, <1>4
  <2> QED
    BY <2>2, <2>3
<1>8. CASE Wasapi!Wake
  <2>1. UNCHANGED <<v1, v2, v5, v6, v7>> /\ v4 = "wait"
    BY <1>8 DEF Wasapi!Wake
  <2> DEFINE z == [i \in 1..FrameSize |-> 0]
  <2>2. CASE v4' = "drain" /\ v3' = v3
    <3>1. InPlace
      BY <2>1, <2>2, <1>2
    <3>2. Sizes
      BY <2>1, <2>2, <1>1, <1>3
    <3> QED
      BY <3>1, <3>2, <1>4
  <2>3. CASE v4' = "sample" /\ v3' = v3
    <3>1. InPlace
      BY <2>1, <2>3, <1>2
    <3>2. Sizes
      BY <2>1, <2>3, <1>1, <1>3
    <3> QED
      BY <3>1, <3>2, <1>4
  <2>4. CASE v4' = "sample" /\ v3' = v3 \o z
    <3>1. z \in Seq(Nat) /\ Len(z) = FrameSize /\ \A i \in 1..Len(z) : z[i] = 0
      BY <1>3
    <3> HIDE DEF z
    <3>2. InPlace
      <4> SUFFICES ASSUME ~v6 PROVE Wasapi!InOrder(v3 \o z, v7, kept)
        BY <1>2, <2>1, <2>4
      <4> QED
        BY <1>1, <1>2, <3>1, SilenceKeeps
    <3>3. v3' \in Seq(Nat) /\ Len(v3') = Len(v3) + FrameSize
      BY <2>4, <3>1, <1>1, Joined
    <3>4. Sizes
      BY <2>1, <2>4, <3>3, <1>1, <1>3
    <3> QED
      BY <3>2, <3>4, <1>4
  <2> QED
    BY <1>8, <2>2, <2>3, <2>4 DEF Wasapi!Wake
<1>9. CASE Wasapi!Drained
  <2>1. UNCHANGED <<v1, v2, v3, v5, v6, v7>> /\ v4' = "sample"
    BY <1>9 DEF Wasapi!Drained
  <2>2. InPlace
    BY <2>1, <1>2
  <2>3. Sizes
    BY <2>1, <1>1
  <2> QED
    BY <2>2, <2>3, <1>4
<1>10. ASSUME NEW n \in 1..Frames, Wasapi!Packet(n) PROVE Wasapi!BufferInv'
  <2> DEFINE room == Wasapi!BufferSize - Len(v3)
             k == IF n < room THEN n ELSE room
             p == SubSeq(v1, 1, k)
             d == SubSeq(v1, n + 1, Len(v1))
  <2>1. /\ v4 = "drain" /\ n \in 1..Len(v1) /\ v3' = v3 \o p /\ v1' = d
        /\ UNCHANGED <<v2, v4, v5, v7>>
    BY <1>10 DEF Wasapi!Packet
  <2>2. v6' <=> (v6 \/ k < n)
    BY <1>10, Zenon DEF Wasapi!Packet
  <2>3. k \in 0..n /\ k <= room /\ (k < n => k = room) /\ n \in Nat /\ k \in Nat /\ room \in Nat
    BY <2>1, <1>1, <1>3
  <2>4. p \in Seq(Nat) /\ Len(p) = k /\ \A i \in 1..k : p[i] = v1[i]
    BY <2>1, <2>3, <1>1
  <2>5. d \in Seq(Nat) /\ Len(d) = Len(v1) - n /\ \A i \in 1..(Len(v1) - n) : d[i] = v1[i + n]
    BY <2>1, <1>1, Dropped
  <2> HIDE DEF k, p, d
  <2>6. v3' \in Seq(Nat) /\ Len(v3') = Len(v3) + k
    BY <2>1, <2>4, <1>1, Joined
  <2>7. k < n => v5
    BY <2>1, <2>3, <1>1, <1>3
  <2>8. Sizes
    BY <2>1, <2>2, <2>3, <2>5, <2>6, <2>7, <1>1, <1>3
  <2>9. InPlace
    <3> SUFFICES ASSUME ~v6'
                 PROVE  /\ v7' <= v2' - Len(v1') /\ Wasapi!InOrder(v3', v7', v2' - Len(v1'))
                        /\ \A i \in 1..Len(v1') : v1'[i] = v2' - Len(v1') + i
      OBVIOUS
    <3>1. ~v6 /\ k = n
      BY <2>2, <2>3
    <3>2. v2' - Len(v1') = kept + n
      BY <2>1, <2>5, <1>1
    <3>3. kept \in Nat /\ v7 <= kept /\ Wasapi!InOrder(v3, v7, kept)
          /\ \A i \in 1..Len(v1) : v1[i] = kept + i
      BY <3>1, <1>2
    <3> HIDE DEF kept
    <3>4. \A i \in 1..Len(p) : p[i] = kept + i
      <4> SUFFICES ASSUME NEW i \in 1..k PROVE p[i] = kept + i
        BY <2>4
      <4>1. i \in 1..Len(v1)
        BY <3>1, <2>1, <1>1
      <4> QED
        BY <4>1, <3>3, <2>4
    <3>5. Wasapi!InOrder(v3 \o p, v7, kept + Len(p))
      BY <2>4, <3>3, <3>4, <1>1, PacketFollows
    <3>6. \A i \in 1..Len(v1') : v1'[i] = kept + n + i
      <4> SUFFICES ASSUME NEW i \in 1..(Len(v1) - n) PROVE d[i] = kept + n + i
        BY <2>1, <2>5
      <4>1. i + n \in 1..Len(v1)
        BY <2>1, <1>1
      <4> QED
        BY <4>1, <3>3, <2>3, <2>5
    <3> QED
      BY <2>1, <2>3, <2>4, <3>1, <3>2, <3>3, <3>5, <3>6, <1>1
  <2> QED
    BY <2>8, <2>9, <1>4
<1> QED
  BY <1>5, <1>6, <1>7, <1>8, <1>9, <1>10 DEF Wasapi!BufferNext

(***************************************************************************)
(* The connection to the gamepad driver (windows/input.cpp).               *)
(***************************************************************************)

LEMMA ConnectionStarts == Pads!GamepadInit => Pads!ConnectionInv
<1> SUFFICES ASSUME Pads!GamepadInit PROVE Pads!ConnectionInv
  OBVIOUS
<1>1. /\ v1 = [s \in Slot |-> [gp |-> None, attached |-> FALSE, session |-> 0, life |-> 0]]
      /\ v2 = FALSE /\ v12 = 0
  BY DEF Pads!GamepadInit
<1> QED
  BY <1>1 DEF Pads!ConnectionInv, Pads!PadsTyped, Pads!ConnectedWhileUsed

LEMMA ConnectionStep ==
  Pads!ConnectionInv /\ [Pads!PadNext \/ Pads!ReportNext \/ Pads!FeedbackNext]_(Pads!gamepadVars)
    => Pads!ConnectionInv'
<1> SUFFICES ASSUME Pads!ConnectionInv,
                    [Pads!PadNext \/ Pads!ReportNext \/ Pads!FeedbackNext]_(Pads!gamepadVars)
             PROVE  Pads!ConnectionInv'
  OBVIOUS
<1>1. /\ v1 \in [Slot -> PadRecord] /\ v12 \in Nat
      /\ \A s \in Slot : v1[s].attached => v2
      /\ v2 /\ ~v3 => \E s \in Slot : v1[s].attached
  BY DEF Pads!ConnectionInv, Pads!PadsTyped, Pads!ConnectedWhileUsed, PadRecord
<1>2. (/\ v1' \in [Slot -> PadRecord] /\ v12' \in Nat
       /\ \A s \in Slot : v1'[s].attached => v2'
       /\ v2' /\ ~v3' => \E s \in Slot : v1'[s].attached) => Pads!ConnectionInv'
  BY DEF Pads!ConnectionInv, Pads!PadsTyped, Pads!ConnectedWhileUsed, PadRecord
\* A call of the driver may fail; a failure is remembered.
<1>3. ASSUME v1' = v1, v12' = v12, v2' = v2, ~v3' => ~v3 PROVE Pads!ConnectionInv'
  BY <1>1, <1>2, <1>3, Zenon
<1>4. CASE UNCHANGED Pads!gamepadVars
  <2>1. v1' = v1 /\ v12' = v12 /\ v2' = v2 /\ v3' = v3
    BY <1>4 DEF Pads!gamepadVars
  <2> QED
    BY <1>3, <2>1, Zenon
<1>5. ASSUME NEW s \in Slot, NEW type \in {"x360", "ds4"}, NEW o \in {"ok", "noclient", "noadd"},
             Pads!Alloc(s, type, o)
      PROVE  Pads!ConnectionInv'
  <2>1. /\ ~v1[s].attached /\ v12' = v12 + 1
        /\ o = "noclient" => ~v2
        /\ v2' = (o # "noclient")
        /\ v3' = (v3 \/ o # "ok")
        /\ IF o = "noclient" THEN v1' = v1
           ELSE v1' = [v1 EXCEPT ![s] = [gp |-> type, attached |-> o = "ok", session |-> v12', life |-> @.life + 1]]
    BY <1>5, Zenon DEF Pads!Alloc
  <2>2. (v2' <=> o # "noclient") /\ (~v3' => ~v3 /\ o = "ok")
    BY <2>1, Zenon
  <2>3. CASE o = "noclient"
    <3>1. v1' = v1 /\ ~v2 /\ ~v2'
      BY <2>1, <2>2, <2>3, Zenon
    <3>2. \A t \in Slot : ~v1[t].attached
      BY <1>1, <3>1, Zenon
    <3>3. v12' \in Nat
      BY <1>1, <2>1
    <3> QED
      BY <1>1, <1>2, <3>1, <3>2, <3>3, Zenon
  <2>4. CASE o # "noclient"
    <3> DEFINE g == (o = "ok")
               r == [gp |-> type, attached |-> g, session |-> v12', life |-> v1[s].life + 1]
    <3>1. v1' = [v1 EXCEPT ![s] = r]
      BY <2>1, <2>4, Zenon
    <3>2. g \in BOOLEAN
      OBVIOUS
    <3> HIDE DEF g
    <3>3. v12' \in Nat /\ v1[s].life \in Nat
      BY <1>1, <2>1 DEF PadRecord
    <3>4. r \in PadRecord /\ r.attached = g
      BY <3>2, <3>3 DEF PadRecord
    <3> HIDE DEF r
    <3>5. v1' \in [Slot -> PadRecord]
      BY <1>1, <3>1, <3>4
    <3>6. v1'[s] = r /\ \A t \in Slot \ {s} : v1'[t] = v1[t]
      BY <1>1, <3>1
    <3>7. v2'
      BY <2>2, <2>4, Zenon
    <3>8. ~v3' => g
      BY <2>2, Zenon DEF g
    <3>9. g => v1'[s].attached
      BY <3>4, <3>6, Zenon
    <3> QED
      BY <1>2, <3>3, <3>5, <3>7, <3>8, <3>9, Zenon
  <2> QED
    BY <2>3, <2>4
<1>6. ASSUME NEW s \in Slot, Pads!Free(s) PROVE Pads!ConnectionInv'
  <2>1. /\ v1' = [v1 EXCEPT ![s].gp = None, ![s].attached = FALSE]
        /\ v12' = v12
    BY <1>6 DEF Pads!Free
  <2>2. v2' <=> \E t \in Slot : v1'[t].attached
    BY <1>6, Zenon DEF Pads!Free, Pads!Freed
  <2> DEFINE q == [v1 EXCEPT ![s].gp = None]
  <2>3. q \in [Slot -> PadRecord]
    BY <1>1 DEF PadRecord
  <2>4. v1' = [q EXCEPT ![s].attached = FALSE]
    BY <2>1
  <2> HIDE DEF q
  <2>5. v1' \in [Slot -> PadRecord]
    BY <2>3, <2>4 DEF PadRecord
  <2> QED
    BY <1>1, <1>2, <2>1, <2>2, <2>5, Zenon
<1>7. CASE Pads!ReportNext
  <2>1. ASSUME NEW s \in Slot, Pads!RepeatTaken(s) PROVE Pads!ConnectionInv'
    <3>1. v1' = v1 /\ v12' = v12 /\ v2' = v2 /\ v3' = v3
      BY <2>1 DEF Pads!RepeatTaken
    <3> QED
      BY <1>3, <3>1, Zenon
  <2>2. ASSUME NEW s \in Slot, NEW w \in BOOLEAN, Pads!GamepadUpdate(s, w) PROVE Pads!ConnectionInv'
    <3>1. v1' = v1 /\ v12' = v12 /\ v2' = v2
      BY <2>2 DEF Pads!GamepadUpdate
    <3>2. ~v3' => ~v3
      BY <2>2, Zenon DEF Pads!GamepadUpdate, Pads!UpdateAndSend
    <3> QED
      BY <1>3, <3>1, <3>2, Zenon
  <2>3. ASSUME NEW w \in BOOLEAN, Pads!RepeatRuns(w) PROVE Pads!ConnectionInv'
    <3>1. v1' = v1 /\ v12' = v12 /\ v2' = v2
      BY <2>3 DEF Pads!RepeatRuns
    <3>2. ~v3' => ~v3
      BY <2>3, Zenon DEF Pads!RepeatRuns, Pads!UpdateAndSend
    <3> QED
      BY <1>3, <3>1, <3>2, Zenon
  <2> QED
    BY <1>7, <2>1, <2>2, <2>3 DEF Pads!ReportNext
<1>8. CASE Pads!FeedbackNext
  <2>1. v1' = v1 /\ v12' = v12 /\ v2' = v2 /\ v3' = v3
    BY <1>8 DEF Pads!FeedbackNext, Pads!RumbleTask, Pads!Notify
  <2> QED
    BY <1>3, <2>1, Zenon
<1> QED
  BY <1>4, <1>5, <1>6, <1>7, <1>8 DEF Pads!PadNext

(***************************************************************************)
(* The pool of captureThread and the list of displays (video.cpp).         *)
(***************************************************************************)
ImageState == {"none", "free", "used"}
ImagePool == [1..PoolSize -> ImageState]

\* The slot handed out comes first, those before it move back by one.
LEMMA FrontOf ==
  ASSUME NEW p \in ImagePool, NEW i \in 1..PoolSize
  PROVE  /\ Images!ToFront(p, i) \in ImagePool
         /\ Images!ToFront(p, i)[1] = "used"
         /\ \A j \in 2..PoolSize : Images!ToFront(p, i)[j] = IF j <= i THEN p[j - 1] ELSE p[j]
<1> DEFINE a == SubSeq(p, 1, i - 1)
           b == SubSeq(p, i + 1, Len(p))
           u == <<"used">>
<1>1. PoolSize \in Nat /\ p \in Seq(ImageState) /\ Len(p) = PoolSize
  BY BoundAssumption DEF ImagePool
<1>2. a \in Seq(ImageState) /\ Len(a) = i - 1 /\ \A j \in 1..(i - 1) : a[j] = p[j]
  <2>1. \A j \in 1..(i - 1) : p[j] \in ImageState
    BY <1>1 DEF ImagePool
  <2> QED
    BY <1>1, <2>1, SubSeqProperties
<1>3. b \in Seq(ImageState) /\ Len(b) = PoolSize - i /\ \A j \in 1..(PoolSize - i) : b[j] = p[i + j]
  <2>1. \A j \in (i + 1)..Len(p) : p[j] \in ImageState
    BY <1>1 DEF ImagePool
  <2>2. /\ b \in Seq(ImageState)
        /\ Len(b) = IF i + 1 <= Len(p) THEN Len(p) - (i + 1) + 1 ELSE 0
        /\ \A j \in 1..(Len(p) - (i + 1) + 1) : b[j] = p[i + 1 + j - 1]
    BY <1>1, <2>1, SubSeqProperties
  <2> QED
    BY <1>1, <2>2
<1>4. u \in Seq(ImageState) /\ Len(u) = 1 /\ u[1] = "used"
  BY DEF ImageState
<1>5. Images!ToFront(p, i) = u \o (a \o b)
  BY DEF Images!ToFront, Images!RemoveAt
<1> HIDE DEF a, b, u
<1>6. /\ a \o b \in Seq(ImageState) /\ Len(a \o b) = PoolSize - 1
      /\ \A j \in 1..(PoolSize - 1) : (a \o b)[j] = IF j <= i - 1 THEN p[j] ELSE p[j + 1]
  <2>1. /\ a \o b \in Seq(ImageState) /\ Len(a \o b) = Len(a) + Len(b)
        /\ \A j \in 1..(Len(a) + Len(b)) : (a \o b)[j] = IF j <= Len(a) THEN a[j] ELSE b[j - Len(a)]
    BY <1>2, <1>3, ConcatProperties
  <2> QED
    BY <1>1, <1>2, <1>3, <2>1
<1> DEFINE c == a \o b
           q == u \o c
<1>7. /\ c \in Seq(ImageState) /\ Len(c) = PoolSize - 1
      /\ \A j \in 1..(PoolSize - 1) : c[j] = IF j <= i - 1 THEN p[j] ELSE p[j + 1]
  BY <1>6
<1>8. Images!ToFront(p, i) = q
  BY <1>5
<1> HIDE DEF c
<1>9. /\ q \in Seq(ImageState) /\ Len(q) = Len(u) + Len(c)
      /\ \A j \in 1..(Len(u) + Len(c)) : q[j] = IF j <= Len(u) THEN u[j] ELSE c[j - Len(u)]
  BY <1>4, <1>7, ConcatProperties, ZenonT(40)
<1> HIDE DEF q
<1>10. Len(q) = PoolSize /\ \A j \in 1..PoolSize : q[j] = IF j <= 1 THEN "used" ELSE c[j - 1]
  BY <1>1, <1>4, <1>7, <1>9
<1>11. q \in ImagePool
  BY <1>9, <1>10, LenProperties DEF ImagePool
<1>12. \A j \in 2..PoolSize : q[j] = IF j <= i THEN p[j - 1] ELSE p[j]
  <2> SUFFICES ASSUME NEW j \in 2..PoolSize PROVE q[j] = IF j <= i THEN p[j - 1] ELSE p[j]
    OBVIOUS
  <2>1. q[j] = c[j - 1] /\ j - 1 \in 1..(PoolSize - 1)
    BY <1>1, <1>10
  <2>2. c[j - 1] = IF j - 1 <= i - 1 THEN p[j - 1] ELSE p[j - 1 + 1]
    BY <1>7, <2>1
  <2> QED
    BY <2>1, <2>2
<1>13. q[1] = "used"
  BY <1>1, <1>10
<1> QED
  BY <1>8, <1>11, <1>12, <1>13

\* A nonempty set of slots has a first one.
LEMMA Least ==
  ASSUME NEW n \in Nat, NEW S \in SUBSET (1..n), S # {}
  PROVE  \E i \in S : \A j \in S : i <= j
<1>1. S \subseteq Nat
  OBVIOUS
<1>2. PICK i \in S : \A j \in S : <<j, i>> \notin OpToRel(<, Nat)
  BY <1>1, NatLessThanWellFounded, WFMin
<1>3. \A j \in S : ~(j < i)
  BY <1>1, <1>2 DEF OpToRel
<1> QED
  BY <1>3

\* The slots in given states, and their number.
InState(p, states) == {i \in 1..PoolSize : p[i] \in states}

LEMMA SlotsAreCounted ==
  ASSUME NEW p \in ImagePool, NEW states
  PROVE  /\ Images!Count(p, states) = Cardinality(InState(p, states))
         /\ IsFiniteSet(InState(p, states)) /\ Images!Count(p, states) \in Nat
<1>1. DOMAIN p = 1..PoolSize
  BY DEF ImagePool
<1>2. Images!Count(p, states) = Cardinality(InState(p, states))
  <2>1. {j \in DOMAIN p : p[j] \in states} = InState(p, states)
    BY <1>1 DEF InState
  <2> QED
    BY <2>1 DEF Images!Count, Images!Cardinality, Cardinality
<1>3. IsFiniteSet(1..PoolSize)
  BY BoundAssumption, FS_Interval
<1>4. IsFiniteSet(InState(p, states))
  BY <1>3, FS_Subset DEF InState
<1> QED
  BY <1>2, <1>4, FS_CardinalityType

\* Handing out a slot counts as one more image in the states it joins.
LEMMA FrontCounts ==
  ASSUME NEW p \in ImagePool, NEW i \in 1..PoolSize, NEW states, "used" \in states
  PROVE  Images!Count(Images!ToFront(p, i), states) =
           IF p[i] \in states THEN Images!Count(p, states) ELSE Images!Count(p, states) + 1
<1> DEFINE q == Images!ToFront(p, i)
           S == InState(p, states) \ {i}
           T == InState(q, states) \ {1}
           f == [j \in S |-> IF j < i THEN j + 1 ELSE j]
<1>1. /\ q \in ImagePool /\ q[1] = "used"
      /\ \A j \in 2..PoolSize : q[j] = IF j <= i THEN p[j - 1] ELSE p[j]
  BY FrontOf
<1> HIDE DEF q
<1>2. S \subseteq 1..PoolSize /\ T \subseteq 2..PoolSize /\ PoolSize \in Nat
  BY BoundAssumption DEF InState
<1>3. f \in [S -> T]
  <2>1. ASSUME NEW j \in S PROVE (IF j < i THEN j + 1 ELSE j) \in T
    BY <1>1, <1>2, <2>1 DEF InState
  <2> QED
    BY <2>1
<1>4. \A x, y \in S : f[x] = f[y] => x = y
  BY <1>2
<1>5. \A t \in T : \E s \in S : f[s] = t
  <2> SUFFICES ASSUME NEW t \in T PROVE \E s \in S : f[s] = t
    OBVIOUS
  <2>1. CASE t <= i
    <3>1. t - 1 \in S
      BY <1>1, <1>2, <2>1 DEF InState
    <3>2. f[t - 1] = t
      BY <1>2, <2>1, <3>1
    <3> QED
      BY <3>1, <3>2
  <2>2. CASE ~(t <= i)
    <3>1. t \in S
      BY <1>1, <1>2, <2>2 DEF InState
    <3>2. f[t] = t
      BY <1>2, <2>2, <3>1
    <3> QED
      BY <3>1, <3>2
  <2> QED
    BY <2>1, <2>2
<1> HIDE DEF f
<1>6. ExistsBijection(S, T)
  BY <1>3, <1>4, <1>5, Fun_IsBij, Fun_ExistsBij
<1>7. /\ Images!Count(p, states) = Cardinality(InState(p, states))
      /\ IsFiniteSet(InState(p, states)) /\ Images!Count(p, states) \in Nat
  BY SlotsAreCounted
<1>8. Images!Count(q, states) = Cardinality(InState(q, states)) /\ IsFiniteSet(InState(q, states))
  BY <1>1, SlotsAreCounted
<1>9. IsFiniteSet(S) /\ Cardinality(S) = IF p[i] \in states THEN Images!Count(p, states) - 1
                                         ELSE Images!Count(p, states)
  BY <1>7, FS_RemoveElement DEF InState
<1>10. Cardinality(T) = Cardinality(S)
  BY <1>6, <1>9, FS_Bijection
<1>11. Cardinality(T) = Images!Count(q, states) - 1
  <2>1. 1 \in InState(q, states)
    BY <1>1, <1>2 DEF InState
  <2> QED
    BY <1>8, <2>1, FS_RemoveElement
<1>12. Images!Count(q, states) \in Nat
  BY <1>1, SlotsAreCounted
<1> QED
  BY <1>7, <1>9, <1>10, <1>11, <1>12 DEF q

\* Freeing the last k free slots keeps the slots in use, and at most k are freed.
LEMMA TrimKeeps ==
  ASSUME NEW p \in ImagePool, NEW k \in Nat
  PROVE  /\ Images!Trimmed(p, k) \in ImagePool
         /\ Images!Count(Images!Trimmed(p, k), {"used"}) = Images!Count(p, {"used"})
         /\ Images!Count(Images!Trimmed(p, k), {"free", "used"}) + k >= Images!Count(p, {"free", "used"})
<1> DEFINE q == Images!Trimmed(p, k)
           after(i) == SubSeq(p, i + 1, Len(p))
           P == InState(p, {"free", "used"})
           Q == InState(q, {"free", "used"})
           F == P \ Q
<1>1. PoolSize \in Nat /\ p \in Seq(ImageState) /\ Len(p) = PoolSize /\ DOMAIN p = 1..PoolSize
  BY BoundAssumption DEF ImagePool
<1>2. /\ DOMAIN q = 1..PoolSize
      /\ \A i \in 1..PoolSize : q[i] = IF p[i] = "free" /\ Images!Count(after(i), {"free"}) < k
                                       THEN "none" ELSE p[i]
  BY <1>1 DEF Images!Trimmed
<1>3. q \in ImagePool
  <2>1. q = [i \in 1..PoolSize |-> IF p[i] = "free" /\ Images!Count(after(i), {"free"}) < k
                                   THEN "none" ELSE p[i]]
    BY <1>1 DEF Images!Trimmed
  <2>2. \A i \in 1..PoolSize : p[i] \in ImageState
    BY DEF ImagePool
  <2> HIDE DEF after, q
  <2> QED
    BY <2>1, <2>2 DEF ImagePool, ImageState
<1> HIDE DEF q
<1>4. Images!Count(q, {"used"}) = Images!Count(p, {"used"})
  <2>1. InState(q, {"used"}) = InState(p, {"used"})
    BY <1>2 DEF InState
  <2> QED
    BY <1>3, <2>1, SlotsAreCounted
<1>5. /\ Images!Count(p, {"free", "used"}) = Cardinality(P) /\ IsFiniteSet(P) /\ Cardinality(P) \in Nat
      /\ Images!Count(q, {"free", "used"}) = Cardinality(Q) /\ IsFiniteSet(Q) /\ Cardinality(Q) \in Nat
  BY <1>3, SlotsAreCounted
<1>6. \A i \in F : i \in 1..PoolSize /\ p[i] = "free" /\ Images!Count(after(i), {"free"}) < k
  BY <1>2 DEF InState
<1>7. Q \subseteq P
  BY <1>2 DEF InState
<1>8. IsFiniteSet(F) /\ Cardinality(F) = Cardinality(P) - Cardinality(Q)
  <2>1. P \cap Q = Q
    BY <1>7
  <2>2. IsFiniteSet(P) /\ IsFiniteSet(Q) /\ F = P \ Q
    BY <1>5
  <2> HIDE DEF P, Q, F
  <2> QED
    BY <2>1, <2>2, FS_Difference
<1>9. Cardinality(F) <= k
  <2>1. CASE F = {}
    BY <2>1, FS_EmptySet
  <2>2. CASE F # {}
    <3>1. PICK m \in F : \A j \in F : m <= j
      <4>1. F \in SUBSET (1..PoolSize)
        BY <1>6
      <4> QED
        BY <1>1, <2>2, <4>1, Least
    <3>2. m \in 1..PoolSize /\ Images!Count(after(m), {"free"}) < k
      BY <1>6, <3>1
    <3> DEFINE A == {j \in (m + 1)..PoolSize : p[j] = "free"}
               a == after(m)
               B == {j \in DOMAIN a : a[j] \in {"free"}}
               f == [j \in B |-> j + m]
    <3>3. a \in Seq(ImageState) /\ Len(a) = PoolSize - m /\ \A j \in 1..(PoolSize - m) : a[j] = p[m + j]
      <4>1. \A j \in (m + 1)..Len(p) : p[j] \in ImageState
        BY <1>1, <3>2 DEF ImagePool
      <4>2. /\ a \in Seq(ImageState)
            /\ Len(a) = IF m + 1 <= Len(p) THEN Len(p) - (m + 1) + 1 ELSE 0
            /\ \A j \in 1..(Len(p) - (m + 1) + 1) : a[j] = p[m + 1 + j - 1]
        BY <1>1, <3>2, <4>1, SubSeqProperties
      <4> QED
        BY <1>1, <3>2, <4>2
    <3>4. Images!Count(a, {"free"}) = Cardinality(B)
      BY DEF Images!Count, Images!Cardinality, Cardinality
    <3> HIDE DEF a
    <3>5. DOMAIN a = 1..(PoolSize - m)
      BY <3>3, LenProperties
    <3>6. IsFiniteSet(B) /\ Cardinality(B) \in Nat
      <4>1. IsFiniteSet(1..(PoolSize - m))
        BY <1>1, <3>2, FS_Interval
      <4>2. B \in SUBSET (1..(PoolSize - m))
        BY <3>5
      <4>3. IsFiniteSet(B)
        BY <4>1, <4>2, FS_Subset
      <4> QED
        BY <4>3, FS_CardinalityType
    <3>7. ExistsBijection(B, A)
      <4>1. f \in [B -> A]
        <5>1. ASSUME NEW j \in B PROVE j + m \in A
          BY <1>1, <3>2, <3>3, <3>5, <5>1
        <5> QED
          BY <5>1
      <4>2. \A x, y \in B : f[x] = f[y] => x = y
        BY <3>2, <3>5
      <4>3. \A t \in A : \E s \in B : f[s] = t
        <5> SUFFICES ASSUME NEW t \in A PROVE \E s \in B : f[s] = t
          OBVIOUS
        <5>1. t - m \in B
          <6>1. t - m \in 1..(PoolSize - m) /\ m + (t - m) = t
            BY <1>1, <3>2
          <6>2. a[t - m] = p[t]
            BY <3>3, <6>1
          <6> QED
            BY <3>5, <6>1, <6>2
        <5>2. f[t - m] = t
          BY <1>1, <3>2, <5>1
        <5> QED
          BY <5>1, <5>2
      <4> HIDE DEF f
      <4> QED
        BY <4>1, <4>2, <4>3, Fun_IsBij, Fun_ExistsBij
    <3>8. IsFiniteSet(A) /\ Cardinality(A) = Cardinality(B)
      BY <3>6, <3>7, FS_Bijection
    <3>9. F \ {m} \subseteq A
      <4> SUFFICES ASSUME NEW j \in F, j # m PROVE j \in A
        OBVIOUS
      <4> HIDE DEF F
      <4>1. j \in 1..PoolSize /\ p[j] = "free"
        BY <1>6
      <4>2. m <= j
        BY <3>1
      <4> QED
        BY <1>1, <3>2, <4>1, <4>2
    <3>10. Cardinality(F \ {m}) <= Cardinality(A) /\ IsFiniteSet(F \ {m})
      BY <3>8, <3>9, FS_Subset
    <3>11. Cardinality(F \ {m}) = Cardinality(F) - 1
      BY <1>8, <3>1, FS_RemoveElement
    <3>12. Cardinality(B) < k
      BY <3>2, <3>4 DEF a
    <3>13. Cardinality(F) \in Nat
      BY <1>8, FS_CardinalityType
    <3> HIDE DEF A, B, F
    <3> QED
      BY <3>6, <3>8, <3>10, <3>11, <3>12, <3>13
  <2> QED
    BY <2>1, <2>2
<1>10. Cardinality(Q) + k >= Cardinality(P)
  <2>1. Cardinality(F) \in Nat
    BY <1>8, FS_CardinalityType
  <2> HIDE DEF F, P, Q
  <2> QED
    BY <1>5, <1>8, <1>9, <2>1
<1> QED
  BY <1>3, <1>4, <1>5, <1>10 DEF q

\* The target is the largest number of images in use within the timeout.
LEMMA TargetIsLargest ==
  ASSUME NEW used \in Nat, NEW at \in Seq(Int), used < Len(at), NEW now \in Int
  PROVE  /\ Images!TrimTarget(used, at, now) \in used..(Len(at) - 1)
         /\ \A n \in used..(Len(at) - 1) :
              at[n + 1] # -1 /\ now - at[n + 1] < TrimTimeout => n <= Images!TrimTarget(used, at, now)
<1> DEFINE R == {n \in used..(Len(at) - 1) : at[n + 1] # -1 /\ now - at[n + 1] < TrimTimeout}
           S == {used} \cup R
           D == {n + 1 : n \in S}
<1>1. Len(at) \in Nat
  OBVIOUS
<1>2. S \subseteq used..(Len(at) - 1) /\ S # {}
  BY <1>1
<1>3. Images!TrimTarget(used, at, now) = CHOOSE x \in S : \A y \in S : x >= y
  BY DEF Images!TrimTarget, Images!Max
<1> HIDE DEF R
<1>4. \E x \in S : \A y \in S : x >= y
  <2> HIDE DEF S
  <2>1. D \in SUBSET (1..Len(at)) /\ D # {}
    <3>1. \A n \in S : n + 1 \in 1..Len(at)
      BY <1>1, <1>2
    <3>2. PICK n \in S : TRUE
      BY <1>2
    <3>3. n + 1 \in D
      BY <3>2
    <3> QED
      BY <3>1, <3>3
  <2>2. PICK d \in D : \A e \in D : e <= d
    BY <1>1, <2>1, Greatest
  <2>3. PICK x \in S : d = x + 1
    OBVIOUS
  <2>4. \A y \in S : y + 1 \in D
    OBVIOUS
  <2>5. \A y \in S : x >= y
    <3> SUFFICES ASSUME NEW y \in S PROVE x >= y
      OBVIOUS
    <3>1. y + 1 <= x + 1
      BY <2>2, <2>3, <2>4
    <3>2. x \in Nat /\ y \in Nat
      BY <1>2
    <3> QED
      BY <3>1, <3>2
  <2> QED
    BY <2>5
<1> DEFINE m == CHOOSE x \in S : \A y \in S : x >= y
<1>5. m \in S /\ \A y \in S : m >= y
  BY <1>4
<1> HIDE DEF m
<1>6. m \in used..(Len(at) - 1)
  BY <1>2, <1>5
<1>7. \A n \in R : n <= m
  BY <1>2, <1>5
<1>8. ASSUME NEW n \in used..(Len(at) - 1), at[n + 1] # -1, now - at[n + 1] < TrimTimeout
      PROVE  n \in R
  BY <1>8 DEF R
<1> QED
  BY <1>3, <1>6, <1>7, <1>8 DEF m

\* After a trim the images in use are as before, and no fewer are allocated than
\* before or than were in use at once within the timeout.
Allocated == {"free", "used"}

LEMMA TrimStep ==
  ASSUME NEW p \in ImagePool, NEW now \in Int, v2 \in Seq(Int)
  PROVE  /\ Images!Trim(p, now).imgs \in ImagePool
         /\ Images!Trim(p, now).at \in Seq(Int)
         /\ Images!Count(Images!Trim(p, now).imgs, {"used"}) = Images!Count(p, {"used"})
         /\ \/ Images!Count(Images!Trim(p, now).imgs, Allocated) = Images!Count(p, Allocated)
            \/ \A n \in DOMAIN v2 : v2[n] # -1 /\ now - v2[n] < TrimTimeout =>
                 Images!Count(Images!Trim(p, now).imgs, Allocated) >= n - 1
<1> DEFINE used == Images!Count(p, {"used"})
           allocated == Images!Count(p, Allocated)
           last == Images!Max({Len(v2), used + 1})
           at == [n \in 1..last |->
                    IF n = used + 1 THEN now ELSE IF n <= Len(v2) THEN v2[n] ELSE -1]
           target == Images!TrimTarget(used, at, now)
           trimmed == Images!Trimmed(p, allocated - target)
<1>1. used \in Nat /\ allocated \in Nat
  BY SlotsAreCounted
<1>2. Images!Trim(p, now) =
        IF allocated > target THEN [imgs |-> trimmed, at |-> SubSeq(at, 1, target + 1)]
        ELSE [imgs |-> p, at |-> at]
  BY DEF Images!Trim, Allocated
<1> HIDE DEF used, allocated, trimmed, target
<1>3. last = IF Len(v2) >= used + 1 THEN Len(v2) ELSE used + 1
  <2>1. Len(v2) \in Int /\ used + 1 \in Int
    BY <1>1
  <2> QED
    BY <2>1, LargerOfTwo DEF Images!Max, Kms!Max
<1> HIDE DEF last
<1>4. last \in Nat /\ last >= used + 1 /\ last >= Len(v2) /\ Len(v2) \in Nat
  BY <1>1, <1>3
<1>5. /\ at \in [1..last -> Int]
      /\ \A n \in 1..last : at[n] = IF n = used + 1 THEN now ELSE IF n <= Len(v2) THEN v2[n] ELSE -1
  <2>1. \A n \in 1..Len(v2) : v2[n] \in Int
    BY ElementOfSeq
  <2> QED
    BY <1>4, <2>1
<1> HIDE DEF at
<1>6. at \in Seq(Int) /\ Len(at) = last
  BY <1>4, <1>5
<1>7. /\ target \in used..(last - 1)
      /\ \A n \in used..(last - 1) : at[n + 1] # -1 /\ now - at[n + 1] < TrimTimeout => n <= target
  <2>1. used < Len(at)
    BY <1>1, <1>4, <1>6
  <2> QED
    BY <1>1, <1>6, <2>1, TargetIsLargest DEF target
<1>8. CASE ~(allocated > target)
  <2>1. Images!Trim(p, now).imgs = p /\ Images!Trim(p, now).at = at
    BY <1>2, <1>8
  <2> QED
    BY <1>6, <2>1 DEF used, allocated
<1>9. CASE allocated > target
  <2>1. Images!Trim(p, now).imgs = trimmed /\ Images!Trim(p, now).at = SubSeq(at, 1, target + 1)
    <3> DEFINE cut == SubSeq(at, 1, target + 1)
    <3>1. Images!Trim(p, now) = [imgs |-> trimmed, at |-> cut]
      BY <1>2, <1>9, Zenon
    <3> HIDE DEF cut
    <3>2. Images!Trim(p, now).imgs = trimmed /\ Images!Trim(p, now).at = cut
      BY <3>1
    <3> QED
      BY <3>2 DEF cut
  <2>2. allocated - target \in Nat
    BY <1>1, <1>7, <1>9
  <2>3. /\ trimmed \in ImagePool /\ Images!Count(trimmed, {"used"}) = used
        /\ Images!Count(trimmed, Allocated) + (allocated - target) >= allocated
        /\ Images!Count(trimmed, Allocated) \in Nat
    BY <2>2, TrimKeeps, SlotsAreCounted DEF trimmed, used, allocated, Allocated
  <2>4. SubSeq(at, 1, target + 1) \in Seq(Int)
    <3>1. \A n \in 1..(target + 1) : at[n] \in Int
      BY <1>1, <1>4, <1>5, <1>7
    <3> QED
      BY <1>1, <1>7, <3>1, SubSeqProperties
  <2>5. Images!Count(trimmed, Allocated) >= target
    BY <1>1, <1>7, <2>3
  <2>6. ASSUME NEW n \in DOMAIN v2, v2[n] # -1, now - v2[n] < TrimTimeout
        PROVE  Images!Count(trimmed, Allocated) >= n - 1
    <3>1. n \in 1..Len(v2)
      BY LenProperties
    <3>2. n - 1 <= target
      <4>1. CASE n <= used + 1
        BY <1>1, <1>7, <3>1, <4>1
      <4>2. CASE ~(n <= used + 1)
        <5>1. at[n] = v2[n]
          BY <1>1, <1>4, <1>5, <3>1, <4>2
        <5>2. n - 1 \in used..(last - 1) /\ (n - 1) + 1 = n
          BY <1>1, <1>4, <3>1, <4>2
        <5> QED
          BY <1>7, <2>6, <5>1, <5>2
      <4> QED
        BY <4>1, <4>2
    <3> QED
      BY <1>1, <1>7, <2>3, <2>5, <3>1, <3>2
  <2> QED
    BY <2>1, <2>3, <2>4, <2>6 DEF used
<1> QED
  BY <1>8, <1>9

\* The first slot in a state, when there is one.
LEMMA FirstSlot ==
  ASSUME NEW p \in ImagePool, NEW s, Images!Count(p, {s}) > 0
  PROVE  /\ Images!Min({j \in DOMAIN p : p[j] = s}) \in 1..PoolSize
         /\ p[Images!Min({j \in DOMAIN p : p[j] = s})] = s
<1> DEFINE S == {j \in DOMAIN p : p[j] = s}
<1>1. S = InState(p, {s}) /\ PoolSize \in Nat
  BY BoundAssumption DEF InState, ImagePool
<1>2. S \in SUBSET (1..PoolSize)
  BY DEF ImagePool
<1>3. S # {}
  <2>1. Cardinality(S) > 0
    BY <1>1, SlotsAreCounted
  <2> QED
    BY <2>1, FS_EmptySet
<1>4. \A j \in S : p[j] = s
  OBVIOUS
<1> HIDE DEF S
<1>5. \E i \in S : \A j \in S : i <= j
  BY <1>1, <1>2, <1>3, Least
<1>6. Images!Min(S) \in S
  BY <1>5 DEF Images!Min
<1> QED
  BY <1>2, <1>4, <1>6 DEF S

LEMMA PullStep ==
  ASSUME Images!ImagesInv, Images!PullImage
  PROVE  Images!ImagesInv' /\ Images!SharedStays /\ Images!RecentUseIsKept
<1>1. /\ v1 \in ImagePool /\ v2 \in Seq(Int) /\ v3 \in Nat /\ v4 \in Seq(Monitor)
  BY DEF Images!ImagesInv, ImagePool, ImageState
<1>2. v3' = v3 + 1 /\ v4' = v4
  BY DEF Images!PullImage
<1>3. PICK state \in {"free", "none"} :
        LET q == Images!ToFront(v1, Images!Min({j \in DOMAIN v1 : v1[j] = state}))
        IN /\ state = "none" => Images!Count(v1, {"free"}) = 0
           /\ Images!Count(v1, {state}) > 0
           /\ v1' = Images!Trim(q, v3').imgs /\ v2' = Images!Trim(q, v3').at
  BY Zenon DEF Images!PullImage
<1> DEFINE i == Images!Min({j \in DOMAIN v1 : v1[j] = state})
           q == Images!ToFront(v1, i)
<1>4. i \in 1..PoolSize /\ v1[i] = state
  BY <1>1, <1>3, FirstSlot
<1>5. v1' = Images!Trim(q, v3').imgs /\ v2' = Images!Trim(q, v3').at
  BY <1>3
<1> HIDE DEF i
<1>6. q \in ImagePool
  BY <1>1, <1>4, FrontOf
<1>7. Images!Count(q, {"used"}) = Images!Count(v1, {"used"}) + 1
  BY <1>1, <1>4, FrontCounts
<1>8. Images!Count(q, Allocated) >= Images!Count(v1, Allocated)
  <2>1. Images!Count(q, Allocated) = IF v1[i] \in Allocated THEN Images!Count(v1, Allocated)
                                     ELSE Images!Count(v1, Allocated) + 1
    BY <1>1, <1>4, FrontCounts DEF Allocated
  <2>2. Images!Count(v1, Allocated) \in Nat
    BY <1>1, SlotsAreCounted
  <2> QED
    BY <2>1, <2>2
<1> HIDE DEF q
<1>9. v3' \in Int
  BY <1>1, <1>2
<1>10. /\ v1' \in ImagePool /\ v2' \in Seq(Int)
       /\ Images!Count(v1', {"used"}) = Images!Count(q, {"used"})
       /\ \/ Images!Count(v1', Allocated) = Images!Count(q, Allocated)
          \/ \A n \in DOMAIN v2 : v2[n] # -1 /\ v3' - v2[n] < TrimTimeout =>
               Images!Count(v1', Allocated) >= n - 1
  BY <1>1, <1>5, <1>6, <1>9, TrimStep
<1>11. Images!ImagesInv'
  BY <1>1, <1>2, <1>10 DEF Images!ImagesInv, ImagePool, ImageState
<1>12. Images!SharedStays
  BY <1>7, <1>10 DEF Images!SharedStays
<1>13. Images!RecentUseIsKept
  <2> SUFFICES ASSUME NEW n \in DOMAIN v2, v2[n] # -1, v3' - v2[n] < TrimTimeout
               PROVE  Images!Count(v1', Allocated) >= Images!Min({n - 1, Images!Count(v1, Allocated)})
    BY DEF Images!RecentUseIsKept, Allocated
  <2> DEFINE a == Images!Count(v1, Allocated)
             b == Images!Count(v1', Allocated)
  <2>1. a \in Int /\ b \in Int /\ Images!Count(q, Allocated) \in Int
    BY <1>1, <1>6, <1>10, SlotsAreCounted
  <2>2. n - 1 \in Int
    BY <1>1, LenProperties
  <2>3. b >= a \/ b >= n - 1
    BY <1>8, <1>10, <2>1
  <2> HIDE DEF a, b
  <2>4. Images!Min({n - 1, a}) = IF n - 1 <= a THEN n - 1 ELSE a
    BY <2>1, <2>2, SmallerOfTwo DEF Images!Min, Kms!Min
  <2>5. b >= Images!Min({n - 1, a})
    BY <2>1, <2>2, <2>3, <2>4
  <2> QED
    BY <2>5 DEF a, b
<1> QED
  BY <1>11, <1>12, <1>13

\* A refreshed list of displays keeps the one the index points at.
LEMMA RefreshStep ==
  ASSUME Images!ImagesInv, NEW found \in Seq(Monitor), NEW output \in Monitor,
         Images!Refresh(found, output)
  PROVE  v4' \in Seq(Monitor) /\ Images!DisplayKept
<1> DEFINE now == IF found = <<>> THEN <<output>> ELSE found
           wanted == IF v5 \in DOMAIN v4 THEN v4[v5] ELSE output
           at == {j \in DOMAIN now : now[j] = wanted}
<1>1. v4 \in Seq(Monitor)
  BY DEF Images!ImagesInv
<1>2. CASE found = <<>> /\ v4 # <<>>
  <2>1. Images!Refreshed(v4, v5, found, output) = [names |-> v4, p |-> v5]
    BY <1>2 DEF Images!Refreshed
  <2>2. v4' = v4
    BY <2>1 DEF Images!Refresh
  <2> QED
    BY <1>1, <2>2 DEF Images!DisplayKept
<1>3. CASE ~(found = <<>> /\ v4 # <<>>)
  <2>1. Images!Refreshed(v4, v5, found, output) =
          [names |-> now, p |-> IF at = {} THEN 1 ELSE Images!Min(at)]
    BY <1>3, Zenon DEF Images!Refreshed
  <2>2. now \in Seq(Monitor) /\ now # <<>> /\ Len(now) \in Nat \ {0}
    <3>1. CASE found = <<>>
      <4>1. now = <<output>> /\ <<output>> \in Seq(Monitor) /\ Len(<<output>>) = 1
        BY <3>1
      <4>2. now # <<>>
        BY <4>1
      <4> QED
        BY <4>1, <4>2
    <3>2. CASE found # <<>>
      BY <3>2, EmptySeq
    <3> QED
      BY <3>1, <3>2
  <2>3. DOMAIN now = 1..Len(now)
    BY <2>2, LenProperties
  <2>4. at \in SUBSET (1..Len(now)) /\ \A j \in at : now[j] = wanted
    BY <2>3
  <2>5. \A j \in DOMAIN now : now[j] = wanted => j \in at
    OBVIOUS
  <2> DEFINE new == IF at = {} THEN 1 ELSE Images!Min(at)
  <2> HIDE DEF now, at
  <2>6. at # {} => Images!Min(at) \in at
    <3> SUFFICES ASSUME at # {} PROVE Images!Min(at) \in at
      OBVIOUS
    <3>1. \E j \in at : \A k \in at : j <= k
      BY <2>2, <2>4, Least
    <3> QED
      BY <3>1 DEF Images!Min
  <2>7. v4' = now /\ v5' = new
    <3> HIDE DEF new
    <3>1. Images!Refreshed(v4, v5, found, output) = [names |-> now, p |-> new]
      BY <2>1 DEF new
    <3> QED
      BY <3>1 DEF Images!Refresh
  <2>8. v5' \in DOMAIN v4'
    BY <2>2, <2>3, <2>4, <2>6, <2>7
  <2>9. ASSUME v5 \in DOMAIN v4, v4[v5] \in Images!ToSet(v4')
        PROVE  v4'[v5'] = v4[v5]
    <3>1. wanted = v4[v5]
      BY <2>9
    <3>2. PICK j \in DOMAIN now : now[j] = wanted
      BY <2>7, <2>9, <3>1 DEF Images!ToSet
    <3>3. at # {}
      BY <2>5, <3>2
    <3> QED
      BY <2>4, <2>6, <2>7, <3>1, <3>3
  <2>10. Images!DisplayKept
    BY <2>8, <2>9 DEF Images!DisplayKept
  <2> QED
    BY <2>2, <2>7, <2>10
<1> QED
  BY <1>2, <1>3

LEMMA PoolStarts == Images!Init => Images!ImagesInv
<1> SUFFICES ASSUME Images!Init PROVE Images!ImagesInv
  OBVIOUS
<1>1. v2 = <<>> /\ v4 = <<>> /\ v3 = 0 /\ v1 = [j \in 1..PoolSize |-> "none"]
  BY DEF Images!Init
<1>2. v2 \in Seq(Int) /\ v4 \in Seq(Monitor)
  BY <1>1
<1> QED
  BY <1>1, <1>2 DEF Images!ImagesInv

\* What a step of the capture thread keeps.
PoolKept == Images!SharedStays /\ Images!RecentUseIsKept /\ Images!DisplayKept

LEMMA PoolStep ==
  Images!ImagesInv /\ [Images!Next]_(Images!imageVars) => Images!ImagesInv' /\ PoolKept
<1> SUFFICES ASSUME Images!ImagesInv, [Images!Next]_(Images!imageVars)
             PROVE  Images!ImagesInv' /\ PoolKept
  OBVIOUS
<1>1. v1 \in [1..PoolSize -> ImageState] /\ v2 \in Seq(Int) /\ v3 \in Nat /\ v4 \in Seq(Monitor)
  BY DEF Images!ImagesInv, ImageState
<1>2. CASE Images!PullImage
  <2>1. v4' = v4
    BY <1>2 DEF Images!PullImage
  <2> QED
    BY <1>2, <2>1, PullStep DEF PoolKept, Images!DisplayKept
<1>3. CASE ~Images!PullImage
  <2>1. Images!SharedStays /\ Images!RecentUseIsKept
    BY <1>3 DEF Images!SharedStays, Images!RecentUseIsKept
  <2>2. CASE UNCHANGED Images!imageVars
    <3>1. Images!ImagesInv'
      BY <2>2 DEF Images!imageVars, Images!ImagesInv
    <3>2. Images!DisplayKept
      BY <2>2 DEF Images!imageVars, Images!DisplayKept
    <3> QED
      BY <2>1, <3>1, <3>2 DEF PoolKept
  <2>3. CASE Images!DropImages
    <3>1. v1' = [j \in 1..PoolSize |-> "none"] /\ v3' = v3 + 1 /\ v2' = v2 /\ v4' = v4
      BY <2>3 DEF Images!DropImages
    <3>2. Images!ImagesInv'
      BY <1>1, <3>1 DEF Images!ImagesInv
    <3> QED
      BY <2>1, <3>1, <3>2 DEF PoolKept, Images!DisplayKept
  <2>4. ASSUME NEW i \in 1..PoolSize, Images!Release(i) PROVE Images!ImagesInv' /\ PoolKept
    <3>1. v1' = [v1 EXCEPT ![i] = "free"] /\ v2' = v2 /\ v3' = v3 /\ v4' = v4
      BY <2>4 DEF Images!Release
    <3>2. Images!ImagesInv'
      BY <1>1, <3>1 DEF Images!ImagesInv, ImageState
    <3> QED
      BY <2>1, <3>1, <3>2 DEF PoolKept, Images!DisplayKept
  <2>5. ASSUME NEW found \in UNION {[1..n -> Monitor] : n \in 0..2}, NEW output \in Monitor,
               Images!Refresh(found, output)
        PROVE  Images!ImagesInv' /\ PoolKept
    <3>1. found \in Seq(Monitor)
      <4>1. PICK n \in 0..2 : found \in [1..n -> Monitor]
        OBVIOUS
      <4> QED
        BY <4>1
    <3>2. v4' \in Seq(Monitor) /\ Images!DisplayKept
      BY <2>5, <3>1, RefreshStep
    <3>3. v1' = v1 /\ v2' = v2 /\ v3' = v3
      BY <2>5 DEF Images!Refresh
    <3>4. Images!ImagesInv'
      BY <1>1, <3>2, <3>3 DEF Images!ImagesInv, ImageState
    <3> QED
      BY <2>1, <3>2, <3>4 DEF PoolKept
  <2>6. ASSUME NEW n \in 1..3, Images!SwitchDisplay(n) PROVE Images!ImagesInv' /\ PoolKept
    <3>1. UNCHANGED <<v1, v2, v3, v4>>
      BY <2>6 DEF Images!SwitchDisplay
    <3>2. Images!ImagesInv'
      BY <1>1, <3>1 DEF Images!ImagesInv, ImageState
    <3> QED
      BY <2>1, <3>1, <3>2 DEF PoolKept, Images!DisplayKept
  <2> QED
    BY <1>3, <2>2, <2>3, <2>4, <2>5, <2>6, Zenon DEF Images!Next
<1> QED
  BY <1>2, <1>3

(***************************************************************************)
(* The choice of an encoder (video.cpp) and reports of lost frames         *)
(* (nvenc_base.cpp).                                                       *)
(***************************************************************************)

\* The first encoder of a list is one.
LEMMA FirstEncoder ==
  ASSUME NEW S, S # {}, S \subseteq Encoders!Enc
  PROVE  Encoders!FirstOf(S) \in S /\ Encoders!FirstOf(S) # None
<1> DEFINE e == <<"e1", "e2">>
           D == {i \in DOMAIN e : e[i] \in S}
<1>1. DOMAIN e = 1..2 /\ e[1] = "e1" /\ e[2] = "e2"
  OBVIOUS
<1>2. Encoders!Enc = {"e1", "e2"}
  BY DEF Encoders!Enc, Encoders!ToSet
<1>3. D \in SUBSET (1..2) /\ D # {}
  <2>1. \A x \in S : x = "e1" \/ x = "e2"
    BY <1>2
  <2>2. \E i \in 1..2 : e[i] \in S
    BY <1>1, <2>1
  <2>3. D = {i \in 1..2 : e[i] \in S}
    BY <1>1
  <2> QED
    BY <2>2, <2>3
<1>4. Encoders!FirstOf(S) = e[Encoders!Min(D)]
  BY DEF Encoders!FirstOf
<1>9. \A i \in D : e[i] \in S
  OBVIOUS
<1> HIDE DEF D
<1>5. \E i \in D : \A j \in D : i <= j
  BY <1>3, Least
<1>6. Encoders!Min(D) \in D
  BY <1>5 DEF Encoders!Min
<1>7. None # "e1" /\ None # "e2"
  BY NoneAssumption
<1>8. \A i \in 1..2 : e[i] # None
  BY <1>1, <1>7
<1> HIDE DEF e
<1> QED
  BY <1>3, <1>4, <1>6, <1>8, <1>9

LEMMA ProbeStep ==
  ASSUME Encoders!ProbeNext, UNCHANGED <<part, v9, v10, v11, v12, v13, v14, v15>>, pool' # pool
  PROVE  Encoders!FindsAnEncoder
<1> SUFFICES ASSUME v1' = v1, v8' = "failed" PROVE \A e \in Encoders!Enc : ~Encoders!Passes(e)
  BY DEF Encoders!FindsAnEncoder
<1>1. CASE Encoders!Configure
  BY <1>1 DEF Encoders!Configure
<1>2. ASSUME NEW e \in Encoders!Enc, Encoders!HardwareChanges(e) PROVE FALSE
  BY <1>2 DEF Encoders!HardwareChanges, pool
<1>3. ASSUME NEW needs \in BOOLEAN, Encoders!Probe(needs)
      PROVE  \A e \in Encoders!Enc : ~Encoders!Passes(e)
  <2> DEFINE passing == {e \in Encoders!Enc : Encoders!Passes(e)}
             p == Encoders!Pick(v2.hevc_mode, v2.av1_mode)
  <2>1. p.e = None
    <3> HIDE DEF p
    <3> QED
      BY <1>3 DEF Encoders!Probe, p
  <2>2. CASE passing = {}
    BY <2>2
  <2>3. CASE passing # {}
    <3>1. passing \subseteq Encoders!Enc /\ \A e \in Encoders!Enc : e # None
      BY NoneAssumption DEF Encoders!Enc, Encoders!ToSet
    <3> DEFINE fit == {e \in passing :
                         LET v == Encoders!Validated(e, v2.hevc_mode, v2.av1_mode)
                         IN Encoders!Meets(v2.hevc_mode, v.hevc) /\ Encoders!Meets(v2.av1_mode, v.av1)}
    <3>2. fit \subseteq passing
      OBVIOUS
    <3>3. \/ v2.encoder \in passing /\ p = [e |-> v2.encoder, adjust |-> TRUE]
          \/ fit # {} /\ p = [e |-> Encoders!FirstOf(fit), adjust |-> FALSE]
          \/ passing # {} /\ p = [e |-> Encoders!FirstOf(passing), adjust |-> TRUE]
      BY <2>3, Zenon DEF Encoders!Pick
    <3> HIDE DEF p, passing, fit
    <3>4. CASE v2.encoder \in passing /\ p = [e |-> v2.encoder, adjust |-> TRUE]
      BY <2>1, <3>1, <3>4
    <3>5. CASE fit # {} /\ p = [e |-> Encoders!FirstOf(fit), adjust |-> FALSE]
      <4>1. Encoders!FirstOf(fit) # None
        BY <3>1, <3>2, <3>5, FirstEncoder
      <4> QED
        BY <2>1, <3>5, <4>1
    <3>6. CASE passing # {} /\ p = [e |-> Encoders!FirstOf(passing), adjust |-> TRUE]
      <4>1. Encoders!FirstOf(passing) # None
        BY <3>1, <3>6, FirstEncoder
      <4> QED
        BY <2>1, <3>6, <4>1
    <3> QED
      BY <3>3, <3>4, <3>5, <3>6
  <2> QED
    BY <2>2, <2>3
<1> QED
  BY <1>1, <1>2, <1>3 DEF Encoders!ProbeNext

\* A mode that an encoder meets, or that was adjusted to it, is served.
LEMMA ModeIsServed ==
  ASSUME NEW m \in 0..3, NEW bits, NEW adjust \in BOOLEAN,
         adjust \/ m = 0 \/ Encoders!Meets(m, bits)
  PROVE  Encoders!Served(m, Encoders!Resolved(IF adjust THEN Encoders!Adjusted(m, bits) ELSE m, bits), bits)
BY DEF Encoders!Served, Encoders!Resolved, Encoders!Adjusted, Encoders!Meets

LEMMA ProbeStarts == Encoders!ProbeInit => Encoders!ProbeInv
<1> SUFFICES ASSUME Encoders!ProbeInit PROVE Encoders!ProbeInv
  OBVIOUS
<1>1. v2.hevc_mode = 0 /\ v2.av1_mode = 0 /\ v3 = None /\ v8 = "no"
  BY DEF Encoders!ProbeInit
<1> QED
  BY <1>1, ModeAssumption DEF Encoders!ProbeInv

LEMMA ProbeKeeps == Encoders!ProbeInv /\ [Encoders!ProbeNext]_(Encoders!probeVars) => Encoders!ProbeInv'
<1> SUFFICES ASSUME Encoders!ProbeInv, [Encoders!ProbeNext]_(Encoders!probeVars) PROVE Encoders!ProbeInv'
  OBVIOUS
<1> DEFINE hevc == v2.hevc_mode
           av1 == v2.av1_mode
<1>1. /\ hevc \in HevcModes /\ av1 \in Av1Modes /\ hevc \in 0..3 /\ av1 \in 0..3
      /\ v8 = "no" => v3 = None
      /\ v8 = "ok" => v3 # None
      /\ v3 # None => Encoders!Served(hevc, v5, v4.hevc) /\ Encoders!Served(av1, v6, v4.av1)
  BY ModeAssumption DEF Encoders!ProbeInv
<1>2. CASE UNCHANGED Encoders!probeVars
  BY <1>2 DEF Encoders!ProbeInv, Encoders!probeVars
<1>3. CASE Encoders!Configure
  <2>1. v2' \in Encoders!Conf /\ v3' = None /\ v8' = "no"
    BY <1>1, <1>3 DEF Encoders!Configure
  <2>2. v2'.hevc_mode \in HevcModes /\ v2'.av1_mode \in Av1Modes
    BY <2>1 DEF Encoders!Conf
  <2> QED
    BY <2>1, <2>2 DEF Encoders!ProbeInv
<1>4. ASSUME NEW e \in Encoders!Enc, Encoders!HardwareChanges(e) PROVE Encoders!ProbeInv'
  BY <1>4 DEF Encoders!ProbeInv, Encoders!HardwareChanges
<1>5. ASSUME NEW needs \in BOOLEAN, Encoders!Probe(needs) PROVE Encoders!ProbeInv'
  <2>1. CASE v3 # None /\ ~needs
    BY <1>1, <1>5, <2>1 DEF Encoders!Probe, Encoders!ProbeInv
  <2>2. CASE ~(v3 # None /\ ~needs)
    <3> DEFINE p == Encoders!Pick(hevc, av1)
               v == Encoders!Validated(p.e, hevc, av1)
               mode(m, bits) == IF p.adjust THEN Encoders!Adjusted(m, bits) ELSE m
    <3>1. v2' = v2 /\ v3' = p.e
      BY <1>5, <2>2 DEF Encoders!Probe
    <3>2. CASE p.e = None
      <4>1. v8' = "failed"
        BY <1>5, <2>2, <3>2 DEF Encoders!Probe
      <4> HIDE DEF p
      <4> QED
        BY <1>1, <3>1, <3>2, <4>1 DEF Encoders!ProbeInv
    <3>3. CASE p.e # None
      <4>1. /\ v8' = "ok" /\ v4' = v
            /\ v5' = Encoders!Resolved(mode(hevc, v.hevc), v.hevc)
            /\ v6' = Encoders!Resolved(mode(av1, v.av1), v.av1)
        BY <1>5, <2>2, <3>3, Zenon DEF Encoders!Probe
      <4>2. /\ p.adjust \in BOOLEAN
            /\ ~p.adjust => Encoders!Meets(hevc, v.hevc) /\ Encoders!Meets(av1, v.av1)
        <5> DEFINE passing == {e \in Encoders!Enc : Encoders!Passes(e)}
                   fit == {e \in passing : LET w == Encoders!Validated(e, hevc, av1)
                                           IN Encoders!Meets(hevc, w.hevc) /\ Encoders!Meets(av1, w.av1)}
        <5>1. \/ p = [e |-> v2.encoder, adjust |-> TRUE]
              \/ fit # {} /\ p = [e |-> Encoders!FirstOf(fit), adjust |-> FALSE]
              \/ p = [e |-> Encoders!FirstOf(passing), adjust |-> TRUE]
              \/ p = [e |-> None, adjust |-> FALSE]
          BY Zenon DEF Encoders!Pick
        <5>2. fit \subseteq Encoders!Enc
          OBVIOUS
        <5>3. \A e \in fit : /\ Encoders!Meets(hevc, Encoders!Validated(e, hevc, av1).hevc)
                             /\ Encoders!Meets(av1, Encoders!Validated(e, hevc, av1).av1)
          OBVIOUS
        <5> HIDE DEF p, fit, passing
        <5>4. p.adjust \in BOOLEAN /\ (~p.adjust => p.e \in fit)
          <6>1. CASE fit # {} /\ p = [e |-> Encoders!FirstOf(fit), adjust |-> FALSE]
            <7>1. Encoders!FirstOf(fit) \in fit
              BY <5>2, <6>1, FirstEncoder
            <7> QED
              BY <6>1, <7>1
          <6>2. CASE p = [e |-> v2.encoder, adjust |-> TRUE] \/ p = [e |-> Encoders!FirstOf(passing), adjust |-> TRUE]
            <7>1. p.adjust = TRUE
              <8>1. CASE p = [e |-> v2.encoder, adjust |-> TRUE]
                BY <8>1
              <8>2. CASE p = [e |-> Encoders!FirstOf(passing), adjust |-> TRUE]
                BY <8>2
              <8> QED
                BY <6>2, <8>1, <8>2
            <7> QED
              BY <7>1
          <6>3. CASE p = [e |-> None, adjust |-> FALSE]
            BY <3>3, <6>3 DEF p
          <6> QED
            BY <5>1, <6>1, <6>2, <6>3
        <5> QED
          BY <5>3, <5>4
      <4> HIDE DEF p, v
      <4>3. v5' = Encoders!Resolved(IF p.adjust THEN Encoders!Adjusted(hevc, v.hevc) ELSE hevc, v.hevc)
        BY <4>1
      <4>4. v6' = Encoders!Resolved(IF p.adjust THEN Encoders!Adjusted(av1, v.av1) ELSE av1, v.av1)
        BY <4>1
      <4>5. Encoders!Served(hevc, v5', v.hevc)
        BY <1>1, <4>2, <4>3, ModeIsServed
      <4>6. Encoders!Served(av1, v6', v.av1)
        BY <1>1, <4>2, <4>4, ModeIsServed
      <4> QED
        BY <1>1, <3>1, <3>3, <4>1, <4>5, <4>6 DEF Encoders!ProbeInv
    <3> QED
      BY <3>2, <3>3
  <2> QED
    BY <2>1, <2>2
<1> QED
  BY <1>2, <1>3, <1>4, <1>5 DEF Encoders!ProbeNext

LEMMA ServedIsSupported ==
  Encoders!ProbeInv => Encoders!AutomaticIsSupported /\ Encoders!MainIsSupported
<1> SUFFICES ASSUME Encoders!ProbeInv PROVE Encoders!AutomaticIsSupported /\ Encoders!MainIsSupported
  OBVIOUS
<1>1. v8 = "ok" => Encoders!Served(v2.hevc_mode, v5, v4.hevc) /\ Encoders!Served(v2.av1_mode, v6, v4.av1)
  BY DEF Encoders!ProbeInv
<1>2. /\ "HEVC" \in Encoders!CodecModeFlags => v5 >= 2
      /\ "HEVC_MAIN10" \in Encoders!CodecModeFlags => v5 >= 3
      /\ "AV1_MAIN8" \in Encoders!CodecModeFlags => v6 >= 2
      /\ "AV1_MAIN10" \in Encoders!CodecModeFlags => v6 >= 3
  BY DEF Encoders!CodecModeFlags
<1> QED
  BY <1>1, <1>2 DEF Encoders!Served, Encoders!AutomaticIsSupported, Encoders!MainIsSupported

(***************************************************************************)
(* The arithmetic of a frame (stream.cpp, videoBroadcastThread).           *)
(***************************************************************************)

\* What a quotient and a remainder are.
LEMMA Quotient ==
  ASSUME NEW x \in Nat, NEW b \in Nat \ {0}
  PROVE  /\ x \div b \in Nat /\ x % b \in 0 .. b - 1
         /\ x = (x \div b) * b + (x % b)
OBVIOUS

\* Products grow with their factors.
LEMMA TimesGrows ==
  ASSUME NEW a \in Nat, NEW b \in Nat, NEW c \in Nat, a <= b
  PROVE  a * c <= b * c /\ a * c \in Nat
OBVIOUS

\* A number is split into quotient and remainder in one way.
LEMMA SplitIsOne ==
  ASSUME NEW b \in Nat \ {0}, NEW q \in Nat, NEW r \in 0 .. b - 1, NEW p \in Nat, NEW s \in 0 .. b - 1,
         q * b + r = p * b + s
  PROVE  q = p /\ r = s
<1>1. ASSUME NEW x \in Nat, NEW y \in Nat, NEW m \in 0 .. b - 1, NEW n \in 0 .. b - 1, x < y
      PROVE  x * b + m # y * b + n
  <2>1. (x + 1) * b <= y * b
    BY <1>1, TimesGrows
  <2>2. (x + 1) * b = x * b + b /\ x * b \in Nat /\ y * b \in Nat
    BY <1>1
  <2> QED
    BY <1>1, <2>1, <2>2
<1>2. q = p
  BY <1>1
<1> QED
  BY <1>2

\* A number divided by b, from its parts.
LEMMA QuotientIs ==
  ASSUME NEW b \in Nat \ {0}, NEW q \in Nat, NEW r \in 0 .. b - 1
  PROVE  (q * b + r) \div b = q /\ (q * b + r) % b = r
<1>1. q * b + r \in Nat
  OBVIOUS
<1> DEFINE x == q * b + r
           d == x \div b
           m == x % b
<1>2. d \in Nat /\ m \in 0 .. b - 1 /\ x = d * b + m
  BY <1>1, Quotient
<1> HIDE DEF d, m
<1>3. d = q /\ m = r
  BY <1>2, SplitIsOne
<1> QED
  BY <1>3 DEF d, m

\* Rounding up.
LEMMA RoundsUp ==
  ASSUME NEW a \in Nat, NEW b \in Nat \ {0}, NEW q, q = Rtp!CeilDiv(a, b)
  PROVE  q \in Nat /\ a <= q * b /\ q * b < a + b /\ (a > 0 => q > 0)
<1> DEFINE x == a + b - 1
<1>1. x \in Nat /\ q = x \div b
  BY DEF Rtp!CeilDiv
<1>2. q \in Nat /\ x % b \in 0 .. b - 1 /\ x = q * b + (x % b)
  BY <1>1, Quotient
<1>3. q * b \in Nat /\ (q = 0 => q * b = 0)
  BY <1>2
<1> QED
  BY <1>2, <1>3

\* A running sum, step by step.
LEMMA SumUnfolds ==
  ASSUME NEW s \in Seq(Int)
  PROVE  \A i \in 0..Len(s) : Rtp!RunningSum(s)[i] = IF i = 0 THEN 0 ELSE Rtp!RunningSum(s)[i - 1] + s[i]
<1> DEFINE P(f, l) == f = [i \in 0..l |-> IF i = 0 THEN 0 ELSE f[i - 1] + s[i]]
           S == {l \in Nat : l <= Len(s) /\ ~ \E f : P(f, l)}
<1>1. Len(s) \in Nat
  OBVIOUS
<1>2. S = {}
  <2> SUFFICES ASSUME S # {} PROVE FALSE
    OBVIOUS
  <2>1. PICK l \in S : \A y \in S : l <= y
    BY LeastNat
  <2>2. P([i \in 0..0 |-> 0], 0)
    OBVIOUS
  <2>3. l # 0 /\ l \in Nat /\ l <= Len(s)
    BY <2>1, <2>2
  <2>4. l - 1 \in Nat /\ l - 1 \notin S
    <3> HIDE DEF S
    <3> QED
      BY <2>1, <2>3
  <2>5. PICK f : P(f, l - 1)
    BY <1>1, <2>3, <2>4
  <2> DEFINE g == [i \in 0..l |-> IF i = l THEN f[l - 1] + s[l] ELSE f[i]]
  <2>6. ASSUME NEW i \in 0..l PROVE g[i] = IF i = 0 THEN 0 ELSE g[i - 1] + s[i]
    <3>1. i # 0 => g[i - 1] = f[i - 1]
      BY <2>3
    <3>2. CASE i = l
      BY <2>3, <3>1, <3>2
    <3>3. CASE i # l
      <4>1. i \in 0..l - 1 /\ g[i] = f[i]
        BY <2>3, <3>3
      <4>2. f[i] = IF i = 0 THEN 0 ELSE f[i - 1] + s[i]
        BY <2>5, <4>1
      <4> QED
        BY <3>1, <4>1, <4>2
    <3> QED
      BY <3>2, <3>3
  <2>7. P(g, l)
    BY <2>6
  <2> QED
    BY <2>1, <2>7
<1>3. Len(s) \notin S
  <2> HIDE DEF S
  <2> QED
    BY <1>2
<1>4. \E f : P(f, Len(s))
  <2> HIDE DEF P
  <2> QED
    BY <1>1, <1>3
<1>5. P(CHOOSE f : P(f, Len(s)), Len(s))
  BY <1>4
<1>6. P(Rtp!RunningSum(s), Len(s))
  BY <1>5 DEF Rtp!RunningSum
<1> QED
  BY <1>6

\* A sum of natural numbers is one.
LEMMA SumIsNat ==
  ASSUME NEW s \in Seq(Nat)
  PROVE  \A i \in 0..Len(s) : Rtp!RunningSum(s)[i] \in Nat
<1> DEFINE f == Rtp!RunningSum(s)
           S == {i \in Nat : i <= Len(s) /\ f[i] \notin Nat}
<1>1. Len(s) \in Nat /\ s \in Seq(Int) /\ \A i \in 1..Len(s) : s[i] \in Nat
  OBVIOUS
<1>2. \A i \in 0..Len(s) : f[i] = IF i = 0 THEN 0 ELSE f[i - 1] + s[i]
  BY <1>1, SumUnfolds
<1> HIDE DEF f
<1>3. S = {}
  <2> SUFFICES ASSUME S # {} PROVE FALSE
    OBVIOUS
  <2>1. PICK l \in S : \A y \in S : l <= y
    BY LeastNat
  <2>2. l \in Nat /\ l <= Len(s) /\ f[l] \notin Nat /\ l # 0
    BY <1>1, <1>2, <2>1
  <2>3. l - 1 \in Nat /\ l - 1 \notin S
    <3> HIDE DEF S
    <3> QED
      BY <2>1, <2>2
  <2>4. f[l - 1] \in Nat
    BY <1>1, <2>2, <2>3
  <2>5. f[l] = f[l - 1] + s[l] /\ s[l] \in Nat
    BY <1>1, <1>2, <2>2
  <2> QED
    BY <2>2, <2>4, <2>5
<1>4. \A i \in 0..Len(s) : i \in Nat /\ i <= Len(s)
  BY <1>1
<1> QED
  BY <1>3, <1>4 DEF f

\* A frame, with the percentage and the minimum it is sent with.
Framed == [size : Nat, percent : 0..255, min : 0..2]

\* The most data shards of a block.
MostShards(f) == 25500 \div (100 + f.percent)

\* With them and their parity a block stays within 255 shards.
LEMMA MostShardsIs ==
  ASSUME NEW f \in Framed
  PROVE  MostShards(f) \in Nat /\ MostShards(f) >= 71 /\ MostShards(f) * (100 + f.percent) <= 25500
<1> DEFINE c == 100 + f.percent
           x == 25500
           s == x \div c
           r == x % c
<1>1. c \in Nat \ {0} /\ c >= 100 /\ c <= 355 /\ x \in Nat
  BY DEF Framed
<1>2. MostShards(f) = s
  BY DEF MostShards
<1> HIDE DEF c, x
<1>3. s \in Nat /\ r \in 0 .. c - 1 /\ x = s * c + r
  BY <1>1, Quotient
<1> HIDE DEF s, r
<1>4. s * c \in Nat /\ s * c <= 25500 /\ 25500 < s * c + c
  <2>1. x = 25500
    BY DEF x
  <2> QED
    BY <1>1, <1>3, <2>1
<1>5. s >= 71
  <2> SUFFICES ASSUME s < 71 PROVE FALSE
    BY <1>3
  <2>1. s * c <= 70 * c
    BY <1>1, <1>3, TimesGrows
  <2> QED
    BY <1>1, <1>4, <2>1
<1>6. 100 + f.percent = c
  BY DEF c
<1>7. s \in Nat
  BY <1>3
<1>8. s * (100 + f.percent) <= 25500
  BY <1>4, <1>6
<1> QED
  BY <1>2, <1>5, <1>7, <1>8

\* Something is sent, with its headers.
LEMMA PayloadIs ==
  ASSUME NEW f \in Framed
  PROVE  Rtp!PayloadSize(f) \in Nat \ {0}
<1> DEFINE data == FrameHeader + f.size
           n == Rtp!CeilDiv(data, Block - Header)
<1>1. data \in Nat \ {0} /\ Block - Header \in Nat \ {0} /\ Header \in Nat
  BY PacketAssumption DEF Framed
<1> HIDE DEF data
<1>2. n \in Nat
  BY <1>1, RoundsUp
<1> HIDE DEF n
<1>3. n * Header \in Nat
  BY <1>1, <1>2
<1>4. Rtp!PayloadSize(f) = n * Header + data
  BY DEF Rtp!PayloadSize, n, data
<1> QED
  BY <1>1, <1>3, <1>4

\* How the payload is divided: into n blocks, of which the last is what is left of
\* it; and unless there would be more than four of them each has room for parity.
BlockShape(f, n, a, pc) ==
  LET p == Rtp!PayloadSize(f)
  IN /\ n \in 1..4 /\ a \in Nat \ {0}
     /\ (n - 1) * (a * Block) < p
     /\ Rtp!Blocks(f).percent = pc
     /\ Rtp!Blocks(f).sizes = [x \in 1..n |-> IF x = n THEN p - (n - 1) * (a * Block) ELSE a * Block]
     /\ pc = 0 \/ (/\ pc = f.percent /\ a <= MostShards(f)
                   /\ p - (n - 1) * (a * Block) <= MostShards(f) * Block)

\* Blocks divides a frame in such a way.
LEMMA BlocksAre ==
  ASSUME NEW f \in Framed
  PROVE  \E n \in 1..4 : \E a \in Nat \ {0} : \E pc \in 0..255 : BlockShape(f, n, a, pc)
<1> DEFINE p == Rtp!PayloadSize(f)
           s == MostShards(f)
           sb == s * Block
           needed == Rtp!CeilDiv(p, sb)
           n == IF needed > 4 THEN 4 ELSE needed
           k == p \div n
           a == Rtp!CeilDiv(k, Block)
           ab == a * Block
           pc == IF needed > 4 THEN 0 ELSE f.percent
<1>1. p \in Nat \ {0} /\ s \in Nat /\ s >= 71 /\ Block \in Nat /\ Block >= 3
  BY PayloadIs, MostShardsIs, PacketAssumption
<1>2. f.percent \in 0..255 /\ pc \in 0..255
  BY DEF Framed
<1>3. /\ Rtp!Blocks(f).percent = pc
      /\ Rtp!Blocks(f).sizes = [x \in 1..n |-> IF x = n THEN p - (n - 1) * ab ELSE ab]
  <2>1. (255 * 100) \div (100 + f.percent) = s
    BY DEF MostShards
  <2> HIDE DEF s, p
  <2> QED
    BY <2>1, ZenonT(60) DEF Rtp!Blocks, p
<1> HIDE DEF p, s
<1>4. sb \in Nat \ {0} /\ 71 * Block <= sb
  BY <1>1, TimesGrows
<1> HIDE DEF sb
<1>5. needed \in Nat \ {0} /\ p <= needed * sb /\ needed * sb < p + sb
  BY <1>1, <1>4, RoundsUp
<1> HIDE DEF needed
<1>6. n \in 1..4 /\ (n > 1 => sb < p) /\ (pc # 0 => pc = f.percent /\ n = needed /\ p <= n * sb)
  <2>1. needed > 1 => 2 * sb <= needed * sb
    BY <1>4, <1>5, TimesGrows
  <2> QED
    BY <1>1, <1>4, <1>5, <2>1
<1> HIDE DEF n, pc
<1>7. k \in Nat /\ n * k <= p /\ p < n * k + n /\ k > 0
  <2>1. k \in Nat /\ p % n \in 0 .. n - 1 /\ p = k * n + (p % n)
    <3>1. p \in Nat /\ n \in Nat \ {0}
      BY <1>1, <1>6
    <3> QED
      BY <3>1, Quotient
  <2>2. n = 1 \/ n = 2 \/ n = 3 \/ n = 4
    BY <1>6
  <2> HIDE DEF k
  <2>3. n * k = k * n /\ n * k \in Nat
    BY <1>6, <2>1
  <2>4. n * k <= p /\ p < n * k + n
    BY <1>1, <1>6, <2>1, <2>3
  <2>5. k > 0
    BY <1>1, <1>4, <1>6, <2>1, <2>2, <2>4
  <2> QED
    BY <2>1, <2>4, <2>5
<1> HIDE DEF k
<1>8. a \in Nat \ {0} /\ k <= ab /\ ab < k + Block /\ ab \in Nat
  <2>1. a \in Nat /\ a > 0 /\ k <= ab /\ ab < k + Block
    <3>1. k \in Nat /\ Block \in Nat \ {0} /\ k > 0
      BY <1>1, <1>7
    <3> QED
      BY <3>1, RoundsUp
  <2> HIDE DEF a
  <2> QED
    BY <1>1, <2>1
<1> HIDE DEF a
<1>9. (n - 1) * ab < p
  <2>1. n = 1 \/ n = 2 \/ n = 3 \/ n = 4
    BY <1>6
  <2> HIDE DEF ab
  <2> QED
    BY <1>1, <1>4, <1>6, <1>7, <1>8, <2>1
<1>10. pc # 0 => a <= s /\ p - (n - 1) * ab <= sb
  <2> SUFFICES ASSUME pc # 0 PROVE a <= s /\ p - (n - 1) * ab <= sb
    OBVIOUS
  <2>1. n \in {1, 2, 3, 4} /\ p <= n * sb
    BY <1>6
  <2>2. k <= sb
    BY <1>1, <1>4, <1>7, <2>1
  <2>3. a <= s
    <3> SUFFICES ASSUME s < a PROVE FALSE
      BY <1>1, <1>8
    <3>1. (s + 1) * Block <= ab
      BY <1>1, <1>8, TimesGrows
    <3>2. (s + 1) * Block = sb + Block
      BY <1>1 DEF sb
    <3> HIDE DEF ab
    <3> QED
      BY <1>1, <1>4, <1>7, <1>8, <2>2, <3>1, <3>2
  <2>4. a = s => ab = sb
    BY DEF sb
  <2>5. a < s => ab + Block <= sb
    <3> SUFFICES ASSUME a < s PROVE ab + Block <= sb
      OBVIOUS
    <3>1. (a + 1) * Block <= sb
      BY <1>1, <1>8, TimesGrows DEF sb
    <3> QED
      BY <1>1, <1>8, <3>1
  <2> HIDE DEF ab
  <2> QED
    BY <1>1, <1>4, <1>7, <1>8, <2>1, <2>3, <2>4, <2>5
<1>11. BlockShape(f, n, a, pc)
  <2> HIDE DEF ab
  <2>1. n \in 1..4 /\ a \in Nat \ {0} /\ (n - 1) * ab < p
    BY <1>6, <1>8, <1>9
  <2>2. pc = 0 \/ (pc = f.percent /\ a <= s /\ p - (n - 1) * ab <= sb)
    BY <1>6, <1>10
  <2> QED
    BY <1>3, <2>1, <2>2, Zenon DEF BlockShape, p, s, sb, ab
<1> QED
  BY <1>2, <1>6, <1>8, <1>11

\* The percentage of a block raised to two parity shards says two.
LEMMA RaisedPercent ==
  ASSUME NEW d \in 1..100, NEW m \in Nat, m <= 200, 200 <= m
  PROVE  m \div d < 256 /\ d * (m \div d) \in Nat /\ Rtp!CeilDiv(d * (m \div d), 100) = 2
<1> DEFINE w == m \div d
           r == m % d
<1>1. w \in Nat /\ r \in 0 .. d - 1 /\ m = w * d + r
  <2>1. m \in Nat /\ d \in Nat \ {0}
    OBVIOUS
  <2> QED
    BY <2>1, Quotient
<1> HIDE DEF w, r
<1>2. w * d \in Nat /\ w <= w * d /\ d * w = w * d
  BY <1>1
<1>3. w * d <= 200 /\ 100 < w * d
  BY <1>1, <1>2
<1>4. Rtp!CeilDiv(d * w, 100) = 2
  BY <1>2, <1>3 DEF Rtp!CeilDiv
<1> QED
  BY <1>1, <1>2, <1>3, <1>4 DEF w

\* A block of y bytes leaves room for its parity among 255 shards; the shards of a
\* block fit the code, and the client counts them alike.
LeavesRoom(y, pc, s) == pc = 0 \/ (y <= s * Block /\ s * (100 + pc) <= 25500)
ShardsFine(e) ==
  /\ e.data \in Nat \ {0} /\ e.parity \in Nat
  /\ e.parity > 0 => e.data + e.parity <= 255
  /\ e.percent < 256
  /\ Rtp!CeilDiv(e.data * e.percent, 100) = e.parity

\* FecEncode on a block that leaves room.
LEMMA EncodedBlock ==
  ASSUME NEW y \in Nat \ {0}, NEW pc \in 0..255, NEW min \in 0..2, NEW s \in Nat,
         LeavesRoom(y, pc, s), NEW e, e = Rtp!FecEncode(y, pc, min)
  PROVE  ShardsFine(e)
<1> DEFINE d == Rtp!CeilDiv(y, Block)
           dp == d * pc
           par == Rtp!CeilDiv(dp, 100)
           raise == par < min /\ pc # 0
           m == 100 * min
           q == IF raise THEN m \div d ELSE pc
<1>1. e.data = d /\ e.parity = (IF raise THEN min ELSE par) /\ e.percent = q
  BY DEF Rtp!FecEncode
<1>2. Block \in Nat \ {0}
  BY PacketAssumption
<1>3. d \in Nat \ {0} /\ d * Block < y + Block
  <2>1. y \in Nat /\ y > 0
    OBVIOUS
  <2>2. d = Rtp!CeilDiv(y, Block)
    OBVIOUS
  <2> HIDE DEF d
  <2>3. d \in Nat /\ d * Block < y + Block /\ (y > 0 => d > 0)
    BY <1>2, <2>1, <2>2, RoundsUp, SMTT(30)
  <2> QED
    BY <2>1, <2>3
<1> HIDE DEF d
<1>4. dp \in Nat /\ (pc = 0 => dp = 0) /\ (pc # 0 => d <= dp)
  BY <1>3
<1>5. pc # 0 => 100 * d + dp <= 25500
  <2> SUFFICES ASSUME pc # 0 PROVE 100 * d + dp <= 25500
    OBVIOUS
  <2>1. y <= s * Block /\ s * (100 + pc) <= 25500
    BY DEF LeavesRoom
  <2>2. d <= s
    <3> SUFFICES ASSUME s < d PROVE FALSE
      BY <1>3
    <3>1. (s + 1) * Block <= d * Block
      BY <1>2, <1>3, TimesGrows
    <3>2. (s + 1) * Block = s * Block + Block /\ s * Block \in Nat /\ d * Block \in Nat
      BY <1>2, <1>3
    <3> QED
      BY <1>2, <1>3, <2>1, <3>1, <3>2
  <2>3. d * (100 + pc) <= s * (100 + pc)
    BY <1>3, <2>2, TimesGrows
  <2>4. d * (100 + pc) = 100 * d + dp
    BY <1>3
  <2>5. s * (100 + pc) \in Nat
    OBVIOUS
  <2> HIDE DEF dp
  <2> QED
    BY <1>3, <1>4, <2>1, <2>3, <2>4, <2>5
<1> HIDE DEF dp
<1>6. par \in Nat /\ dp <= par * 100 /\ par * 100 < dp + 100
  BY <1>4 DEF Rtp!CeilDiv
<1>7. Rtp!CeilDiv(dp, 100) = par
  OBVIOUS
<1> HIDE DEF par
<1>8. ASSUME ~raise PROVE ShardsFine(e)
  <2>1. e.parity = par /\ e.percent = pc /\ e.data * e.percent = dp
    BY <1>1, <1>8 DEF dp
  <2>2. par > 0 => d + par <= 255
    BY <1>3, <1>4, <1>5, <1>6
  <2> HIDE DEF raise, q
  <2> QED
    BY <1>1, <1>3, <1>6, <1>7, <2>1, <2>2 DEF ShardsFine
<1>9. ASSUME raise PROVE ShardsFine(e)
  <2>1. min = 2 /\ dp <= 100 /\ d <= 100 /\ pc # 0 /\ m = 200
    BY <1>3, <1>4, <1>6, <1>9
  <2>2. e.parity = 2 /\ e.percent = m \div d
    BY <1>1, <1>9, <2>1
  <2>3. d * (m \div d) \in Nat /\ m \div d < 256 /\ Rtp!CeilDiv(d * (m \div d), 100) = 2
    BY <1>3, <2>1, RaisedPercent
  <2> HIDE DEF raise, q, m
  <2> QED
    BY <1>1, <1>3, <2>1, <2>2, <2>3 DEF ShardsFine
<1> QED
  BY <1>8, <1>9

\* The blocks are the payload, one after the other.
LEMMA SizesAre ==
  ASSUME NEW f \in Framed
  PROVE  LET z == Rtp!Blocks(f).sizes
         IN /\ z \in Seq(Nat \ {0}) /\ Len(z) \in 1..4
            /\ \A x \in DOMAIN z : z[x] > 0 /\ (x < Len(z) => z[x] % Block = 0)
            /\ \A x \in DOMAIN z :
                 Rtp!Blocks(f).percent = 0 \/ z[x] <= MostShards(f) * Block
            /\ Rtp!RunningSum(z)[Len(z)] = Rtp!PayloadSize(f)
            /\ Rtp!Blocks(f).percent \in {0, f.percent}
<1>1. PICK n \in 1..4 : \E a \in Nat \ {0} : \E pc \in 0..255 : BlockShape(f, n, a, pc)
  BY BlocksAre
<1>2. PICK a \in Nat \ {0} : \E pc \in 0..255 : BlockShape(f, n, a, pc)
  BY <1>1
<1>3. PICK pc \in 0..255 : BlockShape(f, n, a, pc)
  BY <1>2
<1> DEFINE p == Rtp!PayloadSize(f)
           s == MostShards(f)
           ab == a * Block
           last == p - (n - 1) * ab
           z == Rtp!Blocks(f).sizes
<1>4. /\ Rtp!Blocks(f).percent = pc
      /\ z = [x \in 1..n |-> IF x = n THEN last ELSE ab]
      /\ (n - 1) * ab < p
      /\ pc = 0 \/ (pc = f.percent /\ a <= s /\ last <= s * Block)
  BY <1>3, Zenon DEF BlockShape
<1>5. p \in Nat \ {0} /\ s \in Nat /\ Block \in Nat \ {0}
  BY PayloadIs, MostShardsIs, PacketAssumption
<1>6. ab \in Nat \ {0} /\ ab % Block = 0 /\ (a <= s => ab <= s * Block)
  <2>1. ab \in Nat /\ ab % Block = 0
    <3>1. 0 \in 0 .. Block - 1 /\ a \in Nat
      BY <1>5
    <3>2. (a * Block + 0) % Block = 0
      BY <1>5, <3>1, QuotientIs
    <3> QED
      BY <1>5, <3>2
  <2>2. 1 * Block <= ab
    BY <1>5, TimesGrows
  <2>3. a <= s => ab <= s * Block
    BY <1>5, TimesGrows
  <2> QED
    BY <1>5, <2>1, <2>2, <2>3
<1> HIDE DEF p, s, ab, z
<1>7. last \in Nat \ {0}
  <2>1. n = 1 \/ n = 2 \/ n = 3 \/ n = 4
    OBVIOUS
  <2> QED
    BY <1>4, <1>5, <1>6, <2>1
<1>8. /\ z \in Seq(Nat \ {0}) /\ Len(z) = n /\ DOMAIN z = 1..n
      /\ \A x \in 1..n : z[x] = IF x = n THEN last ELSE ab
  <2> HIDE DEF last
  <2>1. DOMAIN z = 1..n /\ \A x \in 1..n : z[x] = IF x = n THEN last ELSE ab
    BY <1>4
  <2>2. z = [x \in 1..n |-> z[x]] /\ \A x \in 1..n : z[x] \in Nat \ {0}
    BY <1>4, <1>6, <1>7, <2>1
  <2>3. z \in Seq(Nat \ {0}) /\ Len(z) = n
    BY <2>1, <2>2
  <2> QED
    BY <2>1, <2>3
<1>9. \A x \in DOMAIN z : z[x] > 0 /\ (x < Len(z) => z[x] % Block = 0)
  <2> HIDE DEF last
  <2> QED
    BY <1>6, <1>7, <1>8
<1>10. \A x \in DOMAIN z : pc = 0 \/ z[x] <= s * Block
  <2> HIDE DEF last
  <2> QED
    BY <1>4, <1>6, <1>8
<1>11. Rtp!RunningSum(z)[Len(z)] = p
  <2> DEFINE r == Rtp!RunningSum(z)
  <2>1. \A i \in 0..n : r[i] = IF i = 0 THEN 0 ELSE r[i - 1] + z[i]
    <3>1. z \in Seq(Int)
      BY <1>8
    <3> QED
      BY <1>8, <3>1, SumUnfolds
  <2> HIDE DEF r
  <2>2. r[0] = 0 /\ \A i \in 1..n : r[i] = r[i - 1] + (IF i = n THEN last ELSE ab)
    <3> HIDE DEF last
    <3> QED
      BY <1>8, <2>1
  <2>3. CASE n = 1
    <3>1. r[1] = r[0] + last
      BY <2>2, <2>3
    <3> QED
      BY <1>5, <1>6, <1>8, <2>2, <2>3, <3>1 DEF r
  <2>4. CASE n = 2
    <3>1. r[1] = r[0] + ab /\ r[2] = r[1] + last
      BY <2>2, <2>4
    <3> QED
      BY <1>5, <1>6, <1>8, <2>2, <2>4, <3>1 DEF r
  <2>5. CASE n = 3
    <3>1. r[1] = r[0] + ab /\ r[2] = r[1] + ab /\ r[3] = r[2] + last
      BY <2>2, <2>5
    <3> QED
      BY <1>5, <1>6, <1>8, <2>2, <2>5, <3>1 DEF r
  <2>6. CASE n = 4
    <3>1. r[1] = r[0] + ab /\ r[2] = r[1] + ab /\ r[3] = r[2] + ab /\ r[4] = r[3] + last
      BY <2>2, <2>6
    <3> QED
      BY <1>5, <1>6, <1>8, <2>2, <2>6, <3>1 DEF r
  <2> QED
    BY <2>3, <2>4, <2>5, <2>6
<1> HIDE DEF last
<1>12. Rtp!Blocks(f).percent \in {0, f.percent}
  BY <1>4
<1> QED
  BY <1>4, <1>8, <1>9, <1>10, <1>11, <1>12, Zenon DEF z, p, s

\* The shards of a frame fit the code, and are counted alike by both sides.
LEMMA ShardsAre ==
  ASSUME NEW f \in Framed
  PROVE  LET s == Rtp!Shards(f)
         IN /\ Len(s) \in 1..4 /\ DOMAIN s = 1..Len(s)
            /\ \A x \in DOMAIN s : ShardsFine(s[x])
<1> DEFINE z == Rtp!Blocks(f).sizes
           pc == Rtp!Blocks(f).percent
           s == Rtp!Shards(f)
           m == MostShards(f)
<1>1. /\ z \in Seq(Nat \ {0}) /\ Len(z) \in 1..4
      /\ \A x \in DOMAIN z : pc = 0 \/ z[x] <= m * Block
      /\ pc \in {0, f.percent}
  BY SizesAre, Zenon
<1>2. pc \in 0..255 /\ f.min \in 0..2 /\ f.percent \in 0..255
  BY <1>1 DEF Framed
<1>3. m \in Nat /\ m * (100 + f.percent) <= 25500
  BY MostShardsIs
<1>4. s = [x \in DOMAIN z |-> Rtp!FecEncode(z[x], pc, f.min)]
  BY DEF Rtp!Shards
<1> HIDE DEF z, pc, s, m
<1>5. Len(s) = Len(z) /\ DOMAIN s = 1..Len(s) /\ DOMAIN z = 1..Len(z)
  BY <1>1, <1>4
<1>6. ASSUME NEW x \in DOMAIN s PROVE ShardsFine(s[x])
  <2> DEFINE y == z[x]
             e == s[x]
             min == f.min
  <2>1. y \in Nat \ {0} /\ e = Rtp!FecEncode(y, pc, min)
    BY <1>1, <1>4, <1>5
  <2>2. LeavesRoom(y, pc, m)
    BY <1>1, <1>3, <1>5 DEF LeavesRoom
  <2>3. min \in 0..2
    BY <1>2
  <2> HIDE DEF y, e, min
  <2>4. ShardsFine(Rtp!FecEncode(y, pc, min))
    <3>1. pc \in 0..255 /\ m \in Nat /\ y \in Nat \ {0}
      BY <1>2, <1>3, <2>1
    <3> QED
      BY <2>2, <2>3, <3>1, EncodedBlock
  <2> QED
    BY <2>1, <2>4 DEF e
<1> QED
  BY <1>1, <1>5, <1>6, Zenon DEF s

\* The blocks and shards of a frame.
LEMMA FrameFits ==
  ASSUME v1 \in Framed
  PROVE  Rtp!BlocksCoverPayload /\ Rtp!ShardsFit /\ Rtp!ClientCountsParity
<1> DEFINE s == Rtp!Shards(v1)
           z == Rtp!Blocks(v1).sizes
<1>1. /\ z \in Seq(Nat \ {0}) /\ Len(z) \in 1..4
      /\ \A x \in DOMAIN z : z[x] > 0 /\ (x < Len(z) => z[x] % Block = 0)
      /\ Rtp!RunningSum(z)[Len(z)] = Rtp!PayloadSize(v1)
  BY SizesAre, Zenon
<1>2. Rtp!BlocksCoverPayload
  BY <1>1, Zenon DEF Rtp!BlocksCoverPayload
<1>3. \A x \in DOMAIN s : ShardsFine(s[x])
  BY ShardsAre, Zenon
<1> HIDE DEF s
<1>4. Rtp!ShardsFit
  BY <1>3, Zenon DEF Rtp!ShardsFit, s, ShardsFine
<1>5. Rtp!ClientCountsParity
  BY <1>3, Zenon DEF Rtp!ClientCountsParity, s, ShardsFine
<1> QED
  BY <1>2, <1>4, <1>5

\* The packets of the first blocks of a frame are a number.
LEMMA CountIsNat ==
  ASSUME NEW f \in Framed, NEW n \in 0..Len(Rtp!Shards(f))
  PROVE  Rtp!Count(Rtp!Shards(f), n) \in Nat
<1> DEFINE s == Rtp!Shards(f)
           z == [x \in 1 .. Len(s) |-> s[x].data + s[x].parity]
<1>1. Len(s) \in 1..4 /\ \A x \in 1..Len(s) : ShardsFine(s[x])
  BY ShardsAre, Zenon
<1> HIDE DEF s
<1>2. \A x \in 1..Len(s) : s[x].data + s[x].parity \in Nat
  BY <1>1 DEF ShardsFine
<1>3. z \in Seq(Nat) /\ Len(z) = Len(s)
  BY <1>1, <1>2
<1> HIDE DEF z
<1>4. n \in 0..Len(z)
  BY <1>3 DEF s
<1>5. Rtp!RunningSum(z)[n] \in Nat
  BY <1>3, <1>4, SumIsNat
<1> QED
  BY <1>5 DEF Rtp!Count, z, s

\* Where byte i of the input belongs, and the first bytes in their places.
Slice == Block - Header
Place(i) == (i \div Slice) * Block + Header + (i % Slice)
Laid(m) == {<<Place(i), i>> : i \in 0 .. m - 1}

\* Byte i of slice x follows the header of the slice.
LEMMA PlaceInSlice ==
  ASSUME NEW x \in Nat, NEW i \in 0 .. Slice - 1
  PROVE  Place(x * Slice + i) = x * Block + Header + i
<1>1. Slice \in Nat \ {0}
  BY PacketAssumption DEF Slice
<1>2. (x * Slice + i) \div Slice = x /\ (x * Slice + i) % Slice = i
  BY <1>1, QuotientIs
<1> QED
  BY <1>2 DEF Place

\* Byte j of slice x, in the input and in the result.
Byte(x, j) == x * Slice + j
At(x, j) == x * Block + Header + j

\* n bytes from byte m on, put at and after it.
Put(at, m, n) == {<<at + i, m + i>> : i \in 0 .. n - 1}

\* The next n bytes of a slice, put in their places.
LEMMA PlacesMore ==
  ASSUME NEW x \in Nat, NEW j \in Nat, NEW n \in Nat, j + n <= Slice
  PROVE  Laid(Byte(x, j) + n) = Laid(Byte(x, j)) \cup Put(At(x, j), Byte(x, j), n)
<1> DEFINE m == Byte(x, j)
           at == At(x, j)
<1>1. Slice \in Nat \ {0} /\ Block \in Nat /\ Header \in Nat
  BY PacketAssumption DEF Slice
<1>2. m = x * Slice + j /\ at = x * Block + Header + j /\ m \in Nat /\ at \in Nat
  BY <1>1 DEF Byte, At
<1> HIDE DEF m, at
<1>3. ASSUME NEW i \in 0 .. n - 1 PROVE Place(m + i) = at + i
  <2>1. j + i \in 0 .. Slice - 1
    BY <1>1
  <2>2. Place(x * Slice + (j + i)) = x * Block + Header + (j + i)
    BY <2>1, PlaceInSlice
  <2>3. x * Slice \in Nat /\ x * Block \in Nat
    BY <1>1
  <2> QED
    BY <1>2, <1>1, <2>2, <2>3
<1> USE <1>2
<1>4. ASSUME NEW p PROVE p \in Laid(m + n) <=> p \in Laid(m) \cup {<<at + i, m + i>> : i \in 0 .. n - 1}
  <2>1. ASSUME p \in Laid(m + n)
        PROVE  p \in Laid(m) \cup {<<at + i, m + i>> : i \in 0 .. n - 1}
    <3>1. PICK i \in 0 .. m + n - 1 : p = <<Place(i), i>>
      BY <2>1 DEF Laid
    <3>2. CASE i < m
      BY <3>1, <3>2 DEF Laid
    <3>3. CASE i >= m
      <4>1. i - m \in 0 .. n - 1 /\ m + (i - m) = i
        BY <3>3
      <4>2. Place(i) = at + (i - m)
        BY <1>3, <4>1
      <4> QED
        BY <3>1, <4>1, <4>2
    <3> QED
      BY <3>2, <3>3
  <2>2. ASSUME p \in Laid(m) PROVE p \in Laid(m + n)
    BY <2>2 DEF Laid
  <2>3. ASSUME NEW i \in 0 .. n - 1 PROVE <<at + i, m + i>> \in Laid(m + n)
    <3>1. m + i \in 0 .. m + n - 1
      OBVIOUS
    <3> QED
      BY <1>3, <3>1 DEF Laid
  <2> QED
    BY <2>1, <2>2, <2>3
<1> QED
  BY <1>4 DEF Put, m, at

\* The first m bytes are copied; what is left of the buffer begins at next.
CopiedUpTo(acc, m, len1, len2) ==
  /\ acc.next \in Nat /\ acc.end \in Nat /\ acc.base \in Nat
  /\ acc.next <= acc.end /\ acc.base + acc.next = m
  /\ \/ acc.base = 0 /\ acc.end = len1
     \/ acc.base = len1 /\ acc.end = len2
  /\ acc.out = Laid(m)

\* A slice is copied, from one buffer or from the end of the first and the
\* beginning of the second.
LEMMA SliceCopied ==
  ASSUME NEW acc, NEW x \in Nat, NEW len1 \in Nat, NEW len2 \in Nat,
         CopiedUpTo(acc, x * Slice, len1, len2),
         x * Slice <= len1 + len2,
         NEW n, n = (IF x = Rtp!CeilDiv(len1 + len2, Slice) - 1 THEN (len1 + len2) - x * Slice ELSE Slice),
         n \in Nat, n <= Slice, x * Slice + n <= len1 + len2
  PROVE  CopiedUpTo(Rtp!CopySlice(acc, x, Header, Slice, len1, len2), x * Slice + n, len1, len2)
<1> DEFINE m == x * Slice
           at == x * (Header + Slice) + Header
           left == acc.end - acc.next
           after == Rtp!CopySlice(acc, x, Header, Slice, len1, len2)
           one == [next |-> acc.next + n, end |-> acc.end, base |-> acc.base,
                   out |-> acc.out \cup {<<at + i, acc.base + acc.next + i>> : i \in 0 .. n - 1}]
           two == [next |-> n - left, end |-> len2, base |-> len1,
                   out |-> acc.out \cup {<<at + i, acc.base + acc.next + i>> : i \in 0 .. left - 1}
                                   \cup {<<at + left + i, len1 + i>> : i \in 0 .. n - left - 1}]
<1>1. after = IF acc.next + n > acc.end THEN two ELSE one
  BY Zenon DEF Rtp!CopySlice
<1>2. Slice \in Nat \ {0} /\ Block \in Nat /\ Header \in Nat /\ Header + Slice = Block
  BY PacketAssumption DEF Slice
<1>3. m \in Nat /\ at \in Nat /\ at = x * Block + Header
  BY <1>2
<1>4. /\ acc.next \in Nat /\ acc.end \in Nat /\ acc.base \in Nat
      /\ acc.next <= acc.end /\ acc.base + acc.next = m
      /\ (acc.base = 0 /\ acc.end = len1) \/ (acc.base = len1 /\ acc.end = len2)
      /\ acc.out = Laid(m)
  BY Zenon DEF CopiedUpTo
<1>5. m + n <= len1 + len2 /\ m + 0 = m
  BY <1>3
<1> HIDE DEF after, at
<1>6. ASSUME NEW k \in Nat, k <= n
      PROVE  Laid(m + k) = Laid(m) \cup Put(at, m, k)
  <2> DEFINE j == 0
  <2>1. j \in Nat /\ j + k <= Slice /\ m = Byte(x, j) /\ at = At(x, j)
    BY <1>2, <1>3, <1>6 DEF Byte, At
  <2> HIDE DEF m, j
  <2>2. Laid(Byte(x, j) + k) = Laid(Byte(x, j)) \cup Put(At(x, j), Byte(x, j), k)
    BY <1>6, <2>1, PlacesMore
  <2> QED
    BY <2>1, <2>2
<1> HIDE DEF m
<1>7. CASE acc.next + n <= acc.end
  <2>1. after = one
    BY <1>1, <1>4, <1>7
  <2>2. one.out = Laid(m + n)
    BY <1>4, <1>6 DEF Put
  <2>3. one.next \in Nat /\ one.end = acc.end /\ one.base = acc.base /\ one.next = acc.next + n
    BY <1>4
  <2> HIDE DEF one
  <2>4. CopiedUpTo(one, m + n, len1, len2)
    BY <1>3, <1>4, <1>7, <2>2, <2>3 DEF CopiedUpTo
  <2> QED
    BY <2>1, <2>4 DEF m, after
<1>8. CASE acc.next + n > acc.end
  <2>1. after = two
    BY <1>1, <1>8
  <2>2. acc.base = 0 /\ acc.end = len1 /\ acc.next = m /\ left \in Nat /\ left < n /\ m + left = len1
    BY <1>3, <1>4, <1>5, <1>8
  <2>3. two.next = n - left /\ two.next \in Nat /\ two.end = len2 /\ two.base = len1
    BY <2>2
  <2>4. two.out = Laid(m + n)
    <3> DEFINE ml == m + left
               al == at + left
               nl == n - left
    <3>1. Laid(ml) = Laid(m) \cup Put(at, m, left)
      BY <1>4, <1>6, <2>2
    <3>2. two.out = Laid(ml) \cup Put(al, ml, nl)
      <4>1. acc.out = Laid(m) /\ acc.base + acc.next = m /\ len1 = ml
        BY <1>4, <2>2
      <4>2. two.out = acc.out \cup {<<at + i, acc.base + acc.next + i>> : i \in 0 .. left - 1}
                              \cup {<<al + i, len1 + i>> : i \in 0 .. nl - 1}
        OBVIOUS
      <4> HIDE DEF ml, al, nl, left, two
      <4> QED
        BY <3>1, <4>1, <4>2 DEF Put
    <3>3. ml + nl = m + n
      BY <1>3, <1>4, <2>2
    <3>4. /\ ml \in Nat /\ al \in Nat /\ nl \in Nat /\ left + nl <= Slice
          /\ ml = Byte(x, left) /\ al = At(x, left)
      <4>1. left \in Nat /\ left < n /\ m = x * Slice
        BY <2>2 DEF m
      <4> HIDE DEF left
      <4>2. x * Block \in Nat /\ x * Slice \in Nat
        BY <1>2
      <4> QED
        BY <1>2, <1>3, <4>1, <4>2 DEF Byte, At
    <3>5. left \in Nat
      BY <2>2
    <3> HIDE DEF ml, al, nl, left, two
    <3>6. Laid(Byte(x, left) + nl) = Laid(Byte(x, left)) \cup Put(At(x, left), Byte(x, left), nl)
      BY <3>4, <3>5, PlacesMore
    <3> QED
      BY <3>2, <3>3, <3>4, <3>6
  <2> HIDE DEF two, left
  <2>5. CopiedUpTo(two, m + n, len1, len2)
    BY <1>3, <1>4, <1>5, <2>2, <2>3, <2>4 DEF CopiedUpTo
  <2> QED
    BY <2>1, <2>5 DEF m, after
<1> QED
  BY <1>4, <1>7, <1>8

\* The loop, slice by slice.
LEMMA CopyUnfolds ==
  ASSUME NEW slice, NEW len1, NEW len2, Rtp!CeilDiv(len1 + len2, slice) \in Nat
  PROVE  \A x \in 0..Rtp!CeilDiv(len1 + len2, slice) :
           Rtp!Copied(Header, slice, len1, len2)[x] =
             IF x = 0 THEN [next |-> 0, end |-> len1, base |-> 0, out |-> {}]
             ELSE Rtp!CopySlice(Rtp!Copied(Header, slice, len1, len2)[x - 1], x - 1,
                                Header, slice, len1, len2)
<1> DEFINE k == Rtp!CeilDiv(len1 + len2, slice)
           Start == [next |-> 0, end |-> len1, base |-> 0, out |-> {}]
           Step(acc, x) == Rtp!CopySlice(acc, x, Header, slice, len1, len2)
           P(f, l) == f = [x \in 0..l |-> IF x = 0 THEN Start ELSE Step(f[x - 1], x - 1)]
           S == {l \in Nat : l <= k /\ ~ \E f : P(f, l)}
<1>0. k \in Nat
  OBVIOUS
<1> HIDE DEF Start, Step, k
<1>1. S = {}
  <2> SUFFICES ASSUME S # {} PROVE FALSE
    OBVIOUS
  <2>1. PICK l \in S : \A y \in S : l <= y
    BY LeastNat
  <2>2. P([x \in 0..0 |-> Start], 0)
    OBVIOUS
  <2>3. l # 0 /\ l \in Nat /\ l <= k
    BY <2>1, <2>2
  <2>4. l - 1 \in Nat /\ l - 1 \notin S
    <3> HIDE DEF S
    <3> QED
      BY <2>1, <2>3
  <2>5. PICK f : P(f, l - 1)
    BY <1>0, <2>3, <2>4
  <2> DEFINE g == [x \in 0..l |-> IF x = l THEN Step(f[l - 1], l - 1) ELSE f[x]]
  <2>6. ASSUME NEW x \in 0..l PROVE g[x] = IF x = 0 THEN Start ELSE Step(g[x - 1], x - 1)
    <3>1. x # 0 => g[x - 1] = f[x - 1]
      BY <2>3
    <3>2. CASE x = l
      BY <2>3, <3>1, <3>2
    <3>3. CASE x # l
      <4>1. x \in 0..l - 1 /\ g[x] = f[x]
        BY <2>3, <3>3
      <4>2. f[x] = IF x = 0 THEN Start ELSE Step(f[x - 1], x - 1)
        BY <2>5, <4>1
      <4> QED
        BY <3>1, <4>1, <4>2
    <3> QED
      BY <3>2, <3>3
  <2>7. P(g, l)
    BY <2>6
  <2> QED
    BY <2>1, <2>7
<1>2. k \notin S
  <2> HIDE DEF S
  <2> QED
    BY <1>1
<1>3. \E f : P(f, k)
  <2> HIDE DEF P
  <2> QED
    BY <1>0, <1>2
<1>4. P(CHOOSE f : P(f, k), k)
  BY <1>3
<1>5. P(Rtp!Copied(Header, slice, len1, len2), k)
  BY <1>4 DEF Rtp!Copied, Start, Step, k
<1> DEFINE copied == Rtp!Copied(Header, slice, len1, len2)
<1> HIDE DEF copied
<1>6. copied = [x \in 0..k |-> IF x = 0 THEN Start ELSE Step(copied[x - 1], x - 1)]
  BY <1>5 DEF copied
<1>7. \A x \in 0..k : copied[x] = IF x = 0 THEN Start ELSE Step(copied[x - 1], x - 1)
  BY <1>6
<1> QED
  BY <1>7 DEF copied, Start, Step, k

\* Insertion puts every byte in its place.
LEMMA AllCopied ==
  ASSUME NEW len1 \in Nat \ {0}, NEW len2 \in Nat
  PROVE  Rtp!ConcatAndInsert(Header, Slice, len1, len2) = Laid(len1 + len2)
<1> DEFINE total == len1 + len2
           k == Rtp!CeilDiv(total, Slice)
           c == Rtp!Copied(Header, Slice, len1, len2)
           m(x) == IF x = k THEN total ELSE x * Slice
           S == {x \in Nat : x <= k /\ ~ CopiedUpTo(c[x], m(x), len1, len2)}
<1>1. Slice \in Nat \ {0} /\ total \in Nat /\ total > 0
  BY PacketAssumption DEF Slice
<1>2. k \in Nat \ {0} /\ total <= k * Slice /\ k * Slice < total + Slice
  <2> HIDE DEF total
  <2> QED
    BY <1>1, RoundsUp
<1>3. \A x \in 0..k :
        c[x] = IF x = 0 THEN [next |-> 0, end |-> len1, base |-> 0, out |-> {}]
               ELSE Rtp!CopySlice(c[x - 1], x - 1, Header, Slice, len1, len2)
  <2>1. Rtp!CeilDiv(len1 + len2, Slice) \in Nat
    BY <1>2
  <2> QED
    BY <2>1, CopyUnfolds
<1>4. Rtp!ConcatAndInsert(Header, Slice, len1, len2) = c[k].out
  BY Zenon DEF Rtp!ConcatAndInsert
<1> DEFINE n(x) == IF x = k - 1 THEN total - x * Slice ELSE Slice
<1>5. ASSUME NEW x \in 0 .. k - 1
      PROVE  /\ m(x) = x * Slice /\ m(x) <= total /\ n(x) \in Nat /\ n(x) <= Slice
             /\ m(x + 1) = x * Slice + n(x) /\ x * Slice + n(x) <= total
  <2> HIDE DEF k, total
  <2>1. x * Slice \in Nat /\ k * Slice \in Nat /\ (k - 1) * Slice = k * Slice - Slice
    BY <1>1, <1>2
  <2>2. (x + 1) * Slice = x * Slice + Slice /\ (x + 1) * Slice <= k * Slice
    BY <1>1, <1>2, TimesGrows
  <2>3. x # k - 1 => (x + 1) * Slice <= (k - 1) * Slice
    BY <1>1, <1>2, TimesGrows
  <2>4. x = k - 1 => x * Slice = k * Slice - Slice
    BY <2>1
  <2>5. x # k /\ (x + 1 = k <=> x = k - 1) /\ x + 1 \in 1..k
    BY <1>2
  <2> QED
    BY <1>1, <1>2, <2>1, <2>2, <2>3, <2>4, <2>5
<1> HIDE DEF k, c, n
<1>6. CopiedUpTo(c[0], m(0), len1, len2)
  <2>1. c[0] = [next |-> 0, end |-> len1, base |-> 0, out |-> {}] /\ m(0) = 0
    BY <1>1, <1>2, <1>3
  <2>2. Laid(0) = {}
    BY DEF Laid
  <2> QED
    BY <2>1, <2>2 DEF CopiedUpTo
<1>7. ASSUME NEW x \in 0 .. k - 1, CopiedUpTo(c[x], m(x), len1, len2)
      PROVE  CopiedUpTo(c[x + 1], m(x + 1), len1, len2)
  <2> DEFINE acc == c[x]
             nx == n(x)
  <2>1. c[x + 1] = Rtp!CopySlice(acc, x, Header, Slice, len1, len2)
    BY <1>2, <1>3
  <2>2. /\ x \in Nat /\ CopiedUpTo(acc, x * Slice, len1, len2) /\ x * Slice <= len1 + len2
        /\ nx \in Nat /\ nx <= Slice /\ x * Slice + nx <= len1 + len2
        /\ m(x + 1) = x * Slice + nx
    BY <1>2, <1>5, <1>7
  <2>3. nx = IF x = Rtp!CeilDiv(len1 + len2, Slice) - 1 THEN (len1 + len2) - x * Slice ELSE Slice
    BY DEF n, k
  <2> HIDE DEF acc, nx, m
  <2>4. len1 \in Nat
    OBVIOUS
  <2>5. CopiedUpTo(Rtp!CopySlice(acc, x, Header, Slice, len1, len2), x * Slice + nx, len1, len2)
    BY <2>2, <2>3, <2>4, SliceCopied, Zenon
  <2> QED
    BY <2>1, <2>2, <2>5
<1> HIDE DEF m
<1>8. S = {}
  <2> SUFFICES ASSUME S # {} PROVE FALSE
    OBVIOUS
  <2>1. PICK x \in S : \A y \in S : x <= y
    BY LeastNat
  <2>2. x \in Nat /\ x <= k /\ x # 0 /\ ~ CopiedUpTo(c[x], m(x), len1, len2)
    BY <1>6, <2>1
  <2>3. x - 1 \in Nat /\ x - 1 \notin S
    <3> HIDE DEF S
    <3> QED
      BY <2>1, <2>2
  <2> DEFINE y == x - 1
  <2>4. y \in 0 .. k - 1 /\ CopiedUpTo(c[y], m(y), len1, len2) /\ y + 1 = x
    BY <1>2, <2>2, <2>3
  <2> HIDE DEF y
  <2> QED
    BY <1>7, <2>2, <2>4
<1>9. CopiedUpTo(c[k], m(k), len1, len2)
  BY <1>2, <1>8
<1> QED
  BY <1>4, <1>9 DEF CopiedUpTo, m

\* What is said of the bytes.
LEMMA InsertionIs ==
  ASSUME v1 \in Framed
  PROVE  Rtp!InsertedRight
<1>1. FrameHeader \in Nat \ {0} /\ v1.size \in Nat
  BY PacketAssumption DEF Framed
<1>2. Rtp!ConcatAndInsert(Header, Slice, FrameHeader, v1.size) = Laid(FrameHeader + v1.size)
  BY <1>1, AllCopied
<1>3. Laid(FrameHeader + v1.size) =
        {<<(i \div Slice) * Block + Header + (i % Slice), i>> : i \in 0 .. FrameHeader + v1.size - 1}
  <2>1. (FrameHeader + v1.size) - 1 = FrameHeader + v1.size - 1
    BY <1>1
  <2> QED
    BY <2>1 DEF Laid, Place
<1>4. Slice = Block - Header
  BY DEF Slice
<1> QED
  BY <1>2, <1>3, <1>4 DEF Rtp!InsertedRight

\* The numbers of a frame: RTP packets and IVs from seq and iv on.
Numbers == [seq : Nat, iv : Nat, n : Nat]

\* A number of 16 bits.
Wrap(n) == n % 65536

\* A sum wraps as its parts do.
LEMMA SumWraps ==
  ASSUME NEW a \in Nat, NEW n \in Nat
  PROVE  Wrap(a) \in Nat /\ Wrap(a + n) = Wrap(Wrap(a) + n)
BY DEF Wrap

\* Frames on the wire are numbered one after the other.
Apart(w, iv) == \A i \in DOMAIN w : w[i].iv + w[i].n <= iv
Follows(w, t) == \A i, j \in DOMAIN w : i < j =>
                   /\ w[i].iv + w[i].n <= w[j].iv
                   /\ (~t /\ j = i + 1) => w[j].seq = Wrap(w[i].seq + w[i].n)
Next16(w, t, seq) == w # <<>> /\ ~t => Wrap(seq) = Wrap(w[Len(w)].seq + w[Len(w)].n)

\* The state of the video thread, in these terms.
Numbered ==
  /\ v1 \in Framed /\ v2 \in Nat /\ v3 \in Nat /\ v5 \in BOOLEAN /\ v4 \in Seq(Numbers)
  /\ Apart(v4, v3) /\ Next16(v4, v5, v2) /\ Follows(v4, v5)

\* That is what the invariant says.
LEMMA WireInvIs == Rtp!WireInv <=> Numbered
<1>1. Rtp!IvNeverReused <=> Follows(v4, v5)
  BY DEF Rtp!IvNeverReused, Follows, Wrap
<1>2. Next16(v4, v5, v2) <=>
        (v4 # <<>> /\ ~v5 => v2 % 65536 = (v4[Len(v4)].seq + v4[Len(v4)].n) % 65536)
  BY DEF Next16, Wrap
<1>3. Apart(v4, v3) <=> \A i \in DOMAIN v4 : v4[i].iv + v4[i].n <= v3
  BY DEF Apart
<1> QED
  BY <1>1, <1>2, <1>3 DEF Rtp!WireInv, Numbered, Framed, Numbers

\* A frame after the others.
LEMMA AppendedFollows ==
  ASSUME NEW w \in Seq(Numbers), NEW iv \in Nat, NEW seq \in Nat, NEW t \in BOOLEAN, NEW u \in BOOLEAN,
         Apart(w, iv), Follows(w, t), Next16(w, t, seq), t => u,
         NEW e \in Numbers, e.seq = Wrap(seq), e.iv = iv,
         NEW n \in Nat, e.n = n
  PROVE  /\ Append(w, e) \in Seq(Numbers) /\ Apart(Append(w, e), iv + n) /\ Follows(Append(w, e), u)
         /\ Append(w, e) # <<>> /\ Append(w, e)[Len(Append(w, e))] = e
<1> DEFINE l == Len(w)
           x == Append(w, e)
<1>1. /\ l \in Nat /\ x \in Seq(Numbers) /\ Len(x) = l + 1 /\ DOMAIN w = 1..l /\ DOMAIN x = 1 .. l + 1
      /\ x[l + 1] = e /\ \A i \in 1..l : x[i] = w[i] /\ w[i] \in Numbers
      /\ (l > 0 => w # <<>>) /\ x # <<>>
  OBVIOUS
<1>2. l > 0 /\ ~t => e.seq = Wrap(w[l].seq + w[l].n)
  BY <1>1 DEF Next16
<1> HIDE DEF l, x
<1>3. ASSUME NEW i \in 1..l
      PROVE  x[i] = w[i] /\ w[i].iv \in Nat /\ w[i].n \in Nat /\ w[i].iv + w[i].n <= iv
  <2>1. x[i] = w[i] /\ w[i] \in Numbers
    BY <1>1
  <2>2. w[i].iv + w[i].n <= iv
    BY <1>1 DEF Apart
  <2>3. w[i].iv \in Nat /\ w[i].n \in Nat
    BY <2>1 DEF Numbers
  <2> QED
    BY <2>1, <2>2, <2>3
<1>4. Apart(x, iv + n)
  <2> SUFFICES ASSUME NEW i \in 1 .. l + 1 PROVE x[i].iv + x[i].n <= iv + n
    BY <1>1 DEF Apart
  <2>1. CASE i = l + 1
    BY <1>1, <2>1
  <2>2. CASE i # l + 1
    <3>1. i \in 1..l
      BY <1>1, <2>2
    <3> QED
      BY <1>3, <3>1
  <2> QED
    BY <2>1, <2>2
<1>5. Follows(x, u)
  <2> SUFFICES ASSUME NEW i \in 1 .. l + 1, NEW j \in 1 .. l + 1, i < j
               PROVE  /\ x[i].iv + x[i].n <= x[j].iv
                      /\ (~u /\ j = i + 1) => x[j].seq = Wrap(x[i].seq + x[i].n)
    BY <1>1, Zenon DEF Follows
  <2>1. i \in 1..l
    BY <1>1
  <2>2. CASE j = l + 1
    <3>1. x[i].iv + x[i].n <= x[j].iv
      BY <1>1, <1>3, <2>1, <2>2
    <3>2. j = i + 1 => i = l /\ l > 0
      BY <1>1, <2>1, <2>2
    <3> QED
      BY <1>1, <1>2, <1>3, <2>1, <2>2, <3>1, <3>2
  <2>3. CASE j # l + 1
    <3>1. j \in 1..l
      BY <1>1, <2>3
    <3>2. x[i] = w[i] /\ x[j] = w[j]
      BY <1>3, <2>1, <3>1
    <3>3. /\ w[i].iv + w[i].n <= w[j].iv
          /\ (~t /\ j = i + 1) => w[j].seq = Wrap(w[i].seq + w[i].n)
      BY <1>1, <2>1, <3>1 DEF Follows
    <3> QED
      BY <3>2, <3>3
  <2> QED
    BY <2>2, <2>3
<1> QED
  BY <1>1, <1>4, <1>5 DEF x

\* What a frame adds to the wire keeps the numbers apart (stream.cpp,
\* videoBroadcastThread).
LEMMA WireGrows ==
  ASSUME Rtp!WireInv, NEW f \in Framed, NEW total \in Nat, NEW fails \in BOOLEAN, NEW e,
         e = [seq |-> Wrap(v2), iv |-> v3, n |-> total],
         v1' = f, v4' = Append(v4, e), v3' = v3 + total,
         v2' = (IF fails THEN v2 ELSE v2 + total), v5' = (v5 \/ fails)
  PROVE  Rtp!WireInv'
<1>1. /\ v2 \in Nat /\ v3 \in Nat /\ v5 \in BOOLEAN /\ v4 \in Seq(Numbers)
      /\ Apart(v4, v3) /\ Next16(v4, v5, v2) /\ Follows(v4, v5)
  BY WireInvIs DEF Numbered
<1>2. Wrap(v2) \in Nat /\ Wrap(v2 + total) = Wrap(Wrap(v2) + total)
  BY <1>1, SumWraps
<1>3. e \in Numbers /\ e.seq = Wrap(v2) /\ e.iv = v3 /\ e.n = total
  BY <1>1, <1>2 DEF Numbers
<1> DEFINE w == v4'
           u == v5'
           q == v2'
           p == v3'
<1>4. v1' \in Framed /\ q \in Nat /\ p \in Nat /\ p = v3 + total /\ u \in BOOLEAN /\ (v5 => u)
  BY <1>1
<1>5. ~u => q = v2 + total
  BY <1>1
<1>6. w = Append(v4, e)
  OBVIOUS
<1> HIDE DEF w, u, q, p
<1>7. w \in Seq(Numbers) /\ Apart(w, p) /\ Follows(w, u) /\ w # <<>> /\ w[Len(w)] = e
  BY <1>1, <1>3, <1>4, <1>6, AppendedFollows
<1>8. Next16(w, u, q)
  BY <1>2, <1>3, <1>5, <1>7 DEF Next16
<1>9. Numbered'
  BY <1>4, <1>7, <1>8 DEF Numbered, w, u, q, p
<1> QED
  BY <1>9, WireInvIs, PTL

\* A frame: its numbers of packets, and the numbers they get.
LEMMA WireStep ==
  ASSUME Rtp!WireInv, Rtp!VideoNext
  PROVE  Rtp!WireInv'
<1>1. PICK s \in Size, p \in Percent, m \in MinFec, b \in BOOLEAN :
        Rtp!SendFrame([size |-> s, percent |-> p, min |-> m], b)
  BY DEF Rtp!VideoNext
<1> DEFINE f == [size |-> s, percent |-> p, min |-> m]
           shards == Rtp!Shards(f)
           left == Len(shards) - (IF b THEN 1 ELSE 0)
           total == Rtp!Count(shards, left)
           e == [seq |-> Wrap(v2), iv |-> v3, n |-> total]
<1>2. f \in Framed
  BY PacketAssumption DEF Framed
<1>3. Rtp!SendFrame(f, b)
  BY <1>1
<1> HIDE DEF f
<1>4. v1' = f /\ v4' = Append(v4, e) /\ v3' = v3 + total /\ v5' = (v5 \/ b)
  BY <1>3 DEF Rtp!SendFrame, Wrap
<1>5. v2' = IF b THEN v2 ELSE v2 + total
  BY <1>3 DEF Rtp!SendFrame
<1>6. left \in 0..Len(shards)
  <2>1. Len(shards) \in 1..4
    BY <1>2, ShardsAre, Zenon
  <2> HIDE DEF shards
  <2> QED
    BY <2>1
<1> HIDE DEF left
<1>7. total \in Nat
  BY <1>2, <1>6, CountIsNat
<1> HIDE DEF total, shards
<1>8. e = [seq |-> Wrap(v2), iv |-> v3, n |-> total]
  OBVIOUS
<1> HIDE DEF e
<1> QED
  BY <1>2, <1>4, <1>5, <1>7, <1>8, WireGrows

\* Before the first frame nothing is on the wire.
LEMMA WireStarts ==
  ASSUME Rtp!VideoInit
  PROVE  Rtp!WireInv
<1>1. v1 = [size |-> 1, percent |-> 0, min |-> 0] /\ v2 = 0 /\ v3 = 0 /\ v4 = <<>> /\ v5 = FALSE
  BY DEF Rtp!VideoInit
<1>2. v1 \in Framed /\ v4 \in Seq(Numbers) /\ DOMAIN v4 = {}
  BY <1>1 DEF Framed
<1>3. Apart(v4, v3) /\ Next16(v4, v5, v2) /\ Follows(v4, v5)
  BY <1>1, <1>2, Zenon DEF Apart, Next16, Follows
<1> QED
  BY <1>1, <1>2, <1>3, WireInvIs DEF Numbered

\* What is claimed of video, from the invariant.
LEMMA WireMatches ==
  ASSUME Rtp!WireInv
  PROVE  /\ Rtp!InsertedRight /\ Rtp!BlocksCoverPayload /\ Rtp!ShardsFit
         /\ Rtp!ClientCountsParity /\ Rtp!IvNeverReused
<1>1. v1 \in Framed /\ Rtp!IvNeverReused
  BY DEF Rtp!WireInv, Framed
<1> QED
  BY <1>1, FrameFits, InsertionIs

\* A step of the video thread, or of another component.
LEMMA WireKeeps == Rtp!WireInv /\ [Rtp!VideoNext]_(Rtp!packetVars) => Rtp!WireInv'
<1> SUFFICES ASSUME Rtp!WireInv, [Rtp!VideoNext]_(Rtp!packetVars) PROVE Rtp!WireInv'
  OBVIOUS
<1>1. CASE UNCHANGED Rtp!packetVars
  <2>1. v1' = v1 /\ v2' = v2 /\ v3' = v3 /\ v4' = v4 /\ v5' = v5
    BY <1>1 DEF Rtp!packetVars
  <2>2. Numbered'
    BY <2>1, WireInvIs DEF Numbered
  <2> QED
    BY <2>2, WireInvIs, PTL
<1>2. CASE Rtp!VideoNext
  BY <1>2, WireStep
<1> QED
  BY <1>1, <1>2

(***************************************************************************)
(* The theorems.                                                           *)
(***************************************************************************)

\* The user's driver setting can be restored after a crash at any point and is
\* (nvprefs/driver_settings.cpp), and captured samples reach the encoder once and
\* in order unless the reader was late (windows/audio.cpp), for any number of
\* starts, changes and samples and any sizes of buffer and frame.
LostInv ==
  /\ part = "prefs" => Prefs!UndoInv
  /\ part = "samples" => Wasapi!BufferInv

\* Nothing is lost, after any number of steps, with buffers of any size.
THEOREM NothingGetsLost == Spec => []NothingIsLost
<1>1. Init => LostInv
  BY UndoInit, BufferInit DEF Init, LostInv
<1>2. LostInv /\ [Next]_pool => LostInv'
  BY OneMoves, UndoStep, BufferStep DEF LostInv
<1>3. LostInv => NothingIsLost
  BY DEF LostInv, NothingIsLost, Prefs!UndoInv, Prefs!UndoIsOnDisk, Prefs!UserValueKept,
     Wasapi!BufferInv, Wasapi!DropOnlyWhenLate
<1> QED
  BY <1>1, <1>2, <1>3, PTL DEF Spec

\* Every kernel, compositor and driver object has one owner, who releases it:
\* DMA-BUF descriptors (wayland.cpp), PipeWire descriptors and portal sessions
\* (portalgrab.cpp), DRM objects of the virtual display (headless.cpp), NVENC
\* objects (nvenc_base.cpp), frames of the capture pool (display_wgc.cpp), and the
\* ViGEm connection (windows/input.cpp), whatever fails in whatever order.
OwnedInv ==
  /\ part = "wayland" => Wayland!WaylandInv
  /\ part = "portal" => Portal!PortalInv
  /\ part = "headless" => Headless!HeadlessInv
  /\ part = "rfi" => Rfi!HandlesInv
  /\ part = "wgc" => Dxgi!WgcInv
  /\ part \in {"pads", "rumble"} => Pads!ConnectionInv

\* Every object has one owner, for any number of windows, outputs and slots.
THEOREM HandlesStayOwned == Spec => []HandlesAreOwned
<1>1. Init => OwnedInv
  BY WaylandStarts, PortalStarts, HeadlessStarts, HandlesInit, WgcStarts, ConnectionStarts DEF Init, OwnedInv
<1>2. OwnedInv /\ [Next]_pool => OwnedInv'
  BY OneMoves, WaylandStep, PortalStep, HeadlessStep, HandlesStep, WgcStep, ConnectionStep DEF OwnedInv
<1>3. OwnedInv => HandlesAreOwned
  <2>1. Wayland!WaylandInv => Wayland!DescriptorsOwned
    BY DEF Wayland!WaylandInv
  <2>2. Headless!HeadlessInv => Headless!NoDrmLeak
    BY DEF Headless!HeadlessInv
  <2>3. Pads!ConnectionInv => Pads!ConnectedWhileUsed
    BY DEF Pads!ConnectionInv
  <2> QED
    BY <2>1, <2>2, <2>3, PortalHolds, HandlesHold, WgcHolds DEF OwnedInv, HandlesAreOwned
<1> QED
  BY <1>1, <1>2, <1>3, PTL DEF Spec

\* Images and displays are not taken from under their users: a pull of the capture
\* thread never hands out or frees an image that is shared, keeps as many images as
\* were in use at once within the timeout, and a refreshed list of displays keeps
\* the one captured (video.cpp: captureThread, trim_imgs, refresh_displays), for a
\* pool of any size and any displays; and an image a Windows display pushes shows
\* the newest picture a frame brought and over it the cursor as last reported
\* (display_vram.cpp, display_ram.cpp: snapshot), whatever was kept of the frames
\* before, as an image or a surface.
KeptInv == CurrentInv /\ (part = "images" => Images!ImagesInv)

\* Images and displays stay with their users, for pools of any size.
THEOREM ImagesStayKept == Spec => ImagesAreKept
<1> DEFINE StepKeeps == /\ part = "images" => PoolKept
                        /\ part = "dxgi" => Dxgi!PushIsCurrent
<1>1. Init => KeptInv
  BY CurrentStarts, PoolStarts DEF Init, KeptInv
<1>2. KeptInv /\ [Next]_pool => KeptInv'
  BY OneMoves, CurrentStep, PoolStep DEF KeptInv
<1>3. KeptInv /\ [Next]_pool => StepKeeps
  BY OneMoves, ImageStep, PoolStep DEF KeptInv, CurrentInv
<1>4. ImagesAreKept <=> [][StepKeeps]_pool
  BY DEF ImagesAreKept, PoolKept
<1> HIDE DEF StepKeeps
<1> QED
  BY <1>1, <1>2, <1>3, <1>4, PTL DEF Spec

\* A probe that runs fails only when no encoder works, whatever is configured
\* (video.cpp, probe_encoders), and a report of lost frames is answered by the
\* next frame, an IDR frame or one marked to resume with, unless the encoder knew
\* of the whole range (nvenc_base.cpp, invalidate_ref_frames; video.cpp,
\* encode_run), for any number of frames and any size of the buffer.
AnsweredInv == part = "rfi" => Rfi!SentInv

\* A failed probe and lost frames are answered.
THEOREM FailuresStayAnswered == Spec => FailuresAreAnswered
<1> DEFINE Answered == /\ part = "probe" => Encoders!FindsAnEncoder
                       /\ part = "rfi" => Rfi!ReportIsAnswered
<1>1. Init => AnsweredInv
  BY SentStarts DEF Init, AnsweredInv
<1>2. AnsweredInv /\ [Next]_pool => AnsweredInv'
  BY OneMoves, SentStep DEF AnsweredInv
<1>3. AnsweredInv /\ [Next]_pool => [Answered]_pool
  <2> SUFFICES ASSUME AnsweredInv, Next, pool' # pool PROVE Answered
    OBVIOUS
  <2>1. part = "probe" => Encoders!FindsAnEncoder
    <3> SUFFICES ASSUME part = "probe" PROVE Encoders!FindsAnEncoder
      OBVIOUS
    <3>1. Encoders!ProbeNext /\ UNCHANGED <<part, v9, v10, v11, v12, v13, v14, v15>>
      BY DEF Next, Rest8, Rest10, Rest12, Rest14
    <3> QED
      BY <3>1, ProbeStep
  <2>2. part = "rfi" => Rfi!ReportIsAnswered
    BY OneMoves, SentStep DEF AnsweredInv
  <2> QED
    BY <2>1, <2>2
<1>4. FailuresAreAnswered <=> [][Answered]_pool
  BY DEF FailuresAreAnswered
<1> HIDE DEF Answered
<1> QED
  BY <1>1, <1>2, <1>3, <1>4, PTL DEF Spec

\* Nothing is promised to a client that probing has not confirmed (video.cpp,
\* probe_encoders; nvhttp.cpp, serverinfo), for any modes that are configured; and
\* no encoder is opened for a depth or chroma that probing has not confirmed, or
\* with a colour space its depth cannot have (video.cpp, make_encode_device and
\* make_avcodec_encode_session), however the display changes meanwhile.
OfferInv ==
  /\ part = "probe" => Encoders!ProbeInv
  /\ part = "encode" => Encoders!DeviceInv

\* What is offered was probed, for all hardware and every configuration.
THEOREM OffersStaySupported == Spec => []OffersAreSupported
<1>1. Init => OfferInv
  BY ProbeStarts, DeviceStarts DEF Init, OfferInv
<1>2. OfferInv /\ [Next]_pool => OfferInv'
  BY OneMoves, ProbeKeeps, DeviceKeeps DEF OfferInv
<1>3. OfferInv => OffersAreSupported
  <2>1. ASSUME Encoders!DeviceInv PROVE Encoders!SessionIsSupported
    BY <2>1 DEF Encoders!DeviceInv, Encoders!SessionIsSupported
  <2> QED
    BY <2>1, ServedIsSupported DEF OfferInv, OffersAreSupported
<1> QED
  BY <1>1, <1>2, <1>3, PTL DEF Spec

\* Frames reach the client in order and decodable: numbers grow and no packet has
\* another frame's stamp, however many sessions follow each other; the frame after a
\* request for an IDR frame is one, whatever failed between, and every packet that
\* needs replacements has them (video.cpp: encode_run, encode_avcodec); and after lost
\* frames the stream resumes without referring to them or to what rests on them, for
\* any number of frames, any size of the buffer and any reports (nvenc_base.cpp,
\* invalidate_ref_frames).
ShownInv ==
  /\ part = "encode" => Encoders!OrderInv
  /\ part = "rfi" => Rfi!ResumeInv

\* Frames reach the client in order and decodable.
THEOREM FramesStayInOrder == Spec => []FramesInOrder
<1>1. Init => ShownInv
  BY OrderStarts, ResumeStarts DEF Init, ShownInv
<1>2. ShownInv /\ [Next]_pool => ShownInv'
  BY OneMoves, OrderKeeps, ResumeKeeps DEF ShownInv
<1>3. ShownInv => FramesInOrder
  <2>1. Rfi!ResumeInv => Rfi!ResumesClean
    BY DEF Rfi!ResumeInv, Rfi!ResumesClean
  <2> QED
    BY <2>1 DEF ShownInv, FramesInOrder, Encoders!OrderInv
<1> QED
  BY <1>1, <1>2, <1>3, PTL DEF Spec

\* A step of the input takes one of its components further.
LEMMA InputMoves ==
  ASSUME [Next]_pool
  PROVE  /\ part' = part
         /\ part = "batch" => [Batching!Next]_(Batching!batchVars)
         /\ part = "touch" => [Pads!TouchNext]_(Pads!pointerVars)
         /\ part = "pen" => [Pads!PenNext]_(Pads!pointerVars)
         /\ part = "pads" => [Pads!PadNext \/ Pads!ReportNext]_(Pads!gamepadVars)
         /\ part = "rumble" => [Pads!PadNext \/ Pads!FeedbackNext]_(Pads!gamepadVars)
         /\ part = "touchpad" => [Pads!PadNext \/ Pads!TouchpadNext]_(Pads!gamepadVars)
<1>1. CASE UNCHANGED pool
  BY <1>1 DEF pool, Batching!batchVars, Pads!pointerVars, Pads!gamepadVars
<1>2. CASE Next
  BY <1>2 DEF Next
<1> QED
  BY <1>1, <1>2

\* The host sees the input the client sent: packets in the order they came, merged
\* only with what repeats them (input.cpp: batch, passthrough_next_message); the
\* contacts of touch and pen, the fingers on a touchpad and the rumble of a gamepad
\* are as the other side has them, and a gamepad has one repeat task
\* (windows/input.cpp), for any number of packets, slots, fingers and gamepads.
InputInv ==
  /\ part = "batch" => Batching!BatchInv
  /\ part = "touch" => Pads!TouchInv
  /\ part = "pen" => Pads!PenInv
  /\ part = "pads" => Pads!RepeatInv
  /\ part = "rumble" => Pads!RumbleInv
  /\ part = "touchpad" => Pads!TouchpadInv

\* The host sees the input that was sent.
THEOREM InputStaysMatched == Spec => []InputMatches
<1>1. Init => InputInv
  BY BatchInit, TouchInit, PenInit, RepeatInit, RumbleInit, TouchpadInit, InputAssumption DEF Init, InputInv
<1>2. InputInv /\ [Next]_pool => InputInv'
  <2> SUFFICES ASSUME InputInv, [Next]_pool PROVE InputInv'
    OBVIOUS
  <2>1. part' = part
    BY InputMoves
  <2>2. CASE part = "batch"
    BY <2>1, <2>2, BatchKept, InputAssumption, InputMoves DEF InputInv
  <2>3. CASE part = "touch"
    BY <2>1, <2>3, TouchKept, InputAssumption, InputMoves DEF InputInv
  <2>4. CASE part = "pen"
    BY <2>1, <2>4, PenKept, InputMoves DEF InputInv
  <2>5. CASE part = "pads"
    BY <2>1, <2>5, RepeatKept, InputAssumption, InputMoves DEF InputInv
  <2>6. CASE part = "rumble"
    BY <2>1, <2>6, RumbleKept, InputAssumption, InputMoves DEF InputInv
  <2>7. CASE part = "touchpad"
    BY <2>1, <2>7, TouchpadKept, InputAssumption, InputMoves DEF InputInv
  <2> QED
    BY <2>1, <2>2, <2>3, <2>4, <2>5, <2>6, <2>7 DEF InputInv
<1>3. InputInv => InputMatches
  <2>1. Batching!BatchInv => Batching!StreamInOrder /\ Batching!OnlyRepeatsMerge
    BY DEF Batching!BatchInv
  <2>2. Pads!TouchInv => Pads!ContactsMatch
    BY TouchSeen, InputAssumption
  <2>3. Pads!RepeatInv => Pads!OneRepeat
    BY DEF Pads!RepeatInv
  <2> QED
    BY <2>1, <2>2, <2>3, PenSeen, RumbleTold, TouchpadSeen DEF InputInv, InputMatches
<1> QED
  BY <1>1, <1>2, <1>3, PTL DEF Spec


\* A step of the displays takes one of their components further.
LEMMA DisplayMoves ==
  ASSUME [Next]_pool
  PROVE  /\ part' = part
         /\ part = "monitors" => [Kms!MonitorsNext]_(Kms!kmsVars)
         /\ part = "headless" => [Headless!Next]_(Headless!headlessVars)
<1>1. CASE UNCHANGED pool
  BY <1>1 DEF pool, Kms!kmsVars, Headless!headlessVars
<1>2. CASE Next
  BY <1>2 DEF Next
<1> QED
  BY <1>1, <1>2

\* The display opened is the one that was listed: a name means one plane, whose
\* connector is its own (kmsgrab.cpp: kms_display_names, display_t::init), and where
\* the headless source is offered opening it is not refused (misc.cpp, display;
\* headless.cpp), for any cards, planes and connectors.
ListedInv ==
  /\ part = "monitors" => Kms!MonitorsInv
  /\ part = "headless" => Headless!RefusalInv

\* The display opened is the one that was listed.
THEOREM DisplaysStayListed == Spec => []DisplayIsTheListed
<1>1. Init => ListedInv
  BY MonitorsStart, HeadlessStarts, RefusalStarts DEF Init, ListedInv
<1>2. ListedInv /\ [Next]_pool => ListedInv'
  <2> SUFFICES ASSUME ListedInv, [Next]_pool PROVE ListedInv'
    OBVIOUS
  <2>1. part' = part
    BY DisplayMoves
  <2>2. CASE part = "monitors"
    BY <2>1, <2>2, DisplayMoves, MonitorsKeep DEF ListedInv
  <2>3. CASE part = "headless"
    <3>1. Headless!RefusalInv /\ [Headless!Next]_(Headless!headlessVars)
      BY <2>3, DisplayMoves DEF ListedInv
    <3>2. Headless!HeadlessInv'
      BY <3>1, HeadlessStep DEF Headless!RefusalInv
    <3> QED
      BY <2>1, <2>3, <3>1, <3>2, RefusalStep DEF ListedInv
  <2> QED
    BY <2>1, <2>2, <2>3 DEF ListedInv
<1>3. ListedInv => DisplayIsTheListed
  <2>1. Headless!RefusalInv => Headless!NeverRefused
    BY DEF Headless!RefusalInv
  <2> QED
    BY <2>1, MonitorsHold DEF ListedInv, DisplayIsTheListed
<1> QED
  BY <1>1, <1>2, <1>3, PTL DEF Spec

\* A step of the packets takes one of their components further.
LEMMA PacketMoves ==
  ASSUME [Next]_pool
  PROVE  /\ part' = part
         /\ part = "video" => [Rtp!VideoNext]_(Rtp!packetVars)
         /\ part = "audio" => [Rtp!AudioNext]_(Rtp!audioVars)
         /\ part = "send" => [Rtp!SendNext]_(Rtp!sendVars)
<1>1. CASE UNCHANGED pool
  BY <1>1 DEF pool, Rtp!packetVars, Rtp!audioVars, Rtp!sendVars
<1>2. CASE Next
  BY <1>2 DEF Next
<1> QED
  BY <1>1, <1>2

\* What the client reassembles is what was encoded (stream.cpp: concat_and_insert,
\* fec::encode, videoBroadcastThread and audioBroadcastThread; linux/misc.cpp:
\* send_batch), for frames of any size and any number of frames, packets and
\* batches, with any size of packet and percentage of parity.
PacketInv ==
  /\ part = "video" => Rtp!WireInv
  /\ part = "audio" => Rtp!AudioInv
  /\ part = "send" => Rtp!SendInv

\* What the client reassembles is what was encoded.
THEOREM PacketsStayMatched == Spec => []PacketsMatch
<1>1. Init => PacketInv
  BY WireStarts, AudioStarts, SendStarts DEF Init, PacketInv
<1>2. PacketInv /\ [Next]_pool => PacketInv'
  <2> SUFFICES ASSUME PacketInv, [Next]_pool PROVE PacketInv'
    OBVIOUS
  <2>1. part' = part
    BY PacketMoves
  <2>2. CASE part = "video"
    BY <2>1, <2>2, PacketMoves, WireKeeps DEF PacketInv
  <2>3. CASE part = "audio"
    BY <2>1, <2>3, PacketMoves, AudioStep DEF PacketInv
  <2>4. CASE part = "send"
    BY <2>1, <2>4, PacketMoves, SendStep DEF PacketInv
  <2> QED
    BY <2>1, <2>2, <2>3, <2>4 DEF PacketInv
<1>3. PacketInv => PacketsMatch
  <2>1. Rtp!AudioInv => Rtp!ParityMatches
    BY DEF Rtp!AudioInv
  <2> QED
    BY <2>1, WireMatches, SendHolds DEF PacketInv, PacketsMatch
<1> QED
  BY <1>1, <1>2, <1>3, PTL DEF Spec
=============================================================================
