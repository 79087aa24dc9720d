--------------------------- MODULE CaptureProofs --------------------------
(***************************************************************************)
(* Theorems about MCMedia, for every value of the parameters: the objects  *)
(* and pictures of the capture back ends of Linux and Windows; and lemmas  *)
(* about the packets of sound and the sending of a block's shards.         *)
(***************************************************************************)
EXTENDS MCMedia, FiniteSetTheorems, FunctionTheorems, NaturalsInduction,
        SequenceTheorems, WellFoundedInduction, TLAPS

\* A nonempty set of numbers up to a bound has a greatest one.
LEMMA Greatest ==
  ASSUME NEW n \in Nat, NEW S \in SUBSET (1..n), S # {}
  PROVE  \E i \in S : \A j \in S : j <= i
<1> DEFINE D == {n - i : i \in S}
<1>1. D \subseteq Nat /\ D # {}
  <2>1. \A i \in S : n - i \in Nat
    OBVIOUS
  <2>2. PICK i \in S : TRUE
    OBVIOUS
  <2>3. n - i \in D
    BY <2>2
  <2> QED
    BY <2>1, <2>3
<1>2. PICK d \in D : \A e \in D : <<e, d>> \notin OpToRel(<, Nat)
  BY <1>1, NatLessThanWellFounded, WFMin
<1>3. \A e \in D : ~(e < d)
  BY <1>1, <1>2 DEF OpToRel
<1>4. PICK i \in S : d = n - i
  OBVIOUS
<1>5. \A j \in S : j <= i
  BY <1>3, <1>4
<1> QED
  BY <1>5

(***************************************************************************)
(* The virtual display (headless.cpp, kmsgrab.cpp).                        *)
(***************************************************************************)

\* The DRM objects that the fields of the object name.
Named(o) == {k \in {"fd", "gem", "fb"} : o[k]}

\* cleanup closes everything the object names, and changes nothing else of it.
LEMMA CleanupCloses ==
  ASSUME NEW o \in Headless!Object, o.gem \/ o.fb => o.fd
  PROVE  LET c == Headless!Cleanup(o, Named(o))
         IN /\ c.kernel = {} /\ c.object \in Headless!Object /\ Named(c.object) = {}
            /\ ~c.object.fd /\ ~c.object.gem /\ ~c.object.fb
            /\ c.object.software = o.software /\ c.object.mode = o.mode
<1> DEFINE c == Headless!Cleanup(o, Named(o))
<1>1. c.object = [o EXCEPT !.fd = FALSE, !.gem = IF o.fd THEN FALSE ELSE @,
                           !.fb = IF o.fd THEN FALSE ELSE @, !.valid = FALSE]
  BY DEF Headless!Cleanup
<1>2. c.kernel = IF o.fd THEN Named(o) \ ({"fd"} \cup (IF o.fb THEN {"fb"} ELSE {})
                                             \cup (IF o.gem THEN {"gem"} ELSE {})) ELSE Named(o)
  BY DEF Headless!Cleanup
<1> HIDE DEF c
<1>3. c.object \in Headless!Object
  BY <1>1 DEF Headless!Object
<1>4. ~c.object.fd /\ ~c.object.gem /\ ~c.object.fb
  BY <1>1 DEF Headless!Object
<1>5. c.object.software = o.software /\ c.object.mode = o.mode
  BY <1>1 DEF Headless!Object
<1>6. Named(c.object) = {}
  BY <1>4 DEF Named
<1>7. c.kernel = {}
  BY <1>2 DEF Named
<1> QED
  BY <1>3, <1>4, <1>5, <1>6, <1>7 DEF c

LEMMA HeadlessStarts == Headless!Init => Headless!HeadlessInv
BY DEF Headless!Init, Headless!HeadlessInv, Headless!NoDrmLeak, Headless!Object, Headless!NoObject

LEMMA HeadlessStep == Headless!HeadlessInv /\ [Headless!Next]_(Headless!headlessVars) => Headless!HeadlessInv'
<1> SUFFICES ASSUME Headless!HeadlessInv, [Headless!Next]_(Headless!headlessVars)
             PROVE  Headless!HeadlessInv'
  OBVIOUS
<1> DEFINE c == Headless!Cleanup(v4, v5)
           Good == /\ v4' \in Headless!Object /\ v5' = Named(v4')
                   /\ (v4'.gem \/ v4'.fb => v4'.fd)
                   /\ (v3' = None /\ v6' = None) \/ v4'.software => v5' = {}
                   /\ v3' # None =>
                        /\ v3' \in Headless!Opening /\ v6' = None
                        /\ v3'.step \in {"create", "open", "software"} => v5' = {}
                        /\ v3'.step \in {"open", "buffer", "mode"} => ~v4'.software
                        /\ v3'.step = "buffer" => v4'.fd /\ ~v4'.gem /\ ~v4'.fb
<1>1. /\ v4 \in Headless!Object /\ v5 = Named(v4) /\ (v4.gem \/ v4.fb => v4.fd)
      /\ (v3 = None /\ v6 = None) \/ v4.software => v5 = {}
      /\ v3 # None =>
           /\ v3 \in Headless!Opening /\ v6 = None
           /\ v3.step \in {"create", "open", "software"} => v5 = {}
           /\ v3.step \in {"open", "buffer", "mode"} => ~v4.software
           /\ v3.step = "buffer" => v4.fd /\ ~v4.gem /\ ~v4.fb
  BY DEF Headless!HeadlessInv, Headless!NoDrmLeak, Named
<1>2. Good => Headless!HeadlessInv'
  BY DEF Headless!HeadlessInv, Headless!NoDrmLeak, Named
<1>3. /\ c.kernel = {} /\ c.object \in Headless!Object /\ Named(c.object) = {}
      /\ ~c.object.fd /\ ~c.object.gem /\ ~c.object.fb
      /\ c.object.software = v4.software /\ c.object.mode = v4.mode
  BY <1>1, CleanupCloses
<1>4. /\ Headless!NoObject \in Headless!Object /\ Named(Headless!NoObject) = {}
      /\ ~Headless!NoObject.software /\ ~Headless!NoObject.fd /\ ~Headless!NoObject.gem /\ ~Headless!NoObject.fb
  BY DEF Headless!NoObject, Headless!Object, Named
<1>19. \A x \in Headless!Opening : x # None
  BY NoneAssumption DEF Headless!Opening, Headless!MemType
<1>5. ASSUME v3 # None, NEW s \in {"create", "open", "buffer", "mode", "software", "wrap"}
      PROVE  /\ [v3 EXCEPT !.step = s] \in Headless!Opening
             /\ [v3 EXCEPT !.step = s].step = s /\ [v3 EXCEPT !.step = s] # None
             /\ [v3 EXCEPT !.vram = FALSE, !.step = s] \in Headless!Opening
             /\ [v3 EXCEPT !.vram = FALSE, !.step = s].step = s
  <2>1. [v3 EXCEPT !.step = s] \in Headless!Opening /\ [v3 EXCEPT !.step = s].step = s
    BY <1>1, <1>5 DEF Headless!Opening
  <2>2. [v3 EXCEPT !.vram = FALSE, !.step = s] \in Headless!Opening
        /\ [v3 EXCEPT !.vram = FALSE, !.step = s].step = s
    BY <1>1, <1>5 DEF Headless!Opening
  <2> QED
    BY <2>1, <2>2, <1>19
<1> HIDE DEF c
<1>6. CASE UNCHANGED Headless!headlessVars
  BY <1>1, <1>2, <1>6 DEF Headless!headlessVars
<1>7. CASE Headless!Boot
  BY <1>1, <1>2, <1>7 DEF Headless!Boot
<1>8. ASSUME NEW mode \in Mode, NEW mem \in Headless!MemType, Headless!OpenDisplay(mode, mem)
      PROVE  Headless!HeadlessInv'
  <2>1. v3 = None /\ v6 = None /\ UNCHANGED <<v4, v5>>
    BY <1>8 DEF Headless!OpenDisplay
  <2>2. \/ v3' = None
        \/ v3' = [mode |-> mode, mem |-> mem, by |-> Headless!SourceFor(mem), step |-> "create",
                  vram |-> Headless!SourceFor(mem) = "kms" /\ mem # "system"]
           /\ Headless!SourceFor(mem) \in {"headless", "kms"}
    BY <1>8 DEF Headless!OpenDisplay, Headless!Virtual
  <2>3. v3' # None => v3' \in Headless!Opening /\ v3'.step = "create" /\ v6' = None
    <3>1. CASE v3' = None
      BY <3>1
    <3>2. CASE v3' # None
      <4>1. v6' = v6
        BY <1>8, <3>2, <2>1 DEF Headless!OpenDisplay
      <4> DEFINE b == Headless!SourceFor(mem) = "kms" /\ mem # "system"
      <4>2. b \in BOOLEAN
        OBVIOUS
      <4>3. v3' = [mode |-> mode, mem |-> mem, by |-> Headless!SourceFor(mem), step |-> "create", vram |-> b]
            /\ Headless!SourceFor(mem) \in {"headless", "kms"}
        BY <2>2, <3>2
      <4> HIDE DEF b
      <4> QED
        BY <2>1, <4>1, <4>2, <4>3 DEF Headless!Opening
    <3> QED
      BY <3>1, <3>2
  <2> QED
    BY <1>1, <1>2, <2>1, <2>3
<1>9. CASE Headless!Create
  <2>1. /\ v3 # None /\ v3.step = "create" /\ v4' = Headless!NoObject /\ v5' = v5 /\ v6' = v6
        /\ \/ v3' = [v3 EXCEPT !.step = "software"]
           \/ v3' = [v3 EXCEPT !.step = "open"]
    BY <1>9 DEF Headless!Create
  <2>2. v3' \in Headless!Opening /\ v3'.step \in {"software", "open"}
    BY <2>1, <1>5
  <2> QED
    BY <1>1, <1>2, <1>4, <2>1, <2>2
<1>10. CASE Headless!SetupOpen
  <2>1. v3 # None /\ v3.step = "open" /\ v6' = v6
    BY <1>10 DEF Headless!SetupOpen
  <2>2. v5 = {} /\ ~v4.software /\ Named(v4) = {}
    BY <1>1, <2>1
  <2>3. ~v4.fd /\ ~v4.gem /\ ~v4.fb
    BY <2>2 DEF Named
  <2> DEFINE o == [v4 EXCEPT !.fd = TRUE]
             d == Headless!Cleanup(o, {"fd"})
  <2>4. o \in Headless!Object /\ o.fd /\ ~o.gem /\ ~o.fb /\ ~o.software
    BY <1>1, <2>2, <2>3 DEF Headless!Object
  <2>5. Named(o) = {"fd"}
    BY <2>4 DEF Named
  <2>6. d.kernel = {} /\ d.object \in Headless!Object /\ Named(d.object) = {}
        /\ ~d.object.fd /\ ~d.object.gem /\ ~d.object.fb /\ ~d.object.software
    BY <2>4, <2>5, CleanupCloses
  <2>7. v5 \cup {"fd"} = {"fd"}
    BY <2>2
  <2>8. \/ UNCHANGED <<v4, v5>> /\ v3' = [v3 EXCEPT !.step = "software"]
        \/ v4' = o /\ v5' = {"fd"} /\ v3' = [v3 EXCEPT !.step = "buffer"]
        \/ v4' = d.object /\ v5' = d.kernel /\ v3' = [v3 EXCEPT !.step = "software"]
    BY <1>10, <2>7 DEF Headless!SetupOpen
  <2> HIDE DEF o, d
  <2>9. v3' # None => v3' \in Headless!Opening /\ v3'.step \in {"software", "buffer"} /\ v6' = None
    BY <1>1, <1>5, <2>1, <2>8
  <2>10. CASE v4' = v4 /\ v5' = v5 /\ v3' = [v3 EXCEPT !.step = "software"]
    BY <1>1, <1>2, <1>5, <2>1, <2>2, <2>9, <2>10
  <2>11. CASE v4' = o /\ v5' = {"fd"} /\ v3' = [v3 EXCEPT !.step = "buffer"]
    BY <1>2, <1>5, <2>1, <2>4, <2>5, <2>9, <2>11
  <2>12. CASE v4' = d.object /\ v5' = d.kernel /\ v3' = [v3 EXCEPT !.step = "software"]
    BY <1>2, <2>6, <2>9, <2>12
  <2> QED
    BY <2>8, <2>10, <2>11, <2>12
<1>11. CASE Headless!SetupBuffer
  <2>1. v3 # None /\ v3.step = "buffer" /\ v6' = v6
    BY <1>11 DEF Headless!SetupBuffer
  <2>2. ~v4.software /\ v4.fd /\ ~v4.gem /\ ~v4.fb
    BY <1>1, <2>1
  <2>3. v5 = {"fd"}
    BY <1>1, <2>2 DEF Named
  <2> DEFINE g(got) == "gem" \in got
             f(got) == "fb" \in got
             o(got) == [v4 EXCEPT !.gem = g(got), !.fb = f(got)]
             d(got) == Headless!Cleanup(o(got), v5 \cup got)
  <2>4. PICK got \in {{}, {"gem"}, {"gem", "fb"}} :
          IF got = {"gem", "fb"}
          THEN v4' = o(got) /\ v5' = v5 \cup got /\ v3' = [v3 EXCEPT !.step = "mode"]
          ELSE v4' = d(got).object /\ v5' = d(got).kernel /\ v3' = [v3 EXCEPT !.step = "software"]
    BY <1>11 DEF Headless!SetupBuffer
  <2>10. g(got) \in BOOLEAN /\ f(got) \in BOOLEAN
    OBVIOUS
  <2>11. (g(got) <=> "gem" \in got) /\ (f(got) <=> "fb" \in got)
    OBVIOUS
  <2> HIDE DEF g, f
  <2>5. /\ o(got) \in Headless!Object /\ o(got).fd /\ ~o(got).software
        /\ o(got).gem = g(got) /\ o(got).fb = f(got)
    BY <1>1, <2>2, <2>10 DEF Headless!Object
  <2> HIDE DEF o
  <2>6. Named(o(got)) = v5 \cup got
    <3>1. o(got)["fd"] = TRUE /\ o(got)["gem"] = g(got) /\ o(got)["fb"] = f(got)
      BY <2>5
    <3> QED
      BY <2>3, <2>4, <2>11, <3>1 DEF Named
  <2>7. /\ d(got).kernel = {} /\ d(got).object \in Headless!Object /\ Named(d(got).object) = {}
        /\ ~d(got).object.fd /\ ~d(got).object.gem /\ ~d(got).object.fb /\ ~d(got).object.software
    BY <2>5, <2>6, CleanupCloses, ZenonT(40)
  <2> HIDE DEF d
  <2>12. v6' = None /\ v3 # None
    BY <1>1, <2>1
  <2>8. CASE got = {"gem", "fb"}
    <3>1. v4' = o(got) /\ v5' = v5 \cup got /\ v3' = [v3 EXCEPT !.step = "mode"]
      BY <2>4, <2>8
    <3>2. v3' \in Headless!Opening /\ v3'.step = "mode"
      BY <1>5, <2>12, <3>1
    <3>3. v4' \in Headless!Object /\ v5' = Named(v4') /\ v4'.fd /\ ~v4'.software
      BY <2>5, <2>6, <3>1
    <3>4. v3' # None
      BY <1>19, <3>2
    <3>5. Good
      BY <2>12, <3>2, <3>3, <3>4
    <3> QED
      BY <1>2, <3>5
  <2>9. CASE got # {"gem", "fb"}
    <3>1. v4' = d(got).object /\ v5' = d(got).kernel /\ v3' = [v3 EXCEPT !.step = "software"]
      BY <2>4, <2>9
    <3>2. v3' \in Headless!Opening /\ v3'.step = "software"
      BY <1>5, <2>12, <3>1
    <3>3. /\ v4' \in Headless!Object /\ Named(v4') = {} /\ v5' = {}
          /\ ~v4'.fd /\ ~v4'.gem /\ ~v4'.fb /\ ~v4'.software
      BY <2>7, <3>1
    <3>4. v3' # None
      BY <1>19, <3>2
    <3>5. Good
      BY <2>12, <3>2, <3>3, <3>4
    <3> QED
      BY <1>2, <3>5
  <2> QED
    BY <2>8, <2>9
<1>12. CASE Headless!SetupMode
  <2>1. v3 # None /\ v3.step = "mode" /\ ~v4.software /\ v6' = v6
    BY <1>1, <1>12 DEF Headless!SetupMode
  <2>2. CASE v4' = [v4 EXCEPT !.valid = TRUE, !.mode = v3.mode] /\ v3' = [v3 EXCEPT !.step = "wrap"] /\ v5' = v5
    <3>1. v3.mode \in Mode
      BY <1>1, <2>1 DEF Headless!Opening
    <3>2. v4' \in Headless!Object /\ v4'.software = v4.software
          /\ v4'.fd = v4.fd /\ v4'.gem = v4.gem /\ v4'.fb = v4.fb
      BY <1>1, <2>2, <3>1 DEF Headless!Object
    <3>3. Named(v4') = Named(v4)
      BY <3>2 DEF Named
    <3> QED
      BY <1>1, <1>2, <1>5, <2>1, <2>2, <3>2, <3>3
  <2>3. CASE v4' = c.object /\ v5' = c.kernel /\ v3' = [v3 EXCEPT !.step = "software"]
    BY <1>1, <1>2, <1>3, <1>5, <2>1, <2>3
  <2> QED
    BY <1>12, <2>2, <2>3 DEF Headless!SetupMode, c
<1>13. CASE Headless!SetupSoftware
  <2>1. /\ v3 # None /\ v3.step = "software" /\ v5' = v5 /\ v6' = v6 /\ v3' = [v3 EXCEPT !.step = "wrap"]
        /\ v4' = [v4 EXCEPT !.valid = TRUE, !.software = TRUE, !.mode = v3.mode]
    BY <1>13 DEF Headless!SetupSoftware
  <2>2. v3.mode \in Mode /\ v5 = {}
    BY <1>1, <2>1 DEF Headless!Opening
  <2>3. v4' \in Headless!Object /\ v4'.fd = v4.fd /\ v4'.gem = v4.gem /\ v4'.fb = v4.fb
    BY <1>1, <2>1, <2>2 DEF Headless!Object
  <2>4. Named(v4') = Named(v4)
    BY <2>3 DEF Named
  <2> QED
    BY <1>1, <1>2, <1>5, <2>1, <2>2, <2>3, <2>4
<1>14. ASSUME NEW kind \in {"blank", "kms"}, NEW card \in BOOLEAN, Headless!Show(kind, card), v3 # None
       PROVE  Headless!HeadlessInv'
  <2>1. /\ v6' = [kind |-> kind, mem |-> v3.mem, card |-> card, mode |-> v4.mode]
        /\ v3' = None /\ UNCHANGED <<v4, v5>>
    BY <1>14 DEF Headless!Show
  <2>2. v3.mem \in {"system", "vaapi", "cuda", "vulkan"} /\ v4.mode \in Mode \cup {None}
    BY <1>1, <1>14 DEF Headless!Opening, Headless!Object, Headless!MemType
  <2>3. v6' \in [kind : {"blank", "kms", "other"}, mem : {"system", "vaapi", "cuda", "vulkan"},
                 card : BOOLEAN, mode : Mode \cup {None}]
    BY <2>1, <2>2
  <2>4. v6' # None
    BY <2>3, NoneAssumption
  <2> QED
    BY <1>1, <1>2, <2>1, <2>4
<1>15. ASSUME Headless!Refuse PROVE Headless!HeadlessInv'
  <2>1. v3' = None /\ v4' = Headless!NoObject /\ v5' = c.kernel
    BY <1>15 DEF Headless!Refuse, c
  <2> QED
    BY <1>2, <1>3, <1>4, <2>1
<1>16. CASE Headless!WrapHeadless
  BY <1>14, <1>15, <1>16 DEF Headless!WrapHeadless
<1>17. CASE Headless!WrapKms
  <2>1. v3 # None
    BY <1>17 DEF Headless!WrapKms
  <2>2. PICK cardOk \in BOOLEAN :
          LET card == ~v4.software /\ cardOk
          IN \/ Headless!Show("kms", card)
             \/ v6' = v6 /\ v3' = [v3 EXCEPT !.vram = FALSE, !.step = "create"] /\ v4' = c.object /\ v5' = c.kernel
             \/ Headless!Refuse
    BY <1>17, Zenon DEF Headless!WrapKms, c
  <2>3. CASE Headless!Show("kms", ~v4.software /\ cardOk)
    BY <1>14, <2>1, <2>3
  <2>4. CASE v6' = v6 /\ v3' = [v3 EXCEPT !.vram = FALSE, !.step = "create"] /\ v4' = c.object /\ v5' = c.kernel
    BY <1>1, <1>2, <1>3, <1>5, <2>1, <2>4
  <2> QED
    BY <2>2, <2>3, <2>4, <1>15
<1>18. CASE Headless!CloseDisplay
  <2>1. v6' = None /\ v4' = Headless!NoObject /\ v5' = c.kernel /\ v3' = v3 /\ v3 = None
    BY <1>1, <1>18 DEF Headless!CloseDisplay, c
  <2> QED
    BY <1>1, <1>2, <1>3, <1>4, <2>1
<1> QED
  BY <1>6, <1>7, <1>8, <1>9, <1>10, <1>11, <1>12, <1>13, <1>16, <1>17, <1>18 DEF Headless!Next

(***************************************************************************)
(* The frames of wlr-screencopy (wayland.cpp).                             *)
(***************************************************************************)

LEMMA WaylandStarts == Wayland!Init => Wayland!WaylandInv
<1> SUFFICES ASSUME Wayland!Init PROVE Wayland!WaylandInv
  OBVIOUS
<1> USE NoneAssumption, BoundAssumption
    DEF Wayland!Init, Wayland!NoFrame, Wayland!Request, Wayland!Outstanding, Wayland!Next1, Wayland!Fd
<1>1. Wayland!FrameType
  BY DEF Wayland!FrameType, Wayland!Stages
<1>2. Wayland!DescriptorsOwned /\ Wayland!DeliveredIsFilled
  BY DEF Wayland!DescriptorsOwned, Wayland!DeliveredIsFilled
<1>3. Wayland!FrameIsHeld
  BY DEF Wayland!FrameIsHeld
<1>4. Wayland!OneHolder
  BY DEF Wayland!OneHolder
<1> QED
  BY <1>1, <1>2, <1>3, <1>4 DEF Wayland!WaylandInv

LEMMA WaylandTypeStep ==
  Wayland!FrameType /\ [Wayland!Next]_(Wayland!waylandVars) => Wayland!FrameType'
<1> SUFFICES ASSUME Wayland!FrameType, [Wayland!Next]_(Wayland!waylandVars) PROVE Wayland!FrameType'
  OBVIOUS
<1> USE BoundAssumption DEF Wayland!FrameType, Wayland!Stages, Wayland!Request, Wayland!Next1,
        Wayland!Close, Wayland!Closed, Wayland!Fd, Wayland!Display
<1>1. CASE UNCHANGED Wayland!waylandVars
  BY <1>1 DEF Wayland!waylandVars
<1>2. CASE Wayland!Listen
  BY <1>2 DEF Wayland!Listen
<1>3. CASE Wayland!SnapshotTimeout \/ Wayland!Dispatched \/ Wayland!RamSnapshot
  BY <1>3 DEF Wayland!SnapshotTimeout, Wayland!Dispatched, Wayland!RamSnapshot
<1>4. CASE Wayland!Destroy
  <2>1. v4' = [q \in 1..MaxRequest |-> IF q <= v3 THEN "gone" ELSE "none"] /\ v3' = v3 /\ v9' = "READY"
    BY <1>4 DEF Wayland!Destroy
  <2>2. v7' = [i \in {0, 1} |-> [fd |-> None, dim |-> None]] /\ v12' = [i \in PoolImage |-> None]
        /\ v8' = 0 /\ v5' = None
    BY <1>4 DEF Wayland!Destroy, Wayland!NoFrame
  <2>3. v10' \subseteq v10
    BY <1>4 DEF Wayland!Destroy
  <2>4. v7' \in [{0, 1} -> [fd : 1..MaxRequest \cup {None}, dim : Dim \cup {None}]]
    BY <2>2
  <2>5. \A q \in 1..MaxRequest : q > v3 => v4'[q] = "none"
    BY <2>1
  <2>6. v4' \in [1..MaxRequest -> {"none", "asked", "formats", "params", "copying", "gone"}]
    BY <2>1
  <2> QED
    BY <2>1, <2>2, <2>3, <2>4, <2>5, <2>6
<1>5. ASSUME NEW w, NEW h, NEW m, NEW d, Wayland!InitDisplay(w, h, m, d) PROVE Wayland!FrameType'
  BY <1>5 DEF Wayland!InitDisplay
<1>6. ASSUME NEW i \in PoolImage, Wayland!VramSnapshot(i) PROVE Wayland!FrameType'
  BY <1>6 DEF Wayland!VramSnapshot
<1>7. ASSUME NEW r \in Wayland!Request, NEW dim \in Dim \cup {None}, Wayland!Format(r, dim)
      PROVE  Wayland!FrameType'
  BY <1>7 DEF Wayland!Format
<1>8. ASSUME NEW r \in Wayland!Request, Wayland!BufferDone(r) PROVE Wayland!FrameType'
  <2>1. /\ v4[r] = "formats" /\ UNCHANGED <<v3, v5, v8, v12>>
        /\ v4' \in {[v4 EXCEPT ![r] = "params"], [v4 EXCEPT ![r] = "gone"]}
    BY <1>8 DEF Wayland!BufferDone
  <2>8. v9' \in {v9, "REINIT"}
    BY <1>8 DEF Wayland!BufferDone
  <2>2. r \in 1..v3 /\ r \in 1..MaxRequest
    BY <2>1
  <2>3. v10' \subseteq v10 \cup {r}
    BY <1>8 DEF Wayland!BufferDone
  <2>4. \/ v7' = [v7 EXCEPT ![1 - v8] = [fd |-> r, dim |-> v5]]
        \/ v7' = v7 \/ v7' = [v7 EXCEPT ![1 - v8].dim = v5]
    BY <1>8 DEF Wayland!BufferDone
  <2>5. v7' \in [{0, 1} -> [fd : 1..MaxRequest \cup {None}, dim : Dim \cup {None}]]
    BY <2>2, <2>4
  <2>6. v4' \in [1..MaxRequest -> {"none", "asked", "formats", "params", "copying", "gone"}]
    BY <2>1
  <2>7. \A q \in 1..MaxRequest : q > v3 => v4'[q] = "none"
    BY <2>1, <2>2
  <2> QED
    BY <2>1, <2>2, <2>3, <2>5, <2>6, <2>7, <2>8
<1>9. ASSUME NEW r \in Wayland!Request, Wayland!ParamsAnswered(r) PROVE Wayland!FrameType'
  BY <1>9 DEF Wayland!ParamsAnswered
<1>10. ASSUME NEW r \in Wayland!Request, Wayland!Ready(r) PROVE Wayland!FrameType'
  <2>1. /\ v4[r] = "copying" /\ UNCHANGED <<v3, v5, v12>> /\ v8' = 1 - v8
        /\ v4' = [v4 EXCEPT ![r] = "gone"] /\ v10' \subseteq v10 /\ v9' = "READY"
        /\ v7' = [v7 EXCEPT ![v8] = [@ EXCEPT !.fd = None]]
    BY <1>10 DEF Wayland!Ready
  <2>2. v7' \in [{0, 1} -> [fd : 1..MaxRequest \cup {None}, dim : Dim \cup {None}]]
    BY <2>1
  <2>3. v4' \in [1..MaxRequest -> {"none", "asked", "formats", "params", "copying", "gone"}]
    BY <2>1
  <2>4. \A q \in 1..MaxRequest : q > v3 => v4'[q] = "none"
    BY <2>1
  <2> QED
    BY <2>1, <2>2, <2>3, <2>4
<1>11. ASSUME NEW r \in Wayland!Request, Wayland!FrameFailed(r) PROVE Wayland!FrameType'
  <2>1. /\ v4[r] # "none" /\ UNCHANGED <<v3, v5, v8, v12>> /\ v9' = "REINIT"
        /\ v4' = [v4 EXCEPT ![r] = "gone"] /\ v10' \subseteq v10
        /\ v7' = [v7 EXCEPT ![1 - v8] = [@ EXCEPT !.fd = None]]
    BY <1>11 DEF Wayland!FrameFailed
  <2>5. 1 - v8 \in {0, 1} /\ [v7[1 - v8] EXCEPT !.fd = None] \in [fd : 1..MaxRequest \cup {None}, dim : Dim \cup {None}]
    OBVIOUS
  <2>2. v7' \in [{0, 1} -> [fd : 1..MaxRequest \cup {None}, dim : Dim \cup {None}]]
    BY <2>1, <2>5
  <2>3. v4' \in [1..MaxRequest -> {"none", "asked", "formats", "params", "copying", "gone"}]
    BY <2>1
  <2>4. \A q \in 1..MaxRequest : q > v3 => v4'[q] = "none"
    BY <2>1
  <2> QED
    BY <2>1, <2>2, <2>3, <2>4
<1> QED
  BY <1>1, <1>2, <1>3, <1>4, <1>5, <1>6, <1>7, <1>8, <1>9, <1>10, <1>11 DEF Wayland!Next

\* A descriptor is open when a frame or an image holds it, and two of them never
\* hold the same one.
Held(fds, c, n, img) ==
  /\ \A x : x \in fds <=> x # None /\ (x = c \/ x = n \/ \E i \in PoolImage : x = img[i])
  /\ c # None => c # n
  /\ \A i \in PoolImage : img[i] # None => img[i] # c /\ img[i] # n
  /\ \A i, j \in PoolImage : i # j /\ img[i] # None => img[i] # img[j]

\* The invariant of frames that did not overlap, in terms of the two descriptors.
WaylandMain ==
  LET c == v7[v8].fd
      n == v7[1 - v8].fd
      out == {r \in Wayland!Request : v4[r] \notin {"none", "gone"}}
  IN ~v14 =>
          /\ v13 = "got" => v7[v8].dim = v1
          /\ ~v15 /\ Held(v10, c, n, v12) /\ out \subseteq {v3}
          /\ \A r \in out : v4[r] \in {"params", "copying"} => n = r
          /\ \A r \in out : v4[r] \in {"asked", "formats"} => n = None /\ r \notin v10
          /\ out = {} /\ v9 # "REINIT" => n = None
          /\ v13 \in {"top", "got", "idle"} => v9 # "REINIT"
          /\ (v13 \in {"got", "idle"} \/ v9 = "REINIT") => out = {}
          /\ v13 \in {"dispatch", "got"} /\ v9 # "WAITING" => out = {}
          /\ v13 \in {"dispatch", "got"} /\ v9 = "READY" => c \in v10 \cap v11
          /\ v13 = "got" => v9 = "READY"

LEMMA WaylandForm == Wayland!FrameType => (WaylandMain <=> Wayland!WaylandInv)
<1> SUFFICES ASSUME Wayland!FrameType PROVE WaylandMain <=> Wayland!WaylandInv
  OBVIOUS
<1> DEFINE c == v7[v8].fd
           n == v7[1 - v8].fd
<1>1. v8 \in {0, 1} /\ v8 \in Int
  BY DEF Wayland!FrameType
<1>2. Held(v10, c, n, v12) <=>
        /\ v10 = Wayland!Fd(v7[0]) \cup Wayland!Fd(v7[1]) \cup ({v12[i] : i \in PoolImage} \ {None})
        /\ \A i \in PoolImage : v12[i] # None => v12[i] \notin Wayland!Fd(v7[0]) \cup Wayland!Fd(v7[1])
        /\ Wayland!OneHolder
  <2>1. CASE v8 = 0
    BY <2>1 DEF Held, Wayland!OneHolder, Wayland!Fd
  <2>2. CASE v8 = 1
    BY <2>2 DEF Held, Wayland!OneHolder, Wayland!Fd
  <2> QED
    BY <1>1, <2>1, <2>2
<1> DEFINE Owns == Held(v10, c, n, v12)
<1>3. Wayland!DescriptorsOwned <=> (~v14 =>
        /\ ~v15
        /\ v10 = Wayland!Fd(v7[0]) \cup Wayland!Fd(v7[1]) \cup ({v12[i] : i \in PoolImage} \ {None})
        /\ \A i \in PoolImage : v12[i] # None => v12[i] \notin Wayland!Fd(v7[0]) \cup Wayland!Fd(v7[1]))
  BY DEF Wayland!DescriptorsOwned
<1>4. WaylandMain <=>
        (~v14 => ~v15 /\ Owns /\ Wayland!FrameIsHeld /\ (v13 = "got" => v7[v8].dim = v1))
  BY DEF WaylandMain, Wayland!FrameIsHeld, Wayland!Outstanding, Wayland!Next1
<1>5. Wayland!FrameIsHeld /\ v13 = "got" => v7[v8].fd \in v10 \cap v11
  BY DEF Wayland!FrameIsHeld
<1>6. CASE v14
  BY <1>3, <1>4, <1>6 DEF Wayland!WaylandInv, Wayland!DeliveredIsFilled
<1>7. CASE ~v14
  <2>1. WaylandMain <=> ~v15 /\ Owns /\ Wayland!FrameIsHeld /\ (v13 = "got" => v7[v8].dim = v1)
    BY <1>4, <1>7
  <2>2. Wayland!WaylandInv <=>
          /\ ~v15 /\ Owns /\ Wayland!FrameIsHeld
          /\ v13 = "got" => v7[v8].fd \in v10 \cap v11 /\ v7[v8].dim = v1
    BY <1>2, <1>3, <1>7 DEF Wayland!WaylandInv, Wayland!DeliveredIsFilled
  <2> HIDE DEF Owns
  <2> QED
    BY <2>1, <2>2, <1>5
<1> QED
  BY <1>6, <1>7

LEMMA WaylandMainStep ==
  Wayland!FrameType /\ WaylandMain /\ [Wayland!Next]_(Wayland!waylandVars) => WaylandMain'
<1> SUFFICES ASSUME Wayland!FrameType, WaylandMain, [Wayland!Next]_(Wayland!waylandVars),
                    ~v14'
             PROVE  WaylandMain'
  BY DEF WaylandMain
<1> DEFINE c == v7[v8].fd
           n == v7[1 - v8].fd
           out == {r \in Wayland!Request : v4[r] \notin {"none", "gone"}}
           Goal(c2, n2, out2) ==
             /\ v13' = "got" => v7'[v8'].dim = v1'
             /\ ~v15' /\ Held(v10', c2, n2, v12') /\ out2 \subseteq {v3'}
             /\ \A r \in out2 : v4'[r] \in {"params", "copying"} => n2 = r
             /\ \A r \in out2 : v4'[r] \in {"asked", "formats"} => n2 = None /\ r \notin v10'
             /\ out2 = {} /\ v9' # "REINIT" => n2 = None
             /\ v13' \in {"top", "got", "idle"} => v9' # "REINIT"
             /\ (v13' \in {"got", "idle"} \/ v9' = "REINIT") => out2 = {}
             /\ v13' \in {"dispatch", "got"} /\ v9' # "WAITING" => out2 = {}
             /\ v13' \in {"dispatch", "got"} /\ v9' = "READY" => c2 \in v10' \cap v11'
             /\ v13' = "got" => v9' = "READY"
<1>1. Goal(c', n', out') => WaylandMain'
  BY DEF WaylandMain
<1>2. /\ v3 \in 0..MaxRequest /\ v4 \in [Wayland!Request -> Wayland!Stages] /\ v8 \in {0, 1} /\ 1 - v8 \in {0, 1}
      /\ 1 - v8 # v8 /\ 1 - (1 - v8) = v8
      /\ v7 \in [{0, 1} -> [fd : Wayland!Request \cup {None}, dim : Dim \cup {None}]]
      /\ v12 \in [PoolImage -> Wayland!Request \cup {None}] /\ v10 \subseteq 1..v3
      /\ \A r \in Wayland!Request : r > v3 => v4[r] = "none"
      /\ c \in Wayland!Request \cup {None} /\ n \in Wayland!Request \cup {None}
      /\ None \notin Wayland!Request /\ v9 \in {"READY", "WAITING", "REINIT"}
  BY NoneAssumption DEF Wayland!FrameType, Wayland!Request
<1>3. ASSUME ~v14
      PROVE  /\ v13 = "got" => v7[v8].dim = v1
             /\ ~v15 /\ Held(v10, c, n, v12) /\ out \subseteq {v3}
             /\ \A r \in out : v4[r] \in {"params", "copying"} => n = r
             /\ \A r \in out : v4[r] \in {"asked", "formats"} => n = None /\ r \notin v10
             /\ out = {} /\ v9 # "REINIT" => n = None
             /\ v13 \in {"top", "got", "idle"} => v9 # "REINIT"
             /\ (v13 \in {"got", "idle"} \/ v9 = "REINIT") => out = {}
             /\ v13 \in {"dispatch", "got"} /\ v9 # "WAITING" => out = {}
             /\ v13 \in {"dispatch", "got"} /\ v9 = "READY" => c \in v10 \cap v11
             /\ v13 = "got" => v9 = "READY"
  BY <1>3 DEF WaylandMain
\* What a closed descriptor leaves behind.
<1>4. ASSUME NEW fds, Wayland!Close(fds), fds \subseteq v10, ~v15 PROVE v10' = v10 \ fds /\ ~v15'
  BY <1>4, Zenon DEF Wayland!Close
<1>5. ASSUME NEW r \in out, out \subseteq {v3}, v4' = [v4 EXCEPT ![r] = "gone"] PROVE out' = {}
  BY <1>2, <1>5 DEF Wayland!Stages
<1>6. ASSUME NEW r \in out, out \subseteq {v3}, NEW s \in {"formats", "params", "copying"}, v4' = [v4 EXCEPT ![r] = s]
      PROVE  out' = {r} /\ v4'[r] = s /\ r = v3
  BY <1>2, <1>6 DEF Wayland!Stages
<1>7. CASE UNCHANGED Wayland!waylandVars
  BY <1>7 DEF Wayland!waylandVars, WaylandMain, Held
<1> HIDE DEF c, n, out
<1>8. CASE Wayland!Listen
  <2>1. /\ v13 = "top" /\ v3 < MaxRequest /\ v3' = v3 + 1 /\ v4' = [v4 EXCEPT ![v3 + 1] = "asked"]
        /\ v9' = "WAITING" /\ v13' = "dispatch" /\ UNCHANGED <<v7, v8, v10, v11, v12>>
    BY <1>8 DEF Wayland!Listen
  <2>2. v15' <=> v15
    BY <1>8, Zenon DEF Wayland!Listen
  <2>3. v14' <=> (v14 \/ out # {})
    BY <1>8, Zenon DEF Wayland!Listen, Wayland!Outstanding, out
  <2>4. ~v14 /\ out = {} /\ n = None
    BY <1>3, <2>1, <2>3
  <2>5. c' = c /\ n' = n
    BY <2>1 DEF c, n
  <2>6. v3 + 1 \in Wayland!Request /\ v3 + 1 \notin v10
    BY <1>2, <2>1, BoundAssumption DEF Wayland!Request
  <2>7. out' = {v3 + 1} /\ v4'[v3 + 1] = "asked"
    BY <1>2, <2>1, <2>4, <2>6 DEF out
  <2>8. Held(v10', c', n', v12')
    BY <1>3, <2>1, <2>4, <2>5
  <2> QED
    BY <1>1, <1>3, <2>1, <2>2, <2>4, <2>5, <2>6, <2>7, <2>8
<1> DEFINE Same == UNCHANGED <<v3, v4, v7, v8, v9, v10, v11, v12>>
<1>9. ASSUME ~v14, Same PROVE c' = c /\ n' = n /\ out' = out /\ Held(v10', c', n', v12')
  <2>1. c' = c /\ n' = n /\ out' = out
    BY <1>9 DEF c, n, out
  <2> QED
    BY <1>3, <1>9, <2>1
<1>10. CASE Wayland!SnapshotTimeout
  <2>1. /\ Same /\ v1' = v1 /\ v13' \in {"top", "ended"} /\ v13 = "dispatch" /\ v9 = "WAITING"
    BY <1>10 DEF Wayland!SnapshotTimeout, Wayland!Display
  <2>2. (v15' <=> v15) /\ ~v14
    BY <1>10, Zenon DEF Wayland!SnapshotTimeout
  <2> QED
    BY <1>1, <1>3, <1>9, <2>1, <2>2
<1>11. CASE Wayland!Dispatched
  <2>1. /\ Same /\ v1' = v1 /\ v13 = "dispatch" /\ v9 # "WAITING"
        /\ v13' = IF v9 = "REINIT" \/ v7[v8].dim # v1 THEN "ended" ELSE "got"
    BY <1>11 DEF Wayland!Dispatched, Wayland!Display
  <2>2. (v15' <=> v15) /\ ~v14
    BY <1>11, Zenon DEF Wayland!Dispatched
  <2>3. v13' = "got" => v9 = "READY" /\ v7'[v8'].dim = v1'
    BY <1>2, <2>1
  <2>4. c' = c /\ n' = n /\ out' = out /\ Held(v10', c', n', v12')
    BY <1>9, <2>1, <2>2
  <2>5. v13' \in {"got", "ended"}
    BY <2>1
  <2> QED
    BY <1>1, <1>3, <2>1, <2>2, <2>3, <2>4, <2>5
<1>12. CASE Wayland!RamSnapshot
  <2>1. /\ Same /\ v1' = v1 /\ v13' \in {"top", "ended"} /\ v13 = "got"
    BY <1>12 DEF Wayland!RamSnapshot, Wayland!Display
  <2>2. (v15' <=> v15) /\ ~v14
    BY <1>12, Zenon DEF Wayland!RamSnapshot
  <2>3. out = {} /\ v9 = "READY" /\ n = None /\ ~v15
    BY <1>3, <2>1, <2>2
  <2>4. c' = c /\ n' = n /\ out' = out /\ Held(v10', c', n', v12')
    BY <1>9, <2>1, <2>2
  <2>5. out' = {} /\ n' = None /\ ~v15' /\ v9' = "READY" /\ Held(v10', c', n', v12')
    BY <2>1, <2>2, <2>3, <2>4
  <2>6. v13' # "got" /\ v13' # "idle" /\ v13' # "dispatch"
    BY <2>1
  <2> QED
    BY <1>1, <2>5, <2>6
<1>13. ASSUME NEW w, NEW h, NEW m, NEW d, Wayland!InitDisplay(w, h, m, d) PROVE WaylandMain'
  <2>1. /\ UNCHANGED <<v3, v4, v7, v8, v10, v11, v12>> /\ v13 = "idle" /\ v13' = "top" /\ v9' = "READY"
    BY <1>13 DEF Wayland!InitDisplay
  <2>2. (v15' <=> v15) /\ ~v14
    BY <1>13, Zenon DEF Wayland!InitDisplay
  <2>3. c' = c /\ n' = n /\ out' = out
    BY <2>1 DEF c, n, out
  <2>4. Held(v10', c', n', v12')
    BY <1>3, <2>1, <2>2, <2>3
  <2> QED
    BY <1>1, <1>3, <2>1, <2>2, <2>3, <2>4

<1>14. ASSUME NEW i \in PoolImage, Wayland!VramSnapshot(i) PROVE WaylandMain'
  <2>1. /\ UNCHANGED <<v1, v3, v4, v8, v9, v11>> /\ v13 = "got" /\ v13' \in {"top", "ended"}
        /\ v12' = [v12 EXCEPT ![i] = v7[v8].fd] /\ v7' = [v7 EXCEPT ![v8] = [@ EXCEPT !.fd = None]]
        /\ Wayland!Close({v12[i]} \ {None})
    BY <1>14 DEF Wayland!VramSnapshot, Wayland!Display, Wayland!Closed
  <2>2. ~v14
    BY <1>14, Zenon DEF Wayland!VramSnapshot
  <2>3. {v12[i]} \ {None} \subseteq v10
    BY <1>3, <2>2 DEF Held
  <2>4. v10' = v10 \ ({v12[i]} \ {None}) /\ ~v15'
    BY <1>3, <1>4, <2>1, <2>2, <2>3
  <2>5. c' = None /\ n' = n /\ out' = out
    BY <1>2, <2>1 DEF c, n, out
  <2>6. v12'[i] = c /\ \A j \in PoolImage \ {i} : v12'[j] = v12[j]
    BY <1>2, <2>1 DEF c
  <2>7. Held(v10', None, n, v12')
    <3>1. c # None
      BY <1>3, <2>1, <2>2 DEF Held
    <3>2. Held(v10, c, n, v12)
      BY <1>3, <2>2
    <3>3. \A x : x \in v10' <=> x # None /\ (x = None \/ x = n \/ \E j \in PoolImage : x = v12'[j])
      <4> SUFFICES ASSUME NEW x
                   PROVE  x \in v10' <=> x # None /\ (x = n \/ \E j \in PoolImage : x = v12'[j])
        OBVIOUS
      <4>1. x \in v10' <=> x \in v10 /\ (x # v12[i] \/ x = None)
        BY <2>4
      <4>2. x \in v10 <=> x # None /\ (x = c \/ x = n \/ \E j \in PoolImage : x = v12[j])
        BY <3>2 DEF Held
      <4>3. (\E j \in PoolImage : x = v12'[j]) <=> (x = c \/ \E j \in PoolImage \ {i} : x = v12[j])
        BY <2>6
      <4>4. (\E j \in PoolImage : x = v12[j]) <=> (x = v12[i] \/ \E j \in PoolImage \ {i} : x = v12[j])
        OBVIOUS
      <4>5. x # None /\ x = v12[i] => x # c /\ x # n /\ \A j \in PoolImage \ {i} : x # v12[j]
        BY <3>2 DEF Held
      <4> QED
        BY <4>1, <4>2, <4>3, <4>4, <4>5
    <3>4. \A j \in PoolImage : v12'[j] # None => v12'[j] # n
      BY <2>6, <3>1, <3>2 DEF Held
    <3>5. \A j, k \in PoolImage : j # k /\ v12'[j] # None => v12'[j] # v12'[k]
      BY <2>6, <3>1, <3>2 DEF Held
    <3> QED
      BY <3>3, <3>4, <3>5 DEF Held
  <2> QED
    BY <1>1, <1>3, <2>1, <2>2, <2>4, <2>5, <2>7
<1>15. CASE Wayland!Destroy
  <2>1. /\ v13 = "ended" /\ v13' = "idle" /\ UNCHANGED v3 /\ v9' = "READY" /\ v8' = 0
        /\ v7' = [i \in {0, 1} |-> [fd |-> None, dim |-> None]] /\ v12' = [i \in PoolImage |-> None]
        /\ v4' = [r \in Wayland!Request |-> IF r <= v3 THEN "gone" ELSE "none"]
        /\ Wayland!Close(Wayland!Fd(v7[0]) \cup Wayland!Fd(v7[1]) \cup ({v12[i] : i \in PoolImage} \ {None}))
    BY <1>15 DEF Wayland!Destroy, Wayland!NoFrame
  <2>2. ~v14
    BY <1>15, Zenon DEF Wayland!Destroy
  <2>3. v10 = Wayland!Fd(v7[0]) \cup Wayland!Fd(v7[1]) \cup ({v12[i] : i \in PoolImage} \ {None})
    <3>1. CASE v8 = 0
      BY <1>3, <2>2, <3>1 DEF Held, Wayland!Fd, c, n
    <3>2. CASE v8 = 1
      BY <1>3, <2>2, <3>2 DEF Held, Wayland!Fd, c, n
    <3> QED
      BY <1>2, <3>1, <3>2
  <2>4. v10' = {} /\ ~v15'
    BY <1>3, <1>4, <2>1, <2>2, <2>3
  <2>5. c' = None /\ n' = None /\ out' = {}
    BY <2>1 DEF c, n, out
  <2>6. Held(v10', None, None, v12')
    BY <2>1, <2>4 DEF Held
  <2> QED
    BY <1>1, <2>1, <2>4, <2>5, <2>6
<1>16. ASSUME NEW r \in Wayland!Request, NEW dim \in Dim \cup {None}, Wayland!Format(r, dim)
       PROVE  WaylandMain'
  <2>1. /\ UNCHANGED <<v1, v3, v7, v8, v9, v10, v11, v12, v13>> /\ v13 = "dispatch" /\ v4[r] = "asked"
        /\ v4' = [v4 EXCEPT ![r] = "formats"]
    BY <1>16 DEF Wayland!Format, Wayland!Display, Wayland!Dispatching
  <2>2. (v15' <=> v15) /\ ~v14
    BY <1>16, Zenon DEF Wayland!Format
  <2>3. r \in out
    BY <2>1 DEF out
  <2>4. c' = c /\ n' = n /\ out' = {r} /\ r = v3 /\ v4'[r] = "formats"
    <3>1. out' = {r} /\ r = v3 /\ v4'[r] = "formats"
      BY <1>3, <1>6, <2>1, <2>2, <2>3
    <3> QED
      BY <3>1, <2>1 DEF c, n
  <2>5. Held(v10', c', n', v12')
    BY <1>3, <2>1, <2>2, <2>4
  <2> QED
    BY <1>1, <1>3, <2>1, <2>2, <2>3, <2>4, <2>5
<1>17. ASSUME NEW r \in Wayland!Request, Wayland!BufferDone(r) PROVE WaylandMain'
  <2>1. UNCHANGED <<v1, v3, v8, v11, v12, v13>> /\ v13 = "dispatch" /\ v4[r] = "formats"
    BY <1>17 DEF Wayland!BufferDone, Wayland!Display, Wayland!Dispatching
  <2>2. (v15' <=> v15) /\ ~v14
    BY <1>17, Zenon DEF Wayland!BufferDone
  <2>3. r \in out /\ n = None /\ r \notin v10 /\ Held(v10, c, n, v12) /\ out \subseteq {v3}
    BY <1>3, <2>1, <2>2 DEF out
  <2>4. CASE /\ v10' = v10 \cup {r} /\ v7' = [v7 EXCEPT ![1 - v8] = [fd |-> r, dim |-> v5]]
             /\ v4' = [v4 EXCEPT ![r] = "params"] /\ v9' = v9
    <3>1. out' = {r} /\ r = v3 /\ v4'[r] = "params"
      BY <1>6, <2>3, <2>4
    <3>2. c' = c /\ n' = r
      BY <1>2, <2>1, <2>4 DEF c, n
    <3>3. Held(v10 \cup {r}, c, r, v12)
      BY <1>2, <2>3 DEF Held
    <3> QED
      BY <1>1, <1>3, <2>1, <2>2, <2>3, <2>4, <3>1, <3>2, <3>3
  <2>5. CASE /\ v10' = v10 /\ v7' \in {v7, [v7 EXCEPT ![1 - v8].dim = v5]}
             /\ v4' = [v4 EXCEPT ![r] = "gone"] /\ v9' = "REINIT"
    <3>1. out' = {}
      BY <1>5, <2>3, <2>5
    <3>2. c' = c /\ n' = n
      BY <1>2, <2>1, <2>5 DEF c, n
    <3> QED
      BY <1>1, <1>3, <2>1, <2>2, <2>3, <2>5, <3>1, <3>2
  <2> QED
    BY <1>17, <2>4, <2>5 DEF Wayland!BufferDone, Wayland!Next1
<1>18. ASSUME NEW r \in Wayland!Request, Wayland!ParamsAnswered(r) PROVE WaylandMain'
  <2>1. /\ UNCHANGED <<v1, v3, v7, v8, v10, v11, v12, v13>> /\ v13 = "dispatch" /\ v4[r] = "params"
        /\ \/ v4' = [v4 EXCEPT ![r] = "copying"] /\ v9' = v9
           \/ v4' = [v4 EXCEPT ![r] = "gone"] /\ v9' = "REINIT"
    BY <1>18 DEF Wayland!ParamsAnswered, Wayland!Display, Wayland!Dispatching
  <2>2. (v15' <=> v15) /\ ~v14
    BY <1>18, Zenon DEF Wayland!ParamsAnswered
  <2>3. r \in out /\ n = r /\ Held(v10, c, n, v12) /\ out \subseteq {v3}
    BY <1>3, <2>1, <2>2 DEF out
  <2>4. c' = c /\ n' = n
    BY <2>1 DEF c, n
  <2>5. Held(v10', c', n', v12')
    BY <2>1, <2>3, <2>4
  <2>6. CASE v4' = [v4 EXCEPT ![r] = "copying"] /\ v9' = v9
    <3>1. out' = {r} /\ r = v3 /\ v4'[r] = "copying"
      BY <1>6, <2>3, <2>6
    <3> QED
      BY <1>1, <1>3, <2>1, <2>2, <2>3, <2>4, <2>5, <2>6, <3>1
  <2>7. CASE v4' = [v4 EXCEPT ![r] = "gone"] /\ v9' = "REINIT"
    <3>1. out' = {}
      BY <1>5, <2>3, <2>7
    <3> QED
      BY <1>1, <1>3, <2>1, <2>2, <2>3, <2>4, <2>5, <2>7, <3>1
  <2> QED
    BY <2>1, <2>6, <2>7
<1>19. ASSUME NEW r \in Wayland!Request, Wayland!Ready(r) PROVE WaylandMain'
  <2>1. /\ UNCHANGED <<v1, v3, v12, v13>> /\ v13 = "dispatch" /\ v4[r] = "copying" /\ v8' = 1 - v8
        /\ v9' = "READY" /\ v11' = v11 \cup {r} /\ v4' = [v4 EXCEPT ![r] = "gone"]
        /\ v7' = [v7 EXCEPT ![v8] = [@ EXCEPT !.fd = None]] /\ Wayland!Close({c} \ {None})
    BY <1>19 DEF Wayland!Ready, Wayland!Display, Wayland!Dispatching, Wayland!Next1, Wayland!Closed, Wayland!Fd, c
  <2>2. ~v14
    BY <1>19, Zenon DEF Wayland!Ready
  <2>3. r \in out /\ n = r /\ Held(v10, c, n, v12) /\ out \subseteq {v3} /\ ~v15
    BY <1>3, <2>1, <2>2 DEF out
  <2>4. v10' = v10 \ ({c} \ {None}) /\ ~v15'
    <3>1. {c} \ {None} \subseteq v10
      BY <2>3 DEF Held
    <3> QED
      BY <1>4, <2>1, <2>3, <3>1
  <2>5. out' = {}
    BY <1>5, <2>1, <2>3
  <2>6. c' = r /\ n' = None
    BY <1>2, <2>1, <2>3 DEF c, n
  <2>7. Held(v10', r, None, v12) /\ r \in v10'
    BY <1>2, <2>3, <2>4 DEF Held
  <2> QED
    BY <1>1, <2>1, <2>4, <2>5, <2>6, <2>7
<1>20. ASSUME NEW r \in Wayland!Request, Wayland!FrameFailed(r) PROVE WaylandMain'
  <2>1. /\ UNCHANGED <<v1, v3, v8, v11, v12, v13>> /\ v13 = "dispatch" /\ v9' = "REINIT"
        /\ v4[r] \in {"asked", "formats", "params", "copying"} /\ v4' = [v4 EXCEPT ![r] = "gone"]
        /\ v7' = [v7 EXCEPT ![1 - v8] = [@ EXCEPT !.fd = None]] /\ Wayland!Close({n} \ {None})
    BY <1>20 DEF Wayland!FrameFailed, Wayland!Display, Wayland!Dispatching, Wayland!Next1, Wayland!Closed,
       Wayland!Fd, n
  <2>2. ~v14
    BY <1>20, Zenon DEF Wayland!FrameFailed
  <2>3. r \in out /\ Held(v10, c, n, v12) /\ out \subseteq {v3} /\ ~v15
    BY <1>3, <2>1, <2>2 DEF out
  <2>4. v10' = v10 \ ({n} \ {None}) /\ ~v15'
    <3>1. {n} \ {None} \subseteq v10
      BY <2>3 DEF Held
    <3> QED
      BY <1>4, <2>1, <2>3, <3>1
  <2>5. out' = {}
    BY <1>5, <2>1, <2>3
  <2>6. c' = c /\ n' = None
    BY <1>2, <2>1 DEF c, n
  <2>7. Held(v10', c, None, v12)
    BY <1>2, <2>3, <2>4 DEF Held
  <2> QED
    BY <1>1, <2>1, <2>4, <2>5, <2>6, <2>7
<1> QED
  BY <1>7, <1>8, <1>10, <1>11, <1>12, <1>13, <1>14, <1>15, <1>16, <1>17, <1>18, <1>19, <1>20
     DEF Wayland!Next

LEMMA WaylandStep == Wayland!WaylandInv /\ [Wayland!Next]_(Wayland!waylandVars) => Wayland!WaylandInv'
<1> SUFFICES ASSUME Wayland!WaylandInv, [Wayland!Next]_(Wayland!waylandVars) PROVE Wayland!WaylandInv'
  OBVIOUS
<1>1. Wayland!FrameType /\ WaylandMain
  BY WaylandForm DEF Wayland!WaylandInv
<1>2. Wayland!FrameType' /\ WaylandMain'
  BY <1>1, WaylandTypeStep, WaylandMainStep
<1>3. (Wayland!FrameType => (WaylandMain <=> Wayland!WaylandInv))'
  BY WaylandForm, PTL
<1> QED
  BY <1>2, <1>3

(***************************************************************************)
(* The portal session and its descriptors (portalgrab.cpp).                *)
(***************************************************************************)

\* The kernel hands out a descriptor that is free.
LEMMA LowestIsFree ==
  ASSUME NEW S, IsFiniteSet(S), S \subseteq Nat
  PROVE  Portal!Lowest(S) \in Nat \ S
<1> DEFINE k == Cardinality(S)
           Free == (0..k) \ S
<1>1. k \in Nat
  BY FS_CardinalityType
<1>2. Free # {}
  <2> SUFFICES ASSUME 0..k \subseteq S PROVE FALSE
    OBVIOUS
  <2>1. Cardinality(0..k) <= k
    BY FS_Subset
  <2>2. Cardinality(0..k) = k - 0 + 1
    BY <1>1, FS_Interval
  <2> HIDE DEF k
  <2> QED
    BY <1>1, <2>1, <2>2
<1> HIDE DEF k
<1>3. Free \subseteq Nat
  BY <1>1
<1>4. PICK n \in Free : \A m \in Free : <<m, n>> \notin OpToRel(<, Nat)
  BY <1>2, <1>3, NatLessThanWellFounded, WFMin
<1>5. \A m \in Free : ~(m < n)
  BY <1>3, <1>4 DEF OpToRel
<1>6. n \in 0..k /\ n \notin S /\ \A m \in 0..(n - 1) : m \in S
  BY <1>1, <1>5
<1>7. Portal!Lowest(S) = CHOOSE x \in 0..k : x \notin S /\ \A m \in 0..(x - 1) : m \in S
  BY DEF Portal!Lowest, Portal!Cardinality, Cardinality, k
<1>8. Portal!Lowest(S) \in 0..k /\ Portal!Lowest(S) \notin S
  BY <1>6, <1>7
<1> QED
  BY <1>1, <1>8

LEMMA PortalStarts == Portal!SessionInit => Portal!PortalInv
<1> SUFFICES ASSUME Portal!SessionInit PROVE Portal!PortalInv
  OBVIOUS
<1>1. IsFiniteSet({0})
  BY FS_Singleton
<1>2. v6 = {0}
  BY DEF Portal!SessionInit
<1>3. Portal!IsFiniteSet(v6)
  BY <1>1, <1>2 DEF Portal!IsFiniteSet, IsFiniteSet
<1> QED
  BY <1>3 DEF Portal!SessionInit, Portal!PortalInv

LEMMA PortalStep == Portal!PortalInv /\ [Portal!SessionNext]_(Portal!portalVars) => Portal!PortalInv'
<1> SUFFICES ASSUME Portal!PortalInv, [Portal!SessionNext]_(Portal!portalVars) PROVE Portal!PortalInv'
  OBVIOUS
<1> DEFINE States == {"none", "starting", "failed", "open"}
<1>1. /\ Portal!IsFiniteSet(v6) /\ v6 \subseteq Nat
      /\ v7 # None => v7 \in Recorder /\ v10[v7] = "starting"
      /\ v10 \in [Recorder -> States] /\ v11 \in [Recorder -> Nat] /\ v5 \in Nat \cup {None}
      /\ \A d \in Recorder : v11[d] # 0 => v10[d] = "open" /\ v11[d] \in v6 /\ v11[d] # v5
      /\ \A d, e \in Recorder : d # e /\ v11[d] # 0 => v11[d] # v11[e]
      /\ v6 \subseteq {0, v5} \cup {v11[d] : d \in Recorder}
      /\ v5 # None /\ v5 # 0 => v5 \in v6
      /\ v4 <=> v5 # None
      /\ v4 => v7 = None /\ \E d \in Recorder : v10[d] = "open"
      /\ v1 \subseteq v12 \cup (IF v4 \/ (v7 # None /\ v8 \in {"select", "start"}) THEN {v3} ELSE {})
  BY DEF Portal!PortalInv
<1>2. None \notin Nat /\ None \notin Recorder
  BY NoneAssumption
<1> DEFINE Fds == /\ Portal!IsFiniteSet(v6') /\ v6' \subseteq Nat
                  /\ v11' \in [Recorder -> Nat] /\ v5' \in Nat \cup {None}
                  /\ \A d \in Recorder : v11'[d] # 0 => v10'[d] = "open" /\ v11'[d] \in v6' /\ v11'[d] # v5'
                  /\ \A d, e \in Recorder : d # e /\ v11'[d] # 0 => v11'[d] # v11'[e]
                  /\ v6' \subseteq {0, v5'} \cup {v11'[d] : d \in Recorder}
                  /\ v5' # None /\ v5' # 0 => v5' \in v6'
                  /\ v4' <=> v5' # None
           Sessions == /\ v7' # None => v7' \in Recorder /\ v10'[v7'] = "starting"
                       /\ v10' \in [Recorder -> States]
                       /\ v4' => v7' = None /\ \E d \in Recorder : v10'[d] = "open"
                       /\ v1' \subseteq v12' \cup (IF v4' \/ (v7' # None /\ v8' \in {"select", "start"})
                                                  THEN {v3'} ELSE {})
<1>3. Fds /\ Sessions => Portal!PortalInv'
  BY DEF Portal!PortalInv, Portal!IsFiniteSet
<1>4. IsFiniteSet(v6)
  BY <1>1 DEF Portal!IsFiniteSet, IsFiniteSet
<1>5. ASSUME NEW S, IsFiniteSet(S) PROVE Portal!IsFiniteSet(S)
  BY <1>5 DEF Portal!IsFiniteSet, IsFiniteSet
\* The descriptors stay as they are, and no display that has one changes.
<1>6. ASSUME v6' = v6, v11' = v11, v5' = v5, v4' <=> v4, \A d \in Recorder : v10[d] = "open" => v10'[d] = "open"
      PROVE  Fds
  BY <1>1, <1>6
<1>7. CASE UNCHANGED Portal!portalVars
  BY <1>7 DEF Portal!portalVars, Portal!PortalInv, Portal!IsFiniteSet
<1>8. ASSUME NEW d \in Recorder, Portal!GetCached(d) PROVE Portal!PortalInv'
  <2> DEFINE f == Portal!FreshFd
  <2>1. /\ v10[d] = "none" /\ v7 = None /\ v4 /\ v11' = [v11 EXCEPT ![d] = f] /\ v6' = v6 \cup {f}
        /\ v10' = [v10 EXCEPT ![d] = "open"] /\ UNCHANGED <<v1, v3, v5, v7, v8, v12>>
    BY <1>8 DEF Portal!GetCached, Portal!TakeDup
  <2>2. v4' <=> v4
    BY <1>8, Zenon DEF Portal!GetCached
  <2>3. f \in Nat \ v6
    BY <1>1, <1>4, LowestIsFree DEF Portal!FreshFd
  <2> HIDE DEF f
  <2>4. IsFiniteSet(v6')
    BY <1>4, <2>1, FS_AddElement
  <2>5. v11'[d] = f /\ \A e \in Recorder \ {d} : v11'[e] = v11[e] /\ v10'[e] = v10[e]
    BY <1>1, <2>1
  <2>6. v6' \subseteq {0, v5'} \cup {v11'[e] : e \in Recorder}
    <3> SUFFICES ASSUME NEW x \in v6', x # 0, x # v5, x # f PROVE \E e \in Recorder : x = v11'[e]
      BY <2>1, <2>5
    <3>1. PICK e \in Recorder : x = v11[e]
      BY <1>1, <2>1
    <3>2. e # d
      BY <1>1, <2>1, <3>1
    <3> QED
      BY <2>5, <3>1, <3>2
  <2>7. \A e \in Recorder : v11'[e] # 0 => v10'[e] = "open" /\ v11'[e] \in v6' /\ v11'[e] # v5'
    BY <1>1, <1>2, <2>1, <2>3, <2>5
  <2>8. \A e, g \in Recorder : e # g /\ v11'[e] # 0 => v11'[e] # v11'[g]
    BY <1>1, <2>1, <2>3, <2>5
  <2>9. Fds
    BY <1>1, <1>5, <2>1, <2>2, <2>3, <2>4, <2>6, <2>7, <2>8
  <2>10. Sessions
    BY <1>1, <2>1, <2>2, <2>5
  <2> QED
    BY <1>3, <2>9, <2>10
<1>9. ASSUME NEW d \in Recorder, Portal!CreateDbus(d) PROVE Portal!PortalInv'
  <2>1. /\ v10[d] = "none" /\ v7 = None /\ ~v4 /\ v1' = v1 \ {v3} /\ v3' = None
        /\ \/ v7' = d /\ v10' = [v10 EXCEPT ![d] = "starting"] /\ v8' = "session"
           \/ v7' = None /\ v10' = [v10 EXCEPT ![d] = "failed"]
        /\ UNCHANGED <<v5, v6, v11, v12>>
    BY <1>9 DEF Portal!CreateDbus, Portal!Finish
  <2>2. v4' <=> v4
    BY <1>9, Zenon DEF Portal!CreateDbus
  <2>3. Fds
    BY <1>1, <1>6, <2>1, <2>2
  <2>4. Sessions
    BY <1>1, <2>1, <2>2
  <2> QED
    BY <1>3, <2>3, <2>4
<1>10. CASE Portal!CreatePortalSession
  <2>1. /\ v7 # None /\ v8 = "session" /\ UNCHANGED <<v5, v6, v11, v12>>
        /\ \/ /\ v3' = v2 + 1 /\ v1' = v1 \cup {v2 + 1} /\ v8' = "select" /\ UNCHANGED <<v7, v10>>
           \/ UNCHANGED <<v1, v3, v8, v7, v10>>
           \/ v7' = None /\ v10' = [v10 EXCEPT ![v7] = "failed"] /\ v1' \subseteq v1
    BY <1>10 DEF Portal!CreatePortalSession, Portal!ConnectFails, Portal!Finish
  <2>2. v4' <=> v4
    BY <1>10, Zenon DEF Portal!CreatePortalSession
  <2>3. Fds
    BY <1>1, <1>6, <2>1, <2>2
  <2>4. Sessions
    BY <1>1, <2>1, <2>2
  <2> QED
    BY <1>3, <2>3, <2>4
<1>11. CASE Portal!SelectSources
  <2>1. /\ v7 # None /\ v8 = "select" /\ UNCHANGED <<v3, v5, v6, v11>>
        /\ \/ v8' = "start" /\ UNCHANGED <<v1, v7, v10, v12>>
           \/ v8' = "session" /\ v12' = v12 \cup {v3} /\ UNCHANGED <<v1, v7, v10>>
           \/ v7' = None /\ v10' = [v10 EXCEPT ![v7] = "failed"] /\ v1' = v1 \ {v3} /\ v12' = v12
    BY <1>11 DEF Portal!SelectSources, Portal!Finish
  <2>2. v4' <=> v4
    BY <1>11, Zenon DEF Portal!SelectSources
  <2>3. Fds
    BY <1>1, <1>6, <2>1, <2>2
  <2>4. Sessions
    BY <1>1, <2>1, <2>2
  <2> QED
    BY <1>3, <2>3, <2>4
<1>12. CASE Portal!StartSession
  <2> DEFINE k == Portal!FreshFd
             f == Portal!Lowest(v6 \cup {k})
  <2>1. v7 # None /\ v8 = "start" /\ UNCHANGED <<v3, v12>> /\ v7' = None /\ v7 \in Recorder /\ ~v4 /\ v5 = None
    BY <1>1, <1>12 DEF Portal!StartSession, Portal!Finish
  <2>2. CASE v1' = v1 \ {v3} /\ v10' = [v10 EXCEPT ![v7] = "failed"] /\ (v4' <=> v4) /\ UNCHANGED <<v5, v6, v11>>
    <3>1. Fds
      BY <1>1, <1>6, <2>1, <2>2
    <3>2. Sessions
      BY <1>1, <2>1, <2>2
    <3> QED
      BY <1>3, <3>1, <3>2
  <2>3. CASE /\ v4' /\ v5' = k /\ v6' = v6 \cup {k, f} /\ v11' = [v11 EXCEPT ![v7] = f]
             /\ v10' = [v10 EXCEPT ![v7] = "open"] /\ v1' = v1
    <3>1. k \in Nat \ v6
      BY <1>1, <1>4, LowestIsFree DEF Portal!FreshFd
    <3> HIDE DEF k
    <3>2. IsFiniteSet(v6 \cup {k}) /\ v6 \cup {k} \subseteq Nat
      BY <1>1, <1>4, <3>1, FS_AddElement
    <3>3. f \in Nat \ (v6 \cup {k})
      BY <3>2, LowestIsFree
    <3> HIDE DEF f
    <3>4. v6' = (v6 \cup {k}) \cup {f}
      BY <2>3
    <3>5. IsFiniteSet(v6')
      BY <3>2, <3>4, FS_AddElement
    <3>6. v11'[v7] = f /\ \A e \in Recorder \ {v7} : v11'[e] = v11[e] /\ v10'[e] = v10[e]
      BY <1>1, <2>1, <2>3
    <3>7. v11[v7] = 0
      BY <1>1, <2>1
    <3>8. v6' \subseteq {0, v5'} \cup {v11'[e] : e \in Recorder}
      <4> SUFFICES ASSUME NEW x \in v6', x # 0, x # k, x # f PROVE \E e \in Recorder : x = v11'[e]
        BY <2>1, <2>3, <3>6
      <4>1. x \in v6 /\ x # None
        BY <1>1, <1>2, <3>4
      <4>2. PICK e \in Recorder : x = v11[e]
        BY <1>1, <2>1, <4>1
      <4> QED
        BY <3>6, <3>7, <4>2
    <3>9. \A e \in Recorder : v11'[e] # 0 => v10'[e] = "open" /\ v11'[e] \in v6' /\ v11'[e] # v5'
      BY <1>1, <2>1, <2>3, <3>1, <3>3, <3>6
    <3>10. \A e, g \in Recorder : e # g /\ v11'[e] # 0 => v11'[e] # v11'[g]
      BY <1>1, <2>1, <3>3, <3>6, <3>9
    <3>11. Fds
      BY <1>1, <1>2, <1>5, <2>1, <2>3, <3>1, <3>3, <3>5, <3>8, <3>9, <3>10
    <3>12. Sessions
      BY <1>1, <2>1, <2>3
    <3> QED
      BY <1>3, <3>11, <3>12
  <2> QED
    BY <1>12, <2>2, <2>3 DEF Portal!StartSession, Portal!Finish
<1>13. ASSUME NEW d \in Recorder, Portal!Destroy(d) PROVE Portal!PortalInv'
  <2>1. /\ v7 = None /\ v7' = None /\ v10' = [v10 EXCEPT ![d] = "none"] /\ v11' = [v11 EXCEPT ![d] = 0]
        /\ v6' = v6 \ ({v11[d]} \cup (IF v4 THEN {v5} ELSE {})) /\ v5' = (IF v4 THEN None ELSE v5)
        /\ v1' = (IF v4 THEN v1 \ {v3} ELSE v1) /\ ~v4' /\ v12' = v12
    BY <1>13 DEF Portal!Destroy, Portal!Invalidate
  <2>2. v5' = None
    BY <1>1, <2>1
  <2>3. IsFiniteSet(v6')
    <3>1. v6' \subseteq v6
      BY <2>1
    <3> QED
      BY <1>4, <3>1, FS_Subset
  <2>4. v11'[d] = 0 /\ \A e \in Recorder \ {d} : v11'[e] = v11[e] /\ v10'[e] = v10[e]
    BY <1>1, <2>1
  <2>5. \A x \in v6' : x \in v6 /\ x # v11[d] /\ x # v5
    BY <1>1, <1>2, <2>1
  <2>6. v6' \subseteq {0, v5'} \cup {v11'[e] : e \in Recorder}
    <3> SUFFICES ASSUME NEW x \in v6', x # 0 PROVE \E e \in Recorder : x = v11'[e]
      OBVIOUS
    <3>1. PICK e \in Recorder : x = v11[e]
      BY <1>1, <2>5
    <3> QED
      BY <2>4, <2>5, <3>1
  <2>7. \A e \in Recorder : v11'[e] # 0 => v10'[e] = "open" /\ v11'[e] \in v6' /\ v11'[e] # v5'
    BY <1>1, <1>2, <2>1, <2>2, <2>4
  <2>8. \A e, g \in Recorder : e # g /\ v11'[e] # 0 => v11'[e] # v11'[g]
    BY <1>1, <2>4
  <2>9. Fds
    BY <1>1, <1>5, <2>1, <2>2, <2>3, <2>5, <2>6, <2>7, <2>8
  <2>10. Sessions
    BY <1>1, <2>1
  <2> QED
    BY <1>3, <2>9, <2>10
<1> QED
  BY <1>7, <1>8, <1>9, <1>10, <1>11, <1>12, <1>13 DEF Portal!SessionNext

LEMMA PortalHolds == Portal!PortalInv => Portal!OwnDescriptor /\ Portal!ClosedWhenUnused
<1> SUFFICES ASSUME Portal!PortalInv PROVE Portal!OwnDescriptor /\ Portal!ClosedWhenUnused
  OBVIOUS
<1>1. Portal!OwnDescriptor
  BY DEF Portal!PortalInv, Portal!OwnDescriptor
<1>2. Portal!ClosedWhenUnused
  <2> SUFFICES ASSUME v7 = None, \A d \in Recorder : v10[d] = "none" PROVE v1 \subseteq v12 /\ v6 \subseteq {0}
    BY DEF Portal!ClosedWhenUnused
  <2>1. ~v4
    BY DEF Portal!PortalInv
  <2>2. v5 = None
    BY <2>1 DEF Portal!PortalInv
  <2>3. \A d \in Recorder : v11[d] = 0
    BY DEF Portal!PortalInv
  <2>4. v6 \subseteq {0}
    BY <2>2, <2>3, NoneAssumption DEF Portal!PortalInv
  <2> QED
    BY <2>1, <2>4 DEF Portal!PortalInv
<1> QED
  BY <1>1, <1>2

(***************************************************************************)
(* The frames of Windows.Graphics.Capture (display_wgc.cpp).               *)
(***************************************************************************)

LEMMA WgcStarts == Dxgi!WgcInit => Dxgi!WgcInv
BY NoneAssumption DEF Dxgi!WgcInit, Dxgi!WgcInv, Dxgi!FramesAreHeld

LEMMA WgcStep == Dxgi!WgcInv /\ [Dxgi!WgcNext]_(Dxgi!wgcVars) => Dxgi!WgcInv'
<1> SUFFICES ASSUME Dxgi!WgcInv, [Dxgi!WgcNext]_(Dxgi!wgcVars) PROVE Dxgi!WgcInv'
  OBVIOUS
<1>1. None \notin Int
  BY NoneAssumption
<1>2. /\ v1 \in Nat /\ v8 \in 0..v1 /\ v2 \in {v1, None}
      /\ {v4, v5, v6} \subseteq 1..v1 \cup {None}
      /\ v2 # None => {v4, v5, v6, v8} \subseteq 0..(v2 - 1) \cup {None}
      /\ v4 # None => {v5, v6, v8} \subseteq 0..(v4 - 1) \cup {None}
      /\ v5 # None => v8 < v5
      /\ v6 # None => v6 <= v8
      /\ v7 = "sleep" => v6 = None
      /\ v3 = {v4, v5, v6} \ {None}
      /\ v4 # None => v4 \notin {v5, v6}
      /\ v5 # None => v5 # v6
  BY DEF Dxgi!WgcInv, Dxgi!FramesAreHeld
<1> USE DEF Dxgi!WgcInv, Dxgi!FramesAreHeld
<1>3. CASE UNCHANGED Dxgi!wgcVars
  BY <1>3 DEF Dxgi!wgcVars
<1>4. CASE Dxgi!Draw
  <2>1. v2 = None /\ v1' = v1 + 1 /\ v2' = v1 + 1 /\ UNCHANGED <<v3, v4, v5, v6, v7, v8>>
    BY <1>4 DEF Dxgi!Draw
  <2> QED
    BY <1>1, <1>2, <2>1
<1>5. ASSUME NEW b \in BOOLEAN, Dxgi!TryGetNextFrame(b) PROVE Dxgi!WgcInv'
  <2>1. /\ v4 = None /\ v2 # None /\ UNCHANGED <<v1, v5, v6, v7, v8>>
        /\ \/ v4' = v2 /\ v2' = None /\ v3' = v3 \cup {v2}
           \/ UNCHANGED <<v2, v3, v4>>
    BY <1>5 DEF Dxgi!TryGetNextFrame
  <2> QED
    BY <1>1, <1>2, <2>1
<1>6. CASE Dxgi!OnFrameArrived
  <2>1. v4 # None /\ v5' = v4 /\ v4' = None /\ v3' = v3 \ {v5} /\ UNCHANGED <<v1, v2, v6, v7, v8>>
    BY <1>6 DEF Dxgi!OnFrameArrived
  <2> QED
    BY <1>1, <1>2, <2>1
<1>7. CASE Dxgi!NextFrame
  <2>1. /\ v3' = v3 \ {v6} /\ UNCHANGED <<v1, v2, v4>>
        /\ \/ v5 # None /\ v6' = v5 /\ v5' = None /\ v7' = "use" /\ v8' = v5
           \/ v6' = None /\ v7' = "sleep" /\ UNCHANGED <<v5, v8>>
    BY <1>7 DEF Dxgi!NextFrame, Dxgi!Consume
  <2> QED
    BY <1>1, <1>2, <2>1
<1>8. CASE Dxgi!NextFrameWakes
  <2>1. /\ v7 = "sleep" /\ UNCHANGED <<v1, v2, v3, v4>>
        /\ \/ v5 # None /\ v6' = v5 /\ v5' = None /\ v7' = "use" /\ v8' = v5
           \/ v7' = "out" /\ UNCHANGED <<v5, v6, v8>>
    BY <1>8 DEF Dxgi!NextFrameWakes, Dxgi!Consume
  <2> QED
    BY <1>1, <1>2, <2>1
<1>9. ASSUME NEW b \in BOOLEAN, Dxgi!ReleaseSnapshot(b) PROVE Dxgi!WgcInv'
  <2>1. /\ v7' = "out" /\ UNCHANGED <<v1, v2, v4, v5, v8>>
        /\ \/ v3' = v3 \ {v6} /\ v6' = None
           \/ UNCHANGED <<v3, v6>>
    BY <1>9 DEF Dxgi!ReleaseSnapshot
  <2> QED
    BY <1>1, <1>2, <2>1
<1> QED
  BY <1>3, <1>4, <1>5, <1>6, <1>7, <1>8, <1>9 DEF Dxgi!WgcNext

LEMMA WgcHolds == Dxgi!WgcInv => Dxgi!FramesAreHeld /\ Dxgi!NewestIsUsed
BY NoneAssumption DEF Dxgi!WgcInv, Dxgi!NewestIsUsed

(***************************************************************************)
(* The pacing of frames (display_base.cpp, capture).                       *)
(***************************************************************************)

LEMMA PaceStarts == Dxgi!PaceInit => Dxgi!PaceInv
BY NoneAssumption DEF Dxgi!PaceInit, Dxgi!PaceInv, Dxgi!NoBurst

\* What is appended to a sequence, to one of two, and what is left of one of three.
LEMMA Appended ==
  ASSUME NEW s \in Seq(Nat), NEW x \in Nat
  PROVE  /\ Append(s, x) \in Seq(Nat) /\ Len(Append(s, x)) = Len(s) + 1
         /\ \A i \in 1..Len(s) : Append(s, x)[i] = s[i]
         /\ Append(s, x)[Len(s) + 1] = x
OBVIOUS

LEMMA AppendToTwo ==
  ASSUME NEW s \in Seq(Nat), Len(s) = 2, NEW x \in Nat
  PROVE  /\ Append(s, x) \in Seq(Nat) /\ Len(Append(s, x)) = 3
         /\ Append(s, x)[1] = s[1] /\ Append(s, x)[2] = s[2] /\ Append(s, x)[3] = x
<1>1. /\ Append(s, x) \in Seq(Nat) /\ Len(Append(s, x)) = Len(s) + 1
      /\ \A i \in 1..Len(s) : Append(s, x)[i] = s[i]
      /\ Append(s, x)[Len(s) + 1] = x
  BY Appended, Zenon
<1>2. 1 \in 1..2 /\ 2 \in 1..2 /\ Len(s) + 1 = 3
  OBVIOUS
<1> QED
  BY <1>1, <1>2, Zenon

LEMMA TailOfThree ==
  ASSUME NEW s \in Seq(Nat), Len(s) = 3
  PROVE  Tail(s) \in Seq(Nat) /\ Len(Tail(s)) = 2 /\ Tail(s)[1] = s[2] /\ Tail(s)[2] = s[3]
<1>1. Len(<<>>) = 0 /\ Len(s) # 0 /\ Len(s) - 1 = 2
  OBVIOUS
<1>2. s # <<>>
  BY <1>1, Zenon
<1>3. /\ Tail(s) \in Seq(Nat) /\ Len(Tail(s)) = Len(s) - 1
      /\ \A i \in 1..Len(Tail(s)) : Tail(s)[i] = s[i + 1]
  BY <1>2, HeadTailProperties, Zenon
<1>4. 1 \in 1..2 /\ 2 \in 1..2 /\ 1 + 1 = 2 /\ 2 + 1 = 3
  OBVIOUS
<1>5. Tail(s)[1] = s[1 + 1] /\ Tail(s)[2] = s[2 + 1]
  BY <1>1, <1>3, <1>4, Zenon
<1> QED
  BY <1>1, <1>3, <1>4, <1>5, Zenon

\* A frame taken: the times of the last ones move up.
LEMMA TakeMoves ==
  ASSUME NEW now \in Nat, NEW s \in Seq(Nat), Len(s) <= 3,
         NEW t, t = Append(IF Len(s) = 3 THEN Tail(s) ELSE s, now)
  PROVE  /\ t \in Seq(Nat) /\ Len(t) \in 1..3 /\ t[Len(t)] = now /\ t # <<>>
         /\ Len(t) > 1 <=> s # <<>>
         /\ Len(t) > 1 => t[Len(t) - 1] = s[Len(s)]
         /\ Len(t) = 3 => Len(s) > 1 /\ t[1] = s[Len(s) - 1] /\ t[3] = now
<1>1. Len(s) \in Nat /\ (s = <<>> <=> Len(s) = 0)
  OBVIOUS
<1>a. \A q \in Seq(Nat) : q = <<>> => Len(q) = 0
  OBVIOUS
<1>b. \A q \in Seq(Nat) : Len(q) \in 1..3 => q # <<>>
  <2>1. 0 \notin 1..3
    OBVIOUS
  <2> QED
    BY <1>a, <2>1, Zenon
<1> DEFINE n == Len(s)
<1>2. CASE n = 3
  <2>1. t = Append(Tail(s), now)
    BY <1>2
  <2>2. t \in Seq(Nat) /\ Len(t) = 3 /\ t[1] = s[2] /\ t[2] = s[3] /\ t[3] = now
    <3>1. Tail(s) \in Seq(Nat) /\ Len(Tail(s)) = 2 /\ Tail(s)[1] = s[2] /\ Tail(s)[2] = s[3]
      BY <1>2, TailOfThree, Zenon
    <3>2. /\ Append(Tail(s), now) \in Seq(Nat) /\ Len(Append(Tail(s), now)) = 3
          /\ Append(Tail(s), now)[1] = Tail(s)[1] /\ Append(Tail(s), now)[2] = Tail(s)[2]
          /\ Append(Tail(s), now)[3] = now
      BY <3>1, AppendToTwo, Zenon
    <3> QED
      BY <2>1, <3>1, <3>2, Zenon
  <2>3. s # <<>>
    BY <1>1, <1>2
  <2>4. Len(t) - 1 = 2 /\ n - 1 = 2
    BY <1>2, <2>2
  <2>5. t[Len(t) - 1] = s[n] /\ t[1] = s[n - 1] /\ t[Len(t)] = now
    BY <1>2, <2>2, <2>4, Zenon
  <2>6. 3 \in 1..3 /\ 3 > 1
    OBVIOUS
  <2>7. Len(t) \in 1..3 /\ Len(t) > 1 /\ n > 1
    BY <1>2, <2>2, <2>6, Zenon
  <2> QED
    BY <2>2, <2>3, <2>5, <2>7, <1>b, Zenon
<1>3. CASE n # 3
  <2>1. t = Append(s, now)
    BY <1>3
  <2>2. t \in Seq(Nat) /\ Len(t) = n + 1 /\ t[n + 1] = now /\ \A i \in 1..n : t[i] = s[i]
    BY <2>1
  <2>3. n \in Nat /\ n <= 3 /\ n # 3
    BY <1>1, <1>3
  <2> HIDE DEF n
  <2>4. n = 0 \/ n = 1 \/ n = 2
    BY <2>3
  <2>5. n > 0 => t[n] = s[n]
    BY <2>2, <2>3
  <2>6. n = 2 => t[1] = s[1]
    BY <2>2
  <2>7. Len(t) - 1 = n
    BY <2>2, <2>3
  <2> DEFINE m == Len(t)
  <2>8. m = n + 1 /\ t[m] = now /\ (n = 2 => t[3] = now /\ t[1] = s[n - 1]) /\ (m > 1 => t[m - 1] = s[n])
    BY <2>2, <2>3, <2>5, <2>6, <2>7
  <2> HIDE DEF m
  <2>9. m \in 1..3 /\ (m > 1 <=> n # 0) /\ (m = 3 <=> n = 2) /\ (n = 2 => n > 1)
    BY <2>4, <2>8
  <2>10. s # <<>> <=> n # 0
    BY <1>1, Zenon DEF n
  <2> QED
    BY <2>2, <2>8, <2>9, <2>10, <1>b, Zenon DEF m, n
<1> QED
  BY <1>2, <1>3, Zenon

LEMMA PaceStep == Dxgi!PaceInv /\ [Dxgi!PaceNext]_(Dxgi!paceVars) => Dxgi!PaceInv'
<1> SUFFICES ASSUME Dxgi!PaceInv, [Dxgi!PaceNext]_(Dxgi!paceVars) PROVE Dxgi!PaceInv'
  OBVIOUS
<1> DEFINE last == v6[Len(v6)]
           before == v6[Len(v6) - 1]
           target == v3 + v4 * Interval
<1>1. None \notin Int /\ Interval \in Nat
  BY NoneAssumption, BoundAssumption
<1>2. /\ v1 \in Nat /\ v6 \in Seq(Nat) /\ Len(v6) <= 3 /\ v4 \in Nat
      /\ v6 # <<>> => last <= v1
      /\ Len(v6) > 1 => before <= last
      /\ v2 # None => v2 \in 0..v1 /\ (v6 # <<>> => last <= v2)
      /\ v3 # None => v3 \in Nat /\ v6 # <<>> /\ v4 > 0 /\ (Len(v6) > 1 => before <= v3 + (v4 - 1) * Interval)
      /\ v5 = "sleep" => v3 # None /\ last <= target
      /\ v5 = "wait" => v3 = None
      /\ v3 = None /\ Len(v6) > 1 => before + Interval <= v1
      /\ Len(v6) = 3 => v6[3] - v6[1] >= Interval
  BY DEF Dxgi!PaceInv, Dxgi!Latest, Dxgi!Before, Dxgi!Target, Dxgi!NoBurst
<1>3. /\ v6 # <<>> => last \in Nat
      /\ Len(v6) > 1 => before \in Nat /\ v6 # <<>>
      /\ v6 = <<>> => Len(v6) = 0
      /\ Len(v6) \in Nat
  BY <1>2
<1>4. v3 # None => target \in Nat /\ v3 + (v4 - 1) * Interval = target - Interval
  BY <1>1, <1>2
<1> DEFINE Goal(l, b, t, u) ==
             /\ v1' \in Nat /\ v6' \in Seq(Nat) /\ Len(v6') <= 3 /\ v4' \in Nat
             /\ v6' # <<>> => l <= v1'
             /\ Len(v6') > 1 => b <= l
             /\ v2' # None => v2' \in 0..v1' /\ (v6' # <<>> => l <= v2')
             /\ v3' # None => v3' \in Nat /\ v6' # <<>> /\ v4' > 0 /\ (Len(v6') > 1 => b <= u)
             /\ v5' = "sleep" => v3' # None /\ l <= t
             /\ v5' = "wait" => v3' = None
             /\ v3' = None /\ Len(v6') > 1 => b + Interval <= v1'
             /\ Len(v6') = 3 => v6'[3] - v6'[1] >= Interval
<1>5. Goal(last', before', target', (v3 + (v4 - 1) * Interval)') => Dxgi!PaceInv'
  BY DEF Dxgi!PaceInv, Dxgi!Latest, Dxgi!Before, Dxgi!Target, Dxgi!NoBurst
\* The times stay as they are.
<1>6. ASSUME v6' = v6 PROVE last' = last /\ before' = before
  BY <1>6
<1>7. ASSUME v3' = v3, v4' = v4
      PROVE  target' = target /\ (v3 + (v4 - 1) * Interval)' = v3 + (v4 - 1) * Interval
  BY <1>7
<1>8. CASE UNCHANGED Dxgi!paceVars
  <2>1. UNCHANGED <<v1, v2, v3, v4, v5, v6>>
    BY <1>8 DEF Dxgi!paceVars
  <2> QED
    BY <1>2, <1>5, <1>6, <1>7, <2>1
<1> HIDE DEF last, before, target
<1>9. CASE Dxgi!LoopTop
  <2>1. /\ v5 = "top" /\ UNCHANGED <<v1, v2, v6>>
        /\ \/ v3 = None /\ v5' = "wait" /\ UNCHANGED <<v3, v4>>
           \/ v3 # None /\ target <= v1 /\ v5' = "wait" /\ v3' = None /\ v4' = 0
           \/ v3 # None /\ ~(target <= v1) /\ v5' = "sleep" /\ UNCHANGED <<v3, v4>>
    BY <1>9 DEF Dxgi!LoopTop, Dxgi!MissedTarget, Dxgi!Target, Dxgi!EndGroup, target
  <2>2. CASE v3 = None /\ v5' = "wait" /\ UNCHANGED <<v3, v4>>
    BY <1>2, <1>5, <1>6, <1>7, <2>1, <2>2
  <2>3. CASE v3 # None /\ target <= v1 /\ v5' = "wait" /\ v3' = None /\ v4' = 0
    BY <1>1, <1>2, <1>3, <1>4, <1>5, <1>6, <2>1, <2>3
  <2>4. CASE v3 # None /\ ~(target <= v1) /\ v5' = "sleep" /\ UNCHANGED <<v3, v4>>
    <3>1. last <= target
      BY <1>2, <1>3, <1>4, <2>4
    <3> QED
      BY <1>2, <1>5, <1>6, <1>7, <2>1, <2>4, <3>1
  <2> QED
    BY <2>1, <2>2, <2>3, <2>4
<1>10. ASSUME Dxgi!Take, v1' = v1, v2 # None
       PROVE  /\ v2' = None /\ v6' \in Seq(Nat) /\ Len(v6') \in 1..3 /\ last' = v1 /\ v6' # <<>>
              /\ Len(v6') > 1 <=> v6 # <<>>
              /\ Len(v6') > 1 => before' = last
              /\ Len(v6') = 3 => Len(v6) > 1 /\ v6'[1] = before /\ v6'[3] = v1
  <2>1. v2' = None /\ v6' = Append(IF Len(v6) = 3 THEN Tail(v6) ELSE v6, v1)
    BY <1>10 DEF Dxgi!Take
  <2>2. /\ v6' \in Seq(Nat) /\ Len(v6') \in 1..3 /\ v6'[Len(v6')] = v1 /\ v6' # <<>>
        /\ Len(v6') > 1 <=> v6 # <<>>
        /\ Len(v6') > 1 => v6'[Len(v6') - 1] = v6[Len(v6)]
        /\ Len(v6') = 3 => Len(v6) > 1 /\ v6'[1] = v6[Len(v6) - 1] /\ v6'[3] = v1
    BY <1>2, <2>1, TakeMoves, SMTT(40)
  <2> QED
    BY <2>1, <2>2 DEF last, before
<1>11. CASE Dxgi!SnapshotZero
  <2>1. v5 = "sleep" /\ v1 >= target /\ v1' = v1 /\ v3 # None
    BY <1>2, <1>11 DEF Dxgi!SnapshotZero, Dxgi!Target, target
  <2>2. CASE v2 # None /\ Dxgi!Take /\ v4' = v4 + 1 /\ v5' = "push" /\ v3' = v3
    <3>1. (v3 + (v4 - 1) * Interval)' = target
      BY <1>1, <1>2, <2>1, <2>2 DEF target
    <3>2. v6 # <<>> /\ last <= target /\ last \in Nat /\ v3 \in Nat /\ target \in Nat
      BY <1>2, <1>3, <1>4, <2>1
    <3>3. Len(v6) > 1 => before <= target - Interval
      BY <1>2, <1>4, <2>1
    <3>4. Len(v6') = 3 => v6'[3] - v6'[1] >= Interval
      BY <1>1, <1>2, <1>3, <1>10, <2>1, <2>2, <3>2, <3>3
    <3>5. v1' \in Nat /\ v6' \in Seq(Nat) /\ Len(v6') <= 3 /\ v4' \in Nat /\ v4' > 0
      <4>1. v1' \in Nat /\ v4' \in Nat /\ v4' > 0
        BY <1>2, <2>1, <2>2
      <4>2. \A i \in 1..3 : i <= 3
        OBVIOUS
      <4> QED
        BY <1>10, <2>1, <2>2, <4>1, <4>2, Zenon
    <3>6. v2' = None /\ v6' # <<>> /\ v3' \in Nat /\ v3' # None /\ last' <= v1'
      BY <1>1, <1>2, <1>10, <2>1, <2>2, <3>2
    <3>7. Len(v6') > 1 => before' <= last' /\ before' <= target
      BY <1>2, <1>10, <2>1, <2>2, <3>2
    <3>8. v5' # "sleep" /\ v5' # "wait"
      BY <2>2
    <3> QED
      BY <1>5, <3>1, <3>4, <3>5, <3>6, <3>7, <3>8, Zenon
  <2>3. CASE v3' = None /\ v4' = 0 /\ v5' = "wait" /\ UNCHANGED <<v2, v6>>
    BY <1>1, <1>2, <1>3, <1>4, <1>5, <1>6, <2>1, <2>3
  <2> QED
    BY <1>11, <2>2, <2>3 DEF Dxgi!SnapshotZero, Dxgi!EndGroup
<1>12. CASE Dxgi!SnapshotWait
  <2>1. v5 = "wait" /\ v5' = "push" /\ v1' = v1 /\ v3 = None
    BY <1>2, <1>12 DEF Dxgi!SnapshotWait
  <2>2. CASE v2 # None /\ Dxgi!Take /\ v3' = v2 /\ v4' = 1
    <3>1. v2 \in Nat /\ (v3 + (v4 - 1) * Interval)' = v2
      BY <1>1, <1>2, <2>2
    <3>2. Len(v6') = 3 => v6'[3] - v6'[1] >= Interval
      BY <1>1, <1>2, <1>3, <1>10, <2>1, <2>2
    <3>3. v6 # <<>> => last <= v2 /\ last <= v1
      BY <1>2, <2>2
    <3>4. v3' # None
      BY <1>1, <2>2, <3>1
    <3>5. v1' \in Nat /\ v6' \in Seq(Nat) /\ Len(v6') <= 3 /\ v4' \in Nat /\ v4' > 0
      <4>1. v1' \in Nat /\ v4' \in Nat /\ v4' > 0
        BY <1>2, <2>1, <2>2
      <4>2. \A i \in 1..3 : i <= 3
        OBVIOUS
      <4> QED
        BY <1>10, <2>1, <2>2, <4>1, <4>2, Zenon
    <3>6. v2' = None /\ v6' # <<>> /\ v3' \in Nat /\ last' <= v1'
      BY <1>1, <1>2, <1>10, <2>1, <2>2, <3>1
    <3>7. Len(v6') > 1 => before' <= last' /\ before' <= v2
      BY <1>2, <1>10, <2>1, <2>2, <3>3
    <3>8. v5' # "sleep" /\ v5' # "wait"
      BY <2>1
    <3> QED
      BY <1>5, <3>1, <3>2, <3>4, <3>5, <3>6, <3>7, <3>8, Zenon
  <2>3. CASE UNCHANGED <<v2, v3, v4, v6>>
    BY <1>2, <1>5, <1>6, <1>7, <2>1, <2>3
  <2> QED
    BY <1>12, <2>2, <2>3 DEF Dxgi!SnapshotWait
<1>13. CASE Dxgi!PushImage
  <2>1. v5' = "top" /\ UNCHANGED <<v1, v2, v3, v4, v6>>
    BY <1>13 DEF Dxgi!PushImage
  <2> QED
    BY <1>2, <1>5, <1>6, <1>7, <2>1
<1>14. CASE Dxgi!CaptureReturns
  <2>1. v5' = "top" /\ v3' = None /\ v4' = 0 /\ v6' = <<>> /\ UNCHANGED <<v1, v2>>
    BY <1>14 DEF Dxgi!CaptureReturns, Dxgi!EndGroup
  <2>2. Len(v6') = 0 /\ v6' \in Seq(Nat)
    BY <2>1
  <2> QED
    BY <1>2, <1>5, <2>1, <2>2
<1>15. CASE Dxgi!Present
  <2>1. v2' = v1 /\ UNCHANGED <<v1, v3, v4, v5, v6>>
    BY <1>15 DEF Dxgi!Present
  <2> QED
    BY <1>2, <1>3, <1>5, <1>6, <1>7, <2>1
<1>16. CASE Dxgi!Tick
  <2>1. v1' = v1 + 1 /\ UNCHANGED <<v2, v3, v4, v5, v6>>
    BY <1>16 DEF Dxgi!Tick
  <2> QED
    BY <1>1, <1>2, <1>3, <1>5, <1>6, <1>7, <2>1
<1> QED
  BY <1>8, <1>9, <1>11, <1>12, <1>13, <1>14, <1>15, <1>16 DEF Dxgi!PaceNext

(***************************************************************************)
(* The cursor of KMS capture (kmsgrab.cpp).                                *)
(***************************************************************************)

Pixels == [fb : 0..2, src : 1..2]
Cursors == [visible : BOOLEAN, fb : 0..2, src : 0..2, pixels : Pixels \cup {None}, serial : Nat]
Copies == [serial : Int, buffer : Pixels \cup {None}]

LEMMA CursorStarts == Kms!CaptureInit => Kms!CursorInv
<1> SUFFICES ASSUME Kms!CaptureInit PROVE Kms!CursorInv
  OBVIOUS
<1>1. /\ v1 = [fb |-> 0, src |-> 1] /\ v4 = TRUE /\ v7 = None
      /\ v5 = [visible |-> FALSE, fb |-> 0, src |-> 0, pixels |-> None, serial |-> 0]
      /\ v6 = [i \in KmsImage |-> [serial |-> -1, buffer |-> None]]
  BY DEF Kms!CaptureInit, Kms!NoCursor
<1>2. v1 \in Pixels /\ v5 \in Cursors /\ ~v5.visible /\ v5.serial = 0
  BY <1>1 DEF Pixels, Cursors
<1>3. v6 \in [KmsImage -> Copies]
  BY <1>1 DEF Copies
<1>4. \A i \in KmsImage : v6[i].serial = -1
  BY <1>1
<1> QED
  BY <1>1, <1>2, <1>3, <1>4
  DEF Kms!CursorInv, Kms!FrameCursorIsCurrent, Kms!DrawsVisiblePart, Pixels, Cursors, Copies

\* What a look at the cursor plane may leave behind.
LooksAt(c) ==
  /\ c \in Cursors
  /\ c.visible => c.pixels = v1 /\ v1.fb # 0 /\ c.pixels = [fb |-> c.fb, src |-> c.src]
  /\ v5.serial <= c.serial
  /\ c.serial = v5.serial => c.pixels = v5.pixels

LEMMA LookedAt ==
  ASSUME Kms!CursorInv, NEW u \in Kms!UpdateCursor
  PROVE  LooksAt(u[2]) /\ (u[2].visible => u[1])
<1>1. /\ v1 \in Pixels /\ v5 \in Cursors
      /\ v5.visible => v4 /\ v5.pixels = [fb |-> v5.fb, src |-> v5.src]
  BY DEF Kms!CursorInv, Pixels, Cursors
<1>2. v1 = [fb |-> v1.fb, src |-> v1.src] /\ v1.fb \in 0..2 /\ v1.src \in 1..2
  BY <1>1 DEF Pixels
<1>3. v5.serial \in Nat
  BY <1>1 DEF Cursors
<1> DEFINE hide == [v5 EXCEPT !.visible = FALSE]
           away == [v5 EXCEPT !.visible = FALSE, !.fb = 0]
           read == [visible |-> TRUE, fb |-> v1.fb, src |-> v1.src, pixels |-> v1, serial |-> v5.serial + 1]
<1>4. LooksAt(hide) /\ ~hide.visible
  <2>1. hide \in Cursors /\ hide.visible = FALSE /\ hide.serial = v5.serial /\ hide.pixels = v5.pixels
    BY <1>1 DEF Cursors
  <2> HIDE DEF hide
  <2> QED
    BY <1>3, <2>1 DEF LooksAt
<1>5. LooksAt(away) /\ ~away.visible
  <2>0. hide \in Cursors /\ hide.visible = FALSE /\ hide.serial = v5.serial /\ hide.pixels = v5.pixels
    BY <1>1 DEF Cursors
  <2>a. away = [hide EXCEPT !.fb = 0]
    OBVIOUS
  <2> HIDE DEF hide
  <2>1. away \in Cursors /\ away.visible = FALSE /\ away.serial = v5.serial /\ away.pixels = v5.pixels
    <3> HIDE DEF away
    <3> QED
      BY <2>0, <2>a DEF Cursors
  <2> HIDE DEF away
  <2> QED
    BY <1>3, <2>1 DEF LooksAt
<1>6. v1.fb # 0 => LooksAt(read)
  BY <1>1, <1>2, <1>3 DEF LooksAt, Cursors
<1>7. ~v4 => LooksAt(v5) /\ ~v5.visible
  BY <1>1, <1>3 DEF LooksAt
<1>8. v1.fb # 0 /\ ~Kms!Dirty(v5) => LooksAt(v5)
  BY <1>1, <1>2, <1>3 DEF LooksAt, Kms!Dirty
<1> HIDE DEF hide, away, read
<1>9. \/ ~v4 /\ u = <<v4, v5>>
      \/ u = <<FALSE, hide>>
      \/ u = <<TRUE, away>>
      \/ v1.fb # 0 /\ ~Kms!Dirty(v5) /\ u = <<TRUE, v5>>
      \/ u = <<TRUE, hide>>
      \/ v1.fb # 0 /\ u = <<TRUE, read>>
  BY Zenon DEF Kms!UpdateCursor, Kms!CursorRead, hide, away, read
<1>10. CASE ~v4 /\ u = <<v4, v5>>
  BY <1>7, <1>10
<1>11. CASE u = <<FALSE, hide>>
  BY <1>4, <1>11
<1>12. CASE u = <<TRUE, away>>
  BY <1>5, <1>12
<1>13. CASE v1.fb # 0 /\ ~Kms!Dirty(v5) /\ u = <<TRUE, v5>>
  BY <1>8, <1>13
<1>14. CASE u = <<TRUE, hide>>
  BY <1>4, <1>14
<1>15. CASE v1.fb # 0 /\ u = <<TRUE, read>>
  BY <1>6, <1>15
<1> QED
  BY <1>9, <1>10, <1>11, <1>12, <1>13, <1>14, <1>15

\* Max and Min are the choice of a greatest and a least member.
LEMMA LargerOfTwo ==
  ASSUME NEW a \in Int, NEW b \in Int
  PROVE  Kms!Max({a, b}) = IF a >= b THEN a ELSE b
<1> DEFINE m == IF a >= b THEN a ELSE b
<1>1. m \in {a, b} /\ \A y \in {a, b} : m >= y
  OBVIOUS
<1>2. \A x \in {a, b} : (\A y \in {a, b} : x >= y) => x = m
  OBVIOUS
<1> QED
  BY <1>1, <1>2 DEF Kms!Max

LEMMA SmallerOfTwo ==
  ASSUME NEW a \in Int, NEW b \in Int
  PROVE  Kms!Min({a, b}) = IF a <= b THEN a ELSE b
<1> DEFINE m == IF a <= b THEN a ELSE b
<1>1. m \in {a, b} /\ \A y \in {a, b} : m <= y
  OBVIOUS
<1>2. \A x \in {a, b} : (\A y \in {a, b} : x <= y) => x = m
  OBVIOUS
<1> QED
  BY <1>1, <1>2 DEF Kms!Min

\* The span that is drawn is the visible part of the cursor: nothing when it lies
\* wholly to the left, what is left of it otherwise.
LEMMA SpanIsVisible ==
  ASSUME NEW pos \in Int
  PROVE  LET b == Kms!BlendSpan(pos)
         IN  /\ pos >= 0 => b.dst = pos /\ b.src = 0 /\ b.len \in 0..CursorSize
                             /\ \A k \in 0..(CursorSize - 1) : k < b.len <=> pos + k < ScreenWidth
             /\ pos < 0 => b.dst = 0 /\ b.len \in 0..CursorSize
             /\ pos < 0 /\ -CursorSize <= pos => b.src = -pos /\ b.len = CursorSize + pos
             /\ pos < -CursorSize => b.len = 0
<1>1. ScreenWidth \in Nat /\ CursorSize \in Nat /\ CursorSize <= ScreenWidth /\ CursorSize < 65536
  BY CursorAssumption
<1>2. \A x \in 0..CursorSize : x % 65536 = x
  BY <1>1
<1> DEFINE dst == IF 0 >= pos THEN 0 ELSE pos
           left == IF -CursorSize >= pos THEN -CursorSize ELSE pos
           room == IF 0 >= ScreenWidth - dst THEN 0 ELSE ScreenWidth - dst
           most == IF CursorSize <= room THEN CursorSize ELSE room
<1>3. Kms!Max({0, pos}) = dst /\ dst \in Int
  BY LargerOfTwo
<1>4. Kms!Max({-CursorSize, pos}) = left /\ left \in Int
  BY <1>1, LargerOfTwo
<1>5. Kms!Max({0, ScreenWidth - dst}) = room /\ room \in Int
  BY <1>1, <1>3, LargerOfTwo
<1>6. Kms!Min({CursorSize, room}) = most
  BY <1>1, <1>5, SmallerOfTwo
<1> DEFINE span == [dst |-> dst, src |-> dst - left, len |-> (most - (dst - left)) % 65536]
<1>7. Kms!BlendSpan(pos) = span
  <2> DEFINE A == Kms!Max({0, pos})
             B == Kms!Max({-CursorSize, pos})
             C == Kms!Min({CursorSize, Kms!Max({0, ScreenWidth - A})})
  <2>1. Kms!BlendSpan(pos) = [dst |-> A, src |-> A - B, len |-> (C - (A - B)) % 65536]
    BY DEF Kms!BlendSpan
  <2>2. A = dst /\ B = left /\ C = most
    BY <1>3, <1>4, <1>5, <1>6, Zenon
  <2>3. span = [dst |-> dst, src |-> dst - left, len |-> (most - (dst - left)) % 65536]
    OBVIOUS
  <2> HIDE DEF A, B, C, dst, left, most, span
  <2> QED
    BY <2>1, <2>2, <2>3
<1>8. span.dst = dst /\ span.src = dst - left /\ span.len = (most - (dst - left)) % 65536
  OBVIOUS
<1> HIDE DEF span
<1>9. CASE pos >= 0
  <2>1. dst = pos /\ left = pos /\ dst - left = 0
    BY <1>1, <1>9
  <2>2. most \in 0..CursorSize /\ most - (dst - left) = most
    BY <1>1, <2>1
  <2>3. \A k \in 0..(CursorSize - 1) : k < most <=> pos + k < ScreenWidth
    BY <1>1, <2>1
  <2> HIDE DEF dst, left, most
  <2>4. span.len = most
    BY <1>2, <1>8, <2>2
  <2>5. ~(pos < 0) /\ ~(pos < -CursorSize)
    BY <1>1, <1>9
  <2> QED
    BY <1>7, <1>8, <2>1, <2>2, <2>3, <2>4, <2>5
<1>10. CASE pos < 0 /\ -CursorSize <= pos
  <2>1. dst = 0 /\ left = pos /\ dst - left = -pos
    BY <1>1, <1>10
  <2>2. most = CursorSize
    BY <1>1, <2>1
  <2>3. most - (dst - left) = CursorSize + pos /\ CursorSize + pos \in 0..CursorSize
    BY <1>1, <1>10, <2>1, <2>2
  <2> HIDE DEF dst, left, most
  <2>4. span.len = CursorSize + pos
    BY <1>2, <1>8, <2>3
  <2> QED
    BY <1>1, <1>7, <1>8, <1>10, <2>1, <2>3, <2>4
<1>11. CASE pos < -CursorSize
  <2>1. dst = 0 /\ left = -CursorSize /\ dst - left = CursorSize
    BY <1>1, <1>11
  <2>2. most = CursorSize /\ most - (dst - left) = 0 /\ 0 \in 0..CursorSize
    BY <1>1, <2>1
  <2> HIDE DEF dst, left, most
  <2>3. span.len = 0
    BY <1>2, <1>8, <2>2
  <2> QED
    BY <1>1, <1>7, <1>8, <1>11, <2>1, <2>2, <2>3
<1> QED
  BY <1>1, <1>9, <1>10, <1>11

\* What SnapshotRam draws is what DrawsVisiblePart asks for.
LEMMA DrawnIsVisible ==
  ASSUME NEW pos \in Int
  PROVE  LET b == Kms!BlendSpan(pos)
             d == {<<pos, b.dst + k, b.src + k>> : k \in 0..(b.len - 1)}
         IN  d # {} => d = {<<pos, pos + k, k>> : k \in {k \in 0..(CursorSize - 1) : pos + k \in 0..(ScreenWidth - 1)}}
<1> DEFINE b == Kms!BlendSpan(pos)
           len == b.len
           dst == b.dst
           src == b.src
           d == {<<pos, dst + k, src + k>> : k \in 0..(len - 1)}
           e == {<<pos, pos + k, k>> : k \in {k \in 0..(CursorSize - 1) : pos + k \in 0..(ScreenWidth - 1)}}
<1>1. ScreenWidth \in Nat /\ CursorSize \in Nat /\ CursorSize <= ScreenWidth
  BY CursorAssumption
<1>2. /\ pos >= 0 => dst = pos /\ src = 0 /\ len \in 0..CursorSize
                      /\ \A k \in 0..(CursorSize - 1) : k < len <=> pos + k < ScreenWidth
      /\ pos < 0 /\ -CursorSize <= pos => dst = 0 /\ src = -pos /\ len = CursorSize + pos
      /\ pos < -CursorSize => len = 0
  BY SpanIsVisible, Zenon
<1> HIDE DEF b, len, dst, src
<1>3. CASE pos >= 0
  <2>1. \A k \in 0..(len - 1) : dst + k = pos + k /\ src + k = k
    BY <1>2, <1>3
  <2>2. \A k \in Int : k \in 0..(len - 1) <=> k \in 0..(CursorSize - 1) /\ pos + k \in 0..(ScreenWidth - 1)
    BY <1>1, <1>2, <1>3
  <2>3. 0..(len - 1) = {k \in 0..(CursorSize - 1) : pos + k \in 0..(ScreenWidth - 1)}
    BY <2>2
  <2> QED
    BY <2>1, <2>3, Zenon DEF b, len, dst, src
<1>4. CASE pos < 0 /\ -CursorSize <= pos
  <2>1. ASSUME NEW x \in d PROVE x \in e
    <3>1. PICK k \in 0..(len - 1) : x = <<pos, dst + k, src + k>>
      OBVIOUS
    <3>2. k - pos \in 0..(CursorSize - 1) /\ pos + (k - pos) \in 0..(ScreenWidth - 1)
      BY <1>1, <1>2, <1>4
    <3>3. dst + k = pos + (k - pos) /\ src + k = k - pos
      BY <1>1, <1>2, <1>4
    <3> QED
      BY <3>1, <3>2, <3>3
  <2>2. ASSUME NEW x \in e PROVE x \in d
    <3>1. PICK k \in 0..(CursorSize - 1) : pos + k \in 0..(ScreenWidth - 1) /\ x = <<pos, pos + k, k>>
      OBVIOUS
    <3>2. k + pos \in 0..(len - 1) /\ dst + (k + pos) = pos + k /\ src + (k + pos) = k
      BY <1>1, <1>2, <1>4, <3>1
    <3> QED
      BY <3>1, <3>2
  <2>3. d = e
    BY <2>1, <2>2
  <2> QED
    BY <2>3, Zenon DEF b, len, dst, src
<1>5. CASE pos < -CursorSize
  <2>1. 0..(len - 1) = {}
    BY <1>2, <1>5
  <2>2. d = {}
    BY <2>1
  <2> QED
    BY <2>2, Zenon DEF b, len, dst, src
<1> QED
  BY <1>1, <1>3, <1>4, <1>5

\* A frame taken on either path.
LEMMA CursorShown ==
  ASSUME Kms!CursorInv, NEW u \in Kms!UpdateCursor, v4' = u[1], v5' = u[2],
         UNCHANGED <<v1, v2, v3, v8>>,
         v6' \in [KmsImage -> Copies],
         \A i \in KmsImage : \/ v6'[i] = v6[i]
                             \/ u[2].visible /\ v6'[i] = [serial |-> u[2].serial, buffer |-> u[2].pixels]
  PROVE  /\ v1' \in Pixels /\ v5' \in Cursors /\ v6' \in [KmsImage -> Copies]
         /\ v5'.visible => v4' /\ v5'.pixels = [fb |-> v5'.fb, src |-> v5'.src]
         /\ \A i \in KmsImage : /\ v6'[i].serial <= v5'.serial
                                /\ v6'[i].serial = v5'.serial => v6'[i].buffer = v5'.pixels
<1>1. /\ v1 \in Pixels /\ v5 \in Cursors /\ v6 \in [KmsImage -> Copies]
      /\ \A i \in KmsImage : /\ v6[i].serial <= v5.serial
                             /\ v6[i].serial = v5.serial => v6[i].buffer = v5.pixels
  BY DEF Kms!CursorInv, Pixels, Cursors, Copies
<1> DEFINE c == u[2]
<1>2. LooksAt(c) /\ (c.visible => u[1])
  BY LookedAt
<1> HIDE DEF c
<1>3. /\ c \in Cursors
      /\ c.visible => c.pixels = v1 /\ v1.fb # 0 /\ c.pixels = [fb |-> c.fb, src |-> c.src]
      /\ v5.serial <= c.serial /\ (c.serial = v5.serial => c.pixels = v5.pixels)
  BY <1>2 DEF LooksAt
<1>4. v5' = c /\ (c.visible => v4')
  BY <1>2 DEF c
<1>5. v5.serial \in Nat /\ c.serial \in Nat
  BY <1>1, <1>3 DEF Cursors
<1>6. ASSUME NEW i \in KmsImage
      PROVE  v6'[i].serial <= c.serial /\ (v6'[i].serial = c.serial => v6'[i].buffer = c.pixels)
  <2>1. /\ v6[i].serial \in Int /\ v6[i].serial <= v5.serial
        /\ v6[i].serial = v5.serial => v6[i].buffer = v5.pixels
    BY <1>1 DEF Copies
  <2>2. CASE v6'[i] = v6[i]
    BY <1>3, <1>5, <2>1, <2>2
  <2>3. CASE v6'[i] = [serial |-> c.serial, buffer |-> c.pixels]
    BY <1>5, <2>3
  <2> QED
    BY <2>2, <2>3 DEF c
<1> QED
  BY <1>1, <1>3, <1>4, <1>6

LEMMA CursorStep == Kms!CursorInv /\ [Kms!CaptureNext]_(Kms!kmsCaptureVars) => Kms!CursorInv'
<1> SUFFICES ASSUME Kms!CursorInv, [Kms!CaptureNext]_(Kms!kmsCaptureVars) PROVE Kms!CursorInv'
  OBVIOUS
<1>1. /\ v1 \in Pixels /\ v5 \in Cursors /\ v6 \in [KmsImage -> Copies]
      /\ v5.visible => v4 /\ v5.pixels = [fb |-> v5.fb, src |-> v5.src]
      /\ \A i \in KmsImage : /\ v6[i].serial <= v5.serial
                             /\ v6[i].serial = v5.serial => v6[i].buffer = v5.pixels
      /\ Kms!FrameCursorIsCurrent /\ Kms!DrawsVisiblePart
  BY DEF Kms!CursorInv, Pixels, Cursors, Copies
<1> DEFINE Goal == /\ v1' \in Pixels /\ v5' \in Cursors /\ v6' \in [KmsImage -> Copies]
                   /\ v5'.visible => v4' /\ v5'.pixels = [fb |-> v5'.fb, src |-> v5'.src]
                   /\ \A i \in KmsImage : /\ v6'[i].serial <= v5'.serial
                                          /\ v6'[i].serial = v5'.serial => v6'[i].buffer = v5'.pixels
<1>2. Goal /\ Kms!FrameCursorIsCurrent' /\ Kms!DrawsVisiblePart' => Kms!CursorInv'
  BY DEF Kms!CursorInv, Pixels, Cursors, Copies
<1>3. v7' = None => Kms!FrameCursorIsCurrent' /\ Kms!DrawsVisiblePart'
  BY DEF Kms!FrameCursorIsCurrent, Kms!DrawsVisiblePart
\* No frame is handed out, and the cursor is not looked at.
<1>4. ASSUME v7' = None, v1' \in Pixels, UNCHANGED <<v4, v5, v6>> PROVE Kms!CursorInv'
  BY <1>1, <1>2, <1>3, <1>4
<1>5. CASE UNCHANGED Kms!kmsCaptureVars
  <2>1. UNCHANGED <<v1, v4, v5, v6, v7>>
    BY <1>5 DEF Kms!kmsCaptureVars
  <2>2. Kms!FrameCursorIsCurrent' /\ Kms!DrawsVisiblePart'
    BY <1>1, <2>1 DEF Kms!FrameCursorIsCurrent, Kms!DrawsVisiblePart
  <2> QED
    BY <1>1, <1>2, <2>1, <2>2
<1>6. CASE Kms!Flip
  <2>1. v7' = None /\ UNCHANGED <<v4, v5, v6>>
    BY <1>6 DEF Kms!Flip
  <2>2. v1' \in Pixels
    BY <1>1, <1>6 DEF Kms!Flip, Pixels
  <2> QED
    BY <1>4, <2>1, <2>2
<1>7. CASE Kms!CaptureEnds \/ Kms!CaptureTimeout \/ Kms!CaptureStops
  <2>1. v7' = None /\ UNCHANGED <<v1, v4, v5, v6>>
    BY <1>7 DEF Kms!CaptureEnds, Kms!CaptureTimeout, Kms!CaptureStops
  <2> QED
    BY <1>1, <1>4, <2>1
<1>8. ASSUME NEW i \in KmsImage, Kms!SnapshotVram(i) PROVE Kms!CursorInv'
  <2>1. PICK u \in Kms!UpdateCursor :
          LET img == IF u[2].visible /\ v6[i].serial # u[2].serial
                     THEN [serial |-> u[2].serial, buffer |-> u[2].pixels] ELSE v6[i]
          IN  /\ v4' = u[1] /\ v5' = u[2] /\ v6' = [v6 EXCEPT ![i] = img]
              /\ v7' = [cursor |-> IF u[2].visible THEN img.buffer ELSE None, drawn |-> {}]
    BY <1>8, Zenon DEF Kms!SnapshotVram
  <2>2. UNCHANGED <<v1, v2, v3, v8>>
    BY <1>8 DEF Kms!SnapshotVram
  <2> DEFINE c == u[2]
             img == IF c.visible /\ v6[i].serial # c.serial
                    THEN [serial |-> c.serial, buffer |-> c.pixels] ELSE v6[i]
  <2>3. v4' = u[1] /\ v5' = c /\ v6' = [v6 EXCEPT ![i] = img]
        /\ v7' = [cursor |-> IF c.visible THEN img.buffer ELSE None, drawn |-> {}]
    BY <2>1, Zenon
  <2>4. LooksAt(c)
    BY LookedAt
  <2> HIDE DEF c
  <2>5. /\ c \in Cursors
        /\ c.visible => c.pixels = v1 /\ v1.fb # 0
        /\ v5.serial <= c.serial /\ (c.serial = v5.serial => c.pixels = v5.pixels)
    BY <2>4 DEF LooksAt
  <2>6. c.serial \in Nat /\ v5.serial \in Nat /\ c.pixels \in Pixels \cup {None}
    BY <1>1, <2>5 DEF Cursors
  <2>7. v6[i] \in Copies /\ v6[i].serial \in Int /\ v6[i].serial <= v5.serial
        /\ (v6[i].serial = v5.serial => v6[i].buffer = v5.pixels)
    BY <1>1 DEF Copies
  <2>8. img \in Copies
    BY <2>6, <2>7 DEF Copies
  <2>9. c.visible => img.buffer = v1 /\ v1.fb # 0
    <3>1. CASE c.visible /\ v6[i].serial # c.serial
      BY <2>5, <3>1
    <3>2. CASE c.visible /\ v6[i].serial = c.serial
      <4>1. v6[i].serial = v5.serial /\ c.serial = v5.serial
        BY <2>5, <2>6, <2>7, <3>2
      <4> QED
        BY <2>5, <2>7, <3>2, <4>1
    <3> QED
      BY <3>1, <3>2
  <2>10. \/ img = v6[i]
         \/ c.visible /\ img = [serial |-> c.serial, buffer |-> c.pixels]
    OBVIOUS
  <2> HIDE DEF img
  <2>11. v6' \in [KmsImage -> Copies]
    BY <1>1, <2>3, <2>8
  <2>12. \A j \in KmsImage : \/ v6'[j] = v6[j]
                             \/ c.visible /\ v6'[j] = [serial |-> c.serial, buffer |-> c.pixels]
    BY <1>1, <2>3, <2>10
  <2>13. Goal
    BY <2>2, <2>3, <2>11, <2>12, CursorShown DEF c
  <2>14. v7'.cursor = (IF c.visible THEN img.buffer ELSE None) /\ v7'.drawn = {}
    BY <2>3
  <2>15. Kms!FrameCursorIsCurrent' /\ Kms!DrawsVisiblePart'
    BY <2>2, <2>9, <2>14 DEF Kms!FrameCursorIsCurrent, Kms!DrawsVisiblePart
  <2> QED
    BY <1>2, <2>13, <2>15
<1>9. ASSUME NEW pos \in Kms!Position, Kms!SnapshotRam(pos) PROVE Kms!CursorInv'
  <2> DEFINE b == Kms!BlendSpan(pos)
             d == {<<pos, b.dst + k, b.src + k>> : k \in 0..(b.len - 1)}
  <2>1. PICK u \in Kms!UpdateCursor :
          /\ v4' = u[1] /\ v5' = u[2]
          /\ v7' = [cursor |-> IF u[2].visible THEN u[2].pixels ELSE None,
                    drawn |-> IF u[2].visible THEN d ELSE {}]
    BY <1>9, Zenon DEF Kms!SnapshotRam
  <2>2. UNCHANGED <<v1, v2, v3, v8, v6>>
    BY <1>9 DEF Kms!SnapshotRam
  <2>3. LooksAt(u[2])
    BY LookedAt
  <2>4. u[2].visible => u[2].pixels = v1 /\ v1.fb # 0
    BY <2>3 DEF LooksAt
  <2>5. Goal
    BY <1>1, <2>1, <2>2, CursorShown
  <2>6. pos \in Int
    BY CursorAssumption DEF Kms!Position
  <2>7. d # {} => d = {<<pos, pos + k, k>> : k \in {k \in 0..(CursorSize - 1) : pos + k \in 0..(ScreenWidth - 1)}}
    BY <2>6, DrawnIsVisible, Zenon
  <2> HIDE DEF d
  <2>8. v7'.cursor = (IF u[2].visible THEN u[2].pixels ELSE None) /\ v7'.drawn \in {d, {}}
    BY <2>1
  <2>9. Kms!FrameCursorIsCurrent'
    BY <2>2, <2>4, <2>8 DEF Kms!FrameCursorIsCurrent
  <2>10. v7'.drawn # {} =>
           v7'.drawn = {<<pos, pos + k, k>> : k \in {k \in 0..(CursorSize - 1) : pos + k \in 0..(ScreenWidth - 1)}}
    BY <2>7, <2>8, Zenon
  <2>11. Kms!DrawsVisiblePart'
    BY <2>10, Zenon DEF Kms!DrawsVisiblePart
  <2> QED
    BY <1>2, <2>5, <2>9, <2>11
<1> QED
  BY <1>5, <1>6, <1>7, <1>8, <1>9 DEF Kms!CaptureNext

(***************************************************************************)
(* The images of Windows capture (display_vram.cpp, display_ram.cpp).      *)
(***************************************************************************)

Surface(p) == [kind |-> "surface", pic |-> p]
Kept(i) == [kind |-> "img", img |-> i]
Shows(p, c) == [pic |-> p, cur |-> c]
Pool(ims) == ims = [i \in Texture |-> [texture |-> ims[i].texture, dummy |-> ims[i].dummy]]

LEMMA KeptKinds ==
  /\ \A p \in Nat : Surface(p) # None /\ Surface(p).kind = "surface" /\ Surface(p).pic = p
  /\ \A i \in Texture : Kept(i) # None /\ Kept(i).kind = "img" /\ Kept(i).img = i
<1>1. \A p \in Nat : Surface(p) \in [kind : {"surface"}, pic : Nat]
  BY DEF Surface
<1>2. \A i \in Texture : Kept(i) \in [kind : {"img"}, img : Texture]
  BY DEF Kept
<1>3. None \notin [kind : {"surface"}, pic : Nat] \cup [kind : {"img"}, img : Texture]
  BY NoneAssumption, Zenon
<1>4. \A p \in Nat : Surface(p).kind = "surface" /\ Surface(p).pic = p
  BY DEF Surface
<1>5. \A i \in Texture : Kept(i).kind = "img" /\ Kept(i).img = i
  BY DEF Kept
<1> QED
  BY <1>1, <1>2, <1>3, <1>4, <1>5, Zenon

\* An image is written: its texture is made anew when it has to be.
IsImage(im) == im = [texture |-> im.texture, dummy |-> im.dummy]
Write(ims, j, im, p, c) == [ims EXCEPT ![j] = [im EXCEPT !.texture = [pic |-> p, cur |-> c]]]
WrittenTo(o, ims, j, p, c) ==
  Pool(o) /\ o[j].texture = Shows(p, c) /\ \A i \in Texture \ {j} : o[i] = ims[i]

LEMMA Completed ==
  ASSUME NEW ims, Pool(ims), NEW j \in Texture
  PROVE  IsImage(Dxgi!Complete(ims[j], FALSE)) /\ IsImage(Dxgi!Complete(ims[j], TRUE))
<1>1. ims[j] = [texture |-> ims[j].texture, dummy |-> ims[j].dummy]
  BY DEF Pool
<1> QED
  BY <1>1 DEF Dxgi!Complete, IsImage

LEMMA Written ==
  ASSUME NEW ims, Pool(ims), NEW j \in Texture, NEW im, IsImage(im), NEW p, NEW c
  PROVE  WrittenTo(Write(ims, j, im, p, c), ims, j, p, c)
<1> DEFINE o == Write(ims, j, im, p, c)
           w == [texture |-> Shows(p, c), dummy |-> im.dummy]
<1>1. DOMAIN ims = Texture /\ \A i \in Texture : ims[i] = [texture |-> ims[i].texture, dummy |-> ims[i].dummy]
  BY DEF Pool
<1>2. im = [texture |-> im.texture, dummy |-> im.dummy]
  BY DEF IsImage
<1>3. [im EXCEPT !.texture = [pic |-> p, cur |-> c]] = w
  BY <1>2 DEF Shows
<1>4. o = [ims EXCEPT ![j] = w]
  BY <1>3, Zenon DEF Write
<1> HIDE DEF o
<1>5. o[j] = w /\ DOMAIN o = Texture /\ \A i \in Texture \ {j} : o[i] = ims[i]
  BY <1>1, <1>4
<1>6. w = [texture |-> w.texture, dummy |-> w.dummy] /\ w.texture = Shows(p, c)
  OBVIOUS
<1> HIDE DEF w
<1>7. \A i \in Texture : o[i] = [texture |-> o[i].texture, dummy |-> o[i].dummy]
  BY <1>1, <1>5, <1>6, Zenon
<1>8. o = [i \in Texture |-> o[i]]
  <2>1. o = [i \in DOMAIN o |-> o[i]]
    BY <1>4
  <2> QED
    BY <1>5, <2>1
<1>9. o = [i \in Texture |-> [texture |-> o[i].texture, dummy |-> o[i].dummy]]
  BY <1>7, <1>8
<1> QED
  BY <1>5, <1>6, <1>9, Zenon DEF Pool, WrittenTo, o

LEMMA WrittenPlain ==
  ASSUME NEW ims, Pool(ims), NEW j \in Texture, NEW p, NEW c
  PROVE  /\ WrittenTo(Write(ims, j, Dxgi!Complete(ims[j], FALSE), p, c), ims, j, p, c)
         /\ WrittenTo(Write(ims, j, Dxgi!Complete(ims[j], TRUE), p, c), ims, j, p, c)
<1> DEFINE im(b) == Dxgi!Complete(ims[j], b)
<1>1. IsImage(im(FALSE)) /\ IsImage(im(TRUE))
  BY Completed
<1> HIDE DEF im
<1> QED
  BY <1>1, Written DEF im

LEMMA ImagesStart == Dxgi!ImageInit => Dxgi!ImageInv
<1> SUFFICES ASSUME Dxgi!ImageInit PROVE Dxgi!ImageInv
  OBVIOUS
<1>1. /\ v1 = None /\ v2 = [pic |-> 1, cur |-> 0, fmt |-> CHOOSE f \in PixelFormat : TRUE]
      /\ v5 = 0 /\ v8 = None /\ v10 = [i \in Texture |-> [texture |-> None, dummy |-> FALSE]]
      /\ v11 = None /\ v12 = None
  BY DEF Dxgi!ImageInit, Dxgi!NewImage
<1>2. None \notin {"vram", "ram"}
  BY NoneAssumption
<1>3. v2.fmt \in PixelFormat
  BY <1>1, PictureAssumption
<1>4. v2 = [pic |-> v2.pic, cur |-> v2.cur, fmt |-> v2.fmt] /\ v2.pic \in Nat
  BY <1>1
<1>5. v10 = [i \in Texture |-> [texture |-> v10[i].texture, dummy |-> v10[i].dummy]]
  BY <1>1
<1> QED
  BY <1>1, <1>2, <1>3, <1>4, <1>5 DEF Dxgi!ImageInv, Dxgi!EncoderReadsPushed, Dxgi!Duplicated

\* What a pull hands out is an image nobody reads or keeps.
LEMMA Pulled ==
  ASSUME NEW k, NEW i \in Dxgi!Free(k)
  PROVE  i \in Texture /\ (v12 # None => v12.img # i) /\ k # Kept(i)
BY DEF Dxgi!Free, Dxgi!Holds, Kept

\* A frame is pushed: x goes out, and the image the encoder reads stays.
LEMMA Pushed ==
  ASSUME Dxgi!ImageInv, v2' = v2, v5' \in Nat, v12' = v12, Pool(v10'), NEW x \in Texture,
         v11' = [img |-> x, texture |-> v10'[x].texture],
         v12 # None => v10'[v12.img] = v10[v12.img],
         v8' # None => Dxgi!Duplicated' /\ v4' # None /\ Dxgi!KeptIsNewest',
         Dxgi!Duplicated' /\ v8' = None => v4' = None /\ v5' = 0
  PROVE  Dxgi!ImageInv'
<1>1. v2' = [pic |-> v2'.pic, cur |-> v2'.cur, fmt |-> v2'.fmt] /\ v2'.pic \in Nat /\ v2'.fmt \in PixelFormat
  BY DEF Dxgi!ImageInv
<1>2. v12 # None => v12.img \in Texture /\ v10[v12.img].texture = v12.texture
  BY DEF Dxgi!ImageInv, Dxgi!EncoderReadsPushed
<1>3. v11'.img = x /\ v11'.texture = v10'[x].texture
  OBVIOUS
<1>4. \A e \in {v11', v12'} \ {None} : e.img \in Texture /\ v10'[e.img].texture = e.texture
  BY <1>2, <1>3, Zenon
<1> QED
  BY <1>1, <1>4 DEF Dxgi!ImageInv, Dxgi!EncoderReadsPushed, Pool

\* What a frame of a duplication leaves: the picture and the cursor as reported.
LEMMA Acquired ==
  ASSUME Dxgi!ImageInv, Dxgi!Acquire, NEW k, Dxgi!Ready(k), v1 = k, k \in {"vram", "ram"}
  PROVE  /\ v3' = {}
         /\ "pic" \in v3 => v5' = v2.pic /\ v4' = v2.fmt /\ v4' # None
         /\ "pic" \notin v3 => v5' = v5 /\ v4' = v4
         /\ v2.pic \in Nat /\ v5 \in Nat /\ v5' \in Nat
<1>1. v2.pic \in Nat /\ v2.fmt \in PixelFormat /\ v5 \in Nat
  BY DEF Dxgi!ImageInv
<1>2. v2.fmt # None
  BY <1>1, NoneAssumption
<1>3. /\ v5' = (IF "pic" \in v3 THEN v2.pic ELSE v5) /\ v3' = {}
      /\ v4' = (IF "pic" \in v3 /\ v4 = None THEN v2.fmt ELSE v4)
      /\ "pic" \in v3 => v4 \in {None, v2.fmt}
  BY DEF Dxgi!Acquire, Dxgi!Ready
<1> QED
  BY <1>1, <1>2, <1>3

LEMMA VramPushes ==
  ASSUME Dxgi!ImageInv, Dxgi!SnapshotVram
  PROVE  /\ Dxgi!ImageInv'
         /\ v11'.texture = Shows(v5', IF v7 THEN v6' ELSE 0)
<1> DEFINE new == "pic" \in v3
           shown == IF v7 THEN v6' ELSE 0
           plan == Dxgi!Plan(new)
           pulls == plan[1] \in {"copy_src_to_img", "replace_surface_with_img"}
           kept == IF plan[1] = "copy_src_to_img" THEN None ELSE v8
           L(i) == Dxgi!LastFrame(plan[1], i)
           O(i, j) == Dxgi!OutFrame(plan[2], L(i).last, L(i).imgs, j)
<1> SUFFICES Dxgi!ImageInv' /\ v11'.texture = Shows(v5', shown)
  OBVIOUS
<1>1. /\ Dxgi!Acquire /\ Dxgi!Ready("vram") /\ v1 = "vram"
      /\ v1' = v1 /\ v2' = v2 /\ v7' = v7 /\ v12' = v12
  BY DEF Dxgi!SnapshotVram, Dxgi!Ready
<1>2. /\ new => v5' = v2.pic /\ v4' = v2.fmt /\ v4' # None
      /\ ~new => v5' = v5 /\ v4' = v4
      /\ v2.pic \in Nat /\ v5 \in Nat /\ v5' \in Nat
  BY <1>1, Acquired
<1>3. /\ v8 # None => v4 # None
      /\ v8 # None => \/ v8 = Surface(v5)
                      \/ v8 = Kept(v8.img) /\ v8.img \in Texture /\ v10[v8.img].texture = Shows(v5, 0)
      /\ v8 = None => v4 = None /\ v5 = 0
      /\ Pool(v10)
  BY <1>1 DEF Dxgi!ImageInv, Dxgi!Duplicated, Dxgi!KeptIsNewest, Surface, Kept, Shows, Pool
<1> DEFINE Goes(i, j) == /\ v8' = L(i).last /\ v10' = O(i, j).imgs
                         /\ v11' = [img |-> O(i, j).img, texture |-> v10'[O(i, j).img].texture]
<1>a. PICK i \in IF pulls THEN Dxgi!Free(kept) ELSE {None} :
        \E j \in IF plan[2] = "forward" THEN {None} ELSE Dxgi!Free(L(i).last) : Goes(i, j)
  BY Zenon DEF Dxgi!SnapshotVram, Dxgi!Push
<1>b. PICK j \in IF plan[2] = "forward" THEN {None} ELSE Dxgi!Free(L(i).last) : Goes(i, j)
  BY <1>a, Zenon
<1>4. /\ i \in IF pulls THEN Dxgi!Free(kept) ELSE {None}
      /\ j \in IF plan[2] = "forward" THEN {None} ELSE Dxgi!Free(L(i).last)
      /\ v8' = L(i).last /\ v10' = O(i, j).imgs
      /\ v11' = [img |-> O(i, j).img, texture |-> v10'[O(i, j).img].texture]
  BY <1>b, Zenon
<1> DEFINE Next8 == \/ v8' = Surface(v5')
                    \/ v8' = Kept(v8'.img) /\ v8'.img \in Texture /\ v10'[v8'.img].texture = Shows(v5', 0)
\* What is left to show of each plan.
<1>5. ASSUME NEW x \in Texture, Pool(v10'),
             v11' = [img |-> x, texture |-> v10'[x].texture],
             v10'[x].texture = Shows(v5', shown),
             v12 # None => v10'[v12.img] = v10[v12.img],
             \/ v4' # None /\ v8' # None /\ Next8
             \/ v4' = None /\ v8' = None /\ v5' = 0
      PROVE  Dxgi!ImageInv' /\ v11'.texture = Shows(v5', shown)
  <2>1. v8' # None => Dxgi!Duplicated' /\ v4' # None /\ Dxgi!KeptIsNewest'
    BY <1>1, <1>5 DEF Dxgi!Duplicated, Dxgi!KeptIsNewest, Surface, Kept, Shows
  <2>2. Dxgi!ImageInv'
    BY <1>1, <1>2, <1>5, <2>1, Pushed
  <2> QED
    BY <1>5, <2>2
<1>6. v12 # None => v12.img \in Texture
  BY DEF Dxgi!ImageInv
<1> HIDE DEF new, shown, Next8, L, O, plan, pulls, kept
<1>7. Dxgi!Blend => shown = v6'
  BY DEF Dxgi!Blend, shown
<1>8. ~Dxgi!Blend => shown = 0
  BY DEF Dxgi!Blend, shown
<1>9. CASE v4' = None \/ (~new /\ v8 = None)
  <2>1. plan = <<"nothing", "dummy">>
    BY <1>2, <1>9 DEF plan, Dxgi!Plan
  <2>2. v8' = v8 /\ L(i).imgs = v10 /\ j \in Dxgi!Free(v8)
    BY <1>4, <2>1 DEF L, Dxgi!LastFrame
  <2>3. O(i, j).img = j
        /\ O(i, j).imgs = Write(v10, j, Dxgi!Complete(v10[j], TRUE), 0, IF Dxgi!Blend THEN v6' ELSE 0)
    BY <2>1, <2>2 DEF O, Dxgi!OutFrame, Write
  <2>4. v4' = None /\ v8 = None /\ v5' = 0
    BY <1>2, <1>3, <1>9
  <2>5. j \in Texture /\ (v12 # None => v12.img # j)
    BY <2>2, Pulled
  <2>6. Pool(v10') /\ v10'[j].texture = Shows(0, IF Dxgi!Blend THEN v6' ELSE 0)
        /\ \A k \in Texture \ {j} : v10'[k] = v10[k]
    <3>1. v10' = Write(v10, j, Dxgi!Complete(v10[j], TRUE), 0, IF Dxgi!Blend THEN v6' ELSE 0)
      BY <1>4, <2>3
    <3>2. Pool(v10) /\ j \in Texture
      BY <1>3, <2>5
    <3>3. WrittenTo(v10', v10, j, 0, IF Dxgi!Blend THEN v6' ELSE 0)
      BY <3>1, <3>2, WrittenPlain
    <3> QED
      BY <3>3 DEF WrittenTo
  <2>7. v10'[j].texture = Shows(v5', shown)
    BY <1>7, <1>8, <2>4, <2>6
  <2> QED
    BY <1>4, <1>5, <1>6, <2>2, <2>3, <2>4, <2>5, <2>6, <2>7
<1>10. CASE v4' # None /\ new /\ Dxgi!Blend
  <2>1. plan = <<"copy_src_to_surface", "blend">>
    BY <1>10 DEF plan, Dxgi!Plan
  <2>2. L(i).last = Surface(v2.pic) /\ L(i).imgs = v10
    <3>1. CASE v8 # None /\ v8.kind = "surface"
      <4>1. v8 = Surface(v5)
        <5>1. v8.img \in Texture => Kept(v8.img).kind = "img"
          BY KeptKinds
        <5> QED
          BY <1>3, <3>1, <5>1
      <4>2. [v8 EXCEPT !.pic = v2.pic] = Surface(v2.pic)
        BY <4>1 DEF Surface
      <4> QED
        BY <2>1, <3>1, <4>2 DEF L, Dxgi!LastFrame
    <3>2. CASE ~(v8 # None /\ v8.kind = "surface")
      BY <2>1, <3>2 DEF L, Dxgi!LastFrame, Dxgi!SurfaceOf, Surface
    <3> QED
      BY <3>1, <3>2
  <2>3. j \in Dxgi!Free(Surface(v2.pic)) /\ v8' = Surface(v2.pic)
    BY <1>4, <2>1, <2>2
  <2>4. O(i, j).img = j /\ O(i, j).imgs = [v10 EXCEPT ![j] = Dxgi!CopyTo(@, Surface(v2.pic).pic, v6')]
    BY <2>1, <2>2 DEF O, Dxgi!OutFrame
  <2>5. j \in Texture /\ (v12 # None => v12.img # j)
    BY <2>3, Pulled
  <2>6. Pool(v10') /\ v10'[j].texture = Shows(v2.pic, v6') /\ \A k \in Texture \ {j} : v10'[k] = v10[k]
    <3>1. Surface(v2.pic).pic = v2.pic
      BY <1>2, KeptKinds
    <3>2. v10' = Write(v10, j, Dxgi!Complete(v10[j], FALSE), v2.pic, v6')
      BY <1>4, <2>4, <3>1 DEF Dxgi!CopyTo, Write
    <3>3. Pool(v10) /\ j \in Texture
      BY <1>3, <2>5
    <3>4. WrittenTo(v10', v10, j, v2.pic, v6')
      BY <3>2, <3>3, WrittenPlain
    <3> QED
      BY <3>4 DEF WrittenTo
  <2>7. v8' # None /\ Next8
    BY <1>2, <1>10, <2>3, KeptKinds DEF Next8
  <2> QED
    BY <1>2, <1>4, <1>5, <1>6, <1>7, <1>10, <2>4, <2>5, <2>6, <2>7
<1>11. CASE v4' # None /\ new /\ ~Dxgi!Blend
  <2>1. plan = <<"copy_src_to_img", "forward">>
    BY <1>11 DEF plan, Dxgi!Plan
  <2>2. i \in Dxgi!Free(None)
    BY <1>4, <2>1 DEF pulls, kept
  <2>3. i \in Texture /\ (v12 # None => v12.img # i)
    BY <2>2, Pulled
  <2>4. L(i).last = Kept(i) /\ L(i).imgs = [v10 EXCEPT ![i] = Dxgi!CopyTo(@, v2.pic, 0)]
    BY <2>1 DEF L, Dxgi!LastFrame, Kept
  <2>5. O(i, j).img = L(i).last.img /\ O(i, j).imgs = L(i).imgs
    BY <2>1 DEF O, Dxgi!OutFrame
  <2>6. Kept(i) # None /\ Kept(i).img = i
    BY <2>3, KeptKinds
  <2>7. Pool(v10') /\ v10'[i].texture = Shows(v2.pic, 0) /\ \A k \in Texture \ {i} : v10'[k] = v10[k]
    <3>1. v10' = Write(v10, i, Dxgi!Complete(v10[i], FALSE), v2.pic, 0)
      BY <1>4, <2>4, <2>5 DEF Dxgi!CopyTo, Write
    <3>a. Pool(v10) /\ i \in Texture
      BY <1>3, <2>3
    <3>b. WrittenTo(v10', v10, i, v2.pic, 0)
      BY <3>1, <3>a, WrittenPlain
    <3> QED
      BY <3>b DEF WrittenTo
  <2>8. v8' = Kept(i) /\ v8' # None /\ v8'.img = i
    BY <1>4, <2>4, <2>6
  <2>9. Next8
    BY <1>2, <1>11, <2>3, <2>7, <2>8 DEF Next8
  <2>10. v11' = [img |-> i, texture |-> v10'[i].texture]
    BY <1>4, <2>4, <2>5, <2>6
  <2> QED
    BY <1>2, <1>5, <1>6, <1>8, <1>11, <2>3, <2>7, <2>8, <2>9, <2>10
<1>12. CASE v4' # None /\ ~new /\ v8 # None /\ Dxgi!Blend
  <2>1. plan = <<IF v8.kind = "img" THEN "replace_img_with_surface" ELSE "nothing", "blend">>
    BY <1>12 DEF plan, Dxgi!Plan
  <2>2. L(i).last = Surface(v5) /\ L(i).imgs = v10
    <3>1. CASE v8 = Surface(v5)
      <4>1. plan[1] = "nothing"
        BY <1>2, <2>1, <3>1, KeptKinds
      <4> QED
        BY <3>1, <4>1 DEF L, Dxgi!LastFrame
    <3>2. CASE v8 = Kept(v8.img) /\ v8.img \in Texture /\ v10[v8.img].texture = Shows(v5, 0)
      <4>1. v8.kind = "img"
        <5>1. Kept(v8.img).kind = "img"
          BY <3>2, KeptKinds
        <5> QED
          BY <3>2, <5>1
      <4>2. plan[1] = "replace_img_with_surface"
        BY <2>1, <4>1
      <4>3. v10[v8.img].texture.pic = v5
        BY <3>2 DEF Shows
      <4> QED
        BY <4>2, <4>3 DEF L, Dxgi!LastFrame, Dxgi!SurfaceOf, Surface
    <3> QED
      BY <1>3, <1>12, <3>1, <3>2
  <2>3. j \in Dxgi!Free(Surface(v5)) /\ v8' = Surface(v5)
    BY <1>4, <2>1, <2>2
  <2>4. O(i, j).img = j /\ O(i, j).imgs = [v10 EXCEPT ![j] = Dxgi!CopyTo(@, Surface(v5).pic, v6')]
    BY <2>1, <2>2 DEF O, Dxgi!OutFrame
  <2>5. j \in Texture /\ (v12 # None => v12.img # j)
    BY <2>3, Pulled
  <2>6. Pool(v10') /\ v10'[j].texture = Shows(v5, v6') /\ \A k \in Texture \ {j} : v10'[k] = v10[k]
    <3>1. Surface(v5).pic = v5
      BY <1>2, KeptKinds
    <3>2. v10' = Write(v10, j, Dxgi!Complete(v10[j], FALSE), v5, v6')
      BY <1>4, <2>4, <3>1 DEF Dxgi!CopyTo, Write
    <3>a. Pool(v10) /\ j \in Texture
      BY <1>3, <2>5
    <3>b. WrittenTo(v10', v10, j, v5, v6')
      BY <3>2, <3>a, WrittenPlain
    <3> QED
      BY <3>b DEF WrittenTo
  <2>7. v8' # None /\ Next8
    BY <1>2, <1>12, <2>3, KeptKinds DEF Next8
  <2> QED
    BY <1>2, <1>4, <1>5, <1>6, <1>7, <1>12, <2>4, <2>5, <2>6, <2>7
<1>13. CASE v4' # None /\ ~new /\ v8 # None /\ ~Dxgi!Blend
  <2>1. plan = <<IF v8.kind = "surface" THEN "replace_surface_with_img" ELSE "nothing", "forward">>
    BY <1>13 DEF plan, Dxgi!Plan
  <2>2. O(i, j).img = L(i).last.img /\ O(i, j).imgs = L(i).imgs
    BY <2>1 DEF O, Dxgi!OutFrame
  <2>3. CASE v8 = Surface(v5)
    <3>1. v8.kind = "surface" /\ v8.pic = v5
      BY <1>2, <2>3, KeptKinds
    <3>2. plan[1] = "replace_surface_with_img"
      BY <2>1, <3>1
    <3>3. i \in Dxgi!Free(v8)
      BY <1>4, <3>2 DEF pulls, kept
    <3>4. i \in Texture /\ (v12 # None => v12.img # i)
      BY <3>3, Pulled
    <3>5. L(i).last = Kept(i) /\ L(i).imgs = [v10 EXCEPT ![i] = Dxgi!CopyTo(@, v5, 0)]
      BY <3>1, <3>2 DEF L, Dxgi!LastFrame, Kept
    <3>6. Kept(i) # None /\ Kept(i).img = i
      BY <3>4, KeptKinds
    <3>7. Pool(v10') /\ v10'[i].texture = Shows(v5, 0) /\ \A k \in Texture \ {i} : v10'[k] = v10[k]
      <4>1. v10' = Write(v10, i, Dxgi!Complete(v10[i], FALSE), v5, 0)
        BY <1>4, <2>2, <3>5 DEF Dxgi!CopyTo, Write
      <4>a. Pool(v10) /\ i \in Texture
        BY <1>3, <3>4
      <4>b. WrittenTo(v10', v10, i, v5, 0)
        BY <4>1, <4>a, WrittenPlain
      <4> QED
        BY <4>b DEF WrittenTo
    <3>8. v8' = Kept(i) /\ v8' # None /\ v8'.img = i
      BY <1>4, <3>5, <3>6
    <3>9. Next8
      BY <1>2, <1>13, <3>4, <3>7, <3>8 DEF Next8
    <3>10. v11' = [img |-> i, texture |-> v10'[i].texture]
      BY <1>4, <2>2, <3>5, <3>6
    <3> QED
      BY <1>2, <1>5, <1>6, <1>8, <1>13, <3>4, <3>7, <3>8, <3>9, <3>10
  <2>4. CASE v8 = Kept(v8.img) /\ v8.img \in Texture /\ v10[v8.img].texture = Shows(v5, 0)
    <3>1. v8.kind = "img"
      <4>1. Kept(v8.img).kind = "img"
        BY <2>4, KeptKinds
      <4> QED
        BY <2>4, <4>1
    <3>2. plan[1] = "nothing"
      BY <2>1, <3>1
    <3>3. v8' = v8 /\ v10' = v10
      BY <1>4, <2>2, <3>2 DEF L, Dxgi!LastFrame
    <3>4. v11' = [img |-> v8.img, texture |-> v10'[v8.img].texture]
      BY <1>4, <2>2, <3>3
    <3>5. Next8
      BY <1>2, <1>13, <2>4, <3>3 DEF Next8
    <3> QED
      BY <1>2, <1>3, <1>5, <1>6, <1>8, <1>13, <2>4, <3>3, <3>4, <3>5
  <2> QED
    BY <1>3, <1>13, <2>3, <2>4
<1> QED
  BY <1>2, <1>9, <1>10, <1>11, <1>12, <1>13, Zenon

LEMMA RamPushes ==
  ASSUME Dxgi!ImageInv, Dxgi!SnapshotRam
  PROVE  Dxgi!ImageInv' /\ v11'.texture = Shows(v5', IF v7 THEN v6' ELSE 0)
<1> DEFINE new == "pic" \in v3
           shown == IF v7 THEN v6' ELSE 0
           p == IF v4' = None THEN 0 ELSE v8'.pic
           c == IF Dxgi!Blend THEN v6' ELSE 0
<1>1. /\ Dxgi!Acquire /\ Dxgi!Ready("ram") /\ v1 = "ram"
      /\ v1' = v1 /\ v2' = v2 /\ v12' = v12
      /\ v8' = IF new THEN Surface(v2.pic) ELSE v8
  BY DEF Dxgi!SnapshotRam, Dxgi!Ready, Dxgi!SurfaceOf, Surface
<1>2. /\ new => v5' = v2.pic /\ v4' = v2.fmt /\ v4' # None
      /\ ~new => v5' = v5 /\ v4' = v4
      /\ v2.pic \in Nat /\ v5 \in Nat /\ v5' \in Nat
  BY <1>1, Acquired
<1>3. /\ v8 # None => v4 # None /\ v8 = Surface(v5)
      /\ v8 = None => v4 = None /\ v5 = 0
      /\ Pool(v10)
  BY <1>1 DEF Dxgi!ImageInv, Dxgi!Duplicated, Dxgi!KeptIsNewest, Surface, Pool
<1>4. PICK j \in Dxgi!Free(None) :
        /\ v10' = [v10 EXCEPT ![j] = Dxgi!CopyTo(@, p, c)]
        /\ v11' = [img |-> j, texture |-> v10'[j].texture]
  BY Zenon DEF Dxgi!SnapshotRam, Dxgi!Push
<1>5. j \in Texture /\ (v12 # None => v12.img # j)
  BY Pulled
<1>6. /\ v4' # None => v8' = Surface(v5') /\ v8' # None
      /\ v4' = None => v8' = None /\ v5' = 0
  BY <1>1, <1>2, <1>3, KeptKinds
<1>7. p = v5'
  BY <1>2, <1>6, KeptKinds
<1>8. c = shown
  BY DEF Dxgi!Blend
<1> HIDE DEF p, c
<1>9. v10' = Write(v10, j, Dxgi!Complete(v10[j], FALSE), p, c)
  BY <1>4 DEF Dxgi!CopyTo, Write
<1>10. WrittenTo(v10', v10, j, p, c)
  BY <1>3, <1>5, <1>9, WrittenPlain
<1>11. Pool(v10') /\ v10'[j].texture = Shows(v5', shown) /\ \A k \in Texture \ {j} : v10'[k] = v10[k]
  BY <1>7, <1>8, <1>10 DEF WrittenTo
<1>12. v12 # None => v10'[v12.img] = v10[v12.img]
  BY <1>5, <1>11 DEF Dxgi!ImageInv
<1>13. v8' # None => Dxgi!Duplicated' /\ v4' # None /\ Dxgi!KeptIsNewest'
  BY <1>1, <1>6 DEF Dxgi!Duplicated, Dxgi!KeptIsNewest, Surface
<1>14. Dxgi!ImageInv'
  BY <1>1, <1>2, <1>4, <1>5, <1>6, <1>11, <1>12, <1>13, Pushed
<1> QED
  BY <1>4, <1>11, <1>14

LEMMA WgcPushes ==
  ASSUME Dxgi!ImageInv, Dxgi!SnapshotWgc
  PROVE  Dxgi!ImageInv' /\ v11'.texture = Shows(v5', IF v7 THEN v6' ELSE 0)
<1>1. /\ v1 = "wgc" /\ v5' = v2.pic /\ v6' = v2.cur
      /\ v1' = v1 /\ v2' = v2 /\ v12' = v12 /\ v8' = v8
  BY DEF Dxgi!SnapshotWgc, Dxgi!Ready
<1>2. v8' = None /\ ~Dxgi!Duplicated' /\ Pool(v10) /\ v5' \in Nat
  BY <1>1 DEF Dxgi!ImageInv, Dxgi!Duplicated, Pool
<1> DEFINE c == IF v7 THEN v2.cur ELSE 0
<1>3. PICK j \in Dxgi!Free(None) :
        /\ v10' = [v10 EXCEPT ![j] = Dxgi!CopyTo(@, v2.pic, c)]
        /\ v11' = [img |-> j, texture |-> v10'[j].texture]
  BY Zenon DEF Dxgi!SnapshotWgc, Dxgi!Push
<1>4. j \in Texture /\ (v12 # None => v12.img # j)
  BY Pulled
<1>5. c = IF v7 THEN v6' ELSE 0
  BY <1>1
<1> HIDE DEF c
<1>6. v10' = Write(v10, j, Dxgi!Complete(v10[j], FALSE), v2.pic, c)
  BY <1>3 DEF Dxgi!CopyTo, Write
<1>7. WrittenTo(v10', v10, j, v2.pic, c)
  BY <1>2, <1>4, <1>6, WrittenPlain
<1>8. Pool(v10') /\ v10'[j].texture = Shows(v5', c) /\ \A k \in Texture \ {j} : v10'[k] = v10[k]
  BY <1>1, <1>7 DEF WrittenTo
<1>9. v12 # None => v10'[v12.img] = v10[v12.img]
  BY <1>4, <1>8 DEF Dxgi!ImageInv
<1>10. Dxgi!ImageInv'
  BY <1>1, <1>2, <1>3, <1>4, <1>8, <1>9, Pushed
<1> QED
  BY <1>3, <1>5, <1>8, <1>10

LEMMA ImageStep ==
  Dxgi!ImageInv /\ [Dxgi!ImageNext]_(Dxgi!dxgiVars) => Dxgi!ImageInv' /\ Dxgi!PushIsCurrent
<1> SUFFICES ASSUME Dxgi!ImageInv, [Dxgi!ImageNext]_(Dxgi!dxgiVars)
             PROVE  Dxgi!ImageInv' /\ Dxgi!PushIsCurrent
  OBVIOUS
<1>1. v11'.texture = Shows(v5', IF v7 THEN v6' ELSE 0) => Dxgi!PushIsCurrent
  BY DEF Dxgi!PushIsCurrent, Shows
<1>2. v3' # {} \/ v3' = v3 => Dxgi!PushIsCurrent
  BY DEF Dxgi!PushIsCurrent
<1>3. CASE UNCHANGED Dxgi!dxgiVars
  <2>1. UNCHANGED <<v1, v2, v3, v4, v5, v8, v10, v11, v12>>
    BY <1>3 DEF Dxgi!dxgiVars
  <2>2. Dxgi!ImageInv'
    BY <2>1 DEF Dxgi!ImageInv, Dxgi!EncoderReadsPushed, Dxgi!Duplicated, Dxgi!KeptIsNewest
  <2> QED
    BY <1>2, <2>1, <2>2
<1>4. ASSUME NEW k \in DisplayKind, NEW first \in {{"pic", "cur"}, {"cur"}}, Dxgi!OpenCapture(k, first)
      PROVE  Dxgi!ImageInv' /\ Dxgi!PushIsCurrent
  <2>1. /\ v1' = k /\ v3' = (IF k = "wgc" THEN {"pic", "cur"} ELSE first)
        /\ v4' = (IF k = "wgc" THEN v2.fmt ELSE None) /\ v5' = 0 /\ v8' = None
        /\ UNCHANGED <<v2, v10, v11, v12>>
    BY <1>4 DEF Dxgi!OpenCapture
  <2>2. Dxgi!Duplicated' => v4' = None
    BY <2>1 DEF Dxgi!Duplicated
  <2>3. Dxgi!ImageInv'
    BY <2>1, <2>2 DEF Dxgi!ImageInv, Dxgi!EncoderReadsPushed
  <2>4. v3' # {}
    BY <2>1
  <2> QED
    BY <1>2, <2>3, <2>4
<1>5. CASE Dxgi!Desktop
  <2>1. /\ UNCHANGED <<v1, v4, v5, v8, v10, v11, v12>>
        /\ \/ \E p \in Picture : v2' = [v2 EXCEPT !.pic = p] /\ v3' = v3 \cup {"pic"}
           \/ \E c \in CursorShape \cup {0} : v2' = [v2 EXCEPT !.cur = c] /\ v3' = v3 \cup {"cur"}
           \/ \E f \in PixelFormat : v2' = [v2 EXCEPT !.fmt = f] /\ v3' = v3 \cup {"pic"}
           \/ UNCHANGED <<v2, v3>>
    BY <1>5 DEF Dxgi!Desktop
  <2>2. v2 = [pic |-> v2.pic, cur |-> v2.cur, fmt |-> v2.fmt] /\ v2.pic \in Nat /\ v2.fmt \in PixelFormat
    BY DEF Dxgi!ImageInv
  <2>3. v2' = [pic |-> v2'.pic, cur |-> v2'.cur, fmt |-> v2'.fmt] /\ v2'.pic \in Nat /\ v2'.fmt \in PixelFormat
    <3>1. ASSUME NEW p \in Picture, v2' = [v2 EXCEPT !.pic = p]
          PROVE  v2' = [pic |-> p, cur |-> v2.cur, fmt |-> v2.fmt] /\ p \in Nat
      BY <2>2, <3>1, PictureAssumption
    <3>2. ASSUME NEW c, v2' = [v2 EXCEPT !.cur = c]
          PROVE  v2' = [pic |-> v2.pic, cur |-> c, fmt |-> v2.fmt]
      BY <2>2, <3>2
    <3>3. ASSUME NEW f \in PixelFormat, v2' = [v2 EXCEPT !.fmt = f]
          PROVE  v2' = [pic |-> v2.pic, cur |-> v2.cur, fmt |-> f]
      BY <2>2, <3>3
    <3>4. CASE \E p \in Picture : v2' = [v2 EXCEPT !.pic = p] /\ v3' = v3 \cup {"pic"}
      BY <2>2, <3>1, <3>4
    <3>5. CASE \E c \in CursorShape \cup {0} : v2' = [v2 EXCEPT !.cur = c] /\ v3' = v3 \cup {"cur"}
      BY <2>2, <3>2, <3>5
    <3>6. CASE \E f \in PixelFormat : v2' = [v2 EXCEPT !.fmt = f] /\ v3' = v3 \cup {"pic"}
      BY <2>2, <3>3, <3>6
    <3>7. CASE UNCHANGED <<v2, v3>>
      BY <2>2, <3>7
    <3> QED
      BY <2>1, <3>4, <3>5, <3>6, <3>7
  <2>4. v3' # {} \/ v3' = v3
    BY <2>1
  <2>5. Dxgi!ImageInv'
    BY <2>1, <2>3 DEF Dxgi!ImageInv, Dxgi!EncoderReadsPushed, Dxgi!Duplicated, Dxgi!KeptIsNewest
  <2> QED
    BY <1>2, <2>4, <2>5
<1>6. CASE Dxgi!SnapshotVram
  BY <1>1, <1>6, VramPushes
<1>7. CASE Dxgi!SnapshotRam
  BY <1>1, <1>7, RamPushes
<1>8. CASE Dxgi!SnapshotWgc
  BY <1>1, <1>8, WgcPushes
<1>9. CASE Dxgi!CaptureEnds
  <2>1. /\ v1' = None /\ v11' = None /\ v12' = None /\ v8' = None
        /\ v10' = [i \in Texture |-> [texture |-> None, dummy |-> FALSE]]
        /\ UNCHANGED <<v2, v3, v4, v5>>
    BY <1>9 DEF Dxgi!CaptureEnds, Dxgi!NewImage
  <2>2. ~Dxgi!Duplicated'
    BY <2>1, NoneAssumption DEF Dxgi!Duplicated
  <2>3. v10' = [i \in Texture |-> [texture |-> v10'[i].texture, dummy |-> v10'[i].dummy]]
    BY <2>1
  <2>4. Dxgi!ImageInv'
    BY <2>1, <2>2, <2>3 DEF Dxgi!ImageInv, Dxgi!EncoderReadsPushed
  <2> QED
    BY <1>2, <2>1, <2>4
<1>10. CASE Dxgi!Encoder
  <2>1. /\ UNCHANGED <<v1, v2, v3, v4, v5, v8, v10>>
        /\ \/ v12' = v11 /\ v11' = None
           \/ v12' = None /\ v11' = v11
    BY <1>10 DEF Dxgi!Encoder, Dxgi!TakeImage, Dxgi!Convert
  <2>2. Dxgi!ImageInv'
    BY <2>1 DEF Dxgi!ImageInv, Dxgi!EncoderReadsPushed, Dxgi!Duplicated, Dxgi!KeptIsNewest
  <2> QED
    BY <1>2, <2>1, <2>2
<1> QED
  BY <1>3, <1>4, <1>5, <1>6, <1>7, <1>8, <1>9, <1>10 DEF Dxgi!ImageNext

(***************************************************************************)
(* Audio packets and their parity (stream.cpp, audioBroadcastThread).      *)
(***************************************************************************)

\* The next number after s.
LEMMA NextNumber ==
  ASSUME NEW s \in 0 .. AudioSpan - 1
  PROVE  /\ (s + 1) % AudioSpan = (IF s + 1 = AudioSpan THEN 0 ELSE s + 1)
         /\ \A x \in 0 .. AudioSpan - 1 : x % AudioSpan = x /\ (x + AudioSpan) % AudioSpan = x
<1>1. AudioSpan \in Nat \ {0}
  BY AudioAssumption
<1>2. \A x \in 0 .. AudioSpan - 1 : x % AudioSpan = x
  BY <1>1
<1> QED
  BY <1>1

\* Before the first packet no block is begun.
LEMMA AudioStarts == Rtp!AudioInit => Rtp!AudioInv
BY AudioAssumption DEF Rtp!AudioInit, Rtp!AudioInv, Rtp!ParityMatches

\* The block of four that a number is in, and the one that comes next.
LEMMA BlockOfFour ==
  ASSUME NEW s \in 0 .. AudioSpan - 1
  PROVE  /\ s % 4 \in 0..3 /\ s - (s % 4) \in Nat
         /\ s % 4 = 3 => (s + 1) % 4 = 0 /\ s - 3 \in Nat /\ (s - 3) % 4 = 0
         /\ s % 4 # 3 => /\ (s + 1) % 4 = (s % 4) + 1 /\ s + 1 \in 0 .. AudioSpan - 1
                         /\ (s + 1) - ((s + 1) % 4) = s - (s % 4)
<1>1. AudioSpan \in Nat \ {0} /\ AudioSpan % 4 = 0
  BY AudioAssumption
<1> QED
  BY <1>1

\* A packet takes its shard.
LEMMA ShardFilled ==
  ASSUME Rtp!AudioInv
  PROVE  /\ Rtp!Filled \in [0..3 -> Nat]
         /\ \A k \in 0..3 : (v1 - (v1 % 4)) + k <= v1 => Rtp!Filled[k] = (v1 - (v1 % 4)) + k
<1>1. /\ v1 \in 0 .. AudioSpan - 1 /\ v2 \in [0..3 -> Nat]
      /\ \A k \in 0..3 : (v1 - (v1 % 4)) + k < v1 => v2[k] = (v1 - (v1 % 4)) + k
  BY DEF Rtp!AudioInv
<1>2. v1 \in Nat /\ v1 % 4 \in 0..3 /\ Rtp!Filled = [v2 EXCEPT ![v1 % 4] = v1]
  BY <1>1, BlockOfFour DEF Rtp!Filled
<1> DEFINE r == v1 % 4
<1>3. \A k \in 0..3 : Rtp!Filled[k] = IF k = r THEN v1 ELSE v2[k]
  BY <1>1, <1>2
<1>4. Rtp!Filled \in [0..3 -> Nat]
  BY <1>1, <1>2
<1> QED
  BY <1>1, <1>2, <1>3, <1>4

\* What the shards and the base must be after a packet, at its place in the block.
LEMMA BlockGrows ==
  ASSUME Rtp!AudioInv, v2' = Rtp!Filled, v1' = (v1 + 1) % AudioSpan, v3' \in Nat, v6' \in BOOLEAN,
         v6' => v3' = v1 - (v1 % 4), Rtp!ParityMatches'
  PROVE  Rtp!AudioInv'
<1>1. v1 \in 0 .. AudioSpan - 1 /\ AudioSpan \in Nat \ {0} /\ AudioSpan % 4 = 0
  BY AudioAssumption DEF Rtp!AudioInv
<1>2. v1' = IF v1 + 1 = AudioSpan THEN 0 ELSE v1 + 1
  BY <1>1, NextNumber
<1>3. v2' \in [0..3 -> Nat] /\ \A k \in 0..3 : (v1 - (v1 % 4)) + k <= v1 => v2'[k] = (v1 - (v1 % 4)) + k
  BY ShardFilled
<1>4. CASE v1 % 4 = 3
  <2>1. v1' \in 0 .. AudioSpan - 1 /\ v1' % 4 = 0
    BY <1>1, <1>2, <1>4, BlockOfFour
  <2> QED
    BY <1>3, <2>1 DEF Rtp!AudioInv
<1>5. CASE v1 % 4 # 3
  <2>1. v1' = v1 + 1 /\ v1' \in 0 .. AudioSpan - 1 /\ v1' - (v1' % 4) = v1 - (v1 % 4)
    BY <1>1, <1>2, <1>5, BlockOfFour
  <2>2. \A k \in 0..3 : (v1 - (v1 % 4)) + k < v1' => (v1 - (v1 % 4)) + k <= v1
    BY <1>1, <2>1, BlockOfFour
  <2> QED
    BY <1>3, <2>1, <2>2 DEF Rtp!AudioInv
<1> QED
  BY <1>4, <1>5

\* The parity of a block that is full.
LEMMA ParityOfBlock ==
  ASSUME Rtp!AudioInv, v1 % 4 = 3, NEW base, NEW fresh, fresh => base = v1 - 3,
         v4' = [base |-> base, first |-> (v1 + 1) % AudioSpan,
                covers |-> {Rtp!Filled[k] : k \in DOMAIN Rtp!Filled}, fresh |-> fresh]
  PROVE  Rtp!ParityMatches'
<1> DEFINE f == (v4'.first + AudioSpan - 4) % AudioSpan
<1>1. v1 \in 0 .. AudioSpan - 1 /\ AudioSpan \in Nat \ {0} /\ AudioSpan % 4 = 0
  BY AudioAssumption DEF Rtp!AudioInv
<1>2. v4'.first = (v1 + 1) % AudioSpan /\ v4'.base = base /\ v4'.fresh = fresh
      /\ v4'.covers = {Rtp!Filled[k] : k \in DOMAIN Rtp!Filled}
  OBVIOUS
<1>3. v1 - 3 \in 0 .. AudioSpan - 1 /\ (v1 - 3) % 4 = 0
  BY <1>1, BlockOfFour
<1>4. f = v1 - 3
  <2>1. v4'.first = IF v1 + 1 = AudioSpan THEN 0 ELSE v1 + 1
    BY <1>1, <1>2, NextNumber
  <2>2. v4'.first + AudioSpan - 4 \in {v1 - 3, (v1 - 3) + AudioSpan}
    BY <1>1, <2>1
  <2> HIDE DEF f
  <2>3. f = (v1 - 3) % AudioSpan \/ f = ((v1 - 3) + AudioSpan) % AudioSpan
    BY <2>2 DEF f
  <2> QED
    BY <1>3, <2>3, NextNumber
<1>5. \A k \in 0..3 : Rtp!Filled[k] = (v1 - 3) + k /\ ((v1 - 3) + k) % AudioSpan = (v1 - 3) + k
  <2>1. \A k \in 0..3 : (v1 - 3) + k <= v1 /\ (v1 - 3) + k \in 0 .. AudioSpan - 1
    BY <1>1, <1>3
  <2> QED
    BY <2>1, ShardFilled, NextNumber
<1>6. DOMAIN Rtp!Filled = 0..3
  BY ShardFilled
<1>7. v4'.covers = {((v1 - 3) + i) % AudioSpan : i \in 0..3}
  BY <1>2, <1>5, <1>6
<1> HIDE DEF f
<1>8. v4'.covers = {(f + i) % AudioSpan : i \in 0 .. 4 - 1}
  BY <1>4, <1>7
<1>9. f % 4 = 0 /\ (v4'.fresh => v4'.base = f)
  BY <1>2, <1>3, <1>4
<1> QED
  BY <1>8, <1>9 DEF f, Rtp!ParityMatches

\* Parity packets keep matching their block.
LEMMA AudioStep == Rtp!AudioInv /\ [Rtp!AudioNext]_(Rtp!audioVars) => Rtp!AudioInv'
<1> SUFFICES ASSUME Rtp!AudioInv, [Rtp!AudioNext]_(Rtp!audioVars) PROVE Rtp!AudioInv'
  OBVIOUS
<1>1. /\ v1 \in 0 .. AudioSpan - 1 /\ AudioSpan \in Nat \ {0}
      /\ v3 \in Nat /\ v6 \in BOOLEAN /\ Rtp!ParityMatches
      /\ v1 - (v1 % 4) < v1 /\ v6 => v3 = v1 - (v1 % 4)
  BY AudioAssumption DEF Rtp!AudioInv
<1>2. v1 % 4 \in 0..3 /\ (v1 % 4 = 0 \/ v1 - (v1 % 4) < v1)
  BY <1>1, BlockOfFour
<1>3. CASE UNCHANGED Rtp!audioVars
  BY <1>3 DEF Rtp!audioVars, Rtp!AudioInv, Rtp!ParityMatches
<1>4. CASE Rtp!SendAudio
  <2> DEFINE base == IF v1 % 4 = 0 THEN v1 ELSE v3
  <2>1. /\ v2' = Rtp!Filled /\ v1' = (v1 + 1) % AudioSpan /\ v3' = base
        /\ v6' = (v6 \/ v1 % 4 = 0)
        /\ v4' = IF (v1 + 1) % 4 = 0
                 THEN [base |-> base, first |-> (v1 + 1) % AudioSpan,
                       covers |-> {Rtp!Filled[k] : k \in DOMAIN Rtp!Filled}, fresh |-> v6']
                 ELSE v4
    BY <1>4 DEF Rtp!SendAudio, Rtp!First
  <2>2. v6' \in BOOLEAN /\ (v6' => base = v1 - (v1 % 4)) /\ base \in Nat
    BY <1>1, <1>2, <2>1
  <2>3. Rtp!ParityMatches'
    <3>1. CASE v1 % 4 = 3
      <4>1. (v1 + 1) % 4 = 0 /\ (v6' => base = v1 - 3)
        BY <1>1, <2>2, <3>1, BlockOfFour
      <4> HIDE DEF base
      <4> QED
        BY <2>1, <3>1, <4>1, ParityOfBlock
    <3>2. CASE v1 % 4 # 3
      <4>1. (v1 + 1) % 4 # 0
        BY <1>1, <1>2, <3>2, BlockOfFour
      <4> QED
        BY <1>1, <2>1, <4>1 DEF Rtp!ParityMatches
    <3> QED
      BY <3>1, <3>2
  <2> QED
    BY <2>1, <2>2, <2>3, BlockGrows
<1>5. CASE Rtp!SendThrows
  <2>1. v2' = Rtp!Filled /\ v1' = (v1 + 1) % AudioSpan /\ v3' = v3 /\ v4' = v4
        /\ v6' = (v6 /\ ~(v1 % 4 = 0))
    BY <1>5 DEF Rtp!SendThrows, Rtp!First
  <2>2. v6' \in BOOLEAN /\ (v6' => v3' = v1 - (v1 % 4)) /\ v3' \in Nat
    BY <1>1, <1>2, <2>1
  <2>3. Rtp!ParityMatches'
    BY <1>1, <2>1 DEF Rtp!ParityMatches
  <2> QED
    BY <2>1, <2>2, <2>3, BlockGrows
<1>6. CASE Rtp!EncryptFails
  BY <1>6 DEF Rtp!EncryptFails, Rtp!AudioInv, Rtp!ParityMatches
<1> QED
  BY <1>3, <1>4, <1>5, <1>6 DEF Rtp!AudioNext

(***************************************************************************)
(* The shards of a block (stream.cpp; linux/misc.cpp, send_batch).         *)
(***************************************************************************)

\* The end of the batch under way, and up to where a shard may have gone out twice.
BatchEnd == IF v4 = "idle" THEN v2 ELSE v2 + v3
TwiceUpTo == IF v4 = "each" THEN Rtp!Dealt ELSE v2

\* Which shards went out twice, and in what order.
InPairs(w, torn, e) ==
  \A i, j \in DOMAIN w : i < j =>
    /\ ~torn => w[i] < w[j]
    /\ w[i] = w[j] => w[i] <= e
    /\ \A k \in DOMAIN w : j < k /\ w[i] = w[j] => w[k] # w[i]

\* What went out, when the shards up to d are dealt with, the batch ends at end and
\* a shard up to twice may have gone out twice.
Spread(path, d, end, twice, w, drop, fault) ==
  /\ w \in Seq(Nat) /\ drop \subseteq 1..twice
  /\ Rtp!ToSet(w) \subseteq 1..end
  /\ path # "each" \/ "part" \notin fault => Rtp!ToSet(w) \subseteq 1..d
  /\ "poll" \notin fault => 1..d \subseteq Rtp!ToSet(w) \cup drop
  /\ InPairs(w, "part" \in fault, twice)

\* The invariant of the given values.
Sending(count, next, size, path, seg, w, drop, fault) ==
  /\ count \in Nat /\ next \in Nat /\ seg \in Nat /\ size \in Nat
  /\ path = "idle" => Spread(path, next, next, next, w, drop, fault)
  /\ path \in {"gso", "mmsg"} => seg < size /\ Spread(path, next + seg, next + size, next, w, drop, fault)
  /\ path = "each" => seg < size /\ Spread(path, next + seg, next + size, next + seg, w, drop, fault)
  /\ path \in {"idle", "gso", "mmsg", "each"}

\* It is the invariant, now and after a step.
LEMMA SendInvMeans ==
  /\ Rtp!SendInv <=> Sending(v1, v2, v3, v4, v5, v6, v7, v8)
  /\ Rtp!SendInv' <=> Sending(v1', v2', v3', v4', v5', v6', v7', v8')
<1>1. Rtp!SendInv <=> Sending(v1, v2, v3, v4, v5, v6, v7, v8)
  BY DEF Rtp!SendInv, Sending, Spread, Rtp!Dealt, InPairs, Rtp!ToSet
<1>2. Rtp!SendInv' <=> Sending(v1', v2', v3', v4', v5', v6', v7', v8')
  BY DEF Rtp!SendInv, Sending, Spread, Rtp!Dealt, InPairs, Rtp!ToSet
<1> QED
  BY <1>1, <1>2

\* What is said of pairs stays true of a later limit.
LEMMA PairsStay ==
  ASSUME NEW w \in Seq(Nat), NEW torn, NEW e, InPairs(w, torn, e), NEW torn2, NEW f,
         torn => torn2, e \in Nat, f \in Nat, e <= f
  PROVE  InPairs(w, torn2, f)
<1> SUFFICES ASSUME NEW i \in DOMAIN w, NEW j \in DOMAIN w, i < j
             PROVE  /\ ~torn2 => w[i] < w[j]
                    /\ w[i] = w[j] => w[i] <= f
                    /\ \A k \in DOMAIN w : j < k /\ w[i] = w[j] => w[k] # w[i]
  BY DEF InPairs
<1>1. /\ ~torn => w[i] < w[j]
      /\ w[i] = w[j] => w[i] <= e
      /\ \A k \in DOMAIN w : j < k /\ w[i] = w[j] => w[k] # w[i]
  BY Zenon DEF InPairs
<1>2. w[i] \in Nat
  OBVIOUS
<1> QED
  BY <1>1, <1>2

\* The shards the kernel takes follow those it has.
LEMMA Taken ==
  ASSUME NEW w \in Seq(Nat), NEW d \in Nat, NEW k \in Nat
  PROVE  LET u == w \o [i \in 1..k |-> d + i]
         IN /\ u \in Seq(Nat) /\ Len(u) = Len(w) + k
            /\ \A i \in 1..Len(w) : u[i] = w[i]
            /\ \A i \in Len(w) + 1..Len(w) + k : u[i] = d + (i - Len(w))
            /\ Rtp!ToSet(u) = Rtp!ToSet(w) \cup (d + 1..d + k)
<1> DEFINE p == [i \in 1..k |-> d + i]
           u == w \o p
<1>1. p \in Seq(Nat) /\ Len(p) = k /\ \A i \in 1..k : p[i] = d + i
  OBVIOUS
<1> HIDE DEF p
<1>2. /\ u \in Seq(Nat) /\ Len(u) = Len(w) + k
      /\ \A i \in 1..Len(w) : u[i] = w[i]
      /\ \A i \in Len(w) + 1..Len(w) + k : u[i] = p[i - Len(w)]
  <2>1. /\ u \in Seq(Nat) /\ Len(u) = Len(w) + Len(p)
        /\ \A i \in 1..Len(w) + Len(p) : u[i] = IF i <= Len(w) THEN w[i] ELSE p[i - Len(w)]
    BY <1>1, ConcatProperties, Zenon
  <2> DEFINE l == Len(w)
  <2>2. l \in Nat
    OBVIOUS
  <2> HIDE DEF u, l
  <2>3. u \in Seq(Nat) /\ Len(u) = l + k
    BY <1>1, <2>1 DEF l
  <2>4. \A i \in 1 .. l + k : u[i] = IF i <= l THEN w[i] ELSE p[i - l]
    BY <1>1, <2>1 DEF l
  <2>5. \A i \in 1..l : u[i] = w[i]
    BY <2>2, <2>4
  <2>6. \A i \in l + 1 .. l + k : u[i] = p[i - l]
    BY <2>2, <2>4
  <2> QED
    BY <2>3, <2>5, <2>6 DEF l
<1> HIDE DEF u
<1>3. \A i \in Len(w) + 1..Len(w) + k : u[i] = d + (i - Len(w))
  BY <1>1, <1>2
<1>4. DOMAIN u = 1..Len(w) + k /\ DOMAIN w = 1..Len(w) /\ Len(w) \in Nat
  BY <1>2
<1>5. ASSUME NEW x \in Rtp!ToSet(u) PROVE x \in Rtp!ToSet(w) \cup (d + 1..d + k)
  <2>1. PICK i \in 1..Len(w) + k : x = u[i]
    BY <1>4, <1>5 DEF Rtp!ToSet
  <2>2. CASE i <= Len(w)
    <3>1. i \in DOMAIN w /\ x = w[i]
      BY <1>2, <1>4, <2>1, <2>2
    <3> QED
      BY <3>1 DEF Rtp!ToSet
  <2>3. CASE ~(i <= Len(w))
    BY <1>3, <1>4, <2>1, <2>3
  <2> QED
    BY <2>2, <2>3
<1>6. ASSUME NEW x \in Rtp!ToSet(w) PROVE x \in Rtp!ToSet(u)
  BY <1>2, <1>4, <1>6 DEF Rtp!ToSet
<1>7. ASSUME NEW x \in d + 1..d + k PROVE x \in Rtp!ToSet(u)
  <2>1. x - d + Len(w) \in 1..Len(w) + k /\ u[x - d + Len(w)] = x
    BY <1>3, <1>4
  <2> QED
    BY <1>4, <2>1 DEF Rtp!ToSet
<1>8. Rtp!ToSet(u) = Rtp!ToSet(w) \cup (d + 1..d + k)
  BY <1>5, <1>6, <1>7
<1> QED
  BY <1>2, <1>3, <1>8 DEF u, p

\* Shards beyond all that went out keep the order.
LEMMA TakenInOrder ==
  ASSUME NEW w \in Seq(Nat), NEW d \in Nat, NEW k \in Nat, NEW torn \in BOOLEAN, NEW e, NEW f,
         InPairs(w, torn, e), Rtp!ToSet(w) \subseteq 1..d, e \in Nat, f \in Nat, e <= f
  PROVE  InPairs(w \o [i \in 1..k |-> d + i], torn, f)
<1> DEFINE u == w \o [i \in 1..k |-> d + i]
<1>1. /\ u \in Seq(Nat) /\ Len(u) = Len(w) + k
      /\ \A i \in 1..Len(w) : u[i] = w[i]
      /\ \A i \in Len(w) + 1..Len(w) + k : u[i] = d + (i - Len(w))
  BY Taken
<1> HIDE DEF u
<1>2. DOMAIN u = 1..Len(w) + k /\ DOMAIN w = 1..Len(w) /\ Len(w) \in Nat
  BY <1>1
<1>3. \A i \in 1..Len(w) : w[i] \in 1..d
  BY <1>2 DEF Rtp!ToSet
<1>4. SUFFICES ASSUME NEW i \in DOMAIN u, NEW j \in DOMAIN u, i < j
               PROVE  /\ ~torn => u[i] < u[j]
                      /\ u[i] = u[j] => u[i] <= f
                      /\ \A l \in DOMAIN u : j < l /\ u[i] = u[j] => u[l] # u[i]
  BY DEF InPairs, u
<1>5. CASE j <= Len(w)
  <2>1. i \in 1..Len(w) /\ j \in 1..Len(w) /\ u[i] = w[i] /\ u[j] = w[j]
    BY <1>1, <1>2, <1>4, <1>5
  <2>2. (~torn => w[i] < w[j]) /\ (w[i] = w[j] => w[i] <= e)
    BY <1>2, <1>4, <2>1 DEF InPairs
  <2>3. ASSUME NEW l \in DOMAIN u, j < l, u[i] = u[j] PROVE u[l] # u[i]
    <3>1. CASE l <= Len(w)
      <4>1. l \in 1..Len(w) /\ u[l] = w[l]
        BY <1>1, <1>2, <3>1
      <4> QED
        BY <1>2, <1>4, <2>1, <2>3, <4>1 DEF InPairs
    <3>2. CASE ~(l <= Len(w))
      <4>1. u[l] > d
        BY <1>1, <1>2, <3>2
      <4> QED
        BY <1>3, <2>1, <4>1
    <3> QED
      BY <3>1, <3>2
  <2>4. w[i] \in Nat
    BY <2>1
  <2> QED
    BY <2>1, <2>2, <2>3, <2>4
<1>6. CASE ~(j <= Len(w))
  <2>1. j \in Len(w) + 1..Len(w) + k
    BY <1>2, <1>6
  <2>2. u[j] = d + (j - Len(w)) /\ u[j] > d /\ u[j] \in Nat
    BY <1>1, <1>2, <2>1
  <2>3. u[i] < u[j]
    <3>1. CASE i <= Len(w)
      <4>1. i \in 1..Len(w)
        BY <1>2, <3>1
      <4>2. u[i] = w[i] /\ w[i] \in 1..d
        BY <1>1, <1>3, <4>1
      <4> QED
        BY <2>2, <4>2
    <3>2. CASE ~(i <= Len(w))
      <4>1. i \in Len(w) + 1..Len(w) + k
        BY <1>2, <3>2
      <4>2. u[i] = d + (i - Len(w))
        BY <1>1, <4>1
      <4> QED
        BY <1>2, <1>4, <2>1, <2>2, <4>1, <4>2
    <3> QED
      BY <3>1, <3>2
  <2>4. u[i] \in Nat /\ u[j] \in Nat
    BY <1>1
  <2> QED
    BY <2>3, <2>4
<1> QED
  BY <1>5, <1>6

\* A shard that is sent again goes out a second time at most.
LEMMA SentAgain ==
  ASSUME NEW w \in Seq(Nat), NEW d \in Nat, InPairs(w, TRUE, d)
  PROVE  InPairs(w \o [i \in 1..1 |-> d + i], TRUE, d + 1)
<1> DEFINE u == w \o [i \in 1..1 |-> d + i]
<1>1. /\ u \in Seq(Nat) /\ Len(u) = Len(w) + 1
      /\ \A i \in 1..Len(w) : u[i] = w[i]
      /\ \A i \in Len(w) + 1..Len(w) + 1 : u[i] = d + (i - Len(w))
  BY Taken
<1> HIDE DEF u
<1>2. DOMAIN u = 1..Len(w) + 1 /\ DOMAIN w = 1..Len(w) /\ Len(w) \in Nat /\ u[Len(w) + 1] = d + 1
  BY <1>1
<1>3. SUFFICES ASSUME NEW i \in DOMAIN u, NEW j \in DOMAIN u, i < j, u[i] = u[j]
               PROVE  u[i] <= d + 1 /\ \A l \in DOMAIN u : j < l => u[l] # u[i]
  BY DEF InPairs, u
<1>4. CASE j <= Len(w)
  <2>1. i \in 1..Len(w) /\ j \in 1..Len(w) /\ u[i] = w[i] /\ u[j] = w[j]
    BY <1>1, <1>2, <1>3, <1>4
  <2>2. w[i] = w[j] /\ i \in DOMAIN w /\ j \in DOMAIN w
    BY <1>2, <1>3, <2>1
  <2>3. w[i] <= d
    BY <1>3, <2>2, Zenon DEF InPairs
  <2>4. w[i] <= d /\ w[i] \in Nat
    BY <2>1, <2>3
  <2>5. ASSUME NEW l \in DOMAIN u, j < l PROVE u[l] # u[i]
    <3>1. CASE l <= Len(w)
      <4>1. l \in 1..Len(w) /\ u[l] = w[l]
        BY <1>1, <1>2, <3>1
      <4> QED
        BY <1>2, <1>3, <2>1, <2>5, <4>1 DEF InPairs
    <3>2. CASE ~(l <= Len(w))
      BY <1>2, <2>1, <2>4, <3>2
    <3> QED
      BY <3>1, <3>2
  <2> QED
    BY <2>1, <2>4, <2>5
<1>5. CASE ~(j <= Len(w))
  <2>1. j = Len(w) + 1
    BY <1>2, <1>5
  <2> QED
    BY <1>2, <1>3, <2>1
<1> QED
  BY <1>4, <1>5

\* Where the sending stands when k more shards of a batch are dealt with.
LEMMA Advances ==
  ASSUME Rtp!SendInv, v4 # "idle", NEW k \in Nat, k <= v3 - v5, Rtp!Advance(k)
  PROVE  /\ v2' \in Nat /\ v5' \in Nat /\ v3' = v3 /\ v4' \in {v4, "idle"} /\ (v4' # "idle" => v5' < v3')
         /\ Rtp!Dealt = v2 + v5 /\ Rtp!Dealt \in Nat /\ Rtp!Dealt' = Rtp!Dealt + k
         /\ BatchEnd = v2 + v3 /\ BatchEnd' = BatchEnd /\ Rtp!Dealt + k <= BatchEnd
         /\ v4' = "idle" => BatchEnd' = Rtp!Dealt'
         /\ TwiceUpTo' \in Nat /\ TwiceUpTo' >= (IF v4 = "each" THEN Rtp!Dealt' ELSE v2)
<1>1. v2 \in Nat /\ v5 \in Nat /\ v3 \in Nat /\ v4 \in {"gso", "mmsg", "each"} /\ v5 < v3
  BY SendInvMeans DEF Sending
<1>2. \/ v5 + k = v3 /\ v4' = "idle" /\ v2' = v2 + v3 /\ v3' = v3 /\ v5' = v5
      \/ v5 + k # v3 /\ v5' = v5 + k /\ v4' = v4 /\ v2' = v2 /\ v3' = v3
  BY DEF Rtp!Advance, Rtp!BatchOver
<1>3. Rtp!Dealt = v2 + v5 /\ BatchEnd = v2 + v3
  BY DEF Rtp!Dealt, BatchEnd
<1> QED
  BY <1>1, <1>2, <1>3 DEF Rtp!Dealt, BatchEnd, TwiceUpTo

\* The kernel takes shards that nobody has sent yet, or one of them again.
LEMMA TakeStep ==
  ASSUME Rtp!SendInv, v4 # "idle", NEW k \in Nat, k <= v3 - v5, Rtp!Take(k), Rtp!Advance(k),
         v4 = "each" => k = 1, v1' = v1, v7' = v7, v8' = v8
  PROVE  Rtp!SendInv'
<1> DEFINE d == Rtp!Dealt
<1>1. /\ v2' \in Nat /\ v5' \in Nat /\ v3' = v3 /\ v4' \in {v4, "idle"} /\ (v4' # "idle" => v5' < v3')
      /\ d = v2 + v5 /\ d \in Nat /\ Rtp!Dealt' = d + k
      /\ BatchEnd = v2 + v3 /\ BatchEnd' = BatchEnd /\ d + k <= BatchEnd
      /\ v4' = "idle" => BatchEnd' = Rtp!Dealt'
      /\ TwiceUpTo' \in Nat /\ TwiceUpTo' >= (IF v4 = "each" THEN d + k ELSE v2)
  BY Advances
<1>2. /\ v2 \in Nat /\ v5 \in Nat /\ v3 \in Nat /\ v4 \in {"gso", "mmsg", "each"}
      /\ v6 \in Seq(Nat) /\ v7 \subseteq 1..TwiceUpTo /\ TwiceUpTo \in Nat /\ TwiceUpTo <= d
      /\ Rtp!ToSet(v6) \subseteq 1..BatchEnd
      /\ v4 # "each" \/ "part" \notin v8 => Rtp!ToSet(v6) \subseteq 1..d
      /\ "poll" \notin v8 => 1..d \subseteq Rtp!ToSet(v6) \cup v7
      /\ InPairs(v6, "part" \in v8, TwiceUpTo)
  BY SendInvMeans DEF Sending, Spread, Rtp!Dealt, BatchEnd, TwiceUpTo
<1>3. v6' = v6 \o [i \in 1..k |-> d + i]
  BY <1>1 DEF Rtp!Take
<1> HIDE DEF d
<1>4. v6' \in Seq(Nat) /\ Rtp!ToSet(v6') = Rtp!ToSet(v6) \cup (d + 1..d + k)
  <2> DEFINE u == v6 \o [i \in 1..k |-> d + i]
  <2>1. u \in Seq(Nat) /\ Rtp!ToSet(u) = Rtp!ToSet(v6) \cup (d + 1..d + k)
    <3>1. v6 \in Seq(Nat) /\ d \in Nat
      BY <1>1, <1>2
    <3>2. u \in Seq(Nat)
      BY <3>1, Taken
    <3>3. Rtp!ToSet(u) = Rtp!ToSet(v6) \cup (d + 1..d + k)
      BY <3>1, Taken
    <3> QED
      BY <3>2, <3>3
  <2> HIDE DEF u
  <2>2. v6' = u
    BY <1>3 DEF u
  <2> QED
    BY <2>1, <2>2
<1>5. Rtp!ToSet(v6') \subseteq 1..BatchEnd'
  BY <1>1, <1>2, <1>4
<1>6. v4' # "each" \/ "part" \notin v8' => Rtp!ToSet(v6') \subseteq 1..Rtp!Dealt'
  <2>1. CASE v4 # "each" \/ "part" \notin v8
    BY <1>1, <1>2, <1>4, <2>1
  <2>2. CASE v4' = "idle"
    BY <1>1, <1>5, <2>2
  <2> QED
    BY <1>1, <2>1, <2>2
<1>7. "poll" \notin v8' => 1..Rtp!Dealt' \subseteq Rtp!ToSet(v6') \cup v7'
  BY <1>1, <1>2, <1>4
<1>8. InPairs(v6', "part" \in v8', TwiceUpTo')
  <2>1. CASE v4 # "each" \/ "part" \notin v8
    <3>1. TwiceUpTo \in Nat /\ TwiceUpTo <= TwiceUpTo'
      BY <1>1, <1>2 DEF TwiceUpTo, d
    <3>2. Rtp!ToSet(v6) \subseteq 1..d
      BY <1>2, <2>1
    <3> DEFINE torn == "part" \in v8
    <3>3. torn \in BOOLEAN /\ InPairs(v6, torn, TwiceUpTo)
      BY <1>2
    <3> HIDE DEF torn
    <3>4. InPairs(v6 \o [i \in 1..k |-> d + i], torn, TwiceUpTo')
      BY <1>1, <1>2, <3>1, <3>2, <3>3, TakenInOrder
    <3> QED
      BY <1>3, <3>4 DEF torn
  <2>2. CASE v4 = "each" /\ "part" \in v8
    <3>1. k = 1 /\ InPairs(v6, TRUE, d)
      <4>1. TwiceUpTo = d /\ ("part" \in v8 <=> TRUE)
        BY <2>2 DEF TwiceUpTo, d
      <4> QED
        BY <1>2, <2>2, <4>1 DEF InPairs
    <3>2. InPairs(v6', TRUE, d + 1)
      BY <1>1, <1>2, <1>3, <3>1, SentAgain
    <3>3. d + 1 <= TwiceUpTo' /\ ("part" \in v8')
      BY <1>1, <2>2, <3>1
    <3>4. ASSUME NEW i \in DOMAIN v6', NEW j \in DOMAIN v6', i < j, v6'[i] = v6'[j] PROVE v6'[i] <= TwiceUpTo'
      <4>1. v6'[i] <= d + 1
        BY <3>2, <3>4 DEF InPairs
      <4>2. v6'[i] \in Nat
        BY <1>4, <3>4
      <4> QED
        BY <1>1, <3>3, <4>1, <4>2
    <3> QED
      BY <3>2, <3>3, <3>4 DEF InPairs
  <2> QED
    BY <2>1, <2>2
<1>9. v7' \subseteq 1..TwiceUpTo'
  BY <1>1, <1>2 DEF TwiceUpTo, d
<1>10. Sending(v1', v2', v3', v4', v5', v6', v7', v8')
  <2>1. v1 \in Nat
    BY SendInvMeans DEF Sending
  <2>2. Spread(v4', Rtp!Dealt', BatchEnd', TwiceUpTo', v6', v7', v8')
    BY <1>4, <1>5, <1>6, <1>7, <1>8, <1>9, Zenon DEF Spread
  <2> QED
    BY <1>1, <1>2, <2>1, <2>2 DEF Sending, Rtp!Dealt, BatchEnd, TwiceUpTo
<1> QED
  BY <1>10, SendInvMeans

\* Before the first block nothing is sent.
LEMMA SendStarts == Rtp!SendInit => Rtp!SendInv
<1> SUFFICES ASSUME Rtp!SendInit PROVE Rtp!SendInv
  OBVIOUS
<1>1. v1 = 0 /\ v2 = 0 /\ v3 = 0 /\ v4 = "idle" /\ v5 = 0 /\ v6 = <<>> /\ v7 = {} /\ v8 = {}
  BY DEF Rtp!SendInit
<1>2. v6 \in Seq(Nat) /\ DOMAIN v6 = {} /\ Rtp!ToSet(v6) = {}
  BY <1>1 DEF Rtp!ToSet
<1> QED
  BY <1>1, <1>2 DEF Rtp!SendInv, Rtp!Dealt

\* The smaller of two numbers.
LEMMA SmallerOf ==
  ASSUME NEW a \in Nat, NEW b \in Nat
  PROVE  Rtp!Min({a, b}) \in {a, b} /\ Rtp!Min({a, b}) <= a /\ Rtp!Min({a, b}) <= b
<1> DEFINE m == IF a <= b THEN a ELSE b
<1>1. m \in {a, b} /\ \A y \in {a, b} : m <= y
  OBVIOUS
<1>2. Rtp!Min({a, b}) \in {a, b} /\ \A y \in {a, b} : Rtp!Min({a, b}) <= y
  BY <1>1 DEF Rtp!Min
<1> QED
  BY <1>2

\* A batch that fails falls back to the next way of sending.
LEMMA BatchFails ==
  ASSUME Rtp!SendInv, v4 \in {"gso", "mmsg"}, v5' = 0, v4' = "each" \/ (v4' = "mmsg" /\ v5 = 0),
         v8' = (IF v5 = 0 THEN v8 ELSE v8 \cup {"part"}),
         v1' = v1, v2' = v2, v3' = v3, v6' = v6, v7' = v7
  PROVE  Rtp!SendInv'
<1>1. Sending(v1, v2, v3, v4, v5, v6, v7, v8)
  BY SendInvMeans
<1>2. v2 \in Nat /\ v6 \in Seq(Nat) /\ InPairs(v6, "part" \in v8, v2)
  BY <1>1 DEF Sending, Spread
<1>3. InPairs(v6, "part" \in v8', v2)
  <2> DEFINE old == "part" \in v8
             new == "part" \in v8'
  <2>1. InPairs(v6, old, v2) /\ (old => new)
    BY <1>2
  <2> HIDE DEF old, new
  <2>2. InPairs(v6, new, v2)
    BY <1>2, <2>1, PairsStay
  <2> QED
    BY <2>2 DEF new
<1>4. Spread(v4', v2, v2 + v3, v2, v6, v7, v8')
  <2>1. v2 \in Nat /\ v3 \in Nat /\ v5 \in Nat /\ Spread(v4, v2 + v5, v2 + v3, v2, v6, v7, v8)
    BY <1>1 DEF Sending
  <2>2. Rtp!ToSet(v6) \subseteq 1..(v2 + v5) /\ Rtp!ToSet(v6) \subseteq 1..(v2 + v3) /\ v7 \subseteq 1..v2
    BY <2>1 DEF Spread
  <2>3. v4' # "each" \/ "part" \notin v8' => Rtp!ToSet(v6) \subseteq 1..v2
    <3>1. v5 = 0 \/ "part" \in v8'
      OBVIOUS
    <3>2. v5 = 0 => v2 + v5 = v2
      BY <2>1
    <3> QED
      BY <2>2, <3>1, <3>2
  <2>4. "poll" \notin v8' => 1..v2 \subseteq Rtp!ToSet(v6) \cup v7
    <3>1. ("poll" \in v8' <=> "poll" \in v8) /\ 1..v2 \subseteq 1..(v2 + v5)
      BY <2>1
    <3> QED
      BY <2>1, <3>1, Zenon DEF Spread
  <2> QED
    BY <1>2, <1>3, <2>2, <2>3, <2>4, Zenon DEF Spread
<1>5. v2 + 0 = v2 /\ v1 \in Nat /\ v2 \in Nat /\ v3 \in Nat /\ 0 < v3
  BY <1>1 DEF Sending
<1>6. Sending(v1, v2, v3, v4', 0, v6, v7, v8')
  BY <1>4, <1>5 DEF Sending
<1> QED
  BY <1>6, SendInvMeans

\* A shard whose own send fails is dropped.
LEMMA DropStep ==
  ASSUME Rtp!SendInv, v4 = "each", 1 <= v3 - v5, Rtp!Advance(1),
         v1' = v1, v6' = v6, v7' = v7 \cup {Rtp!Dealt + 1}, v8' = v8
  PROVE  Rtp!SendInv'
<1> DEFINE d == v2 + v5
           end == v2 + v3
<1>1. /\ v1 \in Nat /\ v2 \in Nat /\ v5 \in Nat /\ v3 \in Nat /\ v5 < v3
      /\ Spread("each", d, end, d, v6, v7, v8)
  BY SendInvMeans DEF Sending
<1>2. d \in Nat /\ end \in Nat /\ d + 1 <= end /\ Rtp!Dealt = d
  BY <1>1 DEF Rtp!Dealt
<1>3. \/ d + 1 = end /\ v4' = "idle" /\ v2' = end /\ v3' = v3 /\ v5' = v5
      \/ v4' = "each" /\ v2' = v2 /\ v3' = v3 /\ v5' = v5 + 1 /\ v5 + 1 < v3
  BY <1>1 DEF Rtp!Advance, Rtp!BatchOver
<1>4. v2 + (v5 + 1) = d + 1
  BY <1>1
<1> HIDE DEF d, end
<1>5. /\ v6 \in Seq(Nat) /\ v7 \subseteq 1..d /\ Rtp!ToSet(v6) \subseteq 1..end
      /\ "part" \notin v8 => Rtp!ToSet(v6) \subseteq 1..d
      /\ "poll" \notin v8 => 1..d \subseteq Rtp!ToSet(v6) \cup v7
      /\ InPairs(v6, "part" \in v8, d)
  BY <1>1 DEF Spread
<1>6. InPairs(v6, "part" \in v8, d + 1)
  BY <1>2, <1>5, PairsStay
<1>7. v7' \subseteq 1..d + 1 /\ ("poll" \notin v8 => 1..d + 1 \subseteq Rtp!ToSet(v6) \cup v7')
  BY <1>2, <1>5
<1>8. "part" \notin v8 => Rtp!ToSet(v6) \subseteq 1..d + 1
  BY <1>2, <1>5
<1>9. Spread("each", d + 1, end, d + 1, v6, v7', v8)
  BY <1>5, <1>6, <1>7, <1>8, Zenon DEF Spread
<1>10. d + 1 = end => Spread("idle", end, end, end, v6, v7', v8)
  BY <1>5, <1>6, <1>7, Zenon DEF Spread
<1>11. Sending(v1', v2', v3', v4', v5', v6', v7', v8')
  BY <1>1, <1>2, <1>3, <1>4, <1>9, <1>10 DEF Sending, end
<1> QED
  BY <1>11, SendInvMeans

\* Every shard goes out, and none a third time.
LEMMA SendStep == Rtp!SendInv /\ [Rtp!SendNext]_(Rtp!sendVars) => Rtp!SendInv'
<1> SUFFICES ASSUME Rtp!SendInv, [Rtp!SendNext]_(Rtp!sendVars) PROVE Rtp!SendInv'
  OBVIOUS
<1>1. Sending(v1, v2, v3, v4, v5, v6, v7, v8)
  BY SendInvMeans
<1>2. BatchSize \in Nat \ {0} /\ SegMax \in Nat \ {0} /\ MaxShards \in Nat
  BY SendAssumption
<1>3. CASE UNCHANGED Rtp!sendVars
  BY <1>1, <1>3, SendInvMeans DEF Rtp!sendVars
<1>4. ASSUME NEW n \in 1..MaxShards, Rtp!StartBlock(n) PROVE Rtp!SendInv'
  <2>1. v1' = n /\ v2' = 0 /\ v3' = v3 /\ v4' = "idle" /\ v5' = v5 /\ v6' = <<>> /\ v7' = {} /\ v8' = {}
    BY <1>4 DEF Rtp!StartBlock
  <2>2. Spread("idle", 0, 0, 0, <<>>, {}, {})
    BY DEF Rtp!ToSet, InPairs, Spread
  <2>3. v3 \in Nat /\ v5 \in Nat
    BY <1>1 DEF Sending
  <2>4. Sending(n, 0, v3, "idle", v5, <<>>, {}, {})
    BY <1>2, <2>2, <2>3 DEF Sending
  <2> QED
    BY <2>1, <2>4, SendInvMeans
<1>5. CASE Rtp!NextBatch
  <2>1. /\ v4 = "idle" /\ v2 < v1 /\ v3' = Rtp!Min({BatchSize, v1 - v2}) /\ v5' = 0 /\ v4' = "gso"
        /\ v1' = v1 /\ v2' = v2 /\ v6' = v6 /\ v7' = v7 /\ v8' = v8
    BY <1>5 DEF Rtp!NextBatch
  <2>2. v1 - v2 \in Nat \ {0}
    BY <1>1, <2>1 DEF Sending
  <2>3. v3' \in Nat \ {0}
    BY <1>2, <2>1, <2>2, SmallerOf
  <2>4. v1 \in Nat /\ v2 \in Nat /\ Spread("idle", v2, v2, v2, v6, v7, v8)
    BY <1>1, <2>1 DEF Sending
  <2>5. 1..v2 \subseteq 1..(v2 + v3')
    <3> DEFINE n == v3'
    <3>1. v2 \in Nat /\ n \in Nat
      BY <2>3, <2>4
    <3> HIDE DEF n
    <3>2. 1..v2 \subseteq 1..(v2 + n)
      BY <3>1
    <3> QED
      BY <3>2 DEF n
  <2>6. Spread("gso", v2, v2 + v3', v2, v6, v7, v8)
    BY <2>4, <2>5 DEF Spread
  <2>7. v2 + 0 = v2 /\ 0 < v3'
    BY <2>3, <2>4
  <2>8. Sending(v1, v2, v3', "gso", 0, v6, v7, v8)
    BY <2>3, <2>4, <2>6, <2>7 DEF Sending
  <2> QED
    BY <2>1, <2>8, SendInvMeans
<1>6. CASE Rtp!GsoSend
  <2> DEFINE k == Rtp!Min({SegMax, v3 - v5})
  <2>1. v4 = "gso" /\ Rtp!Take(k) /\ Rtp!Advance(k) /\ v1' = v1 /\ v7' = v7 /\ v8' = v8
    BY <1>6 DEF Rtp!GsoSend
  <2>2. k \in Nat /\ k <= v3 - v5
    <3>1. v3 - v5 \in Nat
      BY <1>1, <2>1 DEF Sending
    <3> QED
      BY <1>2, <3>1, SmallerOf
  <2> HIDE DEF k
  <2> QED
    BY <2>1, <2>2, TakeStep
<1>7. CASE Rtp!GsoFails
  <2>1. /\ v4 = "gso" /\ v5' = 0 /\ v4' = (IF v5 = 0 THEN "mmsg" ELSE "each")
        /\ v8' = (IF v5 = 0 THEN v8 ELSE v8 \cup {"part"})
        /\ v1' = v1 /\ v2' = v2 /\ v3' = v3 /\ v6' = v6 /\ v7' = v7
    BY <1>7 DEF Rtp!GsoFails
  <2> QED
    BY <2>1, BatchFails
<1>8. ASSUME NEW k \in 1..BatchSize, Rtp!MmsgSend(k) PROVE Rtp!SendInv'
  <2>1. v4 = "mmsg" /\ k <= v3 - v5 /\ Rtp!Take(k) /\ Rtp!Advance(k) /\ v1' = v1 /\ v7' = v7 /\ v8' = v8
    BY <1>8 DEF Rtp!MmsgSend
  <2> QED
    BY <2>1, TakeStep
<1>9. ASSUME NEW poll \in BOOLEAN, Rtp!MmsgFails(poll) PROVE Rtp!SendInv'
  <2>1. v4 = "mmsg" /\ v1' = v1 /\ v6' = v6 /\ v7' = v7
    BY <1>9 DEF Rtp!MmsgFails
  <2>2. CASE poll
    <3>1. v4' = "idle" /\ v2' = v2 + v3 /\ v3' = v3 /\ v5' = v5 /\ v8' = v8 \cup {"poll"}
      BY <1>9, <2>2 DEF Rtp!MmsgFails, Rtp!BatchOver
    <3> DEFINE end == v2 + v3
    <3>2. /\ v1 \in Nat /\ v2 \in Nat /\ v3 \in Nat /\ v5 \in Nat /\ end \in Nat /\ v2 <= end
          /\ Spread("mmsg", v2 + v5, end, v2, v6, v7, v8)
      BY <1>1, <2>1 DEF Sending
    <3> HIDE DEF end
    <3>3. /\ v6 \in Seq(Nat) /\ v7 \subseteq 1..v2 /\ Rtp!ToSet(v6) \subseteq 1..end
          /\ InPairs(v6, "part" \in v8, v2)
      BY <3>2 DEF Spread
    <3>4. InPairs(v6, "part" \in v8, end)
      BY <3>2, <3>3, PairsStay
    <3>5. v7 \subseteq 1..end
      BY <3>2, <3>3
    <3>6. ("part" \in v8 \cup {"poll"}) <=> ("part" \in v8)
      OBVIOUS
    <3>7. InPairs(v6, "part" \in v8 \cup {"poll"}, end)
      BY <3>4, <3>6 DEF InPairs
    <3>8. Spread("idle", end, end, end, v6, v7, v8 \cup {"poll"})
      BY <3>3, <3>5, <3>7 DEF Spread
    <3>9. Sending(v1, end, v3, "idle", v5, v6, v7, v8 \cup {"poll"})
      BY <3>2, <3>8 DEF Sending
    <3> QED
      BY <2>1, <3>1, <3>9, SendInvMeans DEF end
  <2>3. CASE ~poll
    <3>1. /\ v5' = 0 /\ v4' = "each" /\ v2' = v2 /\ v3' = v3
          /\ v8' = (IF v5 = 0 THEN v8 ELSE v8 \cup {"part"})
      BY <1>9, <2>3 DEF Rtp!MmsgFails
    <3> QED
      BY <2>1, <3>1, BatchFails
  <2> QED
    BY <2>2, <2>3
<1>10. ASSUME NEW ok \in BOOLEAN, Rtp!SendEach(ok) PROVE Rtp!SendInv'
  <2>1. v4 = "each" /\ Rtp!Advance(1) /\ v1' = v1 /\ v8' = v8 /\ 1 <= v3 - v5
    <3>1. v4 = "each" /\ Rtp!Advance(1) /\ v1' = v1 /\ v8' = v8
      BY <1>10 DEF Rtp!SendEach
    <3> QED
      BY <1>1, <3>1 DEF Sending
  <2>2. CASE ok
    BY <1>10, <2>1, <2>2, TakeStep DEF Rtp!SendEach
  <2>3. CASE ~ok
    <3>1. v6' = v6 /\ v7' = v7 \cup {Rtp!Dealt + 1}
      BY <1>10, <2>1, <2>3 DEF Rtp!SendEach, Rtp!Dealt
    <3> QED
      BY <2>1, <3>1, DropStep
  <2> QED
    BY <2>2, <2>3
<1> QED
  BY <1>3, <1>4, <1>5, <1>6, <1>7, <1>8, <1>9, <1>10 DEF Rtp!SendNext

\* The invariant says so.
LEMMA SendHolds == Rtp!SendInv => Rtp!ShardsGoOut
BY DEF Rtp!SendInv, Rtp!ShardsGoOut, Rtp!Dealt, Rtp!ToSet

(***************************************************************************)
(* A step of MCMedia is a step of the component it is about.               *)
(***************************************************************************)
LEMMA OneMoves ==
  ASSUME [Next]_pool
  PROVE  /\ part' = part
         /\ part = "prefs" => [Prefs!Next]_(Prefs!nvVars)
         /\ part = "samples" => [Wasapi!BufferNext]_(Wasapi!bufferVars)
         /\ part = "rfi" => [Rfi!Next]_(Rfi!rfiVars)
         /\ part = "headless" => [Headless!Next]_(Headless!headlessVars)
         /\ part = "wayland" => [Wayland!Next]_(Wayland!waylandVars)
         /\ part = "portal" => [Portal!SessionNext]_(Portal!portalVars)
         /\ part = "wgc" => [Dxgi!WgcNext]_(Dxgi!wgcVars)
         /\ part = "pacing" => [Dxgi!PaceNext]_(Dxgi!paceVars)
         /\ part = "dxgi" => [Dxgi!ImageNext]_(Dxgi!dxgiVars)
         /\ part \in {"pads", "rumble"} =>
              [Pads!PadNext \/ Pads!ReportNext \/ Pads!FeedbackNext]_(Pads!gamepadVars)
         /\ part = "kms" => [Kms!CaptureNext]_(Kms!kmsCaptureVars)
         /\ part = "images" => [Images!Next]_(Images!imageVars)
         /\ part = "probe" => [Encoders!ProbeNext]_(Encoders!probeVars)
         /\ part = "encode" => [Encoders!EncodeNext]_(Encoders!encodeVars)
<1>1. CASE UNCHANGED pool
  BY <1>1 DEF pool, Prefs!nvVars, Wasapi!bufferVars, Rfi!rfiVars, Headless!headlessVars,
     Wayland!waylandVars, Portal!portalVars, Dxgi!wgcVars, Dxgi!paceVars, Dxgi!dxgiVars,
     Pads!gamepadVars, Kms!kmsCaptureVars, Images!imageVars, Encoders!probeVars, Encoders!encodeVars
<1>2. CASE Next
  BY <1>2 DEF Next
<1> QED
  BY <1>1, <1>2

\* The picture handed on is the one captured: the cursor drawn is the current one
\* and stays on the screen (kmsgrab.cpp), the buffer was filled (wayland.cpp), the
\* encoder reads what was pushed (display_vram.cpp), no two frames are taken in a
\* burst (display_base.cpp, capture) and the newest frame is used, in order
\* (display_wgc.cpp), for screens, cursors, pools and intervals of any size.
CurrentInv ==
  /\ part = "kms" => Kms!CursorInv
  /\ part = "wayland" => Wayland!WaylandInv
  /\ part = "dxgi" => Dxgi!ImageInv
  /\ part = "pacing" => Dxgi!PaceInv
  /\ part = "wgc" => Dxgi!WgcInv

LEMMA CurrentStarts == Init => CurrentInv
BY CursorStarts, WaylandStarts, ImagesStart, PaceStarts, WgcStarts DEF Init, CurrentInv

LEMMA CurrentStep == CurrentInv /\ [Next]_pool => CurrentInv'
BY OneMoves, CursorStep, WaylandStep, ImageStep, PaceStep, WgcStep DEF CurrentInv

\* The picture handed on is the one captured.
THEOREM FramesStayCurrent == Spec => []FrameIsCurrent
<1>1. CurrentInv => FrameIsCurrent
  <2>1. Wayland!WaylandInv => Wayland!DeliveredIsFilled
    BY DEF Wayland!WaylandInv
  <2>2. Kms!CursorInv => Kms!FrameCursorIsCurrent /\ Kms!DrawsVisiblePart
    BY DEF Kms!CursorInv
  <2>3. Dxgi!ImageInv => Dxgi!EncoderReadsPushed
    BY DEF Dxgi!ImageInv
  <2>4. Dxgi!PaceInv => Dxgi!NoBurst
    BY DEF Dxgi!PaceInv
  <2> QED
    BY <2>1, <2>2, <2>3, <2>4, WgcHolds DEF CurrentInv, FrameIsCurrent
<1> QED
  BY <1>1, CurrentStarts, CurrentStep, PTL DEF Spec

=============================================================================
