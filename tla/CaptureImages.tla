--------------------------- MODULE CaptureImages ---------------------------
(***************************************************************************)
(* The image pool of captureThread (video.cpp) and its list of displays.   *)
(* The pool is a list of slots, most recently handed out first; images are *)
(* allocated on demand, shared with the encoders and, when nobody has used *)
(* so many of them for trim_timeout, freed again from the back. Time is    *)
(* counted in units of the interval between two frames.                    *)
(***************************************************************************)
EXTENDS Integers, Sequences, SequencesExt, FiniteSets, FiniteSetsExt, Functions

CONSTANTS
  PoolSize,     \* capture_buffer_size
  TrimTimeout,  \* trim_timeout
  MaxClock,     \* bound on the clock
  Monitor       \* names platf::display_names may return

VARIABLES
  pool,       \* imgs: "none", "free" (use_count 1) or "used" (shared) per slot
  usedAt,     \* imgs_used_timestamps: index used_count, -1 for no timestamp
  clock,
  names,      \* display_names
  nameP       \* display_p, 1-based; 0 stands for -1

imageVars == <<pool, usedAt, clock, names, nameP>>

Init ==
  /\ pool = [i \in 1..PoolSize |-> "none"] /\ usedAt = <<>> /\ clock = 0
  /\ names = <<>> /\ nameP = 0

Count(p, states) == Cardinality({i \in DOMAIN p : p[i] \in states})

\* The slot is moved to the front of the list, and is shared from now on.
ToFront(p, i) == <<"used">> \o RemoveAt(p, i)

\* The largest number of images that were in use at once during the timeout.
TrimTarget(used, at, now) ==
  Max({used} \cup {n \in used..(Len(at) - 1) :
                     at[n + 1] # -1 /\ now - at[n + 1] < TrimTimeout})

\* Mutant of Trimmed: images in use are freed too.
TrimmedAny(p, toTrim) ==
  [i \in DOMAIN p |-> IF p[i] # "none" /\ Count(SubSeq(p, i + 1, Len(p)), {"free", "used"}) < toTrim
                      THEN "none" ELSE p[i]]

\* The last toTrim unshared images of the list are freed.
Trimmed(p, toTrim) ==
  [i \in DOMAIN p |-> IF p[i] = "free" /\ Count(SubSeq(p, i + 1, Len(p)), {"free"}) < toTrim
                      THEN "none" ELSE p[i]]

\* trim_imgs, for the pool p
Trim(p, now) ==
  LET used == Count(p, {"used"})
      allocated == Count(p, {"free", "used"})
      at == [n \in 1..Max({Len(usedAt), used + 1}) |->
               IF n = used + 1 THEN now ELSE IF n <= Len(usedAt) THEN usedAt[n] ELSE -1]
      target == TrimTarget(used, at, now)
  IN IF allocated > target
     THEN [imgs |-> Trimmed(p, allocated - target), at |-> SubSeq(at, 1, target + 1)]
     ELSE [imgs |-> p, at |-> at]

\* pull_free_image_callback: the first allocated and unshared image, else the
\* first empty slot; with all of them shared it waits.
PullImage ==
  /\ clock < MaxClock /\ clock' = clock + 1
  /\ \E state \in {"free", "none"} :
       /\ state = "none" => Count(pool, {"free"}) = 0
       /\ Count(pool, {state}) > 0
       /\ LET i == Min({j \in DOMAIN pool : pool[j] = state})
              t == Trim(ToFront(pool, i), clock')
          IN pool' = t.imgs /\ usedAt' = t.at
  /\ UNCHANGED <<names, nameP>>

\* An encoder lets go of an image.
Release(i) ==
  /\ pool[i] = "used"
  /\ pool' = [pool EXCEPT ![i] = "free"]
  /\ UNCHANGED <<usedAt, clock, names, nameP>>

\* A reinitialisation resets every slot.
DropImages ==
  /\ clock < MaxClock /\ clock' = clock + 1
  /\ pool' = [i \in 1..PoolSize |-> "none"]
  /\ UNCHANGED <<usedAt, names, nameP>>

\* refresh_displays: the list is enumerated again, and the index follows the
\* display it pointed at, or the configured output when there was none.
Refreshed(old, p, found, output) ==
  LET now == IF found = <<>> THEN <<output>> ELSE found
      wanted == IF p \in DOMAIN old THEN old[p] ELSE output
      at == {i \in DOMAIN now : now[i] = wanted}
  IN IF found = <<>> /\ old # <<>> THEN [names |-> old, p |-> p]
     ELSE [names |-> now, p |-> IF at = {} THEN 1 ELSE Min(at)]

\* platf::display_names may return anything, in any order, without repetition.
Refresh(found, output) ==
  /\ LET r == Refreshed(names, nameP, found, output) IN names' = r.names /\ nameP' = r.p
  /\ UNCHANGED <<pool, usedAt, clock>>

\* A switch_display event, clamped to the list, after a refresh.
SwitchDisplay(n) ==
  /\ names # <<>>
  /\ nameP' = IF n > Len(names) THEN Len(names) ELSE n
  /\ UNCHANGED <<pool, usedAt, clock, names>>

Next ==
  \/ PullImage \/ DropImages
  \/ \E i \in 1..PoolSize : Release(i)
  \/ \E found \in UNION {[1..n -> Monitor] : n \in 0..2}, output \in Monitor :
       IsInjective(found) /\ Refresh(found, output)
  \/ \E n \in 1..3 : SwitchDisplay(n)

Spec == Init /\ [][Next]_imageVars

----------------------------------------------------------------------------
\* An image that an encoder shares is never freed or handed out again: with
\* every step of the capture thread the images in use stay in use.
SharedStays == PullImage => Count(pool', {"used"}) = Count(pool, {"used"}) + 1

\* The pool does not thrash: as many images stay allocated as were in use at
\* the same time within the timeout, however the number went up and down.
RecentUseIsKept ==
  PullImage =>
    \A n \in DOMAIN usedAt :
      usedAt[n] # -1 /\ clock' - usedAt[n] < TrimTimeout
        => Count(pool', {"free", "used"}) >=
             Min({n - 1, Count(pool, {"free", "used"})})

\* The display index is an index of the list after every enumeration and
\* switch, also when displays vanish, and points at the same display as before
\* as long as that one is there.
DisplayKept ==
  names' # names =>
    /\ nameP' \in DOMAIN names'
    /\ nameP \in DOMAIN names /\ names[nameP] \in ToSet(names')
         => names'[nameP'] = names[nameP]

\* What the three rest on: a pool of so many slots, times per number of images and
\* a list of displays.
ImagesInv ==
  /\ pool \in [1..PoolSize -> {"none", "free", "used"}]
  /\ usedAt \in Seq(Int) /\ clock \in Nat /\ names \in Seq(Monitor)
=============================================================================
