-------------------------- MODULE HeadlessDisplay --------------------------
(***************************************************************************)
(* Choosing a capture source on Linux (misc.cpp) and creating the virtual  *)
(* display of a host without a monitor (headless.cpp, kmsgrab.cpp). The    *)
(* virtual display is a chain of DRM objects - an open card, a dumb        *)
(* buffer, a frame buffer, a mode - any step of which may fail; what       *)
(* remains then is a software display without a card.                      *)
(***************************************************************************)
EXTENDS Integers, Sequences, FiniteSets

CONSTANTS
  Capture,   \* values of config::video.capture considered; "" chooses freely
  Mode,      \* modes <<width, height, rate>> a client may ask for
  MaxOpen,   \* bound on displays opened
  None

MemType == {"system", "vaapi", "cuda", "vulkan"}
NoHost == [gamescope |-> FALSE, monitor |-> FALSE, vkms |-> "absent", verified |-> {}, capture |-> ""]
NoObject == [fd |-> FALSE, gem |-> FALSE, fb |-> FALSE, valid |-> FALSE, software |-> FALSE, mode |-> None]

VARIABLES
  host,     \* what the machine offers, and the configured capture method
  sources,  \* sources
  opening,  \* the display() call under way: [mode, mem, by, step] or None
  object,   \* the HeadlessDisplay object's fields
  kernel,   \* DRM objects this process holds: subset of {"fd", "gem", "fb"}
  shown,    \* the display handed to the capture thread, or None
  refused,  \* the last display() call returned nullptr
  opened    \* displays asked for so far

headlessVars == <<host, sources, opening, object, kernel, shown, refused, opened>>

Init ==
  /\ host = NoHost /\ sources = {} /\ opening = None /\ object = NoObject
  /\ kernel = {} /\ shown = None /\ refused = FALSE /\ opened = 0

\* is_vkms_available: the module is there, or can be loaded.
IsVkmsAvailable(h) == h.vkms # "absent"

\* kms_display_names: the monitors KMS can read, or else the virtual one.
KmsNames(h) == IF h.monitor THEN {"monitor"}
               ELSE IF IsVkmsAvailable(h) THEN {"headless"} ELSE {}

\* verify_x of each back end; the headless one always says yes.
Verified(h) == h.verified \cup (IF KmsNames(h) # {} THEN {"kms"} ELSE {}) \cup {"headless"}

\* nvfbc, wlr and kms are only tried while nothing was found; the others always.
SourcesOf(h) ==
  LET ok(s) == h.capture \in {"", s} /\ s \in Verified(h)
      first == SelectSeq(<<"nvfbc", "wlr", "kms">>, ok)
      early == IF h.capture = "" /\ first # <<>> THEN {Head(first)} ELSE {first[i] : i \in DOMAIN first}
  IN  early \cup {s \in {"x11", "portal", "headless"} : ok(s)}

\* platf::init; loading vkms to verify it stays.
Boot ==
  /\ sources = {}
  /\ \E g, m \in BOOLEAN, v \in {"absent", "loadable", "loaded"},
        o \in SUBSET {"nvfbc", "wlr", "x11", "portal"}, c \in Capture :
       LET h == [gamescope |-> g, monitor |-> m, vkms |-> v, verified |-> o, capture |-> c]
       IN  /\ SourcesOf(h) # {}
           /\ sources' = SourcesOf(h)
           /\ host' = IF v = "loadable" /\ (c \in {"", "headless"} \/ (c = "kms" /\ ~m))
                      THEN [h EXCEPT !.vkms = "loaded"] ELSE h
  /\ UNCHANGED <<opening, object, kernel, shown, refused, opened>>

\* display: the first source in the order of preference that fits the memory type.
Preference == <<"nvfbc", "wlr", "kms", "x11", "portal", "headless">>
SourceFor(mem) ==
  LET fits == {i \in DOMAIN Preference :
                 Preference[i] \in sources /\ (Preference[i] = "nvfbc" => mem = "cuda")}
  IN  IF fits = {} THEN None ELSE Preference[CHOOSE i \in fits : \A j \in fits : i <= j]

Virtual(mem) ==
  \/ SourceFor(mem) = "headless"
  \/ SourceFor(mem) = "kms" /\ KmsNames(host) = {"headless"}

\* display(): kms_display tries video memory first where the encoder has it.
OpenDisplay(mode, mem) ==
  /\ sources # {} /\ opening = None /\ shown = None /\ opened < MaxOpen
  /\ opened' = opened + 1
  /\ \/ /\ Virtual(mem)
        /\ opening' = [mode |-> mode, mem |-> mem, by |-> SourceFor(mem), step |-> "create",
                       vram |-> SourceFor(mem) = "kms" /\ mem # "system"]
        /\ UNCHANGED <<shown, refused>>
     \/ /\ ~Virtual(mem)
        /\ shown' = IF SourceFor(mem) = None THEN None
                    ELSE [kind |-> "other", mem |-> mem, card |-> TRUE, mode |-> mode]
        /\ refused' = (SourceFor(mem) = None)
        /\ UNCHANGED opening
  /\ UNCHANGED <<host, sources, object, kernel>>

\* Mutant of Cleanup: the dumb buffer's handle is forgotten, not closed.
CleanupKeepsBuffer(o, k) ==
  [object |-> [o EXCEPT !.fd = FALSE, !.gem = FALSE, !.fb = FALSE, !.valid = FALSE],
   kernel |-> IF o.fd THEN k \ ({"fd"} \cup (IF o.fb THEN {"fb"} ELSE {})) ELSE k]

\* cleanup releases what the object's fields name; the ids of the connector,
\* the CRTC and the plane are left as they are.
Cleanup(o, k) ==
  [object |-> [o EXCEPT !.fd = FALSE, !.gem = IF o.fd THEN FALSE ELSE @,
                        !.fb = IF o.fd THEN FALSE ELSE @, !.valid = FALSE],
   kernel |-> IF o.fd THEN k \ ({"fd"} \cup (IF o.fb THEN {"fb"} ELSE {})
                                       \cup (IF o.gem THEN {"gem"} ELSE {})) ELSE k]

\* create: beside Gamescope VKMS is not tried.
Create ==
  /\ opening # None /\ opening.step = "create"
  /\ object' = NoObject
  /\ opening' = [opening EXCEPT !.step = IF host.gamescope \/ ~IsVkmsAvailable(host)
                                         THEN "software" ELSE "open"]
  /\ UNCHANGED <<host, sources, kernel, shown, refused, opened>>

\* setup_vkms, the first part: the card is found and opened; a failing open
\* returns without cleanup, a missing resource, connector or CRTC with it.
SetupOpen ==
  /\ opening # None /\ opening.step = "open"
  /\ \/ /\ UNCHANGED <<object, kernel>>
        /\ opening' = [opening EXCEPT !.step = "software"]
     \/ /\ object' = [object EXCEPT !.fd = TRUE] /\ kernel' = kernel \cup {"fd"}
        /\ opening' = [opening EXCEPT !.step = "buffer"]
     \/ LET c == Cleanup([object EXCEPT !.fd = TRUE], kernel \cup {"fd"})
        IN  /\ object' = c.object /\ kernel' = c.kernel
            /\ opening' = [opening EXCEPT !.step = "software"]
  /\ UNCHANGED <<host, sources, shown, refused, opened>>

\* setup_vkms: the dumb buffer and the frame buffer on it.
SetupBuffer ==
  /\ opening # None /\ opening.step = "buffer"
  /\ \E got \in {{}, {"gem"}, {"gem", "fb"}} :
       LET o == [object EXCEPT !.gem = "gem" \in got, !.fb = "fb" \in got]
           c == Cleanup(o, kernel \cup got)
       IN  IF got = {"gem", "fb"}
           THEN object' = o /\ kernel' = kernel \cup got /\ opening' = [opening EXCEPT !.step = "mode"]
           ELSE object' = c.object /\ kernel' = c.kernel /\ opening' = [opening EXCEPT !.step = "software"]
  /\ UNCHANGED <<host, sources, shown, refused, opened>>

\* setup_vkms: the mode is set, and with that the display is valid.
SetupMode ==
  /\ opening # None /\ opening.step = "mode"
  /\ \/ /\ object' = [object EXCEPT !.valid = TRUE, !.mode = opening.mode]
        /\ opening' = [opening EXCEPT !.step = "wrap"] /\ UNCHANGED kernel
     \/ LET c == Cleanup(object, kernel)
        IN  /\ object' = c.object /\ kernel' = c.kernel
            /\ opening' = [opening EXCEPT !.step = "software"]
  /\ UNCHANGED <<host, sources, shown, refused, opened>>

\* setup_software
SetupSoftware ==
  /\ opening # None /\ opening.step = "software"
  /\ object' = [object EXCEPT !.valid = TRUE, !.software = TRUE, !.mode = opening.mode]
  /\ opening' = [opening EXCEPT !.step = "wrap"]
  /\ UNCHANGED <<host, sources, kernel, shown, refused, opened>>

Refuse ==
  /\ opening' = None /\ refused' = TRUE /\ UNCHANGED shown
  /\ LET c == Cleanup(object, kernel) IN object' = NoObject /\ kernel' = c.kernel

Show(kind, card) ==
  /\ shown' = [kind |-> kind, mem |-> opening.mem, card |-> card, mode |-> object.mode]
  /\ opening' = None /\ refused' = FALSE /\ UNCHANGED <<object, kernel>>

\* headless_display_t::init: the display's own frames are blank.
WrapHeadless ==
  /\ opening # None /\ opening.step = "wrap" /\ opening.by = "headless"
  /\ IF object.valid THEN Show("blank", FALSE) ELSE Refuse
  /\ UNCHANGED <<host, sources, opened>>

\* init_headless and the init of the KMS display around it. A software
\* display skips the card; display_vram_t validates it for VAAPI alone, and
\* display_ram_t makes a GBM device of it. A failed display_vram_t is
\* destroyed and display_ram_t starts over.
WrapKms ==
  /\ opening # None /\ opening.step = "wrap" /\ opening.by = "kms"
  /\ \E cardOk \in BOOLEAN :
       LET card == ~object.software /\ cardOk
           ok == /\ object.valid /\ (object.software \/ cardOk)
                 /\ (~opening.vram \/ opening.mem = "vaapi") => card
       IN  IF ok THEN Show("kms", card)
           ELSE IF opening.vram
           THEN /\ opening' = [opening EXCEPT !.vram = FALSE, !.step = "create"]
                /\ LET c == Cleanup(object, kernel) IN object' = c.object /\ kernel' = c.kernel
                /\ UNCHANGED <<shown, refused>>
           ELSE Refuse
  /\ UNCHANGED <<host, sources, opened>>

\* The capture thread drops the display: ~HeadlessDisplay cleans up.
CloseDisplay ==
  /\ shown # None
  /\ shown' = None /\ object' = NoObject
  /\ kernel' = Cleanup(object, kernel).kernel
  /\ UNCHANGED <<host, sources, opening, refused, opened>>

Next ==
  \/ Boot \/ (\E mode \in Mode, mem \in MemType : OpenDisplay(mode, mem)) \/ Create
  \/ SetupOpen \/ SetupBuffer \/ SetupMode \/ SetupSoftware \/ WrapHeadless \/ WrapKms \/ CloseDisplay

Spec == Init /\ [][Next]_headlessVars

-----------------------------------------------------------------------------
\* Whatever step of the set-up failed, and however often a display was opened
\* and closed, the process holds exactly the DRM objects of the virtual display
\* being set up or shown, and none beside a software display.
NoDrmLeak ==
  /\ kernel = {k \in {"fd", "gem", "fb"} : object[k]}
  /\ (opening = None /\ shown = None) \/ object.software => kernel = {}

\* With the headless source a display is always to be had: no failing step of
\* the virtual display makes display() return nullptr (NFR-5 of the change's
\* SPEC.md). Where KMS offers the virtual display instead, it may.
NeverRefused == "headless" \in sources /\ "kms" \notin sources => ~refused

\* The inductive invariant behind NoDrmLeak: how far the set-up has come says what
\* is held, and what holds nothing before each attempt.
Object == [fd : BOOLEAN, gem : BOOLEAN, fb : BOOLEAN, valid : BOOLEAN, software : BOOLEAN, mode : Mode \cup {None}]
Opening == [mode : Mode, mem : MemType, by : {"headless", "kms"}, vram : BOOLEAN,
            step : {"create", "open", "buffer", "mode", "software", "wrap"}]
HeadlessInv ==
  /\ object \in Object /\ NoDrmLeak /\ (object.gem \/ object.fb => object.fd)
  /\ opening # None =>
       /\ opening \in Opening /\ shown = None
       /\ opening.step \in {"create", "open", "software"} => kernel = {}
       /\ opening.step \in {"open", "buffer", "mode"} => ~object.software
       /\ opening.step = "buffer" => object.fd /\ ~object.gem /\ ~object.fb

\* What NeverRefused rests on: a display is only asked for when there is a source,
\* KMS is used where it was found, and what is wrapped is a valid display.
RefusalInv ==
  /\ HeadlessInv /\ NeverRefused
  /\ sources = {} => ~refused /\ opening = None
  /\ opening # None =>
       /\ opening.by = "kms" => "kms" \in sources
       /\ opening.step = "wrap" => object.valid
=============================================================================
