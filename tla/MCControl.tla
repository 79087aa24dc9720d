-------------------------- MODULE MCControl --------------------------
(***************************************************************************)
(* Small instances of the components that decide who may stream and how:   *)
(* launch, display configuration, pairing, the web UI, RTSP, the control   *)
(* stream's messages, ping routing, port mapping, the application list and *)
(* the process itself. As in MCMedia the initial state chooses the         *)
(* component whose variables the slots v1, v2, ... are; LaunchEvent, about *)
(* which theorems are proved, keeps variables of its own, which do not     *)
(* move in the other parts.                                                *)
(***************************************************************************)
EXTENDS LaunchEvent

CONSTANTS
  Id, Cert, Pin, MaxNamed,                               \* Pairing
  SeqSpan, LowSpan, MaxOut, MaxIn,                       \* ControlMessages
  MaxRequest, MaxSession, RevertOnDisconnect, Prep,      \* DisplayDevice, the jobs
  Value, MaxEntry,                                       \* and the mode
  Client, Legacy, Addr, MaxPing,                         \* PingRouting
  Port, WanUi, Lease, MaxFault,                          \* PortMapping
  Buffer, Ending, Sealed, MaxHead, MaxBody, MaxTalk,     \* RtspMessages
  Tab, Login, User, Name, FirstApps, MaxSave, Lifetime, MaxNow,   \* ConfigUi
  Char, MaxText, App, MaxApps, Digit,                    \* AppsFile
  Caller, Code, MayHang                                  \* MainLifetime

\* The low byte of the sequence number comes round with it.
ASSUME SpanAssumption ==
  SeqSpan \in Nat \ {0} /\ LowSpan \in Nat \ {0} /\ SeqSpan % LowSpan = 0

ASSUME ClientAssumption == None \notin Client

\* None is no record: neither a mode in hdr_queue nor a port mapping.
ASSUME RecordAssumption ==
  None \notin [mode : BOOLEAN] /\ None \notin [host : {"us", "other"}, lease : 0..Lease]

\* PORT_MAPPING_LIFETIME is longer than REFRESH_INTERVAL.
ASSUME LeaseAssumption == Lease \in Nat /\ Lease > 1

\* Lengths of RTSP messages and their parts
ASSUME MessageAssumption ==
  Ending \in Nat \ {0} /\ MaxHead \in Nat /\ MaxBody \in Nat /\ Sealed \in Nat

\* A resolution or refresh rate is above 0, and a remapping list is finite.
ASSUME ModeAssumption == Value \subseteq Nat \ {0} /\ MaxEntry \in Nat

\* The applications file starts with ids of its own.
ASSUME UiAssumption ==
  /\ FirstApps \in Seq([name : Name, id : Nat]) /\ (\A j \in DOMAIN FirstApps : FirstApps[j].id = j)
  /\ Lifetime \in Nat

\* An application list that is not sorted by name.
MCFirstApps == <<[name |-> 2, id |-> 1], [name |-> 1, id |-> 2]>>

\* Two applications may share a name, and one's name may look like another's
\* with an index behind it.
MCApp ==
  {[name |-> n, image |-> FALSE] : n \in {<<"a">>, <<"a", "2">>, <<"b">>}} \cup {[name |-> <<"a">>, image |-> TRUE]}
MCDigit == <<"0", "1", "2", "3">>

\* All clients sit behind one address.
MCAddr == [c \in {"a", "b", "c"} |-> 1]

VARIABLES part, v1, v2, v3, v4, v5, v6, v7, v8, v9, v10, v11, v12, v13, v14, v15

pool == <<part, v1, v2, v3, v4, v5, v6, v7, v8, v9, v10, v11, v12, v13, v14, v15>>

Display == INSTANCE DisplayDevice WITH
  rpc <- v1, request <- v2, revertFlag <- v3, app <- v4, live <- v5, stopped <- v6, ready
  <- v7, job <- v8, disp <- v9, bare <- v10, requests <- v11, resOpt <- v1, rateOpt <- v2, manual <- v3, session <- v4, remap <-
  v5, picked <- v6

Pairs == INSTANCE Pairing WITH
  sess <- v1, named <- v2, chain <- v3, addCert <- v4, file <- v5, backupOk <- v6, fresh
  <- v7, vouched <- v8, unsaved <- v9

Ui == INSTANCE ConfigUi WITH
  login <- v1, loginFile <- v2, apps <- v3, view <- v4, saves <- v5, meant <- v6, spoiled <-
  v7, tokens <- v8, newest <- v9, now <- v10, paired <- v11, enabled <- v12, pending <-
  v13, streaming <- v14, app <- v15

Rtsp == INSTANCE RtspMessages WITH
  cipher <- v1, policy <- v2, conn <- v3, talks <- v4, hevc <- v5, offer <- v6, counter
  <- v7, ivs <- v8, repeated <- v9, answer <- v10, stream <- v11

Control == INSTANCE ControlMessages WITH
  style <- v1, peer <- v2, seq <-
  v3, sent <- v4, lastUse <- v5, minGap <- v6, hdrQueue <- v7, hdrMode <- v8, told <-
  v9, hostIv <- v10, clientIv <- v11, inbox <- v12, clientSent <- v13, damaged <- v14,
  stopped <- v15

Pings == INSTANCE PingRouting WITH
  NoQueue <- None, regs <- v1, routes <- v2, box <- v3, ppc <- v4, pings <- v5

Ports == INSTANCE PortMapping WITH
  WebPort <- "web",
  table <- v1, leases <- v2, reachable <- v3, mapped <- v4, todo <- v5, thread <- v6,
  shutdown <- v7, lost <- v8, refused <- v9, faults <- v10

Apps == INSTANCE AppsFile WITH
  raw <- v1, picture <- v2, file <- v3, loaded <- v4

\* Digits and names are texts without the mark that stands for an image, names
\* are not empty, and no two digits are the same.
ASSUME AppsAssumption ==
  /\ App \subseteq [name : Seq(Apps!Letter \ {"#"}) \ {<<>>}, image : BOOLEAN]
  /\ Digit \in Seq(Apps!Letter \ {"#"}) /\ MaxApps \in 0..Len(Digit)
  /\ \A m, n \in DOMAIN Digit : Digit[m] = Digit[n] => m = n

Life == INSTANCE MainLifetime WITH
  mpc <- v1, os <- v2, wants <- v3, tray <- v4, event <- v5, serving <- v6, stuck <- v7, starting <- v8,
  alive <- v9, armed <- v10, hpc <- v11, exitCode <- v12, guarded <- v13, late <- v14

\* Slots a component does not use hold 0.
Unused14 == v15 = 0
Rest14 == <<v15>>
Unused11 == v12 = 0 /\ v13 = 0 /\ v14 = 0 /\ Unused14
Rest11 == <<v12, v13, v14, Rest14>>
Unused10 == v11 = 0 /\ Unused11
Rest10 == <<v11, Rest11>>
Unused9 == v10 = 0 /\ Unused10
Rest9 == <<v10, Rest10>>
Unused6 == v7 = 0 /\ v8 = 0 /\ v9 = 0 /\ Unused9
Rest6 == <<v7, v8, v9, Rest9>>
Unused5 == v6 = 0 /\ Unused6
Rest5 == <<v6, Rest6>>
Unused4 == v5 = 0 /\ Unused5
Rest4 == <<v5, Rest5>>
Unused0 == v1 = 0 /\ v2 = 0 /\ v3 = 0 /\ v4 = 0 /\ Unused4
Rest0 == <<v1, v2, v3, v4, Rest4>>

ControlInit ==
  \/ part = "launch" /\ Init /\ Unused0
  \/ part = "display" /\ Init /\ Display!LaunchInit /\ Unused11
  \/ part = "pairing" /\ Init /\ Pairs!Init /\ Unused9
  \/ part = "login" /\ Init /\ Ui!Init
  \/ part = "apps" /\ Init /\ Ui!Init
  \/ part = "tokens" /\ Init /\ Ui!Init
  \/ part = "clients" /\ Init /\ Ui!Init
  \/ part = "rtsp" /\ Init /\ Rtsp!Init /\ Unused11
  \/ part = "sending" /\ Init /\ Control!Init
  \/ part = "receiving" /\ Init /\ Control!Init
  \/ part = "ping" /\ Init /\ Pings!Init /\ Unused5
  \/ part = "upnp" /\ Init /\ Ports!Init /\ Unused10
  \/ part = "mode" /\ Init /\ Display!ModeInit /\ Unused6
  \/ part = "texts" /\ Init /\ Apps!Init /\ Unused4
  \/ part = "list" /\ Init /\ Apps!Init /\ Unused4
  \/ part = "life" /\ Init /\ Life!Init /\ Unused14

ControlNext ==
  \/ part = "launch" /\ Next /\ UNCHANGED <<part, Rest0>>
  \/ part = "display" /\ Display!LaunchNext /\ UNCHANGED <<part, Rest11, vars>>
  \/ part = "pairing" /\ Pairs!Next /\ UNCHANGED <<part, Rest9, vars>>
  \/ part = "login" /\ Ui!LoginNext /\ UNCHANGED <<part, vars>>
  \/ part = "apps" /\ (Ui!LoginNext \/ Ui!AppsNext) /\ UNCHANGED <<part, vars>>
  \/ part = "tokens" /\ (Ui!LoginNext \/ Ui!TokensNext) /\ UNCHANGED <<part, vars>>
  \/ part = "clients" /\ (Ui!LoginNext \/ Ui!ClientsNext) /\ UNCHANGED <<part, vars>>
  \/ part = "rtsp" /\ Rtsp!Next /\ UNCHANGED <<part, Rest11, vars>>
  \/ part = "sending" /\ (Control!Setup \/ Control!OutNext) /\ UNCHANGED <<part, vars>>
  \/ part = "receiving" /\ (Control!Setup \/ Control!InNext) /\ UNCHANGED <<part, vars>>
  \/ part = "ping" /\ Pings!Next /\ UNCHANGED <<part, Rest5, vars>>
  \/ part = "upnp" /\ Ports!Next /\ UNCHANGED <<part, Rest10, vars>>
  \/ part = "mode" /\ Display!ModeNext /\ UNCHANGED <<part, Rest6, vars>>
  \/ part = "texts" /\ Apps!TextNext /\ UNCHANGED <<part, Rest4, vars>>
  \/ part = "list" /\ Apps!ListNext /\ UNCHANGED <<part, Rest4, vars>>
  \/ part = "life" /\ Life!Next /\ UNCHANGED <<part, Rest14, vars>>

ControlSpec == ControlInit /\ [][ControlNext]_<<pool, vars>>

\* Requests, timers and the RTSP thread go on, jobs of the display scheduler are
\* tried again until they succeed, a pending client connects or expires, the UPnP
\* thread runs, and so do main, the servers and the interrupt handlers.
FairControlSpec ==
  /\ ControlSpec /\ Fairness
  /\ WF_(Display!reqVars)(part = "display" /\ Display!Https)
  /\ WF_(Display!reqVars)(part = "display" /\ Display!RtspClear)
  /\ WF_(Display!reqVars)(part = "display" /\ (Display!SessionStart \/ Display!PendingExpires))
  /\ WF_(Display!reqVars)(part = "display" /\ Display!JobDone)
  /\ WF_(Ports!mapVars)(part = "upnp" /\ Ports!Thread)
  /\ WF_(Life!lifeVars)(part = "life" /\ Life!MainRuns)
  /\ WF_(Life!lifeVars)(part = "life" /\ Life!OthersRun)
  /\ \A h \in Caller : WF_(Life!lifeVars)(part = "life" /\ Life!Handler(h))

-----------------------------------------------------------------------------
\* Every request, and the program itself, leaves the host as it found it: once
\* nothing streams the display is the user's again (display_device.cpp,
\* stream.cpp join, nvhttp.cpp), on shutdown the UPnP thread ends, and a process
\* asked to shut down does, by force if need be (main.cpp).
EventuallySettled ==
  /\ (part = "display" /\ Display!Idle)
       ~> (part = "display" => Display!Restored \/ ~Display!Idle)
  /\ (part = "upnp" /\ Ports!Leaving) ~> (part = "upnp" => Ports!Ended)
  /\ (part = "life" /\ Life!ShuttingDown) ~> (part = "life" => Life!LifeOver)

\* The same without time: an idle host has its display or a revert under way, no
\* port stays mapped (upnp.cpp), no ping is routed to a session that is gone and
\* a session that waits for its ping is routed to (stream.cpp, recv_ping), and
\* what starts in the background writes to locals of main that exist (main.cpp).
NothingStale ==
  /\ part = "display" => Display!IdleIsReverting
  /\ part = "upnp" => Ports!NothingLeftBehind
  /\ part = "ping" => Pings!NoDeadRoute /\ Pings!WaitingIsRouted
  /\ part = "life" => Life!StartsHaveATarget

\* Trust is earned and kept (nvhttp.cpp): a paired certificate belongs to a client
\* that knew the PIN, a disabled or unpaired one is refused, and a restart
\* forgets no client.
TrustIsEarned ==
  part = "pairing" => Pairs!PairedKnowsPin /\ Pairs!DisabledIsRefused /\ Pairs!RestartKeepsClients

\* No edit of the web UI is lost (confighttp.cpp, httpcommon.cpp): the
\* application list holds what its users meant, a changed login survives a
\* restart, the newest CSRF token of a client is accepted, and applications have
\* ids of their own, unless an index can be mistaken for part of a name
\* (process.cpp).
EditsAreKept ==
  /\ part = "apps" => Ui!NothingLost
  /\ part = "login" => Ui!LoginSurvives
  /\ part = "tokens" => Ui!NewestTokenAccepted
  /\ part = "list" => Apps!IdsAreUnique

\* Steps that must not be taken before another: the state file is overwritten
\* only once its backup is good (nvhttp.cpp save_state), disabling a client ends
\* its sessions at once (confighttp.cpp updateClient), a lease is renewed before
\* it runs out (upnp.cpp), and an application that is reloaded keeps the id
\* clients know (process.cpp parse).
StepsInOrder ==
  [][/\ part = "pairing" => Pairs!BackupBeforeWrite
     /\ part = "clients" => Ui!DisabledStops
     /\ part = "upnp" => Ports!LeasesOutlast
     /\ part = "list" => Apps!IdsSurvive]_pool

\* Encrypted messages (stream.cpp, rtsp.cpp): an AES-GCM nonce comes back only
\* after the whole span of sequence numbers, on no RTSP response at all, and the
\* chained IVs of input messages stay in step, so that no genuine client is
\* stopped as a forger.
NoncesInStep ==
  /\ part = "sending" => Control!IvSpaced
  /\ part = "receiving" => Control!GenuineNotStopped
  /\ part = "rtsp" => Rtsp!IvNeverRepeats

\* What the client was told holds: a complete RTSP message is handled however it
\* was split, what DESCRIBE offered ANNOUNCE accepts (rtsp.cpp), the client knows
\* the current HDR mode (stream.cpp), and the display mode is changed only as the
\* settings and the client allow (display_device.cpp). What the user was told
\* does too: variables in applications are expanded, images are PNGs
\* (process.cpp), and the process is stopped by force only when it hangs
\* (main.cpp).
PromisesKept ==
  /\ part = "rtsp" => Rtsp!CompleteIsHandled /\ Rtsp!OfferIsHonoured
  /\ part = "sending" => Control!HdrReachesClient
  /\ part = "mode" => Display!NoSopsNoResolution /\ Display!RemapsOnlyAutomatic
  /\ part = "texts" => Apps!ExpandsAsMeant /\ Apps!ServedIsPng
  /\ part = "life" => Life!TrapOnlyWhenStuck
=============================================================================
