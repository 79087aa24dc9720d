---------------------------- MODULE DisplayDevice ----------------------------
(***************************************************************************)
(* The display device (display_device.cpp): who asks for a configuration   *)
(* and who reverts it, and which display mode a configuration asks for.    *)
(***************************************************************************)
EXTENDS Naturals, Sequences, FiniteSetsExt

(***************************************************************************)
(* /launch, /resume and /cancel (nvhttp.cpp) and the display configuration *)
(* they, the end of the last session (stream.cpp join) and the end of the  *)
(* application (process.cpp terminate) ask for. display_device.cpp hands   *)
(* one job at a time to a retry scheduler; a later request replaces an     *)
(* earlier one. The HTTPS server has one worker; the RTSP thread starts    *)
(* and joins sessions; the scheduler has a thread of its own.              *)
(***************************************************************************)
CONSTANTS
  MaxSession,          \* bound on sessions in the RTSP server
  MaxRequest,          \* bound on requests
  RevertOnDisconnect,  \* config::video.dd.config_revert_on_disconnect
  Prep                 \* what parse_configuration gives: "single",
                       \* "disabled", "failed"

VARIABLES
  rpc,        \* the HTTPS worker: "idle" or where in the handler it is
  request,    \* [op, appid]: /launch or /resume; an application asked for?
  revertFlag, \* revert_display_configuration
  app,        \* "none", "on", "exited" (exited, nobody has looked yet)
  live,       \* sessions in the slots
  stopped,    \* how many of them are stopping
  ready,      \* a launch is pending
  job,        \* the scheduler's job: "none", "apply", "revert"
  disp,       \* "orig" or "set"
  bare,       \* ghost: the display was configured for a client that has not
              \* connected and for no application: /launch of appid 0, or
              \* /resume after the application it resumes was terminated
  requests

reqVars == <<rpc, request, revertFlag, app, live, stopped, ready, job, disp, bare,
             requests>>

LaunchRequest == [op |-> "launch", appid |-> TRUE]
LaunchInit ==
  /\ rpc = "idle" /\ request = LaunchRequest /\ revertFlag = FALSE /\ app = "none"
  /\ live = 0 /\ stopped = 0 /\ ready = FALSE /\ job = "none" /\ disp = "orig"
  /\ bare = FALSE /\ requests = 0

----------------------------------------------------------------------------
(* Pieces the handlers share. *)

\* proc.running(): an exited application is terminated here, which reverts.
Polled == IF app = "exited" THEN "none" ELSE app
PolledJob(j) == IF app = "exited" THEN "revert" ELSE j

\* join of the last session: revert when configured so or without application.
EndedJob(n, a, j) ==
  IF n = 0 /\ (RevertOnDisconnect \/ a = "none") THEN "revert" ELSE j

\* server.clear(all): join the stopping sessions (or all of them).
Clear(all) ==
  LET n == IF all THEN live ELSE stopped
  IN /\ live' = live - n /\ stopped' = 0
     /\ IF n = 0 THEN UNCHANGED app ELSE app' = Polled
     /\ job' = IF n = 0 THEN job ELSE EndedJob(live - n, Polled, PolledJob(job))

\* configure_display: apply, revert when disabled, nothing when unparsable.
Configured(j) == CASE Prep = "single" -> "apply"
                   [] Prep = "disabled" -> "revert"
                   [] OTHER -> j

\* Mutant of Fail: the answer is sent and the display is left alone.
FailKeeps(j) == j

\* The fail guard of launch: revert if the handler had configured the display.
Fail(j) == IF revertFlag THEN "revert" ELSE j

----------------------------------------------------------------------------
(* The HTTPS worker. *)

Enter(q) ==
  /\ rpc = "idle" /\ requests < MaxRequest /\ requests' = requests + 1
  /\ request' = q /\ revertFlag' = FALSE
  /\ app' = Polled /\ job' = PolledJob(job)
  /\ rpc' = IF (q.op = "launch") = (Polled = "none") THEN "count" ELSE "idle"
  /\ UNCHANGED <<live, stopped, ready, disp, bare>>

Count ==
  /\ rpc = "count"
  /\ Clear(FALSE) /\ rpc' = IF live' = 0 THEN "configure" ELSE "encrypt"
  /\ UNCHANGED <<request, revertFlag, ready, disp, bare, requests>>

Configure ==
  /\ rpc = "configure" /\ rpc' = "probe"
  /\ revertFlag' = (request.op = "launch")
  /\ job' = Configured(job)
  /\ bare' = (bare \/ (request.op = "resume" /\ app = "none"))
  /\ UNCHANGED <<request, app, live, stopped, ready, disp, requests>>

\* probe_encoders and the encryption check: on to the next step or fail.
Check(from, to) ==
  /\ rpc = from
  /\ \/ rpc' = to /\ UNCHANGED job
     \/ rpc' = "idle" /\ job' = Fail(job)
  /\ UNCHANGED <<request, revertFlag, app, live, stopped, ready, disp, bare, requests>>

Probe == Check("probe", "encrypt")
Encrypt == Check("encrypt", IF request.op = "launch" /\ request.appid
                            THEN "execute" ELSE "raise")

\* proc.execute: its own terminate() first, then the application starts or not.
Execute ==
  /\ rpc = "execute"
  /\ \/ rpc' = "raise" /\ app' = "on" /\ UNCHANGED job
     \/ rpc' = "idle" /\ app' = "none" /\ job' = Fail(job)
  /\ UNCHANGED <<request, revertFlag, live, stopped, ready, disp, bare, requests>>

\* launch_session_raise, unless one is pending; the answer is 200 either way.
Raise ==
  /\ rpc = "raise" /\ rpc' = "idle" /\ revertFlag' = FALSE
  /\ ready' = TRUE
  /\ bare' = (bare \/ request = [op |-> "launch", appid |-> FALSE])
  /\ UNCHANGED <<request, app, live, stopped, job, disp, requests>>

\* /cancel: clear(true), then terminate() if an application runs, then revert.
CancelClear ==
  /\ rpc = "idle" /\ requests < MaxRequest /\ requests' = requests + 1
  /\ Clear(TRUE) /\ rpc' = "cancel"
  /\ UNCHANGED <<request, revertFlag, ready, disp, bare>>

CancelRevert ==
  /\ rpc = "cancel" /\ rpc' = "idle"
  /\ app' = "none" /\ job' = "revert" /\ bare' = FALSE
  /\ UNCHANGED <<request, revertFlag, live, stopped, ready, disp, requests>>

----------------------------------------------------------------------------
(* The RTSP thread, the application and the scheduler. *)

SessionStart ==
  /\ ready /\ live < MaxSession
  /\ ready' = FALSE /\ live' = live + 1 /\ bare' = FALSE
  /\ UNCHANGED <<rpc, request, revertFlag, app, stopped, job, disp, requests>>

PendingExpires ==
  /\ ready /\ ready' = FALSE
  /\ UNCHANGED <<rpc, request, revertFlag, app, live, stopped, job, disp, bare, requests>>

SessionStops ==
  /\ stopped < live /\ stopped' = stopped + 1
  /\ UNCHANGED <<rpc, request, revertFlag, app, live, ready, job, disp, bare, requests>>

RtspClear ==
  /\ stopped > 0 /\ Clear(FALSE)
  /\ UNCHANGED <<rpc, request, revertFlag, ready, disp, bare, requests>>

AppExits ==
  /\ app = "on" /\ app' = "exited"
  /\ UNCHANGED <<rpc, request, revertFlag, live, stopped, ready, job, disp, bare, requests>>

\* /serverinfo, the tray and the control thread look at the application.
PollApp ==
  /\ app = "exited" /\ app' = "none" /\ job' = "revert"
  /\ UNCHANGED <<rpc, request, revertFlag, live, stopped, ready, disp, bare, requests>>

\* A temporarily unavailable API leaves the job for the next retry.
JobDone ==
  /\ job # "none" /\ job' = "none"
  /\ disp' = IF job = "revert" THEN "orig" ELSE "set"
  /\ UNCHANGED <<rpc, request, revertFlag, app, live, stopped, ready, bare, requests>>

\* applySettings failed for good: the job ends without effect.
ApplyFails ==
  /\ job = "apply" /\ job' = "none"
  /\ UNCHANGED <<rpc, request, revertFlag, app, live, stopped, ready, disp, bare, requests>>

Https == Count \/ Configure \/ Probe \/ Encrypt \/ Execute \/ Raise \/ CancelRevert
LaunchNext ==
  \/ \E op \in {"launch", "resume"}, a \in BOOLEAN : Enter([op |-> op, appid |-> a])
  \/ CancelClear \/ Https
  \/ SessionStart \/ PendingExpires \/ SessionStops \/ RtspClear
  \/ AppExits \/ PollApp \/ JobDone \/ ApplyFails

LaunchSpec == LaunchInit /\ [][LaunchNext]_reqVars
FairLaunchSpec ==
  LaunchSpec /\ WF_reqVars(Https) /\ WF_reqVars(RtspClear)
       /\ WF_reqVars(SessionStart \/ PendingExpires)
       /\ WF_reqVars(JobDone)

----------------------------------------------------------------------------
Idle == rpc = "idle" /\ app = "none" /\ live = 0 /\ ~ready /\ ~bare

\* The host's own display comes back: once no request, application, session or
\* launch is left, the display configuration is reverted, whichever of them
\* ended last and wherever a request failed. (bare is the one way to miss it:
\* the client never connects and there is no application whose end reverts.)
Restored == disp = "orig"
DisplayRestored == Idle ~> Restored \/ ~Idle

\* The same without time: an idle host with a changed display has a revert under
\* way; the last job asked for is never an apply.
IdleIsReverting == Idle => job = "revert" \/ (disp = "orig" /\ job = "none")

\* The inductive invariant behind it. The display is, or will be, as a client
\* wants it, and no revert is under way.
Changed == job # "revert" /\ (disp # "orig" \/ job # "none")

\* Somebody whose end reverts: an application, a session, a /launch that has
\* configured the display and still can fail, or /cancel; or nobody (bare).
Answered ==
  \/ app # "none" \/ live > 0 \/ bare \/ rpc = "cancel"
  \/ revertFlag /\ rpc \in {"probe", "encrypt", "execute"}
  \/ rpc = "raise" /\ request.op = "launch" /\ ~request.appid

LaunchPlaces ==
  /\ live \in Nat /\ stopped \in Nat /\ stopped <= live
  /\ request \in [op : {"launch", "resume"}, appid : BOOLEAN]
  /\ revertFlag \in BOOLEAN /\ bare \in BOOLEAN
  /\ rpc \in {"count", "configure", "probe", "encrypt", "execute"} /\ request.op = "launch"
       => app = "none"
  /\ revertFlag \/ rpc = "execute" => request.op = "launch"

LaunchInv == LaunchPlaces /\ (Changed => Answered)

(***************************************************************************)
(* parse_configuration (display_device.cpp): from the video settings and   *)
(* the launch session to the display mode asked of the scheduler. A string *)
(* of the settings is a record: how it parses, and to which value. The     *)
(* environment picks any settings; the invariants compare the result with  *)
(* what it should be.                                                      *)
(***************************************************************************)
CONSTANTS
  Value,     \* resolutions and refresh rates, natural numbers above 0
  MaxEntry   \* bound on the length of a remapping list

NotSet == 0
Option == {"automatic", "manual", "disabled"}
Text == [parses : {"empty", "bad"}, value : {NotSet}]
        \cup [parses : {"ok"}, value : Value]
\* An entry of mode_remapping; from and to stand for the four strings.
Entry == [fromRes : Text, fromRate : Text, toRes : Text, toRate : Text]

VARIABLES
  resOpt, rateOpt, manual,   \* the settings; manual serves both options
  session,                   \* enable_sops, mode and fps of the client
  remap,                     \* the list for the remapping type
  picked                     \* an input has been chosen

modeVars == <<resOpt, rateOpt, manual, session, remap, picked>>

Failed == [res |-> NotSet, rate |-> NotSet, ok |-> FALSE]

\* parse_resolution_option: only with "Optimize game settings" on the client.
ParseResolutionOption(opt, text, s) ==
  IF opt = "disabled" \/ ~s.sops THEN [ok |-> TRUE, res |-> NotSet]
  ELSE IF opt = "automatic" THEN [ok |-> s.valid, res |-> s.res]
  ELSE [ok |-> text.parses = "ok", res |-> text.value]

\* parse_refresh_rate_option.
ParseRefreshRateOption(opt, text, s) ==
  CASE opt = "disabled" -> [ok |-> TRUE, rate |-> NotSet]
    [] opt = "automatic" -> [ok |-> s.valid, rate |-> s.rate]
    [] opt = "manual" -> [ok |-> text.parses = "ok", rate |-> text.value]

\* determine_remapping_type, as the set of what may be remapped.
RemappingType(ro, fo) ==
  (IF ro = "automatic" THEN {"res"} ELSE {}) \cup (IF fo = "automatic" THEN {"rate"} ELSE {})

\* parse_remapping_entry: fields outside the type are not looked at.
ParseEntry(e, type) ==
  LET res(t) == IF "res" \in type THEN t.value ELSE NotSet
      rate(t) == IF "rate" \in type THEN t.value ELSE NotSet
  IN [ok |-> /\ "res" \in type => {e.fromRes.parses, e.toRes.parses} \cap {"bad"} = {}
             /\ "rate" \in type => {e.fromRate.parses, e.toRate.parses} \cap {"bad"} = {},
      fromRes |-> res(e.fromRes), toRes |-> res(e.toRes),
      fromRate |-> rate(e.fromRate), toRate |-> rate(e.toRate)]

Skips(p, s, mode) ==
  \/ ~s.sops /\ (p.fromRes # NotSet \/ p.toRes # NotSet)
  \/ p.fromRes # NotSet /\ p.fromRes # mode.res
  \/ p.fromRate # NotSet /\ p.fromRate # mode.rate

\* remap_display_mode_if_needed: entries in order; a bad one, or one without a
\* final value, fails the whole; the first that is not skipped is applied.
RemapFrom(es, type, s, mode) ==
  LET Bad(p) == ~p.ok \/ (p.toRes = NotSet /\ p.toRate = NotSet)
      deciding == {i \in DOMAIN es : LET p == ParseEntry(es[i], type) IN Bad(p) \/ ~Skips(p, s, mode)}
  IN IF deciding = {} THEN mode
     ELSE LET p == ParseEntry(es[Min(deciding)], type)
          IN IF Bad(p) THEN Failed
             ELSE [mode EXCEPT !.res = IF p.toRes # NotSet THEN p.toRes ELSE @,
                               !.rate = IF p.toRate # NotSet THEN p.toRate ELSE @]

\* parse_configuration once the preparation is not disabled.
Parse(ro, fo, text, es, s) ==
  LET r == ParseResolutionOption(ro, text, s)
      f == ParseRefreshRateOption(fo, text, s)
      type == RemappingType(ro, fo)
      mode == [res |-> r.res, rate |-> f.rate, ok |-> TRUE]
  IN IF ~r.ok \/ ~f.ok THEN Failed
     ELSE IF type = {} THEN mode ELSE RemapFrom(es, type, s, mode)

ModeInit ==
  /\ resOpt = "disabled" /\ rateOpt = "disabled" /\ picked = FALSE
  /\ manual = [parses |-> "empty", value |-> NotSet] /\ remap = <<>>
  /\ session = [sops |-> FALSE, valid |-> TRUE, res |-> Min(Value), rate |-> Min(Value)]

Pick ==
  /\ ~picked /\ picked' = TRUE
  /\ resOpt' \in Option /\ rateOpt' \in Option /\ manual' \in Text
  /\ \E b, v \in BOOLEAN : session' = [session EXCEPT !.sops = b, !.valid = v]
  /\ \E n \in 0 .. MaxEntry : remap' \in [1 .. n -> Entry]

ModeNext == Pick
ModeSpec == ModeInit /\ [][ModeNext]_modeVars

----------------------------------------------------------------------------
Result == Parse(resOpt, rateOpt, manual, remap, session)

\* Without "Optimize game settings" on the client no path, the remapping
\* included, asks for a resolution.
NoSopsNoResolution == ~session.sops => Result.res = NotSet

\* The remapping touches only what is set to automatic: a manual or disabled
\* setting comes out as configured, whatever the list says, and a broken field
\* of the setting that is not remapped fails nothing.
RemapsOnlyAutomatic ==
  /\ Result.ok /\ resOpt # "automatic" => Result.res \in {NotSet, manual.value}
  /\ Result.ok /\ rateOpt # "automatic" => Result.rate \in {NotSet, manual.value}
  /\ resOpt = "disabled" /\ rateOpt = "automatic" /\ session.valid /\ remap # <<>>
       /\ remap[1].toRate.parses = "ok" /\ remap[1].fromRate.parses = "empty"
     => Result.rate = remap[1].toRate.value

\* What both rest on: the settings are texts that parse or not.
ModeInv == resOpt \in Option /\ rateOpt \in Option /\ manual \in Text /\ remap \in Seq(Entry)
=============================================================================
