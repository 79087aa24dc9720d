---------------------------- MODULE LaunchEvent ----------------------------
(***************************************************************************)
(* The pending launch session of the RTSP server (rtsp.cpp): an event_t    *)
(* that /launch and /resume raise, that RTSP connections read, that a      *)
(* timer discards after ping_timeout, and that the control thread clears   *)
(* once the client has connected its control stream.                       *)
(*                                                                         *)
(* Three threads: the HTTPS server's only worker runs session_raise; the   *)
(* RTSP thread runs the io_context, that is handle_accept, cmd_announce    *)
(* and the timer's completion handlers; the control thread runs            *)
(* session_clear from get_session. Each event_t operation is atomic (its   *)
(* mutex); session_raise and session_clear are several of them.            *)
(***************************************************************************)
EXTENDS Naturals, Sequences

CONSTANTS
  Launch,  \* launch_session_t objects, each raised by one request
  None

ASSUME NoneAssumption == None \notin Launch

VARIABLES
  pending,    \* launch_event's status
  armed,      \* the launch whose wait on raised_timer is outstanding
  fired,      \* handlers of expired waits queued in the io_context, by launch
  hpc, hcur,  \* session_raise: "idle", "view", "raise", "arm"
  cpc, cid,   \* session_clear: "idle", "cancel", "pop"
  requested,  \* launches some request has made
  attached,   \* launches an RTSP connection was given (socket->session)
  announced   \* launches with a stream session waiting for its control peer

vars == <<pending, armed, fired, hpc, hcur, cpc, cid, requested, attached,
          announced>>

Init ==
  /\ pending = None /\ armed = None /\ fired = <<>>
  /\ hpc = "idle" /\ hcur = None
  /\ cpc = "idle" /\ cid = None
  /\ requested = {} /\ attached = {} /\ announced = {}

----------------------------------------------------------------------------
(* The HTTPS worker: launch_session_raise. *)

Request(l) ==
  /\ hpc = "idle" /\ l \notin requested
  /\ requested' = requested \cup {l}
  /\ hpc' = "view" /\ hcur' = l
  /\ UNCHANGED <<pending, armed, fired, cpc, cid, attached, announced>>

\* Mutant of RaiseView: a pending launch is not looked at.
RaiseViewUnchecked ==
  /\ hpc = "view" /\ hpc' = "raise"
  /\ UNCHANGED <<pending, armed, fired, hcur, cpc, cid, requested, attached,
                 announced>>

\* "If a launch event is still pending, don't overwrite it."
RaiseView ==
  /\ hpc = "view"
  /\ hpc' = IF pending = None THEN "raise" ELSE "idle"
  /\ hcur' = IF pending = None THEN hcur ELSE None
  /\ UNCHANGED <<pending, armed, fired, cpc, cid, requested, attached,
                 announced>>

RaiseEvent ==
  /\ hpc = "raise" /\ hpc' = "arm"
  /\ pending' = hcur
  /\ UNCHANGED <<armed, fired, hcur, cpc, cid, requested, attached, announced>>

\* Mutant of RaiseArm: the timer is not armed.
RaiseArmSkipped ==
  /\ hpc = "arm" /\ hpc' = "idle"
  /\ hcur' = None
  /\ UNCHANGED <<pending, armed, fired, cpc, cid, requested, attached,
                 announced>>

\* expires_after cancels an outstanding wait, whose handler then does nothing;
\* async_wait starts the new one. Handlers already queued stay queued.
RaiseArm ==
  /\ hpc = "arm" /\ hpc' = "idle"
  /\ armed' = hcur /\ hcur' = None
  /\ UNCHANGED <<pending, fired, cpc, cid, requested, attached, announced>>

----------------------------------------------------------------------------
(* The RTSP thread. *)

\* ping_timeout has passed: the wait completes and its handler is queued.
TimerExpires ==
  /\ armed # None
  /\ fired' = Append(fired, armed)
  /\ armed' = None
  /\ UNCHANGED <<pending, hpc, hcur, cpc, cid, requested, attached, announced>>

\* Mutant of TimerHandler: it looks at the pending launch without popping it.
TimerHandlerView ==
  /\ fired # <<>>
  /\ fired' = Tail(fired)
  /\ UNCHANGED <<pending, armed, hpc, hcur, cpc, cid, requested, attached,
                 announced>>

\* The handler: launch_event.pop(0s) discards whatever is pending.
TimerHandler ==
  /\ fired # <<>>
  /\ fired' = Tail(fired)
  /\ pending' = None
  /\ UNCHANGED <<armed, hpc, hcur, cpc, cid, requested, attached, announced>>

\* handle_accept gives the connection the pending launch; without one it
\* closes the connection.
Accept ==
  /\ pending # None
  /\ attached' = attached \cup {pending}
  /\ UNCHANGED <<pending, armed, fired, hpc, hcur, cpc, cid, requested,
                 announced>>

\* ANNOUNCE on such a connection creates the stream session.
Announce(l) ==
  /\ l \in attached
  /\ announced' = announced \cup {l}
  /\ UNCHANGED <<pending, armed, fired, hpc, hcur, cpc, cid, requested,
                 attached>>

----------------------------------------------------------------------------
(* The control thread: get_session calls session_clear(l). *)

\* session_clear's view: nothing pending, or another launch (an error is
\* logged), ends it here.
ClearView(l) ==
  /\ cpc = "idle" /\ l \in announced
  /\ announced' = announced \ {l}
  /\ attached' = attached \ {l}
  /\ IF pending = l THEN cpc' = "cancel" /\ cid' = l
                    ELSE UNCHANGED <<cpc, cid>>
  /\ UNCHANGED <<pending, armed, fired, hpc, hcur, requested>>

\* raised_timer.cancel(): whatever wait is outstanding is given up.
ClearCancel ==
  /\ cpc = "cancel" /\ cpc' = "pop"
  /\ armed' = None
  /\ UNCHANGED <<pending, fired, hpc, hcur, cid, requested, attached,
                 announced>>

\* launch_event.pop(), which waits until something is pending.
ClearPop ==
  /\ cpc = "pop" /\ pending # None
  /\ pending' = None
  /\ cpc' = "idle" /\ cid' = None
  /\ UNCHANGED <<armed, fired, hpc, hcur, requested, attached, announced>>

----------------------------------------------------------------------------
RaiseNext == RaiseView \/ RaiseEvent \/ RaiseArm

ClearNext == ClearCancel \/ ClearPop

Next ==
  \/ \E l \in Launch : Request(l) \/ Announce(l) \/ ClearView(l)
  \/ RaiseNext \/ TimerExpires \/ TimerHandler \/ Accept \/ ClearNext

Spec == Init /\ [][Next]_vars

\* The HTTPS worker and the control thread go on when they can, the timer
\* expires, and the io_context runs the handlers it has queued. Requests and
\* clients owe nothing.
Fairness ==
  /\ WF_vars(RaiseNext) /\ WF_vars(ClearNext)
  /\ WF_vars(TimerExpires) /\ WF_vars(TimerHandler)

FairSpec == Spec /\ Fairness

----------------------------------------------------------------------------
TypeOK ==
  /\ pending \in Launch \cup {None}
  /\ armed \in Launch \cup {None}
  /\ fired \in Seq(Launch)
  /\ hpc \in {"idle", "view", "raise", "arm"} /\ hcur \in Launch \cup {None}
  /\ cpc \in {"idle", "cancel", "pop"} /\ cid \in Launch \cup {None}
  /\ requested \subseteq Launch
  /\ attached \subseteq requested /\ announced \subseteq attached

\* A pending launch never sits there unguarded: a wait or a handler is going
\* to discard it, session_raise is about to arm the timer, or session_clear
\* is about to pop it. This is what lets a client that never shows up, or a
\* cancelled timer, not block every later /launch.
PendingIsGuarded ==
  pending # None =>
    \/ armed # None \/ fired # <<>>
    \/ hpc = "arm" \/ cpc = "pop"

\* "If a launch event is still pending, don't overwrite it": the pending
\* launch is cleared before another one takes its place.
NeverOverwritten ==
  [][pending # None /\ pending' # pending => pending' = None]_vars

\* "If the client does not begin streaming within the ping_timeout, the
\* session will be discarded": no launch stays pending for ever.
PendingIsDiscarded ==
  \A l \in Launch : (pending = l) ~> (pending # l)

\* launch_session_clear is to "clear state for the specified launch session":
\* what session_clear removes is the launch it was called for.
ClearsSpecified == [][ClearPop => pending = cid]_vars
=============================================================================
