----------------------------- MODULE VideoSync -----------------------------
(***************************************************************************)
(* Serial encoding (video.cpp, encoders without PARALLEL_ENCODING): one    *)
(* detached thread captures and encodes for all sessions. capture() hands  *)
(* it a context with a pointer to a join_event on the caller's stack and   *)
(* waits for that event. The queue of contexts belongs to a shared_t that  *)
(* the sessions and the thread itself keep alive.                          *)
(***************************************************************************)
EXTENDS Naturals, FiniteSets

CONSTANT Session   \* sessions that stream video

VARIABLES
  tpc,        \* the thread: "none", "start", "pop", "open", "run", "fail", "unref"
  syncOn,     \* encode_session_ctx_queue.running()
  syncQueue,  \* sessions whose context is in the queue
  synced,     \* synced_session_ctxs
  syncRefs,   \* who holds capture_thread_sync: sessions and "thread"
  wpc,        \* the session in capture(): "out", "raise", "wait", "done"
  joined,     \* sessions whose join_event is raised
  syncStop,   \* sessions whose shutdown event is raised
  stranded    \* sessions that raised their context into a stopped queue

syncVars == <<tpc, syncOn, syncQueue, synced, syncRefs, wpc, joined, syncStop, stranded>>

Init ==
  /\ tpc = "none" /\ syncOn = FALSE /\ syncQueue = {} /\ synced = {} /\ syncRefs = {}
  /\ wpc = [s \in Session |-> "out"]
  /\ joined = {} /\ syncStop = {} /\ stranded = {}

----------------------------------------------------------------------------
(* capture() *)

\* ref(): the first one makes a new queue and starts the thread.
TakeRef(s) ==
  /\ wpc[s] = "out" /\ wpc' = [wpc EXCEPT ![s] = "raise"]
  /\ syncRefs' = syncRefs \cup {s}
  /\ IF syncRefs = {}
     THEN tpc' = "start" /\ syncOn' = TRUE /\ syncQueue' = {} /\ synced' = {}
     ELSE UNCHANGED <<tpc, syncOn, syncQueue, synced>>
  /\ UNCHANGED <<joined, syncStop, stranded>>

\* raise(sync_session_ctx_t), which a stopped queue ignores
RaiseContext(s) ==
  /\ wpc[s] = "raise" /\ wpc' = [wpc EXCEPT ![s] = "wait"]
  /\ IF syncOn THEN syncQueue' = syncQueue \cup {s} /\ UNCHANGED stranded
     ELSE stranded' = stranded \cup {s} /\ UNCHANGED syncQueue
  /\ UNCHANGED <<tpc, syncOn, synced, syncRefs, joined, syncStop>>

\* join_event.view() returns; the reference is dropped.
Return(s) ==
  /\ wpc[s] = "wait" /\ s \in joined
  /\ wpc' = [wpc EXCEPT ![s] = "done"]
  /\ syncRefs' = syncRefs \ {s}
  /\ UNCHANGED <<tpc, syncOn, syncQueue, synced, joined, syncStop, stranded>>

Shutdown(s) ==
  /\ s \notin syncStop
  /\ syncStop' = syncStop \cup {s}
  /\ UNCHANGED <<tpc, syncOn, syncQueue, synced, syncRefs, wpc, joined, stranded>>

----------------------------------------------------------------------------
(* captureThreadSync and encode_run_sync *)

ThreadRef ==
  /\ tpc = "start" /\ tpc' = "pop"
  /\ syncRefs' = syncRefs \cup {"thread"}
  /\ UNCHANGED <<syncOn, syncQueue, synced, wpc, joined, syncStop, stranded>>

\* With no context left from before a reinitialisation, one is waited for.
PopFirst ==
  /\ tpc = "pop" /\ tpc' = "open"
  /\ IF synced # {} THEN UNCHANGED <<syncQueue, synced>>
     ELSE \E s \in syncQueue : synced' = {s} /\ syncQueue' = syncQueue \ {s}
  /\ UNCHANGED <<syncOn, syncRefs, wpc, joined, syncStop, stranded>>

\* The display (reset_display until it works) and make_synced_session for
\* every context; one that fails fails all.
Open ==
  /\ tpc = "open" /\ tpc' \in {"run", "fail"}
  /\ UNCHANGED <<syncOn, syncQueue, synced, syncRefs, wpc, joined, syncStop, stranded>>

\* push_captured_image_callback. New contexts are taken in. A session whose
\* image cannot be converted or encoded is told to stop; sessions told to stop
\* are joined and dropped. The capture goes on, ends for a new display, or ends.
Captured(broken, status) ==
  /\ tpc = "run"
  /\ LET leaving == (synced \cup syncQueue) \cap (syncStop \cup broken)
     IN /\ syncStop' = syncStop \cup leaving
        /\ joined' = joined \cup leaving
        /\ synced' = (synced \cup syncQueue) \ leaving
        /\ syncQueue' = {}
        /\ (synced' = {} => status # "run")
  /\ tpc' = status
  /\ UNCHANGED <<syncOn, syncRefs, wpc, stranded>>

\* A new context cannot be encoded: the capture ends before anybody is served.
CapturedRefused ==
  /\ tpc = "run" /\ tpc' = "fail"
  /\ \E s \in syncQueue : synced' = synced \cup {s} /\ syncQueue' = syncQueue \ {s}
  /\ UNCHANGED <<syncOn, syncRefs, wpc, joined, syncStop, stranded>>

\* Mutant of FailGuard: the contexts nobody has taken in are forgotten.
FailGuardTaken ==
  /\ tpc = "fail" /\ tpc' = "unref" /\ syncOn' = FALSE
  /\ syncStop' = syncStop \cup synced /\ joined' = joined \cup synced
  /\ synced' = {} /\ syncQueue' = {}
  /\ UNCHANGED <<syncRefs, wpc, stranded>>

\* The fail guard: the queue is stopped and everybody in it told to leave.
FailGuard ==
  /\ tpc = "fail" /\ tpc' = "unref" /\ syncOn' = FALSE
  /\ syncStop' = syncStop \cup synced \cup syncQueue
  /\ joined' = joined \cup synced \cup syncQueue
  /\ synced' = {} /\ syncQueue' = {}
  /\ UNCHANGED <<syncRefs, wpc, stranded>>

ThreadUnref ==
  /\ tpc = "unref" /\ tpc' = "none"
  /\ syncRefs' = syncRefs \ {"thread"}
  /\ UNCHANGED <<syncOn, syncQueue, synced, wpc, joined, syncStop, stranded>>

ThreadStep ==
  \/ ThreadRef \/ PopFirst \/ Open \/ CapturedRefused \/ FailGuard \/ ThreadUnref
  \/ \E broken \in SUBSET Session, status \in {"run", "pop", "fail"} : Captured(broken, status)

Next ==
  \/ ThreadStep
  \/ \E s \in Session : TakeRef(s) \/ RaiseContext(s) \/ Return(s) \/ Shutdown(s)

Spec == Init /\ [][Next]_syncVars

\* Threads run; displays call back at least once per timeout.
FairSpec ==
  /\ Spec /\ WF_syncVars(ThreadStep)
  /\ \A s \in Session : WF_syncVars(RaiseContext(s)) /\ WF_syncVars(Return(s))

----------------------------------------------------------------------------
\* The contexts the thread knows belong to callers that still wait: it never
\* raises a join_event twice or after its stack frame is gone.
NoDanglingJoin == \A s \in synced \cup syncQueue : wpc[s] = "wait" /\ s \notin joined

\* A caller that waits is known to a thread that will join it; only a context
\* raised between the end of the thread and the end of its queue is lost.
WaitersAreKnown ==
  \A s \in Session : wpc[s] = "wait" /\ s \notin joined \cup stranded =>
    s \in synced \cup syncQueue /\ tpc # "none"

\* The inductive invariant behind the two: who holds the shared_t, and while its
\* queue runs there is a thread that will read or fail it.
SyncInv ==
  /\ wpc = [s \in Session |-> wpc[s]] /\ synced \cup syncQueue \subseteq Session
  /\ \A s \in Session : s \in syncRefs <=> wpc[s] \in {"raise", "wait"}
  /\ "thread" \in syncRefs <=> tpc \notin {"none", "start"}
  /\ syncOn => tpc \notin {"unref", "none"}
  /\ tpc = "unref" => synced \cup syncQueue = {}
  /\ \A s \in Session : wpc[s] \in {"out", "raise"} => s \notin joined
  /\ NoDanglingJoin /\ WaitersAreKnown

\* A session that is told to stop leaves capture(), unless its context was lost.
Stopping(s) == s \in syncStop /\ wpc[s] = "wait"
Left(s) == wpc[s] = "done" \/ s \in stranded
StopEnds == \A s \in Session : Stopping(s) ~> Left(s)
=============================================================================
