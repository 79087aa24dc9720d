------------------------ MODULE StreamSessionProofs ------------------------
(***************************************************************************)
(* Proofs about StreamSession, for any set of sessions and of HTTP workers,*)
(* any counter range and any subset of the environment's events.           *)
(*                                                                         *)
(* IInv is inductive: one lemma per action that several of its parts       *)
(* depend on, then one step per action in IInvStep. Each lemma first says  *)
(* what the action does, variable by variable, and then                    *)
(* takes the parts of IInv one at a time.                                  *)
(***************************************************************************)
EXTENDS StreamSession, FiniteSetTheorems, TLAPS

\* The counter running_sessions wraps around inside its range.
LEMMA ModRange ==
  ASSUME NEW n \in Nat
  PROVE  n % UintRange \in 0 .. UintRange - 1
BY RangeAssumption

\* cmd_announce allocates a session and inserts it into the slots: nobody else
\* holds anything of a fresh session, and nobody is inside clear().
LEMMA AnnounceStep ==
  ASSUME IInv, NEW s \in Session, Announce(s)
  PROVE  IInv'
<1> USE ThreadAssumption
<1>1. /\ rpc = "iterate" /\ rpc' = "ref" /\ rcur' = s /\ slotsLock = NoOne
      /\ life[s] = "none" /\ life' = [life EXCEPT ![s] = "live"]
      /\ slots' = slots \cup {s}
      /\ UNCHANGED <<state, av, shutdownEv, controlEnd, slotsLock, cpc, cmode,
                     ctodo, ccur, refs, bcast, bShutdown, ctl, sessions,
                     hasPeer, peerMap, ctlTodo, awaiting, running, appRunning,
                     shutdown>>
  BY DEF Announce, clearVars, bcastVars, ctlVars, envVars
<1>2. \A x \in Session : life'[x] = IF x = s THEN "live" ELSE life[x]
  BY <1>1 DEF IInv, TypeOK
<1>3. rcur = NoOne
  BY <1>1 DEF IInv, AnnounceInv, Announcing
<1>4. /\ s \notin slots \cup sessions \cup controlEnd
      /\ \A m \in Media : av[s][m] = "none"
  BY <1>1 DEF IInv, OwnerInv, ThreadInv
<1>5. <<s, "session">> \notin refs
  BY <1>1 DEF IInv, RefInv
<1>6. TypeOK'
  BY <1>1 DEF IInv, TypeOK
<1>7. AnnounceInv'
  <2>1. av[s]["audio"] = "none" /\ av[s]["video"] = "none"
    BY <1>4 DEF Media
  <2> QED
    BY <1>1, <1>4, <1>5, <2>1 DEF IInv, AnnounceInv, Announcing
<1>8. LockInv'
  <2>1. \A u \in Thread : cpc[u] \notin Holding
    BY <1>1 DEF IInv, LockInv, Thread
  <2> QED
    BY <1>1, <2>1 DEF IInv, LockInv, Holding
<1>9. OwnerInv'
  BY <1>1, <1>2, <1>3, <1>4 DEF IInv, OwnerInv
<1>10. ThreadInv'
  BY <1>1, <1>2, <1>3, <1>4 DEF IInv, ThreadInv
<1>11. RefInv'
  <2>1. \A x \in Session :
          (<<x, "session">> \in refs) <=>
            (life'[x] = "live" /\ ~(rcur' = x /\ rpc' \in {"ref", "remove"}))
    <3> TAKE x \in Session
    <3>1. (<<x, "session">> \in refs) <=> (life[x] = "live")
      BY <1>1 DEF IInv, RefInv
    <3> QED
      BY <1>1, <1>2, <1>5, <3>1
  <2> QED
    BY <1>1, <2>1 DEF IInv, RefInv
<1>12. ControlInv'
  BY <1>1, <1>2, <1>4 DEF IInv, ControlInv, TypeOK
<1> QED
  BY <1>6, <1>7, <1>8, <1>9, <1>10, <1>11, <1>12 DEF IInv

\* session::start registers the session with the control server: the session is
\* alive, not told anything yet, and its reference keeps the broadcast up.
LEMMA StartPushStep ==
  ASSUME IInv, StartPush
  PROVE  IInv'
<1>1. /\ rpc = "push" /\ rpc' = "audio" /\ ctl # "pass"
      /\ sessions' = sessions \cup {rcur}
      /\ UNCHANGED <<life, state, av, shutdownEv, controlEnd, slots, slotsLock,
                     rcur, cpc, cmode, ctodo, ccur, refs, bcast, bShutdown,
                     ctl, hasPeer, peerMap, ctlTodo, awaiting, running,
                     appRunning, shutdown>>
  BY DEF StartPush, sessionVars, slotVars, clearVars, bcastVars, envVars
<1>2. rcur \in Session /\ life[rcur] = "live" /\ rcur \notin controlEnd
  BY <1>1 DEF IInv, TypeOK, AnnounceInv, Announcing, OwnerInv
<1>3. <<rcur, "session">> \in refs
  BY <1>1, <1>2 DEF IInv, RefInv
<1>4. TypeOK'
  BY <1>1, <1>2 DEF IInv, TypeOK
<1>5. AnnounceInv'
  BY <1>1 DEF IInv, AnnounceInv, Announcing
<1>6. LockInv' /\ ThreadInv'
  BY <1>1 DEF IInv, LockInv, ThreadInv
<1>7. OwnerInv'
  BY <1>1, <1>2 DEF IInv, OwnerInv
<1>8. RefInv'
  BY <1>1, <1>3 DEF IInv, RefInv
<1>9. ControlInv'
  BY <1>1, <1>2 DEF IInv, ControlInv
<1> QED
  BY <1>4, <1>5, <1>6, <1>7, <1>8, <1>9 DEF IInv

\* session::start counts the session.
LEMMA StartCountStep ==
  ASSUME IInv, StartCount
  PROVE  IInv'
<1>1. /\ rpc = "count" /\ rpc' = "respond"
      /\ running' = (running + 1) % UintRange
      /\ UNCHANGED <<life, state, av, shutdownEv, controlEnd, slots, slotsLock,
                     rcur, cpc, cmode, ctodo, ccur, refs, bcast, bShutdown,
                     ctl, sessions, hasPeer, peerMap, ctlTodo, awaiting,
                     appRunning, shutdown>>
  BY DEF StartCount, sessionVars, slotVars, clearVars, bcastVars, ctlVars,
         envVars
<1>2. TypeOK'
  <2>1. running + 1 \in Nat
    BY RangeAssumption DEF IInv, TypeOK
  <2>2. running' \in 0 .. UintRange - 1
    BY <1>1, <2>1, ModRange
  <2> QED
    BY <1>1, <2>2 DEF IInv, TypeOK
<1>3. AnnounceInv'
  BY <1>1 DEF IInv, AnnounceInv, Announcing
<1>4. LockInv' /\ OwnerInv' /\ ThreadInv' /\ RefInv' /\ ControlInv'
  BY <1>1 DEF IInv, LockInv, OwnerInv, ThreadInv, RefInv, ControlInv
<1> QED
  BY <1>2, <1>3, <1>4 DEF IInv

\* cmd_announce drops its reference. The session dies with it when a clear() has
\* erased the slot; then its threads have been joined and it has been told.
LEMMA RespondStep ==
  ASSUME IInv, Respond
  PROVE  IInv'
<1> DEFINE c == rcur
<1> USE ThreadAssumption
<1>1. c \in Session /\ life[c] = "live" /\ rpc = "respond"
  BY DEF Respond, IInv, TypeOK, AnnounceInv, OwnerInv, Announcing
<1>2. /\ rcur' = NoOne
      /\ UNCHANGED <<state, av, shutdownEv, controlEnd, slots, slotsLock, cpc,
                     cmode, ctodo, ccur, ctl, sessions, hasPeer, peerMap,
                     ctlTodo, awaiting, running, appRunning, shutdown>>
  BY DEF Respond, slotVars, clearVars, ctlVars, envVars
<1>3. rpc' \in {"peek", "end"} /\ refs' \subseteq refs
  BY DEF Respond, DestroySession
<1>4. AnnounceInv' /\ LockInv'
  <2>1. rpc' \notin Announcing /\ rcur' = NoOne
    BY <1>2, <1>3 DEF Announcing
  <2>2. cpc[Rtsp] \notin Holding
    BY <1>1 DEF IInv, AnnounceInv
  <2>3. AnnounceInv'
    BY <1>2, <1>3, <2>1, <2>2 DEF AnnounceInv
  <2>4. LockInv'
    BY <1>2 DEF IInv, LockInv
  <2> QED
    BY <2>3, <2>4
<1>5. CASE c \in slots
  <2>1. UNCHANGED <<life, refs, bcast, bShutdown>>
    BY <1>5 DEF Respond
  <2>2. TypeOK'
    BY <1>2, <1>3, <2>1 DEF IInv, TypeOK
  <2>3. OwnerInv'
    BY <1>1, <1>2, <1>5, <2>1 DEF IInv, OwnerInv
  <2>4. ThreadInv'
    <3>1. \A m \in Media : av[c][m] # "none"
      BY <1>1 DEF IInv, AnnounceInv, Announcing, Media
    <3> QED
      BY <1>1, <1>2, <1>5, <2>1, <3>1 DEF IInv, ThreadInv
  <2>5. RefInv' /\ ControlInv'
    BY <1>1, <1>2, <1>3, <2>1 DEF IInv, RefInv, ControlInv
  <2> QED
    BY <1>4, <2>2, <2>3, <2>4, <2>5 DEF IInv
<1>6. CASE c \notin slots
  <2>1. /\ life' = [life EXCEPT ![c] = "freed"]
        /\ refs' = refs \ {<<c, "session">>}
        /\ IF refs = {<<c, "session">>}
             THEN bcast' = "ending" /\ bShutdown' = TRUE
             ELSE UNCHANGED <<bcast, bShutdown>>
    BY <1>6 DEF Respond, DestroySession
  <2>2. \A s \in Session : life'[s] = IF s = c THEN "freed" ELSE life[s]
    BY <2>1 DEF IInv, TypeOK
  <2>3. c \in controlEnd /\ \A m \in Media : av[c][m] = "exited"
    BY <1>1, <1>6 DEF IInv, OwnerInv, ThreadInv
  <2>4. TypeOK'
    <3>1. life' \in [Session -> {"none", "live", "freed"}]
      BY <2>1 DEF IInv, TypeOK
    <3>2. /\ refs' \subseteq Session \X {"session", "video", "audio"}
          /\ bcast' \in {"down", "up", "ending"} /\ bShutdown' \in BOOLEAN
      BY <2>1 DEF IInv, TypeOK
    <3> QED
      BY <1>2, <1>3, <3>1, <3>2 DEF IInv, TypeOK
  <2>5. OwnerInv'
    BY <1>1, <1>2, <1>6, <2>2 DEF IInv, OwnerInv
  <2>6. ThreadInv'
    BY <1>1, <1>2, <1>6, <2>2, <2>3 DEF IInv, ThreadInv
  <2>7. RefInv'
    <3>1. <<c, "session">> \in refs /\ bcast = "up"
      BY <1>1 DEF IInv, RefInv
    <3>2. \A s \in Session :
            (<<s, "session">> \in refs') <=>
              (<<s, "session">> \in refs /\ s # c)
      BY <2>1
    <3>3. \A s \in Session, m \in Media :
            (<<s, m>> \in refs') <=> (<<s, m>> \in refs)
      BY <2>1 DEF Media
    <3>4. (bcast' = "up") <=> (refs' # {})
      BY <2>1, <3>1
    <3>5. bcast' # "down" /\ ctl # "none"
      BY <2>1, <3>1 DEF IInv, RefInv
    <3>6. \A s \in Session :
            (<<s, "session">> \in refs') <=> (life'[s] = "live")
      BY <1>1, <2>2, <3>2 DEF IInv, RefInv
    <3> QED
      BY <1>2, <1>3, <3>3, <3>4, <3>5, <3>6 DEF IInv, RefInv
  <2>8. ControlInv'
    BY <1>2, <2>2, <2>3 DEF IInv, ControlInv, TypeOK
  <2> QED
    BY <1>4, <2>4, <2>5, <2>6, <2>7, <2>8 DEF IInv
<1> QED
  BY <1>5, <1>6

\* A thread enters rtsp_server_t::clear: with the lock free, no other thread is
\* inside.
LEMMA ClearBeginStep ==
  ASSUME IInv, NEW t \in Thread, NEW all \in BOOLEAN, ClearBegin(t, all),
         \/ t # Rtsp /\ rpc' = rpc
         \/ /\ t = Rtsp /\ rpc \in {"iterate", "peek", "exit"}
            /\ rpc' \in {"accept", "clear", "last"}
  PROVE  IInv'
<1> USE ThreadAssumption
<1>1. /\ slotsLock = NoOne /\ slotsLock' = t
      /\ cpc' = [cpc EXCEPT ![t] = "scan"]
      /\ cmode' = [cmode EXCEPT ![t] = all]
      /\ ctodo' = [ctodo EXCEPT ![t] = slots]
  BY DEF ClearBegin
<1>2. UNCHANGED <<life, state, av, shutdownEv, controlEnd, slots, rcur, ccur,
                  refs, bcast, bShutdown, ctl, sessions, hasPeer, peerMap,
                  ctlTodo, awaiting, running, appRunning, shutdown>>
  BY DEF ClearBegin, sessionVars, bcastVars, ctlVars, envVars
<1>3. \A u \in Thread : cpc[u] \notin Holding
  BY <1>1 DEF IInv, LockInv, Thread
<1>4. \A u \in Thread : /\ cpc'[u] = IF u = t THEN "scan" ELSE cpc[u]
                        /\ ctodo'[u] = IF u = t THEN slots ELSE ctodo[u]
  BY <1>1 DEF IInv, TypeOK
<1>5. (rpc' \in Announcing) <=> (rpc \in Announcing)
  BY DEF Announcing
<1>6. TypeOK'
  <2>1. /\ cpc' \in [Thread -> {"idle", "scan", "join", "erase", "end",
                                "done", "aborted"}]
        /\ cmode' \in [Thread -> BOOLEAN]
        /\ ctodo' \in [Thread -> SUBSET Session]
    BY <1>1 DEF IInv, TypeOK
  <2>2. rpc' \in {"iterate", "ref", "push", "audio", "video", "run", "count",
              "respond", "remove", "end", "peek", "clear", "accept", "exit",
              "last", "done"}
    BY DEF IInv, TypeOK
  <2> QED
    BY <1>1, <1>2, <2>1, <2>2 DEF IInv, TypeOK
<1>7. AnnounceInv'
  <2>1. Rtsp \in Thread /\ "scan" \in Holding
    BY DEF Thread, Holding
  <2>2. rpc' \in {"clear", "accept", "last"} <=> cpc'[Rtsp] \in Holding
    BY <1>3, <1>4, <2>1 DEF IInv, AnnounceInv
  <2> QED
    BY <1>2, <1>5, <2>2 DEF IInv, AnnounceInv
<1>8. LockInv'
  BY <1>1, <1>2, <1>3, <1>4 DEF IInv, LockInv, Holding
<1>9. OwnerInv' /\ ThreadInv' /\ ControlInv'
  BY <1>2 DEF IInv, OwnerInv, ThreadInv, ControlInv
<1>10. RefInv'
  BY <1>2 DEF IInv, RefInv
<1> QED
  BY <1>6, <1>7, <1>8, <1>9, <1>10 DEF IInv

\* clear() takes up a slot: the session it is going to join is in the slots.
LEMMA ClearVisitStep ==
  ASSUME IInv, NEW t \in Thread, NEW s \in Session, ClearVisit(t, s)
  PROVE  IInv'
<1>1. /\ cpc[t] = "scan" /\ s \in ctodo[t]
      /\ ctodo' = [ctodo EXCEPT ![t] = ctodo[t] \ {s}]
      /\ UNCHANGED <<life, av, controlEnd, slots, slotsLock, rpc, rcur, cmode,
                     refs, bcast, bShutdown, ctl, sessions, hasPeer, peerMap,
                     ctlTodo, awaiting, running, appRunning, shutdown>>
  BY DEF ClearVisit, slotVars, rtspVars, bcastVars, ctlVars, envVars
<1>2. /\ cpc' = [cpc EXCEPT ![t] = "join"] /\ ccur' = [ccur EXCEPT ![t] = s]
      \/ UNCHANGED <<cpc, ccur>>
  BY DEF ClearVisit
<1>3. /\ state' \in [Session -> {"STOPPED", "RUNNING", "STOPPING"}]
      /\ shutdownEv' \subseteq Session
  BY DEF ClearVisit, Stop, IInv, TypeOK
<1>4. \A u \in Thread :
        /\ ctodo'[u] = IF u = t THEN ctodo[t] \ {s} ELSE ctodo[u]
        /\ \/ cpc'[u] = cpc[u] /\ ccur'[u] = ccur[u]
           \/ u = t /\ cpc'[u] = "join" /\ ccur'[u] = s
  BY <1>1, <1>2 DEF IInv, TypeOK
<1>5. \A u \in Thread : (cpc'[u] \in Holding) <=> (cpc[u] \in Holding)
  BY <1>1, <1>4 DEF Holding
<1>6. TypeOK'
  <2>1. /\ ctodo' \in [Thread -> SUBSET Session]
        /\ ccur' \in [Thread -> Session \cup {NoOne}]
        /\ cpc' \in [Thread -> {"idle", "scan", "join", "erase", "end",
                                "done", "aborted"}]
    BY <1>1, <1>2 DEF IInv, TypeOK
  <2> QED
    BY <1>1, <1>3, <2>1 DEF IInv, TypeOK
<1>7. AnnounceInv'
  BY <1>1, <1>5, ThreadAssumption DEF IInv, AnnounceInv, Thread
<1>8. LockInv'
  BY <1>1, <1>4, <1>5 DEF IInv, LockInv, Holding
<1>9. OwnerInv' /\ ThreadInv' /\ RefInv' /\ ControlInv'
  BY <1>1 DEF IInv, OwnerInv, ThreadInv, RefInv, ControlInv
<1> QED
  BY <1>6, <1>7, <1>8, <1>9 DEF IInv

\* join throws only when a worker or the main thread meets a session that
\* cmd_announce is still starting, never on the RTSP thread itself.
LEMMA JoinThrowsStep ==
  ASSUME IInv, NEW t \in Thread, JoinThrows(t)
  PROVE  IInv'
<1> USE ThreadAssumption
<1>1. /\ cpc[t] = "join" /\ av[ccur[t]]["video"] = "none"
      /\ UNCHANGED <<life, state, av, shutdownEv, controlEnd, slots, rpc, rcur,
                     refs, bcast, bShutdown, ctl, sessions, hasPeer, peerMap,
                     ctlTodo, awaiting, running, appRunning, shutdown>>
  BY DEF JoinThrows, sessionVars, rtspVars, bcastVars, ctlVars, envVars
<1>2. \/ /\ t = Main /\ cpc' = [cpc EXCEPT ![t] = "aborted"]
         /\ UNCHANGED <<slotsLock, cmode, ctodo, ccur>>
      \/ /\ t # Main /\ cpc' = [cpc EXCEPT ![t] = "idle"]
         /\ cmode' = [cmode EXCEPT ![t] = FALSE]
         /\ ctodo' = [ctodo EXCEPT ![t] = {}]
         /\ ccur' = [ccur EXCEPT ![t] = NoOne] /\ slotsLock' = NoOne
  BY DEF JoinThrows
<1>3. t # Rtsp
  <2>1. SUFFICES ASSUME t = Rtsp PROVE FALSE
    OBVIOUS
  <2>2. ccur[t] \in slots /\ slots \subseteq Session /\ cpc[Rtsp] \in Holding
    BY <1>1, <2>1 DEF IInv, LockInv, TypeOK, Holding
  <2>3. rcur = NoOne
    BY <2>2 DEF IInv, AnnounceInv, Announcing
  <2>4. av[ccur[t]]["video"] # "none"
    BY <2>2, <2>3 DEF IInv, ThreadInv, Media
  <2> QED
    BY <1>1, <2>4
<1>4. /\ \A u \in Thread \ {t} : cpc'[u] = cpc[u] /\ ccur'[u] = ccur[u]
      /\ \A u \in Thread \ {t} : ctodo'[u] = ctodo[u]
  BY <1>2 DEF IInv, TypeOK
<1>5. \/ cpc'[t] = "aborted" /\ UNCHANGED <<slotsLock, ctodo>>
      \/ cpc'[t] = "idle" /\ slotsLock' = NoOne
  BY <1>2 DEF IInv, TypeOK
<1>6. slotsLock = t /\ \A u \in Thread \ {t} : cpc[u] \notin Holding
  BY <1>1 DEF IInv, LockInv, Holding
<1>7. TypeOK'
  <2>1. /\ ccur' \in [Thread -> Session \cup {NoOne}]
        /\ cpc' \in [Thread -> {"idle", "scan", "join", "erase", "end",
                                "done", "aborted"}]
        /\ slotsLock' \in Thread \cup {NoOne}
    BY <1>2 DEF IInv, TypeOK
  <2>2. ctodo' \in [Thread -> SUBSET Session]
    BY <1>2 DEF IInv, TypeOK
  <2>3. cmode' \in [Thread -> BOOLEAN]
    BY <1>2 DEF IInv, TypeOK
  <2> QED
    BY <1>1, <2>1, <2>2, <2>3 DEF IInv, TypeOK
<1>8. AnnounceInv'
  <2>1. cpc'[Rtsp] = cpc[Rtsp]
    BY <1>3, <1>4 DEF Thread
  <2> QED
    BY <1>1, <2>1 DEF IInv, AnnounceInv
<1>9. LockInv'
  <2>1. ctodo[t] \subseteq slots
    BY <1>1 DEF IInv, LockInv, Holding
  <2>2. NoOne \notin Thread
    BY DEF Thread
  <2> QED
    BY <1>1, <1>4, <1>5, <1>6, <2>1, <2>2 DEF IInv, LockInv, Holding
<1>10. OwnerInv' /\ ThreadInv' /\ RefInv' /\ ControlInv'
  BY <1>1 DEF IInv, OwnerInv, ThreadInv, RefInv, ControlInv
<1> QED
  BY <1>7, <1>8, <1>9, <1>10 DEF IInv

\* session::join returns: the session was told and its threads have ended.
LEMMA JoinStep ==
  ASSUME IInv, NEW t \in Thread, Join(t)
  PROVE  IInv'
<1>1. /\ cpc[t] = "join" /\ cpc' = [cpc EXCEPT ![t] = "erase"]
      /\ ccur[t] \in controlEnd /\ \A m \in Media : av[ccur[t]][m] = "exited"
      /\ running' = (running + UintRange - 1) % UintRange
      /\ UNCHANGED <<life, state, av, shutdownEv, controlEnd, slots, slotsLock,
                     rpc, rcur, cmode, ctodo, ccur, refs, bcast, bShutdown,
                     ctl, sessions, hasPeer, peerMap, ctlTodo, awaiting,
                     appRunning, shutdown>>
  BY DEF Join, sessionVars, slotVars, rtspVars, bcastVars, ctlVars, envVars
<1>2. \A u \in Thread : cpc'[u] = IF u = t THEN "erase" ELSE cpc[u]
  BY <1>1 DEF IInv, TypeOK
<1>3. \A u \in Thread : (cpc'[u] \in Holding) <=> (cpc[u] \in Holding)
  BY <1>1, <1>2 DEF Holding
<1>4. TypeOK'
  <2>1. running + UintRange - 1 \in Nat
    BY RangeAssumption DEF IInv, TypeOK
  <2>2. running' \in 0 .. UintRange - 1
    BY <1>1, <2>1, ModRange
  <2>3. cpc' \in [Thread -> {"idle", "scan", "join", "erase", "end",
                             "done", "aborted"}]
    BY <1>1 DEF IInv, TypeOK
  <2> QED
    BY <1>1, <2>2, <2>3 DEF IInv, TypeOK
<1>5. AnnounceInv'
  BY <1>1, <1>3 DEF IInv, AnnounceInv, Thread
<1>6. LockInv'
  BY <1>1, <1>2, <1>3 DEF IInv, LockInv
<1>7. OwnerInv' /\ ThreadInv' /\ RefInv' /\ ControlInv'
  BY <1>1 DEF IInv, OwnerInv, ThreadInv, RefInv, ControlInv
<1> QED
  BY <1>4, <1>5, <1>6, <1>7 DEF IInv

\* clear() erases a slot. If cmd_announce does not hold the session it is
\* destroyed: no thread of it is left, the control thread has dropped it, and
\* the broadcast ends with the last reference only.
LEMMA EraseStep ==
  ASSUME IInv, NEW t \in Thread, Erase(t)
  PROVE  IInv'
<1> DEFINE c == ccur[t]
<1> USE ThreadAssumption
<1>1. /\ c \in Session /\ c \in slots /\ c \notin ctodo[t]
      /\ c \in controlEnd /\ life[c] = "live"
      /\ \A m \in Media : av[c][m] = "exited"
  BY DEF Erase, IInv, TypeOK, LockInv, OwnerInv
<1>2. /\ cpc[t] \in Holding /\ slotsLock = t
      /\ \A u \in Thread \ {t} : cpc[u] \notin Holding
  BY DEF Erase, IInv, LockInv, Holding
<1>3. /\ slots' = slots \ {c} /\ ccur' = [ccur EXCEPT ![t] = NoOne]
      /\ UNCHANGED <<state, av, shutdownEv, controlEnd, slotsLock, rpc, rcur,
                     cmode, ctodo, ctl, sessions, hasPeer, peerMap, ctlTodo,
                     awaiting, running, appRunning, shutdown>>
  BY DEF Erase, rtspVars, ctlVars, envVars
<1>4. PICK p \in {"scan", "end"} : cpc' = [cpc EXCEPT ![t] = p]
  BY DEF Erase
<1>5. \A u \in Thread : cpc'[u] = IF u = t THEN p ELSE cpc[u]
  BY <1>4 DEF IInv, TypeOK
<1>6. AnnounceInv' /\ LockInv'
  <2>1. \A u \in Thread : (cpc'[u] \in Holding) <=> (cpc[u] \in Holding)
    BY <1>2, <1>5 DEF Holding
  <2>2. Rtsp \in Thread
    BY DEF Thread
  <2>3. refs' \subseteq refs
    BY DEF Erase, DestroySession
  <2>4. AnnounceInv'
    BY <1>3, <2>1, <2>2, <2>3 DEF IInv, AnnounceInv
  <2>5. LockInv'
    BY <1>1, <1>2, <1>3, <1>5, <2>1 DEF IInv, LockInv, Holding
  <2> QED
    BY <2>4, <2>5
<1>7. CASE rcur = c
  <2>1. UNCHANGED <<life, refs, bcast, bShutdown>>
    BY <1>7 DEF Erase
  <2>2. TypeOK'
    BY <1>3, <1>4, <2>1 DEF IInv, TypeOK
  <2>3. OwnerInv'
    BY <1>1, <1>3, <1>7, <2>1 DEF IInv, OwnerInv
  <2>4. ThreadInv'
    BY <1>1, <1>3, <1>7, <2>1 DEF IInv, ThreadInv
  <2>5. RefInv' /\ ControlInv'
    BY <1>3, <2>1 DEF IInv, RefInv, ControlInv
  <2> QED
    BY <1>6, <2>2, <2>3, <2>4, <2>5 DEF IInv
<1>8. CASE rcur # c
  <2>1. /\ life' = [life EXCEPT ![c] = "freed"]
        /\ refs' = refs \ {<<c, "session">>}
        /\ IF refs = {<<c, "session">>}
             THEN bcast' = "ending" /\ bShutdown' = TRUE
             ELSE UNCHANGED <<bcast, bShutdown>>
    BY <1>8 DEF Erase, DestroySession
  <2>2. \A s \in Session : life'[s] = IF s = c THEN "freed" ELSE life[s]
    BY <2>1 DEF IInv, TypeOK
  <2>3. TypeOK'
    <3>1. life' \in [Session -> {"none", "live", "freed"}]
      BY <2>1 DEF IInv, TypeOK
    <3>2. cpc' \in [Thread -> {"idle", "scan", "join", "erase", "end",
                               "done", "aborted"}]
      BY <1>4 DEF IInv, TypeOK
    <3>3. ccur' \in [Thread -> Session \cup {NoOne}]
      BY <1>3 DEF IInv, TypeOK
    <3>4. /\ refs' \subseteq Session \X {"session", "video", "audio"}
          /\ bcast' \in {"down", "up", "ending"} /\ bShutdown' \in BOOLEAN
      BY <2>1 DEF IInv, TypeOK
    <3> QED
      BY <1>3, <3>1, <3>2, <3>3, <3>4 DEF IInv, TypeOK
  <2>4. OwnerInv'
    BY <1>1, <1>3, <1>8, <2>2 DEF IInv, OwnerInv
  <2>5. ThreadInv'
    BY <1>1, <1>3, <1>8, <2>2 DEF IInv, ThreadInv
  <2>6. RefInv'
    <3>1. <<c, "session">> \in refs /\ bcast = "up"
      BY <1>1, <1>8 DEF IInv, RefInv
    <3>2. \A s \in Session :
            (<<s, "session">> \in refs') <=>
              (<<s, "session">> \in refs /\ s # c)
      BY <2>1
    <3>3. \A s \in Session, m \in Media :
            (<<s, m>> \in refs') <=> (<<s, m>> \in refs)
      BY <2>1 DEF Media
    <3>4. (bcast' = "up") <=> (refs' # {})
      BY <2>1, <3>1
    <3>5. bcast' # "down" /\ ctl # "none"
      BY <2>1, <3>1 DEF IInv, RefInv
    <3>6. \A s \in Session :
            (<<s, "session">> \in refs') <=>
            (life'[s] = "live" /\ ~(rcur = s /\ rpc \in {"ref", "remove"}))
      BY <2>2, <3>2 DEF IInv, RefInv
    <3> QED
      BY <1>3, <3>3, <3>4, <3>5, <3>6 DEF IInv, RefInv
  <2>7. ControlInv'
    BY <1>1, <1>3, <2>2 DEF IInv, ControlInv, TypeOK
  <2> QED
    BY <1>6, <2>3, <2>4, <2>5, <2>6, <2>7 DEF IInv
<1> QED
  BY <1>7, <1>8

\* end_broadcast finishes, in whichever thread released the last reference.
LEMMA EndBroadcastStep ==
  ASSUME IInv, EndBroadcast,
         \/ /\ rpc = "end" /\ rpc' = "peek" /\ UNCHANGED cpc
         \/ \E t \in Thread : /\ cpc[t] = "end" /\ UNCHANGED rpc
                              /\ cpc' = [cpc EXCEPT ![t] = "scan"],
         UNCHANGED <<sessionVars, slotVars, rcur, cmode, ctodo, ccur, refs,
                     hasPeer, ctlTodo, awaiting, running, envVars>>
  PROVE  IInv'
<1>1. /\ bcast = "ending" /\ ctl = "exited"
      /\ bcast' = "down" /\ bShutdown' = FALSE /\ ctl' = "none"
      /\ sessions' = {} /\ peerMap' = {}
  BY DEF EndBroadcast
<1>2. UNCHANGED <<life, state, av, shutdownEv, controlEnd, slots, slotsLock,
                  rcur, cmode, ctodo, ccur, refs, hasPeer, ctlTodo, awaiting,
                  running, appRunning, shutdown>>
  BY DEF sessionVars, slotVars, envVars
<1>3. /\ cpc' \in [Thread -> {"idle", "scan", "join", "erase", "end", "done",
                              "aborted"}]
      /\ \A u \in Thread : \/ cpc'[u] = cpc[u]
                           \/ cpc[u] = "end" /\ cpc'[u] = "scan"
  BY DEF IInv, TypeOK
<1>4. \A u \in Thread : (cpc'[u] \in Holding) <=> (cpc[u] \in Holding)
  BY <1>3 DEF Holding
<1>5. rpc' = rpc \/ (rpc = "end" /\ rpc' = "peek")
  OBVIOUS
<1>6. TypeOK'
  BY <1>1, <1>2, <1>3, <1>5 DEF IInv, TypeOK
<1>7. AnnounceInv'
  <2>1. Rtsp \in Thread
    BY DEF Thread
  <2>2. (rpc' \in Announcing) <=> (rpc \in Announcing)
    BY <1>5 DEF Announcing
  <2> QED
    BY <1>1, <1>2, <1>4, <1>5, <2>1, <2>2 DEF IInv, AnnounceInv
<1>8. LockInv'
  BY <1>2, <1>3, <1>4 DEF IInv, LockInv
<1>9. OwnerInv' /\ ThreadInv'
  BY <1>1, <1>2 DEF IInv, OwnerInv, ThreadInv
<1>10. RefInv'
  <2>1. refs = {}
    BY <1>1 DEF IInv, RefInv
  <2> QED
    BY <1>1, <1>2, <1>5, <2>1 DEF IInv, RefInv
<1>11. ControlInv'
  BY <1>1, <1>2 DEF IInv, ControlInv, Looping
<1> QED
  BY <1>6, <1>7, <1>8, <1>9, <1>10, <1>11 DEF IInv

\* A media thread takes its reference: the session's own one keeps the
\* broadcast up meanwhile.
LEMMA AvStartStep ==
  ASSUME IInv, NEW s \in Session, NEW m \in Media, AvStart(s, m)
  PROVE  IInv'
<1>1. /\ av[s][m] = "spawned"
      /\ refs' = refs \cup {<<s, m>>}
      /\ av' = [av EXCEPT ![s] = [av[s] EXCEPT ![m] = "pinging"]]
      /\ UNCHANGED <<life, state, shutdownEv, controlEnd, slots, slotsLock,
                     rpc, rcur, cpc, cmode, ctodo, ccur, bShutdown, sessions,
                     hasPeer, peerMap, ctlTodo, awaiting, running, appRunning,
                     shutdown>>
  BY DEF AvStart, Ref, slotVars, rtspVars, clearVars, envVars
<1>2. \A x \in Session, n \in Media :
        av'[x][n] = IF x = s /\ n = m THEN "pinging" ELSE av[x][n]
  BY <1>1 DEF IInv, TypeOK
<1>3. <<s, "session">> \in refs
  <2>1. life[s] = "live"
    BY <1>1 DEF IInv, ThreadInv
  <2>2. ~(rcur = s /\ rpc \in {"ref", "remove"})
    BY <1>1 DEF IInv, AnnounceInv, Announcing, Media
  <2> QED
    BY <2>1, <2>2 DEF IInv, RefInv
<1>4. bcast = "up" /\ UNCHANGED <<bcast, ctl>>
  BY <1>3 DEF AvStart, Ref, IInv, RefInv
<1>5. TypeOK'
  <2>1. av' \in [Session -> [Media -> {"none", "spawned", "pinging",
                                       "capturing", "exited"}]]
    BY <1>1 DEF IInv, TypeOK
  <2>2. refs' \subseteq Session \X {"session", "video", "audio"}
    BY <1>1 DEF IInv, TypeOK, Media
  <2> QED
    BY <1>1, <1>4, <2>1, <2>2 DEF IInv, TypeOK
<1>6. AnnounceInv'
  <2>1. rpc \in Announcing => rcur \in Session
    BY DEF IInv, TypeOK, AnnounceInv
  <2>2. \A n \in Media : rpc \in Announcing =>
          ((av'[rcur][n] = "none") <=> (av[rcur][n] = "none"))
    BY <1>1, <1>2, <2>1
  <2>3. rpc \in {"ref", "remove"} => <<rcur, "session">> \notin refs'
    BY <1>1 DEF IInv, AnnounceInv, Media
  <2>4. "audio" \in Media /\ "video" \in Media
    BY DEF Media
  <2> QED
    BY <1>1, <2>2, <2>3, <2>4 DEF IInv, AnnounceInv
<1>7. LockInv'
  BY <1>1, <1>2 DEF IInv, TypeOK, LockInv
<1>8. OwnerInv'
  BY <1>1 DEF IInv, OwnerInv
<1>9. ThreadInv'
  BY <1>1, <1>2 DEF IInv, ThreadInv
<1>10. RefInv'
  <2>1. \A x \in Session :
          (<<x, "session">> \in refs') <=> (<<x, "session">> \in refs)
    BY <1>1 DEF Media
  <2>2. \A x \in Session, n \in Media :
          (<<x, n>> \in refs') <=> (av'[x][n] \in {"pinging", "capturing"})
    <3> TAKE x \in Session, n \in Media
    <3>1. (<<x, n>> \in refs') <=> (<<x, n>> \in refs \/ (x = s /\ n = m))
      BY <1>1
    <3>2. (<<x, n>> \in refs) <=> (av[x][n] \in {"pinging", "capturing"})
      BY DEF IInv, RefInv
    <3> QED
      BY <1>2, <3>1, <3>2
  <2> QED
    BY <1>1, <1>4, <2>1, <2>2 DEF IInv, RefInv
<1>11. ControlInv'
  BY <1>1, <1>4 DEF IInv, ControlInv
<1> QED
  BY <1>5, <1>6, <1>7, <1>8, <1>9, <1>10, <1>11 DEF IInv

\* A media thread releases its reference: the session's own one is left.
LEMMA AvExitStep ==
  ASSUME IInv, NEW s \in Session, NEW m \in Media, AvExit(s, m)
  PROVE  IInv'
<1>1. /\ av[s][m] \in {"pinging", "capturing"}
      /\ refs' = refs \ {<<s, m>>}
      /\ av' = [av EXCEPT ![s] = [av[s] EXCEPT ![m] = "exited"]]
      /\ UNCHANGED <<life, controlEnd, slots, slotsLock, rpc, rcur, cpc, cmode,
                     ctodo, ccur, bcast, bShutdown, ctl, sessions, hasPeer,
                     peerMap, ctlTodo, awaiting, running, appRunning,
                     shutdown>>
  BY DEF AvExit, slotVars, rtspVars, clearVars, ctlVars, envVars
<1>2. \A x \in Session, n \in Media :
        av'[x][n] = IF x = s /\ n = m THEN "exited" ELSE av[x][n]
  BY <1>1 DEF IInv, TypeOK
<1>3. <<s, "session">> \in refs
  <2>1. life[s] = "live"
    BY <1>1 DEF IInv, ThreadInv
  <2>2. ~(rcur = s /\ rpc \in {"ref", "remove"})
    BY <1>1 DEF IInv, AnnounceInv, Announcing, Media
  <2> QED
    BY <2>1, <2>2 DEF IInv, RefInv
<1>4. <<s, "session">> \in refs'
  BY <1>1, <1>3 DEF Media
<1>5. TypeOK'
  <2>1. av' \in [Session -> [Media -> {"none", "spawned", "pinging",
                                       "capturing", "exited"}]]
    BY <1>1 DEF IInv, TypeOK
  <2>2. /\ state' \in [Session -> {"STOPPED", "RUNNING", "STOPPING"}]
        /\ shutdownEv' \subseteq Session
    BY DEF AvExit, Stop, IInv, TypeOK
  <2>3. refs' \subseteq Session \X {"session", "video", "audio"}
    BY <1>1 DEF IInv, TypeOK
  <2> QED
    BY <1>1, <2>1, <2>2, <2>3 DEF IInv, TypeOK
<1>6. AnnounceInv'
  <2>1. rpc \in Announcing => rcur \in Session
    BY DEF IInv, TypeOK, AnnounceInv
  <2>2. \A n \in Media : rpc \in Announcing =>
          ((av'[rcur][n] = "none") <=> (av[rcur][n] = "none"))
    BY <1>1, <1>2, <2>1
  <2>3. "audio" \in Media /\ "video" \in Media
    BY DEF Media
  <2> QED
    BY <1>1, <2>2, <2>3 DEF IInv, AnnounceInv
<1>7. LockInv'
  BY <1>1, <1>2 DEF IInv, TypeOK, LockInv
<1>8. OwnerInv'
  BY <1>1 DEF IInv, OwnerInv
<1>9. ThreadInv'
  BY <1>1, <1>2 DEF IInv, ThreadInv
<1>10. RefInv'
  <2>1. \A x \in Session :
          (<<x, "session">> \in refs') <=> (<<x, "session">> \in refs)
    BY <1>1 DEF Media
  <2>2. \A x \in Session, n \in Media :
          (<<x, n>> \in refs') <=> (av'[x][n] \in {"pinging", "capturing"})
    <3> TAKE x \in Session, n \in Media
    <3>1. (<<x, n>> \in refs') <=> (<<x, n>> \in refs /\ ~(x = s /\ n = m))
      BY <1>1
    <3>2. (<<x, n>> \in refs) <=> (av[x][n] \in {"pinging", "capturing"})
      BY DEF IInv, RefInv
    <3> QED
      BY <1>2, <3>1, <3>2
  <2> QED
    BY <1>1, <1>3, <1>4, <2>1, <2>2 DEF IInv, RefInv
<1>11. ControlInv'
  BY <1>1 DEF IInv, ControlInv
<1> QED
  BY <1>5, <1>6, <1>7, <1>8, <1>9, <1>10, <1>11 DEF IInv

\* The control thread visits a session: one it forgets has been told, and is
\* alive when it is.
LEMMA CtlVisitStep ==
  ASSUME IInv, NEW s \in Session, NEW b \in BOOLEAN, CtlVisit(s, b)
  PROVE  IInv'
<1>1. /\ ctl = "pass" /\ s \in ctlTodo /\ ctlTodo' = ctlTodo \ {s}
      /\ UNCHANGED <<life, av, slots, slotsLock, rpc, rcur, cpc, cmode, ctodo,
                     ccur, refs, bcast, bShutdown, ctl, hasPeer, running,
                     appRunning, shutdown>>
  BY DEF CtlVisit, slotVars, rtspVars, clearVars, bcastVars, envVars
<1>2. /\ state' \in [Session -> {"STOPPED", "RUNNING", "STOPPING"}]
      /\ shutdownEv' \subseteq Session
  BY DEF CtlVisit, Stop, IInv, TypeOK
<1>3. awaiting' \in BOOLEAN
  BY DEF CtlVisit, IInv, TypeOK
<1>4. \/ UNCHANGED <<sessions, peerMap, controlEnd>>
      \/ /\ sessions' = sessions \ {s} /\ peerMap' = peerMap \ {s}
         /\ controlEnd' = controlEnd \cup {s}
  BY DEF CtlVisit
<1>5. s \in sessions /\ life[s] = "live"
  BY <1>1 DEF IInv, ControlInv, Looping
<1>6. TypeOK'
  BY <1>1, <1>2, <1>3, <1>4 DEF IInv, TypeOK
<1>7. AnnounceInv'
  BY <1>1, <1>4, <1>5 DEF IInv, AnnounceInv
<1>8. LockInv'
  BY <1>1, <1>4 DEF IInv, LockInv
<1>9. OwnerInv'
  BY <1>1, <1>4, <1>5 DEF IInv, OwnerInv
<1>10. ThreadInv'
  BY <1>1 DEF IInv, ThreadInv
<1>11. RefInv'
  BY <1>1, <1>4 DEF IInv, RefInv
<1>12. ControlInv'
  BY <1>1, <1>4 DEF IInv, ControlInv
<1> QED
  BY <1>6, <1>7, <1>8, <1>9, <1>10, <1>11, <1>12 DEF IInv

\* The top of the control loop, and a peer that stops its session.
LEMMA CtlLoopStep ==
  ASSUME IInv, CtlTop \/ \E s \in Session : CtlStop(s)
  PROVE  IInv'
<1>1. /\ ctl \in Looping \ {"pass"} /\ ctl' \in Looping
      /\ UNCHANGED <<life, av, controlEnd, slots, slotsLock, rpc, rcur, cpc,
                     cmode, ctodo, ccur, refs, bcast, bShutdown, sessions,
                     hasPeer, peerMap, running, appRunning, shutdown>>
  BY DEF CtlTop, CtlStop, Looping, sessionVars, slotVars, rtspVars, clearVars,
         bcastVars, envVars
<1>2. /\ ctlTodo' \subseteq sessions /\ awaiting' \in BOOLEAN
      /\ ctl' # "pass" => ctlTodo' = {}
  BY DEF CtlTop, CtlStop, IInv, TypeOK, ControlInv
<1>3. /\ state' \in [Session -> {"STOPPED", "RUNNING", "STOPPING"}]
      /\ shutdownEv' \subseteq Session
  BY DEF CtlTop, CtlStop, Stop, IInv, TypeOK, sessionVars
<1>4. TypeOK'
  BY <1>1, <1>2, <1>3 DEF IInv, TypeOK, Looping
<1>5. AnnounceInv' /\ LockInv' /\ OwnerInv' /\ ThreadInv'
  BY <1>1 DEF IInv, AnnounceInv, LockInv, OwnerInv, ThreadInv
<1>6. RefInv'
  BY <1>1 DEF IInv, RefInv, Looping
<1>7. ControlInv'
  BY <1>1, <1>2 DEF IInv, ControlInv
<1> QED
  BY <1>4, <1>5, <1>6, <1>7 DEF IInv

(***************************************************************************)
(* The inductive invariant.                                                *)
(***************************************************************************)

\* Nothing exists in the initial state.
LEMMA IInvInit == Init => IInv
<1> SUFFICES ASSUME Init PROVE IInv
  OBVIOUS
<1> USE ThreadAssumption DEF Init
<1>1. TypeOK
  <2>1. running \in 0 .. UintRange - 1
    BY RangeAssumption
  <2>2. av \in [Session -> [Media -> {"none", "spawned", "pinging",
                                      "capturing", "exited"}]]
    OBVIOUS
  <2> QED
    BY <2>1, <2>2 DEF TypeOK
<1>2. AnnounceInv /\ LockInv
  BY DEF AnnounceInv, LockInv, Announcing, Holding, Thread
<1>3. OwnerInv /\ ThreadInv
  BY DEF OwnerInv, ThreadInv
<1>4. RefInv /\ ControlInv
  BY DEF RefInv, ControlInv, Looping
<1> QED
  BY <1>1, <1>2, <1>3, <1>4 DEF IInv

\* No step of any thread breaks IInv.
LEMMA IInvStep == IInv /\ [Next]_vars => IInv'
<1> SUFFICES ASSUME IInv, [Next]_vars PROVE IInv'
  OBVIOUS
<1> USE ThreadAssumption
<1>1. ASSUME NEW s \in Session, Announce(s)
      PROVE  IInv'
  BY <1>1, AnnounceStep
<1>2. CASE StartRef
  BY <1>2 DEF StartRef, Ref, sessionVars, slotVars, clearVars, envVars, IInv,
     TypeOK, AnnounceInv, LockInv, OwnerInv, ThreadInv, RefInv, ControlInv,
     Announcing, Holding, Looping, Media, Thread
<1>3. CASE StartRefFails
  BY <1>3 DEF StartRefFails, sessionVars, slotVars, clearVars, bcastVars,
     ctlVars, envVars, IInv, TypeOK, AnnounceInv, LockInv, OwnerInv,
     ThreadInv, RefInv, ControlInv, Announcing, Holding, Looping, Media,
     Thread
<1>4. CASE RemoveFailed
  BY <1>4 DEF RemoveFailed, clearVars, bcastVars, ctlVars, envVars, IInv,
     TypeOK, AnnounceInv, LockInv, OwnerInv, ThreadInv, RefInv, ControlInv,
     Announcing, Holding, Looping, Media, Thread
<1>5. CASE StartPush
  BY <1>5, StartPushStep
<1>6. ASSUME NEW m \in Media, StartThread(m)
      PROVE  IInv'
  BY <1>6 DEF StartThread, slotVars, clearVars, bcastVars, ctlVars, envVars,
     IInv, TypeOK, AnnounceInv, LockInv, OwnerInv, ThreadInv, RefInv,
     ControlInv, Announcing, Holding, Looping, Media, Thread
<1>7. CASE StartRun
  BY <1>7 DEF StartRun, slotVars, clearVars, bcastVars, ctlVars, envVars,
     IInv, TypeOK, AnnounceInv, LockInv, OwnerInv, ThreadInv, RefInv,
     ControlInv, Announcing, Holding, Looping, Media, Thread
<1>8. CASE StartCount
  BY <1>8, StartCountStep
<1>9. CASE Respond
  BY <1>9, RespondStep
<1>10. CASE RtspEndBroadcast
  BY <1>10, EndBroadcastStep DEF RtspEndBroadcast, rtspVars, clearVars
<1>11. CASE RtspIdle
  BY <1>11 DEF RtspIdle, sessionVars, slotVars, clearVars, bcastVars,
     ctlVars, envVars, IInv, TypeOK, AnnounceInv, LockInv, OwnerInv,
     ThreadInv, RefInv, ControlInv, Announcing, Holding, Looping, Media,
     Thread
<1>12. CASE RtspClear
  <2>1. \E all \in BOOLEAN : ClearBegin(Rtsp, all)
    BY <1>12 DEF RtspClear, IInv, TypeOK
  <2>2. rpc \in {"peek", "exit"} /\ rpc' \in {"clear", "last"}
    BY <1>12 DEF RtspClear
  <2> QED
    BY <2>1, <2>2, ClearBeginStep DEF Thread
<1>13. CASE AcceptFails
  BY <1>13, ClearBeginStep DEF AcceptFails, Thread
<1>14. CASE MainStop
  BY <1>14, ClearBeginStep DEF MainStop, Thread
<1>15. ASSUME NEW t \in Http, HttpSessionCount(t)
      PROVE  IInv'
  BY <1>15, ClearBeginStep DEF HttpSessionCount, Thread
<1>16. ASSUME NEW t \in Http, HttpTerminate(t)
      PROVE  IInv'
  BY <1>16, ClearBeginStep DEF HttpTerminate, Thread
<1>17. ASSUME NEW t \in Thread, NEW s \in Session, ClearVisit(t, s)
      PROVE  IInv'
  BY <1>17, ClearVisitStep
<1>18. ASSUME NEW t \in Thread, JoinThrows(t)
      PROVE  IInv'
  BY <1>18, JoinThrowsStep
<1>19. ASSUME NEW t \in Thread, Join(t)
      PROVE  IInv'
  BY <1>19, JoinStep
<1>20. ASSUME NEW t \in Thread, Erase(t)
      PROVE  IInv'
  BY <1>20, EraseStep
<1>21. ASSUME NEW t \in Thread, ClearEnd(t)
      PROVE  IInv'
  BY <1>21 DEF ClearEnd, sessionVars, bcastVars, ctlVars, envVars, IInv,
     TypeOK, AnnounceInv, LockInv, OwnerInv, ThreadInv, RefInv, ControlInv,
     Announcing, Holding, Looping, Media, Thread
<1>22. ASSUME NEW t \in Thread, ClearEndBroadcast(t)
      PROVE  IInv'
  BY <1>22, EndBroadcastStep DEF ClearEndBroadcast, rtspVars, clearVars
<1>23. ASSUME NEW s \in Session, NEW m \in Media, AvStart(s, m)
      PROVE  IInv'
  BY <1>23, AvStartStep
<1>24. ASSUME NEW s \in Session, NEW m \in Media, AvPing(s, m)
      PROVE  IInv'
  BY <1>24 DEF AvPing, slotVars, rtspVars, clearVars, bcastVars, ctlVars,
     envVars, IInv, TypeOK, AnnounceInv, LockInv, OwnerInv, ThreadInv,
     RefInv, ControlInv, Announcing, Holding, Looping, Media, Thread
<1>25. ASSUME NEW s \in Session, NEW m \in Media, AvExit(s, m)
      PROVE  IInv'
  BY <1>25, AvExitStep
<1>26. CASE CtlTop
  BY <1>26, CtlLoopStep
<1>27. ASSUME NEW s \in Session, NEW b \in BOOLEAN, CtlVisit(s, b)
      PROVE  IInv'
  BY <1>27, CtlVisitStep
<1>28. CASE CtlEndPass
  <2>1. /\ ctl = "pass" /\ ctl' \in {"drain", "iterate"}
        /\ ctlTodo' = {} /\ awaiting' = FALSE
        /\ UNCHANGED <<sessionVars, slotVars, rtspVars, clearVars, bcastVars,
                       sessions, hasPeer, peerMap, running, envVars>>
    BY <1>28 DEF CtlEndPass
  <2>2. TypeOK'
    <3>1. /\ UNCHANGED <<life, state, av, shutdownEv, controlEnd, slots,
                         slotsLock, rpc, rcur, cpc, cmode, ctodo, ccur, refs,
                         bcast, bShutdown, sessions, hasPeer, peerMap,
                         running, appRunning, shutdown>>
          /\ ctl' \in {"drain", "iterate"} /\ ctlTodo' \subseteq Session
          /\ awaiting' \in BOOLEAN
      BY <2>1 DEF sessionVars, slotVars, rtspVars, clearVars, bcastVars,
         envVars
    <3> QED
      BY <3>1 DEF IInv, TypeOK
  <2>3. AnnounceInv' /\ LockInv' /\ OwnerInv' /\ ThreadInv'
    BY <2>1 DEF sessionVars, slotVars, rtspVars, clearVars, bcastVars, IInv,
       AnnounceInv, LockInv, OwnerInv, ThreadInv
  <2>4. RefInv' /\ ControlInv'
    BY <2>1 DEF sessionVars, slotVars, rtspVars, bcastVars, IInv, RefInv,
       ControlInv, Looping
  <2> QED
    BY <2>2, <2>3, <2>4 DEF IInv
<1>29. CASE CtlQuiet
  BY <1>29 DEF CtlQuiet, sessionVars, slotVars, rtspVars, clearVars,
     bcastVars, envVars, IInv, TypeOK, AnnounceInv, LockInv, OwnerInv,
     ThreadInv, RefInv, ControlInv, Announcing, Holding, Looping, Media,
     Thread
<1>30. ASSUME NEW s \in Session, CtlConnect(s)
      PROVE  IInv'
  BY <1>30 DEF CtlConnect, sessionVars, slotVars, rtspVars, clearVars,
     bcastVars, envVars, IInv, TypeOK, AnnounceInv, LockInv, OwnerInv,
     ThreadInv, RefInv, ControlInv, Announcing, Holding, Looping, Media,
     Thread
<1>31. ASSUME NEW s \in Session, CtlStop(s)
      PROVE  IInv'
  BY <1>31, CtlLoopStep
<1>32. CASE CtlDrain
  BY <1>32 DEF CtlDrain, slotVars, rtspVars, clearVars, bcastVars, envVars,
     IInv, TypeOK, AnnounceInv, LockInv, OwnerInv, ThreadInv, RefInv,
     ControlInv, Announcing, Holding, Looping, Media, Thread
<1>33. CASE AppChange
  BY <1>33 DEF AppChange, sessionVars, slotVars, rtspVars, clearVars,
     bcastVars, ctlVars, IInv, TypeOK, AnnounceInv, LockInv, OwnerInv,
     ThreadInv, RefInv, ControlInv, Announcing, Holding, Looping, Media,
     Thread
<1>34. CASE BroadcastFails
  BY <1>34 DEF BroadcastFails, sessionVars, slotVars, rtspVars, clearVars,
     ctlVars, envVars, IInv, TypeOK, AnnounceInv, LockInv, OwnerInv,
     ThreadInv, RefInv, ControlInv, Announcing, Holding, Looping, Media,
     Thread
<1>35. CASE Shutdown
  BY <1>35 DEF Shutdown, sessionVars, slotVars, rtspVars, clearVars,
     bcastVars, ctlVars, IInv, TypeOK, AnnounceInv, LockInv, OwnerInv,
     ThreadInv, RefInv, ControlInv, Announcing, Holding, Looping, Media,
     Thread
<1>36. CASE UNCHANGED vars
  BY <1>36 DEF vars, sessionVars, slotVars, rtspVars, clearVars, bcastVars,
     ctlVars, envVars, IInv, TypeOK, AnnounceInv, LockInv, OwnerInv,
     ThreadInv, RefInv, ControlInv
<1> QED
  BY <1>1, <1>2, <1>3, <1>4, <1>5, <1>6, <1>7, <1>8, <1>9, <1>10, <1>11,
     <1>12, <1>13, <1>14, <1>15, <1>16, <1>17, <1>18, <1>19, <1>20, <1>21,
     <1>22, <1>23, <1>24, <1>25, <1>26, <1>27, <1>28, <1>29, <1>30, <1>31,
     <1>32, <1>33, <1>34, <1>35, <1>36 DEF Next, AnnounceNext, ClearNext,
     ControlNext, AvNext

\* IInv holds in every reachable state.
THEOREM IInvHolds == Spec => []IInv
<1> QED
  BY IInvInit, IInvStep, PTL DEF Spec

\* Every variable keeps its type; running_sessions stays a counter of its
\* width and rpc, cpc and ctl never leave the paths of the code.
THEOREM TypeTheorem == Spec => []TypeOK
<1>1. IInv => TypeOK
  BY DEF IInv
<1> QED
  BY <1>1, IInvHolds, PTL

\* The control thread never has a pointer to a destroyed session, however many
\* sessions, workers, timeouts, failures and shutdowns interleave.
THEOREM NoDanglingTheorem == Spec => []NoDanglingSession
<1>1. IInv => NoDanglingSession
  BY DEF IInv, ControlInv, NoDanglingSession, Looping
<1> QED
  BY <1>1, IInvHolds, PTL

\* No session_t is destroyed under a running video or audio thread.
THEOREM NoThreadOutlivesTheorem == Spec => []NoThreadOutlivesSession
<1>1. IInv => NoThreadOutlivesSession
  BY DEF IInv, ThreadInv, NoThreadOutlivesSession
<1> QED
  BY <1>1, IInvHolds, PTL

\* The broadcast context is never ended under a media thread or a registered
\* session that is alive.
THEOREM BroadcastTheorem == Spec => []BroadcastOutlivesUsers
<1>1. ASSUME IInv PROVE BroadcastOutlivesUsers
  <2>1. ASSUME NEW s \in Session, NEW m \in Media,
               av[s][m] \in {"pinging", "capturing"}
        PROVE  bcast = "up"
    BY <1>1, <2>1 DEF IInv, RefInv
  <2>2. ASSUME NEW s \in Session, life[s] = "live", s \in sessions
        PROVE  bcast = "up"
    <3>1. ~(rcur = s /\ rpc \in {"ref", "remove"})
      BY <1>1, <2>2 DEF IInv, AnnounceInv
    <3> QED
      BY <1>1, <2>2, <3>1 DEF IInv, RefInv
  <2> QED
    BY <2>1, <2>2 DEF BroadcastOutlivesUsers
<1> QED
  BY <1>1, IInvHolds, PTL

(***************************************************************************)
(* session::stop.                                                          *)
(***************************************************************************)

\* Nobody has been stopped in the initial state.
LEMMA StopInit == Init => StopInv
  BY DEF Init, StopInv, Announcing

\* One step never takes a stopping session out of STOPPING nor its shutdown
\* event down, and keeps StopInv.
LEMMA StopStep ==
  ASSUME IInv, StopInv, [Next]_vars
  PROVE  /\ StopInv'
         /\ \A s \in Session : state[s] = "STOPPING" =>
              state'[s] = "STOPPING" /\ s \in shutdownEv'
<1> DEFINE Final == \A x \in Session : state[x] = "STOPPING" =>
                      state'[x] = "STOPPING" /\ x \in shutdownEv'
<1> SUFFICES StopInv' /\ Final
  OBVIOUS
<1>1. ASSUME NEW s \in Session, Stop(s), UNCHANGED <<life, rpc, rcur>>
      PROVE  StopInv' /\ Final
  <2>1. \A x \in Session : \/ state'[x] = state[x]
                           \/ /\ x = s /\ state[x] = "RUNNING"
                              /\ state'[x] = "STOPPING" /\ x \in shutdownEv'
    BY <1>1 DEF Stop, IInv, TypeOK
  <2>2. shutdownEv \subseteq shutdownEv'
    BY <1>1 DEF Stop
  <2>3. rpc \in Announcing => rcur \in Session
    BY DEF IInv, TypeOK, AnnounceInv
  <2> QED
    BY <1>1, <2>1, <2>2, <2>3 DEF StopInv
<1>2. ASSUME UNCHANGED state, shutdownEv \subseteq shutdownEv',
             \A x \in Session : life'[x] = "none" => life[x] = "none",
             rpc' \in Announcing \ {"count", "respond"} =>
               \/ rcur' = rcur /\ rpc \in Announcing \ {"count", "respond"}
               \/ rcur' \in Session /\ life[rcur'] = "none"
      PROVE  StopInv' /\ Final
  BY <1>2 DEF StopInv
<1>3. ASSUME NEW s \in Session, Announce(s)
      PROVE  StopInv' /\ Final
  BY <1>2, <1>3 DEF Announce, Announcing, IInv, TypeOK
<1>4. CASE StartRef
  BY <1>2, <1>4 DEF StartRef, sessionVars, Announcing
<1>5. CASE StartRefFails
  BY <1>2, <1>5 DEF StartRefFails, sessionVars, Announcing
<1>6. CASE RemoveFailed
  BY <1>2, <1>6 DEF RemoveFailed, Announcing, IInv, TypeOK
<1>7. CASE StartPush
  BY <1>2, <1>7 DEF StartPush, sessionVars, Announcing
<1>8. ASSUME NEW m \in Media, StartThread(m)
      PROVE  StopInv' /\ Final
  BY <1>2, <1>8 DEF StartThread, Announcing, Media
<1>9. CASE StartRun
  <2>1. /\ rpc = "run" /\ rpc' = "count" /\ UNCHANGED <<life, shutdownEv>>
        /\ state' = [state EXCEPT ![rcur] = "RUNNING"]
    BY <1>9 DEF StartRun
  <2>2. rcur \in Session /\ state[rcur] = "STOPPED" /\ life[rcur] = "live"
    BY <2>1 DEF StopInv, IInv, TypeOK, AnnounceInv, OwnerInv, Announcing
  <2>3. \A x \in Session : state'[x] = IF x = rcur THEN "RUNNING" ELSE state[x]
    BY <2>1 DEF IInv, TypeOK
  <2> QED
    BY <2>1, <2>2, <2>3 DEF StopInv
<1>10. CASE StartCount
  BY <1>2, <1>10 DEF StartCount, sessionVars, Announcing
<1>11. CASE Respond
  BY <1>2, <1>11 DEF Respond, DestroySession, Announcing, IInv, TypeOK
<1>12. CASE RtspEndBroadcast
  BY <1>2, <1>12 DEF RtspEndBroadcast, sessionVars, Announcing
<1>13. CASE RtspIdle
  BY <1>2, <1>13 DEF RtspIdle, sessionVars, Announcing
<1>14. CASE RtspClear
  BY <1>2, <1>14 DEF RtspClear, ClearBegin, sessionVars, Announcing
<1>15. CASE AcceptFails
  BY <1>2, <1>15 DEF AcceptFails, ClearBegin, sessionVars, Announcing
<1>16. CASE MainStop
  BY <1>2, <1>16 DEF MainStop, ClearBegin, sessionVars, Announcing
<1>17. ASSUME NEW t \in Http, HttpSessionCount(t)
      PROVE  StopInv' /\ Final
  BY <1>2, <1>17 DEF HttpSessionCount, ClearBegin, sessionVars, Announcing
<1>18. ASSUME NEW t \in Http, HttpTerminate(t)
      PROVE  StopInv' /\ Final
  BY <1>2, <1>18 DEF HttpTerminate, ClearBegin, sessionVars, Announcing
<1>19. ASSUME NEW t \in Thread, NEW s \in Session, ClearVisit(t, s)
      PROVE  StopInv' /\ Final
  <2>1. UNCHANGED <<life, rpc, rcur>>
    BY <1>19 DEF ClearVisit, rtspVars
  <2>2. Stop(s) \/ UNCHANGED <<state, shutdownEv>>
    BY <1>19 DEF ClearVisit
  <2> QED
    BY <1>1, <1>2, <2>1, <2>2
<1>20. ASSUME NEW t \in Thread, JoinThrows(t)
      PROVE  StopInv' /\ Final
  BY <1>2, <1>20 DEF JoinThrows, sessionVars, rtspVars, Announcing
<1>21. ASSUME NEW t \in Thread, Join(t)
      PROVE  StopInv' /\ Final
  BY <1>2, <1>21 DEF Join, sessionVars, rtspVars, Announcing
<1>22. ASSUME NEW t \in Thread, Erase(t)
      PROVE  StopInv' /\ Final
  BY <1>2, <1>22 DEF Erase, DestroySession, rtspVars, Announcing, IInv,
     TypeOK
<1>23. ASSUME NEW t \in Thread, ClearEnd(t)
      PROVE  StopInv' /\ Final
  BY <1>2, <1>23 DEF ClearEnd, sessionVars, Announcing
<1>24. ASSUME NEW t \in Thread, ClearEndBroadcast(t)
      PROVE  StopInv' /\ Final
  BY <1>2, <1>24 DEF ClearEndBroadcast, sessionVars, rtspVars, Announcing
<1>25. ASSUME NEW s \in Session, NEW m \in Media, AvStart(s, m)
      PROVE  StopInv' /\ Final
  BY <1>2, <1>25 DEF AvStart, rtspVars, Announcing
<1>26. ASSUME NEW s \in Session, NEW m \in Media, AvPing(s, m)
      PROVE  StopInv' /\ Final
  BY <1>2, <1>26 DEF AvPing, rtspVars, Announcing
<1>27. ASSUME NEW s \in Session, NEW m \in Media, AvExit(s, m)
      PROVE  StopInv' /\ Final
  <2>1. UNCHANGED <<life, rpc, rcur>>
    BY <1>27 DEF AvExit, rtspVars
  <2>2. Stop(s) \/ UNCHANGED <<state, shutdownEv>>
    BY <1>27 DEF AvExit
  <2> QED
    BY <1>1, <1>2, <2>1, <2>2
<1>28. CASE CtlTop
  BY <1>2, <1>28 DEF CtlTop, sessionVars, rtspVars, Announcing
<1>29. ASSUME NEW s \in Session, NEW b \in BOOLEAN, CtlVisit(s, b)
      PROVE  StopInv' /\ Final
  <2>1. UNCHANGED <<life, rpc, rcur>>
    BY <1>29 DEF CtlVisit, rtspVars
  <2>2. Stop(s) \/ UNCHANGED <<state, shutdownEv>>
    BY <1>29 DEF CtlVisit
  <2> QED
    BY <1>1, <1>2, <2>1, <2>2
<1>30. CASE CtlEndPass
  BY <1>2, <1>30 DEF CtlEndPass, sessionVars, rtspVars, Announcing
<1>31. CASE CtlQuiet
  BY <1>2, <1>31 DEF CtlQuiet, sessionVars, rtspVars, Announcing
<1>32. ASSUME NEW s \in Session, CtlConnect(s)
      PROVE  StopInv' /\ Final
  BY <1>2, <1>32 DEF CtlConnect, sessionVars, rtspVars, Announcing
<1>33. ASSUME NEW s \in Session, CtlStop(s)
      PROVE  StopInv' /\ Final
  <2>1. UNCHANGED <<life, rpc, rcur>>
    BY <1>33 DEF CtlStop, rtspVars
  <2>2. Stop(s) \/ UNCHANGED <<state, shutdownEv>>
    BY <1>33 DEF CtlStop
  <2> QED
    BY <1>1, <1>2, <2>1, <2>2
<1>34. CASE CtlDrain
  BY <1>2, <1>34 DEF CtlDrain, rtspVars, Announcing
<1>35. CASE AppChange
  BY <1>2, <1>35 DEF AppChange, sessionVars, rtspVars, Announcing
<1>36. CASE BroadcastFails
  BY <1>2, <1>36 DEF BroadcastFails, sessionVars, rtspVars, Announcing
<1>37. CASE Shutdown
  BY <1>2, <1>37 DEF Shutdown, sessionVars, rtspVars, Announcing
<1>38. CASE UNCHANGED vars
  BY <1>2, <1>38 DEF vars, sessionVars, rtspVars
<1> QED
  BY <1>3, <1>4, <1>5, <1>6, <1>7, <1>8, <1>9, <1>10, <1>11, <1>12, <1>13,
     <1>14, <1>15, <1>16, <1>17, <1>18, <1>19, <1>20, <1>21, <1>22, <1>23,
     <1>24, <1>25, <1>26, <1>27, <1>28, <1>29, <1>30, <1>31, <1>32, <1>33,
     <1>34, <1>35, <1>36, <1>37, <1>38 DEF Next, AnnounceNext, ClearNext,
     ControlNext, AvNext

\* Once stopping, a session stays so and its threads keep being told to end,
\* whoever else stops, joins or starts it meanwhile.
THEOREM StopIsFinalTheorem == Spec => StopIsFinal
<1>1. Init => IInv /\ StopInv
  BY IInvInit, StopInit
<1>2. (IInv /\ StopInv) /\ [Next]_vars => (IInv /\ StopInv)'
  BY IInvStep, StopStep
<1>3. (IInv /\ StopInv) /\ [Next]_vars =>
        [\A s \in Session : state[s] = "STOPPING" =>
           state'[s] = "STOPPING" /\ s \in shutdownEv']_vars
  BY StopStep
<1> QED
  BY <1>1, <1>2, <1>3, PTL DEF Spec, StopIsFinal
(***************************************************************************)
(* running_sessions.                                                       *)
(***************************************************************************)

\* Numbers that differ by a multiple of the range wrap to the same counter.
LEMMA ModSame ==
  ASSUME NEW n \in Int, NEW m \in Int, NEW j \in Int, m = n + UintRange * j
  PROVE  m % UintRange = n % UintRange
<1> DEFINE U == UintRange
           r == m % U
           q == m \div U
           a == n % U
           b == n \div U
<1>1. /\ U \in Nat \ {0} /\ r \in 0 .. U - 1 /\ a \in 0 .. U - 1
      /\ q \in Int /\ b \in Int /\ m = U * q + r /\ n = U * b + a
  BY RangeAssumption
<1> HIDE DEF U, r, q, a, b
<1>2. m = n + U * j
  BY DEF U
<1>3. r - a = U * (b + j - q)
  BY <1>1, <1>2
<1>4. \A k, i \in Nat : i >= 1 => k * i >= k
  OBVIOUS
<1>5. CASE b + j - q >= 1
  BY <1>1, <1>3, <1>4, <1>5
<1>6. CASE b + j - q <= -1
  <2>1. a - r = U * (q - b - j) /\ q - b - j \in Nat /\ q - b - j >= 1
    BY <1>1, <1>3, <1>6
  <2> QED
    BY <1>1, <1>4, <2>1
<1>7. CASE b + j - q = 0
  BY <1>1, <1>3, <1>7 DEF r, a, U
<1> QED
  BY <1>1, <1>5, <1>6, <1>7

\* ++ and -- of the wrapped counter follow the difference it stands for.
LEMMA CounterMoves ==
  ASSUME NEW n \in Int
  PROVE  /\ ((n % UintRange) + 1) % UintRange = (n + 1) % UintRange
         /\ ((n % UintRange) + UintRange - 1) % UintRange = (n - 1) % UintRange
<1> DEFINE d == n \div UintRange
<1>1. /\ UintRange \in Nat \ {0} /\ d \in Int /\ n % UintRange \in Int
      /\ n = UintRange * d + (n % UintRange)
  BY RangeAssumption
<1> HIDE DEF d
<1>2. (n % UintRange) + 1 = (n + 1) + UintRange * (-d)
  BY <1>1
<1>3. (n % UintRange) + UintRange - 1 = (n - 1) + UintRange * (1 - d)
  BY <1>1
<1> DEFINE up == (n % UintRange) + 1
           down == (n % UintRange) + UintRange - 1
<1>4. up \in Int /\ down \in Int /\ n + 1 \in Int /\ n - 1 \in Int
      /\ -d \in Int /\ 1 - d \in Int
  BY <1>1
<1>5. up = (n + 1) + UintRange * (-d) /\ down = (n - 1) + UintRange * (1 - d)
  BY <1>2, <1>3
<1> HIDE DEF up, down
<1>6. up % UintRange = (n + 1) % UintRange /\ down % UintRange = (n - 1) % UintRange
  BY <1>4, <1>5, ModSame
<1> QED
  BY <1>6 DEF up, down

\* A step that counts nobody, discounts nobody and frees no counted slot.
LEMMA CountFrame ==
  ASSUME CountInv, UNCHANGED running,
         \A s \in Session : /\ Counted(s)' <=> Counted(s)
                            /\ Discounted(s)' <=> Discounted(s)
  PROVE  CountInv'
<1>1. Owed' = Owed /\ Early' = Early
  BY DEF Owed, Early
<1> QED
  BY <1>1 DEF CountInv

\* The same, said of the variables.
LEMMA CountQuiet ==
  ASSUME CountInv, UNCHANGED <<running, slots>>,
         \A s \in Session : Started(s)' <=> Started(s),
         (rpc' \in {"run", "count"}) <=> (rpc \in {"run", "count"}),
         rpc \in {"run", "count"} => rcur' = rcur,
         \A t \in Thread : (cpc'[t] = "erase") <=> (cpc[t] = "erase"),
         \A t \in Thread : cpc[t] = "erase" => ccur'[t] = ccur[t]
  PROVE  CountInv'
<1>1. ASSUME NEW s \in Session PROVE Counted(s)' <=> Counted(s)
  BY DEF Counted
<1>2. ASSUME NEW s \in Session PROVE Discounted(s)' <=> Discounted(s)
  BY DEF Discounted
<1> QED
  BY <1>1, <1>2, CountFrame

\* A step that counts or discounts one session.
LEMMA CountMove ==
  ASSUME NEW c \in Session,
         \A s \in Session \ {c} : /\ Counted(s)' <=> Counted(s)
                                  /\ Discounted(s)' <=> Discounted(s)
  PROVE  /\ Owed' \ {c} = Owed \ {c} /\ Early' \ {c} = Early \ {c}
         /\ (c \in Owed) <=> (Counted(c) /\ ~Discounted(c))
         /\ (c \in Owed') <=> (Counted(c)' /\ ~Discounted(c)')
         /\ (c \in Early) <=> (Discounted(c) /\ ~Counted(c))
         /\ (c \in Early') <=> (Discounted(c)' /\ ~Counted(c)')
BY DEF Owed, Early

\* ++running_sessions: the session is owed a decrement, unless the decrement has
\* come first.
LEMMA CountStart ==
  ASSUME IInv, CountInv, StartCount
  PROVE  CountInv'
<1>1. /\ rpc = "count" /\ rpc' = "respond" /\ running' = (running + 1) % UintRange
      /\ UNCHANGED <<av, slots, rcur, cpc, ccur>>
  BY DEF StartCount, sessionVars, slotVars, clearVars
<1>2. PICK c \in Session : c = rcur /\ Started(c)
  BY <1>1 DEF IInv, TypeOK, AnnounceInv, Announcing, Started
<1>3. /\ ~Counted(c) /\ Counted(c)'
      /\ \A s \in Session \ {c} : Counted(s)' <=> Counted(s)
  BY <1>1, <1>2 DEF Counted, Started
<1>4. \A s \in Session : Discounted(s)' <=> Discounted(s)
  BY <1>1 DEF Discounted, Started
<1> DEFINE n == Cardinality(Owed) - Cardinality(Early)
<1>5. /\ Cardinality(Owed) \in Nat /\ Cardinality(Early) \in Nat
      /\ running = n % UintRange
  BY FS_CardinalityType DEF CountInv
<1>6. CASE Discounted(c)
  <2>1. Owed' = Owed /\ Early' = Early \ {c} /\ c \in Early
    BY <1>2, <1>3, <1>4, <1>6, CountMove
  <2>2. IsFiniteSet(Early') /\ Cardinality(Early') = Cardinality(Early) - 1
    BY <2>1, FS_RemoveElement DEF CountInv
  <2>3. Cardinality(Owed') - Cardinality(Early') = n + 1
    BY <1>5, <2>1, <2>2
  <2> QED
    BY <1>1, <1>5, <2>1, <2>2, <2>3, CounterMoves DEF CountInv
<1>7. CASE ~Discounted(c)
  <2>1. Early' = Early /\ Owed' = Owed \cup {c} /\ c \notin Owed
    BY <1>2, <1>3, <1>4, <1>7, CountMove
  <2>2. IsFiniteSet(Owed') /\ Cardinality(Owed') = Cardinality(Owed) + 1
    BY <2>1, FS_AddElement DEF CountInv
  <2>3. Cardinality(Owed') - Cardinality(Early') = n + 1
    BY <1>5, <2>1, <2>2
  <2> QED
    BY <1>1, <1>5, <2>1, <2>2, <2>3, CounterMoves DEF CountInv
<1> QED
  BY <1>6, <1>7

\* --running_sessions, of a session whose decrement has not come yet.
LEMMA CountJoin ==
  ASSUME IInv, CountInv, NEW t \in Thread, Join(t)
  PROVE  CountInv'
<1>1. /\ cpc[t] = "join" /\ cpc' = [cpc EXCEPT ![t] = "erase"]
      /\ av[ccur[t]]["video"] = "exited"
      /\ running' = (running + UintRange - 1) % UintRange
      /\ UNCHANGED <<av, slots, rpc, rcur, ccur>>
  BY DEF Join, sessionVars, slotVars, rtspVars, Media
<1>2. PICK c \in Session : c = ccur[t] /\ c \in slots /\ Started(c)
  BY <1>1 DEF IInv, TypeOK, LockInv, Started
<1>3. \A u \in Thread \ {t} : cpc[u] # "erase"
  BY <1>1 DEF IInv, LockInv, Holding
<1>4. \A u \in Thread : cpc'[u] = IF u = t THEN "erase" ELSE cpc[u]
  BY <1>1 DEF IInv, TypeOK
<1>5. ~Discounted(c) /\ Discounted(c)'
  BY <1>1, <1>2, <1>3, <1>4 DEF Discounted, Started
<1>6. \A s \in Session \ {c} : Discounted(s)' <=> Discounted(s)
  BY <1>1, <1>2, <1>3, <1>4 DEF Discounted, Started
<1>7. \A s \in Session : Counted(s)' <=> Counted(s)
  BY <1>1 DEF Counted, Started
<1> DEFINE n == Cardinality(Owed) - Cardinality(Early)
<1>8. /\ Cardinality(Owed) \in Nat /\ Cardinality(Early) \in Nat
      /\ running = n % UintRange
  BY FS_CardinalityType DEF CountInv
<1>9. CASE Counted(c)
  <2>1. Early' = Early /\ Owed' = Owed \ {c} /\ c \in Owed
    BY <1>2, <1>5, <1>6, <1>7, <1>9, CountMove
  <2>2. IsFiniteSet(Owed') /\ Cardinality(Owed') = Cardinality(Owed) - 1
    BY <2>1, FS_RemoveElement DEF CountInv
  <2>3. Cardinality(Owed') - Cardinality(Early') = n - 1
    BY <1>8, <2>1, <2>2
  <2> QED
    BY <1>1, <1>8, <2>1, <2>2, <2>3, CounterMoves DEF CountInv
<1>10. CASE ~Counted(c)
  <2>1. Owed' = Owed /\ Early' = Early \cup {c} /\ c \notin Early
    BY <1>2, <1>5, <1>6, <1>7, <1>10, CountMove
  <2>2. IsFiniteSet(Early') /\ Cardinality(Early') = Cardinality(Early) + 1
    BY <2>1, FS_AddElement DEF CountInv
  <2>3. Cardinality(Owed') - Cardinality(Early') = n - 1
    BY <1>8, <2>1, <2>2
  <2> QED
    BY <1>1, <1>8, <2>1, <2>2, <2>3, CounterMoves DEF CountInv
<1> QED
  BY <1>9, <1>10

\* Slots come and go only with sessions that have no threads yet, or that have
\* been discounted.
LEMMA CountSlots ==
  ASSUME IInv, CountInv,
         \/ \E s \in Session : Announce(s)
         \/ RemoveFailed
         \/ \E t \in Thread : Erase(t)
  PROVE  CountInv'
<1> USE ThreadAssumption
<1>1. ASSUME NEW s \in Session, Announce(s) PROVE CountInv'
  <2>1. /\ rpc = "iterate" /\ rpc' = "ref" /\ slots' = slots \cup {s}
        /\ life[s] = "none" /\ UNCHANGED <<av, running, cpc, ccur>>
    BY <1>1 DEF Announce, clearVars
  <2>2. ~Started(s) /\ ~Started(s)'
    BY <2>1 DEF IInv, ThreadInv, Started, Media
  <2>3. \A x \in Session : Counted(x)' <=> Counted(x)
    BY <2>1 DEF Counted, Started
  <2>4. \A x \in Session : Discounted(x)' <=> Discounted(x)
    BY <2>1, <2>2 DEF Discounted, Started
  <2> QED
    BY <2>1, <2>3, <2>4, CountFrame
<1>2. CASE RemoveFailed
  <2>1. /\ rpc = "remove" /\ rpc' = "peek" /\ slots' = slots \ {rcur}
        /\ UNCHANGED <<av, running, cpc, ccur>>
    BY <1>2 DEF RemoveFailed, clearVars
  <2>2. rcur \in Session /\ ~Started(rcur) /\ av'[rcur]["video"] = "none"
    BY <2>1 DEF IInv, TypeOK, AnnounceInv, Announcing, Started
  <2>3. \A x \in Session : Counted(x)' <=> Counted(x)
    BY <2>1 DEF Counted, Started
  <2>4. \A x \in Session : Discounted(x)' <=> Discounted(x)
    BY <2>1, <2>2 DEF Discounted, Started
  <2> QED
    BY <2>1, <2>3, <2>4, CountFrame
<1>3. ASSUME NEW t \in Thread, Erase(t) PROVE CountInv'
  <2> DEFINE c == ccur[t]
  <2>1. /\ cpc[t] = "erase" /\ slots' = slots \ {c}
        /\ \E p \in {"scan", "end"} : cpc' = [cpc EXCEPT ![t] = p]
        /\ ccur' = [ccur EXCEPT ![t] = NoOne]
        /\ UNCHANGED <<av, running, rpc, rcur>>
    BY <1>3 DEF Erase, rtspVars
  <2>2. c \in Session /\ Started(c)
    BY <2>1 DEF IInv, TypeOK, LockInv, Started, Media
  <2>3. \A u \in Thread : cpc'[u] # "erase" /\ (u # t => cpc[u] # "erase")
    BY <2>1 DEF IInv, TypeOK, LockInv, Holding
  <2>4. \A x \in Session : Counted(x)' <=> Counted(x)
    BY <2>1 DEF Counted, Started
  <2>5. \A x \in Session : Discounted(x)' <=> Discounted(x)
    BY <2>1, <2>2, <2>3 DEF Discounted, Started
  <2> QED
    BY <2>1, <2>4, <2>5, CountFrame
<1> QED
  BY <1>1, <1>2, <1>3
\* Every step keeps the balance.
LEMMA CountStep ==
  ASSUME IInv, CountInv, [Next]_vars
  PROVE  CountInv'
<1> USE ThreadAssumption
<1>1. ASSUME UNCHANGED <<running, slots, av, rpc, rcur, cpc, ccur>> PROVE CountInv'
  BY <1>1, CountQuiet DEF Started
<1>2. CASE StartCount
  BY <1>2, CountStart
<1>3. ASSUME NEW t \in Thread, Join(t) PROVE CountInv'
  BY <1>3, CountJoin
<1>4. CASE \/ \E s \in Session : Announce(s)
           \/ RemoveFailed
           \/ \E t \in Thread : Erase(t)
  BY <1>4, CountSlots
<1>5. CASE StartRef
  BY <1>5, CountQuiet DEF StartRef, sessionVars, slotVars, clearVars, Started
<1>6. CASE StartRefFails
  BY <1>6, CountQuiet DEF StartRefFails, sessionVars, slotVars, clearVars, Started
<1>7. CASE StartPush
  BY <1>7, CountQuiet DEF StartPush, sessionVars, slotVars, clearVars, Started
<1>8. CASE RtspEndBroadcast
  BY <1>8, CountQuiet DEF RtspEndBroadcast, sessionVars, slotVars, clearVars, Started
<1>9. CASE RtspIdle
  BY <1>9, CountQuiet DEF RtspIdle, sessionVars, slotVars, clearVars, Started
<1>10. ASSUME NEW m \in Media, StartThread(m) PROVE CountInv'
  <2>1. /\ rpc = m /\ rpc' = (IF m = "audio" THEN "video" ELSE "run")
        /\ av' = [av EXCEPT ![rcur] = [@ EXCEPT ![m] = "spawned"]]
        /\ UNCHANGED <<running, slots, rcur, cpc, ccur>>
    BY <1>10 DEF StartThread, slotVars, clearVars
  <2>2. rcur \in Session /\ av[rcur]["video"] = "none" /\ rcur \in slots
    BY <2>1 DEF IInv, TypeOK, AnnounceInv, OwnerInv, ThreadInv, Announcing, Media
  <2>3. /\ \A s \in Session \ {rcur} : Started(s)' <=> Started(s)
        /\ Started(rcur)' <=> m = "video"
    BY <2>1, <2>2 DEF IInv, TypeOK, Started, Media
  <2>4. \A t \in Thread : cpc[t] = "erase" => ccur[t] # rcur
    BY <2>2 DEF IInv, LockInv, Media
  <2>5. \A s \in Session : Counted(s)' <=> Counted(s)
    BY <2>1, <2>2, <2>3 DEF Counted, Started, Media
  <2>6. \A s \in Session : Discounted(s)' <=> Discounted(s)
    BY <2>1, <2>2, <2>3, <2>4 DEF Discounted, Started
  <2> QED
    BY <2>1, <2>5, <2>6, CountFrame
<1>11. CASE StartRun
  BY <1>11, CountQuiet DEF StartRun, slotVars, clearVars, Started
<1>12. CASE Respond
  BY <1>12, CountQuiet DEF Respond, slotVars, clearVars, Started
<1>13. ASSUME NEW t \in Thread, cpc[t] # "erase", cpc' = [cpc EXCEPT ![t] = "scan"],
              UNCHANGED <<running, slots, av, rcur, ccur>>,
              \/ UNCHANGED rpc
              \/ rpc \notin {"run", "count"} /\ rpc' \notin {"run", "count"}
       PROVE  CountInv'
  BY <1>13, CountQuiet DEF Started, IInv, TypeOK
<1>14. CASE RtspClear \/ AcceptFails \/ MainStop
  <2>1. rpc \notin {"clear", "accept", "last"} => cpc[Rtsp] # "erase"
    BY DEF IInv, AnnounceInv, Holding
  <2>2. CASE RtspClear \/ AcceptFails
    <3>1. /\ cpc' = [cpc EXCEPT ![Rtsp] = "scan"]
          /\ UNCHANGED <<running, slots, av, rcur, ccur>>
          /\ rpc \in {"peek", "exit", "iterate"} /\ rpc' \in {"clear", "last", "accept"}
      BY <2>2 DEF RtspClear, AcceptFails, ClearBegin, sessionVars
    <3> QED
      BY <1>13, <2>1, <3>1 DEF Thread
  <2>3. CASE MainStop
    BY <1>13, <2>3 DEF MainStop, ClearBegin, sessionVars, Thread
  <2> QED
    BY <1>14, <2>2, <2>3
<1>15. ASSUME NEW t \in Http, HttpSessionCount(t) \/ HttpTerminate(t) PROVE CountInv'
  <2>1. /\ cpc[t] = "idle" /\ cpc' = [cpc EXCEPT ![t] = "scan"]
        /\ UNCHANGED <<running, slots, av, rcur, ccur, rpc>>
    BY <1>15 DEF HttpSessionCount, HttpTerminate, ClearBegin, sessionVars
  <2> QED
    BY <1>13, <2>1 DEF Thread
<1>16. ASSUME NEW t \in Thread, NEW s \in Session, ClearVisit(t, s) PROVE CountInv'
  BY <1>16, CountQuiet DEF ClearVisit, slotVars, rtspVars, Started, IInv, TypeOK
<1>17. ASSUME NEW t \in Thread, JoinThrows(t) PROVE CountInv'
  BY <1>17, CountQuiet DEF JoinThrows, sessionVars, rtspVars, Started, IInv, TypeOK
<1>18. ASSUME NEW t \in Thread, ClearEnd(t) PROVE CountInv'
  <2>1. /\ cpc[t] = "scan" /\ UNCHANGED <<running, slots, av, rcur, ccur>>
        /\ cpc' = [cpc EXCEPT ![t] = IF t = Main THEN "done" ELSE "idle"]
    BY <1>18 DEF ClearEnd, sessionVars
  <2>2. CASE t # Rtsp
    BY <1>18, <2>1, <2>2, CountQuiet DEF ClearEnd, Started, IInv, TypeOK
  <2>3. CASE t = Rtsp
    <3>1. rpc \in {"clear", "accept", "last"}
      BY <2>1, <2>3 DEF IInv, AnnounceInv, Holding
    <3>2. rpc' \in {"done", "peek", "exit", "iterate"}
      BY <1>18, <2>3, <3>1 DEF ClearEnd
    <3> QED
      BY <2>1, <3>1, <3>2, CountQuiet DEF Started, IInv, TypeOK
  <2> QED
    BY <2>2, <2>3
<1>19. ASSUME NEW t \in Thread, ClearEndBroadcast(t) PROVE CountInv'
  BY <1>19, CountQuiet DEF ClearEndBroadcast, sessionVars, slotVars, rtspVars, Started, IInv, TypeOK
<1>20. ASSUME NEW s \in Session, NEW m \in Media, AvNext(s, m) PROVE CountInv'
  <2>1. /\ av[s][m] # "none"
        /\ \E p \in {"pinging", "capturing", "exited"} :
             av' = [av EXCEPT ![s] = [@ EXCEPT ![m] = p]]
        /\ UNCHANGED <<running, slots, rpc, rcur, cpc, ccur>>
    BY <1>20 DEF AvNext, AvStart, AvPing, AvExit, slotVars, rtspVars, clearVars
  <2>2. \A x \in Session : Started(x)' <=> Started(x)
    BY <2>1 DEF IInv, TypeOK, Started, Media
  <2> QED
    BY <2>1, <2>2, CountQuiet
<1>21. CASE ControlNext
  BY <1>21, <1>1 DEF ControlNext, CtlTop, CtlEndPass, CtlQuiet, CtlDrain, CtlVisit,
     CtlConnect, CtlStop, sessionVars, slotVars, rtspVars, clearVars
<1>22. CASE AppChange \/ BroadcastFails \/ Shutdown
  BY <1>22, <1>1 DEF AppChange, BroadcastFails, Shutdown, sessionVars, slotVars,
     rtspVars, clearVars
<1>23. CASE UNCHANGED vars
  BY <1>23, <1>1 DEF vars, sessionVars, slotVars, rtspVars, clearVars
<1> QED
  BY <1>2, <1>3, <1>4, <1>5, <1>6, <1>7, <1>8, <1>9, <1>10, <1>11, <1>12, <1>14, <1>15, <1>16, <1>17, <1>18, <1>19, <1>20, <1>21, <1>22, <1>23
     DEF Next, AnnounceNext, ClearNext

\* When no session is left, running_sessions is 0 again, whatever the order in
\* which sessions were counted and discounted and however often the counter
\* wrapped (session::start, session::join).
THEOREM RunningTheorem == Spec => []RunningBalanced
<1>1. Init => CountInv
  <2> SUFFICES ASSUME Init PROVE CountInv
    OBVIOUS
  <2>1. Owed = {} /\ Early = {}
    BY DEF Init, Owed, Early, Counted, Discounted, Started, Media
  <2>2. 0 % UintRange = 0
    BY RangeAssumption
  <2> QED
    BY <2>1, <2>2, FS_EmptySet DEF Init, CountInv
<1>2. ASSUME IInv, CountInv PROVE RunningBalanced
  <2> SUFFICES ASSUME \A s \in Session : life[s] # "live" PROVE running = 0
    BY DEF RunningBalanced
  <2>1. \A s \in Session : s \notin slots /\ rcur # s
    BY <1>2 DEF IInv, OwnerInv
  <2>2. Owed = {} /\ Early = {}
    BY <2>1 DEF Owed, Early, Counted, Discounted
  <2>3. 0 % UintRange = 0
    BY RangeAssumption
  <2> QED
    BY <1>2, <2>2, <2>3, FS_EmptySet DEF CountInv
<1>3. (IInv /\ CountInv) /\ [Next]_vars => (IInv /\ CountInv)'
  BY IInvStep, CountStep
<1> QED
  BY <1>1, <1>2, <1>3, IInvInit, PTL DEF Spec
(***************************************************************************)
(* session::join, when nobody terminates sessions during an ANNOUNCE.      *)
(***************************************************************************)

\* A step that neither starts a session nor begins to join one.
LEMMA JoinFrame ==
  ASSUME IInv, JoinInv, UNCHANGED shutdown,
         \A t \in Thread \ {Rtsp} : cmode'[t] => cmode[t],
         \A t \in Thread : cpc'[t] = "join" => cpc[t] = "join" /\ ccur'[t] = ccur[t],
         \A s \in Session : state[s] = "STOPPING" => state'[s] = "STOPPING",
         \A s \in Session : state'[s] = "RUNNING" => state[s] = "RUNNING"
  PROVE  JoinInv'
<1>1. \A t \in Thread : cpc[t] = "join" => ccur[t] \in Session
  BY DEF IInv, TypeOK, LockInv
<1> QED
  BY <1>1 DEF JoinInv

\* The state of a session after session::stop on one of them.
LEMMA StopMoves ==
  ASSUME IInv, NEW s \in Session, Stop(s)
  PROVE  /\ \A x \in Session : state'[x] = "RUNNING" => state[x] = "RUNNING"
         /\ \A x \in Session : state[x] = "STOPPING" => state'[x] = "STOPPING"
         /\ state'[s] # "RUNNING"
BY DEF Stop, IInv, TypeOK

\* Every step but those of terminate_sessions() and of shutdown.
LEMMA JoinedStep ==
  ASSUME Env \cap {"cancel", "shutdown"} = {}, IInv, StopInv, JoinInv, [Next]_vars
  PROVE  JoinInv'
<1> USE ThreadAssumption
<1>1. ASSUME UNCHANGED <<shutdown, state, cmode, ccur>>,
             \A t \in Thread : cpc'[t] = "join" => cpc[t] = "join"
      PROVE  JoinInv'
  BY <1>1, JoinFrame
<1>2. CASE StartRun
  <2>1. /\ rpc = "run" /\ state' = [state EXCEPT ![rcur] = "RUNNING"]
        /\ UNCHANGED <<shutdown, cmode, cpc, ccur>>
    BY <1>2 DEF StartRun, clearVars, envVars
  <2>2. rcur \in Session /\ state[rcur] = "STOPPED" /\ cpc[Rtsp] # "join"
    BY <2>1 DEF IInv, TypeOK, AnnounceInv, StopInv, Announcing, Holding
  <2>3. ASSUME NEW t \in Thread, cpc[t] = "join"
        PROVE  t # Rtsp /\ ccur[t] \in Session /\ state'[ccur[t]] = "STOPPING"
    BY <2>1, <2>2, <2>3 DEF IInv, TypeOK, LockInv, JoinInv
  <2> QED
    BY <2>1, <2>3 DEF JoinInv
<1>3. ASSUME NEW t \in Thread, cpc' = [cpc EXCEPT ![t] = "scan"],
             \E all \in BOOLEAN : cmode' = [cmode EXCEPT ![t] = all] /\ (t # Rtsp => ~all),
             UNCHANGED <<shutdown, state, ccur>>
      PROVE  JoinInv'
  <2>1. \A u \in Thread \ {Rtsp} : cmode'[u] => cmode[u]
    BY <1>3 DEF IInv, TypeOK
  <2>2. \A u \in Thread : cpc'[u] = "join" => cpc[u] = "join"
    BY <1>3 DEF IInv, TypeOK
  <2> QED
    BY <1>3, <2>1, <2>2, JoinFrame
<1>4. CASE RtspClear \/ AcceptFails
  <2>1. /\ cpc' = [cpc EXCEPT ![Rtsp] = "scan"]
        /\ cmode' = [cmode EXCEPT ![Rtsp] = bShutdown] \/ cmode' = [cmode EXCEPT ![Rtsp] = TRUE]
        /\ UNCHANGED <<shutdown, state, ccur>>
    BY <1>4 DEF RtspClear, AcceptFails, ClearBegin, sessionVars, envVars
  <2>2. bShutdown \in BOOLEAN /\ Rtsp \in Thread
    BY DEF IInv, TypeOK, Thread
  <2> QED
    BY <1>3, <2>1, <2>2
<1>5. CASE MainStop
  BY <1>5 DEF MainStop, JoinInv
<1>6. ASSUME NEW t \in Http, HttpSessionCount(t) \/ HttpTerminate(t) PROVE JoinInv'
  <2>1. /\ cpc' = [cpc EXCEPT ![t] = "scan"] /\ cmode' = [cmode EXCEPT ![t] = FALSE]
        /\ UNCHANGED <<shutdown, state, ccur>>
    BY <1>6 DEF HttpSessionCount, HttpTerminate, ClearBegin, sessionVars, envVars
  <2> QED
    BY <1>3, <2>1 DEF Thread
<1>7. ASSUME NEW t \in Thread, NEW s \in Session, ClearVisit(t, s) PROVE JoinInv'
  <2>1. UNCHANGED <<shutdown, cmode>> /\ cpc[t] = "scan"
    BY <1>7 DEF ClearVisit, envVars
  <2>2. CASE cmode[t] \/ state[s] = "STOPPING"
    <3>1. /\ Stop(s) /\ cpc' = [cpc EXCEPT ![t] = "join"]
          /\ ccur' = [ccur EXCEPT ![t] = s]
      BY <1>7, <2>2 DEF ClearVisit
    <3>2. /\ \A x \in Session : state'[x] = "RUNNING" => state[x] = "RUNNING"
          /\ \A x \in Session : state[x] = "STOPPING" => state'[x] = "STOPPING"
          /\ state'[s] # "RUNNING"
      BY <3>1, StopMoves
    <3>3. t # Rtsp => state'[s] = "STOPPING"
      BY <2>2, <3>2 DEF JoinInv
    <3>4. /\ cpc'[t] = "join" /\ ccur'[t] = s
          /\ \A u \in Thread \ {t} : cpc'[u] = cpc[u] /\ ccur'[u] = ccur[u]
      BY <3>1 DEF IInv, TypeOK
    <3>5. \A u \in Thread : cpc[u] = "join" => ccur[u] \in Session
      BY DEF IInv, TypeOK, LockInv
    <3> QED
      BY <2>1, <3>2, <3>3, <3>4, <3>5 DEF JoinInv
  <2>3. CASE ~(cmode[t] \/ state[s] = "STOPPING")
    BY <1>1, <1>7, <2>1, <2>3 DEF ClearVisit
  <2> QED
    BY <2>2, <2>3
<1>8. ASSUME NEW t \in Thread, JoinThrows(t) PROVE JoinInv'
  <2>1. /\ UNCHANGED <<shutdown, state>>
        /\ \E p \in {"aborted", "idle"} : cpc' = [cpc EXCEPT ![t] = p]
        /\ cmode' = cmode \/ cmode' = [cmode EXCEPT ![t] = FALSE]
        /\ ccur' = ccur \/ ccur' = [ccur EXCEPT ![t] = NoOne]
    BY <1>8 DEF JoinThrows, sessionVars, envVars
  <2> QED
    BY <2>1, JoinFrame DEF IInv, TypeOK
<1>9. ASSUME NEW t \in Thread, Join(t) PROVE JoinInv'
  BY <1>1, <1>9 DEF Join, sessionVars, envVars, IInv, TypeOK
<1>10. ASSUME NEW t \in Thread, Erase(t) PROVE JoinInv'
  <2>1. /\ UNCHANGED <<shutdown, state, cmode>>
        /\ \E p \in {"scan", "end"} : cpc' = [cpc EXCEPT ![t] = p]
        /\ ccur' = [ccur EXCEPT ![t] = NoOne]
    BY <1>10 DEF Erase, envVars
  <2> QED
    BY <2>1, JoinFrame DEF IInv, TypeOK
<1>11. ASSUME NEW t \in Thread, ClearEnd(t) PROVE JoinInv'
  <2>1. /\ UNCHANGED <<shutdown, state, ccur>>
        /\ \E p \in {"done", "idle"} : cpc' = [cpc EXCEPT ![t] = p]
        /\ cmode' = [cmode EXCEPT ![t] = FALSE]
    BY <1>11 DEF ClearEnd, sessionVars, envVars
  <2> QED
    BY <2>1, JoinFrame DEF IInv, TypeOK
<1>12. ASSUME NEW t \in Thread, ClearEndBroadcast(t) PROVE JoinInv'
  BY <1>1, <1>12 DEF ClearEndBroadcast, sessionVars, envVars, IInv, TypeOK
<1>13. ASSUME NEW s \in Session, Stop(s) \/ UNCHANGED state,
              UNCHANGED <<shutdown, cmode, cpc, ccur>>
       PROVE  JoinInv'
  BY <1>1, <1>13, StopMoves, JoinFrame
<1>14. ASSUME NEW s \in Session, NEW m \in Media, AvNext(s, m) PROVE JoinInv'
  BY <1>13, <1>14 DEF AvNext, AvStart, AvPing, AvExit, clearVars, envVars
<1>15. CASE ControlNext
  <2>1. ASSUME NEW s \in Session, NEW b \in BOOLEAN, CtlVisit(s, b) PROVE JoinInv'
    <3>1. Stop(s) \/ UNCHANGED state
      BY <2>1 DEF CtlVisit
    <3>2. UNCHANGED <<shutdown, cmode, cpc, ccur>>
      BY <2>1 DEF CtlVisit, clearVars, envVars
    <3> QED
      BY <1>13, <3>1, <3>2
  <2>2. ASSUME NEW s \in Session, CtlConnect(s) \/ CtlStop(s) PROVE JoinInv'
    BY <1>13, <2>2 DEF CtlConnect, CtlStop, sessionVars, clearVars, envVars
  <2>3. CASE CtlTop \/ CtlEndPass \/ CtlQuiet \/ CtlDrain
    BY <1>1, <2>3 DEF CtlTop, CtlEndPass, CtlQuiet, CtlDrain, sessionVars, clearVars,
       envVars
  <2> QED
    BY <1>15, <2>1, <2>2, <2>3 DEF ControlNext
<1>16. ASSUME NEW s \in Session, Announce(s) PROVE JoinInv'
  BY <1>1, <1>16 DEF Announce, clearVars, envVars
<1>17. CASE StartRef \/ StartRefFails \/ RemoveFailed \/ StartPush
  BY <1>1, <1>17 DEF StartRef, StartRefFails, RemoveFailed, StartPush, sessionVars,
     clearVars, envVars
<1>18. CASE StartCount \/ Respond \/ RtspEndBroadcast \/ RtspIdle
  BY <1>1, <1>18 DEF StartCount, Respond, RtspEndBroadcast, RtspIdle, sessionVars,
     clearVars, envVars
<1>19. ASSUME NEW m \in Media, StartThread(m) PROVE JoinInv'
  BY <1>1, <1>19 DEF StartThread, clearVars, envVars
<1>20. CASE AppChange \/ BroadcastFails
  BY <1>1, <1>20 DEF AppChange, BroadcastFails, sessionVars, clearVars, envVars
<1>21. CASE Shutdown
  BY <1>21 DEF Shutdown
<1>22. CASE UNCHANGED vars
  BY <1>1, <1>22 DEF vars, sessionVars, clearVars, envVars
<1> QED
  BY <1>2, <1>4, <1>5, <1>6, <1>7, <1>8, <1>9, <1>10, <1>11, <1>12, <1>14, <1>15,
     <1>16, <1>17, <1>18, <1>19, <1>20, <1>21, <1>22 DEF Next, AnnounceNext, ClearNext

\* clear() joins only sessions that have been stopped, unless terminate_sessions()
\* or the shutdown of the process runs while cmd_announce starts one: those two are
\* the only events that can make it join a session that runs (rtsp_server_t::clear,
\* session::start).
THEOREM JoinedTheorem ==
  ASSUME Env \cap {"cancel", "shutdown"} = {}
  PROVE  Spec => []JoinedSessionIsStopped
<1>1. Init => IInv /\ StopInv /\ JoinInv
  BY IInvInit, StopInit DEF Init, JoinInv
<1>2. (IInv /\ StopInv /\ JoinInv) /\ [Next]_vars => (IInv /\ StopInv /\ JoinInv)'
  BY IInvStep, StopStep, JoinedStep
<1>3. JoinInv => JoinedSessionIsStopped
  BY DEF JoinInv, JoinedSessionIsStopped
<1> QED
  BY <1>1, <1>2, <1>3, PTL DEF Spec
=============================================================================
