------------------------- MODULE AppProcessProofs -------------------------
(***************************************************************************)
(* Theorems about the launched application (process.cpp, proc_t), for any  *)
(* application list and any number of threads. proc::proc has no lock, so  *)
(* every theorem says what holds as long as calls into it do not overlap;  *)
(* what overlapping calls break is in the runs that expect a violation.    *)
(***************************************************************************)
EXTENDS AppProcess, TLAPS

\* Calls into proc_t do not overlap.
OneAtATime ==
  \A t, u \in Thread : pc[t] # "idle" /\ pc[u] # "idle" => t = u

\* The app list is saved only while nobody is inside proc_t.
SavedWhenQuiet == (\E t \in Worker : Save(t)) => Quiet

(***************************************************************************)
(* The inductive invariant. The prep iterator is the number of prep        *)
(* commands to unwind; an app that counts as running has an id; and the    *)
(* places of execute() and terminate() where the handles, the placebo flag *)
(* or the leader are known to be gone.                                     *)
(***************************************************************************)

\* The iterator stays inside the command list of the app (_app_prep_it is
\* never moved before _app_prep_begin nor past the end).
IterInRange ==
  /\ prepIt <= Len(app.prep)
  /\ \A t \in Thread : pc[t] \in {"undoWait", "undoNext"} => prepIt > 0
  /\ \A t \in Thread : pc[t] = "prepWait" => prepIt < Len(app.prep)

\* Where terminate() has dropped the placebo flag and both handles.
NoPlacebo == {"kill", "reset", "undo", "undoWait", "undoNext", "load"}
NoHandle == {"undo", "undoWait", "undoNext", "load"}
Dropped ==
  /\ \A t \in Thread : pc[t] \in NoPlacebo => ~placebo
  /\ \A t \in Thread : pc[t] \in NoHandle => ~handle
  /\ \A t \in Thread : pc[t] = "detach" => handle

\* What counts as running was loaded, and has its id.
HasId ==
  /\ placebo \/ handle => appId > 0
  /\ \A t \in Thread : pc[t] \in {"prep", "prepWait"} => appId > 0

SafeInv == TypeOK /\ IterInRange /\ Dropped /\ HasId

\* The history variable is what the iterator says.
AppliedIsPrefix == applied = 1 .. prepIt

\* Nothing is left to unwind when execute() loads an app, nor while an app is
\* not up and nobody is at work on one.
Unwound ==
  /\ \A t \in Thread : pc[t] = "load" => prepIt = 0
  /\ (\A t \in Thread : pc[t] \in {"idle", "check"}) /\ ~placebo /\ ~handle
       => prepIt = 0

\* A running leader is the one the handles stand for, and is never there
\* while prep commands are unwound or run.
LeaderIsHeld ==
  leader = "running" =>
    /\ handle
    /\ \A t \in Thread : pc[t] \in {"idle", "check", "detach", "term", "kill"}

PrepInv == SafeInv /\ AppliedIsPrefix /\ Unwound /\ LeaderIsHeld

\* The list of commands of the app in memory is one of the configured lists, or
\* empty, and no longer than the bound.
LEMMA PrepList ==
  ASSUME TypeOK
  PROVE  /\ app.prep \in Seq([do : BOOLEAN, undo : BOOLEAN])
         /\ Len(app.prep) \in Nat /\ Len(app.prep) <= MaxPrep
<1>1. CASE app = NoApp
  <2>1. app.prep = <<>>
    BY <1>1 DEF NoApp
  <2> QED
    BY <2>1, AppAssumption
<1>2. ASSUME NEW a \in DOMAIN Apps, app = Apps[a]
      PROVE  /\ app.prep \in Seq([do : BOOLEAN, undo : BOOLEAN])
             /\ Len(app.prep) <= MaxPrep
  BY <1>2, AppAssumption
<1> QED
  BY <1>1, <1>2 DEF TypeOK

\* Every step keeps the iterator in range and the running app's id, as long as
\* calls into proc_t do not overlap.
LEMMA SafeStep ==
  SafeInv /\ OneAtATime /\ [SavedWhenQuiet]_vars /\ [Next]_vars => SafeInv'
<1> SUFFICES ASSUME SafeInv, OneAtATime, [SavedWhenQuiet]_vars, [Next]_vars
             PROVE  SafeInv'
  OBVIOUS
<1> USE DEF SafeInv
<1>1. CASE UNCHANGED vars
  BY <1>1 DEF vars, procVars, osVars, TypeOK, IterInRange, Dropped, HasId
<1>2. ASSUME NEW t \in Thread, Step(t) PROVE SafeInv'
  <2>1. pc[t] # "idle"
    BY <1>2 DEF Step, CheckAlive, CheckNone, Detach, CheckOver, Terminate,
       KillGroup, ResetHandles, UndoSpawn, UndoSkip, UndoWaited, UndoNext,
       TerminateEnd, Load, PrepSpawn, PrepSkip, PrepWaited, PrepDenied,
       PrepFails, Start, StartFails
  <2>2. \A u \in Thread : u # t => pc[u] = "idle"
    BY <2>1 DEF OneAtATime
  <2> USE <2>2, PrepList DEF TypeOK, Place, IterInRange, Dropped, HasId, NoPlacebo,
          NoHandle, procVars, osVars, Goto
  <2>3. CASE CheckAlive(t)
    BY <2>3 DEF CheckAlive, Result, Reap, Dead
  <2>4. CASE CheckNone(t)
    BY <2>4 DEF CheckNone, Result, Reap, Dead
  <2>5. CASE Detach(t)
    BY <2>5 DEF Detach, Result, Reap, Dead
  <2>6. CASE Terminate(t)
    BY <2>6, ZenonT(40) DEF Terminate
  <2>7. CASE KillGroup(t)
    BY <2>7, ZenonT(40) DEF KillGroup
  <2>8. CASE ResetHandles(t)
    BY <2>8 DEF ResetHandles
  <2>9. CASE UndoSpawn(t)
    BY <2>9 DEF UndoSpawn
  <2>10. CASE UndoSkip(t)
    BY <2>10 DEF UndoSkip
  <2>11. CASE UndoWaited(t)
    BY <2>11 DEF UndoWaited
  <2>12. CASE UndoNext(t)
    <3>1. prepIt \in Nat /\ prepIt > 0 /\ prepIt <= Len(app.prep)
      BY <2>12 DEF UndoNext
    <3>2. prepIt' \in 0 .. MaxPrep /\ applied' \subseteq 1 .. MaxPrep
      BY <2>12, <3>1, AppAssumption DEF UndoNext
    <3>3. TypeOK'
      BY <2>12, <3>2 DEF UndoNext
    <3>4. IterInRange'
      BY <2>12, <3>1 DEF UndoNext
    <3>5. Dropped' /\ HasId'
      BY <2>12 DEF UndoNext
    <3> QED
      BY <3>3, <3>4, <3>5
  <2>13. CASE TerminateEnd(t)
    BY <2>13 DEF TerminateEnd, Result, Reap, Dead
  <2>14. CASE Load(t)
    <3>1. CASE target[t] \in DOMAIN Apps
      <4>1. /\ appId' \in AppId /\ appId' > 0 /\ prepIt' = 0
            /\ app' \in {Apps[a] : a \in DOMAIN Apps}
        BY <2>14, <3>1, AppAssumption DEF Load
      <4>2. TypeOK'
        BY <2>14, <3>1, <4>1, AppAssumption DEF Load
      <4>3. 0 <= Len(app'.prep)
        BY <4>1, AppAssumption
      <4>4. IterInRange'
        BY <2>14, <3>1, <4>1, <4>3 DEF Load
      <4>5. Dropped' /\ HasId'
        BY <2>14, <3>1, <4>1 DEF Load
      <4> QED
        BY <4>2, <4>4, <4>5
    <3>2. CASE target[t] \notin DOMAIN Apps
      BY <2>14, <3>2 DEF Load
    <3> QED
      BY <3>1, <3>2
  <2>15. CASE PrepSpawn(t)
    BY <2>15 DEF PrepSpawn
  <2>16. CASE PrepSkip(t)
    <3>1. prepIt \in Nat /\ prepIt < Len(app.prep)
      BY <2>16 DEF PrepSkip
    <3>2. prepIt' \in 0 .. MaxPrep /\ applied' \subseteq 1 .. MaxPrep
      BY <2>16, <3>1, AppAssumption DEF PrepSkip, PrepPass
    <3>3. TypeOK'
      BY <2>16, <3>2 DEF PrepSkip, PrepPass
    <3>4. IterInRange'
      BY <2>16, <3>1 DEF PrepSkip, PrepPass
    <3>5. Dropped' /\ HasId'
      BY <2>16 DEF PrepSkip, PrepPass
    <3> QED
      BY <3>3, <3>4, <3>5
  <2>17. CASE PrepWaited(t)
    <3>1. prepIt \in Nat /\ prepIt < Len(app.prep)
      BY <2>17 DEF PrepWaited
    <3>2. prepIt' \in 0 .. MaxPrep /\ applied' \subseteq 1 .. MaxPrep
      BY <2>17, <3>1, AppAssumption DEF PrepWaited, PrepPass
    <3>3. TypeOK'
      BY <2>17, <3>2 DEF PrepWaited, PrepPass
    <3>4. IterInRange'
      BY <2>17, <3>1 DEF PrepWaited, PrepPass
    <3>5. Dropped' /\ HasId'
      BY <2>17 DEF PrepWaited, PrepPass
    <3> QED
      BY <3>3, <3>4, <3>5
  <2>18. CASE PrepDenied(t)
    <3>1. prepIt \in Nat /\ prepIt < Len(app.prep)
      BY <2>18 DEF PrepDenied
    <3>2. prepIt' \in 0 .. MaxPrep /\ applied' \subseteq 1 .. MaxPrep
      BY <2>18, <3>1, AppAssumption DEF PrepDenied, PrepPass
    <3>3. TypeOK'
      BY <2>18, <3>2 DEF PrepDenied, PrepPass
    <3>4. IterInRange'
      BY <2>18, <3>1 DEF PrepDenied, PrepPass
    <3>5. Dropped' /\ HasId'
      BY <2>18 DEF PrepDenied, PrepPass
    <3> QED
      BY <3>3, <3>4, <3>5
  <2>19. CASE PrepFails(t)
    BY <2>19 DEF PrepFails
  <2>20. CASE Start(t)
    BY <2>20 DEF Start
  <2>21. CASE StartFails(t)
    BY <2>21 DEF StartFails
  <2>22. ASSUME NEW known \in {"clean", "failed"}, CheckOver(t, known)
         PROVE  SafeInv'
    BY <2>22 DEF CheckOver
  <2> QED
    BY <1>2, <2>3, <2>4, <2>5, <2>6, <2>7, <2>8, <2>9, <2>10, <2>11, <2>12, <2>13, <2>14, <2>15, <2>16, <2>17, <2>18, <2>19, <2>20, <2>21, <2>22 DEF Step
<1>3. ASSUME NEW t \in Thread, Poll(t) PROVE SafeInv'
  BY <1>3 DEF TypeOK, Place, IterInRange, Dropped, HasId, NoPlacebo, NoHandle, Poll,
     procVars, osVars, Goto
<1>4. ASSUME NEW t \in Worker, Request(t) PROVE SafeInv'
  <2>1. t \in Thread
    BY DEF Thread
  <2> USE <2>1 DEF TypeOK, Place, IterInRange, Dropped, HasId, NoPlacebo, NoHandle,
          procVars, osVars, Goto
  <2>2. ASSUME NEW a \in AppId, Launch(t, a) PROVE SafeInv'
    BY <2>2 DEF Launch
  <2>3. CASE Cancel(t)
    BY <2>3 DEF Cancel
  <2>4. CASE Close(t)
    BY <2>4 DEF Close
  <2>5. CASE Save(t)
    <3>1. CASE UNCHANGED vars
      BY <1>1, <3>1
    <3> SUFFICES ASSUME SavedWhenQuiet PROVE SafeInv'
      BY <3>1
    <3>2. Quiet
      BY <2>5 DEF SavedWhenQuiet
    <3>3. NoApp.prep = <<>>
      BY DEF NoApp
    <3>4. TypeOK'
      <4>1. prepIt' \in 0 .. MaxPrep
        BY <2>5, AppAssumption DEF Save
      <4>2. app' \in {NoApp} \cup {Apps[a] : a \in DOMAIN Apps}
        BY <2>5 DEF Save
      <4> QED
        BY <2>5, <4>1, <4>2 DEF Save
    <3>5. IterInRange'
      <4>1. prepIt' = 0 /\ app' = NoApp /\ pc' = pc
        BY <2>5 DEF Save
      <4> QED
        BY <3>2, <3>3, <4>1 DEF Quiet
    <3>6. Dropped' /\ HasId'
      BY <2>5, <3>2 DEF Save, Quiet
    <3> QED
      BY <3>4, <3>5, <3>6
  <2> QED
    BY <1>4, <2>2, <2>3, <2>4, <2>5 DEF Request
<1>5. CASE System
  <2> USE DEF TypeOK, Place, IterInRange, Dropped, HasId, NoPlacebo, NoHandle,
          procVars, osVars
  <2>1. ASSUME NEW code \in {"clean", "failed"}, LeaderExits(code)
        PROVE  SafeInv'
    BY <2>1 DEF LeaderExits
  <2>2. CASE KidsExit
    BY <2>2 DEF KidsExit
  <2>3. CASE FiveSecondsPass
    BY <2>3 DEF FiveSecondsPass
  <2>4. ASSUME NEW t \in Thread, ChildExits(t) PROVE SafeInv'
    BY <2>4 DEF ChildExits
  <2> QED
    BY <1>5, <2>1, <2>2, <2>3, <2>4 DEF System
<1> QED
  BY <1>1, <1>2, <1>3, <1>4, <1>5 DEF Next

\* Without saves, every step keeps the iterator equal to the number of commands
\* to unwind, and leaves no running process behind its handles.
LEMMA PrepStep ==
  PrepInv /\ OneAtATime /\ ~CanSave /\ [Next]_vars => PrepInv'
<1> SUFFICES ASSUME PrepInv, OneAtATime, ~CanSave, [Next]_vars
             PROVE  PrepInv'
  OBVIOUS
<1>1. SafeInv'
  <2>1. SavedWhenQuiet
    BY DEF SavedWhenQuiet, Save
  <2> QED
    BY <2>1, SafeStep DEF PrepInv
<1> USE <1>1 DEF PrepInv
<1>2. prepIt \in Nat /\ prepIt <= Len(app.prep) /\ Len(app.prep) \in Nat
  BY PrepList DEF SafeInv, TypeOK, IterInRange
<1>3. ASSUME NEW t \in Thread, Step(t) PROVE PrepInv'
  <2>1. pc[t] # "idle"
    BY <1>3 DEF Step, CheckAlive, CheckNone, Detach, CheckOver, Terminate,
       KillGroup, ResetHandles, UndoSpawn, UndoSkip, UndoWaited, UndoNext,
       TerminateEnd, Load, PrepSpawn, PrepSkip, PrepWaited, PrepDenied,
       PrepFails, Start, StartFails
  <2>2. \A u \in Thread : u # t => pc[u] = "idle"
    BY <2>1 DEF OneAtATime
  <2>3. pc \in [Thread -> Place] /\ prepIt' \in Nat
    BY DEF SafeInv, TypeOK
  <2> USE <1>2, <2>2, <2>3 DEF AppliedIsPrefix, Unwound, LeaderIsHeld, procVars,
          osVars, Goto
  <2>4. CASE CheckAlive(t)
    BY <2>4 DEF CheckAlive, Result, Reap, Dead
  <2>5. CASE CheckNone(t)
    BY <2>5 DEF CheckNone, Result, Reap, Dead
  <2>6. CASE Detach(t)
    BY <2>6 DEF Detach, Result, Reap, Dead
  <2>7. CASE Terminate(t)
    BY <2>7 DEF Terminate
  <2>8. CASE KillGroup(t)
    BY <2>8 DEF KillGroup, GroupRunning
  <2>9. CASE ResetHandles(t)
    BY <2>9 DEF ResetHandles
  <2>10. CASE UndoSpawn(t)
    BY <2>10 DEF UndoSpawn
  <2>11. CASE UndoSkip(t)
    BY <2>11 DEF UndoSkip
  <2>12. CASE UndoWaited(t)
    BY <2>12 DEF UndoWaited
  <2>13. CASE UndoNext(t)
    BY <2>13 DEF UndoNext
  <2>14. CASE TerminateEnd(t)
    BY <2>14 DEF TerminateEnd, Result, Reap, Dead
  <2>15. CASE Load(t)
    BY <2>15 DEF Load
  <2>16. CASE PrepSpawn(t)
    BY <2>16 DEF PrepSpawn
  <2>17. CASE PrepSkip(t)
    BY <2>17 DEF PrepSkip, PrepPass
  <2>18. CASE PrepWaited(t)
    BY <2>18 DEF PrepWaited, PrepPass
  <2>19. CASE PrepDenied(t)
    BY <2>19 DEF PrepDenied, PrepPass
  <2>20. CASE PrepFails(t)
    BY <2>20 DEF PrepFails
  <2>21. CASE Start(t)
    BY <2>21 DEF Start
  <2>22. CASE StartFails(t)
    BY <2>22 DEF StartFails
  <2>23. ASSUME NEW known \in {"clean", "failed"}, CheckOver(t, known)
         PROVE  PrepInv'
    BY <2>23 DEF CheckOver
  <2> QED
    BY <1>3, <2>4, <2>5, <2>6, <2>7, <2>8, <2>9, <2>10, <2>11, <2>12, <2>13, <2>14, <2>15, <2>16, <2>17, <2>18, <2>19, <2>20, <2>21, <2>22, <2>23 DEF Step
<1>4. ASSUME NEW t \in Thread, Poll(t) PROVE PrepInv'
  BY <1>4 DEF SafeInv, TypeOK, AppliedIsPrefix, Unwound, LeaderIsHeld, Poll,
     procVars, osVars, Goto
<1>5. ASSUME NEW t \in Worker, Request(t) PROVE PrepInv'
  <2>1. t \in Thread
    BY DEF Thread
  <2> USE <2>1 DEF SafeInv, TypeOK, AppliedIsPrefix, Unwound, LeaderIsHeld,
          procVars, osVars, Goto
  <2>2. ASSUME NEW a \in AppId, Launch(t, a) PROVE PrepInv'
    BY <2>2 DEF Launch
  <2>3. CASE Cancel(t)
    BY <2>3 DEF Cancel
  <2>4. CASE Close(t)
    BY <2>4 DEF Close
  <2> QED
    BY <1>5, <2>2, <2>3, <2>4 DEF Request, Save
<1>6. CASE System
  <2> USE DEF AppliedIsPrefix, Unwound, LeaderIsHeld, procVars, osVars
  <2>1. ASSUME NEW code \in {"clean", "failed"}, LeaderExits(code)
        PROVE  PrepInv'
    BY <2>1 DEF LeaderExits
  <2>2. CASE KidsExit
    BY <2>2 DEF KidsExit
  <2>3. CASE FiveSecondsPass
    BY <2>3 DEF FiveSecondsPass
  <2>4. ASSUME NEW t \in Thread, ChildExits(t) PROVE PrepInv'
    BY <2>4 DEF ChildExits
  <2> QED
    BY <1>6, <2>1, <2>2, <2>3, <2>4 DEF System
<1>7. CASE UNCHANGED vars
  BY <1>7 DEF vars, procVars, osVars, AppliedIsPrefix, Unwound, LeaderIsHeld
<1> QED
  BY <1>3, <1>4, <1>5, <1>6, <1>7 DEF Next

\* The iterator moves back by one command at a time, and jumps to the start of a
\* list only where there is nothing left to unwind.
LEMMA IterMoves ==
  ASSUME PrepInv, ~CanSave, [Next]_vars
  PROVE  prepIt' >= prepIt - 1
<1>1. prepIt \in Nat
  BY DEF PrepInv, SafeInv, TypeOK
<1>2. CASE prepIt' = prepIt
  BY <1>1, <1>2
<1>3. ASSUME NEW t \in Thread, UndoNext(t) PROVE prepIt' >= prepIt - 1
  BY <1>1, <1>3 DEF UndoNext
<1>4. ASSUME NEW t \in Thread, Load(t) PROVE prepIt' >= prepIt - 1
  BY <1>1, <1>4 DEF Load, PrepInv, Unwound
<1>5. ASSUME NEW t \in Thread, PrepSkip(t) \/ PrepWaited(t) \/ PrepDenied(t)
      PROVE  prepIt' >= prepIt - 1
  BY <1>1, <1>5 DEF PrepSkip, PrepWaited, PrepDenied, PrepPass
<1>6. ASSUME NEW t \in Thread, Step(t) \/ Poll(t)
      PROVE  \/ prepIt' = prepIt \/ UndoNext(t) \/ Load(t)
             \/ PrepSkip(t) \/ PrepWaited(t) \/ PrepDenied(t)
  BY <1>6 DEF Step, Poll, CheckAlive, CheckNone, Detach, CheckOver, Terminate,
     KillGroup, ResetHandles, UndoSpawn, UndoSkip, UndoWaited, TerminateEnd,
     PrepSpawn, PrepFails, Start, StartFails, procVars
<1>7. ASSUME NEW t \in Worker, Request(t) PROVE prepIt' = prepIt
  BY <1>7 DEF Request, Launch, Cancel, Close, Save, procVars
<1>8. CASE System
  BY <1>2, <1>8 DEF System, LeaderExits, KidsExit, FiveSecondsPass, ChildExits,
     procVars
<1>9. CASE UNCHANGED vars
  BY <1>2, <1>9 DEF vars, procVars
<1> QED
  BY <1>2, <1>3, <1>4, <1>5, <1>6, <1>7, <1>8, <1>9 DEF Next

\* A freshly constructed proc_t satisfies the invariant.
LEMMA PrepInit == Init => PrepInv
<1> SUFFICES ASSUME Init PROVE PrepInv
  OBVIOUS
<1>1. NoApp.prep = <<>> /\ Len(NoApp.prep) = 0
  BY DEF NoApp
<1>2. TypeOK
  <2>1. 0 \in 0 .. MaxPrep
    BY AppAssumption
  <2>2. pc \in [Thread -> Place]
    BY DEF Init, Place
  <2> QED
    BY <2>1, <2>2 DEF Init, TypeOK
<1>3. IterInRange /\ Dropped /\ HasId
  BY <1>1 DEF Init, IterInRange, Dropped, HasId, NoPlacebo, NoHandle
<1>4. AppliedIsPrefix /\ Unwound /\ LeaderIsHeld
  BY DEF Init, AppliedIsPrefix, Unwound, LeaderIsHeld
<1> QED
  BY <1>2, <1>3, <1>4 DEF PrepInv, SafeInv

\* While calls do not overlap, whatever the prep lists, the iterator stays inside
\* the list of the app in memory, also when the app list is saved and replaced
\* while an app is up (refresh).
THEOREM TypeCorrect ==
  Spec /\ []OneAtATime /\ [][SavedWhenQuiet]_vars => []TypeOK
<1>1. Init => SafeInv
  BY PrepInit DEF PrepInv
<1>2. SafeInv => TypeOK
  BY DEF SafeInv
<1> QED
  BY <1>1, <1>2, SafeStep, PTL DEF Spec

\* While calls do not overlap, an app that counts as running has an id when
\* nobody is inside proc_t: running() returns "_app_id if a process is running".
THEOREM RunningIsIdentified ==
  Spec /\ []OneAtATime /\ [][SavedWhenQuiet]_vars => []RunningReturnsId
<1>1. Init => SafeInv
  BY PrepInit DEF PrepInv
<1>2. SafeInv => RunningReturnsId
  BY DEF SafeInv, HasId, RunningReturnsId
<1> QED
  BY <1>1, <1>2, SafeStep, PTL DEF Spec

\* With neither an app nor a caller, the iterator is back at the first command.
LEMMA PrepInvUnwound ==
  ASSUME PrepInv
  PROVE  PrepUnwound
<1> SUFFICES ASSUME Quiet, ~placebo, ~handle PROVE applied = {}
  BY DEF PrepUnwound
<1>1. prepIt = 0
  BY DEF PrepInv, Unwound, Quiet
<1> QED
  BY <1>1 DEF PrepInv, AppliedIsPrefix

\* At the first prep command the iterator, and so the history, is at its start.
LEMMA PrepInvClean ==
  ASSUME PrepInv
  PROVE  CleanSlate
<1> SUFFICES ASSUME NEW t \in Thread, pc[t] = "prep", prepIt = 0
             PROVE  applied = {} /\ leader # "running"
  BY DEF CleanSlate
<1>1. applied = {}
  BY DEF PrepInv, AppliedIsPrefix
<1>2. leader # "running"
  BY DEF PrepInv, LeaderIsHeld
<1> QED
  BY <1>1, <1>2

\* While calls do not overlap and the list is not saved, every prep command that
\* passed has been unwound once no app is up, however the app ended: by cancel,
\* by itself, or by the fail guard of a launch that failed half-way.
THEOREM PrepIsUnwound ==
  ASSUME ~CanSave
  PROVE  Spec /\ []OneAtATime => []PrepUnwound
<1>1. PrepInv => PrepUnwound
  BY PrepInvUnwound
<1>2. PrepInv /\ OneAtATime /\ [Next]_vars => PrepInv'
  BY PrepStep
<1> QED
  BY <1>1, <1>2, PrepInit, PTL DEF Spec

\* While calls do not overlap and the list is not saved, execute() starts from a
\* clean slate: terminate() has left neither a prep command nor the process.
THEOREM SlateIsClean ==
  ASSUME ~CanSave
  PROVE  Spec /\ []OneAtATime => []CleanSlate
<1>1. PrepInv => CleanSlate
  BY PrepInvClean
<1>2. PrepInv /\ OneAtATime /\ [Next]_vars => PrepInv'
  BY PrepStep
<1> QED
  BY <1>1, <1>2, PrepInit, PTL DEF Spec

\* While calls do not overlap and the list is not saved, prep commands are unwound
\* in the reverse of their order (the loop of terminate()).
THEOREM UnwoundInReverse ==
  ASSUME ~CanSave
  PROVE  Spec /\ []OneAtATime => ReverseOrder
<1>1. PrepInv /\ PrepInv' /\ [Next]_vars =>
        [\A i \in applied \ applied' : \A j \in applied : j <= i]_vars
  <2> SUFFICES ASSUME PrepInv, PrepInv', [Next]_vars,
                      NEW i \in applied \ applied', NEW j \in applied
               PROVE  j <= i
    OBVIOUS
  <2>1. applied = 1 .. prepIt /\ applied' = 1 .. prepIt'
    BY DEF PrepInv, AppliedIsPrefix
  <2>2. prepIt \in Nat /\ prepIt' \in Nat
    BY DEF PrepInv, SafeInv, TypeOK
  <2>3. prepIt' >= prepIt - 1
    BY IterMoves
  <2> QED
    BY <2>1, <2>2, <2>3
<1>2. PrepInv /\ OneAtATime /\ [Next]_vars => PrepInv'
  BY PrepStep
<1>3. PrepInv /\ OneAtATime /\ [Next]_vars =>
        [\A i \in applied \ applied' : \A j \in applied : j <= i]_vars
  BY <1>1, <1>2
<1> QED
  BY <1>2, <1>3, PrepInit, PTL DEF Spec, ReverseOrder
=============================================================================
