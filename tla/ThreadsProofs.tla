--------------------------- MODULE ThreadsProofs ---------------------------
(***************************************************************************)
(* Theorems about the threads of MCThreads, for every value of the         *)
(* parameters: what PrimitiveProofs and AppProcessProofs prove of a        *)
(* component holds of the behaviours in which that component is one of     *)
(* many; and the lemmas and theorems on input, audio and capture.          *)
(***************************************************************************)
EXTENDS MCThreads, AppProcessProofs, NaturalsInduction, WellFoundedInduction, FiniteSetTheorems

SP == INSTANCE PrimitiveProofs WITH
  queue <- v1, queueOn <- v2, qpc <- v3, raised <- v4, popped <- v5, lost <- v6, status
  <- v1, eventOn <- v2, wstate <- v3, count <- v4, taken <- v5, postName <- v1, held <-
  v2, registry <- v3, dying <- v4, nulls <- v5

AP == INSTANCE AppProcessProofs WITH
  CanSave <- TRUE, appId <- v1, app <- v2, placebo <- v3, handle <- v4, status <- v5,
  prepIt <- v6, recent <- v7, leader <- v8, exit <- v9, kids <- v10, pc <- v11, goal <-
  v12, target <- v13, child <- v14, applied <- v15

threadsVars == <<pool, vars, taskVars>>

\* MCThreads and the proofs each have an instance of a component: they are the
\* same formulas.
LEMMA QueueSame ==
  /\ Safe!QueueInit <=> SP!QueueInit
  /\ Safe!QueueNext <=> SP!QueueNext
  /\ Safe!QueueNoLostWakeup <=> SP!QueueNoLostWakeup
  /\ Safe!FifoUpToOverflow <=> SP!FifoUpToOverflow
<1>1. Safe!QueueInit <=> SP!QueueInit
  BY DEF Safe!QueueInit, SP!QueueInit
<1>2. Safe!QueueNext <=> SP!QueueNext
  BY DEF Safe!QueueNext, SP!QueueNext, Safe!QueueRaise, SP!QueueRaise, Safe!QueueStop,
     SP!QueueStop, Safe!ConsumerStep, SP!ConsumerStep, Safe!PopEnter, SP!PopEnter,
     Safe!TimedPopEnter, SP!TimedPopEnter, Safe!PopResume, SP!PopResume,
     Safe!TimedPopResume, SP!TimedPopResume, Safe!TimedPopTimeout, SP!TimedPopTimeout,
     Safe!PopTake, SP!PopTake, Safe!Become, SP!Become, Safe!Woken, SP!Woken,
     Safe!ToSet, SP!ToSet
<1>3. Safe!QueueNoLostWakeup <=> SP!QueueNoLostWakeup
  BY DEF Safe!QueueNoLostWakeup, SP!QueueNoLostWakeup
<1>4. Safe!FifoUpToOverflow <=> SP!FifoUpToOverflow
  BY DEF Safe!FifoUpToOverflow, SP!FifoUpToOverflow, Safe!ToSet, SP!ToSet,
     Safe!Cardinality, SP!Cardinality
<1> QED
  BY <1>1, <1>2, <1>3, <1>4

LEMMA EventSame ==
  /\ Safe!EventInit <=> SP!EventInit
  /\ Safe!EventNext <=> SP!EventNext
  /\ Safe!EventNoLostWakeup <=> SP!EventNoLostWakeup
  /\ Safe!PoppedOnce <=> SP!PoppedOnce
<1>1. Safe!EventInit <=> SP!EventInit
  BY DEF Safe!EventInit, SP!EventInit, Safe!Out, SP!Out
<1>2. Safe!EventNext <=> SP!EventNext
  BY DEF Safe!EventNext, SP!EventNext, Safe!EventRaise, SP!EventRaise, Safe!EventStop,
     SP!EventStop, Safe!EventReset, SP!EventReset, Safe!Enter, SP!Enter, Safe!Resume,
     SP!Resume, Safe!Timeout, SP!Timeout, Safe!Deliver, SP!Deliver, Safe!Go, SP!Go,
     Safe!NotifyAll, SP!NotifyAll, Safe!Out, SP!Out
<1>3. Safe!EventNoLostWakeup <=> SP!EventNoLostWakeup
  BY DEF Safe!EventNoLostWakeup, SP!EventNoLostWakeup, Safe!Out, SP!Out
<1>4. Safe!PoppedOnce <=> SP!PoppedOnce
  BY DEF Safe!PoppedOnce, SP!PoppedOnce, Safe!ToSet, SP!ToSet
<1> QED
  BY <1>1, <1>2, <1>3, <1>4

LEMMA MailSame ==
  /\ Safe!MailInit <=> SP!MailInit
  /\ Safe!MailNext <=> SP!MailNext
  /\ Safe!OnePostPerName <=> SP!OnePostPerName
  /\ Safe!CleanupBalanced <=> SP!CleanupBalanced
<1>1. Safe!MailInit <=> SP!MailInit
  BY DEF Safe!MailInit, SP!MailInit, Safe!Name, SP!Name
<1>2. Safe!MailNext <=> SP!MailNext
  BY DEF Safe!MailNext, SP!MailNext, Safe!Find, SP!Find, Safe!Create, SP!Create,
     Safe!Release, SP!Release, Safe!Cleanup, SP!Cleanup, Safe!Expired, SP!Expired,
     Safe!Owned, SP!Owned, Safe!Posts, SP!Posts, Safe!Name, SP!Name
<1>3. Safe!OnePostPerName <=> SP!OnePostPerName
  BY DEF Safe!OnePostPerName, SP!OnePostPerName, Safe!Owned, SP!Owned
<1>4. Safe!CleanupBalanced <=> SP!CleanupBalanced
  BY DEF Safe!CleanupBalanced, SP!CleanupBalanced, Safe!Cardinality, SP!Cardinality,
     Safe!Expired, SP!Expired, Safe!Owned, SP!Owned, Safe!Name, SP!Name
<1> QED
  BY <1>1, <1>2, <1>3, <1>4

LEMMA PoolSame ==
  /\ Tasks!Init <=> SP!Init
  /\ Tasks!Next <=> SP!Next
  /\ Tasks!NoLostWakeup <=> SP!NoLostWakeup
  /\ Tasks!EarliestAtBack <=> SP!EarliestAtBack
<1>1. Tasks!Init <=> SP!Init
  BY DEF Tasks!Init, SP!Init
<1>2. Tasks!Next <=> SP!Next
  BY DEF Tasks!Next, SP!Next, Tasks!Push, SP!Push, Tasks!Cancel, SP!Cancel,
     Tasks!PushDelayed, SP!PushDelayed, Tasks!Delay, SP!Delay, Tasks!Stop, SP!Stop,
     Tasks!WorkerStep, SP!WorkerStep, Tasks!WorkerPop, SP!WorkerPop,
     Tasks!WorkerNothing, SP!WorkerNothing, Tasks!WorkerStops, SP!WorkerStops,
     Tasks!WorkerRun, SP!WorkerRun, Tasks!WorkerPark, SP!WorkerPark, Tasks!WaitExpires,
     SP!WaitExpires, Tasks!Tick, SP!Tick, Tasks!Fresh, SP!Fresh, Tasks!Queued,
     SP!Queued, Tasks!Notified, SP!Notified, Tasks!Pop, SP!Pop, Tasks!Ready, SP!Ready,
     Tasks!TimerReady, SP!TimerReady, Tasks!InsertTimer, SP!InsertTimer,
     Tasks!InsertAt, SP!InsertAt, Tasks!SelectInSeq, Tasks!Min, SP!Min, SP!SelectInSeq, Tasks!RemoveAt,
     SP!RemoveAt, Tasks!Last, SP!Last, Tasks!Front, SP!Front, Tasks!ToSet, SP!ToSet
<1>3. Tasks!NoLostWakeup <=> SP!NoLostWakeup
  BY DEF Tasks!NoLostWakeup, SP!NoLostWakeup, Tasks!Last, SP!Last
<1>4. Tasks!EarliestAtBack <=> SP!EarliestAtBack
  BY DEF Tasks!EarliestAtBack, SP!EarliestAtBack, Tasks!Last, SP!Last
<1> QED
  BY <1>1, <1>2, <1>3, <1>4

LEMMA ServiceSame ==
  /\ Tasks!Service!Init <=> SP!Service!Init
  /\ [Tasks!Service!Next]_(Tasks!Service!vars) <=> [SP!Service!Next]_(SP!Service!vars)
<1>1. Tasks!Queued = SP!Queued
  BY DEF Tasks!Queued, SP!Queued, Tasks!ToSet, SP!ToSet
<1>2. Tasks!Queued' = SP!Queued'
  BY DEF Tasks!Queued, SP!Queued, Tasks!ToSet, SP!ToSet
<1>3. Tasks!Service!Init <=> SP!Service!Init
  BY <1>1 DEF Tasks!Service!Init, SP!Service!Init
<1>4. [Tasks!Service!Next]_(Tasks!Service!vars) <=> [SP!Service!Next]_(SP!Service!vars)
  BY <1>1, <1>2 DEF Tasks!Service!Next, SP!Service!Next, Tasks!Service!vars, SP!Service!vars,
     Tasks!Service!Submit, SP!Service!Submit, Tasks!Service!Postpone, SP!Service!Postpone,
     Tasks!Service!Cancel, SP!Service!Cancel, Tasks!Service!Start, SP!Service!Start,
     Tasks!Service!Pass, SP!Service!Pass
<1> QED
  BY <1>3, <1>4

LEMMA AppSame ==
  /\ Saving!Init <=> AP!Init
  /\ Saving!Next <=> AP!Next
  /\ Saving!TypeOK <=> AP!TypeOK
  /\ Saving!RunningReturnsId <=> AP!RunningReturnsId
<1>1. Saving!Init <=> AP!Init
  BY DEF Saving!Init, AP!Init, Saving!NoApp, AP!NoApp, Saving!Thread, AP!Thread
<1>2. Saving!Next <=> AP!Next
  BY DEF Saving!Next, AP!Next, Saving!Step, AP!Step, Saving!Request, AP!Request,
     Saving!System, AP!System, Saving!Poll, AP!Poll, Saving!Launch, AP!Launch,
     Saving!Cancel, AP!Cancel, Saving!Close, AP!Close, Saving!Save, AP!Save,
     Saving!LeaderExits, AP!LeaderExits, Saving!KidsExit, AP!KidsExit,
     Saving!FiveSecondsPass, AP!FiveSecondsPass, Saving!ChildExits, AP!ChildExits,
     Saving!CheckAlive, AP!CheckAlive, Saving!CheckNone, AP!CheckNone, Saving!Detach,
     AP!Detach, Saving!CheckOver, AP!CheckOver, Saving!Terminate, AP!Terminate,
     Saving!KillGroup, AP!KillGroup, Saving!ResetHandles, AP!ResetHandles,
     Saving!UndoSpawn, AP!UndoSpawn, Saving!UndoSkip, AP!UndoSkip, Saving!UndoWaited,
     AP!UndoWaited, Saving!UndoNext, AP!UndoNext, Saving!TerminateEnd, AP!TerminateEnd,
     Saving!Load, AP!Load, Saving!PrepSpawn, AP!PrepSpawn, Saving!PrepSkip,
     AP!PrepSkip, Saving!PrepWaited, AP!PrepWaited, Saving!PrepDenied, AP!PrepDenied,
     Saving!PrepFails, AP!PrepFails, Saving!Start, AP!Start, Saving!StartFails,
     AP!StartFails, Saving!PrepPass, AP!PrepPass, Saving!Result, AP!Result,
     Saving!Reap, AP!Reap, Saving!Dead, AP!Dead, Saving!GroupRunning, AP!GroupRunning,
     Saving!Goto, AP!Goto, Saving!Thread, AP!Thread, Saving!NoApp, AP!NoApp,
     Saving!procVars, AP!procVars, Saving!osVars, AP!osVars, Saving!vars, AP!vars
<1>3. Saving!TypeOK <=> AP!TypeOK
  BY DEF Saving!TypeOK, AP!TypeOK, Saving!NoApp, AP!NoApp, Saving!Thread, AP!Thread,
     Saving!Place, AP!Place
<1>4. Saving!RunningReturnsId <=> AP!RunningReturnsId
  BY DEF Saving!RunningReturnsId, AP!RunningReturnsId, Saving!Quiet, AP!Quiet,
     Saving!Thread, AP!Thread
<1> QED
  BY <1>1, <1>2, <1>3, <1>4

(***************************************************************************)
(* What sessions hold on the host: keys and buttons, gamepads, the default *)
(* sink on Linux and the default device on Windows.                        *)
(***************************************************************************)

\* Nothing is down at first.
LEMMA KeysInit == Keys!Init => Keys!KeysInv
BY DEF Keys!Init, Keys!KeysInv, Keys!Repeats, Keys!DownIsTracked, Keys!LeftReleasePending

\* Every handler and timer keeps what is down tracked and one repeat at most.
LEMMA KeysStep == Keys!KeysInv /\ [Keys!Next]_(Keys!keyVars) => Keys!KeysInv'
<1> SUFFICES ASSUME Keys!KeysInv, [Keys!Next]_(Keys!keyVars) PROVE Keys!KeysInv'
  OBVIOUS
<1> USE DEF Keys!KeysInv, Keys!Repeats, Keys!DownIsTracked, Keys!LeftReleasePending, Keys!MapKeycode,
            Keys!KillsLeft
<1>1. ASSUME NEW k \in Key, NEW f \in Flag, Keys!KeyUp(k, f) PROVE Keys!KeysInv'
  BY <1>1 DEF Keys!KeyUp, Keys!Handled, Keys!Kpid, Keys!SendKey
<1>2. ASSUME NEW k \in Key, NEW f \in Flag, NEW w \in BOOLEAN, Keys!KeyDown(k, f, w) PROVE Keys!KeysInv'
  <2> DEFINE ts == Keys!Cancelled(v5, v4)
             syn == k # Modifier /\ ~v3 /\ w
             task == [kind |-> "repeat", kpid |-> <<k, f>>, syn |-> syn]
  <2>1. PICK a \in TimerAddr : ts[a] = None /\ v4' = a /\ v5' = [ts EXCEPT ![a] = task]
    BY <1>2 DEF Keys!KeyDown, Keys!Kpid, Keys!Free
  <2>2. /\ v1' = v1 \cup {<<k, f>>} /\ v2' \subseteq v2 \cup {k} /\ v9 # "off" /\ v9' = v9 /\ v10' = v10
        /\ v12' = (v12 \/ Keys!KillsLeft(v4)) /\ v6' = v6 /\ v7' = v7
    BY <1>2 DEF Keys!KeyDown, Keys!Kpid, Keys!SendKey, Keys!Handled
  <2>3. ts = [b \in TimerAddr |-> IF b = v4 THEN None ELSE v5[b]]
    BY DEF Keys!Cancelled
  <2>4. v5' = [b \in TimerAddr |-> IF b = a THEN task ELSE IF b = v4 THEN None ELSE v5[b]]
    BY <2>1, <2>3
  <2>5. Keys!Repeats' \subseteq {a}
    BY <2>4
  <2>6. Keys!DownIsTracked'
    <3> SUFFICES ASSUME NEW c \in v2' PROVE \E kp \in v1' : c = kp[1]
      OBVIOUS
    <3>1. CASE c \in v2
      BY <3>1, <2>2
    <3>2. CASE c = k
      <4>1. <<k, f>> \in v1' /\ <<k, f>>[1] = k
        BY <2>2
      <4> QED
        BY <4>1, <3>2
    <3> QED
      BY <3>1, <3>2, <2>2
  <2>7. Keys!LeftReleasePending'
    <3> SUFFICES ASSUME "left" \in v7, "left" \notin v6, ~v12, ~Keys!KillsLeft(v4)
                 PROVE  \E b \in TimerAddr : Keys!KillsLeft(b)'
      BY <2>2
    <3>1. PICK b \in TimerAddr : Keys!KillsLeft(b)
      OBVIOUS
    <3>2. b # v4 /\ b # a
      BY <3>1, <2>1, <2>3
    <3> QED
      BY <3>1, <3>2, <2>4
  <2> QED
    BY <2>1, <2>2, <2>4, <2>5, <2>6, <2>7
<1>3. ASSUME NEW a \in TimerAddr, Keys!RepeatKey(a) PROVE Keys!KeysInv'
  <2> DEFINE t == v5[a]
  <2>1. a = v4 /\ t # None /\ t.kind = "repeat" /\ UNCHANGED <<v1, v6, v7, v9, v10, v12>>
    BY <1>3 DEF Keys!RepeatKey
  <2>2. CASE t.kpid \notin v1
    <3>1. v5' = [v5 EXCEPT ![a] = None] /\ v2' = v2
      BY <1>3, <2>2 DEF Keys!RepeatKey
    <3> QED
      BY <3>1, <2>1
  <2>3. CASE t.kpid \in v1
    <3>1. v2' \subseteq v2 \cup {t.kpid[1]}
      BY <1>3, <2>3 DEF Keys!RepeatKey, Keys!SendKey, Keys!VkFromKpid
    <3>2. PICK b \in TimerAddr : /\ [v5 EXCEPT ![a] = None][b] = None /\ v4' = b
                                 /\ v5' = [[v5 EXCEPT ![a] = None] EXCEPT ![b] = t]
      BY <1>3, <2>3 DEF Keys!RepeatKey
    <3>3. v5' = [c \in TimerAddr |-> IF c = b THEN t ELSE IF c = a THEN None ELSE v5[c]]
      BY <3>2
    <3>4. Keys!Repeats' \subseteq {b}
      BY <3>3, <2>1
    <3>5. Keys!LeftReleasePending'
      <4> SUFFICES ASSUME "left" \in v7, "left" \notin v6, ~v12 PROVE \E c \in TimerAddr : Keys!KillsLeft(c)'
        BY <2>1
      <4>1. PICK c \in TimerAddr : Keys!KillsLeft(c)
        OBVIOUS
      <4>2. c # a /\ c # b
        BY <4>1, <2>1, <3>2
      <4> QED
        BY <4>1, <4>2, <3>3
    <3>6. Keys!DownIsTracked'
      BY <3>1, <2>1, <2>3
    <3> QED
      BY <2>1, <3>2, <3>3, <3>4, <3>5, <3>6
  <2> QED
    BY <2>2, <2>3
<1>4. ASSUME NEW abs \in BOOLEAN, Keys!MouseMove(abs) PROVE Keys!KeysInv'
  BY <1>4 DEF Keys!MouseMove, Keys!Handled
<1>5. ASSUME NEW b \in {"left", "right"}, Keys!ButtonDown(b) PROVE Keys!KeysInv'
  BY <1>5 DEF Keys!ButtonDown, Keys!Handled
<1>6. ASSUME NEW b \in {"left", "right"}, Keys!ButtonUp(b) PROVE Keys!KeysInv'
  <2>1. /\ UNCHANGED <<v1, v2, v4, v9, v10, v12>> /\ v6' = v6 \ {b}
        /\ b = "left" \/ UNCHANGED v5
    BY <1>6 DEF Keys!ButtonUp, Keys!Handled
  <2>2. CASE b = "left" /\ v8 = Keys!Null
    <3> DEFINE task == [kind |-> "left", session |-> v10]
    <3>1. PICK a \in TimerAddr : v5[a] = None /\ v5' = [v5 EXCEPT ![a] = task] /\ v7' = v7
      BY <1>6, <2>2 DEF Keys!ButtonUp, Keys!Free
    <3>2. task # None
      BY TimerAssumption
    <3>3. Keys!KillsLeft(a)' /\ Keys!Repeats' \subseteq Keys!Repeats
      BY <3>1, <3>2
    <3> QED
      BY <2>1, <3>1, <3>3
  <2>3. CASE ~(b = "left" /\ v8 = Keys!Null)
    <3>1. v7' = v7 \ {b} /\ v5' = v5
      BY <1>6, <2>3 DEF Keys!ButtonUp
    <3> QED
      BY <2>1, <3>1
  <2> QED
    BY <2>2, <2>3
<1>7. ASSUME NEW a \in TimerAddr, Keys!LeftTimer(a) PROVE Keys!KeysInv'
  <2>1. v5' = [v5 EXCEPT ![a] = None] /\ UNCHANGED <<v1, v2, v4, v6, v9, v10, v12>>
    BY <1>7 DEF Keys!LeftTimer
  <2>2. "left" \in v6 \/ "left" \notin v7'
    BY <1>7 DEF Keys!LeftTimer
  <2> QED
    BY <2>1, <2>2
<1>8. ASSUME Keys!ResetCancelRepeat \/ Keys!ResetCancelLeft PROVE Keys!KeysInv'
  <2>1. PICK id : /\ v5' = [a \in TimerAddr |-> IF a = id THEN None ELSE v5[a]]
                  /\ v12' = (v12 \/ Keys!KillsLeft(id))
    BY <1>8 DEF Keys!ResetCancelRepeat, Keys!ResetCancelLeft, Keys!Cancelled
  <2>2. UNCHANGED <<v1, v2, v4, v6, v7, v10>> /\ v9' # "off"
    BY <1>8 DEF Keys!ResetCancelRepeat, Keys!ResetCancelLeft
  <2>3. Keys!LeftReleasePending'
    BY <2>1, <2>2
  <2> QED
    BY <2>1, <2>2, <2>3
<1>9. ASSUME Keys!ResetTask PROVE Keys!KeysInv'
  BY <1>9 DEF Keys!ResetTask
<1>10. ASSUME Keys!Alloc PROVE Keys!KeysInv'
  BY <1>10 DEF Keys!Alloc
<1>11. CASE UNCHANGED Keys!keyVars
  BY <1>11 DEF Keys!keyVars
<1> QED
  BY <1>1, <1>2, <1>3, <1>4, <1>5, <1>6, <1>7, <1>8, <1>9, <1>10, <1>11
     DEF Keys!Next, Keys!Timer, Keys!Reset

\* What KeysInv means for keys and buttons.
LEMMA KeysHold ==
  Keys!KeysInv => Keys!DownIsTracked /\ Keys!OneRepeat /\ Keys!LeftReleasePending /\ Keys!NoKeyStuck
<1> SUFFICES ASSUME Keys!KeysInv PROVE Keys!OneRepeat /\ Keys!NoKeyStuck
  BY DEF Keys!KeysInv
<1>1. Keys!OneRepeat
  <2>1. IsFiniteSet({v4}) /\ Cardinality({v4}) = 1
    BY FS_Singleton
  <2>2. Cardinality(Keys!Repeats) <= Cardinality({v4}) /\ Cardinality(Keys!Repeats) \in Nat
    BY <2>1, FS_Subset, FS_CardinalityType DEF Keys!KeysInv
  <2> QED
    BY <2>1, <2>2 DEF Keys!OneRepeat, Keys!Cardinality, Cardinality
<1>2. Keys!NoKeyStuck
  BY DEF Keys!KeysInv, Keys!NoKeyStuck, Keys!DownIsTracked
<1> QED
  BY <1>1, <1>2

\* No controller has a gamepad at first.
LEMMA PadsInit == Pads!Init => Pads!PadsInv
BY DEF Pads!Init, Pads!PadsInv, Pads!OneOwner, Pads!NoIdLeaks, Pads!HomeOnlyWhileHeld, Pads!Held,
       Pads!IdOf, Pads!Pads, Pads!Free

\* A set of numbers has a least one.
LEMMA LeastNat ==
  ASSUME NEW S \in SUBSET Nat, S # {}
  PROVE  \E x \in S : \A y \in S : x <= y
<1>1. PICK x \in S : \A y \in S : ~(<<y, x>> \in OpToRel(<, Nat))
  BY NatLessThanWellFounded, WFMin
<1>2. \A y \in S : ~(y < x)
  BY <1>1 DEF OpToRel
<1> QED
  BY <1>2

\* A free id is one of the ids nobody has.
LEMMA FreeId == ASSUME Pads!Id \ v1 # {} PROVE Pads!AllocId \in Pads!Id \ v1
<1> DEFINE S == Pads!Id \ v1
<1>1. S \subseteq Nat
  BY DEF Pads!Id
<1> QED
  BY <1>1, LeastNat DEF Pads!AllocId, Pads!Min

\* A controller gets an id that is free.
LEMMA PadsAlloc ==
  ASSUME Pads!PadsInv, NEW p \in Pads!Pads, NEW ok \in BOOLEAN, Pads!IdOf(p) = Pads!Free,
         Pads!Alloc(p, ok), UNCHANGED v7
  PROVE  /\ v2' \in [Player -> [Controller -> Pads!Id \cup {Pads!Free}]]
         /\ Pads!OneOwner' /\ Pads!NoIdLeaks'
<1> DEFINE i == Pads!AllocId
<1>1. i \in Pads!Id \ v1 /\ Pads!Free \notin Pads!Id
  BY FreeId DEF Pads!Alloc, Pads!Free, Pads!Id
<1>2. CASE ~ok
  <2>1. UNCHANGED <<v1, v2, v6, v7>>
    BY <1>2 DEF Pads!Alloc
  <2> QED
    BY <2>1 DEF Pads!PadsInv, Pads!OneOwner, Pads!NoIdLeaks, Pads!Held, Pads!IdOf
<1>3. CASE ok
  <2>1. v1' = v1 \cup {i} /\ v6' = v6 \cup {i} /\ v2' = [v2 EXCEPT ![p[1]][p[2]] = i]
    BY <1>3 DEF Pads!Alloc, Pads!SetId
  <2>2. p[1] \in Player /\ p[2] \in Controller /\ p = <<p[1], p[2]>>
    BY DEF Pads!Pads
  <2>3. v2' \in [Player -> [Controller -> Pads!Id \cup {Pads!Free}]]
    BY <2>1, <2>2, <1>1 DEF Pads!PadsInv
  <2>4. \A q \in Pads!Pads : Pads!IdOf(q)' = IF q = p THEN i ELSE Pads!IdOf(q)
    BY <2>1, <2>2 DEF Pads!PadsInv, Pads!Pads, Pads!IdOf
  <2>5. Pads!Held' = Pads!Held \cup {p}
    BY <2>4, <1>1 DEF Pads!Held
  <2>6. \A q \in Pads!Held : Pads!IdOf(q) # i
    BY <1>1 DEF Pads!PadsInv, Pads!NoIdLeaks
  <2>7. Pads!OneOwner'
    BY <2>4, <2>5, <2>6, <1>1 DEF Pads!PadsInv, Pads!OneOwner, Pads!NoIdLeaks, Pads!Held
  <2>8. Pads!NoIdLeaks'
    <3>1. {Pads!IdOf(q)' : q \in Pads!Held'} = {Pads!IdOf(q) : q \in Pads!Held} \cup {i}
      BY <2>4, <2>5 DEF Pads!Held
    <3> QED
      BY <3>1, <2>1 DEF Pads!PadsInv, Pads!NoIdLeaks
  <2> QED
    BY <2>3, <2>7, <2>8
<1> QED
  BY <1>2, <1>3

\* Ids go from the mask to one controller, to the free task, and back.
LEMMA PadsStep == Pads!PadsInv /\ [Pads!Next]_(Pads!padVars) => Pads!PadsInv'
<1> SUFFICES ASSUME Pads!PadsInv, [Pads!Next]_(Pads!padVars) PROVE Pads!PadsInv'
  OBVIOUS
<1> DEFINE Timers == \A p \in v5 : p \in Pads!Pads /\ p[1] \in v8
<1>0. Pads!Free \notin Pads!Id
  BY DEF Pads!Free, Pads!Id
<1>1. ASSUME NEW p \in Pads!Pads, NEW ok \in BOOLEAN, Pads!Arrival(p, ok) PROVE Pads!PadsInv'
  <2>1. Pads!IdOf(p) = Pads!Free /\ Pads!Alloc(p, ok) /\ UNCHANGED <<v3, v4, v5, v7, v8>>
    BY <1>1 DEF Pads!Arrival
  <2> QED
    BY <2>1, PadsAlloc DEF Pads!PadsInv, Pads!HomeOnlyWhileHeld, Pads!Pads
<1>2. ASSUME NEW p \in Pads!Pads, NEW wants \in BOOLEAN, Pads!Buttons(p, wants) PROVE Pads!PadsInv'
  <2>1. UNCHANGED <<v7, v8>> /\ p[1] \in v8
    BY <1>2 DEF Pads!Buttons
  <2>2. /\ v2' \in [Player -> [Controller -> Pads!Id \cup {Pads!Free}]]
        /\ Pads!OneOwner' /\ Pads!NoIdLeaks'
    <3>1. CASE Pads!IdOf(p) = Pads!Free
      <4>1. Pads!Alloc(p, TRUE)
        BY <1>2, <3>1 DEF Pads!Buttons
      <4> QED
        BY <4>1, <3>1, <2>1, PadsAlloc
    <3>2. CASE Pads!IdOf(p) # Pads!Free
      <4>1. UNCHANGED <<v1, v2, v6, v7>>
        BY <1>2, <3>2 DEF Pads!Buttons
      <4> QED
        BY <4>1 DEF Pads!PadsInv, Pads!OneOwner, Pads!NoIdLeaks, Pads!Held, Pads!IdOf
    <3> QED
      BY <3>1, <3>2
  <2>3. Pads!HomeOnlyWhileHeld'
    BY <1>2 DEF Pads!Buttons, Pads!PadsInv, Pads!HomeOnlyWhileHeld
  <2>4. v5' \subseteq v5 \cup {p}
    BY <1>2 DEF Pads!Buttons
  <2>5. Timers'
    BY <2>1, <2>4 DEF Pads!PadsInv, Pads!Pads
  <2> QED
    BY <2>1, <2>2, <2>3, <2>5 DEF Pads!PadsInv
<1>3. ASSUME NEW p \in Pads!Pads, Pads!Removal(p) PROVE Pads!PadsInv'
  <2> DEFINE i == Pads!IdOf(p)
  <2>1. /\ i # Pads!Free /\ v1' = v1 \ {i} /\ v6' = v6 \ {i}
        /\ v2' = [v2 EXCEPT ![p[1]][p[2]] = Pads!Free] /\ UNCHANGED <<v3, v4, v5, v7, v8>>
    BY <1>3 DEF Pads!Removal, Pads!SetId
  <2>2. p[1] \in Player /\ p[2] \in Controller /\ p = <<p[1], p[2]>>
    BY DEF Pads!Pads
  <2>3. v2' \in [Player -> [Controller -> Pads!Id \cup {Pads!Free}]]
    BY <2>1, <2>2 DEF Pads!PadsInv
  <2>4. \A q \in Pads!Pads : Pads!IdOf(q)' = IF q = p THEN Pads!Free ELSE Pads!IdOf(q)
    BY <2>1, <2>2 DEF Pads!PadsInv, Pads!Pads, Pads!IdOf
  <2>5. Pads!Held' = Pads!Held \ {p} /\ p \in Pads!Held
    BY <2>4, <2>1 DEF Pads!Held
  <2>6. Pads!OneOwner'
    BY <2>1, <2>4, <2>5 DEF Pads!PadsInv, Pads!OneOwner, Pads!Held
  <2>7. \A q \in Pads!Held' : Pads!IdOf(q) # i
    BY <2>5 DEF Pads!PadsInv, Pads!OneOwner
  <2>8. Pads!NoIdLeaks'
    <3>1. {Pads!IdOf(q)' : q \in Pads!Held'} = {Pads!IdOf(q) : q \in Pads!Held} \ {i}
      BY <2>4, <2>5, <2>7 DEF Pads!Held
    <3>2. i \notin v7
      BY <2>5 DEF Pads!PadsInv, Pads!OneOwner
    <3> QED
      BY <3>1, <3>2, <2>1 DEF Pads!PadsInv, Pads!NoIdLeaks
  <2> QED
    BY <2>1, <2>3, <2>6, <2>8 DEF Pads!PadsInv, Pads!HomeOnlyWhileHeld, Pads!Pads
<1>4. ASSUME NEW p \in Pads!Pads, Pads!BackTimer(p) PROVE Pads!PadsInv'
  BY <1>4 DEF Pads!BackTimer, Pads!PadsInv, Pads!OneOwner, Pads!NoIdLeaks, Pads!HomeOnlyWhileHeld,
     Pads!Held, Pads!IdOf, Pads!Pads
<1>5. ASSUME NEW s \in Player, Pads!Destroy(s) PROVE Pads!PadsInv'
  <2>1. /\ v8' = v8 \ {s} /\ (\A c \in Controller : <<s, c>> \notin v5) /\ UNCHANGED <<v1, v3, v4, v5, v6>>
        /\ v7' = v7 \cup ({v2[s][c] : c \in Controller} \ {Pads!Free})
        /\ v2' = [v2 EXCEPT ![s] = [c \in Controller |-> Pads!Free]]
    BY <1>5 DEF Pads!Destroy
  <2>2. v2' \in [Player -> [Controller -> Pads!Id \cup {Pads!Free}]] /\ v7' \subseteq Pads!Id
    BY <2>1 DEF Pads!PadsInv
  <2>3. Timers'
    BY <2>1 DEF Pads!PadsInv, Pads!Pads
  <2>4. \A q \in Pads!Pads : Pads!IdOf(q)' = IF q[1] = s THEN Pads!Free ELSE Pads!IdOf(q)
    BY <2>1 DEF Pads!PadsInv, Pads!Pads, Pads!IdOf
  <2>5. Pads!Held' = {q \in Pads!Held : q[1] # s}
    BY <2>4 DEF Pads!Held
  <2>6. {v2[s][c] : c \in Controller} \ {Pads!Free} = {Pads!IdOf(q) : q \in Pads!Held \ Pads!Held'}
    <3>0. Pads!Held \ Pads!Held' = {q \in Pads!Held : q[1] = s}
      BY <2>5
    <3>1. \A c \in Controller : /\ <<s, c>> \in Pads!Pads /\ Pads!IdOf(<<s, c>>) = v2[s][c]
                               /\ <<s, c>>[1] = s
      BY DEF Pads!Pads, Pads!IdOf
    <3>2. \A q \in Pads!Pads : q[1] = s => q[2] \in Controller /\ Pads!IdOf(q) = v2[s][q[2]]
      BY DEF Pads!Pads, Pads!IdOf
    <3>3. ASSUME NEW i, i \in {v2[s][c] : c \in Controller} \ {Pads!Free}
          PROVE  i \in {Pads!IdOf(q) : q \in {r \in Pads!Held : r[1] = s}}
      BY <3>1, <3>3 DEF Pads!Held
    <3>4. ASSUME NEW q \in Pads!Held, q[1] = s
          PROVE  Pads!IdOf(q) \in {v2[s][c] : c \in Controller} \ {Pads!Free}
      BY <3>2, <3>4 DEF Pads!Held
    <3> QED
      BY <3>0, <3>3, <3>4
  <2>7. Pads!OneOwner'
    BY <2>1, <2>4, <2>5, <2>6 DEF Pads!PadsInv, Pads!OneOwner, Pads!Held
  <2>8. Pads!NoIdLeaks'
    <3>1. {Pads!IdOf(q)' : q \in Pads!Held'} = {Pads!IdOf(q) : q \in Pads!Held'}
      BY <2>4, <2>5 DEF Pads!Held
    <3> QED
      BY <3>1, <2>1, <2>5, <2>6 DEF Pads!PadsInv, Pads!NoIdLeaks
  <2> QED
    BY <2>1, <2>2, <2>3, <2>7, <2>8 DEF Pads!PadsInv, Pads!HomeOnlyWhileHeld
<1>6. ASSUME NEW s \in Player, Pads!Connect(s) PROVE Pads!PadsInv'
  <2>1. /\ s \notin v8 /\ v8' = v8 \cup {s} /\ UNCHANGED <<v1, v2, v5, v6, v7>>
        /\ v3' = {p \in v3 : p[1] # s} /\ v4' \subseteq v4
    BY <1>6 DEF Pads!Connect
  <2>2. Pads!HomeOnlyWhileHeld'
    BY <2>1 DEF Pads!PadsInv, Pads!HomeOnlyWhileHeld
  <2> QED
    BY <2>1, <2>2 DEF Pads!PadsInv, Pads!OneOwner, Pads!NoIdLeaks, Pads!Held, Pads!IdOf, Pads!Pads
<1>7. ASSUME NEW i \in Pads!Id, Pads!FreeTask(i) PROVE Pads!PadsInv'
  <2>1. /\ i \in v7 /\ v7' = v7 \ {i} /\ v1' = v1 \ {i} /\ v6' = v6 \ {i}
        /\ UNCHANGED <<v2, v3, v4, v5, v8>>
    BY <1>7 DEF Pads!FreeTask
  <2>2. Pads!Held' = Pads!Held /\ \A p \in Pads!Held : Pads!IdOf(p)' = Pads!IdOf(p) /\ Pads!IdOf(p) # i
    BY <2>1 DEF Pads!PadsInv, Pads!OneOwner, Pads!Held, Pads!IdOf
  <2>3. Pads!NoIdLeaks'
    BY <2>1, <2>2 DEF Pads!PadsInv, Pads!NoIdLeaks
  <2> QED
    BY <2>1, <2>2, <2>3 DEF Pads!PadsInv, Pads!OneOwner, Pads!HomeOnlyWhileHeld, Pads!Pads
<1>8. CASE UNCHANGED Pads!padVars
  BY <1>8 DEF Pads!padVars, Pads!PadsInv, Pads!OneOwner, Pads!NoIdLeaks, Pads!HomeOnlyWhileHeld,
     Pads!Held, Pads!IdOf, Pads!Pads
<1> QED
  BY <1>1, <1>2, <1>3, <1>4, <1>5, <1>6, <1>7, <1>8 DEF Pads!Next

\* The user's sink is the default at first.
LEMMA SinkStarts == Audio!Init => Audio!SinkInv
BY DEF Audio!Init, Audio!SinkInv, Audio!Holders

\* Whoever switches the sink leaves the mark to switch it back.
LEMMA SinkStep == Audio!SinkInv /\ [Audio!Next]_(Audio!captureVars) => Audio!SinkInv'
<1> SUFFICES ASSUME Audio!SinkInv, [Audio!Next]_(Audio!captureVars) PROVE Audio!SinkInv'
  OBVIOUS
<1> USE DEF Audio!SinkInv, Audio!Holders, Audio!Goto, Audio!ctlVars, Audio!othVars
<1>1. ASSUME NEW s \in Viewer, NEW h \in BOOLEAN, NEW u \in BOOLEAN, NEW n \in BOOLEAN,
             Audio!Ref(s, h, u, n)
      PROVE  Audio!SinkInv'
  BY <1>1 DEF Audio!Ref, Audio!Connected, Audio!SinkInfo
<1>2. ASSUME NEW s \in Viewer, Audio!TakeFlag(s) PROVE Audio!SinkInv'
  BY <1>2 DEF Audio!TakeFlag
<1>3. ASSUME NEW s \in Viewer, Audio!NoControl(s) \/ Audio!LoopEnds(s) PROVE Audio!SinkInv'
  BY <1>3 DEF Audio!NoControl, Audio!LoopEnds
<1>4. ASSUME NEW s \in Viewer, NEW ok \in BOOLEAN,
             Audio!SetSink(s, ok) \/ Audio!Microphone(s, ok) \/ Audio!Reopen(s, ok)
      PROVE  Audio!SinkInv'
  BY <1>4 DEF Audio!SetSink, Audio!Microphone, Audio!Reopen
<1>5. ASSUME NEW s \in Viewer, NEW ok \in BOOLEAN, Audio!Leave(s, ok) PROVE Audio!SinkInv'
  BY <1>5 DEF Audio!Leave, Audio!DefaultSink
<1>6. ASSUME NEW s \in Viewer, NEW st \in {"reinit", "error"}, Audio!Sampled(s, st) PROVE Audio!SinkInv'
  BY <1>6 DEF Audio!Sampled
<1>7. ASSUME NEW s \in Viewer, Audio!EncodeFails(s) \/ Audio!StopSession(s) PROVE Audio!SinkInv'
  BY <1>7 DEF Audio!EncodeFails, Audio!StopSession
<1>8. CASE UNCHANGED Audio!captureVars
  BY <1>8 DEF Audio!captureVars
<1> QED
  BY <1>1, <1>2, <1>3, <1>4, <1>5, <1>6, <1>7, <1>8 DEF Audio!Next, Audio!Step

\* What SinkInv means for the user.
LEMMA SinkHolds == Audio!SinkInv => Audio!SinkRestored
BY DEF Audio!SinkInv, Audio!SinkRestored

\* At first one of the user's devices is the default.
LEMMA AudibleInit == Sound!SinkInit => Sound!AudibleInv
BY SpeakerAssumption DEF Sound!SinkInit, Sound!AudibleInv, Sound!Steam

\* The reset at start and the end of a session go back to such a device.
LEMMA AudibleStep == Sound!AudibleInv /\ [Sound!SinkNext]_(Sound!sinkVars) => Sound!AudibleInv'
<1> SUFFICES ASSUME Sound!AudibleInv, [Sound!SinkNext]_(Sound!sinkVars) PROVE Sound!AudibleInv'
  OBVIOUS
<1> USE SpeakerAssumption DEF Sound!AudibleInv, Sound!Steam, Sound!Mic, Sound!Bounds, Sound!Picks
<1>1. CASE Sound!Start
  BY <1>1 DEF Sound!Start
<1>2. CASE Sound!ResetHide
  BY <1>2 DEF Sound!ResetHide
<1>3. CASE Sound!ResetShow
  BY <1>3 DEF Sound!ResetShow
<1>4. CASE Sound!ResetSet
  BY <1>4 DEF Sound!ResetSet
<1>5. CASE Sound!SessionStart
  BY <1>5 DEF Sound!SessionStart, Sound!SetSink
<1>6. CASE Sound!Deliver \/ Sound!Reopen
  BY <1>6 DEF Sound!Deliver, Sound!Reopen
<1>7. CASE Sound!Noticed
  BY <1>7 DEF Sound!Noticed, Sound!SetSink
<1>8. CASE Sound!SessionEnd
  BY <1>8 DEF Sound!SessionEnd
<1>9. CASE Sound!Crash
  BY <1>9 DEF Sound!Crash
<1>10. ASSUME NEW d \in OutDevice, Sound!UserChooses(d) PROVE Sound!AudibleInv'
  BY <1>10 DEF Sound!UserChooses
<1>11. ASSUME NEW d \in OutDevice, Sound!Unplug(d) PROVE Sound!AudibleInv'
  BY <1>11 DEF Sound!Unplug
<1>12. CASE UNCHANGED Sound!sinkVars
  BY <1>12 DEF Sound!sinkVars
<1> QED
  BY <1>1, <1>2, <1>3, <1>4, <1>5, <1>6, <1>7, <1>8, <1>9, <1>10, <1>11, <1>12 DEF Sound!SinkNext

\* What AudibleInv means for the user.
LEMMA AudibleHolds == Sound!AudibleInv => Sound!IdleIsAudible
BY DEF Sound!AudibleInv, Sound!IdleIsAudible

(***************************************************************************)
(* Capture: the thread that encodes for all sessions, parallel capturing,  *)
(* the refresh task of X11, the marks of the PipeWire stream.              *)
(***************************************************************************)

\* At first there is neither thread nor context.
LEMMA SyncInit == Sync!Init => Sync!SyncInv
BY SyncAssumption DEF Sync!Init, Sync!SyncInv, Sync!NoDanglingJoin, Sync!WaitersAreKnown

\* A context is handed from the caller to the queue, to the thread, and answered.
LEMMA SyncStep == Sync!SyncInv /\ [Sync!Next]_(Sync!syncVars) => Sync!SyncInv'
<1> SUFFICES ASSUME Sync!SyncInv, [Sync!Next]_(Sync!syncVars) PROVE Sync!SyncInv'
  OBVIOUS
<1> USE SyncAssumption DEF Sync!SyncInv, Sync!NoDanglingJoin, Sync!WaitersAreKnown
<1>1. ASSUME NEW s \in SyncViewer, Sync!TakeRef(s) PROVE Sync!SyncInv'
  BY <1>1 DEF Sync!TakeRef
<1>2. ASSUME NEW s \in SyncViewer, Sync!RaiseContext(s) PROVE Sync!SyncInv'
  BY <1>2 DEF Sync!RaiseContext
<1>3. ASSUME NEW s \in SyncViewer, Sync!Return(s) PROVE Sync!SyncInv'
  BY <1>3 DEF Sync!Return
<1>4. ASSUME NEW s \in SyncViewer, Sync!Shutdown(s) PROVE Sync!SyncInv'
  BY <1>4 DEF Sync!Shutdown
<1>5. CASE Sync!ThreadRef
  BY <1>5 DEF Sync!ThreadRef
<1>6. CASE Sync!PopFirst
  BY <1>6 DEF Sync!PopFirst
<1>7. CASE Sync!Open
  BY <1>7 DEF Sync!Open
<1>8. CASE Sync!CapturedRefused
  BY <1>8 DEF Sync!CapturedRefused
<1>9. CASE Sync!FailGuard
  BY <1>9 DEF Sync!FailGuard
<1>10. CASE Sync!ThreadUnref
  BY <1>10 DEF Sync!ThreadUnref
<1>11. ASSUME NEW broken \in SUBSET SyncViewer, NEW next \in {"run", "pop", "fail"},
              Sync!Captured(broken, next)
       PROVE  Sync!SyncInv'
  BY <1>11 DEF Sync!Captured
<1>12. CASE UNCHANGED Sync!syncVars
  BY <1>12 DEF Sync!syncVars
<1> QED
  BY <1>1, <1>2, <1>3, <1>4, <1>5, <1>6, <1>7, <1>8, <1>9, <1>10, <1>11, <1>12
     DEF Sync!Next, Sync!ThreadStep

\* At first nobody captures.
LEMMA VideoStarts == Video!Init => Video!QueueInv /\ Video!DisplayInv
BY DEF Video!Init, Video!QueueInv, Video!DisplayInv, Video!EndedReachesAll, Video!OldDisplayOnlyByRace

\* Contexts are put in while the queue runs, and whoever is in is told of its end.
LEMMA VideoQueueStep == Video!QueueInv /\ [Video!Next]_(Video!videoVars) => Video!QueueInv'
<1> SUFFICES ASSUME Video!QueueInv, [Video!Next]_(Video!videoVars) PROVE Video!QueueInv'
  OBVIOUS
<1> USE DEF Video!QueueInv, Video!EndedReachesAll, Video!Joining, Video!At, Video!captureVars, Video!encodeVars
<1>1. ASSUME NEW s \in Viewer, Video!TakeRef(s) PROVE Video!QueueInv'
  BY <1>1 DEF Video!TakeRef
<1>2. ASSUME NEW s \in Viewer, Video!RaiseContext(s) PROVE Video!QueueInv'
  BY <1>2 DEF Video!RaiseContext
<1>3. ASSUME NEW s \in Viewer, Video!CheckRunning(s) PROVE Video!QueueInv'
  BY <1>3 DEF Video!CheckRunning
<1>4. ASSUME NEW s \in Viewer, Video!LoopHead(s) PROVE Video!QueueInv'
  BY <1>4 DEF Video!LoopHead
<1>5. ASSUME NEW s \in Viewer, Video!LockDisplay(s) PROVE Video!QueueInv'
  BY <1>5 DEF Video!LockDisplay
<1>6. ASSUME NEW s \in Viewer, Video!EncodeFails(s) PROVE Video!QueueInv'
  BY <1>6 DEF Video!EncodeFails
<1>7. ASSUME NEW s \in Viewer, Video!EncodeRun(s) PROVE Video!QueueInv'
  BY <1>7 DEF Video!EncodeRun
<1>8. ASSUME NEW s \in Viewer, Video!DropRef(s) PROVE Video!QueueInv'
  BY <1>8 DEF Video!DropRef
<1>9. ASSUME NEW s \in Viewer, Video!JoinCapture(s) PROVE Video!QueueInv'
  BY <1>9 DEF Video!JoinCapture
<1>10. ASSUME NEW s \in Viewer, Video!LeaveGuard(s) PROVE Video!QueueInv'
  BY <1>10 DEF Video!LeaveGuard
<1>11. ASSUME NEW s \in Viewer, Video!Shutdown(s) PROVE Video!QueueInv'
  BY <1>11 DEF Video!Shutdown
<1>12. CASE Video!PopInitial
  BY <1>12 DEF Video!PopInitial
<1>13. CASE Video!OpenDisplay
  BY <1>13 DEF Video!OpenDisplay
<1>14. ASSUME NEW f \in BOOLEAN, Video!Captured(f) PROVE Video!QueueInv'
  BY <1>14 DEF Video!Captured
<1>15. CASE Video!DrainUsers
  BY <1>15 DEF Video!DrainUsers
<1>16. CASE Video!ResetDisplay
  BY <1>16 DEF Video!ResetDisplay
<1>17. CASE Video!StopQueue
  BY <1>17 DEF Video!StopQueue
<1>18. CASE Video!StopSessions
  BY <1>18 DEF Video!StopSessions
<1>19. CASE UNCHANGED Video!videoVars
  BY <1>19 DEF Video!videoVars
<1> QED
  BY <1>1, <1>2, <1>3, <1>4, <1>5, <1>6, <1>7, <1>8, <1>9, <1>10, <1>11, <1>12, <1>13, <1>14,
     <1>15, <1>16, <1>17, <1>18, <1>19 DEF Video!Next, Video!EncodeStep, Video!CaptureStep

\* A display is replaced once nobody but the raced uses it.
LEMMA VideoDisplayStep ==
  Video!QueueInv /\ Video!DisplayInv /\ [Video!Next]_(Video!videoVars) => Video!DisplayInv'
<1> SUFFICES ASSUME Video!QueueInv, Video!DisplayInv, [Video!Next]_(Video!videoVars)
             PROVE  Video!DisplayInv'
  OBVIOUS
<1> USE DEF Video!DisplayInv, Video!OldDisplayOnlyByRace, Video!At, Video!captureVars, Video!encodeVars
<1>1. ASSUME NEW s \in Viewer, Video!TakeRef(s) PROVE Video!DisplayInv'
  <2>1. CASE v14 # {}
    BY <1>1, <2>1 DEF Video!TakeRef, Video!QueueInv
  <2>2. CASE v14 = {}
    <3>1. v1 = "none" /\ v1' = "wait"
      BY <1>1, <2>2 DEF Video!TakeRef, Video!QueueInv
    <3>2. \A t \in Viewer : v12[t] = 0
      BY <2>2 DEF Video!QueueInv
    <3> QED
      BY <1>1, <3>1, <3>2 DEF Video!TakeRef
  <2> QED
    BY <2>1, <2>2
<1>2. ASSUME NEW s \in Viewer, Video!RaiseContext(s) PROVE Video!DisplayInv'
  BY <1>2 DEF Video!RaiseContext, Video!QueueInv
<1>3. ASSUME NEW s \in Viewer, Video!CheckRunning(s) PROVE Video!DisplayInv'
  BY <1>3 DEF Video!CheckRunning, Video!QueueInv
<1>4. ASSUME NEW s \in Viewer, Video!LoopHead(s) PROVE Video!DisplayInv'
  BY <1>4 DEF Video!LoopHead, Video!QueueInv
<1>5. ASSUME NEW s \in Viewer, Video!LockDisplay(s) PROVE Video!DisplayInv'
  BY <1>5 DEF Video!LockDisplay, Video!Expired, Video!QueueInv
<1>6. ASSUME NEW s \in Viewer, Video!EncodeFails(s) PROVE Video!DisplayInv'
  BY <1>6 DEF Video!EncodeFails, Video!QueueInv
<1>7. ASSUME NEW s \in Viewer, Video!EncodeRun(s) PROVE Video!DisplayInv'
  BY <1>7 DEF Video!EncodeRun, Video!QueueInv
<1>8. ASSUME NEW s \in Viewer, Video!DropRef(s) PROVE Video!DisplayInv'
  BY <1>8 DEF Video!DropRef, Video!QueueInv
<1>9. ASSUME NEW s \in Viewer, Video!JoinCapture(s) PROVE Video!DisplayInv'
  BY <1>9 DEF Video!JoinCapture, Video!QueueInv
<1>10. ASSUME NEW s \in Viewer, Video!LeaveGuard(s) PROVE Video!DisplayInv'
  BY <1>10 DEF Video!LeaveGuard, Video!QueueInv
<1>11. ASSUME NEW s \in Viewer, Video!Shutdown(s) PROVE Video!DisplayInv'
  BY <1>11 DEF Video!Shutdown
<1>12. CASE Video!PopInitial
  BY <1>12 DEF Video!PopInitial
<1>13. CASE Video!OpenDisplay
  BY <1>13 DEF Video!OpenDisplay, Video!NewDisplay
<1>14. ASSUME NEW f \in BOOLEAN, Video!Captured(f) PROVE Video!DisplayInv'
  BY <1>14 DEF Video!Captured
<1>15. CASE Video!DrainUsers
  BY <1>15 DEF Video!DrainUsers, Video!Users
<1>16. CASE Video!ResetDisplay
  <2>1. /\ v1 = "reset" /\ UNCHANGED <<v11, v12, v16>>
        /\ \A s \in Viewer : v12[s] # 0 => s \in v16
    BY <1>16 DEF Video!ResetDisplay
  <2>2. \/ v1' = "reset" /\ v6' = v6 /\ v8'
        \/ v1' = "capture" /\ v5' = v6 + 1 /\ v6' = v6 + 1
        \/ v1' = "capture" /\ v5' # 0 /\ v6' = v6
        \/ v1' = "fail" /\ v6' = v6
    BY <1>16 DEF Video!ResetDisplay, Video!NewDisplay
  <2>3. v6' \in Nat /\ v6 + 1 # 0
    BY <2>2
  <2> QED
    BY <2>1, <2>2, <2>3
<1>17. CASE Video!StopQueue
  BY <1>17 DEF Video!StopQueue
<1>18. CASE Video!StopSessions
  BY <1>18 DEF Video!StopSessions
<1>19. CASE UNCHANGED Video!videoVars
  BY <1>19 DEF Video!videoVars
<1> QED
  BY <1>1, <1>2, <1>3, <1>4, <1>5, <1>6, <1>7, <1>8, <1>9, <1>10, <1>11, <1>12, <1>13, <1>14,
     <1>15, <1>16, <1>17, <1>18, <1>19 DEF Video!Next, Video!EncodeStep, Video!CaptureStep

\* At first there is no display and no task.
LEMMA RefreshInit == X11!Init => X11!RefreshInv
<1> SUFFICES ASSUME X11!Init PROVE X11!RefreshInv
  OBVIOUS
<1>1. v1 \in Screen
  BY LeastNat, ScreenAssumption DEF X11!Init
<1> QED
  BY <1>1 DEF X11!Init, X11!RefreshInv, X11!NoUseAfterFree

\* The refresh task hands its place to the next one before the id is stored.
LEMMA RefreshStep == X11!RefreshInv /\ [X11!Next]_(X11!x11Vars) => X11!RefreshInv'
<1> SUFFICES ASSUME X11!RefreshInv, [X11!Next]_(X11!x11Vars) PROVE X11!RefreshInv'
  OBVIOUS
<1> USE DEF X11!RefreshInv, X11!NoUseAfterFree, X11!PoolVars
<1>1. CASE X11!SnapshotPlain
  BY <1>1 DEF X11!SnapshotPlain
<1>2. CASE X11!SnapshotShm
  BY <1>2 DEF X11!SnapshotShm
<1>3. CASE X11!Drop
  BY <1>3 DEF X11!Drop
<1>4. CASE X11!Destroy
  BY <1>4 DEF X11!Destroy
<1>5. CASE X11!TaskPop
  BY <1>5 DEF X11!TaskPop
<1>6. CASE X11!TaskRefresh
  BY <1>6 DEF X11!TaskRefresh, X11!Touch
<1>7. CASE X11!TaskPush
  BY <1>7 DEF X11!TaskPush
<1>8. CASE X11!TaskStore
  <2>1. v10 # "freed" /\ v6 \in 1..2 /\ v8 = 3 - v6 /\ v5 = {v8} /\ (v10 # "none" /\ v4)
    BY <1>8 DEF X11!TaskStore
  <2>2. v6' = v8 /\ v7' = "none" /\ ~v12' /\ UNCHANGED <<v1, v3, v4, v5, v10>>
    BY <1>8, <2>1 DEF X11!TaskStore, X11!Touch
  <2> QED
    BY <2>1, <2>2
<1>9. ASSUME NEW d \in Screen, X11!Resize(d) PROVE X11!RefreshInv'
  BY <1>9 DEF X11!Resize
<1>10. ASSUME NEW b \in BOOLEAN, X11!Create(b) PROVE X11!RefreshInv'
  BY <1>10 DEF X11!Create
<1>11. CASE UNCHANGED X11!x11Vars
  BY <1>11 DEF X11!x11Vars
<1> QED
  BY <1>1, <1>2, <1>3, <1>4, <1>5, <1>6, <1>7, <1>8, <1>9, <1>10, <1>11 DEF X11!Next

\* What RefreshInv means for memory, and where a cursor is drawn.
LEMMA RefreshHolds == X11!RefreshInv => X11!NoUseAfterFree /\ X11!CursorStaysInside
<1> SUFFICES ASSUME X11!RefreshInv, NEW x \in Pointer PROVE X11!BlendSpan(x, v3) \subseteq 0..(v3 - 1)
  BY DEF X11!RefreshInv, X11!CursorStaysInside
<1>1. v3 \in Nat /\ x \in Int /\ CursorSize \in Nat
  BY ScreenAssumption DEF X11!RefreshInv
<1> QED
  BY <1>1 DEF X11!BlendSpan

\* At first nothing runs.
LEMMA MarkInit == Stream!StreamInit => Stream!MarkInv
BY DEF Stream!StreamInit, Stream!MarkInv, Stream!FreshNotStopped

\* Only what runs is marked to stop, and what ends clears the mark.
LEMMA MarkStep == Stream!MarkInv /\ [Stream!StreamNext]_(Stream!streamVars) => Stream!MarkInv'
<1> SUFFICES ASSUME Stream!MarkInv, [Stream!StreamNext]_(Stream!streamVars) PROVE Stream!MarkInv'
  OBVIOUS
<1> USE DEF Stream!MarkInv, Stream!FreshNotStopped, Stream!PipeWire, Stream!ClearFlags, Stream!End
<1>1. CASE Stream!LoopTop
  BY <1>1 DEF Stream!LoopTop
<1>2. CASE Stream!WaitForFrame \/ Stream!SnapshotTimeout \/ Stream!FillImage
  BY <1>2 DEF Stream!WaitForFrame, Stream!SnapshotTimeout, Stream!FillImage
<1>3. CASE Stream!Expire \/ Stream!Encoded
  BY <1>3 DEF Stream!Expire, Stream!Encoded
<1>4. CASE Stream!DropDisplay
  BY <1>4 DEF Stream!DropDisplay
<1>5. CASE Stream!StartCapture
  BY <1>5 DEF Stream!StartCapture
<1>6. CASE Stream!DestroyDisplay
  BY <1>6 DEF Stream!DestroyDisplay
<1>7. CASE Stream!OnProcessCopy \/ Stream!OnProcessSwap \/ Stream!OnStateChanged
  BY <1>7 DEF Stream!OnProcessCopy, Stream!OnProcessSwap, Stream!OnStateChanged
<1>8. ASSUME NEW dim \in Dim, Stream!InitDisplay(dim) PROVE Stream!MarkInv'
  BY <1>8 DEF Stream!InitDisplay
<1>9. CASE UNCHANGED Stream!streamVars
  BY <1>9 DEF Stream!streamVars
<1> QED
  BY <1>1, <1>2, <1>3, <1>4, <1>5, <1>6, <1>7, <1>8, <1>9 DEF Stream!StreamNext, Stream!CaptureRuns

(***************************************************************************)
(* A step of MCThreads is a step of the component it is about, and leaves  *)
(* the others alone.                                                       *)
(***************************************************************************)
LEMMA OneMoves ==
  ASSUME [ThreadsNext]_threadsVars
  PROVE  /\ part' = part
         /\ [Next]_vars /\ [SP!Next]_(SP!poolVars)
         /\ part = "saving" => [AP!Next]_(AP!vars)
         /\ part = "queue" => [SP!QueueNext]_(SP!queueVars)
         /\ part = "event" => [SP!EventNext]_(SP!eventVars)
         /\ part = "mail" => [SP!MailNext]_(SP!mailVars)
         /\ part = "keys" => [Keys!Next]_(Keys!keyVars)
         /\ part = "pads" => [Pads!Next]_(Pads!padVars)
         /\ part = "audio" => [Audio!Next]_(Audio!captureVars)
         /\ part = "sound" => [Sound!SinkNext]_(Sound!sinkVars)
         /\ part = "sync" => [Sync!Next]_(Sync!syncVars)
         /\ part = "video" => [Video!Next]_(Video!videoVars)
         /\ part = "x11" => [X11!Next]_(X11!x11Vars)
         /\ part = "portal" => [Stream!StreamNext]_(Stream!streamVars)
<1>1. CASE UNCHANGED threadsVars
  BY <1>1 DEF threadsVars, pool, taskVars, SP!poolVars, AP!vars, AP!procVars, AP!osVars,
     SP!queueVars, SP!eventVars, SP!mailVars, Keys!keyVars, Pads!padVars,
     Audio!captureVars, Sound!sinkVars, Sync!syncVars, Video!videoVars, Video!captureVars,
     Video!encodeVars, X11!x11Vars, Stream!streamVars
<1>2. CASE ThreadsNext
  <2> USE DEF taskVars, SP!poolVars
  <2>1. CASE part = "app"
    BY <1>2, <2>1 DEF ThreadsNext
  <2>2. CASE part = "tasks"
    BY <1>2, <2>2, PoolSame DEF ThreadsNext
  <2>3. CASE part = "saving"
    BY <1>2, <2>3, AppSame DEF ThreadsNext
  <2>4. CASE part = "queue"
    BY <1>2, <2>4, QueueSame DEF ThreadsNext
  <2>5. CASE part = "event"
    BY <1>2, <2>5, EventSame DEF ThreadsNext
  <2>6. CASE part = "mail"
    BY <1>2, <2>6, MailSame DEF ThreadsNext
  <2>7. CASE part \notin {"app", "tasks", "saving", "queue", "event", "mail"}
    BY <1>2, <2>7 DEF ThreadsNext
  <2> QED
    BY <2>1, <2>2, <2>3, <2>4, <2>5, <2>6, <2>7
<1> QED
  BY <1>1, <1>2

\* The invariants of the components whose turn it may be.
PoolsInv ==
  /\ SP!PoolInv
  /\ part = "queue" => SP!QueueInv
  /\ part = "event" => SP!EventInv
  /\ part = "mail" => SP!MailInv

LEMMA PoolsInit == ThreadsInit => PoolsInv
<1> SUFFICES ASSUME ThreadsInit PROVE PoolsInv
  OBVIOUS
<1>1. SP!PoolInv
  BY PoolSame, SP!PoolInit, ThreadsAssumption DEF ThreadsInit
<1>2. ASSUME part = "queue" PROVE SP!QueueInv
  BY <1>2, QueueSame, SP!QueueInvInit, ThreadsAssumption DEF ThreadsInit
<1>3. ASSUME part = "event" PROVE SP!EventInv
  BY <1>3, EventSame, SP!EventInvInit DEF ThreadsInit
<1>4. ASSUME part = "mail" PROVE SP!MailInv
  BY <1>4, MailSame, SP!MailInvInit DEF ThreadsInit
<1> QED
  BY <1>1, <1>2, <1>3, <1>4 DEF PoolsInv

LEMMA PoolsStep == PoolsInv /\ [ThreadsNext]_threadsVars => PoolsInv'
<1> SUFFICES ASSUME PoolsInv, [ThreadsNext]_threadsVars PROVE PoolsInv'
  OBVIOUS
<1>1. SP!PoolInv'
  BY OneMoves, SP!PoolStep, ThreadsAssumption DEF PoolsInv
<1>2. ASSUME part = "queue" PROVE SP!QueueInv'
  BY <1>2, OneMoves, SP!QueueStep, ThreadsAssumption DEF PoolsInv
<1>3. ASSUME part = "event" PROVE SP!EventInv'
  BY <1>3, OneMoves, SP!EventStep DEF PoolsInv
<1>4. ASSUME part = "mail" PROVE SP!MailInv'
  BY <1>4, OneMoves, SP!MailStep, ThreadsAssumption DEF PoolsInv
<1>5. part' = part
  BY OneMoves
<1> QED
  BY <1>1, <1>2, <1>3, <1>4, <1>5 DEF PoolsInv

(***************************************************************************)
(* The theorems.                                                           *)
(***************************************************************************)

\* No wakeup is lost: the pool's worker, the consumers of a queue and those of an
\* event wait only while there is nothing to do for them, and the pool's worker
\* looks at the earliest timer (thread_pool.h _main; thread_safe.h queue_t,
\* event_t).
THEOREM WakeupsArrive == ThreadsSpec => []NoLostWakeup
<1>1. PoolsInv => NoLostWakeup
  <2> SUFFICES ASSUME PoolsInv PROVE NoLostWakeup
    OBVIOUS
  <2>1. Tasks!NoLostWakeup /\ Tasks!EarliestAtBack
    BY PoolSame, SP!PoolInvIsSorted DEF PoolsInv, SP!PoolInv
  <2>2. ASSUME part = "queue" PROVE Safe!QueueNoLostWakeup
    BY <2>2, QueueSame DEF PoolsInv, SP!QueueInv
  <2>3. ASSUME part = "event" PROVE Safe!EventNoLostWakeup
    BY <2>3, EventSame DEF PoolsInv, SP!EventInv
  <2> QED
    BY <2>1, <2>2, <2>3 DEF NoLostWakeup
<1> QED
  BY <1>1, PoolsInit, PoolsStep, PTL DEF ThreadsSpec, threadsVars

\* What threads hand to each other arrives once and in order: through a queue up
\* to whole overflows, through an event to one thread, through a mailbox by the
\* one post of its name (thread_safe.h).
THEOREM ArrivesOnce == ThreadsSpec => []HandedOverOnce
<1>1. PoolsInv => HandedOverOnce
  <2> SUFFICES ASSUME PoolsInv PROVE HandedOverOnce
    OBVIOUS
  <2>1. ASSUME part = "queue" PROVE Safe!FifoUpToOverflow
    BY <2>1, QueueSame, SP!QueueInvIsFifo DEF PoolsInv
  <2>2. ASSUME part = "event" PROVE Safe!PoppedOnce
    BY <2>2, EventSame, SP!EventInvIsOnce DEF PoolsInv
  <2>3. ASSUME part = "mail" PROVE Safe!OnePostPerName /\ Safe!CleanupBalanced
    BY <2>3, MailSame, SP!MailInvIsBalanced DEF PoolsInv, SP!MailInv
  <2> QED
    BY <2>1, <2>2, <2>3 DEF HandedOverOnce
<1> QED
  BY <1>1, PoolsInit, PoolsStep, PTL DEF ThreadsSpec, threadsVars

\* The task pool implements the service: a task runs once, not before it is due,
\* and never after cancel returned true (task_pool.h, thread_pool.h).
THEOREM TasksAreServed == ThreadsSpec => ImplementsService
<1>1. ThreadsInit => SP!Init
  BY PoolSame DEF ThreadsInit
<1>2. [ThreadsNext]_threadsVars => [SP!Next]_(SP!poolVars)
  BY OneMoves
<1>3. ThreadsSpec => SP!Spec
  BY <1>1, <1>2, PTL DEF ThreadsSpec, SP!Spec, threadsVars
<1>4. SP!Spec => SP!ImplementsService
  BY SP!PoolImplementsService, ThreadsAssumption
<1>5. SP!ImplementsService => ImplementsService
  BY ServiceSame, PTL DEF ImplementsService, Tasks!ImplementsService,
     SP!ImplementsService, Tasks!Service!Spec, SP!Service!Spec
<1> QED
  BY <1>3, <1>4, <1>5, PTL

\* Calls into proc_t do not overlap, in either instance of it.
SavingOneAtATime == part = "saving" => AP!OneAtATime
SavingWhenQuiet == part = "saving" => AP!SavedWhenQuiet
AppsInv == PrepInv /\ (part = "saving" => AP!SafeInv)

LEMMA AppsStep ==
  ASSUME ~CanSave
  PROVE  /\ AppsInv /\ OneAtATime /\ SavingOneAtATime /\ [SavingWhenQuiet]_threadsVars
            /\ [ThreadsNext]_threadsVars
         => AppsInv'
<1> SUFFICES ASSUME AppsInv, OneAtATime, SavingOneAtATime, [SavingWhenQuiet]_threadsVars,
                    [ThreadsNext]_threadsVars
             PROVE  AppsInv'
  OBVIOUS
<1>1. PrepInv'
  BY OneMoves, PrepStep DEF AppsInv
<1>2. ASSUME part = "saving" PROVE AP!SafeInv'
  <2>1. [AP!SavedWhenQuiet]_(AP!vars)
    BY <1>2 DEF SavingWhenQuiet, threadsVars, pool, AP!vars, AP!procVars, AP!osVars
  <2> QED
    BY <1>2, <2>1, OneMoves, AP!SafeStep, AppAssumption DEF AppsInv, SavingOneAtATime
<1>3. part' = part
  BY OneMoves
<1> QED
  BY <1>1, <1>2, <1>3 DEF AppsInv

LEMMA AppsInit == ThreadsInit => AppsInv
<1> SUFFICES ASSUME ThreadsInit PROVE AppsInv
  OBVIOUS
<1>1. PrepInv
  BY PrepInit DEF ThreadsInit
<1>2. ASSUME part = "saving" PROVE AP!SafeInv
  BY <1>2, AppSame, AP!PrepInit, AppAssumption DEF ThreadsInit, AP!PrepInv
<1> QED
  BY <1>1, <1>2 DEF AppsInv

\* proc_t is consistent between requests, as long as calls into it do not overlap
\* and the list is saved while nobody is inside: an app starts from a clean slate,
\* and refresh() leaves the prep iterator in range and a running app with an id
\* (process.cpp execute, terminate, running, refresh).
THEOREM AppStaysConsistent ==
  ASSUME ~CanSave
  PROVE  ThreadsSpec /\ []OneAtATime /\ []SavingOneAtATime
           /\ [][SavingWhenQuiet]_threadsVars
         => []AppIsConsistent
<1>1. AppsInv => AppIsConsistent
  BY PrepInvClean, AppSame
     DEF AppsInv, AppIsConsistent, AP!SafeInv, AP!HasId, AP!RunningReturnsId
<1>2. AppsInv /\ OneAtATime /\ SavingOneAtATime /\ [SavingWhenQuiet]_threadsVars
        /\ [ThreadsNext]_threadsVars => AppsInv'
  BY AppsStep
<1> QED
  BY <1>1, <1>2, AppsInit, PTL DEF ThreadsSpec, threadsVars

\* One thread is enough for that: with a single worker and no poller calls cannot
\* overlap, and nothing else is assumed.
THEOREM OneThreadIsConsistent ==
  ASSUME ~CanSave, NEW w, Worker = {w}, Poller = {}
  PROVE  ThreadsSpec => []AppIsConsistent
<1>1. OneAtATime /\ SavingOneAtATime
  BY DEF OneAtATime, SavingOneAtATime, AP!OneAtATime, Thread, AP!Thread
<1>2. SavingWhenQuiet
  BY DEF SavingWhenQuiet, AP!SavedWhenQuiet, AP!Save, AP!Quiet, AP!Thread
<1> QED
  BY <1>1, <1>2, AppStaysConsistent, PTL

\* The invariants behind the two theorems that follow.
HeldInv ==
  /\ part = "keys" => Keys!KeysInv
  /\ part = "pads" => Pads!PadsInv
  /\ part = "audio" => Audio!SinkInv
  /\ part = "sound" => Sound!AudibleInv
CaptureInv ==
  /\ part = "sync" => Sync!SyncInv
  /\ part = "video" => Video!QueueInv /\ Video!DisplayInv
  /\ part = "x11" => X11!RefreshInv
  /\ part = "portal" => Stream!MarkInv

\* What a session holds on the host is known, and the user gets it back (input.cpp,
\* audio.cpp, windows/audio.cpp): for any keys, flags, timer addresses, sessions,
\* controllers, gamepad ids and devices.
THEOREM WhatIsHeldIsKnown == ThreadsSpec => []HeldIsKnown
<1>1. ThreadsInit => HeldInv
  BY KeysInit, PadsInit, SinkStarts, AudibleInit DEF ThreadsInit, HeldInv
<1>2. HeldInv /\ [ThreadsNext]_threadsVars => HeldInv'
  BY OneMoves, KeysStep, PadsStep, SinkStep, AudibleStep DEF HeldInv
<1>3. HeldInv => HeldIsKnown
  BY KeysHold, SinkHolds, AudibleHolds DEF HeldInv, HeldIsKnown, Pads!PadsInv
<1> QED
  BY <1>1, <1>2, <1>3, PTL DEF ThreadsSpec, threadsVars

\* Threads that share a display let go of it in time (video.cpp, x11grab.cpp,
\* portalgrab.cpp), for any number of sessions, displays, sizes and frames.
THEOREM CapturesAreHandedOver == ThreadsSpec => []CaptureIsHandedOver
<1>1. ThreadsInit => CaptureInv
  BY SyncInit, VideoStarts, RefreshInit, MarkInit DEF ThreadsInit, CaptureInv
<1>2. CaptureInv /\ [ThreadsNext]_threadsVars => CaptureInv'
  BY OneMoves, SyncStep, VideoQueueStep, VideoDisplayStep, RefreshStep, MarkStep DEF CaptureInv
<1>3. CaptureInv => CaptureIsHandedOver
  BY RefreshHolds DEF CaptureInv, CaptureIsHandedOver, Sync!SyncInv, Video!QueueInv,
     Video!DisplayInv, Stream!MarkInv
<1> QED
  BY <1>1, <1>2, <1>3, PTL DEF ThreadsSpec, threadsVars
=============================================================================
