---------------------------- MODULE InputGamepad ----------------------------
(***************************************************************************)
(* Gamepads (input.cpp): the global ids in gamepadMask, the controllers of *)
(* each session's input_t, the timer that turns a held Back button into    *)
(* Home, and the tasks that free what a destroyed input_t still holds.     *)
(* Everything runs on the one task_pool thread except the destructor.      *)
(***************************************************************************)
EXTENDS Integers, FiniteSets, FiniteSetsExt

CONSTANTS
  Session,     \* streaming sessions, each with its own input_t
  Controller,  \* controller numbers of a session
  MaxGamepads, \* size of gamepadMask
  MaxPad       \* bound on the packets handled

Free == -1     \* gamepad.id of a controller without a gamepad
Id == 0 .. MaxGamepads - 1

VARIABLES
  mask,        \* gamepadMask: ids in use
  padId,       \* [Session -> [Controller -> Id or Free]]
  back,        \* controllers whose gamepad_state has Back down
  forcedUp,    \* controllers with back_button_state = UP
  backTimer,   \* controllers with a pending Back timer
  plugged,     \* ids the platform has a gamepad for
  padTasks,    \* ids of the pushed free tasks
  padAlive,    \* sessions whose input_t exists
  padCount

padVars == <<mask, padId, back, forcedUp, backTimer, plugged, padTasks,
             padAlive, padCount>>

Init ==
  /\ mask = {} /\ padId = [s \in Session |-> [c \in Controller |-> Free]]
  /\ back = {} /\ forcedUp = {} /\ backTimer = {} /\ plugged = {}
  /\ padTasks = {} /\ padAlive = Session /\ padCount = 0

Pads == {<<s, c>> : s \in Session, c \in Controller}
IdOf(p) == padId[p[1]][p[2]]
Step == padCount < MaxPad /\ padCount' = padCount + 1
SetId(p, i) == padId' = [padId EXCEPT ![p[1]][p[2]] = i]

\* alloc_id: the lowest free id; none left is refused by the guard's caller.
AllocId == Min(Id \ mask)

\* Give the controller a gamepad: take an id, and give it back if the platform
\* cannot create the device.
Alloc(p, ok) ==
  /\ Id \ mask # {}
  /\ IF ok THEN /\ mask' = mask \cup {AllocId} /\ plugged' = plugged \cup {AllocId}
                /\ SetId(p, AllocId)
     ELSE UNCHANGED <<mask, plugged, padId>>

\* Controller arrival; one that has a gamepad already is refused.
Arrival(p, ok) ==
  /\ Step /\ p[1] \in padAlive /\ IdOf(p) = Free /\ Alloc(p, ok)
  /\ UNCHANGED <<back, forcedUp, backTimer, padTasks, padAlive>>

\* The last packet of a controller, with its bit of the active mask cleared:
\* a neutral state is sent, the device and the id are freed. The Back timer and
\* the last button state stay.
Removal(p) ==
  /\ Step /\ p[1] \in padAlive /\ IdOf(p) # Free
  /\ mask' = mask \ {IdOf(p)} /\ plugged' = plugged \ {IdOf(p)}
  /\ SetId(p, Free)
  /\ UNCHANGED <<back, forcedUp, backTimer, padTasks, padAlive>>

\* A state packet of a controller without a gamepad makes one first (legacy
\* clients); a forced Back stays up until the client's own state has it up.
\* Back going down arms the timer, going up cancels it.
Buttons(p, wantsBack) ==
  LET held == wantsBack /\ p \notin forcedUp
  IN /\ Step /\ p[1] \in padAlive
     /\ IF IdOf(p) = Free THEN Alloc(p, TRUE) ELSE UNCHANGED <<mask, plugged, padId>>
     /\ forcedUp' = IF wantsBack THEN forcedUp ELSE forcedUp \ {p}
     /\ back' = IF held THEN back \cup {p} ELSE back \ {p}
     /\ backTimer' = IF held /\ p \notin back THEN backTimer \cup {p}
                     ELSE IF ~held /\ p \in back THEN backTimer \ {p} ELSE backTimer
     /\ UNCHANGED <<padTasks, padAlive>>

\* The timer: Back up, Home down, sleep, Home up. The thread sleeps in the task,
\* so nothing runs between. The task holds the input_t, and the gamepad may be
\* gone: the update then goes to id -1, which no device has.
BackTimer(p) ==
  /\ p \in backTimer
  /\ forcedUp' = forcedUp \cup {p} /\ back' = back \ {p}
  /\ backTimer' = backTimer \ {p}
  /\ UNCHANGED <<mask, padId, plugged, padTasks, padAlive, padCount>>

\* ~gamepad_t for every controller of the session, once no task holds its
\* input_t any more: each one that has an id pushes a task that frees it.
Destroy(s) ==
  /\ s \in padAlive /\ padAlive' = padAlive \ {s}
  /\ \A c \in Controller : <<s, c>> \notin backTimer
  /\ padTasks' = padTasks \cup ({padId[s][c] : c \in Controller} \ {Free})
  /\ padId' = [padId EXCEPT ![s] = [c \in Controller |-> Free]]
  /\ UNCHANGED <<mask, back, forcedUp, backTimer, plugged, padCount>>

FreeTask(i) ==
  /\ i \in padTasks /\ padTasks' = padTasks \ {i}
  /\ mask' = mask \ {i} /\ plugged' = plugged \ {i}
  /\ UNCHANGED <<padId, back, forcedUp, backTimer, padAlive, padCount>>

\* A new session in the place of one that is gone.
Connect(s) ==
  /\ s \notin padAlive /\ padCount < MaxPad
  /\ padAlive' = padAlive \cup {s}
  /\ back' = {p \in back : p[1] # s} /\ forcedUp' = {p \in forcedUp : p[1] # s}
  /\ UNCHANGED <<mask, padId, backTimer, plugged, padTasks, padCount>>

Next ==
  \/ \E p \in Pads : \/ Removal(p) \/ BackTimer(p)
                     \/ \E b \in BOOLEAN : Arrival(p, b) \/ Buttons(p, b)
  \/ \E s \in Session : Destroy(s) \/ Connect(s)
  \/ \E i \in Id : FreeTask(i)

Spec == Init /\ [][Next]_padVars
FairSpec == Spec /\ WF_padVars(\E i \in Id : FreeTask(i))

----------------------------------------------------------------------------
Held == {p \in Pads : IdOf(p) # Free}

\* No id is given to two controllers, of the same or of different sessions, and
\* none is both in use and about to be freed by the task of a destroyed session
\* (input.cpp alloc_id, ~gamepad_t): the late free would unplug a live gamepad.
OneOwner ==
  /\ \A p, q \in Held : IdOf(p) = IdOf(q) => p = q
  /\ \A p \in Held : IdOf(p) \notin padTasks

\* gamepadMask, the platform's devices and their owners agree whenever no handler
\* runs: no id leaks when the platform refuses a device or a session ends.
NoIdLeaks == mask = plugged /\ mask = {IdOf(p) : p \in Held} \cup padTasks

\* Home is only emulated for a Back button that is still held, and once it has
\* been, Back stays up until the client releases it (input.cpp back_timeout_id,
\* back_button_state), also across a gamepad's removal and return.
HomeOnlyWhileHeld == backTimer \subseteq back /\ back \cap forcedUp = {}

\* The inductive invariant behind the three: a pending Back timer keeps the input_t
\* of its session alive.
PadsInv ==
  /\ padId \in [Session -> [Controller -> Id \cup {Free}]] /\ padTasks \subseteq Id
  /\ \A p \in backTimer : p \in Pads /\ p[1] \in padAlive
  /\ OneOwner /\ NoIdLeaks /\ HomeOnlyWhileHeld

\* When every session is gone every device is unplugged in the end.
NoSessions == padAlive = {}
NoDevices == plugged = {}
AllUnplugged == NoSessions ~> NoDevices \/ ~NoSessions
=============================================================================
