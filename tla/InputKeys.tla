----------------------------- MODULE InputKeys -----------------------------
(***************************************************************************)
(* Keyboard and mouse buttons (input.cpp): the pressed keys and buttons,   *)
(* which are global, the key repeat timer, the delayed release of the left *)
(* button and input::reset. Handlers and timers run one after the other on *)
(* the single thread of task_pool; reset runs on the thread that joins the *)
(* session and reads the timer ids without a lock. A timer's id is the     *)
(* address of its task object, so an id may be given out again.            *)
(***************************************************************************)
EXTENDS Naturals, FiniteSets

CONSTANTS
  Key,         \* virtual keys, Shift among them
  Shift,       \* the modifier key
  Hotkey,      \* keys apply_shortcut swallows while the modifier is held
  Flag,        \* flags of a key packet; a key is tracked per key and flags
  Addr,        \* addresses of timer tasks, at least three
  Remap,       \* keybindings send every key under another code
  MaxPacket, MaxSession,   \* bounds: packets handled, sessions
  None

Null == "null"          \* ENABLE_LEFT_BUTTON_DELAY
Disable == "disable"    \* DISABLE_LEFT_BUTTON_DELAY

VARIABLES
  keyPress,     \* key_press: the kpids that are true
  osKeys,       \* key codes that are down at the OS
  mods,         \* shortcutFlags of the session's input_t
  repeatId,     \* key_press_repeat_id
  keyTimers,    \* [Addr -> task or None], the pool's delayed tasks
  mousePress,   \* mouse_press: the buttons that are true
  osMouse,      \* buttons that are down at the OS
  leftTimeout,  \* mouse_left_button_timeout of the session's input_t
  inpc,         \* the session: "on", reset's "cancelled", "left", "pushed", "off"
  inSession, packets,
  leftLost      \* ghost: a cancel removed a pending release of the left button

keyVars == <<keyPress, osKeys, mods, repeatId, keyTimers, mousePress, osMouse,
             leftTimeout, inpc, inSession, packets, leftLost>>

Init ==
  /\ keyPress = {} /\ osKeys = {} /\ mods = FALSE /\ repeatId = None
  /\ keyTimers = [a \in Addr |-> None] /\ mousePress = {} /\ osMouse = {}
  /\ leftTimeout = Null /\ inpc = "on" /\ inSession = 1 /\ packets = 0
  /\ leftLost = FALSE

----------------------------------------------------------------------------
(* Helpers. *)

\* make_kpid and its inverse: vk << 8 | flags.
Kpid(k, f) == <<k, f>>
VkFromKpid(p) == p[1]

MapKeycode(k) == IF Remap THEN <<"bound", k>> ELSE k

\* send_key_and_modifiers: a press puts the synthetic modifier down before the
\* key and up after it.
SendKey(keys, k, release, syn) ==
  IF release THEN keys \ {MapKeycode(k)}
  ELSE (keys \cup {MapKeycode(k)}) \ (IF syn THEN {Shift} ELSE {})

\* TaskPool::cancel on an id that may be stale.
Cancelled(ts, id) == [a \in Addr |-> IF a = id THEN None ELSE ts[a]]
KillsLeft(id) == id \in Addr /\ keyTimers[id] # None /\ keyTimers[id].kind = "left"
Free(ts) == {a \in Addr : ts[a] = None}
Repeats == {a \in Addr : keyTimers[a] # None /\ keyTimers[a].kind = "repeat"}

Handled == inpc # "off" /\ packets < MaxPacket /\ packets' = packets + 1

----------------------------------------------------------------------------
(* The keyboard. *)

\* A key goes down. A key that is down already, or a hotkey while the modifier
\* is held, changes nothing. Otherwise the running repeat is cancelled and a new
\* one armed before the key is sent.
KeyDown(k, f, wantsShift) ==
  LET syn == k # Shift /\ ~mods /\ wantsShift
      ts == Cancelled(keyTimers, repeatId)
  IN /\ Handled /\ Kpid(k, f) \notin keyPress /\ ~(mods /\ k \in Hotkey)
     /\ keyPress' = keyPress \cup {Kpid(k, f)}
     /\ osKeys' = SendKey(osKeys, k, FALSE, syn)
     /\ \E a \in Free(ts) :
          /\ repeatId' = a
          /\ keyTimers' = [ts EXCEPT ![a] = [kind |-> "repeat", kpid |-> Kpid(k, f), syn |-> syn]]
     /\ mods' = (mods \/ k = Shift)
     /\ leftLost' = (leftLost \/ KillsLeft(repeatId))
     /\ UNCHANGED <<mousePress, osMouse, leftTimeout, inpc, inSession>>

\* A key goes up; its repeat timer is left to find out by itself.
KeyUp(k, f) ==
  /\ Handled /\ Kpid(k, f) \in keyPress
  /\ keyPress' = keyPress \ {Kpid(k, f)}
  /\ osKeys' = SendKey(osKeys, k, TRUE, FALSE)
  /\ mods' = (mods /\ k # Shift)
  /\ UNCHANGED <<repeatId, keyTimers, mousePress, osMouse, leftTimeout, inpc,
                 inSession, leftLost>>

\* repeat_key: stop if the key is up, else send it again and re-arm. The
\* synthetic modifier is the one of the first press.
RepeatKey(a) ==
  /\ a \in Repeats
  /\ LET t == keyTimers[a]
         ts == [keyTimers EXCEPT ![a] = None]
     IN \/ /\ t.kpid \notin keyPress
           /\ repeatId' = None /\ keyTimers' = ts /\ UNCHANGED osKeys
        \/ /\ t.kpid \in keyPress
           /\ osKeys' = SendKey(osKeys, VkFromKpid(t.kpid), FALSE, t.syn)
           /\ \E b \in Addr : ts[b] = None /\ repeatId' = b
                              /\ keyTimers' = [ts EXCEPT ![b] = t]
  /\ UNCHANGED <<keyPress, mods, mousePress, osMouse, leftTimeout, inpc,
                 inSession, packets, leftLost>>

----------------------------------------------------------------------------
(* The mouse. *)

\* A relative move switches the delay off, an absolute one switches it on again.
MouseMove(abs) ==
  /\ Handled
  /\ leftTimeout' = IF ~abs THEN Disable
                    ELSE IF leftTimeout = Disable THEN Null ELSE leftTimeout
  /\ UNCHANGED <<keyPress, osKeys, mods, repeatId, keyTimers, mousePress, osMouse,
                 inpc, inSession, leftLost>>

ButtonDown(b) ==
  /\ Handled /\ b \notin mousePress
  /\ IF b = "right" /\ leftTimeout \in Addr
     THEN \* pressed and released at once, before the left button is released
          mousePress' = mousePress /\ osMouse' = osMouse \ {b}
     ELSE mousePress' = mousePress \cup {b} /\ osMouse' = osMouse \cup {b}
  /\ UNCHANGED <<keyPress, osKeys, mods, repeatId, keyTimers, leftTimeout, inpc,
                 inSession, leftLost>>

\* The release of the left button waits 10 ms after absolute moves.
ButtonUp(b) ==
  /\ Handled /\ b \in mousePress
  /\ mousePress' = mousePress \ {b}
  /\ IF b = "left" /\ leftTimeout = Null
     THEN \E a \in Free(keyTimers) :
            /\ keyTimers' = [keyTimers EXCEPT ![a] = [kind |-> "left", session |-> inSession]]
            /\ leftTimeout' = a /\ UNCHANGED osMouse
     ELSE osMouse' = osMouse \ {b} /\ UNCHANGED <<keyTimers, leftTimeout>>
  /\ UNCHANGED <<keyPress, osKeys, mods, repeatId, inpc, inSession, leftLost>>

\* The delayed release: nothing if the button is down again, and then
\* mouse_left_button_timeout keeps an id that is no longer pending.
LeftTimer(a) ==
  /\ KillsLeft(a)
  /\ keyTimers' = [keyTimers EXCEPT ![a] = None]
  /\ IF "left" \in mousePress THEN UNCHANGED <<osMouse, leftTimeout>>
     ELSE /\ osMouse' = osMouse \ {"left"}
          /\ leftTimeout' = IF keyTimers[a].session = inSession THEN Null ELSE leftTimeout
  /\ UNCHANGED <<keyPress, osKeys, mods, repeatId, mousePress, inpc, inSession,
                 packets, leftLost>>

----------------------------------------------------------------------------
(* The end of a session. *)

\* input::reset on the joining thread: cancel the repeat, cancel the delayed
\* release, push the task that releases everything. Other tasks run between.
ResetCancelRepeat ==
  /\ inpc = "on" /\ inpc' = "cancelled"
  /\ keyTimers' = Cancelled(keyTimers, repeatId)
  /\ leftLost' = (leftLost \/ KillsLeft(repeatId))
  /\ UNCHANGED <<keyPress, osKeys, mods, repeatId, mousePress, osMouse, leftTimeout,
                 inSession, packets>>
ResetCancelLeft ==
  /\ inpc = "cancelled" /\ inpc' = "left"
  /\ keyTimers' = Cancelled(keyTimers, leftTimeout)
  /\ leftLost' = (leftLost \/ KillsLeft(leftTimeout))
  /\ UNCHANGED <<keyPress, osKeys, mods, repeatId, mousePress, osMouse, leftTimeout,
                 inSession, packets>>

\* Mutant of ResetTask: what is down is forgotten and not released.
ResetTaskForgets ==
  /\ inpc = "left" /\ inpc' = "off"
  /\ osMouse' = osMouse \ mousePress /\ mousePress' = {}
  /\ keyPress' = {}
  /\ UNCHANGED <<osKeys, mods, repeatId, keyTimers, leftTimeout, inSession, packets, leftLost>>

\* The pushed task, after the packets queued before it: what is tracked as down
\* is released; a key under the code the client sent, not the one it is bound to.
ResetTask ==
  /\ inpc = "left" /\ inpc' = "off"
  /\ osMouse' = osMouse \ mousePress /\ mousePress' = {}
  /\ osKeys' = osKeys \ {kp[1] : kp \in keyPress} /\ keyPress' = {}
  /\ UNCHANGED <<mods, repeatId, keyTimers, leftTimeout, inSession, packets, leftLost>>

\* input::alloc for the next session.
Alloc ==
  /\ inpc = "off" /\ inSession < MaxSession
  /\ inpc' = "on" /\ inSession' = inSession + 1
  /\ mods' = FALSE /\ leftTimeout' = Null
  /\ UNCHANGED <<keyPress, osKeys, repeatId, keyTimers, mousePress, osMouse, packets, leftLost>>

Timer == \E a \in Addr : RepeatKey(a) \/ LeftTimer(a)
Reset == ResetCancelRepeat \/ ResetCancelLeft \/ ResetTask

Next ==
  \/ \E k \in Key, f \in Flag : KeyUp(k, f) \/ \E w \in BOOLEAN : KeyDown(k, f, w)
  \/ \E abs \in BOOLEAN : MouseMove(abs)
  \/ \E b \in {"left", "right"} : ButtonDown(b) \/ ButtonUp(b)
  \/ Timer
  \/ Reset
  \/ Alloc

Spec == Init /\ [][Next]_keyVars
FairSpec == Spec /\ WF_keyVars(Timer) /\ WF_keyVars(Reset)

----------------------------------------------------------------------------
\* Every key that is down at the OS is tracked as down (input.cpp key_press),
\* whatever flags its packets carried, so that reset can release it.
DownIsTracked == osKeys \subseteq {MapKeycode(kp[1]) : kp \in keyPress}

\* One key repeats at a time: every press cancels the chain before it starts its
\* own (input.cpp repeat_key), although ids go stale and reset cancels
\* concurrently.
OneRepeat == Cardinality(Repeats) <= 1

\* Of the left button the OS sees as down after the client released it, a release
\* is still pending, unless a cancel took it: the one of reset, or one through an
\* id that was given out again (input.cpp reset, task_pool.h cancel).
LeftReleasePending ==
  ("left" \in osMouse /\ "left" \notin mousePress /\ ~leftLost) =>
    \E a \in Addr : KillsLeft(a)

\* "Reset input on session stop to avoid stuck repeated keys" (stream.cpp join):
\* once the reset task has run no key is down.
NoKeyStuck == inpc = "off" => osKeys = {}

\* The inductive invariant behind the four: only the timer that is remembered
\* repeats, and once the reset task has run nothing is tracked until the next session.
KeysInv ==
  /\ inSession \in Nat /\ keyTimers = [a \in Addr |-> keyTimers[a]]
  /\ Repeats \subseteq {repeatId}
  /\ inpc = "off" => keyPress = {}
  /\ DownIsTracked /\ LeftReleasePending

\* After the session's end the repeat stops by itself (input.cpp repeat_key), also
\* when its timer was re-armed after reset cancelled it.
SessionOff == inpc = "off"
RepeatSilent == Repeats = {} \/ inpc = "on"
RepeatStops == SessionOff ~> RepeatSilent
=============================================================================
