------------------------------ MODULE WinInput ------------------------------
(***************************************************************************)
(* Input devices on Windows (platform/windows/input.cpp): virtual          *)
(* gamepads, and touch and pen.                                            *)
(***************************************************************************)
EXTENDS Integers, Sequences, FiniteSets, SequencesExt

CONSTANT None

(***************************************************************************)
(* Virtual gamepads on Windows (vigem_t and its users in                   *)
(* platform/windows/input.cpp): targets of the ViGEm driver by global      *)
(* index, the repeated DualShock 4 report, feedback from games back to the *)
(* client and fingers on the touchpad. Input runs on the thread of the     *)
(* task pool; a session's end frees its pads on another one, also between  *)
(* the moment the pool takes a task and the moment it runs. The driver is  *)
(* external. InputGamepad models who owns which index.                     *)
(***************************************************************************)
CONSTANTS
  Slot,      \* global indices
  Finger,    \* pointer ids of the touchpad events of a client
  Rumble,    \* motor values from 1 on; 0 is off
  MaxAlloc   \* bound on alloc_gamepad

VARIABLES
  pads,      \* per slot: gp (type or None), attached, session (the alloc it is from), life
  connected,  \* connected to the driver
  failures,  \* calls of the driver have failed
  repeat,    \* per slot: number of pending repeat tasks
  taken,     \* the slot of the repeat task the pool has taken, or None
  notices,   \* queued rumble tasks: target (slot and session) and value
  last,      \* per slot: last_rumble
  asked,     \* per slot: what games ask of its current pad
  told,      \* per slot: what its client was last told, 0 at first
  touch,     \* per slot: map (pointer_id_map), available, down (indices of the report)
  held,      \* per slot: fingers its client has on the touchpad
  allocs

gamepadVars == <<pads, connected, failures, repeat, taken, notices, last, asked, told, touch, held, allocs>>

NoTouch == [map |-> [f \in Finger |-> None], available |-> {0, 1}, down |-> {}]

GamepadInit ==
  /\ pads = [s \in Slot |-> [gp |-> None, attached |-> FALSE, session |-> 0, life |-> 0]]
  /\ connected = FALSE /\ failures = FALSE /\ repeat = [s \in Slot |-> 0] /\ taken = None
  /\ notices = <<>> /\ last = [s \in Slot |-> 0] /\ asked = [s \in Slot |-> 0] /\ told = [s \in Slot |-> 0]
  /\ touch = [s \in Slot |-> NoTouch] /\ held = [s \in Slot |-> {}] /\ allocs = 0

\* alloc_gamepad and alloc_gamepad_internal: connecting may fail, and so may
\* vigem_target_add, which leaves gp set. The map of fingers and last_rumble are
\* those of the slot's former pad.
Alloc(s, type, outcome) ==
  /\ ~pads[s].attached /\ allocs < MaxAlloc /\ allocs' = allocs + 1 /\ taken = None
  /\ outcome = "noclient" => ~connected
  /\ connected' = (outcome # "noclient")
  /\ failures' = (failures \/ outcome # "ok")
  /\ IF outcome = "noclient" THEN UNCHANGED <<pads, touch>>
     ELSE /\ pads' = [pads EXCEPT ![s] = [gp |-> type, attached |-> outcome = "ok", session |-> allocs', life |-> @.life + 1]]
          /\ touch' = IF type = "x360" THEN touch
                      ELSE [touch EXCEPT ![s].available = {0, 1}, ![s].down = {}]
  /\ asked' = [asked EXCEPT ![s] = 0] /\ told' = [told EXCEPT ![s] = 0] /\ held' = [held EXCEPT ![s] = {}]
  /\ UNCHANGED <<repeat, taken, notices, last>>

\* The last attached gamepad takes the connection with it.
Freed(left) == \E s \in Slot : left[s].attached

\* free_target
Free(s) ==
  /\ pads[s].attached
  /\ pads' = [pads EXCEPT ![s].gp = None, ![s].attached = FALSE]
  /\ repeat' = [repeat EXCEPT ![s] = 0]
  /\ connected' = Freed(pads')
  /\ UNCHANGED <<failures, taken, notices, last, asked, told, touch, held, allocs>>

\* ds4_update_ts_and_send
UpdateAndSend(s, works) ==
  /\ repeat' = [repeat EXCEPT ![s] = IF pads[s].attached /\ works THEN 1 ELSE 0]
  /\ failures' = (failures \/ (pads[s].attached /\ ~works))

\* gamepad_update, gamepad_motion and gamepad_battery: only a DualShock 4 has
\* motion and a battery, and only its reports are repeated.
GamepadUpdate(s, works) ==
  /\ taken = None /\ pads[s].attached
  /\ IF pads[s].gp = "ds4" THEN UpdateAndSend(s, works)
     ELSE repeat' = repeat /\ failures' = (failures \/ ~works)
  /\ UNCHANGED <<pads, connected, taken, notices, last, asked, told, touch, held, allocs>>

\* The pool takes a repeat task, and runs it.
RepeatTaken(s) ==
  /\ taken = None /\ repeat[s] > 0 /\ taken' = s /\ repeat' = [repeat EXCEPT ![s] = @ - 1]
  /\ UNCHANGED <<pads, connected, failures, notices, last, asked, told, touch, held, allocs>>

RepeatRuns(works) ==
  /\ taken # None /\ taken' = None /\ UpdateAndSend(taken, works)
  /\ UNCHANGED <<pads, connected, notices, last, asked, told, touch, held, allocs>>

\* x360_notify, ds4_notify: a game changes the motors, on the driver's thread.
Notify(s, r) ==
  /\ pads[s].attached /\ asked[s] # r /\ Len(notices) < 2
  /\ asked' = [asked EXCEPT ![s] = r]
  /\ notices' = Append(notices, [slot |-> s, session |-> pads[s].session, value |-> r])
  /\ UNCHANGED <<pads, connected, failures, repeat, taken, last, told, touch, held, allocs>>

\* Don't resend duplicate rumble data
Resend(s, r) == r # last[s]

\* vigem_t::rumble, set_rgb_led: a target that is gone is not found.
RumbleTask ==
  /\ taken = None /\ notices # <<>> /\ notices' = Tail(notices)
  /\ LET n == Head(notices)
         found == pads[n.slot].gp # None /\ pads[n.slot].session = n.session
     IN  IF found /\ Resend(n.slot, n.value)
         THEN last' = [last EXCEPT ![n.slot] = n.value] /\ told' = [told EXCEPT ![n.slot] = n.value]
         ELSE UNCHANGED <<last, told>>
  /\ UNCHANGED <<pads, connected, failures, repeat, taken, asked, touch, held, allocs>>

\* Mutant of Touched: the index of a raised finger is not given back.
TouchedKeeps(t, f, e) ==
  CASE e = "down" /\ t.available # {} ->
         LET i == IF 0 \in t.available THEN 0 ELSE 1
         IN  [map |-> [t.map EXCEPT ![f] = i], available |-> t.available \ {i}, down |-> t.down \cup {i}]
    [] e = "up" /\ t.map[f] # None -> [t EXCEPT !.map[f] = None, !.down = @ \ {t.map[f]}]
    [] OTHER -> t

\* gamepad_touch: the lowest free index for a new finger; a finger that is not
\* known, or that finds no index, is ignored. "cancel_all" raises all fingers.
Touched(t, f, e) ==
  CASE e = "down" /\ t.available # {} ->
         LET i == IF 0 \in t.available THEN 0 ELSE 1
         IN  [map |-> [t.map EXCEPT ![f] = i], available |-> t.available \ {i}, down |-> t.down \cup {i}]
    [] e = "up" /\ t.map[f] # None ->
         [map |-> [t.map EXCEPT ![f] = None], available |-> t.available \cup {t.map[f]}, down |-> t.down \ {t.map[f]}]
    [] e = "cancel_all" -> NoTouch
    [] OTHER -> t

\* A finger goes down, moves, is raised or cancelled, or all are cancelled. A
\* client may send a second "down" without the "up" between.
TouchEvent(s, f, e, works) ==
  /\ taken = None /\ pads[s].attached /\ pads[s].gp = "ds4"
  /\ touch' = [touch EXCEPT ![s] = Touched(@, f, e)]
  /\ held' = [held EXCEPT ![s] = CASE e = "down" -> @ \cup {f} [] e = "up" -> @ \ {f}
                                    [] e = "cancel_all" -> {} [] OTHER -> @]
  /\ IF (e = "down" /\ touch[s].available = {}) \/ (e \in {"up", "move"} /\ touch[s].map[f] = None)
     THEN UNCHANGED <<repeat, failures>> ELSE UpdateAndSend(s, works)
  /\ UNCHANGED <<pads, connected, taken, notices, last, asked, told, allocs>>

PadNext ==
  \E s \in Slot :
    \/ \E type \in {"x360", "ds4"}, o \in {"ok", "noclient", "noadd"} : Alloc(s, type, o)
    \/ Free(s)

ReportNext ==
  \/ \E s \in Slot : RepeatTaken(s) \/ \E works \in BOOLEAN : GamepadUpdate(s, works)
  \/ \E works \in BOOLEAN : RepeatRuns(works)

FeedbackNext == RumbleTask \/ \E s \in Slot, r \in Rumble \cup {0} : Notify(s, r)

TouchpadNext == \E s \in Slot, f \in Finger, e \in {"down", "up", "move", "cancel_all"}, works \in BOOLEAN : TouchEvent(s, f, e, works)

GamepadNext == PadNext \/ ReportNext \/ FeedbackNext \/ TouchpadNext

GamepadSpec == GamepadInit /\ [][GamepadNext]_gamepadVars

\* An attached pad has a connected driver, and a host without pads keeps no
\* connection unless adding a pad failed, in whatever order pads come and go.
ConnectedWhileUsed ==
  /\ \A s \in Slot : pads[s].attached => connected
  /\ connected /\ ~failures => \E s \in Slot : pads[s].attached
PadsTyped ==
  pads \in [Slot -> [gp : {"x360", "ds4", None}, attached : BOOLEAN, session : Nat, life : Nat]] /\ allocs \in Nat
ConnectionInv == PadsTyped /\ ConnectedWhileUsed

\* A pad never has two repeat tasks, and none is pending for a pad that was
\* freed, also when the pad is freed while its task has been taken.
OneRepeat ==
  \A s \in Slot : repeat[s] <= 1 /\ (repeat[s] = 1 => pads[s].attached /\ pads[s].gp = "ds4" /\ taken # s)

\* What that rests on: the task the pool has taken is of a DualShock 4, if the pad is
\* still there.
RepeatInv ==
  /\ PadsTyped /\ OneRepeat
  /\ repeat \in [Slot -> Nat] /\ taken \in Slot \cup {None}
  /\ taken # None /\ pads[taken].attached => pads[taken].gp = "ds4"

\* Once the queued notices are worked off, the client has been told what games
\* ask of its pad: for the first pad of a slot; a later one inherits last_rumble.
RumbleDelivered ==
  notices = <<>> => \A s \in Slot : pads[s].attached /\ pads[s].life = 1 => told[s] = asked[s]

\* What that rests on: a slot's first pad finds no notice and no value of another
\* one; the last notice queued for it is what games ask, and it was told last_rumble.
NoticesOf(s) == {i \in DOMAIN notices : notices[i].slot = s}
FirstPad(s) == pads[s].attached /\ pads[s].life = 1
WillBeTold(s) ==
  /\ pads[s].gp # None /\ told[s] = last[s]
  /\ \A i \in NoticesOf(s) :
       /\ notices[i].session = pads[s].session
       /\ (\A j \in NoticesOf(s) : j <= i) => notices[i].value = asked[s]
  /\ NoticesOf(s) = {} => told[s] = asked[s]
Feedback == [slot : Slot, session : Nat, value : Rumble \cup {0}]
RumbleInv ==
  /\ PadsTyped /\ notices \in Seq(Feedback)
  /\ last \in [Slot -> Rumble \cup {0}] /\ asked \in [Slot -> Rumble \cup {0}] /\ told \in [Slot -> Rumble \cup {0}]
  /\ \A s \in Slot : pads[s].life = 0 => ~pads[s].attached /\ last[s] = 0 /\ NoticesOf(s) = {}
  /\ \A s \in Slot : FirstPad(s) => WillBeTold(s)

\* For the first pad of a slot, the fingers the touchpad knows are held by the
\* client, have an index each and are shown down, and an index that is not down
\* is free for the next finger, whatever events are missing. (A second "down"
\* leaves an index down that no finger has until all are cancelled.)
TouchpadMatches ==
  \A s \in Slot : pads[s].attached /\ pads[s].life = 1 =>
    LET known == {f \in Finger : touch[s].map[f] # None}
        used == {touch[s].map[f] : f \in known}
    IN  /\ known \subseteq held[s] /\ Cardinality(used) = Cardinality(known)
        /\ used \subseteq touch[s].down /\ touch[s].down \cap touch[s].available = {}
        /\ touch[s].down \cup touch[s].available = {0, 1}

\* What that rests on: a slot's first pad finds the map of its fingers empty, and no
\* two fingers have one index.
TouchpadInv ==
  /\ PadsTyped
  /\ touch \in [Slot -> [map : [Finger -> {0, 1, None}], available : SUBSET {0, 1}, down : SUBSET {0, 1}]]
  /\ held \in [Slot -> SUBSET Finger]
  /\ \A s \in Slot : pads[s].life = 0 => ~pads[s].attached /\ touch[s] = NoTouch
  /\ \A s \in Slot : FirstPad(s) =>
       /\ touch[s].down \cap touch[s].available = {} /\ touch[s].down \cup touch[s].available = {0, 1}
       /\ \A f \in Finger : touch[s].map[f] # None =>
            /\ f \in held[s] /\ touch[s].map[f] \in touch[s].down
            /\ \A g \in Finger : touch[s].map[g] = touch[s].map[f] => g = f

(***************************************************************************)
(* Touch and pen of one client on Windows (platform/windows/input.cpp): a  *)
(* table of pointer slots, compacted before each event, and injected as a  *)
(* whole; Windows ends an interaction that is not repeated within a        *)
(* second, so a task repeats the table. Events and repeats run on the one  *)
(* thread of the task pool. Events of the client may be missing.           *)
(***************************************************************************)
CONSTANTS
  Slots,    \* size of touchInfo (ten in the code)
  Pointer   \* pointer ids of the client

VARIABLES
  touchInfo,  \* slots: id and flags; Slots of them
  active,     \* activeTouchSlots
  touchRepeat,  \* touchRepeatTask is pending
  penFlags,   \* pointerFlags of penInfo
  penRepeat,  \* penRepeatTask is pending
  contact,    \* what Windows takes to touch the screen: pointer ids and "pen"
  client,     \* what the client's events say does
  failed      \* an injection failed

pointerVars == <<touchInfo, active, touchRepeat, penFlags, penRepeat, contact, client, failed>>

Empty == [id |-> None, flags |-> {}]
Edge == {"down", "up", "canceled", "update"}   \* EDGE_TRIGGERED_POINTER_FLAGS
Event == {"hover", "down", "up", "move", "cancel", "hover_leave", "button"}

PointerInit ==
  /\ touchInfo = [i \in 1..Slots |-> Empty] /\ active = 0 /\ touchRepeat = FALSE
  /\ penFlags = {} /\ penRepeat = FALSE
  /\ contact = {} /\ client = {} /\ failed = FALSE

Used(table) == {i \in DOMAIN table : table[i].flags # {}}

\* perform_touch_compaction: an empty slot takes the next used one.
Filled(table, i) ==
  LET later == {j \in Used(table) : j > i}
  IN  IF i \in Used(table) \/ later = {} THEN table
      ELSE [table EXCEPT ![i] = table[Min(later)], ![Min(later)] = Empty]
CompactedUpTo(table) ==
  LET upTo[i \in 0..Slots] == IF i = 0 THEN table ELSE Filled(upTo[i - 1], i)
  IN  upTo
Compacted(table) == CompactedUpTo(table)[Slots]

\* pointer_by_id: the pointer's slot, or the first empty one, 0 if there is none.
SlotOf(table, p) ==
  LET own == {i \in Used(table) : table[i].id = p}
      free == DOMAIN table \ Used(table)
  IN  IF own # {} THEN Min(own) ELSE IF free # {} THEN Min(free) ELSE 0

\* populate_common_pointer_info
Flags(flags, e) ==
  CASE e = "hover" -> (flags \ {"contact"}) \cup {"range", "update"}
    [] e = "down" -> flags \cup {"range", "contact", "down"}
    [] e = "up" -> (flags \ {"contact", "range"}) \cup {"up"}
    [] e = "move" -> flags \cup {"range", "contact", "update"}
    [] e = "cancel" -> (flags \ {"contact", "range"})
                        \cup {"canceled", IF "contact" \in flags THEN "up" ELSE "update"}
    [] e = "hover_leave" -> (flags \ {"contact", "range"}) \cup {"update"}
    [] e = "button" -> IF flags = {} THEN {} ELSE flags \cup {"update"}

\* InjectSyntheticPointerInput, external: the first n entries say who touches.
Touching(table, n) == {table[i].id : i \in {k \in 1..n : "contact" \in table[k].flags}}

Inject(table, n, others) ==
  /\ contact' = Touching(table, n) \cup others

CancelledTable(table, n) == [i \in DOMAIN table |-> IF i <= n THEN [table[i] EXCEPT !.flags = Flags(@, "cancel")] ELSE table[i]]

\* What the client says after an event of pointer p.
Says(before, p, e) == IF e \in {"down", "move"} THEN before \cup {p}
                      ELSE IF e = "button" THEN before ELSE before \ {p}

ClientPen == client \cap {"pen"}

\* touch_update, with cancel_all_active_touches when no slot is left.
TouchUpdate(p, e, works) ==
  LET found == SlotOf(Compacted(touchInfo), p)
      table == IF found # 0 THEN Compacted(touchInfo) ELSE [i \in 1..Slots |-> Empty]
      slot == IF found # 0 THEN found ELSE 1
      new == [table EXCEPT ![slot] = [id |-> p, flags |-> Flags(@.flags, e)]]
      n == IF slot \in Used(table) THEN Cardinality(Used(table)) ELSE slot
      left == new[slot].flags \ Edge
  IN  /\ active' = n
      /\ client' = Says(IF found # 0 THEN client ELSE ClientPen, p, e)
      /\ IF works
         THEN /\ Inject(new, n, contact \cap {"pen"})
              /\ touchInfo' = [new EXCEPT ![slot] = IF left = {} THEN Empty ELSE [id |-> p, flags |-> left]]
              /\ touchRepeat' = (n > 1 \/ left # {}) /\ UNCHANGED failed
         ELSE /\ touchInfo' = new /\ touchRepeat' = FALSE /\ failed' = TRUE /\ UNCHANGED contact
      /\ UNCHANGED <<penFlags, penRepeat>>

\* cancel_all_active_touches
CancelAll(works) ==
  LET table == Compacted(touchInfo)
      n == Cardinality(Used(table))
  IN  /\ IF n = 0 THEN UNCHANGED <<contact, failed>>
         ELSE IF works THEN Inject(CancelledTable(table, n), n, contact \cap {"pen"}) /\ UNCHANGED failed
         ELSE failed' = TRUE /\ UNCHANGED contact
      /\ touchInfo' = [i \in 1..Slots |-> Empty] /\ active' = 0 /\ touchRepeat' = FALSE
      /\ client' = ClientPen
      /\ UNCHANGED <<penFlags, penRepeat>>

\* repeat_touch: the table as it is.
RepeatTouch(works) ==
  /\ touchRepeat
  /\ IF works THEN Inject(touchInfo, active, contact \cap {"pen"}) /\ UNCHANGED failed
     ELSE failed' = TRUE /\ UNCHANGED contact
  /\ UNCHANGED <<touchInfo, active, touchRepeat, penFlags, penRepeat, client>>

\* pen_update
PenUpdate(e, works) ==
  LET flags == Flags(penFlags, e)
      left == flags \ Edge
  IN  /\ client' = Says(client, "pen", e)
      /\ IF works
         THEN /\ contact' = (contact \ {"pen"}) \cup (IF "contact" \in flags THEN {"pen"} ELSE {})
              /\ penFlags' = left /\ penRepeat' = (left # {}) /\ UNCHANGED failed
         ELSE penFlags' = flags /\ penRepeat' = FALSE /\ failed' = TRUE /\ UNCHANGED contact
      /\ UNCHANGED <<touchInfo, active, touchRepeat>>

\* Behaviours are followed up to the first failed injection: what Windows makes
\* of the flags left set by it is not known.
TouchNext ==
  /\ ~failed
  /\ \E works \in BOOLEAN :
       \/ \E p \in Pointer, e \in Event : TouchUpdate(p, e, works)
       \/ CancelAll(works) \/ RepeatTouch(works)

PenNext == ~failed /\ \E works \in BOOLEAN, e \in Event : PenUpdate(e, works)

PointerNext == TouchNext \/ PenNext

PointerSpec == PointerInit /\ [][PointerNext]_pointerVars

\* Unless an injection failed, Windows takes exactly those fingers and pens to
\* touch the screen that the client says do, through compaction, missing events
\* and a full table, and a task repeats them: none is stuck and none ends while
\* it is held.
ContactsMatch ==
  ~failed => /\ contact = client
             /\ contact \ {"pen"} # {} => touchRepeat
             /\ "pen" \in contact => penRepeat

\* What that rests on: of a finger there is one slot, in the part of the table that
\* is injected, and of the flags that say so none is left out.
Touches == {touchInfo[i].id : i \in {k \in DOMAIN touchInfo : "contact" \in touchInfo[k].flags}}
TouchInv ==
  ~failed =>
    /\ touchInfo \in [1..Slots -> [id : Pointer \cup {None}, flags : SUBSET {"range", "contact"}]]
    /\ \A i \in Used(touchInfo) : touchInfo[i].id \in Pointer /\ i <= active
    /\ \A i, j \in Used(touchInfo) : touchInfo[i].id = touchInfo[j].id => i = j
    /\ active \in 0..Slots /\ contact = client /\ contact = Touches /\ (contact # {} => touchRepeat)
PenInv ==
  ~failed => /\ contact = client /\ contact = (IF "contact" \in penFlags THEN {"pen"} ELSE {})
             /\ penRepeat <=> penFlags # {}
=============================================================================
