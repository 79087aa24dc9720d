---------------------------- MODULE ThreadSafe ----------------------------
(***************************************************************************)
(* safe::queue_t (thread_safe.h): a bounded queue between threads. raise   *)
(* clears a full queue before it appends; pop waits on a condition         *)
(* variable, without a limit or with one; stop releases everybody. Every   *)
(* method holds _lock, so one step is one method, or one stretch of pop    *)
(* between two waits.                                                      *)
(*                                                                         *)
(* safe::event_t (thread_safe.h): one slot that raise fills (and           *)
(* overwrites), pop empties and view only reads. Both wait on a condition  *)
(* variable, without a limit or with one. One step is one stretch under    *)
(* _lock.                                                                  *)
(*                                                                         *)
(* safe::mail_raw_t (thread_safe.h): named events and queues shared by     *)
(* threads. The registry holds weak pointers; the last owner's release     *)
(* makes a post expire, and its destructor then calls cleanup, which       *)
(* erases the first expired entry, whoever it belonged to. A lookup        *)
(* between the two finds the expired entry and gets a null pointer.        *)
(***************************************************************************)
EXTENDS Naturals, Sequences, SequencesExt, FiniteSets

(***************************************************************************)
(* queue_t                                                                 *)
(***************************************************************************)
CONSTANTS
  Consumer,   \* threads that pop
  Cap,        \* _max_elements
  MaxRaise    \* bound on the number of raise calls

VARIABLES
  queue,      \* _queue; elements are numbered in the order they were raised
  queueOn,    \* _continue
  qpc,        \* consumers: "out", "wait", "timedWait", "woken", "timedWoken"
  raised,     \* elements raised so far
  popped,     \* elements popped, in order
  lost        \* elements a full queue dropped

queueVars == <<queue, queueOn, qpc, raised, popped, lost>>

QueueInit ==
  /\ queue = <<>> /\ queueOn = TRUE /\ qpc = [c \in Consumer |-> "out"]
  /\ raised = 0 /\ popped = <<>> /\ lost = {}

Woken == [c \in Consumer |-> CASE qpc[c] = "wait" -> "woken"
                               [] qpc[c] = "timedWait" -> "timedWoken"
                               [] OTHER -> qpc[c]]

QueueRaise ==
  /\ raised < MaxRaise /\ queueOn
  /\ raised' = raised + 1
  /\ queue' = Append(IF Len(queue) = Cap THEN <<>> ELSE queue, raised + 1)
  /\ lost' = IF Len(queue) = Cap THEN lost \cup ToSet(queue) ELSE lost
  /\ qpc' = Woken
  /\ UNCHANGED <<queueOn, popped>>

PopTake(c) ==
  /\ popped' = Append(popped, Head(queue))
  /\ queue' = Tail(queue)
  /\ qpc' = [qpc EXCEPT ![c] = "out"]
  /\ UNCHANGED <<queueOn, raised, lost>>

Become(c, s) ==
  /\ qpc' = [qpc EXCEPT ![c] = s]
  /\ UNCHANGED <<queue, queueOn, raised, popped, lost>>

\* Entering pop(): stopped (nothing is returned), an element, or wait.
PopEnter(c) ==
  /\ qpc[c] = "out" /\ queueOn
  /\ IF queue # <<>> THEN PopTake(c) ELSE Become(c, "wait")

TimedPopEnter(c) ==
  /\ qpc[c] = "out" /\ queueOn
  /\ IF queue # <<>> THEN PopTake(c) ELSE Become(c, "timedWait")

\* Back from _cv.wait: stopped, or the loop's condition again.
PopResume(c) ==
  /\ qpc[c] = "woken"
  /\ IF ~queueOn THEN Become(c, "out")
     ELSE IF queue # <<>> THEN PopTake(c) ELSE Become(c, "wait")

\* Back from wait_for: an element first (even when stopped), then stopped or
\* another full delay.
TimedPopResume(c) ==
  /\ qpc[c] = "timedWoken"
  /\ IF queue # <<>> THEN PopTake(c)
     ELSE IF ~queueOn THEN Become(c, "out") ELSE Become(c, "timedWait")

TimedPopTimeout(c) == qpc[c] = "timedWait" /\ Become(c, "out")

\* Mutant of QueueStop: waiting consumers are not notified.
QueueStopSilent ==
  /\ queueOn /\ queueOn' = FALSE
  /\ UNCHANGED <<queue, qpc, raised, popped, lost>>

QueueStop ==
  /\ queueOn /\ queueOn' = FALSE /\ qpc' = Woken
  /\ UNCHANGED <<queue, raised, popped, lost>>

ConsumerStep(c) == PopEnter(c) \/ TimedPopEnter(c) \/ PopResume(c) \/ TimedPopResume(c)
           \/ TimedPopTimeout(c)

QueueNext == QueueRaise \/ QueueStop \/ \E c \in Consumer : ConsumerStep(c)

QueueSpec == QueueInit /\ [][QueueNext]_queueVars
FairQueueSpec == QueueSpec /\ \A c \in Consumer :
                      WF_queueVars(PopResume(c) \/ TimedPopResume(c))

----------------------------------------------------------------------------
\* What consumers see (queue_t raise and pop): every element at most once, in
\* the order raised, and an element is missing only because the queue was full;
\* a full queue goes as a whole, never in part.
FifoUpToOverflow ==
  /\ \A i, j \in DOMAIN popped : i < j => popped[i] < popped[j]
  /\ ToSet(popped) \cup ToSet(queue) \cup lost = 1 .. raised
  /\ Cardinality(lost) % Cap = 0

\* A consumer that waits waits for something that has not happened yet: the
\* queue is empty and not stopped (no lost wakeup).
QueueNoLostWakeup ==
  \A c \in Consumer : qpc[c] \in {"wait", "timedWait"} => queue = <<>> /\ queueOn

\* stop() releases every consumer: each leaves pop for good.
QueueStopped == ~queueOn
AllReleased == \A c \in Consumer : qpc[c] = "out"
StopReleases == QueueStopped ~> AllReleased

(***************************************************************************)
(* event_t                                                                 *)
(***************************************************************************)
CONSTANTS
  Waiter,    \* threads that call pop and view
  MaxEvent   \* bound on the number of raise calls

VARIABLES
  status,    \* _status: 0, or the number of the raise that filled it
  eventOn,   \* _continue
  wstate,    \* "out", or [op, timed, woken]: inside pop or view
  count,     \* raises so far
  taken      \* values popped, in order

eventVars == <<status, eventOn, wstate, count, taken>>

Out == [op |-> "out", timed |-> FALSE, woken |-> FALSE]

EventInit ==
  /\ status = 0 /\ eventOn = TRUE /\ wstate = [w \in Waiter |-> Out]
  /\ count = 0 /\ taken = <<>>

NotifyAll == [w \in Waiter |-> IF wstate[w] = Out THEN Out
                               ELSE [wstate[w] EXCEPT !.woken = TRUE]]

EventRaise ==
  /\ eventOn /\ count < MaxEvent
  /\ count' = count + 1 /\ status' = count + 1
  /\ wstate' = NotifyAll
  /\ UNCHANGED <<eventOn, taken>>

\* The end of pop or view with a value.
Deliver(w, op) ==
  /\ IF op = "pop" THEN taken' = Append(taken, status) /\ status' = 0
                   ELSE UNCHANGED <<status, taken>>
  /\ wstate' = [wstate EXCEPT ![w] = Out]
  /\ UNCHANGED <<eventOn, count>>

Go(w, s) ==
  /\ wstate' = [wstate EXCEPT ![w] = s]
  /\ UNCHANGED <<status, eventOn, count, taken>>

Enter(w, op, timed) ==
  /\ wstate[w] = Out /\ eventOn
  /\ IF status # 0 THEN Deliver(w, op)
     ELSE Go(w, [op |-> op, timed |-> timed, woken |-> FALSE])

\* After the wait: the untimed calls look at _continue first, the timed ones
\* at the slot first.
Resume(w) ==
  /\ wstate[w] # Out /\ wstate[w].woken
  /\ IF ~eventOn /\ (status = 0 \/ ~wstate[w].timed) THEN Go(w, Out)
     ELSE IF status # 0 THEN Deliver(w, wstate[w].op)
     ELSE Go(w, [wstate[w] EXCEPT !.woken = FALSE])

Timeout(w) == wstate[w] # Out /\ wstate[w].timed /\ ~wstate[w].woken /\ Go(w, Out)

EventStop ==
  /\ eventOn /\ eventOn' = FALSE /\ wstate' = NotifyAll
  /\ UNCHANGED <<status, count, taken>>

\* reset(): running again and empty; nobody is notified.
EventReset ==
  /\ eventOn' = TRUE /\ status' = 0
  /\ UNCHANGED <<wstate, count, taken>>

EventNext ==
  \/ EventRaise \/ EventStop \/ EventReset
  \/ \E w \in Waiter :
       \/ \E op \in {"pop", "view"}, timed \in BOOLEAN : Enter(w, op, timed)
       \/ Resume(w) \/ Timeout(w)

EventSpec == EventInit /\ [][EventNext]_eventVars

----------------------------------------------------------------------------
\* Of several threads in pop and view, one gets a raised value and no other gets
\* it again (event_t pop); popped values come in the order raised.
PoppedOnce ==
  /\ \A i, j \in DOMAIN taken : i < j => taken[i] < taken[j]
  /\ status \notin ToSet(taken)

\* A caller still waiting after being looked at has nothing to wait for but a
\* later raise or stop (event_t raise, stop: notify_all).
EventNoLostWakeup ==
  \A w \in Waiter : wstate[w] # Out /\ ~wstate[w].woken => status = 0

(***************************************************************************)
(* mail_raw_t                                                              *)
(***************************************************************************)
CONSTANTS
  User,      \* threads
  Names,     \* the highest mailbox name; names are 1 .. Names, in map order
  MaxPost    \* bound on the posts ever created

VARIABLES
  postName,  \* name of every post created so far, by number
  held,      \* [User -> posts it owns]
  registry,  \* id_to_post: [name -> post number, 0 for no entry]
  dying,     \* posts without owners whose destructor has not cleaned up yet
  nulls      \* lookups that returned a null pointer, by name

mailVars == <<postName, held, registry, dying, nulls>>

Name == 1 .. Names
Posts == DOMAIN postName
Owned == UNION {held[u] : u \in User}
Expired(n) == registry[n] # 0 /\ registry[n] \notin Owned

MailInit ==
  /\ postName = <<>> /\ held = [u \in User |-> {}]
  /\ registry = [n \in Name |-> 0] /\ dying = {} /\ nulls = {}

\* The name is registered: lock() of the weak pointer, null if it expired.
Find(u, n) ==
  /\ registry[n] # 0
  /\ IF Expired(n) THEN nulls' = nulls \cup {n} /\ UNCHANGED held
     ELSE held' = [held EXCEPT ![u] = @ \cup {registry[n]}] /\ UNCHANGED nulls
  /\ UNCHANGED <<postName, registry, dying>>

Create(u, n) ==
  /\ registry[n] = 0 /\ Len(postName) < MaxPost
  /\ postName' = Append(postName, n)
  /\ registry' = [registry EXCEPT ![n] = Len(postName')]
  /\ held' = [held EXCEPT ![u] = @ \cup {Len(postName')}]
  /\ UNCHANGED <<dying, nulls>>

Release(u, p) ==
  /\ p \in held[u]
  /\ held' = [held EXCEPT ![u] = @ \ {p}]
  /\ dying' = IF \E v \in User \ {u} : p \in held[v] THEN dying ELSE dying \cup {p}
  /\ UNCHANGED <<postName, registry, nulls>>

\* Mutant of Cleanup: the first entry is erased, expired or not.
CleanupFirst(p) ==
  /\ p \in dying /\ dying' = dying \ {p}
  /\ registry' = IF registry[1] # 0 THEN [registry EXCEPT ![1] = 0] ELSE registry
  /\ UNCHANGED <<postName, held, nulls>>

\* ~post_t: cleanup() erases the first expired entry and returns.
Cleanup(p) ==
  /\ p \in dying /\ dying' = dying \ {p}
  /\ registry' = IF \E n \in Name : Expired(n)
                 THEN [registry EXCEPT ![CHOOSE n \in Name : Expired(n)
                         /\ \A m \in Name : Expired(m) => n <= m] = 0]
                 ELSE registry
  /\ UNCHANGED <<postName, held, nulls>>

MailNext ==
  \/ \E u \in User, n \in Name : Find(u, n) \/ Create(u, n)
  \/ \E u \in User, p \in Posts : Release(u, p)
  \/ \E p \in dying : Cleanup(p)

MailSpec == MailInit /\ [][MailNext]_mailVars

----------------------------------------------------------------------------
\* Two threads that use the same name share one post (mail_raw_t event, queue):
\* an owned post is the registered one of its name, so a raise on one side is
\* never lost to a second post of the same name.
OnePostPerName == \A p \in Owned : registry[postName[p]] = p

\* cleanup erases whichever expired entry comes first, yet every post that
\* expires pays for exactly one entry: no stale name survives the destructors,
\* and a live entry is never erased.
CleanupBalanced == Cardinality({n \in Name : Expired(n)}) = Cardinality(dying)
=============================================================================
