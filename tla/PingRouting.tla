---------------------------- MODULE PingRouting ----------------------------
(***************************************************************************)
(* How a session learns the UDP address of its client (stream.cpp).        *)
(* recv_ping announces a message queue to the receiving thread, waits for  *)
(* a ping and takes the announcement back; recvThread applies these        *)
(* announcements, in order, whenever a datagram arrives, and hands the     *)
(* datagram to the queue its sender or its payload selects. The video and  *)
(* the audio socket have a map each and work alike: this is one of them.   *)
(***************************************************************************)
EXTENDS Naturals, Sequences, Functions

CONSTANTS
  Client,     \* sessions, one per client
  Legacy,     \* the clients without ML_FF_SESSION_ID_V1
  Addr,       \* Addr[c]: the address the client sends from
  MaxPing,    \* bound on the datagrams
  NoQueue     \* the null message queue of an announcement

VARIABLES
  regs,       \* message_queue_queue: <<key, owner or NoQueue>>
  routes,     \* peer_to_session: key -> owner of the message queue
  box,        \* box[c]: the pings in the session's message queue
  ppc,        \* where the session's recv_ping is
  pings       \* datagrams received

pingVars == <<regs, routes, box, ppc, pings>>

\* av_session_id_t is the payload of a session or an address.
IdKey(c) == <<"payload", c>>
AddrKey(c) == <<"address", Addr[c]>>
NoRoutes == [k \in {} |-> NoQueue]

Init ==
  /\ regs = <<>> /\ routes = NoRoutes /\ pings = 0
  /\ box = [c \in Client |-> <<>>]
  /\ ppc = [c \in Client |-> "out"]

\* The announcements of one call, the address first and for legacy clients only.
Announce(c, q) == (IF c \in Legacy THEN << <<AddrKey(c), q>> >> ELSE <<>>)
                  \o << <<IdKey(c), q>> >>

\* recv_ping up to its wait.
Register(c) ==
  /\ ppc[c] = "out"
  /\ regs' = regs \o Announce(c, c)
  /\ ppc' = [ppc EXCEPT ![c] = "wait"]
  /\ UNCHANGED <<routes, box, pings>>

\* Mutant of Unregister: the address stays.
UnregisterIdOnly(c) ==
  /\ regs' = Append(regs, <<IdKey(c), NoQueue>>)
  /\ box' = [box EXCEPT ![c] = <<>>]
  /\ UNCHANGED <<routes, pings>>

\* The fail guard: messages->stop() and the announcements taken back.
Unregister(c) ==
  /\ regs' = regs \o Announce(c, NoQueue)
  /\ box' = [box EXCEPT ![c] = <<>>]
  /\ UNCHANGED <<routes, pings>>

IsPing(c, m) == m = "payload" \/ (c \in Legacy /\ m = "PING")

\* A ping was found; the session goes on to capture.
Accept(c) ==
  /\ ppc[c] = "wait" /\ box[c] # <<>> /\ IsPing(c, Head(box[c]))
  /\ ppc' = [ppc EXCEPT ![c] = "accepted"]
  /\ Unregister(c)

\* Received non-ping: the loop goes on.
Skip(c) ==
  /\ ppc[c] = "wait" /\ box[c] # <<>> /\ ~IsPing(c, Head(box[c]))
  /\ box' = [box EXCEPT ![c] = Tail(@)]
  /\ UNCHANGED <<regs, routes, ppc, pings>>

\* ping_timeout has passed.
Timeout(c) ==
  /\ ppc[c] = "wait"
  /\ ppc' = [ppc EXCEPT ![c] = "failed"]
  /\ Unregister(c)

\* std::map::emplace leaves an existing entry alone; erase removes any.
Apply(m, reg) ==
  IF reg[2] = NoQueue THEN Restrict(m, DOMAIN m \ {reg[1]})
  ELSE [k \in DOMAIN m \cup {reg[1]} |-> IF k \in DOMAIN m THEN m[k] ELSE reg[2]]

\* populate_peer_to_session pops one announcement after the other.
Applied(m, rs) ==
  LET after[n \in 0 .. Len(rs)] == IF n = 0 THEN m ELSE Apply(after[n - 1], rs[n])
  IN after[Len(rs)]
Populate == Applied(routes, regs)

\* A datagram from c's address: the 4 bytes "PING", something else of that
\* size, or an SS_PING with c's payload. raise() on a stopped queue does nothing.
Receive(c, m) ==
  /\ pings < MaxPing
  /\ pings' = pings + 1
  /\ regs' = <<>> /\ routes' = Populate
  /\ LET key == IF m = "payload" THEN IdKey(c) ELSE AddrKey(c)
         to == IF key \in DOMAIN Populate THEN {Populate[key]} ELSE {}
     IN box' = [d \in Client |-> IF d \in to /\ ppc[d] = "wait"
                                 THEN Append(box[d], m) ELSE box[d]]
  /\ UNCHANGED ppc

Next ==
  \E c \in Client :
    \/ Register(c) \/ Accept(c) \/ Skip(c) \/ Timeout(c)
    \/ \E m \in {"PING", "junk", "payload"} :
         (m = "payload" => c \notin Legacy) /\ Receive(c, m)

Spec == Init /\ [][Next]_pingVars

----------------------------------------------------------------------------
\* A route leads to a session that waits for a ping, or its removal is already
\* announced: the receiving thread keeps no queue of a finished recv_ping,
\* however late it learns of the end, also when sessions share an address.
NoDeadRoute ==
  \A k \in DOMAIN routes :
    ppc[routes[k]] = "wait" \/ \E i \in DOMAIN regs : regs[i] = <<k, NoQueue>>

\* Pings by payload cannot miss a waiting session: once the announcements are
\* applied its payload leads to it, whatever other sessions, legacy ones from
\* the same address included, announce or take back in between.
WaitingIsRouted ==
  \A c \in Client : ppc[c] = "wait" =>
    IdKey(c) \in DOMAIN Populate /\ Populate[IdKey(c)] = c

(***************************************************************************)
(* The inductive invariant behind the two.                                 *)
(***************************************************************************)
Keys(c) == {IdKey(c)} \cup (IF c \in Legacy THEN {AddrKey(c)} ELSE {})

\* That key k leads to c is true or about to be taken back: c waits, or k is
\* erased by an announcement after the first i.
Live(k, c, i) ==
  /\ c \in Client /\ k \in Keys(c)
  /\ ppc[c] = "wait" \/ \E j \in DOMAIN regs : j > i /\ regs[j] = <<k, NoQueue>>

RouteInv ==
  /\ ppc \in [Client -> {"out", "wait", "accepted", "failed"}]
  /\ regs \in Seq((UNION {Keys(c) : c \in Client}) \X (Client \cup {NoQueue}))
  /\ \A k \in DOMAIN routes : Live(k, routes[k], 0)
  /\ \A i \in DOMAIN regs : regs[i][2] # NoQueue => Live(regs[i][1], regs[i][2], i)
  /\ \A c \in Client :
       IF ppc[c] = "wait" THEN IdKey(c) \in DOMAIN Populate /\ Populate[IdKey(c)] = c
       ELSE IdKey(c) \notin DOMAIN Populate
=============================================================================
