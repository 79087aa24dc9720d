----------------------------- MODULE PortMapping -----------------------------
(***************************************************************************)
(* UPnP port forwarding (upnp.cpp): a thread maps the program's ports on   *)
(* the router, renews the mappings every few minutes, because routers      *)
(* forget, and deletes them when the program ends. The router is external: *)
(* it may not answer, may refuse leases, may forget, and has mappings of   *)
(* other hosts.                                                            *)
(***************************************************************************)
EXTENDS Integers, FiniteSets

CONSTANTS Port,     \* ports to map; WebPort only when the web UI may be reached from the WAN
          WebPort, WanUi,
          Lease,    \* PORT_MAPPING_LIFETIME in refresh intervals
          MaxFault, \* bound on what the router does to us
          None

\* The mappings of deinit_t's constructor
Mappings == IF WanUi THEN Port \cup {WebPort} ELSE Port

VARIABLES
  table,     \* the router: per port None or [host, lease], lease 0 meaning for ever
  leases,    \* the router accepts leases
  reachable, \* discovery finds a valid IGD
  mapped,    \* mapped
  todo,      \* ports left in this round
  thread,    \* "discover", "map", "wait", "unmap" or "ended"
  shutdown,
  lost,      \* a round ended without a router, the last one
  refused,   \* a delete was refused
  faults
mapVars == <<table, leases, reachable, mapped, todo, thread, shutdown, lost, refused, faults>>

Init ==
  /\ table = [p \in Mappings |-> None] /\ leases = TRUE /\ reachable = TRUE /\ mapped = FALSE
  /\ todo = {} /\ thread = "discover" /\ shutdown = FALSE /\ lost = FALSE /\ refused = FALSE /\ faults = 0

Router == <<table, leases, reachable, faults>>

\* upnpDiscover and UPNP_GetValidIGD: without a router the round is over.
Discover ==
  /\ thread = "discover"
  /\ IF reachable THEN thread' = "map" /\ todo' = Mappings /\ lost' = FALSE /\ UNCHANGED mapped
     ELSE thread' = "wait" /\ mapped' = FALSE /\ lost' = TRUE /\ UNCHANGED todo
  /\ UNCHANGED <<shutdown, refused>> /\ UNCHANGED Router

\* map_upnp_port: a static mapping of ours is kept, a lease renewed, another host's
\* mapping deleted if the router lets us; a router that refuses leases, or answers
\* the query with an error, gets a static mapping.
Mapped(p) ==
  LET old == table[p]
      new == {[host |-> "us", lease |-> IF leases THEN Lease ELSE 0]}
  IN IF old # None /\ old.host = "us" /\ old.lease = 0 THEN {old}
     ELSE IF old # None /\ old.host = "other" THEN new \cup {old}
     ELSE new

MapPort(p) ==
  /\ thread = "map" /\ p \in todo /\ ~shutdown
  /\ \E m \in Mapped(p) : table' = [table EXCEPT ![p] = m]
  /\ todo' = todo \ {p}
  /\ UNCHANGED <<leases, reachable, mapped, thread, shutdown, lost, refused, faults>>

\* The end of a round, also when the program is to end.
RoundEnd ==
  /\ thread = "map" /\ (todo = {} \/ shutdown)
  /\ todo' = {} /\ mapped' = TRUE /\ thread' = "wait"
  /\ UNCHANGED <<shutdown, lost, refused>> /\ UNCHANGED Router

\* shutdown_event->view(REFRESH_INTERVAL): an interval passes, leases run.
WaitEnd ==
  /\ thread = "wait"
  /\ thread' = IF shutdown THEN IF mapped THEN "unmap" ELSE "ended" ELSE "discover"
  /\ todo' = IF thread' = "unmap" THEN Mappings ELSE {}
  /\ table' = IF shutdown THEN table
              ELSE [p \in Mappings |-> IF table[p] = None \/ table[p].lease = 0 THEN table[p]
                                       ELSE IF table[p].lease = 1 THEN None ELSE [table[p] EXCEPT !.lease = @ - 1]]
  /\ UNCHANGED <<leases, reachable, mapped, shutdown, lost, refused, faults>>

\* unmap_all_upnp_ports deletes by port, whoever the mapping belongs to.
Unmap(p) ==
  /\ thread = "unmap" /\ p \in todo /\ todo' = todo \ {p}
  /\ \/ reachable /\ table' = [table EXCEPT ![p] = None] /\ UNCHANGED refused
     \/ refused' = TRUE /\ UNCHANGED table
  /\ UNCHANGED <<leases, reachable, mapped, thread, shutdown, lost, faults>>

UnmapEnd ==
  /\ thread = "unmap" /\ todo = {} /\ thread' = "ended"
  /\ UNCHANGED <<todo, mapped, shutdown, lost, refused>> /\ UNCHANGED Router

Shutdown ==
  /\ ~shutdown /\ shutdown' = TRUE
  /\ UNCHANGED <<mapped, todo, thread, lost, refused>> /\ UNCHANGED Router

\* The router restarts, goes away or comes back, changes its mind about leases, or
\* another host takes a port that is free.
Fault ==
  /\ faults < MaxFault /\ thread # "ended" /\ faults' = faults + 1
  /\ \/ table' = [p \in Mappings |-> None] /\ UNCHANGED <<leases, reachable>>
     \/ reachable' = ~reachable /\ UNCHANGED <<table, leases>>
     \/ leases' = ~leases /\ UNCHANGED <<table, reachable>>
     \/ /\ \E p \in Mappings : table[p] = None /\ table' = [table EXCEPT ![p] = [host |-> "other", lease |-> 0]]
        /\ UNCHANGED <<leases, reachable>>
  /\ UNCHANGED <<mapped, todo, thread, shutdown, lost, refused>>

Next ==
  \/ Discover \/ RoundEnd \/ WaitEnd \/ UnmapEnd \/ Shutdown \/ Fault
  \/ \E p \in Mappings : MapPort(p) \/ Unmap(p)

Spec == Init /\ [][Next]_mapVars
Thread == Discover \/ RoundEnd \/ WaitEnd \/ UnmapEnd \/ \E p \in Mappings : MapPort(p) \/ Unmap(p)
\* The thread runs, and what a router lets happen again and again happens.
FairSpec == Spec /\ WF_mapVars(Thread)

(***************************************************************************)
(* Properties                                                              *)
(***************************************************************************)

\* A mapping is renewed before it expires: between two rounds that found the router,
\* a port that was mapped to this host still is, unless the router interfered.
LeasesOutlast ==
  thread = "wait" /\ thread' = "discover" /\ mapped =>
    \A p \in Mappings : table[p] # None /\ table[p].host = "us" => table'[p] # None

\* The inductive invariant behind it: a round that found the router renews what is
\* ours, and until the interval has passed nothing of it runs out.
Renewed(p) == table[p] # None /\ table[p].host = "us" => table[p].lease \in {0, Lease}
LeaseInv ==
  /\ table \in [Mappings -> {None} \cup [host : {"us", "other"}, lease : 0..Lease]]
  /\ thread = "map" /\ ~shutdown => \A p \in Mappings \ todo : Renewed(p)
  /\ thread = "wait" /\ mapped /\ ~shutdown => \A p \in Mappings : Renewed(p)

\* The program leaves no mapping behind, unless the last round missed the router
\* (it then forgets that it had mapped anything) or the router refused.
NothingLeftBehind ==
  thread = "ended" /\ ~lost /\ ~refused => \A p \in Mappings : table[p] = None \/ table[p].host # "us"

\* The inductive invariant behind it: the thread forgets its mappings only when
\* it finds no router, and what it has deleted nobody maps for it again.
PortInv ==
  /\ table = [p \in Mappings |-> table[p]]
  /\ thread = "wait" => mapped \/ lost
  /\ thread \in {"unmap", "ended"} /\ ~lost /\ ~refused =>
       \A p \in Mappings \ todo : table[p] = None \/ table[p].host # "us"
  /\ thread = "ended" => todo = {}

\* The thread ends when the program does.
Leaving == shutdown
Ended == thread = "ended"
ThreadEnds == Leaving ~> Ended
=============================================================================
