-------------------------------- MODULE WsWire --------------------------------
(***************************************************************************)
(* The WebSocket connections between a browser and the backend instances,  *)
(* as the hub and the client use them: two ends, a queue of messages each  *)
(* way, and the ways a connection ends.  External to the repository.       *)
(*                                                                         *)
(* A link is "up" once answered; "hungup" when the server end has closed   *)
(* and "left" when the client end has, the other being told; "cut" when it *)
(* is broken and nothing tells the server end, which neither sends pings   *)
(* nor sets a keepalive; "failing" when the server end has written to it   *)
(* since, so that its writes time out.                                     *)
(***************************************************************************)
EXTENDS Naturals, Sequences, FiniteSets

CONSTANTS
  Hubs,         \* backend instances, each with one WsHub
  Routes,       \* routes.id
  Sockets,      \* connections that can exist at a time
  NoHub,        \* the server end of a connection no hub has attached
  MaxSends,     \* bound on the messages the client sends
  MaxUpdates,   \* bound on the updates published for a route
  MaxFaults     \* bound on broken connections, lost Redis links and dead instances

ASSUME WireAssumption == NoHub \notin Hubs /\ MaxSends \in Nat /\ MaxUpdates \in Nat
                         /\ MaxFaults \in Nat

VARIABLES
  ready,        \* ready[k]: readyState at the client, "none" when the object is gone
  link,         \* link[k]: the connection itself
  served,       \* served[k]: the hub whose process holds the server end
  toHub,        \* toHub[k]: sent by the client, not yet handled by the hub
  toClient,     \* toClient[k]: sent by the hub, not yet dispatched at the client
  faults        \* faults spent so far

wireVars == <<ready, link, served, toHub, toClient, faults>>

Commands == [n: 1..MaxSends, type: {"subscribe", "unsubscribe"}, routeIds: SUBSET Routes]
              \cup [n: 1..MaxSends, type: {"ping"}, routeIds: {{}}]

\* An update is known by its place in the order in which the channel took the updates of its
\* route.  The window's time and score it carries are left out: neither end compares them.
Updates  == [routeId: Routes, nth: 1..MaxUpdates]

WireInit ==
  /\ ready = [k \in Sockets |-> "none"]
  /\ link = [k \in Sockets |-> "idle"]
  /\ served = [k \in Sockets |-> NoHub]
  /\ toHub = [k \in Sockets |-> <<>>]
  /\ toClient = [k \in Sockets |-> <<>>]
  /\ faults = 0

WireTypeOK ==
  /\ ready \in [Sockets -> {"none", "connecting", "open", "closing"}]
  /\ link \in [Sockets -> {"idle", "dialing", "up", "hungup", "left", "cut", "failing"}]
  /\ served \in [Sockets -> Hubs \cup {NoHub}]
  /\ toHub \in [Sockets -> Seq(Commands)]
  /\ toClient \in [Sockets -> Seq(Updates)]
  /\ faults \in 0..MaxFaults

Fault == faults < MaxFaults /\ faults' = faults + 1

\* Neither end remembers k.
Free(k) == ready[k] = "none" /\ served[k] = NoHub

\* The network breaks a connection, or loses the word that the client has closed it; each end
\* learns of it when it does, if it does.
Break(k) ==
  /\ link[k] \in {"dialing", "up", "left"}
  /\ Fault
  /\ link' = [link EXCEPT ![k] = "cut"]
  /\ UNCHANGED <<ready, served, toHub, toClient>>
===============================================================================
