--------------------------------- MODULE WsHub --------------------------------
(***************************************************************************)
(* The WebSocket hubs of the backend (apps/backend/src/ws-hub.ts), one per *)
(* instance, and the Redis channel between them.                           *)
(*                                                                         *)
(* A hub keeps for every attached socket the routes it asked for, fans the *)
(* score updates it hears on the channel out to the sockets interested,    *)
(* and forgets a socket when it closes.  The frames that only answer the   *)
(* client (hello, pong, error) are left out: no client acts on them.  They *)
(* could only make a break noticed earlier than OnGone must notice it.     *)
(***************************************************************************)
EXTENDS WsWire

VARIABLES
  up,           \* up[h]: the process runs
  listening,    \* listening[h]: its Redis subscription is in place
  inbox,        \* inbox[h]: updates the channel has for h, in order
  subscribers,  \* subscribers[k]: the hub's entry for socket k
  published     \* published[r]: updates of r that the channel has taken

hubVars == <<up, listening, inbox, subscribers, published>>

\* routeIds is a set or 'all'; here `all` says which.
Absent     == [on |-> FALSE, all |-> FALSE, routeIds |-> {}]
Everything == [on |-> TRUE, all |-> TRUE, routeIds |-> {}]
Subscriber == {Absent, Everything} \cup [on: {TRUE}, all: {FALSE}, routeIds: SUBSET Routes]

HubInit ==
  /\ up = [h \in Hubs |-> TRUE]
  /\ listening = [h \in Hubs |-> TRUE]
  /\ inbox = [h \in Hubs |-> <<>>]
  /\ subscribers = [k \in Sockets |-> Absent]
  /\ published = [r \in Routes |-> 0]

HubTypeOK ==
  /\ up \in [Hubs -> BOOLEAN]
  /\ listening \in [Hubs -> BOOLEAN]
  /\ inbox \in [Hubs -> Seq(Updates)]
  /\ subscribers \in [Sockets -> Subscriber]
  /\ published \in [Routes -> 0..MaxUpdates]

Interested(k, r) ==
  subscribers[k].on /\ (subscribers[k].all \/ r \in subscribers[k].routeIds)

-------------------------------------------------------------------------------

\* attach: a new socket is subscribed to everything.
Attach(h, k) ==
  /\ up[h]
  /\ ready[k] = "connecting" /\ link[k] = "dialing" /\ served[k] = NoHub
  /\ served' = [served EXCEPT ![k] = h]
  /\ link' = [link EXCEPT ![k] = "up"]
  /\ subscribers' = [subscribers EXCEPT ![k] = Everything]
  /\ UNCHANGED <<ready, toHub, toClient, faults, up, listening, inbox, published>>

\* Faulty variant of Resubscribed: routes are added to a socket that keeps everything.
ResubscribedBeside(sub, msg) ==
  CASE msg.type = "subscribe" /\ msg.routeIds = {} -> Everything
    [] msg.type = "subscribe" /\ msg.routeIds # {} -> [sub EXCEPT !.routeIds = @ \cup msg.routeIds]
    [] msg.type = "unsubscribe" -> [sub EXCEPT !.routeIds = @ \ msg.routeIds]
    [] OTHER -> sub

\* The first routes named narrow a socket; no routes at all widen it again;
\* unsubscribing takes nothing from a socket subscribed to everything.
Resubscribed(sub, msg) ==
  CASE msg.type = "subscribe" /\ msg.routeIds = {} -> Everything
    [] msg.type = "subscribe" /\ msg.routeIds # {} ->
         [on |-> TRUE, all |-> FALSE, routeIds |-> sub.routeIds \cup msg.routeIds]
    [] msg.type = "unsubscribe" /\ ~sub.all ->
         [sub EXCEPT !.routeIds = @ \ msg.routeIds]
    [] OTHER -> sub

\* The socket's 'message' event.
OnCommand(h, k) ==
  /\ up[h] /\ served[k] = h
  /\ toHub[k] # <<>>
  /\ toHub' = [toHub EXCEPT ![k] = Tail(@)]
  /\ subscribers' = [subscribers EXCEPT ![k] = Resubscribed(@, Head(toHub[k]))]
  /\ UNCHANGED <<ready, link, served, toClient, faults, up, listening, inbox, published>>

\* Faulty variant of OnGone: the entry stays.
OnGoneKeeping(h, k) ==
  /\ up[h] /\ served[k] = h
  /\ \/ link[k] \in {"cut", "failing"}
     \/ (link[k] = "left" \/ ready[k] = "closing") /\ toHub[k] = <<>>
  /\ served' = [served EXCEPT ![k] = NoHub]
  /\ link' = IF ready[k] = "none" THEN [link EXCEPT ![k] = "idle"] ELSE link
  /\ toHub' = [toHub EXCEPT ![k] = <<>>]
  /\ UNCHANGED <<ready, subscribers, toClient, faults, up, listening, inbox, published>>

\* The socket's 'close' or 'error' event: after what the client sent before closing, or
\* at any time once the connection is broken, if the break is noticed at all.
OnGone(h, k) ==
  /\ up[h] /\ served[k] = h
  /\ \/ link[k] \in {"cut", "failing"}
     \/ (link[k] = "left" \/ ready[k] = "closing") /\ toHub[k] = <<>>
  /\ served' = [served EXCEPT ![k] = NoHub]
  /\ subscribers' = [subscribers EXCEPT ![k] = Absent]
  /\ link' = IF ready[k] = "none" THEN [link EXCEPT ![k] = "idle"] ELSE link
  /\ toHub' = [toHub EXCEPT ![k] = <<>>]
  /\ UNCHANGED <<ready, toClient, faults, up, listening, inbox, published>>

\* publishScoreUpdate: the channel hands the update to every hub that listens.
PublishScoreUpdate(r) ==
  /\ \E h \in Hubs : up[h]
  /\ published[r] < MaxUpdates
  /\ published' = [published EXCEPT ![r] = @ + 1]
  /\ inbox' = [h \in Hubs |->
                 IF listening[h] THEN Append(inbox[h], [routeId |-> r, nth |-> published[r] + 1])
                                 ELSE inbox[h]]
  /\ UNCHANGED <<wireVars, up, listening, subscribers>>

\* Faulty variant of Fanout: a socket that cannot be written to ends the loop.
FanoutStopping(h) ==
  /\ up[h] /\ inbox[h] # <<>>
  /\ LET event == Head(inbox[h])
         to    == {k \in Sockets : served[k] = h /\ Interested(k, event.routeId)}
     IN  /\ toClient' = [k \in Sockets |-> IF k \in to /\ \A j \in to : link[j] = "up"
                                             THEN Append(toClient[k], event)
                                             ELSE toClient[k]]
         /\ link' = [k \in Sockets |-> IF k \in to /\ link[k] = "cut" THEN "failing" ELSE link[k]]
  /\ inbox' = [inbox EXCEPT ![h] = Tail(@)]
  /\ UNCHANGED <<ready, served, toHub, faults, up, listening, subscribers, published>>

\* The channel's 'message' event and fanout.  Writing to a dead socket fails alone, and is
\* what makes the server end notice that it is dead.
Fanout(h) ==
  /\ up[h] /\ inbox[h] # <<>>
  /\ LET event == Head(inbox[h])
         to    == {k \in Sockets : served[k] = h /\ Interested(k, event.routeId)}
     IN  /\ toClient' = [k \in Sockets |-> IF k \in to /\ link[k] = "up"
                                             THEN Append(toClient[k], event)
                                             ELSE toClient[k]]
         /\ link' = [k \in Sockets |-> IF k \in to /\ link[k] = "cut" THEN "failing" ELSE link[k]]
  /\ inbox' = [inbox EXCEPT ![h] = Tail(@)]
  /\ UNCHANGED <<ready, served, toHub, faults, up, listening, subscribers, published>>

-------------------------------------------------------------------------------

\* The subscriber connection to Redis is lost, with what the channel had for it; ioredis
\* reconnects and subscribes again, and nothing is replayed.
RedisDrop(h) ==
  /\ listening[h]
  /\ Fault
  /\ listening' = [listening EXCEPT ![h] = FALSE]
  /\ inbox' = [inbox EXCEPT ![h] = <<>>]
  /\ UNCHANGED <<ready, link, served, toHub, toClient, up, subscribers, published>>

Listen(h) ==
  /\ up[h] /\ ~listening[h]
  /\ listening' = [listening EXCEPT ![h] = TRUE]
  /\ UNCHANGED <<wireVars, up, inbox, subscribers, published>>

\* The process goes, and with it the server end of its sockets, as `ended` leaves them.
Down(h, ended) ==
  /\ up[h]
  /\ Fault
  /\ up' = [up EXCEPT ![h] = FALSE]
  /\ listening' = [listening EXCEPT ![h] = FALSE]
  /\ inbox' = [inbox EXCEPT ![h] = <<>>]
  /\ subscribers' = [k \in Sockets |-> IF served[k] = h THEN Absent ELSE subscribers[k]]
  /\ link' = [k \in Sockets |-> CASE served[k] = h /\ link[k] = "up" -> ended
                                   [] served[k] = h /\ ready[k] = "none" -> "idle"
                                   [] OTHER -> link[k]]
  /\ served' = [k \in Sockets |-> IF served[k] = h THEN NoHub ELSE served[k]]
  /\ toHub' = [k \in Sockets |-> IF served[k] = h THEN <<>> ELSE toHub[k]]
  /\ UNCHANGED <<ready, toClient, published>>

\* close(): every socket is closed, the map is cleared, the Redis clients quit.
Close(h) == Down(h, "hungup")
Kill(h)  == Down(h, "cut")

\* The instance is started again.
Restart(h) ==
  /\ ~up[h]
  /\ up' = [up EXCEPT ![h] = TRUE]
  /\ UNCHANGED <<wireVars, listening, inbox, subscribers, published>>

\* Nothing answers while every instance is down.
Refuse(k) ==
  /\ ready[k] = "connecting" /\ link[k] = "dialing"
  /\ \A h \in Hubs : ~up[h]
  /\ link' = [link EXCEPT ![k] = "cut"]
  /\ UNCHANGED <<ready, served, toHub, toClient, faults, hubVars>>

HubNext ==
  \/ \E h \in Hubs, k \in Sockets : Attach(h, k) \/ OnCommand(h, k) \/ OnGone(h, k)
  \/ \E h \in Hubs : Fanout(h) \/ RedisDrop(h) \/ Listen(h) \/ Close(h) \/ Kill(h) \/ Restart(h)
  \/ \E r \in Routes : PublishScoreUpdate(r)
  \/ \E k \in Sockets : Refuse(k)
===============================================================================
