------------------------------ MODULE ScoreFanout -----------------------------
(***************************************************************************)
(* A browser and the backend instances together: WsClient and WsHub over   *)
(* the connections of WsWire, from the publication of a score update to    *)
(* the score the page shows.                                               *)
(***************************************************************************)
EXTENDS WsHub, WsClient

vars == <<wireVars, hubVars, clientVars>>

Init == WireInit /\ HubInit /\ ClientInit

Next ==
  \/ HubNext /\ UNCHANGED clientVars
  \/ ClientNext /\ UNCHANGED hubVars
  \/ \E k \in Sockets : Break(k) /\ UNCHANGED <<hubVars, clientVars>>

Spec == Init /\ [][Next]_vars

\* Event loops run, timers fire, an instance is restarted and an answer to a connection
\* comes.  A client learns of a broken connection, because it writes a ping every 25 seconds
\* and a browser gives up dialing and closing; a hub learns of one it has written to, or that
\* the client has closed, and nothing obliges it to learn of one cut in silence.  Nor is the
\* page obliged to be opened, a command or an update to be sent, or anything to fail.
Hub(A)    == A /\ UNCHANGED clientVars
Client(A) == A /\ UNCHANGED hubVars
Fairness ==
  /\ \A h \in Hubs :
       WF_vars(Hub(Fanout(h))) /\ WF_vars(Hub(Listen(h))) /\ WF_vars(Hub(Restart(h)))
  /\ \A k \in Sockets :
       /\ WF_vars(Hub(Refuse(k)))
       /\ WF_vars(Hub(\E h \in Hubs : Attach(h, k)))
       /\ WF_vars(Hub(\E h \in Hubs : OnCommand(h, k)))
       /\ WF_vars(Hub(link[k] # "cut" /\ \E h \in Hubs : OnGone(h, k)))
       /\ WF_vars(Client(OnOpen(k)))
       /\ WF_vars(Client(OnMessage(k)))
       /\ WF_vars(Client(HangUp(k)))
       /\ WF_vars(Client(OnClose(k)))
  /\ WF_vars(Client(Reconnect))

FairSpec == Spec /\ Fairness

-------------------------------------------------------------------------------

TypeOK == WireTypeOK /\ HubTypeOK /\ ClientTypeOK

\* The client is connected once: it never has two sockets, nor a reconnect pending beside
\* a socket that has not closed, whatever the order of errors, closes, timers and stop().
OneConnection == timers + Cardinality({k \in Sockets : ready[k] # "none"}) <= 1

\* Commands reach the wire in the order they were sent, and none overtakes or repeats one
\* that waits: what is queued is newer than anything written to any connection.
CommandsInOrder ==
  /\ \A m, n \in 1..Len(queue) : m < n => queue[m].n < queue[n].n
  /\ \A n \in 1..Len(queue) : written < queue[n].n

\* The heartbeat beats while the connection is open and not beyond it: no close of a socket
\* takes the heartbeat of the one after it, and no pings gather in the queue while the backend
\* is away.  One may wait there when an instance hangs up, between two tasks of the browser.
HeartbeatWhileOpen ==
  /\ IsOpen(current) => heartbeat
  /\ heartbeat => ~closed /\ current # NoSocket /\ ready[current] \in {"open", "closing"}

\* Over one connection the page takes the updates of a route in the order in which the channel
\* took them, through the instance's inbox, the socket and the unsubscriptions in between.
AppliedInOrder ==
  [][\A r \in Routes : r \in seen /\ scores'[r] # scores[r] => scores[r] < scores'[r]]_vars

\* A hub forgets a socket whose client has closed it, and a broken one that it has written to,
\* unless a break keeps from it that the client has gone.
SubscriberReleased ==
  \A k \in Sockets :
    subscribers[k].on /\ (ready[k] = "none" \/ link[k] = "failing")
      ~> ~subscribers[k].on \/ link[k] = "cut"

\* An update that the channel handed to a hub reaches the page if it is connected to that
\* hub and interested, whatever becomes of the hub's other sockets.
UpdateReaches(h, k, r, t) ==
  LET Linked == served[k] = h /\ link[k] = "up" /\ ready[k] \in {"connecting", "open"}
      Due    == Linked /\ Interested(k, r) /\ [routeId |-> r, nth |-> t]
                                                  \in {inbox[h][n] : n \in 1..Len(inbox[h])}
  IN  Due ~> scores[r] = t \/ ~Linked \/ ~Interested(k, r) \/ ~listening[h]
UpdatesReach ==
  \A h \in Hubs, k \in Sockets, r \in Routes, t \in 1..MaxUpdates : UpdateReaches(h, k, r, t)

\* A page that stays open gets connected, however often the connection is lost.
MountedOpens == mounted ~> status = "open" \/ ~mounted
===============================================================================
