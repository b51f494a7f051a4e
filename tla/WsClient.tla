-------------------------------- MODULE WsClient ------------------------------
(***************************************************************************)
(* The browser's WebSocket client and score store                          *)
(* (apps/frontend/src/lib/ws.ts), and the effect of App.tsx that starts    *)
(* and stops it.                                                           *)
(*                                                                         *)
(* Time is left out: the heartbeat and the reconnect timer fire when they  *)
(* fire, so the backoff delay and its attempt counter do not appear.       *)
(***************************************************************************)
EXTENDS WsWire

CONSTANTS
  NoSocket,     \* this.socket before the first connection
  MaxMounts     \* times React runs the effect of App: 1, or 2 under StrictMode in development

ASSUME ClientAssumption == NoSocket \notin Sockets /\ MaxMounts \in Nat

VARIABLES
  mounts,       \* times the effect has run
  mounted,      \* the effect has run and has not been cleaned up
  closed,       \* this.closed
  current,      \* this.socket
  timers,       \* reconnect timers pending
  heartbeat,    \* this.heartbeat is set
  queue,        \* this.queue
  status,       \* the store's connection status
  scores,       \* the store: the update shown for each route, by its place; 0 for none
  sent,         \* messages passed to send() so far; numbers them
  seen,         \* history: routes updated over the current socket
  written       \* history: number of the last message written to any connection

clientVars == <<mounts, mounted, closed, current, timers, heartbeat, queue, status, scores,
                sent, seen, written>>

ClientInit ==
  /\ mounts = 0 /\ mounted = FALSE /\ closed = FALSE
  /\ current = NoSocket
  /\ timers = 0 /\ heartbeat = FALSE /\ queue = <<>>
  /\ status = "connecting"
  /\ scores = [r \in Routes |-> 0]
  /\ sent = 0
  /\ seen = {}
  /\ written = 0

ClientTypeOK ==
  /\ mounts \in 0..MaxMounts /\ mounted \in BOOLEAN /\ closed \in BOOLEAN
  /\ current \in Sockets \cup {NoSocket}
  /\ timers \in Nat /\ heartbeat \in BOOLEAN /\ queue \in Seq(Commands)
  /\ status \in {"connecting", "open", "closed"}
  /\ scores \in [Routes -> 0..MaxUpdates]
  /\ sent \in 0..MaxSends
  /\ seen \subseteq Routes
  /\ written \in 0..MaxSends

IsOpen(k) == k # NoSocket /\ ready[k] = "open"

-------------------------------------------------------------------------------

\* connect(): nothing once closed, a new socket otherwise.
Connect ==
  IF closed
    THEN UNCHANGED <<wireVars, current, seen, status>>
    ELSE \E k \in Sockets :
           /\ Free(k)
           /\ current' = k
           /\ ready' = [ready EXCEPT ![k] = "connecting"]
           /\ link' = [link EXCEPT ![k] = "dialing"]
           /\ toHub' = [toHub EXCEPT ![k] = <<>>]
           /\ toClient' = [toClient EXCEPT ![k] = <<>>]
           /\ seen' = {}
           /\ status' = "connecting"
           /\ UNCHANGED <<served, faults>>

\* The effect of App runs: start().
Start ==
  /\ ~mounted /\ mounts < MaxMounts
  /\ mounted' = TRUE /\ mounts' = mounts + 1
  /\ Connect
  /\ UNCHANGED <<closed, timers, heartbeat, queue, scores, sent, written>>

\* Its cleanup: stop().  Closing a socket that is still connecting ends the connection at once.
Stop ==
  /\ mounted
  /\ mounted' = FALSE
  /\ closed' = TRUE
  /\ heartbeat' = FALSE
  /\ IF current # NoSocket /\ ready[current] \in {"connecting", "open"}
       THEN /\ link' = IF ready[current] = "connecting" /\ link[current] \in {"dialing", "up"}
                         THEN [link EXCEPT ![current] = "left"]
                         ELSE link
            /\ ready' = [ready EXCEPT ![current] = "closing"]
       ELSE UNCHANGED <<ready, link>>
  /\ UNCHANGED <<served, toHub, toClient, faults, mounts, current, timers, queue, status,
                 scores, sent, seen, written>>

\* Faulty variant of Send: only a connecting socket makes a message wait.
SendUnqueued(type, routeIds) ==
  /\ sent < MaxSends
  /\ sent' = sent + 1
  /\ LET msg == [n |-> sent + 1, type |-> type, routeIds |-> routeIds]
     IN  IF current # NoSocket /\ ready[current] # "connecting"
           THEN /\ toHub' = [toHub EXCEPT ![current] = Append(@, msg)]
                /\ written' = sent + 1
                /\ UNCHANGED queue
           ELSE /\ queue' = Append(queue, msg)
                /\ UNCHANGED <<toHub, written>>

\* send(): over an open socket, or into the queue.
Send(type, routeIds) ==
  /\ sent < MaxSends
  /\ sent' = sent + 1
  /\ LET msg == [n |-> sent + 1, type |-> type, routeIds |-> routeIds]
     IN  IF IsOpen(current)
           THEN /\ toHub' = [toHub EXCEPT ![current] = Append(@, msg)]
                /\ written' = sent + 1
                /\ UNCHANGED queue
           ELSE /\ queue' = Append(queue, msg)
                /\ UNCHANGED <<toHub, written>>

\* Code of the page sends a command; the views of this commit send none.  To unsubscribe from
\* nothing is to the hub what a ping is.
Command ==
  /\ mounts > 0
  /\ \E routeIds \in SUBSET Routes :
       \/ Send("subscribe", routeIds)
       \/ routeIds # {} /\ Send("unsubscribe", routeIds)
  /\ UNCHANGED <<ready, link, served, toClient, faults, mounts, mounted, closed, current,
                 timers, heartbeat, status, scores, seen>>

\* The heartbeat interval.
Ping ==
  /\ heartbeat
  /\ Send("ping", {})
  /\ UNCHANGED <<ready, link, served, toClient, faults, mounts, mounted, closed, current,
                 timers, heartbeat, status, scores, seen>>

\* onopen: the queue is drained, in order, into this.socket, and the heartbeat is set.
OnOpen(k) ==
  /\ ready[k] = "connecting" /\ link[k] \in {"up", "hungup"}
  /\ ready' = [ready EXCEPT ![k] = "open"]
  /\ status' = "open"
  /\ IF current = k
       THEN /\ toHub' = [toHub EXCEPT ![k] = @ \o queue]
            /\ written' = IF queue = <<>> THEN written ELSE queue[Len(queue)].n
            /\ queue' = <<>>
       ELSE UNCHANGED <<toHub, written, queue>>
  /\ heartbeat' = TRUE
  /\ UNCHANGED <<link, served, toClient, faults, mounts, mounted, closed, current, timers,
                 scores, sent, seen>>

\* onmessage: a score update replaces what the store has for its route.  A socket that is
\* closing dispatches no more messages.
OnMessage(k) ==
  /\ ready[k] \in {"open", "closing"}
  /\ toClient[k] # <<>>
  /\ toClient' = [toClient EXCEPT ![k] = Tail(@)]
  /\ LET d == Head(toClient[k])
     IN  IF ready[k] = "open"
           THEN /\ scores' = [scores EXCEPT ![d.routeId] = d.nth]
                /\ seen' = IF k = current THEN seen \cup {d.routeId} ELSE seen
           ELSE UNCHANGED <<scores, seen>>
  /\ UNCHANGED <<ready, link, served, toHub, faults, mounts, mounted, closed, current, timers,
                 heartbeat, queue, status, sent, written>>

\* The instance has closed the connection: readyState is CLOSING from here, in a task before
\* the one that runs onclose, so that the heartbeat may still fire in between.
HangUp(k) ==
  /\ ready[k] = "open" /\ link[k] = "hungup" /\ toClient[k] = <<>>
  /\ ready' = [ready EXCEPT ![k] = "closing"]
  /\ UNCHANGED <<link, served, toHub, toClient, faults, clientVars>>

\* The connection has ended as the client sees it: broken or refused, or closed by either
\* end with everything before that dispatched.
Ended(k) ==
  \/ link[k] \in {"cut", "failing"}
  \/ ready[k] = "closing" /\ toClient[k] = <<>>

\* What is left of a connection whose client has let go of it.
LinkAfter(k) ==
  CASE served[k] = NoHub -> "idle"
    [] served[k] # NoHub /\ link[k] \in {"cut", "failing"} -> link[k]
    [] OTHER -> "left"

\* Faulty variant of OnClose: the heartbeat goes on without a connection.
OnCloseBeating(k) ==
  /\ ready[k] # "none" /\ Ended(k)
  /\ ready' = [ready EXCEPT ![k] = "none"]
  /\ link' = [link EXCEPT ![k] = LinkAfter(k)]
  /\ toClient' = [toClient EXCEPT ![k] = <<>>]
  /\ status' = "closed"
  /\ timers' = IF closed THEN timers ELSE timers + 1
  /\ UNCHANGED <<served, toHub, faults, mounts, mounted, closed, current, heartbeat, queue,
                 scores, sent, seen, written>>

\* Faulty variant of OnClose: onerror and onclose both schedule a reconnect.
OnCloseTwice(k) ==
  /\ ready[k] # "none" /\ Ended(k)
  /\ ready' = [ready EXCEPT ![k] = "none"]
  /\ link' = [link EXCEPT ![k] = LinkAfter(k)]
  /\ toClient' = [toClient EXCEPT ![k] = <<>>]
  /\ heartbeat' = FALSE
  /\ status' = "closed"
  /\ timers' = IF closed THEN timers ELSE timers + 2
  /\ UNCHANGED <<served, toHub, faults, mounts, mounted, closed, current, queue, scores,
                 sent, seen, written>>

\* Faulty variant of OnClose: a failed connection is not tried again.
OnCloseGivingUp(k) ==
  /\ ready[k] # "none" /\ Ended(k)
  /\ ready' = [ready EXCEPT ![k] = "none"]
  /\ link' = [link EXCEPT ![k] = LinkAfter(k)]
  /\ toClient' = [toClient EXCEPT ![k] = <<>>]
  /\ heartbeat' = FALSE
  /\ status' = "closed"
  /\ timers' = IF closed \/ ready[k] = "connecting" THEN timers ELSE timers + 1
  /\ UNCHANGED <<served, toHub, faults, mounts, mounted, closed, current, queue, scores,
                 sent, seen, written>>

\* onclose, with the onerror before it when the connection failed: the heartbeat is
\* cleared whichever socket closed, and a reconnect is scheduled.
OnClose(k) ==
  /\ ready[k] # "none" /\ Ended(k)
  /\ ready' = [ready EXCEPT ![k] = "none"]
  /\ link' = [link EXCEPT ![k] = LinkAfter(k)]
  /\ toClient' = [toClient EXCEPT ![k] = <<>>]
  /\ heartbeat' = FALSE
  /\ status' = "closed"
  /\ timers' = IF closed THEN timers ELSE timers + 1
  /\ UNCHANGED <<served, toHub, faults, mounts, mounted, closed, current, queue, scores,
                 sent, seen, written>>

\* The reconnect timer.
Reconnect ==
  /\ timers > 0
  /\ timers' = timers - 1
  /\ Connect
  /\ UNCHANGED <<mounts, mounted, closed, heartbeat, queue, scores, sent, written>>

ClientNext ==
  \/ Start \/ Stop \/ Command \/ Ping \/ Reconnect
  \/ \E k \in Sockets : OnOpen(k) \/ OnMessage(k) \/ HangUp(k) \/ OnClose(k)
===============================================================================
