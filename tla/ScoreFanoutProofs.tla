--------------------------- MODULE ScoreFanoutProofs ---------------------------
(***************************************************************************)
(* Theorems about ScoreFanout, for any number of instances, sockets,       *)
(* routes, commands, updates, mounts and faults: the client is connected   *)
(* once, its commands keep their order, its heartbeat lasts as long as the *)
(* connection, and one connection brings updates in the channel's order.   *)
(***************************************************************************)
EXTENDS ScoreFanout, FiniteSetTheorems, TLAPS

-------------------------------------------------------------------------------
\* The types of what an action leaves, component by component.

\* What the hub's answer to a command leaves is an entry again.
LEMMA ResubscribedType ==
  ASSUME NEW sub \in Subscriber, NEW msg \in Commands
  PROVE  Resubscribed(sub, msg) \in Subscriber
<1>1. msg.type \in {"subscribe", "unsubscribe", "ping"} /\ msg.routeIds \in SUBSET Routes
  BY DEF Commands
<1>2. CASE msg.type = "subscribe" /\ msg.routeIds = {}
  BY <1>2 DEF Resubscribed, Subscriber
<1>3. CASE msg.type = "subscribe" /\ msg.routeIds # {}
  <2>1. sub.routeIds \in SUBSET Routes
    <3>1. CASE sub \in {Absent, Everything}
      BY <3>1 DEF Absent, Everything
    <3>2. CASE sub \in [on: {TRUE}, all: {FALSE}, routeIds: SUBSET Routes]
      BY <3>2
    <3> QED
      BY <3>1, <3>2 DEF Subscriber
  <2>2. Resubscribed(sub, msg) =
          [on |-> TRUE, all |-> FALSE, routeIds |-> sub.routeIds \cup msg.routeIds]
    BY <1>3 DEF Resubscribed
  <2> QED
    BY <1>1, <2>1, <2>2 DEF Subscriber
<1>4. CASE msg.type = "unsubscribe" /\ ~sub.all
  <2>1. Resubscribed(sub, msg) = [sub EXCEPT !.routeIds = @ \ msg.routeIds]
    BY <1>4 DEF Resubscribed
  <2>2. CASE sub = Absent
    BY <2>1, <2>2 DEF Subscriber, Absent
  <2>3. CASE sub \in [on: {TRUE}, all: {FALSE}, routeIds: SUBSET Routes]
    BY <2>1, <2>3 DEF Subscriber
  <2>4. sub # Everything
    BY <1>4 DEF Everything
  <2> QED
    BY <2>2, <2>3, <2>4 DEF Subscriber
<1>5. CASE msg.type = "ping" \/ (msg.type = "unsubscribe" /\ sub.all)
  <2>1. msg.type # "subscribe" /\ ~(msg.type = "unsubscribe" /\ ~sub.all)
    BY <1>5
  <2>2. Resubscribed(sub, msg) = sub
    BY <2>1 DEF Resubscribed
  <2> QED
    BY <2>2
<1> QED
  BY <1>1, <1>2, <1>3, <1>4, <1>5

LEMMA TypeInit == Init => TypeOK
<1> SUFFICES ASSUME Init PROVE TypeOK
  OBVIOUS
<1> USE WireAssumption, ClientAssumption
<1>1. WireTypeOK
  BY DEF Init, WireInit, WireTypeOK
<1>2. HubTypeOK
  BY DEF Init, HubInit, HubTypeOK, Subscriber
<1>3. ClientTypeOK
  <2>1. 0 \in 0..MaxMounts /\ 0 \in 0..MaxUpdates /\ 0 \in 0..MaxSends
    OBVIOUS
  <2>2. queue \in Seq(Commands) /\ seen \subseteq Routes
    BY DEF Init, ClientInit
  <2> QED
    BY <2>1, <2>2 DEF Init, ClientInit, ClientTypeOK
<1> QED
  BY <1>1, <1>2, <1>3 DEF TypeOK

LEMMA AttachType ==
  ASSUME TypeOK, NEW h \in Hubs, NEW k \in Sockets, Attach(h, k)
  PROVE  WireTypeOK' /\ HubTypeOK'
<1> USE DEF TypeOK, Attach
<1>1. WireTypeOK'
  BY DEF WireTypeOK
<1>2. HubTypeOK'
  BY DEF HubTypeOK, Subscriber
<1> QED
  BY <1>1, <1>2

LEMMA OnCommandType ==
  ASSUME TypeOK, NEW h \in Hubs, NEW k \in Sockets, OnCommand(h, k)
  PROVE  WireTypeOK' /\ HubTypeOK'
<1> USE DEF TypeOK, OnCommand
<1>1. toHub[k] \in Seq(Commands) /\ toHub[k] # <<>> /\ subscribers[k] \in Subscriber
  BY DEF WireTypeOK, HubTypeOK
<1>2. Head(toHub[k]) \in Commands /\ Tail(toHub[k]) \in Seq(Commands)
  BY <1>1
<1>3. Resubscribed(subscribers[k], Head(toHub[k])) \in Subscriber
  BY <1>1, <1>2, ResubscribedType
<1>4. WireTypeOK'
  BY <1>2 DEF WireTypeOK
<1>5. HubTypeOK'
  BY <1>3 DEF HubTypeOK
<1> QED
  BY <1>4, <1>5

LEMMA OnGoneType ==
  ASSUME TypeOK, NEW h \in Hubs, NEW k \in Sockets, OnGone(h, k)
  PROVE  WireTypeOK' /\ HubTypeOK'
<1> USE DEF TypeOK, OnGone
<1>1. WireTypeOK'
  BY DEF WireTypeOK
<1>2. HubTypeOK'
  BY DEF HubTypeOK, Subscriber
<1> QED
  BY <1>1, <1>2

LEMMA PublishType ==
  ASSUME TypeOK, NEW r \in Routes, PublishScoreUpdate(r)
  PROVE  WireTypeOK' /\ HubTypeOK'
<1> USE DEF TypeOK, PublishScoreUpdate
<1>1. WireTypeOK'
  BY DEF WireTypeOK, wireVars
<1>2. published[r] + 1 \in 1..MaxUpdates /\ published' \in [Routes -> 0..MaxUpdates]
  BY WireAssumption DEF HubTypeOK
<1>3. [routeId |-> r, nth |-> published[r] + 1] \in Updates
  BY <1>2 DEF Updates
<1>4. inbox' \in [Hubs -> Seq(Updates)]
  BY <1>3 DEF HubTypeOK
<1>5. HubTypeOK'
  BY <1>2, <1>4 DEF HubTypeOK
<1> QED
  BY <1>1, <1>5

LEMMA FanoutType ==
  ASSUME TypeOK, NEW h \in Hubs, Fanout(h)
  PROVE  WireTypeOK' /\ HubTypeOK'
<1> USE DEF TypeOK, Fanout
<1>1. inbox[h] \in Seq(Updates) /\ inbox[h] # <<>>
  BY DEF HubTypeOK
<1>2. Head(inbox[h]) \in Updates /\ Tail(inbox[h]) \in Seq(Updates)
  BY <1>1
<1>3. toClient' \in [Sockets -> Seq(Updates)]
  BY <1>2 DEF WireTypeOK
<1>4. WireTypeOK'
  BY <1>3 DEF WireTypeOK
<1>5. HubTypeOK'
  BY <1>2 DEF HubTypeOK
<1> QED
  BY <1>4, <1>5

LEMMA DownType ==
  ASSUME TypeOK, NEW h \in Hubs, NEW ended \in {"hungup", "cut"}, Down(h, ended)
  PROVE  WireTypeOK' /\ HubTypeOK'
<1> USE DEF TypeOK, Down
<1>1. WireTypeOK'
  BY WireAssumption DEF WireTypeOK, Fault
<1>2. Absent \in Subscriber
  BY DEF Subscriber
<1>3. subscribers' \in [Sockets -> Subscriber]
  BY <1>2 DEF HubTypeOK
<1>4. HubTypeOK'
  BY <1>3 DEF HubTypeOK
<1> QED
  BY <1>1, <1>4

LEMMA HubType == TypeOK /\ HubNext => WireTypeOK' /\ HubTypeOK'
<1> SUFFICES ASSUME TypeOK, HubNext PROVE WireTypeOK' /\ HubTypeOK'
  OBVIOUS
<1>1. ASSUME NEW h \in Hubs, RedisDrop(h) PROVE WireTypeOK' /\ HubTypeOK'
  BY <1>1, WireAssumption DEF TypeOK, WireTypeOK, HubTypeOK, RedisDrop, Fault
<1>2. ASSUME NEW h \in Hubs, Listen(h) PROVE WireTypeOK' /\ HubTypeOK'
  BY <1>2 DEF TypeOK, WireTypeOK, HubTypeOK, Listen, wireVars
<1>3. ASSUME NEW h \in Hubs, Restart(h) PROVE WireTypeOK' /\ HubTypeOK'
  BY <1>3 DEF TypeOK, WireTypeOK, HubTypeOK, Restart, wireVars
<1>4. ASSUME NEW k \in Sockets, Refuse(k) PROVE WireTypeOK' /\ HubTypeOK'
  BY <1>4 DEF TypeOK, WireTypeOK, HubTypeOK, Refuse, hubVars
<1> QED
  BY <1>1, <1>2, <1>3, <1>4, AttachType, OnCommandType, OnGoneType, FanoutType, PublishType,
     DownType DEF HubNext, Close, Kill

LEMMA ConnectType ==
  ASSUME TypeOK, Connect
  PROVE  /\ WireTypeOK'
         /\ current' \in Sockets \cup {NoSocket}
         /\ seen' \subseteq Routes /\ status' \in {"connecting", "open", "closed"}
<1>1. CASE closed
  BY <1>1 DEF TypeOK, WireTypeOK, ClientTypeOK, Connect, wireVars
<1>2. CASE ~closed
  <2>1. PICK k \in Sockets :
          /\ current' = k
          /\ ready' = [ready EXCEPT ![k] = "connecting"]
          /\ link' = [link EXCEPT ![k] = "dialing"]
          /\ toHub' = [toHub EXCEPT ![k] = <<>>]
          /\ toClient' = [toClient EXCEPT ![k] = <<>>]
          /\ seen' = {}
          /\ status' = "connecting"
          /\ UNCHANGED <<served, faults>>
    BY <1>2 DEF Connect
  <2>2. WireTypeOK'
    BY <2>1 DEF TypeOK, WireTypeOK
  <2> QED
    BY <2>1, <2>2, WireAssumption DEF TypeOK, ClientTypeOK
<1> QED
  BY <1>1, <1>2

LEMMA SendType ==
  ASSUME TypeOK, NEW type \in {"subscribe", "unsubscribe", "ping"}, NEW routeIds \in SUBSET Routes,
         type = "ping" => routeIds = {}, Send(type, routeIds)
  PROVE  /\ sent' \in 0..MaxSends /\ toHub' \in [Sockets -> Seq(Commands)]
         /\ written' \in 0..MaxSends /\ queue' \in Seq(Commands)
<1> DEFINE msg == [n |-> sent + 1, type |-> type, routeIds |-> routeIds]
<1>1. sent + 1 \in 1..MaxSends /\ sent' = sent + 1
  BY WireAssumption DEF TypeOK, ClientTypeOK, Send
<1>2. msg \in Commands
  BY <1>1 DEF Commands
<1>3. CASE IsOpen(current)
  <2>1. /\ current \in Sockets
        /\ toHub' = [toHub EXCEPT ![current] = Append(@, msg)]
        /\ written' = sent + 1
        /\ queue' = queue
    BY <1>3 DEF TypeOK, ClientTypeOK, Send, IsOpen
  <2> HIDE DEF msg
  <2>2. Append(toHub[current], msg) \in Seq(Commands)
    BY <1>2, <2>1 DEF TypeOK, WireTypeOK
  <2>3. sent + 1 \in 0..MaxSends
    BY <1>1
  <2> QED
    BY <1>1, <2>1, <2>2, <2>3 DEF TypeOK, WireTypeOK, ClientTypeOK
<1>4. CASE ~IsOpen(current)
  <2>1. queue' = Append(queue, msg) /\ UNCHANGED <<toHub, written>>
    BY <1>4 DEF Send
  <2> HIDE DEF msg
  <2>2. Append(queue, msg) \in Seq(Commands)
    BY <1>2 DEF TypeOK, ClientTypeOK
  <2>3. sent' \in 0..MaxSends
    BY <1>1
  <2> QED
    BY <2>1, <2>2, <2>3 DEF TypeOK, WireTypeOK, ClientTypeOK
<1> QED
  BY <1>3, <1>4

LEMMA OnOpenType ==
  ASSUME TypeOK, NEW k \in Sockets, OnOpen(k)
  PROVE  WireTypeOK' /\ ClientTypeOK'
<1>1. /\ toHub' \in [Sockets -> Seq(Commands)] /\ written' \in 0..MaxSends
      /\ queue' \in Seq(Commands)
  <2>1. queue # <<>> => queue[Len(queue)] \in Commands
    BY DEF TypeOK, ClientTypeOK
  <2>2. queue # <<>> => queue[Len(queue)].n \in 0..MaxSends
    BY <2>1, WireAssumption DEF Commands
  <2>3. toHub[k] \o queue \in Seq(Commands)
    BY DEF TypeOK, WireTypeOK, ClientTypeOK
  <2>4. CASE current = k
    <3>1. written' \in 0..MaxSends
      BY <2>2, <2>4 DEF TypeOK, ClientTypeOK, OnOpen
    <3>2. toHub' = [toHub EXCEPT ![k] = toHub[k] \o queue] /\ queue' = <<>>
      BY <2>4 DEF TypeOK, WireTypeOK, OnOpen
    <3> QED
      BY <2>3, <3>1, <3>2 DEF TypeOK, WireTypeOK
  <2>5. CASE current # k
    BY <2>5 DEF TypeOK, WireTypeOK, ClientTypeOK, OnOpen
  <2> QED
    BY <2>4, <2>5
<1>2. WireTypeOK'
  BY <1>1 DEF TypeOK, WireTypeOK, OnOpen
<1>3. ClientTypeOK'
  BY <1>1 DEF TypeOK, ClientTypeOK, OnOpen
<1> QED
  BY <1>2, <1>3

LEMMA OnMessageType ==
  ASSUME TypeOK, NEW k \in Sockets, OnMessage(k)
  PROVE  WireTypeOK' /\ ClientTypeOK'
<1>1. toClient[k] \in Seq(Updates) /\ toClient[k] # <<>>
  BY DEF TypeOK, WireTypeOK, OnMessage
<1>2. Head(toClient[k]) \in Updates /\ Tail(toClient[k]) \in Seq(Updates)
  BY <1>1
<1>3. Head(toClient[k]).routeId \in Routes /\ Head(toClient[k]).nth \in 0..MaxUpdates
  BY <1>2, WireAssumption DEF Updates
<1>4. WireTypeOK'
  BY <1>2 DEF TypeOK, WireTypeOK, OnMessage
<1>5. scores' \in [Routes -> 0..MaxUpdates] /\ seen' \subseteq Routes
  BY <1>3 DEF TypeOK, ClientTypeOK, OnMessage
<1>6. ClientTypeOK'
  BY <1>5 DEF TypeOK, ClientTypeOK, OnMessage
<1> QED
  BY <1>4, <1>6

LEMMA HangUpType ==
  ASSUME TypeOK, NEW k \in Sockets, HangUp(k)
  PROVE  WireTypeOK' /\ ClientTypeOK'
BY DEF TypeOK, WireTypeOK, ClientTypeOK, HangUp, clientVars

LEMMA ClientType == TypeOK /\ ClientNext => WireTypeOK' /\ ClientTypeOK'
<1> SUFFICES ASSUME TypeOK, ClientNext PROVE WireTypeOK' /\ ClientTypeOK'
  OBVIOUS
<1>1. CASE Start
  <2>1. Connect
    BY <1>1 DEF Start
  <2>2. mounts' \in 0..MaxMounts
    BY <1>1, ClientAssumption DEF TypeOK, ClientTypeOK, Start
  <2> QED
    BY <1>1, <2>1, <2>2, ConnectType DEF TypeOK, ClientTypeOK, Start
<1>2. CASE Stop
  <2>1. WireTypeOK'
    BY <1>2 DEF TypeOK, WireTypeOK, ClientTypeOK, Stop
  <2>2. ClientTypeOK'
    BY <1>2 DEF TypeOK, ClientTypeOK, Stop
  <2> QED
    BY <2>1, <2>2
<1>3. CASE Command
  <2>1. PICK type \in {"subscribe", "unsubscribe"}, routeIds \in SUBSET Routes :
          Send(type, routeIds)
    BY <1>3 DEF Command
  <2>2. /\ sent' \in 0..MaxSends /\ toHub' \in [Sockets -> Seq(Commands)]
        /\ written' \in 0..MaxSends /\ queue' \in Seq(Commands)
    BY <2>1, SendType
  <2> QED
    BY <1>3, <2>2 DEF TypeOK, WireTypeOK, ClientTypeOK, Command
<1>4. CASE Ping
  <2>1. /\ sent' \in 0..MaxSends /\ toHub' \in [Sockets -> Seq(Commands)]
        /\ written' \in 0..MaxSends /\ queue' \in Seq(Commands)
    BY <1>4, SendType DEF Ping
  <2> QED
    BY <1>4, <2>1 DEF TypeOK, WireTypeOK, ClientTypeOK, Ping
<1>5. CASE Reconnect
  <2>1. Connect /\ timers' \in Nat
    BY <1>5 DEF TypeOK, ClientTypeOK, Reconnect
  <2> QED
    BY <1>5, <2>1, ConnectType DEF TypeOK, ClientTypeOK, Reconnect
<1>6. ASSUME NEW k \in Sockets, OnClose(k) PROVE WireTypeOK' /\ ClientTypeOK'
  <2>1. WireTypeOK'
    BY <1>6 DEF TypeOK, WireTypeOK, OnClose, LinkAfter
  <2>2. timers' \in Nat /\ status' \in {"connecting", "open", "closed"}
    BY <1>6 DEF TypeOK, ClientTypeOK, OnClose
  <2>3. heartbeat' \in BOOLEAN
    BY <1>6 DEF OnClose
  <2>4. ClientTypeOK'
    BY <1>6, <2>2, <2>3 DEF TypeOK, ClientTypeOK, OnClose
  <2> QED
    BY <2>1, <2>4
<1> QED
  BY <1>1, <1>2, <1>3, <1>4, <1>5, <1>6, OnOpenType, OnMessageType, HangUpType DEF ClientNext

LEMMA TypeStep == TypeOK /\ [Next]_vars => TypeOK'
<1> SUFFICES ASSUME TypeOK, [Next]_vars PROVE TypeOK'
  OBVIOUS
<1>1. CASE HubNext /\ UNCHANGED clientVars
  BY <1>1, HubType DEF TypeOK, ClientTypeOK, clientVars
<1>2. CASE ClientNext /\ UNCHANGED hubVars
  BY <1>2, ClientType DEF TypeOK, HubTypeOK, hubVars
<1>3. ASSUME NEW k \in Sockets, Break(k), UNCHANGED <<hubVars, clientVars>> PROVE TypeOK'
  <2>1. WireTypeOK'
    BY <1>3, WireAssumption DEF TypeOK, WireTypeOK, Break, Fault
  <2> QED
    BY <1>3, <2>1 DEF TypeOK, HubTypeOK, ClientTypeOK, hubVars, clientVars
<1>4. CASE UNCHANGED vars
  BY <1>4 DEF TypeOK, WireTypeOK, HubTypeOK, ClientTypeOK, vars, wireVars, hubVars, clientVars
<1> QED
  BY <1>1, <1>2, <1>3, <1>4 DEF Next

\* Every variable of the hub, the client and the connections keeps its type.
THEOREM FanoutTypeCorrect == Spec => []TypeOK
BY TypeInit, TypeStep, PTL DEF Spec

-------------------------------------------------------------------------------
\* One connection, and the order of what waits for it.

\* A socket that has not closed is the client's own, and no timer is pending beside it.
Single ==
  /\ timers <= 1
  /\ \A k \in Sockets : ready[k] # "none" => k = current /\ timers = 0

\* The effect runs for the first time on a client that has done nothing.
Untouched ==
  ~mounted /\ ~closed => timers = 0 /\ \A k \in Sockets : ready[k] = "none"

\* What waits is numbered in the order sent, beyond all that was written.
Waiting ==
  /\ \A n \in 1..Len(queue) : queue[n].n <= sent
  /\ written <= sent
  /\ CommandsInOrder

\* Nothing waits for a socket that is open.
Drained == IsOpen(current) => queue = <<>>

ClientInv == TypeOK /\ Single /\ Untouched /\ Waiting /\ Drained

\* What connect() does to the sockets: nothing once closed, and otherwise one that neither
\* end remembers starts to connect.
LEMMA Connects ==
  ASSUME TypeOK, Connect
  PROVE  \/ closed /\ UNCHANGED <<wireVars, current, seen, status>>
         \/ ~closed /\ \E k \in Sockets :
              /\ Free(k)
              /\ current' = k
              /\ ready' = [ready EXCEPT ![k] = "connecting"]
              /\ link' = [link EXCEPT ![k] = "dialing"]
              /\ toHub' = [toHub EXCEPT ![k] = <<>>]
              /\ toClient' = [toClient EXCEPT ![k] = <<>>]
              /\ seen' = {}
              /\ UNCHANGED served
BY DEF Connect

\* The hub's steps and the network's leave the client's end of every socket alone.
LEMMA HubKeepsReady ==
  ASSUME HubNext \/ \E k \in Sockets : Break(k)
  PROVE  UNCHANGED ready
<1>1. ASSUME NEW h \in Hubs, NEW k \in Sockets, Attach(h, k) \/ OnCommand(h, k) \/ OnGone(h, k)
      PROVE  UNCHANGED ready
  BY <1>1 DEF Attach, OnCommand, OnGone
<1>2. ASSUME NEW h \in Hubs, Fanout(h) \/ RedisDrop(h) \/ Listen(h) \/ Restart(h)
      PROVE  UNCHANGED ready
  BY <1>2 DEF Fanout, RedisDrop, Listen, Restart, wireVars
<1>3. ASSUME NEW h \in Hubs, Close(h) \/ Kill(h) PROVE UNCHANGED ready
  BY <1>3 DEF Close, Kill, Down
<1>4. ASSUME NEW r \in Routes, PublishScoreUpdate(r) PROVE UNCHANGED ready
  BY <1>4 DEF PublishScoreUpdate, wireVars
<1>5. ASSUME NEW k \in Sockets, Refuse(k) \/ Break(k) PROVE UNCHANGED ready
  BY <1>5 DEF Refuse, Break
<1> QED
  BY <1>1, <1>2, <1>3, <1>4, <1>5 DEF HubNext

LEMMA ClientInvInit == Init => ClientInv
<1> SUFFICES ASSUME Init PROVE ClientInv
  OBVIOUS
<1>1. TypeOK /\ Single /\ Untouched
  BY TypeInit DEF Init, WireInit, ClientInit, Single, Untouched
<1>2. queue = <<>> /\ sent = 0 /\ written = 0
  BY DEF Init, ClientInit
<1>3. Waiting /\ Drained
  BY <1>2 DEF Waiting, CommandsInOrder, Drained
<1> QED
  BY <1>1, <1>3 DEF ClientInv

\* connect() keeps the client's invariant when it is called with nothing connected or pending,
\* whatever else its caller changes.
LEMMA ConnectSingle ==
  ASSUME TypeOK, Connect, UNCHANGED closed,
         timers' \in {0, 1},
         ~closed => timers' = 0 /\ \A k \in Sockets : ready[k] = "none",
         closed => \A k \in Sockets : ready[k] # "none" => k = current /\ timers' = 0,
         mounted' \/ closed'
  PROVE  Single' /\ Untouched'
<1>1. Untouched'
  BY DEF Untouched
<1>2. CASE closed
  BY <1>1, <1>2, Connects DEF Single, wireVars
<1>3. CASE ~closed
  <2>1. PICK k \in Sockets : current' = k /\ ready' = [ready EXCEPT ![k] = "connecting"]
    BY <1>3, Connects
  <2> QED
    BY <1>1, <1>3, <2>1 DEF Single, TypeOK, WireTypeOK
<1> QED
  BY <1>2, <1>3

LEMMA ConnectWaiting ==
  ASSUME TypeOK, Waiting, Drained, Connect, UNCHANGED <<queue, sent, written>>
  PROVE  Waiting' /\ Drained'
<1>1. CASE closed
  BY <1>1, Connects DEF Waiting, CommandsInOrder, Drained, IsOpen, wireVars
<1>2. CASE ~closed
  <2>1. PICK k \in Sockets : current' = k /\ ready' = [ready EXCEPT ![k] = "connecting"]
    BY <1>2, Connects
  <2>2. Drained'
    BY <2>1 DEF Drained, IsOpen, TypeOK, WireTypeOK
  <2> QED
    BY <2>2 DEF Waiting, CommandsInOrder
<1> QED
  BY <1>1, <1>2

\* A message is numbered beyond all others, and goes to the end of the queue or, past an empty
\* queue, to the socket.
LEMMA SendWaiting ==
  ASSUME TypeOK, Waiting, Drained, UNCHANGED <<ready, current>>,
         NEW type \in {"subscribe", "unsubscribe", "ping"}, NEW routeIds \in SUBSET Routes,
         Send(type, routeIds)
  PROVE  Waiting' /\ Drained'
<1>1. sent \in Nat /\ sent' = sent + 1 /\ queue \in Seq(Commands)
  BY WireAssumption DEF TypeOK, ClientTypeOK, Send
<1>2. /\ \A n \in 1..Len(queue) : queue[n].n \in Nat
      /\ written \in Nat
  BY WireAssumption DEF TypeOK, ClientTypeOK, Commands
<1>3. CASE IsOpen(current)
  <2>1. queue = <<>> /\ queue' = <<>> /\ written' = sent + 1
    BY <1>3 DEF Drained, Send
  <2> QED
    BY <1>1, <2>1 DEF Waiting, CommandsInOrder, Drained
<1>4. CASE ~IsOpen(current)
  <2>1. /\ queue' = Append(queue, [n |-> sent + 1, type |-> type, routeIds |-> routeIds])
        /\ written' = written
    BY <1>4 DEF Send
  <2>2. /\ Len(queue') = Len(queue) + 1 /\ queue'[Len(queue) + 1].n = sent + 1
        /\ \A n \in 1..Len(queue) : queue'[n] = queue[n]
    BY <1>1, <2>1
  <2>3. \A n \in 1..Len(queue') : n \in 1..Len(queue) \/ n = Len(queue) + 1
    BY <1>1, <2>2
  <2>4. /\ \A n \in 1..Len(queue') : queue'[n].n <= sent'
        /\ written' <= sent'
    BY <1>1, <1>2, <2>1, <2>2, <2>3 DEF Waiting
  <2>5. \A n \in 1..Len(queue') : written' < queue'[n].n
    BY <1>1, <1>2, <2>1, <2>2, <2>3 DEF Waiting, CommandsInOrder
  <2>6. ASSUME NEW m \in 1..Len(queue'), NEW n \in 1..Len(queue'), m < n
        PROVE  queue'[m].n < queue'[n].n
    <3>1. m \in 1..Len(queue)
      BY <1>1, <2>2, <2>6
    <3> QED
      BY <1>1, <1>2, <2>2, <2>3, <2>6, <3>1 DEF Waiting, CommandsInOrder
  <2>7. Drained'
    BY <1>4 DEF Drained, IsOpen
  <2> QED
    BY <2>4, <2>5, <2>6, <2>7 DEF Waiting, CommandsInOrder
<1> QED
  BY <1>3, <1>4

LEMMA OnOpenKeeps ==
  ASSUME ClientInv, NEW k \in Sockets, OnOpen(k)
  PROVE  Single' /\ Untouched' /\ Waiting' /\ Drained'
<1> USE DEF ClientInv
<1>1. current = k /\ timers = 0 /\ ready' = [ready EXCEPT ![k] = "open"]
  BY DEF Single, OnOpen
<1>2. queue' = <<>>
  BY <1>1 DEF OnOpen
<1>3. Single' /\ Untouched'
  BY <1>1 DEF Single, Untouched, OnOpen, TypeOK, WireTypeOK
<1>4. written' <= sent'
  <2>1. queue # <<>> => queue[Len(queue)].n <= sent
    BY DEF Waiting, TypeOK, ClientTypeOK
  <2> QED
    BY <1>1, <2>1 DEF OnOpen, Waiting
<1>5. Waiting' /\ Drained'
  BY <1>2, <1>4 DEF Waiting, CommandsInOrder, Drained
<1> QED
  BY <1>3, <1>5

LEMMA StopKeeps ==
  ASSUME ClientInv, Stop
  PROVE  Single' /\ Untouched' /\ Waiting' /\ Drained'
<1> USE DEF ClientInv
<1>1. UNCHANGED <<current, timers, queue, sent, written>> /\ closed'
  BY DEF Stop
<1>2. \/ ready' = ready
      \/ current \in Sockets /\ ready' = [ready EXCEPT ![current] = "closing"]
  BY DEF Stop, TypeOK, ClientTypeOK
<1>3. Single'
  BY <1>1, <1>2 DEF Stop, Single, TypeOK, WireTypeOK
<1>4. Untouched' /\ Waiting'
  BY <1>1 DEF Untouched, Waiting, CommandsInOrder
<1>5. Drained'
  BY <1>1, <1>2 DEF Drained, IsOpen, TypeOK, WireTypeOK
<1> QED
  BY <1>3, <1>4, <1>5

LEMMA OnCloseKeeps ==
  ASSUME ClientInv, NEW k \in Sockets, OnClose(k)
  PROVE  Single' /\ Untouched' /\ Waiting' /\ Drained'
<1> USE DEF ClientInv
<1>1. k = current /\ timers = 0 /\ ready' = [ready EXCEPT ![k] = "none"]
  BY DEF Single, OnClose
<1>2. UNCHANGED <<mounted, closed, current, queue, sent, written>>
  BY DEF OnClose
<1>3. \A j \in Sockets : ready'[j] = "none"
  BY <1>1 DEF Single, TypeOK, WireTypeOK
<1>4. timers' <= 1
  BY <1>1 DEF OnClose
<1>5. mounted \/ closed
  BY DEF Untouched, OnClose
<1>6. Single' /\ Untouched'
  BY <1>2, <1>3, <1>4, <1>5 DEF Single, Untouched
<1>7. Waiting' /\ Drained'
  BY <1>1, <1>2, <1>3 DEF Waiting, CommandsInOrder, Drained, IsOpen
<1> QED
  BY <1>6, <1>7

LEMMA HangUpKeeps ==
  ASSUME ClientInv, NEW k \in Sockets, HangUp(k)
  PROVE  Single' /\ Untouched' /\ Waiting' /\ Drained'
<1> USE DEF ClientInv, HangUp, clientVars
<1>1. ready[k] = "open" /\ ready' = [ready EXCEPT ![k] = "closing"]
  OBVIOUS
<1>2. Single' /\ Untouched'
  BY <1>1 DEF Single, Untouched, TypeOK, WireTypeOK
<1>3. Waiting' /\ Drained'
  BY <1>1 DEF Waiting, CommandsInOrder, Drained, IsOpen, TypeOK, WireTypeOK
<1> QED
  BY <1>2, <1>3

LEMMA ClientInvStep == ClientInv /\ [Next]_vars => ClientInv'
<1> SUFFICES ASSUME ClientInv, [Next]_vars PROVE ClientInv'
  OBVIOUS
<1>1. TypeOK'
  BY TypeStep DEF ClientInv
<1> DEFINE Kept == Single' /\ Untouched' /\ Waiting' /\ Drained'
<1>2. ASSUME UNCHANGED <<ready, mounted, closed, current, timers, queue, sent, written>>
      PROVE  Kept
  BY <1>2 DEF ClientInv, Single, Untouched, Waiting, CommandsInOrder, Drained, IsOpen
<1> SUFFICES Kept
  BY <1>1 DEF ClientInv
<1>3. CASE (HubNext \/ \E k \in Sockets : Break(k)) /\ UNCHANGED clientVars
  BY <1>2, <1>3, HubKeepsReady DEF clientVars
<1>4. CASE Start
  <2>1. Connect /\ mounted' /\ UNCHANGED <<closed, timers, queue, sent, written>>
    BY <1>4 DEF Start
  <2>2. ~mounted /\ (~closed => timers = 0 /\ \A k \in Sockets : ready[k] = "none")
    BY <1>4 DEF Start, ClientInv, Untouched
  <2>3. timers' \in {0, 1}
    BY <2>1 DEF ClientInv, Single, TypeOK, ClientTypeOK
  <2>4. Single' /\ Untouched'
    BY <2>1, <2>2, <2>3, ConnectSingle DEF ClientInv, Single
  <2> QED
    BY <2>1, <2>4, ConnectWaiting DEF ClientInv
<1>5. CASE Reconnect
  <2>1. /\ Connect /\ UNCHANGED <<mounted, closed, queue, sent, written>>
        /\ timers > 0 /\ timers' = timers - 1
    BY <1>5 DEF Reconnect
  <2>2. timers = 1 /\ timers' = 0 /\ \A k \in Sockets : ready[k] = "none"
    BY <2>1 DEF ClientInv, Single, TypeOK, ClientTypeOK
  <2>3. mounted \/ closed
    BY <2>2 DEF ClientInv, Untouched
  <2>4. Single' /\ Untouched'
    BY <2>1, <2>2, <2>3, ConnectSingle DEF ClientInv
  <2> QED
    BY <2>1, <2>4, ConnectWaiting DEF ClientInv
<1>6. CASE Stop
  BY <1>6, StopKeeps
<1>7. ASSUME NEW type \in {"subscribe", "unsubscribe", "ping"}, NEW routeIds \in SUBSET Routes,
             Send(type, routeIds), UNCHANGED <<ready, mounted, closed, current, timers>>
      PROVE  Kept
  <2>1. Waiting' /\ Drained'
    BY <1>7, SendWaiting DEF ClientInv
  <2> QED
    BY <1>7, <2>1 DEF ClientInv, Single, Untouched
<1>8. CASE Command
  <2>1. PICK type \in {"subscribe", "unsubscribe"}, routeIds \in SUBSET Routes :
          Send(type, routeIds)
    BY <1>8 DEF Command
  <2> QED
    BY <1>7, <1>8, <2>1 DEF Command
<1>9. CASE Ping
  BY <1>7, <1>9 DEF Ping
<1>10. ASSUME NEW k \in Sockets, OnMessage(k) PROVE Kept
  BY <1>2, <1>10 DEF OnMessage
<1>11. CASE UNCHANGED vars
  BY <1>2, <1>11 DEF vars, wireVars, clientVars
<1> QED
  BY <1>3, <1>4, <1>5, <1>6, <1>8, <1>9, <1>10, <1>11, OnOpenKeeps, HangUpKeeps,
     OnCloseKeeps DEF Next, ClientNext

LEMMA ClientInvHolds == Spec => []ClientInv
BY ClientInvInit, ClientInvStep, PTL DEF Spec

LEMMA SingleCounts == ClientInv => OneConnection
<1> SUFFICES ASSUME ClientInv PROVE OneConnection
  OBVIOUS
<1> DEFINE live == {k \in Sockets : ready[k] # "none"}
<1>1. timers \in 0..1
  BY DEF ClientInv, Single, TypeOK, ClientTypeOK
<1>2. CASE live = {}
  BY <1>1, <1>2, FS_EmptySet DEF OneConnection
<1>3. CASE live # {}
  <2>1. live = {current} /\ timers = 0
    BY <1>3 DEF ClientInv, Single
  <2>2. Cardinality(live) = 1
    BY <2>1, FS_Singleton
  <2> QED
    BY <2>1, <2>2 DEF OneConnection
<1> QED
  BY <1>2, <1>3

\* The client never has two sockets, nor a reconnect pending beside one that has not closed,
\* for any number of sockets, mounts and faults.
THEOREM ConnectedOnce == Spec => []OneConnection
BY ClientInvHolds, SingleCounts, PTL

\* Commands are written in the order they were sent, and none overtakes one that waits.
THEOREM CommandsKeepOrder == Spec => []CommandsInOrder
<1>1. ClientInv => CommandsInOrder
  BY DEF ClientInv, Waiting
<1> QED
  BY <1>1, ClientInvHolds, PTL

\* A stopped client has no socket that opens or is open.
Stopped == closed => \A k \in Sockets : ready[k] \in {"none", "closing"}

BeatInv == HeartbeatWhileOpen /\ Stopped

LEMMA BeatConnect ==
  ASSUME ClientInv, BeatInv, Connect, UNCHANGED <<closed, heartbeat>>,
         ~closed => \A k \in Sockets : ready[k] = "none"
  PROVE  BeatInv'
<1>1. CASE closed
  BY <1>1, Connects DEF ClientInv, BeatInv, HeartbeatWhileOpen, Stopped, IsOpen, wireVars
<1>2. CASE ~closed
  <2>1. PICK k \in Sockets : current' = k /\ ready' = [ready EXCEPT ![k] = "connecting"]
    BY <1>2, Connects DEF ClientInv
  <2>2. ~heartbeat
    BY <1>2 DEF BeatInv, HeartbeatWhileOpen, ClientInv, TypeOK, ClientTypeOK
  <2> QED
    BY <1>2, <2>1, <2>2 DEF ClientInv, TypeOK, WireTypeOK, BeatInv, HeartbeatWhileOpen, Stopped,
                            IsOpen
<1> QED
  BY <1>1, <1>2

\* A socket that opens or closes is the client's own: no other one's heartbeat is touched.
LEMMA BeatSocket ==
  ASSUME ClientInv, BeatInv, NEW k \in Sockets, OnOpen(k) \/ HangUp(k) \/ OnClose(k)
  PROVE  BeatInv'
<1> USE ClientAssumption DEF ClientInv, TypeOK, WireTypeOK, BeatInv
<1>1. k = current /\ ready[k] # "none"
  BY DEF Single, OnOpen, HangUp, OnClose
<1>2. CASE OnOpen(k)
  BY <1>1, <1>2 DEF OnOpen, HeartbeatWhileOpen, Stopped, IsOpen
<1>3. CASE HangUp(k)
  BY <1>1, <1>3 DEF HangUp, clientVars, HeartbeatWhileOpen, Stopped, IsOpen
<1>4. CASE OnClose(k)
  BY <1>1, <1>4 DEF OnClose, HeartbeatWhileOpen, Stopped, IsOpen
<1> QED
  BY <1>2, <1>3, <1>4

LEMMA BeatStep == ClientInv /\ BeatInv /\ [Next]_vars => BeatInv'
<1> SUFFICES ASSUME ClientInv, BeatInv, [Next]_vars PROVE BeatInv'
  OBVIOUS
<1>1. ASSUME UNCHANGED <<ready, closed, current, heartbeat>> PROVE BeatInv'
  BY <1>1 DEF BeatInv, HeartbeatWhileOpen, Stopped, IsOpen
<1>2. CASE (HubNext \/ \E k \in Sockets : Break(k)) /\ UNCHANGED clientVars
  BY <1>1, <1>2, HubKeepsReady DEF clientVars
<1>3. CASE Start
  <2>1. Connect /\ UNCHANGED <<closed, heartbeat>> /\ ~mounted
    BY <1>3 DEF Start
  <2> QED
    BY <2>1, BeatConnect DEF ClientInv, Untouched
<1>4. CASE Reconnect
  <2>1. Connect /\ UNCHANGED <<closed, heartbeat>> /\ timers > 0
    BY <1>4 DEF Reconnect
  <2> QED
    BY <2>1, BeatConnect DEF ClientInv, Single
<1>5. CASE Stop
  <2>1. closed' /\ heartbeat' = FALSE /\ current' = current
    BY <1>5 DEF Stop
  <2>2. \A k \in Sockets : ready[k] # "none" => k = current
    BY DEF ClientInv, Single
  <2>3. \A k \in Sockets : ready'[k] \in {"none", "closing"}
    BY <1>5, <2>2, ClientAssumption DEF Stop, ClientInv, TypeOK, WireTypeOK, ClientTypeOK
  <2> QED
    BY <2>1, <2>3 DEF BeatInv, HeartbeatWhileOpen, Stopped, IsOpen, ClientInv, TypeOK,
                      ClientTypeOK
<1>6. CASE Command \/ Ping \/ \E k \in Sockets : OnMessage(k)
  BY <1>1, <1>6 DEF Command, Ping, OnMessage
<1>7. CASE UNCHANGED vars
  BY <1>1, <1>7 DEF vars, wireVars, clientVars
<1> QED
  BY <1>2, <1>3, <1>4, <1>5, <1>6, <1>7, BeatSocket DEF Next, ClientNext

\* The heartbeat beats as long as the connection is open, and after that only until the closing
\* socket has closed: no socket's close takes the heartbeat of another, and none is left behind.
THEOREM BeatsWithConnection == Spec => []HeartbeatWhileOpen
<1>1. Init => BeatInv
  BY DEF Init, WireInit, ClientInit, BeatInv, HeartbeatWhileOpen, Stopped, IsOpen
<1>2. BeatInv => HeartbeatWhileOpen
  BY DEF BeatInv
<1> QED
  BY <1>1, <1>2, BeatStep, ClientInvHolds, PTL DEF Spec

-------------------------------------------------------------------------------
\* The order of updates, from the channel to the page.

Among(s)    == {s[n] : n \in 1..Len(s)}
Older(d, e) == d.routeId = e.routeId => d.nth <= e.nth
Sorted(s)   == \A m, n \in 1..Len(s) : m < n => Older(s[m], s[n])

\* What the channel has for an instance and what is under way to the page is in order, and
\* not beyond what was published.
InOrder ==
  /\ \A h \in Hubs : Sorted(inbox[h]) /\ \A e \in Among(inbox[h]) : e.nth <= published[e.routeId]
  /\ \A k \in Sockets :
       Sorted(toClient[k]) /\ \A d \in Among(toClient[k]) : d.nth <= published[d.routeId]

\* What a connection carries is older than what its instance has still to hand out.
CarriedFirst ==
  \A k \in Sockets : served[k] \in Hubs =>
    \A d \in Among(toClient[k]), e \in Among(inbox[served[k]]) : Older(d, e)

\* What the current connection has brought to the page is older than all it will still bring.
ShownFirst ==
  /\ \A r \in seen : scores[r] <= published[r]
  /\ \A k \in Sockets : k = current =>
       /\ \A d \in Among(toClient[k]) : d.routeId \in seen => scores[d.routeId] <= d.nth
       /\ served[k] \in Hubs =>
            \A e \in Among(inbox[served[k]]) : e.routeId \in seen => scores[e.routeId] <= e.nth

\* A connection that nobody has answered has brought nothing.
DialedEmpty ==
  \A k \in Sockets : link[k] = "dialing" => toClient[k] = <<>> /\ (k = current => seen = {})

OrderInv == InOrder /\ CarriedFirst /\ ShownFirst /\ DialedEmpty

\* Sequences of updates, and what is in them.
LEMMA AmongEmpty == Among(<<>>) = {} /\ Sorted(<<>>)
BY DEF Among, Sorted

LEMMA AmongUpdates ==
  ASSUME NEW s \in Seq(Updates), NEW d \in Among(s)
  PROVE  d \in Updates /\ d.routeId \in Routes /\ d.nth \in Nat
<1>1. PICK n \in 1..Len(s) : d = s[n]
  BY DEF Among
<1>2. d \in Updates
  BY <1>1
<1> QED
  BY <1>2, WireAssumption DEF Updates

LEMMA AmongTail ==
  ASSUME NEW s \in Seq(Updates), s # <<>>
  PROVE  Head(s) \in Among(s) /\ Among(Tail(s)) \subseteq Among(s)
<1>1. Head(s) = s[1] /\ 1 \in 1..Len(s)
  OBVIOUS
<1>2. \A n \in 1..Len(Tail(s)) : n + 1 \in 1..Len(s) /\ Tail(s)[n] = s[n + 1]
  OBVIOUS
<1> QED
  BY <1>1, <1>2 DEF Among

LEMMA SortedTail ==
  ASSUME NEW s \in Seq(Updates), s # <<>>, Sorted(s)
  PROVE  Sorted(Tail(s)) /\ \A e \in Among(Tail(s)) : Older(Head(s), e)
<1>1. \A n \in 1..Len(Tail(s)) : n + 1 \in 1..Len(s) /\ Tail(s)[n] = s[n + 1] /\ 1 < n + 1
  OBVIOUS
<1>2. Sorted(Tail(s))
  <2>1. SUFFICES ASSUME NEW m \in 1..Len(Tail(s)), NEW n \in 1..Len(Tail(s)), m < n
                 PROVE  Older(Tail(s)[m], Tail(s)[n])
    BY DEF Sorted
  <2>2. m + 1 < n + 1
    BY <2>1
  <2> QED
    BY <1>1, <2>2 DEF Sorted
<1>3. ASSUME NEW e \in Among(Tail(s)) PROVE Older(Head(s), e)
  <2>1. PICK n \in 1..Len(Tail(s)) : e = Tail(s)[n]
    BY DEF Among
  <2>2. Head(s) = s[1] /\ 1 \in 1..Len(s)
    OBVIOUS
  <2> QED
    BY <1>1, <2>1, <2>2 DEF Sorted
<1> QED
  BY <1>2, <1>3

LEMMA AmongAppend ==
  ASSUME NEW s \in Seq(Updates), NEW e \in Updates
  PROVE  Among(Append(s, e)) = Among(s) \cup {e}
<1> DEFINE t == Append(s, e)
<1>1. Len(t) = Len(s) + 1 /\ t[Len(s) + 1] = e /\ \A n \in 1..Len(s) : t[n] = s[n]
  OBVIOUS
<1>2. Len(s) \in Nat
  OBVIOUS
<1> HIDE DEF t
<1>3. 1..Len(t) = (1..Len(s)) \cup {Len(s) + 1}
  BY <1>1, <1>2
<1>4. Among(t) = Among(s) \cup {e}
  BY <1>1, <1>3 DEF Among
<1> QED
  BY <1>4 DEF t

LEMMA SortedAppend ==
  ASSUME NEW s \in Seq(Updates), NEW e \in Updates, Sorted(s),
         \A d \in Among(s) : Older(d, e)
  PROVE  Sorted(Append(s, e))
<1> DEFINE t == Append(s, e)
<1>1. Len(t) = Len(s) + 1 /\ t[Len(s) + 1] = e /\ \A n \in 1..Len(s) : t[n] = s[n]
  OBVIOUS
<1>2. Len(s) \in Nat /\ \A n \in 1..Len(s) : s[n] \in Among(s)
  BY DEF Among
<1> HIDE DEF t
<1>3. SUFFICES ASSUME NEW m \in 1..Len(t), NEW n \in 1..Len(t), m < n
               PROVE  Older(t[m], t[n])
  BY DEF Sorted, t
<1>4. m \in 1..Len(s) /\ (n \in 1..Len(s) \/ n = Len(s) + 1)
  BY <1>1, <1>2, <1>3
<1> QED
  BY <1>1, <1>2, <1>3, <1>4 DEF Sorted

LEMMA OrderInit == Init => OrderInv
<1> SUFFICES ASSUME Init PROVE OrderInv
  OBVIOUS
<1>1. /\ \A h \in Hubs : inbox[h] = <<>>
      /\ \A k \in Sockets : toClient[k] = <<>> /\ served[k] = NoHub /\ link[k] = "idle"
      /\ seen = {}
  BY DEF Init, WireInit, HubInit, ClientInit
<1> QED
  BY <1>1, AmongEmpty, WireAssumption DEF OrderInv, InOrder, CarriedFirst, ShownFirst, DialedEmpty

\* Connections that lose their end or their link, and instances that lose what the channel had
\* for them, keep the order of the rest.
LEMMA LossKeepsOrder ==
  ASSUME TypeOK, OrderInv,
         UNCHANGED <<published, scores, seen, current>>,
         \A h \in Hubs : inbox'[h] \in {inbox[h], <<>>},
         \A k \in Sockets :
           /\ toClient'[k] \in {toClient[k], <<>>}
           /\ served'[k] \in {served[k], NoHub}
           /\ link'[k] = "dialing" => link[k] = "dialing"
  PROVE  OrderInv'
<1>1. \A h \in Hubs : /\ Sorted(inbox[h]) => Sorted(inbox'[h])
                      /\ Among(inbox'[h]) \subseteq Among(inbox[h])
  BY AmongEmpty
<1>2. \A k \in Sockets : /\ Sorted(toClient[k]) => Sorted(toClient'[k])
                         /\ Among(toClient'[k]) \subseteq Among(toClient[k])
                         /\ served'[k] \in Hubs => served'[k] = served[k]
  BY AmongEmpty, WireAssumption
<1>3. InOrder'
  BY <1>1, <1>2 DEF OrderInv, InOrder
<1>4. CarriedFirst'
  BY <1>1, <1>2 DEF OrderInv, CarriedFirst
<1>5. ShownFirst'
  BY <1>1, <1>2 DEF OrderInv, ShownFirst
<1>6. DialedEmpty'
  BY DEF OrderInv, DialedEmpty
<1> QED
  BY <1>3, <1>4, <1>5, <1>6 DEF OrderInv

\* A new socket has brought nothing, and will bring what its instance has yet to hand out.
LEMMA AttachKeepsOrder ==
  ASSUME TypeOK, OrderInv, NEW h \in Hubs, NEW k \in Sockets, Attach(h, k),
         UNCHANGED <<current, seen, scores>>
  PROVE  OrderInv'
<1>1. UNCHANGED <<toClient, inbox, published>>
  BY DEF Attach
<1>2. toClient[k] = <<>> /\ (k = current => seen = {})
  BY DEF OrderInv, DialedEmpty, Attach
<1>3. \A j \in Sockets : served'[j] = IF j = k THEN h ELSE served[j]
  BY DEF Attach, TypeOK, WireTypeOK
<1>4. \A j \in Sockets : link'[j] = "dialing" => link[j] = "dialing"
  BY DEF Attach, TypeOK, WireTypeOK
<1>5. InOrder'
  BY <1>1 DEF OrderInv, InOrder
<1>6. CarriedFirst'
  BY <1>1, <1>2, <1>3, AmongEmpty DEF OrderInv, CarriedFirst
<1>7. ShownFirst'
  BY <1>1, <1>2, <1>3 DEF OrderInv, ShownFirst
<1>8. DialedEmpty'
  BY <1>1, <1>4 DEF OrderInv, DialedEmpty
<1> QED
  BY <1>5, <1>6, <1>7, <1>8 DEF OrderInv

\* A new update is younger than all that was published for its route.
LEMMA PublishKeepsOrder ==
  ASSUME TypeOK, OrderInv, NEW r \in Routes, PublishScoreUpdate(r),
         UNCHANGED <<current, seen, scores>>
  PROVE  OrderInv'
<1> DEFINE e == [routeId |-> r, nth |-> published[r] + 1]
<1>1. UNCHANGED <<toClient, served, link>>
  BY DEF PublishScoreUpdate, wireVars
<1>2. published[r] \in Nat /\ published' = [published EXCEPT ![r] = published[r] + 1]
      /\ published \in [Routes -> 0..MaxUpdates] /\ published[r] < MaxUpdates
  BY WireAssumption DEF TypeOK, HubTypeOK, PublishScoreUpdate
<1>3. e \in Updates /\ e.routeId = r /\ e.nth = published[r] + 1
  BY <1>2, WireAssumption DEF Updates
<1>4. \A h \in Hubs : inbox[h] \in Seq(Updates)
                      /\ (inbox'[h] = inbox[h] \/ inbox'[h] = Append(inbox[h], e))
  BY DEF TypeOK, HubTypeOK, PublishScoreUpdate
<1>5. \A q \in Routes : published[q] <= published'[q] /\ published[q] \in Nat
                        /\ published'[q] \in Nat
  BY <1>2, WireAssumption
<1>6. published'[r] = published[r] + 1
  BY <1>2
<1> HIDE DEF e
<1>7. ASSUME NEW h \in Hubs
      PROVE  /\ Sorted(inbox'[h])
             /\ Among(inbox'[h]) \subseteq Among(inbox[h]) \cup {e}
             /\ \A d \in Among(inbox'[h]) : d.nth <= published'[d.routeId]
  <2>1. Sorted(inbox[h]) /\ \A d \in Among(inbox[h]) : d.nth <= published[d.routeId]
    BY DEF OrderInv, InOrder
  <2>2. \A d \in Among(inbox[h]) : d.routeId \in Routes /\ d.nth \in Nat
    BY <1>4, AmongUpdates
  <2>3. \A d \in Among(inbox[h]) : Older(d, e)
    BY <1>2, <1>3, <2>1, <2>2 DEF Older
  <2>4. Sorted(inbox'[h]) /\ Among(inbox'[h]) \subseteq Among(inbox[h]) \cup {e}
    BY <1>3, <1>4, <2>1, <2>3, AmongAppend, SortedAppend
  <2>5. \A d \in Among(inbox[h]) : d.nth <= published'[d.routeId]
    BY <1>5, <2>1, <2>2
  <2>6. e.nth <= published'[e.routeId]
    BY <1>3, <1>5, <1>6
  <2> QED
    BY <2>4, <2>5, <2>6
<1>8. ASSUME NEW k \in Sockets
      PROVE  \A d \in Among(toClient[k]) : d.nth <= published'[d.routeId] /\ Older(d, e)
  <2>1. \A d \in Among(toClient[k]) : d.routeId \in Routes /\ d.nth \in Nat
    BY AmongUpdates DEF TypeOK, WireTypeOK
  <2>2. \A d \in Among(toClient[k]) : d.nth <= published[d.routeId]
    BY DEF OrderInv, InOrder
  <2> QED
    BY <1>2, <1>3, <1>5, <2>1, <2>2 DEF Older
<1>9. InOrder'
  BY <1>1, <1>7, <1>8 DEF OrderInv, InOrder
<1>10. CarriedFirst'
  BY <1>1, <1>7, <1>8 DEF OrderInv, CarriedFirst
<1>11. \A q \in seen : q \in Routes /\ scores[q] \in Nat /\ scores[q] <= published[q]
  BY WireAssumption DEF OrderInv, ShownFirst, TypeOK, ClientTypeOK
<1>12. e.routeId \in seen => scores[e.routeId] <= e.nth
  BY <1>2, <1>3, <1>11
<1>13. \A q \in seen : scores[q] <= published'[q]
  BY <1>5, <1>11
<1>14. ShownFirst'
  BY <1>1, <1>7, <1>12, <1>13 DEF OrderInv, ShownFirst
<1>15. DialedEmpty'
  BY <1>1 DEF OrderInv, DialedEmpty
<1> QED
  BY <1>9, <1>10, <1>14, <1>15 DEF OrderInv

\* The oldest update an instance has goes to the end of its connections.
LEMMA FanoutKeepsOrder ==
  ASSUME TypeOK, OrderInv, NEW h \in Hubs, Fanout(h),
         UNCHANGED <<current, seen, scores>>
  PROVE  OrderInv'
<1> DEFINE e == Head(inbox[h])
<1>1. UNCHANGED <<served, published>>
  BY DEF Fanout
<1>2. inbox[h] \in Seq(Updates) /\ inbox[h] # <<>>
  BY DEF TypeOK, HubTypeOK, Fanout
<1>3. \A i \in Hubs : inbox'[i] = IF i = h THEN Tail(inbox[h]) ELSE inbox[i]
  BY DEF TypeOK, HubTypeOK, Fanout
<1>4. \A k \in Sockets :
        /\ toClient[k] \in Seq(Updates)
        /\ \/ toClient'[k] = toClient[k]
           \/ /\ served[k] = h /\ link[k] = "up"
              /\ toClient'[k] = Append(toClient[k], e)
        /\ link'[k] = "dialing" => link[k] = "dialing"
  BY DEF TypeOK, WireTypeOK, Fanout
<1>5. /\ e \in Updates /\ e \in Among(inbox[h])
      /\ Among(Tail(inbox[h])) \subseteq Among(inbox[h])
      /\ Sorted(Tail(inbox[h])) /\ \A d \in Among(Tail(inbox[h])) : Older(e, d)
  <2>1. Sorted(inbox[h])
    BY DEF OrderInv, InOrder
  <2>2. e \in Updates
    BY <1>2
  <2> QED
    BY <1>2, <2>1, <2>2, AmongTail, SortedTail
<1> HIDE DEF e
<1>6. e.nth <= published[e.routeId]
  BY <1>5 DEF OrderInv, InOrder
<1>7. ASSUME NEW k \in Sockets
      PROVE  /\ Sorted(toClient'[k])
             /\ \A d \in Among(toClient'[k]) :
                  d \in Among(toClient[k]) \/ (d = e /\ served[k] = h)
  <2>1. Sorted(toClient[k])
    BY DEF OrderInv, InOrder
  <2>2. CASE toClient'[k] = toClient[k]
    BY <2>1, <2>2
  <2>3. CASE served[k] = h /\ toClient'[k] = Append(toClient[k], e)
    <3>1. \A d \in Among(toClient[k]) : Older(d, e)
      BY <1>5, <2>3 DEF OrderInv, CarriedFirst
    <3> QED
      BY <1>4, <1>5, <2>1, <2>3, <3>1, AmongAppend, SortedAppend
  <2> QED
    BY <1>4, <2>2, <2>3
<1>8. InOrder'
  BY <1>1, <1>3, <1>5, <1>6, <1>7 DEF OrderInv, InOrder
<1>9. CarriedFirst'
  <2>1. SUFFICES ASSUME NEW k \in Sockets, served[k] \in Hubs, NEW d \in Among(toClient'[k]),
                        NEW f \in Among(inbox'[served[k]])
                 PROVE  Older(d, f)
    BY <1>1 DEF CarriedFirst
  <2>2. f \in Among(inbox[served[k]])
    BY <1>3, <1>5, <2>1
  <2>3. CASE d \in Among(toClient[k])
    BY <2>1, <2>2, <2>3 DEF OrderInv, CarriedFirst
  <2>4. CASE d = e /\ served[k] = h
    BY <1>3, <1>5, <2>1, <2>4
  <2> QED
    BY <1>7, <2>1, <2>3, <2>4
<1>10. ShownFirst'
  <2>1. \A r \in seen' : scores'[r] <= published'[r]
    BY <1>1 DEF OrderInv, ShownFirst
  <2>2. ASSUME NEW k \in Sockets, k = current
        PROVE  /\ \A d \in Among(toClient'[k]) : d.routeId \in seen => scores[d.routeId] <= d.nth
               /\ served[k] \in Hubs =>
                    \A f \in Among(inbox'[served[k]]) :
                      f.routeId \in seen => scores[f.routeId] <= f.nth
    BY <1>3, <1>5, <1>7, <2>2 DEF OrderInv, ShownFirst
  <2> QED
    BY <1>1, <2>1, <2>2 DEF ShownFirst
<1>11. DialedEmpty'
  <2>1. \A k \in Sockets : link'[k] = "dialing" => link[k] = "dialing" /\ toClient'[k] = toClient[k]
    BY <1>4
  <2> QED
    BY <1>1, <2>1 DEF OrderInv, DialedEmpty
<1> QED
  BY <1>8, <1>9, <1>10, <1>11 DEF OrderInv

\* The page takes the oldest update of its connection.
LEMMA MessageKeepsOrder ==
  ASSUME ClientInv, OrderInv, NEW k \in Sockets, OnMessage(k), UNCHANGED hubVars
  PROVE  OrderInv'
<1> DEFINE d == Head(toClient[k])
<1>1. UNCHANGED <<served, link, inbox, published, current>>
  BY DEF OnMessage, hubVars
<1>2. k = current
  BY DEF ClientInv, Single, OnMessage
<1>3. toClient[k] \in Seq(Updates) /\ toClient[k] # <<>>
  BY DEF ClientInv, TypeOK, WireTypeOK, OnMessage
<1>4. \A j \in Sockets : toClient'[j] = IF j = k THEN Tail(toClient[k]) ELSE toClient[j]
  BY DEF ClientInv, TypeOK, WireTypeOK, OnMessage
<1>5. /\ d \in Among(toClient[k]) /\ d.routeId \in Routes /\ d.nth \in Nat
      /\ Among(Tail(toClient[k])) \subseteq Among(toClient[k])
      /\ Sorted(Tail(toClient[k])) /\ \A e \in Among(Tail(toClient[k])) : Older(d, e)
  <2>1. Sorted(toClient[k])
    BY DEF OrderInv, InOrder
  <2>2. d \in Among(toClient[k]) /\ Among(Tail(toClient[k])) \subseteq Among(toClient[k])
    BY <1>3, AmongTail
  <2>3. d.routeId \in Routes /\ d.nth \in Nat
    BY <1>3, <2>2, AmongUpdates
  <2> QED
    BY <1>3, <2>1, <2>2, <2>3, SortedTail
<1>6. \/ UNCHANGED <<scores, seen>>
      \/ /\ scores' = [scores EXCEPT ![d.routeId] = d.nth]
         /\ seen' = seen \cup {d.routeId}
  BY <1>2 DEF OnMessage
<1> HIDE DEF d
<1>7. \A r \in Routes : scores'[r] = scores[r] \/ (r = d.routeId /\ scores'[r] = d.nth)
  BY <1>6 DEF ClientInv, TypeOK, ClientTypeOK
<1>8. \A r \in seen' : r \in Routes /\
        \/ r \in seen /\ scores'[r] = scores[r]
        \/ r = d.routeId /\ scores'[r] = d.nth
  BY <1>5, <1>6, <1>7 DEF ClientInv, TypeOK, ClientTypeOK
<1>9. InOrder'
  BY <1>1, <1>4, <1>5 DEF OrderInv, InOrder
<1>10. CarriedFirst'
  BY <1>1, <1>4, <1>5 DEF OrderInv, CarriedFirst
<1>11. \A r \in seen' : scores'[r] <= published[r]
  BY <1>5, <1>8 DEF OrderInv, InOrder, ShownFirst
<1>12. \A e \in Among(Tail(toClient[k])) : e.routeId \in seen' => scores'[e.routeId] <= e.nth
  BY <1>2, <1>5, <1>8 DEF OrderInv, ShownFirst, Older
<1>13. served[k] \in Hubs =>
         \A e \in Among(inbox[served[k]]) : e.routeId \in seen' => scores'[e.routeId] <= e.nth
  <2>1. served[k] \in Hubs => \A e \in Among(inbox[served[k]]) : Older(d, e)
    BY <1>5 DEF OrderInv, CarriedFirst
  <2> QED
    BY <1>2, <1>8, <2>1 DEF OrderInv, ShownFirst, Older
<1>14. ShownFirst'
  BY <1>1, <1>2, <1>4, <1>11, <1>12, <1>13 DEF ShownFirst
<1>15. DialedEmpty'
  BY <1>1, <1>2, <1>3, <1>4 DEF OrderInv, DialedEmpty
<1> QED
  BY <1>9, <1>10, <1>14, <1>15 DEF OrderInv

\* A new connection starts with nothing seen; the sockets it leaves behind are not the page's.
LEMMA ConnectKeepsOrder ==
  ASSUME TypeOK, OrderInv, Connect, UNCHANGED hubVars, UNCHANGED scores
  PROVE  OrderInv'
<1>1. CASE closed
  <2>1. UNCHANGED <<wireVars, current, seen>>
    BY <1>1, Connects
  <2> QED
    BY <2>1, LossKeepsOrder DEF wireVars, hubVars
<1>2. CASE ~closed
  <2>1. PICK k \in Sockets :
          /\ served[k] = NoHub /\ current' = k /\ seen' = {} /\ UNCHANGED served
          /\ link' = [link EXCEPT ![k] = "dialing"]
          /\ toClient' = [toClient EXCEPT ![k] = <<>>]
    BY <1>2, Connects DEF Free
  <2>2. UNCHANGED <<inbox, published>>
    BY DEF hubVars
  <2>3. \A j \in Sockets : /\ toClient'[j] = IF j = k THEN <<>> ELSE toClient[j]
                           /\ link'[j] = IF j = k THEN "dialing" ELSE link[j]
    BY <2>1 DEF TypeOK, WireTypeOK
  <2>4. InOrder'
    BY <2>2, <2>3, AmongEmpty DEF OrderInv, InOrder
  <2>5. CarriedFirst'
    BY <2>1, <2>2, <2>3, AmongEmpty DEF OrderInv, CarriedFirst
  <2>6. ShownFirst'
    BY <2>1 DEF ShownFirst
  <2>7. DialedEmpty'
    BY <2>1, <2>3 DEF OrderInv, DialedEmpty
  <2> QED
    BY <2>4, <2>5, <2>6, <2>7 DEF OrderInv
<1> QED
  BY <1>1, <1>2

LEMMA HubKeepsOrder ==
  ASSUME TypeOK, OrderInv, HubNext \/ \E k \in Sockets : Break(k), UNCHANGED clientVars,
         HubNext \/ UNCHANGED hubVars
  PROVE  OrderInv'
<1> USE DEF TypeOK, WireTypeOK, HubTypeOK
<1>1. UNCHANGED <<scores, seen, current>>
  BY DEF clientVars
<1>2. ASSUME NEW h \in Hubs, NEW k \in Sockets, OnCommand(h, k) \/ OnGone(h, k)
      PROVE  OrderInv'
  <2>1. UNCHANGED <<published, inbox, toClient>>
    BY <1>2 DEF OnCommand, OnGone
  <2>2. \A j \in Sockets : /\ served'[j] \in {served[j], NoHub}
                           /\ link'[j] = "dialing" => link[j] = "dialing"
    BY <1>2 DEF OnCommand, OnGone
  <2> QED
    BY <1>1, <2>1, <2>2, LossKeepsOrder
<1>3. ASSUME NEW h \in Hubs, RedisDrop(h) \/ Listen(h) \/ Restart(h) PROVE OrderInv'
  <2>1. UNCHANGED <<published, toClient, link, served>>
    BY <1>3 DEF RedisDrop, Listen, Restart, wireVars
  <2>2. \A i \in Hubs : inbox'[i] \in {inbox[i], <<>>}
    BY <1>3 DEF RedisDrop, Listen, Restart
  <2> QED
    BY <1>1, <2>1, <2>2, LossKeepsOrder
<1>4. ASSUME NEW h \in Hubs, Close(h) \/ Kill(h) PROVE OrderInv'
  <2>1. PICK ended \in {"hungup", "cut"} : Down(h, ended)
    BY <1>4 DEF Close, Kill
  <2>2. UNCHANGED <<published, toClient>>
    BY <2>1 DEF Down
  <2>3. \A i \in Hubs : inbox'[i] \in {inbox[i], <<>>}
    BY <2>1 DEF Down
  <2>4. \A j \in Sockets : /\ served'[j] \in {served[j], NoHub}
                           /\ link'[j] = "dialing" => link[j] = "dialing"
    BY <2>1 DEF Down
  <2> QED
    BY <1>1, <2>2, <2>3, <2>4, LossKeepsOrder
<1>5. ASSUME NEW k \in Sockets, Refuse(k) \/ (Break(k) /\ UNCHANGED hubVars) PROVE OrderInv'
  <2>1. UNCHANGED <<published, inbox, toClient, served>>
    BY <1>5 DEF Refuse, Break, hubVars
  <2>2. \A j \in Sockets : link'[j] = "dialing" => link[j] = "dialing"
    BY <1>5 DEF Refuse, Break
  <2> QED
    BY <1>1, <2>1, <2>2, LossKeepsOrder
<1> QED
  BY <1>1, <1>2, <1>3, <1>4, <1>5, AttachKeepsOrder, FanoutKeepsOrder, PublishKeepsOrder
     DEF HubNext

LEMMA OrderStep == ClientInv /\ OrderInv /\ [Next]_vars => OrderInv'
<1> SUFFICES ASSUME ClientInv, OrderInv, [Next]_vars PROVE OrderInv'
  OBVIOUS
<1>1. TypeOK
  BY DEF ClientInv
<1>2. CASE HubNext /\ UNCHANGED clientVars
  BY <1>1, <1>2, HubKeepsOrder
<1>3. ASSUME NEW k \in Sockets, Break(k), UNCHANGED <<hubVars, clientVars>> PROVE OrderInv'
  BY <1>1, <1>3, HubKeepsOrder
<1>4. ASSUME UNCHANGED hubVars, UNCHANGED <<served, scores, seen, current>>,
             \A k \in Sockets : /\ toClient'[k] \in {toClient[k], <<>>}
                                /\ link'[k] = "dialing" => link[k] = "dialing"
      PROVE  OrderInv'
  BY <1>1, <1>4, LossKeepsOrder DEF hubVars
<1>5. CASE (Start \/ Reconnect) /\ UNCHANGED hubVars
  BY <1>1, <1>5, ConnectKeepsOrder DEF Start, Reconnect
<1>6. CASE Stop /\ UNCHANGED hubVars
  <2>1. \A k \in Sockets : link'[k] = "dialing" => link[k] = "dialing"
    BY <1>1, <1>6 DEF Stop, TypeOK, WireTypeOK
  <2> QED
    BY <1>4, <1>6, <2>1 DEF Stop
<1>7. CASE (Command \/ Ping) /\ UNCHANGED hubVars
  BY <1>4, <1>7 DEF Command, Ping
<1>8. ASSUME NEW k \in Sockets, OnOpen(k) \/ HangUp(k), UNCHANGED hubVars PROVE OrderInv'
  BY <1>4, <1>8 DEF OnOpen, HangUp, clientVars
<1>9. ASSUME NEW k \in Sockets, OnClose(k), UNCHANGED hubVars PROVE OrderInv'
  <2>1. /\ link' = [link EXCEPT ![k] = LinkAfter(k)]
        /\ toClient' = [toClient EXCEPT ![k] = <<>>]
        /\ UNCHANGED <<served, scores, seen, current>>
    BY <1>9 DEF OnClose
  <2>2. \A j \in Sockets : /\ toClient'[j] \in {toClient[j], <<>>}
                           /\ link'[j] = "dialing" => link[j] = "dialing"
    BY <1>1, <2>1 DEF TypeOK, WireTypeOK, LinkAfter
  <2> QED
    BY <1>4, <1>9, <2>1, <2>2
<1>10. ASSUME NEW k \in Sockets, OnMessage(k), UNCHANGED hubVars PROVE OrderInv'
  BY <1>10, MessageKeepsOrder
<1>11. CASE UNCHANGED vars
  BY <1>4, <1>11 DEF vars, wireVars, clientVars
<1> QED
  BY <1>2, <1>3, <1>5, <1>6, <1>7, <1>8, <1>9, <1>10, <1>11 DEF Next, ClientNext

\* Only a message changes a score, and the message is no older than what its connection showed.
LEMMA ForwardStep ==
  ASSUME ClientInv, OrderInv, [Next]_vars, NEW r \in Routes, r \in seen, scores'[r] # scores[r]
  PROVE  scores[r] < scores'[r]
<1>1. scores[r] \in Nat
  BY WireAssumption DEF ClientInv, TypeOK, ClientTypeOK
<1>2. scores' # scores
  OBVIOUS
<1>3. PICK k \in Sockets : OnMessage(k)
  BY <1>2 DEF Next, ClientNext, Start, Stop, Command, Ping, Reconnect, OnOpen, HangUp, OnClose,
              vars, clientVars
<1>4. k = current
  BY <1>3 DEF ClientInv, Single, OnMessage
<1>5. toClient[k] \in Seq(Updates) /\ toClient[k] # <<>>
  BY <1>3 DEF ClientInv, TypeOK, WireTypeOK, OnMessage
<1> DEFINE d == Head(toClient[k])
<1>6. d \in Among(toClient[k]) /\ d.nth \in Nat
  BY <1>5, AmongTail, AmongUpdates
<1>7. scores' = [scores EXCEPT ![d.routeId] = d.nth]
  BY <1>2, <1>3 DEF OnMessage
<1> HIDE DEF d
<1>8. r = d.routeId /\ scores'[r] = d.nth
  BY <1>1, <1>7 DEF ClientInv, TypeOK, ClientTypeOK
<1>9. scores[r] <= d.nth
  BY <1>4, <1>6, <1>8 DEF OrderInv, ShownFirst
<1> QED
  BY <1>1, <1>6, <1>8, <1>9

\* Over one connection the page takes a route's updates in the order the channel took them, for
\* any number of instances, reconnects and lost Redis links.
THEOREM OneConnectionInOrder == Spec => AppliedInOrder
<1>1. Spec => []OrderInv
  BY ClientInvHolds, OrderInit, OrderStep, PTL DEF Spec
<1>2. ClientInv /\ OrderInv /\ [Next]_vars
        => [\A r \in Routes : r \in seen /\ scores'[r] # scores[r] => scores[r] < scores'[r]]_vars
  BY ForwardStep
<1> QED
  BY <1>1, <1>2, ClientInvHolds, PTL DEF Spec, AppliedInOrder
===============================================================================
