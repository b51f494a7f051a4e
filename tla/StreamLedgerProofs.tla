-------------------------- MODULE StreamLedgerProofs --------------------------
(***************************************************************************)
(* More theorems about StreamConsumer: updates are published in order;     *)
(* redeliveries are bounded by the faults; without a fault, and with one   *)
(* instance, every folded sample is kept; with one instance the consumer   *)
(* implements SampleLedger.  Each part opens with its argument.            *)
(***************************************************************************)
EXTENDS StreamConsumerProofs

(***************************************************************************)
(* Order.  A flush takes less than a window, and the next window of its    *)
(* route opens only after its own has been closed; so an instance has one  *)
(* flush of a route in flight, and announces it before the next starts.    *)
(***************************************************************************)

Prompt == FlushLatency < Window

\* A flush closed a window of full age and is no older than the bound; the window that is open
\* now opened after the flush started; there is one flush of a route.
FlightAge   == \A f \in flushing : /\ f.start + Window <= f.since
                                   /\ f.since <= clock /\ clock <= f.since + FlushLatency
FlightFirst == \A f \in flushing : state[f.inst][f.route].open
                                     => f.since <= state[f.inst][f.route].start
OneInFlight == Prompt => \A f, g \in flushing : f.inst = g.inst /\ f.route = g.route => f = g

\* What is published lies before everything that may still be.
Announced == {published[n] : n \in 1..Len(published)}
AnnouncedFirst ==
  \A u \in Announced :
    /\ u.start + Window <= clock
    /\ state[u.inst][u.route].open => u.start < state[u.inst][u.route].start
    /\ Prompt => \A f \in flushing : f.inst = u.inst /\ f.route = u.route => u.start < f.start

FlightInv == FlightAge /\ FlightFirst /\ OneInFlight /\ AnnouncedFirst

\* Where a flush in flight comes from.
LEMMA FlightStep ==
  ASSUME TypeOK, [Next]_vars, NEW f \in flushing'
  PROVE  \/ f \in flushing
         \/ /\ UNCHANGED <<clock, state, published>>
            /\ \E g \in flushing : f = [g EXCEPT !.stage = "announce"]
                                   /\ flushing' = (flushing \ {g}) \cup {f}
         \/ \E i \in Instances, r \in Routes :
              /\ Expired(i, r) /\ f = FlushOf(i, r)
              /\ UNCHANGED <<clock, published>> /\ state'[i][r] = NoWindow
<1>1. CASE \E i \in Instances : FlushExpired(i)
  BY <1>1 DEF FlushExpired, TypeOK, outVars
<1>2. CASE \E g \in flushing : Persist(g)
  BY <1>2 DEF Persist, outVars
<1>3. CASE flushing' \subseteq flushing
  BY <1>3
<1> QED BY <1>1, <1>2, <1>3 DEF Next, vars, Tick, SendBatch, SendMalformed, Seed, Start, Stop,
         Leave, Exit, Crash, Gone, Assign, Commit, OnMessage, PersistFail, PersistUnacknowledged,
         Announce, EndOfTime

\* Only Announce publishes.
LEMMA PublishStep ==
  ASSUME [Next]_vars
  PROVE  \/ published' = published
         \/ /\ UNCHANGED <<clock, state>>
            /\ \E f \in flushing :
                 /\ flushing' = flushing \ {f}
                 /\ published' = Append(published, [inst |-> f.inst, route |-> f.route,
                                                    start |-> f.start])
<1>1. CASE \E f \in flushing : Announce(f)
  BY <1>1 DEF Announce
<1>2. CASE UNCHANGED published
  BY <1>2
<1> QED BY <1>1, <1>2 DEF Next, vars, outVars, Tick, SendBatch, SendMalformed, Seed, Start, Stop,
         Leave, Exit, Crash, Gone, FlushExpired, Assign, OnMessage, Commit, Persist, PersistFail,
         PersistUnacknowledged, EndOfTime

\* The clock moves only when no flush is at the bound.
LEMMA ClockStep ==
  ASSUME TypeOK, [Next]_vars
  PROVE  /\ clock \in Nat /\ clock' \in Nat
         /\ \/ clock' = clock
            \/ /\ clock' = clock + 1 /\ UNCHANGED <<state, flushing, published>>
               /\ \A f \in flushing : clock - f.since < FlushLatency
<1>1. clock \in Nat
  BY BoundsAssumption DEF TypeOK, Times
<1>2. CASE Tick
  BY <1>1, <1>2 DEF Tick, outVars
<1>3. CASE clock' = clock
  BY <1>1, <1>3
<1> QED BY <1>2, <1>3 DEF Next, vars, SendBatch, SendMalformed, Seed, Start, Stop, Leave, Exit,
         Crash, Gone, FlushExpired, Assign, OnMessage, Commit, Persist, PersistFail,
         PersistUnacknowledged, Announce, EndOfTime

\* The times of windows, flushes and updates are numbers.
LEMMA TimesAreNumbers ==
  ASSUME TypeOK
  PROVE  /\ \A i \in Instances, r \in Routes : state[i][r].start \in Nat
         /\ \A f \in flushing : /\ f.inst \in Instances /\ f.route \in Routes
                                /\ f.start \in Nat /\ f.since \in Nat
         /\ \A u \in Announced : u.inst \in Instances /\ u.route \in Routes /\ u.start \in Nat
<1>1. Times \subseteq Nat
  BY BoundsAssumption DEF Times
<1>2. \A n \in 1..Len(published) : published[n] \in Updates
  BY DEF TypeOK
<1> QED BY <1>1, <1>2 DEF TypeOK, Windows, Flushes, Updates, Announced

LEMMA FlightInit == Init => FlightInv /\ PublishInOrder
  BY DEF Init, FlightInv, FlightAge, FlightFirst, OneInFlight, AnnouncedFirst, Announced,
     PublishInOrder

LEMMA FlightAgeStep == TypeOK /\ FlightAge /\ [Next]_vars => FlightAge'
<1> SUFFICES ASSUME TypeOK, FlightAge, [Next]_vars, NEW f \in flushing'
             PROVE  /\ f.start + Window <= f.since
                    /\ f.since <= clock' /\ clock' <= f.since + FlushLatency
  BY DEF FlightAge
<1> USE WindowAssumption, BoundsAssumption
<1>1. CASE clock' = clock
  <2>1. CASE f \in flushing
    BY <1>1, <2>1 DEF FlightAge
  <2>2. CASE \E g \in flushing : f = [g EXCEPT !.stage = "announce"]
    <3>1. PICK g \in flushing : f = [g EXCEPT !.stage = "announce"]
      BY <2>2
    <3>2. f.start = g.start /\ f.since = g.since
      BY <3>1 DEF TypeOK, Flushes
    <3> QED BY <1>1, <3>2 DEF FlightAge
  <2>3. CASE \E i \in Instances, r \in Routes : Expired(i, r) /\ f = FlushOf(i, r)
    <3>1. PICK i \in Instances, r \in Routes : Expired(i, r) /\ f = FlushOf(i, r)
      BY <2>3
    <3>2. f.start = state[i][r].start /\ f.since = clock /\ clock - state[i][r].start >= Window
      BY <3>1 DEF FlushOf, Expired
    <3>3. state[i][r].start \in Nat /\ clock \in Nat
      BY TimesAreNumbers, ClockStep
    <3> QED BY <1>1, <3>2, <3>3
  <2> QED BY <2>1, <2>2, <2>3, FlightStep
<1>2. CASE clock' = clock + 1 /\ f \in flushing /\ clock - f.since < FlushLatency
  BY <1>2, TimesAreNumbers, ClockStep DEF FlightAge
<1> QED BY <1>1, <1>2, ClockStep

LEMMA FlightFirstStep ==
  TypeOK /\ KeyInv /\ FlightAge /\ FlightFirst /\ [Next]_vars => FlightFirst'
<1> SUFFICES ASSUME TypeOK, KeyInv, FlightAge, FlightFirst, [Next]_vars, NEW f \in flushing',
                    state'[f.inst][f.route].open
             PROVE  f.since <= state'[f.inst][f.route].start
  BY DEF FlightFirst
<1>1. ASSUME NEW g \in flushing, g.inst = f.inst, g.route = f.route, g.since = f.since
      PROVE  f.since <= state'[f.inst][f.route].start
  <2>1. f.inst \in Instances /\ f.route \in Routes /\ f.since <= clock
    BY <1>1, TimesAreNumbers DEF FlightAge
  <2> QED BY <1>1, <2>1, WindowStep DEF FlightFirst
<1>2. CASE f \in flushing
  BY <1>1, <1>2
<1>3. CASE \E g \in flushing : f = [g EXCEPT !.stage = "announce"]
  <2>1. PICK g \in flushing : f = [g EXCEPT !.stage = "announce"]
    BY <1>3
  <2>2. f.inst = g.inst /\ f.route = g.route /\ f.since = g.since
    BY <2>1 DEF TypeOK, Flushes
  <2> QED BY <1>1, <2>2
<1>4. CASE \E i \in Instances, r \in Routes : f = FlushOf(i, r) /\ state'[i][r] = NoWindow
  BY <1>4 DEF FlushOf, NoWindow
<1> QED BY <1>2, <1>3, <1>4, FlightStep

\* A flush that starts finds no other flush of its route in flight.
LEMMA NoneInFlight ==
  ASSUME TypeOK, FlightAge, FlightFirst, Prompt, NEW i \in Instances, NEW r \in Routes,
         Expired(i, r), NEW f \in flushing, f.inst = i, f.route = r
  PROVE  FALSE
<1>1. f.since <= state[i][r].start /\ clock <= f.since + FlushLatency
  BY DEF Expired, FlightAge, FlightFirst
<1>2. clock - state[i][r].start >= Window
  BY DEF Expired
<1>3. state[i][r].start \in Nat /\ f.since \in Nat /\ clock \in Nat
  BY BoundsAssumption, TimesAreNumbers DEF TypeOK, Times
<1> QED BY <1>1, <1>2, <1>3, WindowAssumption, BoundsAssumption DEF Prompt

LEMMA OneInFlightStep ==
  TypeOK /\ FlightAge /\ FlightFirst /\ OneInFlight /\ [Next]_vars => OneInFlight'
<1> SUFFICES ASSUME TypeOK, FlightAge, FlightFirst, OneInFlight, [Next]_vars, Prompt,
                    NEW f \in flushing', NEW g \in flushing', f.inst = g.inst, f.route = g.route
             PROVE  f = g
  BY DEF OneInFlight, Prompt
<1> DEFINE Old(x) == \E y \in flushing : y.inst = x.inst /\ y.route = x.route
           New(x) == \E i \in Instances, r \in Routes : Expired(i, r) /\ x = FlushOf(i, r)
<1>1. ASSUME NEW x \in flushing'
      PROVE  \/ x \in flushing /\ Old(x)
             \/ Old(x) /\ \E y \in flushing : /\ x.inst = y.inst /\ x.route = y.route
                                              /\ flushing' = (flushing \ {y}) \cup {x}
             \/ New(x)
  <2>1. CASE x \in flushing
    BY <2>1
  <2>2. CASE \E y \in flushing : x = [y EXCEPT !.stage = "announce"]
                                 /\ flushing' = (flushing \ {y}) \cup {x}
    <3>1. PICK y \in flushing : x = [y EXCEPT !.stage = "announce"]
                                /\ flushing' = (flushing \ {y}) \cup {x}
      BY <2>2
    <3>2. x.inst = y.inst /\ x.route = y.route
      BY <3>1 DEF TypeOK, Flushes
    <3> QED BY <3>1, <3>2
  <2>3. CASE New(x)
    BY <2>3
  <2> QED BY <2>1, <2>2, <2>3, FlightStep
<1>2. ASSUME NEW x, NEW y, New(x), Old(y), x.inst = y.inst, x.route = y.route PROVE FALSE
  <2>1. PICK i \in Instances, r \in Routes : Expired(i, r) /\ x = FlushOf(i, r)
    BY <1>2
  <2>2. x.inst = i /\ x.route = r
    BY <2>1 DEF FlushOf
  <2> QED BY <1>2, <2>1, <2>2, NoneInFlight
<1>3. CASE New(f) /\ New(g)
  BY <1>3 DEF FlushOf
<1>4. CASE Old(f) /\ Old(g)
  <2> HIDE DEF Old
  <2>1. ~New(f) /\ ~New(g)
    <3> HIDE DEF New
    <3> QED BY <1>2, <1>4
  <2> HIDE DEF New
  <2>2. ASSUME NEW x \in flushing, NEW y \in flushing, x.inst = y.inst, x.route = y.route
        PROVE  x = y
    BY <2>2 DEF OneInFlight
  <2> QED BY <1>1, <2>1, <2>2
<1> QED
  <2> HIDE DEF Old, New
  <2> QED BY <1>1, <1>2, <1>3, <1>4

\* What a step adds to what is announced: nothing, or the window of a flush that ends.
LEMMA AnnouncedStep ==
  ASSUME TypeOK, [Next]_vars, NEW u \in Announced'
  PROVE  \/ u \in Announced
         \/ /\ UNCHANGED <<clock, state>>
            /\ \E f \in flushing : /\ flushing' = flushing \ {f}
                                   /\ u.inst = f.inst /\ u.route = f.route /\ u.start = f.start
<1>1. CASE published' = published
  BY <1>1 DEF Announced
<1>2. ASSUME NEW f \in flushing, UNCHANGED <<clock, state>>, flushing' = flushing \ {f},
             published' = Append(published, [inst |-> f.inst, route |-> f.route,
                                             start |-> f.start])
      PROVE  \/ u \in Announced
             \/ u.inst = f.inst /\ u.route = f.route /\ u.start = f.start
  <2>1. PICK n \in 1..Len(published') : u = published'[n]
    BY DEF Announced
  <2>2. published \in Seq(Updates) /\ Len(published') = Len(published) + 1
    BY <1>2 DEF TypeOK
  <2>3. CASE n = Len(published) + 1
    BY <1>2, <2>1, <2>2, <2>3
  <2>4. CASE n \in 1..Len(published)
    BY <1>2, <2>1, <2>2, <2>4 DEF Announced
  <2> QED BY <2>1, <2>2, <2>3, <2>4
<1> QED BY <1>1, <1>2, PublishStep

LEMMA AnnouncedFirstStep ==
  TypeOK /\ FlightInv /\ [Next]_vars => AnnouncedFirst'
<1> SUFFICES ASSUME TypeOK, FlightInv, [Next]_vars, NEW u \in Announced'
             PROVE  /\ u.start + Window <= clock'
                    /\ state'[u.inst][u.route].open => u.start < state'[u.inst][u.route].start
                    /\ Prompt => \A f \in flushing' : f.inst = u.inst /\ f.route = u.route
                                                        => u.start < f.start
  BY DEF AnnouncedFirst, Prompt
<1> USE WindowAssumption, BoundsAssumption
<1>1. clock \in Nat /\ clock' \in Nat /\ clock' >= clock
  BY ClockStep
<1>2. CASE u \in Announced
  <2>1. /\ u.inst \in Instances /\ u.route \in Routes /\ u.start \in Nat
        /\ u.start + Window <= clock
    BY <1>2, TimesAreNumbers DEF FlightInv, AnnouncedFirst
  <2>2. ASSUME state'[u.inst][u.route].open PROVE u.start < state'[u.inst][u.route].start
    BY <1>1, <1>2, <2>1, <2>2, WindowStep DEF FlightInv, AnnouncedFirst
  <2>3. ASSUME Prompt, NEW f \in flushing', f.inst = u.inst, f.route = u.route
        PROVE  u.start < f.start
    <3>1. CASE f \in flushing
      BY <1>2, <2>3, <3>1 DEF FlightInv, AnnouncedFirst
    <3>2. CASE \E g \in flushing : f = [g EXCEPT !.stage = "announce"]
      <4>1. PICK g \in flushing : f = [g EXCEPT !.stage = "announce"]
        BY <3>2
      <4>2. f.inst = g.inst /\ f.route = g.route /\ f.start = g.start
        BY <4>1 DEF TypeOK, Flushes
      <4> QED BY <1>2, <2>3, <4>2 DEF FlightInv, AnnouncedFirst
    <3>3. CASE \E i \in Instances, r \in Routes : Expired(i, r) /\ f = FlushOf(i, r)
      BY <1>2, <2>3, <3>3 DEF FlightInv, AnnouncedFirst, Expired, FlushOf
    <3> QED BY <3>1, <3>2, <3>3, FlightStep
  <2> QED BY <1>1, <2>1, <2>2, <2>3
<1>3. ASSUME NEW f \in flushing, UNCHANGED <<clock, state>>, flushing' = flushing \ {f},
             u.inst = f.inst, u.route = f.route, u.start = f.start
      PROVE  /\ u.start + Window <= clock'
             /\ state'[u.inst][u.route].open => u.start < state'[u.inst][u.route].start
             /\ Prompt => \A g \in flushing' : g.inst = u.inst /\ g.route = u.route
                                                 => u.start < g.start
  <2>1. f.start \in Nat /\ f.since \in Nat /\ f.inst \in Instances /\ f.route \in Routes
    BY TimesAreNumbers
  <2>2. f.start + Window <= f.since /\ f.since <= clock
    BY DEF FlightInv, FlightAge
  <2>3. state[f.inst][f.route].open => f.since <= state[f.inst][f.route].start
    BY DEF FlightInv, FlightFirst
  <2>4. state[f.inst][f.route].start \in Nat
    BY <2>1, TimesAreNumbers
  <2>5. Prompt => \A g \in flushing : g.inst = u.inst /\ g.route = u.route => g = f
    BY <1>3 DEF FlightInv, OneInFlight
  <2> QED BY <1>1, <1>3, <2>1, <2>2, <2>3, <2>4, <2>5
<1> QED BY <1>2, <1>3, AnnouncedStep

LEMMA PublishInOrderStep ==
  TypeOK /\ AnnouncedFirst /\ PublishInOrder /\ [Next]_vars => PublishInOrder'
<1> SUFFICES ASSUME TypeOK, AnnouncedFirst, PublishInOrder, [Next]_vars, Prompt,
                    NEW m \in 1..Len(published'), NEW n \in 1..Len(published'), m < n,
                    published'[m].inst = published'[n].inst,
                    published'[m].route = published'[n].route
             PROVE  published'[m].start < published'[n].start
  BY DEF PublishInOrder, Prompt
<1>1. CASE published' = published
  BY <1>1 DEF PublishInOrder, Prompt
<1>2. ASSUME NEW f \in flushing,
             published' = Append(published, [inst |-> f.inst, route |-> f.route,
                                             start |-> f.start])
      PROVE  published'[m].start < published'[n].start
  <2>1. published \in Seq(Updates) /\ Len(published') = Len(published) + 1
    BY <1>2 DEF TypeOK
  <2>2. m \in 1..Len(published) /\ published'[m] = published[m]
    BY <1>2, <2>1
  <2>3. CASE n \in 1..Len(published)
    <3>1. published'[n] = published[n]
      BY <1>2, <2>1, <2>3
    <3> QED BY <2>2, <2>3, <3>1 DEF PublishInOrder, Prompt
  <2>4. CASE n = Len(published) + 1
    <3>1. published'[n] = [inst |-> f.inst, route |-> f.route, start |-> f.start]
      BY <1>2, <2>1, <2>4
    <3>2. published[m] \in Announced
      BY <2>2 DEF Announced
    <3> QED BY <2>2, <3>1, <3>2 DEF AnnouncedFirst
  <2> QED BY <2>1, <2>3, <2>4
<1> QED BY <1>1, <1>2, PublishStep

\* The updates of a route that one instance publishes are in the order of their windows, with no
\* repetition, over any number of crashes and restarts, if a flush takes less than a window.
THEOREM PublishedInOrder == Spec => []PublishInOrder
<1>1. Init => TypeOK /\ KeyInv /\ FlightInv /\ PublishInOrder
  BY TypeInit, KeyInit, FlightInit
<1>2. TypeOK /\ KeyInv /\ FlightInv /\ PublishInOrder /\ [Next]_vars
        => TypeOK' /\ KeyInv' /\ FlightInv' /\ PublishInOrder'
  BY TypeStep, KeyStep, FlightAgeStep, FlightFirstStep, OneInFlightStep, AnnouncedFirstStep,
     PublishInOrderStep DEF FlightInv
<1> QED BY <1>1, <1>2, PTL DEF Spec

-------------------------------------------------------------------------------
(***************************************************************************)
(* Redeliveries.  A partition is read again from an older offset only when *)
(* it is assigned again; its owner has then been stopped, has died or has  *)
(* been robbed of it, and each of these is a fault.                        *)
(***************************************************************************)

OwnersAlive == \A p \in Partitions : owner[p] # Nobody => Alive(owner[p])

\* Message n of p has been folded once for each fault at most, and once more by an owner that has
\* not been stopped and is past n.
Again(p, n) ==
  IF owner[p] # Nobody /\ phase[owner[p]] = "running"
    THEN folds[p][n] <= faults + 1 /\ (n > position[p] => folds[p][n] <= faults)
    ELSE folds[p][n] <= faults /\ (owner[p] # Nobody /\ n > position[p] => folds[p][n] < faults)
FewDeliveries == \A p \in Partitions, n \in Offsets : Again(p, n)

LEMMA DeliveryInit == Init => OwnersAlive /\ FewDeliveries
  BY DEF Init, OwnersAlive, FewDeliveries, Again, Offsets

LEMMA OwnersAliveStep == TypeOK /\ OwnersAlive /\ [Next]_vars => OwnersAlive'
<1> SUFFICES ASSUME TypeOK, OwnersAlive, [Next]_vars PROVE OwnersAlive'
  OBVIOUS
<1> USE NamesAssumption
<1>1. ASSUME NEW i \in Instances, Exit(i) \/ Crash(i) PROVE OwnersAlive'
  BY <1>1 DEF Exit, Crash, Gone, Release, OwnersAlive, Alive, TypeOK
<1>2. ASSUME NEW i \in Instances, Start(i) \/ Stop(i) \/ Leave(i) PROVE OwnersAlive'
  BY <1>2 DEF Start, Stop, Leave, Release, processVars, brokerVars, OwnersAlive, Alive, TypeOK
<1>3. ASSUME NEW i \in Instances, NEW p \in Partitions, Assign(p, i) PROVE OwnersAlive'
  BY <1>3 DEF Assign, processVars, OwnersAlive, Alive, TypeOK
<1>4. CASE UNCHANGED <<owner, phase>>
  BY <1>4 DEF OwnersAlive, Alive
<1> QED BY <1>1, <1>2, <1>3, <1>4 DEF Next, vars, brokerVars, processVars, Tick, SendBatch,
         SendMalformed, Seed, FlushExpired, OnMessage, Commit, Persist, PersistFail,
         PersistUnacknowledged, Announce, EndOfTime

LEMMA FewDeliveriesStep ==
  TypeOK /\ OwnersAlive /\ FewDeliveries /\ [Next]_vars => FewDeliveries'
<1> SUFFICES ASSUME TypeOK, OwnersAlive, FewDeliveries, [Next]_vars,
                    NEW p \in Partitions, NEW n \in Offsets
             PROVE  Again(p, n)'
  BY DEF FewDeliveries
<1> USE NamesAssumption, BoundsAssumption
<1>1. /\ faults \in Nat /\ position[p] \in Nat /\ n \in Nat /\ folds[p][n] \in Nat
      /\ Again(p, n) /\ (owner[p] # Nobody => Alive(owner[p]))
      /\ owner[p] \in Instances \cup {Nobody}
  BY DEF TypeOK, Offsets, FewDeliveries, OwnersAlive
<1>2. folds[p][n] <= faults + 1 /\ (owner[p] = Nobody => folds[p][n] <= faults)
  BY <1>1 DEF Again
<1>3. ASSUME NEW i \in Instances, Exit(i) \/ Crash(i) PROVE Again(p, n)'
  <2>1. folds' = folds /\ position' = position
        /\ phase' = [phase EXCEPT ![i] = "down"]
        /\ owner'[p] = IF owner[p] = i THEN Nobody ELSE owner[p]
    BY <1>3 DEF Exit, Crash, Gone, Release
  <2>2. CASE Crash(i)
    BY <1>1, <1>2, <2>1, <2>2 DEF Crash, Fault, Again, TypeOK
  <2>3. CASE Exit(i)
    BY <1>1, <1>2, <2>1, <2>3 DEF Exit, Again, TypeOK
  <2> QED BY <1>3, <2>2, <2>3
<1>4. ASSUME NEW i \in Instances, Start(i) PROVE Again(p, n)'
  <2>1. owner' = owner /\ position' = position /\ folds' = folds /\ phase[i] = "down"
    BY <1>4 DEF Start, brokerVars
  <2>2. owner[p] # i
    BY <1>1, <2>1 DEF Alive
  <2>3. owner[p] # Nobody => phase'[owner[p]] = phase[owner[p]]
    BY <1>1, <1>4, <2>2 DEF Start, TypeOK
  <2>4. faults' = faults \/ faults' = faults + 1
    BY <1>4 DEF Start, Fault
  <2> QED BY <1>1, <2>1, <2>3, <2>4 DEF Again
<1>5. ASSUME NEW i \in Instances, Stop(i) PROVE Again(p, n)'
  BY <1>1, <1>2, <1>5 DEF Stop, Fault, brokerVars, Again, Alive, TypeOK
<1>6. ASSUME NEW i \in Instances, Leave(i) PROVE Again(p, n)'
  BY <1>1, <1>2, <1>6 DEF Leave, Release, processVars, Again, TypeOK
<1>7. ASSUME NEW i \in Instances, NEW q \in Partitions, Assign(q, i) PROVE Again(p, n)'
  <2>1. folds' = folds /\ phase' = phase /\ phase[i] = "running"
    BY <1>7 DEF Assign, processVars
  <2>2. CASE q # p
    <3>1. owner'[p] = owner[p] /\ position'[p] = position[p]
          /\ (faults' = faults \/ faults' = faults + 1)
      BY <1>7, <2>2 DEF Assign, Fault, TypeOK
    <3> QED BY <1>1, <2>1, <3>1 DEF Again
  <2>3. CASE q = p
    <3>1. owner'[p] = i /\ faults' = IF owner[p] = Nobody THEN faults ELSE faults + 1
      BY <1>7, <2>3 DEF Assign, Fault, TypeOK
    <3> QED BY <1>1, <1>2, <2>1, <3>1 DEF Again
  <2> QED BY <2>2, <2>3
<1>8. ASSUME NEW i \in Instances, NEW q \in Partitions, OnMessage(i, q) PROVE Again(p, n)'
  <2>1. /\ owner' = owner /\ phase' = phase /\ faults' = faults /\ owner[q] = i
        /\ position' = [position EXCEPT ![q] = @ + 1]
    BY <1>8 DEF OnMessage, processVars
  <2>2. \/ folds' = folds
        \/ folds' = [folds EXCEPT ![q][position[q] + 1] = folds[q][position[q] + 1] + 1]
    BY <1>8 DEF OnMessage, ApplyPosition, ApplyFuel
  <2>3. CASE q # p \/ n # position[q] + 1
    <3>1. folds'[p][n] = folds[p][n]
      <4> DEFINE off == position[q] + 1
                 nth == folds[q][off] + 1
      <4>1. folds' = folds \/ folds' = [folds EXCEPT ![q][off] = nth]
        BY <2>2
      <4> HIDE DEF nth, off
      <4>2. CASE q # p
        BY <4>1, <4>2 DEF TypeOK
      <4>3. CASE q = p /\ n # off
        BY <4>1, <4>3 DEF TypeOK
      <4> QED BY <2>3, <4>2, <4>3 DEF off
    <3>2. position'[p] = position[p] \/ position'[p] = position[p] + 1
      BY <2>1 DEF TypeOK
    <3> QED BY <1>1, <2>1, <3>1, <3>2 DEF Again
  <2>4. CASE q = p /\ n = position[q] + 1
    <3>1. folds'[p][n] = folds[p][n] \/ folds'[p][n] = folds[p][n] + 1
      BY <2>2, <2>4 DEF TypeOK
    <3>2. position'[p] = position[p] + 1
      BY <2>1, <2>4 DEF TypeOK
    <3> QED BY <1>1, <2>1, <2>4, <3>1, <3>2 DEF Again
  <2> QED BY <2>3, <2>4
<1>9. ASSUME UNCHANGED <<owner, phase, position, folds>>,
             faults' = faults \/ faults' = faults + 1
      PROVE  Again(p, n)'
  BY <1>1, <1>9 DEF Again
<1> QED
  BY <1>3, <1>4, <1>5, <1>6, <1>7, <1>8, <1>9 DEF Next, vars, brokerVars, processVars, Tick,
     SendBatch, SendMalformed, Seed, FlushExpired, Commit, Persist, PersistFail,
     PersistUnacknowledged, Announce, FailedCall, Fault, EndOfTime

LEMMA DeliveryInvariant == Spec => [](TypeOK /\ OwnersAlive /\ FewDeliveries)
  BY TypeInit, TypeStep, DeliveryInit, OwnersAliveStep, FewDeliveriesStep, PTL DEF Spec

\* At least once, and no oftener than the faults account for: a fuel message is folded at most once
\* more than there were faults.
DeliveriesBounded == \A p \in Partitions, n \in Offsets : folds[p][n] <= faults + 1

THEOREM RedeliveriesNeedFaults == Spec => []DeliveriesBounded
<1>1. TypeOK /\ FewDeliveries => DeliveriesBounded
  <2> SUFFICES ASSUME TypeOK, FewDeliveries, NEW p \in Partitions, NEW n \in Offsets
               PROVE  folds[p][n] <= faults + 1
    BY DEF DeliveriesBounded
  <2> QED BY BoundsAssumption DEF FewDeliveries, Again, TypeOK
<1> QED BY <1>1, DeliveryInvariant, PTL

-------------------------------------------------------------------------------
(***************************************************************************)
(* What is held.  A sample is in a window, in a flush that has yet to      *)
(* commit or in a commit, under an identifier of its own.  Only a fault    *)
(* takes one away.                                                         *)
(***************************************************************************)

HeldSamples == LiveSamples \cup UNION {c.samples : c \in commits}

ClosedEmpty   == \A i \in Instances, r \in Routes : ~state[i][r].open => state[i][r].samples = {}
FlushesFull   == \A x \in Flushed : x.samples # {}
IdsOnce       == \A s, t \in HeldSamples : IdOf(s) = IdOf(t) => s = t
RowsOfCommits == \A k \in Keys : telemetry[k] = {} \/ \E c \in commits : /\ KeyOf(c) = k
                                                                        /\ c.samples = telemetry[k]
HeldInv == ClosedEmpty /\ FlushesFull /\ IdsOnce /\ RowsOfCommits

\* The three places, without the set constructors.
LEMMA InLive ==
  \A s : s \in LiveSamples <=> \/ \E i \in Instances, r \in Routes : s \in state[i][r].samples
                               \/ \E f \in Persisting : s \in f.samples
  BY DEF LiveSamples

LEMMA InHeld ==
  \A s : s \in HeldSamples <=> \/ \E i \in Instances, r \in Routes : s \in state[i][r].samples
                               \/ \E f \in Persisting : s \in f.samples
                               \/ \E c \in commits : s \in c.samples
  BY InLive DEF HeldSamples

LEMMA InHeldNext ==
  \A s : s \in HeldSamples' <=> \/ \E i \in Instances, r \in Routes : s \in state'[i][r].samples
                                \/ \E f \in Persisting' : s \in f.samples
                                \/ \E c \in commits' : s \in c.samples
<1>1. (\A s : s \in HeldSamples <=> \/ \E i \in Instances, r \in Routes : s \in state[i][r].samples
                                    \/ \E f \in Persisting : s \in f.samples
                                    \/ \E c \in commits : s \in c.samples)'
  BY InHeld, PTL
<1> QED BY <1>1

\* What handling a message does to the samples, exactly; the delivery is one the faults allow.
LEMMA MessageStep ==
  ASSUME TypeOK, ClosedEmpty, FewDeliveries,
         NEW i \in Instances, NEW p \in Partitions, OnMessage(i, p)
  PROVE  /\ \/ /\ UNCHANGED folds
               /\ \A j \in Instances, q \in Routes : state'[j][q].samples = state[j][q].samples
            \/ \E r \in Routes, s \in Samples :
                 /\ s.nth = folds[s.part][s.off] + 1 /\ s.nth <= faults + 1
                 /\ folds' = [folds EXCEPT ![s.part][s.off] = s.nth]
                 /\ \A j \in Instances, q \in Routes :
                      state'[j][q].samples = IF <<j, q>> = <<i, r>>
                                               THEN state[j][q].samples \cup {s}
                                               ELSE state[j][q].samples
         /\ \A j \in Instances, q \in Routes : ~state'[j][q].open => state'[j][q].samples = {}
<1> DEFINE off == position[p] + 1
           r   == log[p][off]
<1>1. off \in Offsets /\ position[p] \in Nat /\ folds[p][off] \in Nat /\ faults \in Nat
  BY BoundsAssumption DEF OnMessage, TypeOK, Offsets
<1>2. CASE UNCHANGED <<state, folds>>
  BY <1>2 DEF ClosedEmpty
<1>3. ASSUME r \in Routes
      PROVE  /\ Touched(i, r) \in Windows /\ Touched(i, r).open
             /\ Touched(i, r).samples = state[i][r].samples
  <2> HIDE DEF r
  <2> QED BY <1>3, TypeTouched DEF Touched, ClosedEmpty
<1>4. CASE r \in routeMeta[i] /\ ApplyPosition(i, r)
  <2>1. r \in Routes
    BY <1>4 DEF TypeOK
  <2>2. UNCHANGED folds /\ state' = [state EXCEPT ![i][r] = Touched(i, r)]
    BY <1>4 DEF ApplyPosition
  <2>3. /\ Touched(i, r).open
        /\ Touched(i, r).samples = state[i][r].samples
    BY <1>3, <2>1
  <2> HIDE DEF r
  <2>4. \A j \in Instances, q \in Routes :
          state'[j][q] = IF <<j, q>> = <<i, r>> THEN Touched(i, r) ELSE state[j][q]
    BY <2>1, <2>2 DEF TypeOK
  <2> QED BY <2>2, <2>3, <2>4 DEF ClosedEmpty
<1>5. CASE r \in routeMeta[i] /\ ApplyFuel(i, r, p, off)
  <2>1. r \in Routes
    BY <1>5 DEF TypeOK
  <2> DEFINE s == [part |-> p, off |-> off, nth |-> folds[p][off] + 1, at |-> clock]
             w == Touched(i, r)
  <2>2. s \in Samples /\ s.part = p /\ s.off = off /\ s.nth = folds[p][off] + 1
    BY <1>1 DEF Samples, TypeOK
  <2>3. w \in Windows /\ w.open /\ w.samples = state[i][r].samples
    BY <1>3, <2>1
  <2>4. folds[p][off] <= faults
    <3>1. owner[p] # Nobody /\ off > position[p] /\ Again(p, off)
      BY <1>1, NamesAssumption DEF OnMessage, FewDeliveries
    <3> HIDE DEF off
    <3> QED BY <1>1, <3>1 DEF Again
  <2>5. /\ state' = [state EXCEPT ![i][r] = [w EXCEPT !.samples = @ \cup {s}]]
        /\ folds' = [folds EXCEPT ![p][off] = folds[p][off] + 1]
    BY <1>5 DEF ApplyFuel
  <2> HIDE DEF s, w, r, off
  <2>6. [w EXCEPT !.samples = @ \cup {s}].open
        /\ [w EXCEPT !.samples = @ \cup {s}].samples = state[i][r].samples \cup {s}
    BY <2>3 DEF Windows
  <2>7. \A j \in Instances, q \in Routes :
          state'[j][q] = IF <<j, q>> = <<i, r>> THEN [w EXCEPT !.samples = @ \cup {s}]
                                                ELSE state[j][q]
    BY <2>1, <2>5 DEF TypeOK
  <2>8. \A j \in Instances, q \in Routes :
          /\ state'[j][q].samples = IF <<j, q>> = <<i, r>> THEN state[j][q].samples \cup {s}
                                                           ELSE state[j][q].samples
          /\ ~state'[j][q].open => state'[j][q].samples = {}
    <3>1. \A j \in Instances, q \in Routes : ~state[j][q].open => state[j][q].samples = {}
      BY DEF ClosedEmpty
    <3> DEFINE v == [w EXCEPT !.samples = @ \cup {s}]
    <3>2. v.open /\ v.samples = state[i][r].samples \cup {s}
      BY <2>6
    <3>3. \A j \in Instances, q \in Routes :
            state'[j][q] = IF <<j, q>> = <<i, r>> THEN v ELSE state[j][q]
      BY <2>7
    <3> HIDE DEF v
    <3>4. ASSUME NEW j \in Instances, NEW q \in Routes
          PROVE  /\ state'[j][q].samples = IF <<j, q>> = <<i, r>>
                                             THEN state[j][q].samples \cup {s}
                                             ELSE state[j][q].samples
                 /\ ~state'[j][q].open => state'[j][q].samples = {}
      <4>1. CASE <<j, q>> = <<i, r>>
        BY <3>2, <3>3, <4>1
      <4>2. CASE <<j, q>> # <<i, r>>
        BY <3>1, <3>3, <4>2
      <4> QED BY <4>1, <4>2
    <3> QED BY <3>4
  <2>9. s.nth <= faults + 1
    BY <1>1, <2>2, <2>4
  <2>10. folds' = [folds EXCEPT ![s.part][s.off] = s.nth]
    BY <2>2, <2>5
  <2>11. s.nth = folds[s.part][s.off] + 1
    BY <2>2
  <2>12. /\ s.nth = folds[s.part][s.off] + 1 /\ s.nth <= faults + 1
         /\ folds' = [folds EXCEPT ![s.part][s.off] = s.nth]
         /\ \A j \in Instances, q \in Routes :
              state'[j][q].samples = IF <<j, q>> = <<i, r>> THEN state[j][q].samples \cup {s}
                                                            ELSE state[j][q].samples
    BY <2>8, <2>9, <2>10, <2>11
  <2>13. s \in Samples
    BY <2>2
  <2> QED BY <2>1, <2>8, <2>12, <2>13, Zenon
<1> QED BY <1>2, <1>4, <1>5 DEF OnMessage

LEMMA HeldInit == Init => HeldInv
  BY InHeld DEF Init, HeldInv, ClosedEmpty, FlushesFull, IdsOnce, RowsOfCommits, Flushed,
     Persisting, NoWindow

LEMMA ClosedEmptyStep ==
  ASSUME TypeOK, ClosedEmpty, FewDeliveries, [Next]_vars PROVE ClosedEmpty'
<1>1. ASSUME NEW i \in Instances, NEW p \in Partitions, OnMessage(i, p) PROVE ClosedEmpty'
  <2>1. \A j \in Instances, q \in Routes : ~state'[j][q].open => state'[j][q].samples = {}
    BY <1>1, MessageStep
  <2> QED BY <2>1 DEF ClosedEmpty
<1>2. ASSUME NEW i \in Instances, Gone(i) \/ FlushExpired(i) PROVE ClosedEmpty'
  <2>1. \A j \in Instances, q \in Routes :
          state'[j][q] = state[j][q] \/ state'[j][q] = NoWindow
    <3>1. CASE Gone(i)
      BY <3>1 DEF Gone, TypeOK
    <3>2. CASE FlushExpired(i)
      BY <3>2 DEF FlushExpired, TypeOK
    <3> QED BY <1>2, <3>1, <3>2
  <2> QED BY <2>1 DEF NoWindow, ClosedEmpty
<1>3. CASE UNCHANGED state
  BY <1>3 DEF ClosedEmpty
<1> QED BY <1>1, <1>2, <1>3, FateStep

LEMMA FlushesFullStep == ASSUME TypeOK, FlushesFull, [Next]_vars PROVE FlushesFull'
  BY FlushedStep DEF FlushesFull, Expired, CommitOf, FlushOf

LEMMA RowsOfCommitsStep == ASSUME TypeOK, RowsOfCommits, [Next]_vars PROVE RowsOfCommits'
<1>1. CASE UNCHANGED storeVars
  BY <1>1 DEF storeVars, RowsOfCommits
<1>2. ASSUME NEW f \in flushing, Write(f) PROVE RowsOfCommits'
  <2>1. /\ commits' = commits \cup {CommitOf(f)}
        /\ telemetry' = [telemetry EXCEPT ![KeyOf(f)] = f.samples]
        /\ KeyOf(CommitOf(f)) = KeyOf(f) /\ CommitOf(f).samples = f.samples
    BY <1>2 DEF Write, KeyOf, CommitOf
  <2>2. \A k \in Keys : telemetry'[k] = IF k = KeyOf(f) THEN f.samples ELSE telemetry[k]
    BY <2>1 DEF TypeOK
  <2> QED BY <2>1, <2>2 DEF RowsOfCommits, KeyOf
<1> QED BY <1>1, <1>2, WriteStep

\* What a step does to what is held: it may take samples away, or adds the one it folds.
LEMMA HeldStep ==
  ASSUME TypeOK, ClosedEmpty, FewDeliveries, [Next]_vars
  PROVE  \/ UNCHANGED folds /\ HeldSamples' \subseteq HeldSamples
         \/ \E s \in Samples : /\ s.nth = folds[s.part][s.off] + 1 /\ s.nth <= faults + 1
                               /\ folds' = [folds EXCEPT ![s.part][s.off] = s.nth]
                               /\ HeldSamples' = HeldSamples \cup {s}
<1> USE InHeld, InHeldNext
<1>1. CASE UNCHANGED <<state, flushing, commits, folds>>
  BY <1>1 DEF Persisting
<1>2. ASSUME NEW i \in Instances, Gone(i)
      PROVE  UNCHANGED folds /\ HeldSamples' \subseteq HeldSamples
  BY <1>2 DEF Gone, NoWindow, TypeOK, Persisting, storeVars
<1>3. ASSUME NEW i \in Instances, NEW p \in Partitions, OnMessage(i, p)
      PROVE  \/ UNCHANGED folds /\ HeldSamples' \subseteq HeldSamples
             \/ \E s \in Samples : /\ s.nth = folds[s.part][s.off] + 1 /\ s.nth <= faults + 1
                                   /\ folds' = [folds EXCEPT ![s.part][s.off] = s.nth]
                                   /\ HeldSamples' = HeldSamples \cup {s}
  <2>1. Persisting' = Persisting /\ commits' = commits
    BY <1>3 DEF OnMessage, Persisting, storeVars
  <2>2. CASE /\ UNCHANGED folds
             /\ \A j \in Instances, q \in Routes : state'[j][q].samples = state[j][q].samples
    BY <2>1, <2>2
  <2>3. ASSUME NEW r \in Routes, NEW s \in Samples,
               \A j \in Instances, q \in Routes :
                 state'[j][q].samples = IF <<j, q>> = <<i, r>> THEN state[j][q].samples \cup {s}
                                                               ELSE state[j][q].samples
        PROVE  HeldSamples' = HeldSamples \cup {s}
    <3>1. s \in HeldSamples'
      BY <1>3, <2>3 DEF OnMessage
    <3>2. \A t : t \in HeldSamples => t \in HeldSamples'
      BY <2>1, <2>3
    <3>3. ASSUME NEW t \in HeldSamples', t # s PROVE t \in HeldSamples
      <4>1. ASSUME NEW j \in Instances, NEW q \in Routes, t \in state'[j][q].samples
            PROVE  t \in HeldSamples
        <5>1. t \in state[j][q].samples \/ (<<j, q>> = <<i, r>> /\ t \in state[i][r].samples)
          BY <2>3, <3>3, <4>1
        <5> QED BY <5>1
      <4>2. CASE \/ \E f \in Persisting : t \in f.samples
                 \/ \E c \in commits : t \in c.samples
        BY <4>2
      <4> QED BY <2>1, <4>1, <4>2
    <3> QED BY <3>1, <3>2, <3>3
  <2>4. \/ /\ UNCHANGED folds
           /\ \A j \in Instances, q \in Routes : state'[j][q].samples = state[j][q].samples
        \/ \E r \in Routes, s \in Samples :
             /\ s.nth = folds[s.part][s.off] + 1 /\ s.nth <= faults + 1
             /\ folds' = [folds EXCEPT ![s.part][s.off] = s.nth]
             /\ \A j \in Instances, q \in Routes :
                  state'[j][q].samples = IF <<j, q>> = <<i, r>>
                                           THEN state[j][q].samples \cup {s}
                                           ELSE state[j][q].samples
    BY <1>3, MessageStep
  <2> QED BY <2>2, <2>3, <2>4
<1>4. ASSUME NEW i \in Instances, FlushExpired(i)
      PROVE  UNCHANGED folds /\ HeldSamples' \subseteq HeldSamples
  <2>1. \A f \in Persisting' : f \in Persisting \/ \E q \in Routes : f = FlushOf(i, q)
    BY <1>4 DEF FlushExpired, Persisting
  <2>2. \A q \in Routes : FlushOf(i, q).samples = state[i][q].samples
    BY DEF FlushOf
  <2>3. \A j \in Instances, q \in Routes : state'[j][q].samples \subseteq state[j][q].samples
    BY <1>4 DEF FlushExpired, NoWindow, TypeOK
  <2> QED BY <1>4, <2>1, <2>2, <2>3 DEF FlushExpired, storeVars
<1>5. ASSUME NEW f \in flushing, f.stage = "persist", Write(f), UNCHANGED <<state, folds>>,
             Persisting' = Persisting \ {f}
      PROVE  UNCHANGED folds /\ HeldSamples' \subseteq HeldSamples
  <2>1. f \in Persisting /\ commits' = commits \cup {CommitOf(f)} /\ CommitOf(f).samples = f.samples
    BY <1>5 DEF Write, Persisting, CommitOf
  <2> QED BY <1>5, <2>1
<1>6. CASE Persisting' \subseteq Persisting /\ UNCHANGED <<state, commits, folds>>
  BY <1>6
<1> QED BY <1>1, <1>2, <1>3, <1>4, <1>5, <1>6, FateStep

\* SamplesKnown of what is held.
LEMMA HeldKnown ==
  ASSUME TypeOK, SamplesKnown, NEW s \in HeldSamples
  PROVE  /\ s \in Samples /\ s.part \in Partitions /\ s.off \in Offsets /\ s.nth \in Nat
         /\ Known(s)
<1>1. s \in Samples
  <2>1. CASE \E i \in Instances, r \in Routes : s \in state[i][r].samples
    BY <2>1 DEF TypeOK, Windows
  <2>2. CASE \E f \in Persisting : s \in f.samples
    BY <2>2 DEF TypeOK, Persisting, Flushes
  <2>3. CASE \E c \in commits : s \in c.samples
    BY <2>3 DEF TypeOK, Commits
  <2> QED BY <2>1, <2>2, <2>3, InHeld
<1> QED BY <1>1, InHeld, SamplesKnownParts DEF Samples

LEMMA IdsOnceStep ==
  ASSUME TypeOK, ClosedEmpty, FewDeliveries, SamplesKnown, IdsOnce, [Next]_vars PROVE IdsOnce'
<1>1. CASE HeldSamples' \subseteq HeldSamples
  BY <1>1 DEF IdsOnce, IdOf
<1>2. ASSUME NEW s \in Samples, s.nth = folds[s.part][s.off] + 1,
             HeldSamples' = HeldSamples \cup {s}
      PROVE  IdsOnce'
  <2>1. ASSUME NEW t \in HeldSamples, IdOf(t) = IdOf(s) PROVE FALSE
    <3>1. t.part = s.part /\ t.off = s.off /\ t.nth = s.nth
      BY <2>1 DEF IdOf
    <3>2. folds[s.part][s.off] \in Nat
      BY DEF TypeOK, Samples
    <3> QED BY <1>2, <3>1, <3>2, HeldKnown DEF Known
  <2> QED BY <1>2, <2>1 DEF IdsOnce, IdOf
<1> QED BY <1>1, <1>2, HeldStep

\* All that is known of the samples.
SamplesInv == /\ TypeOK /\ KeyInv /\ OneFate /\ SamplesKnown /\ RowsWritten /\ RowSurvives
              /\ OwnersAlive /\ FewDeliveries /\ HeldInv

LEMMA SamplesInvInit == Init => SamplesInv
  BY TypeInit, KeyInit, FateInit, RowsInit, DeliveryInit, HeldInit DEF SamplesInv

LEMMA SamplesInvStep == SamplesInv /\ [Next]_vars => SamplesInv'
<1> SUFFICES ASSUME SamplesInv, [Next]_vars PROVE SamplesInv'
  OBVIOUS
<1> USE DEF SamplesInv
<1>1. TypeOK' /\ KeyInv' /\ OneFate' /\ SamplesKnown' /\ OwnersAlive' /\ FewDeliveries'
  BY TypeStep, KeyStep, FateInductive, OwnersAliveStep, FewDeliveriesStep
<1>2. SameKeyOtherInstance'
  <2>1. (TypeOK /\ KeyInv => SameKeyOtherInstance)'
    BY KeyInvImplies, PTL
  <2> QED BY <1>1, <2>1
<1>3. RowsWritten' /\ RowSurvives'
  BY <1>2, RowsStep
<1>4. HeldInv'
  BY ClosedEmptyStep, FlushesFullStep, RowsOfCommitsStep, IdsOnceStep DEF HeldInv
<1> QED BY <1>1, <1>3, <1>4

LEMMA SamplesInvAlways == Spec => []SamplesInv
  BY SamplesInvInit, SamplesInvStep, PTL DEF Spec

-------------------------------------------------------------------------------
(***************************************************************************)
(* Accounts.  Without a fault nothing is stopped, so nothing held is lost: *)
(* a closed window is in its flush, and a flush ends in a commit.  A       *)
(* commit is in its row, if no other instance writes that row.             *)
(***************************************************************************)

SoleInstance == \A i, j \in Instances : i = j

Quiet  == faults = 0 => \A i \in Instances : phase[i] \notin {"stopping", "failed"}
Placed == faults = 0 =>
            \A p \in Partitions, n \in Offsets :
              folds[p][n] = 1 => \E s \in HeldSamples : IdOf(s) = <<p, n, 1>>

LEMMA QuietStep == ASSUME TypeOK, Quiet, [Next]_vars PROVE Quiet' /\ (faults' = 0 => faults = 0)
<1> USE BoundsAssumption
<1>1. faults \in Nat
  BY DEF TypeOK
<1>2. ASSUME NEW i \in Instances, Start(i) \/ Stop(i) \/ Exit(i) \/ Crash(i)
      PROVE  Quiet' /\ (faults' = 0 => faults = 0)
  BY <1>1, <1>2 DEF Start, Stop, Exit, Crash, Gone, Fault, Quiet, TypeOK
<1>3. ASSUME phase' = phase, faults' = faults \/ faults' = faults + 1
      PROVE  Quiet' /\ (faults' = 0 => faults = 0)
  BY <1>1, <1>3 DEF Quiet
<1> QED
  BY <1>2, <1>3 DEF Next, vars, processVars, Tick, SendBatch, SendMalformed, Seed, Leave, Assign,
     OnMessage, FlushExpired, Commit, Persist, PersistFail, PersistUnacknowledged, Announce,
     FailedCall, Fault, EndOfTime

\* Without a fault nothing held is lost, and the history is that of what is held.
LEMMA KeepStep ==
  ASSUME TypeOK, ClosedEmpty, FewDeliveries, Quiet, faults = 0, faults' = 0, [Next]_vars
  PROVE  /\ HeldSamples \subseteq HeldSamples'
         /\ \/ UNCHANGED folds
            \/ \E s \in Samples : /\ s.nth = folds[s.part][s.off] + 1 /\ s \in HeldSamples'
                                  /\ folds' = [folds EXCEPT ![s.part][s.off] = s.nth]
<1> USE InHeld, InHeldNext, BoundsAssumption
<1>1. ASSUME NEW i \in Instances, NEW p \in Partitions, OnMessage(i, p)
      PROVE  /\ HeldSamples \subseteq HeldSamples'
             /\ \/ UNCHANGED folds
                \/ \E s \in Samples : /\ s.nth = folds[s.part][s.off] + 1 /\ s \in HeldSamples'
                                      /\ folds' = [folds EXCEPT ![s.part][s.off] = s.nth]
  <2>1. Persisting' = Persisting /\ commits' = commits
    BY <1>1 DEF OnMessage, Persisting, storeVars
  <2>2. CASE /\ UNCHANGED folds
             /\ \A j \in Instances, q \in Routes : state'[j][q].samples = state[j][q].samples
    BY <2>1, <2>2
  <2>3. ASSUME NEW r \in Routes, NEW s \in Samples,
               s.nth = folds[s.part][s.off] + 1,
               folds' = [folds EXCEPT ![s.part][s.off] = s.nth],
               \A j \in Instances, q \in Routes :
                 state'[j][q].samples = IF <<j, q>> = <<i, r>> THEN state[j][q].samples \cup {s}
                                                               ELSE state[j][q].samples
        PROVE  HeldSamples \subseteq HeldSamples' /\ s \in HeldSamples'
    BY <2>1, <2>3
  <2>4. \/ /\ UNCHANGED folds
           /\ \A j \in Instances, q \in Routes : state'[j][q].samples = state[j][q].samples
        \/ \E r \in Routes, s \in Samples :
             /\ s.nth = folds[s.part][s.off] + 1 /\ s.nth <= faults + 1
             /\ folds' = [folds EXCEPT ![s.part][s.off] = s.nth]
             /\ \A j \in Instances, q \in Routes :
                  state'[j][q].samples = IF <<j, q>> = <<i, r>>
                                           THEN state[j][q].samples \cup {s}
                                           ELSE state[j][q].samples
    BY <1>1, MessageStep
  <2> QED BY <2>2, <2>3, <2>4
<1>2. ASSUME NEW i \in Instances, FlushExpired(i)
      PROVE  HeldSamples \subseteq HeldSamples' /\ UNCHANGED folds
  <2>1. /\ Persisting \subseteq Persisting' /\ commits' = commits /\ folds' = folds
        /\ \A q \in Routes : Expired(i, q) => FlushOf(i, q) \in Persisting'
    BY <1>2 DEF FlushExpired, Persisting, FlushOf, storeVars
  <2>2. \A q \in Routes : FlushOf(i, q).samples = state[i][q].samples
    BY DEF FlushOf
  <2>3. \A j \in Instances, q \in Routes :
          state'[j][q] = state[j][q] \/ (j = i /\ Expired(i, q))
    BY <1>2 DEF FlushExpired, TypeOK
  <2> QED BY <2>1, <2>2, <2>3
<1>3. ASSUME NEW f \in flushing, Persist(f)
      PROVE  HeldSamples \subseteq HeldSamples' /\ UNCHANGED folds
  <2>1. Persisting \subseteq Persisting' \cup {f}
    BY <1>3 DEF Persist, Persisting
  <2>2. /\ CommitOf(f) \in commits' /\ CommitOf(f).samples = f.samples
        /\ commits \subseteq commits' /\ UNCHANGED <<state, folds>>
    BY <1>3 DEF Persist, Write, CommitOf
  <2> QED BY <2>1, <2>2
<1>4. ASSUME NEW f \in flushing, Announce(f)
      PROVE  HeldSamples \subseteq HeldSamples' /\ UNCHANGED folds
  BY <1>4 DEF Announce, Persisting, storeVars
<1>5. ASSUME NEW f \in flushing, PersistFail(f) \/ PersistUnacknowledged(f) PROVE FALSE
  <2>1. f.inst \in Instances
    BY DEF TypeOK, Flushes
  <2> QED BY <1>5, <2>1 DEF PersistFail, PersistUnacknowledged, FailedCall, Fault, Quiet
<1>6. ASSUME NEW i \in Instances, Exit(i) \/ Crash(i) PROVE FALSE
  BY <1>6 DEF Exit, Crash, Fault, Quiet
<1>7. CASE UNCHANGED <<state, flushing, commits, folds>>
  BY <1>7 DEF Persisting
<1> QED
  BY <1>1, <1>2, <1>3, <1>4, <1>5, <1>6, <1>7 DEF Next, vars, storeVars, Tick, SendBatch,
     SendMalformed, Seed, Start, Stop, Leave, Assign, Commit, EndOfTime

LEMMA PlacedStep ==
  ASSUME TypeOK, ClosedEmpty, FewDeliveries, Quiet, Placed, [Next]_vars PROVE Placed'
<1> SUFFICES ASSUME faults' = 0, NEW p \in Partitions, NEW n \in Offsets, folds'[p][n] = 1
             PROVE  \E s \in HeldSamples' : IdOf(s) = <<p, n, 1>>
  BY DEF Placed, IdOf
<1>1. faults = 0
  BY QuietStep
<1>2. CASE folds'[p][n] = folds[p][n]
  BY <1>1, <1>2, KeepStep DEF Placed
<1>3. ASSUME NEW s \in Samples, s.nth = folds[s.part][s.off] + 1, s \in HeldSamples',
             folds' = [folds EXCEPT ![s.part][s.off] = s.nth], folds'[p][n] # folds[p][n]
      PROVE  \E t \in HeldSamples' : IdOf(t) = <<p, n, 1>>
  <2>1. s.part \in Partitions /\ s.off \in Offsets
    BY DEF Samples
  <2>2. s.part = p /\ s.off = n
    BY <1>3, <2>1 DEF TypeOK
  <2>3. s.nth = 1
    BY <1>3, <2>1, <2>2 DEF TypeOK
  <2> QED BY <1>3, <2>2, <2>3 DEF IdOf
<1> QED BY <1>1, <1>2, <1>3, KeepStep

\* With one instance, what is committed is in its row.
LEMMA CommitsInRows ==
  ASSUME SoleInstance, TypeOK, RowSurvives, NEW c \in commits PROVE c.samples \subseteq RowSamples
<1>1. /\ KeyOf(c) \in Keys
      /\ \A d \in commits : d.inst = c.inst
  BY DEF TypeOK, Commits, KeyOf, Keys, SoleInstance
<1>2. telemetry[KeyOf(c)] = c.samples
  BY <1>1 DEF RowSurvives
<1> QED BY <1>1, <1>2 DEF RowSamples

LEMMA AccountedHolds ==
  ASSUME SoleInstance, SamplesInv, Placed PROVE Accounted
<1> SUFFICES ASSUME faults = 0, NEW p \in Partitions, NEW n \in Offsets
             PROVE  /\ folds[p][n] <= 1
                    /\ folds[p][n] = 1
                         => <<p, n, 1>> \in {IdOf(s) : s \in LiveSamples \cup RowSamples}
  BY DEF Accounted
<1>1. folds[p][n] <= 1
  BY BoundsAssumption DEF SamplesInv, FewDeliveries, Again, TypeOK
<1>2. ASSUME NEW s \in HeldSamples PROVE s \in LiveSamples \cup RowSamples
  BY <1>2, CommitsInRows DEF HeldSamples, SamplesInv
<1> QED BY <1>1, <1>2 DEF Placed

\* Without a fault, and with one instance, every fuel message folded into a window was folded once
\* and is in an open window, in a flush under way or in a row.
THEOREM NothingLost == ASSUME SoleInstance PROVE Spec => []Accounted
<1>1. Init => SamplesInv /\ Quiet /\ Placed
  <2>1. Init => Quiet /\ Placed
    BY DEF Init, Quiet, Placed
  <2> QED BY <2>1, SamplesInvInit
<1>2. SamplesInv /\ Quiet /\ Placed /\ [Next]_vars => SamplesInv' /\ Quiet' /\ Placed'
  BY SamplesInvStep, QuietStep, PlacedStep DEF SamplesInv, HeldInv
<1>3. SamplesInv /\ Placed => Accounted
  BY AccountedHolds
<1> QED BY <1>1, <1>2, <1>3, PTL DEF Spec

-------------------------------------------------------------------------------
(***************************************************************************)
(* The ledger.  Folding a sample gathers it, a commit stores a batch, a    *)
(* fault loses batches, and everything else leaves batches and rows as     *)
(* they were.  Identifiers are unique, so different batches stay different *)
(* as sets of identifiers; and with one instance a commit finds no row, or *)
(* its own.                                                                *)
(***************************************************************************)

IdsOf(S)  == {IdOf(s) : s \in S}
StoredIds == {IdOf(s) : s \in RowSamples}
LedgerIds == Partitions \X Offsets \X (1..(MaxFaults + 1))

\* A batch is the identifiers of a window or of a flush, and not empty.
IsBatch(b) == /\ b # {}
              /\ \/ \E i \in Instances, r \in Routes : b = IdsOf(state[i][r].samples)
                 \/ \E f \in Persisting : b = IdsOf(f.samples)

LEMMA InBatches == \A b : b \in Batches <=> IsBatch(b)
<1> DEFINE P == {state[i][r].samples : i \in Instances, r \in Routes}
                  \cup {f.samples : f \in Persisting}
<1>1. \A S : IdsOf(S) # {} <=> S # {}
  BY DEF IdsOf
<1>2. Batches = {{IdOf(s) : s \in S} : S \in P \ {{}}}
  BY DEF Batches
<1>3. \A S : S \in P <=> \/ \E i \in Instances, r \in Routes : S = state[i][r].samples
                       \/ \E f \in Persisting : S = f.samples
  OBVIOUS
<1> HIDE DEF P
<1>4. \A b : b \in Batches <=> \E S \in P : S # {} /\ b = IdsOf(S)
  BY <1>2 DEF IdsOf
<1>5. \A b : b \in Batches <=> b # {} /\ \E S \in P : b = IdsOf(S)
  BY <1>1, <1>4
<1> QED BY <1>3, <1>5 DEF IsBatch

LEMMA InBatchesNext ==
  \A b : b \in Batches' <=> /\ b # {}
                            /\ \/ \E i \in Instances, r \in Routes : b = IdsOf(state'[i][r].samples)
                               \/ \E f \in Persisting' : b = IdsOf(f.samples)
<1>1. (\A b : b \in Batches <=> IsBatch(b))'
  BY InBatches, PTL
<1> QED BY <1>1 DEF IsBatch, IdsOf, IdOf

\* Disjoint sets of samples that are held have no identifier in common.
LEMMA IdsApart ==
  ASSUME IdsOnce, NEW S \in SUBSET HeldSamples, NEW T \in SUBSET HeldSamples, Disjoint(S, T)
  PROVE  IdsOf(S) \cap IdsOf(T) = {}
  BY DEF IdsOnce, IdsOf, Disjoint

LEMMA BatchesHeld ==
  /\ \A i \in Instances, r \in Routes : state[i][r].samples \subseteq HeldSamples
  /\ \A f \in Persisting : f.samples \subseteq HeldSamples
  /\ \A c \in commits : c.samples \subseteq HeldSamples
  BY InHeld

\* Every identifier gathered is one of a held sample.
LEMMA GatheredHeld ==
  ASSUME TypeOK, RowsOfCommits, NEW id \in Ledger!Gathered
  PROVE  \E s \in HeldSamples : id = IdOf(s)
<1>1. CASE id \in StoredIds
  <2>1. PICK k \in Keys : \E s \in telemetry[k] : id = IdOf(s)
    BY <1>1 DEF StoredIds, RowSamples
  <2>2. \E c \in commits : telemetry[k] = c.samples
    BY <2>1 DEF RowsOfCommits
  <2> QED BY <2>1, <2>2, InHeld
<1>2. CASE \E b \in Batches : id \in b
  BY <1>2, InBatches, InHeld DEF IsBatch, IdsOf
<1> QED BY <1>1, <1>2 DEF Ledger!Gathered, StoredIds

\* Losing batches, or changing none, is a step of the ledger or none.
LEMMA LedgerLoses ==
  ASSUME Batches' \subseteq Batches, StoredIds' = StoredIds PROVE Ledger!Next
<1>1. Ledger!Lose(Batches \ Batches')
  BY DEF Ledger!Lose, StoredIds
<1> QED BY <1>1 DEF Ledger!Next

LEMMA StoredStays == ASSUME telemetry' = telemetry PROVE StoredIds' = StoredIds
  BY DEF StoredIds, RowSamples, IdOf

\* A message gathers its sample, or changes no batch.
LEMMA LedgerMessage ==
  ASSUME SamplesInv, NEW i \in Instances, NEW p \in Partitions, OnMessage(i, p)
  PROVE  Ledger!Next
<1> USE DEF SamplesInv, HeldInv
<1>1. Persisting' = Persisting /\ StoredIds' = StoredIds
  BY StoredStays DEF OnMessage, Persisting, storeVars
<1>2. CASE \A j \in Instances, q \in Routes : state'[j][q].samples = state[j][q].samples
  <2>1. Batches' \subseteq Batches
    BY <1>1, <1>2, InBatches, InBatchesNext DEF IsBatch
  <2> QED BY <1>1, <2>1, LedgerLoses
<1>3. ASSUME NEW r \in Routes, NEW s \in Samples,
             s.nth = folds[s.part][s.off] + 1, s.nth <= faults + 1,
             \A j \in Instances, q \in Routes :
               state'[j][q].samples = IF <<j, q>> = <<i, r>> THEN state[j][q].samples \cup {s}
                                                             ELSE state[j][q].samples
      PROVE  Ledger!Next
  <2> DEFINE id == IdOf(s)
             b  == IdsOf(state[i][r].samples)
             Other(B) == /\ B # {}
                         /\ \/ \E j \in Instances, q \in Routes :
                                 <<j, q>> # <<i, r>> /\ B = IdsOf(state[j][q].samples)
                            \/ \E f \in Persisting : B = IdsOf(f.samples)
  <2>1. id \in LedgerIds
    BY <1>3, BoundsAssumption DEF LedgerIds, IdOf, Samples, TypeOK
  <2>2. id \notin Ledger!Gathered
    <3> SUFFICES ASSUME NEW t \in HeldSamples, id = IdOf(t) PROVE FALSE
      BY GatheredHeld
    <3>1. t.part = s.part /\ t.off = s.off /\ t.nth = s.nth
      BY DEF IdOf
    <3>2. folds[s.part][s.off] \in Nat
      BY DEF TypeOK, Samples
    <3> QED BY <1>3, <3>1, <3>2, HeldKnown DEF Known
  <2>3. \A B : B \in Batches <=> Other(B) \/ (B = b /\ b # {})
    BY InBatches DEF IsBatch
  <2>4. IdsOf(state'[i][r].samples) = b \cup {id}
    BY <1>3 DEF IdsOf
  <2>5. \A B : B \in Batches' <=> Other(B) \/ B = b \cup {id}
    <3>1. \A j \in Instances, q \in Routes :
            <<j, q>> # <<i, r>> => state'[j][q].samples = state[j][q].samples
      BY <1>3
    <3>2. b \cup {id} # {}
      OBVIOUS
    <3> HIDE DEF b, id
    <3>3. \A B : Other(B) => B \in Batches'
      BY <1>1, <3>1, InBatchesNext
    <3>4. b \cup {id} \in Batches'
      BY <2>4, <3>2, InBatchesNext
    <3>5. \A B : B \in Batches' => Other(B) \/ B = b \cup {id}
      BY <1>1, <2>4, <3>1, InBatchesNext
    <3> QED BY <3>3, <3>4, <3>5
  <2>6. ~Other(b)
    <3>1. ASSUME NEW j \in Instances, NEW q \in Routes, <<j, q>> # <<i, r>>
          PROVE  b \cap IdsOf(state[j][q].samples) = {}
      BY <3>1, BatchesHeld, IdsApart DEF OneFate
    <3>2. ASSUME NEW f \in Persisting PROVE b \cap IdsOf(f.samples) = {}
      BY BatchesHeld, IdsApart DEF OneFate
    <3> QED BY <3>1, <3>2
  <2> HIDE DEF id, b, Other
  <2>7. b \in Batches \cup {{}} /\ Batches' = (Batches \ {b}) \cup {b \cup {id}}
    BY <2>3, <2>5, <2>6
  <2>8. Ledger!Gather(id)
    BY <1>1, <2>2, <2>7 DEF Ledger!Gather, StoredIds
  <2> QED BY <2>1, <2>8 DEF Ledger!Next, LedgerIds
<1>4. \/ \A j \in Instances, q \in Routes : state'[j][q].samples = state[j][q].samples
      \/ \E r \in Routes, s \in Samples :
           /\ s.nth = folds[s.part][s.off] + 1 /\ s.nth <= faults + 1
           /\ folds' = [folds EXCEPT ![s.part][s.off] = s.nth]
           /\ \A j \in Instances, q \in Routes :
                state'[j][q].samples = IF <<j, q>> = <<i, r>> THEN state[j][q].samples \cup {s}
                                                              ELSE state[j][q].samples
  BY MessageStep
<1> QED BY <1>2, <1>3, <1>4

\* A commit stores its batch.
LEMMA LedgerCommit ==
  ASSUME SoleInstance, SamplesInv, NEW f \in flushing, f.stage = "persist", Write(f),
         UNCHANGED state, Persisting' = Persisting \ {f}
  PROVE  Ledger!Next
<1> USE DEF SamplesInv, HeldInv
<1> DEFINE b == IdsOf(f.samples)
           Other(B) == /\ B # {}
                       /\ \/ \E j \in Instances, q \in Routes : B = IdsOf(state[j][q].samples)
                          \/ \E g \in Persisting \ {f} : B = IdsOf(g.samples)
<1>1. /\ f \in Persisting /\ f \in Flushes
      /\ CommitOf(f) \in Flushed /\ f.samples # {} /\ b # {}
  <2>1. f \in Persisting /\ f \in Flushes /\ CommitOf(f) \in Flushed
    BY DEF Persisting, TypeOK, Flushed
  <2>2. f.samples # {}
    BY <2>1 DEF FlushesFull, CommitOf
  <2> QED BY <2>1, <2>2 DEF IdsOf
<1>2. \A B : B \in Batches <=> Other(B) \/ B = b
  BY <1>1, InBatches DEF IsBatch
<1>3. \A B : B \in Batches' <=> Other(B)
  BY InBatchesNext
<1>4. ~Other(b)
  <2>1. ASSUME NEW j \in Instances, NEW q \in Routes PROVE b \cap IdsOf(state[j][q].samples) = {}
    BY <1>1, BatchesHeld, IdsApart DEF OneFate, Disjoint
  <2>2. ASSUME NEW g \in Persisting \ {f} PROVE b \cap IdsOf(g.samples) = {}
    BY <1>1, BatchesHeld, IdsApart DEF OneFate
  <2> QED BY <2>1, <2>2
<1>5. telemetry[KeyOf(f)] \subseteq f.samples
  <2>1. ASSUME NEW c \in commits, KeyOf(c) = KeyOf(f) PROVE c.samples = f.samples
    <3>1. /\ c \in Flushed /\ c \in Commits
          /\ CommitOf(f).inst = f.inst /\ CommitOf(f).route = f.route
          /\ CommitOf(f).start = f.start /\ CommitOf(f).samples = f.samples
      BY DEF Flushed, TypeOK, CommitOf
    <3>2. c.route = f.route /\ c.start = f.start /\ c.inst = f.inst /\ f.start \in Nat
      BY <1>1, <2>1, <3>1, BoundsAssumption DEF KeyOf, SoleInstance, Commits, Flushes, Times
    <3>3. c = CommitOf(f)
      BY <1>1, <3>1, <3>2, WindowAssumption DEF KeyInv, FlushedApart
    <3> QED BY <3>1, <3>3
  <2>2. KeyOf(f) \in Keys
    BY <1>1 DEF KeyOf, Keys, Flushes
  <2> QED BY <2>1, <2>2 DEF RowsOfCommits
<1>6. StoredIds' = StoredIds \cup b
  <2>1. KeyOf(f) \in Keys
    BY <1>1 DEF KeyOf, Keys, Flushes
  <2>2. \A k \in Keys : telemetry'[k] = IF k = KeyOf(f) THEN f.samples ELSE telemetry[k]
    BY <2>1 DEF Write, TypeOK
  <2>3. RowSamples' = RowSamples \cup f.samples
    <3>1. \A t : t \in RowSamples' <=> \E k \in Keys : t \in telemetry'[k]
      BY DEF RowSamples
    <3>2. \A t : t \in RowSamples <=> \E k \in Keys : t \in telemetry[k]
      BY DEF RowSamples
    <3> QED BY <1>5, <2>1, <2>2, <3>1, <3>2
  <2> QED BY <2>3 DEF StoredIds, IdsOf, IdOf
<1> HIDE DEF b, Other
<1>7. Ledger!Store(b)
  <2>1. Batches' = Batches \ {b}
    BY <1>2, <1>3, <1>4
  <2> QED BY <1>6, <2>1 DEF Ledger!Store, StoredIds
<1>8. b \in Batches
  BY <1>2
<1> QED BY <1>7, <1>8 DEF Ledger!Next

\* Every step of the consumer is a step of the ledger, or leaves batches and rows alone.
LEMMA LedgerStep ==
  ASSUME SoleInstance, SamplesInv, [Next]_vars
  PROVE  Ledger!Next \/ (Batches' = Batches /\ StoredIds' = StoredIds)
<1> USE DEF SamplesInv, HeldInv
<1>1. ASSUME NEW i \in Instances, Gone(i) PROVE Ledger!Next
  <2>1. /\ StoredIds' = StoredIds /\ Persisting' \subseteq Persisting
        /\ \A j \in Instances, q \in Routes :
             state'[j][q].samples = state[j][q].samples \/ state'[j][q].samples = {}
    BY <1>1, StoredStays DEF Gone, Persisting, NoWindow, TypeOK, storeVars
  <2>2. IdsOf({}) = {}
    BY DEF IdsOf
  <2>3. ASSUME NEW b \in Batches' PROVE b \in Batches
    <3>1. CASE \E j \in Instances, q \in Routes : b = IdsOf(state'[j][q].samples)
      <4>1. PICK j \in Instances, q \in Routes : b = IdsOf(state'[j][q].samples)
        BY <3>1
      <4>2. b # {}
        BY InBatchesNext
      <4>3. state'[j][q].samples = state[j][q].samples
        BY <2>1, <2>2, <4>1, <4>2
      <4> QED BY <4>1, <4>2, <4>3, InBatches DEF IsBatch
    <3>2. CASE \E f \in Persisting : b = IdsOf(f.samples)
      BY <3>2, InBatches, InBatchesNext DEF IsBatch
    <3> QED BY <2>1, <3>1, <3>2, InBatchesNext
  <2>4. Batches' \subseteq Batches
    BY <2>3
  <2> QED BY <2>1, <2>4, LedgerLoses
<1>2. ASSUME NEW i \in Instances, FlushExpired(i)
      PROVE  Batches' = Batches /\ StoredIds' = StoredIds
  <2>1. StoredIds' = StoredIds
    BY <1>2, StoredStays DEF FlushExpired, storeVars
  <2>2. \A f : f \in Persisting' <=> \/ f \in Persisting
                                    \/ \E q \in Routes : Expired(i, q) /\ f = FlushOf(i, q)
    BY <1>2 DEF FlushExpired, Persisting, FlushOf
  <2>3. \A q \in Routes : FlushOf(i, q).samples = state[i][q].samples
    BY DEF FlushOf
  <2>4. \A j \in Instances, q \in Routes :
          state'[j][q] = IF j = i /\ Expired(i, q) THEN NoWindow ELSE state[j][q]
    BY <1>2 DEF FlushExpired, TypeOK
  <2>5. IdsOf(NoWindow.samples) = {}
    BY DEF IdsOf, NoWindow
  <2>6. \A b : b \in Batches' => b \in Batches
    BY <2>2, <2>3, <2>4, <2>5, InBatches, InBatchesNext DEF IsBatch
  <2>7. \A b : b \in Batches => b \in Batches'
    BY <2>2, <2>3, <2>4, InBatches, InBatchesNext DEF IsBatch
  <2> QED BY <2>1, <2>6, <2>7
<1>3. ASSUME Persisting' \subseteq Persisting, UNCHANGED <<state, commits, folds, telemetry>>
      PROVE  Ledger!Next
  <2>1. \A b : b \in Batches' => b \in Batches
    <3>1. state' = state /\ Persisting' \subseteq Persisting
      BY <1>3
    <3> QED BY <3>1, InBatches, InBatchesNext DEF IsBatch
  <2> QED BY <1>3, <2>1, StoredStays, LedgerLoses
<1>4. UNCHANGED storeVars \/ \E f \in flushing : f.stage = "persist" /\ Write(f)
  BY WriteStep
<1>5. ASSUME NEW f \in flushing, Persist(f) \/ PersistUnacknowledged(f) PROVE Ledger!Next
  <2>1. Persisting' = Persisting \ {f}
    <3>1. CASE Persist(f)
      <4>1. [f EXCEPT !.stage = "announce"].stage = "announce"
        BY DEF TypeOK, Flushes
      <4> QED BY <3>1, <4>1 DEF Persist, Persisting
    <3>2. CASE PersistUnacknowledged(f)
      BY <3>2 DEF PersistUnacknowledged, Persisting
    <3> QED BY <1>5, <3>1, <3>2
  <2> QED BY <1>5, <2>1, LedgerCommit DEF Persist, PersistUnacknowledged
<1>6. ASSUME NEW f \in flushing, PersistFail(f) \/ Announce(f) PROVE Ledger!Next
  BY <1>3, <1>6 DEF PersistFail, Announce, Persisting, storeVars
<1>7. ASSUME NEW i \in Instances, Exit(i) \/ Crash(i) PROVE Ledger!Next
  BY <1>1, <1>7 DEF Exit, Crash
<1>8. ASSUME UNCHANGED <<state, flushing, commits, folds, telemetry>> PROVE Ledger!Next
  BY <1>3, <1>8 DEF Persisting
<1> QED
  BY <1>2, <1>5, <1>6, <1>7, <1>8, LedgerMessage DEF Next, vars, storeVars, Tick, SendBatch,
     SendMalformed, Seed, Start, Stop, Leave, Assign, Commit, EndOfTime

\* With one instance the consumer implements the ledger: a window reaches the tables whole or not at
\* all, no sample is gathered twice, and what is stored stays.
THEOREM ConsumerImplementsLedger == ASSUME SoleInstance PROVE Spec => ImplementsLedger
<1>1. Init => Ledger!Init
  <2>1. Init => Batches = {} /\ RowSamples = {}
    BY InBatches DEF Init, IsBatch, IdsOf, NoWindow, Persisting, RowSamples
  <2> QED BY <2>1 DEF Ledger!Init
<1>2. SamplesInv /\ [Next]_vars => [Ledger!Next]_<<Batches, {IdOf(s) : s \in RowSamples}>>
  BY LedgerStep DEF StoredIds
<1> QED BY <1>1, <1>2, SamplesInvAlways, PTL DEF Spec, ImplementsLedger, Ledger!Spec
===============================================================================
