------------------------- MODULE StreamConsumerProofs -------------------------
(***************************************************************************)
(* Theorems about StreamConsumer, for every number of instances, routes,   *)
(* ships, partitions and messages and every bound: type correctness; keys; *)
(* rows; samples.  Each part opens with its argument.                      *)
(***************************************************************************)
EXTENDS StreamConsumer, TLAPS

LEMMA TypeInit == Init => TypeOK
<1> SUFFICES ASSUME Init PROVE TypeOK
  OBVIOUS
<1> USE DEF Init
<1>1. clock \in Times /\ faults \in 0..MaxFaults /\ 0 <= MaxOffset
  BY BoundsAssumption DEF Times
<1>2. /\ log \in [Partitions -> Seq(Messages)] /\ \A p \in Partitions : Len(log[p]) <= MaxOffset
      /\ owner \in [Partitions -> Instances \cup {Nobody}] /\ position \in [Partitions -> Nat]
      /\ committed \in [Partitions -> Nat \cup {NoOffset}] /\ unsaved \in [Partitions -> BOOLEAN]
      /\ folds \in [Partitions -> [Offsets -> Nat]]
  BY <1>1
<1>3. /\ phase \in [Instances -> Phases] /\ routeMeta \in [Instances -> SUBSET Routes]
      /\ schemaIds \in [Instances -> BOOLEAN]
  BY DEF Phases
<1>4. state \in [Instances -> [Routes -> Windows]]
  <2>1. NoWindow \in Windows
    BY BoundsAssumption DEF NoWindow, Windows, Times
  <2> QED
    BY <2>1
<1>5. telemetry \in [Keys -> SUBSET Samples] /\ carbon \in [Keys -> Scores]
  BY DEF Scores
<1>6. /\ catalog \in SUBSET Routes /\ flushing \in SUBSET Flushes /\ published \in Seq(Updates)
      /\ scored \in SUBSET [route: Routes, start: Times, header: BOOLEAN]
      /\ commits \in SUBSET Commits
  OBVIOUS
<1> QED
  BY <1>1, <1>2, <1>3, <1>4, <1>5, <1>6 DEF TypeOK

LEMMA TypeTick == TypeOK /\ Tick => TypeOK'
  BY BoundsAssumption DEF Tick, TypeOK, Times, brokerVars, processVars, storeVars, outVars

LEMMA TypeSendBatch == ASSUME TypeOK, NEW s \in Ships, SendBatch(s) PROVE TypeOK'
<1>1. log' \in [Partitions -> Seq(Messages)] /\ \A p \in Partitions : Len(log'[p]) <= MaxOffset
  <2>1. RouteOf[s] \in Messages
    BY KeyingAssumption DEF Messages
  <2>2. log \in [Partitions -> Seq(Messages)] /\ \A p \in Partitions : Len(log[p]) <= MaxOffset
    BY DEF TypeOK
  <2>3. PICK written : /\ \A p \in written : Len(log[p]) < MaxOffset
                       /\ log' = [p \in Partitions |-> IF p \in written
                                                        THEN Append(log[p], RouteOf[s]) ELSE log[p]]
    BY DEF SendBatch
  <2>4. ASSUME NEW p \in Partitions
        PROVE  log'[p] \in Seq(Messages) /\ Len(log'[p]) <= MaxOffset
    <3>1. CASE p \in written
      BY BoundsAssumption, <2>1, <2>2, <2>3, <3>1
    <3>2. CASE p \notin written
      BY <2>2, <2>3, <3>2
    <3> QED BY <3>1, <3>2
  <2> QED BY <2>3, <2>4
<1> QED
  BY <1>1 DEF SendBatch, TypeOK, processVars, storeVars, outVars

LEMMA TypeSendMalformed == ASSUME TypeOK, NEW p \in Partitions, SendMalformed(p) PROVE TypeOK'
  BY BoundsAssumption DEF SendMalformed, TypeOK, Messages, processVars, storeVars, outVars

LEMMA TypeSeed == TypeOK /\ Seed => TypeOK'
  BY DEF Seed, TypeOK, brokerVars, processVars, storeVars, outVars

LEMMA TypeStart == ASSUME TypeOK, NEW i \in Instances, Start(i) PROVE TypeOK'
<1>1. /\ phase' \in [Instances -> Phases]
      /\ routeMeta' \in [Instances -> SUBSET Routes]
      /\ schemaIds' \in [Instances -> BOOLEAN]
      /\ faults' \in 0..MaxFaults
  <2>1. CASE phase' = [phase EXCEPT ![i] = "failed"] /\ Fault /\ UNCHANGED <<routeMeta, schemaIds>>
    BY <2>1, BoundsAssumption DEF TypeOK, Phases, Fault
  <2>2. CASE /\ phase' = [phase EXCEPT ![i] = "running"]
             /\ routeMeta' = [routeMeta EXCEPT ![i] = catalog]
             /\ \E ids \in BOOLEAN : schemaIds' = [schemaIds EXCEPT ![i] = ids]
             /\ UNCHANGED faults
    <3>1. phase' \in [Instances -> Phases] /\ routeMeta' \in [Instances -> SUBSET Routes]
      BY <2>2 DEF TypeOK, Phases
    <3>2. schemaIds' \in [Instances -> BOOLEAN]
      <4>1. PICK ids \in BOOLEAN : schemaIds' = [schemaIds EXCEPT ![i] = ids]
        BY <2>2
      <4> QED BY <4>1, Zenon DEF TypeOK
    <3> QED BY <3>1, <3>2, <2>2 DEF TypeOK
  <2> QED BY <2>1, <2>2 DEF Start
<1> QED BY <1>1 DEF Start, TypeOK, brokerVars, storeVars, outVars

LEMMA TypeAssign ==
  ASSUME TypeOK, NEW p \in Partitions, NEW i \in Instances, Assign(p, i) PROVE TypeOK'
  BY BoundsAssumption DEF Assign, TypeOK, Fault, NoOffset, processVars, storeVars, outVars,
     Messages

LEMMA TypeCommit == ASSUME TypeOK, NEW p \in Partitions, Commit(p) PROVE TypeOK'
  BY DEF Commit, TypeOK, processVars, storeVars, outVars

LEMMA TypeGone ==
  ASSUME TypeOK, NEW i \in Instances, Gone(i), faults' \in 0..MaxFaults PROVE TypeOK'
  BY BoundsAssumption DEF Gone, Release, TypeOK, Phases, Windows, NoWindow, Times, storeVars,
     outVars

LEMMA TypeStop == ASSUME TypeOK, NEW i \in Instances, Stop(i) PROVE TypeOK'
  BY BoundsAssumption DEF Stop, Fault, TypeOK, Phases, brokerVars, storeVars, outVars

LEMMA TypeLeave == ASSUME TypeOK, NEW i \in Instances, Leave(i) PROVE TypeOK'
  BY DEF Leave, Release, TypeOK, processVars, storeVars, outVars

LEMMA TypeExit == ASSUME TypeOK, NEW i \in Instances, Exit(i) PROVE TypeOK'
  BY TypeGone DEF Exit, TypeOK

LEMMA TypeCrash == ASSUME TypeOK, NEW i \in Instances, Crash(i) PROVE TypeOK'
<1>1. faults' \in 0..MaxFaults
  BY BoundsAssumption DEF Crash, Fault, TypeOK
<1> QED BY <1>1, TypeGone DEF Crash

\* What touchWindow leaves in the window of a route is a window.
LEMMA TypeTouched ==
  ASSUME TypeOK, NEW i \in Instances, NEW r \in Routes PROVE Touched(i, r) \in Windows
<1>1. state[i][r] \in Windows
  BY DEF TypeOK
<1>2. [open |-> TRUE, start |-> clock, samples |-> {}] \in Windows
  BY DEF TypeOK, Windows
<1> QED BY <1>1, <1>2 DEF Touched

LEMMA TypeOnMessage ==
  ASSUME TypeOK, NEW i \in Instances, NEW p \in Partitions, OnMessage(i, p) PROVE TypeOK'
<1> DEFINE off == position[p] + 1
           r   == log[p][off]
<1>1. off \in Offsets /\ r \in Messages /\ position' \in [Partitions -> Nat]
      /\ unsaved' \in [Partitions -> BOOLEAN]
  BY BoundsAssumption DEF OnMessage, TypeOK, Offsets
<1>2. /\ state' \in [Instances -> [Routes -> Windows]]
      /\ folds' \in [Partitions -> [Offsets -> Nat]]
  <2>1. CASE r \notin routeMeta[i] /\ UNCHANGED <<state, folds>>
    BY <2>1 DEF TypeOK
  <2>2. CASE r \in routeMeta[i] /\ ApplyPosition(i, r)
    <3>1. r \in Routes
      BY <2>2 DEF TypeOK
    <3> HIDE DEF r
    <3> QED BY <2>2, <3>1, TypeTouched DEF ApplyPosition, TypeOK
  <2>3. CASE r \in routeMeta[i] /\ ApplyFuel(i, r, p, off)
    <3>1. r \in Routes
      BY <2>3 DEF TypeOK
    <3> DEFINE s == [part |-> p, off |-> off, nth |-> folds[p][off] + 1, at |-> clock]
               w == Touched(i, r)
    <3>2. s \in Samples
      BY <1>1 DEF Samples, TypeOK
    <3>3. [w EXCEPT !.samples = @ \cup {s}] \in Windows
      <4>1. w \in Windows
        BY <3>1, TypeTouched
      <4> HIDE DEF w, s
      <4> QED BY <4>1, <3>2 DEF Windows
    <3>4. /\ state' = [state EXCEPT ![i][r] = [w EXCEPT !.samples = @ \cup {s}]]
          /\ folds' = [folds EXCEPT ![p][off] = folds[p][off] + 1]
      BY <2>3 DEF ApplyFuel
    <3> HIDE DEF s, w, r, off
    <3>5. state' \in [Instances -> [Routes -> Windows]]
      BY <3>1, <3>3, <3>4 DEF TypeOK
    <3>6. folds' \in [Partitions -> [Offsets -> Nat]]
      BY <1>1, <3>4 DEF TypeOK
    <3> QED BY <3>5, <3>6
  <2> QED BY <2>1, <2>2, <2>3 DEF OnMessage
<1> QED BY <1>1, <1>2 DEF OnMessage, TypeOK, processVars, storeVars, outVars

LEMMA TypeFlushExpired == ASSUME TypeOK, NEW i \in Instances, FlushExpired(i) PROVE TypeOK'
  BY BoundsAssumption DEF FlushExpired, FlushOf, Expired, TypeOK, Windows, NoWindow, Flushes,
     Times, brokerVars, processVars, storeVars, outVars

\* The two upserts keep the tables well typed.
LEMMA TypeWrite ==
  ASSUME TypeOK, NEW f \in flushing, Write(f)
  PROVE  /\ telemetry' \in [Keys -> SUBSET Samples]
         /\ carbon' \in [Keys -> Scores]
         /\ commits' \in SUBSET Commits
<1>1. f \in Flushes
  BY DEF TypeOK
<1>2. KeyOf(f) \in Keys /\ f.samples \in SUBSET Samples
  BY <1>1 DEF Flushes, KeyOf, Keys
<1>3. telemetry' \in [Keys -> SUBSET Samples]
  BY <1>2 DEF Write, TypeOK
<1>4. carbon' \in [Keys -> Scores]
  BY <1>2 DEF Write, TypeOK, Scores
<1>5. commits' \in SUBSET Commits
  BY <1>1 DEF Write, CommitOf, TypeOK, Flushes, Commits
<1> QED BY <1>3, <1>4, <1>5

LEMMA TypePersist == ASSUME TypeOK, NEW f \in flushing, Persist(f) PROVE TypeOK'
<1>1. f \in Flushes
  BY DEF TypeOK
<1>2. [f EXCEPT !.stage = "announce"] \in Flushes
  BY <1>1 DEF Flushes
<1>3. flushing' \in SUBSET Flushes
  BY <1>2 DEF Persist, TypeOK
<1> QED BY <1>3, TypeWrite DEF Persist, TypeOK, brokerVars, processVars, outVars

LEMMA TypePersistFail == ASSUME TypeOK, NEW f \in flushing, PersistFail(f) PROVE TypeOK'
  BY BoundsAssumption DEF PersistFail, FailedCall, Fault, TypeOK, brokerVars, processVars,
     storeVars, outVars

LEMMA TypePersistUnacknowledged ==
  ASSUME TypeOK, NEW f \in flushing, PersistUnacknowledged(f) PROVE TypeOK'
<1>1. faults' \in 0..MaxFaults
  BY BoundsAssumption DEF PersistUnacknowledged, FailedCall, Fault, TypeOK
<1> QED BY <1>1, TypeWrite DEF PersistUnacknowledged, TypeOK, brokerVars, processVars, outVars

LEMMA TypeAnnounce == ASSUME TypeOK, NEW f \in flushing, Announce(f) PROVE TypeOK'
<1>1. f \in Flushes
  BY DEF TypeOK
<1>2. faults' \in 0..MaxFaults
  BY BoundsAssumption DEF Announce, FailedCall, Fault, TypeOK
<1>3. published' \in Seq(Updates)
  <2>1. [inst |-> f.inst, route |-> f.route, start |-> f.start] \in Updates
    BY <1>1 DEF Flushes, Updates
  <2> QED BY <2>1 DEF Announce, TypeOK
<1>4. scored' \in SUBSET [route: Routes, start: Times, header: BOOLEAN]
  <2>1. [route |-> f.route, start |-> f.start, header |-> schemaIds[f.inst]]
          \in [route: Routes, start: Times, header: BOOLEAN]
    <3>1. schemaIds[f.inst] \in BOOLEAN
      BY <1>1, Zenon DEF Flushes, TypeOK
    <3> QED BY <1>1, <3>1 DEF Flushes
  <2> QED BY <2>1 DEF Announce, TypeOK
<1> QED BY <1>2, <1>3, <1>4 DEF Announce, TypeOK, brokerVars, processVars, storeVars

LEMMA TypeStep == TypeOK /\ [Next]_vars => TypeOK'
<1> SUFFICES ASSUME TypeOK, [Next]_vars PROVE TypeOK'
  OBVIOUS
<1>1. CASE Tick
  BY <1>1, TypeTick
<1>2. CASE \E s \in Ships : SendBatch(s)
  BY <1>2, TypeSendBatch
<1>3. CASE \E p \in Noisy : SendMalformed(p)
  BY <1>3, NoisyAssumption, TypeSendMalformed
<1>4. CASE Seed
  BY <1>4, TypeSeed
<1>5. CASE \E i \in Instances :
             Start(i) \/ Stop(i) \/ Leave(i) \/ Exit(i) \/ Crash(i) \/ FlushExpired(i)
  BY <1>5, TypeStart, TypeStop, TypeLeave, TypeExit, TypeCrash, TypeFlushExpired
<1>6. CASE \E p \in Partitions, i \in Instances : Assign(p, i) \/ OnMessage(i, p)
  BY <1>6, TypeAssign, TypeOnMessage
<1>7. CASE \E p \in Partitions : Commit(p)
  BY <1>7, TypeCommit
<1>8. CASE \E f \in flushing :
             Persist(f) \/ PersistFail(f) \/ PersistUnacknowledged(f) \/ Announce(f)
  BY <1>8, TypePersist, TypePersistFail, TypePersistUnacknowledged, TypeAnnounce
<1>9. CASE EndOfTime \/ UNCHANGED vars
  BY <1>9 DEF EndOfTime, vars, TypeOK
<1> QED BY <1>1, <1>2, <1>3, <1>4, <1>5, <1>6, <1>7, <1>8, <1>9 DEF Next

\* Every variable has its type in every reachable state, for every number of instances,
\* routes, partitions and faults.
THEOREM TypeCorrect == Spec => []TypeOK
  BY TypeInit, TypeStep, PTL DEF Spec

-------------------------------------------------------------------------------
(***************************************************************************)
(* Keys.  A window of an instance opens no earlier than Window ticks after *)
(* the opening of the last one it flushed, because that one was as old     *)
(* when it was closed; so no two flushes of an instance write one row.     *)
(***************************************************************************)

\* How a step changes the window of a route: it stays, with its start; it is gone; or it
\* is opened at the present time.
LEMMA WindowStep ==
  ASSUME TypeOK, [Next]_vars, NEW i \in Instances, NEW r \in Routes, state'[i][r].open
  PROVE  /\ clock' >= clock
         /\ \/ state[i][r].open /\ state'[i][r].start = state[i][r].start
            \/ state'[i][r].start = clock
<1>1. CASE Tick
  BY <1>1 DEF Tick, TypeOK, Times
<1>2. CASE \E j \in Instances : Exit(j) \/ Crash(j)
  <2>1. PICK j \in Instances : Gone(j)
    BY <1>2 DEF Exit, Crash
  <2> QED BY <2>1 DEF Gone, NoWindow, TypeOK, Times
<1>3. CASE \E j \in Instances, p \in Partitions : OnMessage(j, p)
  <2>1. PICK j \in Instances, p \in Partitions : OnMessage(j, p)
    BY <1>3
  <2> DEFINE off == position[p] + 1
             q   == log[p][off]
  <2>2. CASE UNCHANGED state
    BY <2>1, <2>2 DEF OnMessage, TypeOK, Times
  <2>3. CASE q \in routeMeta[j] /\ ApplyPosition(j, q)
    <3>1. q \in Routes
      BY <2>3 DEF TypeOK
    <3> HIDE DEF q
    <3> QED BY <2>1, <2>3, <3>1 DEF OnMessage, ApplyPosition, Touched, TypeOK, Times
  <2>4. CASE q \in routeMeta[j] /\ ApplyFuel(j, q, p, off)
    <3>1. q \in Routes
      BY <2>4 DEF TypeOK
    <3> DEFINE s == [part |-> p, off |-> off, nth |-> folds[p][off] + 1, at |-> clock]
    <3>2. state' = [state EXCEPT ![j][q] = [Touched(j, q) EXCEPT !.samples = @ \cup {s}]]
      BY <2>4 DEF ApplyFuel
    <3>3. Touched(j, q) \in Windows
      BY <3>1, TypeTouched
    <3> HIDE DEF q, s
    <3> QED BY <2>1, <3>1, <3>2, <3>3 DEF OnMessage, Touched, Windows, TypeOK, Times
  <2> QED BY <2>1, <2>2, <2>3, <2>4 DEF OnMessage
<1>4. CASE \E j \in Instances : FlushExpired(j)
  <2>1. PICK j \in Instances : FlushExpired(j)
    BY <1>4
  <2> QED BY <2>1 DEF FlushExpired, NoWindow, TypeOK, Times
<1>5. CASE UNCHANGED <<clock, state>>
  BY <1>5 DEF TypeOK, Times
<1> QED BY <1>1, <1>2, <1>3, <1>4, <1>5 DEF Next, vars, SendBatch, SendMalformed, Seed, Start,
         Stop, Leave, Assign, Commit, Persist, PersistFail, PersistUnacknowledged, Announce,
         EndOfTime

\* What a step adds to what was flushed: nothing, or the windows the timer closes.
LEMMA FlushedStep ==
  ASSUME TypeOK, [Next]_vars, NEW x \in Flushed'
  PROVE  \/ x \in Flushed
         \/ \E i \in Instances, r \in Routes :
              /\ Expired(i, r) /\ x = CommitOf(FlushOf(i, r))
              /\ clock' = clock /\ state'[i][r] = NoWindow
<1>1. CASE \E i \in Instances : FlushExpired(i)
  <2>1. PICK i \in Instances : FlushExpired(i)
    BY <1>1
  <2>2. CASE x \in commits
    BY <2>2 DEF Flushed
  <2>3. CASE \E f \in Persisting' : x = CommitOf(f)
    <3>1. PICK f \in Persisting' : x = CommitOf(f)
      BY <2>3
    <3>2. CASE f \in flushing
      BY <3>1, <3>2 DEF Persisting, Flushed
    <3>3. CASE \E r \in Routes : Expired(i, r) /\ f = FlushOf(i, r)
      <4>1. PICK r \in Routes : Expired(i, r) /\ f = FlushOf(i, r)
        BY <3>3
      <4>2. clock' = clock /\ state'[i][r] = NoWindow
        BY <2>1, <4>1 DEF FlushExpired, TypeOK
      <4> QED BY <3>1, <4>1, <4>2
    <3> QED BY <2>1, <3>1, <3>2, <3>3 DEF FlushExpired, Persisting
  <2> QED BY <2>1, <2>2, <2>3 DEF Flushed, FlushExpired, storeVars
<1>2. CASE \E f \in flushing : Persist(f) \/ PersistUnacknowledged(f)
  <2>1. PICK f \in flushing : Persist(f) \/ PersistUnacknowledged(f)
    BY <1>2
  <2>2. f \in Persisting /\ commits' = commits \cup {CommitOf(f)}
    BY <2>1 DEF Persist, PersistUnacknowledged, Persisting, Write
  <2>3. Persisting' \subseteq Persisting
    <3>1. [f EXCEPT !.stage = "announce"].stage = "announce"
      BY DEF TypeOK, Flushes
    <3> QED BY <2>1, <3>1 DEF Persist, PersistUnacknowledged, Persisting
  <2> QED BY <2>2, <2>3 DEF Flushed
<1>3. CASE \E f \in flushing : PersistFail(f) \/ Announce(f)
  BY <1>3 DEF PersistFail, Announce, Flushed, Persisting, storeVars
<1>4. CASE \E i \in Instances : Exit(i) \/ Crash(i)
  BY <1>4 DEF Exit, Crash, Gone, Flushed, Persisting, storeVars
<1>5. CASE UNCHANGED <<flushing, commits>>
  BY <1>5 DEF Flushed, Persisting
<1> QED BY <1>1, <1>2, <1>3, <1>4, <1>5 DEF Next, vars, storeVars, Tick, SendBatch,
         SendMalformed, Seed, Start, Stop, Leave, Assign, Commit, OnMessage, EndOfTime

\* What was flushed is a commit record.
LEMMA FlushedType == TypeOK => Flushed \subseteq Commits
<1> SUFFICES ASSUME TypeOK, NEW x \in Flushed PROVE x \in Commits
  OBVIOUS
<1>1. CASE x \in commits
  BY <1>1 DEF TypeOK
<1>2. CASE \E f \in Persisting : x = CommitOf(f)
  BY <1>2 DEF TypeOK, Persisting, CommitOf, Flushes, Commits
<1> QED BY <1>1, <1>2 DEF Flushed

LEMMA FlushedTypeNext == TypeOK' => (Flushed \subseteq Commits)'
  BY FlushedType, PTL

LEMMA KeyInit == Init => KeyInv
  BY DEF Init, KeyInv, WindowsPast, FlushedPast, WindowsAfter, FlushedApart, Flushed, Persisting,
     NoWindow

LEMMA KeyStep == TypeOK /\ KeyInv /\ [Next]_vars => KeyInv'
<1> SUFFICES ASSUME TypeOK, KeyInv, [Next]_vars PROVE KeyInv'
  OBVIOUS
<1> USE WindowAssumption
<1>1. TypeOK' /\ clock \in Nat /\ clock' \in Nat
  <2>1. TypeOK'
    BY TypeStep
  <2> QED BY <2>1, BoundsAssumption DEF TypeOK, Times
<1>2. clock' >= clock
  <2>1. CASE Tick
    BY <2>1 DEF Tick, TypeOK, Times
  <2>2. CASE clock' = clock
    BY <2>2, <1>1
  <2> QED BY <2>1, <2>2 DEF Next, vars, brokerVars, SendBatch, SendMalformed, Seed, Start, Stop,
           Leave, Exit, Crash, Gone, FlushExpired, Assign, OnMessage, Commit, Persist,
           PersistFail, PersistUnacknowledged, Announce, EndOfTime
<1>3. /\ \A i \in Instances, r \in Routes : state[i][r].start \in Nat /\ state'[i][r].start \in Nat
      /\ \A x \in Flushed : x.inst \in Instances /\ x.route \in Routes /\ x.start \in Nat
      /\ \A x \in Flushed' : x.inst \in Instances /\ x.route \in Routes /\ x.start \in Nat
  <2>1. Flushed \subseteq Commits
    BY FlushedType
  <2>2. Flushed' \subseteq Commits
    BY <1>1, FlushedTypeNext DEF Commits
  <2> QED BY <2>1, <2>2, <1>1, BoundsAssumption DEF TypeOK, Commits, Windows, Times
<1>4. WindowsPast'
  BY <1>1, <1>2, <1>3, WindowStep DEF KeyInv, WindowsPast
<1>5. FlushedPast'
  <2> SUFFICES ASSUME NEW x \in Flushed' PROVE x.start + Window <= clock'
    BY DEF FlushedPast
  <2>1. CASE x \in Flushed
    BY <2>1, <1>1, <1>2, <1>3 DEF KeyInv, FlushedPast
  <2>2. CASE \E i \in Instances, r \in Routes :
               Expired(i, r) /\ x = CommitOf(FlushOf(i, r)) /\ clock' = clock
    BY <2>2, <1>1, <1>3 DEF Expired, CommitOf, FlushOf
  <2> QED BY <2>1, <2>2, FlushedStep
<1>6. WindowsAfter'
  <2> SUFFICES ASSUME NEW x \in Flushed', state'[x.inst][x.route].open
               PROVE  x.start + Window <= state'[x.inst][x.route].start
    BY DEF WindowsAfter
  <2> DEFINE i == x.inst
             r == x.route
  <2>1. i \in Instances /\ r \in Routes
    BY <1>3
  <2>2. x \in Flushed
    <3>1. CASE \E j \in Instances, q \in Routes :
                 x = CommitOf(FlushOf(j, q)) /\ state'[j][q] = NoWindow
      BY <3>1 DEF CommitOf, FlushOf, NoWindow
    <3> QED BY <3>1, FlushedStep
  <2>3. CASE state[i][r].open /\ state'[i][r].start = state[i][r].start
    BY <2>2, <2>3 DEF KeyInv, WindowsAfter
  <2>4. CASE state'[i][r].start = clock
    BY <2>2, <2>4 DEF KeyInv, FlushedPast
  <2> QED BY <2>1, <2>3, <2>4, WindowStep
<1>7. FlushedApart'
  <2> SUFFICES ASSUME NEW x \in Flushed', NEW y \in Flushed',
                      x # y, x.inst = y.inst, x.route = y.route
               PROVE  x.start + Window <= y.start \/ y.start + Window <= x.start
    BY DEF FlushedApart
  <2> DEFINE New(z) == \E i \in Instances, r \in Routes :
                         Expired(i, r) /\ z = CommitOf(FlushOf(i, r))
  <2>1. /\ x \in Flushed \/ New(x)
        /\ y \in Flushed \/ New(y)
    BY FlushedStep
  <2>2. ASSUME NEW old \in Flushed, NEW z, New(z), old.inst = z.inst, old.route = z.route
        PROVE  old.start + Window <= z.start
    BY <2>2 DEF KeyInv, WindowsAfter, Expired, CommitOf, FlushOf
  <2>3. CASE x \in Flushed /\ y \in Flushed
    BY <2>3 DEF KeyInv, FlushedApart
  <2>4. CASE New(x) /\ New(y)
    BY <2>4 DEF CommitOf, FlushOf
  <2>5. CASE x \in Flushed /\ New(y)
    <3> HIDE DEF New
    <3> QED BY <2>2, <2>5
  <2>6. CASE y \in Flushed /\ New(x)
    <3> HIDE DEF New
    <3> QED BY <2>2, <2>6
  <2> QED BY <2>1, <2>3, <2>4, <2>5, <2>6
<1> QED BY <1>4, <1>5, <1>6, <1>7 DEF KeyInv

LEMMA KeyInvariant == Spec => [](TypeOK /\ KeyInv)
  BY TypeInit, TypeStep, KeyInit, KeyStep, PTL DEF Spec

\* Two commits of one instance never carry the same key.
LEMMA KeyInvImplies == TypeOK /\ KeyInv => SameKeyOtherInstance
<1> SUFFICES ASSUME TypeOK, KeyInv, NEW c \in commits, NEW d \in commits,
                    c # d, KeyOf(c) = KeyOf(d), c.inst = d.inst
             PROVE  FALSE
  BY DEF SameKeyOtherInstance
<1>1. c \in Flushed /\ d \in Flushed /\ c.start \in Nat /\ d.start \in Nat
  BY BoundsAssumption DEF Flushed, TypeOK, Commits, Times
<1>2. c.start = d.start /\ c.route = d.route
  BY DEF KeyOf
<1> QED BY <1>1, <1>2, WindowAssumption DEF KeyInv, FlushedApart

\* When two committed flushes of a route have the same time, two instances wrote them:
\* windows of one process, and of its successors after a crash, never share a row.
THEOREM KeysOfOneInstanceDiffer == Spec => []SameKeyOtherInstance
  BY KeyInvariant, KeyInvImplies, PTL

-------------------------------------------------------------------------------
(***************************************************************************)
(* Rows.  Only the transaction of a flush touches the tables.  It finds an *)
(* older row under its key only when another instance wrote it.            *)
(***************************************************************************)

\* A step leaves the tables alone or is the transaction of one flush.
LEMMA WriteStep ==
  ASSUME [Next]_vars
  PROVE  UNCHANGED storeVars \/ \E f \in flushing : f.stage = "persist" /\ Write(f)
<1>1. CASE \E f \in flushing : Persist(f) \/ PersistUnacknowledged(f)
  BY <1>1 DEF Persist, PersistUnacknowledged
<1>2. CASE UNCHANGED storeVars
  BY <1>2
<1> QED BY <1>1, <1>2 DEF Next, vars, storeVars, Tick, SendBatch, SendMalformed, Seed, Start,
         Stop, Leave, Exit, Crash, Gone, FlushExpired, Assign, OnMessage, Commit, PersistFail,
         Announce, EndOfTime

LEMMA RowsInit == Init => RowsWritten /\ RowSurvives
  BY DEF Init, RowsWritten, RowSurvives

LEMMA RowsStep ==
  TypeOK /\ RowsWritten /\ RowSurvives /\ SameKeyOtherInstance' /\ [Next]_vars
    => RowsWritten' /\ RowSurvives'
<1> SUFFICES ASSUME TypeOK, RowsWritten, RowSurvives, SameKeyOtherInstance', [Next]_vars
             PROVE  RowsWritten' /\ RowSurvives'
  OBVIOUS
<1>1. CASE UNCHANGED storeVars
  BY <1>1 DEF storeVars, RowsWritten, RowSurvives
<1>2. ASSUME NEW f \in flushing, Write(f) PROVE RowsWritten' /\ RowSurvives'
  <2> DEFINE k == KeyOf(f)
             c == CommitOf(f)
  <2>1. k \in Keys /\ KeyOf(c) = k /\ c.samples = f.samples /\ c \in Commits
    BY DEF TypeOK, Flushes, Commits, KeyOf, Keys, CommitOf
  <2>2. /\ commits' = commits \cup {c}
        /\ telemetry' = [telemetry EXCEPT ![k] = f.samples]
        /\ carbon' = [carbon EXCEPT ![k] =
                        [score |-> f.samples,
                         detail |-> IF @.score = {} THEN f.samples ELSE @.detail]]
    BY <1>2 DEF Write
  <2>3. /\ telemetry'[k] = f.samples
        /\ carbon'[k] = [score |-> f.samples,
                         detail |-> IF carbon[k].score = {} THEN f.samples ELSE carbon[k].detail]
        /\ \A l \in Keys : l # k => telemetry'[l] = telemetry[l] /\ carbon'[l] = carbon[l]
    BY <2>1, <2>2 DEF TypeOK
  <2>4. \A d \in commits : KeyOf(d) \in Keys
    BY DEF TypeOK, Commits, KeyOf, Keys
  <2> HIDE DEF k, c
  <2>5. RowsWritten'
    <3> SUFFICES ASSUME NEW l \in Keys, carbon'[l].score # {}
                 PROVE  \E d \in commits' : KeyOf(d) = l
      BY DEF RowsWritten, KeyOf
    <3>1. CASE l = k
      BY <3>1, <2>1, <2>2
    <3>2. CASE l # k
      BY <3>2, <2>2, <2>3 DEF RowsWritten
    <3> QED BY <3>1, <3>2
  <2>6. RowSurvives'
    <3> SUFFICES ASSUME NEW d \in commits',
                        \A e \in commits' : KeyOf(e) = KeyOf(d) => e.inst = d.inst
                 PROVE  /\ telemetry'[KeyOf(d)] = d.samples
                        /\ carbon'[KeyOf(d)] = [score |-> d.samples, detail |-> d.samples]
      BY DEF RowSurvives, KeyOf
    <3>1. \A e \in commits' : KeyOf(e) = KeyOf(d) => e = d
      BY DEF SameKeyOtherInstance, KeyOf
    <3>2. CASE d = c
      <4>1. CASE c \in commits
        \* The upsert repeats a write already made: the row holds the same samples.
        <5>1. /\ telemetry[k] = c.samples
              /\ carbon[k] = [score |-> c.samples, detail |-> c.samples]
          BY <2>1, <2>2, <3>1, <3>2, <4>1 DEF RowSurvives
        <5> QED BY <5>1, <2>1, <2>3, <3>2
      <4>2. CASE c \notin commits
        <5>1. carbon[k].score = {}
          BY <2>1, <2>2, <3>1, <3>2, <4>2 DEF RowsWritten
        <5> QED BY <5>1, <2>1, <2>3, <3>2
      <4> QED BY <4>1, <4>2
    <3>3. CASE d # c
      <4>1. d \in commits /\ KeyOf(d) # k
        BY <2>1, <2>2, <3>1, <3>3
      <4>2. /\ telemetry[KeyOf(d)] = d.samples
            /\ carbon[KeyOf(d)] = [score |-> d.samples, detail |-> d.samples]
        BY <4>1, <2>2 DEF RowSurvives
      <4> QED BY <4>1, <4>2, <2>3, <2>4
    <3> QED BY <3>2, <3>3
  <2> QED BY <2>5, <2>6
<1> QED BY <1>1, <1>2, WriteStep

\* A committed window stays in both tables, in all its columns, unless another instance
\* commits a window of the same route with the same time.
THEOREM RowsSurvive == Spec => []RowSurvives
<1>1. Init => TypeOK /\ KeyInv /\ RowsWritten /\ RowSurvives
  BY TypeInit, KeyInit, RowsInit
<1>2. TypeOK /\ KeyInv => SameKeyOtherInstance
  BY KeyInvImplies
<1>3. TypeOK /\ KeyInv /\ [Next]_vars => TypeOK' /\ KeyInv'
  BY TypeStep, KeyStep
<1>4. TypeOK /\ RowsWritten /\ RowSurvives /\ SameKeyOtherInstance' /\ [Next]_vars
        => RowsWritten' /\ RowSurvives'
  BY RowsStep
<1> QED BY <1>1, <1>2, <1>3, <1>4, PTL DEF Spec

-------------------------------------------------------------------------------
(***************************************************************************)
(* Samples.  A sample is new when it is folded, since the history counts   *)
(* every delivery in memory or in a table; from then on it moves, with its *)
(* whole window, from one place to the next.                               *)
(***************************************************************************)

\* A step moves no sample, or is one of the moves the other lemmas describe.
LEMMA FateStep ==
  ASSUME TypeOK, [Next]_vars
  PROVE  \/ UNCHANGED <<state, flushing, commits, folds>>
         \/ \E i \in Instances : Gone(i)
         \/ \E i \in Instances, p \in Partitions : OnMessage(i, p)
         \/ \E i \in Instances : FlushExpired(i)
         \/ \E f \in flushing : /\ f.stage = "persist" /\ Write(f) /\ UNCHANGED <<state, folds>>
                                /\ Persisting' = Persisting \ {f}
         \/ Persisting' \subseteq Persisting /\ UNCHANGED <<state, commits, folds>>
<1>1. CASE \E i \in Instances : Exit(i) \/ Crash(i)
  BY <1>1 DEF Exit, Crash
<1>2. CASE \E f \in flushing : Persist(f) \/ PersistUnacknowledged(f)
  <2>1. PICK f \in flushing : Persist(f) \/ PersistUnacknowledged(f)
    BY <1>2
  <2>2. Persisting' = Persisting \ {f}
    <3>1. CASE Persist(f)
      <4> DEFINE g == [f EXCEPT !.stage = "announce"]
      <4>1. g.stage = "announce"
        BY DEF TypeOK, Flushes
      <4> QED BY <3>1, <4>1 DEF Persist, Persisting
    <3>2. CASE PersistUnacknowledged(f)
      BY <3>2 DEF PersistUnacknowledged, Persisting
    <3> QED BY <2>1, <3>1, <3>2
  <2> QED BY <2>1, <2>2 DEF Persist, PersistUnacknowledged
<1>3. CASE \E f \in flushing : PersistFail(f) \/ Announce(f)
  BY <1>3 DEF PersistFail, Announce, Persisting, storeVars
<1>4. CASE UNCHANGED <<state, flushing, commits, folds>>
  BY <1>4
<1> QED BY <1>1, <1>2, <1>3, <1>4 DEF Next, vars, storeVars, Tick, SendBatch, SendMalformed,
         Seed, Start, Stop, Leave, Assign, Commit, EndOfTime

\* What handling a message does to the windows: it adds at most one sample to one window,
\* and that sample is one more delivery than the history had counted.
LEMMA FoldStep ==
  ASSUME TypeOK, NEW i \in Instances, NEW p \in Partitions, OnMessage(i, p)
  PROVE  \/ /\ UNCHANGED folds
            /\ \A j \in Instances, q \in Routes :
                 state'[j][q].samples \subseteq state[j][q].samples
         \/ \E r \in Routes, s \in Samples :
              /\ s.nth = folds[s.part][s.off] + 1
              /\ folds' = [folds EXCEPT ![s.part][s.off] = s.nth]
              /\ \A j \in Instances, q \in Routes :
                   state'[j][q].samples \subseteq
                     IF <<j, q>> = <<i, r>> THEN state[j][q].samples \cup {s}
                                            ELSE state[j][q].samples
<1> DEFINE off == position[p] + 1
           r   == log[p][off]
<1>1. off \in Offsets
  BY BoundsAssumption DEF OnMessage, TypeOK, Offsets
<1>2. CASE UNCHANGED <<state, folds>>
  BY <1>2
<1>3. CASE r \in routeMeta[i] /\ ApplyPosition(i, r)
  <2>1. r \in Routes
    BY <1>3 DEF TypeOK
  <2>2. Touched(i, r).samples \subseteq state[i][r].samples
    BY DEF Touched
  <2> HIDE DEF r
  <2> QED BY <1>3, <2>1, <2>2 DEF ApplyPosition, TypeOK, OnMessage
<1>4. CASE r \in routeMeta[i] /\ ApplyFuel(i, r, p, off)
  <2>1. r \in Routes
    BY <1>4 DEF TypeOK
  <2> DEFINE s == [part |-> p, off |-> off, nth |-> folds[p][off] + 1, at |-> clock]
             w == Touched(i, r)
  <2>2. s \in Samples /\ s.part = p /\ s.off = off /\ s.nth = folds[p][off] + 1
    BY <1>1 DEF Samples, TypeOK
  <2>3. w \in Windows /\ w.samples \subseteq state[i][r].samples
    BY <2>1, TypeTouched DEF Touched
  <2>4. /\ state' = [state EXCEPT ![i][r] = [w EXCEPT !.samples = @ \cup {s}]]
        /\ folds' = [folds EXCEPT ![p][off] = folds[p][off] + 1]
    BY <1>4 DEF ApplyFuel
  <2> HIDE DEF s, w, r, off
  <2>5. state'[i][r].samples \subseteq state[i][r].samples \cup {s}
    <3>1. state'[i][r] = [w EXCEPT !.samples = @ \cup {s}]
      BY <2>1, <2>4 DEF TypeOK
    <3> QED BY <3>1, <2>3 DEF Windows
  <2>6. \A j \in Instances, q \in Routes :
          <<j, q>> # <<i, r>> => state'[j][q] = state[j][q]
    BY <2>1, <2>4 DEF TypeOK
  <2>7. \A j \in Instances, q \in Routes :
          state'[j][q].samples \subseteq
            IF <<j, q>> = <<i, r>> THEN state[j][q].samples \cup {s} ELSE state[j][q].samples
    BY <2>5, <2>6
  <2>8. folds' = [folds EXCEPT ![s.part][s.off] = s.nth]
    BY <2>2, <2>4
  <2> QED BY <2>1, <2>2, <2>7, <2>8
<1> QED BY <1>2, <1>3, <1>4 DEF OnMessage

LEMMA FateInit == Init => OneFate /\ SamplesKnown
  BY DEF Init, OneFate, SamplesKnown, Flushed, Persisting, Disjoint, NoWindow

\* SamplesKnown with the two kinds of flushed batches apart.
LEMMA SamplesKnownParts ==
  SamplesKnown <=>
    /\ \A i \in Instances, r \in Routes : \A s \in state[i][r].samples : Known(s)
    /\ \A f \in Persisting : \A s \in f.samples : Known(s)
    /\ \A c \in commits : \A s \in c.samples : Known(s)
<1>1. \A f \in Persisting : CommitOf(f).samples = f.samples
  BY DEF CommitOf
<1> QED BY <1>1 DEF SamplesKnown, Flushed

LEMMA SamplesKnownPartsNext ==
  SamplesKnown' <=>
    /\ \A i \in Instances, r \in Routes : \A s \in state'[i][r].samples : Known(s)'
    /\ \A f \in Persisting' : \A s \in f.samples : Known(s)'
    /\ \A c \in commits' : \A s \in c.samples : Known(s)'
<1>1. \A f \in Persisting' : CommitOf(f).samples = f.samples
  BY DEF CommitOf
<1> QED BY <1>1 DEF SamplesKnown, Flushed, Known, CommitOf

LEMMA FateInductive ==
  TypeOK /\ OneFate /\ SamplesKnown /\ [Next]_vars => OneFate' /\ SamplesKnown'
<1> SUFFICES ASSUME TypeOK, OneFate, SamplesKnown, [Next]_vars PROVE OneFate' /\ SamplesKnown'
  OBVIOUS
<1> USE SamplesKnownParts, SamplesKnownPartsNext
<1>1. CASE UNCHANGED <<state, flushing, commits, folds>>
  BY <1>1 DEF OneFate, Persisting, Disjoint, Known
\* Batches only disappear.
<1>2. ASSUME \A i \in Instances, r \in Routes : state'[i][r].samples \subseteq state[i][r].samples,
             Persisting' \subseteq Persisting, commits' = commits, folds' = folds
      PROVE  OneFate' /\ SamplesKnown'
  <2>1. SamplesKnown'
    BY <1>2 DEF Known
  <2>2. OneFate'
    BY <1>2 DEF OneFate, Disjoint
  <2> QED BY <2>1, <2>2
<1>3. CASE \E i \in Instances : Gone(i)
  BY <1>2, <1>3 DEF Gone, NoWindow, TypeOK, Persisting, storeVars
<1>4. CASE \E i \in Instances, p \in Partitions : OnMessage(i, p)
  <2>1. PICK i \in Instances, p \in Partitions : OnMessage(i, p)
    BY <1>4
  <2>2. Persisting' = Persisting /\ commits' = commits
    BY <2>1 DEF OnMessage, Persisting, storeVars
  <2>3. CASE /\ UNCHANGED folds
             /\ \A j \in Instances, q \in Routes :
                  state'[j][q].samples \subseteq state[j][q].samples
    BY <2>2, <2>3, <1>2
  <2>4. ASSUME NEW r \in Routes, NEW s \in Samples,
               s.nth = folds[s.part][s.off] + 1,
               folds' = [folds EXCEPT ![s.part][s.off] = s.nth],
               \A j \in Instances, q \in Routes :
                 state'[j][q].samples \subseteq
                   IF <<j, q>> = <<i, r>> THEN state[j][q].samples \cup {s}
                                          ELSE state[j][q].samples
        PROVE  OneFate' /\ SamplesKnown'
    <3>1. s.part \in Partitions /\ s.off \in Offsets /\ folds[s.part][s.off] \in Nat
      BY DEF Samples, TypeOK
    <3>2. /\ \A j \in Instances, q \in Routes : state[j][q].samples \subseteq Samples
          /\ \A f \in Persisting : f.samples \subseteq Samples
          /\ \A c \in commits : c.samples \subseteq Samples
      BY DEF TypeOK, Windows, Persisting, Flushes, Commits
    <3>3. /\ folds'[s.part][s.off] = s.nth
          /\ \A q \in Partitions, n \in Offsets :
               folds[q][n] \in Nat /\ folds'[q][n] \in Nat /\ folds[q][n] <= folds'[q][n]
      <4>1. folds \in [Partitions -> [Offsets -> Nat]]
        BY DEF TypeOK
      <4>2. s.nth \in Nat /\ folds[s.part][s.off] <= s.nth
        BY <2>4, <3>1
      <4>3. \A q \in Partitions, n \in Offsets :
              folds'[q][n] = IF q = s.part /\ n = s.off THEN s.nth ELSE folds[q][n]
        BY <2>4, <3>1, <4>1
      <4> QED
        BY <3>1, <4>1, <4>2, <4>3
    <3>4. ASSUME NEW t \in Samples, Known(t) PROVE Known(t)' /\ t # s
      <4>1. t.part \in Partitions /\ t.off \in Offsets /\ t.nth \in Nat
        BY DEF Samples
      <4>2. Known(t)'
        BY <3>3, <3>4, <4>1 DEF Known
      <4>3. t # s
        BY <2>4, <3>1, <3>4 DEF Known
      <4> QED BY <4>2, <4>3
    <3>5. Known(s)'
      BY <3>3, <3>1, <2>4 DEF Known
    <3>6. SamplesKnown'
      BY <2>2, <2>4, <3>2, <3>4, <3>5
    <3>7. OneFate'
      <4>1. \A j \in Instances, q \in Routes : s \notin state[j][q].samples
        BY <3>2, <3>4
      <4>2. /\ \A f \in Persisting : s \notin f.samples
            /\ \A c \in commits : s \notin c.samples
        BY <3>2, <3>4
      <4>3. \A j \in Instances, q \in Routes : \A t \in state'[j][q].samples :
              t \in state[j][q].samples \/ (t = s /\ j = i /\ q = r)
        BY <2>4
      <4>4. \A j, l \in Instances, q, v \in Routes :
              <<j, q>> # <<l, v>> => Disjoint(state'[j][q].samples, state'[l][v].samples)
        BY <4>1, <4>3 DEF OneFate, Disjoint
      <4>5. \A j \in Instances, q \in Routes, f \in Persisting' \cup commits' :
              Disjoint(state'[j][q].samples, f.samples)
        BY <2>2, <4>2, <4>3 DEF OneFate, Disjoint
      <4> QED BY <2>2, <4>4, <4>5 DEF OneFate
    <3> QED BY <3>6, <3>7
  <2>5. \/ /\ UNCHANGED folds
           /\ \A j \in Instances, q \in Routes :
                state'[j][q].samples \subseteq state[j][q].samples
        \/ \E r \in Routes, s \in Samples :
             /\ s.nth = folds[s.part][s.off] + 1
             /\ folds' = [folds EXCEPT ![s.part][s.off] = s.nth]
             /\ \A j \in Instances, q \in Routes :
                  state'[j][q].samples \subseteq
                    IF <<j, q>> = <<i, r>> THEN state[j][q].samples \cup {s}
                                           ELSE state[j][q].samples
    BY <2>1, FoldStep
  <2> QED BY <2>3, <2>4, <2>5
<1>5. CASE \E i \in Instances : FlushExpired(i)
  <2>1. PICK i \in Instances : FlushExpired(i)
    BY <1>5
  <2>2. commits' = commits /\ folds' = folds
    BY <2>1 DEF FlushExpired, storeVars
  <2>3. /\ \A j \in Instances, q \in Routes :
             state'[j][q].samples \subseteq state[j][q].samples
        /\ \A q \in Routes : Expired(i, q) => state'[i][q].samples = {}
    BY <2>1 DEF FlushExpired, NoWindow, TypeOK
  <2>4. \A f \in Persisting' :
          f \in Persisting \/ \E q \in Routes : Expired(i, q) /\ f = FlushOf(i, q)
    BY <2>1 DEF FlushExpired, Persisting
  <2>5. \A q \in Routes : FlushOf(i, q).samples = state[i][q].samples
    BY DEF FlushOf
  <2>6. SamplesKnown'
    BY <2>2, <2>3, <2>4, <2>5 DEF Known
  <2>7. OneFate'
    BY <2>2, <2>3, <2>4, <2>5 DEF OneFate, Disjoint
  <2> QED BY <2>6, <2>7
<1>6. CASE \E f \in flushing : /\ f.stage = "persist" /\ Write(f) /\ UNCHANGED <<state, folds>>
                               /\ Persisting' = Persisting \ {f}
  <2>1. PICK f \in flushing : /\ f.stage = "persist" /\ Write(f) /\ UNCHANGED <<state, folds>>
                              /\ Persisting' = Persisting \ {f}
    BY <1>6
  <2>2. f \in Persisting /\ commits' = commits \cup {CommitOf(f)} /\ CommitOf(f).samples = f.samples
    BY <2>1 DEF Write, Persisting, CommitOf
  <2> QED BY <2>1, <2>2 DEF OneFate, Disjoint, Known
<1>7. CASE Persisting' \subseteq Persisting /\ UNCHANGED <<state, commits, folds>>
  BY <1>2, <1>7
<1> QED BY <1>1, <1>3, <1>4, <1>5, <1>6, <1>7, FateStep

\* No delivery of a message is ever counted in two batches, across all instances.
THEOREM EverySampleHasOneFate == Spec => []OneFate
<1>1. Init => TypeOK /\ OneFate /\ SamplesKnown
  BY TypeInit, FateInit
<1>2. TypeOK /\ OneFate /\ SamplesKnown /\ [Next]_vars => TypeOK' /\ OneFate' /\ SamplesKnown'
  BY TypeStep, FateInductive
<1> QED BY <1>1, <1>2, PTL DEF Spec
===============================================================================
