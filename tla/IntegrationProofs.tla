------------------------------ MODULE IntegrationProofs ------------------------------
(***************************************************************************)
(* Theorems about Coordinator, for every threshold, floor and loop delay,   *)
(* and about Integration, for any tasks, sockets and chunks of its client.  *)
(***************************************************************************)
EXTENDS Integration, TLAPS

---------------------------------------------------------------------------------------
(* The coordinator by itself: Spec is Coordinator's. *)

\* The timing constants are integers, and the ages and timers range over them.
LEMMA TimingConstants ==
  /\ StaleAfter \in Int /\ StaleAfter > 0
  /\ RecheckFloor \in Int /\ RecheckFloor > MaxEarly
  /\ MaxEarly \in Int /\ MaxEarly >= 0
  /\ MaxLate \in Int /\ MaxLate >= 0
  /\ Deadline = StaleAfter + RecheckFloor + MaxLate
  /\ AgeCap = Deadline + 1
  /\ NoFrame \notin Int /\ Off \notin Int
BY Thresholds, LoopTiming, Markers DEF Deadline, AgeCap

ShownStates == [connected : BOOLEAN, freshness : {"NO_DATA", "FRESH", "STALE"},
                reading : Readings \cup {Unavailable}]

\* What an entity writes is a state, and a reading only of fresh data.
LEMMA WrittenIsAState ==
  ASSUME age \in Int \cup {NoFrame}, data \in Readings \cup {NoFrame},
         data = NoFrame <=> age = NoFrame
  PROVE  /\ Written \in ShownStates
         /\ Freshness # "FRESH" => Written.reading = Unavailable
         /\ Freshness = "FRESH" => Written.reading = data /\ Written.freshness = "FRESH"
         /\ age = NoFrame => Written.freshness = "NO_DATA"
BY TimingConstants, ReadingsAreValues
DEF Written, Connectivity, Available, Freshness, ShownStates

\* What an entity writes after a step is a state, and a reading only of fresh data.
LEMMA WrittenIsAStateNext ==
  ASSUME age' \in Int \cup {NoFrame}, data' \in Readings \cup {NoFrame},
         data' = NoFrame <=> age' = NoFrame
  PROVE  /\ Written' \in ShownStates
         /\ Freshness' # "FRESH" => Written'.reading = Unavailable
         /\ Freshness' = "FRESH" => Written'.reading = data' /\ Written'.freshness = "FRESH"
         /\ age' = NoFrame => Written'.freshness = "NO_DATA"
BY TimingConstants, ReadingsAreValues
DEF Written, Connectivity, Available, Freshness, ShownStates

\* A step keeps the invariant on the timer of fresh data.
LEMMA TimerInvStep == TimerInv /\ [Next]_vars => TimerInv'
<1> SUFFICES ASSUME TimerInv, [Next]_vars PROVE TimerInv'
  OBVIOUS
<1> USE TimingConstants DEF TimerInv, TypeOK, OneTimer, StaleIsTrue, Freshness, Ticks
<1>1. CASE UNCHANGED vars
  BY <1>1 DEF vars
<1>2. ASSUME NEW reading \in Readings, HandleSnapshot(reading) PROVE TimerInv'
  <2>1. /\ data' = reading /\ age' = 0 /\ announced' = "FRESH" /\ handle' = StaleAfter
        /\ timers' = {handle'} /\ ~shuttingDown /\ UNCHANGED <<shuttingDown, subscribed, connection, checks>>
    <3>1. (timers \ {handle}) \cup {StaleAfter} = {StaleAfter}
      OBVIOUS
    <3> QED BY <1>2, <3>1 DEF HandleSnapshot, Rearm
  <2>2. shown' \in ShownStates /\ (~subscribed' => shown' = Nothing)
    BY <1>2, <2>1, WrittenIsAStateNext, ReadingsAreValues DEF HandleSnapshot, Notify, ShownStates
  <2> QED
    BY <2>1, <2>2, ReadingsAreValues DEF ShownStates
<1>3. ASSUME NEW s \in Follows(connection), HandleConnectionEvent(s) PROVE TimerInv'
  <2>1. /\ ~shuttingDown
        /\ UNCHANGED <<data, age, announced, timers, handle, shuttingDown, subscribed, checks>>
        /\ connection' = s /\ Freshness' = Freshness
    BY <1>3 DEF HandleConnectionEvent
  <2>2. connection' \in {"STOPPED", "CONNECTING", "CONNECTED", "CONNECTION_FAILED", "RECONNECTING"}
    BY <2>1 DEF Follows
  <2>3. /\ shown' \in ShownStates
        /\ age' = NoFrame => shown'.freshness = "NO_DATA"
        /\ shown'.reading # Unavailable => announced = "FRESH"
        /\ ~subscribed' => shown' = Nothing
    <3>1. /\ Written' \in ShownStates
          /\ Freshness' # "FRESH" => Written'.reading = Unavailable
          /\ age' = NoFrame => Written'.freshness = "NO_DATA"
      BY <2>1, WrittenIsAStateNext
    <3>2. Freshness = "FRESH" => announced = "FRESH"
      OBVIOUS
    <3>3. CASE subscribed
      BY <1>3, <2>1, <3>1, <3>2, <3>3 DEF HandleConnectionEvent, Notify
    <3>4. CASE ~subscribed
      BY <1>3, <2>1, <3>4 DEF HandleConnectionEvent, Notify, ShownStates
    <3> QED BY <3>3, <3>4
  <2> QED
    BY <2>1, <2>2, <2>3 DEF ShownStates
<1>4. ASSUME NEW left \in timers, Recheck(left) PROVE TimerInv'
  <2>1. checks' \in 0 .. 2
    BY <1>4 DEF Recheck, Smaller
  <2> QED
    BY <1>4, <2>1 DEF Recheck, Due, Larger
<1>5. ASSUME NEW left \in timers, Expire(left) PROVE TimerInv'
  <2>1. /\ announced = "FRESH" /\ timers = {handle} /\ left = handle /\ ~shuttingDown
        /\ age \in Int /\ age > StaleAfter /\ age' = age /\ connection' = connection
        /\ shuttingDown' = shuttingDown /\ data' = data /\ subscribed' = subscribed
        /\ announced' = "STALE" /\ handle' = Off /\ timers' = {} /\ checks' = checks
    BY <1>5 DEF Expire, Due
  <2>2. shown' \in ShownStates /\ (subscribed => shown'.reading = Unavailable)
    <3>1. Notify
      BY <1>5, <2>1 DEF Expire
    <3>2. Freshness' = "STALE"
      BY <2>1
    <3>3. Written' \in ShownStates /\ Written'.reading = Unavailable
      BY <2>1, <3>2, WrittenIsAStateNext
    <3> QED BY <3>1, <3>3 DEF Notify, ShownStates
  <2>3. ~subscribed => shown' = Nothing
    BY <1>5, <2>1 DEF Expire, Notify
  <2>4. shown'.reading = Unavailable
    BY <2>2, <2>3 DEF Nothing
  <2> QED
    BY <2>1, <2>2, <2>3, <2>4 DEF ShownStates
<1>6. CASE Shutdown
  BY <1>6 DEF Shutdown, CancelTimer
<1>7. CASE Tick
  <2>1. UNCHANGED <<data, announced, connection, shuttingDown, subscribed, shown>> /\ checks' = 0
    BY <1>7 DEF Tick
  <2>2. CASE announced = "FRESH" /\ ~shuttingDown
    <3>1. timers = {handle} /\ handle \in Ticks /\ handle > -MaxLate
      BY <1>7, <2>2 DEF Tick
    <3>2. handle' = handle - 1 /\ handle' \in Ticks
      BY <1>7, <3>1 DEF Tick
    <3>3. timers' = {handle'}
      BY <1>7, <3>1, <3>2 DEF Tick
    <3>4. age \in Int /\ age + handle <= StaleAfter + RecheckFloor /\ age < AgeCap
      BY <2>2, <3>1
    <3>5. age' = age + 1 /\ age' \in 0 .. AgeCap
      BY <1>7, <3>4 DEF Tick
    <3> QED
      BY <2>1, <2>2, <3>2, <3>3, <3>4, <3>5
  <2>3. CASE ~(announced = "FRESH" /\ ~shuttingDown)
    <3>1. timers' = {}
      BY <1>7, <2>3 DEF Tick
    <3>2. age' \in (0 .. AgeCap) \cup {NoFrame}
      BY <1>7 DEF Tick
    <3>3. (age' = NoFrame <=> age = NoFrame) /\ (age \in Int /\ age > StaleAfter => age' > StaleAfter)
      BY <1>7 DEF Tick
    <3>4. handle' = Off
      BY <1>7, <2>3 DEF Tick
    <3> QED
      BY <2>1, <2>3, <3>1, <3>2, <3>3, <3>4
  <2> QED BY <2>2, <2>3
<1>8. CASE AddEntities \/ UpdateEntity \/ RemoveEntities
  <2>1. /\ UNCHANGED <<data, age, announced, timers, handle, connection, shuttingDown, checks>>
        /\ subscribed' \in BOOLEAN
    BY <1>8 DEF AddEntities, UpdateEntity, RemoveEntities
  <2>2. /\ shown' \in ShownStates
        /\ age = NoFrame => shown'.freshness = "NO_DATA"
        /\ shown'.reading # Unavailable /\ ~shuttingDown => announced = "FRESH"
        /\ ~subscribed' => shown' = Nothing
    <3>1. /\ Written \in ShownStates
          /\ Freshness # "FRESH" => Written.reading = Unavailable
          /\ age = NoFrame => Written.freshness = "NO_DATA"
      BY WrittenIsAState
    <3>2. Freshness = "FRESH" => announced = "FRESH"
      OBVIOUS
    <3>3. CASE AddEntities
      BY <3>1, <3>2, <3>3 DEF AddEntities
    <3>4. CASE RemoveEntities
      BY <3>4 DEF RemoveEntities, Nothing, ShownStates
    <3>5. CASE UpdateEntity
      <4>1. PICK kind \in DOMAIN shown : shown' = [shown EXCEPT ![kind] = Written[kind]]
        BY <3>5 DEF UpdateEntity
      <4>2. shown \in ShownStates /\ kind \in {"connected", "freshness", "reading"}
        BY DEF ShownStates
      <4>3. shown' \in ShownStates
        BY <3>1, <4>1, <4>2 DEF ShownStates
      <4>4. age = NoFrame => shown'.freshness = "NO_DATA"
        BY <3>1, <4>1, <4>2 DEF ShownStates
      <4>5. shown'.reading \in {shown.reading, Written.reading}
        BY <4>1, <4>2 DEF ShownStates
      <4>6. subscribed' = TRUE
        BY <3>5 DEF UpdateEntity
      <4> QED BY <3>1, <3>2, <4>3, <4>4, <4>5, <4>6
    <3> QED BY <1>8, <3>3, <3>4, <3>5
  <2> QED BY <2>1, <2>2 DEF ShownStates
<1> QED
  BY <1>1, <1>2, <1>3, <1>4, <1>5, <1>6, <1>7, <1>8 DEF Next

\* The invariant holds in every reachable state, the type invariant with it.
THEOREM CoordinatorInv == Spec => []TimerInv
<1>1. Init => TimerInv
  <2> SUFFICES ASSUME Init PROVE TimerInv
    OBVIOUS
  <2>1. TypeOK
    <3>1. shown \in [connected : BOOLEAN, freshness : {"NO_DATA", "FRESH", "STALE"},
                     reading : Readings \cup {Unavailable}]
      BY DEF Init, Nothing
    <3>2. checks \in 0 .. 2
      BY DEF Init
    <3> QED
      BY <3>1, <3>2 DEF Init, TypeOK
  <2>2. OneTimer /\ StaleIsTrue
    BY DEF Init, OneTimer, StaleIsTrue
  <2> QED
    BY <2>1, <2>2 DEF Init, TimerInv, Nothing
<1> QED
  BY <1>1, TimerInvStep, PTL DEF Spec

\* Exactly one timer is armed while the data is announced as fresh, else none.
THEOREM ExactlyOneTimer == Spec => []OneTimer
<1>1. TimerInv => OneTimer
  BY DEF TimerInv
<1> QED
  BY <1>1, CoordinatorInv, PTL

\* No connection event, early check or late timer keeps the entities available
\* beyond StaleAfter + RecheckFloor + MaxLate after the last valid frame.
THEOREM AvailabilityExpires == Spec => []ShownExpires
<1>1. TimerInv => ShownExpires
  BY TimingConstants DEF TimerInv, TypeOK, OneTimer, ShownExpires, Ticks
<1> QED
  BY <1>1, CoordinatorInv, PTL

\* A step keeps fresh data shown: every entity that writes its state writes it.
LEMMA FreshIsShownStep == TimerInv /\ FreshIsShown /\ [Next]_vars => FreshIsShown'
<1> SUFFICES ASSUME TimerInv, FreshIsShown, [Next]_vars PROVE FreshIsShown'
  OBVIOUS
<1> USE TimingConstants DEF TimerInv, TypeOK, FreshIsShown
<1>a. /\ Freshness = "FRESH" => Written.reading = data /\ Written.freshness = "FRESH"
  BY WrittenIsAState
<1>1. CASE UNCHANGED vars
  BY <1>1 DEF vars, Freshness
<1>2. ASSUME NEW reading \in Readings, HandleSnapshot(reading) PROVE FreshIsShown'
  <2>1. age' = 0 /\ data' = reading /\ data' # NoFrame /\ subscribed' = subscribed /\ Notify
    BY <1>2, ReadingsAreValues DEF HandleSnapshot
  <2> QED BY <2>1, WrittenIsAStateNext DEF Notify
<1>3. ASSUME NEW s \in Follows(connection), HandleConnectionEvent(s) PROVE FreshIsShown'
  <2>1. age' = age /\ data' = data /\ subscribed' = subscribed /\ Notify
    BY <1>3 DEF HandleConnectionEvent
  <2> QED BY <2>1, WrittenIsAStateNext DEF Notify
<1>4. ASSUME NEW left \in timers, Recheck(left) PROVE FreshIsShown'
  BY <1>4 DEF Recheck, Freshness
<1>5. ASSUME NEW left \in timers, Expire(left) PROVE FreshIsShown'
  <2>1. Freshness' # "FRESH"
    BY <1>5 DEF Expire, Due, Freshness, OneTimer
  <2> QED BY <2>1
<1>6. CASE Shutdown
  BY <1>6 DEF Shutdown, Freshness
<1>7. CASE Tick
  <2>1. UNCHANGED <<data, subscribed, shown>> /\ (Freshness' = "FRESH" => Freshness = "FRESH")
    BY <1>7 DEF Tick, Freshness
  <2> QED BY <2>1
<1>8. CASE AddEntities
  BY <1>8, <1>a DEF AddEntities, Freshness
<1>9. CASE RemoveEntities
  BY <1>9 DEF RemoveEntities
<1>10. CASE UpdateEntity
  <2>1. PICK kind \in DOMAIN shown : shown' = [shown EXCEPT ![kind] = Written[kind]]
    BY <1>10 DEF UpdateEntity
  <2>2. kind \in {"connected", "freshness", "reading"}
    OBVIOUS
  <2>3. /\ shown'.reading \in {shown.reading, Written.reading}
        /\ shown'.freshness \in {shown.freshness, Written.freshness}
    BY <2>1, <2>2
  <2>4. UNCHANGED <<data, subscribed>> /\ Freshness' = Freshness
    BY <1>10 DEF UpdateEntity, Freshness
  <2> QED BY <2>3, <2>4, <1>a
<1> QED
  BY <1>1, <1>2, <1>3, <1>4, <1>5, <1>6, <1>7, <1>8, <1>9, <1>10 DEF Next

\* While the last frame is fresh the entities show it, whatever the connection does
\* and whenever they were added, before and after a shutdown.
THEOREM FreshDataIsShown == Spec => []FreshIsShown
<1>1. Init => FreshIsShown
  BY DEF Init, FreshIsShown
<1> QED
  BY <1>1, CoordinatorInv, FreshIsShownStep, PTL DEF Spec

\* After an early check the next one is beyond the loop's earliness.
SpacedInv ==
    /\ checks < 2
    /\ checks = 1 /\ ~shuttingDown /\ announced = "FRESH" => handle > MaxEarly

\* No two early checks come in one tick, where the loop is not so early that a timer
\* for the whole threshold is due at once.
THEOREM ChecksAreSpaced ==
  ASSUME MaxEarly < StaleAfter PROVE Spec => []NoBusyRecheck
<1>1. Init => SpacedInv
  BY DEF Init, SpacedInv
<1>2. TimerInv /\ SpacedInv /\ [Next]_vars => SpacedInv'
  <2> SUFFICES ASSUME TimerInv, SpacedInv, [Next]_vars PROVE SpacedInv'
    OBVIOUS
  <2> USE TimingConstants DEF TimerInv, TypeOK, OneTimer, SpacedInv
  <2>1. CASE UNCHANGED vars
    BY <2>1 DEF vars
  <2>2. ASSUME NEW reading \in Readings, HandleSnapshot(reading) PROVE SpacedInv'
    BY <2>2 DEF HandleSnapshot, Rearm
  <2>3. ASSUME NEW s \in Follows(connection), HandleConnectionEvent(s) PROVE SpacedInv'
    BY <2>3 DEF HandleConnectionEvent
  <2>4. ASSUME NEW left \in timers, Recheck(left) PROVE SpacedInv'
    <3>1. left = handle /\ left <= MaxEarly /\ ~shuttingDown /\ announced = "FRESH"
      BY <2>4 DEF Recheck, Due
    <3>2. checks = 0
      BY <3>1 DEF Ticks
    <3> QED BY <2>4, <3>2 DEF Recheck, Smaller, Larger
  <2>5. ASSUME NEW left \in timers, Expire(left) PROVE SpacedInv'
    BY <2>5 DEF Expire
  <2>6. CASE Shutdown
    BY <2>6 DEF Shutdown
  <2>7. CASE Tick
    BY <2>7 DEF Tick
  <2>8. CASE AddEntities \/ RemoveEntities \/ UpdateEntity
    BY <2>8 DEF AddEntities, RemoveEntities, UpdateEntity
  <2> QED BY <2>1, <2>2, <2>3, <2>4, <2>5, <2>6, <2>7, <2>8 DEF Next
<1>3. SpacedInv => NoBusyRecheck
  BY DEF SpacedInv, NoBusyRecheck
<1> QED
  BY <1>1, <1>2, <1>3, CoordinatorInv, PTL DEF Spec

\* A shutdown is final and silent: nothing is heard and no timer armed after it, and
\* an entity that writes its state again can only find the data stale.
THEOREM ShutdownSilences == Spec => ShutdownIsSilent
<1> DEFINE Silent == shuttingDown =>
             /\ shuttingDown' /\ timers' = {}
             /\ UNCHANGED <<data, announced, connection>>
             /\ subscribed /\ subscribed' =>
                   /\ shown'.connected = shown.connected
                   /\ shown'.freshness \in {shown.freshness, "STALE"}
                   /\ shown'.reading \in {shown.reading, Unavailable}
           Connected == subscribed => shown.connected = Connectivity
<1>1. Init => Connected
  BY DEF Init
<1>2. TimerInv /\ Connected /\ [Next]_vars => Connected'
  <2> SUFFICES ASSUME TimerInv, Connected, Next PROVE Connected'
    BY DEF vars, Connectivity
  <2>1. CASE Notify /\ UNCHANGED subscribed
    <3>1. Written'.connected = Connectivity'
      BY DEF Written
    <3>2. CASE subscribed
      BY <2>1, <3>1, <3>2 DEF Notify
    <3>3. CASE ~subscribed
      BY <2>1, <3>3
    <3> QED BY <3>2, <3>3
  <2>2. CASE UNCHANGED <<connection, shown, subscribed>>
    BY <2>2 DEF Connectivity
  <2>3. CASE AddEntities
    BY <2>3 DEF AddEntities, Written, Connectivity
  <2>4. CASE RemoveEntities
    BY <2>4 DEF RemoveEntities
  <2>5. CASE UpdateEntity
    <3>1. PICK kind \in DOMAIN shown : shown' = [shown EXCEPT ![kind] = Written[kind]]
      BY <2>5 DEF UpdateEntity
    <3>2. shown'.connected \in {shown.connected, Written.connected}
      BY <3>1 DEF TimerInv, TypeOK
    <3>3. Written.connected = Connectivity
      BY DEF Written
    <3>4. Connectivity' = Connectivity /\ subscribed
      BY <2>5 DEF UpdateEntity, Connectivity
    <3> QED BY <3>2, <3>3, <3>4
  <2> QED BY <2>1, <2>2, <2>3, <2>4, <2>5
          DEF Next, HandleSnapshot, HandleConnectionEvent, Recheck, Expire, Shutdown, Tick
<1>3. TimerInv /\ FreshIsShown /\ Connected /\ [Next]_vars => [Silent]_vars
  <2> SUFFICES ASSUME TimerInv, FreshIsShown, Connected, Next, shuttingDown
               PROVE  /\ shuttingDown' /\ timers' = {}
                      /\ UNCHANGED <<data, announced, connection>>
                      /\ subscribed /\ subscribed' =>
                            /\ shown'.connected = shown.connected
                            /\ shown'.freshness \in {shown.freshness, "STALE"}
                            /\ shown'.reading \in {shown.reading, Unavailable}
    BY DEF vars
  <2>1. timers = {}
    BY DEF TimerInv, OneTimer
  <2>2. CASE Shutdown \/ Tick \/ AddEntities \/ RemoveEntities
    BY <2>1, <2>2 DEF Shutdown, CancelTimer, Tick, AddEntities, RemoveEntities
  <2>3. CASE UpdateEntity
    <3>1. PICK kind \in DOMAIN shown : shown' = [shown EXCEPT ![kind] = Written[kind]]
      BY <2>3 DEF UpdateEntity
    <3>2. shown \in ShownStates
      BY DEF TimerInv, TypeOK, ShownStates
    <3>3. /\ shown'.connected \in {shown.connected, Written.connected}
          /\ shown'.freshness \in {shown.freshness, Written.freshness}
          /\ shown'.reading \in {shown.reading, Written.reading}
      BY <3>1, <3>2 DEF ShownStates
    <3>4. Written.connected = shown.connected
      BY <2>3 DEF UpdateEntity, Written
    <3>5. /\ Freshness = "FRESH" => Written.reading = data /\ Written.freshness = "FRESH"
          /\ Freshness # "FRESH" => Written.reading = Unavailable
          /\ age = NoFrame => Written.freshness = "NO_DATA"
      BY WrittenIsAState, TimingConstants DEF TimerInv, TypeOK
    <3>6. Written.freshness \in {shown.freshness, "STALE"}
      <4>1. CASE age = NoFrame
        BY <4>1, <3>5 DEF TimerInv
      <4>2. CASE Freshness = "FRESH"
        BY <2>3, <4>2, <3>5 DEF FreshIsShown, UpdateEntity
      <4>3. CASE Freshness = "STALE"
        BY <4>3 DEF Written
      <4> QED BY <4>1, <4>2, <4>3 DEF Freshness
    <3>7. Written.reading \in {shown.reading, Unavailable}
      BY <2>3, <3>5 DEF FreshIsShown, UpdateEntity
    <3>8. UNCHANGED <<data, announced, connection, shuttingDown, timers>>
      BY <2>3 DEF UpdateEntity
    <3> QED BY <2>1, <3>3, <3>4, <3>6, <3>7, <3>8
  <2> QED
    BY <2>1, <2>2, <2>3 DEF Next, HandleSnapshot, HandleConnectionEvent
<1>4. [][Silent]_vars => ShutdownIsSilent
  BY DEF ShutdownIsSilent
<1> QED
  BY <1>1, <1>2, <1>3, <1>4, CoordinatorInv, FreshDataIsShown, PTL DEF Spec

---------------------------------------------------------------------------------------
(* The client that the entry drives, until its shutdown *)

\* Until the entry is shut down nobody stops the client: no call is running, nothing
\* is cancelled, and the only supervisor is the registered one.
Undisturbed ==
    /\ pc \in [Supervisors -> Client!Awaits]
    /\ ~stopping
    /\ cancelled = {}
    /\ \A a \in {Manager, Halter} \cup Supervisors : call[a] = Client!NoCall
    /\ \A t \in Supervisors : ~Client!Done(t) => t = runTask /\ Client!Tells(t)

\* A step of the undisturbed client leaves it undisturbed and publishes, if anything,
\* the state that follows; it is made by a supervisor.
LEMMA UndisturbedStep ==
  ASSUME Undisturbed,
         \/ \E t \in Supervisors : Client!Supervise(t)
         \/ \E a \in {Manager, Halter} : Client!Proceed(a)
  PROVE  /\ Undisturbed'
         /\ state' = state \/ state' \in Follows(state)
         /\ \E t \in Supervisors : ~Client!Done(t)
         /\ "crashed" \notin ConnectOutcomes => runTask' = runTask /\ ~Client!Done(runTask)'
<1> USE DEF Undisturbed
<1>1. ~ \E a \in {Manager, Halter} : Client!Proceed(a)
  BY DEF Client!Proceed, Client!StartResumes, Client!StopJoins, Client!StopEnds,
         Client!AwaitRaises, Client!NoCall
<1>2. PICK t \in Supervisors : Client!Supervise(t)
  BY <1>1
<1> DEFINE Kept == UNCHANGED <<stopping, cancelled, call>>
           Moves(await, s) == /\ pc' = [pc EXCEPT ![t] = await] /\ state' = s
                              /\ runTask' = runTask
<1>3. ASSUME Kept, t = runTask, ~Client!Done(t),
             NEW await \in Client!Awaits \ Client!Ended, NEW s \in {state} \cup Follows(state),
             Moves(await, s), Client!Tells(t)'
      PROVE  /\ Undisturbed'
             /\ state' = state \/ state' \in Follows(state)
             /\ ~Client!Done(t)
             /\ runTask' = runTask /\ ~Client!Done(runTask)'
  <2>1. \A u \in Supervisors : u # t => pc'[u] = pc[u] /\ Client!Done(u)
    BY <1>3
  <2>2. pc'[t] = await
    BY <1>3
  <2> QED BY <1>3, <2>1, <2>2 DEF Client!Done
<1>4. ~Client!Done(t) /\ t = runTask /\ Client!Tells(t) /\ ~Client!Unwind(t)
  BY <1>2 DEF Client!Supervise, Client!Done, Client!Ended, Client!Running, Client!Returns, Client!Unwind,
     Client!Begin, Client!Connect, Client!ConnectFails, Client!ConnectCrashes, Client!Receive, Client!ReadEnds,
     Client!Closed, Client!SleepEnds, Client!ConnectingReturns, Client!ConnectedReturns,
     Client!SnapshotReturns, Client!FailedReturns, Client!ReconnectingReturns
<1> USE DEF Client!Awaits, Client!InSession, Client!Ended, Client!Running, Client!At
<1>5. CASE Client!Begin(t)
  <2>1. Kept /\ Moves("onConnecting", "CONNECTING") /\ Client!Tells(t)'
    BY <1>4, <1>5 DEF Client!Begin, Client!NextAttempt, Client!Publish, Client!Tells
  <2>2. "CONNECTING" \in Follows(state)
    BY <1>4, <1>5 DEF Client!Begin, Client!Returns, Follows, Client!Tells
  <2> QED BY <1>3, <1>4, <2>1, <2>2
<1>6. CASE Client!Connect(t)
  <2>1. Kept /\ Moves("onConnected", "CONNECTED") /\ Client!Tells(t)'
    BY <1>4, <1>6 DEF Client!Connect, Client!Publish, Client!Tells
  <2>2. "CONNECTED" \in Follows(state)
    BY <1>4, <1>6 DEF Client!Connect, Client!Returns, Follows, Client!Tells
  <2> QED BY <1>3, <1>4, <2>1, <2>2
<1>7. CASE Client!ConnectFails(t)
  <2>1. Kept /\ Moves("onFailed", "CONNECTION_FAILED") /\ Client!Tells(t)'
    BY <1>4, <1>7 DEF Client!ConnectFails, Client!EndAttempt, Client!Fail, Client!Tells
  <2>2. "CONNECTION_FAILED" \in Follows(state)
    BY <1>4, <1>7 DEF Client!ConnectFails, Client!Returns, Follows, Client!Tells
  <2> QED BY <1>3, <1>4, <2>1, <2>2
<1>8. CASE Client!Closed(t)
  <2>1. Kept /\ Moves("onFailed", "CONNECTION_FAILED") /\ Client!Tells(t)'
    BY <1>4, <1>8 DEF Client!Closed, Client!EndAttempt, Client!Fail, Client!Tells
  <2>2. "CONNECTION_FAILED" \in Follows(state)
    BY <1>4, <1>8 DEF Client!Closed, Client!Returns, Follows, Client!Tells
  <2> QED BY <1>3, <1>4, <2>1, <2>2
<1>9. CASE Client!SleepEnds(t)
  <2>1. Kept /\ Moves("onConnecting", "CONNECTING") /\ Client!Tells(t)'
    BY <1>4, <1>9 DEF Client!SleepEnds, Client!NextAttempt, Client!Publish, Client!Tells
  <2>2. "CONNECTING" \in Follows(state)
    BY <1>4, <1>9 DEF Client!SleepEnds, Client!Returns, Follows, Client!Tells
  <2> QED BY <1>3, <1>4, <2>1, <2>2
<1>10. CASE Client!ConnectingReturns(t)
  <2>1. Kept /\ Moves("connecting", state) /\ Client!Tells(t)'
    BY <1>4, <1>10 DEF Client!ConnectingReturns, Client!Returns, Client!Tells
  <2> QED BY <1>3, <1>4, <2>1
<1>11. CASE Client!ConnectedReturns(t)
  <2>1. Kept /\ Moves("reading", state) /\ Client!Tells(t)'
    BY <1>4, <1>11 DEF Client!ConnectedReturns, Client!Returns, Client!ReadOn, Client!Tells
  <2> QED BY <1>3, <1>4, <2>1
<1>12. CASE Client!FailedReturns(t)
  <2>1. Kept /\ Moves("onReconnecting", "RECONNECTING") /\ Client!Tells(t)'
    BY <1>4, <1>12 DEF Client!FailedReturns, Client!Returns, Client!Retry, Client!Publish, Client!Tells
  <2>2. "RECONNECTING" \in Follows(state)
    BY <1>4, <1>12 DEF Client!FailedReturns, Client!Returns, Follows, Client!Tells
  <2> QED BY <1>3, <1>4, <2>1, <2>2
<1>13. CASE Client!ReconnectingReturns(t)
  <2>1. Kept /\ Moves("sleeping", state) /\ Client!Tells(t)'
    BY <1>4, <1>13 DEF Client!ReconnectingReturns, Client!Returns, Client!Tells
  <2> QED BY <1>3, <1>4, <2>1
<1>14. CASE Client!Receive(t)
  <2>1. Kept
    BY <1>14 DEF Client!Receive
  <2>2. Moves("reading", state) \/ Moves("onSnapshot", state)
    BY <1>14 DEF Client!Receive, Client!ReadOn
  <2>3. pc[t] = "reading" /\ state = "CONNECTED"
    BY <1>4, <1>14 DEF Client!Receive, Client!Tells
  <2>4. CASE Moves("reading", state)
    <3>1. Client!Tells(t)'
      BY <2>3, <2>4 DEF Client!Tells
    <3> QED BY <1>3, <1>4, <2>1, <2>4, <3>1
  <2>5. CASE Moves("onSnapshot", state)
    <3>1. Client!Tells(t)'
      BY <2>3, <2>5 DEF Client!Tells
    <3> QED BY <1>3, <1>4, <2>1, <2>5, <3>1
  <2> QED BY <2>2, <2>4, <2>5
<1>15. CASE Client!SnapshotReturns(t)
  <2>1. Kept
    BY <1>15 DEF Client!SnapshotReturns
  <2>2. pc[t] = "onSnapshot" /\ state = "CONNECTED"
    BY <1>4, <1>15 DEF Client!SnapshotReturns, Client!Returns, Client!Tells
  <2>3. Moves("reading", state) \/ Moves("onSnapshot", state)
    BY <1>15, <2>2 DEF Client!SnapshotReturns, Client!ReadOn
  <2>4. CASE Moves("reading", state)
    <3>1. Client!Tells(t)'
      BY <2>2, <2>4 DEF Client!Tells
    <3> QED BY <1>3, <1>4, <2>1, <2>4, <3>1
  <2>5. CASE Moves("onSnapshot", state)
    <3>1. Client!Tells(t)'
      BY <2>2, <2>5 DEF Client!Tells
    <3> QED BY <1>3, <1>4, <2>1, <2>5, <3>1
  <2> QED BY <2>3, <2>4, <2>5
<1>16. CASE Client!ReadEnds(t)
  <2>1. Kept
    BY <1>16 DEF Client!ReadEnds
  <2>2. pc[t] = "reading" /\ state = "CONNECTED"
    BY <1>4, <1>16 DEF Client!ReadEnds, Client!Tells
  <2>3. Moves("closing", state) \/ Moves("onFailed", "CONNECTION_FAILED")
    BY <1>16, <2>2 DEF Client!ReadEnds, Client!CloseSession, Client!EndAttempt, Client!Fail
  <2>4. CASE Moves("closing", state)
    <3>1. Client!Tells(t)'
      BY <2>2, <2>4 DEF Client!Tells
    <3> QED BY <1>3, <1>4, <2>1, <2>4, <3>1
  <2>5. CASE Moves("onFailed", "CONNECTION_FAILED")
    <3>1. Client!Tells(t)' /\ "CONNECTION_FAILED" \in Follows(state)
      BY <2>2, <2>5 DEF Client!Tells, Follows
    <3> QED BY <1>3, <1>4, <2>1, <2>5, <3>1
  <2> QED BY <2>3, <2>4, <2>5
<1>17. CASE Client!ConnectCrashes(t)
  <2>1. Kept /\ "crashed" \in ConnectOutcomes /\ state' = state
    BY <1>17 DEF Client!ConnectCrashes
  <2>2. pc' = [pc EXCEPT ![t] = "crashed"]
    BY <1>17 DEF Client!ConnectCrashes
  <2>3. \A u \in Supervisors : Client!Done(u)'
    BY <1>4, <2>2 DEF Client!Done
  <2> QED BY <1>4, <2>1, <2>2, <2>3
<1> QED
  BY <1>2, <1>4, <1>5, <1>6, <1>7, <1>8, <1>9, <1>10, <1>11, <1>12, <1>13,
     <1>14, <1>15, <1>16, <1>17 DEF Client!Supervise

\* The guard of the coordinator is set exactly once a shutdown has begun, and until
\* then the client is undisturbed and the coordinator has heard all it published.
EntryInv == /\ shuttingDown \in BOOLEAN
            /\ shuttingDown <=> Begun
            /\ ~shuttingDown => Undisturbed /\ connection = state
            /\ ~shuttingDown /\ entry = "not_loaded" =>
                  runTask = None /\ state = "STOPPED" /\ \A t \in Supervisors : Client!Done(t)

LEMMA EntryInvInit == InitEntry => EntryInv
BY DEF InitEntry, Init, Client!Init, EntryInv, Begun, Undisturbed, Client!Done, Client!Ended,
       Client!Awaits, Client!Callers

\* What a step of the client publishes is heard, in the order the coordinator expects.
LEMMA RunClientIsHeard ==
  ASSUME EntryInv, RunClient
  PROVE  EntryInv' /\ [Next]_vars
<1> USE DEF EntryInv
<1>1. UNCHANGED entryVars /\ Handled
  BY DEF RunClient
<1>2. Begun' <=> Begun
  BY <1>1 DEF entryVars, Begun
<1>3. CASE shuttingDown
  <2>1. UNCHANGED vars
    BY <1>1, <1>3 DEF Handled, Ignored, HandleConnectionEvent, HandleSnapshot
  <2> QED BY <1>2, <1>3, <2>1 DEF vars
<1>4. CASE ~shuttingDown
  <2>1. /\ Undisturbed'
        /\ state' = state \/ state' \in Follows(state)
        /\ \E t \in Supervisors : ~Client!Done(t)
    BY <1>4, UndisturbedStep DEF RunClient
  <2>2. entry' = entry /\ entry # "not_loaded"
    BY <1>1, <1>4, <2>1 DEF entryVars
  <2>3. CASE state' # state
    <3>1. HandleConnectionEvent(state')
      BY <1>1, <1>4, <2>3 DEF Handled, Published, Ignored
    <3>2. connection' = state' /\ shuttingDown' = shuttingDown
      BY <3>1 DEF HandleConnectionEvent
    <3>3. state' \in Follows(connection)
      BY <1>4, <2>1, <2>3
    <3>4. Next
      BY <3>1, <3>3 DEF Next
    <3> QED BY <1>2, <1>4, <2>1, <2>2, <3>2, <3>4
  <2>4. CASE state' = state /\ ~ \E t \in Supervisors : Framed(t)
    <3>1. UNCHANGED vars
      BY <1>1, <2>4 DEF Handled, Published
    <3> QED BY <1>2, <1>4, <2>1, <2>2, <2>4, <3>1 DEF vars
  <2>5. ASSUME state' = state, NEW t \in Supervisors, Framed(t)
        PROVE  EntryInv' /\ [Next]_vars
    <3>1. PICK reading \in Readings : HandleSnapshot(reading)
      BY <1>1, <1>4, <2>5 DEF Handled, Published, Ignored
    <3>2. UNCHANGED <<connection, shuttingDown>>
      BY <3>1 DEF HandleSnapshot
    <3>3. pc'[t] = "onSnapshot"
      BY <2>5 DEF Framed
    <3>4. state' = "CONNECTED"
      BY <2>1, <3>3 DEF Undisturbed, Client!Tells, Client!Done, Client!Ended
    <3>5. Next
      BY <1>4, <2>5, <3>1, <3>4 DEF Next
    <3> QED BY <1>2, <1>4, <2>1, <2>2, <2>5, <3>2, <3>5
  <2> QED BY <2>3, <2>4, <2>5
<1> QED BY <1>3, <1>4

\* A step of the entry keeps the invariant and is one the coordinator allows.
LEMMA EntryStep == EntryInv /\ [NextEntry]_allVars => EntryInv' /\ [Next]_vars
<1> SUFFICES ASSUME EntryInv, [NextEntry]_allVars PROVE EntryInv' /\ [Next]_vars
  OBVIOUS
<1> USE DEF EntryInv
<1>a. ASSUME UNCHANGED clientVars, UNCHANGED <<connection, shuttingDown>>, Begun' <=> Begun,
             entry' # "not_loaded" \/ entry' = entry
      PROVE  EntryInv'
  <2>1. Undisturbed => Undisturbed'
    BY <1>a DEF clientVars, Undisturbed, Client!Tells, Client!Done
  <2>2. (\A t \in Supervisors : Client!Done(t)) => \A t \in Supervisors : Client!Done(t)'
    BY <1>a DEF clientVars, Client!Done
  <2> QED BY <1>a, <2>1, <2>2 DEF clientVars
<1>b. ASSUME NEW a, BeginShutdown(a), Begun' PROVE EntryInv' /\ Next
  <2>1. shuttingDown' = TRUE /\ Next
    BY <1>b DEF BeginShutdown, Shutdown, Next
  <2> QED BY <1>b, <2>1
<1>1. CASE UNCHANGED allVars
  BY <1>1, <1>a DEF allVars, vars, entryVars, Begun
<1>2. CASE SetUp
  <2>1. /\ entry = "not_loaded" /\ entry' = "forwarding" /\ halting' = halting
        /\ UNCHANGED vars /\ Client!StartCall(Manager)
    BY <1>2 DEF SetUp
  <2>2. UNCHANGED <<connection, shuttingDown>> /\ (Begun' <=> Begun)
    BY <2>1 DEF vars, Begun
  <2>3. CASE shuttingDown
    BY <2>1, <2>2, <2>3
  <2>4. CASE ~shuttingDown
    <3>1. /\ Client!Launch(Manager)
          /\ UNCHANGED <<call, state, cancelled>>
      BY <2>1, <2>4 DEF Client!StartCall
    <3>2. PICK t \in Supervisors : /\ stopping' = FALSE /\ runTask' = t
                                   /\ pc' = [pc EXCEPT ![t] = "new"]
      BY <3>1 DEF Client!Launch, Client!At
    <3>3. Undisturbed'
      BY <2>1, <2>4, <3>1, <3>2 DEF Undisturbed, Client!Tells, Client!Done, Client!Awaits, Client!Ended
    <3> QED BY <2>1, <2>2, <2>4, <3>1, <3>3
  <2> QED BY <2>3, <2>4
<1>3. CASE Forwarded
  <2>1. AddEntities /\ UNCHANGED clientVars /\ entry = "forwarding" /\ entry' = "loaded" /\ halting' = halting
    BY <1>3 DEF Forwarded
  <2> QED BY <2>1, <1>a DEF AddEntities, Begun, Next
<1>4. CASE ForwardFails
  <2>1. /\ AddEntities \/ UNCHANGED vars
        /\ UNCHANGED clientVars /\ entry = "forwarding" /\ entry' = "failed" /\ halting' = halting
    BY <1>4 DEF ForwardFails
  <2> QED BY <2>1, <1>a DEF AddEntities, Begun, Next, vars
<1>5. CASE Unload
  <2>1. UNCHANGED <<vars, clientVars>> /\ entry = "loaded" /\ entry' = "unloading" /\ halting' = halting
    BY <1>5 DEF Unload
  <2> QED BY <2>1, <1>a DEF Begun, vars
<1>6. CASE UnloadRefused
  <2>1. /\ RemoveEntities \/ UNCHANGED vars
        /\ UNCHANGED clientVars /\ entry = "unloading" /\ entry' = "failed_unload" /\ halting' = halting
    BY <1>6 DEF UnloadRefused
  <2> QED BY <2>1, <1>a DEF RemoveEntities, Begun, Next, vars
<1>7. CASE PlatformsUnloaded
  <2>1. RemoveEntities /\ UNCHANGED clientVars /\ entry = "unloading" /\ entry' = "detached" /\ halting' = halting
    BY <1>7 DEF PlatformsUnloaded
  <2> QED BY <2>1, <1>a DEF RemoveEntities, Begun, Next
<1>8. CASE ShutDown
  BY <1>8, <1>b DEF ShutDown, Begun
<1>9. CASE Unloaded
  <2>1. UNCHANGED <<vars, clientVars>> /\ entry = "shutting" /\ entry' = "unloaded" /\ halting' = halting
    BY <1>9 DEF Unloaded
  <2> QED BY <2>1, <1>a DEF Begun, vars
<1>10. CASE StopEvent
  <2>1. UNCHANGED <<vars, clientVars, entry>> /\ halting = "no" /\ halting' \in {"scheduled", "missed"}
    BY <1>10 DEF StopEvent
  <2> QED BY <2>1, <1>a DEF Begun, vars
<1>11. CASE Halt
  BY <1>11, <1>b DEF Halt, Begun
<1>12. CASE Halted
  <2>1. UNCHANGED <<vars, clientVars, entry>> /\ halting = "running" /\ halting' = "done"
    BY <1>12 DEF Halted
  <2> QED BY <2>1, <1>a DEF Begun, vars
<1>13. CASE RunClient
  BY <1>13, RunClientIsHeard
<1>14. CASE RunLoop
  <2>1. UNCHANGED <<clientVars, entryVars>>
    BY <1>14 DEF RunLoop
  <2>2. Next /\ UNCHANGED <<connection, shuttingDown>>
    BY <1>14 DEF RunLoop, Next, Recheck, Expire, UpdateEntity, Tick
  <2> QED BY <2>1, <2>2, <1>a DEF entryVars, Begun
<1> QED
  BY <1>1, <1>2, <1>3, <1>4, <1>5, <1>6, <1>7, <1>8, <1>9, <1>10, <1>11, <1>12, <1>13, <1>14
  DEF NextEntry

\* The composition implements the coordinator, its fairness included: the client, set
\* up, unloaded and stopped in any order, publishes what Coordinator assumes.
THEOREM EntryDrivesCoordinator == SpecEntry => CoordinatorLife
<1>1. InitEntry => Init
  BY DEF InitEntry
<1> QED
  BY <1>1, EntryInvInit, EntryStep, PTL DEF SpecEntry, CoordinatorLife, Spec

\* So what is proved of the coordinator holds in the whole of the entry's life.
THEOREM EntryKeepsPromises ==
  SpecEntry => [](OneTimer /\ ShownExpires /\ FreshIsShown) /\ ShutdownIsSilent
BY EntryDrivesCoordinator, ExactlyOneTimer, AvailabilityExpires, FreshDataIsShown,
   ShutdownSilences, PTL DEF CoordinatorLife

\* Once a shutdown has begun nothing the client still publishes reaches an entity, and
\* no timer is armed.
THEOREM ShutdownsAreUnheard == SpecEntry => ShutdownIsUnheard
<1> DEFINE Unheard == Begun => UNCHANGED <<data, connection, announced>> /\ timers' = {}
<1>1. EntryInv /\ TimerInv /\ [Next]_vars => [Unheard]_vars
  <2> SUFFICES ASSUME EntryInv, TimerInv, Next, Begun
               PROVE  UNCHANGED <<data, connection, announced>> /\ timers' = {}
    OBVIOUS
  <2>1. shuttingDown /\ timers = {}
    BY DEF EntryInv, TimerInv, OneTimer
  <2>2. CASE Shutdown
    BY <2>1, <2>2 DEF Shutdown, CancelTimer
  <2>3. CASE Tick
    BY <2>1, <2>3 DEF Tick
  <2>4. CASE AddEntities \/ RemoveEntities \/ UpdateEntity
    BY <2>1, <2>4 DEF AddEntities, RemoveEntities, UpdateEntity
  <2> QED
    BY <2>1, <2>2, <2>3, <2>4 DEF Next, HandleSnapshot, HandleConnectionEvent
<1>2. [][Unheard]_vars => ShutdownIsUnheard
  BY DEF ShutdownIsUnheard
<1>3. InitEntry => Init
  BY DEF InitEntry
<1> QED
  BY <1>1, <1>2, <1>3, EntryInvInit, EntryStep, EntryDrivesCoordinator, CoordinatorInv, PTL
  DEF SpecEntry, CoordinatorLife

\* From its set-up to its shutdown the entry has a supervisor, unless a connect raises
\* what the client does not expect (the run connect_crashes).
THEOREM LoadedEntriesRun ==
  ASSUME "crashed" \notin ConnectOutcomes PROVE SpecEntry => []LoadedIsRunning
<1> DEFINE Supervised == entry # "not_loaded" /\ ~shuttingDown =>
                            runTask \in Supervisors /\ ~Client!Done(runTask)
<1>1. InitEntry => Supervised
  BY DEF InitEntry
<1>2. EntryInv /\ Supervised /\ [NextEntry]_allVars => Supervised'
  <2> SUFFICES ASSUME EntryInv, Supervised, [NextEntry]_allVars PROVE Supervised'
    OBVIOUS
  <2>1. [Next]_vars
    BY EntryStep
  <2>2. shuttingDown => shuttingDown'
    BY <2>1 DEF Next, vars, HandleSnapshot, HandleConnectionEvent, Recheck, Expire, Shutdown,
                AddEntities, RemoveEntities, UpdateEntity, Tick
  <2>3. CASE UNCHANGED clientVars /\ entry # "not_loaded"
    BY <2>2, <2>3 DEF clientVars, Client!Done
  <2>4. CASE entry' = "not_loaded" \/ shuttingDown'
    BY <2>4
  <2>5. CASE SetUp
    BY <2>2, <2>5 DEF SetUp, EntryInv, Undisturbed, Client!StartCall, Client!Launch, Client!At,
                      Client!Done, Client!Ended
  <2>6. CASE RunClient
    <3>1. entry' = entry
      BY <2>6 DEF RunClient, entryVars
    <3>2. CASE shuttingDown
      BY <2>2, <3>2
    <3>3. CASE ~shuttingDown
      <4>1. runTask' = runTask /\ ~Client!Done(runTask)' /\ entry # "not_loaded"
        BY <2>6, <3>3, UndisturbedStep DEF RunClient, EntryInv
      <4> QED BY <3>1, <3>3, <4>1
    <3> QED BY <3>2, <3>3
  <2>7. CASE ShutDown \/ Halt
    BY <2>4, <2>7 DEF ShutDown, Halt, BeginShutdown, Shutdown
  <2> QED
    BY <2>3, <2>4, <2>5, <2>6, <2>7
    DEF NextEntry, allVars, Forwarded, ForwardFails, Unload, UnloadRefused, PlatformsUnloaded,
        Unloaded, StopEvent, Halted, RunLoop, entryVars
<1>3. EntryInv /\ Supervised => LoadedIsRunning
  BY EntryTasks DEF EntryInv, LoadedIsRunning, Undisturbed
<1> QED
  BY <1>1, <1>2, <1>3, EntryInvInit, EntryStep, PTL DEF SpecEntry

---------------------------------------------------------------------------------------
(* The client through the two shutdowns. *)

\* The awaits during which the client refers to a connection.
Holding == {"onConnected", "reading", "onSnapshot"}

\* A step of the undisturbed client refers to a connection only while it is read.
LEMMA ReadingStep ==
  ASSUME Undisturbed, Reading, sockets = {writer} \ {None},
         NEW t \in Supervisors, Client!Supervise(t)
  PROVE  Reading' /\ sockets' = {writer'} \ {None} /\ UNCHANGED call
<1> USE EntryTasks DEF Undisturbed, Client!Ended, Client!Awaits, Client!InSession
<1>1. t = runTask /\ ~Client!Done(t) /\ t \notin cancelled /\ ~Client!Unwind(t) /\ UNCHANGED call
  BY DEF Client!Supervise, Client!Done, Client!Running, Client!Returns, Client!Unwind,
     Client!Begin, Client!Connect, Client!ConnectFails, Client!ConnectCrashes, Client!Receive,
     Client!ReadEnds, Client!Closed, Client!SleepEnds, Client!ConnectingReturns,
     Client!ConnectedReturns, Client!SnapshotReturns, Client!FailedReturns,
     Client!ReconnectingReturns
<1>2. pc[t] \notin Holding => writer = None /\ sockets = {}
  BY <1>1 DEF Reading, Holding
<1> DEFINE Goal == Reading' /\ sockets' = {writer'} \ {None}
<1>3. ASSUME NEW p \in Client!Awaits \ Client!Ended, Client!At(t, p), runTask' = runTask,
             sockets' = {writer'} \ {None}, p \notin Holding => writer' = None
      PROVE  Goal
  <2>1. pc'[runTask] = p
    BY <1>1, <1>3 DEF Client!At
  <2> QED BY <1>1, <1>3, <2>1 DEF Reading, Holding, Client!Done
<1> SUFFICES Goal
  BY <1>1
<1> USE DEF Client!Running, Client!Returns, Holding
<1> HIDE DEF Goal
<1>4. CASE Client!Begin(t) \/ Client!SleepEnds(t)
  <2>1. /\ UNCHANGED <<writer, sockets, runTask>> /\ writer = None
        /\ Client!At(t, "onConnecting") \/ Client!At(t, "connecting")
    BY <1>2, <1>4 DEF Client!Begin, Client!SleepEnds, Client!NextAttempt, Client!Publish, Client!At
  <2> QED BY <1>2, <1>3, <2>1
<1>5. ASSUME Client!Fail(t) \/ Client!Retry(t), writer' = None, sockets' = {} PROVE Goal
  <2>1. /\ UNCHANGED runTask
        /\ \E p \in {"onFailed", "onReconnecting", "sleeping"} : Client!At(t, p)
    BY <1>5 DEF Client!Fail, Client!Retry, Client!Publish, Client!At
  <2> QED BY <1>3, <1>5, <2>1
<1>6. CASE Client!ConnectFails(t) \/ Client!Closed(t)
  BY <1>2, <1>5, <1>6 DEF Client!ConnectFails, Client!Closed, Client!EndAttempt
<1>7. CASE Client!FailedReturns(t)
  BY <1>2, <1>5, <1>7 DEF Client!FailedReturns
<1>8. ASSUME Client!CloseSession(t) PROVE Goal
  <2>1. writer' = None /\ sockets' = {}
    BY <1>8 DEF Client!CloseSession
  <2>2. CASE writer = None
    BY <1>5, <1>8, <2>1, <2>2 DEF Client!CloseSession, Client!EndAttempt
  <2>3. CASE writer # None
    BY <1>3, <1>8, <2>1, <2>3 DEF Client!CloseSession
  <2> QED BY <2>2, <2>3
<1>9. CASE Client!ReadEnds(t)
  BY <1>8, <1>9 DEF Client!ReadEnds
<1>10. ASSUME Client!ReadOn(t) PROVE Goal
  BY <1>3, <1>10 DEF Client!ReadOn
<1>11. CASE Client!ConnectedReturns(t)
  BY <1>10, <1>11 DEF Client!ConnectedReturns
<1>12. ASSUME Client!At(t, "onSnapshot"), UNCHANGED <<runTask, writer, sockets>> PROVE Goal
  BY <1>3, <1>12
<1>13. CASE Client!Receive(t)
  <2>1. \/ Client!ReadOn(t)
        \/ Client!At(t, "onSnapshot") /\ UNCHANGED <<runTask, writer, sockets>>
    BY <1>13 DEF Client!Receive
  <2> QED BY <1>10, <1>12, <2>1
<1>14. CASE Client!SnapshotReturns(t)
  <2>1. \/ Client!ReadOn(t)
        \/ pc[t] = "onSnapshot" /\ UNCHANGED <<pc, runTask, writer, sockets>>
    <3>1. CASE pending[t] = 0
      BY <1>14, <3>1 DEF Client!SnapshotReturns
    <3>2. CASE pending[t] # 0
      BY <1>14, <3>2 DEF Client!SnapshotReturns
    <3> QED BY <3>1, <3>2
  <2>2. pc[t] = "onSnapshot" /\ pc' = pc => Client!At(t, "onSnapshot")
    BY DEF Client!At
  <2> QED BY <1>10, <1>12, <2>1, <2>2
<1>15. CASE Client!Connect(t)
  <2>1. PICK s \in Sockets \ sockets :
          IF state = "CONNECTED" /\ stopping
          THEN writer' = None /\ Client!At(t, "closing") /\ UNCHANGED <<state, sockets>>
          ELSE /\ writer' = s
               /\ sockets' = sockets \cup {s}
               /\ Client!Publish(t, "CONNECTED", "onConnected", Client!At(t, "reading"))
    BY <1>15 DEF Client!Connect
  <2>2. writer' = s /\ sockets' = {s} /\ s # None /\ runTask' = runTask
    BY <1>2, <1>15, <2>1 DEF Client!Connect
  <2>3. Client!At(t, "onConnected") \/ Client!At(t, "reading")
    BY <2>1 DEF Client!Publish, Client!At
  <2> QED BY <1>3, <2>2, <2>3
<1>16. CASE Client!ConnectCrashes(t)
  BY <1>1, <1>2, <1>16 DEF Client!ConnectCrashes, Client!Deregister, Reading, Goal
<1>17. CASE Client!ConnectingReturns(t) \/ Client!ReconnectingReturns(t)
  BY <1>2, <1>3, <1>17 DEF Client!ConnectingReturns, Client!ReconnectingReturns
<1> QED
  BY <1>1, <1>4, <1>6, <1>7, <1>9, <1>11, <1>13, <1>14, <1>15, <1>16, <1>17 DEF Client!Supervise

\* A step of the client that is shut down: its supervisor is cancelled, or one of the
\* two calls of stop() goes on.
LEMMA QuittingStep ==
  ASSUME QuietInv, Quitting, UNCHANGED <<entry, halting, listening>>,
         \/ \E t \in Supervisors : Client!Supervise(t)
         \/ \E a \in {Manager, Halter} : Client!Proceed(a)
  PROVE  /\ Quitting' /\ sockets' = {writer'} \ {None}
         /\ pc' \in [Supervisors -> Client!Awaits]
         /\ call' \in [{Manager, Halter} \cup Supervisors -> Client!Calls]
<1> USE EntryTasks DEF QuietInv, Quitting
<1>0. Client!NoCall \in Client!Calls
  BY DEF Client!NoCall, Client!Calls
<1>1. ASSUME NEW t \in Supervisors, Client!Supervise(t)
      PROVE  /\ Quitting' /\ sockets' = {writer'} \ {None}
             /\ pc' \in [Supervisors -> Client!Awaits]
             /\ call' \in [{Manager, Halter} \cup Supervisors -> Client!Calls]
  <2>1. Client!Unwind(t)
    BY <1>1 DEF Client!Supervise, Client!Done, Client!Ended, Client!Running, Client!Returns,
       Client!Begin, Client!Connect, Client!ConnectFails, Client!ConnectCrashes, Client!Receive,
       Client!ReadEnds, Client!Closed, Client!SleepEnds, Client!ConnectingReturns,
       Client!ConnectedReturns, Client!SnapshotReturns, Client!FailedReturns,
       Client!ReconnectingReturns
  <2>2. /\ cancelled' = cancelled \ {t}
        /\ call' = [call EXCEPT ![t] = Client!NoCall]
        /\ pc' = [pc EXCEPT ![t] = "finished"]
        /\ UNCHANGED <<stopping, writer, sockets>> /\ runTask' = None
    BY <2>1 DEF Client!Unwind, Client!At, Client!Deregister
  <2>3. \A u \in Supervisors : (Client!Done(u)' \/ u \in cancelled') /\ call'[u] = Client!NoCall
    BY <2>2 DEF Client!Done, Client!Ended
  <2>4. \A a \in {Manager, Halter} : call'[a] = call[a]
    BY <2>2
  <2>5. /\ pc' \in [Supervisors -> Client!Awaits]
        /\ call' \in [{Manager, Halter} \cup Supervisors -> Client!Calls]
    BY <1>0, <2>2 DEF Client!Awaits, Client!Ended
  <2>6. \A u \in Supervisors : pc'[u] = "crashed" => pc[u] = "crashed"
    BY <2>2
  <2> QED BY <2>2, <2>3, <2>4, <2>5, <2>6
<1>2. ASSUME NEW a \in {Manager, Halter}, Client!Proceed(a)
      PROVE  /\ Quitting' /\ sockets' = {writer'} \ {None}
             /\ pc' \in [Supervisors -> Client!Awaits]
             /\ call' \in [{Manager, Halter} \cup Supervisors -> Client!Calls]
  <2>1. ~Client!StartResumes(a) /\ ~Client!AwaitRaises(a)
    BY DEF Client!StartResumes, Client!AwaitRaises
  <2>2. /\ UNCHANGED <<pc, cancelled, stopping, runTask>>
        /\ \E c \in {Client!NoCall, [at |-> "closing", task |-> None]} :
              call' = [call EXCEPT ![a] = c]
        /\ sockets' = {writer'} \ {None}
        /\ writer = None => writer' = None
        /\ call[a].at = "joining" => writer' = None
    BY <1>2, <2>1 DEF Client!Proceed, Client!StopJoins, Client!StopEnds, Client!CloseForStop
  <2>3. PICK c \in {Client!NoCall, [at |-> "closing", task |-> None]} :
           call' = [call EXCEPT ![a] = c]
    BY <2>2
  <2>4. /\ call'[a] = c /\ c.at \in {"none", "closing"}
        /\ \A b \in ({Manager, Halter} \cup Supervisors) \ {a} : call'[b] = call[b]
    BY <2>3 DEF Client!NoCall
  <2>5. call' \in [{Manager, Halter} \cup Supervisors -> Client!Calls]
    BY <1>0, <2>3 DEF Client!Calls
  <2>6. \A u \in Supervisors : (Client!Done(u)' \/ u \in cancelled') /\ call'[u] = Client!NoCall
    BY <2>2, <2>4 DEF Client!Done
  <2>7. entry' \in {"shutting", "unloaded"} /\ call'[Manager].at # "joining" => writer' = None
    BY <2>2, <2>4
  <2>8. entry' = "unloaded" => call'[Manager].at # "joining"
    BY <2>4
  <2>9. \A b \in {Manager, Halter} :
          /\ call'[b].at \in {"none", "joining", "closing"}
          /\ call'[b].at = "joining" => call'[b].task \in Supervisors /\ pc'[call'[b].task] # "crashed"
    BY <2>2, <2>4
  <2> QED BY <2>2, <2>5, <2>6, <2>7, <2>8, <2>9
<1> QED BY <1>1, <1>2

\* A stop() begins: the first one deregisters and cancels the supervisor, the second
\* closes what the supervisor still held.
LEMMA StopCallQuiets ==
  ASSUME EntryInv, QuietInv, NEW a \in {Manager, Halter}, Client!StopCall(a),
         entry' \in {entry, "shutting"}, entry' = "shutting" /\ ~Begun => a = Manager \/ entry = "shutting"
  PROVE  /\ Quitting' /\ sockets' = {writer'} \ {None}
         /\ pc' \in [Supervisors -> Client!Awaits]
         /\ call' \in [{Manager, Halter} \cup Supervisors -> Client!Calls]
<1> USE EntryTasks DEF QuietInv
<1>1. call[a] = Client!NoCall /\ stopping' = TRUE /\ UNCHANGED pc
  BY DEF Client!StopCall
<1>2. /\ \A t \in Supervisors : call[t] = Client!NoCall
      /\ \A b \in {Manager, Halter} : call[b].at \in {"none", "joining", "closing"}
      /\ \A b \in {Manager, Halter} :
            call[b].at = "joining" => call[b].task \in Supervisors /\ pc[call[b].task] # "crashed"
  BY DEF Quitting, EntryInv, Undisturbed, Client!NoCall
<1>3. CASE runTask = None
  <2>1. \A t \in Supervisors : Client!Done(t) \/ t \in cancelled
    BY <1>3 DEF Quitting, EntryInv, Undisturbed
  <2>2. /\ writer' = None /\ sockets' = {} /\ UNCHANGED <<runTask, cancelled>>
        /\ \E c \in {Client!NoCall, [at |-> "closing", task |-> None]} :
              call' = [call EXCEPT ![a] = c]
    <3>1. /\ writer' = None /\ sockets' = {} /\ UNCHANGED <<runTask, cancelled>>
          /\ \/ call' = [call EXCEPT ![a] = Client!NoCall]
             \/ call' = [call EXCEPT ![a] = [at |-> "closing", task |-> None]]
      BY <1>3 DEF Client!StopCall, Client!CloseForStop
    <3> QED BY <3>1
  <2>3. PICK c \in {Client!NoCall, [at |-> "closing", task |-> None]} :
           call' = [call EXCEPT ![a] = c]
    BY <2>2
  <2>4. /\ call'[a] = c /\ c.at \in {"none", "closing"}
        /\ \A b \in ({Manager, Halter} \cup Supervisors) \ {a} : call'[b] = call[b]
    BY <2>3 DEF Client!NoCall
  <2>5. call' \in [{Manager, Halter} \cup Supervisors -> Client!Calls]
    BY <2>3 DEF Client!Calls, Client!NoCall
  <2>6. entry' = "unloaded" => call'[Manager].at # "joining"
    BY <2>4 DEF Quitting, Begun
  <2>7. \A t \in Supervisors : (Client!Done(t)' \/ t \in cancelled') /\ call'[t] = Client!NoCall
    BY <1>1, <1>2, <2>1, <2>2, <2>4 DEF Client!Done
  <2>8. \A b \in {Manager, Halter} :
          /\ call'[b].at \in {"none", "joining", "closing"}
          /\ call'[b].at = "joining" => call'[b].task \in Supervisors /\ pc'[call'[b].task] # "crashed"
    BY <1>1, <1>2, <2>4
  <2> QED BY <1>1, <1>3, <2>2, <2>5, <2>6, <2>7, <2>8 DEF Quitting
<1>4. CASE runTask # None
  <2>1. ~Begun /\ ~shuttingDown
    BY <1>4 DEF Quitting, EntryInv
  <2>2. /\ runTask \in Supervisors /\ ~Client!Done(runTask) /\ cancelled = {}
        /\ \A t \in Supervisors : ~Client!Done(t) => t = runTask
        /\ call[Manager] = Client!NoCall /\ call[Halter] = Client!NoCall
    BY <1>4, <2>1 DEF EntryInv, Undisturbed, Reading
  <2>3. /\ runTask' = None /\ cancelled' = {runTask}
        /\ call' = [call EXCEPT ![a] = [at |-> "joining", task |-> runTask]]
        /\ UNCHANGED <<writer, sockets>>
    BY <1>2, <1>4, <2>2 DEF Client!StopCall, Client!Cancel, Client!NoCall
  <2>4. /\ call'[a] = [at |-> "joining", task |-> runTask]
        /\ \A b \in ({Manager, Halter} \cup Supervisors) \ {a} : call'[b] = call[b]
    BY <2>3
  <2>5. call' \in [{Manager, Halter} \cup Supervisors -> Client!Calls]
    BY <2>2, <2>3 DEF Client!Calls
  <2>6. entry' \in {"shutting", "unloaded"} => a = Manager
    BY <2>1 DEF Begun
  <2>7. pc[runTask] # "crashed"
    BY <2>2 DEF Client!Done, Client!Ended
  <2>8. \A b \in {Manager, Halter} :
          /\ call'[b].at \in {"none", "joining", "closing"}
          /\ call'[b].at = "joining" => call'[b].task \in Supervisors /\ pc'[call'[b].task] # "crashed"
    BY <1>1, <2>2, <2>4, <2>7 DEF Client!NoCall
  <2>9. \A t \in Supervisors : (Client!Done(t)' \/ t \in cancelled') /\ call'[t] = Client!NoCall
    BY <1>1, <1>2, <2>2, <2>3, <2>4 DEF Client!Done
  <2>10. entry' # "unloaded"
    BY <2>1 DEF Begun
  <2> QED BY <1>1, <2>3, <2>4, <2>5, <2>6, <2>8, <2>9, <2>10 DEF Quitting
<1> QED BY <1>3, <1>4

\* Every step of the entry keeps the invariant.
LEMMA QuietStep == EntryInv /\ QuietInv /\ [NextEntry]_allVars => QuietInv'
<1> SUFFICES ASSUME EntryInv, QuietInv, [NextEntry]_allVars PROVE QuietInv'
  OBVIOUS
<1>1. ASSUME UNCHANGED clientVars, Begun' <=> Begun,
             listening' \/ halting' \notin {"no", "missed"} => entry' # "not_loaded",
             entry' \in {"shutting", "unloaded"} => entry \in {"shutting", "unloaded"},
             entry' = "unloaded" => entry = "unloaded" \/ call[Manager].at # "joining"
      PROVE  QuietInv'
  <2>1. Reading => Reading'
    BY <1>1 DEF clientVars, Reading, Client!Done
  <2>2. Quitting => Quitting'
    BY <1>1 DEF clientVars, Quitting, Client!Done
  <2> QED BY <1>1, <2>1, <2>2 DEF QuietInv, clientVars
<1>2. listening \/ halting \notin {"no", "missed"} => entry # "not_loaded"
  BY DEF QuietInv
<1>3. CASE UNCHANGED <<clientVars, entryVars>>
  BY <1>1, <1>2, <1>3 DEF entryVars, Begun
<1>4. CASE SetUp
  <2>1. /\ entry = "not_loaded" /\ entry' = "forwarding" /\ halting' = halting
        /\ Client!StartCall(Manager)
    BY <1>4 DEF SetUp
  <2>2. ~Begun /\ ~Begun' /\ ~shuttingDown
    BY <1>2, <2>1 DEF Begun, EntryInv
  <2>3. runTask = None /\ writer = None
    BY <2>1, <2>2 DEF EntryInv, QuietInv, Reading
  <2>4. Client!Launch(Manager) /\ UNCHANGED <<call, writer, sockets>>
    BY <2>1, <2>3 DEF Client!StartCall
  <2>5. PICK t \in Supervisors : runTask' = t /\ pc' = [pc EXCEPT ![t] = "new"]
    BY <2>4 DEF Client!Launch, Client!At
  <2>6. pc' \in [Supervisors -> Client!Awaits] /\ pc'[t] = "new"
    BY <2>5 DEF QuietInv, Client!Awaits
  <2>7. Reading'
    BY <2>3, <2>4, <2>5, <2>6 DEF Reading, Client!Done, Client!Ended
  <2> QED BY <2>1, <2>2, <2>4, <2>6, <2>7 DEF QuietInv
<1>5. CASE ShutDown \/ Halt
  <2>1. PICK a \in {Manager, Halter} :
           /\ Client!StopCall(a)
           /\ entry' = IF a = Manager THEN "shutting" ELSE entry
           /\ halting' = IF a = Manager THEN halting ELSE "running"
           /\ a = Manager => entry = "detached"
           /\ a = Halter => halting = "scheduled"
           /\ listening' = listening
    BY <1>5, EntryTasks DEF ShutDown, Halt, BeginShutdown
  <2>2. entry' = "shutting" /\ ~Begun => a = Manager \/ entry = "shutting"
    BY <2>1
  <2>3. Begun' /\ (listening' \/ halting' \notin {"no", "missed"} => entry' # "not_loaded")
    BY <1>2, <2>1 DEF Begun
  <2>4. entry' \in {entry, "shutting"}
    BY <2>1
  <2> QED BY <2>1, <2>2, <2>3, <2>4, StopCallQuiets DEF QuietInv
<1>6. CASE RunClient
  <2>1. /\ UNCHANGED <<entry, listening, halting>> /\ (Begun' <=> Begun)
        /\ \/ \E t \in Supervisors : Client!Supervise(t)
           \/ \E a \in {Manager, Halter} : Client!Proceed(a)
    BY <1>6 DEF RunClient, entryVars, Begun
  <2>2. CASE Begun
    BY <1>2, <2>1, <2>2, QuittingStep DEF QuietInv
  <2>3. CASE ~Begun
    <3>1. Undisturbed /\ Undisturbed' /\ Reading
      BY <2>1, <2>3, UndisturbedStep DEF EntryInv, QuietInv
    <3>2. ~ \E a \in {Manager, Halter} : Client!Proceed(a)
      BY <3>1 DEF Undisturbed, Client!Proceed, Client!StartResumes, Client!StopJoins,
         Client!StopEnds, Client!AwaitRaises, Client!NoCall
    <3>3. Reading' /\ sockets' = {writer'} \ {None} /\ UNCHANGED call
      BY <2>1, <3>1, <3>2, ReadingStep DEF QuietInv
    <3> QED BY <1>2, <2>1, <2>3, <3>1, <3>3 DEF QuietInv, Undisturbed
  <2> QED BY <2>2, <2>3
<1>7. CASE Forwarded \/ ForwardFails
  BY <1>1, <1>2, <1>7 DEF Forwarded, ForwardFails, Begun
<1>8. CASE Unload \/ UnloadRefused \/ PlatformsUnloaded
  BY <1>1, <1>2, <1>8 DEF Unload, UnloadRefused, PlatformsUnloaded, Begun
<1>9. CASE Unloaded
  BY <1>1, <1>2, <1>9 DEF Unloaded, Begun, Client!NoCall
<1>10. CASE StopEvent \/ Halted
  BY <1>1, <1>2, <1>10 DEF StopEvent, Halted, Begun
<1> QED
  BY <1>3, <1>4, <1>5, <1>6, <1>7, <1>8, <1>9, <1>10 DEF NextEntry, RunLoop, allVars

\* Once the entry is unloaded its client holds no connection and none can be opened,
\* wherever its supervisor was, whatever its connects did and however the unload and
\* the stop of Home Assistant overlapped.
THEOREM UnloadedEntriesAreQuiet == SpecEntry => []UnloadedIsQuiet
<1>1. InitEntry => QuietInv
  <2> SUFFICES ASSUME InitEntry PROVE QuietInv
    OBVIOUS
  <2>1. Client!NoCall \in Client!Calls /\ "finished" \in Client!Awaits
    BY DEF Client!NoCall, Client!Calls, Client!Awaits, Client!Ended
  <2>2. /\ pc \in [Supervisors -> Client!Awaits]
        /\ call \in [{Manager, Halter} \cup Supervisors -> Client!Calls]
    BY <2>1 DEF InitEntry, Client!Init, Client!Callers
  <2> QED BY <2>2 DEF InitEntry, Client!Init, QuietInv, Reading, Begun
<1>2. QuietInv => UnloadedIsQuiet
  BY DEF QuietInv, Quitting, UnloadedIsQuiet, Begun
<1> QED
  BY <1>1, <1>2, EntryInvInit, EntryStep, QuietStep, PTL DEF SpecEntry
=======================================================================================
