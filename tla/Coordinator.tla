--------------------------------- MODULE Coordinator ---------------------------------
(***************************************************************************)
(* RinnaiTouchCoordinator (coordinator.py) and what the entities last wrote *)
(* to Home Assistant (entity.py, sensor.py, binary_sensor.py): frames keep  *)
(* the data fresh, one timer announces that it became stale, connection     *)
(* events are passed on, and a shutdown silences everything but a service   *)
(* call that makes an entity write its state again.                         *)
(*                                                                         *)
(* Every handler is a synchronous callback of the event loop, one action    *)
(* each.  Time is counted in ticks: age and the timers are relative to now, *)
(* and the loop may run a timer up to MaxEarly ticks early and MaxLate late.*)
(***************************************************************************)
EXTENDS Integers

CONSTANTS Readings,       \* what the fields of a snapshot that entities mirror can be
          Unavailable,    \* what an unavailable entity shows
          StaleAfter,     \* _stale_after
          RecheckFloor,   \* _STALE_RECHECK_FLOOR_SECONDS
          MaxEarly,       \* how early the loop may run a timer
          MaxLate,        \* how late it may run one
          NoFrame,        \* no valid frame was received yet
          Off             \* no timer

ASSUME Thresholds == StaleAfter \in Nat \ {0} /\ RecheckFloor \in Nat \ {0}
ASSUME LoopTiming == MaxEarly \in Nat /\ MaxLate \in Nat /\ MaxEarly < RecheckFloor
ASSUME Markers == NoFrame \notin Int /\ Off \notin Int
ASSUME ReadingsAreValues == Unavailable \notin Readings /\ NoFrame \notin Readings

VARIABLES data,           \* the fields of data, the last snapshot, that entities mirror
          age,            \* ticks since _last_valid_frame_monotonic
          announced,      \* _announced_freshness
          timers,         \* ticks to each scheduled call of _async_check_stale
          handle,         \* _stale_timer_cancel: the timer it would cancel
          connection,     \* _connection_state
          shuttingDown,   \* _is_shutting_down
          subscribed,     \* the entities of both platforms are added
          shown,          \* the state each kind of entity wrote last
          checks          \* (for NoBusyRecheck) early checks in this tick, up to 2

vars == <<data, age, announced, timers, handle, connection, shuttingDown,
          subscribed, shown, checks>>

\* The latest age at which the data may still be announced as fresh.
Deadline == StaleAfter + RecheckFloor + MaxLate

\* Ages beyond the deadline are all alike.
AgeCap == Deadline + 1

Larger(m, n) == IF m > n THEN m ELSE n
Smaller(m, n) == IF m < n THEN m ELSE n

\* No entity has written a state: there is none of them.
Nothing == [connected |-> FALSE, freshness |-> "NO_DATA", reading |-> Unavailable]

Init == /\ data = NoFrame
        /\ age = NoFrame
        /\ announced = "NO_DATA"
        /\ timers = {}
        /\ handle = Off
        /\ connection = "STOPPED"
        /\ shuttingDown = FALSE
        /\ subscribed = FALSE
        /\ shown = Nothing
        /\ checks = 0

Freshness == IF age = NoFrame THEN "NO_DATA"
             ELSE IF age <= StaleAfter THEN "FRESH" ELSE "STALE"

\* A snapshot entity is available while the data is fresh; the connection plays no part.
Available == Freshness = "FRESH"

\* The connectivity sensor is about the socket alone, and always available.
Connectivity == connection = "CONNECTED"

\* What the connectivity sensor, the freshness sensor and the snapshot entities
\* write when they write their state now.
Written == [connected |-> Connectivity,
            freshness |-> Freshness,
            reading |-> IF Available THEN data ELSE Unavailable]

\* async_update_listeners: every entity writes its state.
Notify == shown' = IF subscribed THEN Written' ELSE shown

\* Slip: the new timer is scheduled without cancelling the old one.
ArmOnlySlip(left) == /\ handle' = left
                     /\ timers' = timers \cup {left}

\* _cancel_stale_timer, then _arm_stale_timer.
Rearm(left) == /\ handle' = left
               /\ timers' = (timers \ {handle}) \cup {left}

CancelTimer == /\ handle' = Off
               /\ timers' = timers \ {handle}

\* Slip: always_update is off, so that equal data notifies nobody.
NotifyIfChangedSlip(reading) ==
    /\ ~shuttingDown
    /\ data' = reading
    /\ age' = 0
    /\ announced' = "FRESH"
    /\ Rearm(StaleAfter)
    /\ UNCHANGED <<connection, shuttingDown, subscribed, checks>>
    /\ IF data = reading THEN UNCHANGED shown ELSE Notify

HandleSnapshot(reading) == /\ ~shuttingDown
                           /\ data' = reading
                           /\ age' = 0
                           /\ announced' = "FRESH"
                           /\ Rearm(StaleAfter)
                           /\ UNCHANGED <<connection, shuttingDown, subscribed, checks>>
                           /\ Notify

\* Slip: the guard is missing.
EventAfterShutdownSlip(s) ==
    /\ connection' = s
    /\ UNCHANGED <<data, age, announced, timers, handle, shuttingDown, subscribed, checks>>
    /\ Notify

HandleConnectionEvent(s) ==
    /\ ~shuttingDown
    /\ connection' = s
    /\ UNCHANGED <<data, age, announced, timers, handle, shuttingDown, subscribed, checks>>
    /\ Notify

\* The loop calls _async_check_stale for a scheduled timer.
Due(left) == left \in timers /\ left <= MaxEarly /\ ~shuttingDown

\* Slip: an early check does not schedule another one.
ForgetSlip(left) == /\ Due(left) /\ age <= StaleAfter
                    /\ handle' = Off
                    /\ timers' = timers \ {left, handle}
                    /\ checks' = Smaller(checks + 1, 2)
                    /\ UNCHANGED <<data, age, announced, connection, shuttingDown, subscribed, shown>>

\* Slip: the remainder may be zero.
NoFloorSlip(left) == /\ Due(left) /\ age <= StaleAfter
                     /\ handle' = StaleAfter - age
                     /\ timers' = (timers \ {left, handle}) \cup {StaleAfter - age}
                     /\ checks' = Smaller(checks + 1, 2)
                     /\ UNCHANGED <<data, age, announced, connection, shuttingDown, subscribed, shown>>

\* An early check: the timer is armed for the remainder, but not for less than the floor.
Recheck(left) == /\ Due(left) /\ age <= StaleAfter
                 /\ LET remainder == Larger(StaleAfter - age, RecheckFloor)
                    IN  /\ handle' = remainder
                        /\ timers' = (timers \ {left, handle}) \cup {remainder}
                 /\ checks' = Smaller(checks + 1, 2)
                 /\ UNCHANGED <<data, age, announced, connection, shuttingDown, subscribed, shown>>

\* Slip: the listeners are not told.
SilentlyStaleSlip(left) == /\ Due(left) /\ age > StaleAfter
                           /\ handle' = Off
                           /\ timers' = timers \ {left, handle}
                           /\ announced' = "STALE"
                           /\ UNCHANGED <<data, age, connection, shuttingDown, subscribed, shown, checks>>

\* A due check: the data is stale, and the listeners are told once.
Expire(left) == /\ Due(left) /\ age > StaleAfter
                /\ handle' = Off
                /\ timers' = timers \ {left, handle}
                /\ announced' = "STALE"
                /\ UNCHANGED <<data, age, connection, shuttingDown, subscribed, checks>>
                /\ IF announced = "STALE" THEN UNCHANGED shown ELSE Notify

\* async_shutdown up to its first await; the client's stop() follows.
Shutdown == /\ shuttingDown' = TRUE
            /\ CancelTimer
            /\ UNCHANGED <<data, age, announced, connection, subscribed, shown, checks>>

\* The platforms add their entities, and each writes its first state.
AddEntities ==
    /\ ~subscribed
    /\ subscribed' = TRUE
    /\ shown' = Written
    /\ UNCHANGED <<data, age, announced, timers, handle, connection, shuttingDown, checks>>

\* The platforms are unloaded, their entities removed.
RemoveEntities ==
    /\ subscribed
    /\ subscribed' = FALSE
    /\ shown' = Nothing
    /\ UNCHANGED <<data, age, announced, timers, handle, connection, shuttingDown, checks>>

\* homeassistant.update_entity: async_update does nothing, and the entity writes
\* its state, shut down or not.
UpdateEntity ==
    /\ subscribed
    /\ \E kind \in DOMAIN shown : shown' = [shown EXCEPT ![kind] = Written[kind]]
    /\ UNCHANGED <<data, age, announced, timers, handle, connection, shuttingDown,
                   subscribed, checks>>

\* One tick passes, unless the loop is as late with a timer as it can be.
Tick == /\ \A left \in timers : left > -MaxLate
        /\ timers' = {left - 1 : left \in timers}
        /\ handle' = IF handle = Off THEN Off ELSE handle - 1
        /\ age' = IF age = NoFrame \/ age = AgeCap THEN age ELSE age + 1
        /\ checks' = 0
        /\ UNCHANGED <<data, announced, connection, shuttingDown, subscribed, shown>>

\* The order in which the client publishes its states (ConnectionLifecycle).
Follows(s) == CASE s = "STOPPED" -> {"CONNECTING"}
                [] s = "CONNECTING" -> {"CONNECTED", "CONNECTION_FAILED", "STOPPED"}
                [] s = "CONNECTED" -> {"CONNECTION_FAILED", "STOPPED"}
                [] s = "CONNECTION_FAILED" -> {"RECONNECTING", "STOPPED"}
                [] s = "RECONNECTING" -> {"CONNECTING", "STOPPED"}

Next == \/ connection = "CONNECTED" /\ \E reading \in Readings : HandleSnapshot(reading)
        \/ \E s \in Follows(connection) : HandleConnectionEvent(s)
        \/ \E left \in timers : Recheck(left) \/ Expire(left)
        \/ Shutdown
        \/ AddEntities \/ RemoveEntities \/ UpdateEntity
        \/ Tick

\* The loop runs, with its bounded delays; nothing makes the module send.
Spec == /\ Init /\ [][Next]_vars
        /\ WF_vars(Tick) /\ WF_vars(\E left \in timers : Recheck(left) \/ Expire(left))

---------------------------------------------------------------------------------------
(* Properties *)

Ticks == -MaxLate .. (StaleAfter + RecheckFloor)

\* Every variable has its type.
TypeOK == /\ data \in Readings \cup {NoFrame}
          /\ age \in (0 .. AgeCap) \cup {NoFrame}
          /\ announced \in {"NO_DATA", "FRESH", "STALE"}
          /\ timers \subseteq Ticks
          /\ handle \in Ticks \cup {Off}
          /\ connection \in {"STOPPED", "CONNECTING", "CONNECTED", "CONNECTION_FAILED", "RECONNECTING"}
          /\ shuttingDown \in BOOLEAN
          /\ subscribed \in BOOLEAN
          /\ shown \in [connected : BOOLEAN, freshness : {"NO_DATA", "FRESH", "STALE"},
                        reading : Readings \cup {Unavailable}]
          /\ checks \in 0 .. 2

\* Data that is announced as fresh has exactly one timer, which will announce the
\* end of that; no other timer is scheduled, and none after a shutdown.
OneTimer == IF announced = "FRESH" /\ ~shuttingDown
            THEN timers = {handle}
            ELSE timers = {} /\ handle = Off

\* The entities do not stay available on the strength of a frame that is older
\* than the threshold, the floor of a recheck and the delay of the loop together,
\* whatever connection events come in between.
ShownExpires == ~shuttingDown /\ shown.reading # Unavailable => age \in 0 .. Deadline

\* While the data is fresh they show the last frame, connected or not, however often
\* it repeats the one before, whenever they were added, and also after a shutdown.
FreshIsShown == subscribed /\ Freshness = "FRESH" =>
                    shown.reading = data /\ shown.freshness = "FRESH"

\* STALE is announced only of data that is stale, and stays true until a frame.
StaleIsTrue == announced = "STALE" => Freshness = "STALE"

\* When the timer of fresh data runs out is bounded; with it every part of the
\* state machine agrees.  (The invariant the theorem on ShownExpires rests on.)
TimerInv == /\ TypeOK /\ OneTimer /\ StaleIsTrue
            /\ announced = "NO_DATA" <=> age = NoFrame
            /\ announced = "FRESH" /\ ~shuttingDown =>
                  handle \in Int /\ age + handle <= StaleAfter + RecheckFloor
            /\ data = NoFrame <=> age = NoFrame
            /\ age = NoFrame => shown.freshness = "NO_DATA"
            /\ ~subscribed => shown = Nothing
            /\ shown.reading # Unavailable /\ ~shuttingDown => announced = "FRESH"

\* A check that comes too early leaves the loop time before the next one: no two
\* of them come in one tick.
NoBusyRecheck == checks < 2

\* Nothing is heard and no timer is armed once a shutdown has begun; what is shown
\* changes only when an entity that is asked to finds the data stale.
ShutdownIsSilent ==
    [][shuttingDown =>
          /\ shuttingDown' /\ timers' = {}
          /\ UNCHANGED <<data, announced, connection>>
          /\ subscribed /\ subscribed' =>
                /\ shown'.connected = shown.connected
                /\ shown'.freshness \in {shown.freshness, "STALE"}
                /\ shown'.reading \in {shown.reading, Unavailable}]_vars

\* Fresh data does not stay announced as fresh without a frame or a shutdown.
SilenceIsAnnounced == announced = "FRESH" ~> announced = "STALE" \/ age = 0 \/ shuttingDown
=======================================================================================
