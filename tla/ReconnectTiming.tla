------------------------------- MODULE ReconnectTiming -------------------------------
(***************************************************************************)
(* The time in RinnaiTcpClient (client.py): the connect timeout, the        *)
(* read-idle recycle of ADR 0002, the back-off schedule and its floor after *)
(* a recycle, for the one supervisor a single owner has (TcpClient and      *)
(* TcpClientProofs say when there is only one).                             *)
(*                                                                         *)
(* The callbacks are the coordinator's, which do not suspend, so that a     *)
(* task switch happens only at a connect, a read, a close or a sleep.  Time *)
(* is counted in ticks, and the event loop may be MaxLate ticks late.       *)
(***************************************************************************)
EXTENDS Integers, Sequences

CONSTANTS Delays,          \* reconnect_delays
          ConnectTimeout,  \* connect_timeout
          IdleLimit,       \* read_idle_timeout
          RecycleDelay,    \* recycle_reconnect_delay
          MaxLate          \* how late the loop may resume the supervisor

ASSUME DelaysGiven == Delays \in Seq(Nat) /\ Delays # << >>
ASSUME LimitsGiven == /\ ConnectTimeout \in Nat /\ IdleLimit \in Nat \ {0}
                      /\ RecycleDelay \in Nat /\ MaxLate \in Nat

VARIABLES await,         \* what the supervisor is suspended at
          left,          \* ticks to the end of that connect, close or sleep
          sinceAnchor,   \* ticks since idle_anchor
          delayIndex,    \* delay_index, counted up to the last step of the schedule
          statusSeen,    \* _non_empty_frames grew during this session
          idleRecycled,  \* _idle_recycled
          eventError,    \* the last CONNECTION_FAILED event carried an error
          (* and what really happened, for the properties: *)
          silence,       \* ticks of this session since its start or last valid frame
          ended,         \* why the last attempt ended
          streak,        \* attempts that ended since the last one with a status frame
          slept          \* ticks of the current sleep that have passed

codeVars == <<await, left, sinceAnchor, delayIndex, statusSeen, idleRecycled, eventError>>
history == <<silence, ended, streak, slept>>
vars == <<codeVars, history>>

Smaller(m, n) == IF m < n THEN m ELSE n
Larger(m, n) == IF m > n THEN m ELSE n

Init == /\ await = "nothing" /\ left = 0 /\ sinceAnchor = 0
        /\ delayIndex = 0 /\ statusSeen = FALSE
        /\ idleRecycled = FALSE /\ eventError = FALSE
        /\ silence = 0 /\ ended = "no" /\ streak = 0 /\ slept = 0

\* The top of the loop of _run: the flag is cleared and a connect begins.
Attempt == /\ await' = "connect" /\ left' = ConnectTimeout
           /\ idleRecycled' = FALSE

\* start(): _run begins.
Start == /\ await = "nothing"
         /\ Attempt
         /\ delayIndex' = 0
         /\ ended' = "no" /\ streak' = 0
         /\ UNCHANGED <<sinceAnchor, statusSeen, eventError, silence, slept>>

\* The connection is open; _read_session takes its first anchor.
Connect == /\ await = "connect"
           /\ await' = "read" /\ left' = 0
           /\ sinceAnchor' = 0 /\ statusSeen' = FALSE
           /\ silence' = 0
           /\ UNCHANGED <<delayIndex, idleRecycled, eventError, ended, streak, slept>>

\* Slip: the floor replaces the schedule.
FloorOnlySlip(index) == IF idleRecycled THEN RecycleDelay
                        ELSE Delays[Smaller(index, Len(Delays) - 1) + 1]

\* The delay before the next attempt: the schedule's step, or the floor after a recycle.
Delay(index) == LET delay == Delays[Smaller(index, Len(Delays) - 1) + 1]
                IN  IF idleRecycled THEN Larger(delay, RecycleDelay) ELSE delay

\* CONNECTION_FAILED - with an error unless the session was recycled -,
\* RECONNECTING, and the sleep of the back-off step index.
Reconnect(index) == /\ eventError' = ~idleRecycled
                    /\ await' = "sleep" /\ left' = Delay(index)
                    /\ delayIndex' = Smaller(index + 1, Len(Delays))
                    /\ slept' = 0

\* open_connection raised an OSError, or did not finish in time.
ConnectFails == /\ await = "connect"
                /\ Reconnect(delayIndex)
                /\ ended' = "error" /\ streak' = Smaller(streak + 1, Len(Delays))
                /\ UNCHANGED <<sinceAnchor, statusSeen, idleRecycled, silence>>

ConnectTimesOut == left <= 0 /\ ConnectFails

\* The session is over: _close_writer.
Leave(reason) == /\ await' = "close" /\ left' = 0
                 /\ idleRecycled' = (idleRecycled \/ reason = "idle")
                 /\ ended' = reason
                 /\ UNCHANGED <<sinceAnchor, delayIndex, statusSeen, eventError,
                                silence, streak, slept>>

\* End of stream or a transport error.
ReadFails == await = "read" /\ Leave("error")

\* The read-idle limit: at the deadline of the read, or at the top of the loop when
\* the deadline has passed.
IdleTimeout == await = "read" /\ sinceAnchor >= IdleLimit /\ Leave("idle")

\* Slip: only status frames move the anchor.
StatusAnchorSlip(frame) ==
    /\ await = "read"
    /\ sinceAnchor' = IF frame = "status" THEN 0 ELSE sinceAnchor
    /\ statusSeen' = (statusSeen \/ frame = "status")
    /\ silence' = 0
    /\ UNCHANGED <<await, left, delayIndex, idleRecycled, eventError, ended, streak, slept>>

\* A valid frame, empty or with a status payload: a new anchor.
Receive(frame) == /\ await = "read"
                  /\ sinceAnchor' = 0
                  /\ statusSeen' = (statusSeen \/ frame = "status")
                  /\ silence' = 0
                  /\ UNCHANGED <<await, left, delayIndex, idleRecycled, eventError,
                                 ended, streak, slept>>

\* Slip: bytes of any kind move the anchor.
AnyBytesAnchorSlip == /\ await = "read"
                      /\ sinceAnchor' = 0
                      /\ UNCHANGED <<await, left, delayIndex, statusSeen, idleRecycled,
                                     eventError, silence, ended, streak, slept>>

\* Bytes that complete no valid frame leave the anchor alone; the top of the loop
\* recycles at once if the deadline has passed meanwhile.
ReceiveNoise == /\ await = "read"
                /\ IF sinceAnchor >= IdleLimit THEN Leave("idle") ELSE UNCHANGED vars

\* wait_closed() returned: a session with a status frame resets the back-off.
Closed == /\ await = "close"
          /\ Reconnect(IF statusSeen THEN 0 ELSE delayIndex)
          /\ streak' = IF statusSeen THEN 1 ELSE Smaller(streak + 1, Len(Delays))
          /\ UNCHANGED <<sinceAnchor, statusSeen, idleRecycled, silence, ended>>

SleepEnds == /\ await = "sleep" /\ left <= 0
             /\ Attempt
             /\ UNCHANGED <<sinceAnchor, delayIndex, statusSeen, eventError, history>>

\* stop(), as TcpClient shows it to end.
Stop == /\ await # "nothing"
        /\ await' = "nothing" /\ left' = 0
        /\ UNCHANGED <<sinceAnchor, delayIndex, statusSeen, idleRecycled, eventError, history>>

\* One tick, unless the loop is as late with the supervisor as it can be.
Tick == /\ await \in {"connect", "close", "sleep"} => left > -MaxLate
        /\ await = "read" => sinceAnchor < IdleLimit + MaxLate
        /\ left' = IF await \in {"connect", "close", "sleep"} THEN left - 1 ELSE left
        /\ sinceAnchor' = IF await = "read" THEN sinceAnchor + 1 ELSE sinceAnchor
        /\ silence' = IF await = "read" THEN Smaller(silence + 1, IdleLimit + MaxLate + 1) ELSE silence
        /\ slept' = IF await = "sleep" THEN slept + 1 ELSE slept
        /\ UNCHANGED <<await, delayIndex, statusSeen, idleRecycled, eventError, ended, streak>>

Next == \/ Start \/ Connect \/ ConnectFails
        \/ \E frame \in {"empty", "status"} : Receive(frame)
        \/ ReceiveNoise \/ ReadFails \/ IdleTimeout
        \/ Closed \/ SleepEnds \/ Stop \/ Tick

\* The loop runs and its timeouts fire.
Spec == /\ Init /\ [][Next]_vars
        /\ WF_vars(Tick) /\ WF_vars(ConnectTimesOut) /\ WF_vars(IdleTimeout)
        /\ WF_vars(Closed \/ SleepEnds)

---------------------------------------------------------------------------------------
(* Properties *)

\* The delay the back-off policy owes the module after the attempts so far.
Owed == LET delay == Delays[Smaller(streak, Len(Delays))]
        IN  IF ended = "idle" THEN Larger(delay, RecycleDelay) ELSE delay

\* Every variable has its type.
ModesOK == /\ await \in {"nothing", "connect", "read", "close", "sleep"}
           /\ ended \in {"no", "idle", "error"}
           /\ statusSeen \in BOOLEAN /\ idleRecycled \in BOOLEAN /\ eventError \in BOOLEAN

CountsOK == /\ left \in Int
            /\ sinceAnchor \in 0 .. (IdleLimit + MaxLate)
            /\ silence \in Nat /\ slept \in Nat
            /\ delayIndex \in 0 .. Len(Delays) /\ streak \in 0 .. Len(Delays)

TypeOK == ModesOK /\ CountsOK

\* Attempts are spaced by the step of the schedule that the attempts without a
\* status frame have earned - raised to the floor after a recycle, and after a
\* recycle only - and by no more than that and the delay of the loop.
Paced == /\ await = "sleep" => left + slept = Owed
         /\ await = "sleep" => slept <= Owed + MaxLate

\* Only a session that was silent for the whole limit is recycled: valid frames
\* keep it, empty ones included.
RecycleIsEarned == ended = "idle" /\ await \in {"close", "sleep"} => silence >= IdleLimit

\* A silent session is left in time, whatever bytes that form no frame arrive.
SilenceIsBounded == await = "read" => silence <= IdleLimit + MaxLate

\* CONNECTION_FAILED carries an error for a failure, and none for a recycle.
ErrorsArePublished == await = "sleep" => (eventError <=> ended = "error")

\* The supervisor's own account of the attempts agrees with what happened.  (The
\* invariant the theorems on this module rest on.)
TimingInv == /\ TypeOK /\ Paced /\ RecycleIsEarned /\ SilenceIsBounded /\ ErrorsArePublished
             /\ streak = delayIndex
             /\ await = "read" => silence = sinceAnchor
             /\ await \in {"connect", "read"} => ~idleRecycled
             /\ await \in {"close", "sleep"} => (idleRecycled <=> ended = "idle")
             /\ await = "close" => ended \in {"idle", "error"}
             /\ await = "sleep" => streak > 0 /\ left >= -MaxLate

\* A silent session does not go on for ever.
SilenceIsLeft == await = "read" ~> await # "read" \/ silence = 0
=======================================================================================
