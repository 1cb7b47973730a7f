---------------------------------- MODULE TcpClient ----------------------------------
(***************************************************************************)
(* RinnaiTcpClient (client.py): the supervisor task that connects, reads,   *)
(* backs off and repeats, the start() and stop() calls of the tasks that    *)
(* own the client, and the callbacks the supervisor awaits, from which a    *)
(* listener may call stop() re-entrantly.                                   *)
(*                                                                         *)
(* asyncio switches tasks only at an await, so every action below is the    *)
(* code one task runs from one await to the next.  Supervisors names the    *)
(* tasks that start() may create; a finished one is reused once nobody      *)
(* waits for it.                                                            *)
(*                                                                         *)
(* Time, the back-off delays, the content of frames and the log records are *)
(* abstracted: a sleep, a connect and a read end at any moment, and a chunk *)
(* is the number of valid frames it completes.                              *)
(***************************************************************************)
EXTENDS Naturals

CONSTANTS Supervisors,      \* identities of supervisor tasks
          Starters,         \* tasks that call start()
          Stoppers,         \* tasks, other than the supervisors, that call stop()
          Sockets,          \* identities of TCP connections
          None,             \* no task, no socket
          ReentrantStops,   \* the callbacks from which a listener may call stop()
          ConnectOutcomes,  \* how open_connection may end
          FramesPerChunk    \* how many valid frames one read may complete

Callers == Starters \cup Stoppers

CallbackPoints == {"onConnecting", "onConnected", "onSnapshot", "onFailed", "onReconnecting"}

ASSUME TasksAreDistinct == /\ Callers \cap Supervisors = {}
                           /\ None \notin Callers \cup Supervisors \cup Sockets
ASSUME CallbacksExist == ReentrantStops \subseteq CallbackPoints
ASSUME OutcomesExist == ConnectOutcomes \subseteq {"accepted", "refused", "crashed"}
ASSUME ChunksAreCounts == FramesPerChunk \subseteq Nat

VARIABLES state,        \* _state, the ConnectionState last published
          stopping,     \* _stopping
          runTask,      \* _run_task
          writer,       \* _writer
          openSession,  \* _open_session: the supervisor whose attempt it tracks
          sockets,      \* connections open on this host
          pc,           \* the await each supervisor is suspended at
          pending,      \* frames of its current chunk each supervisor has yet to publish
          cancelled,    \* tasks whose CancelledError is not delivered yet
          call          \* how far the start() or stop() each task is executing has come

vars == <<state, stopping, runTask, writer, openSession, sockets,
          pc, pending, cancelled, call>>

\* Awaits of a session: _begin_session is behind, _finish_session still ahead.
InSession == {"onConnecting", "connecting", "onConnected", "reading", "onSnapshot", "closing"}
Ended == {"finished", "crashed"}

NoCall == [at |-> "none", task |-> None]

Init == /\ state = "STOPPED"
        /\ stopping = FALSE
        /\ runTask = None
        /\ writer = None
        /\ openSession = None
        /\ sockets = {}
        /\ pc = [t \in Supervisors |-> "finished"]
        /\ pending = [t \in Supervisors |-> 0]
        /\ cancelled = {}
        /\ call = [a \in Callers \cup Supervisors |-> NoCall]

Done(t) == pc[t] \in Ended

---------------------------------------------------------------------------------------
(* The supervisor task: _run and _read_session. *)

\* _set_state by supervisor t: nothing if the state is the current one, else the
\* transition and then the callback, at whose await t is suspended.
Publish(t, s, callback, continue) ==
    IF state = s
    THEN continue /\ UNCHANGED state
    ELSE state' = s /\ pc' = [pc EXCEPT ![t] = callback]

At(t, await) == pc' = [pc EXCEPT ![t] = await]

\* Slip: the slot is not handed back.
KeepSlotSlip(t) == UNCHANGED runTask

\* The outer finally of _run: the supervisor hands its slot back.
Deregister(t) == runTask' = IF runTask = t THEN None ELSE runTask

Exit(t) == At(t, "finished") /\ Deregister(t) /\ UNCHANGED state

\* Slip: the supervisor gives up after a failure.
GiveUpSlip(t) == Exit(t)

\* RECONNECTING, then the back-off sleep.
Retry(t) == /\ Publish(t, "RECONNECTING", "onReconnecting", At(t, "sleeping"))
            /\ UNCHANGED runTask

\* Slip: the failure itself is not published.
RetryAtOnceSlip(t) == Retry(t)

\* The end of an attempt: its summary, then CONNECTION_FAILED unless stop() came.
Fail(t) == IF state = "CONNECTION_FAILED"
           THEN Retry(t)
           ELSE /\ state' = "CONNECTION_FAILED"
                /\ At(t, "onFailed")
                /\ UNCHANGED runTask

\* Slip: the check of stopping after a session is missing.
FailWhenStoppingSlip(t) == openSession' = None /\ Fail(t)

EndAttempt(t) == /\ openSession' = None
                 /\ IF stopping THEN Exit(t) ELSE Fail(t)

\* The top of the loop of _run.
NextAttempt(t) ==
    IF stopping
    THEN Exit(t) /\ UNCHANGED openSession
    ELSE /\ openSession' = t
         /\ Publish(t, "CONNECTING", "onConnecting", At(t, "connecting"))
         /\ UNCHANGED runTask

\* Slip: the session is left without _close_writer.
LeaveOpenSlip(t) == EndAttempt(t) /\ UNCHANGED <<writer, sockets>>

\* _close_writer by supervisor t once its read loop is over.
CloseSession(t) ==
    /\ writer' = None
    /\ sockets' = sockets \ {writer}
    /\ IF writer = None
       THEN EndAttempt(t)
       ELSE At(t, "closing") /\ UNCHANGED <<state, runTask, openSession>>

\* Slip: while True.
ReadWhenStoppingSlip(t) ==
    At(t, "reading") /\ UNCHANGED <<state, runTask, openSession, writer, sockets>>

\* The top of the read loop.
ReadOn(t) ==
    IF stopping
    THEN CloseSession(t)
    ELSE At(t, "reading") /\ UNCHANGED <<state, runTask, openSession, writer, sockets>>

Running(t, await) == pc[t] = await /\ t \notin cancelled

\* The task that start() created takes its first step.
Begin(t) == /\ Running(t, "new")
            /\ NextAttempt(t)
            /\ UNCHANGED <<stopping, writer, sockets, pending, cancelled, call>>

\* The module accepts: the new connection becomes _writer and CONNECTED is published.
Connect(t) ==
    /\ Running(t, "connecting") /\ "accepted" \in ConnectOutcomes
    /\ \E s \in Sockets \ sockets :
          IF state = "CONNECTED" /\ stopping
          THEN writer' = None /\ At(t, "closing") /\ UNCHANGED <<state, sockets>>
          ELSE /\ writer' = s
               /\ sockets' = sockets \cup {s}
               /\ Publish(t, "CONNECTED", "onConnected", At(t, "reading"))
    /\ UNCHANGED <<stopping, runTask, openSession, pending, cancelled, call>>

\* An OSError or the connect timeout.
ConnectFails(t) == /\ Running(t, "connecting") /\ "refused" \in ConnectOutcomes
                   /\ EndAttempt(t)
                   /\ UNCHANGED <<stopping, writer, sockets, pending, cancelled, call>>

\* Any other exception of open_connection leaves _run through both finally blocks.
ConnectCrashes(t) ==
    /\ Running(t, "connecting") /\ "crashed" \in ConnectOutcomes
    /\ openSession' = None
    /\ At(t, "crashed")
    /\ Deregister(t)
    /\ UNCHANGED <<state, stopping, writer, sockets, pending, cancelled, call>>

\* A chunk: the first frame it completes is published, the others are pending.
Receive(t) ==
    /\ Running(t, "reading")
    /\ \E frames \in FramesPerChunk :
          IF frames = 0
          THEN ReadOn(t) /\ UNCHANGED pending
          ELSE /\ At(t, "onSnapshot")
               /\ pending' = [pending EXCEPT ![t] = frames - 1]
               /\ UNCHANGED <<state, runTask, openSession, writer, sockets>>
    /\ UNCHANGED <<stopping, cancelled, call>>

\* End of stream, a transport error or the read-idle limit.
ReadEnds(t) == /\ Running(t, "reading")
               /\ CloseSession(t)
               /\ UNCHANGED <<stopping, pending, cancelled, call>>

\* writer.wait_closed() returned.
Closed(t) == /\ Running(t, "closing")
             /\ EndAttempt(t)
             /\ UNCHANGED <<stopping, writer, sockets, pending, cancelled, call>>

SleepEnds(t) == /\ Running(t, "sleeping")
                /\ NextAttempt(t)
                /\ UNCHANGED <<stopping, writer, sockets, pending, cancelled, call>>

\* A callback returns, or raises and is contained: its task runs on.
Returns(t, callback) == Running(t, callback) /\ call[t] = NoCall

ConnectingReturns(t) ==
    /\ Returns(t, "onConnecting")
    /\ At(t, "connecting")
    /\ UNCHANGED <<state, stopping, runTask, writer, openSession, sockets,
                   pending, cancelled, call>>

ConnectedReturns(t) == /\ Returns(t, "onConnected")
                       /\ ReadOn(t)
                       /\ UNCHANGED <<stopping, pending, cancelled, call>>

SnapshotReturns(t) ==
    /\ Returns(t, "onSnapshot")
    /\ IF pending[t] = 0
       THEN ReadOn(t) /\ UNCHANGED pending
       ELSE /\ pending' = [pending EXCEPT ![t] = @ - 1]
            /\ UNCHANGED <<state, pc, runTask, openSession, writer, sockets>>
    /\ UNCHANGED <<stopping, cancelled, call>>

FailedReturns(t) ==
    /\ Returns(t, "onFailed")
    /\ Retry(t)
    /\ UNCHANGED <<stopping, writer, openSession, sockets, pending, cancelled, call>>

ReconnectingReturns(t) ==
    /\ Returns(t, "onReconnecting")
    /\ At(t, "sleeping")
    /\ UNCHANGED <<state, stopping, runTask, writer, openSession, sockets,
                   pending, cancelled, call>>

\* Slip: the inner finally is missing.
NoSummarySlip(t) ==
    /\ t \in cancelled
    /\ cancelled' = cancelled \ {t}
    /\ call' = [call EXCEPT ![t] = NoCall]
    /\ At(t, "finished")
    /\ IF pc[t] = "new" THEN UNCHANGED runTask ELSE Deregister(t)
    /\ pending' = [pending EXCEPT ![t] = 0]
    /\ UNCHANGED <<state, stopping, writer, openSession, sockets>>

\* CancelledError at the await t is suspended at: both finally blocks run.  A
\* task cancelled before its first step runs neither.
Unwind(t) ==
    /\ t \in cancelled
    /\ cancelled' = cancelled \ {t}
    /\ call' = [call EXCEPT ![t] = NoCall]
    /\ At(t, "finished")
    /\ IF pc[t] = "new" THEN UNCHANGED runTask ELSE Deregister(t)
    /\ openSession' = IF pc[t] \in InSession THEN None ELSE openSession
    /\ pending' = [pending EXCEPT ![t] = 0]
    /\ UNCHANGED <<state, stopping, writer, sockets>>

Supervise(t) ==
    \/ Begin(t) \/ Connect(t) \/ ConnectFails(t) \/ ConnectCrashes(t)
    \/ Receive(t) \/ ReadEnds(t) \/ Closed(t) \/ SleepEnds(t)
    \/ ConnectingReturns(t) \/ ConnectedReturns(t) \/ SnapshotReturns(t)
    \/ FailedReturns(t) \/ ReconnectingReturns(t) \/ Unwind(t)

---------------------------------------------------------------------------------------
(* start() *)

\* The end of start(): stopping is cleared and a new supervisor is created in a
\* slot that nobody is using or waiting for.
Launch(a) ==
    \E t \in Supervisors :
       /\ Done(t) /\ \A b \in Callers \cup Supervisors : b # a => call[b].task # t
       /\ stopping' = FALSE
       /\ runTask' = t
       /\ At(t, "new")
       /\ pending' = [pending EXCEPT ![t] = 0]

\* Slip: start() launches without waiting for the winding-down supervisor.
NoWaitSlip(a) ==
    /\ call[a] = NoCall
    /\ runTask = None \/ stopping
    /\ Launch(a)
    /\ UNCHANGED <<state, writer, openSession, sockets, cancelled, call>>

\* start() up to its first await: nothing while a supervisor is active, a wait
\* while one is winding down after a re-entrant stop().
StartCall(a) ==
    /\ call[a] = NoCall
    /\ IF runTask = None
       THEN Launch(a) /\ UNCHANGED call
       ELSE /\ stopping
            /\ call' = [call EXCEPT ![a] = [at |-> "waiting", task |-> runTask]]
            /\ UNCHANGED <<stopping, runTask, pc, pending>>
    /\ UNCHANGED <<state, writer, openSession, sockets, cancelled>>

\* The winding-down supervisor finished.
StartResumes(a) ==
    /\ call[a].at = "waiting" /\ pc[call[a].task] = "finished"
    /\ Launch(a)
    /\ call' = [call EXCEPT ![a] = NoCall]
    /\ UNCHANGED <<state, writer, openSession, sockets, cancelled>>

\* It died of an exception, which the await passes on to the caller.
AwaitRaises(a) ==
    /\ call[a].at \in {"waiting", "joining"} /\ pc[call[a].task] = "crashed"
    /\ call' = [call EXCEPT ![a] = NoCall]
    /\ UNCHANGED <<state, stopping, runTask, writer, openSession, sockets,
                   pc, pending, cancelled>>

---------------------------------------------------------------------------------------
(* stop(), called by task a: one of the callers or, from a callback, a supervisor. *)

\* Slip: the connection is left to the supervisor.
SkipCloseSlip(a) == /\ state' = "STOPPED"
                    /\ call' = [call EXCEPT ![a] = NoCall]
                    /\ UNCHANGED <<writer, sockets>>

\* _close_writer and, when there was nothing to close, the end of stop().
CloseForStop(a) ==
    /\ writer' = None
    /\ sockets' = sockets \ {writer}
    /\ IF writer = None
       THEN /\ state' = "STOPPED"
            /\ call' = [call EXCEPT ![a] = NoCall]
       ELSE /\ call' = [call EXCEPT ![a] = [at |-> "closing", task |-> None]]
            /\ UNCHANGED state

\* Slip: the supervisor is awaited but not cancelled.
NoCancelSlip(t) == UNCHANGED cancelled

\* task.cancel().  A task that is itself awaiting a supervisor in stop() passes
\* the cancellation on to that one, already cancelled, and suppresses it.
Cancel(t) == cancelled' = IF call[t].at = "joining" THEN cancelled ELSE cancelled \cup {t}

\* stop() up to its first await.  Any task but the caller's own is deregistered,
\* cancelled and awaited; the own one is left to wind down by itself.
StopCall(a) ==
    /\ call[a] = NoCall
    /\ stopping' = TRUE
    /\ IF runTask \notin {None, a}
       THEN /\ runTask' = None
            /\ Cancel(runTask)
            /\ call' = [call EXCEPT ![a] = [at |-> "joining", task |-> runTask]]
            /\ UNCHANGED <<state, writer, sockets>>
       ELSE CloseForStop(a) /\ UNCHANGED <<runTask, cancelled>>
    /\ UNCHANGED <<openSession, pc, pending>>

\* The cancelled supervisor finished.
StopJoins(a) == /\ call[a].at = "joining" /\ pc[call[a].task] = "finished"
                /\ CloseForStop(a)
                /\ UNCHANGED <<stopping, runTask, openSession, pc, pending, cancelled>>

\* wait_closed() returned: STOPPED, unless it is the state already.
StopEnds(a) == /\ call[a].at = "closing"
               /\ state' = "STOPPED"
               /\ call' = [call EXCEPT ![a] = NoCall]
               /\ UNCHANGED <<stopping, runTask, writer, openSession, sockets,
                              pc, pending, cancelled>>

\* A listener calls stop() from the callback that supervisor t awaits.
StopFromCallback(t) == pc[t] \in ReentrantStops /\ t \notin cancelled /\ StopCall(t)

\* A call whose await is over runs on.
Proceed(a) == /\ a \notin cancelled
              /\ StartResumes(a) \/ StopJoins(a) \/ StopEnds(a) \/ AwaitRaises(a)

Next == \/ \E t \in Supervisors : Supervise(t) \/ StopFromCallback(t)
        \/ \E a \in Starters : StartCall(a)
        \/ \E a \in Stoppers : StopCall(a)
        \/ \E a \in Callers \cup Supervisors : Proceed(a)

Spec == Init /\ [][Next]_vars

(***************************************************************************)
(* The scheduling asyncio and the timeouts justify: a task whose await is   *)
(* over runs on, a connect ends by its timeout at the latest, a sleep ends, *)
(* a callback returns.  Nothing makes a read end or an owner call.          *)
(***************************************************************************)
Fairness ==
    /\ \A t \in Supervisors :
          /\ WF_vars(Begin(t) \/ Closed(t) \/ SleepEnds(t) \/ Unwind(t))
          /\ WF_vars(Connect(t) \/ ConnectFails(t) \/ ConnectCrashes(t))
          /\ WF_vars(\/ ConnectingReturns(t) \/ ConnectedReturns(t) \/ SnapshotReturns(t)
                     \/ FailedReturns(t) \/ ReconnectingReturns(t))
    /\ \A a \in Callers \cup Supervisors : WF_vars(Proceed(a))

FairSpec == Spec /\ Fairness

---------------------------------------------------------------------------------------
(* Properties *)

Awaits == InSession \cup Ended \cup {"new", "onFailed", "onReconnecting", "sleeping"}

Calls == [at : {"none", "waiting", "joining", "closing"}, task : Supervisors \cup {None}]

\* Every variable has its type.
TypeOK == /\ state \in {"STOPPED", "CONNECTING", "CONNECTED", "CONNECTION_FAILED", "RECONNECTING"}
          /\ stopping \in BOOLEAN
          /\ runTask \in Supervisors \cup {None}
          /\ writer \in Sockets \cup {None}
          /\ openSession \in Supervisors \cup {None}
          /\ sockets \subseteq Sockets
          /\ pc \in [Supervisors -> Awaits]
          /\ pending \in [Supervisors -> Nat]
          /\ cancelled \subseteq Supervisors
          /\ call \in [Callers \cup Supervisors -> Calls]

\* At most one supervisor task exists: start() waits for a winding-down one, so
\* that sessions never overlap.
OneSupervisor == \A t, u \in Supervisors : ~Done(t) /\ ~Done(u) => t = u

\* No path holds two open connections to the module.
OneConnection == \A s, r \in sockets : s = r

\* Every open connection is the one _writer refers to, so that the next
\* _close_writer - of the session or of stop() - closes it.
NothingLeaks == sockets = {writer} \ {None}

\* _run_task never refers to a task that has ended: a start() is never ignored,
\* and a stop() never cancels, on behalf of a supervisor that is gone.
RegisteredIsLive == runTask # None => ~Done(runTask)

StopInProgress == \E a \in Callers \cup Supervisors : call[a].at \in {"joining", "closing"}

\* A single owner sees its supervisor through: while start() or no call runs, the
\* only supervisor is the registered one; stop() deregisters it, cancels it and
\* waits; a connection is referred to only while a session reads it or until the
\* stop() that awaits its supervisor closes it.  (The invariant the theorems on
\* OneSupervisor and NothingLeaks rest on.)
OwnerInv ==
    /\ \A t \in Supervisors :
          /\ call[t].at \in {"none", "closing"} /\ call[t].task = None
          /\ call[t].at = "closing" => pc[t] \in CallbackPoints
          /\ t \in cancelled => ~Done(t)
    /\ \A o \in Callers :
          /\ call[o].at \in {"none", "waiting"} =>
                 cancelled = {} /\ \A t \in Supervisors : ~Done(t) => runTask = t
          /\ call[o].at = "waiting" => runTask \in {None, call[o].task}
          /\ call[o].at = "joining" =>
                 /\ runTask = None /\ pc[call[o].task] # "crashed"
                 /\ \A t \in Supervisors : ~Done(t) => t = call[o].task /\ t \in cancelled
          /\ call[o].at = "closing" =>
                 runTask = None /\ cancelled = {} /\ \A t \in Supervisors : Done(t)
          /\ call[o].at # "joining" /\ (\A t \in Supervisors : Done(t)) => writer = None
    /\ \A t \in Supervisors :
          pc[t] \notin Ended \cup {"onConnected", "reading", "onSnapshot"} => writer = None
    /\ RegisteredIsLive
    /\ NothingLeaks

\* Once stop() has returned, and until start() clears the flag again, the client
\* is STOPPED and holds no connection.
StopSettles == stopping /\ ~StopInProgress => /\ state = "STOPPED"
                                              /\ writer = None /\ sockets = {}

\* What a supervisor may still be doing then: returning from the callback that
\* called stop(), or sleeping through its last back-off.  (The strengthening the
\* theorem on StopSettles rests on.)
WindingDown == Ended \cup {"onConnected", "onSnapshot", "onReconnecting", "sleeping"}

SettledInv ==
    /\ StopSettles
    /\ \A t \in Supervisors :
          /\ stopping /\ ~StopInProgress => pc[t] \in WindingDown
          /\ call[t].at = "closing" => pc[t] \in ReentrantStops /\ writer = None /\ stopping

\* Every attempt a supervisor begins is the open one until it is summarised, and
\* is summarised before the supervisor leaves it, cancelled or not.
EveryAttemptSummarised ==
    \A t \in Supervisors : openSession = t <=> pc[t] \in InSession

\* A supervisor ends only because somebody called stop().
SupervisorSurvives ==
    [][\A t \in Supervisors : ~Done(t) /\ Done(t)' => stopping \/ t \in cancelled]_vars

\* While the client is told to stop it opens no connection and reads nothing new:
\* only the frames of the chunk it holds are still published.
NothingNewAfterStop ==
    [][stopping /\ stopping' =>
          /\ sockets' \subseteq sockets
          /\ \A t \in Supervisors :
                /\ pending'[t] <= pending[t]
                /\ pc[t] = "reading" => pc'[t] \in {"reading", "finished"}
                /\ pc[t] # "reading" => pc'[t] # "reading"]_vars

\* Every start() and stop() returns, the re-entrant ones included.
CallsReturn ==
    \A a \in Callers \cup Supervisors : call[a] # NoCall ~> call[a] = NoCall

\* The state a supervisor has published when it is suspended, unless it was stopped.
Tells(t) == \/ pc[t] = "new" /\ state = "STOPPED"
            \/ pc[t] \in {"onConnecting", "connecting"} /\ state = "CONNECTING"
            \/ pc[t] \in {"onConnected", "reading", "onSnapshot", "closing"} /\ state = "CONNECTED"
            \/ pc[t] = "onFailed" /\ state = "CONNECTION_FAILED"
            \/ pc[t] \in {"onReconnecting", "sleeping"} /\ state = "RECONNECTING"

\* Until it is stopped a client without a supervisor is STOPPED, and one with a
\* supervisor has published where that one is.  (What the theorem on Lifecycle
\* adds to OwnerInv and SettledInv.)
LifeInv ==
    /\ ~stopping /\ runTask = None => state = "STOPPED"
    /\ ~stopping => \A t \in Supervisors : ~Done(t) => Tells(t)
    /\ \A o \in Callers : call[o].at \in {"joining", "closing"} => stopping

\* The client keeps the promises of ConnectionLifecycle.
Life == INSTANCE ConnectionLifecycle
            WITH phase <- state, wanted <- runTask # None /\ ~stopping,
                 connected <- sockets # {}

\* The order of the published states, one connection, attempts after every
\* back-off, and an end to every life that was stopped.
Lifecycle == Life!Spec

\* Its safety: a clean start, and no step that ConnectionLifecycle does not know.
LifeSafety == Life!Init /\ [][Life!Next]_(Life!vars)
=======================================================================================
