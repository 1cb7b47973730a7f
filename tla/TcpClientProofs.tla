------------------------------- MODULE TcpClientProofs -------------------------------
(***************************************************************************)
(* Theorems about TcpClient, for any sets of tasks, sockets and chunks.     *)
(***************************************************************************)
EXTENDS TcpClient, TLAPS

LEMMA FramesAreNat == ASSUME NEW n \in FramesPerChunk, n # 0 PROVE n - 1 \in Nat
  BY ChunksAreCounts

\* What launching a supervisor assigns has its type.
LEMMA LaunchTypes ==
  ASSUME TypeOK, NEW a, Launch(a)
  PROVE  /\ stopping' \in BOOLEAN
         /\ runTask' \in Supervisors \cup {None}
         /\ pc' \in [Supervisors -> Awaits]
         /\ pending' \in [Supervisors -> Nat]
<1> PICK t \in Supervisors : /\ stopping' = FALSE
                             /\ runTask' = t
                             /\ At(t, "new")
                             /\ pending' = [pending EXCEPT ![t] = 0]
  BY DEF Launch
<1> QED
  BY DEF TypeOK, At, Awaits

\* A step keeps every variable's type.
LEMMA TypeOKStep == TypeOK /\ [Next]_vars => TypeOK'
<1> SUFFICES ASSUME TypeOK, [Next]_vars PROVE TypeOK'
  OBVIOUS
<1> USE DEF TypeOK, Awaits, InSession, Ended, Calls, NoCall, CallbackPoints
<1>1. CASE UNCHANGED vars
  BY <1>1 DEF vars
<1>2. ASSUME NEW t \in Supervisors, Supervise(t) PROVE TypeOK'
  <2>1. CASE Begin(t)
    BY <2>1 DEF Begin, Running, NextAttempt, Exit, Publish, At, Deregister
  <2>2. CASE Connect(t)
    BY <2>2 DEF Connect, Running, Publish, At
  <2>3. CASE ConnectFails(t)
    BY <2>3 DEF ConnectFails, Running, EndAttempt, Exit, Fail, Retry, Publish, At, Deregister
  <2>4. CASE ConnectCrashes(t)
    BY <2>4 DEF ConnectCrashes, Running, At, Deregister
  <2>5. CASE Receive(t)
    <3> PICK frames \in FramesPerChunk :
          IF frames = 0
          THEN ReadOn(t) /\ UNCHANGED pending
          ELSE /\ At(t, "onSnapshot")
               /\ pending' = [pending EXCEPT ![t] = frames - 1]
               /\ UNCHANGED <<state, runTask, openSession, writer, sockets>>
      BY <2>5 DEF Receive
    <3>1. UNCHANGED <<stopping, cancelled, call>>
      BY <2>5 DEF Receive
    <3>2. CASE frames = 0
      BY <3>1, <3>2 DEF ReadOn, CloseSession, EndAttempt, Exit, Fail, Retry, Publish, At, Deregister
    <3>3. CASE frames # 0
      BY <3>1, <3>3, FramesAreNat DEF At
    <3> QED BY <3>2, <3>3
  <2>6. CASE ReadEnds(t)
    BY <2>6 DEF ReadEnds, CloseSession, EndAttempt, Exit, Fail, Retry, Publish, At, Deregister
  <2>7. CASE Closed(t)
    BY <2>7 DEF Closed, EndAttempt, Exit, Fail, Retry, Publish, At, Deregister
  <2>8. CASE SleepEnds(t)
    BY <2>8 DEF SleepEnds, NextAttempt, Exit, Publish, At, Deregister
  <2>9. CASE ConnectingReturns(t)
    BY <2>9 DEF ConnectingReturns, At
  <2>10. CASE ConnectedReturns(t)
    BY <2>10 DEF ConnectedReturns, ReadOn, CloseSession, EndAttempt, Exit, Fail, Retry, Publish, At, Deregister
  <2>11. CASE SnapshotReturns(t)
    <3>1. CASE pending[t] = 0
      BY <2>11, <3>1 DEF SnapshotReturns, ReadOn, CloseSession, EndAttempt, Exit, Fail, Retry, Publish, At, Deregister
    <3>2. CASE pending[t] # 0
      BY <2>11, <3>2 DEF SnapshotReturns
    <3> QED BY <3>1, <3>2
  <2>12. CASE FailedReturns(t)
    BY <2>12 DEF FailedReturns, Retry, Publish, At
  <2>13. CASE ReconnectingReturns(t)
    BY <2>13 DEF ReconnectingReturns, At
  <2>14. CASE Unwind(t)
    BY <2>14 DEF Unwind, At, Deregister
  <2> QED
    BY <1>2, <2>1, <2>2, <2>3, <2>4, <2>5, <2>6, <2>7, <2>8, <2>9, <2>10, <2>11, <2>12, <2>13, <2>14
    DEF Supervise
<1>3. ASSUME NEW a \in Callers \cup Supervisors, StopCall(a) PROVE TypeOK'
  BY <1>3 DEF StopCall, CloseForStop, Cancel
<1>4. ASSUME NEW a \in Starters, StartCall(a) PROVE TypeOK'
  <2>1. a \in Callers \cup Supervisors
    BY DEF Callers
  <2>2. CASE Launch(a) /\ UNCHANGED call
    BY <1>4, <2>2, LaunchTypes DEF StartCall
  <2>3. CASE call' = [call EXCEPT ![a] = [at |-> "waiting", task |-> runTask]]
             /\ UNCHANGED <<stopping, runTask, pc, pending>>
    BY <1>4, <2>1, <2>3 DEF StartCall
  <2> QED BY <1>4, <2>2, <2>3 DEF StartCall
<1>5. ASSUME NEW a \in Callers \cup Supervisors, Proceed(a) PROVE TypeOK'
  <2>1. CASE StartResumes(a)
    <3>1. call' \in [Callers \cup Supervisors -> Calls]
      BY <2>1 DEF StartResumes
    <3> QED BY <2>1, <3>1, LaunchTypes DEF StartResumes
  <2>2. CASE StopJoins(a)
    BY <2>2 DEF StopJoins, CloseForStop
  <2>3. CASE StopEnds(a)
    BY <2>3 DEF StopEnds
  <2>4. CASE AwaitRaises(a)
    BY <2>4 DEF AwaitRaises
  <2> QED BY <1>5, <2>1, <2>2, <2>3, <2>4 DEF Proceed
<1> QED
  BY <1>1, <1>2, <1>3, <1>4, <1>5 DEF Next, StopFromCallback, Callers

\* Every variable of the client keeps its type, whoever calls it and whenever.
THEOREM ClientTypeOK == Spec => []TypeOK
<1>1. Init => TypeOK
  <2>1. NoCall \in Calls /\ "finished" \in Awaits
    BY DEF NoCall, Calls, Awaits, Ended
  <2> SUFFICES ASSUME Init PROVE TypeOK
    OBVIOUS
  <2>2. pc \in [Supervisors -> Awaits] /\ call \in [Callers \cup Supervisors -> Calls]
    BY <2>1 DEF Init
  <2>3. pending \in [Supervisors -> Nat] /\ sockets \subseteq Sockets /\ cancelled \subseteq Supervisors
    BY DEF Init
  <2> QED BY <2>2, <2>3 DEF Init, TypeOK
<1> QED
  BY <1>1, TypeOKStep, PTL DEF Spec

---------------------------------------------------------------------------------------
(* One owner: every start() and stop() comes from one task o, or from a callback. *)

\* The awaits during which _writer refers to the connection of the session.
Holding == {"onConnected", "reading", "onSnapshot"}

\* Supervisor t is registered, nobody is stopping it, and it is the only one.
Alone(t) == /\ runTask = t /\ pc[t] \in Awaits \ Ended
            /\ cancelled = {}
            /\ \A o \in Callers : call[o].at \in {"none", "waiting"}
            /\ \A u \in Supervisors \ {t} : Done(u)
            /\ pc[t] \notin Holding => writer = None

\* Supervisor t suspends at another await or ends; unless it reads, it has closed
\* its connection, and if it ends it has given up its registration.
Advances(t, p) == /\ pc' = [pc EXCEPT ![t] = p]
                  /\ p \in Ended => runTask' = None
                  /\ p \notin Ended => runTask' = t
                  /\ p \notin Holding => writer' = None
                  /\ sockets' = {writer'} \ {None}

\* A supervisor that runs is in no call of its own and calls nobody.
LEMMA RunningHasNoCall ==
  ASSUME TypeOK, OwnerInv, NEW t \in Supervisors, Supervise(t), ~Unwind(t)
  PROVE  /\ ~Done(t) /\ t \notin cancelled
         /\ call[t] = NoCall
         /\ UNCHANGED <<stopping, cancelled, call>>
<1> USE DEF Supervise, Running, Returns, Begin, Connect, ConnectFails, ConnectCrashes,
        Receive, ReadEnds, Closed, SleepEnds, ConnectingReturns, ConnectedReturns,
        SnapshotReturns, FailedReturns, ReconnectingReturns
<1>1. ~Done(t) /\ t \notin cancelled
  BY DEF Done, Ended
<1>2. UNCHANGED <<stopping, cancelled, call>>
  OBVIOUS
<1>3. pc[t] \in CallbackPoints => call[t] = NoCall
  BY DEF CallbackPoints
<1>4. call[t].at = "none" => call[t] = NoCall
  <2>1. call[t] \in Calls /\ call[t].task = None
    BY DEF OwnerInv, TypeOK
  <2> QED BY <2>1 DEF Calls, NoCall
<1> QED
  BY <1>1, <1>2, <1>3, <1>4 DEF OwnerInv

\* A supervisor that runs, rather than being cancelled, is alone.
LEMMA RunningIsAlone ==
  ASSUME NEW o, Callers = {o}, TypeOK, OwnerInv,
         NEW t \in Supervisors, ~Done(t), t \notin cancelled
  PROVE  Alone(t) /\ NothingLeaks
BY TasksAreDistinct DEF OwnerInv, TypeOK, Calls, Alone, Holding, Done, Ended, RegisteredIsLive

\* An advance of the only supervisor keeps the invariant.
LEMMA AdvanceKeepsOwnerInv ==
  ASSUME NEW o, Callers = {o}, TypeOK, OwnerInv, NEW t \in Supervisors, Alone(t),
         NEW p \in Awaits, Advances(t, p), call' = call, cancelled' = cancelled,
         call[t] = NoCall
  PROVE  OwnerInv'
<1> USE TasksAreDistinct DEF TypeOK, Alone, Advances
<1>1. /\ pc'[t] = p
      /\ \A u \in Supervisors \ {t} : pc'[u] = pc[u] /\ Done(u)'
  BY DEF Done
<1>2. \A u \in Supervisors :
          /\ call'[u].at \in {"none", "closing"} /\ call'[u].task = None
          /\ call'[u].at = "closing" => pc'[u] \in CallbackPoints
          /\ u \in cancelled' => ~Done(u)'
  BY <1>1 DEF OwnerInv, NoCall, Done, Ended, CallbackPoints
<1>3. /\ call'[o].at \in {"none", "waiting"}
      /\ \A u \in Supervisors : ~Done(u)' => runTask' = u
      /\ call'[o].at = "waiting" => runTask' \in {None, call'[o].task}
      /\ (\A u \in Supervisors : Done(u)') => writer' = None
  BY <1>1 DEF OwnerInv, Done, Ended, Holding
<1>4. \A u \in Supervisors : pc'[u] \notin Ended \cup Holding => writer' = None
  BY <1>1 DEF Done
<1>5. RegisteredIsLive' /\ NothingLeaks'
  BY <1>1 DEF RegisteredIsLive, NothingLeaks, Done
<1> QED
  BY <1>2, <1>3, <1>4, <1>5 DEF OwnerInv, Holding

\* How the transfers of control end when the connection is closed ...
LEMMA EndAttemptAdvances ==
  ASSUME TypeOK, NEW t \in Supervisors, Alone(t), writer' = None, sockets' = {},
         EndAttempt(t)
  PROVE  \E p \in Awaits : Advances(t, p)
BY DEF Alone, Advances, Holding, Awaits, Ended, InSession, TypeOK,
       EndAttempt, Exit, Fail, Retry, Publish, At, Deregister

LEMMA NextAttemptAdvances ==
  ASSUME TypeOK, NEW t \in Supervisors, Alone(t), writer' = None, sockets' = {}, NextAttempt(t)
  PROVE  \E p \in Awaits : Advances(t, p)
BY DEF Alone, Advances, Holding, Awaits, Ended, InSession, TypeOK,
       NextAttempt, Exit, Publish, At, Deregister

\* ... and when it is open.
LEMMA CloseSessionAdvances ==
  ASSUME TypeOK, NEW t \in Supervisors, Alone(t), NothingLeaks, CloseSession(t)
  PROVE  \E p \in Awaits : Advances(t, p)
<1>1. writer' = None /\ sockets' = {}
  BY DEF CloseSession, NothingLeaks
<1>2. CASE writer = None
  BY <1>1, <1>2, EndAttemptAdvances DEF CloseSession
<1>3. CASE writer # None
  BY <1>1, <1>3 DEF CloseSession, Alone, Advances, Holding, Awaits, InSession, Ended, At
<1> QED BY <1>2, <1>3

LEMMA ReadOnAdvances ==
  ASSUME TypeOK, NEW t \in Supervisors, Alone(t), NothingLeaks, ReadOn(t)
  PROVE  \E p \in Awaits : Advances(t, p)
<1>1. CASE stopping
  BY <1>1, CloseSessionAdvances DEF ReadOn
<1>2. CASE ~stopping
  BY <1>2 DEF ReadOn, Alone, Advances, Holding, Awaits, InSession, Ended, At, NothingLeaks
<1> QED BY <1>1, <1>2

\* A step of a supervisor keeps the invariant of a single owner.
LEMMA OwnerInvSupervise ==
  ASSUME NEW o, Callers = {o}, TypeOK, OwnerInv, NEW t \in Supervisors, Supervise(t)
  PROVE  OwnerInv'
<1>1. CASE Unwind(t)
  <2> USE TasksAreDistinct DEF TypeOK, Unwind, Done
  <2>1. /\ call[o].at = "joining" /\ runTask = None /\ t \in cancelled
        /\ call'[o] = call[o]
        /\ UNCHANGED <<runTask, writer, sockets>>
    BY <1>1 DEF OwnerInv, Calls, Deregister
  <2>2. /\ pc'[t] = "finished" /\ t \notin cancelled' /\ call'[t] = NoCall
        /\ \A u \in Supervisors \ {t} :
              pc'[u] = pc[u] /\ call'[u] = call[u] /\ (u \in cancelled' <=> u \in cancelled)
    BY <1>1 DEF At
  <2> QED
    BY <2>1, <2>2 DEF OwnerInv, RegisteredIsLive, NothingLeaks, Ended, NoCall
<1>2. CASE ~Unwind(t)
  <2>1. ~Done(t) /\ t \notin cancelled /\ call[t] = NoCall /\ UNCHANGED <<cancelled, call>>
    BY <1>2, RunningHasNoCall
  <2>2. Alone(t) /\ NothingLeaks
    BY <2>1, RunningIsAlone
  <2>4. \E p \in Awaits : Advances(t, p)
    <3>1. pc[t] \notin Holding => writer = None /\ sockets = {}
      BY <2>2 DEF Alone, NothingLeaks
    <3>2. CASE Begin(t) \/ SleepEnds(t)
      BY <2>2, <3>1, <3>2, NextAttemptAdvances DEF Begin, SleepEnds, Running, Holding
    <3>3. CASE ConnectFails(t) \/ Closed(t)
      BY <2>2, <3>1, <3>3, EndAttemptAdvances DEF ConnectFails, Closed, Running, Holding
    <3>4. CASE FailedReturns(t)
      <4>1. writer' = None /\ sockets' = {} /\ Retry(t) /\ runTask = t
        BY <2>2, <3>1, <3>4 DEF FailedReturns, Returns, Running, Holding, Alone
      <4> QED
        BY <4>1 DEF Retry, Publish, At, Advances, Awaits, InSession, Ended, Holding
    <3>5. CASE ReadEnds(t)
      BY <2>2, <3>5, CloseSessionAdvances DEF ReadEnds
    <3>6. CASE ConnectedReturns(t)
      BY <2>2, <3>6, ReadOnAdvances DEF ConnectedReturns
    <3>7. CASE Connect(t)
      BY <2>2, <3>1, <3>7, TasksAreDistinct
      DEF Connect, Running, Publish, At, Alone, Advances, Awaits, InSession, Ended, Holding
    <3>8. CASE ConnectCrashes(t)
      BY <2>2, <3>1, <3>8
      DEF ConnectCrashes, Running, At, Deregister, Alone, Advances, Awaits, InSession, Ended, Holding
    <3>9. CASE ConnectingReturns(t) \/ ReconnectingReturns(t)
      BY <2>2, <3>1, <3>9
      DEF ConnectingReturns, ReconnectingReturns, Returns, Running, At, Alone, Advances,
          Awaits, InSession, Ended, Holding
    <3>10. CASE Receive(t)
      <4>1. \/ ReadOn(t)
            \/ At(t, "onSnapshot") /\ UNCHANGED <<runTask, writer, sockets>>
        BY <3>10 DEF Receive
      <4>2. CASE At(t, "onSnapshot") /\ UNCHANGED <<runTask, writer, sockets>>
        BY <2>2, <4>2 DEF At, Alone, Advances, Awaits, InSession, Ended, Holding, NothingLeaks
      <4> QED BY <2>2, <4>1, <4>2, ReadOnAdvances
    <3>11. CASE SnapshotReturns(t)
      <4>1. \/ ReadOn(t)
            \/ pc[t] = "onSnapshot" /\ UNCHANGED <<pc, runTask, writer, sockets>>
        BY <3>11 DEF SnapshotReturns, Returns, Running
      <4>2. CASE pc[t] = "onSnapshot" /\ UNCHANGED <<pc, runTask, writer, sockets>>
        <5>1. pc' = [pc EXCEPT ![t] = "onSnapshot"]
          BY <4>2 DEF TypeOK
        <5> QED
          BY <2>2, <4>2, <5>1 DEF Alone, Advances, Awaits, InSession, Ended, Holding, NothingLeaks
      <4> QED BY <2>2, <4>1, <4>2, ReadOnAdvances
    <3> QED
      BY <1>2, <3>2, <3>3, <3>4, <3>5, <3>6, <3>7, <3>8, <3>9, <3>10, <3>11 DEF Supervise
  <2> QED
    BY <2>1, <2>2, <2>4, AdvanceKeepsOwnerInv
<1> QED BY <1>1, <1>2

\* When nobody is running, stopping or being cancelled, the owner may launch.
LEMMA LaunchKeepsOwnerInv ==
  ASSUME NEW o, Callers = {o}, TypeOK, OwnerInv, Launch(o),
         call[o].at \in {"none", "waiting"}, \A t \in Supervisors : Done(t),
         call' = [call EXCEPT ![o] = NoCall],
         UNCHANGED <<writer, sockets, cancelled>>
  PROVE  OwnerInv'
<1> PICK t \in Supervisors : runTask' = t /\ At(t, "new")
  BY DEF Launch
<1>1. pc'[t] = "new" /\ \A u \in Supervisors \ {t} : pc'[u] = pc[u]
  BY DEF At, TypeOK
<1>2. writer = None /\ cancelled = {} /\ o \notin Supervisors
  BY TasksAreDistinct DEF OwnerInv, TypeOK
<1>3. /\ call'[o] = NoCall
      /\ \A u \in Supervisors : call'[u] = call[u] /\ call'[u].at # "closing"
  BY <1>2 DEF TypeOK, OwnerInv, NoCall, Done, Ended, CallbackPoints
<1> QED
  BY <1>1, <1>2, <1>3 DEF OwnerInv, RegisteredIsLive, NothingLeaks, Done, Ended, NoCall

\* So does a call: start() or stop() of the owner, stop() from a callback, and
\* whatever either does once its await is over.
LEMMA OwnerInvCall ==
  ASSUME NEW o, Callers = {o}, TypeOK, OwnerInv, NEW a \in Callers \cup Supervisors,
         \/ a \in Starters /\ StartCall(a)
         \/ a \in Stoppers /\ StopCall(a)
         \/ a \in Supervisors /\ StopFromCallback(a)
         \/ Proceed(a)
  PROVE  OwnerInv'
<1>0. o \notin Supervisors /\ None \notin Supervisors /\ Starters \cup Stoppers = {o}
  BY TasksAreDistinct DEF Callers
<1>1. CASE a \in Starters /\ StartCall(a)
  <2>1. a = o /\ call[o] = NoCall
    BY <1>0, <1>1 DEF StartCall
  <2>2. CASE runTask = None
    <3>1. \A t \in Supervisors : Done(t)
      <4>1. \A t \in Supervisors : ~Done(t) => runTask = t
        BY <2>1 DEF OwnerInv, NoCall
      <4> QED BY <1>0, <2>2, <4>1
    <3>2. call' = [call EXCEPT ![o] = NoCall]
      <4>1. call' = call /\ call = [call EXCEPT ![o] = call[o]]
        BY <1>1, <2>2 DEF StartCall, TypeOK
      <4> QED BY <2>1, <4>1
    <3> QED
      <4>1. Launch(o) /\ UNCHANGED <<writer, sockets, cancelled>>
        BY <1>1, <2>1, <2>2 DEF StartCall
      <4>2. call[o].at \in {"none", "waiting"}
        BY <2>1 DEF NoCall
      <4> QED BY <3>1, <3>2, <4>1, <4>2, LaunchKeepsOwnerInv
  <2>3. CASE runTask # None
    <3>1. /\ call'[o] = [at |-> "waiting", task |-> runTask]
          /\ \A u \in Supervisors : call'[u] = call[u]
          /\ UNCHANGED <<runTask, pc, writer, sockets, cancelled>>
      BY <1>0, <1>1, <2>1, <2>3 DEF StartCall, TypeOK
    <3> QED
      BY <2>1, <3>1 DEF OwnerInv, RegisteredIsLive, NothingLeaks, Done, NoCall
  <2> QED BY <2>2, <2>3
<1>2. CASE a \in Stoppers /\ StopCall(a)
  <2>1. a = o /\ call[o] = NoCall /\ pc' = pc
    BY <1>0, <1>2 DEF StopCall
  <2>2. /\ cancelled = {}
        /\ \A t \in Supervisors : ~Done(t) => runTask = t
    BY <2>1 DEF OwnerInv, NoCall
  <2>3. CASE runTask = None
    <3>1. /\ UNCHANGED <<runTask, cancelled>>
          /\ writer' = None /\ sockets' = {}
          /\ \A u \in Supervisors : call'[u] = call[u]
          /\ call'[o].at \in {"none", "closing"}
      BY <1>0, <1>2, <2>1, <2>3 DEF StopCall, CloseForStop, OwnerInv, NothingLeaks, TypeOK, NoCall
    <3> QED
      BY <1>0, <2>1, <2>2, <2>3, <3>1 DEF OwnerInv, RegisteredIsLive, NothingLeaks, Done
  <2>4. CASE runTask # None
    <3>1. runTask \in Supervisors /\ ~Done(runTask) /\ call[runTask].at # "joining"
      BY <2>4 DEF TypeOK, OwnerInv, RegisteredIsLive
    <3>2. /\ runTask' = None /\ cancelled' = {runTask}
          /\ UNCHANGED <<writer, sockets>>
          /\ \A u \in Supervisors : call'[u] = call[u]
          /\ call'[o] = [at |-> "joining", task |-> runTask]
      BY <1>0, <1>2, <2>1, <2>2, <2>4, <3>1 DEF StopCall, Cancel, TypeOK
    <3> QED
      BY <1>0, <2>1, <2>2, <3>1, <3>2 DEF OwnerInv, RegisteredIsLive, NothingLeaks, Done, Ended
  <2> QED BY <2>3, <2>4
<1>3. CASE a \in Supervisors /\ StopFromCallback(a)
  <2>1. pc[a] \in CallbackPoints /\ ~Done(a) /\ a \notin cancelled /\ StopCall(a)
    BY <1>3, CallbacksExist DEF StopFromCallback, CallbackPoints, Done, Ended
  <2>2. Alone(a) /\ NothingLeaks
    BY <1>3, <2>1, RunningIsAlone
  <2>3. /\ UNCHANGED <<runTask, cancelled, pc>>
        /\ writer' = None /\ sockets' = {}
        /\ call'[a] \in {NoCall, [at |-> "closing", task |-> None]}
        /\ \A u \in (Callers \cup Supervisors) \ {a} : call'[u] = call[u]
    BY <1>0, <1>3, <2>1, <2>2 DEF StopCall, CloseForStop, Alone, NothingLeaks, TypeOK
  <2> QED
    BY <1>0, <1>3, <2>1, <2>2, <2>3 DEF OwnerInv, RegisteredIsLive, NothingLeaks, Done, NoCall, Alone
<1>4. CASE StartResumes(a)
  <2>1. a = o /\ call[o].at = "waiting" /\ Done(call[o].task)
    BY <1>0, <1>4 DEF StartResumes, OwnerInv, Done, Ended
  <2>2. \A t \in Supervisors : Done(t)
    BY <1>0, <2>1 DEF OwnerInv
  <2> QED
    BY <1>4, <2>1, <2>2, LaunchKeepsOwnerInv DEF StartResumes
<1>5. CASE StopJoins(a)
  BY <1>0, <1>5 DEF StopJoins, CloseForStop, OwnerInv, RegisteredIsLive, NothingLeaks, Done, Ended,
     NoCall, TypeOK, Calls
<1>6. CASE StopEnds(a)
  BY <1>0, <1>6 DEF StopEnds, OwnerInv, RegisteredIsLive, NothingLeaks, Done, Ended, NoCall,
     TypeOK, Calls
<1>7. CASE AwaitRaises(a)
  BY <1>0, <1>7 DEF AwaitRaises, OwnerInv, RegisteredIsLive, NothingLeaks, Done, Ended, NoCall,
     TypeOK, Calls
<1> QED
  BY <1>1, <1>2, <1>3, <1>4, <1>5, <1>6, <1>7 DEF Proceed

\* With a single owner its invariant holds in every reachable state.
THEOREM SingleOwnerInv == ASSUME NEW o, Callers = {o} PROVE Spec => []OwnerInv
<1>1. Init => OwnerInv
  <2> SUFFICES ASSUME Init PROVE OwnerInv
    OBVIOUS
  <2> QED
    BY DEF Init, OwnerInv, RegisteredIsLive, NothingLeaks, NoCall, Done, Ended
<1>2. TypeOK /\ OwnerInv /\ [Next]_vars => OwnerInv'
  <2> SUFFICES ASSUME TypeOK, OwnerInv, [Next]_vars PROVE OwnerInv'
    OBVIOUS
  <2>1. CASE UNCHANGED vars
    BY <2>1 DEF vars, OwnerInv, RegisteredIsLive, NothingLeaks, Done
  <2>2. ASSUME NEW t \in Supervisors, Supervise(t) PROVE OwnerInv'
    BY <2>2, OwnerInvSupervise
  <2>3. ASSUME NEW a \in Callers \cup Supervisors,
               \/ a \in Starters /\ StartCall(a)
               \/ a \in Stoppers /\ StopCall(a)
               \/ a \in Supervisors /\ StopFromCallback(a)
               \/ Proceed(a)
        PROVE  OwnerInv'
    BY <2>3, OwnerInvCall
  <2> QED
    BY <2>1, <2>2, <2>3 DEF Next, Callers
<1> QED
  BY <1>1, <1>2, ClientTypeOK, PTL DEF Spec

\* A single owner never has two supervisors, wherever its listener calls stop().
THEOREM SingleOwnerOneSupervisor == ASSUME NEW o, Callers = {o} PROVE Spec => []OneSupervisor
<1>1. TypeOK /\ OwnerInv => OneSupervisor
  BY DEF TypeOK, Calls, OwnerInv, OneSupervisor
<1> QED
  BY <1>1, ClientTypeOK, SingleOwnerInv, PTL

\* Nor does it lose a connection, or hold two: the only open one is _writer's.
THEOREM SingleOwnerNothingLeaks ==
  ASSUME NEW o, Callers = {o} PROVE Spec => [](NothingLeaks /\ OneConnection)
<1>1. OwnerInv => NothingLeaks /\ OneConnection
  BY DEF OwnerInv, NothingLeaks, OneConnection
<1> QED
  BY <1>1, SingleOwnerInv, PTL

\* Its slot never refers to a task that has ended.
THEOREM SingleOwnerSlotIsLive == ASSUME NEW o, Callers = {o} PROVE Spec => []RegisteredIsLive
<1>1. OwnerInv => RegisteredIsLive
  BY DEF OwnerInv
<1> QED
  BY <1>1, SingleOwnerInv, PTL

\* A step of the only supervisor opens an attempt, keeps it, or summarises it as it
\* leaves its awaits.
LEMMA SummarisedSupervise ==
  ASSUME TypeOK, OneSupervisor, EveryAttemptSummarised, NEW t \in Supervisors, Supervise(t)
  PROVE  EveryAttemptSummarised'
<1> USE TasksAreDistinct DEF TypeOK, EveryAttemptSummarised, InSession, Ended, At, Running
<1>1. CASE Begin(t)
  BY <1>1 DEF OneSupervisor, Done, Begin, NextAttempt, Exit, Publish, At, Running
<1>2. CASE Connect(t)
  BY <1>2 DEF OneSupervisor, Done, Connect, Publish, At, Running
<1>3. CASE ConnectFails(t)
  BY <1>3 DEF OneSupervisor, Done, ConnectFails, EndAttempt, Exit, Fail, Retry, Publish, At, Running
<1>4. CASE ConnectCrashes(t)
  BY <1>4 DEF OneSupervisor, Done, ConnectCrashes, At, Running
<1>5. CASE Receive(t)
  BY <1>5 DEF OneSupervisor, Done, Receive, ReadOn, CloseSession, EndAttempt, Exit, Fail, Retry, Publish, At, Running
<1>6. CASE ReadEnds(t)
  BY <1>6 DEF OneSupervisor, Done, ReadEnds, CloseSession, EndAttempt, Exit, Fail, Retry, Publish, At, Running
<1>7. CASE Closed(t)
  BY <1>7 DEF OneSupervisor, Done, Closed, EndAttempt, Exit, Fail, Retry, Publish, At, Running
<1>8. CASE SleepEnds(t)
  BY <1>8 DEF OneSupervisor, Done, SleepEnds, NextAttempt, Exit, Publish, At, Running
<1>9. CASE ConnectingReturns(t)
  BY <1>9 DEF OneSupervisor, Done, ConnectingReturns, Returns, At, Running
<1>10. CASE ConnectedReturns(t)
  BY <1>10 DEF OneSupervisor, Done, ConnectedReturns, Returns, ReadOn, CloseSession,
              EndAttempt, Exit, Fail, Retry, Publish, At, Running
<1>11. CASE SnapshotReturns(t)
  BY <1>11 DEF OneSupervisor, Done, SnapshotReturns, Returns, ReadOn, CloseSession,
              EndAttempt, Exit, Fail, Retry, Publish, At, Running
<1>12. CASE FailedReturns(t)
  BY <1>12 DEF OneSupervisor, Done, FailedReturns, Returns, Retry, Publish, At, Running
<1>13. CASE ReconnectingReturns(t)
  BY <1>13 DEF OneSupervisor, Done, ReconnectingReturns, Returns, At, Running
<1>14. CASE Unwind(t)
  BY <1>14 DEF OneSupervisor, Done, Unwind, At
<1> QED
  BY <1>1, <1>2, <1>3, <1>4, <1>5, <1>6, <1>7, <1>8, <1>9, <1>10, <1>11, <1>12, <1>13, <1>14 DEF Supervise

\* No failure, silence or raising listener ends a supervisor: unless a connect raises
\* what _run does not expect, only a stop() does, whoever and how many call it.
THEOREM SupervisorsSurvive ==
  ASSUME "crashed" \notin ConnectOutcomes PROVE Spec => SupervisorSurvives
<1> DEFINE Survives == \A t \in Supervisors : ~Done(t) /\ Done(t)' => stopping \/ t \in cancelled
<1>1. TypeOK /\ [Next]_vars => [Survives]_vars
  <2> SUFFICES ASSUME TypeOK, Next, NEW t \in Supervisors, ~Done(t), Done(t)', ~stopping
               PROVE  t \in cancelled
    BY DEF vars
  <2> USE DEF TypeOK, Done, Ended, At, Publish
  <2>1. ASSUME NEW u \in Supervisors, Supervise(u) PROVE t \in cancelled
    <3>1. CASE Begin(u) \/ SleepEnds(u)
      BY <3>1 DEF Begin, SleepEnds, NextAttempt
    <3>2. CASE Connect(u) \/ ConnectFails(u) \/ ConnectCrashes(u)
      BY <3>2 DEF Connect, ConnectFails, ConnectCrashes, EndAttempt, Fail, Retry
    <3>3. CASE Receive(u) \/ ConnectedReturns(u) \/ SnapshotReturns(u)
      BY <3>3 DEF Receive, ConnectedReturns, SnapshotReturns, ReadOn
    <3>4. CASE ReadEnds(u) \/ Closed(u)
      BY <3>4 DEF ReadEnds, Closed, CloseSession, EndAttempt, Fail, Retry
    <3>5. CASE ConnectingReturns(u) \/ FailedReturns(u) \/ ReconnectingReturns(u)
      BY <3>5 DEF ConnectingReturns, FailedReturns, ReconnectingReturns, Retry
    <3>6. CASE Unwind(u)
      BY <3>6 DEF Unwind
    <3> QED BY <2>1, <3>1, <3>2, <3>3, <3>4, <3>5, <3>6 DEF Supervise
  <2>2. ASSUME NEW a, Launch(a) PROVE FALSE
    BY <2>2 DEF Launch
  <2>3. CASE UNCHANGED pc
    BY <2>3
  <2>4. ASSUME NEW a, StartCall(a) \/ StopCall(a) \/ Proceed(a) PROVE FALSE
    BY <2>2, <2>3, <2>4 DEF StartCall, StopCall, Proceed, StartResumes, StopJoins, StopEnds,
                            AwaitRaises
  <2> QED
    BY <2>1, <2>4 DEF Next, StopFromCallback
<1>2. [][Survives]_vars => SupervisorSurvives
  BY DEF SupervisorSurvives
<1> QED
  BY <1>1, <1>2, ClientTypeOK, PTL DEF Spec

\* Every attempt of a client with a single owner is summarised exactly as it is left,
\* wherever it is stopped or cancelled and however its connect ends.
THEOREM SingleOwnerSummarises ==
  ASSUME NEW o, Callers = {o} PROVE Spec => []EveryAttemptSummarised
<1>1. Init => EveryAttemptSummarised
  BY TasksAreDistinct DEF Init, EveryAttemptSummarised, InSession
<1>2. TypeOK /\ OneSupervisor /\ EveryAttemptSummarised /\ [Next]_vars => EveryAttemptSummarised'
  <2> SUFFICES ASSUME TypeOK, OneSupervisor, EveryAttemptSummarised, [Next]_vars
               PROVE  EveryAttemptSummarised'
    OBVIOUS
  <2>1. ASSUME NEW t \in Supervisors, Supervise(t) PROVE EveryAttemptSummarised'
    BY <2>1, SummarisedSupervise
  <2>2. ASSUME NEW a, Launch(a), UNCHANGED openSession PROVE EveryAttemptSummarised'
    BY <2>2 DEF TypeOK, EveryAttemptSummarised, InSession, Ended, Launch, Done, At
  <2>3. CASE UNCHANGED <<pc, openSession>>
    BY <2>3 DEF EveryAttemptSummarised
  <2>4. ASSUME NEW a, StartCall(a) \/ StopCall(a) \/ Proceed(a) PROVE EveryAttemptSummarised'
    BY <2>2, <2>3, <2>4 DEF StartCall, StopCall, Proceed, StartResumes, StopJoins, StopEnds,
                            AwaitRaises
  <2> QED
    BY <2>1, <2>3, <2>4 DEF Next, vars, StopFromCallback
<1> QED
  BY <1>1, <1>2, ClientTypeOK, SingleOwnerOneSupervisor, PTL DEF Spec

---------------------------------------------------------------------------------------
(* What stop() leaves behind, when no listener stops the client from the callbacks
   for CONNECTING and CONNECTION_FAILED, which the supervisor leaves unchecked. *)

\* A supervisor that runs while stop() has settled only winds down.
LEMMA SettledSupervise ==
  ASSUME NEW o, Callers = {o}, ReentrantStops \cap {"onConnecting", "onFailed"} = {},
         TypeOK, OwnerInv, SettledInv, NEW t \in Supervisors, Supervise(t)
  PROVE  SettledInv'
<1>1. CASE Unwind(t)
  <2>1. /\ call[o].at = "joining" /\ o \notin Supervisors
        /\ call' = [call EXCEPT ![t] = NoCall]
        /\ UNCHANGED <<writer, stopping>>
        /\ \A u \in Supervisors \ {t} : pc'[u] = pc[u]
    BY <1>1, TasksAreDistinct DEF Unwind, OwnerInv, TypeOK, Calls, At, Done
  <2>2. StopInProgress'
    BY <2>1 DEF StopInProgress, TypeOK
  <2>3. call'[t].at = "none" /\ \A u \in Supervisors \ {t} : call'[u] = call[u]
    BY <2>1 DEF TypeOK, NoCall
  <2> QED
    BY <2>1, <2>2, <2>3 DEF SettledInv, StopSettles
<1>2. CASE ~Unwind(t)
  <2>1. /\ ~Done(t) /\ t \notin cancelled /\ call[t] = NoCall
        /\ UNCHANGED <<stopping, cancelled, call>>
    BY <1>2, RunningHasNoCall
  <2>2. Alone(t) /\ NothingLeaks
    BY <2>1, RunningIsAlone
  <2>3. ASSUME NEW u \in Supervisors PROVE call[u].at = "none"
    <3>1. CASE u = t
      BY <2>1, <3>1 DEF NoCall
    <3>2. CASE u # t
      BY <2>2, <3>2 DEF Alone, OwnerInv, Done, Ended, CallbackPoints
    <3> QED BY <3>1, <3>2
  <2>4. ~StopInProgress /\ ~StopInProgress'
    BY <2>1, <2>2, <2>3 DEF Alone, StopInProgress
  <2>5. CASE ~stopping
    BY <2>1, <2>3, <2>5 DEF SettledInv, StopSettles
  <2>6. CASE stopping
    <3>1. /\ state = "STOPPED" /\ writer = None /\ sockets = {}
          /\ pc[t] \in WindingDown \ Ended
      BY <2>1, <2>4, <2>6 DEF SettledInv, StopSettles, Done
    <3>2. state' = "STOPPED" /\ writer' = None /\ sockets' = {}
      BY <1>2, <2>6, <3>1 DEF WindingDown, Ended, Supervise, Running, Returns, Begin, Connect,
         ConnectFails, ConnectCrashes, Receive, ReadEnds, Closed, SleepEnds, ConnectingReturns,
         ConnectedReturns, SnapshotReturns, FailedReturns, ReconnectingReturns,
         NextAttempt, ReadOn, CloseSession, EndAttempt, Exit
    <3>3. \E p \in WindingDown : pc' = [pc EXCEPT ![t] = p]
      <4>1. At(t, "finished") \/ At(t, "sleeping") \/ pc' = pc
        BY <1>2, <2>6, <3>1 DEF WindingDown, Ended, Supervise, Running, Returns, Begin, Connect,
           ConnectFails, ConnectCrashes, Receive, ReadEnds, Closed, SleepEnds, ConnectingReturns,
           ConnectedReturns, SnapshotReturns, FailedReturns, ReconnectingReturns,
           NextAttempt, ReadOn, CloseSession, EndAttempt, Exit
      <4>2. pc' = pc => pc' = [pc EXCEPT ![t] = pc[t]]
        BY DEF TypeOK
      <4> QED BY <3>1, <4>1, <4>2 DEF At, WindingDown, Ended
    <3> QED
      BY <2>1, <2>3, <2>4, <2>6, <3>2, <3>3 DEF SettledInv, StopSettles
  <2> QED BY <2>5, <2>6
<1> QED BY <1>1, <1>2

LEMMA SettledCall ==
  ASSUME NEW o, Callers = {o}, ReentrantStops \cap {"onConnecting", "onFailed"} = {},
         TypeOK, OwnerInv, SettledInv, NEW a \in Callers \cup Supervisors,
         \/ a \in Starters /\ StartCall(a)
         \/ a \in Stoppers /\ StopCall(a)
         \/ a \in Supervisors /\ StopFromCallback(a)
         \/ Proceed(a)
  PROVE  SettledInv'
<1>0. o \notin Supervisors /\ None \notin Supervisors /\ Starters \cup Stoppers = {o}
  BY TasksAreDistinct DEF Callers
<1> DEFINE Idle == \A t \in Supervisors : Done(t)
<1>1. Idle => \A u \in Supervisors : call[u].at = "none" /\ pc[u] \in WindingDown
  BY DEF OwnerInv, Done, Ended, CallbackPoints, WindingDown
<1>2. CASE a \in Starters /\ StartCall(a)
  <2>1. a = o /\ call[o] = NoCall
    BY <1>0, <1>2 DEF StartCall
  <2>2. CASE runTask = None
    <3>1. Idle
      <4>1. \A t \in Supervisors : ~Done(t) => runTask = t
        BY <2>1 DEF OwnerInv, NoCall
      <4> QED BY <1>0, <2>2, <4>1
    <3>2. stopping' = FALSE /\ call' = call
      BY <1>2, <2>2 DEF StartCall, Launch
    <3> QED
      BY <1>1, <3>1, <3>2 DEF SettledInv, StopSettles
  <2>3. CASE runTask # None
    <3>1. /\ UNCHANGED <<state, stopping, writer, sockets, pc>>
          /\ call'[o].at = "waiting" /\ \A u \in Supervisors : call'[u] = call[u]
      BY <1>0, <1>2, <2>1, <2>3 DEF StartCall, TypeOK
    <3>2. StopInProgress' <=> StopInProgress
      BY <2>1, <3>1 DEF StopInProgress, NoCall
    <3> QED
      BY <3>1, <3>2 DEF SettledInv, StopSettles
  <2> QED BY <2>2, <2>3
<1>3. CASE a \in Stoppers /\ StopCall(a)
  <2>1. /\ a = o /\ call[o] = NoCall /\ pc' = pc /\ stopping' = TRUE
    BY <1>0, <1>3 DEF StopCall
  <2>2. \A u \in Supervisors : call'[u] = call[u]
    BY <1>0, <1>3, <2>1 DEF StopCall, CloseForStop, TypeOK
  <2>3. CASE runTask = None
    <3>1. Idle
      <4>1. \A t \in Supervisors : ~Done(t) => runTask = t
        BY <2>1 DEF OwnerInv, NoCall
      <4> QED BY <1>0, <2>3, <4>1
    <3>2. writer' = None /\ sockets' = {}
      BY <1>3, <2>3 DEF StopCall, CloseForStop, OwnerInv, NothingLeaks
    <3>3. state' = "STOPPED" \/ call'[o].at = "closing"
      BY <1>3, <2>1, <2>3 DEF StopCall, CloseForStop, TypeOK
    <3>4. state' = "STOPPED" \/ StopInProgress'
      BY <3>3 DEF StopInProgress
    <3> QED
      BY <1>1, <2>1, <2>2, <3>1, <3>2, <3>4 DEF SettledInv, StopSettles
  <2>4. CASE runTask # None
    <3>1. call'[o].at = "joining" /\ writer' = writer
      BY <1>0, <1>3, <2>1, <2>4 DEF StopCall, TypeOK
    <3>2. StopInProgress'
      BY <3>1 DEF StopInProgress
    <3> QED
      BY <2>1, <2>2, <3>1, <3>2 DEF SettledInv, StopSettles
  <2> QED BY <2>3, <2>4
<1>4. CASE a \in Supervisors /\ StopFromCallback(a)
  <2>1. /\ pc[a] \in CallbackPoints /\ ~Done(a) /\ a \notin cancelled /\ StopCall(a)
        /\ pc[a] \in ReentrantStops /\ pc[a] \in WindingDown
    BY <1>4, CallbacksExist DEF StopFromCallback, CallbackPoints, Done, Ended, WindingDown
  <2>2. Alone(a) /\ NothingLeaks
    BY <1>4, <2>1, RunningIsAlone
  <2>3. /\ pc' = pc /\ stopping' = TRUE
        /\ writer' = None /\ sockets' = {}
        /\ \/ state' = "STOPPED" /\ call'[a] = NoCall
           \/ call'[a] = [at |-> "closing", task |-> None]
        /\ \A u \in Supervisors \ {a} : call'[u] = call[u]
    BY <1>0, <1>4, <2>1, <2>2 DEF StopCall, CloseForStop, Alone, NothingLeaks, TypeOK
  <2>4. \A u \in Supervisors \ {a} : call[u].at # "closing" /\ pc[u] \in WindingDown
    BY <2>2 DEF Alone, OwnerInv, Done, Ended, CallbackPoints, WindingDown
  <2>5. state' = "STOPPED" \/ StopInProgress'
    BY <1>4, <2>3 DEF StopInProgress
  <2> QED
    BY <1>4, <2>1, <2>3, <2>4, <2>5 DEF SettledInv, StopSettles, NoCall
<1>5. CASE StartResumes(a)
  <2>1. a = o /\ call[o].at = "waiting" /\ Done(call[o].task)
    BY <1>0, <1>5 DEF StartResumes, OwnerInv, Done, Ended
  <2>2. Idle
    BY <1>0, <2>1 DEF OwnerInv
  <2>3. stopping' = FALSE /\ \A u \in Supervisors : call'[u] = call[u]
    BY <1>0, <1>5, <2>1 DEF StartResumes, Launch, TypeOK
  <2> QED
    BY <1>1, <2>2, <2>3 DEF SettledInv, StopSettles
<1>6. CASE StopJoins(a)
  <2>1. a = o /\ call[o].at = "joining" /\ Done(call[o].task)
    BY <1>0, <1>6 DEF StopJoins, OwnerInv, Done, Ended
  <2>2. Idle
    BY <2>1 DEF OwnerInv
  <2>3. /\ pc' = pc /\ writer' = None /\ sockets' = {}
        /\ \A u \in Supervisors : call'[u] = call[u]
        /\ state' = "STOPPED" \/ call'[o].at = "closing"
    BY <1>0, <1>6, <2>1 DEF StopJoins, CloseForStop, TypeOK, OwnerInv, NothingLeaks
  <2>4. state' = "STOPPED" \/ StopInProgress'
    BY <2>3 DEF StopInProgress
  <2> QED
    BY <1>1, <2>2, <2>3, <2>4 DEF SettledInv, StopSettles
<1>7. CASE Proceed(a) /\ StopEnds(a)
  <2>1. /\ call[a].at = "closing" /\ a \notin cancelled /\ state' = "STOPPED"
        /\ UNCHANGED <<stopping, writer, sockets, pc>>
        /\ call'[a] = NoCall
        /\ \A u \in (Callers \cup Supervisors) \ {a} : call'[u] = call[u]
    BY <1>7 DEF StopEnds, Proceed, TypeOK
  <2>2. CASE a = o
    <3>1. Idle /\ writer = None /\ sockets = {}
      BY <2>1, <2>2 DEF OwnerInv, NothingLeaks
    <3> QED
      BY <1>0, <1>1, <2>1, <2>2, <3>1 DEF SettledInv, StopSettles
  <2>3. CASE a \in Supervisors
    <3>1. pc[a] \in ReentrantStops /\ writer = None /\ ~Done(a) /\ pc[a] \in WindingDown
      BY <2>1, <2>3, CallbacksExist DEF SettledInv, CallbackPoints, Done, Ended, WindingDown
    <3>2. Alone(a) /\ NothingLeaks
      BY <2>1, <2>3, <3>1, RunningIsAlone
    <3>3. \A u \in Supervisors \ {a} : call[u].at # "closing" /\ pc[u] \in WindingDown
      BY <3>2 DEF Alone, OwnerInv, Done, Ended, CallbackPoints, WindingDown
    <3> QED
      BY <2>1, <2>3, <3>1, <3>2, <3>3 DEF SettledInv, StopSettles, NothingLeaks, NoCall
  <2> QED BY <2>2, <2>3
<1>8. CASE AwaitRaises(a)
  <2>1. a = o /\ call[o].at = "waiting"
    BY <1>0, <1>8 DEF AwaitRaises, OwnerInv
  <2>2. /\ UNCHANGED <<state, stopping, writer, sockets, pc>>
        /\ call'[o] = NoCall /\ \A u \in Supervisors : call'[u] = call[u]
    BY <1>0, <1>8, <2>1 DEF AwaitRaises, TypeOK
  <2>3. StopInProgress' <=> StopInProgress
    BY <2>1, <2>2 DEF StopInProgress, NoCall
  <2> QED
    BY <2>2, <2>3 DEF SettledInv, StopSettles
<1> QED
  BY <1>2, <1>3, <1>4, <1>5, <1>6, <1>7, <1>8 DEF Proceed

\* The invariant holds where no listener stops the client from those two callbacks.
THEOREM SingleOwnerSettledInv ==
  ASSUME NEW o, Callers = {o}, ReentrantStops \cap {"onConnecting", "onFailed"} = {}
  PROVE  Spec => []SettledInv
<1>1. Init => SettledInv
  BY DEF Init, SettledInv, StopSettles, NoCall
<1>2. TypeOK /\ OwnerInv /\ SettledInv /\ [Next]_vars => SettledInv'
  <2> SUFFICES ASSUME TypeOK, OwnerInv, SettledInv, [Next]_vars PROVE SettledInv'
    OBVIOUS
  <2>1. CASE UNCHANGED vars
    BY <2>1 DEF vars, SettledInv, StopSettles, StopInProgress
  <2>2. ASSUME NEW t \in Supervisors, Supervise(t) PROVE SettledInv'
    BY <2>2, SettledSupervise
  <2>3. ASSUME NEW a \in Callers \cup Supervisors,
               \/ a \in Starters /\ StartCall(a)
               \/ a \in Stoppers /\ StopCall(a)
               \/ a \in Supervisors /\ StopFromCallback(a)
               \/ Proceed(a)
        PROVE  SettledInv'
    BY <2>3, SettledCall
  <2> QED
    BY <2>1, <2>2, <2>3 DEF Next, Callers
<1> QED
  BY <1>1, <1>2, ClientTypeOK, SingleOwnerInv, PTL DEF Spec

\* With a single owner whose listener never stops the client while it is told
\* CONNECTING or CONNECTION_FAILED, stop() leaves the client STOPPED, with no
\* connection, until the next start().
THEOREM SingleOwnerStopSettles ==
  ASSUME NEW o, Callers = {o}, ReentrantStops \cap {"onConnecting", "onFailed"} = {}
  PROVE  Spec => []StopSettles
<1>1. SettledInv => StopSettles
  BY DEF SettledInv
<1> QED
  BY <1>1, SingleOwnerSettledInv, PTL

\* While the client is stopping every supervisor is cancelled or winds down.
LEMMA StoppingWindsDown ==
  ASSUME NEW o, Callers = {o},
         ReentrantStops \cap {"onConnecting", "onFailed"} = {},
         TypeOK, OwnerInv, SettledInv, stopping, NEW t \in Supervisors
  PROVE  t \in cancelled \/ pc[t] \in WindingDown
<1> USE CallbacksExist DEF TypeOK, OwnerInv, SettledInv, WindingDown, Calls, CallbackPoints
<1>1. CASE ~StopInProgress
  BY <1>1
<1>2. CASE call[o].at \in {"joining", "closing"}
  BY <1>2 DEF Done
<1>3. ASSUME NEW u \in Supervisors, call[u].at \in {"joining", "closing"}
      PROVE  t \in cancelled \/ pc[t] \in WindingDown
  <2>1. pc[u] \in ReentrantStops /\ ~Done(u)
    BY <1>3 DEF Done, Ended
  <2>2. CASE t = u
    BY <2>1, <2>2
  <2>3. CASE t # u
    <3>1. OneSupervisor
      BY DEF OneSupervisor
    <3> QED BY <2>1, <2>3, <3>1 DEF OneSupervisor, Done
  <2> QED BY <2>2, <2>3
<1> QED
  BY <1>1, <1>2, <1>3 DEF StopInProgress

\* Nothing is begun once the client is told to stop: whatever its supervisor is doing
\* it opens no connection and reads nothing more.
THEOREM SingleOwnerBeginsNothing ==
  ASSUME NEW o, Callers = {o}, ReentrantStops \cap {"onConnecting", "onFailed"} = {}
  PROVE  Spec => NothingNewAfterStop
<1> DEFINE Quiet(t) == /\ pending'[t] <= pending[t]
                       /\ pc[t] = "reading" => pc'[t] \in {"reading", "finished"}
                       /\ pc[t] # "reading" => pc'[t] # "reading"
           Nothing == stopping /\ stopping' =>
                         /\ sockets' \subseteq sockets
                         /\ \A t \in Supervisors :
                               /\ pending'[t] <= pending[t]
                               /\ pc[t] = "reading" => pc'[t] \in {"reading", "finished"}
                               /\ pc[t] # "reading" => pc'[t] # "reading"
<1>1. TypeOK /\ OwnerInv /\ SettledInv /\ [Next]_vars => [Nothing]_vars
  <2> SUFFICES ASSUME TypeOK, OwnerInv, SettledInv, Next, stopping, stopping'
               PROVE  sockets' \subseteq sockets /\ \A t \in Supervisors : Quiet(t)
    OBVIOUS
  <2> USE DEF TypeOK
  <2>1. ASSUME NEW t \in Supervisors, Supervise(t)
        PROVE  sockets' \subseteq sockets /\ \A u \in Supervisors : Quiet(u)
    <3>1. t \in cancelled \/ pc[t] \in WindingDown
      BY StoppingWindsDown
    <3> USE DEF WindingDown, Running, Returns, Ended, At
    <3>3. CASE Unwind(t)
      BY <3>3 DEF Unwind
    <3>4. CASE SleepEnds(t)
      BY <3>4 DEF SleepEnds, NextAttempt, Exit
    <3>5. CASE ConnectedReturns(t)
      BY <3>5 DEF ConnectedReturns, ReadOn, CloseSession, EndAttempt, Exit
    <3>6. CASE SnapshotReturns(t)
      BY <3>6 DEF SnapshotReturns, ReadOn, CloseSession, EndAttempt, Exit
    <3>7. CASE ReconnectingReturns(t)
      BY <3>7 DEF ReconnectingReturns
    <3>8. ~(\/ Begin(t) \/ Connect(t) \/ ConnectFails(t) \/ ConnectCrashes(t) \/ Receive(t)
            \/ ReadEnds(t) \/ Closed(t) \/ ConnectingReturns(t) \/ FailedReturns(t))
      BY <3>1 DEF Begin, Connect, ConnectFails, ConnectCrashes, Receive, ReadEnds, Closed,
                  ConnectingReturns, FailedReturns
    <3> QED BY <2>1, <3>3, <3>4, <3>5, <3>6, <3>7, <3>8 DEF Supervise
  <2>2. ASSUME NEW a, StartCall(a) \/ StopCall(a) \/ Proceed(a)
        PROVE  UNCHANGED <<pc, pending>> /\ sockets' \subseteq sockets
    BY <2>2 DEF StartCall, StopCall, Proceed, StartResumes, StopJoins, StopEnds, AwaitRaises,
                Launch, CloseForStop
  <2>3. CASE UNCHANGED <<pc, pending>> /\ sockets' \subseteq sockets
    BY <2>3
  <2> QED
    BY <2>1, <2>2, <2>3 DEF Next, StopFromCallback
<1>2. [][Nothing]_vars => NothingNewAfterStop
  BY DEF NothingNewAfterStop
<1> QED
  BY <1>1, <1>2, ClientTypeOK, SingleOwnerInv, SingleOwnerSettledInv, PTL DEF Spec

---------------------------------------------------------------------------------------
(* The safety of ConnectionLifecycle, step by step. *)

\* A supervisor that runs keeps the promises.
LEMMA LifeSupervise ==
  ASSUME NEW o, Callers = {o}, ReentrantStops \cap {"onConnecting", "onFailed"} = {},
         "crashed" \notin ConnectOutcomes,
         TypeOK, OwnerInv, SettledInv, LifeInv, NEW t \in Supervisors, Supervise(t)
  PROVE  LifeInv' /\ [Life!Next]_(Life!vars)
<1>1. CASE Unwind(t)
  <2>1. /\ call[o].at = "joining" /\ runTask = None /\ o \notin Supervisors
        /\ UNCHANGED <<state, stopping, sockets>>
        /\ call' = [call EXCEPT ![t] = NoCall]
        /\ runTask' = None
    BY <1>1, TasksAreDistinct DEF Unwind, OwnerInv, TypeOK, Calls, Deregister, Done
  <2>2. stopping /\ stopping'
    BY <2>1 DEF LifeInv
  <2>3. LifeInv'
    BY <2>1, <2>2 DEF LifeInv
  <2> QED BY <2>1, <2>2, <2>3 DEF Life!vars
<1>2. CASE ~Unwind(t)
  <2>1. /\ ~Done(t) /\ t \notin cancelled /\ call[t] = NoCall
        /\ UNCHANGED <<stopping, cancelled, call>>
    BY <1>2, RunningHasNoCall
  <2>2. Alone(t) /\ NothingLeaks
    BY <2>1, RunningIsAlone
  <2>3. runTask = t /\ runTask # None /\ \A u \in Supervisors \ {t} : Done(u)
    BY <2>2, TasksAreDistinct DEF Alone
  <2>4. CASE stopping
    <3>1. /\ pc[t] \in WindingDown \ Ended
          /\ \A a \in Callers \cup Supervisors : call[a].at \notin {"joining", "closing"}
      <4>1. t \notin cancelled /\ pc[t] \notin Ended
        BY <2>1 DEF Done
      <4>2. \A u \in Supervisors \ {t} : call[u].at = "none"
        BY <2>2 DEF Alone, OwnerInv, Done, Ended, CallbackPoints
      <4> QED BY <2>1, <2>2, <2>4, <4>1, <4>2, StoppingWindsDown DEF Alone, NoCall
    <3>2. state = "STOPPED" /\ writer = None /\ sockets = {}
      BY <2>4, <3>1 DEF SettledInv, StopSettles, StopInProgress
    <3>3. state' = "STOPPED" /\ sockets' = {}
      BY <1>2, <2>4, <3>1, <3>2 DEF WindingDown, Ended, Supervise, Running, Returns, Begin, Connect,
         ConnectFails, ConnectCrashes, Receive, ReadEnds, Closed, SleepEnds, ConnectingReturns,
         ConnectedReturns, SnapshotReturns, FailedReturns, ReconnectingReturns,
         NextAttempt, ReadOn, CloseSession, EndAttempt, Exit
    <3>4. LifeInv'
      BY <2>1, <2>4 DEF LifeInv
    <3> QED BY <2>1, <2>4, <3>2, <3>3, <3>4 DEF Life!vars
  <2>5. CASE ~stopping
    <3>1. Tells(t) /\ ~stopping'
      BY <2>1, <2>5 DEF LifeInv
    <3>2. ASSUME NEW p, pc' = [pc EXCEPT ![t] = p], runTask' = runTask, Tells(t)' PROVE LifeInv'
      <4>1. \A u \in Supervisors \ {t} : Done(u)'
        BY <2>3, <3>2 DEF Done, TypeOK
      <4> QED BY <2>1, <2>3, <3>2, <4>1 DEF LifeInv
    <3>3. pc[t] \notin Holding => writer = None /\ sockets = {}
      BY <2>2 DEF Alone, NothingLeaks
    <3> USE DEF At, TypeOK, Holding
    <3>4. ASSUME Fail(t), pc[t] \notin {"new", "onFailed", "sleeping", "onReconnecting"},
                 sockets = {}, sockets' = {}
          PROVE  LifeInv' /\ Life!Next
      <4>1. state \in {"CONNECTING", "CONNECTED"}
        BY <3>1, <3>4, <2>1 DEF Tells
      <4>2. /\ state' = "CONNECTION_FAILED" /\ runTask' = runTask
            /\ pc' = [pc EXCEPT ![t] = "onFailed"]
        BY <3>4, <4>1 DEF Fail
      <4>3. Life!Fail
        BY <2>1, <2>3, <2>5, <3>4, <4>1, <4>2 DEF Life!Fail
      <4> QED BY <3>2, <4>2, <4>3 DEF Tells, Life!Next
    <3>5. ASSUME NextAttempt(t), pc[t] \in {"new", "sleeping"}, sockets' = sockets
          PROVE  LifeInv' /\ Life!Next
      <4>1. state \in {"STOPPED", "RECONNECTING"} /\ sockets = {}
        BY <3>1, <3>3, <3>5 DEF Tells
      <4>2. /\ state' = "CONNECTING" /\ runTask' = runTask
            /\ pc' = [pc EXCEPT ![t] = "onConnecting"]
        BY <2>5, <3>5, <4>1 DEF NextAttempt, Publish
      <4>3. Life!Attempt
        BY <2>1, <2>3, <2>5, <3>5, <4>1, <4>2 DEF Life!Attempt
      <4> QED BY <3>2, <4>2, <4>3 DEF Tells, Life!Next
    <3>6. ASSUME ReadOn(t), pc[t] \in Holding
          PROVE  LifeInv' /\ UNCHANGED Life!vars
      <4>1. UNCHANGED <<state, runTask, sockets>> /\ pc' = [pc EXCEPT ![t] = "reading"]
        BY <2>5, <3>6 DEF ReadOn
      <4> QED BY <2>1, <3>1, <3>2, <3>6, <4>1 DEF Tells, Life!vars
    <3>7. ASSUME NEW p, At(t, p), UNCHANGED <<state, runTask, sockets>>,
                 \/ pc[t] = "onConnecting" /\ p = "connecting"
                 \/ pc[t] = "onReconnecting" /\ p = "sleeping"
                 \/ pc[t] \in Holding /\ p \in Holding
          PROVE  LifeInv' /\ UNCHANGED Life!vars
      <4>1. Tells(t)'
        BY <3>1, <3>7 DEF Tells
      <4> QED BY <2>1, <3>2, <3>7, <4>1 DEF Life!vars
    <3>8. CASE Begin(t) \/ SleepEnds(t)
      BY <3>5, <3>8 DEF Begin, SleepEnds, Running
    <3>9. CASE ConnectFails(t) \/ Closed(t)
      BY <2>5, <3>3, <3>4, <3>9 DEF ConnectFails, Closed, Running, EndAttempt
    <3>10. CASE Connect(t)
      <4>1. state = "CONNECTING" /\ sockets = {}
        BY <3>1, <3>3, <3>10 DEF Connect, Running, Tells
      <4>2. /\ state' = "CONNECTED" /\ sockets' # {} /\ runTask' = runTask
            /\ pc' = [pc EXCEPT ![t] = "onConnected"]
        BY <3>10, <4>1 DEF Connect, Publish
      <4>3. Life!Establish
        BY <2>1, <2>3, <2>5, <4>1, <4>2 DEF Life!Establish
      <4> QED BY <3>2, <4>2, <4>3 DEF Tells, Life!Next
    <3>11. CASE ReadEnds(t)
      <4>1. pc[t] = "reading" /\ CloseSession(t)
        BY <3>11 DEF ReadEnds, Running
      <4>2. CASE writer = None
        BY <2>2, <2>5, <3>4, <4>1, <4>2 DEF CloseSession, EndAttempt, NothingLeaks
      <4>3. CASE writer # None
        <5>1. /\ sockets = {writer} /\ sockets' = {} /\ UNCHANGED <<state, runTask>>
              /\ pc' = [pc EXCEPT ![t] = "closing"]
          BY <2>2, <4>1, <4>3 DEF CloseSession, NothingLeaks
        <5>2. Life!Drop
          BY <2>1, <5>1 DEF Life!Drop
        <5> QED BY <3>1, <3>2, <4>1, <5>1, <5>2 DEF Tells, Life!Next
      <4> QED BY <4>2, <4>3
    <3>12. CASE Receive(t)
      <4>1. /\ pc[t] = "reading"
            /\ \/ ReadOn(t)
               \/ At(t, "onSnapshot") /\ UNCHANGED <<state, runTask, sockets>>
        BY <3>12 DEF Receive, Running
      <4> QED BY <3>6, <3>7, <4>1
    <3>13. CASE SnapshotReturns(t)
      <4>1. /\ pc[t] = "onSnapshot"
            /\ \/ ReadOn(t)
               \/ UNCHANGED <<state, pc, runTask, sockets>>
        BY <3>13 DEF SnapshotReturns, Returns, Running
      <4>2. pc' = pc => At(t, "onSnapshot")
        BY <4>1
      <4> QED BY <3>6, <3>7, <4>1, <4>2
    <3>14. CASE ConnectingReturns(t) \/ ReconnectingReturns(t)
      BY <3>7, <3>14 DEF ConnectingReturns, ReconnectingReturns, Returns, Running
    <3>15. CASE ConnectedReturns(t)
      BY <3>6, <3>15 DEF ConnectedReturns, Returns, Running
    <3>16. CASE FailedReturns(t)
      <4>1. state = "CONNECTION_FAILED" /\ sockets = {} /\ sockets' = {}
        BY <3>1, <3>3, <3>16 DEF FailedReturns, Returns, Running, Tells
      <4>2. /\ state' = "RECONNECTING" /\ runTask' = runTask
            /\ pc' = [pc EXCEPT ![t] = "onReconnecting"]
        BY <3>16, <4>1 DEF FailedReturns, Retry, Publish
      <4>3. Life!Retry
        BY <2>1, <2>3, <2>5, <4>1, <4>2 DEF Life!Retry
      <4> QED BY <3>2, <4>2, <4>3 DEF Tells, Life!Next
    <3>17. ~ConnectCrashes(t)
      BY DEF ConnectCrashes
    <3> QED
      BY <1>2, <3>8, <3>9, <3>10, <3>11, <3>12, <3>13, <3>14, <3>15, <3>16, <3>17 DEF Supervise
  <2> QED BY <2>4, <2>5
<1> QED BY <1>1, <1>2

\* So does every step of a call.
LEMMA LifeCall ==
  ASSUME NEW o, Callers = {o}, ReentrantStops \cap {"onConnecting", "onFailed"} = {},
         TypeOK, OwnerInv, SettledInv, LifeInv, NEW a \in Callers \cup Supervisors,
         \/ a \in Starters /\ StartCall(a)
         \/ a \in Stoppers /\ StopCall(a)
         \/ a \in Supervisors /\ StopFromCallback(a)
         \/ Proceed(a)
  PROVE  LifeInv' /\ [Life!Next]_(Life!vars)
<1>0. o \notin Supervisors /\ None \notin Supervisors /\ Starters \cup Stoppers = {o}
  BY TasksAreDistinct DEF Callers
<1> USE DEF TypeOK
<1>1. ASSUME Launch(o), UNCHANGED <<state, sockets>>, \A t \in Supervisors : Done(t),
             call[o].at \in {"none", "waiting"}, call'[o].at = "none"
      PROVE  LifeInv' /\ Life!Next
  <2>1. \A u \in Supervisors : call[u].at = "none"
    BY <1>1 DEF OwnerInv, Done, Ended, CallbackPoints
  <2>2. runTask = None /\ writer = None /\ sockets = {}
    BY <1>1 DEF OwnerInv, RegisteredIsLive, NothingLeaks
  <2>3. ~StopInProgress
    BY <1>1, <2>1 DEF StopInProgress
  <2>4. state = "STOPPED"
    BY <2>2, <2>3 DEF SettledInv, StopSettles, LifeInv
  <2> PICK t \in Supervisors : /\ stopping' = FALSE /\ runTask' = t
                               /\ pc' = [pc EXCEPT ![t] = "new"]
    BY <1>1 DEF Launch, At
  <2>5. Life!Start
    BY <1>0, <1>1, <2>2, <2>4 DEF Life!Start
  <2>6. \A u \in Supervisors : ~Done(u)' => Tells(u)'
    BY <1>1, <2>4 DEF Done, Tells
  <2> QED BY <1>0, <1>1, <2>5, <2>6 DEF LifeInv, Life!Next
<1>2. CASE a \in Starters /\ StartCall(a)
  <2>1. a = o /\ call[o] = NoCall /\ state' = state /\ sockets' = sockets
    BY <1>0, <1>2 DEF StartCall
  <2>2. CASE runTask = None
    <3>1. \A t \in Supervisors : Done(t)
      <4>1. \A t \in Supervisors : ~Done(t) => runTask = t
        BY <2>1 DEF OwnerInv, NoCall
      <4> QED BY <1>0, <2>2, <4>1
    <3>2. Launch(o) /\ call' = call
      BY <1>2, <2>1, <2>2 DEF StartCall
    <3> QED BY <1>1, <2>1, <3>1, <3>2 DEF NoCall
  <2>3. CASE runTask # None
    <3>1. /\ stopping /\ UNCHANGED <<stopping, runTask>>
          /\ call'[o].at = "waiting"
      BY <1>0, <1>2, <2>1, <2>3 DEF StartCall
    <3>2. LifeInv'
      BY <3>1 DEF LifeInv
    <3> QED BY <2>1, <3>1, <3>2 DEF Life!vars
  <2> QED BY <2>2, <2>3
<1>3. ASSUME NEW b \in Callers \cup Supervisors, CloseForStop(b), stopping', runTask' = runTask
      PROVE  LifeInv' /\ [Life!Next]_(Life!vars)
  <2>1. LifeInv'
    BY <1>3 DEF LifeInv
  <2>2. sockets' = {}
    BY <1>3 DEF CloseForStop, OwnerInv, NothingLeaks
  <2>3. CASE writer = None
    <3>1. state' = "STOPPED" /\ sockets = {}
      BY <1>3, <2>3 DEF CloseForStop, OwnerInv, NothingLeaks
    <3>2. Life!Halt
      BY <1>3, <2>2, <3>1 DEF Life!Halt
    <3> QED BY <2>1, <3>2 DEF Life!Next
  <2>4. CASE writer # None
    <3>1. state' = state /\ sockets # {}
      BY <1>3, <2>4 DEF CloseForStop, OwnerInv, NothingLeaks
    <3>2. Life!Drop
      BY <1>3, <2>2, <3>1 DEF Life!Drop
    <3> QED BY <2>1, <3>2 DEF Life!Next
  <2> QED BY <2>3, <2>4
<1>4. ASSUME StopCall(a) PROVE LifeInv' /\ [Life!Next]_(Life!vars)
  <2>1. stopping'
    BY <1>4 DEF StopCall
  <2>2. CASE runTask \in {None, a}
    BY <1>3, <1>4, <2>1, <2>2 DEF StopCall
  <2>3. CASE runTask \notin {None, a}
    <3>1. runTask' = None /\ UNCHANGED <<state, sockets>>
      BY <1>4, <2>3 DEF StopCall
    <3>2. LifeInv'
      BY <2>1 DEF LifeInv
    <3>3. CASE stopping
      BY <2>1, <3>1, <3>2, <3>3 DEF Life!vars
    <3>4. CASE ~stopping
      <4>1. Life!Stop
        BY <2>1, <2>3, <3>1, <3>4 DEF Life!Stop
      <4> QED BY <3>2, <4>1 DEF Life!Next
    <3> QED BY <3>3, <3>4
  <2> QED BY <2>2, <2>3
<1>5. CASE Proceed(a) /\ StartResumes(a)
  <2>1. a = o /\ call[o].at = "waiting" /\ Done(call[o].task)
    BY <1>0, <1>5 DEF StartResumes, OwnerInv, Done, Ended
  <2>2. \A t \in Supervisors : Done(t)
    <3>1. runTask \in {None, call[o].task} /\ \A t \in Supervisors : ~Done(t) => runTask = t
      BY <2>1 DEF OwnerInv
    <3> QED BY <1>0, <2>1, <3>1
  <2>3. Launch(o) /\ UNCHANGED <<state, sockets>> /\ call'[o].at = "none"
    BY <1>5, <2>1 DEF StartResumes, NoCall
  <2> QED BY <1>1, <2>1, <2>2, <2>3
<1>6. CASE StopJoins(a)
  <2>1. a = o /\ call[o].at = "joining"
    BY <1>0, <1>6 DEF StopJoins, OwnerInv
  <2>2. stopping' /\ runTask' = runTask /\ CloseForStop(a)
    BY <1>6, <2>1 DEF StopJoins, LifeInv
  <2> QED BY <1>3, <2>2
<1>7. CASE StopEnds(a)
  <2>1. call[a].at = "closing" /\ state' = "STOPPED" /\ UNCHANGED <<stopping, runTask, sockets>>
    BY <1>7 DEF StopEnds
  <2>2. stopping /\ sockets = {}
    <3>1. CASE a = o
      BY <2>1, <3>1 DEF OwnerInv, NothingLeaks, LifeInv
    <3>2. CASE a \in Supervisors
      BY <2>1, <3>2 DEF OwnerInv, NothingLeaks, SettledInv
    <3> QED BY <3>1, <3>2
  <2>3. Life!Halt
    BY <2>1, <2>2 DEF Life!Halt
  <2>4. LifeInv'
    BY <2>1, <2>2 DEF LifeInv
  <2> QED BY <2>3, <2>4 DEF Life!Next
<1>8. CASE AwaitRaises(a)
  <2>1. /\ call' = [call EXCEPT ![a] = NoCall]
        /\ UNCHANGED <<state, stopping, runTask, sockets, pc>>
    BY <1>8 DEF AwaitRaises
  <2>2. \A b \in Callers : call'[b].at \in {"joining", "closing"} => call[b].at \in {"joining", "closing"}
    BY <2>1 DEF NoCall
  <2>3. LifeInv'
    BY <2>1, <2>2 DEF LifeInv, Done, Tells
  <2> QED BY <2>1, <2>3 DEF Life!vars
<1> QED
  BY <1>2, <1>4, <1>5, <1>6, <1>7, <1>8 DEF Proceed, StopFromCallback

\* A client with a single owner, whose listener does not stop it from those two
\* callbacks, is a ConnectionLifecycle: the states are published in its order, a
\* connection is open only between CONNECTED and its end, and a new life begins from
\* a clean stop only.  (A connect that raises what _run does not expect ends a
\* supervisor in the state CONNECTING.)
THEOREM SingleOwnerLives ==
  ASSUME NEW o, Callers = {o}, ReentrantStops \cap {"onConnecting", "onFailed"} = {},
         "crashed" \notin ConnectOutcomes
  PROVE  Spec => LifeSafety
<1>1. Init => LifeInv /\ Life!Init
  BY DEF Init, LifeInv, Life!Init, NoCall, Done, Ended
<1>2. TypeOK /\ OwnerInv /\ SettledInv /\ LifeInv /\ [Next]_vars
        => LifeInv' /\ [Life!Next]_(Life!vars)
  <2> SUFFICES ASSUME TypeOK, OwnerInv, SettledInv, LifeInv, [Next]_vars
               PROVE  LifeInv' /\ [Life!Next]_(Life!vars)
    OBVIOUS
  <2>1. CASE UNCHANGED vars
    BY <2>1 DEF vars, LifeInv, Done, Tells, Life!vars
  <2>2. ASSUME NEW t \in Supervisors, Supervise(t) PROVE LifeInv' /\ [Life!Next]_(Life!vars)
    BY <2>2, LifeSupervise
  <2>3. ASSUME NEW a \in Callers \cup Supervisors,
               \/ a \in Starters /\ StartCall(a)
               \/ a \in Stoppers /\ StopCall(a)
               \/ a \in Supervisors /\ StopFromCallback(a)
               \/ Proceed(a)
        PROVE  LifeInv' /\ [Life!Next]_(Life!vars)
    BY <2>3, LifeCall
  <2> QED
    BY <2>1, <2>2, <2>3 DEF Next, Callers
<1> QED
  BY <1>1, <1>2, ClientTypeOK, SingleOwnerInv, SingleOwnerSettledInv, PTL DEF Spec, LifeSafety
=======================================================================================
