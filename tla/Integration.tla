--------------------------------- MODULE Integration ---------------------------------
(***************************************************************************)
(* The life of one config entry (__init__.py): Home Assistant sets it up,   *)
(* unloads it and stops, and drives a coordinator (Coordinator) and its     *)
(* client (TcpClient), whose callbacks are the coordinator's handlers.      *)
(*                                                                         *)
(* The handlers do not suspend, so what a step of the client publishes is   *)
(* handled in that step, and no other task runs until the callback returns. *)
(* A reload is an unload and the life of a new entry, with a coordinator    *)
(* and a client of its own.                                                 *)
(***************************************************************************)
EXTENDS Coordinator

CONSTANTS Manager,  \* the task of Home Assistant that sets the entry up and unloads it
          Halter,   \* the task that runs the listener of EVENT_HOMEASSISTANT_STOP
          Supervisors, Sockets, None, ConnectOutcomes, FramesPerChunk  \* see TcpClient

ASSUME EntryTasks == /\ Manager # Halter
                     /\ {Manager, Halter} \cap Supervisors = {}
                     /\ None \notin {Manager, Halter} \cup Supervisors \cup Sockets

VARIABLES entry,      \* how far the life of the entry has come
          listening,  \* the stop listener is registered
          halting     \* what became of the one stop event and of its listener

VARIABLES state, stopping, runTask, writer, openSession, sockets,
          pc, pending, cancelled, call  \* see TcpClient

Client == INSTANCE TcpClient WITH Starters <- {Manager},
                                  Stoppers <- {Manager, Halter},
                                  ReentrantStops <- {}

entryVars == <<entry, listening, halting>>
clientVars == <<state, stopping, runTask, writer, openSession, sockets,
                pc, pending, cancelled, call>>
allVars == <<vars, clientVars, entryVars>>

InitEntry == /\ Init /\ Client!Init
             /\ entry = "not_loaded"
             /\ listening = FALSE
             /\ halting = "no"

---------------------------------------------------------------------------------------
(* The client's callbacks, which are the coordinator's handlers. *)

Published == state' # state

\* Supervisor t gives the next frame of its chunk to the snapshot callback.
Framed(t) == pc'[t] = "onSnapshot" /\ (pc[t] = "reading" \/ pending'[t] # pending[t])

\* The guard of both handlers is set.
Ignored == shuttingDown /\ UNCHANGED vars

\* What this step of the client publishes is handled.
Handled ==
    IF Published THEN HandleConnectionEvent(state') \/ Ignored
    ELSE IF \E t \in Supervisors : Framed(t)
         THEN Ignored \/ \E reading \in Readings : HandleSnapshot(reading)
         ELSE UNCHANGED vars

\* No callback is running: the loop may turn to another task.
Idle == \A t \in Supervisors : pc[t] \notin Client!CallbackPoints

RunClient == /\ \/ \E t \in Supervisors : Client!Supervise(t)
                \/ Idle /\ \E a \in {Manager, Halter} : Client!Proceed(a)
             /\ Handled
             /\ UNCHANGED entryVars

\* The loop runs the stale timer, or an entity is asked to write its state.
RunLoop == /\ Idle
           /\ \/ \E left \in timers : Recheck(left) \/ Expire(left)
              \/ UpdateEntity
              \/ Tick
           /\ UNCHANGED <<clientVars, entryVars>>

---------------------------------------------------------------------------------------
(* Set-up *)

\* async_setup_entry up to the forwarding of the platforms: the client starts, and
\* the stop listener is registered.
SetUp == /\ Idle /\ entry = "not_loaded"
         /\ Client!StartCall(Manager)
         /\ entry' = "forwarding"
         /\ listening' = TRUE
         /\ UNCHANGED <<vars, halting>>

\* The platforms are set up.
Forwarded == /\ Idle /\ entry = "forwarding"
             /\ AddEntities
             /\ entry' = "loaded"
             /\ UNCHANGED <<clientVars, listening, halting>>

\* One of them is not: nothing stops the client.  (Home Assistant may or may not
\* drop what was registered with async_on_unload.)
ForwardFails == /\ Idle /\ entry = "forwarding"
                /\ AddEntities \/ UNCHANGED vars
                /\ entry' = "failed"
                /\ listening' \in {listening, FALSE}
                /\ UNCHANGED <<clientVars, halting>>

---------------------------------------------------------------------------------------
(* async_shutdown and unload *)

\* Slip: the guard is not set before the client's stop() is awaited.
StopFirstSlip(a) == Client!StopCall(a) /\ Handled

\* async_shutdown, called by task a, up to its first await.
BeginShutdown(a) == Shutdown /\ Client!StopCall(a)

\* Slip: the coordinator is shut down before the platforms are unloaded.
ShutdownFirstSlip == /\ Idle /\ entry = "loaded"
                     /\ BeginShutdown(Manager)
                     /\ entry' = "unloading"
                     /\ UNCHANGED <<listening, halting>>

\* async_unload_entry up to its first await.
Unload == /\ Idle /\ entry = "loaded"
          /\ entry' = "unloading"
          /\ UNCHANGED <<vars, clientVars, listening, halting>>

\* A platform refuses to be unloaded, the other one perhaps not: nothing is shut down.
UnloadRefused == /\ Idle /\ entry = "unloading"
                 /\ RemoveEntities \/ UNCHANGED vars
                 /\ entry' = "failed_unload"
                 /\ UNCHANGED <<clientVars, listening, halting>>

\* The entities are gone, and async_unload_entry not resumed yet.
PlatformsUnloaded == /\ Idle /\ entry = "unloading"
                     /\ RemoveEntities
                     /\ entry' = "detached"
                     /\ UNCHANGED <<clientVars, listening, halting>>

ShutDown == /\ Idle /\ entry = "detached"
            /\ BeginShutdown(Manager)
            /\ entry' = "shutting"
            /\ UNCHANGED <<listening, halting>>

\* async_unload_entry returns True, and the entry drops the stop listener.
Unloaded == /\ Idle /\ entry = "shutting" /\ call[Manager] = Client!NoCall
            /\ entry' = "unloaded"
            /\ listening' = FALSE
            /\ UNCHANGED <<vars, clientVars, halting>>

---------------------------------------------------------------------------------------
(* EVENT_HOMEASSISTANT_STOP *)

\* The one stop event reaches the listener, if it is registered, and removes it.
StopEvent == /\ Idle /\ halting = "no"
             /\ halting' = IF listening THEN "scheduled" ELSE "missed"
             /\ listening' = FALSE
             /\ UNCHANGED <<vars, clientVars, entry>>

\* _async_shutdown_on_ha_stop runs, at once or after whatever else the loop had to do.
Halt == /\ Idle /\ halting = "scheduled"
        /\ BeginShutdown(Halter)
        /\ halting' = "running"
        /\ UNCHANGED <<entry, listening>>

Halted == /\ Idle /\ halting = "running" /\ call[Halter] = Client!NoCall
          /\ halting' = "done"
          /\ UNCHANGED <<vars, clientVars, entry, listening>>

NextEntry == \/ SetUp \/ Forwarded \/ ForwardFails
             \/ Unload \/ UnloadRefused \/ PlatformsUnloaded \/ ShutDown \/ Unloaded
             \/ StopEvent \/ Halt \/ Halted
             \/ RunClient
             \/ RunLoop

\* The fairness of the client and of the timers; a task whose await is over runs on,
\* and one that is scheduled gets its turn between the callbacks of the client.
\* Nothing makes Home Assistant set up, unload or stop.
SpecEntry == /\ InitEntry /\ [][NextEntry]_allVars
             /\ Client!Fairness
             /\ WF_vars(Tick) /\ WF_vars(\E left \in timers : Recheck(left) \/ Expire(left))
             /\ SF_allVars(Halt) /\ WF_allVars(Unloaded) /\ WF_allVars(Halted)

---------------------------------------------------------------------------------------
(* Properties *)

\* Every variable of the entry has its type.
EntryTypeOK == /\ entry \in {"not_loaded", "forwarding", "loaded", "failed", "unloading",
                             "failed_unload", "detached", "shutting", "unloaded"}
               /\ listening \in BOOLEAN
               /\ halting \in {"no", "scheduled", "running", "done", "missed"}

\* Once the entry is unloaded the client holds no connection and will open none, even
\* where the stop of Home Assistant is still waiting for the supervisor.
UnloadedIsQuiet ==
    entry = "unloaded" => /\ sockets = {} /\ writer = None
                          /\ \A t \in Supervisors : Client!Done(t) \/ t \in cancelled

Begun == entry \in {"shutting", "unloaded"} \/ halting \in {"running", "done"}

\* Until its shutdown the client refers to a connection only while its supervisor
\* reads it; from then on nothing replaces the supervisor, which is being cancelled
\* until it is gone, and a connection outlives neither the wait for it nor a second
\* stop().  (The invariant the theorem on UnloadedIsQuiet rests on.)
Reading == /\ runTask \in Supervisors \cup {None}
           /\ runTask # None => ~Client!Done(runTask)
           /\ writer # None => /\ runTask # None
                               /\ pc[runTask] \in {"onConnected", "reading", "onSnapshot"}

Quitting ==
    /\ stopping /\ runTask = None
    /\ \A t \in Supervisors : (Client!Done(t) \/ t \in cancelled) /\ call[t] = Client!NoCall
    /\ \A a \in {Manager, Halter} :
          /\ call[a].at \in {"none", "joining", "closing"}
          /\ call[a].at = "joining" => /\ call[a].task \in Supervisors
                                       /\ pc[call[a].task] # "crashed"
    /\ entry \in {"shutting", "unloaded"} /\ call[Manager].at # "joining" => writer = None
    /\ entry = "unloaded" => call[Manager].at # "joining"

QuietInv ==
    /\ pc \in [Supervisors -> Client!Awaits]
    /\ call \in [{Manager, Halter} \cup Supervisors -> Client!Calls]
    /\ listening \/ halting \notin {"no", "missed"} => entry # "not_loaded"
    /\ sockets = {writer} \ {None}
    /\ IF Begun THEN Quitting ELSE Reading

\* From its set-up to its shutdown, whatever the platforms make of their set-up and
\* unload, the entry has a client that is trying to be connected.
LoadedIsRunning ==
    entry # "not_loaded" /\ ~Begun => /\ ~shuttingDown /\ ~stopping
                                      /\ runTask # None /\ ~Client!Done(runTask)

\* Nothing the client does while it is stopped reaches an entity, and no timer runs.
ShutdownIsUnheard == [][Begun => UNCHANGED <<data, connection, announced>> /\ timers' = {}]_vars

\* Every shutdown ends, however the two overlap, and leaves the client stopped for good.
Stopped == state = "STOPPED" /\ sockets = {} /\ \A t \in Supervisors : Client!Done(t)
ShutdownsFinish == /\ Begun ~> []Stopped
                   /\ entry = "shutting" ~> entry = "unloaded"
                   /\ halting = "scheduled" ~> halting = "done"

\* The client drives the coordinator the way Coordinator assumes, so that what is
\* proved of Coordinator holds of the whole.
CoordinatorLife == Spec
=======================================================================================
