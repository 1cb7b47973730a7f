----------------------------- MODULE ConfigFlow -----------------------------
(***************************************************************************)
(* The user's config flows (config_flow.py).  A submitted form is checked  *)
(* against the configured entries, then validated by one passive           *)
(* connection of a client of its own, and an entry is created when a valid *)
(* status frame came in time.  Several flows may be open at once; they     *)
(* interleave at every await.                                              *)
(*                                                                         *)
(* A target is a host, already trimmed and lower-cased, and a port.  The   *)
(* client is reduced to where its supervisor is: idle, connecting,         *)
(* connected, waiting for its next attempt, or dead of an exception that   *)
(* is neither an OSError nor a TimeoutError.  The loop may be late by at   *)
(* most Lag ticks.  The definitions named ...Slip are mutations of the     *)
(* definition after them; the specification uses none.                     *)
(***************************************************************************)
EXTENDS Naturals

CONSTANTS Flows,        \* the flows that are open
          Targets,      \* what the user may enter
          Deadline,     \* CONFIG_VALIDATION_TIMEOUT_SECONDS
          Lag,          \* how late the event loop may run what is due
          None

ASSUME TimesAreCounts == Deadline \in Nat \ {0} /\ Lag \in Nat
ASSUME NoneIsNothing == None \notin Targets

VARIABLES stage,        \* form, validating, ending, closing, created or aborted
          target,       \* what the flow was submitted with
          client,       \* where the supervisor of the flow's client is
          attempts,     \* connections the client has begun
          age,          \* ticks since the validation began
          waited,       \* ticks since the client's last failure
          received,     \* snapshot_received
          failed,       \* connection_failed
          verdict,      \* how _async_validate_input ended
          entries       \* the entries created, each with the flow that did

vars == <<stage, target, client, attempts, age, waited, received, failed, verdict, entries>>
link == <<client, attempts, received, failed>>
clocks == <<age, waited>>

\* The first delay of the client's own schedule.
DefaultBackoffSlip == 1

RetryDelay == 4 * Deadline

Configured == {e.target : e \in entries}

Init ==
  /\ stage = [f \in Flows |-> "form"] /\ target = [f \in Flows |-> None]
  /\ client = [f \in Flows |-> "idle"] /\ attempts = [f \in Flows |-> 0]
  /\ age = [f \in Flows |-> 0] /\ waited = [f \in Flows |-> 0]
  /\ received = [f \in Flows |-> FALSE] /\ failed = [f \in Flows |-> FALSE]
  /\ verdict = [f \in Flows |-> None]
  /\ entries = {}

----------------------------------------------------------------------------
\* async_step_user up to its first await: abort on a duplicate, or start.
Submit(f, t) ==
  /\ stage[f] = "form"
  /\ target' = [target EXCEPT ![f] = t]
  /\ IF t \in Configured
     THEN /\ stage' = [stage EXCEPT ![f] = "aborted"]
          /\ UNCHANGED <<link, clocks, verdict>>
     ELSE /\ stage' = [stage EXCEPT ![f] = "validating"]
          /\ client' = [client EXCEPT ![f] = "connecting"]
          /\ attempts' = [attempts EXCEPT ![f] = 1]
          /\ age' = [age EXCEPT ![f] = 0] /\ waited' = [waited EXCEPT ![f] = 0]
          /\ received' = [received EXCEPT ![f] = FALSE]
          /\ failed' = [failed EXCEPT ![f] = FALSE]
          /\ verdict' = [verdict EXCEPT ![f] = None]
  /\ UNCHANGED entries

\* The client moves on by itself until stop() cancels it.
Alive(f) == stage[f] \in {"validating", "ending"}

Connects(f) ==
  /\ Alive(f) /\ client[f] = "connecting"
  /\ client' = [client EXCEPT ![f] = "connected"]
  /\ UNCHANGED <<stage, target, attempts, clocks, received, failed, verdict, entries>>

\* The attempt fails, or the session ends: CONNECTION_FAILED is published.
Fails(f) ==
  /\ Alive(f) /\ client[f] \in {"connecting", "connected"}
  /\ client' = [client EXCEPT ![f] = "waiting"]
  /\ failed' = [failed EXCEPT ![f] = TRUE]
  /\ waited' = [waited EXCEPT ![f] = 0]
  /\ UNCHANGED <<stage, target, attempts, age, received, verdict, entries>>

\* The supervisor dies of an exception it does not handle; nobody is told.
Dies(f) ==
  /\ Alive(f) /\ client[f] = "connecting"
  /\ client' = [client EXCEPT ![f] = "dead"]
  /\ UNCHANGED <<stage, target, attempts, clocks, received, failed, verdict, entries>>

Snapshot(f) ==
  /\ Alive(f) /\ client[f] = "connected"
  /\ received' = [received EXCEPT ![f] = TRUE]
  /\ UNCHANGED <<stage, target, client, attempts, clocks, failed, verdict, entries>>

Retry(f) ==
  /\ Alive(f) /\ client[f] = "waiting" /\ waited[f] >= RetryDelay
  /\ client' = [client EXCEPT ![f] = "connecting"]
  /\ attempts' = [attempts EXCEPT ![f] = @ + 1]
  /\ UNCHANGED <<stage, target, clocks, received, failed, verdict, entries>>

----------------------------------------------------------------------------
Conclude(f, v) ==
  /\ stage' = [stage EXCEPT ![f] = "ending"]
  /\ verdict' = [verdict EXCEPT ![f] = v]
  /\ UNCHANGED <<target, link, clocks, entries>>

\* A connection that stands is taken for a module that answers.
ConnectedIsEnoughSlip(f) ==
  /\ stage[f] = "validating" /\ (received[f] \/ failed[f] \/ client[f] = "connected")
  /\ Conclude(f, IF client[f] = "connected" THEN "validated" ELSE "cannot_connect")

\* One of the two events has woken the flow; a snapshot outweighs a failure.
Decide(f) ==
  /\ stage[f] = "validating" /\ (received[f] \/ failed[f])
  /\ Conclude(f, IF received[f] THEN "validated" ELSE "cannot_connect")

\* The deadline bounds the reading only, not the connect.
ReadDeadlineSlip(f) ==
  /\ stage[f] = "validating" /\ age[f] >= Deadline /\ client[f] # "dead"
  /\ Conclude(f, "no_status_received")

\* The deadline passes, also in the same turn of the loop as an event.
Expire(f) ==
  /\ stage[f] = "validating" /\ age[f] >= Deadline
  /\ Conclude(f, "no_status_received")

\* The client is stopped only after a validation that succeeded.
StopOnSuccessSlip(f) ==
  /\ stage[f] = "ending"
  /\ stage' = [stage EXCEPT ![f] = "closing"]
  /\ client' = [client EXCEPT ![f] = IF verdict[f] = "validated" THEN "idle" ELSE @]
  /\ UNCHANGED <<target, attempts, clocks, received, failed, verdict, entries>>

\* finally: the waiters are gathered, then stop() cancels the supervisor.
StopClient(f) ==
  /\ stage[f] = "ending"
  /\ stage' = [stage EXCEPT ![f] = "closing"]
  /\ client' = [client EXCEPT ![f] = "idle"]
  /\ UNCHANGED <<target, attempts, clocks, received, failed, verdict, entries>>

\* stop() returns: an entry, or the form again with its error.
Answer(f) ==
  /\ stage[f] = "closing"
  /\ IF verdict[f] = "validated"
     THEN /\ stage' = [stage EXCEPT ![f] = "created"]
          /\ entries' = entries \cup {[flow |-> f, target |-> target[f]]}
     ELSE /\ stage' = [stage EXCEPT ![f] = "form"]
          /\ UNCHANGED entries
  /\ UNCHANGED <<target, link, clocks, verdict>>

\* Time passes for every client; no flow is late by more than Lag.
Busy == {f \in Flows : Alive(f)}
Tick ==
  /\ Busy # {}
  /\ \A f \in Busy : age[f] < Deadline + Lag
  /\ age' = [f \in Flows |-> IF f \in Busy THEN age[f] + 1 ELSE age[f]]
  /\ waited' = [f \in Flows |-> IF f \in Busy /\ client[f] = "waiting"
                                THEN waited[f] + 1 ELSE waited[f]]
  /\ UNCHANGED <<stage, target, link, verdict, entries>>

\* What the loop runs for a flow once it is due.
Proceed(f) == Decide(f) \/ Expire(f) \/ StopClient(f) \/ Answer(f)

ClientStep(f) == Connects(f) \/ Fails(f) \/ Dies(f) \/ Snapshot(f) \/ Retry(f)

Next ==
  \/ Tick
  \/ \E f \in Flows : Proceed(f) \/ ClientStep(f) \/ \E t \in Targets : Submit(f, t)

\* asyncio runs every task that is ready and the clock goes on; the module and
\* the user may do nothing at all.
Spec == /\ Init /\ [][Next]_vars
        /\ WF_vars(Tick) /\ \A f \in Flows : WF_vars(Proceed(f))

----------------------------------------------------------------------------
(* A type invariant of the flows.                                          *)
TypeOK ==
  /\ stage \in [Flows -> {"form", "validating", "ending", "closing", "created", "aborted"}]
  /\ client \in [Flows -> {"idle", "connecting", "connected", "waiting", "dead"}]
  /\ target \in [Flows -> Targets \cup {None}]
  /\ attempts \in [Flows -> Nat]
  /\ age \in [Flows -> Nat] /\ waited \in [Flows -> Nat]
  /\ received \in [Flows -> BOOLEAN] /\ failed \in [Flows -> BOOLEAN]
  /\ verdict \in [Flows -> {None, "validated", "cannot_connect", "no_status_received"}]
  /\ entries \subseteq [flow : Flows, target : Targets]

(* A validation makes one connection attempt: a second one is begun only   *)
(* when the loop is so late that it resumes the flow later than the client's*)
(* no-retry delay, four deadlines, after the validation began.             *)
OneAttempt == \A f \in Flows : attempts[f] > 1 => age[f] >= 4 * Deadline

(* No client outlives its validation: whatever the answer, the connection  *)
(* is gone before the user sees it.                                        *)
NothingSurvives ==
  \A f \in Flows : stage[f] \in {"form", "created", "aborted"} => client[f] = "idle"

(* Every entry stands for a target from which its own flow received a      *)
(* valid status frame; a connection alone is not enough.                   *)
EntriesAreValidated ==
  \A e \in entries : received[e.flow] /\ target[e.flow] = e.target

(* What ties the stages of a flow to its client, its clocks and its events. *)
(* (The invariant the theorems on this module rest on.)                    *)
FlowInv ==
  /\ TypeOK /\ OneAttempt /\ EntriesAreValidated
  /\ \A f \in Flows :
       /\ waited[f] <= age[f]
       /\ ~Alive(f) => client[f] = "idle"
       /\ stage[f] # "form" => target[f] \in Targets
       /\ stage[f] \in {"ending", "closing"} /\ verdict[f] = "validated" => received[f]
  /\ \A e \in entries : stage[e.flow] = "created"

(* Every submission is answered, also when the module stays silent or the  *)
(* client dies without a word.                                             *)
EverySubmissionIsAnswered ==
  \A f \in Flows : stage[f] = "validating" ~> stage[f] \in {"form", "created"}

(* What config_flow.py says of duplicates: they are detected before any    *)
(* socket is opened, so no two entries are created for one target.         *)
NoDuplicateEntry ==
  \A d, e \in entries : d.target = e.target => d.flow = e.flow
=============================================================================
