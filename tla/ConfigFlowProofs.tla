-------------------------- MODULE ConfigFlowProofs --------------------------
(***************************************************************************)
(* Theorems about ConfigFlow, for any number of flows, targets, and every  *)
(* deadline and lateness of the loop.                                      *)
(***************************************************************************)
EXTENDS ConfigFlow, TLAPS

\* What FlowInv says of one flow.
Sound(f) ==
  /\ waited[f] <= age[f]
  /\ ~Alive(f) => client[f] = "idle"
  /\ stage[f] # "form" => target[f] \in Targets
  /\ stage[f] \in {"ending", "closing"} /\ verdict[f] = "validated" => received[f]
  /\ attempts[f] > 1 => age[f] >= 4 * Deadline

\* A step that changes one flow, creates no entry and leaves that flow sound keeps
\* the invariant.
LEMMA OneFlowMoves ==
  ASSUME FlowInv, TypeOK', NEW f \in Flows, Sound(f)', entries' = entries,
         stage[f] # "created",
         \A g \in Flows \ {f} :
           /\ stage'[g] = stage[g] /\ target'[g] = target[g] /\ client'[g] = client[g]
           /\ attempts'[g] = attempts[g] /\ age'[g] = age[g] /\ waited'[g] = waited[g]
           /\ received'[g] = received[g] /\ verdict'[g] = verdict[g]
  PROVE  FlowInv'
<1>1. \A g \in Flows : Sound(g)'
  BY DEF FlowInv, Sound, Alive, OneAttempt
<1>2. \A e \in entries : e.flow \in Flows \ {f}
  BY DEF FlowInv, TypeOK
<1>3. EntriesAreValidated' /\ \A e \in entries' : stage'[e.flow] = "created"
  BY <1>2 DEF FlowInv, EntriesAreValidated
<1> QED
  BY <1>1, <1>3 DEF FlowInv, Sound, OneAttempt

\* The client of a flow moves on.
LEMMA ClientKeepsFlowInv ==
  ASSUME FlowInv, NEW f \in Flows, ClientStep(f)
  PROVE  FlowInv'
<1> USE TimesAreCounts
<1>1. Alive(f) /\ stage[f] # "created" /\ entries' = entries /\ stage' = stage
  BY DEF ClientStep, Connects, Fails, Dies, Snapshot, Retry, Alive
<1> DEFINE Others == \A g \in Flows \ {f} :
          /\ stage'[g] = stage[g] /\ target'[g] = target[g] /\ client'[g] = client[g]
          /\ attempts'[g] = attempts[g] /\ age'[g] = age[g] /\ waited'[g] = waited[g]
          /\ received'[g] = received[g] /\ verdict'[g] = verdict[g]
<1> USE DEF FlowInv, TypeOK, Alive, link, clocks
<1>2. CASE Connects(f)
  <2>1. TypeOK'
    BY <1>2 DEF Connects
  <2>2. Sound(f)'
    BY <1>2 DEF Connects, Sound, OneAttempt
  <2>3. Others
    BY <1>2 DEF Connects
  <2> HIDE DEF FlowInv, TypeOK
  <2> QED
    BY <1>1, <2>1, <2>2, <2>3, OneFlowMoves
<1>3. CASE Fails(f)
  <2>1. TypeOK'
    BY <1>3 DEF Fails
  <2>2. Sound(f)'
    BY <1>3 DEF Fails, Sound, OneAttempt
  <2>3. Others
    BY <1>3 DEF Fails
  <2> HIDE DEF FlowInv, TypeOK
  <2> QED
    BY <1>1, <2>1, <2>2, <2>3, OneFlowMoves
<1>4. CASE Dies(f)
  <2>1. TypeOK'
    BY <1>4 DEF Dies
  <2>2. Sound(f)'
    BY <1>4 DEF Dies, Sound, OneAttempt
  <2>3. Others
    BY <1>4 DEF Dies
  <2> HIDE DEF FlowInv, TypeOK
  <2> QED
    BY <1>1, <2>1, <2>2, <2>3, OneFlowMoves
<1>5. CASE Snapshot(f)
  <2>1. TypeOK'
    BY <1>5 DEF Snapshot
  <2>2. Sound(f)'
    BY <1>5 DEF Snapshot, Sound, OneAttempt
  <2>3. Others
    BY <1>5 DEF Snapshot
  <2> HIDE DEF FlowInv, TypeOK
  <2> QED
    BY <1>1, <2>1, <2>2, <2>3, OneFlowMoves
<1>6. CASE Retry(f)
  <2>1. TypeOK'
    BY <1>6 DEF Retry
  <2>2. Sound(f)'
    BY <1>6 DEF Retry, Sound, OneAttempt, RetryDelay
  <2>3. Others
    BY <1>6 DEF Retry
  <2> HIDE DEF FlowInv, TypeOK
  <2> QED
    BY <1>1, <2>1, <2>2, <2>3, OneFlowMoves
<1> QED
  BY <1>2, <1>3, <1>4, <1>5, <1>6 DEF ClientStep

\* The flow itself moves on, without an entry.
LEMMA FlowKeepsFlowInv ==
  ASSUME FlowInv, NEW f \in Flows, entries' = entries,
         \/ \E t \in Targets : Submit(f, t)
         \/ Decide(f) \/ Expire(f) \/ StopClient(f) \/ Answer(f)
  PROVE  FlowInv'
<1> USE TimesAreCounts DEF link, clocks, Conclude
<1>1. stage[f] # "created"
  BY DEF Submit, Decide, Expire, StopClient, Answer
<1>2. TypeOK'
  <2>1. CASE \E t \in Targets : Submit(f, t)
    <3>1. PICK t \in Targets : Submit(f, t)
      BY <2>1
    <3>2. CASE t \in Configured
      BY <3>1, <3>2 DEF FlowInv, TypeOK, Submit
    <3>3. CASE t \notin Configured
      <4>1. /\ stage' \in [Flows -> {"form", "validating", "ending", "closing", "created", "aborted"}]
            /\ client' \in [Flows -> {"idle", "connecting", "connected", "waiting", "dead"}]
            /\ target' \in [Flows -> Targets \cup {None}]
        BY <3>1, <3>3 DEF FlowInv, TypeOK, Submit
      <4>2. attempts' \in [Flows -> Nat] /\ age' \in [Flows -> Nat] /\ waited' \in [Flows -> Nat]
        BY <3>1, <3>3 DEF FlowInv, TypeOK, Submit
      <4>3. received' \in [Flows -> BOOLEAN] /\ failed' \in [Flows -> BOOLEAN]
        BY <3>1, <3>3 DEF FlowInv, TypeOK, Submit
      <4>4. verdict' \in [Flows -> {None, "validated", "cannot_connect", "no_status_received"}]
        BY <3>1, <3>3 DEF FlowInv, TypeOK, Submit
      <4>5. entries' \subseteq [flow : Flows, target : Targets]
        BY DEF FlowInv, TypeOK
      <4> QED
        BY <4>1, <4>2, <4>3, <4>4, <4>5 DEF TypeOK
    <3> QED
      BY <3>2, <3>3
  <2>2. CASE Decide(f) \/ Expire(f) \/ StopClient(f) \/ Answer(f)
    <3>1. CASE Decide(f) \/ Expire(f)
      BY <2>2, <3>1 DEF FlowInv, TypeOK, Decide, Expire
    <3>2. CASE StopClient(f) \/ Answer(f)
      BY <2>2, <3>2 DEF FlowInv, TypeOK, StopClient, Answer
    <3> QED
      BY <2>2, <3>1, <3>2
  <2> QED
    BY <2>1, <2>2
<1>3. Sound(f)'
  <2>1. CASE \E t \in Targets : Submit(f, t)
    BY <2>1 DEF FlowInv, TypeOK, OneAttempt, Sound, Submit, Alive
  <2>2. CASE Decide(f) \/ Expire(f)
    BY <2>2 DEF FlowInv, TypeOK, OneAttempt, Sound, Decide, Expire, Alive
  <2>3. CASE StopClient(f) \/ Answer(f)
    BY <2>3 DEF FlowInv, TypeOK, OneAttempt, Sound, StopClient, Answer, Alive
  <2> QED
    BY <2>1, <2>2, <2>3
<1>4. \A g \in Flows \ {f} :
        /\ stage'[g] = stage[g] /\ target'[g] = target[g] /\ client'[g] = client[g]
        /\ attempts'[g] = attempts[g] /\ age'[g] = age[g] /\ waited'[g] = waited[g]
        /\ received'[g] = received[g] /\ verdict'[g] = verdict[g]
  <2>1. CASE \E t \in Targets : Submit(f, t)
    BY <2>1 DEF FlowInv, TypeOK, Submit
  <2>2. CASE Decide(f) \/ Expire(f) \/ StopClient(f) \/ Answer(f)
    BY <2>2 DEF FlowInv, TypeOK, Decide, Expire, StopClient, Answer
  <2> QED
    BY <2>1, <2>2
<1> QED
  BY <1>1, <1>2, <1>3, <1>4, OneFlowMoves

\* An entry is created for the target whose module answered.
LEMMA CreationKeepsFlowInv ==
  ASSUME FlowInv, NEW f \in Flows, Answer(f), verdict[f] = "validated"
  PROVE  FlowInv'
<1> DEFINE entry == [flow |-> f, target |-> target[f]]
<1>1. /\ stage[f] = "closing" /\ stage' = [stage EXCEPT ![f] = "created"]
      /\ entries' = entries \cup {entry}
      /\ target' = target /\ client' = client /\ attempts' = attempts /\ age' = age
      /\ waited' = waited /\ received' = received /\ failed' = failed /\ verdict' = verdict
  BY DEF Answer, link, clocks
<1>2. received[f] /\ target[f] \in Targets /\ client[f] = "idle"
  BY <1>1 DEF FlowInv, Alive
<1>3. entry \in [flow : Flows, target : Targets] /\ entry.flow = f /\ entry.target = target[f]
  BY <1>2
<1> HIDE DEF entry
<1>4. TypeOK'
  BY <1>1, <1>3 DEF FlowInv, TypeOK
<1>5. EntriesAreValidated'
  BY <1>1, <1>2, <1>3 DEF FlowInv, EntriesAreValidated
<1>6. \A e \in entries' : stage'[e.flow] = "created"
  BY <1>1, <1>3 DEF FlowInv, TypeOK
<1>7. OneAttempt'
  BY <1>1 DEF FlowInv, OneAttempt
<1>8. \A g \in Flows :
        /\ waited'[g] <= age'[g]
        /\ ~Alive(g)' => client'[g] = "idle"
        /\ stage'[g] # "form" => target'[g] \in Targets
        /\ stage'[g] \in {"ending", "closing"} /\ verdict'[g] = "validated" => received'[g]
  BY <1>1, <1>2 DEF FlowInv, TypeOK, Alive
<1> QED
  BY <1>4, <1>5, <1>6, <1>7, <1>8 DEF FlowInv

\* Time passes.
LEMMA TickKeepsFlowInv == ASSUME FlowInv, Tick PROVE FlowInv'
<1> USE TimesAreCounts
<1>1. /\ stage' = stage /\ target' = target /\ client' = client /\ attempts' = attempts
      /\ received' = received /\ failed' = failed /\ verdict' = verdict /\ entries' = entries
  BY DEF Tick, link
<1>2. TypeOK'
  BY <1>1 DEF FlowInv, TypeOK, Tick
<1>3. \A f \in Flows : age'[f] >= age[f] /\ age'[f] \in Nat /\ waited'[f] <= age'[f]
  BY DEF FlowInv, TypeOK, Tick
<1>4. OneAttempt'
  BY <1>1, <1>3 DEF FlowInv, TypeOK, OneAttempt
<1>5. EntriesAreValidated'
  BY <1>1 DEF FlowInv, EntriesAreValidated
<1> QED
  BY <1>1, <1>2, <1>3, <1>4, <1>5 DEF FlowInv, Alive

\* The stages of every flow, its client, its clocks and the entries agree.
THEOREM FlowInvariant == Spec => []FlowInv
<1>1. Init => FlowInv
  BY TimesAreCounts DEF Init, FlowInv, TypeOK, OneAttempt, EntriesAreValidated, Alive
<1>2. FlowInv /\ [Next]_vars => FlowInv'
  <2> SUFFICES ASSUME FlowInv, [Next]_vars PROVE FlowInv'
    OBVIOUS
  <2>1. CASE UNCHANGED vars
    BY <2>1 DEF vars, FlowInv, TypeOK, OneAttempt, EntriesAreValidated, Alive
  <2>2. CASE Tick
    BY <2>2, TickKeepsFlowInv
  <2>3. ASSUME NEW f \in Flows, ClientStep(f) PROVE FlowInv'
    BY <2>3, ClientKeepsFlowInv
  <2>4. ASSUME NEW f \in Flows, NEW t \in Targets, Submit(f, t) PROVE FlowInv'
    <3>1. entries' = entries
      BY <2>4 DEF Submit
    <3> QED
      BY <2>4, <3>1, FlowKeepsFlowInv
  <2>5. ASSUME NEW f \in Flows, Proceed(f) PROVE FlowInv'
    <3>1. CASE Answer(f) /\ verdict[f] = "validated"
      BY <3>1, CreationKeepsFlowInv
    <3>2. CASE ~(Answer(f) /\ verdict[f] = "validated")
      <4>1. entries' = entries
        BY <2>5, <3>2 DEF Proceed, Decide, Expire, StopClient, Answer, Conclude
      <4> QED
        BY <2>5, <4>1, FlowKeepsFlowInv DEF Proceed
    <3> QED
      BY <3>1, <3>2
  <2> QED
    BY <2>1, <2>2, <2>3, <2>4, <2>5 DEF Next
<1> QED
  BY <1>1, <1>2, PTL DEF Spec

\* A validation begins a second attempt only if the loop is late by three
\* deadlines or more.
THEOREM ValidationsTryOnce == Spec => []OneAttempt
<1>1. FlowInv => OneAttempt
  BY DEF FlowInv
<1> QED
  BY <1>1, FlowInvariant, PTL

\* No client is left once a flow has answered, however the validation ended.
THEOREM ClientsEndWithTheFlow == Spec => []NothingSurvives
<1>1. FlowInv => NothingSurvives
  BY DEF FlowInv, NothingSurvives, Alive
<1> QED
  BY <1>1, FlowInvariant, PTL

\* Every entry stands for a module that has sent a valid frame to its own flow.
THEOREM EntriesStandForModules == Spec => []EntriesAreValidated
<1>1. FlowInv => EntriesAreValidated
  BY DEF FlowInv
<1> QED
  BY <1>1, FlowInvariant, PTL
=============================================================================
