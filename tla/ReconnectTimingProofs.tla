---------------------------- MODULE ReconnectTimingProofs ----------------------------
(***************************************************************************)
(* Theorems about ReconnectTiming, for every schedule, limit and delay.     *)
(***************************************************************************)
EXTENDS ReconnectTiming, TLAPS

\* The constants are natural numbers, and the schedule has a step for every index.
LEMMA TimingConstants ==
  /\ Len(Delays) \in Nat /\ Len(Delays) > 0
  /\ \A i \in 1 .. Len(Delays) : Delays[i] \in Nat
  /\ ConnectTimeout \in Nat /\ IdleLimit \in Nat /\ IdleLimit > 0
  /\ RecycleDelay \in Nat /\ MaxLate \in Nat
BY DelaysGiven, LimitsGiven

\* The delay slept after n attempts is the one owed for n + 1 ended ones.
LEMMA DelayIsOwed ==
  ASSUME NEW index \in 0 .. Len(Delays), TypeOK, Reconnect(index), UNCHANGED idleRecycled,
         streak' = Smaller(index + 1, Len(Delays)), idleRecycled <=> (ended' = "idle")
  PROVE  /\ left' = Owed' /\ left' \in Nat
         /\ delayIndex' = streak' /\ streak' \in 1 .. Len(Delays)
<1> USE TimingConstants
<1>1. streak' \in 1 .. Len(Delays) /\ Smaller(index, Len(Delays) - 1) + 1 = streak'
  BY DEF Smaller, TypeOK, CountsOK
<1>2. Smaller(streak', Len(Delays)) = streak'
  BY <1>1 DEF Smaller
<1>3. Delays[streak'] \in Nat
  BY <1>1
<1>4. left' = IF idleRecycled THEN Larger(Delays[streak'], RecycleDelay) ELSE Delays[streak']
  BY <1>1 DEF Reconnect, Delay
<1>5. Owed' = IF ended' = "idle" THEN Larger(Delays[streak'], RecycleDelay) ELSE Delays[streak']
  BY <1>2 DEF Owed
<1> QED
  BY <1>1, <1>3, <1>4, <1>5 DEF Reconnect, Larger

\* A sleep that begins with the owed delay ahead is paced.
LEMMA SleepBegins ==
  ASSUME left' = Owed', left' \in Nat, slept' = 0
  PROVE  Paced'
<1> DEFINE owed == Owed'
<1>1. owed \in Nat /\ left' = owed
  OBVIOUS
<1>2. left' + slept' = owed /\ slept' <= owed + MaxLate
  <2> HIDE DEF owed
  <2> QED BY <1>1, TimingConstants
<1> QED
  BY <1>2 DEF Paced

\* A step keeps the invariant.
LEMMA TimingInvStep == TimingInv /\ [Next]_vars => TimingInv'
<1> SUFFICES ASSUME TimingInv, [Next]_vars PROVE TimingInv'
  OBVIOUS
<1> USE TimingConstants DEF TimingInv, TypeOK, ModesOK, CountsOK, Paced, RecycleIsEarned, SilenceIsBounded,
        ErrorsArePublished
<1>1. CASE UNCHANGED vars
  BY <1>1 DEF vars, codeVars, history, Owed
<1>2. CASE Start
  <2>1. ModesOK' /\ CountsOK'
    <3>1. ModesOK'
      BY <1>2 DEF Start, Attempt
    <3>2. CountsOK'
      BY <1>2 DEF Start, Attempt
    <3> QED BY <3>1, <3>2
  <2> QED
    BY <1>2, <2>1 DEF Start, Attempt
<1>3. CASE Connect
  <2>1. ModesOK' /\ CountsOK'
    <3>1. ModesOK'
      BY <1>3 DEF Connect
    <3>2. CountsOK'
      BY <1>3 DEF Connect
    <3> QED BY <3>1, <3>2
  <2> QED
    BY <1>3, <2>1 DEF Connect
<1>4. CASE ConnectFails
  <2>1. /\ left' = Owed' /\ left' \in Nat
        /\ delayIndex' = streak' /\ streak' \in 1 .. Len(Delays)
    BY <1>4, DelayIsOwed DEF ConnectFails
  <2>2. ModesOK' /\ CountsOK'
    <3>1. ModesOK'
      BY <1>4, <2>1 DEF ConnectFails, Reconnect
    <3>2. CountsOK'
      BY <1>4, <2>1 DEF ConnectFails, Reconnect
    <3> QED BY <3>1, <3>2
  <2>3. await' = "sleep" /\ slept' = 0 /\ ended' = "error" /\ eventError' = ~idleRecycled
    BY <1>4 DEF ConnectFails, Reconnect
  <2>4. ~idleRecycled /\ ~idleRecycled'
    BY <1>4 DEF ConnectFails
  <2>5. Paced' /\ RecycleIsEarned' /\ SilenceIsBounded'
    <3>1. Paced'
      BY <2>1, <2>3, SleepBegins
    <3>2. RecycleIsEarned'
      BY <2>3
    <3>3. SilenceIsBounded'
      BY <2>3
    <3> QED BY <3>1, <3>2, <3>3
  <2>6. ErrorsArePublished'
    BY <2>3, <2>4
  <2> HIDE DEF TypeOK, ModesOK, CountsOK, Paced, RecycleIsEarned, SilenceIsBounded, ErrorsArePublished
  <2>7. TypeOK' /\ streak' > 0 /\ left' >= -MaxLate
    BY <2>1, <2>2 DEF TypeOK
  <2> QED
    BY <2>1, <2>3, <2>4, <2>5, <2>6, <2>7
<1>5. ASSUME NEW frame \in {"empty", "status"}, Receive(frame) PROVE TimingInv'
  BY <1>5 DEF Receive
<1>6. ASSUME NEW reason \in {"idle", "error"}, await = "read", Leave(reason),
             reason = "idle" => sinceAnchor >= IdleLimit
      PROVE  TimingInv'
  <2>1. ModesOK' /\ CountsOK'
    <3>1. ModesOK'
      BY <1>6 DEF Leave
    <3>2. CountsOK'
      BY <1>6 DEF Leave
    <3> QED BY <3>1, <3>2
  <2> QED
    BY <1>6, <2>1 DEF Leave
<1>7. CASE ReceiveNoise
  BY <1>1, <1>6, <1>7 DEF ReceiveNoise
<1>8. CASE ReadFails
  BY <1>6, <1>8 DEF ReadFails
<1>9. CASE IdleTimeout
  BY <1>6, <1>9 DEF IdleTimeout
<1>10. CASE Closed
  <2> DEFINE index == IF statusSeen THEN 0 ELSE delayIndex
  <2>1. index \in 0 .. Len(Delays) /\ Reconnect(index)
    BY <1>10 DEF Closed
  <2>2. streak' = Smaller(index + 1, Len(Delays))
    BY <1>10 DEF Closed, Smaller
  <2>3. /\ await = "close"
        /\ UNCHANGED <<sinceAnchor, statusSeen, idleRecycled, silence, ended>>
    BY <1>10 DEF Closed
  <2>4. /\ left' = Owed' /\ left' \in Nat
        /\ delayIndex' = streak' /\ streak' \in 1 .. Len(Delays)
    <3> HIDE DEF index
    <3> QED BY <2>1, <2>2, <2>3, DelayIsOwed
  <2>5. ModesOK' /\ CountsOK'
    <3>1. ModesOK'
      BY <2>1, <2>3, <2>4 DEF Reconnect
    <3>2. CountsOK'
      BY <2>1, <2>3, <2>4 DEF Reconnect
    <3> QED BY <3>1, <3>2
  <2>6. await' = "sleep" /\ slept' = 0 /\ eventError' = ~idleRecycled
    BY <2>1 DEF Reconnect
  <2>7. Paced' /\ RecycleIsEarned' /\ SilenceIsBounded'
    <3>1. Paced'
      BY <2>4, <2>6, SleepBegins
    <3>2. RecycleIsEarned'
      BY <2>3
    <3>3. SilenceIsBounded'
      BY <2>6
    <3> QED BY <3>1, <3>2, <3>3
  <2>8. ErrorsArePublished'
    BY <2>3, <2>6
  <2>9. idleRecycled' <=> ended' = "idle"
    BY <2>3
  <2> HIDE DEF TypeOK, ModesOK, CountsOK, Paced, RecycleIsEarned, SilenceIsBounded, ErrorsArePublished
  <2>10. TypeOK' /\ streak' > 0 /\ left' >= -MaxLate
    BY <2>4, <2>5 DEF TypeOK
  <2> QED
    BY <2>4, <2>6, <2>7, <2>8, <2>9, <2>10
<1>11. CASE SleepEnds
  <2>1. ModesOK' /\ CountsOK'
    <3>1. ModesOK'
      BY <1>11 DEF SleepEnds, Attempt, history
    <3>2. CountsOK'
      BY <1>11 DEF SleepEnds, Attempt, history
    <3> QED BY <3>1, <3>2
  <2> QED
    BY <1>11, <2>1 DEF SleepEnds, Attempt, history
<1>12. CASE Stop
  BY <1>12 DEF Stop, history
<1>13. CASE Tick
  <2>1. Owed' = Owed
    BY <1>13 DEF Tick, Owed
  <2>2. ModesOK' /\ CountsOK'
    <3>1. ModesOK'
      BY <1>13 DEF Tick, Smaller
    <3>2. CountsOK'
      BY <1>13 DEF Tick, Smaller
    <3> QED BY <3>1, <3>2
  <2>3. CASE await = "read"
    BY <1>13, <2>2, <2>3 DEF Tick, Smaller
  <2>4. CASE await = "sleep"
    BY <1>13, <2>1, <2>2, <2>4 DEF Tick
  <2>5. CASE await \notin {"read", "sleep"}
    BY <1>13, <2>2, <2>5 DEF Tick
  <2> QED BY <2>3, <2>4, <2>5
<1> QED
  BY <1>1, <1>2, <1>3, <1>4, <1>5, <1>7, <1>8, <1>9, <1>10, <1>11, <1>12, <1>13 DEF Next

\* Every behaviour keeps the supervisor's account of its attempts true.
THEOREM ClientTimingInv == Spec => []TimingInv
<1>1. ASSUME Init PROVE TimingInv
  <2>1. ModesOK
    BY <1>1 DEF Init, ModesOK
  <2>2. CountsOK
    BY <1>1, TimingConstants DEF Init, CountsOK
  <2>3. /\ await = "nothing" /\ streak = delayIndex
        /\ "nothing" \notin {"sleep", "close", "connect", "read"}
    BY <1>1 DEF Init
  <2>4. Paced /\ RecycleIsEarned /\ SilenceIsBounded /\ ErrorsArePublished
    BY <2>3 DEF Paced, RecycleIsEarned, SilenceIsBounded, ErrorsArePublished
  <2> QED
    BY <2>1, <2>2, <2>3, <2>4 DEF TimingInv, TypeOK
<1> QED
  BY <1>1, TimingInvStep, PTL DEF Spec

\* Attempts are spaced as the schedule and the floor demand, whatever they are.
THEOREM BackoffIsPaced == Spec => []Paced
<1>1. TimingInv => Paced
  BY DEF TimingInv
<1> QED
  BY <1>1, ClientTimingInv, PTL

\* Only a silent session is recycled, and a silent one is left in time.
THEOREM RecycleIsExact == Spec => [](RecycleIsEarned /\ SilenceIsBounded)
<1>1. TimingInv => RecycleIsEarned /\ SilenceIsBounded
  BY DEF TimingInv
<1> QED
  BY <1>1, ClientTimingInv, PTL

\* A recycle is never published as an error, nor a failure as a recycle.
THEOREM RecycleIsNoError == Spec => []ErrorsArePublished
<1>1. TimingInv => ErrorsArePublished
  BY DEF TimingInv
<1> QED
  BY <1>1, ClientTimingInv, PTL
=======================================================================================
