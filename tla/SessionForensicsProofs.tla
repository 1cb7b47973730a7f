----------------------- MODULE SessionForensicsProofs -----------------------
(***************************************************************************)
(* Theorems about SessionForensics, for every set of causes, every greeting*)
(* and every way the bytes of a session are split.                         *)
(***************************************************************************)
EXTENDS SessionForensics, SequenceTheorems, TLAPS

\* One more attempt of the outage keeps its account, and the cause warned of last
\* is the attempt's.
LEMMA EscalateWarns ==
  ASSUME TypeOK, OutageIsWarned, warned = None <=> without = 0,
         NEW reason \in Causes, Escalate(reason), missed' = missed + 1
  PROVE  /\ OutageIsWarned' /\ warned' = reason /\ without' \in Nat /\ without' > 0
         /\ warnings' \in Seq(Causes)
<1>1. reason # None
  BY CausesAreNames DEF Causes, Reasons
<1>2. warnings \in Seq(Causes) /\ without \in Nat /\ without = missed
  BY DEF TypeOK, OutageIsWarned
<1>3. without' = without + 1 /\ without' \in Nat /\ without' > 0 /\ without' = missed'
  BY <1>2 DEF Escalate
<1>4. CASE warned = reason
  <2>1. warned' = warned /\ warnings' = warnings
    BY <1>4 DEF Escalate
  <2>2. warnings # <<>>
    BY <1>1, <1>2, <1>4 DEF OutageIsWarned
  <2> QED
    BY <1>2, <1>3, <1>4, <2>1, <2>2 DEF OutageIsWarned
<1>5. CASE warned # reason
  <2>1. warned' = reason /\ warnings' = Append(warnings, reason)
    BY <1>5 DEF Escalate
  <2>2. /\ warnings' \in Seq(Causes) /\ Len(warnings') = Len(warnings) + 1 /\ warnings' # <<>>
        /\ warnings'[Len(warnings')] = reason
        /\ \A i \in 1 .. Len(warnings) : warnings'[i] = warnings[i]
    BY <1>2, <2>1
  <2>3. Last(warnings') = reason
    BY <2>2 DEF Last
  <2>4. \A i \in 1 .. Len(warnings') - 1 : warnings'[i] # warnings'[i + 1]
    <3> SUFFICES ASSUME NEW i \in 1 .. Len(warnings) PROVE warnings'[i] # warnings'[i + 1]
      BY <1>2, <2>2
    <3>1. CASE i = Len(warnings)
      <4>1. warnings # <<>> /\ warnings[i] = warned
        BY <1>2, <3>1 DEF OutageIsWarned, Last
      <4> QED
        BY <1>2, <1>5, <2>2, <3>1, <4>1
    <3>2. CASE i # Len(warnings)
      <4>1. i \in 1 .. Len(warnings) - 1 /\ i + 1 \in 1 .. Len(warnings)
        BY <1>2, <3>2
      <4> QED
        BY <2>2, <4>1 DEF OutageIsWarned
    <3> QED
      BY <3>1, <3>2
  <2> QED
    BY <1>2, <1>3, <2>1, <2>2, <2>3, <2>4 DEF OutageIsWarned
<1> QED
  BY <1>4, <1>5

\* Ending an attempt keeps the account of the outage, when it is excused exactly if
\* its phase is "stopped" and its cause is known.
LEMMA FinishKeeps ==
  ASSUME ForensicsInv, InSession, NEW phase, NEW label, NEW excused \in BOOLEAN,
         Finish(phase, label, excused), excused <=> phase = "stopped",
         Reason(phase, label) \in Causes \ {"unknown"},
         phase = "established-then-closed" => Reason(phase, label) \in Reasons,
         ~InSession', stage' \in {"between", "gone"}, stopping' \in BOOLEAN
  PROVE  ForensicsInv'
<1> DEFINE reason == Reason(phase, label)
<1>1. /\ open' = None /\ wire' = <<>>
      /\ summary' = [phase |-> phase, reason |-> reason, seen |-> open.seen]
  BY DEF Finish
<1>2. open.frames \in {0, 1} /\ wire' \in Seq(Nat)
  BY <1>1 DEF ForensicsInv, TypeOK, Tracker
<1> HIDE DEF reason
<1>3. reason \in Causes \ {"unknown"} /\ (phase = "established-then-closed" => reason \in Reasons)
  BY DEF reason
<1>4. /\ OutageIsWarned' /\ without' \in Nat /\ missed' \in Nat
      /\ warned' \in Causes \cup {None} /\ warnings' \in Seq(Causes)
      /\ warned' = None <=> without' = 0
      /\ phase # "stopped" /\ without' > 0 => warned' = reason
  <2>1. CASE open.frames = 0 /\ phase # "stopped"
    <3>1. Escalate(reason) /\ missed' = missed + 1
      BY <2>1 DEF Finish, Counts, reason
    <3>2. warned' = reason /\ without' \in Nat /\ without' > 0 /\ OutageIsWarned' /\ warnings' \in Seq(Causes)
      BY <1>3, <3>1, EscalateWarns DEF ForensicsInv
    <3>3. reason # None /\ missed' \in Nat
      BY <1>3, <3>1, CausesAreNames DEF Causes, Reasons, ForensicsInv, TypeOK
    <3> QED
      BY <1>3, <3>2, <3>3
  <2>2. CASE ~(open.frames = 0 /\ phase # "stopped")
    <3>1. without' = without /\ warned' = warned /\ warnings' = warnings /\ missed' = missed
      BY <2>2 DEF Finish, Counts
    <3>2. phase # "stopped" => without = 0
      BY <2>2 DEF ForensicsInv, SessionInv
    <3> QED
      BY <3>1, <3>2 DEF ForensicsInv, TypeOK, OutageIsWarned
  <2> QED
    BY <2>1, <2>2
<1>5. TypeOK'
  BY <1>1, <1>2, <1>4 DEF TypeOK
<1>6. SummaryNamesTheCause'
  BY <1>1, <1>3, <1>4 DEF SummaryNamesTheCause
<1> QED
  BY <1>4, <1>5, <1>6 DEF ForensicsInv, SessionInv

\* The bytes of a chunk change the tracker's banner fields and nothing else.
LEMMA TrackBannerTypes ==
  ASSUME NEW s \in Tracker, NEW chunk \in Seq(Nat)
  PROVE  TrackBanner(s, chunk) \in Tracker /\ TrackBanner(s, chunk).frames = s.frames
<1> DEFINE missing == Len(Banner) - Len(s.prefix)
           prefix == s.prefix \o SubSeq(chunk, 1, IF missing < Len(chunk) THEN missing ELSE Len(chunk))
<1>1. CASE s.seen \/ Len(s.prefix) >= Len(Banner)
  BY <1>1 DEF TrackBanner
<1>2. CASE ~(s.seen \/ Len(s.prefix) >= Len(Banner))
  <2>1. s.prefix \in Seq(Nat) /\ Len(s.prefix) \in Nat /\ Len(Banner) \in Nat /\ Len(chunk) \in Nat
    BY BytesAreNumbers DEF Tracker
  <2>2. (IF missing < Len(chunk) THEN missing ELSE Len(chunk)) \in 0 .. Len(chunk)
    BY <1>2, <2>1
  <2>3. SubSeq(chunk, 1, IF missing < Len(chunk) THEN missing ELSE Len(chunk)) \in Seq(Nat)
    BY <2>2
  <2>4. prefix \in Seq(Nat)
    BY <2>1, <2>3
  <2>5. TrackBanner(s, chunk) = [s EXCEPT !.prefix = prefix, !.seen = (prefix = Banner)]
    BY <1>2 DEF TrackBanner
  <2> HIDE DEF prefix
  <2> QED
    BY <2>4, <2>5 DEF Tracker
<1> QED
  BY <1>1, <1>2

\* A chunk arrives.
LEMMA ReceiveKeeps ==
  ASSUME ForensicsInv, NEW chunk \in Chunks, NEW frames \in BOOLEAN, Receive(chunk, frames)
  PROVE  ForensicsInv'
<1>1. /\ stage = "reading" /\ stage' = stage /\ stopping' = stopping /\ summary' = summary
      /\ wire' = wire \o chunk
      /\ open' = [TrackBanner(open, chunk) EXCEPT !.frames = IF frames THEN 1 ELSE @]
  BY DEF Receive
<1>2. open \in Tracker /\ InSession /\ InSession' /\ chunk \in Seq(Nat) /\ wire \in Seq(Nat)
  BY <1>1, BytesAreNumbers DEF ForensicsInv, TypeOK, InSession
<1>3. TrackBanner(open, chunk) \in Tracker /\ TrackBanner(open, chunk).frames = open.frames
  BY <1>2, TrackBannerTypes
<1>4. open' \in Tracker /\ open'.frames = IF frames THEN 1 ELSE open.frames
  BY <1>1, <1>3 DEF Tracker
<1>5. wire' \in Seq(Nat)
  BY <1>1, <1>2
<1>6. CASE frames /\ open.frames = 0
  <2>1. without' = 0 /\ warned' = None /\ warnings' = <<>> /\ missed' = 0
    BY <1>6 DEF Receive, Recover
  <2>2. warnings' \in Seq(Causes) /\ Len(warnings') = 0
    BY <2>1
  <2>3. OutageIsWarned'
    BY <2>1, <2>2 DEF OutageIsWarned
  <2> QED
    BY <1>1, <1>2, <1>4, <1>5, <2>1, <2>2, <2>3 DEF ForensicsInv, TypeOK, SummaryNamesTheCause, SessionInv
<1>7. CASE ~(frames /\ open.frames = 0)
  <2>1. without' = without /\ warned' = warned /\ warnings' = warnings /\ missed' = missed
    BY <1>7 DEF Receive, outage
  <2>2. open'.frames # 0 => open.frames # 0
    BY <1>4, <1>7
  <2> QED
    BY <1>1, <1>2, <1>4, <1>5, <2>1, <2>2
       DEF ForensicsInv, TypeOK, OutageIsWarned, SummaryNamesTheCause, SessionInv
<1> QED
  BY <1>6, <1>7

\* A step keeps the invariant.
LEMMA ForensicsInvStep == ForensicsInv /\ [Next]_vars => ForensicsInv'
<1> SUFFICES ASSUME ForensicsInv, [Next]_vars PROVE ForensicsInv'
  OBVIOUS
<1> DEFINE Kept == /\ without' = without /\ warned' = warned /\ warnings' = warnings
                   /\ missed' = missed /\ summary' = summary
<1>1. CASE UNCHANGED vars
  BY <1>1 DEF vars, ForensicsInv, TypeOK, InSession, OutageIsWarned, SummaryNamesTheCause, SessionInv
<1>2. CASE Begin
  <2>1. Kept /\ stage' = "connecting" /\ wire' = wire /\ stopping' = stopping
        /\ open' = [prefix |-> <<>>, seen |-> FALSE, frames |-> 0, reason |-> None]
    BY <1>2 DEF Begin, outage
  <2>2. <<>> \in Seq(Nat)
    OBVIOUS
  <2>3. open' \in Tracker /\ open'.frames = 0
    BY <2>1, <2>2 DEF Tracker
  <2> QED
    BY <2>1, <2>3 DEF ForensicsInv, TypeOK, InSession, OutageIsWarned, SummaryNamesTheCause, SessionInv
<1>3. ASSUME NEW label \in Labels, ConnectFails(label) PROVE ForensicsInv'
  <2>1. label # None /\ label # "unknown" /\ label \in Reasons
    BY CausesAreNames DEF Reasons
  <2>2. Reason("connect-failed", label) = label
    BY <2>1 DEF Reason
  <2>3. /\ Finish("connect-failed", label, FALSE) /\ InSession /\ ~InSession'
        /\ stage' = "between" /\ stopping' = stopping
    BY <1>3 DEF ConnectFails, InSession
  <2> QED
    BY <2>1, <2>2, <2>3, FinishKeeps DEF Causes, ForensicsInv, TypeOK
<1>4. CASE ConnectBreaks \/ Cancelled
  <2>1. /\ Finish("stopped", None, TRUE) /\ InSession /\ ~InSession'
        /\ stage' = "gone" /\ stopping' = stopping
    BY <1>4 DEF ConnectBreaks, Cancelled, InSession
  <2>2. Reason("stopped", None) \in Causes \ {"unknown"}
    <3>1. open.reason \in Reasons \cup {"stopped", None}
      BY <2>1 DEF ForensicsInv, TypeOK, Tracker
    <3> QED
      BY <3>1, CausesAreNames DEF Reason, Causes, Reasons
  <2> QED
    BY <2>1, <2>2, FinishKeeps DEF ForensicsInv, TypeOK
<1>5. CASE Establish
  BY <1>5 DEF Establish, outage, ForensicsInv, TypeOK, InSession, OutageIsWarned, SummaryNamesTheCause, SessionInv
<1>6. ASSUME NEW reason \in Reasons \cup {"stopped"}, EndReading(reason),
             reason = "stopped" => stopping
      PROVE ForensicsInv'
  <2>1. /\ Kept /\ stage = "reading" /\ stage' = "closing" /\ stopping' = stopping /\ wire' = wire
        /\ open' = [open EXCEPT !.reason = reason]
    BY <1>6 DEF EndReading, outage
  <2>2. open \in Tracker /\ InSession /\ InSession'
    BY <2>1 DEF ForensicsInv, TypeOK, InSession
  <2>3. open' \in Tracker /\ open'.frames = open.frames /\ open'.reason = reason
    BY <2>1, <2>2 DEF Tracker
  <2> QED
    BY <1>6, <2>1, <2>2, <2>3 DEF ForensicsInv, TypeOK, OutageIsWarned, SummaryNamesTheCause, SessionInv
<1>7. CASE Close
  <2> DEFINE phase == IF stopping THEN "stopped" ELSE "established-then-closed"
  <2>1. /\ Finish(phase, None, stopping) /\ InSession /\ ~InSession' /\ stage = "closing"
        /\ stage' = "between" /\ stopping' = stopping
    BY <1>7 DEF Close, InSession
  <2>2. open.reason \in Reasons \/ (open.reason = "stopped" /\ stopping)
    BY <2>1 DEF ForensicsInv, SessionInv
  <2>3. Reason(phase, None) = open.reason
    BY <2>2, CausesAreNames DEF Reason, Reasons
  <2>4. /\ Reason(phase, None) \in Causes \ {"unknown"}
        /\ phase = "established-then-closed" => Reason(phase, None) \in Reasons
    BY <2>2, <2>3, CausesAreNames DEF Causes, Reasons
  <2>5. stopping \in BOOLEAN /\ (stopping <=> phase = "stopped")
    BY DEF ForensicsInv, TypeOK
  <2> HIDE DEF phase
  <2> QED
    BY <2>1, <2>4, <2>5, FinishKeeps
<1>8. ASSUME NEW chunk \in Chunks, NEW frames \in BOOLEAN, Receive(chunk, frames) PROVE ForensicsInv'
  BY <1>8, ReceiveKeeps
<1>9. CASE Stop \/ Leave \/ Restart
  BY <1>9 DEF Stop, Leave, Restart, outage, ForensicsInv, TypeOK, InSession, OutageIsWarned,
     SummaryNamesTheCause, SessionInv
<1>10. CASE EndOfSession
  <2>1. CASE ~stopping /\ \E reason \in Reasons : EndReading(reason)
    <3>1. PICK reason \in Reasons : EndReading(reason)
      BY <2>1
    <3>2. reason # "stopped"
      BY CausesAreNames DEF Reasons
    <3> QED
      BY <3>1, <3>2, <1>6
  <2>2. CASE stopping /\ EndReading("stopped")
    BY <2>2, <1>6
  <2> QED
    BY <1>10, <2>1, <2>2 DEF EndOfSession
<1>11. CASE Attempt
  BY <1>11, <1>2, <1>3, <1>4, <1>5, <1>7, <1>8, <1>10 DEF Attempt
<1> QED
  BY <1>1, <1>4, <1>9, <1>11 DEF Next

\* The tracker, the counters of the outage and the warnings written agree.
THEOREM ForensicsInvariant == Spec => []ForensicsInv
<1>1. ASSUME Init PROVE ForensicsInv
  <2>1. wire \in Seq(Nat) /\ warnings \in Seq(Causes) /\ Len(warnings) = 0
    BY <1>1 DEF Init
  <2>2. TypeOK
    BY <1>1, <2>1 DEF Init, TypeOK, InSession
  <2>3. OutageIsWarned
    BY <1>1, <2>1 DEF Init, OutageIsWarned
  <2>4. SummaryNamesTheCause /\ SessionInv
    BY <1>1 DEF Init, SummaryNamesTheCause, SessionInv, InSession
  <2>5. warned = None <=> without = 0
    BY <1>1 DEF Init
  <2> QED
    BY <2>2, <2>3, <2>4, <2>5 DEF ForensicsInv
<1> QED
  BY <1>1, ForensicsInvStep, PTL DEF Spec

\* Every attempt of an outage is counted, the outage has its WARNING from the first
\* one on, and no cause is warned of twice in a row.
THEOREM OutagesAreWarned == Spec => []OutageIsWarned
<1>1. ForensicsInv => OutageIsWarned
  BY DEF ForensicsInv
<1> QED
  BY <1>1, ForensicsInvariant, PTL

\* Every summary has a cause, and during an outage it is the one warned of last.
THEOREM SummariesNameTheCause == Spec => []SummaryNamesTheCause
<1>1. ForensicsInv => SummaryNamesTheCause
  BY DEF ForensicsInv
<1> QED
  BY <1>1, ForensicsInvariant, PTL

----------------------------------------------------------------------------
\* The greeting starts a stream exactly if it is the stream's first bytes.
LEMMA GreetingIsFirstBytes ==
  ASSUME NEW w \in Seq(Nat)
  PROVE  FirstBytes(w) = Banner <=> Len(w) >= Len(Banner) /\ SubSeq(w, 1, Len(Banner)) = Banner
<1>1. Len(w) \in Nat /\ Len(Banner) \in Nat
  BY BytesAreNumbers
<1>2. CASE Len(w) < Len(Banner)
  <2>1. Len(FirstBytes(w)) = Len(w)
    BY <1>1, <1>2 DEF FirstBytes
  <2> QED
    BY <1>1, <1>2, <2>1
<1>3. CASE ~(Len(w) < Len(Banner))
  BY <1>1, <1>3 DEF FirstBytes
<1> QED
  BY <1>2, <1>3

\* The first bytes are those of the stream so far, and then of the next chunk.
LEMMA FirstBytesGrow ==
  ASSUME NEW w \in Seq(Nat), NEW chunk \in Seq(Nat)
  PROVE  /\ Len(w) >= Len(Banner) => FirstBytes(w \o chunk) = FirstBytes(w)
         /\ Len(w) < Len(Banner) =>
              LET missing == Len(Banner) - Len(w)
              IN  FirstBytes(w \o chunk) =
                    w \o SubSeq(chunk, 1, IF missing < Len(chunk) THEN missing ELSE Len(chunk))
<1> DEFINE all == w \o chunk
<1>1. Len(w) \in Nat /\ Len(chunk) \in Nat /\ Len(Banner) \in Nat
  BY BytesAreNumbers
<1>2. /\ all \in Seq(Nat) /\ Len(all) = Len(w) + Len(chunk)
      /\ \A i \in 1 .. Len(all) : all[i] = IF i <= Len(w) THEN w[i] ELSE chunk[i - Len(w)]
  BY <1>1, ConcatProperties
<1> HIDE DEF all
<1>3. ASSUME Len(w) >= Len(Banner) PROVE FirstBytes(all) = FirstBytes(w)
  <2>1. FirstBytes(all) = SubSeq(all, 1, Len(Banner)) /\ FirstBytes(w) = SubSeq(w, 1, Len(Banner))
    BY <1>1, <1>2, <1>3 DEF FirstBytes
  <2>2. \A i \in 1 .. Len(Banner) : all[i] = w[i]
    BY <1>1, <1>2, <1>3
  <2>3. /\ SubSeq(all, 1, Len(Banner)) = [i \in 1 .. Len(Banner) |-> all[i]]
        /\ SubSeq(w, 1, Len(Banner)) = [i \in 1 .. Len(Banner) |-> w[i]]
    BY <1>1, <1>2, <1>3
  <2> QED
    BY <2>1, <2>2, <2>3
<1>4. ASSUME Len(w) < Len(Banner), NEW k \in 0 .. Len(chunk),
             k = IF Len(Banner) - Len(w) < Len(chunk) THEN Len(Banner) - Len(w) ELSE Len(chunk)
      PROVE  FirstBytes(all) = w \o SubSeq(chunk, 1, k)
  <2> DEFINE part == SubSeq(chunk, 1, k)
  <2>0. k \in Nat /\ k <= Len(chunk) /\ Len(w) + k \in 0 .. Len(all)
    BY <1>1, <1>2
  <2>1. FirstBytes(all) = SubSeq(all, 1, Len(w) + k)
    BY <1>1, <1>2, <1>4 DEF FirstBytes
  <2>2. part \in Seq(Nat) /\ Len(part) = k /\ \A i \in 1 .. k : part[i] = chunk[i]
    BY <1>1, <1>4
  <2> HIDE DEF part
  <2>3. /\ w \o part \in Seq(Nat) /\ Len(w \o part) = Len(w) + k
        /\ \A i \in 1 .. Len(w) + k : (w \o part)[i] = IF i <= Len(w) THEN w[i] ELSE part[i - Len(w)]
    BY <1>1, <2>2, ConcatProperties
  <2>4. /\ SubSeq(all, 1, Len(w) + k) \in Seq(Nat) /\ Len(SubSeq(all, 1, Len(w) + k)) = Len(w) + k
        /\ \A i \in 1 .. Len(w) + k : SubSeq(all, 1, Len(w) + k)[i] = all[i]
    BY <1>2, <2>0
  <2>5. \A i \in 1 .. Len(w) + k : all[i] = (w \o part)[i]
    <3> SUFFICES ASSUME NEW i \in 1 .. Len(w) + k PROVE all[i] = (w \o part)[i]
      OBVIOUS
    <3>0. i \in Int /\ i \in 1 .. Len(all)
      BY <1>1, <2>0
    <3>1. CASE i <= Len(w)
      BY <1>2, <2>3, <3>0, <3>1
    <3>2. CASE ~(i <= Len(w))
      <4>1. i - Len(w) \in 1 .. k
        BY <1>1, <2>0, <3>0, <3>2
      <4> QED
        BY <1>2, <2>2, <2>3, <3>0, <3>2, <4>1
    <3> QED
      BY <3>1, <3>2
  <2>6. SubSeq(all, 1, Len(w) + k) = w \o part
    BY <2>3, <2>4, <2>5, SeqEqual
  <2> QED
    BY <2>1, <2>6 DEF part
<1>5. Len(w) < Len(Banner) =>
        (IF Len(Banner) - Len(w) < Len(chunk) THEN Len(Banner) - Len(w) ELSE Len(chunk)) \in 0 .. Len(chunk)
  BY <1>1
<1> QED
  BY <1>3, <1>4, <1>5 DEF all

\* The tracker collects the first bytes, however the stream is split.
LEMMA TrackBannerCollects ==
  ASSUME NEW s \in Tracker, NEW w \in Seq(Nat), NEW chunk \in Seq(Nat),
         s.prefix = FirstBytes(w), s.seen = (s.prefix = Banner)
  PROVE  /\ TrackBanner(s, chunk).prefix = FirstBytes(w \o chunk)
         /\ TrackBanner(s, chunk).seen = (TrackBanner(s, chunk).prefix = Banner)
<1>1. /\ Len(w) \in Nat /\ Len(chunk) \in Nat /\ Len(Banner) \in Nat
      /\ Len(s.prefix) = IF Len(w) < Len(Banner) THEN Len(w) ELSE Len(Banner)
  BY BytesAreNumbers DEF FirstBytes
<1>2. CASE s.seen \/ Len(s.prefix) >= Len(Banner)
  <2>1. Len(s.prefix) >= Len(Banner)
    <3>1. s.seen => s.prefix = Banner
      OBVIOUS
    <3> QED
      BY <1>1, <1>2, <3>1
  <2>2. Len(w) >= Len(Banner)
    BY <1>1, <2>1
  <2>3. TrackBanner(s, chunk) = s
    BY <1>2 DEF TrackBanner
  <2> QED
    BY <2>2, <2>3, FirstBytesGrow
<1>3. CASE ~(s.seen \/ Len(s.prefix) >= Len(Banner))
  <2> DEFINE missing == Len(Banner) - Len(s.prefix)
             prefix == s.prefix \o SubSeq(chunk, 1, IF missing < Len(chunk) THEN missing ELSE Len(chunk))
  <2>1. Len(w) < Len(Banner) /\ Len(s.prefix) = Len(w)
    BY <1>1, <1>3
  <2>2. s.prefix = w
    BY <1>1, <2>1 DEF FirstBytes
  <2>3. prefix = FirstBytes(w \o chunk)
    BY <2>1, <2>2, FirstBytesGrow
  <2>4. TrackBanner(s, chunk) = [s EXCEPT !.prefix = prefix, !.seen = (prefix = Banner)]
    BY <1>3 DEF TrackBanner
  <2> HIDE DEF prefix
  <2> QED
    BY <2>3, <2>4 DEF Tracker
<1> QED
  BY <1>2, <1>3

\* A step keeps the first bytes of the session in the tracker.
LEMMA BannerInvStep == ForensicsInv /\ BannerInv /\ [Next]_vars => BannerInv'
<1> SUFFICES ASSUME ForensicsInv, BannerInv, [Next]_vars PROVE BannerInv'
  OBVIOUS
<1> USE DEF InSession
<1>1. CASE UNCHANGED vars
  BY <1>1 DEF vars, BannerInv
<1>2. CASE Begin
  <2>1. /\ stage = "between" /\ stage' = "connecting" /\ wire' = wire /\ open'.seen = FALSE
        /\ open'.prefix = <<>>
    BY <1>2 DEF Begin
  <2>2. wire' = <<>> /\ Len(wire') = 0 /\ Len(Banner) \in Nat /\ Banner # <<>>
    BY <2>1, BytesAreNumbers DEF BannerInv
  <2>3. FirstBytes(wire') = <<>>
    BY <2>2 DEF FirstBytes
  <2> QED
    BY <2>1, <2>2, <2>3 DEF BannerInv
<1>3. ASSUME NEW phase, NEW label, NEW excused, Finish(phase, label, excused), ~InSession'
      PROVE  BannerInv'
  BY <1>3 DEF Finish, BannerInv
<1>4. CASE Establish \/ Stop \/ Leave \/ Restart
  BY <1>4 DEF Establish, Stop, Leave, Restart, BannerInv
<1>5. ASSUME NEW reason, EndReading(reason) PROVE BannerInv'
  <2>1. open \in Tracker
    BY <1>5 DEF EndReading, ForensicsInv, TypeOK
  <2>2. open'.prefix = open.prefix /\ open'.seen = open.seen
    BY <1>5, <2>1 DEF EndReading, Tracker
  <2> QED
    BY <1>5, <2>2 DEF EndReading, BannerInv
<1>6. ASSUME NEW chunk \in Chunks, NEW frames \in BOOLEAN, Receive(chunk, frames) PROVE BannerInv'
  <2>1. /\ open \in Tracker /\ wire \in Seq(Nat) /\ chunk \in Seq(Nat)
        /\ open.prefix = FirstBytes(wire) /\ open.seen = (open.prefix = Banner)
    BY <1>6, BytesAreNumbers DEF Receive, ForensicsInv, TypeOK, BannerInv
  <2>2. /\ TrackBanner(open, chunk).prefix = FirstBytes(wire \o chunk)
        /\ TrackBanner(open, chunk).seen = (TrackBanner(open, chunk).prefix = Banner)
        /\ TrackBanner(open, chunk) \in Tracker
    BY <2>1, TrackBannerCollects, TrackBannerTypes
  <2>3. /\ wire' = wire \o chunk /\ stage' = "reading"
        /\ open' = [TrackBanner(open, chunk) EXCEPT !.frames = IF frames THEN 1 ELSE @]
    BY <1>6 DEF Receive
  <2>4. open'.prefix = TrackBanner(open, chunk).prefix /\ open'.seen = TrackBanner(open, chunk).seen
    BY <2>2, <2>3 DEF Tracker
  <2> QED
    BY <2>2, <2>3, <2>4 DEF BannerInv
<1>7. CASE EndOfSession
  BY <1>5, <1>7 DEF EndOfSession
<1>8. CASE ConnectBreaks \/ Cancelled \/ Close
  <2>1. ~InSession'
    BY <1>8 DEF ConnectBreaks, Cancelled, Close
  <2> QED
    BY <1>3, <1>8, <2>1 DEF ConnectBreaks, Cancelled, Close
<1>9. ASSUME NEW label \in Labels, ConnectFails(label) PROVE BannerInv'
  <2>1. ~InSession'
    BY <1>9 DEF ConnectFails
  <2> QED
    BY <1>3, <1>9, <2>1 DEF ConnectFails
<1> QED
  BY <1>1, <1>2, <1>4, <1>6, <1>7, <1>8, <1>9 DEF Next, Attempt

\* The banner is seen exactly when the session starts with the greeting, in whatever
\* pieces its bytes arrived.
THEOREM BannersAreSplitSafe == Spec => []BannerIsSplitSafe
<1>1. Init => BannerInv
  BY DEF Init, BannerInv, InSession
<1>2. ForensicsInv /\ BannerInv => BannerIsSplitSafe
  <2> SUFFICES ASSUME ForensicsInv, BannerInv, open # None PROVE BannerIsSplitSafe
    BY DEF BannerIsSplitSafe
  <2>1. InSession /\ wire \in Seq(Nat)
    BY DEF ForensicsInv, TypeOK
  <2>2. open.seen = (FirstBytes(wire) = Banner)
    BY <2>1 DEF BannerInv
  <2> QED
    BY <2>1, <2>2, GreetingIsFirstBytes DEF BannerIsSplitSafe
<1> QED
  BY <1>1, <1>2, BannerInvStep, ForensicsInvariant, PTL DEF Spec
=============================================================================
