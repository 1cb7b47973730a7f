-------------------------- MODULE SessionForensics --------------------------
(***************************************************************************)
(* What the client's log tells of its sessions (client.py, "transport      *)
(* forensics"): one tracker per connect attempt, one summary when it ends, *)
(* and one WARNING per outage and per change of its cause.  Durations and  *)
(* byte counts are left out; the banner check keeps its bytes.             *)
(*                                                                         *)
(* The definitions named ...Slip are mutations of the definition after     *)
(* them; the specification uses none.                                      *)
(***************************************************************************)
EXTENDS Naturals, Sequences, SequencesExt

CONSTANTS Labels,       \* what _classify_error makes of an exception
          Banner,       \* the bytes of the greeting
          Chunks,       \* the chunks a read may return
          None,
          MaxSessions,  \* bound of the runs: attempts begun
          MaxWire,      \* bound of the runs: bytes received in one session
          MaxStops      \* bound of the runs: calls of stop()

ASSUME CausesAreNames ==
  /\ Labels \cap {None, "stopped", "unknown"} = {}
  /\ None \notin {"stopped", "unknown", "remote-eof", "idle-timeout"}
ASSUME BytesAreNumbers ==
  /\ Banner \in Seq(Nat) /\ Banner # <<>>
  /\ Chunks \subseteq Seq(Nat)

\* What a session that nobody stopped may end of, and what may be recorded.
Reasons == Labels \cup {"remote-eof", "idle-timeout"}
Causes == Reasons \cup {"stopped", "unknown"}

VARIABLES open,         \* _open_session, or None
          stage,        \* where the supervisor is: between, connecting, reading, closing, gone
          stopping,     \* _stopping
          without,      \* _sessions_without_frame
          warned,       \* _warned_classification
          summary,      \* _last_session_forensics, or None
          warnings,     \* auxiliary: causes warned of since the last valid frame
          missed,       \* auxiliary: attempts without a frame that nothing excuses, since then
          wire,         \* auxiliary: all bytes of the open session
          begun, stops  \* auxiliary: counted for the bounds

outage == <<without, warned, warnings, missed>>
bounds == <<begun, stops>>
vars == <<open, stage, stopping, without, warned, summary, warnings, missed, wire, begun, stops>>

----------------------------------------------------------------------------
\* _finish_session

Counts(frames, phase) == frames = 0 /\ phase # "stopped"

\* One more session of the outage, and a WARNING unless its cause was the last.
Escalate(reason) ==
  /\ without' = without + 1
  /\ IF warned = reason
     THEN UNCHANGED <<warned, warnings>>
     ELSE warned' = reason /\ warnings' = Append(warnings, reason)

\* The tracker's own reason gives way to the exception's label; then the phase's.
Reason(phase, label) ==
  CASE label # None -> label
    [] label = None /\ open.reason # None -> open.reason
    [] OTHER -> IF phase = "stopped" THEN "stopped" ELSE "unknown"

\* excused: the attempt ends because of stop(), or of an exception that is not
\* expected, which the code does not tell from a cancellation.
Finish(phase, label, excused) ==
  LET reason == Reason(phase, label) IN
  /\ open' = None
  /\ wire' = <<>>
  /\ summary' = [phase |-> phase, reason |-> reason, seen |-> open.seen]
  /\ missed' = IF open.frames = 0 /\ ~excused THEN missed + 1 ELSE missed
  /\ IF Counts(open.frames, phase) THEN Escalate(reason)
     ELSE UNCHANGED <<without, warned, warnings>>

----------------------------------------------------------------------------
\* _begin_session
Begin ==
  /\ stage = "between" /\ ~stopping /\ begun < MaxSessions
  /\ open' = [prefix |-> <<>>, seen |-> FALSE, frames |-> 0, reason |-> None]
  /\ stage' = "connecting"
  /\ begun' = begun + 1
  /\ UNCHANGED <<stopping, outage, summary, wire, stops>>

ConnectFails(label) ==
  /\ stage = "connecting"
  /\ stage' = "between"
  /\ Finish("connect-failed", label, FALSE)
  /\ UNCHANGED <<stopping, bounds>>

\* An exception that is neither an OSError nor a TimeoutError leaves _run; the
\* guard meant for cancellation writes the summary on the way.
ConnectBreaks ==
  /\ stage = "connecting"
  /\ stage' = "gone"
  /\ Finish("stopped", None, TRUE)
  /\ UNCHANGED <<stopping, bounds>>

Establish ==
  /\ stage = "connecting"
  /\ stage' = "reading"
  /\ UNCHANGED <<open, stopping, outage, summary, wire, bounds>>

\* The whole chunk is compared, not the stream.
WholeChunkSlip(s, chunk) ==
  [s EXCEPT !.prefix = @ \o chunk, !.seen = @ \/ chunk = Banner]

\* _track_chunk: the first bytes of the session, however the reads split them.
TrackBanner(s, chunk) ==
  IF s.seen \/ Len(s.prefix) >= Len(Banner) THEN s
  ELSE LET missing == Len(Banner) - Len(s.prefix)
           prefix  == s.prefix \o SubSeq(chunk, 1, IF missing < Len(chunk) THEN missing ELSE Len(chunk))
       IN [s EXCEPT !.prefix = prefix, !.seen = (prefix = Banner)]

\* The count is reset and the cause warned of is not.
KeepCauseSlip ==
  /\ without' = 0
  /\ warnings' = <<>>
  /\ missed' = 0
  /\ UNCHANGED warned

\* _note_first_valid_frame
Recover ==
  /\ without' = 0
  /\ warned' = None
  /\ warnings' = <<>>
  /\ missed' = 0

\* A chunk arrives and completes some frames, the first of the session or not.
Receive(chunk, frames) ==
  /\ stage = "reading" /\ ~stopping
  /\ Len(wire) + Len(chunk) <= MaxWire
  /\ wire' = wire \o chunk
  /\ open' = [TrackBanner(open, chunk) EXCEPT !.frames = IF frames THEN 1 ELSE @]
  /\ IF frames /\ open.frames = 0 THEN Recover ELSE UNCHANGED outage
  /\ UNCHANGED <<stage, stopping, summary, bounds>>

\* A recycled session leaves without a reason.
UnnamedRecycleSlip(reason) ==
  /\ stage = "reading"
  /\ stage' = "closing"
  /\ open' = [open EXCEPT !.reason = IF reason = "idle-timeout" THEN @ ELSE reason]
  /\ UNCHANGED <<stopping, outage, summary, wire, bounds>>

\* The read loop ends: end of stream, recycle, error, or the stopping flag
\* that a callback's stop() has set.
EndReading(reason) ==
  /\ stage = "reading"
  /\ stage' = "closing"
  /\ open' = [open EXCEPT !.reason = reason]
  /\ UNCHANGED <<stopping, outage, summary, wire, bounds>>

EndOfSession ==
  \/ ~stopping /\ \E reason \in Reasons : EndReading(reason)
  \/ stopping /\ EndReading("stopped")

\* The writer is closed; the phase is decided by the flag as it is then.
Close ==
  /\ stage = "closing"
  /\ stage' = "between"
  /\ Finish(IF stopping THEN "stopped" ELSE "established-then-closed", None, stopping)
  /\ UNCHANGED <<stopping, bounds>>

\* stop(): from outside, the cancellation follows; from a callback, it does not.
Stop ==
  /\ ~stopping /\ stops < MaxStops
  /\ stopping' = TRUE
  /\ stops' = stops + 1
  /\ UNCHANGED <<open, stage, outage, summary, wire, begun>>

Cancelled ==
  /\ stopping /\ stage \in {"connecting", "reading", "closing"}
  /\ stage' = "gone"
  /\ Finish("stopped", None, TRUE)
  /\ UNCHANGED <<stopping, bounds>>

Leave ==
  /\ stopping /\ stage = "between"
  /\ stage' = "gone"
  /\ UNCHANGED <<open, stopping, outage, summary, wire, bounds>>

\* start(): a new supervisor for the same client; the outage carries over.
Restart ==
  /\ stage = "gone"
  /\ stage' = "between"
  /\ stopping' = FALSE
  /\ UNCHANGED <<open, outage, summary, wire, bounds>>

----------------------------------------------------------------------------
Init ==
  /\ open = None /\ stage = "between" /\ stopping = FALSE
  /\ without = 0 /\ warned = None /\ summary = None
  /\ warnings = <<>> /\ missed = 0 /\ wire = <<>>
  /\ begun = 0 /\ stops = 0

Attempt ==
  \/ Begin \/ ConnectBreaks \/ Establish \/ EndOfSession \/ Close
  \/ \E label \in Labels : ConnectFails(label)
  \/ \E chunk \in Chunks, frames \in BOOLEAN : Receive(chunk, frames)

Next == Attempt \/ Stop \/ Cancelled \/ Leave \/ Restart

Spec == Init /\ [][Next]_vars

----------------------------------------------------------------------------
(* A type invariant of the tracker and of the outage counters. *)
InSession == stage \in {"connecting", "reading", "closing"}
Tracker == [prefix : Seq(Nat), seen : BOOLEAN, frames : {0, 1},
            reason : Reasons \cup {"stopped", None}]

TypeOK ==
  /\ stage \in {"between", "connecting", "reading", "closing", "gone"}
  /\ stopping \in BOOLEAN
  /\ IF InSession THEN open \in Tracker ELSE open = None
  /\ without \in Nat /\ missed \in Nat
  /\ warned \in Causes \cup {None} /\ warnings \in Seq(Causes)
  /\ wire \in Seq(Nat)

(* Every session that ended without a valid frame is part of the outage,   *)
(* except those somebody stopped and those an unexpected exception broke;  *)
(* the outage has its WARNING from the first one on; the cause warned of   *)
(* last is the current one; and no cause is warned of twice in a row,      *)
(* across stop() and start() too.                                          *)
OutageIsWarned ==
  /\ without = missed
  /\ without > 0 <=> warnings # <<>>
  /\ warnings # <<>> => warned = Last(warnings)
  /\ \A i \in 1 .. Len(warnings) - 1 : warnings[i] # warnings[i + 1]

(* The summary of an attempt nobody stopped has a cause, and in an outage  *)
(* it is the cause warned of last: no summary's cause goes without WARNING.*)
SummaryNamesTheCause ==
  summary # None =>
    /\ summary.reason # "unknown"
    /\ summary.phase = "established-then-closed" => summary.reason \in Reasons
    /\ summary.phase # "stopped" /\ without > 0 => warned = summary.reason

(* The banner is seen exactly when the first bytes of the session are the  *)
(* greeting, in whatever pieces they arrived.                              *)
BannerIsSplitSafe ==
  open # None => open.seen = (Len(wire) >= Len(Banner) /\ SubSeq(wire, 1, Len(Banner)) = Banner)

(* What ties the tracker of the open session to the outage so far.  (The   *)
(* invariant the theorems on this module rest on.)                         *)
SessionInv ==
  InSession =>
    /\ open.frames # 0 => without = 0
    /\ stage = "closing" => open.reason \in Reasons \/ (open.reason = "stopped" /\ stopping)

FirstBytes(w) == SubSeq(w, 1, IF Len(w) < Len(Banner) THEN Len(w) ELSE Len(Banner))

(* The tracker holds the first bytes of the session and nothing else, up   *)
(* to the length of the greeting, and no byte of a session is left behind. *)
(* (The invariant the theorem on BannerIsSplitSafe rests on.)              *)
BannerInv ==
  IF InSession THEN open.prefix = FirstBytes(wire) /\ open.seen = (open.prefix = Banner)
  ELSE wire = <<>>

ForensicsInv ==
  /\ TypeOK /\ OutageIsWarned /\ SummaryNamesTheCause /\ SessionInv
  /\ warned = None <=> without = 0
=============================================================================
