---------------------------- MODULE CaptureProbe ----------------------------
(***************************************************************************)
(* The passive capture probe (scripts/rinnai_probe.py): one connection, a  *)
(* raw file of every byte received, a summary written at the end, and an   *)
(* exit code that says which of it happened.  The user may interrupt it at *)
(* any await, the stream may end or break, and the disk may refuse writes. *)
(*                                                                         *)
(* Time is counted in ticks from the moment the connection is established. *)
(* The definitions named ...Slip are mutations of the definition after     *)
(* them; the specification uses none.                                      *)
(***************************************************************************)
EXTENDS Naturals

CONSTANTS Duration,       \* config.duration_seconds
          ConnectTimeout, \* CONNECT_TIMEOUT_SECONDS
          ChunkSizes,     \* how many bytes a read may return
          None,
          MaxBytes,       \* bound of the runs: bytes the module sends
          MaxInterrupts   \* bound of the runs: interrupts by the user

Outcomes == {"duration_elapsed", "connection_failed", "eof_before_duration", "cancelled"}

ASSUME TimesArePositive == Duration \in Nat \ {0} /\ ConnectTimeout \in Nat \ {0}
ASSUME ChunksAreSizes == ChunkSizes \subseteq Nat \ {0}
ASSUME NoneIsNothing == /\ None \notin Nat
                        /\ None \notin [outcome : Outcomes, total : Nat]
                        /\ None \notin {"output", "transport"}

VARIABLES stage,        \* the await run_capture is suspended at
          clock,        \* ticks since the connect began, then since it succeeded; 0 at the end
          connected,    \* the connection is open
          fileOpen,     \* raw_bytes.bin is open
          raw,          \* bytes in raw_bytes.bin
          total,        \* total_bytes
          outcome,      \* outcome
          escaping,     \* the exception on its way out of run_capture, or None
          summary,      \* summary.json, or None
          exit,         \* the exit code, or None
          interrupts    \* counted for the bound

capture == <<raw, total>>
vars == <<stage, clock, connected, fileOpen, raw, total, outcome,
          escaping, summary, exit, interrupts>>

Init ==
  /\ stage = "preparing" /\ clock = 0 /\ connected = FALSE /\ fileOpen = FALSE
  /\ raw = 0 /\ total = 0
  /\ outcome = "duration_elapsed" /\ escaping = None
  /\ summary = None /\ exit = None /\ interrupts = 0

Exit(code) == stage' = "exited" /\ exit' = code

----------------------------------------------------------------------------
\* The command line asks for help and for nothing else.
Help ==
  /\ stage = "preparing"
  /\ stage' = "helped" /\ exit' = 0
  /\ UNCHANGED <<clock, connected, fileOpen, capture, outcome, escaping, summary, interrupts>>

\* The gates of the command line: without the confirmation, or for a duration that
\* is not positive or too short, nothing is created and nothing connected.
Refuse ==
  /\ stage = "preparing"
  /\ Exit(1)
  /\ UNCHANGED <<clock, connected, fileOpen, capture, outcome, escaping, summary, interrupts>>

\* The gates are passed and the capture directory is made; a failure is reported as 1.
Prepare ==
  /\ stage = "preparing"
  /\ \/ stage' = "connecting" /\ UNCHANGED exit
     \/ Exit(1)
  /\ UNCHANGED <<clock, connected, fileOpen, capture, outcome, escaping, summary, interrupts>>

\* _write_outputs, the summary and then the notes: an error of the disk is a 1,
\* reported or as the code of an uncaught exception.
WriteOutputs(content, code) ==
  \/ summary' = content /\ Exit(code)
  \/ summary' \in {summary, content} /\ Exit(1)

ConnectFails ==
  /\ stage = "connecting"
  /\ outcome' = "connection_failed"
  /\ WriteOutputs([outcome |-> "connection_failed", total |-> 0], 2)
  /\ clock' = 0
  /\ UNCHANGED <<connected, fileOpen, capture, escaping, interrupts>>

\* The connection is up and the raw file is opened, if the disk lets it.
Connect ==
  /\ stage = "connecting"
  /\ clock' = 0
  /\ connected' = TRUE
  /\ \/ fileOpen' = TRUE /\ stage' = "reading" /\ UNCHANGED escaping
     \/ fileOpen' = FALSE /\ stage' = "closing" /\ escaping' = "output"
  /\ UNCHANGED <<capture, outcome, summary, exit, interrupts>>

\* The with block is left: the file is closed before the writer is.
LeaveLoop == stage' = "closing" /\ fileOpen' = FALSE

\* A chunk is written, counted and parsed before the next await.
ReadChunk(size) ==
  /\ stage = "reading" /\ clock < Duration
  /\ raw + size <= MaxBytes
  /\ raw' = raw + size
  /\ total' = total + size
  /\ UNCHANGED <<stage, clock, connected, fileOpen, outcome, escaping, summary, exit, interrupts>>

\* A refused write is passed over.
SwallowedWriteSlip ==
  /\ stage = "reading"
  /\ total < MaxBytes
  /\ total' = total + 1
  /\ UNCHANGED <<stage, clock, connected, fileOpen, raw, outcome, escaping, summary, exit, interrupts>>

\* The disk refuses a chunk, or what is still buffered when the file is closed.
WriteFails ==
  /\ stage = "reading"
  /\ LeaveLoop /\ escaping' = "output"
  /\ UNCHANGED <<clock, connected, capture, outcome, summary, exit, interrupts>>

EndOfStream ==
  /\ stage = "reading"
  /\ LeaveLoop /\ outcome' = "eof_before_duration"
  /\ UNCHANGED <<clock, connected, capture, escaping, summary, exit, interrupts>>

Elapse ==
  /\ stage = "reading" /\ clock >= Duration
  /\ LeaveLoop
  /\ UNCHANGED <<clock, connected, capture, outcome, escaping, summary, exit, interrupts>>

\* The read raises an OSError: nothing in run_capture expects it, except where it is a
\* TimeoutError (ETIMEDOUT), which is taken for the end of the duration.
ReadFails ==
  /\ stage = "reading"
  /\ LeaveLoop /\ escaping' \in {"transport", None}
  /\ UNCHANGED <<clock, connected, capture, outcome, summary, exit, interrupts>>

\* An interrupted read is a normal end of the capture.
InterruptRead ==
  /\ stage = "reading" /\ interrupts < MaxInterrupts
  /\ LeaveLoop /\ outcome' = "cancelled"
  /\ interrupts' = interrupts + 1
  /\ UNCHANGED <<clock, connected, capture, escaping, summary, exit>>

\* Elsewhere main() turns the interrupt into a 3; the finally block has closed
\* the writer.
InterruptElsewhere ==
  /\ stage \in {"connecting", "closing"} /\ interrupts < MaxInterrupts
  /\ connected' = FALSE /\ clock' = 0
  /\ interrupts' = interrupts + 1
  /\ Exit(3)
  /\ UNCHANGED <<fileOpen, capture, outcome, escaping, summary>>

\* The data decides before the interruption does.
DataFirstSlip == IF total = 0 THEN 2 ELSE 0

ExitCode == CASE outcome = "cancelled" -> 3
              [] outcome # "cancelled" /\ total = 0 -> 2
              [] OTHER -> 0

\* The writer is closed; then the outputs are written, unless an exception is
\* on its way: the interpreter exits with 1.
Finish ==
  /\ stage = "closing"
  /\ connected' = FALSE /\ clock' = 0
  /\ IF escaping # None
     THEN UNCHANGED summary /\ Exit(1)
     ELSE WriteOutputs([outcome |-> outcome, total |-> total], ExitCode)
  /\ UNCHANGED <<fileOpen, capture, outcome, escaping, interrupts>>

\* The read is not bounded by the time that remains.
UnboundedReadSlip ==
  /\ stage \in {"connecting", "reading"}
  /\ clock < IF stage = "connecting" THEN ConnectTimeout ELSE Duration - 1
  /\ clock' = clock + 1
  /\ UNCHANGED <<stage, connected, fileOpen, capture, outcome, escaping, summary, exit, interrupts>>

\* Time passes, but a timeout that is due is handled first.
Tick ==
  /\ \/ stage = "connecting" /\ clock < ConnectTimeout
     \/ stage = "reading" /\ clock < Duration
  /\ clock' = clock + 1
  /\ UNCHANGED <<stage, connected, fileOpen, capture, outcome, escaping, summary, exit, interrupts>>

Interrupt == InterruptRead \/ InterruptElsewhere

\* What the event loop does by itself when something is due.
Proceed ==
  \/ Prepare \/ Finish \/ Elapse
  \/ clock >= ConnectTimeout /\ ConnectFails

Next ==
  \/ Help \/ Refuse \/ Proceed \/ ConnectFails \/ Connect
  \/ \E size \in ChunkSizes : ReadChunk(size)
  \/ WriteFails \/ EndOfStream \/ ReadFails \/ Interrupt \/ Tick

\* The loop runs what is due and the clock does not stop; nothing is assumed of
\* the module, the disk or the user.
Spec == Init /\ [][Next]_vars /\ WF_vars(Proceed) /\ WF_vars(Tick)

----------------------------------------------------------------------------
(* A type invariant of the local variables of run_capture.                 *)
TypeOK ==
  /\ stage \in {"preparing", "connecting", "reading", "closing", "exited", "helped"}
  /\ clock \in Nat /\ raw \in Nat /\ total \in Nat
  /\ connected \in BOOLEAN /\ fileOpen \in BOOLEAN
  /\ outcome \in Outcomes
  /\ escaping \in {None, "output", "transport"}
  /\ summary \in [outcome : Outcomes, total : Nat] \cup {None}
  /\ exit \in 0..3 \cup {None}

(* The summary is written last and agrees with the raw file: it counts the *)
(* bytes that are in it, whatever the disk refused and whenever the        *)
(* capture was interrupted, and both connection and file are closed.       *)
SummaryAgreesWithRaw ==
  summary # None => summary.total = raw /\ ~fileOpen /\ ~connected

(* The exit codes 0 and 2 of a probe that was not asked for help are       *)
(* earned: 0 has data and its summary and was not interrupted; 2 has a     *)
(* summary and no data.  A request for help connects and creates nothing.  *)
ExitCodeIsEarned ==
  /\ stage = "helped" => raw = 0 /\ summary = None /\ ~connected /\ ~fileOpen
  /\ exit = 0 /\ stage # "helped" => summary # None /\ raw > 0 /\ summary.outcome # "cancelled"
  /\ exit = 2 => summary # None /\ raw = 0

(* No path out of the probe leaves the connection or the file open.        *)
NothingLeftOpen == stage \in {"exited", "helped"} => ~connected /\ ~fileOpen

(* What ties the stages to the resources they hold and to the bytes that    *)
(* were counted.  (The invariant the theorems on this module rest on.)     *)
ProbeInv ==
  /\ TypeOK
  /\ SummaryAgreesWithRaw /\ ExitCodeIsEarned /\ NothingLeftOpen
  /\ total = raw
  /\ fileOpen => stage = "reading"
  /\ connected => stage \in {"reading", "closing"}
  /\ stage \in {"preparing", "connecting", "helped"} => raw = 0
  /\ summary # None => stage = "exited"
  /\ exit # None => stage \in {"exited", "helped"}

(* The probe ends by itself, within its duration, also when the module     *)
(* never says anything.                                                    *)
CaptureEnds == <>(stage \in {"exited", "helped"})

=============================================================================
