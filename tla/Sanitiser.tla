---------------------------------- MODULE Sanitiser ----------------------------------
(***************************************************************************)
(* The sanitiser's main(): it refuses, or builds the fixtures (Redaction)   *)
(* and writes them and a report, and says with its exit code which of it    *)
(* happened.  What it calls for that are operators of Redaction.  It may be *)
(* run again, with the same directories, over what an earlier run left.     *)
(***************************************************************************)
EXTENDS Naturals

CONSTANTS Captures, None,
          Unreadable(_), Structure(_), Consistent(_, _),  \* analyse_capture and main()
          Sanitisable(_), Sanitised(_),                   \* sanitise_payload
          BuildRaises(_, _), Fixture(_, _),               \* build_fixture_files
          MaxRuns                                         \* bound of the runs: how often it is run

VARIABLES stage,     \* how far main() has come
          input,     \* the frames of the --input capture
          other,     \* the frames of the --verify-against capture, or None
          structure, \* what analyse_capture made of it, or None
          synthetic, \* the sanitised payload, or None
          fixture,   \* the contents of the two fixtures, once they are built
          files,     \* each output file: the run that wrote to it last, and if it is whole
          exit,      \* the exit code, or None
          run,       \* which run it is; the files there at first are of run 0
          told       \* auxiliary: the exit code of the last run that changed a file

locals == <<input, other, structure, synthetic>>
vars == <<stage, locals, fixture, files, exit, run, told>>

---------------------------------------------------------------------------------------
(* main() *)

Init == /\ stage = "idle" /\ input = None /\ other = None
        /\ structure = None /\ synthetic = None /\ fixture = None
        /\ files = [f \in {"stream", "metadata", "report"} |-> [by |-> 0, whole |-> TRUE]]
        /\ exit = None /\ run = 0 /\ told = 0

Exit(code) == stage' = "exited" /\ exit' = code
Proceed(next) == stage' = next /\ UNCHANGED exit

\* A command line is given: for the first time, or after a run is over.
Start(capture, verify) ==
    /\ stage \in {"idle", "exited"} /\ run < MaxRuns
    /\ run' = run + 1
    /\ input' = capture /\ other' = verify
    /\ structure' = None /\ synthetic' = None /\ fixture' = None
    /\ UNCHANGED <<files, told>>

\* It asks for help, is refused by the parser or a gate, or names a capture, and another
\* one to verify it against or None.
Help == Start(None, None) /\ Exit(0)
Refuse == Start(None, None) /\ Exit(1)
Run(capture, verify) == Start(capture, verify) /\ stage' = "analysing" /\ exit' = None

Analyse == /\ stage = "analysing"
           /\ IF Unreadable(input) THEN Exit(2) /\ UNCHANGED structure
              ELSE /\ structure' = Structure(input)
                   /\ Proceed("verifying")
           /\ UNCHANGED <<input, other, synthetic, fixture, files, run, told>>

\* The structure of the other capture, if there is one, is compared.
Verify == /\ stage = "verifying"
          /\ \/ other = None /\ Proceed("sanitising")
             \/ other # None /\ Exit(1)   \* the file is not there
             \/ /\ other # None
                /\ IF Unreadable(other) THEN Exit(2)
                   ELSE IF ~Consistent(Structure(other), structure) THEN Exit(3)
                   ELSE Proceed("sanitising")
          /\ UNCHANGED <<locals, fixture, files, run, told>>

Sanitise == /\ stage = "sanitising"
            /\ IF ~Sanitisable(structure.best) THEN Exit(2) /\ UNCHANGED synthetic
               ELSE /\ synthetic' = Sanitised(structure.best)
                    /\ Proceed("building")
            /\ UNCHANGED <<input, other, structure, fixture, files, run, told>>

\* Both fixtures are built before the first is written; the ValueError is caught nowhere.
Build == /\ stage = "building"
         /\ IF BuildRaises(synthetic, structure) THEN Exit(1) /\ UNCHANGED fixture
            ELSE /\ fixture' = Fixture(synthetic, structure)
                 /\ Proceed("stream")
         /\ UNCHANGED <<locals, files, run, told>>

\* A run that may have changed files ends.
Finish(code) == /\ Exit(code)
                /\ told' = IF \E f \in DOMAIN files : files'[f].by = run THEN code ELSE told

Written(file, whole) == [files EXCEPT ![file] = [by |-> run, whole |-> whole]]

\* One output file is written, or the disk refuses it, before or after it was truncated.
Write(file, next) ==
    /\ stage = file
    /\ \/ files' = Written(file, TRUE) /\ next
       \/ files' \in {files, Written(file, FALSE)} /\ Finish(1)
    /\ UNCHANGED <<locals, fixture, run>>

WriteStream == Write("stream", Proceed("metadata") /\ UNCHANGED told)
WriteMetadata == Write("metadata", Proceed("report") /\ UNCHANGED told)

\* Slip: a report that cannot be written is passed over.
ReportSlip == /\ stage = "report"
              /\ files' \in {files, Written("report", FALSE), Written("report", TRUE)}
              /\ Finish(0)
              /\ UNCHANGED <<locals, fixture, run>>

WriteReport == Write("report", Finish(0))

Step == \/ Analyse \/ Verify \/ Sanitise \/ Build
        \/ WriteStream \/ WriteMetadata \/ WriteReport

---------------------------------------------------------------------------------------
(* Properties *)

\* Every variable has its type.
TypeOK == /\ stage \in {"idle", "analysing", "verifying", "sanitising", "building",
                        "stream", "metadata", "report", "exited"}
          /\ input \in Captures \cup {None} /\ other \in Captures \cup {None}
          /\ files \in [{"stream", "metadata", "report"} -> [by : Nat, whole : BOOLEAN]]
          /\ exit \in (0 .. 3) \cup {None}
          /\ run \in Nat /\ told \in 0 .. 3

Touched == \E f \in DOMAIN files : files[f].by = run
OneRun == \A f, g \in DOMAIN files : files[f].whole /\ files[f].by = files[g].by

\* The exit codes tell what became of the files.  Between runs the three files are
\* complete and of one run if and only if the last run that changed any of them said
\* 0, and that one shared its structure with the capture to verify against, if there
\* was one; 2 and 3 say that nothing was changed.  A report may be left beside
\* fixtures of a later run, but never beside those of an earlier one.
ExitTellsTheFiles ==
    /\ exit # None => (OneRun <=> told = 0)
    /\ exit = 0 /\ Touched /\ other # None =>
          ~Unreadable(other) /\ Consistent(Structure(other), structure)
    /\ exit \in {2, 3} => ~Touched
    /\ files["report"].by <= files["metadata"].by
    /\ files["metadata"].by <= files["stream"].by

\* How far the work has come at each stage: what is written, what was compared, and
\* what the fixtures were built of.  (The invariant the theorems on the sanitiser
\* rest on.)
Reading == {"analysing", "verifying", "sanitising", "building", "stream"}
Writing == {"metadata", "report"}
Accepted == {"sanitising", "building", "stream"} \cup Writing

SanitiserInv ==
    /\ TypeOK /\ ExitTellsTheFiles
    /\ stage # "exited" <=> exit = None
    /\ stage \notin Writing => (OneRun <=> told = 0)
    /\ stage \in Reading => files["stream"].by < run
    /\ stage \in Writing => files["stream"] = [by |-> run, whole |-> TRUE]
    /\ stage = "metadata" => files["metadata"].by < run
    /\ stage = "report" => files["metadata"] = files["stream"] /\ files["report"].by < run
    /\ files["stream"].by <= run
    /\ stage \in Accepted /\ other # None =>
          ~Unreadable(other) /\ Consistent(Structure(other), structure)
    /\ stage \in {"idle", "analysing"} => fixture = None
    /\ stage \in Accepted \cup {"verifying"} \/ fixture # None => structure = Structure(input)
    /\ stage = "building" => synthetic = Sanitised(structure.best)
    /\ fixture # None => fixture = Fixture(Sanitised(structure.best), structure)
=======================================================================================
