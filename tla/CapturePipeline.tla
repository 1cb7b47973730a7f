------------------------------- MODULE CapturePipeline -------------------------------
(***************************************************************************)
(* From the module to the committed fixtures: the probe (CaptureProbe)      *)
(* captures, and the user then gives its raw file to the sanitiser          *)
(* (Sanitiser), once or more, whatever the exit code of the probe was.      *)
(***************************************************************************)
EXTENDS CaptureProbe, Redaction

CONSTANTS FrameBytes,      \* bytes of a frame, of those the probe counts
          VerifyCaptures,  \* captures the user may verify against
          MaxRuns          \* bound of the runs: how often the sanitiser is run

ASSUME NoneIsNoCapture == None \notin Captures /\ VerifyCaptures \subseteq Captures

VARIABLES step, input, other, structure, synthetic, fixture, files, code, run, told  \* see Sanitiser

Sanitising == INSTANCE Sanitiser WITH stage <- step, exit <- code

sanitiserVars == <<step, input, other, structure, synthetic, fixture, files, code, run, told>>
pipelineVars == <<vars, sanitiserVars>>

InitPipeline == Init /\ Sanitising!Init

Capture == Next /\ UNCHANGED sanitiserVars

\* The raw file holds the frames that arrived completely, as far as there are any.
HandOver == /\ stage = "exited"
            /\ \/ \E c \in Captures : \E v \in VerifyCaptures \cup {None} :
                     Len(c) * FrameBytes <= raw /\ Sanitising!Run(c, v)
               \/ Sanitising!Help
               \/ Sanitising!Refuse
            /\ UNCHANGED vars

SanitiseOn == Sanitising!Step /\ UNCHANGED vars

NextPipeline == Capture \/ HandOver \/ SanitiseOn

\* The fairness of the probe; the sanitiser does not wait for anything.
SpecPipeline == /\ InitPipeline /\ [][NextPipeline]_pipelineVars
                /\ WF_vars(Proceed) /\ WF_vars(Tick) /\ WF_pipelineVars(SanitiseOn)

---------------------------------------------------------------------------------------
(* Properties *)

\* What may be told of each capture a fixture can be built of, with the fixture.
Structures == {Structure(c) : c \in {d \in Captures : ~Unreadable(d)}}
Fixtures == UNION {{<<Public(s), Fixture(t, s)>> : t \in {u \in {Sanitised(s.best)} : ~BuildRaises(u, s)}}
                      : s \in {r \in Structures : Sanitisable(r.best)}}

\* The fixtures tell nothing of the household: any other capture that has the same
\* structure, the same kinds of values and the same allowed symbols at the same full
\* paths gives the same fixtures, whatever the capture it was verified against.
FixtureTellsNothing ==
    fixture # None => LET public == Public(structure)
                      IN  \A f \in Fixtures : f[1] = public => f[2] = fixture

\* The exit codes of the sanitiser tell if the files on disk belong together, also when
\* the disk refused one of them and when it is run again.
ExitTellsTheFiles == Sanitising!ExitTellsTheFiles
=======================================================================================
