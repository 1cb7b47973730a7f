------------------------- MODULE CapturePipelineProofs -------------------------
(***************************************************************************)
(* Theorems about CaptureProbe, about Redaction and Sanitiser, and about     *)
(* the pipeline they form: for every duration and every size of chunk, and   *)
(* for every set of captures and every table of the sanitiser.              *)
(***************************************************************************)
EXTENDS CapturePipeline, TLAPS

----------------------------------------------------------------------------
(* The probe *)

\* Writing the outputs for what was counted keeps the invariant.
LEMMA OutputsAgree ==
  ASSUME ProbeInv, NEW name \in Outcomes, NEW c \in {0, 2, 3},
         WriteOutputs([outcome |-> name, total |-> total], c),
         c = 0 => total > 0 /\ name # "cancelled", c = 2 => total = 0,
         stage # "exited", ~fileOpen, ~connected', fileOpen' = fileOpen,
         capture' = capture, stage \in {"connecting", "closing"}
  PROVE  /\ SummaryAgreesWithRaw' /\ ExitCodeIsEarned' /\ NothingLeftOpen'
         /\ stage' = "exited" /\ exit' \in 0..3
         /\ summary' \in [outcome : Outcomes, total : Nat] \cup {None}
<1>1. raw' = raw /\ total' = total /\ total = raw /\ raw \in Nat /\ summary = None /\ stage' = "exited"
  BY DEF ProbeInv, TypeOK, capture, WriteOutputs, Exit
<1>2. CASE summary' = [outcome |-> name, total |-> total] /\ exit' \in {c, 1}
  <2>1. summary' \in [outcome : Outcomes, total : Nat]
    BY <1>1, <1>2
  <2>2. summary'.total = raw' /\ summary'.outcome = name /\ summary' # None
    BY <1>1, <1>2, <2>1, NoneIsNothing
  <2> QED
    BY <1>1, <1>2, <2>1, <2>2 DEF SummaryAgreesWithRaw, ExitCodeIsEarned, NothingLeftOpen
<1>3. CASE UNCHANGED summary /\ exit' = 1
  BY <1>1, <1>3 DEF SummaryAgreesWithRaw, ExitCodeIsEarned, NothingLeftOpen
<1> QED
  BY <1>2, <1>3 DEF WriteOutputs, Exit

\* A step keeps the invariant.
LEMMA ProbeInvStep == ProbeInv /\ [Next]_vars => ProbeInv'
<1> SUFFICES ASSUME ProbeInv, [Next]_vars PROVE ProbeInv'
  OBVIOUS
<1> USE DEF ProbeInv, TypeOK, SummaryAgreesWithRaw, ExitCodeIsEarned, NothingLeftOpen, capture
<1>1. CASE UNCHANGED vars
  BY <1>1 DEF vars
<1>2. CASE Help \/ Refuse \/ Prepare
  BY <1>2, NoneIsNothing DEF Help, Refuse, Prepare, Exit
<1>3. CASE ConnectFails
  <2>1. /\ total = 0 /\ ~fileOpen /\ ~connected /\ stage = "connecting"
        /\ connected' = connected /\ fileOpen' = fileOpen /\ capture' = capture
        /\ clock' = 0 /\ escaping' = escaping /\ outcome' = "connection_failed"
        /\ WriteOutputs([outcome |-> "connection_failed", total |-> total], 2)
    BY <1>3 DEF ConnectFails
  <2> HIDE DEF ProbeInv, SummaryAgreesWithRaw, ExitCodeIsEarned, NothingLeftOpen
  <2>2. /\ SummaryAgreesWithRaw' /\ ExitCodeIsEarned' /\ NothingLeftOpen'
        /\ stage' = "exited" /\ exit' \in 0..3
        /\ summary' \in [outcome : Outcomes, total : Nat] \cup {None}
    BY <2>1, OutputsAgree DEF Outcomes
  <2>3. TypeOK'
    BY <2>1, <2>2 DEF ProbeInv, Outcomes
  <2> QED
    BY <2>1, <2>2, <2>3 DEF ProbeInv
<1>4. CASE Connect
  BY <1>4 DEF Connect
<1>5. ASSUME NEW size \in ChunkSizes, ReadChunk(size) PROVE ProbeInv'
  BY <1>5, ChunksAreSizes DEF ReadChunk
<1>6. CASE WriteFails \/ EndOfStream \/ Elapse \/ ReadFails \/ InterruptRead
  <2>1. /\ stage = "reading" /\ stage' = "closing" /\ fileOpen' = FALSE
        /\ clock' = clock /\ connected' = connected /\ raw' = raw /\ total' = total
        /\ summary' = summary /\ exit' = exit
    BY <1>6 DEF WriteFails, EndOfStream, Elapse, ReadFails, InterruptRead, LeaveLoop
  <2>2. /\ outcome' \in {outcome, "eof_before_duration", "cancelled"}
        /\ escaping' \in {escaping, "output", "transport", None}
    BY <1>6 DEF WriteFails, EndOfStream, Elapse, ReadFails, InterruptRead
  <2> QED
    BY <2>1, <2>2 DEF Outcomes
<1>7. CASE InterruptElsewhere
  <2>1. /\ stage' = "exited" /\ exit' = 3 /\ connected' = FALSE /\ ~fileOpen
        /\ summary = None
        /\ clock' = 0 /\ fileOpen' = fileOpen /\ raw' = raw /\ total' = total
        /\ outcome' = outcome /\ escaping' = escaping /\ summary' = summary
    BY <1>7 DEF InterruptElsewhere, Exit
  <2>2. exit' \in 0..3 /\ exit' # 0 /\ exit' # 2
    BY <2>1
  <2>3. TypeOK'
    BY <2>1, <2>2
  <2> QED
    BY <2>1, <2>2, <2>3
<1>8. CASE Finish
  <2>1. /\ stage = "closing" /\ ~fileOpen /\ connected' = FALSE /\ fileOpen' = fileOpen
        /\ capture' = capture /\ clock' = 0 /\ escaping' = escaping /\ outcome' = outcome
    BY <1>8 DEF Finish
  <2>2. CASE escaping # None
    <3>1. summary' = summary /\ summary = None /\ exit' = 1 /\ stage' = "exited"
      BY <1>8, <2>2 DEF Finish, Exit
    <3>2. exit' \in 0..3 /\ exit' # 0 /\ exit' # 2
      BY <3>1
    <3>3. TypeOK'
      BY <2>1, <3>1, <3>2
    <3> QED
      BY <2>1, <3>1, <3>2, <3>3
  <2>3. CASE escaping = None
    <3>1. WriteOutputs([outcome |-> outcome, total |-> total], ExitCode)
      BY <1>8, <2>3 DEF Finish
    <3>2. /\ ExitCode \in {0, 2, 3}
          /\ ExitCode = 0 => total > 0 /\ outcome # "cancelled"
          /\ ExitCode = 2 => total = 0
      <4>1. CASE outcome = "cancelled"
        BY <4>1 DEF ExitCode
      <4>2. CASE outcome # "cancelled" /\ total = 0
        BY <4>2 DEF ExitCode
      <4>3. CASE outcome # "cancelled" /\ total # 0
        BY <4>3 DEF ExitCode
      <4> QED
        BY <4>1, <4>2, <4>3
    <3>3. outcome \in Outcomes
      OBVIOUS
    <3> HIDE DEF ProbeInv, SummaryAgreesWithRaw, ExitCodeIsEarned, NothingLeftOpen
    <3>4. /\ SummaryAgreesWithRaw' /\ ExitCodeIsEarned' /\ NothingLeftOpen'
          /\ stage' = "exited" /\ exit' \in 0..3
          /\ summary' \in [outcome : Outcomes, total : Nat] \cup {None}
      BY <2>1, <3>1, <3>2, <3>3, OutputsAgree
    <3> QED
      BY <2>1, <3>4 DEF ProbeInv
  <2> QED
    BY <2>2, <2>3
<1>9. CASE Tick
  BY <1>9 DEF Tick
<1> QED
  BY <1>1, <1>2, <1>3, <1>4, <1>5, <1>6, <1>7, <1>8, <1>9 DEF Next, Proceed, Interrupt

\* The probe begins in a state of its invariant.
LEMMA ProbeInvInit == Init => ProbeInv
<1> SUFFICES ASSUME Init PROVE ProbeInv
  OBVIOUS
<1>1. /\ stage = "preparing" /\ clock = 0 /\ raw = 0 /\ total = 0 /\ connected = FALSE
      /\ fileOpen = FALSE /\ outcome = "duration_elapsed" /\ escaping = None
      /\ summary = None /\ exit = None
  BY DEF Init
<1>2. TypeOK
  BY <1>1 DEF TypeOK, Outcomes
<1>3. exit # 0 /\ exit # 2
  BY <1>1, NoneIsNothing
<1> QED
  BY <1>1, <1>2, <1>3 DEF ProbeInv, SummaryAgreesWithRaw, ExitCodeIsEarned, NothingLeftOpen

\* The stages of the probe, the resources it holds and the bytes it counted agree.
THEOREM ProbeInvariant == Spec => []ProbeInv
BY ProbeInvInit, ProbeInvStep, PTL DEF Spec

\* The probe never exits with its connection or its file open.
THEOREM ProbeLeavesNothing == Spec => []NothingLeftOpen
<1>1. ProbeInv => NothingLeftOpen
  BY DEF ProbeInv
<1> QED
  BY <1>1, ProbeInvariant, PTL


----------------------------------------------------------------------------
(* The redaction *)

\* What may be told of a leaf decides what the sanitiser makes of it: two leaves of
\* which the same may be told become the same, if the numbers around them agree.
LEMMA ToldDecides ==
  ASSUME NEW l, NEW m, Told(l) = Told(m)
  PROVE  /\ l.path = m.path
         /\ Generic(l) <=> Generic(m)
         /\ \A ls, ms : GenericKeys(ls) = GenericKeys(ms) => SanitiseValue(ls, l) = SanitiseValue(ms, m)
<1> DEFINE Shown(x) == \/ x.value \in Flags \/ <<x.path, x.value>> \in PathSymbols \/ x.value = ""
                       \/ x.value = Sentinel /\ Key(x.path) = "MT"
           KindsOf(x) == {K \in Kinds : x.value \in K}
<1>1. \A x : Told(x) = IF Shown(x) THEN [path |-> x.path, symbol |-> {x.value}, kind |-> {}]
                       ELSE [path |-> x.path, symbol |-> {}, kind |-> KindsOf(x)]
  BY DEF Told
<1> HIDE DEF Shown, KindsOf
<1>2. l.path = m.path
  BY <1>1
<1>3. \/ Shown(l) /\ Shown(m) /\ l.value = m.value
      \/ ~Shown(l) /\ ~Shown(m) /\ KindsOf(l) = KindsOf(m)
  <2>1. CASE Shown(l) /\ Shown(m)
    BY <1>1, <2>1
  <2>2. CASE ~Shown(l) /\ ~Shown(m)
    BY <1>1, <2>2
  <2>3. CASE Shown(l) /\ ~Shown(m)
    BY <1>1, <2>3
  <2>4. CASE ~Shown(l) /\ Shown(m)
    BY <1>1, <2>4
  <2> QED
    BY <2>1, <2>2, <2>3, <2>4
<1>4. CASE l.value = m.value
  <2>1. Generic(l) <=> Generic(m)
    BY <1>2, <1>4 DEF Generic
  <2>2. ASSUME NEW ls, NEW ms, GenericKeys(ls) = GenericKeys(ms)
        PROVE  SanitiseValue(ls, l) = SanitiseValue(ms, m)
    BY <1>2, <1>4, <2>2 DEF SanitiseValue, SyntheticNumber
  <2> QED
    BY <1>2, <2>1, <2>2
<1>5. CASE ~Shown(l) /\ ~Shown(m) /\ KindsOf(l) = KindsOf(m)
  <2>1. \A K \in Kinds : l.value \in K <=> m.value \in K
    BY <1>5 DEF KindsOf
  <2>2. /\ l.value \in Ints <=> m.value \in Ints
        /\ l.value \in Letters <=> m.value \in Letters
        /\ l.value \in Numbers <=> m.value \in Numbers
        /\ l.value \in Times <=> m.value \in Times
        /\ l.value \in Days <=> m.value \in Days
        /\ l.value \in Codes <=> m.value \in Codes
    BY <2>1 DEF Kinds
  <2>3. ~Approved(l.path, l.value) /\ ~Approved(m.path, m.value) /\ l.value # "" /\ m.value # ""
    BY <1>5 DEF Shown, Approved
  <2>4. Key(l.path) = "MT" => l.value # Sentinel /\ m.value # Sentinel
    BY <1>2, <1>5 DEF Shown
  <2>5. Generic(l) <=> Generic(m)
    BY <1>2, <2>2 DEF Generic
  <2>6. ASSUME NEW ls, NEW ms, GenericKeys(ls) = GenericKeys(ms)
        PROVE  SanitiseValue(ls, l) = SanitiseValue(ms, m)
    <3>1. SyntheticNumber(ls, l) = SyntheticNumber(ms, m)
      BY <1>2, <2>4, <2>6 DEF SyntheticNumber
    <3> QED
      BY <1>2, <2>2, <2>3, <3>1 DEF SanitiseValue
  <2> QED
    BY <1>2, <2>5, <2>6
<1> QED
  BY <1>3, <1>4, <1>5

\* So payloads of which the same may be told, leaf by leaf, are sanitised alike.
LEMMA SanitisedAlike ==
  ASSUME NEW ls, NEW ms,
         [i \in DOMAIN ls |-> Told(ls[i])] = [i \in DOMAIN ms |-> Told(ms[i])]
  PROVE  Sanitised(ls) = Sanitised(ms)
<1>1. DOMAIN ls = DOMAIN ms /\ \A i \in DOMAIN ls : Told(ls[i]) = Told(ms[i])
  <2>1. DOMAIN [i \in DOMAIN ls |-> Told(ls[i])] = DOMAIN [i \in DOMAIN ms |-> Told(ms[i])]
    OBVIOUS
  <2>2. DOMAIN ls = DOMAIN ms
    BY <2>1
  <2>3. ASSUME NEW i \in DOMAIN ls PROVE Told(ls[i]) = Told(ms[i])
    <3>1. [j \in DOMAIN ls |-> Told(ls[j])][i] = [j \in DOMAIN ms |-> Told(ms[j])][i]
      OBVIOUS
    <3> QED
      BY <2>2, <3>1
  <2> QED
    BY <2>2, <2>3
<1>2. \A i \in DOMAIN ls : ls[i].path = ms[i].path /\ (Generic(ls[i]) <=> Generic(ms[i]))
  BY <1>1, ToldDecides
<1>3. GenericKeys(ls) = GenericKeys(ms)
  <2>1. {i \in DOMAIN ls : Generic(ls[i])} = {i \in DOMAIN ms : Generic(ms[i])}
    BY <1>1, <1>2
  <2> QED
    BY <1>2, <2>1 DEF GenericKeys
<1>4. \A i \in DOMAIN ls : SanitiseValue(ls, ls[i]) = SanitiseValue(ms, ms[i])
  BY <1>1, <1>3, ToldDecides
<1> QED
  BY <1>1, <1>2, <1>4 DEF Sanitised

\* And structures of which the same may be told give the same fixtures.
LEMMA PublicDecides ==
  ASSUME NEW c, NEW d, Public(Structure(c)) = Public(Structure(d))
  PROVE  Fixture(Sanitised(Structure(c).best), Structure(c)) =
         Fixture(Sanitised(Structure(d).best), Structure(d))
<1> DEFINE s == Structure(c)
           t == Structure(d)
           publicBest(x) == [i \in DOMAIN x.best |-> Told(x.best[i])]
<1>1. /\ s = [groups |-> s.groups, paths |-> s.paths, zones |-> s.zones, best |-> s.best]
      /\ t = [groups |-> t.groups, paths |-> t.paths, zones |-> t.zones, best |-> t.best]
  BY DEF Structure
<1> HIDE DEF s, t
<1>2. /\ Public(s) = [groups |-> s.groups, paths |-> s.paths, zones |-> s.zones, best |-> publicBest(s)]
      /\ Public(t) = [groups |-> t.groups, paths |-> t.paths, zones |-> t.zones, best |-> publicBest(t)]
  BY <1>1 DEF Public
<1>3. Public(s) = Public(t)
  BY DEF s, t
<1>4. s.groups = t.groups /\ s.zones = t.zones /\ publicBest(s) = publicBest(t)
  BY <1>2, <1>3
<1>5. Sanitised(s.best) = Sanitised(t.best)
  BY <1>4, SanitisedAlike
<1>6. Fixture(Sanitised(s.best), s) = Fixture(Sanitised(t.best), t)
  BY <1>4, <1>5 DEF Fixture, Metadata
<1> QED
  BY <1>6 DEF s, t

----------------------------------------------------------------------------
(* The sanitiser, as a part of the pipeline *)

\* A file that is written, completely or not, is of this run, and the others stay.
LEMMA FilesWritten ==
  ASSUME Sanitising!TypeOK, NEW file \in {"stream", "metadata", "report"}, NEW w \in BOOLEAN,
         files' = Sanitising!Written(file, w)
  PROVE  /\ files' \in [{"stream", "metadata", "report"} -> [by : Nat, whole : BOOLEAN]]
         /\ files'[file] = [by |-> run, whole |-> w]
         /\ \A f \in {"stream", "metadata", "report"} \ {file} : files'[f] = files[f]
BY DEF Sanitising!TypeOK, Sanitising!Written

\* Writing a file, or failing to, keeps the invariant.
LEMMA WriteStep ==
  ASSUME Sanitising!SanitiserInv,
         Sanitising!WriteStream \/ Sanitising!WriteMetadata \/ Sanitising!WriteReport
  PROVE  Sanitising!SanitiserInv'
<1> DEFINE Files == {"stream", "metadata", "report"}
<1>0. None \notin 0 .. 3
  BY NoneIsNothing
<1>1. Sanitising!TypeOK /\ DOMAIN files = Files /\ run \in Nat
  BY DEF Sanitising!SanitiserInv, Sanitising!TypeOK
<1>2. PICK file \in Files :
         /\ step = file
         /\ \/ /\ files' = Sanitising!Written(file, TRUE)
               /\ file = "stream" /\ step' = "metadata" /\ UNCHANGED <<code, told>>
            \/ /\ files' = Sanitising!Written(file, TRUE)
               /\ file = "metadata" /\ step' = "report" /\ UNCHANGED <<code, told>>
            \/ files' = Sanitising!Written(file, TRUE) /\ file = "report" /\ Sanitising!Finish(0)
            \/ files' = files /\ Sanitising!Finish(1)
            \/ files' = Sanitising!Written(file, FALSE) /\ Sanitising!Finish(1)
         /\ UNCHANGED <<input, other, structure, synthetic, fixture, run>>
  <2>1. CASE Sanitising!WriteStream
    BY <2>1 DEF Sanitising!WriteStream, Sanitising!Write, Sanitising!Proceed, Sanitising!locals
  <2>2. CASE Sanitising!WriteMetadata
    BY <2>2 DEF Sanitising!WriteMetadata, Sanitising!Write, Sanitising!Proceed, Sanitising!locals
  <2>3. CASE Sanitising!WriteReport
    BY <2>3 DEF Sanitising!WriteReport, Sanitising!Write, Sanitising!locals
  <2> QED
    BY <2>1, <2>2, <2>3
\* The files, before and after: which are of this run, and complete.
<1>3. /\ files["stream"] \in [by : Nat, whole : BOOLEAN]
      /\ files["metadata"] \in [by : Nat, whole : BOOLEAN]
      /\ files["report"] \in [by : Nat, whole : BOOLEAN]
      /\ files["report"].by <= files["metadata"].by /\ files["metadata"].by <= files["stream"].by
      /\ step = "stream" => files["stream"].by < run /\ (Sanitising!OneRun <=> told = 0)
      /\ step # "stream" => files["stream"].by = run /\ files["stream"].whole
      /\ step = "metadata" => files["metadata"].by < run
      /\ step = "report" => /\ files["metadata"].by = run /\ files["metadata"].whole
                            /\ files["report"].by < run
  BY <1>1, <1>2 DEF Sanitising!SanitiserInv, Sanitising!TypeOK, Sanitising!ExitTellsTheFiles,
                    Sanitising!Reading, Sanitising!Writing
<1>4. /\ files' \in [Files -> [by : Nat, whole : BOOLEAN]]
      /\ \A f \in Files \ {file} : files'[f] = files[f]
      /\ \A w \in BOOLEAN :
            files' = Sanitising!Written(file, w) => files'[file] = [by |-> run, whole |-> w]
  BY <1>1, <1>2, FilesWritten DEF Sanitising!TypeOK
<1>5. /\ Sanitising!OneRun' <=>
           /\ files'["stream"].whole /\ files'["metadata"].whole /\ files'["report"].whole
           /\ files'["metadata"].by = files'["stream"].by
           /\ files'["report"].by = files'["stream"].by
      /\ Sanitising!Touched' <=> \E f \in Files : files'[f].by = run
  BY <1>2, <1>4 DEF Sanitising!OneRun, Sanitising!Touched
<1>6. \A n \in {0, 1} : Sanitising!Finish(n) =>
         /\ step' = "exited" /\ code' = n
         /\ told' = IF Sanitising!Touched' THEN n ELSE told
  BY <1>1, <1>5 DEF Sanitising!Finish, Sanitising!Exit
<1>7. told \in 0 .. 3 /\ code \in (0 .. 3) \cup {None}
  BY <1>1 DEF Sanitising!TypeOK
\* The order of the runs that wrote the files, and what the exit code tells of them.
<1> DEFINE Ordered == /\ files'["report"].by <= files'["metadata"].by
                      /\ files'["metadata"].by <= files'["stream"].by
                      /\ files'["stream"].by <= run
           Ends == /\ step' = "exited" /\ code' \in {0, 1} /\ told' \in 0 .. 3
                   /\ Sanitising!OneRun' <=> told' = 0
           Goes == /\ UNCHANGED <<code, told>>
                   /\ files'["stream"] = [by |-> run, whole |-> TRUE]
                   /\ \/ step' = "metadata" /\ files'["metadata"].by < run
                      \/ /\ step' = "report" /\ files'["report"].by < run
                         /\ files'["metadata"] = files'["stream"]
<1>8. ASSUME files' = Sanitising!Written(file, TRUE) /\ step' \in {"metadata", "report"}
      PROVE  Ordered /\ (Ends \/ Goes)
  <2>1. files'[file] = [by |-> run, whole |-> TRUE] /\ file # "report" /\ UNCHANGED <<code, told>>
    BY <1>2, <1>4, <1>6, <1>8
  <2>2. CASE file = "stream"
    <3>1. files'["metadata"] = files["metadata"] /\ files'["report"] = files["report"]
      BY <1>4, <2>2
    <3>2. step' = "metadata" /\ files["stream"].by < run
      BY <1>2, <1>3, <1>6, <1>8, <2>2
    <3> QED
      BY <1>1, <1>3, <2>1, <2>2, <3>1, <3>2
  <2>3. CASE file = "metadata"
    <3>1. files'["stream"] = files["stream"] /\ files'["report"] = files["report"]
      BY <1>4, <2>3
    <3>2. step' = "report" /\ files["metadata"].by < run /\ files["stream"] = [by |-> run, whole |-> TRUE]
      BY <1>2, <1>3, <1>6, <1>8, <2>3
    <3> QED
      BY <1>1, <1>3, <2>1, <2>3, <3>1, <3>2
  <2> QED
    BY <2>1, <2>2, <2>3
<1>9. ASSUME files' = Sanitising!Written(file, TRUE) /\ file = "report" /\ Sanitising!Finish(0)
      PROVE  Ordered /\ (Ends \/ Goes)
  <2>1. /\ files'["report"] = [by |-> run, whole |-> TRUE]
        /\ files'["stream"] = files["stream"] /\ files'["metadata"] = files["metadata"]
    BY <1>4, <1>9
  <2>2. /\ files["stream"].by = run /\ files["stream"].whole
        /\ files["metadata"].by = run /\ files["metadata"].whole
    BY <1>2, <1>3, <1>9
  <2>3. Sanitising!OneRun' /\ Sanitising!Touched'
    BY <1>5, <2>1, <2>2
  <2>4. Ends
    BY <1>6, <1>9, <2>3
  <2>5. Ordered
    <3>1. files'["report"].by = run /\ files'["metadata"].by = run /\ files'["stream"].by = run
      BY <2>1, <2>2
    <3> QED
      BY <1>1, <3>1
  <2> QED
    BY <2>4, <2>5
<1>10. ASSUME files' = files /\ Sanitising!Finish(1)
       PROVE  Ordered /\ (Ends \/ Goes)
  <2>1. CASE step = "stream"
    <3>1. ~Sanitising!Touched'
      BY <1>1, <1>3, <1>5, <1>10, <2>1
    <3>2. Sanitising!OneRun' <=> Sanitising!OneRun
      BY <1>10 DEF Sanitising!OneRun
    <3> QED
      BY <1>1, <1>3, <1>6, <1>7, <1>10, <2>1, <3>1, <3>2
  <2>2. CASE step # "stream"
    <3>1. files["stream"].by = run /\ (files["metadata"].by < run \/ files["report"].by < run)
      BY <1>2, <1>3, <2>2
    <3>2. Sanitising!Touched' /\ ~Sanitising!OneRun'
      BY <1>1, <1>3, <1>5, <1>10, <3>1
    <3> QED
      BY <1>1, <1>3, <1>6, <1>10, <3>1, <3>2
  <2> QED
    BY <2>1, <2>2
<1>11. ASSUME files' = Sanitising!Written(file, FALSE) /\ Sanitising!Finish(1)
       PROVE  Ordered /\ (Ends \/ Goes)
  <2>1. files'[file] = [by |-> run, whole |-> FALSE]
    BY <1>4, <1>11
  <2>2. Sanitising!Touched' /\ ~Sanitising!OneRun'
    BY <1>2, <1>5, <2>1
  <2>3. Ends
    BY <1>6, <1>11, <2>2
  <2>4. Ordered
    <3>1. CASE file = "stream"
      BY <1>1, <1>2, <1>3, <1>4, <2>1, <3>1
    <3>2. CASE file = "metadata"
      BY <1>1, <1>2, <1>3, <1>4, <2>1, <3>2
    <3>3. CASE file = "report"
      BY <1>1, <1>2, <1>3, <1>4, <2>1, <3>3
    <3> QED
      BY <3>1, <3>2, <3>3
  <2> QED
    BY <2>3, <2>4
<1>12. Ordered /\ (Ends \/ Goes)
  BY <1>2, <1>8, <1>9, <1>10, <1>11
<1>13. Sanitising!TypeOK'
  BY <1>1, <1>2, <1>4, <1>7, <1>12 DEF Sanitising!TypeOK
\* What the fixtures were built of is not touched.
<1>14. /\ step \in Sanitising!Accepted /\ step \notin {"idle", "analysing", "building"}
       /\ structure' = Structure(input')
       /\ fixture' # None => fixture' = Fixture(Sanitised(structure'.best), structure')
       /\ other' # None => ~Unreadable(other') /\ Consistent(Structure(other'), structure')
  BY <1>2 DEF Sanitising!SanitiserInv, Sanitising!Accepted, Sanitising!Writing
<1>15. Sanitising!ExitTellsTheFiles'
  <2>1. CASE Ends
    BY <1>0, <1>12, <1>14, <2>1 DEF Sanitising!ExitTellsTheFiles
  <2>2. CASE Goes
    <3>1. code' = None
      BY <1>2, <1>14, <2>2 DEF Sanitising!SanitiserInv, Sanitising!Accepted, Sanitising!Writing
    <3> QED
      BY <1>0, <1>12, <1>14, <3>1 DEF Sanitising!ExitTellsTheFiles
  <2> QED
    BY <1>12, <2>1, <2>2
<1>16. CASE Ends
  BY <1>0, <1>2, <1>12, <1>13, <1>14, <1>15, <1>16
  DEF Sanitising!SanitiserInv, Sanitising!Accepted, Sanitising!Reading, Sanitising!Writing
<1>17. CASE Goes
  <2>1. code' = None
    BY <1>2, <1>14, <1>17 DEF Sanitising!SanitiserInv, Sanitising!Accepted, Sanitising!Writing
  <2>2. /\ step' \in Sanitising!Writing /\ step' # "exited" /\ step' \notin Sanitising!Reading
        /\ step' \notin {"idle", "analysing", "building"}
    BY <1>17 DEF Sanitising!Reading, Sanitising!Writing
  <2> QED
    BY <1>2, <1>12, <1>13, <1>14, <1>15, <1>17, <2>1, <2>2 DEF Sanitising!SanitiserInv
<1> QED
  BY <1>12, <1>16, <1>17

\* A step of the sanitiser, or its start on any captures, keeps the invariant.
LEMMA SanitiserStep ==
  ASSUME Sanitising!SanitiserInv,
         \/ Sanitising!Step \/ Sanitising!Help \/ Sanitising!Refuse
         \/ \E c \in Captures, v \in Captures \cup {None} : Sanitising!Run(c, v)
  PROVE  Sanitising!SanitiserInv'
<1> USE DEF Sanitising!SanitiserInv, Sanitising!TypeOK, Sanitising!ExitTellsTheFiles,
            Sanitising!Accepted, Sanitising!Reading, Sanitising!Writing,
            Sanitising!locals, Sanitising!Exit, Sanitising!Proceed
<1>0. None \notin 0 .. 3
  BY NoneIsNothing
<1>1. /\ DOMAIN files = {"stream", "metadata", "report"}
      /\ files["stream"] \in [by : Nat, whole : BOOLEAN]
      /\ files["metadata"] \in [by : Nat, whole : BOOLEAN]
      /\ files["report"] \in [by : Nat, whole : BOOLEAN]
  OBVIOUS
<1>2. files["stream"].by < run => ~Sanitising!Touched
  BY <1>1 DEF Sanitising!Touched
<1>3. UNCHANGED files => (Sanitising!OneRun' <=> Sanitising!OneRun)
  BY DEF Sanitising!OneRun
<1>4. UNCHANGED <<files, run>> => (Sanitising!Touched' <=> Sanitising!Touched)
  BY DEF Sanitising!Touched
<1>5. ASSUME NEW c \in Captures \cup {None}, NEW v \in Captures \cup {None}, Sanitising!Start(c, v),
             \/ step' = "exited" /\ code' \in {0, 1}
             \/ step' = "analysing" /\ code' = None
      PROVE  Sanitising!SanitiserInv'
  <2>1. ~Sanitising!Touched'
    BY <1>1, <1>5 DEF Sanitising!Start, Sanitising!Touched
  <2> QED
    BY <1>0, <1>3, <1>5, <2>1 DEF Sanitising!Start
<1>6. ASSUME NEW c \in Captures, NEW v \in Captures \cup {None}, Sanitising!Run(c, v)
      PROVE  Sanitising!SanitiserInv'
  BY <1>5, <1>6 DEF Sanitising!Run
<1>7. CASE Sanitising!Help \/ Sanitising!Refuse
  BY <1>5, <1>7 DEF Sanitising!Help, Sanitising!Refuse
<1>8. CASE Sanitising!Analyse
  BY <1>0, <1>2, <1>3, <1>4, <1>8 DEF Sanitising!Analyse
<1>9. CASE Sanitising!Verify
  BY <1>0, <1>2, <1>3, <1>4, <1>9 DEF Sanitising!Verify
<1>10. CASE Sanitising!Sanitise
  BY <1>0, <1>2, <1>3, <1>4, <1>10 DEF Sanitising!Sanitise
<1>11. CASE Sanitising!Build
  BY <1>0, <1>2, <1>3, <1>4, <1>11 DEF Sanitising!Build
<1>12. CASE Sanitising!WriteStream \/ Sanitising!WriteMetadata \/ Sanitising!WriteReport
  BY <1>12, WriteStep
<1> QED
  BY <1>6, <1>7, <1>8, <1>9, <1>10, <1>11, <1>12 DEF Sanitising!Step

----------------------------------------------------------------------------
(* The pipeline *)

\* A step of the pipeline is one of the probe's or one of the sanitiser's.
LEMMA PipelineStep ==
  ASSUME ProbeInv, Sanitising!SanitiserInv, [NextPipeline]_pipelineVars
  PROVE  ProbeInv' /\ Sanitising!SanitiserInv'
<1>a. ASSUME UNCHANGED vars PROVE ProbeInv'
  BY <1>a, ProbeInvStep
<1>b. ASSUME UNCHANGED sanitiserVars PROVE Sanitising!SanitiserInv'
  BY <1>b DEF sanitiserVars, Sanitising!SanitiserInv, Sanitising!TypeOK,
              Sanitising!ExitTellsTheFiles, Sanitising!OneRun, Sanitising!Touched,
              Sanitising!Accepted, Sanitising!Reading, Sanitising!Writing
<1>1. CASE Capture
  BY <1>1, <1>b, ProbeInvStep DEF Capture
<1>2. CASE HandOver
  <2>1. \/ Sanitising!Help \/ Sanitising!Refuse
        \/ \E c \in Captures, v \in Captures \cup {None} : Sanitising!Run(c, v)
    BY <1>2, NoneIsNoCapture DEF HandOver
  <2> QED
    BY <1>2, <1>a, <2>1, SanitiserStep DEF HandOver
<1>3. CASE SanitiseOn
  BY <1>3, <1>a, SanitiserStep DEF SanitiseOn
<1>4. CASE UNCHANGED pipelineVars
  BY <1>4, <1>a, <1>b DEF pipelineVars
<1> QED
  BY <1>1, <1>2, <1>3, <1>4 DEF NextPipeline

\* The probe's invariant and the sanitiser's hold of the pipeline, whatever the disk
\* and the user do and whichever captures are compared.
THEOREM PipelineInvariant == SpecPipeline => [](ProbeInv /\ Sanitising!SanitiserInv)
<1>1. InitPipeline => ProbeInv
  BY ProbeInvInit DEF InitPipeline
<1>2. InitPipeline => Sanitising!SanitiserInv
  <2>1. None \notin 0 .. 3
    BY NoneIsNothing
  <2> QED
    BY <2>1 DEF InitPipeline, Sanitising!Init, Sanitising!SanitiserInv, Sanitising!TypeOK,
                Sanitising!ExitTellsTheFiles, Sanitising!OneRun, Sanitising!Touched,
                Sanitising!Accepted, Sanitising!Reading, Sanitising!Writing
<1> QED
  BY <1>1, <1>2, PipelineStep, PTL DEF SpecPipeline

\* Whatever the disk, the module and the user do, a summary counts exactly the
\* bytes of the raw file, which is closed by then.
THEOREM SummariesAgree == SpecPipeline => []SummaryAgreesWithRaw
<1>1. ProbeInv => SummaryAgreesWithRaw
  BY DEF ProbeInv
<1> QED
  BY <1>1, PipelineInvariant, PTL

\* Exit code 0 means data, a summary and no interrupt; 2 means a summary and no data.
THEOREM ExitCodesAreEarned == SpecPipeline => []ExitCodeIsEarned
<1>1. ProbeInv => ExitCodeIsEarned
  BY DEF ProbeInv
<1> QED
  BY <1>1, PipelineInvariant, PTL

\* Between runs of the sanitiser its three files are complete and of one run if and
\* only if the last run that changed any of them exited with 0, however often it is run
\* and whichever write the disk refuses; and no report is newer than the fixtures beside
\* it.
THEOREM ExitCodesTellTheFiles == SpecPipeline => []ExitTellsTheFiles
<1>1. Sanitising!SanitiserInv => ExitTellsTheFiles
  BY DEF Sanitising!SanitiserInv, ExitTellsTheFiles
<1> QED
  BY <1>1, PipelineInvariant, PTL

\* The fixtures are a function of what may be told of the capture they were built of,
\* for every table of symbols, keys and kinds: what else it held cannot be told from them.
THEOREM FixturesTellNothing == SpecPipeline => []FixtureTellsNothing
<1>1. Sanitising!SanitiserInv => FixtureTellsNothing
  <2> SUFFICES ASSUME Sanitising!SanitiserInv, fixture # None,
                      NEW f \in Fixtures, f[1] = Public(structure)
               PROVE  f[2] = fixture
    BY DEF FixtureTellsNothing
  <2>1. structure = Structure(input) /\ fixture = Fixture(Sanitised(structure.best), structure)
    BY DEF Sanitising!SanitiserInv
  <2>2. PICK s \in Structures : f = <<Public(s), Fixture(Sanitised(s.best), s)>>
    BY DEF Fixtures
  <2>3. PICK c : s = Structure(c)
    BY <2>2 DEF Structures
  <2> QED
    BY <2>1, <2>2, <2>3, PublicDecides
<1> QED
  BY <1>1, PipelineInvariant, PTL
=============================================================================
