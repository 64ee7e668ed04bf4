------------------------- MODULE InstallFlowProofs -------------------------
(***************************************************************************)
(* Theorems about InstallFlow, for any inputs, any number of runs, deaths  *)
(* and changes from outside: its files are well-formed, no step overtakes  *)
(* an earlier one, only validated answers are rendered, a successful run   *)
(* leaves what its own inputs give, and a rerun of it changes nothing.     *)
(*                                                                         *)
(* FlowInv is about the journal and the run, FilesInv about the files the  *)
(* journal vouches for, SettledInv about the directory after a success.    *)
(***************************************************************************)
EXTENDS InstallFlow, TLAPS

-----------------------------------------------------------------------------
(* Steps, files and what they hold. *)

\* The seven steps, and what kind each position is of.
LEMMA StepOrder ==
  /\ Len(STEP_ORDER) = 7
  /\ DOMAIN STEP_ORDER = 1 .. 7
  /\ \A i \in 1 .. 7 : STEP_ORDER[i] \in Steps
  /\ \A i \in 1 .. 3 : STEP_ORDER[i] \in ClusterSteps
  /\ \A i \in 4 .. 7 : STEP_ORDER[i] \notin ClusterSteps
  /\ STEP_ORDER[4] = "contract-capture"
  /\ \A i \in 1 .. 7 : STEP_ORDER[i] = "contract-capture" => i = 4
  <1>1. Len(STEP_ORDER) = 7 /\ DOMAIN STEP_ORDER = 1 .. 7
    BY DEF STEP_ORDER
  <1>2. /\ STEP_ORDER[1] = "preflight"
        /\ STEP_ORDER[2] = "grading"
        /\ STEP_ORDER[3] = "mode-recommendation"
        /\ STEP_ORDER[4] = "contract-capture"
        /\ STEP_ORDER[5] = "render"
        /\ STEP_ORDER[6] = "argocd-bootstrap"
        /\ STEP_ORDER[7] = "post-install-readiness"
    BY DEF STEP_ORDER
  <1>3. \A i \in 1 .. 7 : i = 1 \/ i = 2 \/ i = 3 \/ i = 4 \/ i = 5 \/ i = 6
                          \/ i = 7
    OBVIOUS
  <1> QED
    BY <1>1, <1>2, <1>3 DEF Steps, ClusterSteps

\* Where a step stands, by its kind.
LEMMA StepPlace ==
  ASSUME NEW i \in 1 .. 7
  PROVE  /\ STEP_ORDER[i] \in ClusterSteps => i < 4
         /\ STEP_ORDER[i] \notin ClusterSteps \cup {"contract-capture"} => i >= 5
  <1>1. i \in 1 .. 3 \/ i = 4 \/ i \in 5 .. 7
    OBVIOUS
  <1>2. i \in 5 .. 7 => i \in 4 .. 7
    OBVIOUS
  <1> QED
    BY <1>1, <1>2, StepOrder

\* No two positions hold the same step.
LEMMA StepsDistinct ==
  \A i, j \in 1 .. 7 : STEP_ORDER[i] = STEP_ORDER[j] => i = j
  <1>1. \A i \in 1 .. 7 : i = 1 \/ i = 2 \/ i = 3 \/ i = 4 \/ i = 5 \/ i = 6
                          \/ i = 7
    OBVIOUS
  <1> QED
    BY <1>1 DEF STEP_ORDER

\* Which contents belong to which file.
LEMMA FileContents ==
  /\ Contents("preflight_report") = [cluster : Clusters]
  /\ \A f \in EvaluationFiles :
        Contents(f) = [preflight : [cluster : Clusters], cluster : Clusters,
                       flags : Flags]
  /\ \A f \in AnswersFiles \cup Answers : Contents(f) = Answers
  /\ \A f \in Files : Contents(f) \subseteq AnyContent
  BY NamesAssumption
  DEF Contents, EvaluationFiles, AnswersFiles, Files, AnyContent

\* The answers rendered from, and the files that must hold only such.
Valid == Answers \ Invalid

Rendered == {"kustomization", "application"} \cup Answers

\* A plan that gives each of its files contents of that file's kind.
LEMMA SameWrites ==
  ASSUME NEW names \in Seq(Files), NEW c,
         \A j \in DOMAIN names : c \in Contents(names[j])
  PROVE  Same(names, c) \in Seq(Writes)
  <1>1. \A j \in DOMAIN names : <<names[j], c>> \in Writes
    BY FileContents DEF Writes
  <1>2. DOMAIN names = 1 .. Len(names) /\ Len(names) \in Nat
    OBVIOUS
  <1> QED
    BY <1>1, <1>2 DEF Same

\* Writes that put only valid answers into rendered files.
Safe(W) == \A j \in DOMAIN W : W[j][1] \in Rendered => W[j][2] \in Valid

LEMMA SameSafe ==
  ASSUME NEW names \in Seq(Files), NEW c,
         c \in Valid \/ \A j \in DOMAIN names : names[j] \notin Rendered
  PROVE  Safe(Same(names, c))
  BY DEF Safe, Same

-----------------------------------------------------------------------------
(* The inductive invariant. *)

\* A complete contract capture names answers that validated.
JournalGood ==
    /\ journal \in [Steps -> Record]
    /\ journal["contract-capture"].status = "completed" =>
           \E a \in Valid : journal["contract-capture"].digest = <<a>>

AtWork == run.pc \in {"check", "write"}

\* Past the capture the run works on valid answers.
AnswersInv ==
    /\ AtWork /\ run.i >= 5 => run.answers \in Valid
    /\ run.pc = "write" /\ run.i = 4 /\ run.ok => run.answers \in Valid

\* What a run is still to write into rendered files is valid.
PendingInv == Safe(run.writes)

Complete(i) ==
    LET record == journal[STEP_ORDER[i]]
    IN  /\ record.status = "completed"
        /\ record.digest = Digest(STEP_ORDER[i], args.snapshot, run.answers)

\* The steps behind the run are complete for its inputs.
BehindInv ==
    \A i \in 1 .. 7 :
        (AtWork /\ i < run.i) \/ run.pc = "done" => Complete(i)

FlowInv ==
    /\ TypeOK
    /\ journal = Torn \/ JournalGood
    /\ AtWork => JournalGood
    /\ AnswersInv
    /\ PendingInv
    /\ OnlyValidRendered
    /\ BehindInv

\* A directory without files is fine.
LEMMA InitFlow == Init => FlowInv
  <1> SUFFICES ASSUME Init PROVE FlowInv
    OBVIOUS
  <1>1. Idle \in Processes /\ Idle.pc = "idle" /\ Idle.writes = <<>>
    BY DEF Idle, Process, Processes
  <1>2. NoRecord \in Record /\ NoRecord.status = "none"
    BY DEF NoRecord, Record, Digests
  <1>3. TypeOK
    <2>1. args \in [snapshot : Snapshot, answers : Answers \cup {None},
                    flags : Flags]
      BY DEF Init, Snapshot
    <2>2. /\ files \in [Files -> AnyContent \cup {None, Torn}]
          /\ \A f \in Files : files[f] \in Contents(f) \cup {None, Torn}
      BY DEF Init
    <2>3. journal \in [Steps -> Record]
      BY <1>2 DEF Init
    <2>4. runs \in 0 .. MaxRuns /\ faults \in 0 .. MaxFaults
      BY BoundsAssumption DEF Init
    <2> QED
      BY <1>1, <2>1, <2>2, <2>3, <2>4 DEF Init, TypeOK
  <1>4. "contract-capture" \in Steps
    BY StepOrder
  <1>5. JournalGood
    BY <1>2, <1>4 DEF Init, JournalGood
  <1>6. AnswersInv /\ PendingInv /\ BehindInv
    BY <1>1 DEF Safe, Init, AnswersInv, PendingInv, BehindInv, AtWork
  <1>7. OnlyValidRendered
    BY InputsAssumption DEF Init, OnlyValidRendered, Files, AnswersFiles
  <1> QED
    BY <1>3, <1>5, <1>6, <1>7 DEF FlowInv

-----------------------------------------------------------------------------
(* The steps that change the run alone. *)

\* A new run starts before the first step.
LEMMA StartFlow ==
  ASSUME FlowInv, Start
  PROVE  FlowInv'
  <1> USE DEF FlowInv
  <1>1. PICK pc \in {"refused", "check"} :
           /\ run' = Process(pc, 1, None, <<>>, TRUE)
           /\ pc = "check" => journal # Torn
    BY DEF Start, Idle, Process
  <1>2. /\ run'.pc = pc /\ run'.i = 1 /\ run'.writes = <<>>
        /\ run' \in Processes
    BY <1>1 DEF Process, Processes
  <1>3. UNCHANGED <<files, journal>>
    BY DEF Start
  <1>4. TypeOK'
    <2>1. /\ args' \in [snapshot : Snapshot, answers : Answers \cup {None},
                        flags : Flags]
          /\ reflagged' \in BOOLEAN /\ settled' \in BOOLEAN
      BY DEF Start, TypeOK
    <2>2. /\ runs' \in 0 .. MaxRuns
          /\ UNCHANGED <<cluster, faults, interrupted>>
      BY BoundsAssumption DEF Start, TypeOK
    <2> QED
      BY <1>2, <1>3, <2>1, <2>2 DEF TypeOK
  <1>5. (journal = Torn \/ JournalGood)' /\ (AtWork => JournalGood)'
    BY <1>1, <1>2, <1>3 DEF JournalGood, AtWork
  <1>6. AnswersInv' /\ PendingInv'
    BY <1>2 DEF Safe, AnswersInv, PendingInv, AtWork
  <1>7. BehindInv'
    BY <1>2 DEF BehindInv, AtWork
  <1>8. OnlyValidRendered'
    BY <1>3 DEF OnlyValidRendered
  <1> QED
    BY <1>4, <1>5, <1>6, <1>7, <1>8

\* Leaving a run keeps whatever it left behind.
LEMMA StopFlow ==
  ASSUME FlowInv, run' \in Processes,
         run'.pc \in {"idle", "failed"},
         run'.writes = <<>> \/ run'.writes = run.writes,
         UNCHANGED <<files, journal, args, cluster, runs, reflagged>>,
         faults' \in 0 .. MaxFaults, interrupted' \in BOOLEAN,
         settled' \in BOOLEAN
  PROVE  FlowInv'
  <1> USE DEF FlowInv
  <1>1. TypeOK'
    BY DEF TypeOK
  <1>2. (journal = Torn \/ JournalGood)' /\ (AtWork => JournalGood)'
    BY DEF JournalGood, AtWork
  <1>3. AnswersInv' /\ PendingInv' /\ BehindInv'
    BY DEF Safe, AnswersInv, PendingInv, AtWork, BehindInv
  <1>4. OnlyValidRendered'
    BY DEF OnlyValidRendered
  <1> QED
    BY <1>1, <1>2, <1>3, <1>4

\* The answers a step resolves are of the right kind, and past the capture
\* they are the run's own.
LEMMA ResolvedKind ==
  ASSUME FlowInv, run.pc = "check", Resolved # Torn
  PROVE  /\ Resolved \in Answers \cup {None}
         /\ run.i # 4 => Resolved = run.answers
  <1> USE DEF FlowInv
  <1>1. /\ files["answers"] \in Answers \cup {None, Torn}
        /\ args.answers \in Answers \cup {None}
        /\ run.answers \in Answers \cup {None}
        /\ run.i \in 1 .. 7
    BY FileContents DEF TypeOK, Files, AnswersFiles, Processes
  <1>2. Resolved \in Answers \cup {None}
    BY <1>1 DEF Resolved
  <1>3. CASE run.i < 4
    BY <1>1, <1>2, <1>3, StepOrder DEF Resolved, Step
  <1>4. CASE run.i >= 5
    <2>1. run.answers # None
      BY <1>4, InputsAssumption DEF AnswersInv, AtWork, Valid
    <2> QED
      BY <1>2, <2>1 DEF Resolved
  <1>5. CASE run.i = 4
    BY <1>2, <1>5
  <1> QED
    BY <1>1, <1>3, <1>4, <1>5

\* The digests of the steps behind the run do not depend on the answers
\* resolved in the capture.
LEMMA SameDigest ==
  ASSUME NEW i \in 1 .. 7, NEW n \in 1 .. 7, i < n,
         NEW snapshot, NEW a, NEW b, n # 4 => a = b
  PROVE  Digest(STEP_ORDER[i], snapshot, a) = Digest(STEP_ORDER[i], snapshot, b)
  <1>1. CASE a = b
    BY <1>1
  <1>2. CASE n = 4
    <2>1. /\ STEP_ORDER[i] \in ClusterSteps
          /\ STEP_ORDER[i] \notin AnswersSteps
      BY <1>2, StepOrder DEF ClusterSteps, AnswersSteps
    <2> QED
      BY <2>1 DEF Digest
  <1> QED
    BY <1>1, <1>2

\* The plan of a step.
LEMMA PlannedFlow ==
  ASSUME FlowInv, run.pc = "check",
         NEW a \in Answers \cup {None}, NEW W \in Seq(Writes),
         NEW ok \in BOOLEAN,
         run' = Process("write", run.i, a, W, ok),
         run.i # 4 => a = run.answers,
         run.i = 4 /\ ok => a \in Valid,
         Safe(W),
         UNCHANGED <<files, journal, settled, outside>>
  PROVE  FlowInv'
  <1> USE DEF FlowInv
  <1>1. /\ run.i \in 1 .. 7
        /\ run'.pc = "write" /\ run'.i = run.i /\ run'.answers = a
        /\ run'.writes = W /\ run'.ok = ok
    BY DEF Process, TypeOK, Processes
  <1>2. run' \in Processes
    BY <1>1 DEF Process, Processes
  <1>3. TypeOK'
    BY <1>2 DEF TypeOK, outside
  <1>4. JournalGood'
    BY DEF JournalGood, AtWork
  <1>5. AnswersInv'
    BY <1>1 DEF AnswersInv, AtWork
  <1>6. PendingInv' /\ OnlyValidRendered'
    BY <1>1 DEF Safe, PendingInv, OnlyValidRendered
  <1>7. BehindInv'
    <2> SUFFICES ASSUME NEW i \in 1 .. 7, i < run.i PROVE Complete(i)'
      BY <1>1 DEF BehindInv
    <2>1. Complete(i)
      BY DEF BehindInv, AtWork
    <2>2. Digest(STEP_ORDER[i], args.snapshot, a)
             = Digest(STEP_ORDER[i], args.snapshot, run.answers)
      BY <1>1, SameDigest
    <2> QED
      BY <1>1, <2>1, <2>2 DEF Complete, outside
  <1> QED
    BY <1>3, <1>4, <1>5, <1>6, <1>7

-----------------------------------------------------------------------------
(* One lemma for each action that is left. *)

\* Unreadable answers end the run and change nothing.
LEMMA ResolveFailsFlow ==
  ASSUME FlowInv, ResolveFails
  PROVE  FlowInv'
  <1> USE DEF FlowInv
  <1>1. run \in Processes /\ run.pc = "check"
    BY DEF ResolveFails, TypeOK
  <1>2. run' = [run EXCEPT !.pc = "failed"]
    BY DEF ResolveFails
  <1>3. run' \in Processes /\ run'.pc = "failed" /\ run'.writes = run.writes
    BY <1>1, <1>2 DEF Processes
  <1>4. /\ UNCHANGED <<files, journal, args, cluster, runs, reflagged>>
        /\ faults' \in 0 .. MaxFaults /\ interrupted' \in BOOLEAN
        /\ settled' \in BOOLEAN
    BY DEF ResolveFails, TypeOK, outside
  <1> QED
    BY <1>3, <1>4, StopFlow

\* Going on to the next step once this one is complete.
LEMMA AdvanceFlow ==
  ASSUME FlowInv, AtWork,
         NEW n \in 1 .. 7, n = run.i,
         NEW a \in Answers \cup {None},
         run' = Advance(a),
         run.i >= 4 => a \in Valid,
         run.i # 4 => a = run.answers,
         UNCHANGED <<files, outside>>,
         settled' \in BOOLEAN,
         JournalGood',
         Complete(n)',
         \A i \in 1 .. 7 : i # run.i =>
             journal'[STEP_ORDER[i]] = journal[STEP_ORDER[i]]
  PROVE  FlowInv'
  <1> USE DEF FlowInv
  <1>1. run.i \in 1 .. 7
    BY DEF TypeOK, Processes
  <1>2. /\ run' \in Processes
        /\ run'.answers = a /\ run'.writes = <<>> /\ run'.ok = TRUE
        /\ run.i = 7 => run'.pc = "done" /\ run'.i = 7
        /\ run.i # 7 => run'.pc = "check" /\ run'.i = run.i + 1
    BY <1>1, StepOrder DEF Advance, Process, Processes
  <1>3. TypeOK'
    BY <1>2 DEF TypeOK, outside, JournalGood
  <1>4. AnswersInv'
    BY <1>1, <1>2 DEF AnswersInv, AtWork
  <1>5. PendingInv' /\ OnlyValidRendered'
    BY <1>2 DEF Safe, PendingInv, OnlyValidRendered
  <1>6. BehindInv'
    <2>1. ASSUME NEW i \in 1 .. 7, i < run.i PROVE Complete(i)'
      <3>1. Complete(i)
        BY <2>1 DEF BehindInv
      <3>2. Digest(STEP_ORDER[i], args.snapshot, a)
               = Digest(STEP_ORDER[i], args.snapshot, run.answers)
        BY <1>1, <2>1, SameDigest
      <3>3. journal'[STEP_ORDER[i]] = journal[STEP_ORDER[i]]
        BY <1>1, <2>1
      <3> QED
        BY <1>2, <3>1, <3>2, <3>3 DEF Complete, outside
    <2>2. \A i \in 1 .. 7 : i < n => Complete(i)'
      BY <2>1
    <2>3. \A i \in 1 .. 7 : i <= n => i < n \/ i = n
      OBVIOUS
    <2>4. \A i \in 1 .. 7 : i <= n => Complete(i)'
      BY <2>2, <2>3
    <2> QED
      BY <1>1, <1>2, <2>4 DEF BehindInv, AtWork
  <1> QED
    BY <1>3, <1>4, <1>5, <1>6

\* A skipped step is complete with the digest of this run; a skipped capture
\* is one of valid answers.
LEMMA SkipFlow ==
  ASSUME FlowInv, Skip
  PROVE  FlowInv'
  <1> USE DEF FlowInv
  <1>1. /\ run.pc = "check" /\ Resolved # Torn /\ Skippable
        /\ run' = Advance(Resolved)
        /\ UNCHANGED <<files, journal, outside>>
        /\ settled' \in BOOLEAN
    BY DEF Skip, TypeOK
  <1>2. /\ Resolved \in Answers \cup {None}
        /\ run.i # 4 => Resolved = run.answers
    BY <1>1, ResolvedKind
  <1>3. run.i \in 1 .. 7
    BY DEF TypeOK, Processes
  <1>4. AtWork /\ JournalGood /\ JournalGood'
    BY <1>1 DEF AtWork, JournalGood
  <1>5. run'.answers = Resolved
    BY <1>1 DEF Advance, Process
  <1>6. /\ journal[Step].status = "completed"
        /\ journal[Step].digest = Digest(Step, args.snapshot, Resolved)
        /\ Digest(Step, args.snapshot, Resolved) # None
    BY <1>1 DEF Skippable
  <1>7. PICK n \in 1 .. 7 : n = run.i
    BY <1>3
  <1>8. Complete(n)'
    BY <1>1, <1>5, <1>6, <1>7 DEF Complete, Step, outside
  <1>9. run.i >= 4 => Resolved \in Valid
    <2>1. CASE run.i = 4
      <3>1. Step = "contract-capture"
        BY <2>1, StepOrder DEF Step
      <3>2. PICK a \in Valid : journal[Step].digest = <<a>>
        BY <1>4, <1>6, <3>1 DEF JournalGood
      <3>3. Digest(Step, args.snapshot, Resolved) = <<Resolved>>
        BY <1>6, <3>1 DEF Digest, ClusterSteps, AnswersSteps
      <3>4. <<a>> = <<Resolved>>
        BY <1>6, <3>2, <3>3
      <3> QED
        BY <3>4
    <2>2. CASE run.i > 4
      BY <1>1, <1>2, <1>3, <2>2 DEF AnswersInv, AtWork
    <2> QED
      BY <1>3, <2>1, <2>2
  <1> QED
    BY <1>1, <1>2, <1>4, <1>7, <1>8, <1>9, AdvanceFlow

\* The plan of every step keeps invalid answers away from rendered files.
LEMMA ExecuteFlow ==
  ASSUME FlowInv, Execute
  PROVE  FlowInv'
  <1> USE DEF FlowInv
  <1>1. /\ run.pc = "check" /\ Resolved # Torn
        /\ UNCHANGED <<files, journal, settled, outside>>
    BY DEF Execute
  <1>2. /\ Resolved \in Answers \cup {None}
        /\ run.i # 4 => Resolved = run.answers
    BY <1>1, ResolvedKind
  <1>3. /\ run.i \in 1 .. 7 /\ run.answers \in Answers \cup {None}
        /\ Step = STEP_ORDER[run.i]
    BY DEF TypeOK, Processes, Step
  <1>4. run.i >= 5 => Resolved \in Valid /\ Resolved \in Answers
    BY <1>1, <1>2, <1>3 DEF AnswersInv, AtWork, Valid
  <1>5. Seen \in Clusters
    BY DEF Seen, TypeOK, Snapshot
  <1>6. Safe(<<>>)
    BY DEF Safe
  <1>7. CASE Step = "preflight" /\ run' = PlanPreflight
    <2> DEFINE names == <<"preflight_report">>
               W == Same(names, Preflight(Seen))
    <2>1. names \in Seq(Files) /\ \A j \in DOMAIN names : names[j] = "preflight_report"
      BY DEF Files
    <2>2. "preflight_report" \notin Rendered
      BY NamesAssumption DEF Rendered
    <2>3. W \in Seq(Writes)
      BY <1>5, <2>1, FileContents, SameWrites DEF Preflight
    <2>4. Safe(W)
      BY <2>1, <2>2, SameSafe
    <2>5. run.i # 4
      BY <1>3, <1>7, StepOrder
    <2>6. run' = Process("write", run.i, run.answers, W, Seen \notin Failing)
      BY <1>7 DEF PlanPreflight
    <2> HIDE DEF W
    <2> QED
      BY <1>1, <1>3, <2>3, <2>4, <2>5, <2>6, PlannedFlow
  <1>8. ASSUME NEW names \in Seq(EvaluationFiles), NEW graded \in BOOLEAN,
               run.i < 4, run' = PlanEvaluation(names, graded)
        PROVE  FlowInv'
    <2> DEFINE report == files["preflight_report"]
               W == Same(names, Evaluation(report, Seen, args.flags))
    <2>1. names \in Seq(Files)
      BY DEF Files
    <2>2. \A j \in DOMAIN names : names[j] \in EvaluationFiles
      OBVIOUS
    <2>3. \A f \in EvaluationFiles : f \notin Rendered
      BY NamesAssumption DEF Rendered, EvaluationFiles
    <2>4. CASE report \in {None, Torn}
      <3>1. run' = Process("write", run.i, run.answers, <<>>, FALSE)
        BY <1>8, <2>4 DEF PlanEvaluation
      <3>2. <<>> \in Seq(Writes)
        OBVIOUS
      <3> QED
        BY <1>1, <1>3, <1>6, <1>8, <3>1, <3>2, PlannedFlow
    <2>5. CASE report \notin {None, Torn}
      <3>1. report \in [cluster : Clusters] /\ args.flags \in Flags
        BY <2>5, FileContents DEF TypeOK, Files
      <3>2. Evaluation(report, Seen, args.flags)
              \in [preflight : [cluster : Clusters], cluster : Clusters,
                   flags : Flags]
        BY <1>5, <3>1 DEF Evaluation
      <3>3. W \in Seq(Writes)
        BY <2>1, <2>2, <3>2, FileContents, SameWrites
      <3>4. Safe(W)
        BY <2>1, <2>2, <2>3, SameSafe
      <3>5. PICK ok \in BOOLEAN :
               run' = Process("write", run.i, run.answers, W, ok)
        BY <1>8, <2>5 DEF PlanEvaluation
      <3> HIDE DEF W
      <3> QED
        BY <1>1, <1>3, <1>8, <3>3, <3>4, <3>5, PlannedFlow
    <2> QED
      BY <2>4, <2>5
  <1>9. CASE Step = "grading" /\ run' = PlanEvaluation(Outputs(Step, None), TRUE)
    <2>1. Outputs(Step, None) \in Seq(EvaluationFiles)
      BY <1>9 DEF Outputs, EvaluationFiles
    <2>2. run.i < 4
      BY <1>3, <1>9, StepPlace DEF ClusterSteps
    <2> QED
      BY <1>8, <1>9, <2>1, <2>2
  <1>10. CASE /\ Step = "mode-recommendation"
              /\ run' = PlanEvaluation(Outputs(Step, None), FALSE)
    <2>1. Outputs(Step, None) \in Seq(EvaluationFiles)
      BY <1>10 DEF Outputs, EvaluationFiles
    <2>2. run.i < 4
      BY <1>3, <1>10, StepPlace DEF ClusterSteps
    <2> QED
      BY <1>8, <1>10, <2>1, <2>2
  <1>11. ASSUME NEW names \in Seq(AnswersFiles \cup Answers), NEW a \in Valid,
                NEW ok \in BOOLEAN, run.i # 4 => a = run.answers,
                run' = Process("write", run.i, a, Same(names, a), ok)
         PROVE  FlowInv'
    <2> DEFINE W == Same(names, a)
    <2>1. a \in Answers
      BY DEF Valid
    <2>2. names \in Seq(Files)
      BY DEF Files
    <2>3. \A j \in DOMAIN names : names[j] \in AnswersFiles \cup Answers
      OBVIOUS
    <2>4. W \in Seq(Writes)
      BY <2>1, <2>2, <2>3, FileContents, SameWrites
    <2>5. Safe(W)
      BY <2>2, SameSafe
    <2>6. run' = Process("write", run.i, a, W, ok)
      BY <1>11
    <2> HIDE DEF W
    <2> QED
      BY <1>1, <1>11, <2>1, <2>4, <2>5, <2>6, PlannedFlow
  <1>12. ASSUME Step = "contract-capture", NEW a \in Captured,
                run' = PlanCapture(a)
         PROVE  FlowInv'
    <2>1. run.i = 4
      BY <1>3, <1>12, StepOrder
    <2>2. a \in Answers
      BY <1>2, <1>12 DEF Captured
    <2>3. CASE Validates(a)
      <3>1. run' = Process("write", run.i, a,
                           Same(<<"answers", "install_contract">>, a), TRUE)
        BY <1>12, <2>3 DEF PlanCapture
      <3>2. <<"answers", "install_contract">> \in Seq(AnswersFiles \cup Answers)
        BY DEF AnswersFiles
      <3>3. a \in Valid
        BY <2>2, <2>3 DEF Validates, Valid
      <3> QED
        BY <1>11, <2>1, <3>1, <3>2, <3>3
    <2>4. CASE ~Validates(a)
      <3>1. run' = Process("write", run.i, Resolved, <<>>, FALSE)
        BY <1>12, <2>4 DEF PlanCapture
      <3>2. <<>> \in Seq(Writes)
        OBVIOUS
      <3> QED
        BY <1>1, <1>2, <1>6, <2>1, <3>1, <3>2, PlannedFlow
    <2> QED
      BY <2>3, <2>4
  <1>13. ASSUME NEW names \in Seq(AnswersFiles \cup Answers),
                NEW ok \in BOOLEAN, run.i >= 5,
                run' = Process("write", run.i, Resolved, Same(names, Resolved), ok)
         PROVE  FlowInv'
    BY <1>2, <1>3, <1>4, <1>11, <1>13
  <1>14. CASE Step = "render" /\ run' = PlanRender
    <2>1. run.i >= 5
      BY <1>3, <1>14, StepPlace DEF ClusterSteps
    <2>2. <<Resolved>> \in Seq(AnswersFiles \cup Answers)
      BY <1>4, <2>1
    <2> QED
      BY <1>13, <1>14, <2>1, <2>2 DEF PlanRender
  <1>15. CASE Step = "argocd-bootstrap" /\ run' = PlanBootstrap
    <2>1. run.i >= 5
      BY <1>3, <1>15, StepPlace DEF ClusterSteps
    <2>2. <<"kustomization", "application">> \in Seq(AnswersFiles \cup Answers)
      BY DEF AnswersFiles
    <2> QED
      BY <1>13, <1>15, <2>1, <2>2 DEF PlanBootstrap
  <1>16. ASSUME Step = "post-install-readiness", NEW passed \in BOOLEAN,
                run' = PlanReadiness(passed)
         PROVE  FlowInv'
    <2>1. run.i >= 5
      BY <1>3, <1>16, StepPlace DEF ClusterSteps
    <2>2. <<"install_summary">> \in Seq(AnswersFiles \cup Answers)
      BY DEF AnswersFiles
    <2> QED
      BY <1>13, <1>16, <2>1, <2>2 DEF PlanReadiness
  <1> QED
    BY <1>7, <1>9, <1>10, <1>12, <1>14, <1>15, <1>16 DEF Execute

\* A write takes its content from the plan.
LEMMA WriteFlow ==
  ASSUME FlowInv, Write
  PROVE  FlowInv'
  <1> USE DEF FlowInv
  <1> DEFINE w == Head(run.writes)
  <1>1. /\ run.pc = "write" /\ run \in Processes /\ run.writes \in Seq(Writes)
        /\ run.writes # <<>>
        /\ files' = [files EXCEPT ![w[1]] = w[2]]
        /\ run' = [run EXCEPT !.writes = Tail(@)]
        /\ UNCHANGED <<journal, settled, outside>>
    BY DEF Write, TypeOK, Processes
  <1>2. w \in Writes /\ w = run.writes[1] /\ 1 \in DOMAIN run.writes
    BY <1>1
  <1>3. w[1] \in Files /\ w[2] \in Contents(w[1]) /\ w[2] \in AnyContent
    BY <1>2 DEF Writes
  <1>4. w[1] \in Rendered => w[2] \in Valid
    BY <1>2 DEF PendingInv, Safe
  <1> HIDE DEF w
  <1>5. /\ run' \in Processes
        /\ run'.pc = "write" /\ run'.i = run.i /\ run'.answers = run.answers
        /\ run'.ok = run.ok /\ run'.writes = Tail(run.writes)
    <2>1. Tail(run.writes) \in Seq(Writes)
      BY <1>1
    <2> QED
      BY <1>1, <2>1 DEF Processes
  <1>6. TypeOK'
    <2>1. /\ files' \in [Files -> AnyContent \cup {None, Torn}]
          /\ \A f \in Files : files'[f] \in Contents(f) \cup {None, Torn}
      BY <1>1, <1>3 DEF TypeOK
    <2> QED
      BY <1>1, <1>5, <2>1 DEF TypeOK, outside
  <1>7. JournalGood'
    BY <1>1 DEF JournalGood, AtWork
  <1>8. AnswersInv'
    BY <1>1, <1>5 DEF AnswersInv, AtWork
  <1>9. PendingInv'
    <2>1. /\ Len(Tail(run.writes)) = Len(run.writes) - 1
          /\ DOMAIN run.writes = 1 .. Len(run.writes)
          /\ DOMAIN Tail(run.writes) = 1 .. (Len(run.writes) - 1)
          /\ Len(run.writes) \in Nat
      BY <1>1
    <2>2. \A j \in DOMAIN Tail(run.writes) :
             /\ Tail(run.writes)[j] = run.writes[j + 1]
             /\ j + 1 \in DOMAIN run.writes
      BY <1>1, <2>1
    <2> QED
      BY <1>5, <2>2 DEF PendingInv, Safe
  <1>10. OnlyValidRendered'
    <2> SUFFICES ASSUME NEW f \in Rendered, files'[f] \in Answers
                 PROVE  Validates(files'[f])
      BY DEF OnlyValidRendered, Rendered, Validates
    <2>1. CASE f = w[1]
      BY <1>1, <1>3, <1>4, <2>1 DEF Validates, Valid, TypeOK
    <2>2. CASE f # w[1]
      BY <1>1, <2>2 DEF OnlyValidRendered, Rendered, Files, AnswersFiles, TypeOK
    <2> QED
      BY <2>1, <2>2
  <1>11. BehindInv'
    BY <1>1, <1>5 DEF BehindInv, AtWork, Complete, outside
  <1> QED
    BY <1>1, <1>5, <1>6, <1>7, <1>8, <1>9, <1>10, <1>11

\* What RecordStep puts into the journal is a record, and one of the capture
\* is complete for valid answers only.
LEMMA EntryKind ==
  ASSUME FlowInv, run.pc = "write"
  PROVE  /\ Entry \in Record
         /\ run.ok /\ run.i >= 4 => run.answers \in Valid
         /\ (run.i = 4 /\ Entry.status = "completed") =>
                \E a \in Valid : Entry.digest = <<a>>
  <1> USE DEF FlowInv
  <1>1. /\ run.i \in 1 .. 7 /\ run.answers \in Answers \cup {None}
        /\ run.ok \in BOOLEAN /\ args.snapshot \in Clusters \cup {None}
        /\ Step = STEP_ORDER[run.i]
    BY DEF TypeOK, Processes, Step, Snapshot
  <1>2. run.ok /\ run.i >= 4 => run.answers \in Valid
    BY <1>1 DEF AnswersInv, AtWork
  <1>3. Digest(Step, args.snapshot, run.answers) \in Digests
    BY <1>1 DEF Digest, Digests
  <1>4. run.ok => Outputs(Step, run.answers) \in Seq(Files)
    <2>1. CASE Step = "render" /\ run.ok
      <3>1. run.i >= 5
        BY <1>1, <2>1, StepPlace DEF ClusterSteps
      <3>2. run.answers \in Files
        BY <1>1, <1>2, <2>1, <3>1 DEF Valid, Files
      <3> QED
        BY <2>1, <3>2 DEF Outputs
    <2>2. CASE Step # "render"
      <3>1. /\ {"preflight_report"} \subseteq Files
            /\ EvaluationFiles \subseteq Files /\ AnswersFiles \subseteq Files
        BY DEF Files
      <3> QED
        BY <2>2, <3>1 DEF Outputs, EvaluationFiles, AnswersFiles
    <2> QED
      BY <2>1, <2>2
  <1>5. Entry \in Record
    BY <1>1, <1>3, <1>4 DEF Entry, Record
  <1>6. ASSUME run.i = 4, Entry.status = "completed"
        PROVE  \E a \in Valid : Entry.digest = <<a>>
    <2>1. run.ok /\ run.answers \in Valid /\ run.answers # None
      BY <1>1, <1>2, <1>6, InputsAssumption DEF Entry, Valid
    <2>2. Step = "contract-capture"
      BY <1>1, <1>6, StepOrder
    <2>3. Digest(Step, args.snapshot, run.answers) = <<run.answers>>
      BY <2>1, <2>2 DEF Digest, ClusterSteps, AnswersSteps
    <2> QED
      BY <2>1, <2>3 DEF Entry
  <1> QED
    BY <1>2, <1>5, <1>6

\* The journal entry of a step, then the next step or the end of the run.
LEMMA RecordStepFlow ==
  ASSUME FlowInv, RecordStep
  PROVE  FlowInv'
  <1> USE DEF FlowInv
  <1>1. /\ run.pc = "write" /\ run.writes = <<>>
        /\ journal' = [journal EXCEPT ![Step] = Entry]
        /\ run' = IF run.ok THEN Advance(run.answers)
                  ELSE [run EXCEPT !.pc = "failed"]
        /\ settled' \in BOOLEAN
        /\ UNCHANGED <<files, outside>>
    BY DEF RecordStep, TypeOK
  <1>2. /\ run \in Processes /\ run.i \in 1 .. 7
        /\ run.answers \in Answers \cup {None} /\ run.ok \in BOOLEAN
        /\ Step = STEP_ORDER[run.i] /\ Step \in Steps
    BY StepOrder DEF TypeOK, Processes, Step
  <1>3. /\ Entry \in Record
        /\ run.ok /\ run.i >= 4 => run.answers \in Valid
        /\ (run.i = 4 /\ Entry.status = "completed") =>
                \E a \in Valid : Entry.digest = <<a>>
    BY <1>1, EntryKind
  <1>4. JournalGood /\ AtWork
    BY <1>1 DEF AtWork
  <1>5. /\ journal' \in [Steps -> Record]
        /\ journal'[Step] = Entry
        /\ \A s \in Steps : s # Step => journal'[s] = journal[s]
    BY <1>1, <1>2, <1>3, <1>4 DEF JournalGood
  <1>6. JournalGood'
    <2>1. "contract-capture" \in Steps
      BY StepOrder
    <2>2. CASE Step = "contract-capture"
      <3>1. run.i = 4
        BY <1>2, <2>2, StepOrder
      <3> QED
        BY <1>3, <1>5, <2>2, <3>1 DEF JournalGood
    <2>3. CASE Step # "contract-capture"
      <3>1. journal'["contract-capture"] = journal["contract-capture"]
        BY <1>5, <2>1, <2>3
      <3> QED
        BY <1>4, <1>5, <3>1 DEF JournalGood
    <2> QED
      BY <2>2, <2>3
  <1>7. CASE run.ok
    <2>1. PICK n \in 1 .. 7 : n = run.i
      BY <1>2
    <2>2. run' = Advance(run.answers)
      BY <1>1, <1>7
    <2>3. run'.answers = run.answers
      BY <2>2 DEF Advance, Process
    <2>4. /\ Entry.status = "completed"
          /\ Entry.digest = Digest(Step, args.snapshot, run.answers)
      BY <1>7 DEF Entry
    <2>5. Complete(n)'
      BY <1>1, <1>2, <1>5, <2>1, <2>3, <2>4 DEF Complete, outside
    <2>6. \A i \in 1 .. 7 : i # run.i =>
             journal'[STEP_ORDER[i]] = journal[STEP_ORDER[i]]
      BY <1>2, <1>5, StepOrder, StepsDistinct
    <2> QED
      BY <1>1, <1>2, <1>3, <1>4, <1>6, <1>7, <2>1, <2>2, <2>5, <2>6, AdvanceFlow
  <1>8. CASE ~run.ok
    <2>1. /\ run' \in Processes /\ run'.pc = "failed"
          /\ run'.writes = run.writes
      BY <1>1, <1>2, <1>8 DEF Processes
    <2>2. TypeOK'
      BY <1>1, <1>5, <2>1 DEF TypeOK, outside
    <2>3. AnswersInv' /\ PendingInv' /\ BehindInv'
      BY <2>1 DEF AnswersInv, PendingInv, AtWork, BehindInv
    <2>4. OnlyValidRendered'
      BY <1>1 DEF OnlyValidRendered
    <2> QED
      BY <1>6, <2>2, <2>3, <2>4
  <1> QED
    BY <1>2, <1>7, <1>8

\* A truncated file holds no answers; a truncated journal is refused.
LEMMA CrashFlow ==
  ASSUME FlowInv, Crash
  PROVE  FlowInv'
  <1> USE DEF FlowInv
  <1>1. /\ run' = Idle /\ faults' \in 0 .. MaxFaults
        /\ interrupted' \in BOOLEAN /\ settled' \in BOOLEAN
        /\ UNCHANGED <<args, cluster, runs, reflagged>>
    <2>1. faults' \in 0 .. MaxFaults
      BY BoundsAssumption DEF Crash, Fault, TypeOK
    <2>2. interrupted' \in BOOLEAN /\ settled' \in BOOLEAN
      BY DEF Crash
    <2> QED
      BY <2>1, <2>2 DEF Crash
  <1>2. Idle \in Processes /\ Idle.pc = "idle" /\ Idle.writes = <<>>
    BY DEF Idle, Process, Processes
  <1>3. CASE UNCHANGED <<files, journal>>
    BY <1>1, <1>2, <1>3, StopFlow
  <1>4. AnswersInv' /\ PendingInv' /\ BehindInv' /\ ~AtWork'
    BY <1>1, <1>2 DEF Safe, AnswersInv, PendingInv, AtWork, BehindInv
  <1>5. CASE /\ run.pc = "write" /\ run.writes # <<>>
             /\ files' = [files EXCEPT ![Head(run.writes)[1]] = Torn]
             /\ UNCHANGED journal
    <2>1. /\ files' \in [Files -> AnyContent \cup {None, Torn}]
          /\ \A f \in Files : files'[f] \in {files[f], Torn}
      BY <1>5 DEF TypeOK
    <2>2. TypeOK'
      BY <1>1, <1>2, <1>5, <2>1 DEF TypeOK
    <2>3. OnlyValidRendered'
      BY <2>1, InputsAssumption DEF OnlyValidRendered, Files, AnswersFiles
    <2>4. (journal = Torn \/ JournalGood)'
      BY <1>5 DEF JournalGood
    <2> QED
      BY <1>4, <2>2, <2>3, <2>4
  <1>6. CASE journal' = Torn /\ UNCHANGED files
    <2>1. TypeOK'
      BY <1>1, <1>2, <1>6 DEF TypeOK
    <2>2. OnlyValidRendered'
      BY <1>6 DEF OnlyValidRendered
    <2> QED
      BY <1>4, <1>6, <2>1, <2>2
  <1> QED
    BY <1>3, <1>5, <1>6 DEF Crash

\* Deleting any file, or editing answers.json, reaches no rendered file.
LEMMA EditDirectoryFlow ==
  ASSUME FlowInv, EditDirectory
  PROVE  FlowInv'
  <1> USE DEF FlowInv
  <1>1. /\ run' = Idle /\ faults' \in 0 .. MaxFaults /\ settled' \in BOOLEAN
        /\ UNCHANGED <<journal, args, cluster, runs, interrupted, reflagged>>
    <2>1. faults' \in 0 .. MaxFaults
      BY BoundsAssumption DEF EditDirectory, Fault, TypeOK
    <2> QED
      BY <2>1 DEF EditDirectory
  <1>2. Idle \in Processes /\ Idle.pc = "idle" /\ Idle.writes = <<>>
    BY DEF Idle, Process, Processes
  <1>3. AnswersInv' /\ PendingInv' /\ BehindInv' /\ ~AtWork'
    BY <1>1, <1>2 DEF Safe, AnswersInv, PendingInv, AtWork, BehindInv
  <1>4. (journal = Torn \/ JournalGood)'
    BY <1>1 DEF JournalGood
  <1>5. PICK f \in Files :
           \/ files' = [files EXCEPT ![f] = None]
           \/ /\ f = "answers"
              /\ \E a \in Answers : files' = [files EXCEPT ![f] = a]
    BY DEF EditDirectory
  <1>6. /\ files' \in [Files -> AnyContent \cup {None, Torn}]
        /\ \A g \in Files \ {"answers"} : files'[g] \in {files[g], None}
        /\ files'["answers"] \in {files["answers"], None} \cup Answers
        /\ "answers" \in AnswersFiles /\ "answers" \in Files
    <2>1. "answers" \in AnswersFiles /\ "answers" \in Files
      BY DEF AnswersFiles, Files
    <2>2. Answers \subseteq AnyContent
      BY <2>1, FileContents
    <2> QED
      BY <1>5, <2>1, <2>2 DEF TypeOK
  <1>7. \A g \in Files : files'[g] \in Contents(g) \cup {None, Torn}
    BY <1>6, FileContents DEF TypeOK
  <1>8. TypeOK'
    BY <1>1, <1>2, <1>6, <1>7 DEF TypeOK
  <1>9. OnlyValidRendered'
    <2>1. "answers" \notin Rendered /\ Rendered \subseteq Files
      BY NamesAssumption DEF Rendered, AnswersFiles, Files
    <2> QED
      BY <1>6, <2>1, InputsAssumption DEF OnlyValidRendered, Rendered
  <1> QED
    BY <1>3, <1>4, <1>8, <1>9

\* The live cluster is no part of the invariant.
LEMMA ClusterChangesFlow ==
  ASSUME FlowInv, ClusterChanges
  PROVE  FlowInv'
  <1> USE DEF FlowInv
  <1>1. /\ cluster' \in Clusters /\ faults' \in 0 .. MaxFaults
        /\ UNCHANGED <<files, journal, args, run, runs, interrupted, reflagged,
                       settled>>
    BY BoundsAssumption DEF ClusterChanges, Fault, TypeOK
  <1> QED
    BY <1>1 DEF TypeOK, JournalGood, AtWork, AnswersInv, PendingInv, BehindInv,
                Complete, OnlyValidRendered

\* Every step of the installer, and a stutter, preserves the invariant.
LEMMA NextFlow == FlowInv /\ [Next]_vars => FlowInv'
  <1> SUFFICES ASSUME FlowInv, [Next]_vars PROVE FlowInv'
    OBVIOUS
  <1>1. CASE UNCHANGED vars
    BY <1>1 DEF vars, FlowInv, TypeOK, JournalGood, AtWork, AnswersInv,
                PendingInv, BehindInv, Complete, OnlyValidRendered
  <1> QED
    BY <1>1, StartFlow, ResolveFailsFlow, SkipFlow, ExecuteFlow, WriteFlow,
       RecordStepFlow, CrashFlow, EditDirectoryFlow, ClusterChangesFlow DEF Next

-----------------------------------------------------------------------------
(* The theorems. *)

\* The directory, the journal and the process are well-formed.
THEOREM TypeCorrect == Spec => []TypeOK
  BY InitFlow, NextFlow, PTL DEF Spec, FlowInv

\* No answers that the install contract schema rejects are ever rendered,
\* through any sequence of runs, deaths, hand edits and skipped steps.
THEOREM OnlyValidAnswersRendered == Spec => []OnlyValidRendered
  BY InitFlow, NextFlow, PTL DEF Spec, FlowInv

\* The invariant has every step behind a run complete.
LEMMA BehindNoStepAhead == FlowInv => NoStepAhead
  <1> SUFFICES ASSUME FlowInv, run.pc = "write" \/ run.pc = "done",
                      NEW i \in 1 .. (IF run.pc = "done" THEN 7 ELSE run.i - 1)
               PROVE  Complete(i)
    BY DEF NoStepAhead, Complete
  <1>1. run.i \in 1 .. 7
    BY DEF FlowInv, TypeOK, Processes
  <1>2. i \in 1 .. 7 /\ (run.pc = "done" \/ i < run.i)
    BY <1>1
  <1> QED
    BY <1>2 DEF FlowInv, BehindInv, AtWork

\* No step runs ahead of one that failed, is missing or is stale for the
\* inputs of the run.
THEOREM StepsInOrder == Spec => []NoStepAhead
  BY InitFlow, NextFlow, BehindNoStepAhead, PTL DEF Spec

-----------------------------------------------------------------------------
(* What the journal says of the files. *)

\* The files a step writes, and what its inputs make of them.
Made(s, a) ==
    CASE s = "preflight" -> {"preflight_report"}
      [] s = "grading" -> {"capability_matrix", "compatibility_result",
                           "remediation_list"}
      [] s = "mode-recommendation" -> {"mode_recommendation"}
      [] s = "contract-capture" -> {"answers", "install_contract"}
      [] s = "render" -> {a}
      [] s = "argocd-bootstrap" -> {"kustomization", "application"}
      [] OTHER -> {"install_summary"}

Due(s, snapshot, a, flags) ==
    CASE s = "preflight" -> Preflight(snapshot)
      [] s \in {"grading", "mode-recommendation"} ->
             Evaluation(Preflight(snapshot), snapshot, flags)
      [] OTHER -> a

\* The files nobody edits, only deletes.
Kept(s, a) == Made(s, a) \ {"answers"}

Undisturbed == ~interrupted /\ ~reflagged

Writing(s) == run.pc = "write" /\ Step = s

Behind(i) == (AtWork /\ i < run.i) \/ run.pc = "done"

Pending(f) == \E j \in DOMAIN run.writes : run.writes[j][1] = f

\* A complete record lists the files of its step.
OutputsInv ==
    journal # Torn =>
        \A s \in Steps : \A S \in Snapshot : \A a \in Answers \cup {None} :
            (/\ journal[s].status = "completed" /\ journal[s].digest # None
             /\ journal[s].digest = Digest(s, S, a))
            => journal[s].outputs = Outputs(s, a)

\* Outside its step, a complete record tells what the files hold that have
\* not been deleted.
RecordsInv ==
    Undisturbed =>
        \A s \in Steps : \A S \in Snapshot : \A a \in Answers \cup {None} :
            (/\ ~Writing(s) /\ journal[s].status = "completed"
             /\ journal[s].digest # None /\ journal[s].digest = Digest(s, S, a))
            => \A f \in Kept(s, a) : files[f] \in {None, Due(s, S, a, args.flags)}

\* The files of the steps behind the run are there, and are its own.
PresentInv ==
    \A i \in 1 .. 7 : Behind(i) =>
        /\ \A f \in Made(STEP_ORDER[i], run.answers) : files[f] # None
        /\ (Undisturbed /\ args.snapshot # None) =>
             \A f \in Kept(STEP_ORDER[i], run.answers) :
                 files[f] = Due(STEP_ORDER[i], args.snapshot, run.answers,
                                args.flags)

\* What the current step has still to write, and has written.
WriteInv ==
    run.pc = "write" =>
        /\ \A j \in DOMAIN run.writes :
              run.writes[j][1] \in Made(Step, run.answers)
        /\ run.ok =>
              \A f \in Made(Step, run.answers) : Pending(f) \/ files[f] # None
        /\ (run.ok /\ Step = "contract-capture") =>
              /\ \A j \in DOMAIN run.writes : run.writes[j][2] = run.answers
              /\ Pending("answers") \/ files["answers"] = run.answers
        /\ (Undisturbed /\ run.ok
            /\ Digest(Step, args.snapshot, run.answers) # None) =>
              /\ \A j \in DOMAIN run.writes :
                    run.writes[j][2]
                        = Due(Step, args.snapshot, run.answers, args.flags)
              /\ \A f \in Made(Step, run.answers) :
                    \/ Pending(f)
                    \/ files[f] = Due(Step, args.snapshot, run.answers, args.flags)

\* Where the answers of the run come from.
ArgsInv ==
    /\ AtWork \/ run.pc = "done" =>
          run.answers = None \/ args.answers = None \/ args.answers = run.answers
    /\ (AtWork /\ (run.i < 4 \/ (run.i = 4 /\ run.pc = "check"))) =>
          run.answers = None
    /\ (((AtWork /\ run.i > 4) \/ run.pc = "done") /\ args.answers = None) =>
          files["answers"] = run.answers

FreshInv ==
    /\ runs = 0 => /\ run.pc = "idle" /\ journal # Torn
                   /\ \A s \in Steps : journal[s].status = "none"
    /\ journal = Torn => interrupted

FilesInv == OutputsInv /\ RecordsInv /\ PresentInv /\ WriteInv /\ ArgsInv /\ FreshInv

\* The steps by name.
LEMMA StepNames ==
  Steps = {"preflight", "grading", "mode-recommendation", "contract-capture",
           "render", "argocd-bootstrap", "post-install-readiness"}
  <1>1. DOMAIN STEP_ORDER = 1 .. 7
    BY StepOrder
  <1>2. \A i \in 1 .. 7 : i = 1 \/ i = 2 \/ i = 3 \/ i = 4 \/ i = 5 \/ i = 6
                          \/ i = 7
    OBVIOUS
  <1>3. /\ STEP_ORDER[1] = "preflight"
        /\ STEP_ORDER[2] = "grading"
        /\ STEP_ORDER[3] = "mode-recommendation"
        /\ STEP_ORDER[4] = "contract-capture"
        /\ STEP_ORDER[5] = "render"
        /\ STEP_ORDER[6] = "argocd-bootstrap"
        /\ STEP_ORDER[7] = "post-install-readiness"
    BY DEF STEP_ORDER
  <1>4. \A s \in Steps : s \in {"preflight", "grading", "mode-recommendation",
           "contract-capture", "render", "argocd-bootstrap",
           "post-install-readiness"}
    BY <1>1, <1>2, <1>3 DEF Steps
  <1>5. 1 \in 1 .. 7 /\ 2 \in 1 .. 7 /\ 3 \in 1 .. 7 /\ 4 \in 1 .. 7
        /\ 5 \in 1 .. 7 /\ 6 \in 1 .. 7 /\ 7 \in 1 .. 7
    OBVIOUS
  <1>6. /\ "preflight" \in Steps /\ "grading" \in Steps
        /\ "mode-recommendation" \in Steps /\ "contract-capture" \in Steps
        /\ "render" \in Steps /\ "argocd-bootstrap" \in Steps
        /\ "post-install-readiness" \in Steps
    BY <1>3, <1>5, StepOrder
  <1> QED
    BY <1>4, <1>6

\* The names of a step's outputs are the files it makes.
LEMMA OutputsMade ==
  ASSUME NEW s \in Steps, NEW a
  PROVE  /\ \A j \in DOMAIN Outputs(s, a) : Outputs(s, a)[j] \in Made(s, a)
         /\ \A f \in Made(s, a) : \E j \in DOMAIN Outputs(s, a) : Outputs(s, a)[j] = f
  <1>1. CASE s = "grading"
    <2>1. Outputs(s, a) = <<"capability_matrix", "compatibility_result",
                            "remediation_list">>
      BY <1>1 DEF Outputs
    <2>2. /\ DOMAIN Outputs(s, a) = 1 .. 3
          /\ Outputs(s, a)[1] = "capability_matrix"
          /\ Outputs(s, a)[2] = "compatibility_result"
          /\ Outputs(s, a)[3] = "remediation_list"
      BY <2>1
    <2>3. \A j \in 1 .. 3 : j = 1 \/ j = 2 \/ j = 3
      OBVIOUS
    <2>4. 1 \in 1 .. 3 /\ 2 \in 1 .. 3 /\ 3 \in 1 .. 3
      OBVIOUS
    <2> QED
      BY <1>1, <2>2, <2>3, <2>4 DEF Made
  <1>2. ASSUME NEW x, NEW y, Outputs(s, a) = <<x, y>>, Made(s, a) = {x, y}
        PROVE  /\ \A j \in DOMAIN Outputs(s, a) : Outputs(s, a)[j] \in Made(s, a)
               /\ \A f \in Made(s, a) :
                     \E j \in DOMAIN Outputs(s, a) : Outputs(s, a)[j] = f
    <2>1. /\ DOMAIN Outputs(s, a) = 1 .. 2
          /\ Outputs(s, a)[1] = x /\ Outputs(s, a)[2] = y
      BY <1>2
    <2>2. (\A j \in 1 .. 2 : j = 1 \/ j = 2) /\ 1 \in 1 .. 2 /\ 2 \in 1 .. 2
      OBVIOUS
    <2> QED
      BY <1>2, <2>1, <2>2
  <1>3. ASSUME NEW x, Outputs(s, a) = <<x>>, Made(s, a) = {x}
        PROVE  /\ \A j \in DOMAIN Outputs(s, a) : Outputs(s, a)[j] \in Made(s, a)
               /\ \A f \in Made(s, a) :
                     \E j \in DOMAIN Outputs(s, a) : Outputs(s, a)[j] = f
    <2>1. DOMAIN Outputs(s, a) = 1 .. 1 /\ Outputs(s, a)[1] = x
      BY <1>3
    <2>2. (\A j \in 1 .. 1 : j = 1) /\ 1 \in 1 .. 1
      OBVIOUS
    <2> QED
      BY <1>3, <2>1, <2>2
  <1>4. CASE s = "preflight"
    BY <1>3, <1>4 DEF Outputs, Made
  <1>5. CASE s = "mode-recommendation"
    BY <1>3, <1>5 DEF Outputs, Made
  <1>6. CASE s = "contract-capture"
    BY <1>2, <1>6 DEF Outputs, Made
  <1>7. CASE s = "render"
    BY <1>3, <1>7 DEF Outputs, Made
  <1>8. CASE s = "argocd-bootstrap"
    BY <1>2, <1>8 DEF Outputs, Made
  <1>9. CASE s = "post-install-readiness"
    BY <1>3, <1>9 DEF Outputs, Made
  <1> QED
    BY <1>1, <1>4, <1>5, <1>6, <1>7, <1>8, <1>9, StepNames

\* No file is made by two steps.
LEMMA MadeApart ==
  ASSUME NEW s \in Steps, NEW q \in Steps, s # q, NEW a, NEW b,
         s = "render" => a \in Answers, q = "render" => b \in Answers
  PROVE  Made(s, a) \cap Made(q, b) = {}
  <1> DEFINE names == {"preflight_report"} \cup EvaluationFiles \cup AnswersFiles
  <1>1. CASE s = "render"
    <2>1. Made(s, a) = {a} /\ a \notin names
      BY <1>1, NamesAssumption DEF Made
    <2>2. Made(q, b) \subseteq names
      BY <1>1, StepNames DEF Made, EvaluationFiles, AnswersFiles
    <2> QED
      BY <2>1, <2>2
  <1>2. CASE q = "render"
    <2>1. Made(q, b) = {b} /\ b \notin names
      BY <1>2, NamesAssumption DEF Made
    <2>2. Made(s, a) \subseteq names
      BY <1>2, StepNames DEF Made, EvaluationFiles, AnswersFiles
    <2> QED
      BY <2>1, <2>2
  <1>3. CASE s # "render" /\ q # "render"
    BY <1>3, StepNames DEF Made
  <1> QED
    BY <1>1, <1>2, <1>3

\* A digest determines what its step makes.
LEMMA DigestTells ==
  ASSUME NEW s \in Steps, NEW S, NEW a, NEW S2, NEW a2,
         Digest(s, S, a) # None, Digest(s, S, a) = Digest(s, S2, a2)
  PROVE  /\ Made(s, a) = Made(s, a2) /\ Outputs(s, a) = Outputs(s, a2)
         /\ \A flags : Due(s, S, a, flags) = Due(s, S2, a2, flags)
         /\ s = "render" => a # None
         /\ s \in ClusterSteps => S # None
  <1>1. CASE s \in ClusterSteps
    <2>0. s \notin AnswersSteps
      BY <1>1 DEF ClusterSteps, AnswersSteps
    <2>1. S # None /\ <<S>> = <<S2>>
      BY <1>1, <2>0 DEF Digest
    <2>2. S = S2
      BY <2>1
    <2> QED
      BY <1>1, <2>1, <2>2 DEF Made, Outputs, Due, ClusterSteps
  <1>2. CASE s \in AnswersSteps
    <2>1. s \notin ClusterSteps
      BY <1>2 DEF ClusterSteps, AnswersSteps
    <2>2. a # None /\ <<a>> = <<a2>>
      BY <1>2, <2>1 DEF Digest
    <2>3. a = a2
      BY <2>2
    <2>4. ASSUME NEW flags
          PROVE  Due(s, S, a, flags) = a /\ Due(s, S2, a2, flags) = a2
      BY <1>2 DEF Due, AnswersSteps
    <2> QED
      BY <2>1, <2>2, <2>3, <2>4
  <1>3. CASE s = "post-install-readiness"
    <2>1. s \notin ClusterSteps /\ s \notin AnswersSteps
      BY <1>3 DEF ClusterSteps, AnswersSteps
    <2>2. <<S, a>> = <<S2, a2>>
      BY <2>1 DEF Digest
    <2>3. a = a2
      BY <2>2
    <2> QED
      BY <1>3, <2>1, <2>3 DEF Due
  <1> QED
    BY <1>1, <1>2, <1>3, StepNames DEF ClusterSteps, AnswersSteps

\* The first three steps have nothing to do with answers.
LEMMA ClusterStepsIgnoreAnswers ==
  ASSUME NEW i \in 1 .. 7, i < 4, NEW a, NEW b
  PROVE  /\ Made(STEP_ORDER[i], a) = Made(STEP_ORDER[i], b)
         /\ \A S, flags : Due(STEP_ORDER[i], S, a, flags)
                              = Due(STEP_ORDER[i], S, b, flags)
  <1>1. STEP_ORDER[i] \in ClusterSteps
    BY StepOrder
  <1> QED
    BY <1>1 DEF ClusterSteps, Made, Due

\* The writes of a plan for all outputs of a step.
LEMMA SameMade ==
  ASSUME NEW s \in Steps, NEW a, NEW c, NEW W, W = Same(Outputs(s, a), c)
  PROVE  /\ \A j \in DOMAIN W : W[j][1] \in Made(s, a) /\ W[j][2] = c
         /\ \A f \in Made(s, a) : \E j \in DOMAIN W : W[j][1] = f
  <1>1. DOMAIN W = DOMAIN Outputs(s, a)
        /\ \A j \in DOMAIN W : W[j][1] = Outputs(s, a)[j] /\ W[j][2] = c
    BY DEF Same
  <1> QED
    BY <1>1, OutputsMade

-----------------------------------------------------------------------------
(* One lemma for each action, again. *)

LEMMA RunKind ==
  ASSUME FlowInv
  PROVE  /\ run \in Processes /\ run.i \in 1 .. 7
         /\ Step = STEP_ORDER[run.i] /\ Step \in Steps
         /\ run.answers \in Answers \cup {None} /\ run.ok \in BOOLEAN
         /\ run.writes \in Seq(Writes) /\ args.snapshot \in Snapshot
  BY StepOrder DEF FlowInv, TypeOK, Processes, Step

\* A run that has ended, or not begun a step, says nothing of files.
LEMMA NotAtWork ==
  ASSUME ~AtWork, run.pc # "done"
  PROVE  PresentInv /\ WriteInv /\ ArgsInv
  BY DEF PresentInv, WriteInv, ArgsInv, Behind, AtWork

LEMMA InitFiles == Init => FilesInv
  <1> SUFFICES ASSUME Init PROVE FilesInv
    OBVIOUS
  <1>1. run.pc = "idle"
    BY DEF Init, Idle, Process
  <1>2. journal # Torn /\ \A s \in Steps : journal[s].status = "none"
    <2>2. \A s \in Steps : journal[s].status = "none"
      BY DEF Init, NoRecord
    <2>4. journal # Torn
      <3>1. NoRecord \in Record
        BY DEF NoRecord, Record, Digests
      <3>2. journal \in [Steps -> Record]
        BY <3>1 DEF Init
      <3> QED
        BY <3>2, JournalAssumption
    <2> QED
      BY <2>2, <2>4
  <1> QED
    BY <1>1, <1>2, NotAtWork
       DEF FilesInv, OutputsInv, RecordsInv, FreshInv, AtWork

\* A run over old records works with the flags that they were made with.
LEMMA StartFiles ==
  ASSUME FlowInv, FilesInv, Start
  PROVE  FilesInv'
  <1> USE DEF FilesInv
  <1>1. /\ UNCHANGED <<files, journal, interrupted>>
        /\ run.pc \notin {"check", "write"} /\ runs' = runs + 1
        /\ reflagged' = (reflagged \/ (runs > 0 /\ args'.flags # args.flags))
    BY DEF Start
  <1>2. PICK pc \in {"refused", "check"} : run' = Process(pc, 1, None, <<>>, TRUE)
    BY DEF Start, Idle, Process
  <1>3. run'.pc = pc /\ run'.i = 1 /\ run'.answers = None
    BY <1>2 DEF Process
  <1>4. runs \in Nat
    BY BoundsAssumption DEF FlowInv, TypeOK
  <1>5. OutputsInv' /\ FreshInv'
    BY <1>1, <1>4 DEF OutputsInv, FreshInv
  <1>6. RecordsInv'
    <2> SUFFICES ASSUME Undisturbed',
                        NEW s \in Steps, NEW S \in Snapshot,
                        NEW a \in Answers \cup {None},
                        journal[s].status = "completed", journal[s].digest # None,
                        journal[s].digest = Digest(s, S, a), NEW f \in Kept(s, a)
                 PROVE  files[f] \in {None, Due(s, S, a, args'.flags)}
      BY <1>1 DEF RecordsInv
    <2>1. Undisturbed /\ ~(runs > 0 /\ args'.flags # args.flags)
      BY <1>1 DEF Undisturbed
    <2>2. runs # 0
      BY DEF FreshInv
    <2>3. args'.flags = args.flags
      BY <1>4, <2>1, <2>2
    <2>4. ~Writing(s)
      BY <1>1 DEF Writing
    <2> QED
      BY <2>1, <2>3, <2>4 DEF RecordsInv
  <1>7. PresentInv'
    BY <1>3 DEF PresentInv, Behind, AtWork
  <1>8. WriteInv' /\ ArgsInv'
    BY <1>3 DEF WriteInv, ArgsInv, AtWork
  <1> QED
    BY <1>5, <1>6, <1>7, <1>8

\* A run that stops at a step it has not begun.
LEMMA StopFiles ==
  ASSUME FlowInv, FilesInv, run.pc = "check", run'.pc \in {"idle", "failed"},
         UNCHANGED <<files, journal, args, runs, interrupted, reflagged>>
  PROVE  FilesInv'
  <1> USE DEF FilesInv
  <1>1. OutputsInv' /\ FreshInv'
    BY DEF OutputsInv, FreshInv
  <1>2. RecordsInv'
    BY DEF RecordsInv, Undisturbed, Writing
  <1>3. PresentInv' /\ WriteInv' /\ ArgsInv'
    BY DEF PresentInv, WriteInv, ArgsInv, Behind, AtWork
  <1> QED
    BY <1>1, <1>2, <1>3

LEMMA CrashFiles ==
  ASSUME FlowInv, FilesInv, Crash
  PROVE  FilesInv'
  <1> USE DEF FilesInv
  <1>1. /\ run'.pc = "idle" /\ run.pc \in {"check", "write"}
        /\ UNCHANGED <<args, runs, reflagged>>
        /\ interrupted' = (interrupted \/ run.pc = "write")
    BY DEF Crash, Idle, Process
  <1>2. CASE run.pc = "check"
    <2>1. interrupted' = interrupted
      BY <1>1, <1>2 DEF FlowInv, TypeOK
    <2>2. UNCHANGED <<files, journal>>
      BY <1>2 DEF Crash
    <2> QED
      BY <1>1, <1>2, <2>1, <2>2, StopFiles
  <1>3. CASE run.pc = "write"
    <2>1. interrupted' /\ ~Undisturbed'
      BY <1>1, <1>3 DEF Undisturbed
    <2>2. RecordsInv'
      BY <2>1 DEF RecordsInv
    <2>3. OutputsInv'
      <3>1. journal' = journal \/ journal' = Torn
        BY DEF Crash
      <3> QED
        BY <3>1 DEF OutputsInv
    <2>4. FreshInv'
      BY <1>1, <1>3, <2>1 DEF FreshInv
    <2>5. PresentInv' /\ WriteInv' /\ ArgsInv'
      BY <1>1 DEF PresentInv, WriteInv, ArgsInv, Behind, AtWork
    <2> QED
      BY <2>2, <2>3, <2>4, <2>5
  <1> QED
    BY <1>1, <1>2, <1>3

LEMMA EditFiles ==
  ASSUME FlowInv, FilesInv, EditDirectory
  PROVE  FilesInv'
  <1> USE DEF FilesInv
  <1>1. /\ run'.pc = "idle" /\ run.pc # "write"
        /\ UNCHANGED <<journal, args, runs, interrupted, reflagged>>
    BY DEF EditDirectory, Idle, Process, Resting
  <1>2. \A f : f # "answers" /\ f \in Files => files'[f] \in {None, files[f]}
    BY DEF EditDirectory, FlowInv, TypeOK
  <1>3. OutputsInv' /\ FreshInv'
    BY <1>1 DEF OutputsInv, FreshInv
  <1>4. RecordsInv'
    <2> SUFFICES ASSUME Undisturbed,
                        NEW s \in Steps, NEW S \in Snapshot,
                        NEW a \in Answers \cup {None},
                        journal[s].status = "completed", journal[s].digest # None,
                        journal[s].digest = Digest(s, S, a), NEW f \in Kept(s, a)
                 PROVE  files'[f] \in {None, Due(s, S, a, args.flags)}
      BY <1>1 DEF RecordsInv, Undisturbed
    <2>1. files[f] \in {None, Due(s, S, a, args.flags)}
      BY <1>1 DEF RecordsInv, Writing
    <2>2. s = "render" => a \in Answers
      BY DigestTells
    <2>3. f \in Files /\ f # "answers"
      BY <2>2, StepNames DEF Kept, Made, Files, AnswersFiles, EvaluationFiles
    <2> QED
      BY <1>2, <2>1, <2>3
  <1>5. PresentInv' /\ WriteInv' /\ ArgsInv'
    BY <1>1 DEF PresentInv, WriteInv, ArgsInv, Behind, AtWork
  <1> QED
    BY <1>3, <1>4, <1>5

\* What stays as it is.
LEMMA SameFiles ==
  ASSUME FilesInv,
         UNCHANGED <<files, journal, args, run, runs, interrupted, reflagged>>
  PROVE  FilesInv'
  <1> USE DEF FilesInv
  <1>1. OutputsInv' /\ FreshInv'
    BY DEF OutputsInv, FreshInv
  <1>2. RecordsInv'
    BY DEF RecordsInv, Undisturbed, Writing, Step
  <1>3. PresentInv'
    BY DEF PresentInv, Behind, AtWork, Undisturbed
  <1>4. WriteInv' /\ ArgsInv'
    BY DEF WriteInv, ArgsInv, AtWork, Undisturbed, Pending, Step
  <1> QED
    BY <1>1, <1>2, <1>3, <1>4

\* A plan whose writes are what its step makes, due to the inputs of the run.
LEMMA PlannedFiles ==
  ASSUME FlowInv, FilesInv, run.pc = "check",
         NEW a \in Answers \cup {None}, NEW W, NEW ok,
         run' = Process("write", run.i, a, W, ok),
         run.i # 4 => a = run.answers,
         a = None \/ args.answers = None \/ args.answers = a,
         \A j \in DOMAIN W : W[j][1] \in Made(Step, a),
         ok => \A f \in Made(Step, a) : \E j \in DOMAIN W : W[j][1] = f,
         (ok /\ Step = "contract-capture") => \A j \in DOMAIN W : W[j][2] = a,
         (Undisturbed /\ ok /\ Digest(Step, args.snapshot, a) # None) =>
             \A j \in DOMAIN W :
                 W[j][2] = Due(Step, args.snapshot, a, args.flags),
         UNCHANGED <<files, journal, settled, outside>>
  PROVE  FilesInv'
  <1> USE DEF FilesInv
  <1>1. /\ run.i \in 1 .. 7
        /\ run'.pc = "write" /\ run'.i = run.i /\ run'.answers = a
        /\ run'.writes = W /\ run'.ok = ok /\ Step' = Step
    BY RunKind DEF Process, Step
  <1>2. UNCHANGED <<files, journal, args, runs, interrupted, reflagged>>
    BY DEF outside
  <1>3. OutputsInv' /\ FreshInv'
    BY <1>2 DEF OutputsInv, FreshInv
  <1>4. RecordsInv'
    BY <1>2 DEF RecordsInv, Undisturbed, Writing
  <1>5. PresentInv'
    <2> SUFFICES ASSUME NEW i \in 1 .. 7, i < run.i
                 PROVE  /\ \A f \in Made(STEP_ORDER[i], a) : files[f] # None
                        /\ (Undisturbed /\ args.snapshot # None) =>
                             \A f \in Kept(STEP_ORDER[i], a) :
                                files[f] = Due(STEP_ORDER[i], args.snapshot, a,
                                               args.flags)
      BY <1>1, <1>2 DEF PresentInv, Behind, AtWork, Undisturbed
    <2>1. Behind(i)
      BY DEF Behind, AtWork
    <2>2. CASE run.i # 4
      BY <2>1, <2>2 DEF PresentInv
    <2>3. CASE run.i = 4
      <3>1. /\ Made(STEP_ORDER[i], a) = Made(STEP_ORDER[i], run.answers)
            /\ \A S, flags : Due(STEP_ORDER[i], S, a, flags)
                                 = Due(STEP_ORDER[i], S, run.answers, flags)
        BY <2>3, ClusterStepsIgnoreAnswers
      <3> QED
        BY <2>1, <3>1 DEF PresentInv, Kept
    <2> QED
      BY <2>2, <2>3
  <1>6. WriteInv'
    <2>1. Step = "contract-capture" => "answers" \in Made(Step, a)
      BY DEF Made
    <2>2. \A f : (\E j \in DOMAIN W : W[j][1] = f) => Pending(f)'
      BY <1>1 DEF Pending
    <2>3. Undisturbed' = Undisturbed
      BY <1>2 DEF Undisturbed
    <2> QED
      BY <1>1, <1>2, <2>1, <2>2, <2>3 DEF WriteInv
  <1>7. ArgsInv'
    <2>1. run.i < 4 => a = None
      BY <1>1 DEF ArgsInv, AtWork
    <2>2. run.i > 4 /\ args.answers = None => files["answers"] = a
      BY <1>1 DEF ArgsInv, AtWork
    <2> QED
      BY <1>1, <1>2, <2>1, <2>2 DEF ArgsInv, AtWork
  <1> QED
    BY <1>3, <1>4, <1>5, <1>6, <1>7

\* The reports of the cluster steps: the preflight report on disk is that of
\* this run when the run is one over a snapshot.
LEMMA ExecuteClusterFiles ==
  ASSUME FlowInv, FilesInv, Execute, Step \in ClusterSteps
  PROVE  FilesInv'
  <1> USE DEF FilesInv
  <1>1. run.pc = "check" /\ UNCHANGED <<files, journal, settled, outside>>
    BY DEF Execute
  <1>2. /\ run.i \in 1 .. 7 /\ Step \in Steps /\ Step # "contract-capture"
        /\ run.answers \in Answers \cup {None} /\ run.i < 4
    BY RunKind, StepPlace DEF ClusterSteps
  <1>3. run.answers = None
    BY <1>1, <1>2 DEF ArgsInv, AtWork
  <1>4. Digest(Step, args.snapshot, run.answers) # None => Seen = args.snapshot
    BY <1>2, DigestTells DEF Seen
  <1>5. ASSUME NEW c, NEW ok,
               run' = Process("write", run.i, run.answers,
                              Same(Outputs(Step, run.answers), c), ok),
               (Undisturbed /\ Digest(Step, args.snapshot, run.answers) # None) =>
                   c = Due(Step, args.snapshot, run.answers, args.flags)
        PROVE  FilesInv'
    <2>1. PICK W : W = Same(Outputs(Step, run.answers), c)
      OBVIOUS
    <2>2. /\ \A j \in DOMAIN W : W[j][1] \in Made(Step, run.answers) /\ W[j][2] = c
          /\ \A f \in Made(Step, run.answers) : \E j \in DOMAIN W : W[j][1] = f
      BY <1>2, <2>1, SameMade
    <2>3. run' = Process("write", run.i, run.answers, W, ok)
      BY <1>5, <2>1
    <2> QED
      BY <1>1, <1>2, <1>3, <1>5, <2>2, <2>3, PlannedFiles
  <1>6. CASE Step = "preflight" /\ run' = PlanPreflight
    <2>1. run' = Process("write", run.i, run.answers,
                         Same(Outputs(Step, run.answers), Preflight(Seen)),
                         Seen \notin Failing)
      BY <1>6 DEF PlanPreflight, Outputs
    <2>2. Due(Step, args.snapshot, run.answers, args.flags)
             = Preflight(args.snapshot)
      BY <1>6 DEF Due
    <2> QED
      BY <1>4, <1>5, <2>1, <2>2
  <1>7. ASSUME Step \in {"grading", "mode-recommendation"},
               NEW graded \in BOOLEAN,
               run' = PlanEvaluation(Outputs(Step, None), graded)
        PROVE  FilesInv'
    <2>1. CASE files["preflight_report"] \in {None, Torn}
      <3>1. run' = Process("write", run.i, run.answers, <<>>, FALSE)
        BY <1>7, <2>1 DEF PlanEvaluation
      <3>2. DOMAIN << >> = {}
        OBVIOUS
      <3> QED
        BY <1>1, <1>2, <1>3, <3>1, <3>2, PlannedFiles
    <2>2. CASE files["preflight_report"] \notin {None, Torn}
      <3>1. PICK ok :
              run' = Process("write", run.i, run.answers,
                         Same(Outputs(Step, run.answers),
                              Evaluation(files["preflight_report"], Seen,
                                         args.flags)), ok)
        BY <1>3, <1>7, <2>2 DEF PlanEvaluation
      <3>2. ASSUME Undisturbed, Digest(Step, args.snapshot, run.answers) # None
            PROVE  files["preflight_report"] = Preflight(args.snapshot)
        <4>1. args.snapshot # None
          BY <1>2, <3>2, DigestTells
        <4>2. 1 \in 1 .. 7 /\ 1 < run.i
          <5>1. run.i # 1
            BY <1>2, <1>7, RunKind DEF STEP_ORDER
          <5> QED
            BY <1>2, <5>1
        <4>3. Behind(1) /\ STEP_ORDER[1] = "preflight"
          BY <1>1, <4>2 DEF Behind, AtWork, STEP_ORDER
        <4>4. "preflight_report" \in Kept("preflight", run.answers)
          BY DEF Kept, Made
        <4>5. Due("preflight", args.snapshot, run.answers, args.flags)
                 = Preflight(args.snapshot)
          BY DEF Due
        <4> QED
          BY <3>2, <4>1, <4>2, <4>3, <4>4, <4>5 DEF PresentInv
      <3>3. Due(Step, args.snapshot, run.answers, args.flags)
               = Evaluation(Preflight(args.snapshot), args.snapshot, args.flags)
        BY <1>7 DEF Due
      <3> QED
        BY <1>4, <1>5, <3>1, <3>2, <3>3
    <2> QED
      BY <2>1, <2>2
  <1> QED
    BY <1>6, <1>7 DEF Execute, ClusterSteps

\* The steps after them write the answers of the run.
LEMMA ExecuteAnswersFiles ==
  ASSUME FlowInv, FilesInv, Execute, Step \notin ClusterSteps
  PROVE  FilesInv'
  <1> USE DEF FilesInv
  <1>1. /\ run.pc = "check" /\ Resolved # Torn
        /\ UNCHANGED <<files, journal, settled, outside>>
    BY DEF Execute
  <1>2. /\ run.i \in 1 .. 7 /\ Step \in Steps
        /\ Resolved \in Answers \cup {None}
        /\ run.i # 4 => Resolved = run.answers
    BY <1>1, RunKind, ResolvedKind
  <1>3. ASSUME NEW a \in Answers \cup {None}, NEW ok,
               run' = Process("write", run.i, a, Same(Outputs(Step, a), a), ok),
               run.i # 4 => a = run.answers,
               a = None \/ args.answers = None \/ args.answers = a
        PROVE  FilesInv'
    <2>1. PICK W : W = Same(Outputs(Step, a), a)
      OBVIOUS
    <2>2. /\ \A j \in DOMAIN W : W[j][1] \in Made(Step, a) /\ W[j][2] = a
          /\ \A f \in Made(Step, a) : \E j \in DOMAIN W : W[j][1] = f
      BY <1>2, <2>1, SameMade
    <2>3. run' = Process("write", run.i, a, W, ok)
      BY <1>3, <2>1
    <2>4. Due(Step, args.snapshot, a, args.flags) = a
      BY <1>2 DEF Due, ClusterSteps
    <2> QED
      BY <1>1, <1>3, <2>2, <2>3, <2>4, PlannedFiles
  <1>4. ASSUME run.i # 4
        PROVE  Resolved = None \/ args.answers = None \/ args.answers = Resolved
    BY <1>1, <1>2, <1>4 DEF ArgsInv, AtWork
  <1>5. ASSUME Step = "contract-capture", NEW a \in Captured, run' = PlanCapture(a)
        PROVE  FilesInv'
    <2>1. run.i = 4
      BY <1>2, <1>5, RunKind, StepOrder
    <2>2. run.answers = None
      BY <1>1, <2>1 DEF ArgsInv, AtWork
    <2>3. args.answers = None \/ args.answers = Resolved
      BY <2>2 DEF Resolved
    <2>4. a \in Answers /\ (args.answers = None \/ args.answers = a)
      BY <1>2, <2>3 DEF Captured
    <2>5. CASE Validates(a)
      <3>1. run' = Process("write", run.i, a, Same(Outputs(Step, a), a), TRUE)
        BY <1>5, <2>5 DEF PlanCapture, Outputs
      <3> QED
        BY <1>3, <2>1, <2>4, <3>1
    <2>6. CASE ~Validates(a)
      <3>1. run' = Process("write", run.i, Resolved, <<>>, FALSE)
        BY <1>5, <2>6 DEF PlanCapture
      <3>2. DOMAIN << >> = {}
        OBVIOUS
      <3> QED
        BY <1>1, <1>2, <2>1, <2>3, <3>1, <3>2, PlannedFiles
    <2> QED
      BY <2>5, <2>6
  <1>6. CASE Step = "render" /\ run' = PlanRender
    <2>1. run.i # 4
      BY <1>2, <1>6, RunKind, StepOrder
    <2>2. run' = Process("write", run.i, Resolved,
                         Same(Outputs(Step, Resolved), Resolved), TRUE)
      BY <1>6 DEF PlanRender, Outputs
    <2> QED
      BY <1>2, <1>3, <1>4, <2>1, <2>2
  <1>7. CASE Step = "argocd-bootstrap" /\ run' = PlanBootstrap
    <2>1. run.i # 4
      BY <1>2, <1>7, RunKind, StepOrder
    <2>2. run' = Process("write", run.i, Resolved,
                         Same(Outputs(Step, Resolved), Resolved), TRUE)
      BY <1>7 DEF PlanBootstrap, Outputs
    <2> QED
      BY <1>2, <1>3, <1>4, <2>1, <2>2
  <1>8. ASSUME Step = "post-install-readiness", NEW passed \in BOOLEAN,
               run' = PlanReadiness(passed)
        PROVE  FilesInv'
    <2>1. run.i # 4
      BY <1>2, <1>8, RunKind, StepOrder
    <2>2. run' = Process("write", run.i, Resolved,
                         Same(Outputs(Step, Resolved), Resolved), passed)
      BY <1>8 DEF PlanReadiness, Outputs
    <2> QED
      BY <1>2, <1>3, <1>4, <2>1, <2>2
  <1> QED
    BY <1>5, <1>6, <1>7, <1>8 DEF Execute, ClusterSteps

LEMMA ExecuteFiles ==
  ASSUME FlowInv, FilesInv, Execute
  PROVE  FilesInv'
  BY ExecuteClusterFiles, ExecuteAnswersFiles

\* What a step makes are files of the directory.
LEMMA MadeFiles ==
  ASSUME NEW s \in Steps, NEW a, s = "render" => a \in Answers
  PROVE  Made(s, a) \subseteq Files
  BY StepNames DEF Made, Files, EvaluationFiles, AnswersFiles

LEMMA ContentsAreThere ==
  ASSUME NEW f \in Files
  PROVE  None \notin Contents(f)
  BY InputsAssumption DEF Contents

\* The answers of a run at or past its render.
LEMMA AnswersKnown ==
  ASSUME FlowInv, AtWork, NEW i \in 1 .. 7, i <= run.i, STEP_ORDER[i] = "render"
  PROVE  run.answers \in Answers
  <1>1. STEP_ORDER[i] \notin ClusterSteps \cup {"contract-capture"}
    BY DEF ClusterSteps
  <1>2. i >= 5 /\ run.i \in 1 .. 7
    BY <1>1, StepPlace, RunKind
  <1>3. run.i >= 5
    BY <1>2
  <1> QED
    BY <1>3 DEF FlowInv, AnswersInv, Valid

\* A write touches files of its own step alone.
LEMMA WriteFiles ==
  ASSUME FlowInv, FilesInv, Write
  PROVE  FilesInv'
  <1> USE DEF FilesInv
  <1>1. /\ run.pc = "write" /\ run.writes # <<>>
        /\ UNCHANGED <<journal, args, runs, interrupted, reflagged>>
    BY DEF Write, outside
  <1>2. /\ run.i \in 1 .. 7 /\ Step = STEP_ORDER[run.i] /\ Step \in Steps
        /\ run \in Processes /\ run.writes \in Seq(Writes)
        /\ run.answers \in Answers \cup {None}
    BY RunKind
  <1>3. /\ run'.pc = "write" /\ run'.i = run.i /\ run'.answers = run.answers
        /\ run'.ok = run.ok /\ run'.writes = Tail(run.writes)
    BY <1>1, <1>2 DEF Write, Processes
  <1>4. /\ 1 \in DOMAIN run.writes /\ Head(run.writes) = run.writes[1]
        /\ \A j \in DOMAIN Tail(run.writes) :
              /\ j + 1 \in DOMAIN run.writes
              /\ Tail(run.writes)[j] = run.writes[j + 1]
        /\ \A j \in DOMAIN run.writes :
              \/ j = 1
              \/ /\ j - 1 \in DOMAIN Tail(run.writes)
                 /\ Tail(run.writes)[j - 1] = run.writes[j]
    BY <1>1, <1>2
  <1>5. PICK f0, c0 : f0 = run.writes[1][1] /\ c0 = run.writes[1][2]
    OBVIOUS
  <1>6. f0 \in Files /\ c0 \in Contents(f0) /\ c0 # None
    <2>1. run.writes[1] \in Writes
      BY <1>2, <1>4
    <2> QED
      BY <1>5, <2>1, ContentsAreThere DEF Writes
  <1>7. f0 \in Made(Step, run.answers)
    BY <1>1, <1>4, <1>5 DEF WriteInv
  <1>8. \A f \in Files : files'[f] = IF f = f0 THEN c0 ELSE files[f]
    BY <1>4, <1>5, <1>6 DEF Write, FlowInv, TypeOK
  <1>9. Step' = Step /\ Undisturbed' = Undisturbed
    BY <1>1, <1>3 DEF Step, Undisturbed
  <1>10. Step = "render" => run.answers \in Answers
    <2>1. run.i <= run.i /\ AtWork
      BY <1>1, <1>2 DEF AtWork
    <2> QED
      BY <1>2, <2>1, AnswersKnown
  <1>11. OutputsInv' /\ FreshInv'
    BY <1>1 DEF OutputsInv, FreshInv
  <1>12. RecordsInv'
    <2> SUFFICES ASSUME Undisturbed,
                        NEW s \in Steps, NEW S \in Snapshot,
                        NEW a \in Answers \cup {None}, s # Step,
                        journal[s].status = "completed", journal[s].digest # None,
                        journal[s].digest = Digest(s, S, a), NEW f \in Kept(s, a)
                 PROVE  files'[f] \in {None, Due(s, S, a, args.flags)}
      BY <1>1, <1>3, <1>9 DEF RecordsInv, Writing
    <2>1. files[f] \in {None, Due(s, S, a, args.flags)}
      BY <1>1 DEF RecordsInv, Writing
    <2>2. s = "render" => a \in Answers
      BY DigestTells
    <2>3. f \in Files /\ f # f0
      BY <1>2, <1>7, <1>10, <2>2, MadeFiles, MadeApart DEF Kept
    <2> QED
      BY <1>8, <2>1, <2>3
  <1>13. PresentInv'
    <2> SUFFICES ASSUME NEW i \in 1 .. 7, i < run.i
                 PROVE  /\ \A f \in Made(STEP_ORDER[i], run.answers) :
                              files'[f] # None
                        /\ (Undisturbed /\ args.snapshot # None) =>
                             \A f \in Kept(STEP_ORDER[i], run.answers) :
                                files'[f] = Due(STEP_ORDER[i], args.snapshot,
                                                run.answers, args.flags)
      BY <1>1, <1>3, <1>9 DEF PresentInv, Behind, AtWork
    <2>1. Behind(i)
      BY <1>1 DEF Behind, AtWork
    <2>2. STEP_ORDER[i] # Step /\ STEP_ORDER[i] \in Steps
      BY <1>2, StepsDistinct, StepOrder
    <2>3. STEP_ORDER[i] = "render" => run.answers \in Answers
      BY <1>1, <1>2, AnswersKnown DEF AtWork
    <2>4. \A f \in Made(STEP_ORDER[i], run.answers) : f \in Files /\ f # f0
      BY <1>2, <1>7, <1>10, <2>2, <2>3, MadeFiles, MadeApart
    <2>5. \A f \in Made(STEP_ORDER[i], run.answers) : files'[f] = files[f]
      BY <1>8, <2>4
    <2> QED
      BY <2>1, <2>5 DEF PresentInv, Kept
  <1>14. WriteInv'
    <2>1. \A j \in DOMAIN run'.writes :
             \E k \in DOMAIN run.writes : run'.writes[j] = run.writes[k]
      BY <1>3, <1>4
    <2>2. ASSUME NEW f, Pending(f), f # f0
          PROVE  Pending(f)'
      <3>1. PICK j \in DOMAIN run.writes : run.writes[j][1] = f
        BY <2>2 DEF Pending
      <3>2. j # 1
        BY <1>5, <2>2, <3>1
      <3> QED
        BY <1>3, <1>4, <3>1, <3>2 DEF Pending
    <2>3. Made(Step, run.answers) \subseteq Files
      BY <1>2, <1>10, MadeFiles
    <2>4. \A j \in DOMAIN run'.writes :
             run'.writes[j][1] \in Made(Step, run.answers)
      BY <1>1, <2>1 DEF WriteInv
    <2>5. ASSUME run.ok, NEW f \in Made(Step, run.answers)
          PROVE  Pending(f)' \/ files'[f] # None
      BY <1>1, <1>6, <1>8, <2>2, <2>3, <2>5 DEF WriteInv
    <2>6. ASSUME run.ok, Step = "contract-capture"
          PROVE  /\ \A j \in DOMAIN run'.writes : run'.writes[j][2] = run.answers
                 /\ Pending("answers")' \/ files'["answers"] = run.answers
      <3>1. c0 = run.answers
        BY <1>1, <1>4, <1>5, <2>6 DEF WriteInv
      <3>2. "answers" \in Files
        BY DEF Files, AnswersFiles
      <3> QED
        BY <1>1, <1>8, <2>1, <2>2, <2>6, <3>1, <3>2 DEF WriteInv
    <2>7. ASSUME Undisturbed, run.ok,
                 Digest(Step, args.snapshot, run.answers) # None
          PROVE  /\ \A j \in DOMAIN run'.writes :
                       run'.writes[j][2]
                           = Due(Step, args.snapshot, run.answers, args.flags)
                 /\ \A f \in Made(Step, run.answers) :
                       \/ Pending(f)'
                       \/ files'[f] = Due(Step, args.snapshot, run.answers,
                                          args.flags)
      <3>1. c0 = Due(Step, args.snapshot, run.answers, args.flags)
        BY <1>1, <1>4, <1>5, <2>7 DEF WriteInv
      <3> QED
        BY <1>1, <1>8, <2>1, <2>2, <2>3, <2>7, <3>1 DEF WriteInv
    <2> QED
      BY <1>1, <1>3, <1>9, <2>4, <2>5, <2>6, <2>7 DEF WriteInv
  <1>15. ArgsInv'
    <2>1. ASSUME run.i > 4
          PROVE  files'["answers"] = files["answers"]
      <3>1. Step # "contract-capture"
        BY <1>2, <2>1, StepOrder
      <3>2. "contract-capture" \in Steps
        BY StepNames
      <3>3. "answers" \in Made("contract-capture", None) /\ "answers" \in Files
        BY DEF Made, Files, AnswersFiles
      <3>4. "answers" # f0
        BY <1>2, <1>7, <1>10, <3>1, <3>2, <3>3, MadeApart
      <3> QED
        BY <1>8, <3>3, <3>4
    <2> QED
      BY <1>1, <1>2, <1>3, <2>1 DEF ArgsInv, AtWork
  <1> QED
    BY <1>11, <1>12, <1>13, <1>14, <1>15

\* The run goes on after a step whose files are there, and are its own.
LEMMA AdvanceFiles ==
  ASSUME FlowInv, FilesInv, AtWork, NEW a \in Answers \cup {None},
         run' = Advance(a), UNCHANGED <<files, outside>>,
         run.i # 4 => a = run.answers,
         a = None \/ args.answers = None \/ args.answers = a,
         run.i = 4 /\ args.answers = None => files["answers"] = a,
         \A f \in Made(Step, a) : files[f] # None,
         (Undisturbed /\ args.snapshot # None) =>
             \A f \in Kept(Step, a) :
                 files[f] = Due(Step, args.snapshot, a, args.flags)
  PROVE  PresentInv' /\ WriteInv' /\ ArgsInv'
  <1> USE DEF FilesInv
  <1>1. run.i \in 1 .. 7 /\ Step = STEP_ORDER[run.i]
    BY RunKind
  <1>2. /\ run'.answers = a
        /\ \/ run'.pc = "done" /\ run.i = 7
           \/ run'.pc = "check" /\ run'.i = run.i + 1
    BY StepOrder DEF Advance, Process
  <1>3. Undisturbed' = Undisturbed /\ args' = args /\ files' = files
    BY DEF Undisturbed, outside
  <1>4. PresentInv'
    <2> SUFFICES ASSUME NEW i \in 1 .. 7, i <= run.i
                 PROVE  /\ \A f \in Made(STEP_ORDER[i], a) : files[f] # None
                        /\ (Undisturbed /\ args.snapshot # None) =>
                             \A f \in Kept(STEP_ORDER[i], a) :
                                files[f] = Due(STEP_ORDER[i], args.snapshot, a,
                                               args.flags)
      <3>1. \A i \in 1 .. 7 : Behind(i)' => i <= run.i
        BY <1>1, <1>2 DEF Behind, AtWork
      <3> QED
        BY <1>2, <1>3, <3>1 DEF PresentInv
    <2>1. CASE i = run.i
      BY <1>1, <2>1
    <2>2. CASE i < run.i
      <3>1. Behind(i)
        BY <2>2 DEF Behind
      <3>2. CASE run.i # 4
        BY <3>1, <3>2 DEF PresentInv
      <3>3. CASE run.i = 4
        <4>1. /\ Made(STEP_ORDER[i], a) = Made(STEP_ORDER[i], run.answers)
              /\ \A S, flags : Due(STEP_ORDER[i], S, a, flags)
                                   = Due(STEP_ORDER[i], S, run.answers, flags)
          BY <2>2, <3>3, ClusterStepsIgnoreAnswers
        <4> QED
          BY <3>1, <4>1 DEF PresentInv, Kept
      <3> QED
        BY <3>2, <3>3
    <2> QED
      BY <1>1, <2>1, <2>2
  <1>5. WriteInv'
    BY <1>2 DEF WriteInv
  <1>6. ArgsInv'
    <2>1. run.i < 4 => a = None
      BY <1>1 DEF ArgsInv
    <2>2. run.i > 4 /\ args.answers = None => files["answers"] = a
      BY <1>1 DEF ArgsInv
    <2> QED
      BY <1>1, <1>2, <1>3, <2>1, <2>2 DEF ArgsInv, AtWork
  <1> QED
    BY <1>4, <1>5, <1>6

LEMMA JournalReadable ==
  ASSUME FlowInv, AtWork
  PROVE  journal # Torn /\ journal \in [Steps -> Record]
  BY JournalAssumption DEF FlowInv, JournalGood

\* A skipped step has its files from an earlier run with the same inputs.
LEMMA SkipFiles ==
  ASSUME FlowInv, FilesInv, Skip
  PROVE  FilesInv'
  <1> USE DEF FilesInv
  <1>1. /\ run.pc = "check" /\ AtWork /\ Resolved # Torn
        /\ run' = Advance(Resolved) /\ UNCHANGED <<files, journal, outside>>
    BY DEF Skip, AtWork
  <1>2. /\ Resolved \in Answers \cup {None}
        /\ run.i # 4 => Resolved = run.answers
        /\ Step \in Steps /\ args.snapshot \in Snapshot /\ run.i \in 1 .. 7
        /\ Step = STEP_ORDER[run.i]
    BY <1>1, RunKind, ResolvedKind
  <1>3. PICK a \in Answers \cup {None} : a = Resolved
    BY <1>2
  <1>4. /\ journal[Step].status = "completed" /\ journal[Step].digest # None
        /\ journal[Step].digest = Digest(Step, args.snapshot, a)
        /\ \A j \in DOMAIN journal[Step].outputs :
              files[journal[Step].outputs[j]] # None
    BY <1>3 DEF Skip, Skippable, OutputsExist
  <1>5. journal[Step].outputs = Outputs(Step, a)
    BY <1>1, <1>2, <1>4, JournalReadable DEF OutputsInv
  <1>6. \A f \in Made(Step, a) : files[f] # None
    BY <1>2, <1>4, <1>5, OutputsMade
  <1>7. Undisturbed =>
            \A f \in Kept(Step, a) :
                files[f] = Due(Step, args.snapshot, a, args.flags)
    BY <1>1, <1>2, <1>4, <1>6 DEF RecordsInv, Writing, Kept
  <1>8. /\ a = None \/ args.answers = None \/ args.answers = a
        /\ run.i = 4 /\ args.answers = None => files["answers"] = a
    <2>1. CASE run.i = 4
      <3>1. run.answers = None
        BY <1>1, <2>1 DEF ArgsInv
      <3>2. Step \notin ClusterSteps
        BY <1>2, <2>1, StepOrder
      <3> QED
        BY <1>3, <3>1, <3>2 DEF Resolved
    <2>2. CASE run.i # 4
      BY <1>1, <1>2, <1>3, <2>2 DEF ArgsInv
    <2> QED
      BY <2>1, <2>2
  <1>9. PresentInv' /\ WriteInv' /\ ArgsInv'
    BY <1>1, <1>2, <1>3, <1>6, <1>7, <1>8, AdvanceFiles
  <1>10. run'.pc # "write" /\ runs' = runs /\ runs # 0
    BY <1>1 DEF Advance, Process, FreshInv, outside
  <1>11. OutputsInv' /\ FreshInv'
    BY <1>1, <1>10 DEF OutputsInv, FreshInv, outside
  <1>12. RecordsInv'
    BY <1>1, <1>10 DEF RecordsInv, Undisturbed, Writing, outside
  <1> QED
    BY <1>9, <1>11, <1>12

\* A step of a run over a snapshot that succeeds has a digest.
LEMMA DigestReal ==
  ASSUME FlowInv, run.pc = "write", run.ok, args.snapshot # None
  PROVE  Digest(Step, args.snapshot, run.answers) # None
  <1>1. /\ run.i \in 1 .. 7 /\ Step = STEP_ORDER[run.i] /\ Step \in Steps
        /\ args.snapshot \in Clusters
    BY RunKind DEF Snapshot
  <1>2. CASE Step \in ClusterSteps
    BY <1>1, <1>2, DigestAssumption DEF Digest, ClusterSteps, AnswersSteps
  <1>3. CASE Step \notin ClusterSteps
    <2>1. run.i >= 4
      BY <1>1, <1>3, StepOrder
    <2>2. run.answers \in Answers /\ run.answers # None
      BY <1>1, <2>1, InputsAssumption DEF FlowInv, AnswersInv, Valid, AtWork
    <2>3. <<run.answers>> # None /\ <<args.snapshot, run.answers>> # None
      BY <1>1, <2>2, DigestAssumption
    <2> QED
      BY <1>3, <2>2, <2>3 DEF Digest
  <1> QED
    BY <1>2, <1>3

\* What is recorded of a step is what it has written.
LEMMA RecordStepFiles ==
  ASSUME FlowInv, FilesInv, RecordStep
  PROVE  FilesInv'
  <1> USE DEF FilesInv
  <1>1. /\ run.pc = "write" /\ AtWork /\ run.writes = <<>>
        /\ journal' = [journal EXCEPT ![Step] = Entry]
        /\ UNCHANGED <<files, outside>>
        /\ UNCHANGED <<args, runs, interrupted, reflagged>>
    BY DEF RecordStep, AtWork, outside
  <1>2. /\ run.i \in 1 .. 7 /\ Step = STEP_ORDER[run.i] /\ Step \in Steps
        /\ run \in Processes /\ run.answers \in Answers \cup {None}
        /\ args.snapshot \in Snapshot /\ run.ok \in BOOLEAN
    BY RunKind
  <1>3. /\ journal # Torn /\ journal \in [Steps -> Record]
    BY <1>1, JournalReadable
  <1>4. /\ journal'[Step] = Entry
        /\ \A s \in Steps : s # Step => journal'[s] = journal[s]
    BY <1>1, <1>2, <1>3
  <1>5. Undisturbed' = Undisturbed
    BY <1>1 DEF Undisturbed
  <1>6. \A f : ~Pending(f)
    BY <1>1 DEF Pending
  <1>7. run.ok => \A f \in Made(Step, run.answers) : files[f] # None
    BY <1>1, <1>6 DEF WriteInv
  <1>8. (Undisturbed /\ run.ok /\ Digest(Step, args.snapshot, run.answers) # None) =>
          \A f \in Made(Step, run.answers) :
              files[f] = Due(Step, args.snapshot, run.answers, args.flags)
    BY <1>1, <1>6 DEF WriteInv
  <1>9. Entry.status = "completed" =>
            /\ run.ok
            /\ Entry.digest = Digest(Step, args.snapshot, run.answers)
            /\ Entry.outputs = Outputs(Step, run.answers)
    BY DEF Entry
  <1>10. run'.pc # "write" /\ runs # 0 /\ interrupted \in BOOLEAN
    <2>1. CASE run.ok
      BY <1>1, <2>1 DEF RecordStep, Advance, Process, FreshInv, FlowInv, TypeOK
    <2>2. CASE ~run.ok
      BY <1>1, <1>2, <2>2 DEF RecordStep, Processes, FreshInv, FlowInv, TypeOK
    <2> QED
      BY <2>1, <2>2
  <1>11. journal' # Torn
    <2>1. journal' \in [Steps -> Record]
      BY <1>1, <1>2, <1>3, EntryKind
    <2> QED
      BY <2>1, JournalAssumption
  <1>12. OutputsInv'
    <2> SUFFICES ASSUME NEW s \in Steps, NEW S \in Snapshot,
                        NEW a \in Answers \cup {None},
                        journal'[s].status = "completed",
                        journal'[s].digest # None,
                        journal'[s].digest = Digest(s, S, a)
                 PROVE  journal'[s].outputs = Outputs(s, a)
      BY DEF OutputsInv
    <2>1. CASE s = Step
      BY <1>2, <1>4, <1>9, <2>1, DigestTells
    <2>2. CASE s # Step
      BY <1>3, <1>4, <2>2 DEF OutputsInv
    <2> QED
      BY <2>1, <2>2
  <1>13. RecordsInv'
    <2> SUFFICES ASSUME Undisturbed,
                        NEW s \in Steps, NEW S \in Snapshot,
                        NEW a \in Answers \cup {None},
                        journal'[s].status = "completed",
                        journal'[s].digest # None,
                        journal'[s].digest = Digest(s, S, a), NEW f \in Kept(s, a)
                 PROVE  files[f] \in {None, Due(s, S, a, args.flags)}
      BY <1>1, <1>5 DEF RecordsInv
    <2>1. CASE s = Step
      <3>1. /\ Digest(s, args.snapshot, run.answers) # None
            /\ Digest(s, args.snapshot, run.answers) = Digest(s, S, a) /\ run.ok
        BY <1>4, <1>9, <2>1
      <3>2. /\ Made(s, run.answers) = Made(s, a)
            /\ Due(s, args.snapshot, run.answers, args.flags)
                  = Due(s, S, a, args.flags)
        BY <3>1, DigestTells
      <3> QED
        BY <1>8, <2>1, <3>1, <3>2 DEF Kept
    <2>2. CASE s # Step
      BY <1>4, <2>2 DEF RecordsInv, Writing
    <2> QED
      BY <2>1, <2>2
  <1>14. FreshInv'
    BY <1>1, <1>10, <1>11 DEF FreshInv
  <1>15. PresentInv' /\ WriteInv' /\ ArgsInv'
    <2>1. CASE run.ok
      <3>1. run' = Advance(run.answers)
        BY <2>1 DEF RecordStep
      <3>2. (Undisturbed /\ args.snapshot # None) =>
              \A f \in Kept(Step, run.answers) :
                  files[f] = Due(Step, args.snapshot, run.answers, args.flags)
        BY <1>1, <1>8, <2>1, DigestReal DEF Kept
      <3>3. /\ run.answers = None \/ args.answers = None
                  \/ args.answers = run.answers
            /\ run.i = 4 => files["answers"] = run.answers
        BY <1>1, <1>2, <1>6, <2>1, StepOrder DEF ArgsInv, WriteInv
      <3> QED
        BY <1>1, <1>2, <1>7, <2>1, <3>1, <3>2, <3>3, AdvanceFiles
    <2>2. CASE ~run.ok
      <3>1. run'.pc = "failed"
        BY <1>2, <2>2 DEF RecordStep, Processes
      <3> QED
        BY <3>1 DEF PresentInv, WriteInv, ArgsInv, Behind, AtWork
    <2> QED
      BY <1>2, <2>1, <2>2
  <1> QED
    BY <1>12, <1>13, <1>14, <1>15

LEMMA NextFiles == FlowInv /\ FilesInv /\ [Next]_vars => FilesInv'
  <1> SUFFICES ASSUME FlowInv, FilesInv, [Next]_vars PROVE FilesInv'
    OBVIOUS
  <1>1. CASE ResolveFails
    BY <1>1, RunKind, StopFiles DEF ResolveFails, Processes, outside
  <1>2. CASE ClusterChanges
    BY <1>2, SameFiles DEF ClusterChanges
  <1>3. CASE UNCHANGED vars
    BY <1>3, SameFiles DEF vars
  <1> QED
    BY <1>1, <1>2, <1>3, StartFiles, SkipFiles, ExecuteFiles, WriteFiles,
       RecordStepFiles, CrashFiles, EditFiles DEF Next

-----------------------------------------------------------------------------
(* What a successful run leaves. *)

LEMMA FilesInvariant == Spec => [](FlowInv /\ FilesInv)
  <1>1. Init => FlowInv /\ FilesInv
    BY InitFlow, InitFiles
  <1>2. FlowInv /\ FilesInv /\ [Next]_vars => (FlowInv /\ FilesInv)'
    BY NextFlow, NextFiles
  <1> QED
    BY <1>1, <1>2, PTL DEF Spec

\* A run that ended well has captured valid answers.
LEMMA DoneAnswers ==
  ASSUME FlowInv, run.pc = "done", journal # Torn
  PROVE  run.answers \in Valid /\ run.answers # None
  <1>1. 4 \in 1 .. 7 /\ STEP_ORDER[4] = "contract-capture"
    BY StepOrder
  <1>2. /\ journal["contract-capture"].status = "completed"
        /\ journal["contract-capture"].digest
              = Digest("contract-capture", args.snapshot, run.answers)
    BY <1>1 DEF FlowInv, BehindInv, Complete
  <1>3. PICK a \in Valid : journal["contract-capture"].digest = <<a>>
    BY <1>2 DEF FlowInv, JournalGood
  <1>4. <<a>> # None
    BY DigestAssumption DEF Valid
  <1>5. run.answers # None /\ <<run.answers>> = <<a>>
    BY <1>2, <1>3, <1>4 DEF Digest, ClusterSteps, AnswersSteps
  <1>6. run.answers = a
    BY <1>5
  <1> QED
    BY <1>5, <1>6

LEMMA DoneMatches == FlowInv /\ FilesInv => SuccessMatchesInputs
  <1> SUFFICES ASSUME FlowInv, FilesInv, run.pc = "done", args.snapshot # None,
                      Undisturbed,
                      NEW p, p = Preflight(args.snapshot),
                      NEW e, e = Evaluation(p, args.snapshot, args.flags)
               PROVE  /\ args.answers \in {run.answers, None}
                      /\ files["preflight_report"] = p
                      /\ \A f \in EvaluationFiles : files[f] = e
                      /\ \A f \in {"install_contract", "kustomization",
                                   "application", "install_summary",
                                   run.answers} :
                            files[f] = run.answers
    BY DEF SuccessMatchesInputs, Undisturbed
  <1> USE DEF FilesInv
  <1>1. run.answers \in Answers /\ run.answers # None
    BY DoneAnswers DEF FreshInv, Undisturbed, Valid
  <1>2. args.answers \in {run.answers, None}
    BY <1>1 DEF ArgsInv
  <1>3. \A s \in Steps : \A f \in Kept(s, run.answers) :
            files[f] = Due(s, args.snapshot, run.answers, args.flags)
    <2>1. \A i \in 1 .. 7 : Behind(i)
      BY DEF Behind
    <2> QED
      BY <2>1, StepOrder DEF Steps, PresentInv
  <1>4. files["preflight_report"] = p
    <2>1. "preflight_report" \in Kept("preflight", run.answers)
          /\ Due("preflight", args.snapshot, run.answers, args.flags) = p
      BY DEF Kept, Made, Due
    <2> QED
      BY <1>3, <2>1, StepNames
  <1>5. \A f \in EvaluationFiles : files[f] = e
    <2>1. /\ Kept("grading", run.answers) = {"capability_matrix",
                "compatibility_result", "remediation_list"}
          /\ Kept("mode-recommendation", run.answers) = {"mode_recommendation"}
          /\ Due("grading", args.snapshot, run.answers, args.flags) = e
          /\ Due("mode-recommendation", args.snapshot, run.answers, args.flags) = e
      BY DEF Kept, Made, Due
    <2> QED
      BY <1>3, <2>1, StepNames DEF EvaluationFiles
  <1>6. \A f \in {"install_contract", "kustomization", "application",
                  "install_summary", run.answers} : files[f] = run.answers
    <2>1. run.answers # "answers"
      BY <1>1, NamesAssumption DEF AnswersFiles
    <2>2. /\ "install_contract" \in Kept("contract-capture", run.answers)
          /\ "kustomization" \in Kept("argocd-bootstrap", run.answers)
          /\ "application" \in Kept("argocd-bootstrap", run.answers)
          /\ "install_summary" \in Kept("post-install-readiness", run.answers)
          /\ run.answers \in Kept("render", run.answers)
      BY <2>1 DEF Kept, Made
    <2>3. \A s \in {"contract-capture", "argocd-bootstrap", "render",
                    "post-install-readiness"} :
              Due(s, args.snapshot, run.answers, args.flags) = run.answers
      BY DEF Due
    <2> QED
      BY <1>3, <2>2, <2>3, StepNames
  <1> QED
    BY <1>2, <1>4, <1>5, <1>6

\* When a run over a snapshot exits 0, every artifact is the one that its own
\* inputs give, unless a run died at a step or the flags changed: whatever
\* runs, failures and deletions came before, a skipped step's files are those
\* this run would have written (flow.py, the skip rule and _record_step).
THEOREM SuccessIsDeterministic == Spec => []SuccessMatchesInputs
  BY FilesInvariant, DoneMatches, PTL

-----------------------------------------------------------------------------
(* A rerun after a success. *)

\* The directory is complete for the answers a: those of --answers, or else
\* the recorded ones.
SettledFor(a) ==
    /\ args.answers = a \/ (args.answers = None /\ files["answers"] = a)
    /\ \A i \in 1 .. 7 :
          /\ journal[STEP_ORDER[i]].status = "completed"
          /\ journal[STEP_ORDER[i]].digest
                = Digest(STEP_ORDER[i], args.snapshot, a)
          /\ \A f \in Made(STEP_ORDER[i], a) : files[f] # None
    /\ AtWork => run.answers \in {None, a}

SettledInv ==
    settled =>
        /\ journal # Torn /\ args.snapshot # None
        /\ run.pc \in {"check", "done"}
        /\ \E a \in Valid : SettledFor(a)

DoneState ==
    /\ FlowInv /\ FilesInv
    /\ run.pc = "done" /\ args.snapshot # None /\ journal # Torn

\* The end of a successful run settles the directory.
LEMMA DoneSettles == DoneState => SettledInv
  <1> SUFFICES ASSUME DoneState PROVE SettledInv
    OBVIOUS
  <1> USE DEF DoneState, FilesInv
  <1>1. run.answers \in Valid /\ run.answers # None
    BY DoneAnswers
  <1>2. args.answers = run.answers
        \/ (args.answers = None /\ files["answers"] = run.answers)
    BY <1>1 DEF ArgsInv
  <1>3. \A i \in 1 .. 7 :
          /\ journal[STEP_ORDER[i]].status = "completed"
          /\ journal[STEP_ORDER[i]].digest
                = Digest(STEP_ORDER[i], args.snapshot, run.answers)
          /\ \A f \in Made(STEP_ORDER[i], run.answers) : files[f] # None
    BY DEF FlowInv, BehindInv, Complete, PresentInv, Behind
  <1>4. ~AtWork
    BY DEF AtWork
  <1> QED
    BY <1>1, <1>2, <1>3, <1>4 DEF SettledInv, SettledFor

\* In a settled directory every step of a run is skipped.
LEMMA SettledSkips ==
  ASSUME FlowInv, FilesInv, SettledInv, settled, run.pc = "check",
         NEW a \in Valid, SettledFor(a)
  PROVE  Resolved # Torn /\ Skippable /\ Resolved \in {None, a}
  <1>1. /\ run.i \in 1 .. 7 /\ Step = STEP_ORDER[run.i] /\ Step \in Steps
        /\ args.snapshot \in Clusters /\ args.snapshot # None
        /\ a \in Answers /\ a # None /\ a # Torn
    BY RunKind, InputsAssumption DEF SettledInv, Snapshot, Valid
  <1>2. run.answers \in {None, a}
    BY DEF SettledFor, AtWork
  <1>3. Resolved \in {None, a} /\ (Step \notin ClusterSteps => Resolved = a)
    BY <1>1, <1>2 DEF Resolved, SettledFor
  <1>4. Digest(Step, args.snapshot, Resolved) = Digest(Step, args.snapshot, a)
    BY <1>3 DEF Digest, ClusterSteps, AnswersSteps
  <1>5. Digest(Step, args.snapshot, a) # None
    <2>1. /\ <<a>> # None /\ <<args.snapshot, a>> # None
          /\ <<args.snapshot>> # None
      BY <1>1, DigestAssumption
    <2> QED
      BY <1>1, <2>1 DEF Digest
  <1>6. /\ journal[Step].status = "completed"
        /\ journal[Step].digest = Digest(Step, args.snapshot, a)
        /\ \A f \in Made(Step, a) : files[f] # None
    BY <1>1 DEF SettledFor
  <1>7. journal[Step].outputs = Outputs(Step, a)
    BY <1>1, <1>5, <1>6 DEF FilesInv, OutputsInv, SettledInv, Snapshot
  <1>8. OutputsExist(journal[Step])
    BY <1>1, <1>6, <1>7, OutputsMade DEF OutputsExist
  <1> QED
    BY <1>1, <1>3, <1>4, <1>5, <1>6, <1>8, InputsAssumption DEF Skippable

\* So a step of such a run changes nothing.
LEMMA SettledStep ==
  ASSUME FlowInv, FilesInv, SettledInv, [Next]_vars, settled, settled'
  PROVE  UNCHANGED <<files, journal>> /\ run'.pc # "failed" /\ SettledInv'
  <1>1. /\ journal # Torn /\ args.snapshot # None
        /\ run.pc \in {"check", "done"}
    BY DEF SettledInv
  <1>2. PICK a \in Valid : SettledFor(a)
    BY DEF SettledInv
  <1>3. ASSUME UNCHANGED <<files, journal, args>>, run'.pc \in {"check", "done"},
               run'.pc = "check" => run'.answers \in {None, a}
        PROVE  UNCHANGED <<files, journal>> /\ run'.pc # "failed" /\ SettledInv'
    <2>1. SettledFor(a)'
      BY <1>2, <1>3 DEF SettledFor, AtWork
    <2> QED
      BY <1>1, <1>3, <2>1 DEF SettledInv
  <1>4. run.pc = "check" => Resolved # Torn /\ Skippable /\ Resolved \in {None, a}
    BY <1>2, SettledSkips
  <1>5. ~ResolveFails /\ ~Execute /\ ~Write /\ ~RecordStep
    BY <1>1, <1>4 DEF ResolveFails, Execute, Write, RecordStep
  <1>6. ~Crash /\ ~EditDirectory
    BY DEF Crash, EditDirectory
  <1>7. CASE Start
    BY <1>1, <1>3, <1>7 DEF Start, Idle, Process
  <1>8. CASE Skip
    BY <1>3, <1>4, <1>8 DEF Skip, Advance, Process, outside
  <1>9. CASE UNCHANGED <<files, journal, args, run>>
    BY <1>1, <1>2, <1>3, <1>9 DEF SettledFor, AtWork
  <1> QED
    BY <1>5, <1>6, <1>7, <1>8, <1>9 DEF Next, vars, ClusterChanges

LEMMA NextSettled ==
  FlowInv /\ FilesInv /\ SettledInv /\ [Next]_vars => SettledInv'
  <1> SUFFICES ASSUME FlowInv, FilesInv, SettledInv, [Next]_vars, settled'
               PROVE  SettledInv'
    BY DEF SettledInv
  <1>1. CASE settled
    BY <1>1, SettledStep
  <1>2. CASE ~settled
    <2>1. (Skip \/ RecordStep) /\ run'.pc = "done" /\ args.snapshot # None
      BY <1>2 DEF Next, vars, Start, ResolveFails, Skip, Execute, Write,
                  RecordStep, Crash, EditDirectory, ClusterChanges
    <2>2. FlowInv' /\ FilesInv'
      BY NextFlow, NextFiles
    <2>3. args' = args
      BY <2>1 DEF Skip, RecordStep, outside
    <2>4. journal' # Torn
      <3>1. AtWork /\ (RecordStep => run.pc = "write")
        BY <2>1 DEF AtWork, Skip, RecordStep
      <3>2. journal \in [Steps -> Record] /\ Step \in Steps
        BY <3>1, JournalReadable, RunKind
      <3>3. RecordStep => Entry \in Record
        BY <3>1, EntryKind
      <3>4. journal' \in [Steps -> Record]
        BY <2>1, <3>2, <3>3 DEF Skip, RecordStep
      <3> QED
        BY <3>4, JournalAssumption
    <2>5. DoneState'
      BY <2>1, <2>2, <2>3, <2>4 DEF DoneState
    <2>6. DoneState' => SettledInv'
      BY DoneSettles, PTL
    <2> QED
      BY <2>5, <2>6
  <1>3. settled \in BOOLEAN
    BY DEF FlowInv, TypeOK
  <1> QED
    BY <1>1, <1>2, <1>3

\* After a successful run over a snapshot, runs with the same arguments
\* change no file and no record, and never fail, until a run with other
\* arguments, a crash or an edit: whatever went on before the success
\* ("Re-running a completed install changes no files and exits 0", flow.py).
THEOREM RerunsChangeNothing == Spec => RerunChangesNothing
  <1>1. Init => SettledInv
    BY DEF Init, SettledInv
  <1>2. Spec => []SettledInv
    BY <1>1, FilesInvariant, NextSettled, PTL DEF Spec
  <1>3. FlowInv /\ FilesInv /\ SettledInv /\ [Next]_vars =>
          [settled /\ settled' =>
              UNCHANGED <<files, journal>> /\ run'.pc # "failed"]_vars
    BY SettledStep
  <1> QED
    BY <1>2, <1>3, FilesInvariant, PTL DEF Spec, RerunChangesNothing

============================================================================
