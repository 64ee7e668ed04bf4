---------------------------- MODULE InstallFlow ----------------------------
(***************************************************************************)
(* The guided installer (tools/obskit/obskit/install/flow.py): seven steps *)
(* in a fixed order over one output directory, with a journal              *)
(* (install_state.json) from which a later run skips what is complete and  *)
(* unchanged.                                                              *)
(*                                                                         *)
(* Runs follow one another in the same directory with whatever arguments   *)
(* the operator gives; the process may die between any two writes, or in   *)
(* the middle of one, since write_text truncates the file it writes.  A    *)
(* report is abstracted to the inputs it was computed from.                *)
(***************************************************************************)
EXTENDS Naturals, Sequences, FiniteSets

CONSTANTS
    Clusters,   \* cluster states, the contents of a snapshot file
    Failing,    \* those that fail a preflight check
    Blocked,    \* those graded "blocked"
    Answers,    \* answers documents, each naming an environment of its own
    Invalid,    \* those the install contract schema rejects
    Flags,      \* mode flags and profile overrides
    MaxRuns,    \* bound: installer runs
    MaxFaults,  \* bound: deaths of the process and changes from outside
    Torn,       \* what a file cut short by the death of its writer holds
    None        \* no file, no record, no argument, no digest

ASSUME InputsAssumption ==
    /\ Failing \subseteq Clusters
    /\ Blocked \subseteq Clusters
    /\ Invalid \subseteq Answers
    /\ Torn # None
    /\ {Torn, None} \cap (Clusters \cup Answers) = {}
    /\ {Torn, None} \cap [cluster : Clusters] = {}
    /\ {Torn, None} \cap [preflight : [cluster : Clusters], cluster : Clusters,
                          flags : Flags] = {}

\* The absence of a digest is not a digest.
ASSUME DigestAssumption ==
    None \notin {<<x>> : x \in Clusters \cup Answers} \cup (Clusters \X Answers)

ASSUME BoundsAssumption ==
    /\ MaxRuns \in Nat
    /\ MaxFaults \in Nat

VARIABLES
    files,       \* the output directory without the journal
    journal,     \* install_state.json
    args,        \* the arguments of the current or last run
    run,         \* the installer process
    cluster,     \* the live cluster
    runs,        \* runs started so far
    faults,      \* what MaxFaults counts
    interrupted, \* history: a run died while it executed a step
    reflagged,   \* history: two runs had different flags
    settled      \* history: the directory is as a successful snapshot run
                 \* with the arguments args left it

vars == <<files, journal, args, run, cluster, runs, faults, interrupted,
          reflagged, settled>>

outside == <<args, cluster, runs, faults, interrupted, reflagged>>

-----------------------------------------------------------------------------
(* Steps, files and digests. *)

STEP_ORDER == <<"preflight", "grading", "mode-recommendation",
                "contract-capture", "render", "argocd-bootstrap",
                "post-install-readiness">>

Steps == {STEP_ORDER[i] : i \in DOMAIN STEP_ORDER}

ClusterSteps == {"preflight", "grading", "mode-recommendation"}

AnswersSteps == {"contract-capture", "render", "argocd-bootstrap"}

EvaluationFiles == {"capability_matrix", "compatibility_result",
                    "remediation_list", "mode_recommendation"}

AnswersFiles == {"answers", "install_contract", "kustomization", "application",
                 "install_summary"}

\* The overlay of answers a, in the directory of its environment, is file a.
Files == {"preflight_report"} \cup EvaluationFiles \cup AnswersFiles
         \cup Answers

ASSUME NamesAssumption ==
    Answers \cap ({"preflight_report"} \cup EvaluationFiles \cup AnswersFiles)
        = {}

\* What the preflight report says, and what the evaluation makes of a report,
\* the discovery of a cluster, and the flags.
Preflight(c) == [cluster |-> c]

Evaluation(p, c, f) == [preflight |-> p, cluster |-> c, flags |-> f]

\* What a step puts into a file.
Contents(file) ==
    IF file = "preflight_report" THEN [cluster : Clusters]
    ELSE IF file \in EvaluationFiles
    THEN [preflight : [cluster : Clusters], cluster : Clusters, flags : Flags]
    ELSE Answers

AnyContent == UNION {Contents(f) : f \in Files}

Writes == {w \in Files \X AnyContent : w[2] \in Contents(w[1])}

\* Mutant: the readiness step has no digest, so it runs every time.
DigestNoReadiness(step, snapshot, answers) ==
    CASE step \in ClusterSteps ->
             IF snapshot = None THEN None ELSE <<snapshot>>
      [] step \in AnswersSteps ->
             IF answers = None THEN None ELSE <<answers>>
      [] OTHER -> None

\* The sha256 over the snapshot bytes, the answers, or both.
Digest(step, snapshot, answers) ==
    CASE step \in ClusterSteps ->
             IF snapshot = None THEN None ELSE <<snapshot>>
      [] step \in AnswersSteps ->
             IF answers = None THEN None ELSE <<answers>>
      [] OTHER ->
             IF snapshot = None \/ answers = None THEN None
             ELSE <<snapshot, answers>>

Digests == {None} \cup {<<x>> : x \in Clusters \cup Answers}
           \cup (Clusters \X Answers)

NoRecord == [status |-> "none", digest |-> None, outputs |-> <<>>]

Record == [status : {"none", "completed", "failed"}, digest : Digests,
           outputs : Seq(Files)]

\* A truncated journal does not parse as one.
ASSUME JournalAssumption == Torn \notin [Steps -> Record]

\* A run at work: the step it is at, the answers it has cached
\* (ctx.answers_mapping), the writes of the step that are still to come, and
\* whether the step succeeds after them.
Process(pc, i, a, writes, ok) ==
    [pc |-> pc, i |-> i, answers |-> a, writes |-> writes, ok |-> ok]

Processes == [pc : {"idle", "check", "write", "done", "failed", "refused"},
              i : 1 .. 7, answers : Answers \cup {None}, writes : Seq(Writes),
              ok : BOOLEAN]

Idle == Process("idle", 1, None, <<>>, TRUE)

Snapshot == Clusters \cup {None}

TypeOK ==
    /\ files \in [Files -> AnyContent \cup {None, Torn}]
    /\ \A f \in Files : files[f] \in Contents(f) \cup {None, Torn}
    /\ journal \in [Steps -> Record] \cup {Torn}
    /\ args \in [snapshot : Snapshot, answers : Answers \cup {None},
                 flags : Flags]
    /\ run \in Processes
    /\ cluster \in Clusters
    /\ runs \in 0 .. MaxRuns
    /\ faults \in 0 .. MaxFaults
    /\ interrupted \in BOOLEAN
    /\ reflagged \in BOOLEAN
    /\ settled \in BOOLEAN

Init ==
    /\ files = [f \in Files |-> None]
    /\ journal = [s \in Steps |-> NoRecord]
    /\ args \in [snapshot : {None}, answers : {None}, flags : Flags]
    /\ run = Idle
    /\ cluster \in Clusters
    /\ runs = 0
    /\ faults = 0
    /\ interrupted = FALSE
    /\ reflagged = FALSE
    /\ settled = FALSE

-----------------------------------------------------------------------------
(* A run. *)

\* obskit install: the journal is loaded first, and refused when it does not
\* parse.
Start ==
    /\ run.pc \in {"idle", "done", "failed", "refused"}
    /\ runs < MaxRuns
    /\ runs' = runs + 1
    /\ args' \in [snapshot : Snapshot, answers : Answers \cup {None},
                  flags : Flags]
    /\ run' = [Idle EXCEPT !.pc = IF journal = Torn THEN "refused" ELSE "check"]
    /\ reflagged' = (reflagged \/ (runs > 0 /\ args'.flags # args.flags))
    /\ settled' = (settled /\ args' = args)
    /\ UNCHANGED <<files, journal, cluster, faults, interrupted>>

Step == STEP_ORDER[run.i]

\* _resolve_answers_mapping: the cached answers, the --answers file, or the
\* recorded answers.json.
Resolved ==
    IF Step \in ClusterSteps \/ run.answers # None THEN run.answers
    ELSE IF args.answers # None THEN args.answers ELSE files["answers"]

\* An unreadable answers.json raises outside the try of the step.
ResolveFails ==
    /\ run.pc = "check"
    /\ Resolved = Torn
    /\ run' = [run EXCEPT !.pc = "failed"]
    /\ UNCHANGED <<files, journal, settled, outside>>

\* Mutant: what the journal lists is taken to be there.
OutputsAssumed(record) == record.status = "completed"

OutputsExist(record) ==
    \A i \in DOMAIN record.outputs : files[record.outputs[i]] # None

Skippable ==
    LET record == journal[Step]
        digest == Digest(Step, args.snapshot, Resolved)
    IN  /\ record.status = "completed"
        /\ digest # None
        /\ record.digest = digest
        /\ OutputsExist(record)

\* On to the next step, or out with exit code 0.
Advance(answers) ==
    IF run.i = Len(STEP_ORDER)
    THEN Process("done", run.i, answers, <<>>, TRUE)
    ELSE Process("check", run.i + 1, answers, <<>>, TRUE)

Skip ==
    /\ run.pc = "check"
    /\ Resolved # Torn
    /\ Skippable
    /\ run' = Advance(Resolved)
    /\ settled' = (settled \/ (run'.pc = "done" /\ args.snapshot # None))
    /\ UNCHANGED <<files, journal, outside>>

\* The cluster the readers see: the snapshot, or the live cluster.
Seen == IF args.snapshot # None THEN args.snapshot ELSE cluster

Same(names, content) == [i \in DOMAIN names |-> <<names[i], content>>]

\* _run_preflight writes its report whatever the outcome.
PlanPreflight ==
    Process("write", run.i, run.answers,
            Same(<<"preflight_report">>, Preflight(Seen)), Seen \notin Failing)

\* _run_grading and _run_mode_recommendation both evaluate the preflight
\* report on disk with a discovery of their own; only the grading looks at
\* the grade, and only after it has written its reports.
PlanEvaluation(names, graded) ==
    LET report == files["preflight_report"]
    IN  IF report \in {None, Torn}
        THEN Process("write", run.i, run.answers, <<>>, FALSE)
        ELSE Process("write", run.i, run.answers,
                     Same(names, Evaluation(report, Seen, args.flags)),
                     graded => Seen \notin Blocked)

\* Mutant: the answers are written without validation.
PlanCaptureUnchecked(a) ==
    Process("write", run.i, a, Same(<<"answers", "install_contract">>, a), TRUE)

\* The subset validator of the install contract schema.
Validates(a) == a \notin Invalid

\* The wizard accepts anything; validation comes after it.
Captured == IF Resolved # None THEN {Resolved} ELSE Answers

\* _run_contract_capture: the --answers file, else the recorded answers, else
\* the wizard; nothing is written for answers that do not validate.
PlanCapture(a) ==
    IF Validates(a)
    THEN Process("write", run.i, a, Same(<<"answers", "install_contract">>, a),
                 TRUE)
    ELSE Process("write", run.i, Resolved, <<>>, FALSE)

\* The steps that work on the captured answers.  Readiness writes its summary
\* whatever the readiness script says.
PlanRender == Process("write", run.i, Resolved, Same(<<Resolved>>, Resolved), TRUE)

PlanBootstrap ==
    Process("write", run.i, Resolved,
            Same(<<"kustomization", "application">>, Resolved), TRUE)

PlanReadiness(passed) ==
    Process("write", run.i, Resolved, Same(<<"install_summary">>, Resolved),
            passed)

\* What a step writes when it has written everything.
Outputs(step, a) ==
    CASE step = "preflight" -> <<"preflight_report">>
      [] step = "grading" -> <<"capability_matrix", "compatibility_result",
                               "remediation_list">>
      [] step = "mode-recommendation" -> <<"mode_recommendation">>
      [] step = "contract-capture" -> <<"answers", "install_contract">>
      [] step = "render" -> <<a>>
      [] step = "argocd-bootstrap" -> <<"kustomization", "application">>
      [] OTHER -> <<"install_summary">>

Execute ==
    /\ run.pc = "check"
    /\ Resolved # Torn
    /\ ~Skippable
    /\ \/ /\ Step = "preflight"
          /\ run' = PlanPreflight
       \/ /\ Step = "grading"
          /\ run' = PlanEvaluation(Outputs(Step, None), TRUE)
       \/ /\ Step = "mode-recommendation"
          /\ run' = PlanEvaluation(Outputs(Step, None), FALSE)
       \/ /\ Step = "contract-capture"
          /\ \E a \in Captured : run' = PlanCapture(a)
       \/ /\ Step = "render"
          /\ run' = PlanRender
       \/ /\ Step = "argocd-bootstrap"
          /\ run' = PlanBootstrap
       \/ /\ Step = "post-install-readiness"
          /\ \E passed \in BOOLEAN : run' = PlanReadiness(passed)
    /\ UNCHANGED <<files, journal, settled, outside>>

Write ==
    /\ run.pc = "write"
    /\ run.writes # <<>>
    /\ LET w == Head(run.writes) IN files' = [files EXCEPT ![w[1]] = w[2]]
    /\ run' = [run EXCEPT !.writes = Tail(@)]
    /\ UNCHANGED <<journal, settled, outside>>

\* _record_step; the digest of a completed step is computed again, now that
\* the answers are known.
Entry ==
    [status  |-> IF run.ok THEN "completed" ELSE "failed",
     digest  |-> Digest(Step, args.snapshot, run.answers),
     outputs |-> IF run.ok THEN Outputs(Step, run.answers) ELSE <<>>]

\* Mutant: the run goes on after a failed step.
RecordStepGoesOn ==
    /\ run.pc = "write"
    /\ run.writes = <<>>
    /\ journal' = [journal EXCEPT ![Step] = Entry]
    /\ run' = Advance(run.answers)
    /\ settled' = (settled \/ (run'.pc = "done" /\ args.snapshot # None))
    /\ UNCHANGED <<files, outside>>

RecordStep ==
    /\ run.pc = "write"
    /\ run.writes = <<>>
    /\ journal' = [journal EXCEPT ![Step] = Entry]
    /\ run' = IF run.ok THEN Advance(run.answers)
              ELSE [run EXCEPT !.pc = "failed"]
    /\ settled' = (settled \/ (run'.pc = "done" /\ args.snapshot # None))
    /\ UNCHANGED <<files, outside>>

-----------------------------------------------------------------------------
(* Faults. *)

Fault ==
    /\ faults < MaxFaults
    /\ faults' = faults + 1

\* The process dies; at work on a file it leaves it truncated.
Crash ==
    /\ run.pc \in {"check", "write"}
    /\ Fault
    /\ run' = Idle
    /\ interrupted' = (interrupted \/ run.pc = "write")
    /\ settled' = FALSE
    /\ \/ UNCHANGED <<files, journal>>
       \/ /\ run.pc = "write"
          /\ run.writes # <<>>
          /\ files' = [files EXCEPT ![Head(run.writes)[1]] = Torn]
          /\ UNCHANGED journal
       \/ /\ run.pc = "write"
          /\ run.writes = <<>>
          /\ journal[Step] # Entry
          /\ journal' = Torn
          /\ UNCHANGED files
    /\ UNCHANGED <<args, cluster, runs, reflagged>>

Resting == run.pc \in {"idle", "failed", "refused", "done"}

\* Someone edits answers.json or deletes a file between two runs.
EditDirectory ==
    /\ Resting
    /\ Fault
    /\ \E f \in Files :
          /\ files[f] # None
          /\ \/ files' = [files EXCEPT ![f] = None]
             \/ /\ f = "answers"
                /\ \E a \in Answers : files' = [files EXCEPT ![f] = a]
    /\ run' = Idle
    /\ settled' = FALSE
    /\ UNCHANGED <<journal, args, cluster, runs, interrupted, reflagged>>

ClusterChanges ==
    /\ Fault
    /\ cluster' \in Clusters \ {cluster}
    /\ UNCHANGED <<files, journal, args, run, runs, interrupted, reflagged,
                   settled>>

Next ==
    \/ Start \/ ResolveFails \/ Skip \/ Execute \/ Write \/ RecordStep
    \/ Crash \/ EditDirectory \/ ClusterChanges

Spec == Init /\ [][Next]_vars

-----------------------------------------------------------------------------
(* Properties. *)

\* When a run exits 0, every artifact in the directory is the one its own
\* inputs give ("deterministic_outputs" of INSTALL_FLOW_CONTRACT_V1.yaml),
\* whatever runs with other inputs, failed steps and deleted files came
\* before, unless a run died while it executed a step or the flags changed:
\* neither is part of a digest.  answers.json is left out because a hand edit
\* of it is only noticed by a run without --answers.
SuccessMatchesInputs ==
    (run.pc = "done" /\ args.snapshot # None /\ ~interrupted /\ ~reflagged) =>
        LET p == Preflight(args.snapshot)
            e == Evaluation(p, args.snapshot, args.flags)
        IN  /\ args.answers \in {run.answers, None}
            /\ files["preflight_report"] = p
            /\ \A f \in EvaluationFiles : files[f] = e
            /\ \A f \in {"install_contract", "kustomization", "application",
                         "install_summary", run.answers} :
                  files[f] = run.answers

\* "fail_if_invalid_answers_reach_render": whatever crashes, hand edits and
\* skipped steps led there, no rendered file holds answers that did not
\* validate.
OnlyValidRendered ==
    \A f \in {"kustomization", "application"} \cup Answers :
        files[f] \in Answers => Validates(files[f])

\* "Steps run strictly in ascending order": when a step writes, the journal
\* has every earlier step complete for the inputs of this very run, so that
\* a failed or stale step is never overtaken ("skips a step without recording
\* it as complete").
NoStepAhead ==
    (run.pc = "write" \/ run.pc = "done") =>
        \A i \in 1 .. (IF run.pc = "done" THEN 7 ELSE run.i - 1) :
            LET record == journal[STEP_ORDER[i]]
            IN  /\ record.status = "completed"
                /\ record.digest =
                       Digest(STEP_ORDER[i], args.snapshot, run.answers)

\* "Re-running a completed install changes no files and exits 0" (flow.py
\* 33): after a successful run over a snapshot, a run with the same arguments
\* changes neither an artifact nor the journal, and no step of it fails.
RerunChangesNothing ==
    [][settled /\ settled' =>
          UNCHANGED <<files, journal>> /\ run'.pc # "failed"]_vars

============================================================================
