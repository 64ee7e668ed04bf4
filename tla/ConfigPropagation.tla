------------------------- MODULE ConfigPropagation -------------------------
(***************************************************************************)
(* The configuration renderer (tools/obskit/obskit/configrender) and the   *)
(* portal's edit of the unified document (portalsvc/configflow.py) over    *)
(* one GitOps working tree, with the operator's part of the pipeline: edit *)
(* the document, render, check, commit, roll back, check out.              *)
(*                                                                         *)
(* One writer works on the tree at a time (the deployment rule "one config *)
(* writer per repo_root" of configflow.py); hand edits of the tree may     *)
(* come at any moment, and the writer may die at any moment, also in the   *)
(* middle of a file, since write_bytes truncates what it writes.           *)
(***************************************************************************)
EXTENDS Naturals, Sequences

CONSTANTS
    Strategy,   \* strategy of each render target, in path order
    Bindings,   \* (unified key, system) pairs
    BoundIn,    \* the bindings that render each target
    Values,     \* leaf values
    Enabled,    \* the value true: a gate is open, auto-sync is on
    Docs,       \* unified documents
    Invalid,    \* those the schema or a cross-file rule rejects
    Layouts,    \* how Applications come written
    Rests,      \* what a file holds besides its rendered part
    Cut,        \* such a rest, cut short by the death of a writer
    MaxCommits, \* bound: commits
    MaxFaults,  \* bound: deaths and hand edits
    Torn,       \* an unreadable file, left by the death of its writer
    None        \* no file, no binding, no manifest

Targets == 1 .. Len(Strategy)

\* A directory of Applications is a target per file, all with one binding.
ASSUME StrategyAssumption ==
    /\ Strategy \in Seq({"json-path-patch", "yaml-line-patch", "sync-policy",
                         "owned-artifact", "presence-gated"})
    /\ BoundIn \in [Targets -> SUBSET Bindings]
    /\ \A t \in Targets :
          Strategy[t] \in {"sync-policy", "owned-artifact", "presence-gated"}
              => \E b \in Bindings : BoundIn[t] = {b}

\* Two places of an Application matter to its automated block: "home", where
\* the renderer inserts one (first in syncPolicy, or with it at the end of
\* spec), and "own", where its author wrote one elsewhere.  gaps are the
\* places followed by comments or blank lines, suffix those with content
\* somewhere after them.
Places == {"home", "own"}

Syncs == [block : {"none", "fixed", "other"}, place : Places,
          gaps : SUBSET Places, suffix : SUBSET Places,
          newline : {"kept", "lost"}]

ASSUME DocumentsAssumption ==
    /\ Enabled \in Values
    /\ Docs \subseteq [Bindings -> Values \cup {None}]
    /\ Invalid \subseteq Docs
    /\ Layouts \subseteq Syncs
    /\ Cut \in Rests
    /\ None \notin Values \cup Syncs
    /\ {None, Torn} \cap Docs = {}

ASSUME BoundsAssumption == MaxCommits \in Nat /\ MaxFaults \in Nat

VARIABLES
    document, \* the unified document at its repository path
    tree,     \* the render targets
    bundles,  \* the files beside an owned artifact
    manifest, \* gitops/UNIFIED_CONFIG_RENDER_MANIFEST.json
    op,       \* the writer at work, or the last one
    commits,  \* the Git history, oldest first
    faults,   \* what MaxFaults counts
    edited,   \* history: a hand edit since the last plan
    touched   \* history: a hand edit or a file cut short at any time

vars == <<document, tree, bundles, manifest, op, commits, faults, edited,
          touched>>

-----------------------------------------------------------------------------
(* Files, plans and manifests. *)

OfStrategy(s) == {t \in Targets : Strategy[t] = s}

Owned == OfStrategy("owned-artifact")

\* A file the renderer knows: adopted (header marker, or canonical form for
\* JSON), the values at its bindings, how the automated block lies in it if
\* it is an Application, and everything else in it.
Content == [mark : BOOLEAN, values : [Bindings -> Values \cup {None}],
            sync : Syncs \cup {None}, rest : Rests]

Contents == Content \cup {None, Torn}

ASSUME NoneAssumption == None \notin Content \cup Rests

\* What plan_render returns, with None for a target it does not render; the
\* manifest records just this by digest.
Plans == [doc : Docs, texts : [Targets -> Content \cup {None}],
          skipped : SUBSET Targets, recorded : [Owned -> Rests \cup {None}]]

Planned(plan) == {t \in Targets : plan.texts[t] # None}

Commit == [doc : Docs, tree : [Targets -> Contents],
           bundles : [Owned -> Rests], manifest : Plans]

\* A writer: what it is, where it stands, the submitted document, the plan,
\* the target to write next, and the number of the commit whose manifest the
\* deterministic proof of a rollback was given (0 for none).
Operation(kind, pc, doc, plan, at, expected) ==
    [kind |-> kind, pc |-> pc, doc |-> doc, plan |-> plan, at |-> at,
     expected |-> expected]

Operations ==
    [kind : {"none", "render", "rollback", "portal"},
     pc : {"idle", "validated", "replan", "write", "verify", "done", "failed"},
     doc : Docs \cup {None}, plan : Plans \cup {None},
     at : 1 .. Len(Strategy) + 1, expected : 0 .. MaxCommits]

NoOperation == Operation("none", "idle", None, None, 1, 0)

TypeOK ==
    /\ document \in Docs \cup {Torn}
    /\ tree \in [Targets -> Contents]
    /\ bundles \in [Owned -> Rests]
    /\ manifest \in Plans \cup {None, Torn}
    /\ op \in Operations
    /\ commits \in Seq(Commit)
    /\ Len(commits) <= MaxCommits
    /\ faults \in 0 .. MaxFaults
    /\ edited \in BOOLEAN
    /\ touched \in BOOLEAN

\* The bindings whose values a file holds.
Scalars(t) == IF Strategy[t] \in {"json-path-patch", "yaml-line-patch"}
              THEN BoundIn[t] ELSE {}

\* A file no render has written.
Fresh(t, v, s, r) ==
    [mark |-> FALSE,
     values |-> [b \in Bindings |-> IF b \in Scalars(t) THEN v ELSE None],
     sync |-> IF Strategy[t] = "sync-policy" THEN s ELSE None,
     rest |-> r]

\* A repository that was never rendered.
Init ==
    /\ document \in Docs \ Invalid
    /\ \E v \in Values, s \in Layouts, r \in Rests \ {Cut} :
          /\ tree = [t \in Targets |-> IF t \in Owned THEN None
                                       ELSE Fresh(t, v, s, r)]
          /\ bundles = [t \in Owned |-> r]
    /\ manifest = None
    /\ op = NoOperation
    /\ commits = <<>>
    /\ faults = 0
    /\ edited = FALSE
    /\ touched = FALSE

\* The bindings that patch t: they accumulate in one text, and what the
\* document does not bind is left as it is.
Patched(doc, t) == {b \in BoundIn[t] : doc[b] # None}

Bound(doc) == {t \in Targets : Patched(doc, t) # {}}

On(doc, t) == \A b \in Patched(doc, t) : doc[b] = Enabled

\* The targets that a plan for doc skips because their gate is false.
Skipped(doc) ==
    {t \in Bound(doc) : Strategy[t] = "presence-gated" /\ ~On(doc, t)}

\* The Applications are those the directory lists.
Artifacts(doc) ==
    {t \in Bound(doc) \ Skipped(doc) :
        Strategy[t] = "sync-policy" => tree[t] # None}

\* Every patch starts from the target as it is in the tree; an Application
\* has a spec and ends with a newline.
Loadable(t) ==
    \/ t \in Owned
    \/ /\ tree[t] \in Content
       /\ Strategy[t] = "sync-policy" =>
             tree[t].sync \in Syncs /\ tree[t].sync.newline = "kept"

Renders(doc) ==
    /\ doc \in Docs \ Invalid
    /\ \A t \in Artifacts(doc) : Loadable(t)
    /\ \A t \in Bound(doc) : Strategy[t] = "sync-policy" =>
          \E a \in Artifacts(doc) : BoundIn[a] = BoundIn[t]

\* insert_marker: an untouched YAML target is adopted by the header comment.
Adopted(file) == [file EXCEPT !.mark = TRUE]

\* json_path_patch re-emits the whole file canonically.
JsonPathPatch(file, doc, t) ==
    [Adopted(file) EXCEPT !.values = [b \in Bindings |->
        IF b \in Patched(doc, t) THEN doc[b] ELSE file.values[b]]]

\* Mutant: a value that is on is never switched off.
YamlLinePatchNeverDisables(file, doc, t) ==
    [Adopted(file) EXCEPT !.values = [b \in Bindings |->
        IF b \in Patched(doc, t) /\ file.values[b] # Enabled THEN doc[b]
        ELSE file.values[b]]]

\* set_yaml_scalar, set_top_level_scalar: the value's own line is replaced,
\* every other line of the file is kept.
YamlLinePatch(file, doc, t) ==
    [Adopted(file) EXCEPT !.values = [b \in Bindings |->
        IF b \in Patched(doc, t) THEN doc[b] ELSE file.values[b]]]

\* apply_sync_policy: a missing block is inserted at home, before what is
\* there.  A present one is replaced or removed with all lines up to the
\* next content, the comments and blank lines of the gap included, and with
\* no content after it the empty element that stands for the final newline.
ApplySyncPolicy(s, enabled) ==
    IF s.block = "none"
    THEN [s EXCEPT !.block = IF enabled THEN "fixed" ELSE "none"]
    ELSE [s EXCEPT !.block = IF enabled THEN "fixed" ELSE "none",
                   !.place = IF enabled THEN @ ELSE "home",
                   !.gaps = @ \ {s.place},
                   !.newline = IF s.place \in s.suffix THEN @ ELSE "lost"]

\* _render_owned_artifact builds the whole file from the value and the files
\* beside it.
OwnedArtifact(doc, t) ==
    [mark |-> TRUE,
     values |-> [b \in Bindings |-> IF b \in Patched(doc, t) THEN doc[b] ELSE None],
     sync |-> None, rest |-> bundles[t]]

\* The strategy handlers; the gate of a presence-gated target that gets this
\* far is open, and its file is only adopted.
Text(doc, t) ==
    CASE Strategy[t] = "json-path-patch" -> JsonPathPatch(tree[t], doc, t)
      [] Strategy[t] = "yaml-line-patch" -> YamlLinePatch(tree[t], doc, t)
      [] Strategy[t] = "sync-policy" ->
            [Adopted(tree[t]) EXCEPT !.sync = ApplySyncPolicy(@, On(doc, t))]
      [] Strategy[t] = "presence-gated" -> Adopted(tree[t])
      [] Strategy[t] = "owned-artifact" -> OwnedArtifact(doc, t)

\* Mutant: the directory listing is recorded with the owned artifact in it.
RecordOwnToo(doc) ==
    [t \in Owned |-> IF t \notin Artifacts(doc) THEN None
                     ELSE IF tree[t] \in Content THEN tree[t].rest ELSE Cut]

\* _record_directory: the neighbours of an owned artifact, not itself.
RecordDirectory(doc) ==
    [t \in Owned |-> IF t \in Artifacts(doc) THEN bundles[t] ELSE None]

PlanRender(doc) ==
    [doc |-> doc,
     texts |-> [t \in Targets |-> IF t \in Artifacts(doc) THEN Text(doc, t)
                                  ELSE None],
     skipped |-> Skipped(doc), recorded |-> RecordDirectory(doc)]

\* changed_paths: the targets, and the manifest as number 0, whose bytes are
\* not the planned ones.
ChangedPaths(plan) ==
    {t \in Planned(plan) : tree[t] # plan.texts[t]}
    \cup (IF manifest # plan THEN {0} ELSE {})

\* Mutant: the manifest is not part of the comparison.
DriftTargetsOnly(doc) ==
    ~Renders(doc) \/ ChangedPaths(PlanRender(doc)) \ {0} # {}

\* obskit drift does not answer "clean": it fails, or it lists entries.
Drift(doc) == ~Renders(doc) \/ ChangedPaths(PlanRender(doc)) # {}

-----------------------------------------------------------------------------
(* The operator. *)

Resting == op.pc \in {"idle", "done", "failed"}

\* The document is edited, or reverted with Git.
EditDocument ==
    /\ Resting
    /\ document' \in (Docs \ Invalid) \ {document}
    /\ op' = NoOperation
    /\ UNCHANGED <<tree, bundles, manifest, commits, faults, edited, touched>>

\* git commit of a render that obskit render --check has proved idempotent.
CommitRender ==
    /\ Resting
    /\ Len(commits) < MaxCommits
    /\ Renders(document)
    /\ ChangedPaths(PlanRender(document)) = {}
    /\ commits' = Append(commits, [doc |-> document, tree |-> tree,
                                   bundles |-> bundles, manifest |-> manifest])
    /\ op' = NoOperation
    /\ UNCHANGED <<document, tree, bundles, manifest, faults, edited, touched>>

\* git checkout of the last commit.
Checkout ==
    /\ Resting
    /\ commits # <<>>
    /\ LET c == commits[Len(commits)]
       IN  /\ document' = c.doc
           /\ tree' = c.tree
           /\ bundles' = c.bundles
           /\ manifest' = c.manifest
    /\ op' = NoOperation
    /\ UNCHANGED <<commits, faults, edited, touched>>

-----------------------------------------------------------------------------
(* The writers. *)

\* A plan that renders goes on to the writes, any other ends the run with
\* nothing written.
Execute(kind, expected, proved) ==
    /\ op' = IF Renders(document) /\ proved
             THEN Operation(kind, "write", None, PlanRender(document), 1,
                            expected)
             ELSE Operation(kind, "failed", None, None, 1, expected)
    /\ edited' = FALSE
    /\ UNCHANGED <<document, tree, bundles, manifest, commits, faults, touched>>

\* obskit render.
RenderRun ==
    /\ Resting
    /\ Execute("render", 0, TRUE)

\* Mutant: the proof compares the document digests alone.
ProofByDocument(c) == commits[c].manifest.doc = document

\* _assert_deterministic_proof
DeterministicProof(c) == PlanRender(document) = commits[c].manifest

\* obskit rollback --mode real, with the manifest of an earlier commit as
\* --expected-manifest, or without the proof.
RollbackRender ==
    /\ Resting
    /\ \/ Execute("rollback", 0, TRUE)
       \/ \E c \in DOMAIN commits :
             Execute("rollback", c, Renders(document) /\ DeterministicProof(c))

\* ConfigFlow.commit_edit: the submitted document is validated by planning
\* it over the tree ...
Submit(doc) ==
    /\ Resting
    /\ op' = IF Renders(doc)
             THEN Operation("portal", "validated", doc, None, 1, 0)
             ELSE Operation("portal", "failed", None, None, 1, 0)
    /\ edited' = FALSE
    /\ UNCHANGED <<document, tree, bundles, manifest, commits, faults, touched>>

\* ... persisted ...
Persist ==
    /\ op.pc = "validated"
    /\ document' = op.doc
    /\ op' = [op EXCEPT !.pc = "replan"]
    /\ UNCHANGED <<tree, bundles, manifest, commits, faults, edited, touched>>

\* ... and planned again from its path.
Replan ==
    /\ op.pc = "replan"
    /\ Execute("portal", 0, TRUE)

\* Mutant: one artifact too many.
WriteArtifactPast ==
    /\ op.pc = "write"
    /\ tree' = IF op.at \in Planned(op.plan)
               THEN [tree EXCEPT ![op.at] = op.plan.texts[op.at]]
               ELSE tree
    /\ op' = [op EXCEPT !.at = @ + 1]
    /\ UNCHANGED <<document, bundles, manifest, commits, faults, edited,
                   touched>>

\* execute_plan: the artifacts in path order ...
WriteArtifact ==
    /\ op.pc = "write"
    /\ op.at \in Targets
    /\ tree' = IF op.at \in Planned(op.plan)
               THEN [tree EXCEPT ![op.at] = op.plan.texts[op.at]]
               ELSE tree
    /\ op' = [op EXCEPT !.at = @ + 1]
    /\ UNCHANGED <<document, bundles, manifest, commits, faults, edited,
                   touched>>

\* ... then the manifest.
WriteManifest ==
    /\ op.pc = "write"
    /\ op.at \notin Targets
    /\ manifest' = op.plan
    /\ op' = [op EXCEPT !.pc = IF op.kind = "rollback" THEN "verify" ELSE "done"]
    /\ UNCHANGED <<document, tree, bundles, commits, faults, edited, touched>>

\* The residual check of a rollback.
VerifyRollback ==
    /\ op.pc = "verify"
    /\ op' = [op EXCEPT !.pc = IF ChangedPaths(op.plan) = {} THEN "done"
                               ELSE "failed"]
    /\ UNCHANGED <<document, tree, bundles, manifest, commits, faults, edited,
                   touched>>

-----------------------------------------------------------------------------
(* Faults. *)

Fault ==
    /\ faults < MaxFaults
    /\ faults' = faults + 1

\* The writer dies between two writes.
Crash ==
    /\ op.pc \in {"validated", "replan", "write", "verify"}
    /\ Fault
    /\ op' = NoOperation
    /\ UNCHANGED <<document, tree, bundles, manifest, commits, edited, touched>>

\* The writer dies in a write.  Half a JSON file does not parse; half a YAML
\* file that ends with a line does, and half an Application may have lost
\* the block, a part of it, or what followed it.
HalfSync(s) ==
    {[s EXCEPT !.newline = "kept"]} \cup
    {[block |-> "none", place |-> "home", gaps |-> {}, suffix |-> {},
      newline |-> "kept"]} \cup
    {[block |-> b, place |-> s.place, gaps |-> {}, suffix |-> {},
      newline |-> "kept"] : b \in {s.block, "other"}}

Halves(t) ==
    LET text == op.plan.texts[t]
    IN  {Torn} \cup
        CASE Strategy[t] \in {"json-path-patch", "owned-artifact"} -> {}
          [] Strategy[t] = "sync-policy" ->
                {[text EXCEPT !.rest = Cut, !.sync = s] : s \in HalfSync(text.sync)}
          [] OTHER -> {[text EXCEPT !.rest = Cut]}

CrashInWrite ==
    /\ Fault
    /\ \/ /\ op.pc = "validated"
          /\ document' = Torn
          /\ UNCHANGED <<tree, manifest>>
       \/ /\ op.pc = "write"
          /\ op.at \in Targets
          /\ op.at \in Planned(op.plan)
          /\ \E half \in Halves(op.at) : tree' = [tree EXCEPT ![op.at] = half]
          /\ UNCHANGED <<document, manifest>>
       \/ /\ op.pc = "write"
          /\ op.at \notin Targets
          /\ manifest' = Torn
          /\ UNCHANGED <<document, tree>>
    /\ op' = NoOperation
    /\ touched' = TRUE
    /\ UNCHANGED <<bundles, commits, edited>>

\* What an edit by hand can make of a render target.
HandEdits(t) ==
    {None} \cup {[tree[t] EXCEPT !.values[b] = v] : b \in Scalars(t), v \in Values}
    \cup {[tree[t] EXCEPT !.rest = r] : r \in Rests}
    \cup (IF Strategy[t] = "sync-policy"
          THEN {[tree[t] EXCEPT !.sync = s] : s \in Layouts} ELSE {})

\* Someone changes or removes a render target, or a file beside an owned
\* artifact, or removes the manifest.
EditTree ==
    /\ Fault
    /\ \/ /\ \E t \in Targets :
                /\ tree[t] \in Content
                /\ \E file \in HandEdits(t) : tree' = [tree EXCEPT ![t] = file]
          /\ UNCHANGED <<bundles, manifest>>
       \/ /\ \E t \in Owned, r \in Rests : bundles' = [bundles EXCEPT ![t] = r]
          /\ UNCHANGED <<tree, manifest>>
       \/ /\ manifest' = None
          /\ UNCHANGED <<tree, bundles>>
    /\ edited' = TRUE
    /\ touched' = TRUE
    /\ UNCHANGED <<document, op, commits>>

Next ==
    \/ EditDocument \/ CommitRender \/ Checkout
    \/ RenderRun \/ RollbackRender \/ (\E doc \in Docs : Submit(doc))
    \/ Persist \/ Replan \/ WriteArtifact \/ WriteManifest \/ VerifyRollback
    \/ Crash \/ CrashInWrite \/ EditTree

Spec == Init /\ [][Next]_vars

-----------------------------------------------------------------------------
(* Properties. *)

\* "Idempotent: an unchanged document renders no diff and produces no
\* commit" (PROPAGATION_RECONCILIATION_CONTRACT_V1.yaml): when a render, a
\* rollback or a portal commit has finished and nobody edited the tree
\* meanwhile, planning the document over the tree it left changes nothing.
RenderIsIdempotent ==
    (op.pc = "done" /\ ~edited) =>
        /\ Renders(document)
        /\ ChangedPaths(PlanRender(document)) = {}

\* The next patch of this Application drops comments, blank lines or the
\* final newline, or raises because that newline is gone.
Fragile(s) ==
    \/ s.newline = "lost"
    \/ s.block # "none" /\ (s.place \in s.gaps \/ s.place \notin s.suffix)

\* What holds of that claim, whatever state a render started from, how many
\* bindings its files have and where earlier renders were interrupted: a
\* finished render is idempotent exactly if it left no Application whose
\* automated block is followed by comments or blank lines, is the last
\* content of the file, or has taken the final newline with it.
IdempotentUnlessFragile ==
    (op.pc = "done" /\ ~edited) =>
        (/\ Renders(document)
         /\ ChangedPaths(PlanRender(document)) = {})
        <=> \A t \in Artifacts(document) :
                Strategy[t] = "sync-policy" => ~Fragile(tree[t].sync)

\* A render of other documents and of this one again brings back what commit
\* k holds of target t: the document binds every value of it that some
\* document binds, or its automated block is at home, among content.
Reversible(k, t) ==
    /\ Scalars(t) \subseteq Patched(k.doc, t)
    /\ Strategy[t] = "sync-policy" =>
          LET s == k.tree[t].sync
          IN  s.place = "home" /\ "home" \in s.suffix \ s.gaps

\* "A rolled-back document re-renders byte-identically to its previously
\* committed rendered state": whatever documents were rendered since and
\* wherever those renders were interrupted between two files, the plan for
\* the document of an earlier commit whose files are all reversible is the
\* manifest of that commit, so its rollback passes the deterministic proof.
RollbackIsProvable ==
    ~touched => \A c \in DOMAIN commits :
        (\A t \in Planned(commits[c].manifest) : Reversible(commits[c], t))
        => /\ Renders(commits[c].doc)
           /\ PlanRender(commits[c].doc) = commits[c].manifest

\* The deterministic proof and the residual check together: a rollback that
\* reports "verified" and "rolled-back" has brought every file the manifest
\* names back to its committed bytes.
ProofMeansBytes ==
    (op.kind = "rollback" /\ op.pc = "done" /\ op.expected > 0 /\ ~edited) =>
        LET c == commits[op.expected]
        IN  /\ manifest = c.manifest
            /\ \A t \in Planned(manifest) :
                  /\ tree[t] = c.tree[t]
                  /\ t \in Owned => bundles[t] = c.bundles[t]

\* "A render target whose content does not match its renderer output is
\* drift, even inside Git": every plan starts from the live files, so a hand
\* edit outside the patched value changes what is expected as well; against
\* the manifest of a commit obskit drift still never calls a tree clean in
\* which a file of that manifest differs from the commit.
DriftSeesEveryEdit ==
    \A c \in DOMAIN commits :
        LET m == commits[c].manifest
        IN  (/\ document = commits[c].doc
             /\ manifest = m
             /\ \E t \in Planned(m) :
                   \/ tree[t] # commits[c].tree[t]
                   \/ t \in Owned /\ bundles[t] # commits[c].bundles[t])
            => Drift(document)

\* "Revert plus re-render reproduces the previously committed rendered
\* bytes" (RENDERER_ARCHITECTURE_CONTRACT_V1.yaml): a rollback with a
\* verified proof leaves every render target as the commit had it.
RollbackReproducesTree ==
    (op.kind = "rollback" /\ op.pc = "done" /\ op.expected > 0 /\ ~touched) =>
        tree = commits[op.expected].tree

============================================================================
