------------------------- MODULE TenantControlPlane -------------------------
(***************************************************************************)
(* The tenant control plane (services/tenancy/tenantctl): the lifecycle    *)
(* executor of service.py over the file store of store.py and the rendered *)
(* GitOps tree of renders.py and isolation.py.                             *)
(*                                                                         *)
(* Every variable below the clock is a family of files.  A request handler *)
(* is one decision step (all gates, all clock reads) followed by one step  *)
(* per file it writes, in the order of the code; handlers are serialised   *)
(* because the FastAPI coroutines call the synchronous service without     *)
(* awaiting inside it.  Crash stands for process death, or an OSError, at  *)
(* any point of a handler: what was written stays, the rest never happens. *)
(***************************************************************************)
EXTENDS Naturals, Sequences, FiniteSets

IsolationClasses == {"shared-partition", "dedicated-indices", "dedicated-stack"}

CONSTANTS
    Tenants,          \* tenant_id values
    Docs,             \* contract documents, lifecycle_state left out
    PendingTimeout,   \* PENDING_TIMEOUT_MINUTES per risk class, in ticks
    None,             \* no file, no record, no request running
    Partial,          \* what an interrupted directory write leaves
    MaxTime,          \* bound: the last clock reading
    MaxCrashes        \* bound: handlers that die half way

\* validate_tenant_document, as far as a field is read again: the longest
\* of the three signals' retention periods, in ticks, and whether the primary
\* region is an allowed one.
Document == [isolation_class : IsolationClasses,
             retention_days : Nat, region_allowed : BOOLEAN]

ASSUME DocsAssumption == Docs \subseteq Document

ASSUME PendingTimeoutAssumption ==
    PendingTimeout \in [{"write.high-risk", "write.critical"} -> Nat]

ASSUME BoundsAssumption ==
    /\ MaxTime \in Nat
    /\ MaxCrashes \in Nat

VARIABLES
    now,          \* the wall clock
    tenants,      \* tenants/<id>.json: document, state and legal hold
    transitions,  \* transitions/<id>/<name>.json: completed transitions
    audit,        \* audit/: the anchor the newest applied or replayed record
                  \* of each transition names
    evidence,     \* evidence/<id>/<category>.json
    prepared,     \* renders/<id>/prepared_commit_<transition>.txt
    tree,         \* the rendered directories of the GitOps tree
    pc,           \* the next file the running handler writes, or "idle"
    req,          \* the running handler's locals
    crashes       \* handlers that died so far

vars == <<now, tenants, transitions, audit, evidence, prepared, tree,
          pc, req, crashes>>

files == <<tenants, transitions, audit, evidence, prepared, tree>>

-----------------------------------------------------------------------------
(* The lifecycle contract's state machine, as load_state_machine reads it. *)

States == {"provisioning", "active", "suspended", "offboarding", "purged"}

Transitions == {"provision", "suspend", "resume", "offboard", "purge"}

FromStates(tr) ==
    CASE tr = "provision" -> {"provisioning"}
      [] tr = "suspend"   -> {"active"}
      [] tr = "resume"    -> {"suspended"}
      [] tr = "offboard"  -> {"active", "suspended"}
      [] tr = "purge"     -> {"offboarding"}

ToState(tr) ==
    CASE tr = "provision" -> "active"
      [] tr = "suspend"   -> "suspended"
      [] tr = "resume"    -> "active"
      [] tr = "offboard"  -> "offboarding"
      [] tr = "purge"     -> "purged"

Destructive == {"offboard", "purge"}

RiskClass(tr) == IF tr = "purge" THEN "write.critical" ELSE "write.high-risk"

EvidenceCategories ==
    <<"opensearch_indices", "security_roles_and_mappings", "dashboard_spaces",
      "vector_indices", "graph_database", "gitops_overlay">>

-----------------------------------------------------------------------------
(* What the files hold. *)

Time == 0 .. MaxTime

\* A document with the two control-plane facts stored beside it.
TenantRecord == [state : States, doc : Docs, hold : BOOLEAN]

(***************************************************************************)
(* Of a completed-transition record the model keeps the one field that is  *)
(* read again: completed_at, retention_window_ends_at or purged_at.  The   *)
(* applied_at of suspend and resume is never read and stands as 0.         *)
(***************************************************************************)
Anchor == Nat \cup {None}

EvidenceRecord == [status : {"recorded", "not-applicable"}, captured_at : Nat]

ASSUME NoneAssumption ==
    /\ None # Partial
    /\ {None, Partial} \cap (Nat \cup Docs \cup IsolationClasses) = {}
    /\ None \notin TenantRecord \cup EvidenceRecord

(***************************************************************************)
(* Per tenant: the overlay's own two files, the isolation/ directory under *)
(* the overlay (dedicated-stack) and the one under gitops/platform/tenants *)
(* (every other class).  A directory holds what it was last rendered from. *)
(***************************************************************************)
Tree == [overlay : Docs \cup {None, Partial},
         inner   : IsolationClasses \cup {None, Partial},
         shared  : IsolationClasses \cup {None, Partial}]

Requests == [tenant : Tenants, transition : Transitions \cup {"create"},
             outcome : {"applied", "replayed"}, record : TenantRecord,
             at : Nat, anchor : Nat, category : 1 .. Len(EvidenceCategories)]

StepNames == {"clear", "register", "isolation", "overlay", "commit", "remove",
              "evidence", "saveTenant", "saveTransition", "emitAudit"}

TypeOK ==
    /\ now \in Time
    /\ tenants \in [Tenants -> TenantRecord \cup {None}]
    /\ transitions \in [Tenants -> [Transitions -> Anchor]]
    /\ audit \in [Tenants -> [Transitions -> Anchor]]
    /\ evidence \in [Tenants -> [1 .. Len(EvidenceCategories)
                                    -> EvidenceRecord \cup {None}]]
    /\ prepared \in [Tenants -> SUBSET {"provision", "purge"}]
    /\ tree \in [Tenants -> Tree]
    /\ crashes \in 0 .. MaxCrashes
    /\ \/ pc \in {"idle", "emitDenial"} /\ req = None
       \/ pc \in StepNames /\ req \in Requests

Init ==
    /\ now = 0
    /\ tenants = [t \in Tenants |-> None]
    /\ transitions = [t \in Tenants |-> [tr \in Transitions |-> None]]
    /\ audit = [t \in Tenants |-> [tr \in Transitions |-> None]]
    /\ evidence = [t \in Tenants |->
                     [c \in 1 .. Len(EvidenceCategories) |-> None]]
    /\ prepared = [t \in Tenants |-> {}]
    /\ tree = [t \in Tenants |-> [overlay |-> None, inner |-> None,
                                  shared |-> None]]
    /\ pc = "idle"
    /\ req = None
    /\ crashes = 0

-----------------------------------------------------------------------------
(* Gates. *)

Dedicated(doc) == doc.isolation_class = "dedicated-stack"

\* _check_scope: a platform caller has no scope; a malformed scope header is
\* the empty scope, which matches no tenant.
Scopes == Tenants \cup {"platform", ""}

ScopeAllows(scope, t) == scope = "platform" \/ scope = t

Approvals == [decision : {"approved", "rejected"}, decided_at : 0 .. MaxTime + 1,
              change_ticket : BOOLEAN]

\* The fields are exactly the ones of the risk class (only write.critical has
\* a change ticket) and the decision is an approval.
ApprovalComplete(approval, risk) ==
    /\ approval # None
    /\ approval.change_ticket <=> risk = "write.critical"
    /\ approval.decision = "approved"

\* _check_timeout: not from the future, and no older than the pending timeout,
\* boundary included.
ApprovalFresh(approval, risk) ==
    /\ approval.decided_at <= now
    /\ now - approval.decided_at <= PendingTimeout[risk]

\* validate_approval.
ApprovalValid(approval, risk) ==
    ApprovalComplete(approval, risk) /\ ApprovalFresh(approval, risk)

\* An approval on a transition that takes none is an unknown field, so the
\* request does not parse.
RequestParses(tr, approval) == tr \in Destructive \/ approval = None

Admitted(t, tr, scope, approval) ==
    /\ ScopeAllows(scope, t)
    /\ RequestParses(tr, approval)
    /\ tenants[t] # None
    /\ tr \in Destructive => ApprovalValid(approval, RiskClass(tr))

Replayable(t, tr) ==
    /\ tenants[t].state = ToState(tr)
    /\ transitions[t][tr] # None

\* Mutant: the legal hold is not looked at.
PreconditionsIgnoreHold(t, tr) ==
    /\ tr = "provision" => tenants[t].doc.region_allowed
    /\ tr = "purge" =>
          /\ transitions[t]["offboard"] # None
          /\ transitions[t]["offboard"] <= now

\* _check_preconditions.
Preconditions(t, tr) ==
    /\ tr = "provision" => tenants[t].doc.region_allowed
    /\ tr = "purge" =>
          /\ transitions[t]["offboard"] # None
          /\ transitions[t]["offboard"] <= now
          /\ ~tenants[t].hold

Applicable(t, tr) ==
    /\ tenants[t].state \in FromStates(tr)
    /\ Preconditions(t, tr)

\* _transition_inner: what becomes of a request.  A record that is not
\* admitted is not looked at any further.
Verdict(t, tr, scope, approval) ==
    IF ~Admitted(t, tr, scope, approval) THEN "denied"
    ELSE IF Replayable(t, tr) THEN "replayed"
    ELSE IF Applicable(t, tr) THEN "applied"
    ELSE "denied"

\* What may become of a transition now, over all callers and approvals.
Verdicts(t, tr) ==
    {Verdict(t, tr, scope, approval) :
        scope \in Scopes, approval \in Approvals \cup {None}}

-----------------------------------------------------------------------------
(* Create, update and hold. *)

\* Start a handler: its locals, and the first file it writes.
Begin(r, step) ==
    /\ req' = r
    /\ pc' = step
    /\ UNCHANGED <<now, files, crashes>>

Registered(t) == tenants[t] # None

StateOf(t) == IF Registered(t) THEN tenants[t].state ELSE "none"

Completed(t) == {tr \in Transitions : transitions[t][tr] # None}

\* Mutant: the records of the id's earlier life stay.
CreateTenantKeepRecords(t, doc) ==
    /\ pc = "idle"
    /\ StateOf(t) \in {"none", "purged"}
    /\ Begin([tenant |-> t, transition |-> "create", outcome |-> "applied",
              record |-> [state |-> "provisioning", doc |-> doc,
                          hold |-> FALSE],
              at |-> now, anchor |-> now, category |-> 1],
             "register")

\* create_tenant: a new id, or a purged one whose old records go first.
CreateTenant(t, doc) ==
    /\ pc = "idle"
    /\ StateOf(t) \in {"none", "purged"}
    /\ Begin([tenant |-> t, transition |-> "create", outcome |-> "applied",
              record |-> [state |-> "provisioning", doc |-> doc,
                          hold |-> FALSE],
              at |-> now, anchor |-> now, category |-> 1],
             IF Registered(t) /\ Completed(t) # {}
             THEN "clear" ELSE "register")

\* clear_transition_records: glob order is arbitrary, one unlink per step.
ClearRecord ==
    /\ pc = "clear"
    /\ \E tr \in Completed(req.tenant) :
          /\ transitions' = [transitions EXCEPT ![req.tenant][tr] = None]
          /\ pc' = IF Completed(req.tenant) = {tr} THEN "register" ELSE "clear"
    /\ UNCHANGED <<now, tenants, audit, evidence, prepared, tree, req,
                   crashes>>

Register ==
    /\ pc = "register"
    /\ tenants' = [tenants EXCEPT ![req.tenant] = req.record]
    /\ pc' = "idle"
    /\ req' = None
    /\ UNCHANGED <<now, transitions, audit, evidence, prepared, tree,
                   crashes>>

\* update_tenant: any field but tenant_id, lifecycle_state and created_at.
UpdateTenant(t, doc) ==
    /\ pc = "idle"
    /\ tenants[t] # None
    /\ tenants' = [tenants EXCEPT ![t].doc = doc]
    /\ UNCHANGED <<now, transitions, audit, evidence, prepared, tree,
                   pc, req, crashes>>

SetLegalHold(t, hold) ==
    /\ pc = "idle"
    /\ tenants[t] # None
    /\ tenants' = [tenants EXCEPT ![t].hold = hold]
    /\ UNCHANGED <<now, transitions, audit, evidence, prepared, tree,
                   pc, req, crashes>>

-----------------------------------------------------------------------------
(* Transition requests: one of denied, replayed or applied. *)

\* transition: a denied attempt writes its audit record and nothing else.
Deny(t, tr) ==
    /\ pc = "idle"
    /\ "denied" \in Verdicts(t, tr)
    /\ Begin(None, "emitDenial")

\* _replay: provision converges the drifted directories, purge removes a
\* leftover overlay; every replay ends with its audit record.
ReplayStart(t, tr) ==
    LET doc == tenants[t].doc
    IN  CASE tr = "provision" /\ Dedicated(doc) /\ tree[t].overlay # doc
               -> "overlay"
          [] tr = "provision" /\ ~(Dedicated(doc) /\ tree[t].overlay # doc)
               -> "isolation"
          [] tr = "purge" /\ Dedicated(doc) -> "remove"
          [] OTHER -> "emitAudit"

\* The time anchor a completed transition records.
AnchorOf(tr, doc) ==
    CASE tr = "offboard" -> now + doc.retention_days
      [] tr \in {"provision", "purge"} -> now
      [] OTHER -> 0

\* Mutant: a replay restarts the clock.
ReplayFreshAnchor(t, tr) ==
    /\ pc = "idle"
    /\ "replayed" \in Verdicts(t, tr)
    /\ Begin([tenant |-> t, transition |-> tr, outcome |-> "replayed",
              record |-> tenants[t], at |-> now,
              anchor |-> AnchorOf(tr, tenants[t].doc), category |-> 1],
             ReplayStart(t, tr))

\* The time anchors of a replay come from the completed record (_audit_extras).
Replay(t, tr) ==
    /\ pc = "idle"
    /\ "replayed" \in Verdicts(t, tr)
    /\ Begin([tenant |-> t, transition |-> tr, outcome |-> "replayed",
              record |-> tenants[t], at |-> now,
              anchor |-> transitions[t][tr], category |-> 1],
             ReplayStart(t, tr))

\* _apply: the first file written.
ApplyStart(t, tr) ==
    CASE tr = "provision" -> "isolation"
      [] tr = "purge" -> IF Dedicated(tenants[t].doc) THEN "remove"
                         ELSE "evidence"
      [] OTHER -> "saveTenant"

Apply(t, tr) ==
    /\ pc = "idle"
    /\ "applied" \in Verdicts(t, tr)
    /\ Begin([tenant |-> t, transition |-> tr, outcome |-> "applied",
              record |-> tenants[t], at |-> now,
              anchor |-> AnchorOf(tr, tenants[t].doc), category |-> 1],
             ApplyStart(t, tr))

-----------------------------------------------------------------------------
(* The writes of a transition handler. *)

Goto(step) == pc' = step /\ UNCHANGED <<now, req, crashes>>

\* The roles, mappings, space and index files follow from the tenant's id and
\* its isolation class alone.
IsolationContent(doc) == doc.isolation_class

Rendered(t, doc) ==
    IF Dedicated(doc) THEN [tree[t] EXCEPT !.inner = IsolationContent(doc)]
    ELSE [tree[t] EXCEPT !.shared = IsolationContent(doc)]

\* execute_isolation_renders.
RenderIsolation ==
    /\ pc = "isolation"
    /\ tree' = [tree EXCEPT
                  ![req.tenant] = Rendered(req.tenant, req.record.doc)]
    /\ Goto(CASE req.outcome = "replayed" -> "emitAudit"
              [] req.outcome = "applied" /\ Dedicated(req.record.doc)
                   -> "overlay"
              [] req.outcome = "applied" /\ ~Dedicated(req.record.doc)
                   -> "saveTenant")
    /\ UNCHANGED <<tenants, transitions, audit, evidence, prepared>>

\* execute_overlay_render.
RenderOverlay ==
    /\ pc = "overlay"
    /\ tree' = [tree EXCEPT ![req.tenant].overlay = req.record.doc]
    /\ Goto("commit")
    /\ UNCHANGED <<tenants, transitions, audit, evidence, prepared>>

\* Mutant: the directory has to be there to be removed.
RemoveOverlayIfPresent ==
    /\ pc = "remove"
    /\ tree[req.tenant].overlay # None
    /\ tree' = [tree EXCEPT ![req.tenant].overlay = None,
                            ![req.tenant].inner = None]
    /\ Goto(IF req.outcome = "replayed" THEN "emitAudit" ELSE "commit")
    /\ UNCHANGED <<tenants, transitions, audit, evidence, prepared>>

\* remove_overlay: the whole directory, its isolation/ included.
RemoveOverlay ==
    /\ pc = "remove"
    /\ tree' = [tree EXCEPT ![req.tenant].overlay = None,
                            ![req.tenant].inner = None]
    /\ Goto(IF req.outcome = "replayed" THEN "emitAudit" ELSE "commit")
    /\ UNCHANGED <<tenants, transitions, audit, evidence, prepared>>

\* save_prepared_commit.
PrepareCommit ==
    /\ pc = "commit"
    /\ prepared' = [prepared EXCEPT ![req.tenant] = @ \cup {req.transition}]
    /\ Goto(CASE req.transition = "purge" -> "evidence"
              [] req.transition # "purge" /\ req.outcome = "replayed"
                   -> "isolation"
              [] req.transition # "purge" /\ req.outcome = "applied"
                   -> "saveTenant")
    /\ UNCHANGED <<tenants, transitions, audit, evidence, tree>>

\* Mutant: the overlay category counts for every isolation class.
EvidenceStatusAlways(category, doc) == "recorded"

EvidenceStatus(category, doc) ==
    IF category = "gitops_overlay" /\ ~Dedicated(doc)
    THEN "not-applicable" ELSE "recorded"

\* Mutant: an artifact that is already there is kept.
CaptureEvidenceIfAbsent ==
    LET c == req.category
    IN  /\ pc = "evidence"
        /\ evidence' = IF evidence[req.tenant][c] # None THEN evidence
              ELSE [evidence EXCEPT ![req.tenant][c] =
                      [status |-> EvidenceStatus(EvidenceCategories[c],
                                                 req.record.doc),
                       captured_at |-> req.at]]
        /\ IF c < Len(EvidenceCategories)
           THEN req' = [req EXCEPT !.category = c + 1] /\ pc' = pc
           ELSE req' = req /\ pc' = "saveTenant"
        /\ UNCHANGED <<now, tenants, transitions, audit, prepared, tree,
                       crashes>>

\* The loop of _execute_purge: one category per iteration, in tuple order.
CaptureEvidence ==
    LET c == req.category
    IN  /\ pc = "evidence"
        /\ evidence' = [evidence EXCEPT ![req.tenant][c] =
              [status |-> EvidenceStatus(EvidenceCategories[c],
                                         req.record.doc),
               captured_at |-> req.at]]
        /\ IF c < Len(EvidenceCategories)
           THEN req' = [req EXCEPT !.category = c + 1] /\ pc' = pc
           ELSE req' = req /\ pc' = "saveTenant"
        /\ UNCHANGED <<now, tenants, transitions, audit, prepared,
                       tree, crashes>>

\* Mutant: the completed-transition record is forgotten.
SaveTenantOnly ==
    /\ pc = "saveTenant"
    /\ tenants' = [tenants EXCEPT ![req.tenant] =
                     [req.record EXCEPT !.state = ToState(req.transition)]]
    /\ Goto("emitAudit")
    /\ UNCHANGED <<transitions, audit, evidence, prepared, tree>>

\* save_tenant_record with the new lifecycle_state: the record read at the
\* start of the handler is written back whole.
SaveTenant ==
    /\ pc = "saveTenant"
    /\ tenants' = [tenants EXCEPT ![req.tenant] =
                     [req.record EXCEPT !.state = ToState(req.transition)]]
    /\ Goto("saveTransition")
    /\ UNCHANGED <<transitions, audit, evidence, prepared, tree>>

SaveTransition ==
    /\ pc = "saveTransition"
    /\ transitions' =
          [transitions EXCEPT ![req.tenant][req.transition] = req.anchor]
    /\ Goto("emitAudit")
    /\ UNCHANGED <<tenants, audit, evidence, prepared, tree>>

EmitAudit ==
    /\ pc = "emitAudit"
    /\ audit' = [audit EXCEPT ![req.tenant][req.transition] = req.anchor]
    /\ pc' = "idle"
    /\ req' = None
    /\ UNCHANGED <<now, tenants, transitions, evidence, prepared, tree,
                   crashes>>

\* The denial record's text is left out; the tenant's files are not touched.
EmitDenial ==
    /\ pc = "emitDenial"
    /\ pc' = "idle"
    /\ UNCHANGED <<now, files, req, crashes>>

-----------------------------------------------------------------------------
(* Time and failure. *)

\* A handler reads the clock before its first write, so time that passes
\* while it writes is not told apart from time that passes after it.
Tick ==
    /\ pc = "idle"
    /\ now < MaxTime
    /\ now' = now + 1
    /\ UNCHANGED <<files, pc, req, crashes>>

\* What an interrupted rmtree may leave of a directory's content.
Remains(content) == IF content = None THEN {None} ELSE {content, Partial, None}

\* What an interrupted directory write leaves: nothing done yet, or a part.
InterruptedWrite ==
    \/ UNCHANGED tree
    \/ /\ pc = "isolation"
       /\ IF Dedicated(req.record.doc)
          THEN tree' = [tree EXCEPT ![req.tenant].inner = Partial]
          ELSE tree' = [tree EXCEPT ![req.tenant].shared = Partial]
    \/ /\ pc = "overlay"
       /\ tree' = [tree EXCEPT ![req.tenant].overlay = Partial]
    \/ /\ pc = "remove"
       /\ \E o \in Remains(tree[req.tenant].overlay),
             i \in Remains(tree[req.tenant].inner) :
             tree' = [tree EXCEPT ![req.tenant].overlay = o,
                                  ![req.tenant].inner = i]

Crash ==
    /\ pc # "idle"
    /\ crashes < MaxCrashes
    /\ InterruptedWrite
    /\ pc' = "idle"
    /\ req' = None
    /\ crashes' = crashes + 1
    /\ UNCHANGED <<now, tenants, transitions, audit, evidence,
                   prepared>>

Write ==
    \/ ClearRecord \/ Register
    \/ RenderIsolation \/ RenderOverlay \/ RemoveOverlay \/ PrepareCommit
    \/ CaptureEvidence
    \/ SaveTenant \/ SaveTransition \/ EmitAudit \/ EmitDenial

Next ==
    \/ Write
    \/ Tick
    \/ Crash
    \/ \E t \in Tenants :
          \/ \E doc \in Docs : CreateTenant(t, doc) \/ UpdateTenant(t, doc)
          \/ \E hold \in BOOLEAN : SetLegalHold(t, hold)
          \/ \E tr \in Transitions :
                Deny(t, tr) \/ Replay(t, tr) \/ Apply(t, tr)

Spec == Init /\ [][Next]_vars

-----------------------------------------------------------------------------
(* Properties. *)

(***************************************************************************)
(* Replay detection never sees a record of an earlier life or of a later   *)
(* state: whatever crashed where, and although create_tenant unlinks the   *)
(* old records one by one, a tenant being provisioned has no completed     *)
(* transition, a serving tenant was never offboarded, and an offboarding   *)
(* one was never purged.                                                   *)
(***************************************************************************)
NoRecordLeak ==
    \A t \in Tenants :
        /\ StateOf(t) \in {"none", "provisioning"} => Completed(t) = {}
        /\ StateOf(t) \in {"active", "suspended"} =>
              Completed(t) \cap {"offboard", "purge"} = {}
        /\ StateOf(t) = "offboarding" => "purge" \notin Completed(t)

(***************************************************************************)
(* A tenant marked purged has all its deletion evidence, all of it from    *)
(* one run of _execute_purge, and the completed purge names that run: no   *)
(* crash, re-run or reuse of the id mixes the artifacts of two purges.     *)
(***************************************************************************)
EvidenceCoversPurge ==
    \A t \in Tenants :
        StateOf(t) = "purged" =>
            \E at \in 0 .. now :
                /\ \A c \in DOMAIN EvidenceCategories :
                      evidence[t][c] # None /\ evidence[t][c].captured_at = at
                /\ transitions[t]["purge"] \in {None, at}

(***************************************************************************)
(* Evidence that the overlay was removed is true: a purged tenant whose    *)
(* gitops_overlay artifact says "recorded" has no overlay directory and    *)
(* has the removal commit prepared.                                        *)
(***************************************************************************)
EvidenceTruthful ==
    \A t \in Tenants :
        LET artifact == evidence[t][Len(EvidenceCategories)]
        IN  StateOf(t) = "purged" /\ artifact # None
              /\ artifact.status = "recorded" =>
                /\ tree[t].overlay = None
                /\ tree[t].inner = None
                /\ "purge" \in prepared[t]

(***************************************************************************)
(* Every transition can be run again: between requests the transition that *)
(* entered the tenant's state has its completed record, so _transition_inner *)
(* replays it instead of refusing it.                                      *)
(***************************************************************************)
RerunIsReplay ==
    pc = "idle" =>
        \A t \in Tenants :
            StateOf(t) \notin {"none", "provisioning"} =>
                \E tr \in Completed(t) : ToState(tr) = StateOf(t)

\* The same as long as no handler died half way.
RerunIsReplayUnlessCrashed == crashes = 0 => RerunIsReplay

(***************************************************************************)
(* As long as no handler died half way, every completed transition has an  *)
(* audit record, and the newest one, replays included, names the time      *)
(* anchor of the completed record: a replay never resets the provisioning  *)
(* time, the retention window or the purge time.                           *)
(***************************************************************************)
AuditMatchesRecord ==
    crashes = 0 /\ pc = "idle" =>
        \A t \in Tenants : \A tr \in Completed(t) :
            audit[t][tr] = transitions[t][tr]

\* A purged tenant has no overlay directory left in the GitOps tree.
PurgedLeavesNoOverlay ==
    pc = "idle" =>
        \A t \in Tenants :
            StateOf(t) = "purged" =>
                tree[t].overlay = None /\ tree[t].inner = None

-----------------------------------------------------------------------------
(* The lifecycle contract. *)

\* What the contract speaks of, read from the files.
LifecycleState == [t \in Tenants |-> StateOf(t)]

RetentionWindow == [t \in Tenants |-> transitions[t]["offboard"]]

Held(t) == Registered(t) /\ tenants[t].hold

LegalHold == [t \in Tenants |-> Held(t)]

OverlayPresent ==
    [t \in Tenants |-> tree[t].overlay # None \/ tree[t].inner # None]

Contract == INSTANCE LifecycleContract WITH
    NoWindow <- None, state <- LifecycleState, window <- RetentionWindow,
    hold <- LegalHold, present <- OverlayPresent

(***************************************************************************)
(* Every write of every handler, and every crash, is a step the lifecycle  *)
(* contract allows.                                                        *)
(***************************************************************************)
ImplementsContract == Contract!Spec

-----------------------------------------------------------------------------
(* Liveness. *)

(***************************************************************************)
(* A running handler goes on to its next write, time passes between        *)
(* requests however many there are (hence strong fairness), and an         *)
(* operator who wants the tenant gone runs purge again whenever the        *)
(* preconditions keep coming true.                                         *)
(***************************************************************************)
Fairness ==
    /\ WF_vars(Write)
    /\ SF_vars(Tick)
    /\ \A t \in Tenants : SF_vars(Apply(t, "purge"))

FairSpec == Spec /\ Fairness

(***************************************************************************)
(* A partially failed purge is re-run to completion: once the retention    *)
(* window of an offboarding tenant is recorded and ends within the clock's *)
(* bound, the tenant ends purged wherever the purge handler dies, unless   *)
(* it stays under a legal hold for good.                                   *)
(***************************************************************************)
PurgeCompletes ==
    \A t \in Tenants :
        []<>~Held(t) =>
            (StateOf(t) = "offboarding" /\ transitions[t]["offboard"] \in Time
                ~> StateOf(t) = "purged")
=============================================================================
