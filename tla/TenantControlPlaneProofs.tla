---------------------- MODULE TenantControlPlaneProofs ----------------------
(***************************************************************************)
(* Safety of the tenant control plane, for any tenants, documents, approval*)
(* windows and bounds: completed records, evidence and audit trail, and the*)
(* refinement of LifecycleContract.                                        *)
(***************************************************************************)
EXTENDS TenantControlPlane, TLAPS

\* The steps of a transition handler that come before save_tenant_record, that
\* call included.
BeforeSave == {"isolation", "overlay", "commit", "remove", "evidence",
               "saveTenant"}

(***************************************************************************)
(* What a running handler knows: which request may be at which write, and  *)
(* that the record it read is still the one on disk until it saves it.     *)
(***************************************************************************)
HandlerInv ==
    /\ pc \in {"clear", "register"} =>
          /\ req.transition = "create"
          /\ req.record.state = "provisioning"
          /\ StateOf(req.tenant) \in {"none", "purged"}
    /\ pc = "register" => Completed(req.tenant) = {}
    /\ pc \in BeforeSave \cup {"saveTransition", "emitAudit"} =>
          req.transition \in Transitions
    /\ pc \in {"isolation", "overlay"} => req.transition = "provision"
    /\ pc \in {"remove", "evidence"} => req.transition = "purge"
    /\ pc = "commit" => req.transition \in {"provision", "purge"}
    /\ pc \in BeforeSave =>
          /\ tenants[req.tenant] = req.record
          /\ req.outcome = "applied" =>
                req.record.state \in FromStates(req.transition)
    /\ pc \in {"evidence", "saveTenant", "saveTransition"} =>
          req.outcome = "applied"
    /\ pc = "commit" /\ req.transition = "purge" => req.outcome = "applied"
    /\ pc = "saveTransition" => StateOf(req.tenant) = ToState(req.transition)

IndInv == TypeOK /\ HandlerInv /\ NoRecordLeak

\* _execute_purge records six categories of evidence.
LEMMA CategoryCount == Len(EvidenceCategories) = 6
  BY DEF EvidenceCategories

\* An empty store satisfies the inductive invariant.
LEMMA InitIndInv == Init => IndInv
  <1> SUFFICES ASSUME Init PROVE IndInv
    OBVIOUS
  <1> USE DEF Init
  <1>1. TypeOK
    BY NoneAssumption, BoundsAssumption DEF TypeOK, Time, Anchor, Tree
  <1>2. HandlerInv
    BY DEF HandlerInv, BeforeSave
  <1>3. NoRecordLeak
    BY DEF NoRecordLeak, StateOf, Registered, Completed
  <1> QED BY <1>1, <1>2, <1>3 DEF IndInv

\* The marker of an absent file is not a tenant record.
LEMMA RecordIsNotNone == None \notin TenantRecord
  BY NoneAssumption

\* A record of a tenant, and one of its overlay, stays one when a field of it
\* is replaced.
LEMMA RecordUpdates ==
  ASSUME NEW x \in TenantRecord
  PROVE  /\ \A s \in States : [x EXCEPT !.state = s] \in TenantRecord
         /\ \A d \in Docs : [x EXCEPT !.doc = d] \in TenantRecord
         /\ \A h \in BOOLEAN : [x EXCEPT !.hold = h] \in TenantRecord
  <1>1. ASSUME NEW s \in States PROVE [x EXCEPT !.state = s] \in TenantRecord
    BY Zenon DEF TenantRecord
  <1>2. ASSUME NEW d \in Docs PROVE [x EXCEPT !.doc = d] \in TenantRecord
    BY Zenon DEF TenantRecord
  <1>3. ASSUME NEW h \in BOOLEAN PROVE [x EXCEPT !.hold = h] \in TenantRecord
    BY Zenon DEF TenantRecord
  <1> QED BY <1>1, <1>2, <1>3, Zenon

LEMMA TreeUpdates ==
  ASSUME NEW x \in Tree
  PROVE  /\ \A o \in Docs \cup {None, Partial} : [x EXCEPT !.overlay = o] \in Tree
         /\ \A i \in IsolationClasses \cup {None, Partial} :
               [x EXCEPT !.inner = i] \in Tree /\ [x EXCEPT !.shared = i] \in Tree
  <1>1. ASSUME NEW o \in Docs \cup {None, Partial} PROVE [x EXCEPT !.overlay = o] \in Tree
    BY DEF Tree
  <1>2. ASSUME NEW i \in IsolationClasses \cup {None, Partial}
        PROVE  [x EXCEPT !.inner = i] \in Tree /\ [x EXCEPT !.shared = i] \in Tree
    BY DEF Tree
  <1> QED BY <1>1, <1>2, Zenon

LEMMA RecordFields ==
  ASSUME NEW x \in TenantRecord
  PROVE  /\ \A d : [x EXCEPT !.doc = d].state = x.state
         /\ \A h : [x EXCEPT !.hold = h].state = x.state
  BY Zenon DEF TenantRecord

\* A request that is applied is in a source state of its transition and meets
\* the preconditions; one that is replayed has completed before.
LEMMA VerdictFacts ==
  ASSUME NEW t \in Tenants, NEW tr \in Transitions
  PROVE  /\ "applied" \in Verdicts(t, tr) =>
               tenants[t] # None /\ Applicable(t, tr)
         /\ "replayed" \in Verdicts(t, tr) =>
               tenants[t] # None /\ Replayable(t, tr)
  BY DEF Verdicts, Verdict, Admitted

\* The locals of a handler that is about to write.
LEMMA RequestType ==
  ASSUME TypeOK, pc \in StepNames
  PROVE  /\ req \in Requests
         /\ req.tenant \in Tenants
         /\ req.record \in TenantRecord
         /\ req.record.doc \in Docs
         /\ req.record.doc.isolation_class \in IsolationClasses
         /\ req.at \in Nat
         /\ req.anchor \in Nat
         /\ req.category \in 1 .. Len(EvidenceCategories)
         /\ req.outcome \in {"applied", "replayed"}
         /\ req.transition \in Transitions \cup {"create"}
  <1>1. req \in Requests
    BY DEF TypeOK, StepNames
  <1>2. req.record \in TenantRecord
    BY <1>1 DEF Requests
  <1>3. req.record.doc \in Docs
    BY <1>2 DEF TenantRecord
  <1> QED BY <1>1, <1>2, <1>3, DocsAssumption DEF Requests, Document

\* So does a write of one file of one tenant.
LEMMA OverlayWrite ==
  ASSUME tree \in [Tenants -> Tree], NEW t \in Tenants,
         NEW o \in Docs \cup {None, Partial}
  PROVE  [tree EXCEPT ![t].overlay = o] \in [Tenants -> Tree]
  <1>1. ASSUME NEW x \in Tree PROVE [tree EXCEPT ![t] = x] \in [Tenants -> Tree]
    OBVIOUS
  <1>2. tree[t] \in Tree
    OBVIOUS
  <1>3. [tree[t] EXCEPT !.overlay = o] \in Tree
    BY <1>2, TreeUpdates
  <1> QED BY <1>1, <1>3

LEMMA IsolationWrites ==
  ASSUME tree \in [Tenants -> Tree], NEW t \in Tenants,
         NEW i \in IsolationClasses \cup {None, Partial}
  PROVE  /\ [tree EXCEPT ![t].inner = i] \in [Tenants -> Tree]
         /\ [tree EXCEPT ![t].shared = i] \in [Tenants -> Tree]
  <1>1. ASSUME NEW x \in Tree PROVE [tree EXCEPT ![t] = x] \in [Tenants -> Tree]
    OBVIOUS
  <1>2. tree[t] \in Tree
    OBVIOUS
  <1>3. /\ [tree[t] EXCEPT !.inner = i] \in Tree
        /\ [tree[t] EXCEPT !.shared = i] \in Tree
    BY <1>2, TreeUpdates
  <1> QED BY <1>1, <1>3

LEMMA DirectoryWrite ==
  ASSUME tree \in [Tenants -> Tree], NEW t \in Tenants,
         NEW o \in Docs \cup {None, Partial},
         NEW i \in IsolationClasses \cup {None, Partial}
  PROVE  [tree EXCEPT ![t].overlay = o, ![t].inner = i] \in [Tenants -> Tree]
  <1>1. ASSUME NEW x \in Tree PROVE [tree EXCEPT ![t] = x] \in [Tenants -> Tree]
    OBVIOUS
  <1>2. tree[t] \in Tree
    OBVIOUS
  <1>3. [tree[t] EXCEPT !.overlay = o, !.inner = i] \in Tree
    BY <1>2 DEF Tree
  <1>4. [tree EXCEPT ![t].overlay = o, ![t].inner = i]
           = [tree EXCEPT ![t] = [tree[t] EXCEPT !.overlay = o, !.inner = i]]
    BY <1>2
  <1> QED BY <1>1, <1>3, <1>4

LEMMA TypeIsolation ==
  ASSUME TypeOK, RenderIsolation
  PROVE  TypeOK'
  <1>1. pc \in StepNames /\ req \in Requests
    BY DEF RenderIsolation, TypeOK, StepNames
  <1>2. /\ req.tenant \in Tenants
        /\ req.record.doc.isolation_class \in IsolationClasses
        /\ req.outcome \in {"applied", "replayed"}
    BY <1>1, RequestType
  <1>3. Rendered(req.tenant, req.record.doc) \in Tree
    <2>1. tree[req.tenant] \in Tree
      BY <1>2 DEF TypeOK
    <2>2. IsolationContent(req.record.doc) \in IsolationClasses \cup {None, Partial}
      BY <1>2 DEF IsolationContent
    <2>3. /\ [tree[req.tenant] EXCEPT !.inner = IsolationContent(req.record.doc)] \in Tree
          /\ [tree[req.tenant] EXCEPT !.shared = IsolationContent(req.record.doc)] \in Tree
      BY <2>1, <2>2, TreeUpdates, Zenon
    <2> QED BY <2>3, Zenon DEF Rendered
  <1>4. tree' = [tree EXCEPT ![req.tenant] = Rendered(req.tenant, req.record.doc)]
    BY DEF RenderIsolation
  <1>5. tree' \in [Tenants -> Tree]
    BY <1>2, <1>3, <1>4 DEF TypeOK
  <1>6. UNCHANGED <<now, tenants, transitions, audit, evidence, prepared, crashes, req>>
    BY DEF RenderIsolation, Goto
  <1>7. pc' \in StepNames
    BY <1>2 DEF RenderIsolation, Goto, StepNames
  <1> QED BY <1>1, <1>5, <1>6, <1>7 DEF TypeOK

\* An update of the document or of the hold moves no tenant's state.
LEMMA StatesKept ==
  ASSUME TypeOK, NEW t \in Tenants, tenants[t] # None,
         NEW x \in TenantRecord, x.state = tenants[t].state,
         tenants' = [tenants EXCEPT ![t] = x], NEW u \in Tenants
  PROVE  StateOf(u)' = StateOf(u)
  <1>1. tenants'[u] = IF u = t THEN x ELSE tenants[u]
    BY DEF TypeOK
  <1>2. x # None
    BY RecordIsNotNone
  <1> QED BY <1>1, <1>2 DEF StateOf, Registered

LEMMA UpdateKeepsStates ==
  ASSUME TypeOK, NEW t \in Tenants, NEW doc \in Docs, UpdateTenant(t, doc)
  PROVE  /\ \A u \in Tenants : StateOf(u)' = StateOf(u)
         /\ UNCHANGED <<transitions, evidence, prepared, tree>>
  <1>1. /\ tenants[t] # None /\ tenants' = [tenants EXCEPT ![t].doc = doc]
        /\ UNCHANGED <<transitions, evidence, prepared, tree>>
    BY DEF UpdateTenant
  <1>2. tenants[t] \in TenantRecord
    BY <1>1 DEF TypeOK
  <1> DEFINE x == [tenants[t] EXCEPT !.doc = doc]
  <1>3. x \in TenantRecord /\ x.state = tenants[t].state
    BY <1>2, RecordUpdates, RecordFields
  <1>4. tenants' = [tenants EXCEPT ![t] = x]
    BY <1>1
  <1> HIDE DEF x
  <1> QED BY <1>1, <1>3, <1>4, StatesKept

LEMMA HoldKeepsStates ==
  ASSUME TypeOK, NEW t \in Tenants, NEW hold \in BOOLEAN, SetLegalHold(t, hold)
  PROVE  /\ \A u \in Tenants : StateOf(u)' = StateOf(u)
         /\ UNCHANGED <<transitions, evidence, prepared, tree>>
  <1>1. /\ tenants[t] # None /\ tenants' = [tenants EXCEPT ![t].hold = hold]
        /\ UNCHANGED <<transitions, evidence, prepared, tree>>
    BY DEF SetLegalHold
  <1>2. tenants[t] \in TenantRecord
    BY <1>1 DEF TypeOK
  <1> DEFINE x == [tenants[t] EXCEPT !.hold = hold]
  <1>3. x \in TenantRecord /\ x.state = tenants[t].state
    BY <1>2, RecordUpdates, RecordFields
  <1>4. tenants' = [tenants EXCEPT ![t] = x]
    BY <1>1
  <1> HIDE DEF x
  <1> QED BY <1>1, <1>3, <1>4, StatesKept

\* Every write, tick and crash leaves well-formed files and locals.
LEMMA TypeStep == IndInv /\ [Next]_vars => TypeOK'
  <1> SUFFICES ASSUME IndInv, [Next]_vars PROVE TypeOK'
    OBVIOUS
  <1> USE NoneAssumption, BoundsAssumption DEF IndInv, TypeOK
  <1>1. CASE UNCHANGED vars
    BY <1>1 DEF vars
  <1>2. CASE ClearRecord
    BY <1>2 DEF ClearRecord, Anchor, Completed, StepNames, Requests, HandlerInv
  <1>3. CASE Register
    BY <1>3 DEF Register, StepNames, Requests, HandlerInv
  <1>4. CASE RenderIsolation
    BY <1>4, TypeIsolation
  <1>5. CASE RenderOverlay
    <2>1. req.tenant \in Tenants /\ req.record.doc \in Docs
      BY <1>5, RequestType DEF RenderOverlay, StepNames
    <2>2. tree' \in [Tenants -> Tree]
      BY <1>5, <2>1, OverlayWrite DEF RenderOverlay
    <2> QED BY <1>5, <2>2 DEF RenderOverlay, Goto, StepNames
  <1>6. CASE RemoveOverlay
    <2>1. req.tenant \in Tenants
      BY <1>6, RequestType DEF RemoveOverlay, StepNames
    <2>2. tree' \in [Tenants -> Tree]
      BY <1>6, <2>1, DirectoryWrite DEF RemoveOverlay
    <2> QED BY <1>6, <2>2 DEF RemoveOverlay, Goto, StepNames
  <1>7. CASE PrepareCommit
    BY <1>7 DEF PrepareCommit, Goto, StepNames, Requests, HandlerInv
  <1>8. CASE CaptureEvidence
    <2>1. /\ req \in Requests
          /\ req.tenant \in Tenants
          /\ req.at \in Nat
          /\ req.category \in 1 .. Len(EvidenceCategories)
      BY <1>8, RequestType DEF CaptureEvidence, StepNames
    <2>2. [status |-> EvidenceStatus(EvidenceCategories[req.category],
                                     req.record.doc),
           captured_at |-> req.at] \in EvidenceRecord
      BY <2>1 DEF EvidenceStatus, EvidenceRecord
    <2>3. evidence' \in [Tenants -> [1 .. Len(EvidenceCategories)
                                       -> EvidenceRecord \cup {None}]]
      BY <1>8, <2>1, <2>2 DEF CaptureEvidence
    <2>4. req' \in Requests
      <3>1. CASE req.category < Len(EvidenceCategories)
        <4>1. req.category + 1 \in 1 .. Len(EvidenceCategories)
          BY <2>1, <3>1, CategoryCount
        <4>2. req' = [req EXCEPT !.category = req.category + 1]
          BY <1>8, <3>1 DEF CaptureEvidence
        <4> QED BY <2>1, <4>1, <4>2 DEF Requests
      <3>2. CASE ~(req.category < Len(EvidenceCategories))
        BY <1>8, <2>1, <3>2 DEF CaptureEvidence
      <3> QED BY <3>1, <3>2
    <2> QED BY <1>8, <2>3, <2>4 DEF CaptureEvidence, StepNames
  <1>9. CASE SaveTenant
    <2>1. /\ req.tenant \in Tenants
          /\ req.record \in TenantRecord
          /\ req.transition \in Transitions
      BY <1>9, RequestType DEF SaveTenant, StepNames, HandlerInv, BeforeSave
    <2>2. [req.record EXCEPT !.state = ToState(req.transition)] \in TenantRecord
      <3>1. ToState(req.transition) \in States
        BY <2>1 DEF Transitions, ToState, States
      <3> QED BY <2>1, <3>1, RecordUpdates
    <2>3. tenants' \in [Tenants -> TenantRecord \cup {None}]
      BY <1>9, <2>1, <2>2 DEF SaveTenant
    <2> QED BY <1>9, <2>3 DEF SaveTenant, Goto, StepNames
  <1>10. CASE SaveTransition
    BY <1>10 DEF SaveTransition, Goto, StepNames, Requests, HandlerInv, Anchor
  <1>11. CASE EmitAudit
    BY <1>11 DEF EmitAudit, StepNames, Requests, HandlerInv, Anchor
  <1>12. CASE EmitDenial
    BY <1>12 DEF EmitDenial, files, StepNames
  <1>13. CASE Tick
    BY <1>13 DEF Tick, files, Time
  <1>14. CASE Crash
    <2>1. tree' \in [Tenants -> Tree]
      <3>1. CASE UNCHANGED tree
        BY <3>1
      <3>2. CASE pc = "isolation" /\ tree' # tree
        <4>1. req.tenant \in Tenants
          BY <3>2, RequestType DEF StepNames
        <4>2. \/ tree' = [tree EXCEPT ![req.tenant].inner = Partial]
              \/ tree' = [tree EXCEPT ![req.tenant].shared = Partial]
          BY <1>14, <3>2 DEF Crash, InterruptedWrite
        <4>3. /\ [tree EXCEPT ![req.tenant].inner = Partial] \in [Tenants -> Tree]
              /\ [tree EXCEPT ![req.tenant].shared = Partial] \in [Tenants -> Tree]
          <5>1. tree \in [Tenants -> Tree]
            OBVIOUS
          <5>2. Partial \in IsolationClasses \cup {None, Partial}
            OBVIOUS
          <5> QED BY <4>1, <5>1, <5>2, IsolationWrites, Zenon
        <4>4. CASE tree' = [tree EXCEPT ![req.tenant].inner = Partial]
          BY <4>3, <4>4, Zenon
        <4>5. CASE tree' = [tree EXCEPT ![req.tenant].shared = Partial]
          BY <4>3, <4>5, Zenon
        <4> QED BY <4>2, <4>4, <4>5, Zenon
      <3>3. CASE pc = "overlay" /\ tree' # tree
        <4>1. req.tenant \in Tenants
          BY <3>3, RequestType DEF StepNames
        <4>2. tree' = [tree EXCEPT ![req.tenant].overlay = Partial]
          BY <1>14, <3>3 DEF Crash, InterruptedWrite
        <4> QED BY <4>1, <4>2, OverlayWrite
      <3>4. CASE pc = "remove" /\ tree' # tree
        <4>1. req.tenant \in Tenants /\ tree[req.tenant] \in Tree
          BY <3>4, RequestType DEF StepNames
        <4>2. PICK o \in Remains(tree[req.tenant].overlay),
                   i \in Remains(tree[req.tenant].inner) :
                 tree' = [tree EXCEPT ![req.tenant].overlay = o,
                                      ![req.tenant].inner = i]
          BY <1>14, <3>4 DEF Crash, InterruptedWrite
        <4>3. /\ o \in Docs \cup {None, Partial}
              /\ i \in IsolationClasses \cup {None, Partial}
          BY <4>1 DEF Remains, Tree
        <4> QED BY <4>1, <4>2, <4>3, DirectoryWrite
      <3> QED BY <1>14, <3>1, <3>2, <3>3, <3>4 DEF Crash, InterruptedWrite
    <2> QED BY <1>14, <2>1 DEF Crash
  <1>15. ASSUME NEW t \in Tenants, NEW doc \in Docs, CreateTenant(t, doc)
         PROVE  TypeOK'
    <2>1. req' \in Requests
      BY <1>15, CategoryCount
      DEF CreateTenant, Begin, Requests, TenantRecord, States, Time
    <2> QED BY <1>15, <2>1 DEF CreateTenant, Begin, files, StepNames
  <1>16. ASSUME NEW t \in Tenants, NEW doc \in Docs, UpdateTenant(t, doc)
         PROVE  TypeOK'
    <2>1. tenants[t] \in TenantRecord
      BY <1>16 DEF UpdateTenant
    <2>2. [tenants[t] EXCEPT !.doc = doc] \in TenantRecord
      BY <2>1, RecordUpdates
    <2> QED BY <1>16, <2>2 DEF UpdateTenant
  <1>17. ASSUME NEW t \in Tenants, NEW hold \in BOOLEAN, SetLegalHold(t, hold)
         PROVE  TypeOK'
    <2>1. tenants[t] \in TenantRecord
      BY <1>17 DEF SetLegalHold
    <2>2. [tenants[t] EXCEPT !.hold = hold] \in TenantRecord
      BY <2>1, RecordUpdates
    <2> QED BY <1>17, <2>2 DEF SetLegalHold
  <1>18. ASSUME NEW t \in Tenants, NEW tr \in Transitions, Deny(t, tr)
         PROVE  TypeOK'
    BY <1>18 DEF Deny, Begin, files
  <1>19. ASSUME NEW t \in Tenants, NEW tr \in Transitions, Replay(t, tr)
         PROVE  TypeOK'
    <2>1. /\ tenants[t] \in TenantRecord
          /\ transitions[t][tr] \in Nat
      BY <1>19, VerdictFacts DEF Replay, Replayable, Anchor
    <2>2. req' \in Requests
      BY <1>19, <2>1, CategoryCount DEF Replay, Begin, Requests, Time
    <2>3. pc' \in StepNames
      BY <1>19 DEF Replay, Begin, ReplayStart, StepNames
    <2> QED BY <1>19, <2>2, <2>3 DEF Replay, Begin, files
  <1>20. ASSUME NEW t \in Tenants, NEW tr \in Transitions, Apply(t, tr)
         PROVE  TypeOK'
    <2>1. tenants[t] \in TenantRecord
      BY <1>20, VerdictFacts DEF Apply
    <2>2. AnchorOf(tr, tenants[t].doc) \in Nat
      BY <2>1, DocsAssumption DEF AnchorOf, TenantRecord, Document, Time
    <2>3. req' \in Requests
      BY <1>20, <2>1, <2>2, CategoryCount DEF Apply, Begin, Requests, Time
    <2>4. pc' \in StepNames
      BY <1>20 DEF Apply, Begin, ApplyStart, StepNames
    <2> QED BY <1>20, <2>3, <2>4 DEF Apply, Begin, files
  <1> QED
    BY <1>1, <1>2, <1>3, <1>4, <1>5, <1>6, <1>7, <1>8, <1>9, <1>10, <1>11,
       <1>12, <1>13, <1>14, <1>15, <1>16, <1>17, <1>18, <1>19, <1>20
    DEF Next, Write

\* What a running handler's locals say of the store stays true: its record is
\* the stored one until SaveTenant, and its transition fits the record.
LEMMA HandlerStep == IndInv /\ [Next]_vars => HandlerInv'
  <1> SUFFICES ASSUME IndInv, [Next]_vars PROVE HandlerInv'
    OBVIOUS
  <1> USE DEF IndInv, HandlerInv, BeforeSave
  <1>1. CASE UNCHANGED vars
    BY <1>1 DEF vars, StateOf, Registered, Completed
  <1>2. CASE ClearRecord
    <2>1. req.tenant \in Tenants /\ transitions \in [Tenants -> [Transitions -> Anchor]]
      BY <1>2, RequestType DEF ClearRecord, StepNames, TypeOK
    <2>2. PICK tr \in Completed(req.tenant) :
             /\ transitions' = [transitions EXCEPT ![req.tenant][tr] = None]
             /\ pc' = IF Completed(req.tenant) = {tr} THEN "register"
                      ELSE "clear"
      BY <1>2 DEF ClearRecord
    <2>3. Completed(req.tenant)' = Completed(req.tenant) \ {tr}
      BY <1>2, <2>1, <2>2 DEF ClearRecord, Completed
    <2>4. StateOf(req.tenant)' = StateOf(req.tenant)
      BY <1>2 DEF ClearRecord, StateOf, Registered
    <2> QED BY <1>2, <2>2, <2>3, <2>4 DEF ClearRecord
  <1>3. CASE Register
    BY <1>3 DEF Register
  <1>4. CASE RenderIsolation
    BY <1>4, RequestType DEF RenderIsolation, Goto, StepNames, Transitions
  <1>5. CASE RenderOverlay
    BY <1>5 DEF RenderOverlay, Goto
  <1>6. CASE RemoveOverlay
    BY <1>6, RequestType DEF RemoveOverlay, Goto, StepNames
  <1>7. CASE PrepareCommit
    BY <1>7, RequestType DEF PrepareCommit, Goto, StepNames
  <1>8. CASE CaptureEvidence
    <2>1. /\ req'.tenant = req.tenant
          /\ req'.transition = req.transition
          /\ req'.outcome = req.outcome
          /\ req'.record = req.record
      BY <1>8, RequestType DEF CaptureEvidence, StepNames, Requests
    <2> QED BY <1>8, <2>1 DEF CaptureEvidence, Transitions
  <1>9. CASE SaveTenant
    <2>1. /\ req.tenant \in Tenants
          /\ req.record \in TenantRecord
          /\ req.transition \in Transitions
          /\ tenants \in [Tenants -> TenantRecord \cup {None}]
      BY <1>9, RequestType DEF SaveTenant, StepNames, TypeOK
    <2>2. tenants'[req.tenant] =
             [req.record EXCEPT !.state = ToState(req.transition)]
      BY <1>9, <2>1 DEF SaveTenant
    <2>3. [req.record EXCEPT !.state = ToState(req.transition)] \in TenantRecord
      BY <2>1 DEF TenantRecord, Transitions, ToState, States
    <2>4. None \notin TenantRecord
      BY RecordIsNotNone
    <2>5. StateOf(req.tenant)' = ToState(req.transition)
      BY <1>9, <2>1, <2>2, <2>3, <2>4
      DEF SaveTenant, Goto, StateOf, Registered, TenantRecord
    <2> QED BY <1>9, <2>1, <2>5 DEF SaveTenant, Goto
  <1>10. CASE SaveTransition
    BY <1>10 DEF SaveTransition, Goto
  <1>11. CASE EmitAudit
    BY <1>11 DEF EmitAudit
  <1>12. CASE EmitDenial
    BY <1>12 DEF EmitDenial
  <1>13. CASE Tick
    BY <1>13 DEF Tick
  <1>14. CASE Crash
    BY <1>14 DEF Crash
  <1>15. ASSUME NEW t \in Tenants, NEW doc \in Docs, CreateTenant(t, doc)
         PROVE  HandlerInv'
    BY <1>15 DEF CreateTenant, Begin, files, NoRecordLeak, StateOf, Registered,
                 Completed
  <1>16. ASSUME NEW t \in Tenants, NEW doc \in Docs, UpdateTenant(t, doc)
         PROVE  HandlerInv'
    BY <1>16 DEF UpdateTenant
  <1>17. ASSUME NEW t \in Tenants, NEW hold \in BOOLEAN, SetLegalHold(t, hold)
         PROVE  HandlerInv'
    BY <1>17 DEF SetLegalHold
  <1>18. ASSUME NEW t \in Tenants, NEW tr \in Transitions, Deny(t, tr)
         PROVE  HandlerInv'
    BY <1>18 DEF Deny, Begin
  <1>19. ASSUME NEW t \in Tenants, NEW tr \in Transitions, Replay(t, tr)
         PROVE  HandlerInv'
    BY <1>19 DEF Replay, Begin, ReplayStart, files
  <1>20. ASSUME NEW t \in Tenants, NEW tr \in Transitions, Apply(t, tr)
         PROVE  HandlerInv'
    BY <1>20, VerdictFacts DEF Apply, Begin, ApplyStart, files, Applicable
  <1> QED
    BY <1>1, <1>2, <1>3, <1>4, <1>5, <1>6, <1>7, <1>8, <1>9, <1>10, <1>11,
       <1>12, <1>13, <1>14, <1>15, <1>16, <1>17, <1>18, <1>19, <1>20
    DEF Next, Write

\* No step leaves a completed-transition record that the state contradicts.
LEMMA LeakStep == IndInv /\ [Next]_vars => NoRecordLeak'
  <1> SUFFICES ASSUME IndInv, [Next]_vars PROVE NoRecordLeak'
    OBVIOUS
  <1> USE DEF IndInv, NoRecordLeak
  <1>1. CASE UNCHANGED <<tenants, transitions>>
    BY <1>1 DEF StateOf, Registered, Completed
  <1>2. CASE ClearRecord
    <2>1. req.tenant \in Tenants
      BY <1>2, RequestType DEF ClearRecord, StepNames
    <2>2. \A t \in Tenants : /\ StateOf(t)' = StateOf(t)
                             /\ Completed(t)' \subseteq Completed(t)
      BY <1>2, <2>1 DEF ClearRecord, StateOf, Registered, Completed, TypeOK
    <2> QED BY <2>2
  <1>3. CASE Register
    <2>1. req.tenant \in Tenants /\ req.record \in TenantRecord
      BY <1>3, RequestType DEF Register, StepNames
    <2>2. \A t \in Tenants : t = req.tenant => Completed(t)' = {}
      BY <1>3 DEF Register, HandlerInv, Completed
    <2>3. \A t \in Tenants \ {req.tenant} :
             StateOf(t)' = StateOf(t) /\ Completed(t)' = Completed(t)
      BY <1>3 DEF Register, StateOf, Registered, Completed, TypeOK
    <2> QED BY <2>2, <2>3
  <1>4. CASE SaveTenant
    <2>1. /\ req.tenant \in Tenants
          /\ req.transition \in Transitions
          /\ req.record.state \in FromStates(req.transition)
          /\ StateOf(req.tenant) = req.record.state
      BY <1>4, RequestType, RecordIsNotNone
      DEF SaveTenant, StepNames, HandlerInv, BeforeSave, StateOf, Registered
    <2>2. \A t \in Tenants : Completed(t)' = Completed(t)
      BY <1>4 DEF SaveTenant, Completed
    <2>3. \A t \in Tenants : t = req.tenant =>
             StateOf(t)' = ToState(req.transition)
      BY <1>4, HandlerStep DEF SaveTenant, Goto, HandlerInv
    <2>4. \A t \in Tenants \ {req.tenant} : StateOf(t)' = StateOf(t)
      BY <1>4 DEF SaveTenant, StateOf, Registered, TypeOK
    <2>5. /\ ToState(req.transition) \notin {"none", "provisioning"}
          /\ ToState(req.transition) \in {"active", "suspended"} =>
                Completed(req.tenant) \cap {"offboard", "purge"} = {}
          /\ ToState(req.transition) = "offboarding" =>
                "purge" \notin Completed(req.tenant)
      BY <2>1 DEF Transitions, FromStates, ToState
    <2> QED BY <2>1, <2>2, <2>3, <2>4, <2>5
  <1>5. CASE SaveTransition
    <2>1. /\ req.tenant \in Tenants
          /\ req.transition \in Transitions
          /\ StateOf(req.tenant) = ToState(req.transition)
      BY <1>5, RequestType DEF SaveTransition, StepNames, HandlerInv
    <2>2. \A t \in Tenants : StateOf(t)' = StateOf(t)
      BY <1>5 DEF SaveTransition, StateOf, Registered
    <2>3. \A t \in Tenants : t = req.tenant =>
             Completed(t)' \subseteq Completed(t) \cup {req.transition}
      BY <1>5, <2>1 DEF SaveTransition, Completed, TypeOK
    <2>4. \A t \in Tenants \ {req.tenant} : Completed(t)' = Completed(t)
      BY <1>5, <2>1 DEF SaveTransition, Completed, TypeOK
    <2>5. /\ StateOf(req.tenant) \notin {"none", "provisioning"}
          /\ StateOf(req.tenant) \in {"active", "suspended"} =>
                req.transition \notin {"offboard", "purge"}
          /\ StateOf(req.tenant) = "offboarding" => req.transition # "purge"
      BY <2>1 DEF Transitions, ToState
    <2> QED BY <2>1, <2>2, <2>3, <2>4, <2>5
  <1>6. ASSUME NEW t \in Tenants, NEW doc \in Docs, UpdateTenant(t, doc)
        PROVE  NoRecordLeak'
    <2>1. \A u \in Tenants :
             StateOf(u)' = StateOf(u) /\ Completed(u)' = Completed(u)
      BY <1>6, UpdateKeepsStates DEF Completed
    <2> QED BY <2>1
  <1>7. ASSUME NEW t \in Tenants, NEW hold \in BOOLEAN, SetLegalHold(t, hold)
        PROVE  NoRecordLeak'
    <2>1. \A u \in Tenants :
             StateOf(u)' = StateOf(u) /\ Completed(u)' = Completed(u)
      BY <1>7, HoldKeepsStates DEF Completed
    <2> QED BY <2>1
  <1>8. \/ UNCHANGED <<tenants, transitions>>
        \/ ClearRecord \/ Register \/ SaveTenant \/ SaveTransition
        \/ \E t \in Tenants : \E doc \in Docs : UpdateTenant(t, doc)
        \/ \E t \in Tenants : \E hold \in BOOLEAN : SetLegalHold(t, hold)
    BY DEF Next, Write, vars, files, Goto, Begin, RenderIsolation,
           RenderOverlay, RemoveOverlay, PrepareCommit, CaptureEvidence,
           EmitAudit, EmitDenial, Tick, Crash, CreateTenant, Deny, Replay,
           Apply
  <1> QED BY <1>1, <1>2, <1>3, <1>4, <1>5, <1>6, <1>7, <1>8

(***************************************************************************)
(* Every reachable state is well typed: handlers only ever write what the  *)
(* store's readers expect.                                                 *)
(***************************************************************************)
THEOREM TypeCorrect == Spec => []TypeOK
  <1>1. IndInv /\ [Next]_vars => IndInv'
    BY TypeStep, HandlerStep, LeakStep DEF IndInv
  <1> QED BY <1>1, InitIndInv, PTL DEF Spec, IndInv

(***************************************************************************)
(* No completed-transition record outlives the life it belongs to, and     *)
(* none runs ahead of the tenant's state, whatever the handlers and the    *)
(* crashes: replay detection in _transition_inner never misfires.          *)
(***************************************************************************)
THEOREM RecordsNeverLeak == Spec => []NoRecordLeak
  <1>1. IndInv /\ [Next]_vars => IndInv'
    BY TypeStep, HandlerStep, LeakStep DEF IndInv
  <1> QED BY <1>1, InitIndInv, PTL DEF Spec, IndInv

-----------------------------------------------------------------------------
(* Deletion evidence. *)

Captured(t, c, at) ==
    evidence[t][c] # None /\ evidence[t][c].captured_at = at

(***************************************************************************)
(* A purge that is being applied has captured every category before the    *)
(* one it is at, all of it stamped with the time the handler read first,   *)
(* which is also the purged_at it is going to record.                      *)
(***************************************************************************)
PurgeInv ==
    /\ pc \in StepNames => req.at <= now
    /\ pc \in StepNames /\ req.transition = "purge" /\ req.outcome = "applied" =>
          /\ req.anchor = req.at
          /\ pc \in {"remove", "commit"} => req.category = 1
          /\ pc = "evidence" =>
                \A c \in 1 .. Len(EvidenceCategories) :
                    c < req.category => Captured(req.tenant, c, req.at)
          /\ pc \in {"saveTenant", "saveTransition"} =>
                \A c \in 1 .. Len(EvidenceCategories) :
                    Captured(req.tenant, c, req.at)

EvidenceInv == IndInv /\ PurgeInv /\ EvidenceCoversPurge

\* The categories are numbered 1 to 6.
LEMMA CategoryDomain ==
    DOMAIN EvidenceCategories = 1 .. Len(EvidenceCategories)
  BY DEF EvidenceCategories

\* An empty store has no purged tenant, so no evidence is missing.
LEMMA InitEvidenceInv == Init => EvidenceInv
  <1> SUFFICES ASSUME Init PROVE EvidenceInv
    OBVIOUS
  <1>1. PurgeInv
    BY DEF Init, PurgeInv, StepNames
  <1>2. EvidenceCoversPurge
    BY DEF Init, EvidenceCoversPurge, StateOf, Registered
  <1> QED BY <1>1, <1>2, InitIndInv DEF EvidenceInv

\* A running purge has captured every category before its current one, all
\* at the time it started.
LEMMA PurgeStep == EvidenceInv /\ [Next]_vars => PurgeInv'
  <1> SUFFICES ASSUME EvidenceInv, [Next]_vars PROVE PurgeInv'
    OBVIOUS
  <1> USE DEF EvidenceInv, PurgeInv, Captured
  <1>0. TypeOK /\ HandlerInv
    BY DEF IndInv
  <1>1. CASE UNCHANGED vars
    BY <1>1 DEF vars
  <1>2. CASE ClearRecord
    BY <1>0, <1>2 DEF ClearRecord, HandlerInv, StepNames
  <1>3. CASE Register \/ EmitAudit \/ EmitDenial \/ Tick \/ Crash
    BY <1>3 DEF Register, EmitAudit, EmitDenial, Tick, Crash, StepNames
  <1>4. CASE RenderIsolation \/ RenderOverlay
    BY <1>0, <1>4
    DEF RenderIsolation, RenderOverlay, Goto, HandlerInv, StepNames
  <1>5. CASE RemoveOverlay
    BY <1>0, <1>5, RequestType DEF RemoveOverlay, Goto, HandlerInv, StepNames
  <1>6. CASE PrepareCommit
    BY <1>0, <1>6, RequestType DEF PrepareCommit, Goto, HandlerInv, StepNames
  <1>7. CASE CaptureEvidence
    <2>1. /\ req.tenant \in Tenants
          /\ req.category \in 1 .. Len(EvidenceCategories)
          /\ req.transition = "purge" /\ req.outcome = "applied"
          /\ pc \in StepNames
      BY <1>0, <1>7, RequestType DEF CaptureEvidence, StepNames, HandlerInv
    <2>2. /\ req'.tenant = req.tenant /\ req'.at = req.at
          /\ req'.anchor = req.anchor /\ now' = now
          /\ pc' \in {"evidence", "saveTenant"}
      BY <1>0, <1>7, <2>1, RequestType DEF CaptureEvidence, Requests
    <2>3. \A c \in 1 .. Len(EvidenceCategories) :
             c < req.category + 1 => Captured(req.tenant, c, req.at)'
      <3>1. evidence' = [evidence EXCEPT ![req.tenant][req.category] =
              [status |-> EvidenceStatus(EvidenceCategories[req.category],
                                         req.record.doc),
               captured_at |-> req.at]]
        BY <1>7 DEF CaptureEvidence
      <3>2. evidence' \in [Tenants -> [1 .. Len(EvidenceCategories)
                                         -> EvidenceRecord \cup {None}]]
        BY <1>0, TypeStep DEF TypeOK
      <3>3. /\ evidence'[req.tenant][req.category] # None
            /\ evidence'[req.tenant][req.category].captured_at = req.at
        <4>1. evidence'[req.tenant][req.category] =
                [status |-> EvidenceStatus(EvidenceCategories[req.category],
                                           req.record.doc),
                 captured_at |-> req.at]
          BY <1>0, <2>1, <3>1 DEF TypeOK
        <4>2. evidence'[req.tenant][req.category] \in EvidenceRecord
          BY <1>0, <2>1, <4>1, RequestType
          DEF EvidenceRecord, EvidenceStatus
        <4> QED BY <4>1, <4>2, NoneAssumption
      <3>4. \A c \in 1 .. Len(EvidenceCategories) : c < req.category =>
               Captured(req.tenant, c, req.at)'
        BY <1>0, <1>7, <2>1, <2>2, <3>1 DEF CaptureEvidence, TypeOK
      <3> QED BY <2>1, <2>2, <3>3, <3>4, CategoryCount
    <2>4. pc' = "evidence" => req'.category = req.category + 1
      BY <1>0, <1>7, RequestType DEF CaptureEvidence, Requests, StepNames
    <2>5. pc' = "saveTenant" => req.category = Len(EvidenceCategories)
      BY <1>7, <2>1, CategoryCount DEF CaptureEvidence
    <2> QED BY <2>1, <2>2, <2>3, <2>4, <2>5, CategoryCount
  <1>8. CASE SaveTenant \/ SaveTransition
    BY <1>0, <1>8 DEF SaveTenant, SaveTransition, Goto, StepNames
  <1>9. ASSUME NEW t \in Tenants, NEW doc \in Docs, CreateTenant(t, doc)
        PROVE  PurgeInv'
    BY <1>0, <1>9 DEF CreateTenant, Begin, TypeOK, Time, files
  <1>10. ASSUME NEW t \in Tenants, NEW doc \in Docs, UpdateTenant(t, doc)
         PROVE  PurgeInv'
    BY <1>10 DEF UpdateTenant, StepNames
  <1>11. ASSUME NEW t \in Tenants, NEW hold \in BOOLEAN, SetLegalHold(t, hold)
         PROVE  PurgeInv'
    BY <1>11 DEF SetLegalHold, StepNames
  <1>12. ASSUME NEW t \in Tenants, NEW tr \in Transitions, Deny(t, tr)
         PROVE  PurgeInv'
    BY <1>12 DEF Deny, Begin, StepNames
  <1>13. ASSUME NEW t \in Tenants, NEW tr \in Transitions, Replay(t, tr)
         PROVE  PurgeInv'
    BY <1>0, <1>13 DEF Replay, Begin, TypeOK, Time, files
  <1>14. ASSUME NEW t \in Tenants, NEW tr \in Transitions, Apply(t, tr)
         PROVE  PurgeInv'
    BY <1>0, <1>14, CategoryCount
    DEF Apply, Begin, AnchorOf, ApplyStart, TypeOK, Time, files
  <1> QED
    BY <1>1, <1>2, <1>3, <1>4, <1>5, <1>6, <1>7, <1>8, <1>9, <1>10, <1>11,
       <1>12, <1>13, <1>14
    DEF Next, Write

\* No step spoils the evidence of a purged tenant.
LEMMA CoverStep == EvidenceInv /\ [Next]_vars => EvidenceCoversPurge'
  <1> SUFFICES ASSUME EvidenceInv, [Next]_vars,
                      NEW t \in Tenants, StateOf(t)' = "purged"
               PROVE  \E at \in 0 .. now' :
                        /\ \A c \in DOMAIN EvidenceCategories :
                              Captured(t, c, at)'
                        /\ transitions'[t]["purge"] \in {None, at}
    BY DEF EvidenceCoversPurge, Captured
  <1> USE DEF EvidenceInv
  <1>0. /\ TypeOK /\ HandlerInv /\ NoRecordLeak
        /\ now \in Nat /\ now' \in Nat /\ now <= now'
    BY TypeStep DEF IndInv, TypeOK, Time, Next, Write, vars, Tick, ClearRecord,
       Register, RenderIsolation, RenderOverlay, RemoveOverlay, PrepareCommit,
       CaptureEvidence, SaveTenant, SaveTransition, EmitAudit, EmitDenial,
       Crash, CreateTenant, UpdateTenant, SetLegalHold, Deny, Replay, Apply,
       Begin, Goto
  <1> DEFINE Kept ==
        /\ StateOf(t) = "purged"
        /\ evidence'[t] = evidence[t]
        /\ transitions'[t]["purge"] \in {None, transitions[t]["purge"]}
  <1>1. CASE Kept
    <2>1. PICK at \in 0 .. now :
             /\ \A c \in DOMAIN EvidenceCategories : Captured(t, c, at)
             /\ transitions[t]["purge"] \in {None, at}
      BY <1>1 DEF EvidenceCoversPurge, Captured
    <2>2. at \in 0 .. now'
      BY <1>0
    <2> QED BY <1>1, <2>1, <2>2 DEF Captured
  <1>2. CASE SaveTenant /\ t = req.tenant
    <2>1. /\ req.transition \in Transitions
          /\ req.outcome = "applied" /\ pc \in StepNames
          /\ req.record.state \in FromStates(req.transition)
          /\ StateOf(t) = req.record.state
      BY <1>0, <1>2, RequestType, RecordIsNotNone
      DEF SaveTenant, StepNames, HandlerInv, BeforeSave, StateOf, Registered
    <2>2. ToState(req.transition) = "purged"
      BY <1>2, HandlerStep DEF SaveTenant, Goto, HandlerInv
    <2>3. req.transition = "purge"
      BY <2>1, <2>2 DEF Transitions, ToState
    <2>4. transitions'[t]["purge"] = None
      BY <1>0, <1>2, <2>1, <2>3
      DEF SaveTenant, NoRecordLeak, Completed, FromStates, Transitions
    <2>5. \A c \in DOMAIN EvidenceCategories : Captured(t, c, req.at)'
      BY <1>2, <2>1, <2>3, CategoryDomain DEF SaveTenant, Goto, PurgeInv, Captured
    <2>6. req.at \in 0 .. now'
      BY <1>0, <2>1, RequestType DEF PurgeInv
    <2> QED BY <1>2, <2>4, <2>5, <2>6 DEF Captured, SaveTenant, Goto
  <1>3. CASE SaveTransition /\ t = req.tenant
    <2>1. /\ req.transition \in Transitions /\ pc \in StepNames
          /\ req.outcome = "applied"
          /\ StateOf(t) = ToState(req.transition)
      BY <1>0, <1>3 DEF SaveTransition, HandlerInv, StepNames
    <2>2. StateOf(t)' = StateOf(t)
      BY <1>3 DEF SaveTransition, StateOf, Registered
    <2>3. req.transition = "purge"
      BY <2>1, <2>2 DEF Transitions, ToState
    <2>4. transitions'[t]["purge"] = req.at
      BY <1>0, <1>3, <2>1, <2>3 DEF SaveTransition, PurgeInv, TypeOK, Transitions
    <2>5. \A c \in DOMAIN EvidenceCategories : Captured(t, c, req.at)'
      BY <1>3, <2>1, <2>3, CategoryDomain
      DEF SaveTransition, Goto, PurgeInv, Captured
    <2>6. req.at \in 0 .. now'
      BY <1>0, <2>1, RequestType DEF PurgeInv
    <2> QED BY <1>3, <2>4, <2>5, <2>6 DEF Captured, SaveTransition, Goto
  <1>4. ASSUME ~(SaveTenant /\ t = req.tenant),
               ~(SaveTransition /\ t = req.tenant)
        PROVE  Kept
    <2>1. CASE UNCHANGED <<tenants, transitions, evidence>>
      BY <2>1 DEF StateOf, Registered
    <2>2. CASE ClearRecord
      BY <1>0, <2>2, RequestType
      DEF ClearRecord, StateOf, Registered, TypeOK, StepNames, Transitions,
          Completed
    <2>3. CASE Register
      BY <1>0, <2>3, RequestType, RecordIsNotNone
      DEF Register, HandlerInv, StateOf, Registered, TypeOK, StepNames
    <2>4. CASE CaptureEvidence
      <3>1. StateOf(t) = "purged" /\ UNCHANGED <<tenants, transitions>>
        BY <2>4 DEF CaptureEvidence, StateOf, Registered
      <3>2. StateOf(req.tenant) = "offboarding"
        BY <1>0, <2>4, RequestType, RecordIsNotNone
        DEF CaptureEvidence, HandlerInv, BeforeSave, StateOf, Registered,
            FromStates, StepNames
      <3> QED BY <1>0, <2>4, <3>1, <3>2 DEF CaptureEvidence, TypeOK
    <2>5. CASE SaveTenant
      BY <1>0, <1>4, <2>5 DEF SaveTenant, StateOf, Registered, TypeOK
    <2>6. CASE SaveTransition
      BY <1>0, <1>4, <2>6 DEF SaveTransition, StateOf, Registered, TypeOK
    <2>7. ASSUME NEW u \in Tenants, NEW doc \in Docs, UpdateTenant(u, doc)
          PROVE  Kept
      BY <1>0, <2>7 DEF UpdateTenant, StateOf, Registered, TypeOK, TenantRecord
    <2>8. ASSUME NEW u \in Tenants, NEW hold \in BOOLEAN, SetLegalHold(u, hold)
          PROVE  Kept
      BY <1>0, <2>8 DEF SetLegalHold, StateOf, Registered, TypeOK, TenantRecord
    <2> QED
      BY <2>1, <2>2, <2>3, <2>4, <2>5, <2>6, <2>7, <2>8
      DEF Next, Write, vars, files, Goto, Begin, RenderIsolation,
          RenderOverlay, RemoveOverlay, PrepareCommit, EmitAudit, EmitDenial,
          Tick, Crash, CreateTenant, Deny, Replay, Apply
  <1> QED BY <1>1, <1>2, <1>3, <1>4

(***************************************************************************)
(* Whatever crashed, was run again or reused the id, a tenant marked       *)
(* purged has one complete set of deletion evidence, from one run of       *)
(* _execute_purge, and its completed purge names the time of that run.     *)
(***************************************************************************)
THEOREM PurgeIsEvidenced == Spec => []EvidenceCoversPurge
  <1>1. EvidenceInv /\ [Next]_vars => EvidenceInv'
    BY TypeStep, HandlerStep, LeakStep, PurgeStep, CoverStep
    DEF EvidenceInv, IndInv
  <1> QED BY <1>1, InitEvidenceInv, PTL DEF Spec, EvidenceInv

-----------------------------------------------------------------------------
(* Audit, replay and the truth of the overlay evidence. *)

(***************************************************************************)
(* What else the locals of a handler say of the files.  A replay carries   *)
(* the anchor of the completed record it replays.  A purge that is being   *)
(* applied still meets its preconditions, and from its commit on a         *)
(* dedicated stack's overlay is gone.                                      *)
(***************************************************************************)
LocalsInv ==
    /\ pc \in {"clear", "register"} => req.record.hold = FALSE
    /\ pc \in BeforeSave /\ req.outcome = "replayed" =>
          /\ req.anchor = transitions[req.tenant][req.transition]
          /\ req.record.state = ToState(req.transition)
    /\ pc = "emitAudit" => req.anchor = transitions[req.tenant][req.transition]
    /\ pc \in {"saveTenant", "saveTransition"} /\ req.transition = "offboard" =>
          transitions[req.tenant]["offboard"] = None
    /\ pc \in BeforeSave /\ req.transition = "purge" /\ req.outcome = "applied" =>
          /\ transitions[req.tenant]["offboard"] # None
          /\ transitions[req.tenant]["offboard"] <= now
          /\ ~req.record.hold
    /\ pc \in {"remove", "commit"} /\ req.transition = "purge" =>
          Dedicated(req.record.doc)
    /\ pc \in {"commit", "evidence", "saveTenant"} /\ req.transition = "purge"
          /\ Dedicated(req.record.doc) =>
          tree[req.tenant].overlay = None /\ tree[req.tenant].inner = None
    /\ pc \in {"evidence", "saveTenant"} /\ req.transition = "purge"
          /\ Dedicated(req.record.doc) =>
          "purge" \in prepared[req.tenant]
    /\ pc = "saveTenant" /\ req.transition = "purge" =>
          evidence[req.tenant][6].status =
              EvidenceStatus("gitops_overlay", req.record.doc)

\* AuditMatchesRecord, also while a handler runs.
AuditInv ==
    crashes = 0 =>
        \A t \in Tenants : \A tr \in Completed(t) :
            \/ audit[t][tr] = transitions[t][tr]
            \/ pc = "emitAudit" /\ req.tenant = t /\ req.transition = tr

\* RerunIsReplay, also while a handler runs.
RerunInv ==
    crashes = 0 =>
        \A t \in Tenants :
            \/ StateOf(t) \in {"none", "provisioning"}
            \/ \E tr \in Completed(t) : ToState(tr) = StateOf(t)
            \/ pc \in {"clear", "register", "saveTransition"} /\ req.tenant = t

ControlInv == IndInv /\ LocalsInv /\ AuditInv /\ RerunInv /\ EvidenceTruthful

LEMMA InitControl == Init => ControlInv
  <1> SUFFICES ASSUME Init PROVE ControlInv
    OBVIOUS
  <1>1. LocalsInv
    BY DEF Init, LocalsInv, BeforeSave
  <1>2. AuditInv /\ RerunInv
    BY DEF Init, AuditInv, RerunInv, Completed, StateOf, Registered
  <1>3. EvidenceTruthful
    BY DEF Init, EvidenceTruthful, StateOf, Registered
  <1> QED BY <1>1, <1>2, <1>3, InitIndInv DEF ControlInv

\* The sixth category is the overlay.
LEMMA OverlayCategory ==
    Len(EvidenceCategories) = 6 /\ EvidenceCategories[6] = "gitops_overlay"
  BY DEF EvidenceCategories

LEMMA LocalsStep == ControlInv /\ [Next]_vars => LocalsInv'
  <1> SUFFICES ASSUME ControlInv, [Next]_vars PROVE LocalsInv'
    OBVIOUS
  <1>0. TypeOK /\ HandlerInv /\ LocalsInv /\ NoRecordLeak
    BY DEF ControlInv, IndInv
  <1> USE DEF BeforeSave
  <1>1. CASE UNCHANGED vars
    BY <1>0, <1>1 DEF vars, LocalsInv
  <1>2. CASE ClearRecord
    BY <1>0, <1>2 DEF ClearRecord, LocalsInv, HandlerInv
  <1>3. CASE Register \/ EmitAudit \/ EmitDenial \/ Tick \/ Crash
    BY <1>0, <1>3 DEF Register, EmitAudit, EmitDenial, Tick, Crash, LocalsInv, TypeOK
  <1>4. CASE RenderIsolation
    <2>1. /\ pc = "isolation" /\ req.transition = "provision" /\ req' = req
          /\ req.outcome \in {"applied", "replayed"}
          /\ UNCHANGED <<now, transitions>>
      BY <1>0, <1>4, RequestType DEF RenderIsolation, Goto, HandlerInv, StepNames
    <2>2. pc' = IF req.outcome = "replayed" THEN "emitAudit"
                ELSE IF Dedicated(req.record.doc) THEN "overlay" ELSE "saveTenant"
      BY <1>4, <2>1 DEF RenderIsolation, Goto
    <2> QED BY <1>0, <2>1, <2>2 DEF LocalsInv
  <1>5. CASE RenderOverlay
    BY <1>0, <1>5 DEF RenderOverlay, Goto, LocalsInv, HandlerInv
  <1>6. CASE RemoveOverlay
    <2>1. /\ pc = "remove" /\ req.transition = "purge" /\ req' = req
          /\ req.outcome \in {"applied", "replayed"}
          /\ req.tenant \in Tenants
          /\ UNCHANGED <<now, transitions, prepared, evidence>>
      BY <1>0, <1>6, RequestType DEF RemoveOverlay, Goto, HandlerInv, StepNames
    <2>2. pc' = IF req.outcome = "replayed" THEN "emitAudit" ELSE "commit"
      BY <1>6 DEF RemoveOverlay, Goto
    <2>3. tree'[req.tenant].overlay = None /\ tree'[req.tenant].inner = None
      BY <1>0, <1>6, <2>1 DEF RemoveOverlay, TypeOK, Tree
    <2> QED BY <1>0, <2>1, <2>2, <2>3 DEF LocalsInv
  <1>7. CASE PrepareCommit
    <2>1. /\ pc = "commit" /\ req.transition \in {"provision", "purge"} /\ req' = req
          /\ req.outcome \in {"applied", "replayed"}
          /\ req.tenant \in Tenants
          /\ UNCHANGED <<now, transitions, tree, evidence>>
      BY <1>0, <1>7, RequestType DEF PrepareCommit, Goto, HandlerInv, StepNames
    <2>2. pc' = IF req.transition = "purge" THEN "evidence"
                ELSE IF req.outcome = "replayed" THEN "isolation" ELSE "saveTenant"
      BY <1>7, <2>1 DEF PrepareCommit, Goto
    <2>3. req.transition \in prepared'[req.tenant]
      BY <1>0, <1>7, <2>1 DEF PrepareCommit, TypeOK
    <2> QED BY <1>0, <2>1, <2>2, <2>3 DEF LocalsInv
  <1>8. CASE CaptureEvidence
    <2>1. /\ pc = "evidence" /\ req.transition = "purge" /\ req.outcome = "applied"
          /\ req.tenant \in Tenants /\ req.category \in 1 .. 6
          /\ UNCHANGED <<now, transitions, tree, prepared>>
      BY <1>0, <1>8, RequestType, CategoryCount
      DEF CaptureEvidence, HandlerInv, StepNames
    <2>2. /\ req'.tenant = req.tenant /\ req'.transition = req.transition
          /\ req'.outcome = req.outcome /\ req'.record = req.record
          /\ req'.anchor = req.anchor
          /\ pc' \in {"evidence", "saveTenant"}
      BY <1>0, <1>8, <2>1, RequestType DEF CaptureEvidence, StepNames, Requests
    <2>3. ASSUME pc' = "saveTenant"
          PROVE  evidence'[req.tenant][6].status =
                     EvidenceStatus("gitops_overlay", req.record.doc)
      <3>1. req.category = 6
        BY <1>8, <2>1, <2>3, CategoryCount DEF CaptureEvidence
      <3>2. evidence'[req.tenant][6] =
              [status |-> EvidenceStatus(EvidenceCategories[6], req.record.doc),
               captured_at |-> req.at]
        BY <1>0, <1>8, <2>1, <3>1, CategoryCount DEF CaptureEvidence, TypeOK
      <3> QED BY <3>2, OverlayCategory
    <2> QED BY <1>0, <2>1, <2>2, <2>3 DEF LocalsInv
  <1>9. CASE SaveTenant
    BY <1>0, <1>9 DEF SaveTenant, Goto, LocalsInv, HandlerInv
  <1>10. CASE SaveTransition
    <2>1. transitions'[req.tenant][req.transition] = req.anchor
      BY <1>0, <1>10, RequestType DEF SaveTransition, TypeOK, HandlerInv, StepNames
    <2> QED BY <1>10, <2>1 DEF SaveTransition, Goto, LocalsInv
  <1>11. ASSUME NEW t \in Tenants, NEW doc \in Docs, CreateTenant(t, doc)
         PROVE  LocalsInv'
    BY <1>0, <1>11 DEF CreateTenant, Begin, LocalsInv
  <1>12. ASSUME NEW t \in Tenants, NEW doc \in Docs, UpdateTenant(t, doc)
         PROVE  LocalsInv'
    BY <1>12 DEF UpdateTenant, LocalsInv
  <1>13. ASSUME NEW t \in Tenants, NEW hold \in BOOLEAN, SetLegalHold(t, hold)
         PROVE  LocalsInv'
    BY <1>13 DEF SetLegalHold, LocalsInv
  <1>14. ASSUME NEW t \in Tenants, NEW tr \in Transitions, Deny(t, tr)
         PROVE  LocalsInv'
    BY <1>14 DEF Deny, Begin, LocalsInv
  <1>15. ASSUME NEW t \in Tenants, NEW tr \in Transitions, Replay(t, tr)
         PROVE  LocalsInv'
    <2>1. /\ req'.outcome = "replayed" /\ req'.tenant = t /\ req'.transition = tr
          /\ req'.record = tenants[t] /\ req'.anchor = transitions[t][tr]
          /\ UNCHANGED <<now, files>>
      BY <1>15 DEF Replay, Begin
    <2>2. tenants[t].state = ToState(tr)
      BY <1>15, VerdictFacts DEF Replay, Replayable
    <2>3. /\ pc' \in {"overlay", "isolation", "remove", "emitAudit"}
          /\ pc' = "remove" => Dedicated(tenants[t].doc)
      BY <1>15 DEF Replay, Begin, ReplayStart
    <2> QED BY <2>1, <2>2, <2>3 DEF LocalsInv, files
  <1>16. ASSUME NEW t \in Tenants, NEW tr \in Transitions, Apply(t, tr)
         PROVE  LocalsInv'
    <2>1. /\ req'.outcome = "applied" /\ req'.tenant = t /\ req'.transition = tr
          /\ req'.record = tenants[t]
          /\ UNCHANGED <<now, files>>
      BY <1>16 DEF Apply, Begin
    <2>2. tenants[t] # None /\ Applicable(t, tr)
      BY <1>16, VerdictFacts DEF Apply
    <2>3. /\ tr = "provision" => pc' = "isolation"
          /\ tr = "purge" =>
                pc' = IF Dedicated(tenants[t].doc) THEN "remove" ELSE "evidence"
          /\ tr \notin {"provision", "purge"} => pc' = "saveTenant"
      BY <1>16 DEF Apply, Begin, ApplyStart
    <2>4. tr = "offboard" => transitions[t]["offboard"] = None
      BY <1>0, <2>2 DEF Applicable, FromStates, NoRecordLeak, StateOf, Registered, Completed
    <2>5. tr = "purge" => /\ transitions[t]["offboard"] # None
                          /\ transitions[t]["offboard"] <= now
                          /\ ~tenants[t].hold
      BY <2>2 DEF Applicable, Preconditions
    <2> QED BY <2>1, <2>3, <2>4, <2>5 DEF LocalsInv, files
  <1> QED
    BY <1>1, <1>2, <1>3, <1>4, <1>5, <1>6, <1>7, <1>8, <1>9, <1>10, <1>11,
       <1>12, <1>13, <1>14, <1>15, <1>16
    DEF Next, Write

\* The steps that touch what AuditInv and RerunInv speak of.
LEMMA AuditStep == ControlInv /\ [Next]_vars => AuditInv'
  <1> SUFFICES ASSUME ControlInv, [Next]_vars, crashes' = 0,
                      NEW t \in Tenants, NEW tr \in Completed(t)'
               PROVE  \/ audit'[t][tr] = transitions'[t][tr]
                      \/ pc' = "emitAudit" /\ req'.tenant = t /\ req'.transition = tr
    BY DEF AuditInv
  <1>0. TypeOK /\ HandlerInv /\ LocalsInv /\ AuditInv /\ crashes \in Nat
    BY DEF ControlInv, IndInv, TypeOK
  <1>1. tr \in Transitions /\ transitions'[t][tr] # None
    BY DEF Completed
  <1> DEFINE Kept ==
        /\ crashes = 0 /\ transitions'[t][tr] = transitions[t][tr]
        /\ audit'[t][tr] = audit[t][tr]
        /\ ~(pc = "emitAudit" /\ req.tenant = t /\ req.transition = tr)
  <1>2. CASE Kept
    <2>1. tr \in Completed(t)
      BY <1>1, <1>2 DEF Completed
    <2> QED BY <1>0, <1>2, <2>1 DEF AuditInv
  <1>3. CASE EmitAudit
    <2>1. req.tenant \in Tenants /\ req.transition \in Transitions
      BY <1>0, <1>3, RequestType DEF EmitAudit, HandlerInv, StepNames
    <2>2. CASE req.tenant = t /\ req.transition = tr
      BY <1>0, <1>1, <1>3, <2>1, <2>2 DEF EmitAudit, LocalsInv, TypeOK
    <2>3. CASE ~(req.tenant = t /\ req.transition = tr)
      BY <1>0, <1>1, <1>2, <1>3, <2>1, <2>3 DEF EmitAudit, TypeOK
    <2> QED BY <2>2, <2>3
  <1>4. CASE SaveTransition
    <2>1. req.tenant \in Tenants /\ req.transition \in Transitions
      BY <1>0, <1>4, RequestType DEF SaveTransition, HandlerInv, StepNames
    <2>2. CASE req.tenant = t /\ req.transition = tr
      BY <1>4, <2>2 DEF SaveTransition, Goto
    <2>3. CASE ~(req.tenant = t /\ req.transition = tr)
      BY <1>0, <1>1, <1>2, <1>4, <2>1, <2>3 DEF SaveTransition, Goto, TypeOK
    <2> QED BY <2>2, <2>3
  <1>5. CASE ClearRecord
    <2>1. req.tenant \in Tenants
      BY <1>0, <1>5, RequestType DEF ClearRecord, StepNames
    <2>2. transitions'[t][tr] = transitions[t][tr]
      BY <1>0, <1>1, <1>5, <2>1 DEF ClearRecord, TypeOK, Completed
    <2> QED BY <1>2, <1>5, <2>2 DEF ClearRecord
  <1>6. CASE UNCHANGED vars
    BY <1>0, <1>1, <1>6 DEF vars, AuditInv, Completed
  <1>7. CASE Crash
    BY <1>0, <1>7 DEF Crash
  <1>8. \/ EmitAudit \/ SaveTransition \/ ClearRecord \/ UNCHANGED vars \/ Crash
        \/ UNCHANGED <<transitions, audit, crashes>> /\ pc # "emitAudit"
    BY DEF Next, Write, files, Goto, Begin, Register, RenderIsolation, RenderOverlay,
       RemoveOverlay, PrepareCommit, CaptureEvidence, SaveTenant, EmitDenial, Tick,
       CreateTenant, UpdateTenant, SetLegalHold, Deny, Replay, Apply
  <1> QED BY <1>2, <1>3, <1>4, <1>5, <1>6, <1>7, <1>8

LEMMA RerunStep == ControlInv /\ [Next]_vars => RerunInv'
  <1> SUFFICES ASSUME ControlInv, [Next]_vars, crashes' = 0, NEW t \in Tenants
               PROVE  \/ StateOf(t)' \in {"none", "provisioning"}
                      \/ \E tr \in Completed(t)' : ToState(tr) = StateOf(t)'
                      \/ pc' \in {"clear", "register", "saveTransition"} /\ req'.tenant = t
    BY DEF RerunInv
  <1>0. TypeOK /\ HandlerInv /\ RerunInv /\ crashes \in Nat
    BY DEF ControlInv, IndInv, TypeOK
  <1> DEFINE Kept ==
        /\ crashes = 0 /\ StateOf(t)' = StateOf(t) /\ Completed(t)' = Completed(t)
        /\ ~(pc \in {"clear", "register", "saveTransition"} /\ req.tenant = t)
  <1>1. CASE Kept
    BY <1>0, <1>1 DEF RerunInv
  <1>2. CASE ClearRecord
    <2>1. CASE req.tenant = t
      BY <1>2, <2>1 DEF ClearRecord
    <2>2. CASE req.tenant # t
      BY <1>0, <1>1, <1>2, <2>2, RequestType
      DEF ClearRecord, StateOf, Registered, Completed, TypeOK, StepNames
    <2> QED BY <2>1, <2>2
  <1>3. CASE Register
    <2>1. req.tenant \in Tenants /\ req.record \in TenantRecord
          /\ req.record.state = "provisioning"
      BY <1>0, <1>3, RequestType DEF Register, HandlerInv, StepNames
    <2>2. CASE req.tenant = t
      BY <1>0, <1>3, <2>1, <2>2, RecordIsNotNone
      DEF Register, StateOf, Registered, TypeOK
    <2>3. CASE req.tenant # t
      BY <1>0, <1>1, <1>3, <2>1, <2>3
      DEF Register, StateOf, Registered, Completed, TypeOK
    <2> QED BY <2>2, <2>3
  <1>4. CASE SaveTenant
    <2>1. CASE req.tenant = t
      BY <1>4, <2>1 DEF SaveTenant, Goto
    <2>2. CASE req.tenant # t
      BY <1>0, <1>1, <1>4, <2>2, RequestType
      DEF SaveTenant, Goto, StateOf, Registered, Completed, TypeOK, StepNames
    <2> QED BY <2>1, <2>2
  <1>5. CASE SaveTransition
    <2>1. /\ req.tenant \in Tenants /\ req.transition \in Transitions
          /\ StateOf(req.tenant) = ToState(req.transition)
          /\ req.anchor \in Nat
      BY <1>0, <1>5, RequestType DEF SaveTransition, HandlerInv, StepNames
    <2>2. StateOf(t)' = StateOf(t)
      BY <1>5 DEF SaveTransition, StateOf, Registered
    <2>3. CASE req.tenant = t
      <3>1. transitions'[t][req.transition] = req.anchor
        BY <1>0, <1>5, <2>1, <2>3 DEF SaveTransition, TypeOK
      <3>2. req.transition \in Completed(t)'
        BY <2>1, <3>1, NoneAssumption DEF Completed
      <3> QED BY <2>1, <2>2, <2>3, <3>2
    <2>4. CASE req.tenant # t
      BY <1>0, <1>1, <1>5, <2>1, <2>2, <2>4 DEF SaveTransition, Goto, Completed, TypeOK
    <2> QED BY <2>3, <2>4
  <1>6. CASE UNCHANGED vars
    BY <1>0, <1>6 DEF vars, RerunInv, StateOf, Registered, Completed
  <1>7. CASE Crash
    BY <1>0, <1>7 DEF Crash
  <1>8. ASSUME NEW u \in Tenants, NEW doc \in Docs, UpdateTenant(u, doc)
        PROVE  Kept
    BY <1>0, <1>8, RecordIsNotNone
    DEF UpdateTenant, StateOf, Registered, Completed, TypeOK, TenantRecord
  <1>9. ASSUME NEW u \in Tenants, NEW hold \in BOOLEAN, SetLegalHold(u, hold)
        PROVE  Kept
    BY <1>0, <1>9, RecordIsNotNone
    DEF SetLegalHold, StateOf, Registered, Completed, TypeOK, TenantRecord
  <1>10. CASE /\ UNCHANGED <<tenants, transitions, crashes>>
              /\ pc \notin {"clear", "register", "saveTransition"}
    BY <1>1, <1>10 DEF StateOf, Registered, Completed
  <1>11. \/ ClearRecord \/ Register \/ SaveTenant \/ SaveTransition \/ UNCHANGED vars
         \/ Crash
         \/ \E u \in Tenants : \E doc \in Docs : UpdateTenant(u, doc)
         \/ \E u \in Tenants : \E hold \in BOOLEAN : SetLegalHold(u, hold)
         \/ /\ UNCHANGED <<tenants, transitions, crashes>>
            /\ pc \notin {"clear", "register", "saveTransition"}
    BY DEF Next, Write, files, Goto, Begin, RenderIsolation, RenderOverlay,
       RemoveOverlay, PrepareCommit, CaptureEvidence, EmitAudit, EmitDenial, Tick,
       CreateTenant, Deny, Replay, Apply
  <1> QED BY <1>1, <1>2, <1>3, <1>4, <1>5, <1>6, <1>7, <1>8, <1>9, <1>10, <1>11

\* What EvidenceTruthful says of one tenant.
Truthful(t) ==
    LET artifact == evidence[t][6]
    IN  StateOf(t) = "purged" /\ artifact # None /\ artifact.status = "recorded" =>
          tree[t].overlay = None /\ tree[t].inner = None /\ "purge" \in prepared[t]

LEMMA TruthfulByTenant == EvidenceTruthful <=> \A t \in Tenants : Truthful(t)
  BY CategoryCount DEF EvidenceTruthful, Truthful

LEMMA TruthStep == ControlInv /\ [Next]_vars => EvidenceTruthful'
  <1> SUFFICES ASSUME ControlInv, [Next]_vars, NEW t \in Tenants
               PROVE  Truthful(t)'
    BY CategoryCount DEF EvidenceTruthful, Truthful
  <1>0. TypeOK /\ HandlerInv /\ LocalsInv /\ Truthful(t)
    BY TruthfulByTenant DEF ControlInv, IndInv
  <1> DEFINE Kept ==
        /\ StateOf(t)' = "purged" => StateOf(t) = "purged" /\ evidence'[t] = evidence[t]
        /\ prepared[t] \subseteq prepared'[t]
        /\ StateOf(t) = "purged" =>
              /\ tree[t].overlay = None => tree'[t].overlay = None
              /\ tree[t].inner = None => tree'[t].inner = None
  <1>1. CASE Kept
    BY <1>0, <1>1 DEF Truthful
  <1>2. CASE SaveTenant /\ req.tenant = t
    <2>1. /\ req.transition \in Transitions /\ req.tenant = t
          /\ StateOf(t)' = ToState(req.transition)
          /\ UNCHANGED <<evidence, tree, prepared>> /\ pc = "saveTenant"
      BY <1>0, <1>2, HandlerStep
      DEF ControlInv, SaveTenant, Goto, HandlerInv, BeforeSave
    <2>2. CASE req.transition = "purge"
      BY <1>0, <2>1, <2>2 DEF LocalsInv, Truthful, EvidenceStatus
    <2>3. CASE req.transition # "purge"
      BY <2>1, <2>3 DEF Truthful, Transitions, ToState
    <2> QED BY <2>2, <2>3
  <1>3. CASE pc \in BeforeSave /\ req.tenant = t /\ ~SaveTenant
             /\ UNCHANGED tenants /\ req.transition = "provision"
    <2>1. tenants[t] = req.record /\ req.record \in TenantRecord
          /\ req.outcome \in {"applied", "replayed"}
      BY <1>0, <1>3, RequestType DEF HandlerInv, BeforeSave, StepNames
    <2>2. req.record.state \in {"provisioning", "active"}
      BY <1>0, <1>3, <2>1 DEF HandlerInv, LocalsInv, FromStates, ToState
    <2>3. tenants'[t] = req.record /\ tenants'[t] # None
      BY <1>3, <2>1, RecordIsNotNone
    <2>4. StateOf(t)' = req.record.state
      BY <2>3 DEF StateOf, Registered
    <2>5. StateOf(t)' # "purged"
      BY <2>2, <2>4
    <2> QED BY <2>5 DEF Truthful
  <1>4. CASE pc \in BeforeSave /\ req.tenant # t
    <2>1. req.tenant \in Tenants
      BY <1>0, <1>4, RequestType DEF BeforeSave, StepNames
    <2>2. /\ tenants'[t] = tenants[t] /\ evidence'[t] = evidence[t]
          /\ prepared'[t] = prepared[t] /\ tree'[t] = tree[t]
      BY <1>0, <1>4, <2>1
      DEF BeforeSave, Next, Write, vars, files, Goto, Begin, TypeOK, ClearRecord,
          Register, RenderIsolation, RenderOverlay, RemoveOverlay, PrepareCommit,
          CaptureEvidence, SaveTenant, SaveTransition, EmitAudit, EmitDenial, Tick,
          Crash, InterruptedWrite, CreateTenant, UpdateTenant, SetLegalHold, Deny,
          Replay, Apply
    <2> QED BY <1>0, <2>2 DEF Truthful, StateOf, Registered
  <1>5. CASE (CaptureEvidence \/ PrepareCommit) /\ req.tenant = t
             /\ req.transition = "purge"
    <2>1. /\ tenants[t] = req.record /\ req.record \in TenantRecord
          /\ req.outcome = "applied" /\ UNCHANGED tenants
          /\ req.record.state \in FromStates("purge")
      BY <1>0, <1>5, RequestType
      DEF HandlerInv, BeforeSave, StepNames, CaptureEvidence, PrepareCommit
    <2>2. StateOf(t)' # "purged"
      BY <2>1, RecordIsNotNone DEF StateOf, Registered, FromStates
    <2> QED BY <2>2 DEF Truthful
  <1>6. CASE RemoveOverlay /\ req.tenant = t
    BY <1>0, <1>1, <1>6 DEF RemoveOverlay, StateOf, Registered, TypeOK, Tree
  <1>7. CASE Crash /\ pc = "remove" /\ req.tenant = t
    <2>1. CASE UNCHANGED tree
      BY <1>1, <1>7, <2>1 DEF Crash, StateOf, Registered
    <2>2. CASE tree' # tree
      <3>1. PICK o \in Remains(tree[t].overlay), i \in Remains(tree[t].inner) :
               tree' = [tree EXCEPT ![t].overlay = o, ![t].inner = i]
        BY <1>7, <2>2 DEF Crash, InterruptedWrite
      <3>2. /\ tree[t].overlay = None => tree'[t].overlay = None
            /\ tree[t].inner = None => tree'[t].inner = None
        BY <1>0, <3>1 DEF Remains, TypeOK, Tree
      <3> QED BY <1>1, <1>7, <3>2 DEF Crash, StateOf, Registered
    <2> QED BY <2>1, <2>2
  <1>8. ASSUME pc \in BeforeSave, req.tenant = t PROVE Truthful(t)'
    <2>1. CASE UNCHANGED vars
      BY <1>1, <2>1 DEF vars, StateOf, Registered
    <2>2. CASE Crash /\ pc \in {"commit", "evidence", "saveTenant"}
      BY <1>1, <2>2 DEF Crash, InterruptedWrite, StateOf, Registered
    <2>3. CASE Crash /\ pc \in {"isolation", "overlay"}
      BY <1>0, <1>3, <1>8, <2>3 DEF Crash, HandlerInv, SaveTenant
    <2>4. CASE RenderIsolation \/ RenderOverlay
      BY <1>0, <1>3, <1>8, <2>4 DEF RenderIsolation, RenderOverlay, HandlerInv, SaveTenant
    <2>5. CASE PrepareCommit /\ req.transition # "purge"
      BY <1>0, <1>3, <1>8, <2>5 DEF PrepareCommit, HandlerInv, SaveTenant
    <2>6. CASE CaptureEvidence
      BY <1>0, <1>5, <1>8, <2>6 DEF CaptureEvidence, HandlerInv
    <2> QED
      BY <1>2, <1>5, <1>6, <1>7, <1>8, <2>1, <2>2, <2>3, <2>4, <2>5, <2>6
      DEF BeforeSave, Next, Write, ClearRecord, Register, SaveTransition, EmitAudit,
          EmitDenial, Tick, CreateTenant, UpdateTenant, SetLegalHold, Deny, Replay,
          Apply, Crash, Begin
  <1>9. ASSUME pc \notin BeforeSave PROVE Truthful(t)'
    <2>1. UNCHANGED <<evidence, prepared, tree>>
      BY <1>9
      DEF BeforeSave, Next, Write, vars, files, Goto, Begin, ClearRecord,
          Register, RenderIsolation, RenderOverlay, RemoveOverlay, PrepareCommit,
          CaptureEvidence, SaveTenant, SaveTransition, EmitAudit, EmitDenial, Tick,
          Crash, InterruptedWrite, CreateTenant, UpdateTenant, SetLegalHold, Deny,
          Replay, Apply
    <2>2. StateOf(t)' \in {StateOf(t), "provisioning"}
      <3>1. CASE UNCHANGED tenants
        BY <3>1 DEF StateOf, Registered
      <3>2. CASE Register
        BY <1>0, <3>2, RequestType, RecordIsNotNone
        DEF Register, HandlerInv, StateOf, Registered, TypeOK, StepNames
      <3>3. ASSUME NEW u \in Tenants, NEW doc \in Docs, UpdateTenant(u, doc)
            PROVE  StateOf(t)' = StateOf(t)
        BY <1>0, <3>3, UpdateKeepsStates
      <3>4. ASSUME NEW u \in Tenants, NEW hold \in BOOLEAN, SetLegalHold(u, hold)
            PROVE  StateOf(t)' = StateOf(t)
        BY <1>0, <3>4, HoldKeepsStates
      <3> QED
        BY <1>9, <3>1, <3>2, <3>3, <3>4
        DEF BeforeSave, Next, Write, vars, files, Goto, Begin, ClearRecord,
            RenderIsolation, RenderOverlay, RemoveOverlay, PrepareCommit,
            CaptureEvidence, SaveTenant, SaveTransition, EmitAudit, EmitDenial, Tick,
            Crash, CreateTenant, Deny, Replay, Apply
    <2> QED BY <1>0, <2>1, <2>2 DEF Truthful
  <1> QED BY <1>4, <1>8, <1>9

LEMMA ControlInvariant == Spec => []ControlInv
  <1>1. ControlInv /\ [Next]_vars => ControlInv'
    BY TypeStep, HandlerStep, LeakStep, LocalsStep, AuditStep, RerunStep, TruthStep
    DEF ControlInv, IndInv
  <1> QED BY <1>1, InitControl, PTL DEF Spec

(***************************************************************************)
(* Evidence that an overlay was removed is true for as long as the tenant  *)
(* stays purged, wherever _execute_purge or a replay of it died before.    *)
(***************************************************************************)
THEOREM EvidenceIsTruthful == Spec => []EvidenceTruthful
  BY ControlInvariant, PTL DEF ControlInv

(***************************************************************************)
(* Until a handler dies half way, the newest audit record of a completed   *)
(* transition names its anchor, however often the transition is replayed.  *)
(***************************************************************************)
THEOREM AuditNamesTheAnchor == Spec => []AuditMatchesRecord
  <1>1. ControlInv => AuditMatchesRecord
    BY DEF ControlInv, AuditInv, AuditMatchesRecord
  <1> QED BY <1>1, ControlInvariant, PTL

(***************************************************************************)
(* Until a handler dies half way, every transition can be run again: the   *)
(* tenant's state has a completed record that _transition_inner replays.   *)
(***************************************************************************)
THEOREM RerunsAreReplays == Spec => []RerunIsReplayUnlessCrashed
  <1>1. ControlInv => RerunIsReplayUnlessCrashed
    BY DEF ControlInv, RerunInv, RerunIsReplayUnlessCrashed, RerunIsReplay
  <1> QED BY <1>1, ControlInvariant, PTL

-----------------------------------------------------------------------------
(* The control plane implements LifecycleContract. *)

Present(t) == tree[t].overlay # None \/ tree[t].inner # None

\* How a change of one tenant's files shows in what the contract sees.
LEMMA StateChange ==
  ASSUME NEW t \in Tenants, NEW s, StateOf(t)' = s,
         \A u \in Tenants \ {t} : tenants'[u] = tenants[u]
  PROVE  LifecycleState' = [LifecycleState EXCEPT ![t] = s]
  <1>1. \A u \in Tenants \ {t} : StateOf(u)' = StateOf(u)
    BY DEF StateOf, Registered
  <1>2. LifecycleState' = [u \in Tenants |-> StateOf(u)']
    BY DEF LifecycleState
  <1> QED BY <1>1, <1>2 DEF LifecycleState

LEMMA StateSame ==
  ASSUME \A u \in Tenants : StateOf(u)' = StateOf(u)
  PROVE  LifecycleState' = LifecycleState
  BY DEF LifecycleState

LEMMA WindowChange ==
  ASSUME NEW t \in Tenants, NEW w, transitions'[t]["offboard"] = w,
         \A u \in Tenants \ {t} : transitions'[u] = transitions[u]
  PROVE  RetentionWindow' = [RetentionWindow EXCEPT ![t] = w]
  BY DEF RetentionWindow

LEMMA WindowSame ==
  ASSUME \A u \in Tenants : transitions'[u]["offboard"] = transitions[u]["offboard"]
  PROVE  RetentionWindow' = RetentionWindow
  BY DEF RetentionWindow

LEMMA HoldChange ==
  ASSUME NEW t \in Tenants, NEW h \in BOOLEAN, Held(t)' = h,
         \A u \in Tenants \ {t} : tenants'[u] = tenants[u]
  PROVE  LegalHold' = [LegalHold EXCEPT ![t] = h]
  <1>1. \A u \in Tenants \ {t} : Held(u)' = Held(u)
    BY DEF Held, Registered
  <1>2. LegalHold' = [u \in Tenants |-> Held(u)']
    BY DEF LegalHold
  <1> HIDE DEF Held
  <1> QED BY <1>1, <1>2 DEF LegalHold

LEMMA HoldSame ==
  ASSUME \A u \in Tenants : Held(u)' = Held(u)
  PROVE  LegalHold' = LegalHold
  BY DEF LegalHold

LEMMA PresentByTenant == OverlayPresent = [t \in Tenants |-> Present(t)]
  BY DEF OverlayPresent, Present

LEMMA PresentChange ==
  ASSUME NEW t \in Tenants, NEW p \in BOOLEAN, Present(t)' = p,
         \A u \in Tenants \ {t} : tree'[u] = tree[u]
  PROVE  OverlayPresent' = [OverlayPresent EXCEPT ![t] = p]
  <1>1. \A u \in Tenants \ {t} : Present(u)' = Present(u)
    BY DEF Present
  <1>2. OverlayPresent' = [u \in Tenants |-> Present(u)']
    BY DEF OverlayPresent, Present
  <1> QED BY <1>1, <1>2, PresentByTenant

LEMMA PresentSame ==
  ASSUME \A u \in Tenants : Present(u)' = Present(u)
  PROVE  OverlayPresent' = OverlayPresent
  <1>2. OverlayPresent' = [u \in Tenants |-> Present(u)']
    BY DEF OverlayPresent, Present
  <1> QED BY <1>2, PresentByTenant

\* The contract's view of one tenant.
LEMMA View ==
  ASSUME NEW t \in Tenants
  PROVE  /\ LifecycleState[t] = StateOf(t)
         /\ RetentionWindow[t] = transitions[t]["offboard"]
         /\ LegalHold[t] = Held(t)
  BY DEF LifecycleState, RetentionWindow, LegalHold

\* A step that leaves the tenant records alone changes neither state nor hold.
LEMMA RecordsSame ==
  ASSUME UNCHANGED tenants
  PROVE  UNCHANGED <<LifecycleState, LegalHold>>
  BY DEF LifecycleState, LegalHold, StateOf, Held, Registered

LEMMA ClearImplements ==
  ASSUME ControlInv, ClearRecord
  PROVE  [Contract!Next]_(Contract!vars)
  <1>0. TypeOK /\ HandlerInv /\ NoRecordLeak
    BY DEF ControlInv, IndInv
  <1>1. PICK t \in Tenants : t = req.tenant
    BY <1>0, RequestType DEF ClearRecord, StepNames
  <1>2. PICK tr \in Completed(t) :
           transitions' = [transitions EXCEPT ![t][tr] = None]
    BY <1>1 DEF ClearRecord
  <1>3. UNCHANGED <<now, LifecycleState, LegalHold, OverlayPresent>>
    <2>1. UNCHANGED <<now, tenants, tree>>
      BY DEF ClearRecord
    <2> QED BY <2>1, RecordsSame DEF OverlayPresent
  <1>4. StateOf(t) = "purged"
    BY <1>0, <1>1, <1>2 DEF ClearRecord, HandlerInv, NoRecordLeak
  <1>5. CASE tr = "offboard"
    <2>1. RetentionWindow' = [RetentionWindow EXCEPT ![t] = None]
      <3>1. transitions \in [Tenants -> [Transitions -> Anchor]]
            /\ "offboard" \in Transitions
        BY <1>0 DEF TypeOK, Transitions
      <3>2. \A u \in Tenants : transitions'[u]["offboard"]
               = IF u = t THEN None ELSE transitions[u]["offboard"]
        BY <1>2, <1>5, <3>1
      <3> QED BY <3>2 DEF RetentionWindow
    <2>2. Contract!DropWindow(t)
      BY <1>3, <1>4, <2>1, View DEF Contract!DropWindow
    <2> QED BY <2>2 DEF Contract!Next
  <1>6. CASE tr # "offboard"
    <2>1. RetentionWindow' = RetentionWindow
      BY <1>0, <1>2, <1>6 DEF RetentionWindow, TypeOK, Transitions, Completed
    <2> QED BY <1>3, <2>1 DEF Contract!vars
  <1> QED BY <1>5, <1>6

LEMMA RegisterImplements ==
  ASSUME ControlInv, Register
  PROVE  Contract!Next
  <1>0. TypeOK /\ HandlerInv /\ LocalsInv
    BY DEF ControlInv, IndInv
  <1>1. PICK t \in Tenants : t = req.tenant
    BY <1>0, RequestType DEF Register, StepNames
  <1>2. /\ req.record \in TenantRecord /\ req.record.state = "provisioning"
        /\ req.record.hold = FALSE /\ StateOf(t) \in {"none", "purged"}
        /\ Completed(t) = {}
    BY <1>0, <1>1, RequestType DEF Register, HandlerInv, LocalsInv, StepNames
  <1>3. /\ tenants'[t] = req.record
        /\ \A u \in Tenants \ {t} : tenants'[u] = tenants[u]
    BY <1>0, <1>1 DEF Register, TypeOK
  <1>4. StateOf(t)' = "provisioning" /\ Held(t)' = FALSE
    BY <1>2, <1>3, RecordIsNotNone DEF StateOf, Held, Registered
  <1>5. LifecycleState' = [LifecycleState EXCEPT ![t] = "provisioning"]
    BY <1>3, <1>4, StateChange
  <1>6. LegalHold' = [LegalHold EXCEPT ![t] = FALSE]
    BY <1>3, <1>4, HoldChange
  <1>7. UNCHANGED <<now, RetentionWindow, OverlayPresent>>
    BY DEF Register, RetentionWindow, OverlayPresent
  <1>8. transitions[t]["offboard"] = None
    BY <1>2 DEF Completed, Transitions
  <1>9. Contract!Create(t)
    BY <1>2, <1>5, <1>6, <1>7, <1>8, View DEF Contract!Create
  <1> QED BY <1>9 DEF Contract!Next

LEMMA UpdateImplements ==
  ASSUME ControlInv, NEW t \in Tenants, NEW doc \in Docs, UpdateTenant(t, doc)
  PROVE  UNCHANGED Contract!vars
  <1>0. TypeOK
    BY DEF ControlInv, IndInv
  <1>1. \A u \in Tenants : StateOf(u)' = StateOf(u) /\ Held(u)' = Held(u)
    BY <1>0, RecordIsNotNone
    DEF UpdateTenant, StateOf, Held, Registered, TypeOK, TenantRecord
  <1>2. UNCHANGED <<now, RetentionWindow, OverlayPresent>>
    BY DEF UpdateTenant, RetentionWindow, OverlayPresent
  <1> QED BY <1>1, <1>2, StateSame, HoldSame DEF Contract!vars

LEMMA HoldImplements ==
  ASSUME ControlInv, NEW t \in Tenants, NEW hold \in BOOLEAN, SetLegalHold(t, hold)
  PROVE  [Contract!Next]_(Contract!vars)
  <1>0. TypeOK
    BY DEF ControlInv, IndInv
  <1>1. tenants[t] \in TenantRecord /\ tenants[t] # None
    BY <1>0 DEF SetLegalHold, TypeOK
  <1>2. /\ tenants'[t] = [tenants[t] EXCEPT !.hold = hold]
        /\ \A u \in Tenants \ {t} : tenants'[u] = tenants[u]
    BY <1>0 DEF SetLegalHold, TypeOK
  <1>3. tenants'[t] \in TenantRecord /\ tenants'[t].hold = hold
        /\ tenants'[t].state = tenants[t].state
    BY <1>1, <1>2 DEF TenantRecord
  <1>4. /\ StateOf(t)' = StateOf(t) /\ Held(t)' = hold /\ Held(t) = tenants[t].hold
        /\ StateOf(t) # "none"
    BY <1>1, <1>3, RecordIsNotNone DEF StateOf, Held, Registered, TenantRecord, States
  <1>5. \A u \in Tenants : StateOf(u)' = StateOf(u)
    BY <1>2, <1>4 DEF StateOf, Registered
  <1>6. UNCHANGED <<now, RetentionWindow, OverlayPresent, LifecycleState>>
    BY <1>5, StateSame DEF SetLegalHold, RetentionWindow, OverlayPresent
  <1>7. LegalHold' = [LegalHold EXCEPT ![t] = hold]
    BY <1>2, <1>4, HoldChange
  <1>8. CASE hold = Held(t)
    <2>1. \A u \in Tenants : Held(u)' = Held(u)
      BY <1>2, <1>4, <1>8 DEF Held, Registered
    <2> QED BY <1>6, <2>1, HoldSame DEF Contract!vars
  <1>9. CASE hold # Held(t)
    <2>1. Held(t) \in BOOLEAN
      BY <1>1, <1>4 DEF TenantRecord
    <2>2. hold = ~LegalHold[t]
      BY <1>9, <2>1, View
    <2>3. Contract!SetHold(t)
      BY <1>4, <1>6, <1>7, <2>2, View DEF Contract!SetHold
    <2> QED BY <2>3 DEF Contract!Next
  <1> QED BY <1>8, <1>9

\* A step that only touches one tenant's directories.
LEMMA MaterialiseImplements ==
  ASSUME ControlInv, pc \in {"isolation", "overlay"}, NEW t \in Tenants, t = req.tenant,
         UNCHANGED <<now, tenants, transitions>>, Present(t)' = TRUE,
         \A u \in Tenants \ {t} : tree'[u] = tree[u]
  PROVE  Contract!Next
  <1>0. TypeOK /\ HandlerInv /\ LocalsInv
    BY DEF ControlInv, IndInv
  <1>1. /\ tenants[t] = req.record /\ req.record \in TenantRecord
        /\ req.transition = "provision" /\ req.outcome \in {"applied", "replayed"}
    BY <1>0, RequestType DEF HandlerInv, BeforeSave, StepNames
  <1>2. req.record.state \in {"provisioning", "active"}
    BY <1>0, <1>1 DEF HandlerInv, LocalsInv, BeforeSave, FromStates, ToState
  <1>3. StateOf(t) \in {"provisioning", "active"}
    BY <1>1, <1>2, RecordIsNotNone DEF StateOf, Registered
  <1>4. OverlayPresent' = [OverlayPresent EXCEPT ![t] = TRUE]
    BY PresentChange
  <1>5. UNCHANGED <<now, LifecycleState, RetentionWindow, LegalHold>>
    BY RecordsSame DEF RetentionWindow
  <1>6. Contract!Materialise(t)
    BY <1>3, <1>4, <1>5, View DEF Contract!Materialise
  <1> QED BY <1>6 DEF Contract!Next

\* At a purge's writes the contract lets the tenant's data go.
LEMMA PurgeIsPurgeable ==
  ASSUME ControlInv, pc \in BeforeSave, NEW t \in Tenants, t = req.tenant,
         req.transition = "purge", req.outcome = "applied"
  PROVE  Contract!Purgeable(t)
  <1>0. TypeOK /\ HandlerInv /\ LocalsInv
    BY DEF ControlInv, IndInv
  <1>1. /\ tenants[t] = req.record /\ req.record \in TenantRecord
        /\ req.record.state = "offboarding"
    BY <1>0, RequestType DEF HandlerInv, BeforeSave, StepNames, FromStates
  <1>2. StateOf(t) = "offboarding"
    BY <1>1, RecordIsNotNone DEF StateOf, Registered
  <1>3. /\ transitions[t]["offboard"] # None
        /\ transitions[t]["offboard"] <= now
        /\ ~req.record.hold
    BY <1>0 DEF LocalsInv
  <1>4. ~Held(t)
    BY <1>1, <1>3 DEF Held
  <1>5. ~LegalHold[t]
    BY <1>4, View
  <1> QED BY <1>2, <1>3, <1>5, View DEF Contract!Purgeable

LEMMA DeleteImplements ==
  ASSUME ControlInv, pc = "remove", NEW t \in Tenants, t = req.tenant,
         UNCHANGED <<now, tenants, transitions>>, Present(t)' = FALSE,
         \A u \in Tenants \ {t} : tree'[u] = tree[u]
  PROVE  Contract!Next
  <1>0. TypeOK /\ HandlerInv /\ LocalsInv
    BY DEF ControlInv, IndInv
  <1>1. /\ tenants[t] = req.record /\ req.record \in TenantRecord
        /\ req.transition = "purge" /\ req.outcome \in {"applied", "replayed"}
    BY <1>0, RequestType DEF HandlerInv, BeforeSave, StepNames
  <1>2. req.outcome = "replayed" => StateOf(t) = "purged"
    BY <1>0, <1>1, RecordIsNotNone
    DEF LocalsInv, BeforeSave, StateOf, Registered, ToState
  <1>3. req.outcome = "applied" => Contract!Purgeable(t)
    BY <1>1, PurgeIsPurgeable DEF BeforeSave
  <1>4. OverlayPresent' = [OverlayPresent EXCEPT ![t] = FALSE]
    BY PresentChange
  <1>5. UNCHANGED <<now, LifecycleState, RetentionWindow, LegalHold>>
    BY RecordsSame DEF RetentionWindow
  <1>6. Contract!Purgeable(t) \/ LifecycleState[t] = "purged"
    BY <1>1, <1>2, <1>3, View
  <1>7. Contract!Delete(t)
    BY <1>4, <1>5, <1>6 DEF Contract!Delete
  <1> QED BY <1>7 DEF Contract!Next

\* A render, a removal or what an interrupted one leaves.
LEMMA TreeImplements ==
  ASSUME ControlInv, [Next]_vars,
         \/ RenderIsolation \/ RenderOverlay \/ RemoveOverlay
         \/ Crash
  PROVE  [Contract!Next]_(Contract!vars)
  <1>0. TypeOK
    BY DEF ControlInv, IndInv
  <1>1. UNCHANGED <<now, tenants, transitions>>
    BY DEF RenderIsolation, RenderOverlay, RemoveOverlay, Crash, Goto
  <1>2. CASE \A u \in Tenants : Present(u)' = Present(u)
    <2>1. UNCHANGED <<now, LifecycleState, RetentionWindow, LegalHold, OverlayPresent>>
      BY <1>1, <1>2, RecordsSame, PresentSame DEF RetentionWindow
    <2> QED BY <2>1 DEF Contract!vars
  <1>3. CASE UNCHANGED tree
    BY <1>2, <1>3 DEF Present
  <1>4. CASE tree' # tree
    <2>1. pc \in {"isolation", "overlay", "remove"}
      BY <1>4 DEF RenderIsolation, RenderOverlay, RemoveOverlay, Crash, InterruptedWrite
    <2>2. PICK t \in Tenants : t = req.tenant
      BY <1>0, <2>1, RequestType DEF StepNames
    <2>3. tree[t] \in Tree /\ req.record.doc \in Docs
          /\ req.record.doc.isolation_class \in IsolationClasses
      BY <1>0, <2>1, <2>2, RequestType DEF TypeOK, StepNames
    <2>4. \A u \in Tenants \ {t} : tree'[u] = tree[u]
      BY <1>0, <1>4, <2>2
      DEF RenderIsolation, RenderOverlay, RemoveOverlay, Crash, InterruptedWrite, TypeOK
    <2>5. CASE pc \in {"isolation", "overlay"} /\ Present(t)'
      BY <1>1, <2>2, <2>4, <2>5, MaterialiseImplements
    <2>6. CASE pc = "remove" /\ ~Present(t)'
      <3>1. Present(t)' = FALSE
        BY <2>6 DEF Present
      <3>2. Contract!Next
        BY <1>1, <2>2, <2>4, <2>6, <3>1, DeleteImplements
      <3> QED BY <3>2
    <2>7. CASE pc = "isolation" /\ ~Present(t)'
      <3>1. \/ tree'[t] = [tree[t] EXCEPT !.shared = req.record.doc.isolation_class]
            \/ tree'[t] = [tree[t] EXCEPT !.inner = req.record.doc.isolation_class]
            \/ tree'[t] = [tree[t] EXCEPT !.inner = Partial]
            \/ tree'[t] = [tree[t] EXCEPT !.shared = Partial]
        BY <1>0, <1>4, <2>2, <2>7
        DEF RenderIsolation, RenderOverlay, RemoveOverlay, Crash, InterruptedWrite,
            Rendered, IsolationContent, TypeOK
      <3>2. Present(t)' = Present(t)
        BY <2>3, <2>7, <3>1, NoneAssumption DEF Present, Tree
      <3>3. \A u \in Tenants : Present(u)' = Present(u)
        BY <2>4, <3>2 DEF Present
      <3> QED BY <1>2, <3>3
    <2>8. CASE pc = "overlay" /\ ~Present(t)'
      <3>1. tree'[t].overlay \in {req.record.doc, Partial}
        BY <1>0, <1>4, <2>2, <2>3, <2>8
        DEF RenderIsolation, RenderOverlay, RemoveOverlay, Crash, InterruptedWrite,
            TypeOK, Tree
      <3> QED BY <2>3, <2>8, <3>1, NoneAssumption DEF Present
    <2>9. CASE pc = "remove" /\ Present(t)'
      <3>1. \E o \in Remains(tree[t].overlay), i \in Remains(tree[t].inner) :
               tree' = [tree EXCEPT ![t].overlay = o, ![t].inner = i]
        BY <1>4, <2>2, <2>9
        DEF RenderIsolation, RenderOverlay, RemoveOverlay, Crash, InterruptedWrite, Remains
      <3>2. PICK o \in Remains(tree[t].overlay), i \in Remains(tree[t].inner) :
               tree' = [tree EXCEPT ![t].overlay = o, ![t].inner = i]
        BY <3>1
      <3>3. tree'[t].overlay = o /\ tree'[t].inner = i
        BY <1>0, <2>3, <3>2 DEF TypeOK, Tree
      <3>4. Present(t)
        BY <2>9, <3>3 DEF Present, Remains
      <3>5. \A u \in Tenants : Present(u)' = Present(u)
        BY <2>4, <2>9, <3>4 DEF Present
      <3> QED BY <1>2, <3>5
    <2> QED BY <2>1, <2>5, <2>6, <2>7, <2>8, <2>9
  <1> QED BY <1>3, <1>4

LEMMA SaveTenantImplements ==
  ASSUME ControlInv, SaveTenant
  PROVE  Contract!Next
  <1>0. TypeOK /\ HandlerInv /\ LocalsInv
    BY DEF ControlInv, IndInv
  <1>1. PICK t \in Tenants : t = req.tenant
    BY <1>0, RequestType DEF SaveTenant, StepNames
  <1> DEFINE to == ToState(req.transition)
  <1>2. /\ req.record \in TenantRecord /\ req.transition \in Transitions
        /\ req.record.state \in FromStates(req.transition) /\ req.outcome = "applied"
        /\ tenants[t] = req.record
    BY <1>0, <1>1, RequestType DEF SaveTenant, HandlerInv, BeforeSave, StepNames
  <1>3. /\ tenants'[t] = [req.record EXCEPT !.state = to]
        /\ \A u \in Tenants \ {t} : tenants'[u] = tenants[u]
    BY <1>0, <1>1 DEF SaveTenant, TypeOK
  <1>4. /\ tenants'[t] \in TenantRecord /\ tenants'[t].state = to
        /\ tenants'[t].hold = tenants[t].hold
    BY <1>2, <1>3 DEF TenantRecord, ToState, States, Transitions
  <1>5. /\ StateOf(t) = req.record.state /\ StateOf(t)' = to
        /\ Held(t)' = Held(t)
    BY <1>2, <1>4, RecordIsNotNone DEF StateOf, Held, Registered
  <1>6. \A u \in Tenants : Held(u)' = Held(u)
    BY <1>3, <1>5 DEF Held, Registered
  <1>7. UNCHANGED <<now, RetentionWindow, LegalHold, OverlayPresent>>
    BY <1>6, HoldSame DEF SaveTenant, Goto, RetentionWindow, OverlayPresent
  <1>8. LifecycleState' = [LifecycleState EXCEPT ![t] = to]
    BY <1>3, <1>5, StateChange
  <1>9. LifecycleState[t] \in FromStates(req.transition)
    BY <1>2, <1>5, View
  <1>10. Contract!Move(t, FromStates(req.transition), to)
    BY <1>7, <1>8, <1>9 DEF Contract!Move
  <1>11. CASE req.transition = "purge"
    <2>1. Contract!Purgeable(t)
      BY <1>1, <1>2, <1>11, PurgeIsPurgeable DEF SaveTenant, BeforeSave
    <2>2. Contract!Purge(t)
      BY <1>10, <1>11, <2>1 DEF Contract!Purge, FromStates, ToState
    <2> QED BY <2>2 DEF Contract!Next
  <1>12. CASE req.transition = "provision"
    BY <1>10, <1>12 DEF Contract!Next, FromStates, ToState
  <1>13. CASE req.transition = "suspend"
    BY <1>10, <1>13 DEF Contract!Next, FromStates, ToState
  <1>14. CASE req.transition = "resume"
    BY <1>10, <1>14 DEF Contract!Next, FromStates, ToState
  <1>15. CASE req.transition = "offboard"
    BY <1>10, <1>15 DEF Contract!Next, FromStates, ToState
  <1> QED BY <1>2, <1>11, <1>12, <1>13, <1>14, <1>15 DEF Transitions

LEMMA SaveTransitionImplements ==
  ASSUME ControlInv, SaveTransition
  PROVE  [Contract!Next]_(Contract!vars)
  <1>0. TypeOK /\ HandlerInv /\ LocalsInv
    BY DEF ControlInv, IndInv
  <1>1. PICK t \in Tenants : t = req.tenant
    BY <1>0, RequestType DEF SaveTransition, StepNames
  <1>2. /\ req.transition \in Transitions /\ req.anchor \in Nat
        /\ StateOf(t) = ToState(req.transition)
    BY <1>0, <1>1, RequestType DEF SaveTransition, HandlerInv, StepNames
  <1>3. UNCHANGED <<now, LifecycleState, LegalHold, OverlayPresent>>
    <2>1. UNCHANGED <<now, tenants, tree>>
      BY DEF SaveTransition, Goto
    <2> QED BY <2>1, RecordsSame DEF OverlayPresent
  <1>4. CASE req.transition = "offboard"
    <2>1. transitions'[t]["offboard"] = req.anchor
          /\ \A u \in Tenants \ {t} : transitions'[u] = transitions[u]
      BY <1>0, <1>1, <1>2, <1>4 DEF SaveTransition, TypeOK
    <2>2. RetentionWindow' = [RetentionWindow EXCEPT ![t] = req.anchor]
      BY <2>1, WindowChange
    <2>3. RetentionWindow'[t] = req.anchor
      BY <2>1 DEF RetentionWindow
    <2>4. RetentionWindow[t] = None /\ LifecycleState[t] = "offboarding"
      BY <1>0, <1>1, <1>2, <1>4, View DEF SaveTransition, LocalsInv, ToState
    <2>5. Contract!RecordWindow(t)
      BY <1>2, <1>3, <2>2, <2>3, <2>4 DEF Contract!RecordWindow
    <2> QED BY <2>5 DEF Contract!Next
  <1>5. CASE req.transition # "offboard"
    <2>1. \A u \in Tenants : transitions'[u]["offboard"] = transitions[u]["offboard"]
      BY <1>0, <1>1, <1>2, <1>5 DEF SaveTransition, TypeOK, Transitions
    <2> QED BY <1>3, <2>1, WindowSame DEF Contract!vars
  <1> QED BY <1>4, <1>5

LEMMA StepImplements ==
  ASSUME ControlInv, [Next]_vars
  PROVE  [Contract!Next]_(Contract!vars)
  <1>1. CASE UNCHANGED <<now, tenants, transitions, tree>>
    <2>1. UNCHANGED <<now, LifecycleState, RetentionWindow, LegalHold, OverlayPresent>>
      BY <1>1, RecordsSame DEF RetentionWindow, OverlayPresent
    <2> QED BY <2>1 DEF Contract!vars
  <1>2. CASE Tick
    <2>1. UNCHANGED <<LifecycleState, RetentionWindow, LegalHold, OverlayPresent>>
      BY <1>2, RecordsSame DEF Tick, files, RetentionWindow, OverlayPresent
    <2> QED BY <1>2, <2>1 DEF Tick, Contract!Tick, Contract!Next
  <1>3. \/ UNCHANGED <<now, tenants, transitions, tree>>
        \/ Tick \/ ClearRecord \/ Register \/ SaveTenant \/ SaveTransition
        \/ RenderIsolation \/ RenderOverlay \/ RemoveOverlay \/ Crash
        \/ \E t \in Tenants : \E doc \in Docs : UpdateTenant(t, doc)
        \/ \E t \in Tenants : \E hold \in BOOLEAN : SetLegalHold(t, hold)
    BY DEF Next, Write, vars, files, Goto, Begin, PrepareCommit, CaptureEvidence,
       EmitAudit, EmitDenial, CreateTenant, Deny, Replay, Apply
  <1> QED
    BY <1>1, <1>2, <1>3, ClearImplements, RegisterImplements, SaveTenantImplements,
       SaveTransitionImplements, TreeImplements, UpdateImplements, HoldImplements

(***************************************************************************)
(* Every write of every handler, and every death half way, is a step that  *)
(* the lifecycle contract allows: nothing is deleted and no tenant marked  *)
(* purged before the recorded window has elapsed with no legal hold.       *)
(***************************************************************************)
THEOREM ControlPlaneImplementsContract == Spec => ImplementsContract
  <1>1. Init => Contract!Init
    <2> SUFFICES ASSUME Init PROVE Contract!Init
      OBVIOUS
    <2>1. LifecycleState = [t \in Tenants |-> "none"]
      BY DEF Init, LifecycleState, StateOf, Registered
    <2>2. RetentionWindow = [t \in Tenants |-> None]
      BY DEF Init, RetentionWindow, Transitions
    <2>3. \A t \in Tenants : Held(t) = FALSE /\ Present(t) = FALSE
      BY DEF Init, Held, Registered, Present
    <2>4. LegalHold = [t \in Tenants |-> FALSE]
      BY <2>3 DEF LegalHold
    <2>5. OverlayPresent = [t \in Tenants |-> FALSE]
      BY <2>3, PresentByTenant
    <2> QED BY <2>1, <2>2, <2>4, <2>5 DEF Init, Contract!Init
  <1>2. ControlInv /\ [Next]_vars => [Contract!Next]_(Contract!vars)
    BY StepImplements
  <1> QED
    BY <1>1, <1>2, ControlInvariant, PTL DEF Spec, ImplementsContract, Contract!Spec
=============================================================================
