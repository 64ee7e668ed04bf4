-------------------------- MODULE DiscoveryExecutor --------------------------
(***************************************************************************)
(* The discovery executor (tools/obskit): `obskit preflight`, `obskit      *)
(* discover` and `obskit evaluate`, run by an operator one after the other *)
(* in any order, with their report files between them.  A live cluster     *)
(* changes between the reads of a command; a read is refused when its      *)
(* permission is missing; a process may die, or fail to write, at any      *)
(* file.  A check, and a section of the discovery report, reads at one     *)
(* point.                                                                  *)
(*                                                                         *)
(* CRDs and workloads are names the detection rules tell apart.            *)
(***************************************************************************)
EXTENDS Evaluation

CONSTANTS
    Clusters,       \* the states the cluster may be in
    Backends,       \* "live" and "fixture"
    Options,        \* --profiles overrides and mode flags of an evaluate
    MaxChanges,     \* bound: changes of the cluster
    MaxCommands,    \* bound: commands the operator runs
    MaxFailures     \* bound: processes that die or fail to write

\* The switches of evaluate; --has-compatible-existing-services has a third
\* value, which leaves the answer to discovery.
Flags == [evaluation_only : BOOLEAN, allow_new_backend_components : BOOLEAN,
          require_in_cluster_collectors : BOOLEAN,
          existing : {"auto", "true", "false"}]

ASSUME OptionsAssumption == \A o \in Options : o.flags \in Flags

VARIABLES
    cluster,    \* what the reader reads
    backend,    \* the reader the commands use
    preflight, discovery,   \* the report files
    artifacts,  \* the files of the output directory
    cmd,        \* the running command
    last,       \* how the last command ended
    basis,      \* history: what the last complete set of artifacts rests on
    epoch, commands, failures

vars == <<cluster, backend, preflight, discovery, artifacts, cmd, last, basis,
          epoch, commands, failures>>

NoFile == [kind |-> "absent"]

Torn == [kind |-> "torn"]       \* cut off while it was written

Loads(file) == file.kind \notin {"absent", "torn"}

ArtifactOrder == <<"capability_matrix", "compatibility_result",
                   "mode_recommendation", "remediation_list">>

Idle == [name |-> "idle"]

NoBasis == [kind |-> "none"]

Unread == [name |-> "unread"]   \* the cluster block of a report under way

-----------------------------------------------------------------------------
(* What the reader answers. *)

\* Mutant: discovery came to read the ingress classes and the list was not
\* extended.
MutReadPermissions == {"namespaces", "nodes", "services", "pods", "workloads",
                       "storageclasses", "crds", "apiservices"}

READ_PERMISSIONS == {"namespaces", "nodes", "services", "pods", "workloads",
                     "storageclasses", "ingressclasses", "crds", "apiservices"}

\* A live read raises when the cluster is gone or the permission is missing;
\* a recorded snapshot answers whatever it says of permissions.
Readable(resources) ==
    backend = "live" => cluster.reachable /\ resources \subseteq cluster.granted

GATEWAY_REQUIRED_CRDS == {"gatewayclasses.gateway", "gateways.gateway",
                          "httproutes.gateway"}

GatewayCrds == GATEWAY_REQUIRED_CRDS \cup {"grpcroutes.gateway"}

\* IntegrationSignature: the CRDs and workloads that betray an integration.
GITOPS_SIGNATURES ==
    ("argocd" :> {"applications.argoproj", "argocd-server", "team-argocd"})
        @@ ("flux" :> {"kustomizations.toolkit.fluxcd", "helmreleases.helm.fluxcd",
                       "source-controller in flux-system"})

SECRET_SIGNATURES ==
    ("external-secrets" :> {"externalsecrets.external-secrets"})
        @@ ("vault" :> {"vault-server"})
        @@ ("sealed-secrets" :> {"sealedsecrets.bitnami"})

Present == cluster.crds \cup cluster.workloads

\* The fingerprints the preflight check looks for: CRD groups, workloads that
\* start with argocd-, the flux controllers by name in any namespace.
PreflightGitops ==
    {"applications.argoproj", "argocd-server", "kustomizations.toolkit.fluxcd",
     "source-controller in flux-system", "source-controller in gitops"}

-----------------------------------------------------------------------------
(* The checks of preflight. *)

Result(status, reason) == [status |-> status, reason |-> reason]

Pass == Result("pass", "none")

PassIf(condition, status, reason) ==
    IF condition THEN Pass ELSE Result(status, reason)

CHECKS == <<"required_permissions", "required_api_readiness",
            "required_crd_readiness", "storage_compatibility",
            "gitops_prerequisites">>

\* What each check lists; the access review and the API groups need no
\* permission beyond the cluster's answering.
Reads(check) ==
    CASE check = "required_crd_readiness" -> {"crds"}
      [] check = "storage_compatibility" -> {"storageclasses"}
      [] check = "gitops_prerequisites" -> {"crds", "workloads"}
      [] OTHER -> {}

_check_required_permissions ==
    PassIf(READ_PERMISSIONS \subseteq cluster.granted, "fail", "rbac_access_missing")

_check_required_api_readiness ==
    PassIf(cluster.apis, "fail", "required_api_unavailable")

_check_required_crd_readiness ==
    IF cluster.crds \cap GatewayCrds = {}
    THEN Result("skip", "gateway_api_not_in_use")
    ELSE PassIf(GATEWAY_REQUIRED_CRDS \subseteq cluster.crds, "fail",
                "gateway_api_crds_required")

_check_storage_compatibility ==
    IF cluster.storage = <<>> THEN Result("fail", "storage_profile_incompatible")
    ELSE PassIf(\E i \in 1..Len(cluster.storage) : cluster.storage[i].default,
                "warn", "default_storage_class_missing")

_check_gitops_prerequisites ==
    PassIf(Present \cap PreflightGitops # {}, "warn", "gitops_controller_missing")

evaluate_check(check) ==
    CASE check = "required_permissions" -> _check_required_permissions
      [] check = "required_api_readiness" -> _check_required_api_readiness
      [] check = "required_crd_readiness" -> _check_required_crd_readiness
      [] check = "storage_compatibility" -> _check_storage_compatibility
      [] check = "gitops_prerequisites" -> _check_gitops_prerequisites

Outcome(checks) ==
    LET statuses == {checks[i].status : i \in 1..Len(checks)}
    IN IF "fail" \in statuses THEN "fail"
       ELSE IF "warn" \in statuses THEN "warn" ELSE "pass"

-----------------------------------------------------------------------------
(* The sections of the discovery report. *)

_storage_and_ingress ==
    [storage |-> cluster.storage,
     ingress |->
        (IF cluster.crds \cap GatewayCrds # {} THEN {"gateway-api"} ELSE {})
        \cup (IF "nginx" \in cluster.workloads THEN {"nginx-ingress"} ELSE {})]

Detected(signatures) ==
    {name \in DOMAIN signatures : signatures[name] \cap Present # {}}

_gitops_and_secrets ==
    [gitops |-> Detected(GITOPS_SIGNATURES), secrets |-> Detected(SECRET_SIGNATURES)]

\* A service in a system namespace, or without ports, is no candidate.
_onboardable_candidate(service) == ~service.system /\ service.ports > 0

_workload_inventory ==
    [services |-> {_onboardable_candidate(s) : s \in cluster.services}]

SectionReads(section) ==
    CASE section = 1 -> {"crds", "workloads", "storageclasses", "ingressclasses"}
      [] section = 2 -> {"crds", "workloads"}
      [] section = 3 -> {"workloads", "services", "namespaces"}

-----------------------------------------------------------------------------
(* Commands. *)

Init ==
    /\ cluster \in Clusters
    /\ backend \in Backends
    /\ preflight = NoFile /\ discovery = NoFile
    /\ artifacts = [f \in ToSet(ArtifactOrder) |-> NoFile]
    /\ cmd = Idle
    /\ last = [name |-> "none", exit |-> "none"]
    /\ basis = NoBasis
    /\ epoch = 0 /\ commands = 0 /\ failures = 0

\* The process ends: with exit code 0 or 1, with an exception nobody catches,
\* or while it writes.
Ends(exit) ==
    /\ cmd' = Idle
    /\ last' = [name |-> cmd.name, exit |-> exit]

\* A new command begins.
Begins(command) ==
    /\ cmd = Idle
    /\ commands < MaxCommands
    /\ commands' = commands + 1
    /\ cmd' = command

fileVars == <<preflight, discovery, artifacts, basis>>

bounds == <<epoch, commands, failures>>

StartPreflight ==
    /\ Begins([name |-> "preflight", pc |-> "connectivity", checks |-> <<>>,
               cluster |-> Unread, from |-> epoch])
    /\ UNCHANGED <<cluster, backend, fileVars, last, epoch, failures>>

\* Without connectivity the other checks are skipped.
CheckConnectivity ==
    /\ cmd.name = "preflight" /\ cmd.pc = "connectivity"
    /\ cmd' = IF cluster.reachable
              THEN [cmd EXCEPT !.checks = <<Pass>>, !.pc = "checks"]
              ELSE [cmd EXCEPT !.pc = "info",
                      !.checks = <<Result("fail", "cluster_connectivity_failed")>>
                          \o [i \in 1..Len(CHECKS) |->
                                 Result("skip", "skipped_cluster_unreachable")]]
    /\ UNCHANGED <<cluster, backend, fileVars, last, bounds>>

\* Any exception of a check becomes its result.
RunCheck ==
    /\ cmd.name = "preflight" /\ cmd.pc = "checks"
    /\ LET check == CHECKS[Len(cmd.checks)]
           result == IF Readable(Reads(check)) THEN evaluate_check(check)
                     ELSE Result("fail", "check_execution_error")
       IN cmd' = [cmd EXCEPT !.checks = Append(@, result),
                    !.pc = IF Len(cmd.checks) = Len(CHECKS) THEN "info" ELSE @]
    /\ UNCHANGED <<cluster, backend, fileVars, last, bounds>>

\* cluster_info reads the nodes outside the handler of the checks: what the
\* client raises is no operator error, and the command ends without report.
ClusterInfoRaises ==
    /\ cmd.name \in {"preflight", "discover"} /\ cmd.pc = "info"
    /\ ~Readable({"nodes"})
    /\ Ends("traceback")
    /\ UNCHANGED <<cluster, backend, fileVars, bounds>>

ReadClusterInfo ==
    /\ cmd.name \in {"preflight", "discover"} /\ cmd.pc = "info"
    /\ Readable({"nodes"})
    /\ cmd' = [cmd EXCEPT !.pc = IF cmd.name = "preflight" THEN "write" ELSE "probes",
                          !.cluster = cluster.info]
    /\ UNCHANGED <<cluster, backend, fileVars, last, bounds>>

WritePreflight ==
    /\ cmd.name = "preflight" /\ cmd.pc = "write"
    /\ preflight' = [kind |-> "preflight", cluster |-> cmd.cluster,
                     checks |-> cmd.checks, outcome |-> Outcome(cmd.checks),
                     from |-> cmd.from, to |-> epoch]
    /\ Ends(IF Outcome(cmd.checks) = "fail" THEN "1" ELSE "0")
    /\ UNCHANGED <<cluster, backend, discovery, artifacts, basis, bounds>>

StartDiscover ==
    /\ Begins([name |-> "discover", pc |-> "info", cluster |-> Unread,
               sections |-> <<>>, from |-> epoch])
    /\ UNCHANGED <<cluster, backend, fileVars, last, epoch, failures>>

Section(n) ==
    CASE n = 1 -> _storage_and_ingress
      [] n = 2 -> _gitops_and_secrets
      [] n = 3 -> _workload_inventory

NextSection == Len(cmd.sections) + 1

ProbeSection ==
    /\ cmd.name = "discover" /\ cmd.pc = "probes"
    /\ Readable(SectionReads(NextSection))
    /\ cmd' = [cmd EXCEPT !.sections = Append(@, Section(NextSection)),
                          !.pc = IF NextSection = 3 THEN "write" ELSE @]
    /\ UNCHANGED <<cluster, backend, fileVars, last, bounds>>

\* The client's exception is none of those run() and main() catch.
ProbeRaises ==
    /\ cmd.name = "discover" /\ cmd.pc = "probes"
    /\ ~Readable(SectionReads(NextSection))
    /\ Ends("traceback")
    /\ UNCHANGED <<cluster, backend, fileVars, bounds>>

WriteDiscovery ==
    /\ cmd.name = "discover" /\ cmd.pc = "write"
    /\ discovery' = [kind |-> "discovery", cluster |-> cmd.cluster,
                     storage |-> cmd.sections[1].storage,
                     ingress |-> cmd.sections[1].ingress,
                     gitops |-> cmd.sections[2].gitops,
                     secrets |-> cmd.sections[2].secrets,
                     services |-> cmd.sections[3].services,
                     from |-> cmd.from, to |-> epoch]
    /\ Ends("0")
    /\ UNCHANGED <<cluster, backend, preflight, artifacts, basis, bounds>>

Evaluable(overrides, flags) ==
    /\ Loads(preflight) /\ Loads(discovery)
    /\ Evaluates(preflight, discovery, overrides, flags)

StartEvaluate(overrides, flags) ==
    /\ Evaluable(overrides, flags)
    /\ Begins([name |-> "evaluate", pc |-> "artifacts", next |-> 1,
               overrides |-> overrides, flags |-> flags,
               payload |-> evaluate_reports(preflight, discovery, overrides, flags)])
    /\ UNCHANGED <<cluster, backend, fileVars, last, epoch, failures>>

\* EvaluationError, before anything is written.
RefuseEvaluate(overrides, flags) ==
    /\ cmd = Idle
    /\ commands < MaxCommands
    /\ ~Evaluable(overrides, flags)
    /\ commands' = commands + 1
    /\ last' = [name |-> "evaluate", exit |-> "1"]
    /\ UNCHANGED <<cluster, backend, fileVars, cmd, epoch, failures>>

\* The epoch both reports observed, or -1 when there is no such epoch.
ObservedEpoch ==
    IF {preflight.from, preflight.to, discovery.from, discovery.to} = {preflight.from}
    THEN preflight.from ELSE -1

\* Mutant: an empty remediation list is not worth a file.
MutWriteArtifact ==
    /\ cmd.name = "evaluate" /\ cmd.pc = "artifacts"
    /\ LET f == ArtifactOrder[cmd.next]
           skip == f = "remediation_list" /\ cmd.payload[f].remediations = <<>>
       IN artifacts' = IF skip THEN artifacts
                       ELSE [artifacts EXCEPT
                               ![f] = cmd.payload[f]]
    /\ IF cmd.next = Len(ArtifactOrder)
       THEN /\ Ends("0")
            /\ basis' = [kind |-> "complete", epoch |-> ObservedEpoch,
                         overrides |-> cmd.overrides, flags |-> cmd.flags]
       ELSE /\ cmd' = [cmd EXCEPT !.next = @ + 1]
            /\ basis' = NoBasis
            /\ UNCHANGED last
    /\ UNCHANGED <<cluster, backend, preflight, discovery, bounds>>

WriteArtifact ==
    /\ cmd.name = "evaluate" /\ cmd.pc = "artifacts"
    /\ LET f == ArtifactOrder[cmd.next]
       IN artifacts' = [artifacts EXCEPT ![f] = cmd.payload[f]]
    /\ IF cmd.next = Len(ArtifactOrder)
       THEN /\ Ends("0")
            /\ basis' = [kind |-> "complete", epoch |-> ObservedEpoch,
                         overrides |-> cmd.overrides, flags |-> cmd.flags]
       ELSE /\ cmd' = [cmd EXCEPT !.next = @ + 1]
            /\ basis' = NoBasis
            /\ UNCHANGED last
    /\ UNCHANGED <<cluster, backend, preflight, discovery, bounds>>

\* write_text truncates and then writes: a process that dies there, or runs
\* into an OSError, leaves the file as it was or cut off.  (One that dies
\* before it writes leaves nothing behind at all.)
WriteFails ==
    /\ cmd # Idle /\ cmd.pc \in {"write", "artifacts"}
    /\ failures < MaxFailures
    /\ failures' = failures + 1
    /\ Ends("failed")
    /\ \E torn \in BOOLEAN :
          /\ preflight' = IF torn /\ cmd.name = "preflight" THEN Torn ELSE preflight
          /\ discovery' = IF torn /\ cmd.name = "discover" THEN Torn ELSE discovery
          /\ artifacts' = IF torn /\ cmd.name = "evaluate"
                          THEN [artifacts EXCEPT ![ArtifactOrder[cmd.next]] = Torn]
                          ELSE artifacts
          /\ basis' = IF torn /\ cmd.name = "evaluate" THEN NoBasis ELSE basis
    /\ UNCHANGED <<cluster, backend, epoch, commands>>

\* The cluster changes; a snapshot only does so between commands, which read
\* it once.
ClusterChanges ==
    /\ epoch < MaxChanges
    /\ backend = "fixture" => cmd = Idle
    /\ epoch' = epoch + 1
    /\ cluster' \in Clusters \ {cluster}
    /\ UNCHANGED <<backend, fileVars, cmd, last, commands, failures>>

Next ==
    \/ StartPreflight \/ CheckConnectivity \/ RunCheck
    \/ ClusterInfoRaises \/ ReadClusterInfo \/ WritePreflight
    \/ StartDiscover \/ ProbeSection \/ ProbeRaises \/ WriteDiscovery
    \/ \E o \in Options : \/ StartEvaluate(o.overrides, o.flags)
                          \/ RefuseEvaluate(o.overrides, o.flags)
    \/ WriteArtifact \/ WriteFails \/ ClusterChanges

Spec == Init /\ [][Next]_vars

-----------------------------------------------------------------------------
(* Properties. *)

\* The profiles of a family that the cluster itself offers.
Available(f) ==
    DOMAIN Matrix[f] \cap
        CASE f = "storage" -> {cluster.storage[i].name : i \in 1..Len(cluster.storage)}
          [] f = "ingress_network" -> _storage_and_ingress.ingress
          [] f = "gitops_controller" -> Detected(GITOPS_SIGNATURES)
          [] f = "secret" -> Detected(SECRET_SIGNATURES)
          [] OTHER -> {}

\* What may be selected for a family, given the overrides.
Selectable(f, overrides) ==
    IF f \in DOMAIN overrides THEN {overrides[f]} \cap DOMAIN Matrix[f]
    ELSE Available(f)

Fits(table, id) == id \in DOMAIN table /\ table[id] = <<>>

Release == SubSeq(cluster.info.version, 1, 2)

GatewayIsPartial ==
    cluster.crds \cap GatewayCrds # {} /\ ~(GATEWAY_REQUIRED_CRDS \subseteq cluster.crds)

PlatformFits ==
    Fits(Versions, Release) /\ Fits(Distributions, cluster.info.distribution)

\* The grade is blocked exactly when the platform is unknown or a family has
\* nothing selectable; it is supported only if platform, profiles and gateway
\* CRDs need no condition, and is so when nothing selectable does.  (A
\* preflight without connectivity skips the gateway check, and the grade
\* does not know.)
GradeFits(grade, overrides) ==
    LET selectable == [f \in Families |-> Selectable(f, overrides)]
    IN /\ grade = "blocked" <=>
              \/ Release \notin DOMAIN Versions
              \/ cluster.info.distribution \notin DOMAIN Distributions
              \/ \E f \in Families : selectable[f] = {}
       /\ grade = "supported" =>
              /\ PlatformFits
              /\ cluster.reachable => ~GatewayIsPartial
              /\ \A f \in Families : \E p \in selectable[f] : Fits(Matrix[f], p)
       /\ grade = "conditional" =>
              ~ /\ PlatformFits /\ ~GatewayIsPartial
                /\ \A f \in Families : \A p \in selectable[f] : Fits(Matrix[f], p)

\* The mode keeps to what the operator allowed, and to what the cluster
\* offers where the operator left that to discovery.
ModeFits(mode, flags) ==
    LET offered == Detected(GITOPS_SIGNATURES) # {}
                   /\ \E s \in cluster.services : _onboardable_candidate(s)
    IN /\ mode = "quickstart" <=> flags.evaluation_only
       /\ mode \in {"hybrid", "standalone"} => flags.allow_new_backend_components
       /\ mode = "attach" => ~flags.allow_new_backend_components
       /\ flags.existing = "auto" =>
             /\ mode \in {"attach", "hybrid"} => offered
             /\ mode = "standalone" => ~offered

\* From observation to verdict: when both reports were taken of the cluster
\* as it is, however often commands failed and were run again, a completed
\* evaluate gives the grade and the mode that the cluster calls for.
VerdictMatchesCluster ==
    (basis # NoBasis /\ basis.epoch = epoch) =>
        /\ GradeFits(artifacts["compatibility_result"].grade, basis.overrides)
        /\ ModeFits(artifacts["compatibility_result"].mode, basis.flags)

\* A subject that passes required_permissions can observe everything the
\* engine reads: as long as the cluster has not changed since that preflight,
\* no check of it failed to execute and no later discover was refused.
PermissionsCoverReads ==
    Loads(preflight) => (
        (preflight.from = epoch /\ preflight.to = epoch
         /\ preflight.checks[1] = Pass /\ preflight.checks[2] = Pass) =>
            /\ \A i \in 1..Len(preflight.checks) :
                  preflight.checks[i].reason # "check_execution_error"
            /\ last # [name |-> "discover", exit |-> "traceback"])

\* The four artifacts are written one after another over those of an earlier
\* run.  Once an evaluate has exited with 0 they are of one piece: the same
\* cluster, one mode, one list of reasons, and a family that has no profile
\* in the capability matrix, nor in the overrides, among the reasons.
ArtifactsAgreeUnlessInterrupted ==
    basis # NoBasis =>
        LET matrix == artifacts["capability_matrix"]
            result == artifacts["compatibility_result"]
            mode == artifacts["mode_recommendation"]
            list == artifacts["remediation_list"]
        IN /\ \A f \in ToSet(ArtifactOrder) :
                 Loads(artifacts[f]) /\ artifacts[f].cluster = result.cluster
           /\ result.mode = mode.mode
           /\ result.reasons = list.remediations
           /\ \A f \in Discoverable \ DOMAIN basis.overrides :
                 matrix.capabilities[f].default = NoProfile =>
                     "missing_required_profile" \in ToSet(list.remediations)

=============================================================================
