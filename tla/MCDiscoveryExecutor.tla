------------------------ MODULE MCDiscoveryExecutor ------------------------
(***************************************************************************)
(* Clusters, overrides and flags for TLC: one cluster that is supported    *)
(* throughout and the ones that differ from it in a single respect.        *)
(***************************************************************************)
EXTENDS DiscoveryExecutor

Class(name, default) == [name |-> name, default |-> default]

Good == [
    info |-> [name |-> "c1", version |-> <<"1", "29", "4">>, distribution |-> "eks"],
    reachable |-> TRUE, granted |-> READ_PERMISSIONS, apis |-> TRUE,
    crds |-> GATEWAY_REQUIRED_CRDS \cup {"applications.argoproj",
                                         "externalsecrets.external-secrets"},
    workloads |-> {"nginx"},
    storage |-> <<Class("gp3-csi", TRUE), Class("nfs-rwx", FALSE)>>,
    services |-> {[system |-> FALSE, ports |-> 1], [system |-> TRUE, ports |-> 1]}]

Denied(resource) == [Good EXCEPT !.granted = @ \ {resource}]

MCClusters == {
    Good, Denied("nodes"), Denied("ingressclasses"), Denied("crds"),
    [Good EXCEPT !.reachable = FALSE],
    [Good EXCEPT !.crds = @ \ {"httproutes.gateway"}],
    [Good EXCEPT !.crds = {"kustomizations.toolkit.fluxcd"},
                 !.workloads = {"vault-server", "nginx"}],
    [Good EXCEPT !.crds = @ \ {"applications.argoproj"},
                 !.workloads = {"source-controller in gitops"}],
    [Good EXCEPT !.storage = <<>>, !.apis = FALSE],
    [Good EXCEPT !.storage = <<Class("gp3-csi", FALSE), Class("nfs-rwx", TRUE)>>,
                 !.services = {[system |-> FALSE, ports |-> 0]}],
    [Good EXCEPT !.storage = <<Class("local-path", FALSE)>>,
                 !.info.distribution = "kind"],
    [Good EXCEPT !.info.version = <<"1", "31">>],
    [Good EXCEPT !.info.version = <<"unknown">>]}

Identity == [object_storage |-> "s3-compatible", identity |-> "oidc"]

Flag(only, allow, require, existing) ==
    [evaluation_only |-> only, allow_new_backend_components |-> allow,
     require_in_cluster_collectors |-> require, existing |-> existing]

Option(overrides, flags) == [overrides |-> overrides, flags |-> flags]

MCOptions == {
    Option(Identity, Flag(FALSE, TRUE, TRUE, "auto")),
    Option([storage |-> "gp3-csi"] @@ Identity, Flag(FALSE, FALSE, TRUE, "auto")),
    Option([Identity EXCEPT !.identity = "saml"], Flag(FALSE, FALSE, FALSE, "true")),
    Option(<<>>, Flag(TRUE, FALSE, TRUE, "auto"))}

\* The sample evaluations and decisions of GRADING_RULES and
\* MODE_DECISION_TABLE, reasons in order.
Sample(storage, identity, secret, ingress, gitops) ==
    [storage |-> storage, object_storage |-> "s3-compatible", identity |-> identity,
     secret |-> secret, ingress_network |-> ingress, gitops_controller |-> gitops]

ASSUME SamplesAreReproduced ==
    /\ grade_compatibility(<<"1", "29">>, "eks",
           Sample("gp3-csi", "oidc", "external-secrets", "nginx-ingress", "argocd"),
           <<>>) = <<>>
    /\ grade_compatibility(<<"1", "30">>, "openshift",
           Sample("nfs-rwx", "saml", "vault", "gateway-api", "flux"), <<>>) =
       <<"gateway_api_crds_required", "security_context_profile_adjustment",
         "throughput_validation_required", "group_mapping_validation_required",
         "application_set_equivalent_required">>
    /\ grade_compatibility(<<"1", "26">>, "eks",
           Sample("gp3-csi", "oidc", "external-secrets", "nginx-ingress", "argocd"),
           <<>>) = <<"unsupported_kubernetes_version">>
    /\ grade_compatibility(<<"1", "29">>, "kind",
           Sample("standard-rwo", "static-users", "external-secrets",
                  "nginx-ingress", "argocd"), <<>>) =
       <<"disposable_evidence_harness_only", "short_lived_usage_only">>

=============================================================================
