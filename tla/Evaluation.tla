----------------------------- MODULE Evaluation -----------------------------
(***************************************************************************)
(* `obskit evaluate` as functions (tools/obskit/obskit/evaluate.py): from  *)
(* one preflight report and one discovery report to the capability matrix, *)
(* the compatibility grade, the mode recommendation and the remediations,  *)
(* with the tables of contracts/compatibility.  A version is the sequence  *)
(* of its dotted parts; rationales and the wording of actions are left out.*)
(***************************************************************************)
EXTENDS Integers, SequencesExt

NoProfile == "no profile"     \* None

-----------------------------------------------------------------------------
(* The contract tables: what each entry contributes to the reasons. *)

\* Entries that are supported and entries with a condition.
Table(supported, conditions) ==
    [id \in supported \cup DOMAIN conditions |->
        IF id \in supported THEN <<>> ELSE <<conditions[id]>>]

Versions ==
    Table({<<"1", "28">>, <<"1", "29">>},
          [v \in {<<"1", "30">>} |-> "gateway_api_crds_required"])

Distributions ==
    Table({"eks", "gke", "aks"},
          [kubeadm |-> "ingress_controller_required",
           openshift |-> "security_context_profile_adjustment",
           kind |-> "disposable_evidence_harness_only"])

Families == {"storage", "object_storage", "identity", "secret",
             "ingress_network", "gitops_controller"}

Matrix == [
    storage |-> Table({"gp3-csi", "standard-rwo"},
        [id \in {"nfs-rwx"} |-> "throughput_validation_required"]),
    object_storage |-> Table({"s3-compatible"},
        [id \in {"azure-blob-s3-gateway", "gcs-s3-gateway"} |->
            "snapshot_plugin_validation_required"]),
    identity |-> Table({"oidc"},
        [id \in {"saml", "static-users"} |->
            IF id = "saml" THEN "group_mapping_validation_required"
            ELSE "short_lived_usage_only"]),
    secret |-> Table({"external-secrets", "vault"},
        [id \in {"sealed-secrets"} |-> "manual_rotation_policy_required"]),
    ingress_network |-> Table({"nginx-ingress", "gateway-api"},
        [id \in {"traefik"} |-> "header_forwarding_validation_required"]),
    gitops_controller |-> Table({"argocd"},
        [id \in {"flux"} |-> "application_set_equivalent_required"])]

\* PROFILE_CATALOG of the discoverable families, in the order of preference;
\* the catalog's default_profile is the first of each.
Catalog == [
    storage |-> <<"gp3-csi", "standard-rwo", "nfs-rwx">>,
    ingress_network |-> <<"nginx-ingress", "gateway-api", "traefik">>,
    gitops_controller |-> <<"argocd", "flux">>,
    secret |-> <<"external-secrets", "vault", "sealed-secrets">>]

Discoverable == DOMAIN Catalog

BlockedCodes == {"unsupported_kubernetes_version", "unsupported_distribution",
                 "missing_required_profile", "missing_prerequisite"}

\* Every code REMEDIATION_CATALOG has an entry for.
Remediations ==
    BlockedCodes \cup {"gateway_api_crds_required", "ingress_controller_required",
        "security_context_profile_adjustment", "throughput_validation_required",
        "snapshot_plugin_validation_required", "group_mapping_validation_required",
        "short_lived_usage_only", "manual_rotation_policy_required",
        "header_forwarding_validation_required",
        "application_set_equivalent_required", "disposable_evidence_harness_only"}

\* The rules in ascending priority.
ModeRules == <<
    [id |-> "quickstart-eval", recommend |-> "quickstart",
     when |-> [evaluation_only |-> TRUE]],
    [id |-> "attach-existing-stack", recommend |-> "attach",
     when |-> [has_compatible_existing_services |-> TRUE,
               allow_new_backend_components |-> FALSE]],
    [id |-> "hybrid-shared-backend", recommend |-> "hybrid",
     when |-> [has_compatible_existing_services |-> TRUE,
               allow_new_backend_components |-> TRUE,
               require_in_cluster_collectors |-> TRUE]],
    [id |-> "standalone-full-stack", recommend |-> "standalone",
     when |-> [has_compatible_existing_services |-> FALSE,
               allow_new_backend_components |-> TRUE]]>>

-----------------------------------------------------------------------------
(* Capabilities and profiles. *)

\* The elements at some positions of a sequence, in their order.
Pick(seq, positions) ==
    LET picked[n \in 0..Len(seq)] ==
            IF n = 0 THEN <<>>
            ELSE IF n \in positions THEN Append(picked[n - 1], seq[n])
            ELSE picked[n - 1]
    IN picked[Len(seq)]

\* The first element, or otherwise.
FirstOr(seq, otherwise) == IF seq = <<>> THEN otherwise ELSE Head(seq)

_candidates(f, observed) ==
    Pick(Catalog[f], {i \in DOMAIN Catalog[f] : Catalog[f][i] \in observed})

\* Mutant: the catalog's default is taken without being a candidate.
MutDefaultFromCandidates(f, candidates, preferred) ==
    IF preferred \in ToSet(candidates) THEN preferred ELSE Head(Catalog[f])

\* The preferred candidate, else the first one: the catalog's default, which
\* comes first, is first among the candidates whenever it is one.
_default_from_candidates(f, candidates, preferred) ==
    IF preferred \in ToSet(candidates) THEN preferred
    ELSE FirstOr(candidates, NoProfile)

\* The names a discovery report has for a family.
Observed(disc, f) ==
    CASE f = "storage" -> {disc.storage[i].name : i \in 1..Len(disc.storage)}
      [] f = "ingress_network" -> disc.ingress
      [] f = "gitops_controller" -> disc.gitops
      [] f = "secret" -> disc.secrets

DefaultClass(disc) ==
    LET marked == Pick(disc.storage,
                       {i \in 1..Len(disc.storage) : disc.storage[i].default})
    IN IF marked = <<>> THEN NoProfile ELSE marked[1].name

build_capability_matrix(disc) ==
    [f \in Discoverable |->
        LET candidates == _candidates(f, Observed(disc, f))
        IN [candidates |-> candidates,
            default |-> _default_from_candidates(f, candidates,
                IF f = "storage" THEN DefaultClass(disc) ELSE NoProfile)]]

\* Overrides win over what was discovered.
resolve_profiles(capabilities, overrides) ==
    [f \in Families |->
        IF f \in DOMAIN overrides THEN overrides[f]
        ELSE IF f \in Discoverable THEN capabilities[f].default
        ELSE NoProfile]

-----------------------------------------------------------------------------
(* The grade. *)

_dedupe(reasons) ==
    Pick(reasons, {i \in 1..Len(reasons) : \A k \in 1..(i - 1) : reasons[k] # reasons[i]})

_matrix_entry(table, id, code) ==
    IF id \in DOMAIN table THEN table[id] ELSE <<code>>

_normalize_version(version) == SubSeq(version, 1, 2)

grade_of(reasons) ==
    IF ToSet(reasons) \cap BlockedCodes # {} THEN "blocked"
    ELSE IF reasons # <<>> THEN "conditional" ELSE "supported"

grade_compatibility(version, distribution, profiles, extra) ==
    LET entry(f) == _matrix_entry(Matrix[f], profiles[f], "missing_required_profile")
    IN _dedupe(
        _matrix_entry(Versions, _normalize_version(version),
                      "unsupported_kubernetes_version")
        \o _matrix_entry(Distributions, distribution, "unsupported_distribution")
        \o entry("storage") \o entry("object_storage") \o entry("identity")
        \o entry("secret") \o entry("ingress_network") \o entry("gitops_controller")
        \o extra)

preflight_conditions(pre) ==
    LET folded == {i \in 1..Len(pre.checks) :
                      /\ pre.checks[i].status \in {"fail", "warn"}
                      /\ pre.checks[i].reason \in Remediations}
    IN _dedupe(Pick([i \in 1..Len(pre.checks) |-> pre.checks[i].reason], folded))

-----------------------------------------------------------------------------
(* The mode. *)

derive_has_compatible_existing_services(disc) ==
    disc.gitops # {} /\ TRUE \in disc.services

Matches(rule, inputs) == \A k \in DOMAIN rule.when : inputs[k] = rule.when[k]

NoRule == [id |-> "none", recommend |-> "none", when |-> <<>>]

resolve_mode(inputs) ==
    FirstOr(Pick(ModeRules, {i \in DOMAIN ModeRules : Matches(ModeRules[i], inputs)}),
            NoRule)

\* flags.existing is "auto", TRUE or FALSE (--has-compatible-existing-services).
mode_inputs(disc, flags) ==
    [evaluation_only |-> flags.evaluation_only,
     allow_new_backend_components |-> flags.allow_new_backend_components,
     require_in_cluster_collectors |-> flags.require_in_cluster_collectors,
     has_compatible_existing_services |->
         IF flags.existing = "auto"
         THEN derive_has_compatible_existing_services(disc)
         ELSE flags.existing = "true"]

-----------------------------------------------------------------------------
(* The pipeline. *)

Reasons(pre, disc, overrides) ==
    grade_compatibility(disc.cluster.version, disc.cluster.distribution,
        resolve_profiles(build_capability_matrix(disc), overrides),
        preflight_conditions(pre))

\* What raises EvaluationError: reports of different clusters, a family that
\* does not exist, a version without a minor part, a gap in the mode table,
\* a reason without remediation.
Evaluates(pre, disc, overrides, flags) ==
    /\ pre.cluster = disc.cluster
    /\ DOMAIN overrides \subseteq Families
    /\ Len(disc.cluster.version) >= 2
    /\ resolve_mode(mode_inputs(disc, flags)) # NoRule
    /\ ToSet(Reasons(pre, disc, overrides)) \subseteq Remediations

evaluate_reports(pre, disc, overrides, flags) ==
    LET reasons == Reasons(pre, disc, overrides)
        decision == resolve_mode(mode_inputs(disc, flags))
        name == disc.cluster.name
    IN [capability_matrix |->
            [kind |-> "capability_matrix", cluster |-> name,
             capabilities |-> build_capability_matrix(disc)],
        compatibility_result |->
            [kind |-> "compatibility_result", cluster |-> name,
             grade |-> grade_of(reasons), reasons |-> reasons,
             mode |-> decision.recommend, remediation_list |-> reasons],
        mode_recommendation |->
            [kind |-> "mode_recommendation", cluster |-> name,
             inputs |-> mode_inputs(disc, flags),
             derived |-> flags.existing = "auto", rule_id |-> decision.id,
             mode |-> decision.recommend],
        remediation_list |->
            [kind |-> "remediation_list", cluster |-> name,
             remediations |-> reasons]]

=============================================================================
