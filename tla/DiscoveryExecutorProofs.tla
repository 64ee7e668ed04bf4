----------------------- MODULE DiscoveryExecutorProofs -----------------------
(***************************************************************************)
(* Proofs about the discovery executor and the evaluation it runs:         *)
(* PermissionsSuffice (what READ_PERMISSIONS is for), from ReportsInv,     *)
(* which says what a report taken of the cluster as it is contains;        *)
(* ArtifactsAreOfOnePiece and VerdictsAreRight (the artifacts agree with   *)
(* one another and with the cluster), from ArtifactsInv, which keeps the   *)
(* two reports that the artifacts on disk were computed from.              *)
(*                                                                         *)
(* Facts about sequences of any length (what Pick, _dedupe and the         *)
(* concatenation of reasons hold) are proved by taking the least prefix at *)
(* which they would fail.                                                  *)
(***************************************************************************)
EXTENDS DiscoveryExecutor, SequenceTheorems, WellFoundedInduction, TLAPS

-----------------------------------------------------------------------------
(* Picking from a sequence. *)

\* A set of numbers that is not empty has a least element.
LEMMA Least ==
    ASSUME NEW S \in SUBSET Nat, S # {}
    PROVE \E n \in S : \A m \in S : n <= m
PROOF
  <1>1. PICK n \in S : \A m \in S : ~(<<m, n>> \in OpToRel(<, Nat))
    BY WFMin, NatLessThanWellFounded
  <1>2. \A m \in S : n <= m
    <2> SUFFICES ASSUME NEW m \in S PROVE n <= m
      OBVIOUS
    <2>1. m \in Nat /\ n \in Nat
      OBVIOUS
    <2>2. m < n => <<m, n>> \in OpToRel(<, Nat)
      BY <2>1, Zenon DEF OpToRel
    <2>3. ~(m < n)
      BY <1>1, <2>2
    <2> QED
      BY <2>1, <2>3
  <1> QED
    BY <1>2

\* A run of the loop of Pick over the first m elements.
Picking(g, seq, positions, m) ==
    g = [n \in 0..m |-> IF n = 0 THEN <<>>
                        ELSE IF n \in positions THEN Append(g[n - 1], seq[n])
                        ELSE g[n - 1]]

\* The loop can be run over as many elements as there are.
LEMMA PickingExists ==
    ASSUME NEW seq, NEW positions, NEW len \in Nat
    PROVE \E g : Picking(g, seq, positions, len)
PROOF
  <1> DEFINE bad == {m \in Nat : ~ \E g : Picking(g, seq, positions, m)}
  <1>1. SUFFICES ASSUME bad # {} PROVE FALSE
    OBVIOUS
  <1>2. PICK m \in bad : \A k \in bad : m <= k
    BY <1>1, Least
  <1>3. m # 0
    <2>1. Picking([n \in 0..0 |-> <<>>], seq, positions, 0)
      BY DEF Picking
    <2> QED
      BY <2>1
  <1>4. m - 1 \in Nat /\ m - 1 \notin bad
    BY <1>2, <1>3
  <1>5. PICK g : Picking(g, seq, positions, m - 1)
    BY <1>4
  <1> DEFINE last_ == IF m \in positions THEN Append(g[m - 1], seq[m]) ELSE g[m - 1]
             h == [n \in 0..m |-> IF n = m THEN last_ ELSE g[n]]
  <1>6. \A n \in 0..(m - 1) : h[n] = g[n]
    BY <1>4
  <1>7. h[m] = last_
    BY <1>4
  <1>8. \A n \in 0..m : h[n] = IF n = 0 THEN <<>>
                               ELSE IF n \in positions THEN Append(h[n - 1], seq[n])
                               ELSE h[n - 1]
    <2> SUFFICES ASSUME NEW n \in 0..m
                 PROVE h[n] = IF n = 0 THEN <<>>
                               ELSE IF n \in positions THEN Append(h[n - 1], seq[n])
                               ELSE h[n - 1]
      OBVIOUS
    <2> HIDE DEF h
    <2>1. CASE n = m
      <3>1. h[m - 1] = g[m - 1]
        BY <1>4, <1>6
      <3> QED
        BY <2>1, <3>1, <1>3, <1>7
    <2>2. CASE n # m
      <3>1. n \in 0..(m - 1) /\ (n # 0 => n - 1 \in 0..(m - 1))
        BY <2>2, <1>4
      <3>2. h[n] = g[n] /\ (n # 0 => h[n - 1] = g[n - 1])
        BY <3>1, <1>6
      <3>3. g[n] = IF n = 0 THEN <<>>
                               ELSE IF n \in positions THEN Append(g[n - 1], seq[n])
                               ELSE g[n - 1]
        BY <3>1, <1>5 DEF Picking
      <3> QED
        BY <3>2, <3>3
    <2> QED
      BY <2>1, <2>2
  <1>9. Picking(h, seq, positions, m)
    <2>1. h = [n \in 0..m |-> h[n]]
      OBVIOUS
    <2> HIDE DEF h
    <2> QED
      BY <2>1, <1>8 DEF Picking
  <1> QED
    BY <1>9

\* Pick is such a run.
LEMMA PickIsPicking ==
    ASSUME NEW seq, NEW positions, Len(seq) \in Nat
    PROVE \E g : Picking(g, seq, positions, Len(seq)) /\ Pick(seq, positions) = g[Len(seq)]
PROOF
  <1> DEFINE g == CHOOSE f : Picking(f, seq, positions, Len(seq))
  <1>1. Picking(g, seq, positions, Len(seq))
    BY PickingExists
  <1>2. Pick(seq, positions) = g[Len(seq)]
    BY DEF Pick, Picking
  <1> QED
    BY <1>1, <1>2

\* The elements of a longer sequence.
LEMMA AppendElements ==
    ASSUME NEW T, NEW s \in Seq(T), NEW x \in T
    PROVE /\ Append(s, x) \in Seq(T) /\ ToSet(Append(s, x)) = ToSet(s) \cup {x}
          /\ Append(s, x) # <<>> /\ (s # <<>> => Append(s, x)[1] = s[1])
          /\ (s = <<>> => Append(s, x)[1] = x)
PROOF
  <1>1. DOMAIN s = 1..Len(s) /\ Len(s) \in Nat
    OBVIOUS
  <1>2. /\ Append(s, x) \in Seq(T) /\ Len(Append(s, x)) = Len(s) + 1
        /\ DOMAIN Append(s, x) = 1..(Len(s) + 1)
        /\ Append(s, x)[Len(s) + 1] = x
        /\ \A i \in 1..Len(s) : Append(s, x)[i] = s[i]
    OBVIOUS
  <1>3. 1..(Len(s) + 1) = (1..Len(s)) \cup {Len(s) + 1}
    BY <1>1
  <1>4. ToSet(Append(s, x)) = ToSet(s) \cup {x}
    <2>1. ToSet(Append(s, x)) = {Append(s, x)[i] : i \in (1..Len(s)) \cup {Len(s) + 1}}
      BY <1>2, <1>3 DEF ToSet
    <2>2. ToSet(s) = {s[i] : i \in 1..Len(s)}
      BY <1>1 DEF ToSet
    <2> QED
      BY <2>1, <2>2, <1>2
  <1>5. s # <<>> => 1 \in 1..Len(s)
    OBVIOUS
  <1> QED
    BY <1>2, <1>4, <1>5

\* A sequence without elements is empty.
LEMMA NoElements ==
    ASSUME NEW T, NEW s \in Seq(T)
    PROVE ToSet(s) = {} <=> s = <<>>
PROOF
  <1>1. s # <<>> => 1 \in DOMAIN s
    OBVIOUS
  <1> QED
    BY <1>1 DEF ToSet

\* The elements at the first n positions.
Picked(seq, positions, n) == {seq[i] : i \in (1..n) \cap positions}

\* What the loop has picked after n elements.
LEMMA PickingElements ==
    ASSUME NEW T, NEW seq \in Seq(T), NEW positions, NEW g,
           Picking(g, seq, positions, Len(seq)), NEW n \in 0..Len(seq)
    PROVE /\ g[n] \in Seq(T)
          /\ ToSet(g[n]) = Picked(seq, positions, n)
PROOF
  <1> DEFINE claim(m) ==
               /\ g[m] \in Seq(T)
               /\ ToSet(g[m]) = Picked(seq, positions, m)
             bad == {m \in 0..Len(seq) : ~claim(m)}
  <1>1. Len(seq) \in Nat /\ \A i \in 1..Len(seq) : seq[i] \in T
    OBVIOUS
  <1>2. SUFFICES ASSUME bad # {} PROVE FALSE
    OBVIOUS
  <1>3. PICK m \in bad : \A k \in bad : m <= k
    <2>1. bad \in SUBSET Nat
      BY <1>1
    <2> QED
      BY <1>2, <2>1, Least
  <1>4. g[m] = IF m = 0 THEN <<>>
               ELSE IF m \in positions THEN Append(g[m - 1], seq[m])
               ELSE g[m - 1]
    BY DEF Picking
  <1>5. m # 0
    <2>1. g[0] = <<>>
      BY <1>1 DEF Picking
    <2>2. claim(0)
      BY <2>1 DEF ToSet, Picked
    <2> QED
      BY <2>2
  <1>6. m \in Nat /\ m - 1 \in 0..Len(seq) /\ m \in 1..Len(seq) /\ 1..m = (1..(m - 1)) \cup {m}
    BY <1>1, <1>5
  <1>7. claim(m - 1)
    <2>1. m - 1 \notin bad
      <3> HIDE DEF bad
      <3> QED
        BY <1>3, <1>6
    <2> QED
      BY <2>1, <1>6
  <1>8. CASE m \notin positions
    <2>1. g[m] = g[m - 1]
      BY <1>4, <1>5, <1>8
    <2>2. claim(m)
      BY <2>1, <1>7, <1>6, <1>8 DEF Picked
    <2> QED
      BY <2>2
  <1>9. CASE m \in positions
    <2>1. g[m] = Append(g[m - 1], seq[m])
      BY <1>4, <1>5, <1>9
    <2>2. seq[m] \in T /\ g[m - 1] \in Seq(T)
      BY <1>1, <1>6, <1>7
    <2>3. g[m] \in Seq(T) /\ ToSet(g[m]) = ToSet(g[m - 1]) \cup {seq[m]}
      BY <2>1, <2>2, AppendElements
    <2>4. ToSet(g[m]) = Picked(seq, positions, m)
      BY <2>3, <1>7, <1>6, <1>9 DEF Picked
    <2> QED
      BY <2>1, <2>3, <2>4
  <1> QED
    BY <1>8, <1>9

\* Pick returns what stands at the positions.
LEMMA PickElements ==
    ASSUME NEW T, NEW seq \in Seq(T), NEW positions
    PROVE /\ Pick(seq, positions) \in Seq(T)
          /\ ToSet(Pick(seq, positions)) = Picked(seq, positions, Len(seq))
PROOF
  <1>1. Len(seq) \in Nat
    OBVIOUS
  <1>2. PICK g : Picking(g, seq, positions, Len(seq)) /\ Pick(seq, positions) = g[Len(seq)]
    BY <1>1, PickIsPicking
  <1>3. Len(seq) \in 0..Len(seq)
    BY <1>1
  <1> QED
    BY <1>2, <1>3, PickingElements

\* What Pick returns begins with what stands at the first position.
LEMMA PickFirst ==
    ASSUME NEW T, NEW seq \in Seq(T), NEW positions,
           NEW first \in 1..Len(seq), first \in positions,
           \A k \in 1..(first - 1) : k \notin positions
    PROVE Pick(seq, positions) # <<>> /\ Head(Pick(seq, positions)) = seq[first]
PROOF
  <1>1. Len(seq) \in Nat /\ \A i \in 1..Len(seq) : seq[i] \in T
    OBVIOUS
  <1>2. PICK g : Picking(g, seq, positions, Len(seq)) /\ Pick(seq, positions) = g[Len(seq)]
    BY <1>1, PickIsPicking
  <1>3. \A n \in 0..Len(seq) : g[n] \in Seq(T) /\
           ToSet(g[n]) = Picked(seq, positions, n)
    BY <1>2, PickingElements
  <1> DEFINE bad == {m \in first..Len(seq) : ~(g[m] # <<>> /\ g[m][1] = seq[first])}
  <1>4. bad = {}
    <2> SUFFICES ASSUME bad # {} PROVE FALSE
      OBVIOUS
    <2>1. PICK m \in bad : \A k \in bad : m <= k
      <3>1. bad \in SUBSET Nat
        BY <1>1
      <3> QED
        BY <3>1, Least
    <2>2. m \in 0..Len(seq) /\ m \in 1..Len(seq) /\ m # 0 /\ m \in Nat /\ m - 1 \in 0..Len(seq) /\ first \in Nat
      BY <1>1
    <2>3. g[m] = IF m = 0 THEN <<>>
                 ELSE IF m \in positions THEN Append(g[m - 1], seq[m]) ELSE g[m - 1]
      BY <2>2, <1>2 DEF Picking
    <2>4. g[m - 1] \in Seq(T) /\ seq[m] \in T
      BY <2>2, <1>3, <1>1
    <2>5. CASE m = first
      <3>1. ToSet(g[m - 1]) = {}
        <4>1. \A i \in 1..(m - 1) : i \notin positions
          BY <2>5
        <4> QED
          BY <4>1, <1>3, <2>2 DEF Picked
      <3>2. g[m - 1] = <<>>
        BY <3>1, <2>4, NoElements
      <3> QED
        BY <3>2, <2>2, <2>3, <2>4, <2>5, AppendElements
    <2>6. CASE m # first
      <3>1. m - 1 \in first..Len(seq)
        BY <2>6, <2>2
      <3>2. m - 1 \notin bad
        BY <2>1, <2>2
      <3>3. g[m - 1] # <<>> /\ g[m - 1][1] = seq[first]
        BY <3>1, <3>2
      <3>4. CASE m \in positions
        <4>1. g[m] = Append(g[m - 1], seq[m])
          BY <3>4, <2>2, <2>3
        <4>2. PICK a : a = Append(g[m - 1], seq[m])
          OBVIOUS
        <4>3. a # <<>> /\ a[1] = g[m - 1][1]
          BY <4>2, <3>3, <2>4, AppendElements
        <4>4. g[m] = a
          BY <4>1, <4>2
        <4> QED
          BY <3>3, <4>3, <4>4
      <3>5. CASE m \notin positions
        BY <3>3, <3>5, <2>2, <2>3
      <3> QED
        BY <3>4, <3>5
    <2> QED
      BY <2>5, <2>6
  <1>5. Len(seq) \in first..Len(seq) /\ Len(seq) \in 0..Len(seq)
    BY <1>1
  <1>6. g[Len(seq)] # <<>> /\ g[Len(seq)][1] = seq[first] /\ g[Len(seq)] \in Seq(T)
    BY <1>4, <1>5, <1>3
  <1> QED
    BY <1>2, <1>6

\* Removing the repetitions of a sequence keeps its elements.
LEMMA DedupeElements ==
    ASSUME NEW T, NEW seq \in Seq(T)
    PROVE _dedupe(seq) \in Seq(T) /\ ToSet(_dedupe(seq)) = ToSet(seq)
PROOF
  <1> DEFINE first == {i \in 1..Len(seq) : \A k \in 1..(i - 1) : seq[k] # seq[i]}
  <1>1. /\ _dedupe(seq) \in Seq(T)
        /\ ToSet(_dedupe(seq)) = Picked(seq, first, Len(seq))
    BY PickElements DEF _dedupe
  <1>2. ASSUME NEW i \in 1..Len(seq) PROVE \E n \in first : seq[n] = seq[i]
    <2> DEFINE same == {n \in 1..Len(seq) : seq[n] = seq[i]}
    <2>1. same \in SUBSET Nat /\ same # {}
      OBVIOUS
    <2>2. PICK n \in same : \A m \in same : n <= m
      BY <2>1, Least
    <2>3. n \in first
      <3> SUFFICES ASSUME NEW k \in 1..(n - 1) PROVE seq[k] # seq[n]
        BY <2>2
      <3> QED
        BY <2>2
    <2> QED
      BY <2>2, <2>3
  <1>3. ToSet(seq) = {seq[i] : i \in 1..Len(seq)}
    BY DEF ToSet
  <1> QED
    BY <1>1, <1>2, <1>3 DEF Picked

-----------------------------------------------------------------------------
(* The reports. *)

Results ==
    [status : {"pass", "fail", "warn", "skip"},
     reason : {"none", "check_execution_error", "rbac_access_missing",
               "required_api_unavailable", "gateway_api_not_in_use",
               "gateway_api_crds_required", "storage_profile_incompatible",
               "default_storage_class_missing", "gitops_controller_missing",
               "cluster_connectivity_failed", "skipped_cluster_unreachable"}]

\* What preflight reports of the cluster as it is.
CheckResult(check) ==
    IF Readable(Reads(check)) THEN evaluate_check(check)
    ELSE Result("fail", "check_execution_error")

Expected ==
    [i \in 1..6 |->
        IF i = 1
        THEN IF cluster.reachable THEN Pass
             ELSE Result("fail", "cluster_connectivity_failed")
        ELSE IF cluster.reachable THEN CheckResult(CHECKS[i - 1])
        ELSE Result("skip", "skipped_cluster_unreachable")]

\* What discover reports of it.
Sections == [n \in 1..3 |-> Section(n)]

CanProbe == Readable(SectionReads(1))

\* A running preflight of which nothing has changed since it began has the
\* results of the cluster as it is.
PreflightRun ==
    cmd.name = "preflight" =>
        /\ DOMAIN cmd = {"name", "pc", "checks", "cluster", "from"}
        /\ cmd.from \in Nat /\ cmd.from <= epoch
        /\ cmd.pc \in {"connectivity", "checks", "info", "write"}
        /\ cmd.checks \in Seq(Results)
        /\ cmd.pc = "connectivity" => cmd.checks = <<>>
        /\ cmd.pc = "checks" => Len(cmd.checks) \in 1..5 /\ cmd.checks[1] = Pass
        /\ cmd.pc \in {"info", "write"} => Len(cmd.checks) = 6
        /\ cmd.from = epoch =>
              /\ \A i \in 1..Len(cmd.checks) : cmd.checks[i] = Expected[i]
              /\ cmd.pc = "write" => cmd.cluster = cluster.info

PreflightFile ==
    Loads(preflight) =>
        /\ preflight.from \in Nat /\ preflight.to \in Nat
        /\ preflight.from <= preflight.to /\ preflight.to <= epoch
        /\ preflight.checks \in Seq(Results) /\ Len(preflight.checks) = 6
        /\ preflight.from = epoch =>
              /\ \A i \in 1..6 : preflight.checks[i] = Expected[i]
              /\ preflight.cluster = cluster.info

\* The same of a running discover and its sections.
DiscoverRun ==
    cmd.name = "discover" =>
        /\ DOMAIN cmd = {"name", "pc", "cluster", "sections", "from"}
        /\ cmd.from \in Nat /\ cmd.from <= epoch
        /\ cmd.pc \in {"info", "probes", "write"}
        /\ cmd.pc = "info" => cmd.sections = <<>>
        /\ cmd.pc = "probes" => \E a, b : cmd.sections \in {<<>>, <<a>>, <<a, b>>}
        /\ cmd.from = epoch =>
              /\ cmd.pc = "probes" =>
                    cmd.sections \in {<<>>, <<Sections[1]>>, <<Sections[1], Sections[2]>>}
              /\ cmd.pc = "write" =>
                    cmd.sections = <<Sections[1], Sections[2], Sections[3]>>
              /\ cmd.pc \in {"probes", "write"} => cmd.cluster = cluster.info
              /\ cmd.sections # <<>> => CanProbe

DiscoveryFile ==
    Loads(discovery) =>
        /\ discovery.from \in Nat /\ discovery.to \in Nat
        /\ discovery.from <= discovery.to /\ discovery.to <= epoch
        /\ discovery.from = epoch =>
              /\ discovery.cluster = cluster.info
              /\ discovery.storage = Sections[1].storage
              /\ discovery.ingress = Sections[1].ingress
              /\ discovery.gitops = Sections[2].gitops
              /\ discovery.secrets = Sections[2].secrets
              /\ discovery.services = Sections[3].services
              /\ CanProbe

\* A cluster whose preflight passed the first two checks refuses no discover.
NoRefusal ==
    (Loads(preflight) /\ preflight.from = epoch
     /\ preflight.checks[1] = Pass /\ preflight.checks[2] = Pass) =>
        last # [name |-> "discover", exit |-> "traceback"]

ReportsInv ==
    /\ epoch \in Nat
    /\ PreflightRun /\ PreflightFile
    /\ DiscoverRun /\ DiscoveryFile
    /\ NoRefusal

\* The cluster and the reader determine what is read.
LEMMA SameReads ==
    ASSUME UNCHANGED <<cluster, backend>>
    PROVE /\ Expected' = Expected
          /\ Sections' = Sections
          /\ CanProbe' = CanProbe
          /\ cluster'.info = cluster.info
PROOF
  <1>1. \A check : CheckResult(check)' = CheckResult(check)
    BY DEF CheckResult, Readable, evaluate_check, _check_required_permissions,
           _check_required_api_readiness, _check_required_crd_readiness,
           _check_storage_compatibility, _check_gitops_prerequisites, Present
  <1>2. Expected' = Expected
    BY <1>1 DEF Expected
  <1>3. \A n : Section(n)' = Section(n)
    BY DEF Section, _storage_and_ingress, _gitops_and_secrets, _workload_inventory,
           Detected, Present
  <1>4. Sections' = Sections
    BY <1>3 DEF Sections
  <1>5. CanProbe' = CanProbe
    BY DEF CanProbe, Readable
  <1> QED
    BY <1>2, <1>4, <1>5

\* Every result is a status with a reason.
LEMMA ResultsAreTyped ==
    /\ Pass \in Results
    /\ \A n \in 1..5 : CheckResult(CHECKS[n]) \in Results
    /\ Result("fail", "cluster_connectivity_failed") \in Results
    /\ Result("skip", "skipped_cluster_unreachable") \in Results
    /\ Pass # Result("fail", "cluster_connectivity_failed")
PROOF
  <1>1. /\ Result("fail", "check_execution_error") \in Results
        /\ Result("fail", "rbac_access_missing") \in Results
        /\ Result("fail", "required_api_unavailable") \in Results
        /\ Result("skip", "gateway_api_not_in_use") \in Results
        /\ Result("fail", "gateway_api_crds_required") \in Results
        /\ Result("fail", "storage_profile_incompatible") \in Results
        /\ Result("warn", "default_storage_class_missing") \in Results
        /\ Result("warn", "gitops_controller_missing") \in Results
        /\ Result("fail", "cluster_connectivity_failed") \in Results
        /\ Result("skip", "skipped_cluster_unreachable") \in Results
    BY DEF Result, Results
  <1>2. Pass \in Results
    BY DEF Pass, Result, Results
  <1>3. /\ _check_required_permissions \in Results
        /\ _check_required_api_readiness \in Results
        /\ _check_required_crd_readiness \in Results
        /\ _check_storage_compatibility \in Results
        /\ _check_gitops_prerequisites \in Results
    BY <1>1, <1>2 DEF PassIf, _check_required_permissions,
           _check_required_api_readiness, _check_required_crd_readiness,
           _check_storage_compatibility, _check_gitops_prerequisites
  <1>4. /\ CHECKS[1] = "required_permissions" /\ CHECKS[2] = "required_api_readiness"
        /\ CHECKS[3] = "required_crd_readiness" /\ CHECKS[4] = "storage_compatibility"
        /\ CHECKS[5] = "gitops_prerequisites"
    BY DEF CHECKS
  <1>5. \A n \in 1..5 : evaluate_check(CHECKS[n]) \in Results
    <2> SUFFICES ASSUME NEW n \in 1..5 PROVE evaluate_check(CHECKS[n]) \in Results
      OBVIOUS
    <2>1. n = 1 \/ n = 2 \/ n = 3 \/ n = 4 \/ n = 5
      OBVIOUS
    <2> QED
      BY <2>1, <1>3, <1>4 DEF evaluate_check
  <1>6. \A n \in 1..5 : CheckResult(CHECKS[n]) \in Results
    BY <1>1, <1>5 DEF CheckResult
  <1>7. Pass # Result("fail", "cluster_connectivity_failed")
    BY DEF Pass, Result
  <1> QED
    BY <1>1, <1>2, <1>6, <1>7

\* Nothing is observed yet.
LEMMA InitReports == Init => ReportsInv
PROOF
  BY DEF Init, ReportsInv, PreflightRun, PreflightFile, DiscoverRun, DiscoveryFile,
         NoRefusal, Loads, NoFile, Idle

\* What a step that leaves the cluster alone has to say of the reports.
LEMMA KeepsReports ==
    ASSUME ReportsInv, UNCHANGED <<cluster, backend, epoch>>
    PROVE /\ epoch' \in Nat
          /\ (cmd' = cmd \/ cmd'.name # "preflight") => PreflightRun'
          /\ (cmd' = cmd \/ cmd'.name # "discover") => DiscoverRun'
          /\ (preflight' = preflight \/ ~Loads(preflight')) => PreflightFile'
          /\ (discovery' = discovery \/ ~Loads(discovery')) => DiscoveryFile'
          /\ (preflight' = preflight \/ ~Loads(preflight'))
             /\ (last' = last \/ last'.name # "discover" \/ last'.exit # "traceback")
                => NoRefusal'
PROOF
  <1>1. Expected' = Expected /\ Sections' = Sections /\ CanProbe' = CanProbe
        /\ cluster'.info = cluster.info
    BY SameReads
  <1>2. (cmd' = cmd \/ cmd'.name # "preflight") => PreflightRun'
    BY <1>1 DEF ReportsInv, PreflightRun
  <1>3. (cmd' = cmd \/ cmd'.name # "discover") => DiscoverRun'
    BY <1>1 DEF ReportsInv, DiscoverRun
  <1>4. (preflight' = preflight \/ ~Loads(preflight')) => PreflightFile'
    BY <1>1 DEF ReportsInv, PreflightFile
  <1>5. (discovery' = discovery \/ ~Loads(discovery')) => DiscoveryFile'
    BY <1>1 DEF ReportsInv, DiscoveryFile
  <1>6. (preflight' = preflight \/ ~Loads(preflight'))
        /\ (last' = last \/ last'.name # "discover" \/ last'.exit # "traceback")
           => NoRefusal'
    BY DEF ReportsInv, NoRefusal
  <1> QED
    BY <1>2, <1>3, <1>4, <1>5, <1>6 DEF ReportsInv

\* When the cluster changes, no report and no command speaks of it any more.
LEMMA ChangeReports == ReportsInv /\ ClusterChanges => ReportsInv'
PROOF
  <1> SUFFICES ASSUME ReportsInv, ClusterChanges PROVE ReportsInv'
    OBVIOUS
  <1>1. /\ epoch \in Nat /\ epoch' = epoch + 1
        /\ UNCHANGED <<preflight, discovery, cmd, last>>
    BY DEF ClusterChanges, ReportsInv, fileVars
  <1>2. PreflightRun'
    BY <1>1 DEF ReportsInv, PreflightRun
  <1>3. PreflightFile'
    BY <1>1 DEF ReportsInv, PreflightFile
  <1>4. DiscoverRun'
    BY <1>1 DEF ReportsInv, DiscoverRun
  <1>5. DiscoveryFile'
    BY <1>1 DEF ReportsInv, DiscoveryFile
  <1>6. NoRefusal'
    BY <1>1 DEF ReportsInv, NoRefusal, PreflightFile
  <1> QED
    BY <1>1, <1>2, <1>3, <1>4, <1>5, <1>6 DEF ReportsInv

\* The results of a preflight.
LEMMA CheckReports ==
    ReportsInv /\ (StartPreflight \/ CheckConnectivity \/ RunCheck) => ReportsInv'
PROOF
  <1> SUFFICES ASSUME ReportsInv, StartPreflight \/ CheckConnectivity \/ RunCheck
               PROVE ReportsInv'
    OBVIOUS
  <1>1. UNCHANGED <<cluster, backend, epoch, preflight, discovery, last>>
    BY DEF StartPreflight, CheckConnectivity, RunCheck, fileVars, bounds
  <1>2. Expected' = Expected /\ cluster'.info = cluster.info
    BY <1>1, SameReads
  <1>3. /\ \A i \in 2..6 : Expected[i] = IF cluster.reachable THEN CheckResult(CHECKS[i - 1])
                                          ELSE Result("skip", "skipped_cluster_unreachable")
        /\ Expected[1] = IF cluster.reachable THEN Pass
                         ELSE Result("fail", "cluster_connectivity_failed")
    BY DEF Expected
  <1>4. cmd'.name = "preflight" /\ PreflightRun'
    <2>1. CASE StartPreflight
      BY <2>1, <1>1 DEF StartPreflight, Begins, ReportsInv, PreflightRun
    <2>2. CASE CheckConnectivity /\ cluster.reachable
      <3>1. cmd' = [cmd EXCEPT !.checks = <<Pass>>, !.pc = "checks"]
        BY <2>2 DEF CheckConnectivity
      <3>2. cmd.name = "preflight"
        BY <2>2 DEF CheckConnectivity
      <3>3. cmd'.checks = <<Pass>> /\ cmd'.pc = "checks" /\ cmd'.from = cmd.from
            /\ cmd'.name = "preflight" /\ DOMAIN cmd' = DOMAIN cmd
        BY <3>1, <3>2 DEF ReportsInv, PreflightRun
      <3>4. <<Pass>> \in Seq(Results) /\ Len(<<Pass>>) = 1 /\ <<Pass>>[1] = Pass
        BY ResultsAreTyped
      <3> QED
        BY <3>2, <3>3, <3>4, <2>2, <1>1, <1>2, <1>3 DEF ReportsInv, PreflightRun
    <2>3. CASE CheckConnectivity /\ ~cluster.reachable
      <3> DEFINE skipped == <<Result("fail", "cluster_connectivity_failed")>>
                            \o [i \in 1..Len(CHECKS) |->
                                   Result("skip", "skipped_cluster_unreachable")]
      <3>1. cmd' = [cmd EXCEPT !.pc = "info", !.checks = skipped]
        BY <2>3 DEF CheckConnectivity
      <3>2. cmd.name = "preflight"
        BY <2>3 DEF CheckConnectivity
      <3>3. Len(CHECKS) = 5
        BY DEF CHECKS
      <3>4. skipped \in Seq(Results) /\ Len(skipped) = 6
            /\ skipped[1] = Result("fail", "cluster_connectivity_failed")
            /\ \A i \in 2..6 : skipped[i] = Result("skip", "skipped_cluster_unreachable")
        BY <3>3, ResultsAreTyped
      <3> HIDE DEF skipped
      <3>5. cmd'.checks = skipped /\ cmd'.pc = "info" /\ cmd'.from = cmd.from
            /\ cmd'.name = "preflight" /\ DOMAIN cmd' = DOMAIN cmd
        BY <3>1, <3>2 DEF ReportsInv, PreflightRun
      <3>6. \A i \in 1..6 : skipped[i] = Expected[i]
        BY <3>4, <1>3, <2>3
      <3> QED
        BY <3>2, <3>4, <3>5, <3>6, <1>1, <1>2 DEF ReportsInv, PreflightRun
    <2>4. CASE RunCheck
      <3> DEFINE n == Len(cmd.checks)
      <3>1. cmd.name = "preflight" /\ cmd.pc = "checks"
        BY <2>4 DEF RunCheck
      <3>2. n \in 1..5 /\ cmd.checks \in Seq(Results) /\ cmd.checks[1] = Pass
        BY <3>1 DEF ReportsInv, PreflightRun
      <3>3. Len(CHECKS) = 5
        BY DEF CHECKS
      <3>4. cmd' = [cmd EXCEPT !.checks = Append(@, CheckResult(CHECKS[n])),
                      !.pc = IF n = 5 THEN "info" ELSE @]
        BY <2>4, <3>3 DEF RunCheck, CheckResult
      <3>5. /\ cmd'.checks = Append(cmd.checks, CheckResult(CHECKS[n]))
            /\ cmd'.pc = (IF n = 5 THEN "info" ELSE "checks")
            /\ cmd'.from = cmd.from /\ cmd'.name = "preflight" /\ DOMAIN cmd' = DOMAIN cmd
        BY <3>1, <3>4 DEF ReportsInv, PreflightRun
      <3>6. CheckResult(CHECKS[n]) \in Results
        BY <3>2, ResultsAreTyped
      <3> HIDE DEF n
      <3>7. /\ cmd'.checks \in Seq(Results) /\ Len(cmd'.checks) = n + 1
            /\ cmd'.checks[n + 1] = CheckResult(CHECKS[n])
            /\ \A i \in 1..n : cmd'.checks[i] = cmd.checks[i]
        BY <3>2, <3>5, <3>6 DEF n
      <3>8. cmd.from = epoch => \A i \in 1..(n + 1) : cmd'.checks[i] = Expected[i]
        <4> SUFFICES ASSUME cmd.from = epoch, NEW i \in 1..(n + 1)
                     PROVE cmd'.checks[i] = Expected[i]
          OBVIOUS
        <4>1. \A k \in 1..n : cmd.checks[k] = Expected[k]
          BY <3>1 DEF ReportsInv, PreflightRun, n
        <4>2. cluster.reachable
          BY <4>1, <3>2, <1>3, ResultsAreTyped
        <4>3. Expected[n + 1] = CheckResult(CHECKS[n])
          BY <4>2, <3>2, <1>3
        <4> QED
          BY <4>1, <4>3, <3>2, <3>7
      <3>9. cmd'.checks[1] = Pass
        BY <3>2, <3>7
      <3> QED
        BY <3>1, <3>2, <3>5, <3>7, <3>8, <3>9, <1>1, <1>2 DEF ReportsInv, PreflightRun
    <2> QED
      BY <2>1, <2>2, <2>3, <2>4
  <1>5. cmd'.name # "discover"
    BY <1>4
  <1> QED
    BY <1>1, <1>4, <1>5, KeepsReports DEF ReportsInv

\* Short sequences and their extensions.
LEMMA ShortSequences ==
    ASSUME NEW a, NEW b, NEW x
    PROVE /\ Len(<<>>) = 0 /\ Len(<<a>>) = 1 /\ Len(<<a, b>>) = 2
          /\ Append(<<>>, x) = <<x>> /\ Append(<<a>>, x) = <<a, x>>
          /\ Append(<<a, b>>, x) = <<a, b, x>>
PROOF
  <1>1. Len(<<>>) = 0 /\ Len(<<a>>) = 1 /\ Len(<<a, b>>) = 2
    OBVIOUS
  <1> DEFINE S == {a, b, x}
  <1>2. Append(<<>>, x) = <<x>>
    OBVIOUS
  <1>3. Append(<<a>>, x) = <<a, x>>
    <2>1. <<a, x>> \in Seq(S) /\ Len(<<a, x>>) = 2 /\ <<a, x>>[1] = a /\ <<a, x>>[2] = x
      OBVIOUS
    <2>2. Append(<<a>>, x) \in Seq(S) /\ Len(Append(<<a>>, x)) = 2
          /\ Append(<<a>>, x)[1] = a /\ Append(<<a>>, x)[2] = x
      OBVIOUS
    <2>3. \A i \in 1..2 : Append(<<a>>, x)[i] = <<a, x>>[i]
      BY <2>1, <2>2
    <2> QED
      BY <2>1, <2>2, <2>3, SeqEqual
  <1>4. Append(<<a, b>>, x) = <<a, b, x>>
    <2>1. <<a, b, x>> \in Seq(S) /\ Len(<<a, b, x>>) = 3
          /\ <<a, b, x>>[1] = a /\ <<a, b, x>>[2] = b /\ <<a, b, x>>[3] = x
      OBVIOUS
    <2>2. Append(<<a, b>>, x) \in Seq(S) /\ Len(Append(<<a, b>>, x)) = 3
          /\ Append(<<a, b>>, x)[1] = a /\ Append(<<a, b>>, x)[2] = b
          /\ Append(<<a, b>>, x)[3] = x
      OBVIOUS
    <2>3. \A i \in 1..3 : Append(<<a, b>>, x)[i] = <<a, b, x>>[i]
      BY <2>1, <2>2
    <2> QED
      BY <2>1, <2>2, <2>3, SeqEqual
  <1> QED
    BY <1>1, <1>2, <1>3, <1>4

\* Every read of discover is among the permissions preflight asks for.
LEMMA ReadsAreListed ==
    /\ {"nodes"} \subseteq READ_PERMISSIONS
    /\ \A n \in 1..3 : SectionReads(n) \subseteq READ_PERMISSIONS
    /\ \A n \in 1..5 : Reads(CHECKS[n]) \subseteq READ_PERMISSIONS
PROOF
  <1>1. \A n \in 1..3 : SectionReads(n) \subseteq READ_PERMISSIONS
    BY DEF SectionReads, READ_PERMISSIONS
  <1>2. \A check : Reads(check) \subseteq READ_PERMISSIONS
    BY DEF Reads, READ_PERMISSIONS
  <1> QED
    BY <1>1, <1>2 DEF READ_PERMISSIONS

\* A preflight that passed the first two checks of the cluster as it is shows
\* that all of it can be read.
LEMMA PassedCanRead ==
    ASSUME NEW R, R \subseteq READ_PERMISSIONS, Expected[1] = Pass, Expected[2] = Pass
    PROVE cluster.reachable /\ Readable(R)
PROOF
  <1>1. cluster.reachable
    BY ResultsAreTyped DEF Expected
  <1>2. Expected[2] = CheckResult("required_permissions")
    <2>1. CHECKS[1] = "required_permissions"
      BY DEF CHECKS
    <2>2. Expected[2] = CheckResult(CHECKS[2 - 1])
      BY <1>1 DEF Expected
    <2> QED
      BY <2>1, <2>2
  <1>3. Pass # Result("fail", "check_execution_error")
        /\ Pass # Result("fail", "rbac_access_missing")
    BY DEF Pass, Result
  <1>4. READ_PERMISSIONS \subseteq cluster.granted
    BY <1>2, <1>3 DEF CheckResult, evaluate_check, _check_required_permissions, PassIf
  <1> QED
    BY <1>1, <1>4 DEF Readable

\* No read of discover raises after such a preflight.
LEMMA RaiseReports ==
    ReportsInv /\ (ClusterInfoRaises \/ ProbeRaises) => ReportsInv'
PROOF
  <1> SUFFICES ASSUME ReportsInv, ClusterInfoRaises \/ ProbeRaises PROVE ReportsInv'
    OBVIOUS
  <1>1. UNCHANGED <<cluster, backend, epoch, preflight, discovery>> /\ cmd' = Idle
    BY DEF ClusterInfoRaises, ProbeRaises, fileVars, bounds, Ends
  <1>2. cmd'.name # "preflight" /\ cmd'.name # "discover"
    BY <1>1 DEF Idle
  <1>3. PICK R : R \subseteq READ_PERMISSIONS /\ ~Readable(R)
    <2>1. CASE ClusterInfoRaises
      BY <2>1, ReadsAreListed DEF ClusterInfoRaises
    <2>2. CASE ProbeRaises
      <3>1. cmd.name = "discover" /\ cmd.pc = "probes"
            /\ ~Readable(SectionReads(Len(cmd.sections) + 1))
        BY <2>2 DEF ProbeRaises, NextSection
      <3>2. PICK a, b : cmd.sections \in {<<>>, <<a>>, <<a, b>>}
        BY <3>1 DEF ReportsInv, DiscoverRun
      <3>3. PICK n : n = Len(cmd.sections)
        OBVIOUS
      <3>4. n = 0 \/ n = 1 \/ n = 2
        BY <3>2, <3>3, ShortSequences, Zenon
      <3>5. n + 1 \in 1..3
        BY <3>4
      <3> QED
        BY <3>1, <3>3, <3>5, ReadsAreListed
    <2> QED
      BY <2>1, <2>2
  <1>4. NoRefusal'
    <2>1. ASSUME Loads(preflight), preflight.from = epoch,
                 preflight.checks[1] = Pass, preflight.checks[2] = Pass
          PROVE FALSE
      <3>1. \A i \in 1..6 : preflight.checks[i] = Expected[i]
        BY <2>1 DEF ReportsInv, PreflightFile
      <3>2. Expected[1] = Pass /\ Expected[2] = Pass
        BY <3>1, <2>1
      <3> QED
        BY <3>2, <1>3, PassedCanRead
    <2> QED
      BY <2>1, <1>1 DEF NoRefusal
  <1> QED
    BY <1>1, <1>2, <1>4, KeepsReports DEF ReportsInv

\* The cluster block.
LEMMA InfoReports == ReportsInv /\ ReadClusterInfo => ReportsInv'
PROOF
  <1> SUFFICES ASSUME ReportsInv, ReadClusterInfo PROVE ReportsInv'
    OBVIOUS
  <1>1. UNCHANGED <<cluster, backend, epoch, preflight, discovery, last>>
        /\ cmd.name \in {"preflight", "discover"} /\ cmd.pc = "info"
        /\ cmd' = [cmd EXCEPT !.pc = IF cmd.name = "preflight" THEN "write" ELSE "probes",
                              !.cluster = cluster.info]
    BY DEF ReadClusterInfo, fileVars, bounds
  <1>2. Expected' = Expected /\ Sections' = Sections /\ CanProbe' = CanProbe
        /\ cluster'.info = cluster.info
    BY <1>1, SameReads
  <1>3. CASE cmd.name = "preflight"
    <2>1. /\ cmd'.name = "preflight" /\ cmd'.pc = "write" /\ DOMAIN cmd' = DOMAIN cmd
          /\ cmd'.checks = cmd.checks /\ cmd'.from = cmd.from /\ cmd'.cluster = cluster.info
      BY <1>1, <1>3 DEF ReportsInv, PreflightRun
    <2>2. PreflightRun'
      BY <2>1, <1>1, <1>2, <1>3 DEF ReportsInv, PreflightRun
    <2>3. cmd'.name # "discover"
      BY <2>1
    <2> QED
      BY <2>2, <2>3, <1>1, KeepsReports DEF ReportsInv
  <1>4. CASE cmd.name = "discover"
    <2>1. /\ cmd'.name = "discover" /\ cmd'.pc = "probes" /\ DOMAIN cmd' = DOMAIN cmd
          /\ cmd'.sections = cmd.sections /\ cmd'.from = cmd.from
          /\ cmd'.cluster = cluster.info /\ cmd.sections = <<>>
      BY <1>1, <1>4 DEF ReportsInv, DiscoverRun
    <2>2. DiscoverRun'
      BY <2>1, <1>1, <1>2, <1>4 DEF ReportsInv, DiscoverRun
    <2>3. cmd'.name # "preflight"
      BY <2>1
    <2> QED
      BY <2>2, <2>3, <1>1, KeepsReports DEF ReportsInv
  <1> QED
    BY <1>1, <1>3, <1>4

\* The preflight report.
LEMMA WritePreflightReports == ReportsInv /\ WritePreflight => ReportsInv'
PROOF
  <1> SUFFICES ASSUME ReportsInv, WritePreflight PROVE ReportsInv'
    OBVIOUS
  <1>1. /\ UNCHANGED <<cluster, backend, epoch, discovery>>
        /\ cmd.name = "preflight" /\ cmd.pc = "write"
        /\ cmd' = Idle /\ last'.name = "preflight"
        /\ preflight'.checks = cmd.checks /\ preflight'.from = cmd.from
        /\ preflight'.to = epoch /\ preflight'.cluster = cmd.cluster
    BY DEF WritePreflight, bounds, Ends
  <1>2. Expected' = Expected /\ cluster'.info = cluster.info
    BY <1>1, SameReads
  <1>3. PreflightFile'
    BY <1>1, <1>2 DEF ReportsInv, PreflightRun, PreflightFile
  <1>4. NoRefusal'
    BY <1>1 DEF NoRefusal
  <1>5. cmd'.name # "preflight" /\ cmd'.name # "discover"
    BY <1>1 DEF Idle
  <1> QED
    BY <1>1, <1>3, <1>4, <1>5, KeepsReports DEF ReportsInv

\* The sections of a discover.
LEMMA ProbeReports == ReportsInv /\ (StartDiscover \/ ProbeSection) => ReportsInv'
PROOF
  <1> SUFFICES ASSUME ReportsInv, StartDiscover \/ ProbeSection PROVE ReportsInv'
    OBVIOUS
  <1>1. UNCHANGED <<cluster, backend, epoch, preflight, discovery, last>>
    BY DEF StartDiscover, ProbeSection, fileVars, bounds
  <1>2. Expected' = Expected /\ Sections' = Sections /\ CanProbe' = CanProbe
        /\ cluster'.info = cluster.info
    BY <1>1, SameReads
  <1>3. cmd'.name = "discover" /\ DiscoverRun'
    <2>1. CASE StartDiscover
      BY <2>1, <1>1 DEF StartDiscover, Begins, ReportsInv, DiscoverRun
    <2>2. CASE ProbeSection
      <3> DEFINE n == Len(cmd.sections) + 1
      <3>1. /\ cmd.name = "discover" /\ cmd.pc = "probes" /\ Readable(SectionReads(n))
            /\ cmd' = [cmd EXCEPT !.sections = Append(@, Section(n)),
                                  !.pc = IF n = 3 THEN "write" ELSE @]
        BY <2>2 DEF ProbeSection, NextSection
      <3>2. /\ cmd'.name = "discover" /\ DOMAIN cmd' = DOMAIN cmd
            /\ cmd'.sections = Append(cmd.sections, Section(n))
            /\ cmd'.pc = (IF n = 3 THEN "write" ELSE "probes")
            /\ cmd'.from = cmd.from /\ cmd'.cluster = cmd.cluster
        BY <3>1 DEF ReportsInv, DiscoverRun
      <3>3. PICK a, b : cmd.sections \in {<<>>, <<a>>, <<a, b>>}
        BY <3>1 DEF ReportsInv, DiscoverRun
      <3>4. \/ cmd.sections = <<>> /\ n = 1 /\ cmd'.sections = <<Section(1)>>
            \/ cmd.sections = <<a>> /\ n = 2 /\ cmd'.sections = <<a, Section(2)>>
            \/ cmd.sections = <<a, b>> /\ n = 3 /\ cmd'.sections = <<a, b, Section(3)>>
        <4>1. CASE cmd.sections = <<>>
          <5>1. Len(cmd.sections) = 0
            BY <4>1, ShortSequences, Zenon
          <5>2. n = 1
            BY <5>1
          <5> HIDE DEF n
          <5>3. cmd'.sections = <<Section(1)>>
            BY <4>1, <5>2, <3>2, ShortSequences, Zenon
          <5> QED
            BY <4>1, <5>2, <5>3
        <4>2. CASE cmd.sections = <<a>>
          <5>1. Len(cmd.sections) = 1
            BY <4>2, ShortSequences, Zenon
          <5>2. n = 2
            BY <5>1
          <5> HIDE DEF n
          <5>3. cmd'.sections = <<a, Section(2)>>
            BY <4>2, <5>2, <3>2, ShortSequences, Zenon
          <5> QED
            BY <4>2, <5>2, <5>3
        <4>3. CASE cmd.sections = <<a, b>>
          <5>1. Len(cmd.sections) = 2
            BY <4>3, ShortSequences, Zenon
          <5>2. n = 3
            BY <5>1
          <5> HIDE DEF n
          <5>3. cmd'.sections = Append(<<a, b>>, Section(3))
            BY <4>3, <5>2, <3>2
          <5>4. cmd'.sections = <<a, b, Section(3)>>
            BY <5>3, ShortSequences
          <5> QED
            BY <4>3, <5>2, <5>4
        <4> QED
          BY <3>3, <4>1, <4>2, <4>3
      <3>5. Sections[1] = Section(1) /\ Sections[2] = Section(2) /\ Sections[3] = Section(3)
        BY DEF Sections
      <3>6. n = 1 => CanProbe
        BY <3>1 DEF CanProbe
      <3> HIDE DEF n
      <3>7. cmd'.pc = "probes" => \E c, d : cmd'.sections \in {<<>>, <<c>>, <<c, d>>}
        BY <3>2, <3>4
      <3>8. cmd.from = epoch =>
               /\ cmd'.pc = "probes" => cmd'.sections \in
                     {<<>>, <<Sections[1]>>, <<Sections[1], Sections[2]>>}
               /\ cmd'.pc = "write" =>
                     cmd'.sections = <<Sections[1], Sections[2], Sections[3]>>
               /\ CanProbe /\ cmd'.cluster = cluster.info
        <4> SUFFICES ASSUME cmd.from = epoch
                     PROVE /\ cmd'.pc = "probes" => cmd'.sections \in
                                {<<>>, <<Sections[1]>>, <<Sections[1], Sections[2]>>}
                           /\ cmd'.pc = "write" =>
                                cmd'.sections = <<Sections[1], Sections[2], Sections[3]>>
                           /\ CanProbe /\ cmd'.cluster = cluster.info
          OBVIOUS
        <4>1. /\ cmd.sections \in {<<>>, <<Sections[1]>>, <<Sections[1], Sections[2]>>}
              /\ cmd.cluster = cluster.info
              /\ cmd.sections # <<>> => CanProbe
          BY <3>1 DEF ReportsInv, DiscoverRun
        <4> QED
          BY <4>1, <3>2, <3>4, <3>5, <3>6
      <3>9. cmd'.pc \in {"probes", "write"}
        BY <3>2
      <3> QED
        BY <3>1, <3>2, <3>7, <3>8, <3>9, <1>1, <1>2 DEF ReportsInv, DiscoverRun
    <2> QED
      BY <2>1, <2>2
  <1>4. cmd'.name # "preflight"
    BY <1>3
  <1> QED
    BY <1>1, <1>3, <1>4, KeepsReports DEF ReportsInv

\* The discovery report.
LEMMA WriteDiscoveryReports == ReportsInv /\ WriteDiscovery => ReportsInv'
PROOF
  <1> SUFFICES ASSUME ReportsInv, WriteDiscovery PROVE ReportsInv'
    OBVIOUS
  <1>1. /\ UNCHANGED <<cluster, backend, epoch, preflight>>
        /\ cmd.name = "discover" /\ cmd.pc = "write"
        /\ cmd' = Idle /\ last'.exit = "0"
        /\ discovery'.cluster = cmd.cluster
        /\ discovery'.storage = cmd.sections[1].storage
        /\ discovery'.ingress = cmd.sections[1].ingress
        /\ discovery'.gitops = cmd.sections[2].gitops
        /\ discovery'.secrets = cmd.sections[2].secrets
        /\ discovery'.services = cmd.sections[3].services
        /\ discovery'.from = cmd.from /\ discovery'.to = epoch
    BY DEF WriteDiscovery, bounds, Ends
  <1>2. Sections' = Sections /\ CanProbe' = CanProbe /\ cluster'.info = cluster.info
    BY <1>1, SameReads
  <1>3. DiscoveryFile'
    <2>1. cmd.from = epoch =>
             /\ cmd.sections = <<Sections[1], Sections[2], Sections[3]>>
             /\ cmd.cluster = cluster.info /\ CanProbe
      BY <1>1 DEF ReportsInv, DiscoverRun
    <2>2. cmd.from \in Nat /\ cmd.from <= epoch
      BY <1>1 DEF ReportsInv, DiscoverRun
    <2> QED
      BY <1>1, <1>2, <2>1, <2>2 DEF ReportsInv, DiscoveryFile
  <1>4. cmd'.name # "preflight" /\ cmd'.name # "discover" /\ last'.exit # "traceback"
    BY <1>1 DEF Idle
  <1> QED
    BY <1>1, <1>3, <1>4, KeepsReports DEF ReportsInv

\* evaluate writes no report; a write that fails leaves it or destroys it.
LEMMA OtherReports ==
    ReportsInv /\ (\/ \E o \in Options : \/ StartEvaluate(o.overrides, o.flags)
                                         \/ RefuseEvaluate(o.overrides, o.flags)
                   \/ WriteArtifact \/ WriteFails) => ReportsInv'
PROOF
  <1> SUFFICES ASSUME ReportsInv,
                      \/ \E o \in Options : \/ StartEvaluate(o.overrides, o.flags)
                                            \/ RefuseEvaluate(o.overrides, o.flags)
                      \/ WriteArtifact \/ WriteFails
               PROVE ReportsInv'
    OBVIOUS
  <1>1. CASE \E o \in Options : StartEvaluate(o.overrides, o.flags)
    <2>1. UNCHANGED <<cluster, backend, epoch, preflight, discovery, last>>
          /\ cmd'.name = "evaluate"
      BY <1>1 DEF StartEvaluate, Begins, fileVars
    <2>2. cmd'.name # "preflight" /\ cmd'.name # "discover"
      BY <2>1
    <2> QED
      BY <2>1, <2>2, KeepsReports DEF ReportsInv
  <1>2. CASE \E o \in Options : RefuseEvaluate(o.overrides, o.flags)
    <2>1. UNCHANGED <<cluster, backend, epoch, preflight, discovery, cmd>>
          /\ last'.name = "evaluate"
      BY <1>2 DEF RefuseEvaluate, fileVars
    <2>2. last'.name # "discover"
      BY <2>1
    <2> QED
      BY <2>1, <2>2, KeepsReports DEF ReportsInv
  <1>3. CASE WriteArtifact
    <2>1. UNCHANGED <<cluster, backend, epoch, preflight, discovery>>
      BY <1>3 DEF WriteArtifact, bounds
    <2>2. CASE cmd.next = Len(ArtifactOrder)
      <3>1. cmd' = Idle /\ last'.exit = "0"
        BY <1>3, <2>2 DEF WriteArtifact, Ends
      <3>2. cmd'.name # "preflight" /\ cmd'.name # "discover" /\ last'.exit # "traceback"
        BY <3>1 DEF Idle
      <3> QED
        BY <2>1, <3>2, KeepsReports DEF ReportsInv
    <2>3. CASE cmd.next # Len(ArtifactOrder)
      <3>1. cmd.name = "evaluate" /\ cmd' = [cmd EXCEPT !.next = @ + 1] /\ last' = last
        BY <1>3, <2>3 DEF WriteArtifact
      <3>2. cmd'.name # "preflight" /\ cmd'.name # "discover"
        BY <3>1
      <3> QED
        BY <2>1, <3>1, <3>2, KeepsReports DEF ReportsInv
    <2> QED
      BY <2>2, <2>3
  <1>4. CASE WriteFails
    <2>1. /\ UNCHANGED <<cluster, backend, epoch>>
          /\ preflight' \in {preflight, Torn} /\ discovery' \in {discovery, Torn}
          /\ cmd' = Idle /\ last'.exit = "failed"
      BY <1>4 DEF WriteFails, Ends
    <2>2. ~Loads(Torn)
      BY DEF Loads, Torn
    <2>3. /\ preflight' = preflight \/ ~Loads(preflight')
          /\ discovery' = discovery \/ ~Loads(discovery')
      BY <2>1, <2>2
    <2>4. cmd'.name # "preflight" /\ cmd'.name # "discover" /\ last'.exit # "traceback"
      BY <2>1 DEF Idle
    <2> QED
      BY <2>1, <2>3, <2>4, KeepsReports DEF ReportsInv
  <1> QED
    BY <1>1, <1>2, <1>3, <1>4

\* The reports say what is so.
LEMMA ReportsInvHolds == Spec => []ReportsInv
PROOF
  <1>1. ReportsInv /\ [Next]_vars => ReportsInv'
    <2> SUFFICES ASSUME ReportsInv, [Next]_vars PROVE ReportsInv'
      OBVIOUS
    <2>1. CASE UNCHANGED vars
      BY <2>1, KeepsReports DEF vars, ReportsInv
    <2>2. CASE Next
      BY <2>2, ChangeReports, CheckReports, RaiseReports, InfoReports,
         WritePreflightReports, ProbeReports, WriteDiscoveryReports, OtherReports DEF Next
    <2> QED
      BY <2>1, <2>2
  <1> QED
    BY <1>1, InitReports, PTL DEF Spec

\* THEOREM: a preflight of the cluster as it is that passes connectivity and
\* required_permissions had no check that failed to execute, and no discover
\* was refused since: READ_PERMISSIONS covers all that preflight and discover
\* read.
THEOREM PermissionsSuffice == Spec => []PermissionsCoverReads
PROOF
  <1>1. ReportsInv => PermissionsCoverReads
    <2> SUFFICES ASSUME ReportsInv, Loads(preflight), preflight.from = epoch,
                        preflight.checks[1] = Pass, preflight.checks[2] = Pass
                 PROVE /\ \A i \in 1..Len(preflight.checks) :
                             preflight.checks[i].reason # "check_execution_error"
                       /\ last # [name |-> "discover", exit |-> "traceback"]
      BY DEF PermissionsCoverReads
    <2>1. Len(preflight.checks) = 6 /\ \A i \in 1..6 : preflight.checks[i] = Expected[i]
      BY DEF ReportsInv, PreflightFile
    <2>2. cluster.reachable /\ \A n \in 1..5 : Readable(Reads(CHECKS[n]))
      BY <2>1, PassedCanRead, ReadsAreListed
    <2>3. ASSUME NEW i \in 1..6 PROVE preflight.checks[i].reason # "check_execution_error"
      <3>1. CASE i = 1
        BY <3>1 DEF Pass, Result
      <3>2. CASE i # 1
        <4>1. i - 1 \in 1..5 /\ preflight.checks[i] = Expected[i]
          BY <2>1, <3>2
        <4>2. Expected[i] = CheckResult(CHECKS[i - 1])
          BY <2>2, <3>2 DEF Expected
        <4>3. CheckResult(CHECKS[i - 1]) = evaluate_check(CHECKS[i - 1])
          BY <2>2, <4>1 DEF CheckResult
        <4>4. evaluate_check(CHECKS[i - 1]).reason # "check_execution_error"
          <5>1. CHECKS[i - 1] \in {"required_permissions", "required_api_readiness",
                   "required_crd_readiness", "storage_compatibility",
                   "gitops_prerequisites"}
            BY <4>1 DEF CHECKS
          <5> QED
            BY <5>1 DEF evaluate_check, _check_required_permissions,
               _check_required_api_readiness, _check_required_crd_readiness,
               _check_storage_compatibility, _check_gitops_prerequisites,
               PassIf, Pass, Result
        <4> QED
          BY <4>1, <4>2, <4>3, <4>4
      <3> QED
        BY <3>1, <3>2
    <2> QED
      BY <2>1, <2>3 DEF ReportsInv, NoRefusal
  <1> QED
    BY <1>1, ReportsInvHolds, PTL

-----------------------------------------------------------------------------
(* The artifacts. *)

\* Reports of the cluster as it is.
Shows(pre) ==
    (\A i \in 1..6 : pre.checks[i] = Expected[i]) /\ pre.cluster = cluster.info

Depicts(disc) ==
    /\ disc.cluster = cluster.info
    /\ disc.storage = Sections[1].storage
    /\ disc.ingress = Sections[1].ingress
    /\ disc.gitops = Sections[2].gitops
    /\ disc.secrets = Sections[2].secrets
    /\ disc.services = Sections[3].services
    /\ CanProbe

\* A running evaluate has computed everything from the two reports, and has
\* written the artifacts before the next one.
EvaluateRun ==
    cmd.name = "evaluate" =>
        /\ DOMAIN cmd = {"name", "pc", "next", "overrides", "flags", "payload"}
        /\ cmd.next \in 1..4
        /\ cmd.flags \in Flags
        /\ Loads(preflight) /\ Loads(discovery)
        /\ cmd.payload = evaluate_reports(preflight, discovery, cmd.overrides, cmd.flags)
        /\ Evaluates(preflight, discovery, cmd.overrides, cmd.flags)
        /\ \A i \in 1..(cmd.next - 1) :
              artifacts[ArtifactOrder[i]] = cmd.payload[ArtifactOrder[i]]
        /\ cmd.next > 1 => basis = NoBasis

\* A complete set of artifacts is the evaluation of two reports, and of the
\* cluster as it is if these were.
Evaluated(pre, disc) ==
    /\ pre.checks \in Seq(Results) /\ Len(pre.checks) = 6
    /\ Evaluates(pre, disc, basis.overrides, basis.flags)
    /\ \A i \in 1..4 : artifacts[ArtifactOrder[i]] =
          evaluate_reports(pre, disc, basis.overrides, basis.flags)[ArtifactOrder[i]]
    /\ basis.epoch = epoch => Shows(pre) /\ Depicts(disc)

BasisInv ==
    basis # NoBasis =>
        /\ basis.epoch \in Int /\ basis.epoch <= epoch
        /\ basis.flags \in Flags
        /\ \E pre, disc : Evaluated(pre, disc)

ArtifactsInv ==
    /\ DOMAIN artifacts = ToSet(ArtifactOrder)
    /\ EvaluateRun /\ BasisInv

\* The four files.
LEMMA FourFiles ==
    /\ Len(ArtifactOrder) = 4
    /\ ToSet(ArtifactOrder) = {ArtifactOrder[i] : i \in 1..4}
    /\ \A i, k \in 1..4 : ArtifactOrder[i] = ArtifactOrder[k] => i = k
    /\ ArtifactOrder[1] = "capability_matrix" /\ ArtifactOrder[2] = "compatibility_result"
    /\ ArtifactOrder[3] = "mode_recommendation" /\ ArtifactOrder[4] = "remediation_list"
PROOF
  <1>1. Len(ArtifactOrder) = 4 /\ DOMAIN ArtifactOrder = 1..4
        /\ ArtifactOrder[1] = "capability_matrix" /\ ArtifactOrder[2] = "compatibility_result"
        /\ ArtifactOrder[3] = "mode_recommendation" /\ ArtifactOrder[4] = "remediation_list"
    BY DEF ArtifactOrder
  <1> QED
    BY <1>1 DEF ToSet

\* No artifacts yet.
LEMMA InitArtifacts == Init => ArtifactsInv
PROOF
  BY DEF Init, ArtifactsInv, EvaluateRun, BasisInv, Idle

\* The set of artifacts lasts as long as nobody writes them.
LEMMA KeepsBasis ==
    ASSUME ReportsInv, ArtifactsInv, UNCHANGED <<artifacts, basis>>,
           \/ UNCHANGED <<cluster, backend, epoch>>
           \/ epoch' = epoch + 1
    PROVE BasisInv'
PROOF
  <1> SUFFICES ASSUME basis # NoBasis PROVE BasisInv'
    BY DEF BasisInv
  <1>1. PICK pre, disc : Evaluated(pre, disc)
    BY DEF ArtifactsInv, BasisInv
  <1>2. basis.epoch \in Int /\ basis.epoch <= epoch /\ epoch \in Nat /\ basis.flags \in Flags
    BY DEF ArtifactsInv, BasisInv, ReportsInv
  <1>3. Evaluated(pre, disc)'
    <2>1. CASE UNCHANGED <<cluster, backend, epoch>>
      <3>1. Expected' = Expected /\ Sections' = Sections /\ CanProbe' = CanProbe
            /\ cluster'.info = cluster.info
        BY <2>1, SameReads
      <3> QED
        BY <1>1, <2>1, <3>1 DEF Evaluated, Shows, Depicts
    <2>2. CASE epoch' = epoch + 1
      BY <1>1, <1>2, <2>2 DEF Evaluated
    <2> QED
      BY <2>1, <2>2
  <1>4. basis'.epoch \in Int /\ basis'.epoch <= epoch' /\ basis'.flags \in Flags
    BY <1>2
  <1> QED
    BY <1>3, <1>4 DEF BasisInv

\* Commands other than evaluate leave the artifacts alone.
LEMMA OtherArtifacts ==
    ASSUME ReportsInv, ArtifactsInv, UNCHANGED <<artifacts, basis>>,
           \/ UNCHANGED <<cluster, backend, epoch>>
           \/ epoch' = epoch + 1,
           \/ cmd'.name # "evaluate"
           \/ UNCHANGED <<cmd, preflight, discovery>>
    PROVE ArtifactsInv'
PROOF
  <1>1. BasisInv'
    BY KeepsBasis
  <1>2. EvaluateRun'
    BY DEF ArtifactsInv, EvaluateRun
  <1> QED
    BY <1>1, <1>2 DEF ArtifactsInv

\* evaluate begins.
LEMMA StartArtifacts ==
    ASSUME ReportsInv, ArtifactsInv, NEW o \in Options,
           StartEvaluate(o.overrides, o.flags)
    PROVE ArtifactsInv'
PROOF
  <1>1. UNCHANGED <<cluster, backend, epoch, artifacts, basis, preflight, discovery>>
    BY DEF StartEvaluate, fileVars
  <1>2. BasisInv'
    BY <1>1, KeepsBasis
  <1>3. /\ cmd' = [name |-> "evaluate", pc |-> "artifacts", next |-> 1,
                   overrides |-> o.overrides, flags |-> o.flags,
                   payload |-> evaluate_reports(preflight, discovery, o.overrides, o.flags)]
        /\ Loads(preflight) /\ Loads(discovery)
        /\ Evaluates(preflight, discovery, o.overrides, o.flags)
    BY DEF StartEvaluate, Begins, Evaluable
  <1>4. o.flags \in Flags
    BY OptionsAssumption
  <1>5. EvaluateRun'
    BY <1>1, <1>3, <1>4 DEF EvaluateRun
  <1> QED
    BY <1>1, <1>2, <1>5 DEF ArtifactsInv

\* evaluate writes one artifact, and the last one completes the set.
LEMMA WriteArtifacts ==
    ReportsInv /\ ArtifactsInv /\ WriteArtifact => ArtifactsInv'
PROOF
  <1> SUFFICES ASSUME ReportsInv, ArtifactsInv, WriteArtifact PROVE ArtifactsInv'
    OBVIOUS
  <1>1. /\ UNCHANGED <<cluster, backend, epoch, preflight, discovery>>
        /\ cmd.name = "evaluate"
        /\ artifacts' = [artifacts EXCEPT
                            ![ArtifactOrder[cmd.next]] = cmd.payload[ArtifactOrder[cmd.next]]]
    BY DEF WriteArtifact, bounds
  <1>2. PICK n, payload : n = cmd.next /\ payload = cmd.payload
    OBVIOUS
  <1>3. /\ n \in 1..4 /\ cmd.flags \in Flags /\ Loads(preflight) /\ Loads(discovery)
        /\ payload = evaluate_reports(preflight, discovery, cmd.overrides, cmd.flags)
        /\ Evaluates(preflight, discovery, cmd.overrides, cmd.flags)
        /\ \A i \in 1..(n - 1) : artifacts[ArtifactOrder[i]] = payload[ArtifactOrder[i]]
    BY <1>1, <1>2 DEF ArtifactsInv, EvaluateRun
  <1>4. /\ DOMAIN artifacts' = ToSet(ArtifactOrder)
        /\ \A i \in 1..n : artifacts'[ArtifactOrder[i]] = payload[ArtifactOrder[i]]
    BY <1>1, <1>2, <1>3, FourFiles DEF ArtifactsInv
  <1>5. CASE n # 4
    <2>1. cmd' = [cmd EXCEPT !.next = @ + 1] /\ basis' = NoBasis
      BY <1>2, <1>5, FourFiles DEF WriteArtifact
    <2>2. /\ cmd'.name = "evaluate" /\ DOMAIN cmd' = DOMAIN cmd /\ cmd'.next = n + 1
          /\ cmd'.overrides = cmd.overrides /\ cmd'.flags = cmd.flags
          /\ cmd'.payload = payload
      BY <1>1, <1>2, <2>1 DEF ArtifactsInv, EvaluateRun
    <2>3. EvaluateRun'
      BY <1>1, <1>3, <1>4, <1>5, <2>1, <2>2 DEF ArtifactsInv, EvaluateRun
    <2>4. BasisInv'
      BY <2>1 DEF BasisInv
    <2> QED
      BY <1>4, <2>3, <2>4 DEF ArtifactsInv
  <1>6. CASE n = 4
    <2>1. /\ cmd' = Idle
          /\ basis' = [kind |-> "complete", epoch |-> ObservedEpoch,
                       overrides |-> cmd.overrides, flags |-> cmd.flags]
      BY <1>2, <1>6, FourFiles DEF WriteArtifact, Ends
    <2>2. PICK pre, disc, o, fl : pre = preflight /\ disc = discovery
                                  /\ o = cmd.overrides /\ fl = cmd.flags
      OBVIOUS
    <2>3. basis'.epoch = ObservedEpoch /\ basis'.overrides = o /\ basis'.flags = fl
      BY <2>1, <2>2
    <2>4. /\ pre.from \in Nat /\ pre.to \in Nat /\ pre.from <= pre.to /\ pre.to <= epoch
          /\ pre.checks \in Seq(Results) /\ Len(pre.checks) = 6 /\ epoch \in Nat
          /\ pre.from = epoch => Shows(pre)
          /\ disc.from = epoch => Depicts(disc)
      BY <1>3, <2>2 DEF ReportsInv, PreflightFile, DiscoveryFile, Shows, Depicts
    <2> DEFINE all == {pre.from, pre.to, disc.from, disc.to}
    <2>a. ObservedEpoch = IF all = {pre.from} THEN pre.from ELSE -1
      BY <2>2, Zenon DEF ObservedEpoch
    <2>b. disc.from \in all
      OBVIOUS
    <2> HIDE DEF all
    <2>5. ObservedEpoch \in Int /\ ObservedEpoch <= epoch
      BY <2>4, <2>a
    <2>6. ObservedEpoch = epoch => pre.from = epoch /\ disc.from = epoch
      BY <2>4, <2>a, <2>b
    <2>7. Expected' = Expected /\ Sections' = Sections /\ CanProbe' = CanProbe
          /\ cluster'.info = cluster.info
      BY <1>1, SameReads
    <2>8. basis'.epoch = epoch' => Shows(pre)' /\ Depicts(disc)'
      BY <1>1, <2>3, <2>4, <2>6, <2>7 DEF Shows, Depicts
    <2>9. Evaluated(pre, disc)'
      BY <1>3, <1>4, <1>6, <2>2, <2>3, <2>4, <2>8 DEF Evaluated
    <2>10. BasisInv'
      BY <1>1, <1>3, <2>2, <2>3, <2>5, <2>9 DEF BasisInv
    <2>11. EvaluateRun'
      BY <2>1 DEF EvaluateRun, Idle
    <2> QED
      BY <1>4, <2>10, <2>11 DEF ArtifactsInv
  <1> QED
    BY <1>5, <1>6

\* A write that fails may destroy an artifact, and then the set is none.
LEMMA FailArtifacts == ReportsInv /\ ArtifactsInv /\ WriteFails => ArtifactsInv'
PROOF
  <1> SUFFICES ASSUME ReportsInv, ArtifactsInv, WriteFails PROVE ArtifactsInv'
    OBVIOUS
  <1>1. UNCHANGED <<cluster, backend, epoch>> /\ cmd' = Idle
    BY DEF WriteFails, Ends
  <1>2. cmd'.name # "evaluate"
    BY <1>1 DEF Idle
  <1>3. \/ UNCHANGED <<artifacts, basis>>
        \/ basis' = NoBasis /\ DOMAIN artifacts' = DOMAIN artifacts
    BY DEF WriteFails
  <1>4. CASE UNCHANGED <<artifacts, basis>>
    BY <1>1, <1>2, <1>4, OtherArtifacts
  <1>5. CASE basis' = NoBasis /\ DOMAIN artifacts' = DOMAIN artifacts
    BY <1>2, <1>5 DEF ArtifactsInv, EvaluateRun, BasisInv
  <1> QED
    BY <1>3, <1>4, <1>5

\* A complete set of artifacts is an evaluation.
LEMMA ArtifactsInvHolds == Spec => []ArtifactsInv
PROOF
  <1>1. ReportsInv /\ ArtifactsInv /\ [Next]_vars => ArtifactsInv'
    <2> SUFFICES ASSUME ReportsInv, ArtifactsInv, [Next]_vars PROVE ArtifactsInv'
      OBVIOUS
    <2>1. CASE UNCHANGED vars
      BY <2>1, OtherArtifacts DEF vars
    <2>2. CASE StartPreflight \/ StartDiscover
      <3>1. UNCHANGED <<cluster, backend, epoch, artifacts, basis>>
            /\ cmd'.name \in {"preflight", "discover"}
        BY <2>2 DEF StartPreflight, StartDiscover, Begins, fileVars
      <3>2. cmd'.name # "evaluate"
        BY <3>1
      <3> QED
        BY <3>1, <3>2, OtherArtifacts
    <2>3. CASE CheckConnectivity \/ RunCheck
      <3>1. UNCHANGED <<cluster, backend, epoch, artifacts, basis>>
            /\ cmd.name = "preflight" /\ cmd'.name = "preflight"
        BY <2>3 DEF CheckConnectivity, RunCheck, fileVars, bounds, ReportsInv, PreflightRun
      <3>2. cmd'.name # "evaluate"
        BY <3>1
      <3> QED
        BY <3>1, <3>2, OtherArtifacts
    <2>4. CASE ReadClusterInfo \/ ProbeSection
      <3>1. UNCHANGED <<cluster, backend, epoch, artifacts, basis>>
            /\ cmd.name \in {"preflight", "discover"} /\ cmd'.name = cmd.name
        BY <2>4 DEF ReadClusterInfo, ProbeSection, fileVars, bounds, ReportsInv,
                    PreflightRun, DiscoverRun
      <3>2. cmd'.name # "evaluate"
        BY <3>1
      <3> QED
        BY <3>1, <3>2, OtherArtifacts
    <2>5. CASE ClusterInfoRaises \/ WritePreflight \/ ProbeRaises \/ WriteDiscovery
      <3>1. UNCHANGED <<cluster, backend, epoch, artifacts, basis>> /\ cmd' = Idle
        BY <2>5 DEF ClusterInfoRaises, WritePreflight, ProbeRaises, WriteDiscovery,
                    Ends, fileVars, bounds
      <3>2. cmd'.name # "evaluate"
        BY <3>1 DEF Idle
      <3> QED
        BY <3>1, <3>2, OtherArtifacts
    <2>6. CASE \E o \in Options : StartEvaluate(o.overrides, o.flags)
      BY <2>6, StartArtifacts
    <2>7. CASE \E o \in Options : RefuseEvaluate(o.overrides, o.flags)
      <3>1. UNCHANGED <<cluster, backend, epoch, artifacts, basis, cmd, preflight, discovery>>
        BY <2>7 DEF RefuseEvaluate, fileVars
      <3> QED
        BY <3>1, OtherArtifacts
    <2>8. CASE WriteArtifact
      BY <2>8, WriteArtifacts
    <2>9. CASE WriteFails
      BY <2>9, FailArtifacts
    <2>10. CASE ClusterChanges
      <3>1. epoch' = epoch + 1
            /\ UNCHANGED <<artifacts, basis, cmd, preflight, discovery>>
        BY <2>10 DEF ClusterChanges, fileVars
      <3> QED
        BY <3>1, OtherArtifacts
    <2> QED
      BY <2>1, <2>2, <2>3, <2>4, <2>5, <2>6, <2>7, <2>8, <2>9, <2>10 DEF Next
  <1> QED
    BY <1>1, InitArtifacts, ReportsInvHolds, PTL DEF Spec

-----------------------------------------------------------------------------
(* The reasons of a grade. *)

Codes == Remediations \cup
    {"none", "check_execution_error", "rbac_access_missing",
     "required_api_unavailable", "gateway_api_not_in_use",
     "gateway_api_crds_required", "storage_profile_incompatible",
     "default_storage_class_missing", "gitops_controller_missing",
     "cluster_connectivity_failed", "skipped_cluster_unreachable"}

\* An entry of a table contributes nothing or one condition.
Rated(table) ==
    \A id \in DOMAIN table :
        table[id] = <<>> \/ \E c \in Remediations \ BlockedCodes : table[id] = <<c>>

\* The elements of a concatenation.
LEMMA ConcatElements ==
    ASSUME NEW T, NEW s \in Seq(T), NEW t \in Seq(T)
    PROVE s \o t \in Seq(T) /\ ToSet(s \o t) = ToSet(s) \cup ToSet(t)
PROOF
  <1>1. /\ s \o t \in Seq(T) /\ Len(s \o t) = Len(s) + Len(t)
        /\ \A i \in 1..(Len(s) + Len(t)) :
              (s \o t)[i] = IF i <= Len(s) THEN s[i] ELSE t[i - Len(s)]
    BY ConcatProperties
  <1>2. Len(s) \in Nat /\ Len(t) \in Nat /\ DOMAIN s = 1..Len(s) /\ DOMAIN t = 1..Len(t)
        /\ DOMAIN (s \o t) = 1..(Len(s) + Len(t))
    BY <1>1
  <1>3. ASSUME NEW x \in ToSet(s \o t) PROVE x \in ToSet(s) \cup ToSet(t)
    <2>1. PICK i \in 1..(Len(s) + Len(t)) : x = (s \o t)[i]
      BY <1>2, <1>3 DEF ToSet
    <2>2. CASE i <= Len(s)
      BY <2>1, <2>2, <1>1, <1>2 DEF ToSet
    <2>3. CASE ~(i <= Len(s))
      <3>1. i - Len(s) \in 1..Len(t) /\ x = t[i - Len(s)]
        BY <2>1, <2>3, <1>1, <1>2
      <3> QED
        BY <3>1, <1>2 DEF ToSet
    <2> QED
      BY <2>2, <2>3
  <1>4. ASSUME NEW x \in ToSet(s) PROVE x \in ToSet(s \o t)
    <2>1. PICK i \in 1..Len(s) : x = s[i]
      BY <1>2, <1>4 DEF ToSet
    <2>2. i \in 1..(Len(s) + Len(t)) /\ (s \o t)[i] = x
      BY <2>1, <1>1, <1>2
    <2> QED
      BY <2>2, <1>2 DEF ToSet
  <1>5. ASSUME NEW x \in ToSet(t) PROVE x \in ToSet(s \o t)
    <2>1. PICK i \in 1..Len(t) : x = t[i]
      BY <1>2, <1>5 DEF ToSet
    <2>2. Len(s) + i \in 1..(Len(s) + Len(t)) /\ (s \o t)[Len(s) + i] = x
      <3>1. Len(s) + i \in 1..(Len(s) + Len(t)) /\ ~(Len(s) + i <= Len(s))
            /\ (Len(s) + i) - Len(s) = i
        BY <1>2
      <3> QED
        BY <3>1, <2>1, <1>1
    <2> QED
      BY <2>2, <1>2 DEF ToSet
  <1> QED
    BY <1>1, <1>3, <1>4, <1>5

\* A short sequence.
LEMMA ShortElements ==
    /\ <<>> \in Seq(Codes) /\ ToSet(<<>>) = {}
    /\ \A c \in Codes : <<c>> \in Seq(Codes) /\ ToSet(<<c>>) = {c} /\ <<c>> # <<>>
PROOF
  BY DEF ToSet

\* What an entry contributes to the reasons: a code that blocks exactly if it
\* is not in the table, and nothing exactly if it is supported.
LEMMA EntryElements ==
    ASSUME NEW table, Rated(table), NEW id, NEW code \in BlockedCodes
    PROVE /\ _matrix_entry(table, id, code) \in Seq(Codes)
          /\ ToSet(_matrix_entry(table, id, code)) \cap BlockedCodes # {}
                <=> id \notin DOMAIN table
          /\ id \notin DOMAIN table => code \in ToSet(_matrix_entry(table, id, code))
          /\ ToSet(_matrix_entry(table, id, code)) = {} <=> Fits(table, id)
PROOF
  <1>1. Remediations \subseteq Codes /\ BlockedCodes \subseteq Remediations
    BY DEF Codes, Remediations
  <1>2. CASE id \notin DOMAIN table
    <2>1. _matrix_entry(table, id, code) = <<code>> /\ ~Fits(table, id)
      BY <1>2 DEF _matrix_entry, Fits
    <2> QED
      BY <1>1, <1>2, <2>1, ShortElements
  <1>3. CASE id \in DOMAIN table
    <2>1. _matrix_entry(table, id, code) = table[id] /\ (Fits(table, id) <=> table[id] = <<>>)
      BY <1>3 DEF _matrix_entry, Fits
    <2>2. CASE table[id] = <<>>
      BY <1>3, <2>1, <2>2, ShortElements
    <2>3. CASE table[id] # <<>>
      <3>1. PICK c \in Remediations \ BlockedCodes : table[id] = <<c>>
        BY <1>3, <2>3 DEF Rated
      <3> QED
        BY <1>1, <1>3, <2>1, <2>3, <3>1, ShortElements
    <2> QED
      BY <2>2, <2>3
  <1> QED
    BY <1>2, <1>3

\* A table whose conditions are no blocking codes.
LEMMA TableIsRated ==
    ASSUME NEW supported, NEW conditions,
           \A id \in DOMAIN conditions : conditions[id] \in Remediations \ BlockedCodes
    PROVE /\ Rated(Table(supported, conditions))
          /\ DOMAIN Table(supported, conditions) = supported \cup DOMAIN conditions
PROOF
  BY DEF Table, Rated

\* The elements of a tuple.
LEMMA TupleElements ==
    \A a, b, c : /\ ToSet(<<a, b, c>>) = {a, b, c} /\ ToSet(<<a, b>>) = {a, b}
                 /\ <<a, b, c>> \in Seq({a, b, c}) /\ <<a, b>> \in Seq({a, b})
PROOF
  BY DEF ToSet

\* Each table rates its entries.
LEMMA TablesAreRated ==
    /\ Rated(Versions) /\ Rated(Distributions)
    /\ \A f \in Families : Rated(Matrix[f])
    /\ \A f \in Discoverable : DOMAIN Matrix[f] = ToSet(Catalog[f])
    /\ \A f \in Families : NoProfile \notin DOMAIN Matrix[f]
    /\ Discoverable = {"storage", "ingress_network", "gitops_controller", "secret"}
    /\ \A f \in Discoverable : Catalog[f] \in Seq(ToSet(Catalog[f]))
PROOF
  <1>2. Rated(Versions)
    BY TableIsRated DEF Versions, Remediations, BlockedCodes
  <1>3. Rated(Distributions)
    <2> DEFINE conditions == [kubeadm |-> "ingress_controller_required",
                              openshift |-> "security_context_profile_adjustment",
                              kind |-> "disposable_evidence_harness_only"]
    <2>1. /\ DOMAIN conditions = {"kubeadm", "openshift", "kind"}
          /\ conditions["kubeadm"] = "ingress_controller_required"
          /\ conditions["openshift"] = "security_context_profile_adjustment"
          /\ conditions["kind"] = "disposable_evidence_harness_only"
      OBVIOUS
    <2>2. Distributions = Table({"eks", "gke", "aks"}, conditions)
      BY DEF Distributions
    <2> HIDE DEF conditions
    <2>3. \A id \in DOMAIN conditions : conditions[id] \in Remediations \ BlockedCodes
      BY <2>1 DEF Remediations, BlockedCodes
    <2> QED
      BY TableIsRated, <2>2, <2>3
  <1>4. /\ Rated(Matrix["storage"])
        /\ DOMAIN Matrix["storage"] =
              {"gp3-csi", "standard-rwo", "nfs-rwx"}
    <2> DEFINE conditions == [id \in {"nfs-rwx"} |-> "throughput_validation_required"]
    <2>1. Matrix["storage"] = Table({"gp3-csi", "standard-rwo"}, conditions)
      BY DEF Matrix
    <2>2. \A id \in DOMAIN conditions : conditions[id] \in Remediations \ BlockedCodes
      BY DEF Remediations, BlockedCodes
    <2>3. DOMAIN conditions = {"nfs-rwx"}
      OBVIOUS
    <2> HIDE DEF conditions
    <2>4. /\ Rated(Table({"gp3-csi", "standard-rwo"}, conditions))
          /\ DOMAIN Table({"gp3-csi", "standard-rwo"}, conditions) = {"gp3-csi", "standard-rwo"} \cup DOMAIN conditions
      BY <2>2, TableIsRated
    <2> QED
      BY <2>1, <2>3, <2>4
  <1>5. /\ Rated(Matrix["object_storage"])
        /\ DOMAIN Matrix["object_storage"] =
              {"s3-compatible", "azure-blob-s3-gateway", "gcs-s3-gateway"}
    <2> DEFINE conditions == [id \in {"azure-blob-s3-gateway", "gcs-s3-gateway"} |-> "snapshot_plugin_validation_required"]
    <2>1. Matrix["object_storage"] = Table({"s3-compatible"}, conditions)
      BY DEF Matrix
    <2>2. \A id \in DOMAIN conditions : conditions[id] \in Remediations \ BlockedCodes
      BY DEF Remediations, BlockedCodes
    <2>3. DOMAIN conditions = {"azure-blob-s3-gateway", "gcs-s3-gateway"}
      OBVIOUS
    <2> HIDE DEF conditions
    <2>4. /\ Rated(Table({"s3-compatible"}, conditions))
          /\ DOMAIN Table({"s3-compatible"}, conditions) = {"s3-compatible"} \cup DOMAIN conditions
      BY <2>2, TableIsRated
    <2> QED
      BY <2>1, <2>3, <2>4
  <1>6. /\ Rated(Matrix["identity"])
        /\ DOMAIN Matrix["identity"] =
              {"oidc", "saml", "static-users"}
    <2> DEFINE conditions == [id \in {"saml", "static-users"} |-> IF id = "saml" THEN "group_mapping_validation_required"
                                         ELSE "short_lived_usage_only"]
    <2>1. Matrix["identity"] = Table({"oidc"}, conditions)
      BY DEF Matrix
    <2>2. \A id \in DOMAIN conditions : conditions[id] \in Remediations \ BlockedCodes
      BY DEF Remediations, BlockedCodes
    <2>3. DOMAIN conditions = {"saml", "static-users"}
      OBVIOUS
    <2> HIDE DEF conditions
    <2>4. /\ Rated(Table({"oidc"}, conditions))
          /\ DOMAIN Table({"oidc"}, conditions) = {"oidc"} \cup DOMAIN conditions
      BY <2>2, TableIsRated
    <2> QED
      BY <2>1, <2>3, <2>4
  <1>7. /\ Rated(Matrix["secret"])
        /\ DOMAIN Matrix["secret"] =
              {"external-secrets", "vault", "sealed-secrets"}
    <2> DEFINE conditions == [id \in {"sealed-secrets"} |-> "manual_rotation_policy_required"]
    <2>1. Matrix["secret"] = Table({"external-secrets", "vault"}, conditions)
      BY DEF Matrix
    <2>2. \A id \in DOMAIN conditions : conditions[id] \in Remediations \ BlockedCodes
      BY DEF Remediations, BlockedCodes
    <2>3. DOMAIN conditions = {"sealed-secrets"}
      OBVIOUS
    <2> HIDE DEF conditions
    <2>4. /\ Rated(Table({"external-secrets", "vault"}, conditions))
          /\ DOMAIN Table({"external-secrets", "vault"}, conditions) = {"external-secrets", "vault"} \cup DOMAIN conditions
      BY <2>2, TableIsRated
    <2> QED
      BY <2>1, <2>3, <2>4
  <1>8. /\ Rated(Matrix["ingress_network"])
        /\ DOMAIN Matrix["ingress_network"] =
              {"nginx-ingress", "gateway-api", "traefik"}
    <2> DEFINE conditions == [id \in {"traefik"} |-> "header_forwarding_validation_required"]
    <2>1. Matrix["ingress_network"] = Table({"nginx-ingress", "gateway-api"}, conditions)
      BY DEF Matrix
    <2>2. \A id \in DOMAIN conditions : conditions[id] \in Remediations \ BlockedCodes
      BY DEF Remediations, BlockedCodes
    <2>3. DOMAIN conditions = {"traefik"}
      OBVIOUS
    <2> HIDE DEF conditions
    <2>4. /\ Rated(Table({"nginx-ingress", "gateway-api"}, conditions))
          /\ DOMAIN Table({"nginx-ingress", "gateway-api"}, conditions) = {"nginx-ingress", "gateway-api"} \cup DOMAIN conditions
      BY <2>2, TableIsRated
    <2> QED
      BY <2>1, <2>3, <2>4
  <1>9. /\ Rated(Matrix["gitops_controller"])
        /\ DOMAIN Matrix["gitops_controller"] =
              {"argocd", "flux"}
    <2> DEFINE conditions == [id \in {"flux"} |-> "application_set_equivalent_required"]
    <2>1. Matrix["gitops_controller"] = Table({"argocd"}, conditions)
      BY DEF Matrix
    <2>2. \A id \in DOMAIN conditions : conditions[id] \in Remediations \ BlockedCodes
      BY DEF Remediations, BlockedCodes
    <2>3. DOMAIN conditions = {"flux"}
      OBVIOUS
    <2> HIDE DEF conditions
    <2>4. /\ Rated(Table({"argocd"}, conditions))
          /\ DOMAIN Table({"argocd"}, conditions) = {"argocd"} \cup DOMAIN conditions
      BY <2>2, TableIsRated
    <2> QED
      BY <2>1, <2>3, <2>4
  <1>10. /\ Discoverable = {"storage", "ingress_network", "gitops_controller", "secret"}
         /\ Catalog["storage"] = <<"gp3-csi", "standard-rwo", "nfs-rwx">>
         /\ Catalog["ingress_network"] = <<"nginx-ingress", "gateway-api", "traefik">>
         /\ Catalog["gitops_controller"] = <<"argocd", "flux">>
         /\ Catalog["secret"] = <<"external-secrets", "vault", "sealed-secrets">>
    BY DEF Discoverable, Catalog
  <1>12. \A f \in Discoverable : DOMAIN Matrix[f] = ToSet(Catalog[f])
                                 /\ Catalog[f] \in Seq(ToSet(Catalog[f]))
    <2>1. DOMAIN Matrix["storage"] = ToSet(Catalog["storage"])
          /\ Catalog["storage"] \in Seq(ToSet(Catalog["storage"]))
      <3>1. ToSet(<<"gp3-csi", "standard-rwo", "nfs-rwx">>) = {"gp3-csi", "standard-rwo", "nfs-rwx"}
            /\ <<"gp3-csi", "standard-rwo", "nfs-rwx">> \in Seq({"gp3-csi", "standard-rwo", "nfs-rwx"})
        BY TupleElements
      <3> QED
        BY <3>1, <1>4, <1>10, Zenon
    <2>2. DOMAIN Matrix["ingress_network"] = ToSet(Catalog["ingress_network"])
          /\ Catalog["ingress_network"] \in Seq(ToSet(Catalog["ingress_network"]))
      <3>1. ToSet(<<"nginx-ingress", "gateway-api", "traefik">>) = {"nginx-ingress", "gateway-api", "traefik"}
            /\ <<"nginx-ingress", "gateway-api", "traefik">> \in Seq({"nginx-ingress", "gateway-api", "traefik"})
        BY TupleElements
      <3> QED
        BY <3>1, <1>8, <1>10, Zenon
    <2>3. DOMAIN Matrix["gitops_controller"] = ToSet(Catalog["gitops_controller"])
          /\ Catalog["gitops_controller"] \in Seq(ToSet(Catalog["gitops_controller"]))
      <3>1. ToSet(<<"argocd", "flux">>) = {"argocd", "flux"}
            /\ <<"argocd", "flux">> \in Seq({"argocd", "flux"})
        BY TupleElements
      <3> QED
        BY <3>1, <1>9, <1>10, Zenon
    <2>4. DOMAIN Matrix["secret"] = ToSet(Catalog["secret"])
          /\ Catalog["secret"] \in Seq(ToSet(Catalog["secret"]))
      <3>1. ToSet(<<"external-secrets", "vault", "sealed-secrets">>) = {"external-secrets", "vault", "sealed-secrets"}
            /\ <<"external-secrets", "vault", "sealed-secrets">> \in Seq({"external-secrets", "vault", "sealed-secrets"})
        BY TupleElements
      <3> QED
        BY <3>1, <1>7, <1>10, Zenon
    <2> QED
      BY <2>1, <2>2, <2>3, <2>4, <1>10
  <1>13. \A f \in Families : Rated(Matrix[f])
    BY <1>4, <1>5, <1>6, <1>7, <1>8, <1>9 DEF Families
  <1>14. \A f \in Families : NoProfile \notin DOMAIN Matrix[f]
    <2>1. NoProfile \notin DOMAIN Matrix["storage"]
      BY <1>4 DEF NoProfile
    <2>2. NoProfile \notin DOMAIN Matrix["object_storage"]
      BY <1>5 DEF NoProfile
    <2>3. NoProfile \notin DOMAIN Matrix["identity"]
      BY <1>6 DEF NoProfile
    <2>4. NoProfile \notin DOMAIN Matrix["secret"]
      BY <1>7 DEF NoProfile
    <2>5. NoProfile \notin DOMAIN Matrix["ingress_network"]
      BY <1>8 DEF NoProfile
    <2>6. NoProfile \notin DOMAIN Matrix["gitops_controller"]
      BY <1>9 DEF NoProfile
    <2> QED
      BY <2>1, <2>2, <2>3, <2>4, <2>5, <2>6 DEF Families
  <1> QED
    BY <1>2, <1>3, <1>10, <1>12, <1>13, <1>14

VersionEntry(v) ==
    _matrix_entry(Versions, _normalize_version(v), "unsupported_kubernetes_version")

DistributionEntry(d) == _matrix_entry(Distributions, d, "unsupported_distribution")

FamilyEntry(f, profiles) ==
    _matrix_entry(Matrix[f], profiles[f], "missing_required_profile")

\* The reasons of a grade are those of its entries and of preflight.
LEMMA GradeElements ==
    ASSUME NEW v, NEW d, NEW profiles, NEW extra \in Seq(Codes)
    PROVE /\ grade_compatibility(v, d, profiles, extra) \in Seq(Codes)
          /\ \A c : c \in ToSet(grade_compatibility(v, d, profiles, extra)) <=>
                \/ c \in ToSet(VersionEntry(v))
                \/ c \in ToSet(DistributionEntry(d))
                \/ \E f \in Families : c \in ToSet(FamilyEntry(f, profiles))
                \/ c \in ToSet(extra)
PROOF
  <1> DEFINE e(f) == FamilyEntry(f, profiles)
             s1 == VersionEntry(v) \o DistributionEntry(d)
             s2 == s1 \o e("storage")
             s3 == s2 \o e("object_storage")
             s4 == s3 \o e("identity")
             s5 == s4 \o e("secret")
             s6 == s5 \o e("ingress_network")
             s7 == s6 \o e("gitops_controller")
             s8 == s7 \o extra
  <1>1. VersionEntry(v) \in Seq(Codes) /\ DistributionEntry(d) \in Seq(Codes)
        /\ \A f \in Families : e(f) \in Seq(Codes)
    BY TablesAreRated, EntryElements
       DEF VersionEntry, DistributionEntry, FamilyEntry, BlockedCodes
  <1>2. e("storage") \in Seq(Codes) /\ e("object_storage") \in Seq(Codes)
        /\ e("identity") \in Seq(Codes) /\ e("secret") \in Seq(Codes)
        /\ e("ingress_network") \in Seq(Codes) /\ e("gitops_controller") \in Seq(Codes)
    BY <1>1 DEF Families
  <1>3. grade_compatibility(v, d, profiles, extra) = _dedupe(s8)
    BY DEF grade_compatibility, VersionEntry, DistributionEntry, FamilyEntry
  <1> HIDE DEF e
  <1>4. s1 \in Seq(Codes) /\ ToSet(s1) = ToSet(VersionEntry(v)) \cup ToSet(DistributionEntry(d))
    BY <1>1, ConcatElements
  <1> HIDE DEF s1
  <1>5. s2 \in Seq(Codes) /\ ToSet(s2) = ToSet(s1) \cup ToSet(e("storage"))
    BY <1>2, <1>4, ConcatElements
  <1> HIDE DEF s2
  <1>6. s3 \in Seq(Codes) /\ ToSet(s3) = ToSet(s2) \cup ToSet(e("object_storage"))
    BY <1>2, <1>5, ConcatElements
  <1> HIDE DEF s3
  <1>7. s4 \in Seq(Codes) /\ ToSet(s4) = ToSet(s3) \cup ToSet(e("identity"))
    BY <1>2, <1>6, ConcatElements
  <1> HIDE DEF s4
  <1>8. s5 \in Seq(Codes) /\ ToSet(s5) = ToSet(s4) \cup ToSet(e("secret"))
    BY <1>2, <1>7, ConcatElements
  <1> HIDE DEF s5
  <1>9. s6 \in Seq(Codes) /\ ToSet(s6) = ToSet(s5) \cup ToSet(e("ingress_network"))
    BY <1>2, <1>8, ConcatElements
  <1> HIDE DEF s6
  <1>10. s7 \in Seq(Codes) /\ ToSet(s7) = ToSet(s6) \cup ToSet(e("gitops_controller"))
    BY <1>2, <1>9, ConcatElements
  <1> HIDE DEF s7
  <1>11. s8 \in Seq(Codes) /\ ToSet(s8) = ToSet(s7) \cup ToSet(extra)
    BY <1>10, ConcatElements
  <1> HIDE DEF s8
  <1>12. _dedupe(s8) \in Seq(Codes) /\ ToSet(_dedupe(s8)) = ToSet(s8)
    BY <1>11, DedupeElements
  <1>13. ToSet(s3) = ToSet(VersionEntry(v)) \cup ToSet(DistributionEntry(d))
                     \cup (ToSet(e("storage")) \cup ToSet(e("object_storage")))
    BY <1>4, <1>5, <1>6
  <1>14. ToSet(s5) = ToSet(s3) \cup (ToSet(e("identity")) \cup ToSet(e("secret")))
    BY <1>7, <1>8
  <1>15. ToSet(s8) = ToSet(s5) \cup (ToSet(e("ingress_network"))
                     \cup ToSet(e("gitops_controller"))) \cup ToSet(extra)
    BY <1>9, <1>10, <1>11
  <1>16. \A c : c \in ToSet(s8) <=>
            \/ c \in ToSet(VersionEntry(v)) \/ c \in ToSet(DistributionEntry(d))
            \/ \E f \in Families : c \in ToSet(e(f))
            \/ c \in ToSet(extra)
    BY <1>13, <1>14, <1>15 DEF Families
  <1> QED
    BY <1>3, <1>12, <1>16 DEF e

\* The conditions of a preflight are its failures that have a remediation.
LEMMA ConditionElements ==
    ASSUME NEW pre, pre.checks \in Seq(Results)
    PROVE /\ preflight_conditions(pre) \in Seq(Codes)
          /\ ToSet(preflight_conditions(pre)) =
                {pre.checks[i].reason : i \in {k \in 1..Len(pre.checks) :
                    /\ pre.checks[k].status \in {"fail", "warn"}
                    /\ pre.checks[k].reason \in Remediations}}
PROOF
  <1> DEFINE reasons == [i \in 1..Len(pre.checks) |-> pre.checks[i].reason]
             folded == {i \in 1..Len(pre.checks) :
                           /\ pre.checks[i].status \in {"fail", "warn"}
                           /\ pre.checks[i].reason \in Remediations}
  <1>1. Len(pre.checks) \in Nat /\ \A i \in 1..Len(pre.checks) : pre.checks[i] \in Results
    OBVIOUS
  <1>2. \A r \in Results : r.reason \in Codes
    BY DEF Results, Codes
  <1>3. reasons \in Seq(Codes) /\ Len(reasons) = Len(pre.checks)
    BY <1>1, <1>2
  <1>4. preflight_conditions(pre) = _dedupe(Pick(reasons, folded))
    BY DEF preflight_conditions
  <1>5. \A i \in 1..Len(pre.checks) : reasons[i] = pre.checks[i].reason
    OBVIOUS
  <1>6. folded \subseteq 1..Len(pre.checks)
    OBVIOUS
  <1> HIDE DEF reasons, folded
  <1>7. Pick(reasons, folded) \in Seq(Codes)
        /\ ToSet(Pick(reasons, folded)) = Picked(reasons, folded, Len(reasons))
    BY <1>3, PickElements
  <1>8. ToSet(Pick(reasons, folded)) = {pre.checks[i].reason : i \in folded}
    BY <1>3, <1>5, <1>6, <1>7 DEF Picked
  <1>9. _dedupe(Pick(reasons, folded)) \in Seq(Codes)
        /\ ToSet(_dedupe(Pick(reasons, folded))) = ToSet(Pick(reasons, folded))
    BY <1>7, DedupeElements
  <1>10. ToSet(preflight_conditions(pre)) = {pre.checks[i].reason : i \in folded}
    BY <1>4, <1>8, <1>9
  <1> QED
    BY <1>4, <1>9, <1>10 DEF folded

\* THEOREM: whatever was interrupted before, the artifacts of an evaluate that
\* ended with 0 are of one piece: one cluster, one mode, one list of reasons,
\* and a family without a profile is among the reasons.
THEOREM ArtifactsAreOfOnePiece == Spec => []ArtifactsAgreeUnlessInterrupted
PROOF
  <1>1. ArtifactsInv => ArtifactsAgreeUnlessInterrupted
    <2> SUFFICES ASSUME ArtifactsInv, basis # NoBasis
                 PROVE ArtifactsAgreeUnlessInterrupted
      BY DEF ArtifactsAgreeUnlessInterrupted
    <2>1. PICK pre, disc : Evaluated(pre, disc)
      BY DEF ArtifactsInv, BasisInv
    <2> DEFINE o == basis.overrides
               e == evaluate_reports(pre, disc, o, basis.flags)
               reasons == Reasons(pre, disc, o)
    <2>2. /\ artifacts["capability_matrix"] = e["capability_matrix"]
          /\ artifacts["compatibility_result"] = e["compatibility_result"]
          /\ artifacts["mode_recommendation"] = e["mode_recommendation"]
          /\ artifacts["remediation_list"] = e["remediation_list"]
      BY <2>1, FourFiles DEF Evaluated
    <2>3. /\ e["capability_matrix"].kind = "capability_matrix"
          /\ e["capability_matrix"].cluster = disc.cluster.name
          /\ e["capability_matrix"].capabilities = build_capability_matrix(disc)
          /\ e["compatibility_result"].kind = "compatibility_result"
          /\ e["compatibility_result"].cluster = disc.cluster.name
          /\ e["compatibility_result"].reasons = reasons
          /\ e["mode_recommendation"].kind = "mode_recommendation"
          /\ e["mode_recommendation"].cluster = disc.cluster.name
          /\ e["mode_recommendation"].mode = e["compatibility_result"].mode
          /\ e["remediation_list"].kind = "remediation_list"
          /\ e["remediation_list"].cluster = disc.cluster.name
          /\ e["remediation_list"].remediations = reasons
      BY DEF evaluate_reports
    <2> HIDE DEF e
    <2>4. \A f \in ToSet(ArtifactOrder) :
             Loads(artifacts[f]) /\ artifacts[f].cluster = disc.cluster.name
      <3>1. ToSet(ArtifactOrder) = {"capability_matrix", "compatibility_result",
                                    "mode_recommendation", "remediation_list"}
        BY FourFiles
      <3> QED
        BY <3>1, <2>2, <2>3 DEF Loads
    <2>5. ASSUME NEW f \in Discoverable \ DOMAIN o,
                 build_capability_matrix(disc)[f].default = NoProfile
          PROVE "missing_required_profile" \in ToSet(reasons)
      <3> DEFINE profiles == resolve_profiles(build_capability_matrix(disc), o)
      <3>1. f \in Families
        BY TablesAreRated DEF Families
      <3>2. profiles[f] = NoProfile
        BY <3>1, <2>5 DEF resolve_profiles
      <3>3. "missing_required_profile" \in ToSet(FamilyEntry(f, profiles))
        <4>1. profiles[f] \notin DOMAIN Matrix[f] /\ Rated(Matrix[f])
          BY <3>1, <3>2, TablesAreRated
        <4>2. "missing_required_profile" \in BlockedCodes
          BY DEF BlockedCodes
        <4> HIDE DEF profiles
        <4> QED
          BY <4>1, <4>2, EntryElements DEF FamilyEntry
      <3>4. preflight_conditions(pre) \in Seq(Codes)
        BY <2>1, ConditionElements DEF Evaluated
      <3>5. reasons = grade_compatibility(disc.cluster.version, disc.cluster.distribution,
                                          profiles, preflight_conditions(pre))
        BY DEF Reasons
      <3> HIDE DEF profiles, reasons
      <3>6. \A g \in Families : ToSet(FamilyEntry(g, profiles)) \subseteq ToSet(reasons)
        BY <3>4, <3>5, GradeElements
      <3> QED
        BY <3>1, <3>3, <3>6
    <2> QED
      BY <2>2, <2>3, <2>4, <2>5 DEF ArtifactsAgreeUnlessInterrupted
  <1> QED
    BY <1>1, ArtifactsInvHolds, PTL

-----------------------------------------------------------------------------
(* The verdict. *)

\* What a grade says of the entries it was computed from.
LEMMA GradeMeaning ==
    ASSUME NEW v, NEW d, NEW profiles, NEW extra \in Seq(Codes),
           ToSet(extra) \cap BlockedCodes = {},
           NEW grade, grade = grade_of(grade_compatibility(v, d, profiles, extra))
    PROVE /\ grade \in {"blocked", "conditional", "supported"}
          /\ grade = "blocked" <=>
                \/ _normalize_version(v) \notin DOMAIN Versions
                \/ d \notin DOMAIN Distributions
                \/ \E f \in Families : profiles[f] \notin DOMAIN Matrix[f]
          /\ grade = "supported" <=>
                /\ Fits(Versions, _normalize_version(v)) /\ Fits(Distributions, d)
                /\ \A f \in Families : Fits(Matrix[f], profiles[f])
                /\ ToSet(extra) = {}
PROOF
  <1> DEFINE r == grade_compatibility(v, d, profiles, extra)
  <1>1. /\ r \in Seq(Codes)
        /\ \A c : c \in ToSet(r) <=>
              \/ c \in ToSet(VersionEntry(v)) \/ c \in ToSet(DistributionEntry(d))
              \/ \E f \in Families : c \in ToSet(FamilyEntry(f, profiles))
              \/ c \in ToSet(extra)
    BY GradeElements
  <1> HIDE DEF r
  <1>2. /\ ToSet(VersionEntry(v)) \cap BlockedCodes # {}
              <=> _normalize_version(v) \notin DOMAIN Versions
        /\ ToSet(VersionEntry(v)) = {} <=> Fits(Versions, _normalize_version(v))
    <2>1. "unsupported_kubernetes_version" \in BlockedCodes
      BY DEF BlockedCodes
    <2> QED
      BY <2>1, TablesAreRated, EntryElements DEF VersionEntry
  <1>3. /\ ToSet(DistributionEntry(d)) \cap BlockedCodes # {} <=> d \notin DOMAIN Distributions
        /\ ToSet(DistributionEntry(d)) = {} <=> Fits(Distributions, d)
    <2>1. "unsupported_distribution" \in BlockedCodes
      BY DEF BlockedCodes
    <2> QED
      BY <2>1, TablesAreRated, EntryElements DEF DistributionEntry
  <1>4. \A f \in Families :
           /\ ToSet(FamilyEntry(f, profiles)) \cap BlockedCodes # {}
                 <=> profiles[f] \notin DOMAIN Matrix[f]
           /\ ToSet(FamilyEntry(f, profiles)) = {} <=> Fits(Matrix[f], profiles[f])
    <2>1. "missing_required_profile" \in BlockedCodes
      BY DEF BlockedCodes
    <2> QED
      BY <2>1, TablesAreRated, EntryElements DEF FamilyEntry
  <1>5. ToSet(r) \cap BlockedCodes # {} <=>
           \/ _normalize_version(v) \notin DOMAIN Versions
           \/ d \notin DOMAIN Distributions
           \/ \E f \in Families : profiles[f] \notin DOMAIN Matrix[f]
    BY <1>1, <1>2, <1>3, <1>4
  <1>6. ToSet(r) = {} <=>
           /\ Fits(Versions, _normalize_version(v)) /\ Fits(Distributions, d)
           /\ \A f \in Families : Fits(Matrix[f], profiles[f])
           /\ ToSet(extra) = {}
    BY <1>1, <1>2, <1>3, <1>4
  <1>7. ToSet(r) = {} <=> r = <<>>
    BY <1>1, NoElements
  <1>8. grade = IF ToSet(r) \cap BlockedCodes # {} THEN "blocked"
                ELSE IF r # <<>> THEN "conditional" ELSE "supported"
    BY DEF grade_of, r
  <1>9. /\ grade \in {"blocked", "conditional", "supported"}
        /\ grade = "blocked" <=> ToSet(r) \cap BlockedCodes # {}
        /\ grade = "supported" <=> ToSet(r) = {}
    BY <1>7, <1>8
  <1> QED
    BY <1>5, <1>6, <1>9

\* The sections, one by one.
LEMMA SectionContents ==
    /\ Sections[1].storage = cluster.storage
    /\ Sections[1].ingress = _storage_and_ingress.ingress
    /\ Sections[2].gitops = Detected(GITOPS_SIGNATURES)
    /\ Sections[2].secrets = Detected(SECRET_SIGNATURES)
    /\ Sections[3].services = {_onboardable_candidate(s) : s \in cluster.services}
PROOF
  <1>1. Sections[1] = _storage_and_ingress /\ Sections[2] = _gitops_and_secrets
        /\ Sections[3] = _workload_inventory
    BY DEF Sections, Section
  <1>2. _storage_and_ingress.storage = cluster.storage
    BY DEF _storage_and_ingress
  <1>3. _gitops_and_secrets.gitops = Detected(GITOPS_SIGNATURES)
        /\ _gitops_and_secrets.secrets = Detected(SECRET_SIGNATURES)
    BY DEF _gitops_and_secrets
  <1>4. _workload_inventory.services = {_onboardable_candidate(s) : s \in cluster.services}
    BY DEF _workload_inventory
  <1> QED
    BY <1>1, <1>2, <1>3, <1>4

\* The profile of a family is one that can be selected, if any can.
LEMMA ProfileMeaning ==
    ASSUME NEW disc, Depicts(disc), NEW o, NEW f \in Families, NEW profile,
           profile = resolve_profiles(build_capability_matrix(disc), o)[f]
    PROVE /\ profile \in DOMAIN Matrix[f] => profile \in Selectable(f, o)
          /\ profile \in DOMAIN Matrix[f] <=> Selectable(f, o) # {}
PROOF
  <1>1. profile = IF f \in DOMAIN o THEN o[f]
                  ELSE IF f \in Discoverable THEN build_capability_matrix(disc)[f].default
                  ELSE NoProfile
    BY DEF resolve_profiles
  <1>2. CASE f \in DOMAIN o
    BY <1>1, <1>2 DEF Selectable
  <1>3. CASE f \notin DOMAIN o /\ f \notin Discoverable
    <2>1. profile = NoProfile
      BY <1>1, <1>3
    <2>2. Available(f) = {}
      BY <1>3, TablesAreRated DEF Available
    <2> QED
      BY <1>3, <2>1, <2>2, TablesAreRated DEF Selectable
  <1>4. CASE f \notin DOMAIN o /\ f \in Discoverable
    <2> DEFINE seen == Observed(disc, f)
               candidates == _candidates(f, seen)
               preferred == IF f = "storage" THEN DefaultClass(disc) ELSE NoProfile
    <2>1. Available(f) = DOMAIN Matrix[f] \cap seen
      <3>1. f \in {"storage", "ingress_network", "gitops_controller", "secret"}
        BY <1>4, TablesAreRated
      <3>2. /\ disc.storage = cluster.storage
            /\ disc.ingress = _storage_and_ingress.ingress
            /\ disc.gitops = Detected(GITOPS_SIGNATURES)
            /\ disc.secrets = Detected(SECRET_SIGNATURES)
        BY SectionContents DEF Depicts
      <3> QED
        BY <3>1, <3>2 DEF Available, Observed
    <2>2. profile = _default_from_candidates(f, candidates, preferred)
      BY <1>1, <1>4 DEF build_capability_matrix
    <2> HIDE DEF seen
    <2>3. Catalog[f] \in Seq(ToSet(Catalog[f])) /\ DOMAIN Matrix[f] = ToSet(Catalog[f])
      BY <1>4, TablesAreRated
    <2> DEFINE places == {i \in DOMAIN Catalog[f] : Catalog[f][i] \in seen}
    <2>4. candidates = Pick(Catalog[f], places)
      BY DEF _candidates
    <2>5. places \subseteq 1..Len(Catalog[f]) /\ DOMAIN Catalog[f] = 1..Len(Catalog[f])
      BY <2>3
    <2>6. Picked(Catalog[f], places, Len(Catalog[f])) = ToSet(Catalog[f]) \cap seen
      BY <2>5 DEF Picked, ToSet
    <2> HIDE DEF places
    <2>7. candidates \in Seq(ToSet(Catalog[f])) /\ ToSet(candidates) = Available(f)
      BY <2>1, <2>3, <2>4, <2>6, PickElements
    <2> HIDE DEF candidates, preferred
    <2>8. CASE preferred \in ToSet(candidates)
      <3>1. profile = preferred
        BY <2>2, <2>8 DEF _default_from_candidates
      <3> QED
        BY <3>1, <2>1, <2>7, <2>8, <1>4 DEF Selectable
    <2>9. CASE preferred \notin ToSet(candidates) /\ candidates # <<>>
      <3>1. profile = Head(candidates)
        BY <2>2, <2>9 DEF _default_from_candidates, FirstOr
      <3>2. Head(candidates) \in ToSet(candidates)
        <4>1. 1 \in DOMAIN candidates /\ Head(candidates) = candidates[1]
          BY <2>7, <2>9
        <4> QED
          BY <4>1 DEF ToSet
      <3> QED
        BY <3>1, <3>2, <2>1, <2>7, <1>4 DEF Selectable
    <2>10. CASE preferred \notin ToSet(candidates) /\ candidates = <<>>
      <3>1. profile = NoProfile
        BY <2>2, <2>10 DEF _default_from_candidates, FirstOr
      <3>2. Available(f) = {}
        BY <2>7, <2>10, NoElements
      <3> QED
        BY <3>1, <3>2, <1>4, TablesAreRated DEF Selectable
    <2> QED
      BY <2>8, <2>9, <2>10
  <1> QED
    BY <1>2, <1>3, <1>4

\* The one condition preflight can add is that of a partial Gateway API.
LEMMA ConditionMeaning ==
    ASSUME NEW pre, pre.checks \in Seq(Results), Len(pre.checks) = 6, Shows(pre), CanProbe
    PROVE /\ ToSet(preflight_conditions(pre)) \cap BlockedCodes = {}
          /\ ToSet(preflight_conditions(pre)) # {} <=> cluster.reachable /\ GatewayIsPartial
PROOF
  <1> DEFINE folded == {k \in 1..6 : /\ pre.checks[k].status \in {"fail", "warn"}
                                     /\ pre.checks[k].reason \in Remediations}
  <1>1. ToSet(preflight_conditions(pre)) = {pre.checks[i].reason : i \in folded}
    <2>1. 1..Len(pre.checks) = 1..6
      OBVIOUS
    <2> QED
      BY <2>1, ConditionElements, Zenon
  <1>2. \A i \in 1..6 : pre.checks[i] = Expected[i] /\ pre.checks[i] \in Results
    <2>1. \A i \in 1..6 : pre.checks[i] \in Results
      OBVIOUS
    <2>2. \A i \in 1..6 : pre.checks[i] = Expected[i]
      BY DEF Shows
    <2> QED
      BY <2>1, <2>2
  <1>3. \A res \in Results : res.reason \in Remediations =>
                               res.reason = "gateway_api_crds_required"
    BY DEF Results, Remediations, BlockedCodes
  <1>4. "gateway_api_crds_required" \in Remediations \ BlockedCodes
    BY DEF Remediations, BlockedCodes
  <1>5. ToSet(preflight_conditions(pre)) \subseteq {"gateway_api_crds_required"}
    BY <1>1, <1>2, <1>3
  <1>6. \A i \in 1..6 : i # 4 => Expected[i].reason # "gateway_api_crds_required"
    <2> SUFFICES ASSUME NEW i \in 1..6, i # 4
                 PROVE Expected[i].reason # "gateway_api_crds_required"
      OBVIOUS
    <2>1. CASE i = 1 \/ ~cluster.reachable
      BY <2>1 DEF Expected, Result, Pass
    <2>2. CASE i # 1 /\ cluster.reachable
      <3>1. Expected[i] = CheckResult(CHECKS[i - 1])
        BY <2>2 DEF Expected
      <3>2. CHECKS[i - 1] \in {"required_permissions", "required_api_readiness",
                               "storage_compatibility", "gitops_prerequisites"}
        BY <2>2 DEF CHECKS
      <3> QED
        BY <3>1, <3>2 DEF CheckResult, evaluate_check, _check_required_permissions,
               _check_required_api_readiness, _check_storage_compatibility,
               _check_gitops_prerequisites, PassIf, Pass, Result
    <2> QED
      BY <2>1, <2>2
  <1>7. Expected[4] = IF cluster.reachable THEN _check_required_crd_readiness
                      ELSE Result("skip", "skipped_cluster_unreachable")
    <2>1. CHECKS[3] = "required_crd_readiness"
      BY DEF CHECKS
    <2>2. Readable({"crds"})
      BY DEF CanProbe, Readable, SectionReads
    <2>3. CheckResult("required_crd_readiness") = _check_required_crd_readiness
      BY <2>2 DEF CheckResult, Reads, evaluate_check
    <2>4. Expected[4] = IF cluster.reachable THEN CheckResult(CHECKS[4 - 1])
                        ELSE Result("skip", "skipped_cluster_unreachable")
      BY DEF Expected
    <2> QED
      BY <2>1, <2>3, <2>4
  <1>8. /\ Expected[4].status \in {"fail", "warn"}
              /\ Expected[4].reason = "gateway_api_crds_required"
           <=> cluster.reachable /\ GatewayIsPartial
    <2>1. CASE ~cluster.reachable
      BY <1>7, <2>1 DEF Result
    <2>2. CASE cluster.reachable
      BY <1>7, <2>2 DEF _check_required_crd_readiness, GatewayIsPartial, PassIf, Pass, Result
    <2> QED
      BY <2>1, <2>2
  <1>9. folded # {} <=> cluster.reachable /\ GatewayIsPartial
    <2>1. \A k \in folded : k = 4
      BY <1>2, <1>3, <1>6
    <2>2. 4 \in folded <=> cluster.reachable /\ GatewayIsPartial
      <3>1. 4 \in folded => Expected[4].reason = "gateway_api_crds_required"
        BY <1>2, <1>3
      <3>2. pre.checks[4] = Expected[4]
        BY <1>2
      <3> QED
        BY <1>4, <1>8, <3>1, <3>2
    <2> HIDE DEF folded
    <2> QED
      BY <2>1, <2>2
  <1> HIDE DEF folded
  <1>10. ToSet(preflight_conditions(pre)) # {} <=> folded # {}
    BY <1>1
  <1>11. ToSet(preflight_conditions(pre)) \cap BlockedCodes = {}
    BY <1>4, <1>5
  <1> QED
    BY <1>9, <1>10, <1>11

\* The grade fits the cluster.
LEMMA GradeIsRight ==
    ASSUME NEW pre, NEW disc, NEW o, pre.checks \in Seq(Results), Len(pre.checks) = 6,
           Shows(pre), Depicts(disc)
    PROVE GradeFits(grade_of(Reasons(pre, disc, o)), o)
PROOF
  <1> DEFINE profiles == resolve_profiles(build_capability_matrix(disc), o)
             extra == preflight_conditions(pre)
             grade == grade_of(Reasons(pre, disc, o))
  <1>1. disc.cluster = cluster.info /\ CanProbe
    BY DEF Depicts
  <1>2. extra \in Seq(Codes)
    BY ConditionElements
  <1>3. /\ ToSet(extra) \cap BlockedCodes = {}
        /\ ToSet(extra) # {} <=> cluster.reachable /\ GatewayIsPartial
    BY <1>1, ConditionMeaning
  <1>4. grade = grade_of(grade_compatibility(cluster.info.version,
                            cluster.info.distribution, profiles, extra))
    BY <1>1 DEF Reasons
  <1>5. \A f \in Families :
           /\ profiles[f] \in DOMAIN Matrix[f] => profiles[f] \in Selectable(f, o)
           /\ profiles[f] \in DOMAIN Matrix[f] <=> Selectable(f, o) # {}
    BY ProfileMeaning
  <1> HIDE DEF profiles, extra, grade
  <1>6. Release = _normalize_version(cluster.info.version)
    BY DEF Release, _normalize_version
  <1>7. /\ grade \in {"blocked", "conditional", "supported"}
        /\ grade = "blocked" <=>
              \/ Release \notin DOMAIN Versions
              \/ cluster.info.distribution \notin DOMAIN Distributions
              \/ \E f \in Families : profiles[f] \notin DOMAIN Matrix[f]
        /\ grade = "supported" <=>
              /\ PlatformFits
              /\ \A f \in Families : Fits(Matrix[f], profiles[f])
              /\ ToSet(extra) = {}
    BY <1>2, <1>3, <1>4, <1>6, GradeMeaning DEF PlatformFits
  <1>8. \A f \in Families : Fits(Matrix[f], profiles[f]) => profiles[f] \in DOMAIN Matrix[f]
    BY DEF Fits
  <1>9. grade = "blocked" <=>
           \/ Release \notin DOMAIN Versions
           \/ cluster.info.distribution \notin DOMAIN Distributions
           \/ \E f \in Families : Selectable(f, o) = {}
    BY <1>5, <1>7
  <1>10. grade = "supported" =>
            /\ PlatformFits
            /\ cluster.reachable => ~GatewayIsPartial
            /\ \A f \in Families : \E p \in Selectable(f, o) : Fits(Matrix[f], p)
    BY <1>3, <1>5, <1>7, <1>8
  <1>11. grade = "conditional" =>
            ~ /\ PlatformFits /\ ~GatewayIsPartial
              /\ \A f \in Families : \A p \in Selectable(f, o) : Fits(Matrix[f], p)
    <2> SUFFICES ASSUME grade = "conditional", PlatformFits, ~GatewayIsPartial,
                        \A f \in Families : \A p \in Selectable(f, o) : Fits(Matrix[f], p)
                 PROVE FALSE
      OBVIOUS
    <2>1. \A f \in Families : profiles[f] \in DOMAIN Matrix[f]
      BY <1>7
    <2>2. \A f \in Families : Fits(Matrix[f], profiles[f])
      BY <2>1, <1>5
    <2>3. grade = "supported"
      BY <2>2, <1>3, <1>7
    <2> QED
      BY <2>3
  <1>12. GradeFits(grade, o)
    BY <1>9, <1>10, <1>11 DEF GradeFits
  <1> QED
    BY <1>12 DEF grade

-----------------------------------------------------------------------------
(* The mode. *)

\* What each of the four rules asks for.
LEMMA RuleMeaning ==
    ASSUME NEW inputs
    PROVE /\ Matches(ModeRules[1], inputs) <=> inputs["evaluation_only"] = TRUE
          /\ Matches(ModeRules[2], inputs) <=>
                /\ inputs["has_compatible_existing_services"] = TRUE
                /\ inputs["allow_new_backend_components"] = FALSE
          /\ Matches(ModeRules[3], inputs) <=>
                /\ inputs["has_compatible_existing_services"] = TRUE
                /\ inputs["allow_new_backend_components"] = TRUE
                /\ inputs["require_in_cluster_collectors"] = TRUE
          /\ Matches(ModeRules[4], inputs) <=>
                /\ inputs["has_compatible_existing_services"] = FALSE
                /\ inputs["allow_new_backend_components"] = TRUE
PROOF
  <1>1. ModeRules[1].when = [evaluation_only |-> TRUE]
    BY DEF ModeRules
  <1>2. ModeRules[2].when = [has_compatible_existing_services |-> TRUE,
                             allow_new_backend_components |-> FALSE]
    BY DEF ModeRules
  <1>3. ModeRules[3].when = [has_compatible_existing_services |-> TRUE,
                             allow_new_backend_components |-> TRUE,
                             require_in_cluster_collectors |-> TRUE]
    BY DEF ModeRules
  <1>4. ModeRules[4].when = [has_compatible_existing_services |-> FALSE,
                             allow_new_backend_components |-> TRUE]
    BY DEF ModeRules
  <1>5. Matches(ModeRules[1], inputs) <=> inputs["evaluation_only"] = TRUE
    <2>1. DOMAIN ModeRules[1].when = {"evaluation_only"}
      BY <1>1
    <2>2. ModeRules[1].when["evaluation_only"] = TRUE
      BY <1>1
    <2> QED
      BY <2>1, <2>2, Zenon DEF Matches
  <1>6. Matches(ModeRules[2], inputs) <=>
                /\ inputs["has_compatible_existing_services"] = TRUE
                /\ inputs["allow_new_backend_components"] = FALSE
    <2>1. DOMAIN ModeRules[2].when = {"has_compatible_existing_services",
                                       "allow_new_backend_components"}
      BY <1>2
    <2>2. /\ ModeRules[2].when["has_compatible_existing_services"] = TRUE
          /\ ModeRules[2].when["allow_new_backend_components"] = FALSE
      BY <1>2
    <2> QED
      BY <2>1, <2>2, Zenon DEF Matches
  <1>7. Matches(ModeRules[3], inputs) <=>
                /\ inputs["has_compatible_existing_services"] = TRUE
                /\ inputs["allow_new_backend_components"] = TRUE
                /\ inputs["require_in_cluster_collectors"] = TRUE
    <2>1. DOMAIN ModeRules[3].when = {"has_compatible_existing_services",
                                       "allow_new_backend_components",
                                       "require_in_cluster_collectors"}
      BY <1>3
    <2>2. /\ ModeRules[3].when["has_compatible_existing_services"] = TRUE
          /\ ModeRules[3].when["allow_new_backend_components"] = TRUE
          /\ ModeRules[3].when["require_in_cluster_collectors"] = TRUE
      BY <1>3
    <2> QED
      BY <2>1, <2>2, Zenon DEF Matches
  <1>8. Matches(ModeRules[4], inputs) <=>
                /\ inputs["has_compatible_existing_services"] = FALSE
                /\ inputs["allow_new_backend_components"] = TRUE
    <2>1. DOMAIN ModeRules[4].when = {"has_compatible_existing_services",
                                       "allow_new_backend_components"}
      BY <1>4
    <2>2. /\ ModeRules[4].when["has_compatible_existing_services"] = FALSE
          /\ ModeRules[4].when["allow_new_backend_components"] = TRUE
      BY <1>4
    <2> QED
      BY <2>1, <2>2, Zenon DEF Matches
  <1> QED
    BY <1>5, <1>6, <1>7, <1>8

\* resolve_mode takes the first rule that matches.
LEMMA FirstRule ==
    ASSUME NEW inputs, resolve_mode(inputs) # NoRule
    PROVE \E n \in 1..4 :
             /\ resolve_mode(inputs) = ModeRules[n]
             /\ Matches(ModeRules[n], inputs)
             /\ \A k \in 1..(n - 1) : ~Matches(ModeRules[k], inputs)
PROOF
  <1> DEFINE matching == {i \in DOMAIN ModeRules : Matches(ModeRules[i], inputs)}
             T == {ModeRules[i] : i \in 1..4}
  <1>1. Len(ModeRules) = 4 /\ DOMAIN ModeRules = 1..4
    BY DEF ModeRules
  <1>2. ModeRules \in Seq(T)
    <2>1. ModeRules = [i \in 1..4 |-> ModeRules[i]]
      BY DEF ModeRules
    <2> QED
      BY <2>1, <1>1, SeqDef
  <1>3. matching # {}
    <2> SUFFICES ASSUME matching = {} PROVE FALSE
      OBVIOUS
    <2>1. Picked(ModeRules, matching, Len(ModeRules)) = {}
      BY DEF Picked
    <2>2. Pick(ModeRules, matching) = <<>>
      BY <2>1, <1>2, PickElements, NoElements
    <2> QED
      BY <2>2 DEF resolve_mode, FirstOr
  <1>4. PICK n \in matching : \A m \in matching : n <= m
    BY <1>1, <1>3, Least
  <1>5. n \in 1..4 /\ \A k \in 1..(n - 1) : k \notin matching
    BY <1>1, <1>4
  <1>6. Pick(ModeRules, matching) # <<>> /\ Head(Pick(ModeRules, matching)) = ModeRules[n]
    <2> HIDE DEF matching, T
    <2> QED
      BY <1>1, <1>2, <1>4, <1>5, PickFirst
  <1>7. resolve_mode(inputs) = ModeRules[n]
    BY <1>6 DEF resolve_mode, FirstOr
  <1>8. \A k \in 1..(n - 1) : ~Matches(ModeRules[k], inputs)
    BY <1>1, <1>5
  <1> QED
    BY <1>4, <1>5, <1>7, <1>8

\* The inputs of the mode table, when the discovery report depicts the cluster.
LEMMA InputMeaning ==
    ASSUME NEW disc, NEW flags \in Flags, Depicts(disc)
    PROVE LET inputs == mode_inputs(disc, flags)
              offered == Detected(GITOPS_SIGNATURES) # {}
                         /\ \E s \in cluster.services : _onboardable_candidate(s)
          IN /\ inputs["evaluation_only"] = flags.evaluation_only
             /\ inputs["allow_new_backend_components"] = flags.allow_new_backend_components
             /\ inputs["has_compatible_existing_services"] \in BOOLEAN
             /\ flags.existing = "auto" =>
                   (inputs["has_compatible_existing_services"] = TRUE <=> offered)
PROOF
  <1> DEFINE inputs == mode_inputs(disc, flags)
             offered == Detected(GITOPS_SIGNATURES) # {}
                        /\ \E s \in cluster.services : _onboardable_candidate(s)
             derived == derive_has_compatible_existing_services(disc)
  <1>1. /\ inputs["evaluation_only"] = flags.evaluation_only
        /\ inputs["allow_new_backend_components"] = flags.allow_new_backend_components
    BY Zenon DEF mode_inputs
  <1>2. inputs["has_compatible_existing_services"] =
           IF flags.existing = "auto" THEN derived ELSE flags.existing = "true"
    BY Zenon DEF mode_inputs
  <1>3. derived <=> disc.gitops # {} /\ TRUE \in disc.services
    BY DEF derive_has_compatible_existing_services
  <1>4. disc.gitops = Detected(GITOPS_SIGNATURES)
        /\ disc.services = {_onboardable_candidate(s) : s \in cluster.services}
    BY SectionContents, Zenon DEF Depicts
  <1>5. \A s : _onboardable_candidate(s) \in BOOLEAN
    BY Zenon DEF _onboardable_candidate
  <1>6. TRUE \in {_onboardable_candidate(s) : s \in cluster.services} <=>
           \E s \in cluster.services : _onboardable_candidate(s)
    BY <1>5, Zenon
  <1>7. derived <=> offered
    BY <1>3, <1>4, <1>6, Zenon
  <1>8. derived \in BOOLEAN
    BY Zenon DEF derive_has_compatible_existing_services
  <1> HIDE DEF inputs, offered, derived
  <1>9. inputs["has_compatible_existing_services"] \in BOOLEAN
    BY <1>2, <1>8, Zenon
  <1>10. flags.existing = "auto" =>
            (inputs["has_compatible_existing_services"] = TRUE <=> offered)
    BY <1>2, <1>7, <1>8, Zenon
  <1> QED
    BY <1>1, <1>9, <1>10, Zenon DEF inputs, offered

\* The mode fits the cluster and the flags.
LEMMA ModeIsRight ==
    ASSUME NEW disc, NEW flags \in Flags, Depicts(disc),
           resolve_mode(mode_inputs(disc, flags)) # NoRule
    PROVE ModeFits(resolve_mode(mode_inputs(disc, flags)).recommend, flags)
PROOF
  <1> DEFINE mode == resolve_mode(mode_inputs(disc, flags)).recommend
             offered == Detected(GITOPS_SIGNATURES) # {}
                        /\ \E s \in cluster.services : _onboardable_candidate(s)
  <1>1. PICK inputs : inputs = mode_inputs(disc, flags)
    OBVIOUS
  <1>2. /\ inputs["evaluation_only"] = flags.evaluation_only
        /\ inputs["allow_new_backend_components"] = flags.allow_new_backend_components
        /\ inputs["has_compatible_existing_services"] \in BOOLEAN
        /\ flags.existing = "auto" =>
              (inputs["has_compatible_existing_services"] = TRUE <=> offered)
    BY <1>1, InputMeaning, Zenon
  <1>3. PICK n \in 1..4 : /\ mode = ModeRules[n].recommend
                          /\ Matches(ModeRules[n], inputs)
                          /\ \A k \in 1..(n - 1) : ~Matches(ModeRules[k], inputs)
    BY <1>1, FirstRule
  <1>4. /\ ModeRules[1].recommend = "quickstart" /\ ModeRules[2].recommend = "attach"
        /\ ModeRules[3].recommend = "hybrid" /\ ModeRules[4].recommend = "standalone"
    BY DEF ModeRules
  <1>5. flags.evaluation_only \in BOOLEAN /\ flags.allow_new_backend_components \in BOOLEAN
    BY DEF Flags
  <1> HIDE DEF mode, offered
  <1>6. CASE n = 1
    <2>1. mode = "quickstart" /\ inputs["evaluation_only"] = TRUE
      BY <1>3, <1>4, <1>6, RuleMeaning
    <2> QED
      BY <2>1, <1>2 DEF ModeFits, mode
  <1>7. n # 1 => ~Matches(ModeRules[1], inputs)
    BY <1>3
  <1>8. n # 1 => flags.evaluation_only = FALSE
    BY <1>2, <1>5, <1>7, RuleMeaning, Zenon
  <1>9. CASE n = 2
    <2>1. /\ mode = "attach" /\ inputs["allow_new_backend_components"] = FALSE
          /\ inputs["has_compatible_existing_services"] = TRUE
      BY <1>3, <1>4, <1>9, RuleMeaning
    <2> QED
      BY <2>1, <1>2, <1>8, <1>9 DEF ModeFits, mode, offered
  <1>10. CASE n = 3
    <2>1. /\ mode = "hybrid" /\ inputs["allow_new_backend_components"] = TRUE
          /\ inputs["has_compatible_existing_services"] = TRUE
      BY <1>3, <1>4, <1>10, RuleMeaning
    <2> QED
      BY <2>1, <1>2, <1>8, <1>10 DEF ModeFits, mode, offered
  <1>11. CASE n = 4
    <2>1. /\ mode = "standalone" /\ inputs["allow_new_backend_components"] = TRUE
          /\ inputs["has_compatible_existing_services"] = FALSE
      BY <1>3, <1>4, <1>11, RuleMeaning
    <2> QED
      BY <2>1, <1>2, <1>8, <1>11 DEF ModeFits, mode, offered
  <1> QED
    BY <1>6, <1>9, <1>10, <1>11

\* THEOREM: when an evaluate that ended with 0 read reports of the cluster as
\* it is, its grade and its mode are the ones that the cluster calls for, for
\* every cluster, every set of overrides and every combination of the flags.
THEOREM VerdictsAreRight == Spec => []VerdictMatchesCluster
PROOF
  <1>1. ArtifactsInv => VerdictMatchesCluster
    <2> SUFFICES ASSUME ArtifactsInv, basis # NoBasis, basis.epoch = epoch
                 PROVE /\ GradeFits(artifacts["compatibility_result"].grade, basis.overrides)
                       /\ ModeFits(artifacts["compatibility_result"].mode, basis.flags)
      BY DEF VerdictMatchesCluster
    <2>1. PICK pre, disc : Evaluated(pre, disc)
      BY DEF ArtifactsInv, BasisInv
    <2>2. basis.flags \in Flags
      BY DEF ArtifactsInv, BasisInv
    <2>3. /\ pre.checks \in Seq(Results) /\ Len(pre.checks) = 6
          /\ Shows(pre) /\ Depicts(disc)
          /\ resolve_mode(mode_inputs(disc, basis.flags)) # NoRule
      BY <2>1 DEF Evaluated, Evaluates
    <2> DEFINE e == evaluate_reports(pre, disc, basis.overrides, basis.flags)
    <2>4. artifacts["compatibility_result"] = e["compatibility_result"]
      BY <2>1, FourFiles DEF Evaluated
    <2>5. /\ e["compatibility_result"].grade = grade_of(Reasons(pre, disc, basis.overrides))
          /\ e["compatibility_result"].mode =
                resolve_mode(mode_inputs(disc, basis.flags)).recommend
      BY DEF evaluate_reports
    <2> HIDE DEF e
    <2> QED
      BY <2>2, <2>3, <2>4, <2>5, GradeIsRight, ModeIsRight
  <1> QED
    BY <1>1, ArtifactsInvHolds, PTL
=============================================================================
