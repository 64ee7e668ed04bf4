--------------------------- MODULE MCUsageMetering ---------------------------
(***************************************************************************)
(* An instance of UsageMetering: two days, two signals, and two tenants,   *)
(* one of whose ids has two parts.                                         *)
(***************************************************************************)
EXTENDS UsageMetering, TLC

A == <<"a">>

B == <<"b", "c">>

MCTenants == {A, B}

MCSignalOrder == <<"logs", "metrics">>

Quiet == [s \in TELEMETRY_SIGNALS |-> 0]

Busy == [logs |-> 3, metrics |-> 1]

\* Both tenants busy on the first day, the first one also on the second.
MCInitialUsage ==
    {[d \in Days |-> [t \in Tenants |-> IF d = 1 \/ t = A THEN Busy ELSE Quiet]]}

\* One query a day, a day without any, a key that is no tenant.
MCInitialQueries ==
    {[d \in Days |-> [t \in Sources |-> IF t = A THEN 1 ELSE 0]],
     [d \in Days |-> [t \in Sources |-> IF d = 1 /\ t # BadKey THEN 1 ELSE 0]],
     [d \in Days |-> [t \in Sources |-> 1]]}

MCInitialRetention == {[t \in Tenants |-> 2]}

MCNamesAfter == [s \in TELEMETRY_SIGNALS |-> [t \in Tenants |-> IF t = A THEN 1 ELSE 0]]

JobSymmetry == Permutations(Jobs)

MCRates == [ingest_gb_per_day |-> 2, retention_days |-> 3,
            active_tenants |-> 1, query_volume |-> 5]

MCRetentionMax == [s \in TELEMETRY_SIGNALS |-> IF s = "logs" THEN 1 ELSE 2]

=============================================================================
