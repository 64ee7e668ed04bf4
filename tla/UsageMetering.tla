---------------------------- MODULE UsageMetering ----------------------------
(***************************************************************************)
(* The metering collector (services/commercial/commercialsvc): a job reads *)
(* the live OpenSearch surfaces one request at a time, builds the usage    *)
(* records of one UTC day, validates them all, and upserts them by record  *)
(* id with one bulk request.  Jobs are processes that may overlap; what    *)
(* they read changes under them; any request may fail, a bulk request also *)
(* after it took effect in part or in whole.                               *)
(*                                                                         *)
(* A tenant id is the sequence of its hyphen-separated parts, because the  *)
(* collector reads tenant and signal back out of index names.  A volume of *)
(* zero stands for an index that does not exist.                           *)
(***************************************************************************)
EXTENDS Invoicing, Sequences

CONSTANTS
    Tenants,        \* tenant ids
    SignalOrder,    \* TELEMETRY_SIGNALS, in the order they are read
    Days,           \* the windows, one UTC day each
    Jobs,           \* collector processes that may run at the same time
    Volumes,        \* the volumes a daily index may have
    RetentionDays,  \* the retention a descriptor may configure
    InitialUsage,   \* the volumes at the start
    InitialQueries, \* the query counts of the audit surface
    InitialRetention, \* the descriptors' retention at the start
    NamesAfter,     \* how many of a signal's index names sort behind a tenant's
    MaxChanges,     \* bound: changes to the surfaces a job reads
    MaxFaults       \* bound: failed requests

TELEMETRY_SIGNALS == {SignalOrder[i] : i \in 1..Len(SignalOrder)}

\* A key of the audit aggregation that is no tenant slug.
BadKey == <<"Not A Slug">>

Sources == Tenants \cup {BadKey}

ASSUME MeteringAssumption ==
    /\ Days \subseteq Nat /\ IsFiniteSet(Days) /\ Days # {}
    /\ Volumes \subseteq Nat /\ 0 \in Volumes
    /\ SignalOrder \in Seq(STRING) /\ SignalOrder # <<>>
    /\ \A i, k \in 1..Len(SignalOrder) : SignalOrder[i] = SignalOrder[k] => i = k
    /\ NamesAfter \in [TELEMETRY_SIGNALS -> [Tenants -> Nat]]
    /\ \A s \in TELEMETRY_SIGNALS : \A t, u \in Tenants :
          NamesAfter[s][t] = NamesAfter[s][u] => t = u
    /\ RetentionDays \subseteq Nat \ {0}
    /\ \A t \in Tenants : t \in Seq(STRING) /\ t # <<>> /\ t # BadKey
    /\ InitialUsage \subseteq [Days -> [Tenants -> [TELEMETRY_SIGNALS -> Volumes]]]
    /\ InitialRetention \subseteq [Tenants -> RetentionDays]
    /\ InitialQueries \subseteq [Days -> [Sources -> Nat]]
    /\ RetentionMax \in [TELEMETRY_SIGNALS -> Nat]
    /\ MaxChanges \in Nat /\ MaxFaults \in Nat

VARIABLES
    usage,      \* the volume of each tenant's daily index of a signal
    retention,  \* the retention in each tenant's descriptor
    queries,    \* the audit counts of each day
    job,        \* the collector processes
    docs,       \* the usage index of each day: a set of records
    whole,      \* history: the last write to a day's index was a complete one
    current,    \* history: ... and all it read still stands
    changes, faults

vars == <<usage, retention, queries, job, docs, whole, current, changes, faults>>

sourceVars == <<usage, retention, queries>>

IdleJob == [pc |-> "idle", day |-> 0, next |-> 1, stats |-> {},
            retentions |-> {}, counts |-> {}, torn |-> FALSE]

Init ==
    /\ usage \in InitialUsage
    /\ retention \in InitialRetention
    /\ queries \in InitialQueries
    /\ job = [j \in Jobs |-> IdleJob]
    /\ docs = [d \in Days |-> {}]
    /\ whole = [d \in Days |-> FALSE]
    /\ current = [d \in Days |-> FALSE]
    /\ changes = 0
    /\ faults = 0

-----------------------------------------------------------------------------
(* What is read, and what is built from it. *)

IndexName(t, s) == t \o <<s, "day">>

\* _TENANT_INDEX_RE: the shortest tenant id that leaves a signal and a
\* suffix behind it.
Parse(name) ==
    LET cuts == {i \in 2..(Len(name) - 1) : name[i] \in TELEMETRY_SIGNALS}
        cut == CHOOSE i \in cuts : \A k \in cuts : i <= k
    IN [tenant |-> SubSeq(name, 1, cut - 1), signal |-> name[cut]]

\* The stats of one signal's indices of day d, attributed by name; an index
\* whose name parses to another signal is skipped.
ingest_stats(d, s) ==
    {[tenant |-> Parse(IndexName(t, s)).tenant, signal |-> s,
      after |-> NamesAfter[s][t], value |-> usage[d][t][s]] :
        t \in {u \in Tenants : usage[d][u][s] > 0
                               /\ Parse(IndexName(u, s)).signal = s}}

tenant_retention ==
    {[tenant |-> t, value |-> retention[t]] : t \in Tenants}

query_volume(d) ==
    {[tenant |-> t, value |-> queries[d][t]] :
        t \in {u \in Sources : queries[d][u] > 0}}

Record(t, dimension, s, d, value) ==
    [tenant |-> t, dimension |-> dimension, signal |-> s, day |-> d,
     value |-> value]

record_id_for(r) == <<r.tenant, r.dimension, r.signal, r.day>>

build_ingest_records(stats, d) ==
    {Record(x.tenant, "ingest_gb_per_day", x.signal, d, x.value) : x \in stats}

build_retention_records(retentions, d) ==
    UNION {{Record(x.tenant, "retention_days", s, d, x.value) :
               s \in TELEMETRY_SIGNALS} : x \in retentions}

Known(stats, retentions, counts) ==
    {x.tenant : x \in stats} \cup {x.tenant : x \in retentions}
        \cup {x.tenant : x \in counts}

IsActive(t, stats, counts) ==
    (\E x \in stats : x.tenant = t) \/ (\E x \in counts : x.tenant = t)

build_activity_records(stats, retentions, counts, d) ==
    {Record(t, "active_tenants", "platform", d,
            IF IsActive(t, stats, counts) THEN 1 ELSE 0) :
        t \in Known(stats, retentions, counts)}

\* Mutant: a tenant without queries gets no record.
MutBuildQueryVolumeRecords(counts, known, d) ==
    {Record(x.tenant, "query_volume", "platform", d, x.value) : x \in counts}

CountOf(t, counts) ==
    IF \E x \in counts : x.tenant = t
    THEN (CHOOSE x \in counts : x.tenant = t).value ELSE 0

build_query_volume_records(counts, known, d) ==
    {Record(t, "query_volume", "platform", d, CountOf(t, counts)) : t \in known}

build_usage_records(stats, retentions, counts, d) ==
    build_ingest_records(stats, d)
        \cup build_retention_records(retentions, d)
        \cup build_activity_records(stats, retentions, counts, d)
        \cup build_query_volume_records(counts,
                 Known(stats, retentions, counts), d)

\* The schema's demands on a record: a tenant slug, the signals and the
\* values its dimension allows.
validate_record(r) ==
    /\ r.tenant # BadKey
    /\ r.dimension \in DIMENSIONS
    /\ IF r.dimension \in {"ingest_gb_per_day", "retention_days"}
       THEN r.signal \in TELEMETRY_SIGNALS ELSE r.signal = "platform"
    /\ r.value >= 0
    /\ r.dimension = "active_tenants" => r.value \in {0, 1}

ensure_valid_records(records) == \A r \in records : validate_record(r)

-----------------------------------------------------------------------------
(* The collector. *)

Built(j) ==
    build_usage_records(job[j].stats, job[j].retentions, job[j].counts,
                        job[j].day)

\* Two stats of one tenant and signal build two records with the same id.  In
\* the bulk request they stand in the order of the index names, and the last
\* one wins.
Winning(stats) ==
    {x \in stats : \A z \in stats :
        z.tenant = x.tenant /\ z.signal = x.signal => x.after <= z.after}

\* What the bulk request of a job leaves when the ingest items it indexes are
\* those of stats.
Indexed(j, stats) ==
    (Built(j) \ build_ingest_records(job[j].stats, job[j].day))
        \cup build_ingest_records(Winning(stats), job[j].day)

\* The process ends, and what it read is gone.
Ended(j, how) == [job EXCEPT ![j] = [IdleJob EXCEPT !.pc = how]]

\* A bulk request of records: documents with the same id are replaced, no
\* document is ever removed.
Upsert(d, records) ==
    docs' = [docs EXCEPT ![d] =
                 {x \in @ : \A r \in records : record_id_for(x) # record_id_for(r)}
                     \cup records]

Start(j, d) ==
    /\ job[j].pc \in {"idle", "done", "failed"}
    /\ job' = [job EXCEPT ![j] = [IdleJob EXCEPT !.pc = "ingest", !.day = d]]
    /\ UNCHANGED <<sourceVars, docs, whole, current, changes, faults>>

ReadIngest(j) ==
    /\ job[j].pc = "ingest"
    /\ job' = [job EXCEPT
          ![j].stats = @ \cup ingest_stats(job[j].day, SignalOrder[job[j].next]),
          ![j].next = @ + 1,
          ![j].pc = IF job[j].next = Len(SignalOrder) THEN "retention" ELSE @]
    /\ UNCHANGED <<sourceVars, docs, whole, current, changes, faults>>

ReadRetention(j) ==
    /\ job[j].pc = "retention"
    /\ job' = [job EXCEPT ![j].retentions = tenant_retention, ![j].pc = "queries"]
    /\ UNCHANGED <<sourceVars, docs, whole, current, changes, faults>>

\* The audit index is named in full: on a day without audit events it does
\* not exist, the search answers 404 and the job ends with the exception.
ReadQueries(j) ==
    /\ job[j].pc = "queries"
    /\ job' = IF query_volume(job[j].day) = {}
              THEN Ended(j, "failed")
              ELSE [job EXCEPT ![j].counts = query_volume(job[j].day),
                               ![j].pc = "write"]
    /\ UNCHANGED <<sourceVars, docs, whole, current, changes, faults>>

\* A request raises (no handler catches URLError or RuntimeError).
ReadFails(j) ==
    /\ job[j].pc \in {"ingest", "retention", "queries"}
    /\ faults < MaxFaults
    /\ faults' = faults + 1
    /\ job' = Ended(j, "failed")
    /\ UNCHANGED <<sourceVars, docs, whole, current, changes>>

\* Validation gates the sink: nothing of the window is written.
Reject(j) ==
    /\ job[j].pc = "write"
    /\ ~ensure_valid_records(Built(j))
    /\ job' = Ended(j, "failed")
    /\ UNCHANGED <<sourceVars, docs, whole, current, changes, faults>>

Write(j) ==
    /\ job[j].pc = "write"
    /\ ensure_valid_records(Built(j))
    /\ Upsert(job[j].day, Indexed(j, job[j].stats))
    /\ job' = Ended(j, "done")
    /\ whole' = [whole EXCEPT ![job[j].day] = TRUE]
    /\ current' = [current EXCEPT ![job[j].day] = ~job[j].torn]
    /\ UNCHANGED <<sourceVars, changes, faults>>

\* The bulk request fails: the answer is lost and all or nothing took effect,
\* or an item is refused.
Partly(j) ==
    {{}, Indexed(j, job[j].stats)}
        \cup {Indexed(j, job[j].stats) \ {r} : r \in Built(j)}
        \cup {Indexed(j, job[j].stats \ {x}) : x \in job[j].stats}

WriteFails(j) ==
    /\ job[j].pc = "write"
    /\ ensure_valid_records(Built(j))
    /\ faults < MaxFaults
    /\ faults' = faults + 1
    /\ \E written \in Partly(j) :
          /\ Upsert(job[j].day, written)
          /\ whole' = [whole EXCEPT ![job[j].day] = @ /\ written = {}]
          /\ current' = [current EXCEPT ![job[j].day] = @ /\ written = {}]
    /\ job' = Ended(j, "failed")
    /\ UNCHANGED <<sourceVars, changes>>

-----------------------------------------------------------------------------
(* The surfaces change: late data, lost indices, a new descriptor. *)

\* Every job on one of the days is torn, and what was written is old.
Disturb(days) ==
    /\ changes < MaxChanges
    /\ changes' = changes + 1
    /\ job' = [j \in Jobs |-> IF job[j].day \in days
                              THEN [job[j] EXCEPT !.torn = TRUE] ELSE job[j]]
    /\ current' = [d \in Days |-> current[d] /\ d \notin days]

VolumeChanges(d, t, s) ==
    /\ Disturb({d})
    /\ \E v \in Volumes \ {usage[d][t][s]} : usage' = [usage EXCEPT ![d][t][s] = v]
    /\ UNCHANGED <<retention, queries, docs, whole, faults>>

RetentionChanges(t) ==
    /\ Disturb(Days)
    /\ \E v \in RetentionDays \ {retention[t]} :
          retention' = [retention EXCEPT ![t] = v]
    /\ UNCHANGED <<usage, queries, docs, whole, faults>>

Next ==
    \/ \E j \in Jobs :
          \/ \E d \in Days : Start(j, d)
          \/ ReadIngest(j) \/ ReadRetention(j) \/ ReadQueries(j) \/ ReadFails(j)
          \/ Reject(j) \/ Write(j) \/ WriteFails(j)
    \/ \E d \in Days, t \in Tenants, s \in TELEMETRY_SIGNALS : VolumeChanges(d, t, s)
    \/ \E t \in Tenants : RetentionChanges(t)

Spec == Init /\ [][Next]_vars

-----------------------------------------------------------------------------
(* Properties. *)

\* No part of the tenant id but the first can be taken for a signal.
Unambiguous(t) == \A i \in 2..Len(t) : t[i] \notin TELEMETRY_SIGNALS

\* No other tenant's index name reads as this tenant's.
Unclaimed(t) ==
    \A u \in Tenants \ {t} : \A s \in TELEMETRY_SIGNALS :
        Parse(IndexName(u, s)).tenant # t

DocsOf(t) == UNION {{r \in docs[d] : r.tenant = t} : d \in Days}

\* An earlier collection left a record whose index has gone since.
Stale(t) ==
    \E r \in DocsOf(t) :
        r.dimension = "ingest_gb_per_day" /\ usage[r.day][t][r.signal] = 0

\* What a tenant owes, from the surfaces themselves: the overage semantics
\* of INVOICE_EXPORT_CONTRACT_V1.
Owed(t) ==
    LET excess(d, s) ==
            Rates["ingest_gb_per_day"] * Excess(usage[d][t][s], IngestMax)
            + Rates["retention_days"] * Excess(retention[t], RetentionMax[s])
        active(d) ==
            IF queries[d][t] > 0 \/ \E s \in TELEMETRY_SIGNALS : usage[d][t][s] > 0
            THEN 1 ELSE 0
        daily == [d \in Days |->
            SumFunction([s \in TELEMETRY_SIGNALS |-> excess(d, s)])
            + Rates["active_tenants"] * active(d)]
        asked == SumFunction([d \in Days |-> queries[d][t]])
    IN BaseUnits + SumFunction(daily)
         + Rates["query_volume"] * Ceil(asked, QUERY_VOLUME_BLOCK)

First == CHOOSE d \in Days : \A e \in Days : d <= e

Last == CHOOSE d \in Days : \A e \in Days : e <= d

\* However jobs overlapped, failed and were run again: once the last write
\* of every day of the period is a complete one of surfaces that have not
\* changed since, the invoice charges a tenant exactly what the contract
\* derives from those surfaces.  Tenants whose ids collide in index names
\* and tenants with a record of a vanished index are excepted.
InvoiceMatchesUsage ==
    (\A d \in Days : current[d]) =>
        \A t \in Tenants :
            Unambiguous(t) /\ Unclaimed(t) /\ ~Stale(t) =>
                /\ Invoiceable(t, DocsOf(t), First, Last)
                /\ build_invoice(DocsOf(t)).total = Owed(t)

\* Once a complete write is the last one of a day, even of surfaces that
\* changed while they were read, the window is complete and its parts agree:
\* every tenant of the platform in it has its activity marker and its query
\* count, and a marker of 1 comes with a positive measurement.  Whatever was
\* written, every document is a valid record and no two share an id.
WindowIsCoherent ==
    \A d \in Days :
        /\ \A r \in docs[d] : validate_record(r) /\ r.day = d
        /\ \A r, q \in docs[d] : record_id_for(r) = record_id_for(q) => r = q
        /\ whole[d] =>
            \A r \in {x \in docs[d] : x.tenant \in Tenants} :
                /\ \A dim \in {"active_tenants", "query_volume"} :
                      \E q \in docs[d] : q.tenant = r.tenant /\ q.dimension = dim
                /\ (r.dimension = "active_tenants" /\ r.value = 1) =>
                      \E q \in docs[d] :
                         /\ q.tenant = r.tenant /\ q.value > 0
                         /\ q.dimension \in {"ingest_gb_per_day", "query_volume"}

=============================================================================
