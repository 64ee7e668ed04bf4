------------------------ MODULE UsageMeteringProofs ------------------------
(***************************************************************************)
(* Theorems about UsageMetering, for any tenants, signals, days, any       *)
(* number of overlapping jobs, failed requests and changes of the          *)
(* surfaces: every document is a valid record, no two share an id, a       *)
(* window whose last write was complete is complete itself, and an invoice *)
(* over windows that are complete and current charges what the surfaces    *)
(* themselves come to.                                                     *)
(***************************************************************************)
EXTENDS UsageMetering, FiniteSetTheorems, SequenceTheorems,
        WellFoundedInduction, TLAPS

-----------------------------------------------------------------------------
(* Invariants. *)

\* The fields of a job.
Shaped(r) ==
    DOMAIN r = {"pc", "day", "next", "stats", "retentions", "counts", "torn"}

\* The statistics a job has taken are those of the signals behind it, each
\* index once.
StatsFit(stats, next) ==
    /\ \A x \in stats :
          /\ x.after \in Nat /\ x.value \in Nat \ {0}
          /\ \E i \in 1 .. Len(SignalOrder) : i < next /\ x.signal = SignalOrder[i]
    /\ \A x, y \in stats : x.signal = y.signal /\ x.after = y.after => x = y

\* One entry for each tenant; of the descriptors, all of them.
OnePerTenant(retentions) ==
    \A x, y \in retentions : x.tenant = y.tenant => x = y

AllTenants(retentions) == \A t \in Tenants : \E x \in retentions : x.tenant = t

JobFits(r) ==
    /\ Shaped(r)
    /\ r.next \in Nat \ {0}
    /\ r.pc \in {"ingest", "retention", "queries", "write"} => r.day \in Days
    /\ r.pc = "ingest" => r.next <= Len(SignalOrder)
    /\ StatsFit(r.stats, r.next)
    /\ OnePerTenant(r.retentions)
    /\ r.pc \in {"queries", "write"} => AllTenants(r.retentions)
    /\ \A x \in r.counts : x.value \in Nat \ {0}

JobInv == DOMAIN job = Jobs /\ job = [j \in Jobs |-> job[j]]
          /\ \A j \in Jobs : JobFits(job[j])

\* The surfaces, and what the index and its history are defined on.
SurfaceInv ==
    /\ usage \in [Days -> [Tenants -> [TELEMETRY_SIGNALS -> Volumes]]]
    /\ queries \in [Days -> [Sources -> Nat]]
    /\ docs = [d \in Days |-> docs[d]] /\ whole = [d \in Days |-> whole[d]]

ReadersInv == SurfaceInv /\ JobInv

LEMMA Signals ==
  /\ Len(SignalOrder) \in Nat \ {0}
  /\ \A i \in 1 .. Len(SignalOrder) : SignalOrder[i] \in TELEMETRY_SIGNALS
  BY MeteringAssumption DEF TELEMETRY_SIGNALS

LEMMA IdleFits ==
  ASSUME NEW pc \in {"idle", "done", "failed"}
  PROVE  JobFits([IdleJob EXCEPT !.pc = pc])
  <1>1. PICK r : r = [IdleJob EXCEPT !.pc = pc]
    OBVIOUS
  <1>2. /\ Shaped(r) /\ r.pc = pc /\ r.next = 1 /\ r.stats = {}
        /\ r.retentions = {} /\ r.counts = {}
    BY <1>1 DEF IdleJob, Shaped
  <1>3. JobFits(r)
    BY <1>2 DEF JobFits, StatsFit, OnePerTenant
  <1> QED
    BY <1>1, <1>3

\* One job changes.
LEMMA OneJob ==
  ASSUME JobInv, NEW j \in Jobs, NEW r, JobFits(r), job' = [job EXCEPT ![j] = r]
  PROVE  JobInv'
  <1>1. job' = [k \in Jobs |-> IF k = j THEN r ELSE job[k]]
    BY DEF JobInv
  <1> QED
    BY <1>1 DEF JobInv

LEMMA EndedFits ==
  ASSUME JobInv, NEW j \in Jobs, NEW how \in {"done", "failed"},
         job' = Ended(j, how)
  PROVE  JobInv'
  BY IdleFits, OneJob DEF Ended

LEMMA InitReaders == Init => ReadersInv
  <1> SUFFICES ASSUME Init PROVE ReadersInv
    OBVIOUS
  <1>1. SurfaceInv
    BY MeteringAssumption DEF Init, SurfaceInv
  <1>2. JobFits(IdleJob)
    <2>1. IdleJob = [IdleJob EXCEPT !.pc = "idle"]
      BY DEF IdleJob
    <2> QED
      BY <2>1, IdleFits
  <1> QED
    BY <1>1, <1>2 DEF Init, JobInv, ReadersInv

\* The statistics of one more signal.
LEMMA IngestFits ==
  ASSUME ReadersInv, NEW d \in Days, NEW n \in 1 .. Len(SignalOrder),
         NEW stats, StatsFit(stats, n)
  PROVE  StatsFit(stats \cup ingest_stats(d, SignalOrder[n]), n + 1)
  <1> DEFINE s == SignalOrder[n]
             new == ingest_stats(d, s)
  <1>1. s \in TELEMETRY_SIGNALS
    BY Signals
  <1>2. ASSUME NEW x \in new
        PROVE  /\ x.after \in Nat /\ x.value \in Nat \ {0} /\ x.signal = s
               /\ \E t \in Tenants :
                     x = [tenant |-> Parse(IndexName(t, s)).tenant, signal |-> s,
                          after |-> NamesAfter[s][t], value |-> usage[d][t][s]]
    <2>1. PICK t \in Tenants :
             /\ usage[d][t][s] > 0
             /\ x = [tenant |-> Parse(IndexName(t, s)).tenant, signal |-> s,
                     after |-> NamesAfter[s][t], value |-> usage[d][t][s]]
      BY <1>2 DEF ingest_stats
    <2>2. usage[d][t][s] \in Nat /\ NamesAfter[s][t] \in Nat
      BY <1>1, MeteringAssumption DEF ReadersInv, SurfaceInv
    <2> QED
      BY <2>1, <2>2
  <1>3. \A x, y \in new : x.after = y.after => x = y
    <2> SUFFICES ASSUME NEW x \in new, NEW y \in new, x.after = y.after
                 PROVE  x = y
      OBVIOUS
    <2>1. PICK t \in Tenants :
             x = [tenant |-> Parse(IndexName(t, s)).tenant, signal |-> s,
                  after |-> NamesAfter[s][t], value |-> usage[d][t][s]]
      BY <1>2
    <2>2. PICK u \in Tenants :
             y = [tenant |-> Parse(IndexName(u, s)).tenant, signal |-> s,
                  after |-> NamesAfter[s][u], value |-> usage[d][u][s]]
      BY <1>2
    <2>3. NamesAfter[s][t] = NamesAfter[s][u]
      BY <2>1, <2>2
    <2>4. t = u
      BY <1>1, <2>3, MeteringAssumption
    <2> QED
      BY <2>1, <2>2, <2>4
  <1>4. \A x \in stats : x.signal # s
    BY MeteringAssumption DEF StatsFit
  <1>5. n < n + 1 /\ \A i \in 1 .. Len(SignalOrder) : i < n => i < n + 1
    OBVIOUS
  <1> HIDE DEF new
  <1>6. ASSUME NEW x \in stats \cup new
        PROVE  /\ x.after \in Nat /\ x.value \in Nat \ {0}
               /\ \E i \in 1 .. Len(SignalOrder) :
                     i < n + 1 /\ x.signal = SignalOrder[i]
    BY <1>2, <1>5 DEF StatsFit
  <1>7. ASSUME NEW x \in stats \cup new, NEW y \in stats \cup new,
               x.signal = y.signal, x.after = y.after
        PROVE  x = y
    <2>1. \A z \in new : z.signal = s
      BY <1>2
    <2> QED
      BY <1>3, <1>4, <1>7, <2>1 DEF StatsFit
  <1> QED
    BY <1>6, <1>7 DEF StatsFit, new

LEMMA StartReaders ==
  ASSUME ReadersInv, NEW j \in Jobs, NEW d \in Days, Start(j, d)
  PROVE  ReadersInv'
  <1>1. PICK r : r = [IdleJob EXCEPT !.pc = "ingest", !.day = d]
    OBVIOUS
  <1>2. /\ Shaped(r) /\ r.pc = "ingest" /\ r.day = d /\ r.next = 1
        /\ r.stats = {} /\ r.retentions = {} /\ r.counts = {}
    BY <1>1 DEF IdleJob, Shaped
  <1>3. JobFits(r)
    BY <1>2, Signals DEF JobFits, StatsFit, OnePerTenant
  <1>4. JobInv'
    BY <1>1, <1>3, OneJob DEF Start, ReadersInv
  <1> QED
    BY <1>4 DEF Start, ReadersInv, SurfaceInv, sourceVars

LEMMA ReadIngestReaders ==
  ASSUME ReadersInv, NEW j \in Jobs, ReadIngest(j)
  PROVE  ReadersInv'
  <1>1. /\ job[j].pc = "ingest" /\ JobFits(job[j])
        /\ job[j].next \in 1 .. Len(SignalOrder) /\ job[j].day \in Days
    BY Signals DEF ReadIngest, ReadersInv, JobInv, JobFits
  <1>2. PICK r : r = [job[j] EXCEPT
          !.stats = @ \cup ingest_stats(job[j].day, SignalOrder[job[j].next]),
          !.next = @ + 1,
          !.pc = IF job[j].next = Len(SignalOrder) THEN "retention" ELSE @]
    OBVIOUS
  <1>3. job' = [job EXCEPT ![j] = r]
    BY <1>2 DEF ReadIngest, ReadersInv, JobInv
  <1>4. /\ Shaped(r) /\ r.day = job[j].day /\ r.next = job[j].next + 1
        /\ r.pc = IF job[j].next = Len(SignalOrder) THEN "retention" ELSE "ingest"
        /\ r.stats = job[j].stats
                     \cup ingest_stats(job[j].day, SignalOrder[job[j].next])
        /\ r.retentions = job[j].retentions /\ r.counts = job[j].counts
    BY <1>1, <1>2 DEF JobFits, Shaped
  <1>5. StatsFit(r.stats, r.next)
    BY <1>1, <1>4, IngestFits DEF JobFits
  <1>6. r.next \in Nat \ {0} /\ (r.pc = "ingest" => r.next <= Len(SignalOrder))
    BY <1>1, <1>4, Signals
  <1>7. JobFits(r)
    BY <1>1, <1>4, <1>5, <1>6 DEF JobFits, Shaped
  <1>8. JobInv'
    BY <1>3, <1>7, OneJob DEF ReadersInv
  <1> QED
    BY <1>8 DEF ReadIngest, ReadersInv, SurfaceInv, sourceVars

LEMMA ReadRetentionReaders ==
  ASSUME ReadersInv, NEW j \in Jobs, ReadRetention(j)
  PROVE  ReadersInv'
  <1>1. job[j].pc = "retention" /\ JobFits(job[j])
    BY DEF ReadRetention, ReadersInv, JobInv
  <1>2. PICK r : r = [job[j] EXCEPT !.retentions = tenant_retention,
                                    !.pc = "queries"]
    OBVIOUS
  <1>3. job' = [job EXCEPT ![j] = r]
    BY <1>2 DEF ReadRetention, ReadersInv, JobInv
  <1>4. /\ Shaped(r) /\ r.pc = "queries" /\ r.day = job[j].day
        /\ r.next = job[j].next /\ r.stats = job[j].stats
        /\ r.retentions = tenant_retention /\ r.counts = job[j].counts
    BY <1>1, <1>2 DEF JobFits, Shaped
  <1>5. OnePerTenant(tenant_retention) /\ AllTenants(tenant_retention)
    <2>1. \A x \in tenant_retention : \E t \in Tenants :
             x = [tenant |-> t, value |-> retention[t]]
      BY DEF tenant_retention
    <2>2. \A x \in tenant_retention :
             x = [tenant |-> x.tenant, value |-> retention[x.tenant]]
      BY <2>1
    <2>3. ASSUME NEW t \in Tenants
          PROVE  \E x \in tenant_retention : x.tenant = t
      <3>1. [tenant |-> t, value |-> retention[t]] \in tenant_retention
        BY DEF tenant_retention
      <3> QED
        BY <3>1
    <2> QED
      BY <2>2, <2>3 DEF OnePerTenant, AllTenants
  <1>6. JobFits(r)
    BY <1>1, <1>4, <1>5 DEF JobFits, Shaped
  <1>7. JobInv'
    BY <1>3, <1>6, OneJob DEF ReadersInv
  <1> QED
    BY <1>7 DEF ReadRetention, ReadersInv, SurfaceInv, sourceVars

LEMMA ReadQueriesReaders ==
  ASSUME ReadersInv, NEW j \in Jobs, ReadQueries(j)
  PROVE  ReadersInv'
  <1>1. job[j].pc = "queries" /\ JobFits(job[j]) /\ job[j].day \in Days
    BY DEF ReadQueries, ReadersInv, JobInv, JobFits
  <1>2. CASE job' = Ended(j, "failed")
    BY <1>2, EndedFits DEF ReadQueries, ReadersInv, SurfaceInv, sourceVars
  <1>3. CASE job' # Ended(j, "failed")
    <2>1. PICK r : r = [job[j] EXCEPT !.counts = query_volume(job[j].day),
                                      !.pc = "write"]
      OBVIOUS
    <2>2. job' = [job EXCEPT ![j] = r]
      BY <1>3, <2>1 DEF ReadQueries, ReadersInv, JobInv
    <2>3. /\ Shaped(r) /\ r.pc = "write" /\ r.day = job[j].day
          /\ r.next = job[j].next /\ r.stats = job[j].stats
          /\ r.retentions = job[j].retentions
          /\ r.counts = query_volume(job[j].day)
      BY <1>1, <2>1 DEF JobFits, Shaped
    <2>4. \A x \in query_volume(job[j].day) : x.value \in Nat \ {0}
      BY <1>1 DEF query_volume, ReadersInv, SurfaceInv
    <2>5. JobFits(r)
      BY <1>1, <2>3, <2>4 DEF JobFits, Shaped
    <2>6. JobInv'
      BY <2>2, <2>5, OneJob DEF ReadersInv
    <2> QED
      BY <2>6 DEF ReadQueries, ReadersInv, SurfaceInv, sourceVars
  <1> QED
    BY <1>2, <1>3

\* The ends of a job.
LEMMA EndReaders ==
  ASSUME ReadersInv, NEW j \in Jobs,
         ReadFails(j) \/ Reject(j) \/ Write(j) \/ WriteFails(j)
  PROVE  ReadersInv'
  <1>1. JobInv'
    BY EndedFits DEF ReadFails, Reject, Write, WriteFails, ReadersInv
  <1>2. UNCHANGED sourceVars
    BY DEF ReadFails, Reject, Write, WriteFails
  <1>3. docs' = [d \in Days |-> docs'[d]] /\ whole' = [d \in Days |-> whole'[d]]
    BY DEF ReadFails, Reject, Write, WriteFails, Upsert, ReadersInv, SurfaceInv
  <1> QED
    BY <1>1, <1>2, <1>3 DEF ReadersInv, SurfaceInv, sourceVars

LEMMA DisturbReaders ==
  ASSUME JobInv, NEW days, Disturb(days)
  PROVE  JobInv'
  <1>1. job' = [j \in Jobs |-> IF job[j].day \in days
                               THEN [job[j] EXCEPT !.torn = TRUE] ELSE job[j]]
    BY DEF Disturb
  <1>2. ASSUME NEW j \in Jobs PROVE JobFits([job[j] EXCEPT !.torn = TRUE])
    <2>1. JobFits(job[j])
      BY DEF JobInv
    <2>2. PICK r : r = [job[j] EXCEPT !.torn = TRUE]
      OBVIOUS
    <2>3. /\ Shaped(r) /\ r.pc = job[j].pc /\ r.day = job[j].day
          /\ r.next = job[j].next /\ r.stats = job[j].stats
          /\ r.retentions = job[j].retentions /\ r.counts = job[j].counts
      BY <2>1, <2>2 DEF JobFits, Shaped
    <2>4. JobFits(r)
      BY <2>1, <2>3 DEF JobFits
    <2> QED
      BY <2>2, <2>4
  <1> QED
    BY <1>1, <1>2 DEF JobInv

LEMMA ChangeReaders ==
  ASSUME ReadersInv,
         \/ \E d \in Days, t \in Tenants, s \in TELEMETRY_SIGNALS :
               VolumeChanges(d, t, s)
         \/ \E t \in Tenants : RetentionChanges(t)
  PROVE  ReadersInv'
  <1>1. CASE \E t \in Tenants : RetentionChanges(t)
    BY <1>1, DisturbReaders DEF RetentionChanges, ReadersInv, SurfaceInv
  <1>2. ASSUME NEW d \in Days, NEW t \in Tenants, NEW s \in TELEMETRY_SIGNALS,
               VolumeChanges(d, t, s)
        PROVE  ReadersInv'
    <2>1. JobInv' /\ UNCHANGED <<queries, docs, whole>>
      BY <1>2, DisturbReaders DEF VolumeChanges, ReadersInv
    <2>2. usage' \in [Days -> [Tenants -> [TELEMETRY_SIGNALS -> Volumes]]]
      BY <1>2 DEF VolumeChanges, ReadersInv, SurfaceInv
    <2> QED
      BY <2>1, <2>2 DEF ReadersInv, SurfaceInv
  <1> QED
    BY <1>1, <1>2

LEMMA NextReaders == ReadersInv /\ [Next]_vars => ReadersInv'
  <1> SUFFICES ASSUME ReadersInv, [Next]_vars PROVE ReadersInv'
    OBVIOUS
  <1>1. CASE UNCHANGED vars
    BY <1>1 DEF vars, ReadersInv, SurfaceInv, JobInv
  <1> QED
    BY <1>1, StartReaders, ReadIngestReaders, ReadRetentionReaders,
       ReadQueriesReaders, EndReaders, ChangeReaders DEF Next

-----------------------------------------------------------------------------
(* The records of a bulk request. *)

Distinct(R) == \A r, q \in R : record_id_for(r) = record_id_for(q) => r = q

IngestRecord(x, d) == Record(x.tenant, "ingest_gb_per_day", x.signal, d, x.value)

RetentionRecord(x, s, d) == Record(x.tenant, "retention_days", s, d, x.value)

ActivityRecord(t, stats, counts, d) ==
    Record(t, "active_tenants", "platform", d,
           IF IsActive(t, stats, counts) THEN 1 ELSE 0)

QueryRecord(t, counts, d) ==
    Record(t, "query_volume", "platform", d, CountOf(t, counts))

\* The parts of an id.
LEMMA IdParts ==
  ASSUME NEW r, NEW q
  PROVE  record_id_for(r) = record_id_for(q) <=>
            /\ r.tenant = q.tenant /\ r.dimension = q.dimension
            /\ r.signal = q.signal /\ r.day = q.day
  BY DEF record_id_for

\* Every record of a request is of one of four kinds.
LEMMA IndexedKinds ==
  ASSUME NEW j, NEW J, J = job[j], NEW items, NEW r \in Indexed(j, items)
  PROVE  \/ \E x \in Winning(items) : r = IngestRecord(x, J.day)
         \/ \E x \in J.retentions : \E s \in TELEMETRY_SIGNALS :
               r = RetentionRecord(x, s, J.day)
         \/ \E t \in Known(J.stats, J.retentions, J.counts) :
               r = ActivityRecord(t, J.stats, J.counts, J.day)
         \/ \E t \in Known(J.stats, J.retentions, J.counts) :
               r = QueryRecord(t, J.counts, J.day)
  <1>1. CASE r \in build_ingest_records(Winning(items), J.day)
    BY <1>1 DEF build_ingest_records, IngestRecord
  <1>2. CASE r \in build_retention_records(J.retentions, J.day)
    BY <1>2 DEF build_retention_records, RetentionRecord
  <1>3. CASE r \in build_activity_records(J.stats, J.retentions, J.counts, J.day)
    BY <1>3 DEF build_activity_records, ActivityRecord
  <1>4. CASE r \in build_query_volume_records(J.counts,
                       Known(J.stats, J.retentions, J.counts), J.day)
    BY <1>4 DEF build_query_volume_records, QueryRecord
  <1> QED
    BY <1>1, <1>2, <1>3, <1>4 DEF Indexed, Built, build_usage_records

LEMMA RecordFields ==
  /\ \A x, s, d : /\ IngestRecord(x, d).dimension = "ingest_gb_per_day"
                  /\ IngestRecord(x, d).tenant = x.tenant
                  /\ IngestRecord(x, d).signal = x.signal
                  /\ IngestRecord(x, d).value = x.value
                  /\ RetentionRecord(x, s, d).dimension = "retention_days"
                  /\ RetentionRecord(x, s, d).tenant = x.tenant
                  /\ RetentionRecord(x, s, d).signal = s
  /\ \A t, stats, counts, d :
       /\ ActivityRecord(t, stats, counts, d).dimension = "active_tenants"
       /\ ActivityRecord(t, stats, counts, d).tenant = t
       /\ ActivityRecord(t, stats, counts, d).signal = "platform"
       /\ ActivityRecord(t, stats, counts, d).day = d
       /\ ActivityRecord(t, stats, counts, d).value
             = IF IsActive(t, stats, counts) THEN 1 ELSE 0
       /\ QueryRecord(t, counts, d).dimension = "query_volume"
       /\ QueryRecord(t, counts, d).tenant = t
       /\ QueryRecord(t, counts, d).value = CountOf(t, counts)
  BY DEF IngestRecord, RetentionRecord, ActivityRecord, QueryRecord, Record

\* The dimension tells the kind.
LEMMA KindOf ==
  ASSUME NEW j, NEW J, J = job[j], NEW items, NEW r \in Indexed(j, items)
  PROVE  /\ r.dimension = "ingest_gb_per_day" =>
                \E x \in Winning(items) : r = IngestRecord(x, J.day)
         /\ r.dimension = "retention_days" =>
                \E x \in J.retentions : \E s \in TELEMETRY_SIGNALS :
                    r = RetentionRecord(x, s, J.day)
         /\ r.dimension = "active_tenants" =>
                \E t \in Known(J.stats, J.retentions, J.counts) :
                    r = ActivityRecord(t, J.stats, J.counts, J.day)
         /\ r.dimension = "query_volume" =>
                \E t \in Known(J.stats, J.retentions, J.counts) :
                    r = QueryRecord(t, J.counts, J.day)
         /\ r.dimension \in DIMENSIONS
  BY IndexedKinds, RecordFields DEF DIMENSIONS

\* The bulk request leaves one record for each id, whatever item is missing.
LEMMA IndexedDistinct ==
  ASSUME NEW j, NEW J, J = job[j], JobFits(J), NEW items, items \subseteq J.stats
  PROVE  /\ Indexed(j, items) \subseteq Built(j)
         /\ Distinct(Indexed(j, items))
         /\ \A r \in Indexed(j, items) : r.day = J.day
  <1>1. Indexed(j, items) \subseteq Built(j)
    BY DEF Indexed, Built, build_usage_records, build_ingest_records, Winning
  <1>2. \A x, y \in Winning(items) :
           x.tenant = y.tenant /\ x.signal = y.signal => x = y
    BY DEF Winning, JobFits, StatsFit
  <1>3. \A x, y \in J.retentions : x.tenant = y.tenant => x = y
    BY DEF JobFits, OnePerTenant
  <1>4. Distinct(Indexed(j, items))
    <2> SUFFICES ASSUME NEW r \in Indexed(j, items), NEW q \in Indexed(j, items),
                        r.tenant = q.tenant, r.dimension = q.dimension,
                        r.signal = q.signal
                 PROVE  r = q
      BY IdParts DEF Distinct
    <2>3. CASE r.dimension = "ingest_gb_per_day"
      <3>1. PICK x \in Winning(items) : r = IngestRecord(x, J.day)
        BY <2>3, KindOf
      <3>2. q.dimension = "ingest_gb_per_day"
        BY <2>3
      <3>3. PICK y \in Winning(items) : q = IngestRecord(y, J.day)
        BY <3>2, KindOf
      <3> QED
        BY <1>2, RecordFields, <3>1, <3>3
    <2>4. CASE r.dimension = "retention_days"
      <3>1. PICK x \in J.retentions, s \in TELEMETRY_SIGNALS :
               r = RetentionRecord(x, s, J.day)
        BY <2>4, KindOf
      <3>2. q.dimension = "retention_days"
        BY <2>4
      <3>3. PICK y \in J.retentions, u \in TELEMETRY_SIGNALS :
               q = RetentionRecord(y, u, J.day)
        BY <3>2, KindOf
      <3> QED
        BY <1>3, RecordFields, <3>1, <3>3
    <2>5. CASE r.dimension = "active_tenants"
      <3>1. PICK t : r = ActivityRecord(t, J.stats, J.counts, J.day)
        BY <2>5, KindOf
      <3>2. q.dimension = "active_tenants"
        BY <2>5
      <3>3. PICK u : q = ActivityRecord(u, J.stats, J.counts, J.day)
        BY <3>2, KindOf
      <3> QED
        BY RecordFields, <3>1, <3>3
    <2>6. CASE r.dimension = "query_volume"
      <3>1. PICK t : r = QueryRecord(t, J.counts, J.day)
        BY <2>6, KindOf
      <3>2. q.dimension = "query_volume"
        BY <2>6
      <3>3. PICK u : q = QueryRecord(u, J.counts, J.day)
        BY <3>2, KindOf
      <3> QED
        BY RecordFields, <3>1, <3>3
    <2> QED
      BY <2>3, <2>4, <2>5, <2>6, KindOf DEF DIMENSIONS
  <1>5. \A r \in Indexed(j, items) : r.day = J.day
    BY IndexedKinds
       DEF IngestRecord, RetentionRecord, ActivityRecord, QueryRecord, Record
  <1> QED
    BY <1>1, <1>4, <1>5

\* A set of numbers that is not empty has a least element.
LEMMA Least ==
    ASSUME NEW S \in SUBSET Nat, S # {}
    PROVE \E n \in S : \A m \in S : n <= m
  <1>1. PICK n \in S : \A m \in S : ~(<<m, n>> \in OpToRel(<, Nat))
    BY WFMin, NatLessThanWellFounded
  <1>2. \A m \in S : n <= m
    <2> SUFFICES ASSUME NEW m \in S PROVE n <= m
      OBVIOUS
    <2>1. m \in Nat /\ n \in Nat
      OBVIOUS
    <2>2. m < n => <<m, n>> \in OpToRel(<, Nat)
      BY <2>1, Zenon DEF OpToRel
    <2>3. ~(m < n)
      BY <1>1, <2>2
    <2> QED
      BY <2>1, <2>3
  <1> QED
    BY <1>2

\* Of the statistics with one tenant and signal, one wins.
LEMMA SomeoneWins ==
  ASSUME NEW stats, NEW x \in stats, \A z \in stats : z.after \in Nat
  PROVE  \E y \in Winning(stats) : y.tenant = x.tenant
  <1> DEFINE rivals == {z \in stats : z.tenant = x.tenant /\ z.signal = x.signal}
             places == {z.after : z \in rivals}
  <1>1. places \subseteq Nat /\ places # {}
    OBVIOUS
  <1>2. PICK n \in places : \A m \in places : n <= m
    BY <1>1, Least
  <1>3. PICK y \in rivals : y.after = n
    BY <1>2
  <1>4. y \in Winning(stats)
    BY <1>2, <1>3 DEF Winning
  <1> QED
    BY <1>3, <1>4

-----------------------------------------------------------------------------
(* Windows. *)

\* The documents a bulk request leaves beside the ones it brings.
Kept(D, W) == {x \in D : \A r \in W : record_id_for(x) # record_id_for(r)}

ValidWindow(D, d) == \A r \in D : validate_record(r) /\ r.day = d

\* Every tenant of the platform has its marker and its count, and a marker of
\* 1 a measurement.
Covered(D) ==
    \A r \in {x \in D : x.tenant \in Tenants} :
        /\ \A dim \in {"active_tenants", "query_volume"} :
              \E q \in D : q.tenant = r.tenant /\ q.dimension = dim
        /\ (r.dimension = "active_tenants" /\ r.value = 1) =>
              \E q \in D :
                 /\ q.tenant = r.tenant /\ q.value > 0
                 /\ q.dimension \in {"ingest_gb_per_day", "query_volume"}

DocsInv ==
    \A d \in Days : /\ ValidWindow(docs[d], d) /\ Distinct(docs[d])
                    /\ whole[d] => Covered(docs[d])

LEMMA DocsCoherent == DocsInv <=> WindowIsCoherent
  BY DEF DocsInv, WindowIsCoherent, ValidWindow, Distinct, Covered

\* An upsert keeps ids apart.
LEMMA UpsertFits ==
  ASSUME NEW d, NEW D, NEW W, ValidWindow(D, d), ValidWindow(W, d),
         Distinct(D), Distinct(W)
  PROVE  ValidWindow(Kept(D, W) \cup W, d) /\ Distinct(Kept(D, W) \cup W)
  <1>1. ValidWindow(Kept(D, W) \cup W, d)
    BY DEF ValidWindow, Kept
  <1>2. Distinct(Kept(D, W) \cup W)
    BY DEF Distinct, Kept
  <1> QED
    BY <1>1, <1>2

\* What a job writes when all of its items are indexed.
LEMMA CompleteWrite ==
  ASSUME ReadersInv, NEW j \in Jobs, NEW J, J = job[j], J.pc = "write",
         NEW W, W = Indexed(j, J.stats), NEW t \in Tenants
  PROVE  /\ ActivityRecord(t, J.stats, J.counts, J.day) \in W
         /\ QueryRecord(t, J.counts, J.day) \in W
         /\ IsActive(t, J.stats, J.counts) =>
               \E q \in W : /\ q.tenant = t /\ q.value > 0
                            /\ q.dimension \in {"ingest_gb_per_day",
                                                "query_volume"}
  <1>1. JobFits(J)
    BY DEF ReadersInv, JobInv
  <1>2. t \in Known(J.stats, J.retentions, J.counts)
    BY <1>1 DEF JobFits, AllTenants, Known
  <1>3. \A r \in build_ingest_records(J.stats, J.day) :
           r.dimension = "ingest_gb_per_day"
    BY DEF build_ingest_records, Record
  <1>4. ActivityRecord(t, J.stats, J.counts, J.day) \in W
    <2>1. ActivityRecord(t, J.stats, J.counts, J.day)
             \in build_activity_records(J.stats, J.retentions, J.counts, J.day)
      BY <1>2 DEF build_activity_records, ActivityRecord
    <2> QED
      BY <1>3, <2>1, RecordFields DEF Indexed, Built, build_usage_records
  <1>5. QueryRecord(t, J.counts, J.day) \in W
    <2>1. QueryRecord(t, J.counts, J.day)
             \in build_query_volume_records(J.counts,
                     Known(J.stats, J.retentions, J.counts), J.day)
      BY <1>2 DEF build_query_volume_records, QueryRecord
    <2> QED
      BY <1>3, <2>1, RecordFields DEF Indexed, Built, build_usage_records
  <1>6. ASSUME NEW x \in J.stats, x.tenant = t
        PROVE  \E q \in W : /\ q.tenant = t /\ q.value > 0
                            /\ q.dimension = "ingest_gb_per_day"
    <2>1. PICK y \in Winning(J.stats) : y.tenant = t
      <3>1. \A z \in J.stats : z.after \in Nat
        BY <1>1 DEF JobFits, StatsFit
      <3> QED
        BY <1>6, <3>1, SomeoneWins
    <2>2. y \in J.stats
      BY DEF Winning
    <2>3. y.value \in Nat \ {0}
      BY <1>1, <2>2 DEF JobFits, StatsFit
    <2>4. IngestRecord(y, J.day) \in W
      BY DEF Indexed, build_ingest_records, IngestRecord
    <2>5. y.value > 0
      BY <2>3
    <2> QED
      BY <2>1, <2>4, <2>5, RecordFields
  <1>7. ASSUME NEW x \in J.counts, x.tenant = t
        PROVE  CountOf(t, J.counts) > 0
    <2>1. PICK y \in J.counts : CountOf(t, J.counts) = y.value
      BY <1>7 DEF CountOf
    <2>2. y.value \in Nat \ {0}
      BY <1>1 DEF JobFits
    <2> QED
      BY <2>1, <2>2
  <1> QED
    BY <1>4, <1>5, <1>6, <1>7, RecordFields DEF IsActive

LEMMA CompleteCovers ==
  ASSUME ReadersInv, NEW j \in Jobs, NEW J, J = job[j], J.pc = "write",
         NEW W, W = Indexed(j, J.stats), NEW D, ValidWindow(D, J.day)
  PROVE  Covered(Kept(D, W) \cup W)
  <1> SUFFICES ASSUME NEW r \in Kept(D, W) \cup W, r.tenant \in Tenants
               PROVE  /\ \A dim \in {"active_tenants", "query_volume"} :
                           \E q \in W : q.tenant = r.tenant /\ q.dimension = dim
                      /\ (r.dimension = "active_tenants" /\ r.value = 1) =>
                           \E q \in W :
                             /\ q.tenant = r.tenant /\ q.value > 0
                             /\ q.dimension \in {"ingest_gb_per_day",
                                                 "query_volume"}
    BY DEF Covered
  <1>1. PICK t \in Tenants : t = r.tenant
    OBVIOUS
  <1>2. PICK a, b : /\ a = ActivityRecord(t, J.stats, J.counts, J.day)
                    /\ b = QueryRecord(t, J.counts, J.day)
    OBVIOUS
  <1>3. a \in W /\ b \in W
    BY <1>2, CompleteWrite
  <1>4. /\ a.tenant = t /\ a.dimension = "active_tenants"
        /\ a.signal = "platform" /\ a.day = J.day
        /\ b.tenant = t /\ b.dimension = "query_volume"
    BY <1>2, RecordFields
  <1>5. ASSUME r.dimension = "active_tenants", r.value = 1
        PROVE  IsActive(t, J.stats, J.counts)
    <2>1. r \in W
      <3>1. ASSUME r \in Kept(D, W) PROVE FALSE
        <4>1. validate_record(r) /\ r.day = J.day
          BY <3>1 DEF ValidWindow, Kept
        <4>2. r.signal = "platform"
          BY <1>5, <4>1 DEF validate_record
        <4>3. record_id_for(r) = record_id_for(a)
          BY <1>1, <1>4, <1>5, <4>1, <4>2, IdParts
        <4> QED
          BY <1>3, <3>1, <4>3 DEF Kept
      <3> QED
        BY <3>1
    <2>2. PICK u : r = ActivityRecord(u, J.stats, J.counts, J.day)
      BY <1>5, <2>1, KindOf
    <2>3. u = t
      BY <1>1, <2>2, RecordFields
    <2> QED
      BY <1>5, <2>2, <2>3, RecordFields
  <1>6. (r.dimension = "active_tenants" /\ r.value = 1) =>
           \E q \in W : /\ q.tenant = t /\ q.value > 0
                        /\ q.dimension \in {"ingest_gb_per_day", "query_volume"}
    BY <1>5, CompleteWrite
  <1> QED
    BY <1>1, <1>3, <1>4, <1>6

\* What may have landed of a request.
LEMMA PartlyFits ==
  ASSUME ReadersInv, NEW j \in Jobs, NEW J, J = job[j],
         ensure_valid_records(Built(j)), NEW W \in Partly(j)
  PROVE  ValidWindow(W, J.day) /\ Distinct(W)
  <1>1. JobFits(J)
    BY DEF ReadersInv, JobInv
  <1>2. ASSUME NEW items, items \subseteq J.stats
        PROVE  ValidWindow(Indexed(j, items), J.day) /\ Distinct(Indexed(j, items))
    BY <1>1, <1>2, IndexedDistinct DEF ValidWindow, ensure_valid_records
  <1>3. ValidWindow({}, J.day) /\ Distinct({})
    BY DEF ValidWindow, Distinct
  <1>4. \E items : items \subseteq J.stats
                   /\ (W = {} \/ W \subseteq Indexed(j, items))
    <2>1. J.stats \subseteq J.stats /\ \A x : J.stats \ {x} \subseteq J.stats
      OBVIOUS
    <2> QED
      BY <2>1 DEF Partly
  <1> QED
    BY <1>2, <1>3, <1>4 DEF ValidWindow, Distinct

LEMMA WriteWindows ==
  ASSUME ReadersInv, DocsInv, NEW j \in Jobs, Write(j) \/ WriteFails(j)
  PROVE  DocsInv'
  <1>1. PICK J : J = job[j]
    OBVIOUS
  <1>2. J.pc = "write" /\ ensure_valid_records(Built(j)) /\ J.day \in Days
    BY <1>1 DEF Write, WriteFails, ReadersInv, JobInv, JobFits
  <1>3. PICK W \in Partly(j) :
          /\ Upsert(J.day, W)
          /\ \A d \in Days : d # J.day => whole'[d] = whole[d]
          /\ whole'[J.day] =>
                W = Indexed(j, J.stats) \/ (whole[J.day] /\ W = {})
    <2>1. CASE Write(j)
      BY <1>1, <1>2, <2>1 DEF Write, Partly, ReadersInv, SurfaceInv
    <2>2. CASE WriteFails(j)
      BY <1>1, <1>2, <2>2 DEF WriteFails, ReadersInv, SurfaceInv
    <2> QED
      BY <2>1, <2>2
  <1>4. /\ docs'[J.day] = Kept(docs[J.day], W) \cup W
        /\ \A d \in Days : d # J.day => docs'[d] = docs[d]
    BY <1>2, <1>3 DEF Upsert, Kept, ReadersInv, SurfaceInv
  <1>5. ValidWindow(docs'[J.day], J.day) /\ Distinct(docs'[J.day])
    <2>1. ValidWindow(docs[J.day], J.day) /\ Distinct(docs[J.day])
      BY <1>2 DEF DocsInv
    <2>2. ValidWindow(W, J.day) /\ Distinct(W)
      BY <1>1, <1>2, PartlyFits
    <2> QED
      BY <1>4, <2>1, <2>2, UpsertFits
  <1>6. whole'[J.day] => Covered(docs'[J.day])
    <2>1. CASE W = Indexed(j, J.stats)
      BY <1>1, <1>2, <1>4, <2>1, CompleteCovers DEF DocsInv
    <2>2. CASE whole[J.day] /\ W = {}
      <3>1. docs'[J.day] = docs[J.day]
        BY <1>4, <2>2 DEF Kept
      <3> QED
        BY <1>2, <2>2, <3>1 DEF DocsInv
    <2> QED
      BY <1>3, <2>1, <2>2
  <1> QED
    BY <1>3, <1>4, <1>5, <1>6 DEF DocsInv

LEMMA NextWindows == ReadersInv /\ DocsInv /\ [Next]_vars => DocsInv'
  <1> SUFFICES ASSUME ReadersInv, DocsInv, [Next]_vars PROVE DocsInv'
    OBVIOUS
  <1>1. CASE \E j \in Jobs : Write(j) \/ WriteFails(j)
    BY <1>1, WriteWindows
  <1>2. CASE ~\E j \in Jobs : Write(j) \/ WriteFails(j)
    <2>1. UNCHANGED <<docs, whole>>
      BY <1>2, Zenon DEF Next, Start, ReadIngest, ReadRetention, ReadQueries,
                  ReadFails, Reject, VolumeChanges, RetentionChanges, vars
    <2>2. docs' = docs /\ whole' = whole
      BY <2>1
    <2> QED
      BY <2>2, Zenon DEF DocsInv
  <1> QED
    BY <1>1, <1>2

\* However jobs overlap, fail and write in part: every document is a valid
\* record of its day, no two have one id (a re-collection upserts,
\* sinks.py), and once the last write of a day is a complete one, every
\* tenant in the window has its activity marker and its query count, and no
\* marker says active without a measurement, even when the surfaces changed
\* between the reads.
THEOREM WindowsAreCoherent == Spec => []WindowIsCoherent
  <1>1. Init => ReadersInv /\ DocsInv
    <2>1. Init => DocsInv
      BY DEF Init, DocsInv, ValidWindow, Distinct
    <2> QED
      BY <2>1, InitReaders
  <1>2. ReadersInv /\ DocsInv /\ [Next]_vars => (ReadersInv /\ DocsInv)'
    BY NextReaders, NextWindows
  <1>3. ReadersInv /\ DocsInv => WindowIsCoherent
    BY DocsCoherent
  <1> QED
    BY <1>1, <1>2, <1>3, PTL DEF Spec

-----------------------------------------------------------------------------
(* What a job that nothing disturbed has read. *)

\* Its readings are those of the surfaces as they are.
Truthful(r) ==
    (r.pc \in {"ingest", "retention", "queries", "write"} /\ ~r.torn) =>
        /\ \A x : x \in r.stats <=>
              \E i \in 1 .. Len(SignalOrder) :
                 i < r.next /\ x \in ingest_stats(r.day, SignalOrder[i])
        /\ r.pc # "ingest" => r.next = Len(SignalOrder) + 1
        /\ r.pc \in {"queries", "write"} => r.retentions = tenant_retention
        /\ r.pc = "write" => r.counts = query_volume(r.day)

TruthInv ==
    /\ retention \in [Tenants -> RetentionDays]
    /\ current = [d \in Days |-> current[d]]
    /\ \A j \in Jobs : Truthful(job[j])

LEMMA SameSurfaces ==
  ASSUME NEW d, usage'[d] = usage[d], queries' = queries
  PROVE  /\ \A s : ingest_stats(d, s)' = ingest_stats(d, s)
         /\ query_volume(d)' = query_volume(d)
  BY DEF ingest_stats, query_volume

\* A reading is right as long as its surfaces stand.
LEMMA SameTruth ==
  ASSUME NEW r, Truthful(r), usage'[r.day] = usage[r.day],
         retention' = retention, queries' = queries
  PROVE  Truthful(r)'
  <1>1. PICK d : d = r.day
    OBVIOUS
  <1>2. /\ \A s : ingest_stats(d, s)' = ingest_stats(d, s)
        /\ query_volume(d)' = query_volume(d)
    BY <1>1, SameSurfaces
  <1>3. tenant_retention' = tenant_retention
    BY DEF tenant_retention
  <1> QED
    BY <1>1, <1>2, <1>3 DEF Truthful

\* A step of one job.
LEMMA OneTruth ==
  ASSUME JobInv, TruthInv, UNCHANGED sourceVars, current' = [d \in Days |-> current'[d]],
         NEW j \in Jobs, NEW r, Truthful(r), job' = [job EXCEPT ![j] = r]
  PROVE  TruthInv'
  <1>1. job' = [k \in Jobs |-> IF k = j THEN r ELSE job[k]]
    BY DEF JobInv
  <1>2. ASSUME NEW k \in Jobs PROVE Truthful(job[k])'
    <2>1. PICK q : q = job'[k]
      OBVIOUS
    <2>2. Truthful(q)
      BY <1>1, <2>1 DEF TruthInv
    <2>3. Truthful(q)'
      BY <2>2, SameTruth DEF sourceVars
    <2> QED
      BY <2>1, <2>3
  <1> QED
    BY <1>2 DEF TruthInv, sourceVars

LEMMA IdleTruthful ==
  ASSUME NEW pc \in {"idle", "done", "failed"}
  PROVE  Truthful([IdleJob EXCEPT !.pc = pc])
  <1>1. [IdleJob EXCEPT !.pc = pc].pc = pc
    BY DEF IdleJob
  <1> QED
    BY <1>1 DEF Truthful

LEMMA InitTruth == Init => TruthInv
  <1> SUFFICES ASSUME Init PROVE TruthInv
    OBVIOUS
  <1>1. IdleJob = [IdleJob EXCEPT !.pc = "idle"]
    BY DEF IdleJob
  <1>2. Truthful(IdleJob)
    BY <1>1, IdleTruthful
  <1> QED
    BY <1>2, MeteringAssumption DEF Init, TruthInv

LEMMA EndTruth ==
  ASSUME ReadersInv, TruthInv, NEW j \in Jobs, NEW how \in {"done", "failed"},
         job' = Ended(j, how), UNCHANGED sourceVars,
         current' = [d \in Days |-> current'[d]]
  PROVE  TruthInv'
  BY IdleTruthful, OneTruth DEF Ended, ReadersInv

\* Each step of a job reads the surfaces as they are.
LEMMA StartTruth ==
  ASSUME ReadersInv, TruthInv, NEW j \in Jobs, NEW d \in Days, Start(j, d)
  PROVE  TruthInv'
  <1>1. PICK r : r = [IdleJob EXCEPT !.pc = "ingest", !.day = d]
    OBVIOUS
  <1>2. r.pc = "ingest" /\ r.next = 1 /\ r.stats = {}
    BY <1>1 DEF IdleJob
  <1>3. \A i \in 1 .. Len(SignalOrder) : ~(i < r.next)
    BY <1>2, Signals
  <1>4. Truthful(r)
    BY <1>2, <1>3 DEF Truthful
  <1> QED
    BY <1>1, <1>4, OneTruth DEF Start, ReadersInv, TruthInv

LEMMA ReadIngestTruth ==
  ASSUME ReadersInv, TruthInv, NEW j \in Jobs, ReadIngest(j)
  PROVE  TruthInv'
  <1>1. PICK J : J = job[j]
    OBVIOUS
  <1>2. /\ J.pc = "ingest" /\ JobFits(J) /\ Truthful(J)
        /\ J.next \in 1 .. Len(SignalOrder)
    BY <1>1, Signals DEF ReadIngest, ReadersInv, JobInv, JobFits, TruthInv
  <1>3. PICK r : r = [J EXCEPT
          !.stats = @ \cup ingest_stats(J.day, SignalOrder[J.next]),
          !.next = @ + 1,
          !.pc = IF J.next = Len(SignalOrder) THEN "retention" ELSE @]
    OBVIOUS
  <1>4. job' = [job EXCEPT ![j] = r]
    BY <1>1, <1>3 DEF ReadIngest, ReadersInv, JobInv
  <1>5. /\ r.day = J.day /\ r.next = J.next + 1 /\ r.torn = J.torn
        /\ r.pc = IF J.next = Len(SignalOrder) THEN "retention" ELSE "ingest"
        /\ r.stats = J.stats \cup ingest_stats(J.day, SignalOrder[J.next])
    BY <1>2, <1>3 DEF JobFits, Shaped
  <1>6. ASSUME ~J.torn
        PROVE  \A x : x \in r.stats <=>
                  \E i \in 1 .. Len(SignalOrder) :
                     i < r.next /\ x \in ingest_stats(r.day, SignalOrder[i])
    <2>1. \A i \in 1 .. Len(SignalOrder) : i < r.next <=> i < J.next \/ i = J.next
      BY <1>2, <1>5
    <2>2. \A x : x \in J.stats <=>
                  \E i \in 1 .. Len(SignalOrder) :
                     i < J.next /\ x \in ingest_stats(J.day, SignalOrder[i])
      BY <1>2, <1>6 DEF Truthful
    <2> QED
      BY <1>2, <1>5, <2>1, <2>2
  <1>7. r.pc # "ingest" => r.next = Len(SignalOrder) + 1
    BY <1>5
  <1>8. Truthful(r)
    BY <1>5, <1>6, <1>7 DEF Truthful
  <1> QED
    BY <1>4, <1>8, OneTruth DEF ReadIngest, ReadersInv, TruthInv

LEMMA ReadRetentionTruth ==
  ASSUME ReadersInv, TruthInv, NEW j \in Jobs, ReadRetention(j)
  PROVE  TruthInv'
  <1>1. PICK J : J = job[j]
    OBVIOUS
  <1>2. J.pc = "retention" /\ JobFits(J) /\ Truthful(J)
    BY <1>1 DEF ReadRetention, ReadersInv, JobInv, TruthInv
  <1>3. PICK r : r = [J EXCEPT !.retentions = tenant_retention, !.pc = "queries"]
    OBVIOUS
  <1>4. job' = [job EXCEPT ![j] = r]
    BY <1>1, <1>3 DEF ReadRetention, ReadersInv, JobInv
  <1>5. /\ r.pc = "queries" /\ r.day = J.day /\ r.next = J.next
        /\ r.stats = J.stats /\ r.torn = J.torn /\ r.retentions = tenant_retention
    BY <1>2, <1>3 DEF JobFits, Shaped
  <1>6. Truthful(r)
    BY <1>2, <1>5 DEF Truthful
  <1> QED
    BY <1>4, <1>6, OneTruth DEF ReadRetention, ReadersInv, TruthInv

LEMMA ReadQueriesTruth ==
  ASSUME ReadersInv, TruthInv, NEW j \in Jobs, ReadQueries(j)
  PROVE  TruthInv'
  <1>1. PICK J : J = job[j]
    OBVIOUS
  <1>2. J.pc = "queries" /\ JobFits(J) /\ Truthful(J)
    BY <1>1 DEF ReadQueries, ReadersInv, JobInv, TruthInv
  <1>3. PICK r : r = [J EXCEPT !.counts = query_volume(J.day), !.pc = "write"]
    OBVIOUS
  <1>4. /\ r.pc = "write" /\ r.day = J.day /\ r.next = J.next
        /\ r.stats = J.stats /\ r.torn = J.torn /\ r.retentions = J.retentions
        /\ r.counts = query_volume(J.day)
    BY <1>2, <1>3 DEF JobFits, Shaped
  <1>5. Truthful(r)
    BY <1>2, <1>4 DEF Truthful
  <1>6. job' = Ended(j, "failed") \/ job' = [job EXCEPT ![j] = r]
    BY <1>1, <1>3 DEF ReadQueries, ReadersInv, JobInv
  <1>7. UNCHANGED sourceVars /\ current' = [d \in Days |-> current'[d]]
    BY DEF ReadQueries, TruthInv
  <1> QED
    BY <1>5, <1>6, <1>7, OneTruth, EndTruth DEF ReadersInv

\* A change of a surface tears the jobs that read it.
LEMMA ChangeTruth ==
  ASSUME ReadersInv, TruthInv, NEW days, Disturb(days), queries' = queries,
         \A d : d \notin days => usage'[d] = usage[d],
         retention' \in [Tenants -> RetentionDays],
         retention' = retention \/ days = Days
  PROVE  TruthInv'
  <1>1. /\ job' = [j \in Jobs |-> IF job[j].day \in days
                                  THEN [job[j] EXCEPT !.torn = TRUE] ELSE job[j]]
        /\ current' = [d \in Days |-> current'[d]]
    BY DEF Disturb
  <1>2. ASSUME NEW j \in Jobs PROVE Truthful(job[j])'
    <2>1. PICK J : J = job[j]
      OBVIOUS
    <2>2. PICK q : q = job'[j]
      OBVIOUS
    <2>3. JobFits(J) /\ Truthful(J)
      BY <2>1 DEF ReadersInv, JobInv, TruthInv
    <2>4. CASE J.day \in days
      <3>1. q.torn = TRUE
        BY <1>1, <2>1, <2>2, <2>3, <2>4 DEF JobFits, Shaped
      <3>2. Truthful(q)'
        BY <3>1 DEF Truthful
      <3> QED
        BY <2>2, <3>2
    <2>5. CASE J.day \notin days
      <3>1. q = J
        BY <1>1, <2>1, <2>2, <2>5
      <3>2. Truthful(q)'
        <4>1. CASE retention' = retention
          BY <2>3, <2>5, <3>1, <4>1, SameTruth
        <4>2. CASE days = Days
          <5>1. q.pc \notin {"ingest", "retention", "queries", "write"}
            BY <2>3, <2>5, <3>1, <4>2 DEF JobFits
          <5> QED
            BY <5>1 DEF Truthful
        <4> QED
          BY <4>1, <4>2
      <3> QED
        BY <2>2, <3>2
    <2> QED
      BY <2>4, <2>5
  <1> QED
    BY <1>1, <1>2 DEF TruthInv

LEMMA VolumeChangeOf ==
  ASSUME ReadersInv, NEW d \in Days, NEW t \in Tenants, NEW s \in TELEMETRY_SIGNALS,
         VolumeChanges(d, t, s)
  PROVE  /\ Disturb({d}) /\ UNCHANGED <<retention, queries, docs>>
         /\ \A e : e \notin {d} => usage'[e] = usage[e]
  <1>1. PICK v : usage' = [usage EXCEPT ![d][t][s] = v]
    BY DEF VolumeChanges
  <1>2. \A e \in Days : e # d => usage'[e] = usage[e]
    BY <1>1 DEF ReadersInv, SurfaceInv
  <1>3. ASSUME NEW e, e \notin {d} PROVE usage'[e] = usage[e]
    BY <1>1, <1>3
  <1> QED
    BY <1>3 DEF VolumeChanges

LEMMA NextTruth == ReadersInv /\ TruthInv /\ [Next]_vars => TruthInv'
  <1> SUFFICES ASSUME ReadersInv, TruthInv, [Next]_vars PROVE TruthInv'
    OBVIOUS
  <1>1. CASE UNCHANGED vars
    <2>1. ASSUME NEW j \in Jobs PROVE Truthful(job[j])'
      <3>1. PICK q : q = job[j]
        OBVIOUS
      <3>2. Truthful(q)'
        BY <1>1, <3>1, SameTruth DEF TruthInv, vars
      <3> QED
        BY <1>1, <3>1, <3>2 DEF vars
    <2> QED
      BY <1>1, <2>1 DEF TruthInv, vars
  <1>2. ASSUME NEW j \in Jobs, ReadFails(j) \/ Reject(j) \/ Write(j) \/ WriteFails(j)
        PROVE  TruthInv'
    <2>1. /\ job' = Ended(j, "failed") \/ job' = Ended(j, "done")
          /\ UNCHANGED sourceVars /\ current' = [d \in Days |-> current'[d]]
      BY <1>2 DEF ReadFails, Reject, Write, WriteFails, TruthInv
    <2> QED
      BY <2>1, EndTruth
  <1>3. ASSUME NEW d \in Days, NEW t \in Tenants, NEW s \in TELEMETRY_SIGNALS,
               VolumeChanges(d, t, s)
        PROVE  TruthInv'
    BY <1>3, VolumeChangeOf, ChangeTruth DEF TruthInv
  <1>4. ASSUME NEW t \in Tenants, RetentionChanges(t) PROVE TruthInv'
    <2>1. /\ Disturb(Days) /\ UNCHANGED <<usage, queries>>
          /\ retention' \in [Tenants -> RetentionDays]
      BY <1>4 DEF RetentionChanges, TruthInv
    <2> QED
      BY <2>1, ChangeTruth
  <1> QED
    BY <1>1, <1>2, <1>3, <1>4, StartTruth, ReadIngestTruth, ReadRetentionTruth,
       ReadQueriesTruth DEF Next

-----------------------------------------------------------------------------
(* What a complete write of such a job says of a tenant. *)

\* An id in which nothing can be taken for a signal is read back right.
LEMMA ParsedRight ==
  ASSUME NEW t \in Tenants, NEW s \in TELEMETRY_SIGNALS, Unambiguous(t)
  PROVE  Parse(IndexName(t, s)).tenant = t /\ Parse(IndexName(t, s)).signal = s
  <1> DEFINE n == Len(t)
             cuts == {i \in 2 .. (Len(IndexName(t, s)) - 1) :
                         IndexName(t, s)[i] \in TELEMETRY_SIGNALS}
             cut == CHOOSE i \in cuts : \A k \in cuts : i <= k
  <1>1. t \in Seq(STRING) /\ n \in Nat \ {0} /\ s \in STRING
    <2>1. t \in Seq(STRING) /\ t # <<>>
      BY MeteringAssumption
    <2>2. s \in STRING
      BY MeteringAssumption DEF TELEMETRY_SIGNALS
    <2> QED
      BY <2>1, <2>2, EmptySeq
  <1>2. PICK name : name = IndexName(t, s)
    OBVIOUS
  <1>3. /\ Len(name) = n + 2
        /\ \A i \in 1 .. n : name[i] = t[i]
        /\ name[n + 1] = s
    <2> DEFINE parts == STRING \cup {"day"}
    <2>1. t \in Seq(parts) /\ <<s, "day">> \in Seq(parts)
      BY <1>1, SeqMonotonic
    <2>2. Len(<<s, "day">>) = 2 /\ <<s, "day">>[1] = s
      OBVIOUS
    <2>3. name = t \o <<s, "day">>
      BY <1>2 DEF IndexName
    <2>4. PICK tail : tail = <<s, "day">>
      OBVIOUS
    <2> HIDE DEF parts
    <2>5. /\ Len(t \o tail) = Len(t) + Len(tail)
          /\ \A i \in 1 .. Len(t) + Len(tail) : (t \o tail)[i] =
                IF i <= Len(t) THEN t[i] ELSE tail[i - Len(t)]
      BY <2>1, <2>4, ConcatProperties
    <2>6. n + 1 \in 1 .. n + 2 /\ (n + 1) - n = 1 /\ ~(n + 1 <= n)
      BY <1>1
    <2>7. \A i \in 1 .. n : i \in 1 .. n + 2 /\ i <= n
      BY <1>1
    <2> QED
      BY <2>2, <2>3, <2>4, <2>5, <2>6, <2>7
  <1>4. n + 1 \in cuts /\ \A i \in cuts : n + 1 <= i
    <2>1. n + 1 \in 2 .. (Len(name) - 1)
      BY <1>1, <1>3
    <2>2. ASSUME NEW i \in 2 .. (Len(name) - 1), name[i] \in TELEMETRY_SIGNALS
          PROVE  n + 1 <= i
      <3>1. CASE i <= n
        BY <1>1, <1>3, <2>2, <3>1 DEF Unambiguous
      <3> QED
        BY <1>1, <3>1
    <2> QED
      BY <1>2, <1>3, <2>1, <2>2
  <1>5. cuts \subseteq Int
    OBVIOUS
  <1> HIDE DEF cuts
  <1>6. cut \in cuts /\ \A k \in cuts : cut <= k
    BY <1>4
  <1>7. cut = n + 1
    <2> HIDE DEF cut
    <2>1. cut <= n + 1 /\ n + 1 <= cut /\ cut \in Int
      BY <1>4, <1>5, <1>6
    <2> QED
      BY <1>1, <2>1
  <1>8. Parse(name) = [tenant |-> SubSeq(name, 1, cut - 1), signal |-> name[cut]]
    BY <1>2 DEF Parse, cuts
  <1> HIDE DEF cut
  <1>9. SubSeq(name, 1, n) = t
    <2>1. \A i \in 1 .. n : name[i] \in STRING
      BY <1>1, <1>3, ElementOfSeq
    <2>2. /\ SubSeq(name, 1, n) \in Seq(STRING) /\ Len(SubSeq(name, 1, n)) = n
          /\ \A i \in 1 .. n : SubSeq(name, 1, n)[i] = name[i]
      BY <1>1, <2>1, SubSeqProperties
    <2> QED
      BY <1>1, <1>3, <2>2, SeqEqual
  <1>10. cut - 1 = n
    BY <1>1, <1>7
  <1> QED
    BY <1>2, <1>3, <1>7, <1>8, <1>9, <1>10

\* The statistics of a tenant that nobody else's index names read as.
LEMMA StatOf ==
  ASSUME NEW t \in Tenants, Unambiguous(t), Unclaimed(t), NEW d, NEW s \in TELEMETRY_SIGNALS
  PROVE  \A x : (x \in ingest_stats(d, s) /\ x.tenant = t) <=>
                /\ usage[d][t][s] > 0
                /\ x = [tenant |-> t, signal |-> s, after |-> NamesAfter[s][t],
                        value |-> usage[d][t][s]]
  <1>1. Parse(IndexName(t, s)).tenant = t /\ Parse(IndexName(t, s)).signal = s
    BY ParsedRight
  <1>2. \A u \in Tenants : Parse(IndexName(u, s)).tenant = t => u = t
    BY DEF Unclaimed
  <1>3. \A x : x \in ingest_stats(d, s) <=>
           \E u \in Tenants :
              /\ usage[d][u][s] > 0 /\ Parse(IndexName(u, s)).signal = s
              /\ x = [tenant |-> Parse(IndexName(u, s)).tenant, signal |-> s,
                      after |-> NamesAfter[s][u], value |-> usage[d][u][s]]
    BY DEF ingest_stats
  <1> SUFFICES ASSUME NEW x
               PROVE  (x \in ingest_stats(d, s) /\ x.tenant = t) <=>
                      /\ usage[d][t][s] > 0
                      /\ x = [tenant |-> t, signal |-> s, after |-> NamesAfter[s][t],
                              value |-> usage[d][t][s]]
    OBVIOUS
  <1>4. ASSUME x \in ingest_stats(d, s), x.tenant = t
        PROVE  /\ usage[d][t][s] > 0
               /\ x = [tenant |-> t, signal |-> s, after |-> NamesAfter[s][t],
                       value |-> usage[d][t][s]]
    <2>1. PICK u \in Tenants :
              /\ usage[d][u][s] > 0
              /\ x = [tenant |-> Parse(IndexName(u, s)).tenant, signal |-> s,
                      after |-> NamesAfter[s][u], value |-> usage[d][u][s]]
      BY <1>3, <1>4
    <2>2. u = t
      BY <1>2, <1>4, <2>1
    <2> QED
      BY <1>1, <2>1, <2>2
  <1>5. ASSUME usage[d][t][s] > 0,
               x = [tenant |-> t, signal |-> s, after |-> NamesAfter[s][t],
                    value |-> usage[d][t][s]]
        PROVE  x \in ingest_stats(d, s) /\ x.tenant = t
    BY <1>1, <1>3, <1>5
  <1> QED
    BY <1>4, <1>5

Active(t, d) ==
    queries[d][t] > 0 \/ \E s \in TELEMETRY_SIGNALS : usage[d][t][s] > 0

IngestCharge(t, s, d) == Record(t, "ingest_gb_per_day", s, d, usage[d][t][s])

RetentionCharge(t, s, d) == Record(t, "retention_days", s, d, retention[t])

ActivityCharge(t, d) ==
    Record(t, "active_tenants", "platform", d, IF Active(t, d) THEN 1 ELSE 0)

QueryCharge(t, d) == Record(t, "query_volume", "platform", d, queries[d][t])

\* The records the surfaces call for.
Charged(D, t, d) ==
    /\ \A s \in TELEMETRY_SIGNALS : usage[d][t][s] > 0 => IngestCharge(t, s, d) \in D
    /\ \A s \in TELEMETRY_SIGNALS : RetentionCharge(t, s, d) \in D
    /\ ActivityCharge(t, d) \in D
    /\ QueryCharge(t, d) \in D

CurrentInv ==
    \A d \in Days : current[d] =>
        \A t \in Tenants : Unambiguous(t) /\ Unclaimed(t) => Charged(docs[d], t, d)

\* A complete write of a job that nothing disturbed has those records.
LEMMA TruthfulWrite ==
  ASSUME ReadersInv, TruthInv, NEW j \in Jobs, NEW J, J = job[j],
         J.pc = "write", ~J.torn, NEW t \in Tenants, Unambiguous(t), Unclaimed(t)
  PROVE  Charged(Indexed(j, J.stats), t, J.day)
  <1>1. JobFits(J) /\ Truthful(J) /\ J.day \in Days
    BY DEF ReadersInv, JobInv, TruthInv, JobFits
  <1>2. PICK d \in Days : d = J.day
    BY <1>1
  <1>3. PICK W : W = Indexed(j, J.stats)
    OBVIOUS
  <1>4. /\ \A x : x \in J.stats <=>
              \E i \in 1 .. Len(SignalOrder) : x \in ingest_stats(d, SignalOrder[i])
        /\ J.retentions = tenant_retention /\ J.counts = query_volume(d)
    <2>1. /\ \A x : x \in J.stats <=>
                \E i \in 1 .. Len(SignalOrder) :
                   i < J.next /\ x \in ingest_stats(d, SignalOrder[i])
          /\ J.next = Len(SignalOrder) + 1
          /\ J.retentions = tenant_retention /\ J.counts = query_volume(d)
      BY <1>1, <1>2 DEF Truthful
    <2>2. \A i \in 1 .. Len(SignalOrder) : i < J.next
      BY <2>1, Signals
    <2> QED
      BY <2>1, <2>2
  <1>5. \A x : x \in J.stats <=> \E s \in TELEMETRY_SIGNALS : x \in ingest_stats(d, s)
    BY <1>4, Signals DEF TELEMETRY_SIGNALS
  <1> DEFINE stat(s) == [tenant |-> t, signal |-> s, after |-> NamesAfter[s][t],
                         value |-> usage[d][t][s]]
  <1>6. \A x : (x \in J.stats /\ x.tenant = t) <=>
               \E s \in TELEMETRY_SIGNALS : usage[d][t][s] > 0 /\ x = stat(s)
    <2>1. \A s \in TELEMETRY_SIGNALS : \A x :
             (x \in ingest_stats(d, s) /\ x.tenant = t) <=>
             (usage[d][t][s] > 0 /\ x = stat(s))
      BY StatOf
    <2> HIDE DEF stat
    <2> QED
      BY <1>5, <2>1
  <1>7. \A s : /\ stat(s).tenant = t /\ stat(s).signal = s
               /\ stat(s).value = usage[d][t][s]
    OBVIOUS
  <1> HIDE DEF stat
  <1>8. \A r \in build_ingest_records(J.stats, J.day) :
           r.dimension = "ingest_gb_per_day"
    BY DEF build_ingest_records, Record
  <1>9. ASSUME NEW s \in TELEMETRY_SIGNALS, usage[d][t][s] > 0
        PROVE  IngestCharge(t, s, d) \in W
    <2>1. stat(s) \in J.stats
      BY <1>6, <1>9
    <2>2. ASSUME NEW z \in J.stats, z.tenant = t, z.signal = s
          PROVE  z = stat(s)
      BY <1>6, <1>7, <2>2
    <2>3. stat(s) \in Winning(J.stats)
      <3>1. stat(s).after \in Nat
        BY <1>1, <2>1 DEF JobFits, StatsFit
      <3>2. stat(s).after <= stat(s).after
        BY <3>1
      <3> QED
        BY <1>7, <2>1, <2>2, <3>2 DEF Winning
    <2>4. IngestRecord(stat(s), d) \in W
      BY <1>2, <1>3, <2>3 DEF Indexed, build_ingest_records, IngestRecord
    <2> QED
      BY <1>7, <2>4 DEF IngestRecord, IngestCharge
  <1>10. ASSUME NEW s \in TELEMETRY_SIGNALS PROVE RetentionCharge(t, s, d) \in W
    <2>1. PICK x \in J.retentions : x.tenant = t /\ x.value = retention[t]
      <3>1. [tenant |-> t, value |-> retention[t]] \in J.retentions
        BY <1>4 DEF tenant_retention
      <3> QED
        BY <3>1
    <2>2. RetentionRecord(x, s, d) \in build_retention_records(J.retentions, d)
      BY DEF build_retention_records, RetentionRecord
    <2>3. RetentionRecord(x, s, d) = RetentionCharge(t, s, d)
      BY <2>1 DEF RetentionRecord, RetentionCharge
    <2>4. RetentionRecord(x, s, d) \notin build_ingest_records(J.stats, J.day)
      BY <1>8, RecordFields
    <2> QED
      BY <1>2, <1>3, <2>2, <2>3, <2>4 DEF Indexed, Built, build_usage_records
  <1>11. /\ ActivityRecord(t, J.stats, J.counts, d) \in W
         /\ QueryRecord(t, J.counts, d) \in W
    BY <1>2, <1>3, CompleteWrite
  <1>12. queries[d][t] \in Nat /\ t \in Sources
    BY DEF ReadersInv, SurfaceInv, Sources
  <1>13. \A x : (x \in J.counts /\ x.tenant = t) <=>
                (queries[d][t] > 0 /\ x = [tenant |-> t, value |-> queries[d][t]])
    <2>1. \A x : x \in J.counts <=>
             \E u \in Sources : queries[d][u] > 0
                                /\ x = [tenant |-> u, value |-> queries[d][u]]
      BY <1>4 DEF query_volume
    <2> QED
      BY <1>12, <2>1
  <1>14. CountOf(t, J.counts) = queries[d][t]
    <2>1. CASE queries[d][t] > 0
      <3>1. \E x \in J.counts : x.tenant = t
        BY <1>13, <2>1
      <3>2. PICK y \in J.counts : y.tenant = t /\ CountOf(t, J.counts) = y.value
        BY <3>1 DEF CountOf
      <3>3. y = [tenant |-> t, value |-> queries[d][t]]
        BY <1>13, <3>2
      <3> QED
        BY <3>2, <3>3
    <2>2. CASE ~(queries[d][t] > 0)
      <3>1. ~\E x \in J.counts : x.tenant = t
        BY <1>13, <2>2
      <3>2. CountOf(t, J.counts) = 0
        BY <3>1 DEF CountOf
      <3> QED
        BY <1>12, <2>2, <3>2
    <2> QED
      BY <2>1, <2>2
  <1>15. IsActive(t, J.stats, J.counts) <=> Active(t, d)
    <2>1. (\E x \in J.stats : x.tenant = t) <=>
             \E s \in TELEMETRY_SIGNALS : usage[d][t][s] > 0
      BY <1>6, <1>7
    <2>2. (\E x \in J.counts : x.tenant = t) <=> queries[d][t] > 0
      BY <1>13
    <2> QED
      BY <2>1, <2>2, Zenon DEF IsActive, Active
  <1>16. ActivityCharge(t, d) \in W
    <2>1. ActivityRecord(t, J.stats, J.counts, d) = ActivityCharge(t, d)
      BY <1>15 DEF ActivityRecord, ActivityCharge
    <2> QED
      BY <1>11, <2>1
  <1>17. QueryCharge(t, d) \in W
    BY <1>11, <1>14 DEF QueryRecord, QueryCharge
  <1> QED
    BY <1>2, <1>3, <1>9, <1>10, <1>16, <1>17 DEF Charged

\* What the surfaces of a day call for changes only with them.
LEMMA SameCharge ==
  ASSUME NEW d, usage'[d] = usage[d], retention' = retention, queries' = queries,
         NEW D, NEW E, D \subseteq E, NEW t, Charged(D, t, d)
  PROVE  Charged(E, t, d)'
  BY DEF Charged, IngestCharge, RetentionCharge, ActivityCharge, QueryCharge, Active

\* The records stay until a surface changes or a request fails.
LEMMA NextCurrent ==
  ReadersInv /\ TruthInv /\ CurrentInv /\ [Next]_vars => CurrentInv'
  <1> SUFFICES ASSUME ReadersInv, TruthInv, CurrentInv, [Next]_vars PROVE CurrentInv'
    OBVIOUS
  <1>1. ASSUME NEW d \in Days, current'[d] => current[d], usage'[d] = usage[d],
               retention' = retention, queries' = queries, docs'[d] = docs[d],
               NEW t \in Tenants, Unambiguous(t), Unclaimed(t), current'[d]
        PROVE  Charged(docs[d], t, d)'
    <2>1. PICK D : D = docs'[d]
      OBVIOUS
    <2>2. Charged(D, t, d)
      BY <1>1, <2>1 DEF CurrentInv
    <2>3. Charged(D, t, d)'
      BY <1>1, <2>2, SameCharge
    <2> QED
      BY <2>1, <2>3
  <1>2. ASSUME NEW j \in Jobs, Write(j) \/ WriteFails(j) PROVE CurrentInv'
    <2>1. PICK J : J = job[j]
      OBVIOUS
    <2>2. J.pc = "write" /\ J.day \in Days /\ UNCHANGED sourceVars
      BY <1>2, <2>1 DEF Write, WriteFails, ReadersInv, JobInv, JobFits
    <2>3. PICK W :
            /\ Upsert(J.day, W)
            /\ \A d \in Days : d # J.day => current'[d] = current[d]
            /\ current'[J.day] =>
                  \/ W = Indexed(j, J.stats) /\ ~J.torn
                  \/ current[J.day] /\ W = {}
      <3>1. CASE Write(j)
        BY <2>1, <2>2, <3>1 DEF Write, TruthInv
      <3>2. CASE WriteFails(j)
        BY <2>1, <2>2, <3>2 DEF WriteFails, TruthInv
      <3> QED
        BY <1>2, <3>1, <3>2
    <2>4. /\ docs'[J.day] = Kept(docs[J.day], W) \cup W
          /\ \A d \in Days : d # J.day => docs'[d] = docs[d]
      BY <2>2, <2>3 DEF Upsert, Kept, ReadersInv, SurfaceInv
    <2>5. ASSUME NEW d \in Days, current'[d], NEW t \in Tenants,
                 Unambiguous(t), Unclaimed(t)
          PROVE  Charged(docs[d], t, d)'
      <3>1. CASE d = J.day /\ W = Indexed(j, J.stats) /\ ~J.torn
        <4>1. Charged(W, t, d)
          BY <2>1, <2>2, <2>5, <3>1, TruthfulWrite
        <4>2. PICK D : D = docs'[d]
          OBVIOUS
        <4>3. W \subseteq D
          BY <2>4, <3>1, <4>2
        <4>4. Charged(D, t, d)'
          BY <2>2, <4>1, <4>3, SameCharge DEF sourceVars
        <4> QED
          BY <4>2, <4>4
      <3>2. CASE d = J.day /\ current[J.day] /\ W = {}
        <4>1. docs'[d] = docs[d]
          BY <2>4, <3>2 DEF Kept
        <4> QED
          BY <1>1, <2>2, <2>5, <3>2, <4>1 DEF sourceVars
      <3>3. CASE d # J.day
        BY <1>1, <2>2, <2>3, <2>4, <2>5, <3>3 DEF sourceVars
      <3> QED
        BY <2>3, <2>5, <3>1, <3>2, <3>3
    <2> QED
      BY <2>5 DEF CurrentInv
  <1>3. ASSUME NEW d \in Days, NEW t \in Tenants, NEW s \in TELEMETRY_SIGNALS,
               VolumeChanges(d, t, s)
        PROVE  CurrentInv'
    <2>1. /\ Disturb({d}) /\ UNCHANGED <<retention, queries, docs>>
          /\ \A e : e \notin {d} => usage'[e] = usage[e]
      BY <1>3, VolumeChangeOf
    <2>2. \A e \in Days : current'[e] => current[e] /\ e # d
      BY <2>1 DEF Disturb
    <2> QED
      BY <1>1, <2>1, <2>2 DEF CurrentInv
  <1>4. ASSUME NEW t \in Tenants, RetentionChanges(t) PROVE CurrentInv'
    <2>1. \A e \in Days : ~current'[e]
      BY <1>4 DEF RetentionChanges, Disturb
    <2> QED
      BY <2>1 DEF CurrentInv
  <1>5. CASE UNCHANGED <<sourceVars, docs, current>>
    BY <1>1, <1>5 DEF CurrentInv, sourceVars
  <1> QED
    BY <1>2, <1>3, <1>4, <1>5, Zenon
       DEF Next, Start, ReadIngest, ReadRetention, ReadQueries, ReadFails, Reject,
           vars, sourceVars

-----------------------------------------------------------------------------
(* Sums, as the library defines them: a function on the subsets that takes *)
(* its elements one at a time.                                             *)

\* A collection of subsets that has the empty one, and with each of its sets
\* those with one element more, has them all.
LEMMA Accumulate ==
    ASSUME NEW S, IsFiniteSet(S), NEW Good, {} \in Good,
           \A T \in SUBSET S : \A x \in S \ T : T \in Good => T \cup {x} \in Good
    PROVE  S \in Good
  <1> DEFINE bad == {Cardinality(T) : T \in {U \in SUBSET S : U \notin Good}}
  <1>1. \A T \in SUBSET S : IsFiniteSet(T) /\ Cardinality(T) \in Nat
    BY FS_Subset, FS_CardinalityType
  <1> SUFFICES ASSUME S \notin Good PROVE FALSE
    OBVIOUS
  <1>2. bad \in SUBSET Nat /\ bad # {}
    BY <1>1
  <1>3. PICK n \in bad : \A m \in bad : n <= m
    BY <1>2, Least
  <1>4. PICK T \in SUBSET S : T \notin Good /\ Cardinality(T) = n
    OBVIOUS
  <1>5. PICK x : x \in T
    BY <1>4
  <1>6. T \ {x} \in SUBSET S /\ Cardinality(T \ {x}) = n - 1 /\ n \in Nat
    BY <1>1, <1>4, <1>5, FS_RemoveElement
  <1>7. T \ {x} \in Good
    BY <1>3, <1>6
  <1>8. (T \ {x}) \cup {x} = T
    BY <1>5
  <1> QED
    BY <1>4, <1>5, <1>6, <1>7, <1>8

Some(T) == CHOOSE x \in T : TRUE

Summing(g, f, S) ==
    g = [T \in SUBSET S |-> IF T = {} THEN 0 ELSE f[Some(T)] + g[T \ {Some(T)}]]

\* The library's sum is the value of such a function.
LEMMA SumIsChosen ==
  ASSUME NEW f, NEW S
  PROVE  SumFunctionOnSet(f, S) = (CHOOSE g : Summing(g, f, S))[S]
  BY DEF SumFunctionOnSet, FoldFunctionOnSet, MapThenFoldSet, Summing, Some

\* The same for the subsets of at most n elements.
Layer(S, n) == {T \in SUBSET S : Cardinality(T) <= n}

SummingTo(g, f, S, n) ==
    g = [T \in Layer(S, n) |-> IF T = {} THEN 0 ELSE f[Some(T)] + g[T \ {Some(T)}]]

\* One layer defines the next ...
LEMMA NextLayer ==
  ASSUME NEW f, NEW S, IsFiniteSet(S), NEW n \in Nat, NEW g, SummingTo(g, f, S, n)
  PROVE  \E h : SummingTo(h, f, S, n + 1)
  <1> DEFINE h == [T \in Layer(S, n + 1) |->
                      IF T = {} THEN 0 ELSE f[Some(T)] + g[T \ {Some(T)}]]
  <1>1. \A T \in SUBSET S : IsFiniteSet(T) /\ Cardinality(T) \in Nat
    BY FS_Subset, FS_CardinalityType
  <1>2. \A T \in Layer(S, n) : h[T] = g[T]
    <2> SUFFICES ASSUME NEW T \in Layer(S, n) PROVE h[T] = g[T]
      OBVIOUS
    <2>1. T \in Layer(S, n + 1)
      BY <1>1 DEF Layer
    <2>2. g[T] = IF T = {} THEN 0 ELSE f[Some(T)] + g[T \ {Some(T)}]
      BY DEF SummingTo
    <2> QED
      BY <2>1, <2>2
  <1>3. ASSUME NEW T \in Layer(S, n + 1), T # {}
        PROVE  h[T \ {Some(T)}] = g[T \ {Some(T)}]
    <2>1. Some(T) \in T
      BY <1>3 DEF Some
    <2>2. Cardinality(T \ {Some(T)}) = Cardinality(T) - 1 /\ T \in SUBSET S
      BY <1>1, <2>1, FS_RemoveElement DEF Layer
    <2>3. T \ {Some(T)} \in Layer(S, n)
      BY <1>1, <2>2 DEF Layer
    <2> QED
      BY <1>2, <2>3
  <1>4. h = [T \in Layer(S, n + 1) |->
                IF T = {} THEN 0 ELSE f[Some(T)] + h[T \ {Some(T)}]]
    <2>1. \A T \in Layer(S, n + 1) :
             (IF T = {} THEN 0 ELSE f[Some(T)] + g[T \ {Some(T)}])
             = (IF T = {} THEN 0 ELSE f[Some(T)] + h[T \ {Some(T)}])
      BY <1>3
    <2> QED
      BY <2>1
  <1> QED
    BY <1>4 DEF SummingTo

\* ... so there is one on all the subsets of a finite set ...
LEMMA SummingExists ==
  ASSUME NEW f, NEW S, IsFiniteSet(S)
  PROVE  \E g : Summing(g, f, S)
  <1> DEFINE bad == {n \in Nat : ~ \E g : SummingTo(g, f, S, n)}
  <1>1. \A T \in SUBSET S : /\ IsFiniteSet(T) /\ Cardinality(T) \in Nat
                            /\ Cardinality(T) <= Cardinality(S)
    BY FS_Subset, FS_CardinalityType
  <1>2. bad = {}
    <2> SUFFICES ASSUME bad # {} PROVE FALSE
      OBVIOUS
    <2>1. PICK n \in bad : \A m \in bad : n <= m
      BY Least
    <2>2. CASE n = 0
      <3> DEFINE g == [T \in Layer(S, 0) |-> 0]
      <3>1. \A T \in Layer(S, 0) : T = {}
        BY <1>1, FS_EmptySet DEF Layer
      <3>2. SummingTo(g, f, S, 0)
        BY <3>1 DEF SummingTo
      <3> QED
        BY <2>2, <3>2
    <2>3. CASE n # 0
      <3>1. n - 1 \in Nat /\ n - 1 \notin bad /\ (n - 1) + 1 = n
        BY <2>1, <2>3
      <3>2. PICK g : SummingTo(g, f, S, n - 1)
        BY <3>1
      <3>3. \E h : SummingTo(h, f, S, (n - 1) + 1)
        BY <3>1, <3>2, NextLayer
      <3> QED
        BY <3>1, <3>3
    <2> QED
      BY <2>2, <2>3
  <1>3. Layer(S, Cardinality(S)) = SUBSET S
    BY <1>1 DEF Layer
  <1>4. Cardinality(S) \in Nat
    BY <1>1
  <1>5. PICK g : SummingTo(g, f, S, Cardinality(S))
    BY <1>2, <1>4
  <1> QED
    BY <1>3, <1>5 DEF SummingTo, Summing

\* ... and any two of them agree.
LEMMA SummingAgree ==
  ASSUME NEW f, NEW S, IsFiniteSet(S), NEW R, NEW g, NEW h,
         Summing(g, f, S), Summing(h, f, R)
  PROVE  \A T \in SUBSET S : T \in SUBSET R => g[T] = h[T]
  <1> DEFINE differ == {T \in SUBSET S : T \in SUBSET R /\ g[T] # h[T]}
             bad == {Cardinality(T) : T \in differ}
  <1>1. \A T \in SUBSET S : IsFiniteSet(T) /\ Cardinality(T) \in Nat
    BY FS_Subset, FS_CardinalityType
  <1> SUFFICES ASSUME differ # {} PROVE FALSE
    OBVIOUS
  <1>2. bad \in SUBSET Nat /\ bad # {}
    BY <1>1
  <1>3. PICK n \in bad : \A m \in bad : n <= m
    BY <1>2, Least
  <1>4. PICK T \in differ : Cardinality(T) = n
    OBVIOUS
  <1>5. g[T] = (IF T = {} THEN 0 ELSE f[Some(T)] + g[T \ {Some(T)}])
    BY <1>4 DEF Summing
  <1>6. h[T] = (IF T = {} THEN 0 ELSE f[Some(T)] + h[T \ {Some(T)}])
    BY <1>4 DEF Summing
  <1>7. T # {} /\ Some(T) \in T
    BY <1>4, <1>5, <1>6 DEF Some
  <1>8. /\ T \ {Some(T)} \in SUBSET S /\ T \ {Some(T)} \in SUBSET R
        /\ Cardinality(T \ {Some(T)}) = n - 1 /\ n \in Nat
    BY <1>1, <1>4, <1>7, FS_RemoveElement
  <1>9. g[T \ {Some(T)}] = h[T \ {Some(T)}]
    <2> SUFFICES ASSUME g[T \ {Some(T)}] # h[T \ {Some(T)}] PROVE FALSE
      OBVIOUS
    <2>1. n - 1 \in bad
      BY <1>8
    <2> HIDE DEF bad
    <2> QED
      BY <2>1, <1>3, <1>8
  <1> QED
    BY <1>4, <1>5, <1>6, <1>7, <1>9

\* A sum takes one element, and the sum of the rest.
LEMMA SumStep ==
  ASSUME NEW f, NEW S, IsFiniteSet(S)
  PROVE  SumFunctionOnSet(f, S) =
            IF S = {} THEN 0
            ELSE f[Some(S)] + SumFunctionOnSet(f, S \ {Some(S)})
  <1> DEFINE R == S \ {Some(S)}
  <1>1. IsFiniteSet(R)
    BY FS_Subset
  <1>2. PICK g : Summing(g, f, S) /\ SumFunctionOnSet(f, S) = g[S]
    BY SumIsChosen, SummingExists
  <1>3. PICK h : Summing(h, f, R) /\ SumFunctionOnSet(f, R) = h[R]
    BY <1>1, SumIsChosen, SummingExists
  <1>4. R \in SUBSET S /\ R \in SUBSET R
    OBVIOUS
  <1> HIDE DEF R
  <1>5. g[R] = h[R]
    BY <1>2, <1>3, <1>4, SummingAgree
  <1>6. g[S] = IF S = {} THEN 0 ELSE f[Some(S)] + g[R]
    BY <1>2 DEF Summing, R
  <1> QED
    BY <1>2, <1>3, <1>5, <1>6 DEF R

LEMMA SumEmpty == ASSUME NEW f PROVE SumFunctionOnSet(f, {}) = 0
  BY SumStep, FS_EmptySet

\* Sums of numbers are numbers.
LEMMA SumIsNat ==
  ASSUME NEW S, IsFiniteSet(S), NEW f, \A x \in S : f[x] \in Nat
  PROVE  SumFunctionOnSet(f, S) \in Nat
  <1> DEFINE differ == {T \in SUBSET S : SumFunctionOnSet(f, T) \notin Nat}
             bad == {Cardinality(T) : T \in differ}
  <1>1. \A T \in SUBSET S : IsFiniteSet(T) /\ Cardinality(T) \in Nat
    BY FS_Subset, FS_CardinalityType
  <1> SUFFICES ASSUME differ # {} PROVE FALSE
    OBVIOUS
  <1>2. bad \in SUBSET Nat /\ bad # {}
    BY <1>1
  <1>3. PICK n \in bad : \A m \in bad : n <= m
    BY <1>2, Least
  <1>4. PICK T \in differ : Cardinality(T) = n
    OBVIOUS
  <1>5. SumFunctionOnSet(f, T) =
           IF T = {} THEN 0 ELSE f[Some(T)] + SumFunctionOnSet(f, T \ {Some(T)})
    BY <1>1, SumStep
  <1>6. T # {} /\ Some(T) \in T
    BY <1>4, <1>5 DEF Some
  <1>7. T \ {Some(T)} \in SUBSET S /\ Cardinality(T \ {Some(T)}) = n - 1 /\ n \in Nat
    BY <1>1, <1>4, <1>6, FS_RemoveElement
  <1>8. SumFunctionOnSet(f, T \ {Some(T)}) \in Nat
    <2> SUFFICES ASSUME SumFunctionOnSet(f, T \ {Some(T)}) \notin Nat PROVE FALSE
      OBVIOUS
    <2>1. n - 1 \in bad
      BY <1>7
    <2> HIDE DEF bad
    <2> QED
      BY <2>1, <1>3, <1>7
  <1> QED
    BY <1>4, <1>5, <1>6, <1>8

\* ... whichever element that is.
LEMMA SumTake ==
  ASSUME NEW S, IsFiniteSet(S), NEW f, \A x \in S : f[x] \in Nat
  PROVE  \A T \in SUBSET S : \A x \in T :
            SumFunctionOnSet(f, T) = f[x] + SumFunctionOnSet(f, T \ {x})
  <1> DEFINE takes(T) == \A x \in T :
                SumFunctionOnSet(f, T) = f[x] + SumFunctionOnSet(f, T \ {x})
             differ == {T \in SUBSET S : ~takes(T)}
             bad == {Cardinality(T) : T \in differ}
  <1>1. \A T \in SUBSET S : /\ IsFiniteSet(T) /\ Cardinality(T) \in Nat
                            /\ SumFunctionOnSet(f, T) \in Nat
    BY FS_Subset, FS_CardinalityType, SumIsNat
  <1> SUFFICES ASSUME differ # {} PROVE FALSE
    OBVIOUS
  <1>2. bad \in SUBSET Nat /\ bad # {}
    BY <1>1
  <1>3. PICK n \in bad : \A m \in bad : n <= m
    BY <1>2, Least
  <1>4. PICK T \in differ : Cardinality(T) = n
    OBVIOUS
  <1>5. PICK x \in T : SumFunctionOnSet(f, T) # f[x] + SumFunctionOnSet(f, T \ {x})
    BY <1>4
  <1>6. PICK y : y = Some(T)
    OBVIOUS
  <1>7. /\ y \in T /\ SumFunctionOnSet(f, T) = f[y] + SumFunctionOnSet(f, T \ {y})
    <2>1. IsFiniteSet(T) /\ T # {}
      BY <1>1, <1>4, <1>5
    <2>2. y \in T
      BY <1>6, <2>1 DEF Some
    <2>3. SumFunctionOnSet(f, T) = IF T = {} THEN 0
                                   ELSE f[Some(T)] + SumFunctionOnSet(f, T \ {Some(T)})
      BY <2>1, SumStep, Zenon
    <2>4. SumFunctionOnSet(f, T) = f[Some(T)] + SumFunctionOnSet(f, T \ {Some(T)})
      BY <2>1, <2>3, Zenon
    <2> QED
      BY <1>6, <2>2, <2>4, Zenon
  <1>8. x # y
    BY <1>5, <1>7
  <1>9. ASSUME NEW z \in T PROVE takes(T \ {z})
    <2>1. T \ {z} \in SUBSET S /\ Cardinality(T \ {z}) = n - 1 /\ n \in Nat
      BY <1>1, <1>4, FS_RemoveElement
    <2> SUFFICES ASSUME ~takes(T \ {z}) PROVE FALSE
      OBVIOUS
    <2>2. n - 1 \in bad
      BY <2>1
    <2> HIDE DEF bad
    <2> QED
      BY <2>1, <2>2, <1>3
  <1> DEFINE rest == (T \ {x}) \ {y}
  <1>10. rest = (T \ {y}) \ {x} /\ rest \in SUBSET S
         /\ T \ {x} \in SUBSET S /\ T \ {y} \in SUBSET S
    BY <1>4
  <1>11. SumFunctionOnSet(f, T \ {y}) = f[x] + SumFunctionOnSet(f, rest)
    <2>1. takes(T \ {y}) /\ x \in T \ {y}
      BY <1>5, <1>7, <1>8, <1>9
    <2>2. SumFunctionOnSet(f, T \ {y}) = f[x] + SumFunctionOnSet(f, (T \ {y}) \ {x})
      BY <2>1
    <2> HIDE DEF rest
    <2> QED
      BY <2>2, <1>10, Zenon
  <1>12. SumFunctionOnSet(f, T \ {x}) = f[y] + SumFunctionOnSet(f, rest)
    <2>1. takes(T \ {x}) /\ y \in T \ {x}
      BY <1>5, <1>7, <1>8, <1>9
    <2> HIDE DEF rest
    <2> QED
      BY <2>1 DEF rest
  <1>13. /\ f[x] \in Nat /\ f[y] \in Nat /\ SumFunctionOnSet(f, rest) \in Nat
    BY <1>1, <1>4, <1>5, <1>7, <1>10
  <1> HIDE DEF rest
  <1> QED
    BY <1>5, <1>7, <1>11, <1>12, <1>13

\* One element more.
LEMMA SumAdd ==
  ASSUME NEW S, IsFiniteSet(S), NEW f, \A y \in S : f[y] \in Nat, NEW x, x \notin S,
         f[x] \in Nat
  PROVE  SumFunctionOnSet(f, S \cup {x}) = f[x] + SumFunctionOnSet(f, S)
  <1>1. IsFiniteSet(S \cup {x}) /\ \A y \in S \cup {x} : f[y] \in Nat
    BY FS_AddElement
  <1>2. (S \cup {x}) \ {x} = S
    OBVIOUS
  <1> QED
    BY <1>1, <1>2, SumTake

\* Sums of functions that agree.
LEMMA SumSame ==
  ASSUME NEW S, IsFiniteSet(S), NEW f, NEW g, \A x \in S : f[x] \in Nat /\ g[x] = f[x]
  PROVE  SumFunctionOnSet(f, S) = SumFunctionOnSet(g, S)
  <1> DEFINE Good == {T \in SUBSET S : SumFunctionOnSet(f, T) = SumFunctionOnSet(g, T)}
  <1>1. {} \in Good
    BY SumEmpty
  <1>2. ASSUME NEW T \in SUBSET S, NEW x \in S \ T, T \in Good
        PROVE  T \cup {x} \in Good
    <2>1. IsFiniteSet(T)
      BY FS_Subset
    <2>2. /\ SumFunctionOnSet(f, T \cup {x}) = f[x] + SumFunctionOnSet(f, T)
          /\ SumFunctionOnSet(g, T \cup {x}) = g[x] + SumFunctionOnSet(g, T)
      BY <2>1, SumAdd
    <2> QED
      BY <1>2, <2>2
  <1> HIDE DEF Good
  <1>3. S \in Good
    BY <1>1, <1>2, Accumulate
  <1> QED
    BY <1>3 DEF Good

\* Sums are added and scaled element by element.
LEMMA SumPlus ==
  ASSUME NEW S, IsFiniteSet(S), NEW f, NEW g, NEW h,
         \A x \in S : f[x] \in Nat /\ g[x] \in Nat /\ h[x] = f[x] + g[x]
  PROVE  SumFunctionOnSet(h, S) = SumFunctionOnSet(f, S) + SumFunctionOnSet(g, S)
  <1> DEFINE Good == {T \in SUBSET S : SumFunctionOnSet(h, T) =
                         SumFunctionOnSet(f, T) + SumFunctionOnSet(g, T)}
  <1>1. {} \in Good
    BY SumEmpty
  <1>2. ASSUME NEW T \in SUBSET S, NEW x \in S \ T, T \in Good
        PROVE  T \cup {x} \in Good
    <2>1. IsFiniteSet(T) /\ \A y \in S : h[y] \in Nat
      BY FS_Subset
    <2>2. /\ SumFunctionOnSet(f, T \cup {x}) = f[x] + SumFunctionOnSet(f, T)
          /\ SumFunctionOnSet(g, T \cup {x}) = g[x] + SumFunctionOnSet(g, T)
          /\ SumFunctionOnSet(h, T \cup {x}) = h[x] + SumFunctionOnSet(h, T)
      BY <2>1, SumAdd
    <2>3. /\ SumFunctionOnSet(f, T) \in Nat /\ SumFunctionOnSet(g, T) \in Nat
      BY <2>1, SumIsNat
    <2> QED
      BY <1>2, <2>2, <2>3
  <1> HIDE DEF Good
  <1>3. S \in Good
    BY <1>1, <1>2, Accumulate
  <1> QED
    BY <1>3 DEF Good

LEMMA Distributes ==
  ASSUME NEW k \in Nat, NEW a \in Nat, NEW b \in Nat
  PROVE  k * (a + b) = k * a + k * b /\ k * a \in Nat
  OBVIOUS

LEMMA SumScale ==
  ASSUME NEW S, IsFiniteSet(S), NEW k \in Nat, NEW f, NEW h,
         \A x \in S : f[x] \in Nat /\ h[x] = k * f[x]
  PROVE  SumFunctionOnSet(h, S) = k * SumFunctionOnSet(f, S)
  <1> DEFINE Good == {T \in SUBSET S : SumFunctionOnSet(h, T) =
                         k * SumFunctionOnSet(f, T)}
  <1>1. {} \in Good
    BY SumEmpty
  <1>2. ASSUME NEW T \in SUBSET S, NEW x \in S \ T, T \in Good
        PROVE  T \cup {x} \in Good
    <2>1. IsFiniteSet(T) /\ \A y \in S : h[y] \in Nat
      BY FS_Subset, Distributes
    <2>2. /\ SumFunctionOnSet(f, T \cup {x}) = f[x] + SumFunctionOnSet(f, T)
          /\ SumFunctionOnSet(h, T \cup {x}) = h[x] + SumFunctionOnSet(h, T)
      BY <2>1, SumAdd
    <2>3. SumFunctionOnSet(f, T) \in Nat
      BY <2>1, SumIsNat
    <2>4. k * (f[x] + SumFunctionOnSet(f, T)) = k * f[x] + k * SumFunctionOnSet(f, T)
      BY <2>3, Distributes
    <2> QED
      BY <1>2, <2>2, <2>4
  <1> HIDE DEF Good
  <1>3. S \in Good
    BY <1>1, <1>2, Accumulate
  <1> QED
    BY <1>3 DEF Good

\* Elements that count nothing can be left out.
LEMMA SumZeros ==
  ASSUME NEW S, IsFiniteSet(S), NEW R \in SUBSET S, NEW f,
         \A x \in S : f[x] \in Nat, \A x \in S \ R : f[x] = 0
  PROVE  SumFunctionOnSet(f, S) = SumFunctionOnSet(f, R)
  <1> DEFINE Good == {T \in SUBSET (S \ R) : SumFunctionOnSet(f, R \cup T) =
                         SumFunctionOnSet(f, R)}
  <1>1. {} \in Good
    <2>1. R \cup {} = R
      OBVIOUS
    <2> QED
      BY <2>1
  <1>2. ASSUME NEW T \in SUBSET (S \ R), NEW x \in (S \ R) \ T, T \in Good
        PROVE  T \cup {x} \in Good
    <2>1. R \cup T \in SUBSET S /\ x \in S /\ x \notin R \cup T
      OBVIOUS
    <2>2. IsFiniteSet(R \cup T)
      BY <2>1, FS_Subset
    <2>3. SumFunctionOnSet(f, (R \cup T) \cup {x}) = f[x] + SumFunctionOnSet(f, R \cup T)
      BY <2>1, <2>2, SumAdd
    <2>4. SumFunctionOnSet(f, R \cup T) \in Nat
      BY <2>1, <2>2, SumIsNat
    <2>5. (R \cup T) \cup {x} = R \cup (T \cup {x})
      OBVIOUS
    <2>6. SumFunctionOnSet(f, R \cup T) = SumFunctionOnSet(f, R)
      BY <1>2
    <2>7. f[x] = 0
      OBVIOUS
    <2>8. SumFunctionOnSet(f, R \cup (T \cup {x})) = SumFunctionOnSet(f, R)
      <3>1. SumFunctionOnSet(f, R \cup (T \cup {x})) = f[x] + SumFunctionOnSet(f, R \cup T)
        BY <2>3, <2>5, Zenon
      <3> HIDE DEF Good
      <3> QED
        BY <3>1, <2>4, <2>6, <2>7
    <2> QED
      BY <2>8
  <1> HIDE DEF Good
  <1>3. IsFiniteSet(S \ R)
    BY FS_Subset
  <1>4. S \ R \in Good
    BY <1>1, <1>2, <1>3, Accumulate
  <1>5. R \cup (S \ R) = S
    OBVIOUS
  <1> QED
    BY <1>4, <1>5 DEF Good

\* The sum over the image under a one-to-one function.
LEMMA SumImage ==
  ASSUME NEW S, IsFiniteSet(S), NEW h, NEW f, NEW g,
         \A x, y \in S : h[x] = h[y] => x = y,
         \A x \in S : f[x] \in Nat /\ g[h[x]] = f[x]
  PROVE  /\ IsFiniteSet({h[x] : x \in S})
         /\ SumFunctionOnSet(g, {h[x] : x \in S}) = SumFunctionOnSet(f, S)
  <1> DEFINE image(T) == {h[x] : x \in T}
             Good == {T \in SUBSET S : /\ IsFiniteSet(image(T))
                                       /\ SumFunctionOnSet(g, image(T)) = SumFunctionOnSet(f, T)}
  <1>1. {} \in Good
    <2>1. image({}) = {}
      OBVIOUS
    <2> QED
      BY <2>1, SumEmpty, FS_EmptySet
  <1>2. ASSUME NEW T \in SUBSET S, NEW x \in S \ T, T \in Good
        PROVE  T \cup {x} \in Good
    <2>1. /\ image(T \cup {x}) = image(T) \cup {h[x]} /\ h[x] \notin image(T)
          /\ \A y \in image(T) : g[y] \in Nat
      OBVIOUS
    <2>2. IsFiniteSet(T) /\ IsFiniteSet(image(T))
      BY <1>2, FS_Subset
    <2> HIDE DEF image
    <2>3. /\ IsFiniteSet(image(T) \cup {h[x]})
          /\ SumFunctionOnSet(g, image(T) \cup {h[x]}) = g[h[x]] + SumFunctionOnSet(g, image(T))
      BY <2>1, <2>2, SumAdd, FS_AddElement
    <2>4. SumFunctionOnSet(f, T \cup {x}) = f[x] + SumFunctionOnSet(f, T)
      BY <2>2, SumAdd
    <2> QED
      BY <1>2, <2>1, <2>3, <2>4
  <1>3. S \in Good
    <2> HIDE DEF Good
    <2> QED
      BY <1>1, <1>2, Accumulate
  <1> QED
    BY <1>3

\* The order of two sums does not matter.
LEMMA SumExchange ==
  ASSUME NEW S, IsFiniteSet(S), NEW R, IsFiniteSet(R), NEW F,
         \A x \in S : \A y \in R : F[x][y] \in Nat
  PROVE  SumFunctionOnSet([x \in S |-> SumFunctionOnSet([y \in R |-> F[x][y]], R)], S)
         = SumFunctionOnSet([y \in R |-> SumFunctionOnSet([x \in S |-> F[x][y]], S)], R)
  <1> DEFINE row == [x \in S |-> SumFunctionOnSet([y \in R |-> F[x][y]], R)]
             column(T) == [y \in R |-> SumFunctionOnSet([x \in S |-> F[x][y]], T)]
             Good == {T \in SUBSET S : SumFunctionOnSet(row, T) =
                                       SumFunctionOnSet(column(T), R)}
  <1>1. \A x \in S : row[x] \in Nat
    BY SumIsNat
  <1>2. {} \in Good
    <2>1. \A y \in R : column({})[y] = 0
      BY SumEmpty
    <2>2. SumFunctionOnSet(column({}), R) = SumFunctionOnSet(column({}), {})
      <3> HIDE DEF column
      <3> QED
        BY <2>1, SumZeros
    <2> QED
      BY <2>2, SumEmpty
  <1>3. ASSUME NEW T \in SUBSET S, NEW x \in S \ T, T \in Good
        PROVE  T \cup {x} \in Good
    <2>1. IsFiniteSet(T)
      BY FS_Subset
    <2>2. SumFunctionOnSet(row, T \cup {x}) = row[x] + SumFunctionOnSet(row, T)
      <3> HIDE DEF row
      <3> QED
        BY <1>1, <2>1, SumAdd
    <2> DEFINE line == [y \in R |-> F[x][y]]
    <2>3. ASSUME NEW y \in R
          PROVE  /\ line[y] \in Nat /\ column(T)[y] \in Nat
                 /\ column(T \cup {x})[y] = line[y] + column(T)[y]
      <3> DEFINE c == [z \in S |-> F[z][y]]
      <3>1. \A z \in S : c[z] \in Nat
        OBVIOUS
      <3>2. c[x] = line[y] /\ column(T)[y] = SumFunctionOnSet(c, T)
            /\ column(T \cup {x})[y] = SumFunctionOnSet(c, T \cup {x})
        OBVIOUS
      <3> HIDE DEF c, line, column
      <3>3. SumFunctionOnSet(c, T \cup {x}) = c[x] + SumFunctionOnSet(c, T)
            /\ SumFunctionOnSet(c, T) \in Nat
        BY <3>1, <2>1, SumAdd, SumIsNat
      <3> QED
        BY <3>1, <3>2, <3>3
    <2>4. row[x] = SumFunctionOnSet(line, R)
      OBVIOUS
    <2>5. SumFunctionOnSet(column(T \cup {x}), R) =
             SumFunctionOnSet(line, R) + SumFunctionOnSet(column(T), R)
      <3> HIDE DEF line, column
      <3> QED
        BY <2>3, SumPlus
    <2> QED
      BY <1>3, <2>2, <2>4, <2>5
  <1>4. S \in Good
    <2> HIDE DEF Good
    <2> QED
      BY <1>2, <1>3, Accumulate
  <1> QED
    BY <1>4

\* Sums over two sets that have nothing in common.
LEMMA SumUnion ==
  ASSUME NEW A, IsFiniteSet(A), NEW B, IsFiniteSet(B), A \cap B = {}, NEW f,
         \A x \in A \cup B : f[x] \in Nat
  PROVE  SumFunctionOnSet(f, A \cup B) = SumFunctionOnSet(f, A) + SumFunctionOnSet(f, B)
  <1> DEFINE Good == {T \in SUBSET B : SumFunctionOnSet(f, A \cup T) =
                         SumFunctionOnSet(f, A) + SumFunctionOnSet(f, T)}
  <1>1. SumFunctionOnSet(f, A) \in Nat
    BY SumIsNat
  <1>2. {} \in Good
    <2>1. A \cup {} = A
      OBVIOUS
    <2>2. SumFunctionOnSet(f, A \cup {}) = SumFunctionOnSet(f, A)
      BY <2>1, Zenon
    <2> QED
      BY <1>1, <2>2, SumEmpty
  <1>3. ASSUME NEW T \in SUBSET B, NEW x \in B \ T, T \in Good
        PROVE  T \cup {x} \in Good
    <2>1. IsFiniteSet(T) /\ IsFiniteSet(A \cup T) /\ x \notin A \cup T
      BY FS_Subset, FS_Union
    <2>2. /\ SumFunctionOnSet(f, (A \cup T) \cup {x}) = f[x] + SumFunctionOnSet(f, A \cup T)
          /\ SumFunctionOnSet(f, T \cup {x}) = f[x] + SumFunctionOnSet(f, T)
          /\ SumFunctionOnSet(f, T) \in Nat
      BY <2>1, SumAdd, SumIsNat
    <2>3. (A \cup T) \cup {x} = A \cup (T \cup {x})
      OBVIOUS
    <2>4. SumFunctionOnSet(f, A \cup (T \cup {x})) = f[x] + SumFunctionOnSet(f, A \cup T)
      BY <2>2, <2>3, Zenon
    <2>5. SumFunctionOnSet(f, A \cup T) = SumFunctionOnSet(f, A) + SumFunctionOnSet(f, T)
      BY <1>3
    <2>6. SumFunctionOnSet(f, A \cup (T \cup {x})) =
             SumFunctionOnSet(f, A) + SumFunctionOnSet(f, T \cup {x})
      <3> HIDE DEF Good
      <3> QED
        BY <1>1, <2>2, <2>4, <2>5
    <2> QED
      BY <2>6
  <1>4. B \in Good
    <2> HIDE DEF Good
    <2> QED
      BY <1>2, <1>3, Accumulate
  <1> QED
    BY <1>4

\* The sum over the records, or line items, that some of the x in S have.
LEMMA SumOverImage ==
  ASSUME NEW S, IsFiniteSet(S), NEW R \in SUBSET S, NEW h,
         \A x, y \in R : h[x] = h[y] => x = y,
         NEW f, \A x \in S : f[x] \in Nat, \A x \in S \ R : f[x] = 0,
         NEW g, DOMAIN g = {h[x] : x \in R}, \A x \in R : g[h[x]] = f[x]
  PROVE  SumFunction(g) = SumFunctionOnSet(f, S)
  <1>1. IsFiniteSet(R)
    BY FS_Subset
  <1>2. SumFunctionOnSet(g, {h[x] : x \in R}) = SumFunctionOnSet(f, R)
    BY <1>1, SumImage
  <1>3. SumFunctionOnSet(f, S) = SumFunctionOnSet(f, R)
    BY SumZeros
  <1>4. SumFunction(g) = SumFunctionOnSet(g, {h[x] : x \in R})
    BY Zenon DEF SumFunction
  <1> QED
    BY <1>2, <1>3, <1>4

-----------------------------------------------------------------------------
(* Invoices. *)

\* The documents of a tenant are the records the surfaces call for.
Exact(t) ==
    \A r : r \in DocsOf(t) <=> \E d \in Days :
        \/ \E s \in TELEMETRY_SIGNALS : usage[d][t][s] > 0 /\ r = IngestCharge(t, s, d)
        \/ \E s \in TELEMETRY_SIGNALS : r = RetentionCharge(t, s, d)
        \/ r = ActivityCharge(t, d)
        \/ r = QueryCharge(t, d)

\* The fields of the records.
LEMMA ChargeFields ==
  ASSUME NEW t, NEW s, NEW d
  PROVE  /\ IngestCharge(t, s, d).tenant = t
         /\ IngestCharge(t, s, d).dimension = "ingest_gb_per_day"
         /\ IngestCharge(t, s, d).signal = s /\ IngestCharge(t, s, d).day = d
         /\ IngestCharge(t, s, d).value = usage[d][t][s]
         /\ RetentionCharge(t, s, d).tenant = t
         /\ RetentionCharge(t, s, d).dimension = "retention_days"
         /\ RetentionCharge(t, s, d).signal = s /\ RetentionCharge(t, s, d).day = d
         /\ RetentionCharge(t, s, d).value = retention[t]
  BY DEF IngestCharge, RetentionCharge, Record

LEMMA PlatformFields ==
  ASSUME NEW t, NEW d
  PROVE  /\ ActivityCharge(t, d).tenant = t
         /\ ActivityCharge(t, d).dimension = "active_tenants"
         /\ ActivityCharge(t, d).signal = "platform" /\ ActivityCharge(t, d).day = d
         /\ ActivityCharge(t, d).value = IF Active(t, d) THEN 1 ELSE 0
         /\ QueryCharge(t, d).tenant = t
         /\ QueryCharge(t, d).dimension = "query_volume"
         /\ QueryCharge(t, d).signal = "platform" /\ QueryCharge(t, d).day = d
         /\ QueryCharge(t, d).value = queries[d][t]
  BY DEF ActivityCharge, QueryCharge, Record

\* What the surfaces hold are numbers.
LEMMA Amounts ==
  ASSUME ReadersInv, TruthInv, NEW t \in Tenants, NEW d \in Days
  PROVE  /\ \A s \in TELEMETRY_SIGNALS : usage[d][t][s] \in Nat /\ RetentionMax[s] \in Nat
         /\ retention[t] \in Nat /\ queries[d][t] \in Nat
  <1>1. usage \in [Days -> [Tenants -> [TELEMETRY_SIGNALS -> Volumes]]]
        /\ Volumes \subseteq Nat
    BY MeteringAssumption DEF ReadersInv, SurfaceInv
  <1>2. retention \in [Tenants -> RetentionDays] /\ RetentionDays \subseteq Nat \ {0}
    BY MeteringAssumption DEF TruthInv
  <1>3. queries \in [Days -> [Sources -> Nat]] /\ t \in Sources
    BY DEF ReadersInv, SurfaceInv, Sources
  <1>4. RetentionMax \in [TELEMETRY_SIGNALS -> Nat]
    BY MeteringAssumption
  <1>5. \A s \in TELEMETRY_SIGNALS : usage[d][t][s] \in Nat
    <2>1. usage[d][t] \in [TELEMETRY_SIGNALS -> Volumes]
      BY <1>1
    <2> QED
      BY <1>1, <2>1
  <1>6. retention[t] \in Nat /\ queries[d][t] \in Nat
    BY <1>2, <1>3
  <1> QED
    BY <1>4, <1>5, <1>6

\* A complete window has no other record of the tenant: a second one would
\* have the id of one of these, or be of an index that is gone.
LEMMA DocsExact ==
  ASSUME ReadersInv, TruthInv, DocsInv, NEW t \in Tenants, ~Stale(t),
         \A d \in Days : Charged(docs[d], t, d)
  PROVE  Exact(t)
  <1>1. \A r : r \in DocsOf(t) <=> \E d \in Days : r \in docs[d] /\ r.tenant = t
    BY DEF DocsOf
  <1>2. ASSUME NEW d \in Days, NEW r \in docs[d], r.tenant = t
        PROVE  \/ \E s \in TELEMETRY_SIGNALS :
                     usage[d][t][s] > 0 /\ r = IngestCharge(t, s, d)
               \/ \E s \in TELEMETRY_SIGNALS : r = RetentionCharge(t, s, d)
               \/ r = ActivityCharge(t, d)
               \/ r = QueryCharge(t, d)
    <2>1. validate_record(r) /\ r.day = d /\ Distinct(docs[d]) /\ r \in DocsOf(t)
      BY <1>1, <1>2 DEF DocsInv, ValidWindow
    <2>2. ASSUME NEW q \in docs[d], q.tenant = t, q.dimension = r.dimension,
                 q.signal = r.signal, q.day = d
          PROVE  r = q
      BY <1>2, <2>1, <2>2, IdParts DEF Distinct
    <2>3. CASE r.dimension = "ingest_gb_per_day"
      <3>1. PICK s \in TELEMETRY_SIGNALS : s = r.signal
        BY <2>1, <2>3 DEF validate_record
      <3>2. usage[d][t][s] # 0
        BY <2>1, <2>3, <3>1 DEF Stale
      <3>3. usage[d][t][s] > 0
        BY <3>2, Amounts
      <3>4. IngestCharge(t, s, d) \in docs[d]
        BY <3>3 DEF Charged
      <3> QED
        BY <2>2, <2>3, <3>1, <3>3, <3>4, ChargeFields
    <2>4. CASE r.dimension = "retention_days"
      <3>1. PICK s \in TELEMETRY_SIGNALS : s = r.signal
        BY <2>1, <2>4 DEF validate_record
      <3>2. RetentionCharge(t, s, d) \in docs[d]
        BY DEF Charged
      <3> QED
        BY <2>2, <2>4, <3>1, <3>2, ChargeFields
    <2>5. CASE r.dimension = "active_tenants"
      <3>1. r.signal = "platform" /\ ActivityCharge(t, d) \in docs[d]
        BY <2>1, <2>5 DEF validate_record, Charged
      <3> QED
        BY <2>2, <2>5, <3>1, PlatformFields
    <2>6. CASE r.dimension = "query_volume"
      <3>1. r.signal = "platform" /\ QueryCharge(t, d) \in docs[d]
        BY <2>1, <2>6 DEF validate_record, Charged
      <3> QED
        BY <2>2, <2>6, <3>1, PlatformFields
    <2>7. r.dimension \in DIMENSIONS
      BY <2>1 DEF validate_record
    <2> QED
      BY <2>3, <2>4, <2>5, <2>6, <2>7 DEF DIMENSIONS
  <1>3. ASSUME NEW d \in Days, NEW r,
               \/ \E s \in TELEMETRY_SIGNALS :
                     usage[d][t][s] > 0 /\ r = IngestCharge(t, s, d)
               \/ \E s \in TELEMETRY_SIGNALS : r = RetentionCharge(t, s, d)
               \/ r = ActivityCharge(t, d)
               \/ r = QueryCharge(t, d)
        PROVE  r \in docs[d] /\ r.tenant = t
    BY <1>3, ChargeFields, PlatformFields DEF Charged
  <1> QED
    BY <1>1, <1>2, <1>3 DEF Exact

-----------------------------------------------------------------------------
(* Line items. *)

\* What a tenant exceeds or uses on each day.
IngestOver(t, s) == [d \in Days |-> Excess(usage[d][t][s], IngestMax)]

RetentionOver(t, s) == [d \in Days |-> Excess(retention[t], RetentionMax[s])]

ActiveDays(t) == [d \in Days |-> IF Active(t, d) THEN 1 ELSE 0]

QueryCounts(t) == [d \in Days |-> queries[d][t]]

Group(t, dimension, signal) ==
    {r \in DocsOf(t) : r.dimension = dimension /\ r.signal = signal}

LEMMA ExcessIsNat ==
  ASSUME NEW v \in Nat, NEW b \in Nat
  PROVE  Excess(v, b) \in Nat /\ Excess(0, b) = 0
  BY DEF Excess

LEMMA FiniteDays == IsFiniteSet(Days) /\ Days # {}
  BY MeteringAssumption

\* The overage of each line item: days without an index have no record and
\* count nothing.
LEMMA IngestItem ==
  ASSUME ReadersInv, TruthInv, NEW t \in Tenants, Exact(t), NEW s \in TELEMETRY_SIGNALS
  PROVE  overage_units("ingest_gb_per_day", s, Group(t, "ingest_gb_per_day", s))
         = Rates["ingest_gb_per_day"] * SumFunctionOnSet(IngestOver(t, s), Days)
  <1> DEFINE busy == {d \in Days : usage[d][t][s] > 0}
             h == [d \in Days |-> IngestCharge(t, s, d)]
             G == Group(t, "ingest_gb_per_day", s)
             g == [r \in G |-> Excess(r.value, IngestMax)]
             f == IngestOver(t, s)
  <1>1. G = {h[d] : d \in busy}
    <2>1. \A r : r \in G <=> \E d \in Days :
             usage[d][t][s] > 0 /\ r = IngestCharge(t, s, d)
      BY ChargeFields, PlatformFields DEF Group, Exact
    <2> HIDE DEF G
    <2> QED
      BY <2>1
  <1>2. \A d, e \in busy : h[d] = h[e] => d = e
    BY ChargeFields
  <1>3. \A d \in Days : f[d] \in Nat
    BY Amounts, ExcessIsNat, PlanAssumption DEF IngestOver
  <1>4. \A d \in Days \ busy : f[d] = 0
    <2>1. \A d \in Days \ busy : usage[d][t][s] = 0
      BY Amounts
    <2> QED
      BY <2>1, ExcessIsNat, PlanAssumption DEF IngestOver
  <1>5. DOMAIN g = {h[d] : d \in busy}
    BY <1>1
  <1>6. \A d \in busy : g[h[d]] = f[d]
    <2> SUFFICES ASSUME NEW d \in busy PROVE g[h[d]] = f[d]
      OBVIOUS
    <2>1. h[d] \in G
      BY <1>1
    <2>2. h[d].value = usage[d][t][s]
      BY ChargeFields
    <2> HIDE DEF G
    <2> QED
      BY <2>1, <2>2 DEF IngestOver
  <1>7. busy \in SUBSET Days
    OBVIOUS
  <1> HIDE DEF busy, h, G, f
  <1>8. SumFunction(g) = SumFunctionOnSet(f, Days)
    <2> HIDE DEF g
    <2> QED
      BY <1>2, <1>3, <1>4, <1>5, <1>6, <1>7, FiniteDays, SumOverImage
  <1>9. overage_units("ingest_gb_per_day", s, G) =
           Rates["ingest_gb_per_day"] * SumFunction(g)
    BY DEF overage_units
  <1> QED
    BY <1>8, <1>9 DEF G, f

\* A retention record of every day, whatever was ingested.
LEMMA RetentionItem ==
  ASSUME ReadersInv, TruthInv, NEW t \in Tenants, Exact(t), NEW s \in TELEMETRY_SIGNALS
  PROVE  overage_units("retention_days", s, Group(t, "retention_days", s))
         = Rates["retention_days"] * SumFunctionOnSet(RetentionOver(t, s), Days)
  <1> DEFINE h == [d \in Days |-> RetentionCharge(t, s, d)]
             G == Group(t, "retention_days", s)
             g == [r \in G |-> Excess(r.value, RetentionMax[s])]
             f == RetentionOver(t, s)
  <1>1. G = {h[d] : d \in Days}
    <2>1. \A r : r \in G <=> \E d \in Days : r = RetentionCharge(t, s, d)
      BY ChargeFields, PlatformFields DEF Group, Exact
    <2> HIDE DEF G
    <2> QED
      BY <2>1
  <1>2. \A d, e \in Days : h[d] = h[e] => d = e
    BY ChargeFields
  <1>3. \A d \in Days : f[d] \in Nat
    BY Amounts, ExcessIsNat DEF RetentionOver
  <1>4. DOMAIN g = {h[d] : d \in Days}
    BY <1>1
  <1>5. \A d \in Days : g[h[d]] = f[d]
    <2> SUFFICES ASSUME NEW d \in Days PROVE g[h[d]] = f[d]
      OBVIOUS
    <2>1. h[d] \in G
      BY <1>1
    <2>2. h[d].value = retention[t]
      BY ChargeFields
    <2> HIDE DEF G
    <2> QED
      BY <2>1, <2>2 DEF RetentionOver
  <1>6. Days \in SUBSET Days /\ Days \ Days = {}
    OBVIOUS
  <1> HIDE DEF h, G, f
  <1>7. SumFunction(g) = SumFunctionOnSet(f, Days)
    <2> HIDE DEF g
    <2> QED
      BY <1>2, <1>3, <1>4, <1>5, <1>6, FiniteDays, SumOverImage
  <1>8. overage_units("retention_days", s, G) =
           Rates["retention_days"] * SumFunction(g)
    BY DEF overage_units
  <1> QED
    BY <1>7, <1>8 DEF G, f

\* The days the tenant was active.
LEMMA ActivityItem ==
  ASSUME ReadersInv, TruthInv, NEW t \in Tenants, Exact(t)
  PROVE  overage_units("active_tenants", "platform",
                       Group(t, "active_tenants", "platform"))
         = Rates["active_tenants"] * SumFunctionOnSet(ActiveDays(t), Days)
  <1> DEFINE h == [d \in Days |-> ActivityCharge(t, d)]
             G == Group(t, "active_tenants", "platform")
             g == [r \in G |-> r.value]
             f == ActiveDays(t)
  <1>1. G = {h[d] : d \in Days}
    <2>1. \A r : r \in G <=> \E d \in Days : r = ActivityCharge(t, d)
      BY ChargeFields, PlatformFields DEF Group, Exact
    <2> HIDE DEF G
    <2> QED
      BY <2>1
  <1>2. \A d, e \in Days : h[d] = h[e] => d = e
    BY PlatformFields
  <1>3. \A d \in Days : f[d] \in Nat
    BY DEF ActiveDays
  <1>4. DOMAIN g = {h[d] : d \in Days}
    BY <1>1
  <1>5. \A d \in Days : g[h[d]] = f[d]
    <2> SUFFICES ASSUME NEW d \in Days PROVE g[h[d]] = f[d]
      OBVIOUS
    <2>1. h[d] \in G
      BY <1>1
    <2>2. h[d].value = IF Active(t, d) THEN 1 ELSE 0
      BY PlatformFields
    <2> HIDE DEF G
    <2> QED
      BY <2>1, <2>2 DEF ActiveDays
  <1>6. Days \in SUBSET Days /\ Days \ Days = {}
    OBVIOUS
  <1> HIDE DEF h, G, f
  <1>7. SumFunction(g) = SumFunctionOnSet(f, Days)
    <2> HIDE DEF g
    <2> QED
      BY <1>2, <1>3, <1>4, <1>5, <1>6, FiniteDays, SumOverImage
  <1>8. overage_units("active_tenants", "platform", G) =
           Rates["active_tenants"] * SumFunction(g)
    BY DEF overage_units, SumOf
  <1> QED
    BY <1>7, <1>8 DEF G, f

\* Queries are added up before they are rounded to blocks.
LEMMA QueryItem ==
  ASSUME ReadersInv, TruthInv, NEW t \in Tenants, Exact(t)
  PROVE  overage_units("query_volume", "platform",
                       Group(t, "query_volume", "platform"))
         = Rates["query_volume"]
             * Ceil(SumFunctionOnSet(QueryCounts(t), Days), QUERY_VOLUME_BLOCK)
  <1> DEFINE h == [d \in Days |-> QueryCharge(t, d)]
             G == Group(t, "query_volume", "platform")
             g == [r \in G |-> r.value]
             f == QueryCounts(t)
  <1>1. G = {h[d] : d \in Days}
    <2>1. \A r : r \in G <=> \E d \in Days : r = QueryCharge(t, d)
      BY ChargeFields, PlatformFields DEF Group, Exact
    <2> HIDE DEF G
    <2> QED
      BY <2>1
  <1>2. \A d, e \in Days : h[d] = h[e] => d = e
    BY PlatformFields
  <1>3. \A d \in Days : f[d] \in Nat
    BY Amounts DEF QueryCounts
  <1>4. DOMAIN g = {h[d] : d \in Days}
    BY <1>1
  <1>5. \A d \in Days : g[h[d]] = f[d]
    <2> SUFFICES ASSUME NEW d \in Days PROVE g[h[d]] = f[d]
      OBVIOUS
    <2>1. h[d] \in G
      BY <1>1
    <2>2. h[d].value = queries[d][t]
      BY PlatformFields
    <2> HIDE DEF G
    <2> QED
      BY <2>1, <2>2 DEF QueryCounts
  <1>6. Days \in SUBSET Days /\ Days \ Days = {}
    OBVIOUS
  <1> HIDE DEF h, G, f
  <1>7. SumFunction(g) = SumFunctionOnSet(f, Days)
    <2> HIDE DEF g
    <2> QED
      BY <1>2, <1>3, <1>4, <1>5, <1>6, FiniteDays, SumOverImage
  <1>8. overage_units("query_volume", "platform", G) =
           Rates["query_volume"] * Ceil(SumFunction(g), QUERY_VOLUME_BLOCK)
    BY DEF overage_units, SumOf
  <1> QED
    BY <1>7, <1>8 DEF G, f

LEMMA FiniteSignals == IsFiniteSet(TELEMETRY_SIGNALS)
  <1>1. IsFiniteSet(1 .. Len(SignalOrder))
    BY Signals, FS_Interval
  <1> DEFINE order == [i \in 1 .. Len(SignalOrder) |-> SignalOrder[i]]
  <1>2. order \in Surjection(1 .. Len(SignalOrder), TELEMETRY_SIGNALS)
    BY DEF TELEMETRY_SIGNALS, Surjection
  <1> QED
    BY <1>1, <1>2, FS_Surjection

\* A group without records is charged nothing.
LEMMA NothingIngested ==
  ASSUME NEW s PROVE overage_units("ingest_gb_per_day", s, {}) = 0
  <1> DEFINE g == [r \in {} |-> Excess(r.value, IngestMax)]
  <1>1. SumFunction(g) = 0
    <2>1. DOMAIN g = {}
      OBVIOUS
    <2> HIDE DEF g
    <2>2. SumFunction(g) = SumFunctionOnSet(g, {})
      BY <2>1, Zenon DEF SumFunction
    <2> QED
      BY <2>2, SumEmpty
  <1>2. overage_units("ingest_gb_per_day", s, {}) =
           Rates["ingest_gb_per_day"] * SumFunction(g)
    BY DEF overage_units
  <1>3. Rates["ingest_gb_per_day"] \in Nat
    BY PlanAssumption DEF DIMENSIONS
  <1> QED
    BY <1>1, <1>2, <1>3

\* Line items differ in dimension or signal.
LEMMA ItemFields ==
  ASSUME NEW t, NEW a, NEW b
  PROVE  /\ LineItem(DocsOf(t), a, b).dimension = a
         /\ LineItem(DocsOf(t), a, b).signal = b
         /\ LineItem(DocsOf(t), a, b).overage = overage_units(a, b, Group(t, a, b))
  BY DEF LineItem, Group

LEMMA CeilIsNat ==
  ASSUME NEW n \in Nat PROVE Ceil(n, QUERY_VOLUME_BLOCK) \in Nat
  <1>1. QUERY_VOLUME_BLOCK \in Nat /\ QUERY_VOLUME_BLOCK > 0
    BY PlanAssumption
  <1>2. n + QUERY_VOLUME_BLOCK - 1 \in Nat
    BY <1>1
  <1> QED
    BY <1>1, <1>2 DEF Ceil

LEMMA RatesAreNat ==
  /\ Rates["ingest_gb_per_day"] \in Nat /\ Rates["retention_days"] \in Nat
  /\ Rates["active_tenants"] \in Nat /\ Rates["query_volume"] \in Nat
  BY PlanAssumption DEF DIMENSIONS

LEMMA ProductIsNat == \A k, n \in Nat : k * n \in Nat
  BY Distributes

\* The sums over the days are numbers.
LEMMA DailySums ==
  ASSUME ReadersInv, TruthInv, NEW t \in Tenants
  PROVE  /\ \A s \in TELEMETRY_SIGNALS :
              /\ \A d \in Days : IngestOver(t, s)[d] \in Nat /\ RetentionOver(t, s)[d] \in Nat
              /\ SumFunctionOnSet(IngestOver(t, s), Days) \in Nat
              /\ SumFunctionOnSet(RetentionOver(t, s), Days) \in Nat
         /\ \A d \in Days : ActiveDays(t)[d] \in Nat /\ QueryCounts(t)[d] \in Nat
         /\ SumFunctionOnSet(ActiveDays(t), Days) \in Nat
         /\ SumFunctionOnSet(QueryCounts(t), Days) \in Nat
  <1>1. ASSUME NEW s \in TELEMETRY_SIGNALS
        PROVE  \A d \in Days : IngestOver(t, s)[d] \in Nat /\ RetentionOver(t, s)[d] \in Nat
    BY Amounts, ExcessIsNat, PlanAssumption DEF IngestOver, RetentionOver
  <1>2. \A d \in Days : ActiveDays(t)[d] \in Nat /\ QueryCounts(t)[d] \in Nat
    BY Amounts DEF ActiveDays, QueryCounts
  <1> QED
    BY <1>1, <1>2, FiniteDays, SumIsNat

IngestUnits(t) ==
    [s \in TELEMETRY_SIGNALS |->
        Rates["ingest_gb_per_day"] * SumFunctionOnSet(IngestOver(t, s), Days)]

RetentionUnits(t) ==
    [s \in TELEMETRY_SIGNALS |->
        Rates["retention_days"] * SumFunctionOnSet(RetentionOver(t, s), Days)]

\* The invoice's overage is that of its dimensions and signals.
LEMMA InvoiceOverage ==
  ASSUME ReadersInv, TruthInv, NEW t \in Tenants, Exact(t)
  PROVE  build_invoice(DocsOf(t)).overage =
            SumFunctionOnSet(IngestUnits(t), TELEMETRY_SIGNALS)
            + SumFunctionOnSet(RetentionUnits(t), TELEMETRY_SIGNALS)
            + Rates["active_tenants"] * SumFunctionOnSet(ActiveDays(t), Days)
            + Rates["query_volume"]
                * Ceil(SumFunctionOnSet(QueryCounts(t), Days), QUERY_VOLUME_BLOCK)
  <1> DEFINE D == DocsOf(t)
             kI(s) == <<"ingest_gb_per_day", s>>
             kR(s) == <<"retention_days", s>>
             kA == <<"active_tenants", "platform">>
             kQ == <<"query_volume", "platform">>
             KI == {kI(s) : s \in TELEMETRY_SIGNALS}
             KR == {kR(s) : s \in TELEMETRY_SIGNALS}
             K == ((KI \cup KR) \cup {kA}) \cup {kQ}
             present == {<<r.dimension, r.signal>> : r \in D}
             h == [k \in K |-> LineItem(D, k[1], k[2])]
             f == [k \in K |-> LineItem(D, k[1], k[2]).overage]
             items == {LineItem(D, r.dimension, r.signal) : r \in D}
             g == [i \in items |-> i.overage]
  <1>1. build_invoice(D).overage = SumFunction(g)
    BY DEF build_invoice
  <1>2. \A d \in Days :
           /\ \A s \in TELEMETRY_SIGNALS : RetentionCharge(t, s, d) \in D
           /\ ActivityCharge(t, d) \in D /\ QueryCharge(t, d) \in D
    BY DEF Exact
  <1>3. ASSUME NEW r \in D PROVE <<r.dimension, r.signal>> \in K
    <2>1. PICK d \in Days :
            \/ \E s \in TELEMETRY_SIGNALS : r = IngestCharge(t, s, d)
            \/ \E s \in TELEMETRY_SIGNALS : r = RetentionCharge(t, s, d)
            \/ r = ActivityCharge(t, d)
            \/ r = QueryCharge(t, d)
      BY DEF Exact
    <2>2. CASE \E s \in TELEMETRY_SIGNALS : r = IngestCharge(t, s, d)
      BY <2>2, ChargeFields
    <2>3. CASE \E s \in TELEMETRY_SIGNALS : r = RetentionCharge(t, s, d)
      BY <2>3, ChargeFields
    <2>4. CASE r = ActivityCharge(t, d) \/ r = QueryCharge(t, d)
      BY <2>4, PlatformFields
    <2> QED
      BY <2>1, <2>2, <2>3, <2>4
  <1>4. \A s \in TELEMETRY_SIGNALS : kI(s) \in K /\ kR(s) \in K
    OBVIOUS
  <1>5. kA \in K /\ kQ \in K
    OBVIOUS
  <1>6. \A a, b : <<a, b>>[1] = a /\ <<a, b>>[2] = b
    OBVIOUS
  <1>7. ASSUME NEW s \in TELEMETRY_SIGNALS
        PROVE  f[kI(s)] = IngestUnits(t)[s] /\ f[kR(s)] = RetentionUnits(t)[s]
    <2>1. /\ f[kI(s)] = LineItem(D, "ingest_gb_per_day", s).overage
          /\ f[kR(s)] = LineItem(D, "retention_days", s).overage
      <3> HIDE DEF K, D
      <3> QED
        BY <1>4
    <2> QED
      BY <2>1, ItemFields, IngestItem, RetentionItem DEF IngestUnits, RetentionUnits
  <1>8. /\ f[kA] = Rates["active_tenants"] * SumFunctionOnSet(ActiveDays(t), Days)
        /\ f[kQ] = Rates["query_volume"]
              * Ceil(SumFunctionOnSet(QueryCounts(t), Days), QUERY_VOLUME_BLOCK)
    <2>1. /\ f[kA] = LineItem(D, "active_tenants", "platform").overage
          /\ f[kQ] = LineItem(D, "query_volume", "platform").overage
      <3> HIDE DEF K, D
      <3> QED
        BY <1>5
    <2> QED
      BY <2>1, ItemFields, ActivityItem, QueryItem
  <1>9. \A s \in TELEMETRY_SIGNALS : IngestUnits(t)[s] \in Nat /\ RetentionUnits(t)[s] \in Nat
    BY DailySums, RatesAreNat, ProductIsNat DEF IngestUnits, RetentionUnits
  <1>10. f[kA] \in Nat /\ f[kQ] \in Nat
    <2>1. Ceil(SumFunctionOnSet(QueryCounts(t), Days), QUERY_VOLUME_BLOCK) \in Nat
      BY DailySums, CeilIsNat
    <2> HIDE DEF f
    <2> QED
      BY <1>8, <2>1, DailySums, RatesAreNat, ProductIsNat
  <1>11. \A k \in K : \/ \E s \in TELEMETRY_SIGNALS : k = kI(s) \/ k = kR(s)
                      \/ k = kA \/ k = kQ
    OBVIOUS
  <1>12. \A k \in K : f[k] \in Nat
    <2> HIDE DEF f, K, kI, kR, kA, kQ
    <2> QED
      BY <1>7, <1>9, <1>10, <1>11
  <1>13. ASSUME NEW k \in K \ present PROVE f[k] = 0
    <2>1. PICK d : d \in Days
      BY FiniteDays
    <2>2. \A r \in D : <<r.dimension, r.signal>> # k
      OBVIOUS
    <2>3. PICK s \in TELEMETRY_SIGNALS : k = kI(s)
      <3>1. \A s \in TELEMETRY_SIGNALS : k # kR(s)
        <4> HIDE DEF D, K
        <4> QED
          BY <1>2, <2>1, <2>2, ChargeFields
      <3>2. k # kA /\ k # kQ
        <4> HIDE DEF D, K
        <4> QED
          BY <1>2, <2>1, <2>2, PlatformFields
      <3> HIDE DEF K, kI, kR, kA, kQ
      <3> QED
        BY <1>11, <3>1, <3>2
    <2>4. Group(t, "ingest_gb_per_day", s) = {}
      BY <2>2, <2>3 DEF Group
    <2>5. f[kI(s)] = LineItem(D, "ingest_gb_per_day", s).overage
      <3> HIDE DEF K, D
      <3> QED
        BY <1>4
    <2>6. f[kI(s)] = overage_units("ingest_gb_per_day", s, {})
      <3>1. f[kI(s)] = overage_units("ingest_gb_per_day", s,
                                     Group(t, "ingest_gb_per_day", s))
        BY <2>5, ItemFields
      <3> HIDE DEF f
      <3> QED
        BY <2>4, <3>1, Zenon
    <2> HIDE DEF f, kI
    <2> QED
      BY <2>3, <2>6, NothingIngested
  <1>14. items = {h[k] : k \in present} /\ present \in SUBSET K
    <2>1. ASSUME NEW r \in D
          PROVE  h[<<r.dimension, r.signal>>] = LineItem(D, r.dimension, r.signal)
      <3> HIDE DEF K, D
      <3> QED
        BY <1>3
    <2>2. present \in SUBSET K
      BY <1>3
    <2> HIDE DEF h, D, K
    <2> QED
      BY <2>1, <2>2
  <1>15. \A k \in K : k = <<k[1], k[2]>>
    OBVIOUS
  <1>16. \A k, m \in K : h[k] = h[m] => k = m
    <2>1. \A k \in K : h[k].dimension = k[1] /\ h[k].signal = k[2]
      <3> HIDE DEF K
      <3> QED
        BY ItemFields
    <2> HIDE DEF K, h
    <2> QED
      BY <1>15, <2>1
  <1>17. \A k \in present : g[h[k]] = f[k]
    <2>1. \A k \in K : h[k].overage = f[k]
      <3> HIDE DEF K, D
      <3> QED
        OBVIOUS
    <2>2. \A k \in present : h[k] \in items
      <3> HIDE DEF h, K, D, items, present
      <3> QED
        BY <1>14
    <2> HIDE DEF h, K, D, items, present, f
    <2> QED
      BY <1>14, <2>1, <2>2
  <1>18. DOMAIN g = {h[k] : k \in present}
    <2> HIDE DEF h, K, D, items, present
    <2> QED
      BY <1>14
  <1>19. /\ IsFiniteSet(KI) /\ IsFiniteSet(KR)
         /\ SumFunctionOnSet(f, KI) = SumFunctionOnSet(IngestUnits(t), TELEMETRY_SIGNALS)
         /\ SumFunctionOnSet(f, KR) = SumFunctionOnSet(RetentionUnits(t), TELEMETRY_SIGNALS)
    <2> DEFINE hI == [s \in TELEMETRY_SIGNALS |-> kI(s)]
               hR == [s \in TELEMETRY_SIGNALS |-> kR(s)]
    <2>1. KI = {hI[s] : s \in TELEMETRY_SIGNALS} /\ KR = {hR[s] : s \in TELEMETRY_SIGNALS}
      OBVIOUS
    <2>2. \A s, u \in TELEMETRY_SIGNALS : /\ hI[s] = hI[u] => s = u
                                          /\ hR[s] = hR[u] => s = u
      OBVIOUS
    <2>3. \A s \in TELEMETRY_SIGNALS : /\ f[hI[s]] = IngestUnits(t)[s]
                                       /\ f[hR[s]] = RetentionUnits(t)[s]
      <3> HIDE DEF f, kI, kR
      <3> QED
        BY <1>7
    <2> HIDE DEF hI, hR, f, KI, KR
    <2>4. /\ IsFiniteSet({hI[s] : s \in TELEMETRY_SIGNALS})
          /\ SumFunctionOnSet(f, {hI[s] : s \in TELEMETRY_SIGNALS}) =
                SumFunctionOnSet(IngestUnits(t), TELEMETRY_SIGNALS)
      BY <1>9, <2>2, <2>3, FiniteSignals, SumImage
    <2>5. /\ IsFiniteSet({hR[s] : s \in TELEMETRY_SIGNALS})
          /\ SumFunctionOnSet(f, {hR[s] : s \in TELEMETRY_SIGNALS}) =
                SumFunctionOnSet(RetentionUnits(t), TELEMETRY_SIGNALS)
      BY <1>9, <2>2, <2>3, FiniteSignals, SumImage
    <2> QED
      BY <2>1, <2>4, <2>5, Zenon
  <1>20. /\ KI \cap KR = {} /\ kA \notin KI \cup KR
         /\ kQ \notin (KI \cup KR) \cup {kA}
    OBVIOUS
  <1>21. /\ \A k \in KI \cup KR : f[k] \in Nat
         /\ \A k \in (KI \cup KR) \cup {kA} : f[k] \in Nat
    <2> HIDE DEF f, KI, KR, kA, kQ
    <2> QED
      BY <1>12
  <1>22. IsFiniteSet(KI \cup KR) /\ IsFiniteSet((KI \cup KR) \cup {kA}) /\ IsFiniteSet(K)
    <2> HIDE DEF KI, KR, kA, kQ
    <2> QED
      BY <1>19, FS_Union, FS_AddElement
  <1> HIDE DEF KI, KR, kA, kQ, f
  <1>23. SumFunctionOnSet(f, KI \cup KR) =
            SumFunctionOnSet(f, KI) + SumFunctionOnSet(f, KR)
    BY <1>19, <1>20, <1>21, SumUnion
  <1>24. SumFunctionOnSet(f, (KI \cup KR) \cup {kA}) =
            f[kA] + SumFunctionOnSet(f, KI \cup KR)
    BY <1>10, <1>20, <1>21, <1>22, SumAdd
  <1>25. SumFunctionOnSet(f, K) = f[kQ] + SumFunctionOnSet(f, (KI \cup KR) \cup {kA})
    BY <1>10, <1>20, <1>21, <1>22, SumAdd
  <1> HIDE DEF K, h, g, present, items, D
  <1>26. SumFunction(g) = SumFunctionOnSet(f, K)
    BY <1>12, <1>13, <1>14, <1>16, <1>17, <1>18, <1>22, SumOverImage
  <1>27. /\ SumFunctionOnSet(IngestUnits(t), TELEMETRY_SIGNALS) \in Nat
         /\ SumFunctionOnSet(RetentionUnits(t), TELEMETRY_SIGNALS) \in Nat
    BY <1>9, FiniteSignals, SumIsNat
  <1>28. SumFunction(g) =
            SumFunctionOnSet(IngestUnits(t), TELEMETRY_SIGNALS)
            + SumFunctionOnSet(RetentionUnits(t), TELEMETRY_SIGNALS)
            + f[kA] + f[kQ]
    BY <1>10, <1>19, <1>23, <1>24, <1>25, <1>26, <1>27
  <1> QED
    BY <1>1, <1>8, <1>28 DEF D

\* What a tenant owes day by day is what the dimensions and signals come to.
LEMMA OwedOverage ==
  ASSUME ReadersInv, TruthInv, NEW t \in Tenants
  PROVE  Owed(t) = BaseUnits
            + (SumFunctionOnSet(IngestUnits(t), TELEMETRY_SIGNALS)
               + SumFunctionOnSet(RetentionUnits(t), TELEMETRY_SIGNALS)
               + Rates["active_tenants"] * SumFunctionOnSet(ActiveDays(t), Days)
               + Rates["query_volume"]
                   * Ceil(SumFunctionOnSet(QueryCounts(t), Days), QUERY_VOLUME_BLOCK))
  <1> DEFINE S == TELEMETRY_SIGNALS
             ri == Rates["ingest_gb_per_day"]
             rr == Rates["retention_days"]
             ra == Rates["active_tenants"]
             in(s) == [d \in Days |-> ri * IngestOver(t, s)[d]]
             kept(s) == [d \in Days |-> rr * RetentionOver(t, s)[d]]
             F == [s \in S |-> [d \in Days |->
                      ri * IngestOver(t, s)[d] + rr * RetentionOver(t, s)[d]]]
             row == [s \in S |-> SumFunctionOnSet([d \in Days |-> F[s][d]], Days)]
             column == [d \in Days |-> SumFunctionOnSet([s \in S |-> F[s][d]], S)]
             marks == [d \in Days |-> ra * ActiveDays(t)[d]]
             daily == [d \in Days |->
                SumFunction([s \in S |->
                    ri * Excess(usage[d][t][s], IngestMax)
                    + rr * Excess(retention[t], RetentionMax[s])])
                + ra * (IF queries[d][t] > 0 \/ \E s \in S : usage[d][t][s] > 0
                        THEN 1 ELSE 0)]
             asked == [d \in Days |-> queries[d][t]]
             blocks == Rates["query_volume"]
                   * Ceil(SumFunctionOnSet(QueryCounts(t), Days), QUERY_VOLUME_BLOCK)
  <1>1. ri \in Nat /\ rr \in Nat /\ ra \in Nat
    BY RatesAreNat
  <1>2. \A s \in S : \A d \in Days :
           /\ ri * IngestOver(t, s)[d] \in Nat /\ rr * RetentionOver(t, s)[d] \in Nat
           /\ F[s][d] = ri * IngestOver(t, s)[d] + rr * RetentionOver(t, s)[d]
           /\ F[s][d] \in Nat
    <2>1. \A s \in S : \A d \in Days :
           /\ ri * IngestOver(t, s)[d] \in Nat /\ rr * RetentionOver(t, s)[d] \in Nat
      <3> HIDE DEF ri, rr
      <3> QED
        BY <1>1, DailySums, ProductIsNat
    <2> HIDE DEF ri, rr
    <2> QED
      BY <2>1
  <1>3. ASSUME NEW s \in S
        PROVE  /\ row[s] = IngestUnits(t)[s] + RetentionUnits(t)[s]
               /\ IngestUnits(t)[s] \in Nat /\ RetentionUnits(t)[s] \in Nat
    <2> DEFINE line == [d \in Days |-> F[s][d]]
    <2>1. \A d \in Days : /\ in(s)[d] \in Nat /\ kept(s)[d] \in Nat
                          /\ line[d] = in(s)[d] + kept(s)[d]
      <3> HIDE DEF ri, rr, F
      <3> QED
        BY <1>2
    <2>2. \A d \in Days : /\ IngestOver(t, s)[d] \in Nat
                          /\ in(s)[d] = ri * IngestOver(t, s)[d]
                          /\ RetentionOver(t, s)[d] \in Nat
                          /\ kept(s)[d] = rr * RetentionOver(t, s)[d]
      <3> HIDE DEF ri, rr
      <3> QED
        BY DailySums
    <2>3. row[s] = SumFunctionOnSet(line, Days)
      <3> HIDE DEF F
      <3> QED
        OBVIOUS
    <2>4. /\ IngestUnits(t)[s] = ri * SumFunctionOnSet(IngestOver(t, s), Days)
          /\ RetentionUnits(t)[s] = rr * SumFunctionOnSet(RetentionOver(t, s), Days)
      BY DEF IngestUnits, RetentionUnits
    <2> HIDE DEF line, in, kept, F, row, ri, rr, S
    <2>5. SumFunctionOnSet(line, Days) =
             SumFunctionOnSet(in(s), Days) + SumFunctionOnSet(kept(s), Days)
      BY <2>1, FiniteDays, SumPlus
    <2>6. SumFunctionOnSet(in(s), Days) = ri * SumFunctionOnSet(IngestOver(t, s), Days)
      BY <1>1, <2>2, FiniteDays, SumScale
    <2>7. SumFunctionOnSet(kept(s), Days) = rr * SumFunctionOnSet(RetentionOver(t, s), Days)
      BY <1>1, <2>2, FiniteDays, SumScale
    <2>8. SumFunctionOnSet(in(s), Days) \in Nat /\ SumFunctionOnSet(kept(s), Days) \in Nat
      BY <2>1, FiniteDays, SumIsNat
    <2> QED
      BY <2>3, <2>4, <2>5, <2>6, <2>7, <2>8
  <1>4. SumFunctionOnSet(row, S) = SumFunctionOnSet(IngestUnits(t), S)
                                   + SumFunctionOnSet(RetentionUnits(t), S)
    <2> HIDE DEF row, S
    <2>1. IsFiniteSet(S)
      BY FiniteSignals DEF S
    <2> QED
      BY <1>3, <2>1, SumPlus
  <1>5. SumFunctionOnSet(row, S) = SumFunctionOnSet(column, Days)
    <2> HIDE DEF F, S
    <2>1. IsFiniteSet(S)
      BY FiniteSignals DEF S
    <2> QED
      BY <1>2, <2>1, FiniteDays, SumExchange
  <1>6. ASSUME NEW d \in Days
        PROVE  /\ daily[d] = column[d] + marks[d]
               /\ column[d] \in Nat /\ marks[d] \in Nat
               /\ marks[d] = ra * ActiveDays(t)[d] /\ ActiveDays(t)[d] \in Nat
    <2> DEFINE all == [s \in S |->
                    ri * Excess(usage[d][t][s], IngestMax)
                    + rr * Excess(retention[t], RetentionMax[s])]
               cells == [s \in S |-> F[s][d]]
    <2>1. all = cells
      <3>1. \A s \in S : /\ IngestOver(t, s)[d] = Excess(usage[d][t][s], IngestMax)
                         /\ RetentionOver(t, s)[d] = Excess(retention[t], RetentionMax[s])
        BY DEF IngestOver, RetentionOver
      <3>2. \A s \in S : F[s][d] = ri * Excess(usage[d][t][s], IngestMax)
                                   + rr * Excess(retention[t], RetentionMax[s])
        <4> HIDE DEF ri, rr, S, F
        <4> QED
          BY <1>2, <3>1
      <3> HIDE DEF F, S, ri, rr
      <3> QED
        BY <3>2
    <2>2. SumFunction(all) = SumFunctionOnSet(cells, S)
      <3>1. DOMAIN cells = S
        OBVIOUS
      <3> HIDE DEF all, cells, S
      <3> QED
        BY <2>1, <3>1, Zenon DEF SumFunction
    <2>3. column[d] = SumFunctionOnSet(cells, S) /\ marks[d] = ra * ActiveDays(t)[d]
      <3> HIDE DEF F, S, ra
      <3> QED
        OBVIOUS
    <2>4. ActiveDays(t)[d] = IF queries[d][t] > 0 \/ \E s \in S : usage[d][t][s] > 0
                             THEN 1 ELSE 0
      BY DEF ActiveDays, Active
    <2>5. daily[d] = SumFunction(all) + ra * ActiveDays(t)[d]
      <3> HIDE DEF ri, rr, ra, S
      <3> QED
        BY <2>4
    <2>6. \A s \in S : cells[s] \in Nat
      <3> HIDE DEF F, S
      <3> QED
        BY <1>2
    <2> HIDE DEF cells, all, S, ra, marks, column, daily
    <2>7. SumFunctionOnSet(cells, S) \in Nat
      <3>1. IsFiniteSet(S)
        BY FiniteSignals DEF S
      <3> QED
        BY <2>6, <3>1, SumIsNat
    <2>8. ActiveDays(t)[d] \in Nat /\ ra * ActiveDays(t)[d] \in Nat
      BY <1>1, DailySums, ProductIsNat
    <2> QED
      BY <2>2, <2>3, <2>5, <2>7, <2>8
  <1>7. Owed(t) = BaseUnits + SumFunction(daily)
                  + Rates["query_volume"] * Ceil(SumFunction(asked), QUERY_VOLUME_BLOCK)
    BY DEF Owed
  <1>8. SumFunction(asked) = SumFunctionOnSet(QueryCounts(t), Days)
    <2>1. asked = QueryCounts(t) /\ DOMAIN asked = Days
      BY DEF QueryCounts
    <2> HIDE DEF asked
    <2> QED
      BY <2>1, Zenon DEF SumFunction
  <1>9. SumFunction(daily) = SumFunctionOnSet(daily, Days)
    <2>1. DOMAIN daily = Days
      OBVIOUS
    <2> HIDE DEF daily
    <2> QED
      BY <2>1, Zenon DEF SumFunction
  <1> HIDE DEF daily, column, marks, row, F, asked, ri, rr, ra, S
  <1>10. SumFunctionOnSet(daily, Days) =
            SumFunctionOnSet(column, Days) + SumFunctionOnSet(marks, Days)
    BY <1>6, FiniteDays, SumPlus
  <1>11. SumFunctionOnSet(marks, Days) = ra * SumFunctionOnSet(ActiveDays(t), Days)
    BY <1>1, <1>6, FiniteDays, SumScale
  <1>12. /\ SumFunctionOnSet(column, Days) \in Nat
         /\ SumFunctionOnSet(marks, Days) \in Nat
    BY <1>6, FiniteDays, SumIsNat
  <1>13. blocks \in Nat /\ BaseUnits \in Nat
    <2>1. Ceil(SumFunctionOnSet(QueryCounts(t), Days), QUERY_VOLUME_BLOCK) \in Nat
      BY DailySums, CeilIsNat
    <2> QED
      BY <2>1, RatesAreNat, ProductIsNat, PlanAssumption
  <1>14. Owed(t) = BaseUnits + SumFunctionOnSet(daily, Days) + blocks
    BY <1>7, <1>8, <1>9
  <1> HIDE DEF blocks
  <1>15. Owed(t) = BaseUnits + (SumFunctionOnSet(row, S)
                                + ra * SumFunctionOnSet(ActiveDays(t), Days) + blocks)
    BY <1>5, <1>10, <1>11, <1>12, <1>13, <1>14
  <1> QED
    BY <1>4, <1>15 DEF S, ra, blocks

\* The period's first and last day are days of it, and all lie between.
LEMMA Period ==
  /\ First \in Days /\ Last \in Days
  /\ \A d \in Days : First <= d /\ d <= Last /\ d \in Nat
  <1>1. IsFiniteSet(Days) /\ Days # {} /\ Days \subseteq Nat
    BY MeteringAssumption
  <1>2. First \in Days /\ \A d \in Days : First <= d
    <2>1. \E d \in Days : \A e \in Days : d <= e
      BY <1>1, Least
    <2> QED
      BY <2>1 DEF First
  <1>3. Last \in Days /\ \A d \in Days : d <= Last
    <2> DEFINE Good == {T \in SUBSET Days : T = {} \/ \E d \in T : \A e \in T : e <= d}
    <2>1. {} \in Good
      OBVIOUS
    <2>2. ASSUME NEW T \in SUBSET Days, NEW x \in Days \ T, T \in Good
          PROVE  T \cup {x} \in Good
      <3>1. CASE T = {}
        BY <1>1, <3>1
      <3>2. CASE T # {}
        <4>1. PICK d \in T : \A e \in T : e <= d
          BY <2>2, <3>2
        <4>2. \E c \in T \cup {x} : \A e \in T \cup {x} : e <= c
          <5>1. CASE x <= d
            BY <1>1, <4>1, <5>1
          <5>2. CASE d <= x
            BY <1>1, <4>1, <5>2
          <5> QED
            BY <1>1, <5>1, <5>2
        <4> QED
          BY <4>2
      <3> QED
        BY <3>1, <3>2
    <2>3. Days \in Good
      <3> HIDE DEF Good
      <3> QED
        BY <1>1, <2>1, <2>2, Accumulate
    <2>4. \E d \in Days : \A e \in Days : e <= d
      BY <1>1, <2>3
    <2> QED
      BY <2>4 DEF Last
  <1> QED
    BY <1>1, <1>2, <1>3

\* The records, and with them the charge, are those of the surfaces.
LEMMA InvoiceRight ==
  ReadersInv /\ DocsInv /\ TruthInv /\ CurrentInv => InvoiceMatchesUsage
  <1> SUFFICES ASSUME ReadersInv, DocsInv, TruthInv, CurrentInv,
                      \A d \in Days : current[d], NEW t \in Tenants,
                      Unambiguous(t), Unclaimed(t), ~Stale(t)
               PROVE  /\ Invoiceable(t, DocsOf(t), First, Last)
                      /\ build_invoice(DocsOf(t)).total = Owed(t)
    BY DEF InvoiceMatchesUsage
  <1>1. Exact(t)
    BY DocsExact DEF CurrentInv
  <1>2. Invoiceable(t, DocsOf(t), First, Last)
    <2>1. First <= Last
      BY Period
    <2>2. DocsOf(t) # {}
      <3>1. PICK d : d \in Days
        BY FiniteDays
      <3>2. QueryCharge(t, d) \in DocsOf(t)
        BY <1>1, <3>1 DEF Exact
      <3> QED
        BY <3>2
    <2>3. ASSUME NEW r \in DocsOf(t) PROVE r.tenant = t /\ r.day \in Days
      BY DEF DocsOf, DocsInv, ValidWindow
    <2> QED
      BY <2>1, <2>2, <2>3, Period DEF Invoiceable
  <1>3. build_invoice(DocsOf(t)).total = BaseUnits + build_invoice(DocsOf(t)).overage
    BY DEF build_invoice
  <1> QED
    BY <1>1, <1>2, <1>3, InvoiceOverage, OwedOverage

\* However jobs overlapped, failed and were run again: once the last write of
\* every day is a complete one of surfaces that still stand, build_invoice
\* charges a tenant exactly what INVOICE_EXPORT_CONTRACT_V1 derives from the
\* surfaces themselves, for any days, signals, rates, bounds and volumes; but
\* for a tenant whose id collides with another's in an index name, and one
\* with a record of an index that is gone.
THEOREM InvoicesAreRight == Spec => []InvoiceMatchesUsage
  <1>1. Init => ReadersInv /\ DocsInv /\ TruthInv /\ CurrentInv
    <2>1. Init => DocsInv
      BY DEF Init, DocsInv, ValidWindow, Distinct
    <2>2. Init => CurrentInv
      BY DEF Init, CurrentInv
    <2> QED
      BY <2>1, <2>2, InitReaders, InitTruth
  <1>2. ReadersInv /\ DocsInv /\ TruthInv /\ CurrentInv /\ [Next]_vars
           => (ReadersInv /\ DocsInv /\ TruthInv /\ CurrentInv)'
    BY NextReaders, NextWindows, NextTruth, NextCurrent
  <1>3. ReadersInv /\ DocsInv /\ TruthInv /\ CurrentInv => InvoiceMatchesUsage
    BY InvoiceRight
  <1> QED
    BY <1>1, <1>2, <1>3, PTL DEF Spec

============================================================================
