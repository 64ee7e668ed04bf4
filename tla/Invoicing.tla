------------------------------ MODULE Invoicing ------------------------------
(***************************************************************************)
(* Invoice construction (services/commercial/commercialsvc/invoicing.py):  *)
(* pure operators over a set of usage records with distinct identities.    *)
(* A record is [tenant, dimension, signal, day, value].  Amounts are whole *)
(* units, so the six-decimal rounding of the code is the identity here.    *)
(***************************************************************************)
EXTENDS Integers, FiniteSets, Functions

CONSTANTS
    BaseUnits,          \* base_monthly_units of the plan
    IngestMax,          \* quotas.ingest.max_gb_per_day (max)
    RetentionMax,       \* quotas.retention.<signal>_days (max), per signal
    Rates,              \* billing.overage.<dimension>.rate_units
    QUERY_VOLUME_BLOCK  \* queries per billable block

DIMENSIONS == {"ingest_gb_per_day", "retention_days", "active_tenants",
               "query_volume"}

ASSUME PlanAssumption ==
    /\ BaseUnits \in Nat /\ IngestMax \in Nat
    /\ QUERY_VOLUME_BLOCK \in Nat \ {0}
    /\ Rates \in [DIMENSIONS -> Nat]

Excess(value, bound) == IF value > bound THEN value - bound ELSE 0

Ceil(n, block) == (n + block - 1) \div block

SumOf(records) == SumFunction([r \in records |-> r.value])

\* Mutant: the daily values are added up before they are held against the
\* daily bound.
MutOverageUnits(dimension, signal, records) ==
    Rates[dimension] *
    CASE dimension = "ingest_gb_per_day" -> Excess(SumOf(records), IngestMax)
      [] dimension = "retention_days" ->
            Excess(SumOf(records), RetentionMax[signal])
      [] dimension = "active_tenants" -> SumOf(records)
      [] dimension = "query_volume" -> Ceil(SumOf(records), QUERY_VOLUME_BLOCK)

\* Over-bound dimensions are clipped record by record, query volume is
\* rounded up to blocks once over the whole period.
overage_units(dimension, signal, records) ==
    Rates[dimension] *
    CASE dimension = "ingest_gb_per_day" ->
            SumFunction([r \in records |-> Excess(r.value, IngestMax)])
      [] dimension = "retention_days" ->
            SumFunction([r \in records |-> Excess(r.value, RetentionMax[signal])])
      [] dimension = "active_tenants" -> SumOf(records)
      [] dimension = "query_volume" -> Ceil(SumOf(records), QUERY_VOLUME_BLOCK)

LineItem(records, dimension, signal) ==
    LET group == {r \in records : r.dimension = dimension /\ r.signal = signal}
    IN [dimension |-> dimension, signal |-> signal, quantity |-> SumOf(group),
        overage |-> overage_units(dimension, signal, group),
        count |-> Cardinality(group)]

\* What build_invoice refuses: no records, a foreign tenant, a window
\* outside the period [first, last], an empty period.
Invoiceable(tenant, records, first, last) ==
    /\ first <= last
    /\ records # {}
    /\ \A r \in records : r.tenant = tenant /\ first <= r.day /\ r.day <= last

build_invoice(records) ==
    LET items == {LineItem(records, r.dimension, r.signal) : r \in records}
        overage == SumFunction([i \in items |-> i.overage])
    IN [items |-> items, overage |-> overage, total |-> BaseUnits + overage]

=============================================================================
