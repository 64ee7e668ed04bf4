------------------------ MODULE MCTenantControlPlane ------------------------
(* Small instances of TenantControlPlane. *)
EXTENDS TenantControlPlane

\* A document with an overlay and one without; the retention window is one
\* tick, so that a purge can be too early.
MCDocs == {[isolation_class |-> "dedicated-stack", retention_days |-> 1,
            region_allowed |-> TRUE],
           [isolation_class |-> "shared-partition", retention_days |-> 1,
            region_allowed |-> TRUE]}

\* The same and a document whose region is not among its allowed regions and
\* whose retention window ends at once.
MCAllDocs == MCDocs \cup
    {[isolation_class |-> "dedicated-indices", retention_days |-> 0,
      region_allowed |-> FALSE]}

\* In ticks: an approval for offboard is good at once only, one for purge
\* also a tick later, so that both sides of each boundary occur.
MCPendingTimeout ==
    [risk \in {"write.high-risk", "write.critical"} |->
        IF risk = "write.critical" THEN 1 ELSE 0]
=============================================================================
