---------------------------- MODULE MCMcpGateway ----------------------------
(***************************************************************************)
(* An instance of McpGateway: a read service and the runbook service, and  *)
(* envelopes that are well formed except for at most one defect each.      *)
(***************************************************************************)
EXTENDS McpGateway

MCCatalog == <<"incident-search", "runbook-execution">>

FullContext == [allow |-> TRUE, target |-> TRUE, approval |-> "approved",
                rollback |-> TRUE, ticket |-> TRUE]

GoodHost == [approved |-> TRUE, rollback |-> TRUE, fails |-> FALSE, op |-> TRUE]

NoHost == [approved |-> FALSE, rollback |-> FALSE, fails |-> FALSE, op |-> FALSE]

Read == [complete |-> TRUE, version |-> "v1", scope |-> TRUE,
         tool |-> "incident-search", caller |-> "logs-analyst", window |-> "ok",
         input |-> "object", context |-> NoContext, timeout |-> "ok",
         host |-> GoodHost]

Act == [Read EXCEPT !.tool = "remediation-execute",
                    !.caller = "remediation-executor",
                    !.context = FullContext]

Contexts == {[FullContext EXCEPT !.allow = FALSE],
             [FullContext EXCEPT !.target = FALSE],
             [FullContext EXCEPT !.approval = "pending"],
             [FullContext EXCEPT !.approval = "none"],
             [FullContext EXCEPT !.rollback = FALSE],
             [FullContext EXCEPT !.ticket = FALSE],
             NoContext}

\* Each way a read can go wrong before it is posted, and after.
MCReads ==
    {Read,
     [Read EXCEPT !.complete = FALSE], [Read EXCEPT !.version = "bad"],
     [Read EXCEPT !.version = "v2"], [Read EXCEPT !.scope = FALSE],
     [Read EXCEPT !.tool = "approval-status", !.caller = "ops-ceo-agent"],
     [Read EXCEPT !.caller = "trace-analyst"], [Read EXCEPT !.caller = "stranger"],
     [Read EXCEPT !.window = "wide"], [Read EXCEPT !.window = "unparseable"],
     [Read EXCEPT !.window = "mixed"], [Read EXCEPT !.timeout = "bad"],
     [Read EXCEPT !.input = "null", !.window = "none", !.host = NoHost],
     [Read EXCEPT !.input = "other", !.window = "none", !.host = NoHost]}

\* Each way an action can, with what the tool host sees agreeing or not.
MCActs ==
    {Act, [Act EXCEPT !.tool = "runbook-plan", !.caller = "runbook-planner"],
     [Act EXCEPT !.caller = "runbook-planner"],
     [Act EXCEPT !.host = NoHost], [Act EXCEPT !.host.fails = TRUE]}
    \cup {[Act EXCEPT !.context = c] : c \in Contexts}

MCEnvelopes == MCReads \cup MCActs

=============================================================================
