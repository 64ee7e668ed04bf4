-------------------------- MODULE RuntimeContracts --------------------------
(***************************************************************************)
(* The routing and governance tables the AI runtime embeds                 *)
(* (services/ai/airuntime/contracts.py) and the pure decisions             *)
(* policy.py takes over them.  A tool id is the pair of a tool name and a  *)
(* version, as the gateway forms it from the two envelope fields.          *)
(***************************************************************************)
EXTENDS FiniteSets

V1(tool) == <<tool, "v1">>

ReadTools == {"incident-search", "graph-analysis", "trace-investigation",
              "metrics-correlation", "change-intelligence"}

CaseFileTools == {"incident-casefile.read", "incident-casefile.update"}

ActionTools == {"runbook-plan", "remediation-execute"}

\* The services registered at start.  A read tool has a service of its own;
\* the casefile and the runbook service host two classified tools each.
MCP_CATALOG == ReadTools \cup {"incident-casefile", "runbook-execution"}

TOOL_TO_SERVICE ==
    [t \in ReadTools \cup CaseFileTools \cup ActionTools |->
        IF t \in ReadTools THEN t
        ELSE IF t \in CaseFileTools THEN "incident-casefile"
        ELSE "runbook-execution"]

TOOL_RISK_CLASSES ==
    [id \in {V1(t) : t \in DOMAIN TOOL_TO_SERVICE} |->
        CASE id[1] \in {"incident-search", "metrics-correlation"} ->
                "read.safe"
          [] id[1] = "incident-casefile.update" -> "write.low-risk"
          [] id[1] = "runbook-plan" -> "write.high-risk"
          [] id[1] = "remediation-execute" -> "write.critical"
          [] OTHER -> "read.sensitive"]

\* The write-path tools and what each demands beyond an allowing policy
\* decision and a valid target.
ACTION_PRECONDITIONS ==
    [id \in {V1("incident-casefile.update"), V1("runbook-plan"),
             V1("remediation-execute")} |->
        [approval |-> id # V1("incident-casefile.update"),
         rollback |-> id # V1("incident-casefile.update"),
         ticket   |-> id = V1("remediation-execute")]]

\* The risk classes an agent class denies.
DenyRiskClasses(class) ==
    IF class = "specialist_action" THEN {}
    ELSE {"write.high-risk", "write.critical"}

\* Every binding holds the casefile tools beside the agent's own;
\* approval-status.v1 is bound although no service hosts it.
Bind(class, own) ==
    [class |-> class, tools |-> {V1(t) : t \in own \cup CaseFileTools}]

AGENT_TOOL_BINDINGS ==
    [a \in {"ops-ceo-agent", "triage-director", "investigation-manager",
            "action-governor", "incident-investigator", "logs-analyst",
            "trace-analyst", "metrics-correlator", "graph-analyst",
            "change-correlator", "evidence-summarizer", "runbook-planner",
            "remediation-executor"} |->
        CASE a = "ops-ceo-agent" -> Bind("ceo", {"approval-status"})
          [] a = "triage-director" -> Bind("manager", {"incident-search"})
          [] a = "investigation-manager" ->
                Bind("manager", {"incident-search", "change-intelligence"})
          [] a = "action-governor" -> Bind("manager", {"approval-status"})
          [] a \in {"incident-investigator", "logs-analyst"} ->
                Bind("specialist_read_only", {"incident-search"})
          [] a = "trace-analyst" ->
                Bind("specialist_read_only", {"trace-investigation"})
          [] a = "metrics-correlator" ->
                Bind("specialist_read_only", {"metrics-correlation"})
          [] a = "graph-analyst" ->
                Bind("specialist_read_only", {"graph-analysis"})
          [] a = "change-correlator" ->
                Bind("specialist_read_only", {"change-intelligence"})
          [] a = "evidence-summarizer" -> Bind("specialist_read_only", {})
          [] a = "runbook-planner" ->
                Bind("specialist_action", {"runbook-plan"})
          [] a = "remediation-executor" ->
                Bind("specialist_action", {"remediation-execute"})]

-----------------------------------------------------------------------------

classify_tool(id) ==
    IF id \in DOMAIN TOOL_RISK_CLASSES THEN TOOL_RISK_CLASSES[id] ELSE "none"

\* Default deny: an unknown caller, a tool outside the caller's binding, or
\* a risk class its agent class denies.
check_agent_binding(caller, id, risk) ==
    /\ caller \in DOMAIN AGENT_TOOL_BINDINGS
    /\ id \in AGENT_TOOL_BINDINGS[caller].tools
    /\ risk \notin DenyRiskClasses(AGENT_TOOL_BINDINGS[caller].class)

\* ctx is the caller's approval context: whether the policy decision in it
\* allows, whether the target is valid, the state of the approval record it
\* carries, and whether a rollback plan and a change ticket are present.
check_action_preconditions(id, ctx) ==
    /\ id \in DOMAIN ACTION_PRECONDITIONS
    /\ ctx.allow
    /\ ctx.target
    /\ ACTION_PRECONDITIONS[id].approval => ctx.approval = "approved"
    /\ ACTION_PRECONDITIONS[id].rollback => ctx.rollback
    /\ ACTION_PRECONDITIONS[id].ticket => ctx.ticket

=============================================================================
