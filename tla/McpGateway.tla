----------------------------- MODULE McpGateway -----------------------------
(***************************************************************************)
(* The MCP gateway (services/ai/airuntime/gateway.py): request threads of  *)
(* a threading HTTP server (httpd.py) take a tool call through the policy  *)
(* checks to the tool host of its service (mcpserver.py), while one daemon *)
(* thread probes the hosts and keeps the registry.  No lock guards a       *)
(* registry entry, so every field it reads or writes is a step of its own. *)
(*                                                                         *)
(* A call's envelope is reduced to what the checks ask of it.  The journal *)
(* is kept per request and per service: its order across them is not       *)
(* modelled.                                                               *)
(***************************************************************************)
EXTENDS RuntimeContracts, Naturals, Sequences

CONSTANTS
    Requests,   \* the calls the gateway receives
    Catalog,    \* the registered services, in registration order
    Envelopes,  \* the envelopes a caller may send
    NoContext,  \* an envelope without an approval_context
    Threshold,  \* UNHEALTHY_THRESHOLD_MISSED_HEARTBEATS
    MaxMissed,  \* bound: missed_heartbeats is not counted beyond it
    MaxFaults   \* bound: hosts going down or up, lost probes, bad answers

Services == {Catalog[i] : i \in 1..Len(Catalog)}

\* An approval_context as check_action_preconditions reads it.
Context ==
    [allow : BOOLEAN, target : BOOLEAN, approval : {"none", "pending", "approved"},
     rollback : BOOLEAN, ticket : BOOLEAN]

\* complete: all agent_to_mcp fields present; scope: namespace, tenant and
\* team all given; window, input and timeout: how the values parse; host:
\* the approval, rollback plan and failure the input shows the tool host.
Envelope ==
    [complete : BOOLEAN, version : {"v1", "v2", "bad"}, scope : BOOLEAN,
     tool : STRING, caller : STRING,
     window : {"none", "ok", "wide", "unparseable", "mixed"},
     input : {"object", "null", "other"}, context : Context \cup {NoContext},
     timeout : {"ok", "bad"},
     host : [approved : BOOLEAN, rollback : BOOLEAN, fails : BOOLEAN, op : BOOLEAN]]

ASSUME GatewayAssumption ==
    /\ Catalog \in Seq(MCP_CATALOG) /\ Catalog # <<>>
    /\ \A i, j \in 1..Len(Catalog) : Catalog[i] = Catalog[j] => i = j
    /\ Threshold \in Nat \ {0}
    /\ MaxMissed \in Nat /\ MaxMissed >= Threshold
    /\ MaxFaults \in Nat

ASSUME EnvelopeAssumption ==
    \A e \in Envelopes :
        /\ e \in Envelope
        /\ e.tool \in DOMAIN TOOL_TO_SERVICE => TOOL_TO_SERVICE[e.tool] \in Services
        /\ e.input # "object" =>
               e.window = "none" /\ ~e.host.approved /\ ~e.host.rollback
                                 /\ ~e.host.fails /\ ~e.host.op

VARIABLES
    healthy, missed, registered,  \* the registry entry of each service
    hb,         \* the heartbeat thread: program counter, place in Catalog
    hbLog,      \* the heartbeat records of the journal, per service
    pc,         \* each request thread
    req,        \* its envelope
    answer,     \* the HTTP status it returned
    records,    \* the journal records of each request: outcomes
    call,       \* the POST to the tool host: none, inflight, ran, lost
    result,     \* what the tool host made of it
    runs,       \* how often the tool host handled it
    seen,       \* history: requests whose service was routable between
                \* the two registry reads
    up, faults  \* environment: the hosts that answer, faults spent

registryVars == <<healthy, missed, registered>>
hbVars == <<hb, hbLog>>
requestVars == <<pc, req, answer, records>>
hostVars == <<call, result, runs>>
envVars == <<up, faults>>
vars == <<registryVars, hbVars, requestVars, hostVars, seen, envVars>>

NoEnvelope == [tool |-> "none"]

Init ==
    /\ healthy = [s \in Services |-> TRUE]
    /\ missed = [s \in Services |-> 0]
    /\ registered = [s \in Services |-> TRUE]
    /\ hb = [pc |-> "sleep", i |-> 1]
    /\ hbLog = [s \in Services |-> <<>>]
    /\ pc = [r \in Requests |-> "idle"]
    /\ req = [r \in Requests |-> NoEnvelope]
    /\ answer = [r \in Requests |-> 0]
    /\ records = [r \in Requests |-> <<>>]
    /\ call = [r \in Requests |-> "none"]
    /\ result = [r \in Requests |-> "none"]
    /\ runs = [r \in Requests |-> 0]
    /\ seen = {}
    /\ up = [s \in Services |-> TRUE]
    /\ faults = 0

-----------------------------------------------------------------------------
(* The heartbeat thread, one step per field it touches. *)

Probed == Catalog[hb.i]

HbGoto(p) == hb' = [hb EXCEPT !.pc = p]

\* continue, or the end of the loop body: the next service, or sleep.
HbNextService ==
    hb' = IF hb.i = Len(Catalog) THEN [pc |-> "sleep", i |-> 1]
          ELSE [pc |-> "probe", i |-> hb.i + 1]

HbWake ==
    /\ hb.pc = "sleep"
    /\ HbGoto("probe")
    /\ UNCHANGED <<registryVars, hbLog, requestVars, hostVars, envVars>>

HbProbeAnswered ==
    /\ hb.pc = "probe"
    /\ up[Probed]
    /\ HbGoto("alive")
    /\ UNCHANGED <<registryVars, hbLog, requestVars, hostVars, envVars>>

\* The host is down, or it is up and the probe times out or answers badly.
HbProbeFails ==
    /\ hb.pc = "probe"
    /\ up[Probed] => faults < MaxFaults
    /\ faults' = IF up[Probed] THEN faults + 1 ELSE faults
    /\ HbGoto("miss")
    /\ UNCHANGED <<registryVars, hbLog, requestVars, hostVars, up>>

\* Recovery is recorded before the entry is repaired.
HbRecordRecovery ==
    /\ hb.pc = "alive"
    /\ hbLog' = IF registered[Probed] THEN hbLog
                ELSE [hbLog EXCEPT ![Probed] = Append(@, "re-registered")]
    /\ HbGoto("reset")
    /\ UNCHANGED <<registryVars, requestVars, hostVars, envVars>>

HbResetMissed ==
    /\ hb.pc = "reset"
    /\ missed' = [missed EXCEPT ![Probed] = 0]
    /\ HbGoto("setHealthy")
    /\ UNCHANGED <<healthy, registered, hbLog, requestVars, hostVars, envVars>>

\* Mutant: recovery forgets to mark the entry healthy again.
MutHbSetHealthy ==
    /\ hb.pc = "setHealthy"
    /\ HbGoto("setRegistered")
    /\ UNCHANGED <<registryVars, hbLog, requestVars, hostVars, envVars>>

HbSetHealthy ==
    /\ hb.pc = "setHealthy"
    /\ healthy' = [healthy EXCEPT ![Probed] = TRUE]
    /\ HbGoto("setRegistered")
    /\ UNCHANGED <<missed, registered, hbLog, requestVars, hostVars, envVars>>

HbSetRegistered ==
    /\ hb.pc = "setRegistered"
    /\ registered' = [registered EXCEPT ![Probed] = TRUE]
    /\ HbNextService
    /\ UNCHANGED <<healthy, missed, hbLog, requestVars, hostVars, envVars>>

\* Mutant: the check that the entry is still healthy is dropped, so every
\* further miss marks it again.
MutMarksUnhealthy(s) == missed'[s] >= Threshold

MarksUnhealthy(s) == missed'[s] >= Threshold /\ healthy[s]

HbCountMiss ==
    /\ hb.pc = "miss"
    /\ missed' = [missed EXCEPT ![Probed] = IF @ < MaxMissed THEN @ + 1 ELSE @]
    /\ \/ MarksUnhealthy(Probed) /\ HbGoto("clearHealthy")
       \/ ~MarksUnhealthy(Probed) /\ HbNextService
    /\ UNCHANGED <<healthy, registered, hbLog, requestVars, hostVars, envVars>>

HbClearHealthy ==
    /\ hb.pc = "clearHealthy"
    /\ healthy' = [healthy EXCEPT ![Probed] = FALSE]
    /\ HbGoto("clearRegistered")
    /\ UNCHANGED <<missed, registered, hbLog, requestVars, hostVars, envVars>>

HbClearRegistered ==
    /\ hb.pc = "clearRegistered"
    /\ registered' = [registered EXCEPT ![Probed] = FALSE]
    /\ HbGoto("recordDown")
    /\ UNCHANGED <<healthy, missed, hbLog, requestVars, hostVars, envVars>>

HbRecordDown ==
    /\ hb.pc = "recordDown"
    /\ hbLog' = [hbLog EXCEPT ![Probed] = Append(@, "marked-unhealthy")]
    /\ HbNextService
    /\ UNCHANGED <<registryVars, requestVars, hostVars, envVars>>

Heartbeat ==
    \/ HbWake \/ HbProbeAnswered \/ HbProbeFails
    \/ HbRecordRecovery \/ HbResetMissed \/ HbSetHealthy \/ HbSetRegistered
    \/ HbCountMiss \/ HbClearHealthy \/ HbClearRegistered \/ HbRecordDown

-----------------------------------------------------------------------------
(* The checks _handle_invoke makes of the envelope, in its order. *)

ToolId(e) == <<e.tool, e.version>>

\* 400 without a journal record.
Malformed(e) == ~e.complete \/ e.version = "bad"

\* Scope, catalog, classification and binding.
DeniedByPolicy(e) ==
    \/ ~e.scope
    \/ e.tool \notin DOMAIN TOOL_TO_SERVICE
    \/ classify_tool(ToolId(e)) = "none"
    \/ ~check_agent_binding(e.caller, ToolId(e), classify_tool(ToolId(e)))

\* An exception the handler does not catch: input is no mapping, or the two
\* ends of the window cannot be subtracted.
RaisesOnInput(e) == e.input = "other" \/ e.window = "mixed"

DeniedByWindow(e) == e.window \in {"wide", "unparseable"}

\* Mutant: the preconditions of a write-path tool are not checked.
MutDeniedByAction(e) ==
    ToolId(e) \in DOMAIN ACTION_PRECONDITIONS /\ e.context = NoContext

DeniedByAction(e) ==
    /\ ToolId(e) \in DOMAIN ACTION_PRECONDITIONS
    /\ e.context # NoContext => ~check_action_preconditions(ToolId(e), e.context)

Blocked(e) ==
    /\ ~Malformed(e)
    /\ \/ DeniedByPolicy(e)
       \/ ~RaisesOnInput(e) /\ (DeniedByWindow(e) \/ DeniedByAction(e))

Raises(e) == ~Malformed(e) /\ ~DeniedByPolicy(e) /\ RaisesOnInput(e)

Admitted(e) == ~Malformed(e) /\ ~Blocked(e) /\ ~Raises(e)

ServiceOf(r) == TOOL_TO_SERVICE[req[r].tool]

-----------------------------------------------------------------------------
(* A request thread. *)

\* The response, with the journal record _deny or the success path writes.
Answer(r, status, outcome) ==
    /\ pc' = [pc EXCEPT ![r] = "done"]
    /\ answer' = [answer EXCEPT ![r] = status]
    /\ records' = [records EXCEPT ![r] = Append(@, outcome)]

AnswerUnrecorded(r, status) ==
    /\ pc' = [pc EXCEPT ![r] = "done"]
    /\ answer' = [answer EXCEPT ![r] = status]
    /\ UNCHANGED records

\* A call arrives: it is answered by a check, or goes on to the registry.
Receive(r, e) ==
    /\ pc[r] = "idle"
    /\ req' = [req EXCEPT ![r] = e]
    /\ \/ Malformed(e) /\ AnswerUnrecorded(r, 400)
       \/ Raises(e) /\ AnswerUnrecorded(r, 500)
       \/ Blocked(e) /\ Answer(r, IF ~DeniedByPolicy(e) /\ e.window = "unparseable"
                                  THEN 400 ELSE 403, "blocked")
       \/ Admitted(e) /\ pc' = [pc EXCEPT ![r] = "healthy"]
                      /\ UNCHANGED <<answer, records>>
    /\ UNCHANGED <<registryVars, hbVars, hostVars, envVars>>

\* Mutant: the entry's registered field is read both times.
MutReadHealthy(s) == registered[s]

ReadHealthy(s) == healthy[s]

\* The first of the two unlocked reads of the entry.
CheckHealthy(r) ==
    /\ pc[r] = "healthy"
    /\ \/ ReadHealthy(ServiceOf(r)) /\ pc' = [pc EXCEPT ![r] = "registered"]
                                    /\ UNCHANGED <<answer, records>>
       \/ ~ReadHealthy(ServiceOf(r)) /\ Answer(r, 503, "failed")
    /\ UNCHANGED <<registryVars, hbVars, req, hostVars, envVars>>

\* The second read; then int(timeout_ms) raises, or the call is posted.
CheckRegistered(r) ==
    /\ pc[r] = "registered"
    /\ LET routed == registered[ServiceOf(r)] /\ req[r].timeout = "ok" IN
       /\ call' = IF routed THEN [call EXCEPT ![r] = "inflight"] ELSE call
       /\ \/ ~registered[ServiceOf(r)] /\ Answer(r, 503, "failed")
          \/ registered[ServiceOf(r)] /\ ~routed /\ AnswerUnrecorded(r, 500)
          \/ routed /\ pc' = [pc EXCEPT ![r] = "waiting"]
                    /\ UNCHANGED <<answer, records>>
    /\ UNCHANGED <<registryVars, hbVars, req, result, runs, envVars>>

\* Mutant: a transport failure posts the call again.
MutTimeOut(r) ==
    /\ pc[r] = "waiting"
    /\ call[r] = "ran"
    /\ call' = [call EXCEPT ![r] = "inflight"]
    /\ UNCHANGED <<registryVars, hbVars, requestVars, result, runs, envVars>>

\* Mutant: a transport failure is journalled as a block.
MutTimeOutBlocked(r) ==
    /\ pc[r] = "waiting"
    /\ Answer(r, 504, "blocked")
    /\ UNCHANGED <<registryVars, hbVars, req, hostVars, envVars>>

\* Any transport failure: refused, reset, timed out.  The call itself may
\* already be with the host.
TimeOut(r) ==
    /\ pc[r] = "waiting"
    /\ Answer(r, 504, "failed")
    /\ UNCHANGED <<registryVars, hbVars, req, hostVars, envVars>>

\* The host answered with an error status or an envelope that breaks
\* TOOL_RESPONSE_SCHEMA_V1.
RelayFailure(r) ==
    /\ pc[r] = "waiting"
    /\ call[r] = "ran" /\ result[r] \in {"error", "invalid"}
    /\ Answer(r, 502, "failed")
    /\ UNCHANGED <<registryVars, hbVars, req, hostVars, envVars>>

\* The success path: redaction, the journal record, 200.  The record's
\* target is looked up in the raw input, which raises when it is null.
RelayResult(r) ==
    /\ pc[r] = "waiting"
    /\ call[r] = "ran" /\ result[r] \notin {"error", "invalid"}
    /\ \/ req[r].input = "null" /\ AnswerUnrecorded(r, 500)
       \/ req[r].input = "object" /\ Answer(r, 200, "executed")
    /\ UNCHANGED <<registryVars, hbVars, req, hostVars, envVars>>

RequestThread(r) ==
    CheckHealthy(r) \/ CheckRegistered(r) \/ TimeOut(r)
        \/ RelayFailure(r) \/ RelayResult(r)

-----------------------------------------------------------------------------
(* The tool host and the environment. *)

\* mcpserver.handle_invoke: the runbook service acts only on what the input
\* itself shows; the casefile service wants a known operation.
handle_invoke(e) ==
    CASE e.tool \in ActionTools ->
            IF e.host.approved /\ e.host.rollback
            THEN IF e.host.fails THEN "rolled-back" ELSE "executed"
            ELSE "blocked"
      [] e.tool \in CaseFileTools -> IF e.host.op THEN "findings" ELSE "error"
      [] OTHER -> "findings"

\* The host takes the call, also after the gateway stopped waiting.  A host
\* of another build may answer with an envelope the gateway refuses.
HostRuns(r) ==
    /\ call[r] = "inflight"
    /\ up[ServiceOf(r)]
    /\ call' = [call EXCEPT ![r] = "ran"]
    /\ runs' = [runs EXCEPT ![r] = @ + 1]
    /\ \/ result' = [result EXCEPT ![r] = handle_invoke(req[r])]
          /\ UNCHANGED faults
       \/ faults < MaxFaults
          /\ result' = [result EXCEPT ![r] = "invalid"]
          /\ faults' = faults + 1
    /\ UNCHANGED <<registryVars, hbVars, requestVars, up>>

\* A call to a host that is down never reaches it.
CallLost(r) ==
    /\ call[r] = "inflight"
    /\ ~up[ServiceOf(r)]
    /\ call' = [call EXCEPT ![r] = "lost"]
    /\ UNCHANGED <<registryVars, hbVars, requestVars, result, runs, envVars>>

HostChanges(s) ==
    /\ faults < MaxFaults
    /\ up' = [up EXCEPT ![s] = ~@]
    /\ faults' = faults + 1
    /\ UNCHANGED <<registryVars, hbVars, requestVars, hostVars>>

-----------------------------------------------------------------------------

Step ==
    \/ Heartbeat
    \/ \E r \in Requests :
          \/ \E e \in Envelopes : Receive(r, e)
          \/ RequestThread(r)
          \/ HostRuns(r) \/ CallLost(r)
    \/ \E s \in Services : HostChanges(s)

\* History of the moments between a request's two registry reads.
Watch ==
    seen' = seen \cup
        {r \in Requests : /\ pc'[r] = "registered"
                          /\ healthy'[TOOL_TO_SERVICE[req'[r].tool]]
                          /\ registered'[TOOL_TO_SERVICE[req'[r].tool]]}

Next == Step /\ Watch

\* The daemon thread loops for ever and every probe has a timeout; a
\* request thread runs until it has answered, and its POST has a timeout.
Fairness ==
    /\ WF_vars(Heartbeat /\ Watch)
    /\ \A r \in Requests : WF_vars(RequestThread(r) /\ Watch)

Spec == Init /\ [][Next]_vars /\ Fairness

-----------------------------------------------------------------------------
(* Properties. *)

\* The heartbeat thread is not in the middle of this entry.
AtRest(s) == hb.pc \in {"sleep", "probe", "alive", "miss"} \/ Probed # s

\* Whatever order probes fail and recover in, once the heartbeat has left an
\* entry its three fields agree with each other and with the journal: the
\* service is routable exactly while fewer than Threshold probes in a row
\* were missed, every state change and no other event left one record, and
\* the two kinds of record alternate.
JournalTellsHealth ==
    \A s \in Services :
        AtRest(s) =>
            /\ healthy[s] = registered[s]
            /\ healthy[s] <=> missed[s] < Threshold
            /\ registered[s] <=> Len(hbLog[s]) % 2 = 0
            /\ \A i \in 1..Len(hbLog[s]) :
                  hbLog[s][i] = IF i % 2 = 1 THEN "marked-unhealthy"
                                ELSE "re-registered"

\* The two unlocked reads are as good as one: a call is only posted to a
\* service that was healthy and registered at one and the same moment
\* between them, whatever the heartbeat did meanwhile.
RoutedWasRoutable ==
    \A r \in Requests : call[r] # "none" => r \in seen

\* No tool host handles a call that the governance contracts forbid.  The
\* demands are restated by risk class, not by the table of tools with
\* preconditions: a write tool missing from that table would be caught.
OnlyPermittedRun ==
    \A r \in Requests :
        runs[r] > 0 =>
            LET e == req[r]
                risk == TOOL_RISK_CLASSES[ToolId(e)]
                binding == AGENT_TOOL_BINDINGS[e.caller]
            IN /\ e.scope /\ e.window \in {"none", "ok"}
               /\ ToolId(e) \in binding.tools
               /\ risk \in {"write.low-risk", "write.high-risk", "write.critical"} =>
                     e.context # NoContext /\ e.context.allow /\ e.context.target
               /\ risk \in {"write.high-risk", "write.critical"} =>
                     /\ binding.class = "specialist_action"
                     /\ e.context.approval = "approved" /\ e.context.rollback
               /\ risk = "write.critical" => e.context.ticket

\* A call the tool host handled and the gateway answered is in the journal
\* exactly once, "executed" only with status 200, unless its input was null:
\* then the handler raises after the tool ran and before the record.
RunIsRecorded ==
    \A r \in Requests :
        /\ Len(records[r]) <= 1
        /\ pc[r] = "done" /\ runs[r] > 0 /\ req[r].input # "null" =>
               records[r] \in {<<"executed">>, <<"failed">>}
        /\ records[r] = <<"executed">> => answer[r] = 200 /\ runs[r] = 1
        /\ records[r] = <<"blocked">> => runs[r] = 0

\* What the status alone tells the caller.
Phase ==
    [r \in Requests |->
        CASE pc[r] = "idle" -> "idle"
          [] pc[r] \in {"healthy", "registered"} -> "open"
          [] pc[r] = "waiting" -> "sent"
          [] pc[r] = "done" /\ answer[r] = 200 -> "ok"
          [] pc[r] = "done" /\ answer[r] \in {400, 403, 503} -> "refused"
          [] OTHER -> "failed"]

Contract == INSTANCE ToolCall WITH phase <- Phase

\* The gateway keeps the promise of ToolCall: 200 means the tool ran exactly
\* once, 400, 403 and 503 that it never runs, and no call runs twice, also
\* when the host takes it after the gateway answered 504.
HonoursToolCall == Contract!Spec

\* Once hosts stop going up and down and probes stop getting lost, the
\* registry comes to agree with the hosts for good: a dead service is
\* denied, a live one is routed to again.
HealthConverges ==
    \A s \in Services : <>[](healthy[s] = up[s] /\ registered[s] = up[s])

=============================================================================
