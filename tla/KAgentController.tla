-------------------------- MODULE KAgentController --------------------------
(***************************************************************************)
(* The kagent controller (services/ai/airuntime/kagent.py): triggers open  *)
(* casefiles, an investigation thread per casefile ends by asking for the  *)
(* approval of one write action, and a human decision or a timeout closes  *)
(* the case.                                                               *)
(*                                                                         *)
(* Handlers run in the threads of a ThreadingHTTPServer, investigations in *)
(* daemon threads.  The store locks each call and nothing longer: reads    *)
(* give copies, upsert_casefile writes a whole document and                *)
(* update_approval a whole decision.  One step is at most one such call.   *)
(* The store outlives the process (PostgreSQL); the threads do not.        *)
(***************************************************************************)
EXTENDS Naturals, Sequences, FiniteSets

CONSTANTS
    Handlers,        \* concurrent HTTP requests
    Correlations,    \* correlation ids of the triggers
    MaxCases,        \* bound: casefiles ever opened
    MaxContestedCases,  \* bound: the same once threads met on a casefile
    Specialists,     \* how many specialists an investigation dispatches
    PendingTimeout,  \* pending_timeout_minutes of runbook-plan.v1, in ticks
    MaxTime,         \* bound: the last clock reading
    MaxCrashes,      \* bound: process deaths
    None             \* no row, no thread

ASSUME HandlersAssumption == IsFiniteSet(Handlers)

ASSUME SizesAssumption ==
    /\ MaxCases \in Nat
    /\ MaxContestedCases \in Nat
    /\ Specialists \in Nat
    /\ PendingTimeout \in Nat
    /\ MaxTime \in Nat
    /\ MaxCrashes \in Nat

VARIABLES
    now,         \* the wall clock
    casefiles,   \* table kagent_runs.casefiles
    approvals,   \* table kagent_runs.approvals, by the casefile asking
    audit,       \* table kagent_audit.records: how many of each event
    executions,  \* write actions the tool server has carried out
    inv,         \* the investigation threads
    handlers,    \* the request threads
    forked,      \* history: correlations of which two triggers overlapped
    contested,   \* history: casefiles that two threads worked on at once
    crashes      \* process deaths so far

vars == <<now, casefiles, approvals, audit, executions, inv, handlers,
          forked, contested, crashes>>

store == <<casefiles, approvals, audit>>

races == <<forked, contested>>

-----------------------------------------------------------------------------
(* What the rows hold. *)

Cases == 1 .. MaxCases

Time == 0 .. MaxTime

Statuses == {"open", "triaging", "investigating", "awaiting-approval",
             "executing", "resolved", "rejected"}

\* _TERMINAL_STATUSES; nothing ever sets "closed".
Terminal == {"resolved", "rejected"}

Outcomes == {"executed", "blocked"}

\* outputs counts the specialists that have reported.
Casefile == [correlation : Correlations, status : Statuses,
             outputs : 0 .. Specialists,
             approval : {"not-required", "pending", "approved", "rejected",
                         "expired"},
             journal : Seq(Outcomes)]

Approval == [state : {"pending", "approved", "rejected", "expired"},
             deadline_at : Nat, decided_at : Time \cup {None}]

AuditEvents == {"approved", "rejected", "timeout-deny", "executed", "blocked"}

Investigation == [pc : {"triage", "investigate", "dispatch", "request",
                        "await", "done", "raised"},
                  file : Casefile]

Idle == [pc |-> "idle"]

\* The locals of a request thread, by what it is about to do.
Locals ==
    {Idle}
    \cup [pc : {"create"}, correlation : Correlations]
    \cup [pc : {"spawn"}, case : Cases, file : Casefile]
    \cup [pc : {"decision", "evaluate-timeout", "record"}, case : Cases,
          approval : Approval]
    \cup [pc : {"execute", "reject"}, case : Cases, approval : Approval,
          file : Casefile]
    \cup [pc : {"invoke"}, case : Cases, file : Casefile]
    \cup [pc : {"report", "close"}, case : Cases, file : Casefile,
          outcome : Outcomes]

ASSUME NoneAssumption == None \notin Casefile \cup Approval \cup Investigation

TypeOK ==
    /\ now \in Time
    /\ casefiles \in [Cases -> Casefile \cup {None}]
    /\ approvals \in [Cases -> Approval \cup {None}]
    /\ audit \in [Cases -> [AuditEvents -> Nat]]
    /\ executions \in [Cases -> Nat]
    /\ inv \in [Cases -> Investigation \cup {None}]
    /\ handlers \in [Handlers -> Locals]
    /\ forked \in SUBSET Correlations
    /\ contested \in SUBSET Cases
    /\ crashes \in 0 .. MaxCrashes

Init ==
    /\ now = 0
    /\ casefiles = [c \in Cases |-> None]
    /\ approvals = [c \in Cases |-> None]
    /\ audit = [c \in Cases |-> [e \in AuditEvents |-> 0]]
    /\ executions = [c \in Cases |-> 0]
    /\ inv = [c \in Cases |-> None]
    /\ handlers = [h \in Handlers |-> Idle]
    /\ forked = {}
    /\ contested = {}
    /\ crashes = 0

\* Set the row of a table.
Save(c, file) == casefiles' = [casefiles EXCEPT ![c] = file]

Audit(c, event) == audit' = [audit EXCEPT ![c][event] = @ + 1]

Goto(h, local) == handlers' = [handlers EXCEPT ![h] = local]

\* A request is at work on casefile c.
On(h, c) == handlers[h].pc \notin {"idle", "create"} /\ handlers[h].case = c

\* Casefiles there are, or are about to be: what the bounds count.
Opened == Cardinality({c \in Cases : casefiles[c] # None})
          + Cardinality({h \in Handlers : handlers[h].pc = "create"})

MaxOpened == IF contested' = {} THEN MaxCases ELSE MaxContestedCases

-----------------------------------------------------------------------------
(* POST /triggers. *)

Active(c) == casefiles[c] # None /\ casefiles[c].status \notin Terminal

\* Another trigger of the correlation is between its scan and its insert.
Overlapping(correlation) ==
    {k \in {correlation} : \E g \in Handlers : /\ handlers[g].pc = "create"
                                             /\ handlers[g].correlation = k}

\* Mutant: only a casefile that nobody has started on absorbs a trigger.
TriggerAbsorbOpenOnly(h, correlation) ==
    /\ handlers[h] = Idle
    /\ \A c \in Cases :
          Active(c) /\ casefiles[c].status = "open" =>
             casefiles[c].correlation # correlation
    /\ Goto(h, [pc |-> "create", correlation |-> correlation])
    /\ forked' = forked \cup Overlapping(correlation)
    /\ UNCHANGED <<now, store, executions, inv, contested, crashes>>
    /\ Opened < MaxOpened

\* _handle_trigger up to the end of the dedupe loop.  A trigger that an
\* active casefile absorbs changes nothing.
Trigger(h, correlation) ==
    /\ handlers[h] = Idle
    /\ \A c \in Cases : Active(c) => casefiles[c].correlation # correlation
    /\ Goto(h, [pc |-> "create", correlation |-> correlation])
    /\ forked' = forked \cup Overlapping(correlation)
    /\ UNCHANGED <<now, store, executions, inv, contested, crashes>>
    /\ Opened < MaxOpened

NewFile(correlation) ==
    [correlation |-> correlation, status |-> "open", outputs |-> 0,
     approval |-> "not-required", journal |-> <<>>]

\* The casefile gets a fresh id.
CreateCasefile(h) ==
    LET file == NewFile(handlers[h].correlation)
    IN  /\ handlers[h].pc = "create"
        /\ \E c \in Cases :
              /\ casefiles[c] = None
              /\ \A d \in 1 .. c - 1 : casefiles[d] # None
              /\ Save(c, file)
              /\ Goto(h, [pc |-> "spawn", case |-> c, file |-> file])
        /\ UNCHANGED <<now, approvals, audit, executions, inv, races,
                       crashes>>

\* The casefile-created record, then the thread, which gets the casefile.
SpawnInvestigation(h) ==
    /\ handlers[h].pc = "spawn"
    /\ inv' = [inv EXCEPT ![handlers[h].case] =
                  [pc |-> "triage", file |-> handlers[h].file]]
    /\ Goto(h, Idle)
    /\ UNCHANGED <<now, store, executions, races, crashes>>

-----------------------------------------------------------------------------
(* run_investigation: a thread that only ever writes its own copy. *)

Running(c) == inv[c] # None /\ inv[c].pc \notin {"done", "raised"}

\* Save the thread's casefile as it now is, and go on.
Advance(c, file, pc) ==
    /\ Save(c, file)
    /\ inv' = [inv EXCEPT ![c] = [pc |-> pc, file |-> file]]
    /\ UNCHANGED <<now, approvals, audit, executions, handlers, races,
                   crashes>>

Triage(c) ==
    /\ inv[c] # None /\ inv[c].pc = "triage"
    /\ Advance(c, [inv[c].file EXCEPT !.status = "triaging"], "investigate")

Investigate(c) ==
    /\ inv[c] # None /\ inv[c].pc = "investigate"
    /\ Advance(c, [inv[c].file EXCEPT !.status = "investigating"],
               IF Specialists = 0 THEN "request" ELSE "dispatch")

\* One round of the dispatch loop whose tool call succeeds.
Dispatch(c) ==
    /\ inv[c] # None /\ inv[c].pc = "dispatch"
    /\ Advance(c, [inv[c].file EXCEPT !.outputs = @ + 1],
               IF inv[c].file.outputs + 1 = Specialists
               THEN "request" ELSE "dispatch")

\* The gateway denies or cannot be reached: the exception ends the thread.
DispatchRaises(c) ==
    /\ inv[c] # None /\ inv[c].pc = "dispatch"
    /\ inv' = [inv EXCEPT ![c].pc = "raised"]
    /\ UNCHANGED <<now, store, executions, handlers, races, crashes>>

\* insert_approval(new_approval(...)).
RequestApproval(c) ==
    /\ inv[c] # None /\ inv[c].pc = "request"
    /\ approvals' = [approvals EXCEPT ![c] =
          [state |-> "pending", deadline_at |-> now + PendingTimeout,
           decided_at |-> None]]
    /\ inv' = [inv EXCEPT ![c].pc = "await"]
    /\ UNCHANGED <<now, casefiles, audit, executions, handlers, races,
                   crashes>>

\* Mutant: the approval is pending but the status is left as it was.
AwaitApprovalKeepStatus(c) ==
    /\ inv[c] # None /\ inv[c].pc = "await"
    /\ Advance(c, [inv[c].file EXCEPT !.approval = "pending"], "done")

AwaitApproval(c) ==
    /\ inv[c] # None /\ inv[c].pc = "await"
    /\ Advance(c, [inv[c].file EXCEPT !.approval = "pending",
                                      !.status = "awaiting-approval"],
               "done")

-----------------------------------------------------------------------------
(* POST /approvals/<id>/decision. *)

\* _handle_approval_action: the copy both handlers work on.
ReadApproval(h, c, action) ==
    /\ handlers[h] = Idle
    /\ approvals[c] # None
    /\ Goto(h, [pc |-> action, case |-> c, approval |-> approvals[c]])
    /\ contested' = contested \cup
          {d \in {c} : Running(d) \/ \E g \in Handlers : On(g, d)}
    /\ UNCHANGED <<now, store, executions, inv, forked, crashes>>
    /\ Opened <= MaxOpened

\* Mutant: an approval that is no longer pending can be decided again.
DecidableAgain(approval, self) ==
    /\ ~self
    /\ now <= approval.deadline_at

\* decide_approval: the requester may not approve; runbook-plan.v1 is
\* write.high-risk, so no change ticket is asked for.
Decidable(approval, self) ==
    /\ approval.state = "pending"
    /\ ~self
    /\ now <= approval.deadline_at

\* update_approval with the decision.
Decide(h, decision) ==
    LET approval == handlers[h].approval
        updated  == [approval EXCEPT !.state = decision, !.decided_at = now]
    IN  /\ handlers[h].pc = "decision"
        /\ \E self \in BOOLEAN : Decidable(approval, self)
        /\ approvals' = [approvals EXCEPT ![handlers[h].case] = updated]
        /\ Goto(h, [handlers[h] EXCEPT !.pc = "record",
                                       !.approval = updated])
        /\ UNCHANGED <<now, casefiles, audit, executions, inv, races,
                       crashes>>

RefuseDecision(h) ==
    /\ handlers[h].pc = "decision"
    /\ \E self \in BOOLEAN : ~Decidable(handlers[h].approval, self)
    /\ Goto(h, Idle)
    /\ UNCHANGED <<now, store, executions, inv, races, crashes>>

\* Mutant: whatever was not rejected is executed.
RecordDecisionExecuteExpired(h) ==
    LET local == handlers[h]
        c     == local.case
        state == local.approval.state
    IN  /\ local.pc = "record"
        /\ Audit(c, IF state = "expired" THEN "timeout-deny" ELSE state)
        /\ Goto(h, [pc |-> IF state # "rejected" THEN "execute" ELSE "reject",
                    case |-> c, approval |-> local.approval,
                    file |-> casefiles[c]])
        /\ UNCHANGED <<now, casefiles, approvals, executions, inv, races,
                       crashes>>

\* Mutant: a rejection is dropped once it is audited.
RecordDecisionDropRejection(h) ==
    LET local == handlers[h]
        c     == local.case
        state == local.approval.state
    IN  /\ local.pc = "record"
        /\ Audit(c, IF state = "expired" THEN "timeout-deny" ELSE state)
        /\ Goto(h, IF state = "approved"
                   THEN [pc |-> "execute", case |-> c,
                         approval |-> local.approval, file |-> casefiles[c]]
                   ELSE Idle)
        /\ UNCHANGED <<now, casefiles, approvals, executions, inv, races,
                       crashes>>

\* get_casefile and the decision's or the timeout's audit record.
RecordDecision(h) ==
    LET local == handlers[h]
        c     == local.case
        state == local.approval.state
    IN  /\ local.pc = "record"
        /\ Audit(c, IF state = "expired" THEN "timeout-deny" ELSE state)
        /\ Goto(h, [pc |-> IF state = "approved" THEN "execute" ELSE "reject",
                    case |-> c, approval |-> local.approval,
                    file |-> casefiles[c]])
        /\ UNCHANGED <<now, casefiles, approvals, executions, inv, races,
                       crashes>>

\* Mutant: the case is closed without an entry in its journal.
RejectedFileSilent(local) ==
    [local.file EXCEPT !.status = "rejected",
                       !.approval = local.approval.state]

RejectedFile(local) ==
    [local.file EXCEPT !.status = "rejected",
                       !.approval = local.approval.state,
                       !.journal = Append(@, "blocked")]

\* The end of _decide and of _evaluate_timeout.
SaveRejection(h) ==
    /\ handlers[h].pc = "reject"
    /\ Save(handlers[h].case, RejectedFile(handlers[h]))
    /\ Goto(h, Idle)
    /\ UNCHANGED <<now, approvals, audit, executions, inv, races, crashes>>

-----------------------------------------------------------------------------
(* _execute_approved_action. *)

ExecutingFile(local) ==
    [local.file EXCEPT !.status = "executing", !.approval = "approved"]

SaveExecuting(h) ==
    LET file == ExecutingFile(handlers[h])
    IN  /\ handlers[h].pc = "execute"
        /\ Save(handlers[h].case, file)
        /\ Goto(h, [pc |-> "invoke", case |-> handlers[h].case,
                    file |-> file])
        /\ UNCHANGED <<now, approvals, audit, executions, inv, races, crashes>>

\* The gateway's answer: the action was carried out, or blocked.  A tool that
\* outlives the gateway's own timeout is denied as well, and may have run.
InvokeAction(h, outcome) ==
    LET local == handlers[h]
    IN  /\ local.pc = "invoke"
        /\ \E done \in IF outcome = "executed" THEN {1} ELSE {0, 1} :
              executions' = [executions EXCEPT ![local.case] = @ + done]
        /\ Goto(h, [pc |-> "report", case |-> local.case, file |-> local.file,
                    outcome |-> outcome])
        /\ UNCHANGED <<now, store, inv, races, crashes>>

\* No answer in time: the request fails, whether or not the action was done.
InvokeRaises(h) ==
    /\ handlers[h].pc = "invoke"
    /\ \E done \in {0, 1} :
          executions' = [executions EXCEPT ![handlers[h].case] = @ + done]
    /\ Goto(h, Idle)
    /\ UNCHANGED <<now, store, inv, races, crashes>>

\* Mutant: the record says blocked whatever the outcome.
AuditActionBlocked(h) ==
    /\ handlers[h].pc = "report"
    /\ Audit(handlers[h].case, "blocked")
    /\ Goto(h, [handlers[h] EXCEPT !.pc = "close"])
    /\ UNCHANGED <<now, casefiles, approvals, executions, inv, races, crashes>>

AuditAction(h) ==
    /\ handlers[h].pc = "report"
    /\ Audit(handlers[h].case, handlers[h].outcome)
    /\ Goto(h, [handlers[h] EXCEPT !.pc = "close"])
    /\ UNCHANGED <<now, casefiles, approvals, executions, inv, races, crashes>>

ClosedFile(local) ==
    [local.file EXCEPT !.status = IF local.outcome = "executed"
                                  THEN "resolved" ELSE "rejected",
                       !.journal = Append(@, local.outcome)]

SaveOutcome(h) ==
    /\ handlers[h].pc = "close"
    /\ Save(handlers[h].case, ClosedFile(handlers[h]))
    /\ Goto(h, Idle)
    /\ UNCHANGED <<now, approvals, audit, executions, inv, races, crashes>>

-----------------------------------------------------------------------------
(* POST /approvals/<id>/evaluate-timeout. *)

\* The caller supplies as_of, which need not be the time it is.
Expire(h) ==
    LET approval == handlers[h].approval
        expired  == [approval EXCEPT !.state = "expired"]
    IN  /\ handlers[h].pc = "evaluate-timeout"
        /\ approval.state = "pending"
        /\ approvals' = [approvals EXCEPT ![handlers[h].case] = expired]
        /\ Goto(h, [handlers[h] EXCEPT !.pc = "record",
                                       !.approval = expired])
        /\ UNCHANGED <<now, casefiles, audit, executions, inv, races,
                       crashes>>

\* as_of is before the deadline, or the approval is not pending any more.
NotExpired(h) ==
    /\ handlers[h].pc = "evaluate-timeout"
    /\ Goto(h, Idle)
    /\ UNCHANGED <<now, store, executions, inv, races, crashes>>

-----------------------------------------------------------------------------
Tick ==
    /\ now < MaxTime
    /\ now' = now + 1
    /\ UNCHANGED <<store, executions, inv, handlers, races, crashes>>

\* The process dies and is restarted over the same database.
Crash ==
    /\ crashes < MaxCrashes
    /\ crashes' = crashes + 1
    /\ handlers' = [h \in Handlers |-> Idle]
    /\ inv' = [c \in Cases |-> IF Running(c)
                               THEN [inv[c] EXCEPT !.pc = "raised"]
                               ELSE inv[c]]
    /\ UNCHANGED <<now, store, executions, races>>

Step(h) ==
    \/ CreateCasefile(h) \/ SpawnInvestigation(h)
    \/ RecordDecision(h) \/ SaveRejection(h)
    \/ SaveExecuting(h) \/ InvokeRaises(h) \/ AuditAction(h) \/ SaveOutcome(h)
    \/ RefuseDecision(h) \/ Expire(h) \/ NotExpired(h)
    \/ \E decision \in {"approved", "rejected"} : Decide(h, decision)
    \/ \E outcome \in Outcomes : InvokeAction(h, outcome)

Investigating(c) ==
    \/ Triage(c) \/ Investigate(c) \/ Dispatch(c) \/ DispatchRaises(c)
    \/ RequestApproval(c) \/ AwaitApproval(c)

Request(h) ==
    \/ \E correlation \in Correlations : Trigger(h, correlation)
    \/ \E c \in Cases, action \in {"decision", "evaluate-timeout"} :
          ReadApproval(h, c, action)

Next ==
    \/ Tick
    \/ Crash
    \/ \E h \in Handlers : Request(h) \/ Step(h)
    \/ \E c \in Cases : Investigating(c)

Spec == Init /\ [][Next]_vars

\* Threads run on to their end; nothing is assumed of the callers.
FairSpec ==
    /\ Spec
    /\ \A h \in Handlers : WF_vars(Step(h))
    /\ \A c \in Cases : WF_vars(Investigating(c))

-----------------------------------------------------------------------------
(* Properties. *)

(***************************************************************************)
(* A write action is carried out at most once per human approval on the    *)
(* audit trail, however many requests decide the same approval at once,    *)
(* whatever timeout is evaluated meanwhile, and wherever the process dies. *)
(***************************************************************************)
ActionsAreApproved ==
    \A c \in Cases : executions[c] <= audit[c]["approved"]

\* Positions of the executed actions in a casefile's journal.
Executed(file) == {i \in 1 .. Len(file.journal) : file.journal[i] = "executed"}

(***************************************************************************)
(* A casefile never claims more than happened: its journal has at most as  *)
(* many executed actions as the audit trail, the trail at most as many as  *)
(* were carried out, and a resolved case has one in its journal.  The      *)
(* casefile writes of different threads may overwrite each other.          *)
(***************************************************************************)
JournalIsAudited ==
    \A c \in Cases :
        /\ audit[c]["executed"] <= executions[c]
        /\ casefiles[c] # None =>
              /\ Cardinality(Executed(casefiles[c])) <= audit[c]["executed"]
              /\ casefiles[c].status = "resolved" =>
                    Executed(casefiles[c]) # {}

(***************************************************************************)
(* Two casefiles of an incident are active at once only if two triggers of *)
(* that incident overlapped (kagent.py:127-172), or a request on one of    *)
(* the two overlapped another on the same casefile, or read its approval   *)
(* before the investigation had saved it (kagent.py:615-622): either may   *)
(* reopen a casefile that was closed.  No other overlap, of requests for   *)
(* other incidents or of a trigger with a decision, does it, nor does a    *)
(* tool call that fails, a thread that raises or a restart.                *)
(***************************************************************************)
NoDuplicateUnlessRaced ==
    \A c, d \in Cases \ contested :
        c # d /\ Active(c) /\ Active(d)
          /\ casefiles[c].correlation = casefiles[d].correlation =>
            casefiles[c].correlation \in forked

\* Nobody is at work on the casefile.
Quiet(c) == ~Running(c) /\ \A h \in Handlers : ~On(h, c)

\* feed_rejection_into_casefile: a rejected or expired approval is part of
\* the case record.
RejectionRecorded(c) ==
    approvals[c].state \in {"rejected", "expired"} =>
        /\ casefiles[c].status = "rejected"
        /\ casefiles[c].approval = approvals[c].state
        /\ casefiles[c].journal = <<"blocked">>

(***************************************************************************)
(* As long as requests on a casefile overlap neither each other nor its    *)
(* investigation, and nothing died, the tables agree on it: a rejection is *)
(* on the case record, a pending approval has an open case, an approved    *)
(* one a case that is settled or whose action got no answer, and the       *)
(* action was carried out at most once.  What requests on other casefiles  *)
(* do meanwhile makes no difference.                                       *)
(***************************************************************************)
TablesAgreeUnlessRaced ==
    crashes = 0 =>
        \A c \in Cases \ contested :
            Quiet(c) /\ approvals[c] # None =>
              /\ RejectionRecorded(c)
              /\ casefiles[c].approval = approvals[c].state
              /\ approvals[c].state = "pending" <=>
                    casefiles[c].status = "awaiting-approval"
              /\ executions[c] <= 1

(***************************************************************************)
(* A decision is final: unless two threads worked on the casefile at once, *)
(* nothing changes its approval once it is no longer pending, or the       *)
(* casefile once it is closed, even after a restart.                       *)
(***************************************************************************)
DecisionsAreFinal ==
    [][\A c \in Cases \ contested' :
          /\ approvals[c] # None /\ approvals[c].state # "pending" =>
                approvals'[c] = approvals[c]
          /\ casefiles[c] # None /\ casefiles[c].status \in Terminal =>
                casefiles'[c] = casefiles[c]]_vars

\* The transition table of contracts/ai/CASEFILE_LIFECYCLE_V1.md.
LifecycleTable ==
    {<<"open", "triaging">>, <<"triaging", "investigating">>,
     <<"investigating", "awaiting-approval">>, <<"investigating", "resolved">>,
     <<"awaiting-approval", "executing">>, <<"awaiting-approval", "rejected">>,
     <<"executing", "resolved">>, <<"resolved", "closed">>}

\* A step that changes the status of c is in the table.
StatusStep(c, table) ==
    casefiles[c] # None /\ casefiles'[c].status # casefiles[c].status =>
        <<casefiles[c].status, casefiles'[c].status>> \in table

(***************************************************************************)
(* Without overlapping work on it and without restarts a casefile goes     *)
(* through its states as the documented lifecycle says, failed and         *)
(* unanswered tool calls included, but for one transition the code adds:   *)
(* an action the gateway blocks takes the case from executing to rejected. *)
(* (After a restart between insert_approval and the save that follows it,  *)
(* a decision finds the case still investigating.)                         *)
(***************************************************************************)
LifecycleUnlessRaced ==
    [][crashes = 0 =>
          \A c \in Cases \ contested' :
             StatusStep(c, LifecycleTable
                             \cup {<<"executing", "rejected">>})]_vars

(***************************************************************************)
(* Every decision and every timeout that was written to the approval goes  *)
(* on to reach the casefile, which is closed or, while the gateway has not *)
(* answered, executing.  (It may be overwritten later.)                    *)
(***************************************************************************)
DecisionReachesCase ==
    \A c \in Cases :
        (\E h \in Handlers :
            handlers[h].pc = "record" /\ handlers[h].case = c) ~>
            \/ /\ casefiles[c] # None
               /\ casefiles[c].status \in Terminal \cup {"executing"}
            \/ crashes > 0
=============================================================================
