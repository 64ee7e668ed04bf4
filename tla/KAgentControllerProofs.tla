----------------------- MODULE KAgentControllerProofs -----------------------
(***************************************************************************)
(* Theorems about the kagent controller, for any number of requests,       *)
(* casefiles, specialists and restarts.  Two hold under every race: a write*)
(* action has its own approval (ApprovedInv) and a casefile claims no more *)
(* than was audited (JournalInv).  The others rest on SerialInv, which says*)
(* of each casefile that no two threads met on what the one thread at work *)
(* on it knows, whatever goes on elsewhere; DupInv adds the triggers.      *)
(***************************************************************************)
EXTENDS KAgentController, FiniteSetTheorems, TLAPS

(***************************************************************************)
(* Whoever has a casefile's id found it in the store, and the thread of an *)
(* investigation counts its reports: what the types of the copies rest on. *)
(***************************************************************************)
CopiesInv ==
    /\ \A c \in Cases : approvals[c] # None => casefiles[c] # None
    /\ \A c \in Cases : inv[c] # None =>
          /\ casefiles[c] # None
          /\ inv[c].pc \in {"triage", "investigate"} => inv[c].file.outputs = 0
          /\ inv[c].pc = "dispatch" => inv[c].file.outputs < Specialists
    /\ \A h \in Handlers :
          /\ handlers[h].pc = "spawn" =>
                /\ casefiles[handlers[h].case] # None
                /\ handlers[h].file.outputs = 0
          /\ handlers[h].pc \in {"decision", "evaluate-timeout", "record"} =>
                casefiles[handlers[h].case] # None
          /\ handlers[h].pc = "record" => handlers[h].approval.state # "pending"

IndInv == TypeOK /\ CopiesInv

\* The marker of an absent row is no row.
LEMMA NoneIsNoRow ==
    /\ \A x \in Casefile : x # None
    /\ \A x \in Approval : x # None
    /\ \A x \in Investigation : x # None
  BY NoneAssumption

\* The locals of a request thread follow from what it is about to do.
LEMMA LocalType ==
    ASSUME NEW l \in Locals
    PROVE  /\ l.pc = "create" => l.correlation \in Correlations
           /\ l.pc = "spawn" => l.case \in Cases /\ l.file \in Casefile
           /\ l.pc \in {"decision", "evaluate-timeout", "record"} =>
                 /\ l \in [pc : {"decision", "evaluate-timeout", "record"},
                           case : Cases, approval : Approval]
                 /\ l.case \in Cases /\ l.approval \in Approval
           /\ l.pc \in {"execute", "reject"} =>
                 /\ l.case \in Cases
                 /\ l.approval \in Approval /\ l.file \in Casefile
           /\ l.pc = "invoke" => l.case \in Cases /\ l.file \in Casefile
           /\ l.pc \in {"report", "close"} =>
                 /\ l \in [pc : {"report", "close"}, case : Cases,
                           file : Casefile, outcome : Outcomes]
                 /\ l.case \in Cases /\ l.file \in Casefile
                 /\ l.outcome \in Outcomes
  BY DEF Locals, Idle

\* The casefiles that requests save are casefiles.
LEMMA FileType ==
    ASSUME NEW l \in Locals
    PROVE  /\ l.pc = "create" => NewFile(l.correlation) \in Casefile
           /\ l.pc = "reject" => RejectedFile(l) \in Casefile
           /\ l.pc = "execute" => ExecutingFile(l) \in Casefile
           /\ l.pc = "close" => ClosedFile(l) \in Casefile
  <1>1. l.pc = "create" => NewFile(l.correlation) \in Casefile
    BY LocalType, SizesAssumption DEF NewFile, Casefile, Statuses
  <1>2. l.pc = "execute" => ExecutingFile(l) \in Casefile
    BY LocalType DEF ExecutingFile, Casefile, Statuses
  <1>3. ASSUME l.pc = "reject" PROVE RejectedFile(l) \in Casefile
    <2>1. l.file \in Casefile /\ l.approval \in Approval
      BY <1>3, LocalType
    <2>2. Append(l.file.journal, "blocked") \in Seq(Outcomes)
      BY <2>1 DEF Casefile, Outcomes
    <2> QED BY <2>1, <2>2 DEF RejectedFile, Casefile, Statuses, Approval
  <1>4. ASSUME l.pc = "close" PROVE ClosedFile(l) \in Casefile
    <2>1. l.file \in Casefile /\ l.outcome \in Outcomes
      BY <1>4, LocalType
    <2>2. Append(l.file.journal, l.outcome) \in Seq(Outcomes)
      BY <2>1 DEF Casefile
    <2> QED BY <2>1, <2>2 DEF ClosedFile, Casefile, Statuses
  <1> QED BY <1>1, <1>2, <1>3, <1>4

\* An empty database and no threads.
LEMMA InitIndInv == Init => IndInv
  <1> SUFFICES ASSUME Init PROVE IndInv
    OBVIOUS
  <1>1. Idle \in Locals /\ Idle.pc = "idle"
    BY DEF Locals, Idle
  <1>2. TypeOK
    <2>1. now \in Time /\ crashes \in 0 .. MaxCrashes
      BY SizesAssumption DEF Init, Time
    <2>2. audit \in [Cases -> [AuditEvents -> Nat]]
      BY DEF Init
    <2>3. handlers \in [Handlers -> Locals]
      BY <1>1 DEF Init
    <2> QED BY <2>1, <2>2, <2>3 DEF Init, TypeOK
  <1>3. CopiesInv
    BY <1>1 DEF Init, CopiesInv
  <1> QED BY <1>2, <1>3 DEF IndInv

\* A casefile stays one when its count of outputs moves within bounds.
LEMMA OutputsUpdate ==
    ASSUME NEW f \in Casefile, NEW n, f.outputs + n \in 0 .. Specialists
    PROVE  [f EXCEPT !.outputs = f.outputs + n] \in Casefile
  <1> PICK m : m = f.outputs + n
    OBVIOUS
  <1>1. [f EXCEPT !.outputs = m] \in Casefile
    BY DEF Casefile
  <1> QED BY <1>1

\* A step of an investigation saves a casefile, or touches none.
LEMMA AdvanceType ==
    ASSUME IndInv, NEW c \in Cases, Investigating(c)
    PROVE  \/ DispatchRaises(c)
           \/ RequestApproval(c)
           \/ \E file \in Casefile,
                 pc \in {"investigate", "dispatch", "request", "done"} :
                   Advance(c, file, pc)
  <1>1. /\ inv[c] # None =>
             inv[c] \in Investigation /\ inv[c].file \in Casefile
        /\ CopiesInv
    BY DEF IndInv, TypeOK, Investigation
  <1>2. CASE Triage(c)
    <2>1. [inv[c].file EXCEPT !.status = "triaging"] \in Casefile
      BY <1>1, <1>2 DEF Triage, Casefile, Statuses
    <2> QED BY <1>2, <2>1 DEF Triage
  <1>3. CASE Investigate(c)
    <2>1. [inv[c].file EXCEPT !.status = "investigating"] \in Casefile
      BY <1>1, <1>3 DEF Investigate, Casefile, Statuses
    <2> QED BY <1>3, <2>1 DEF Investigate
  <1>4. CASE Dispatch(c)
    <2>1. inv[c].file.outputs < Specialists
      BY <1>1, <1>4 DEF Dispatch, CopiesInv
    <2>2. [inv[c].file EXCEPT !.outputs = @ + 1] \in Casefile
      <3>1. inv[c].file \in Casefile /\ inv[c].file.outputs + 1 \in 0 .. Specialists
        BY <1>1, <1>4, <2>1, SizesAssumption DEF Dispatch, Casefile
      <3> QED BY <3>1, OutputsUpdate
    <2> QED BY <1>4, <2>2 DEF Dispatch
  <1>5. CASE AwaitApproval(c)
    <2>1. [inv[c].file EXCEPT !.approval = "pending",
                              !.status = "awaiting-approval"] \in Casefile
      BY <1>1, <1>5 DEF AwaitApproval, Casefile, Statuses
    <2> QED BY <1>5, <2>1 DEF AwaitApproval
  <1> QED BY <1>2, <1>3, <1>4, <1>5 DEF Investigating

\* Every store call leaves well-formed rows, and every copy is well-formed.
LEMMA TypeStep == IndInv /\ [Next]_vars => TypeOK'
  <1> SUFFICES ASSUME IndInv, [Next]_vars PROVE TypeOK'
    OBVIOUS
  <1> USE SizesAssumption, NoneIsNoRow DEF races
  <1>t. TypeOK /\ CopiesInv
    BY DEF IndInv
  <1>i. Idle \in Locals
    BY DEF Locals
  <1>1. ASSUME NEW h \in Handlers, Request(h) PROVE TypeOK'
    <2>1. ASSUME NEW correlation \in Correlations, Trigger(h, correlation)
          PROVE TypeOK'
      <3>1. Overlapping(correlation) \subseteq Correlations
        BY DEF Overlapping
      <3> QED BY <1>t, <2>1, <3>1 DEF TypeOK, Trigger, Goto, Locals, store
    <2>2. ASSUME NEW c \in Cases, NEW action \in {"decision", "evaluate-timeout"},
                 ReadApproval(h, c, action)
          PROVE TypeOK'
      <3>1. [pc |-> action, case |-> c, approval |-> approvals[c]] \in Locals
        BY <1>t, <2>2 DEF TypeOK, ReadApproval, Locals
      <3> QED BY <1>t, <2>2, <3>1 DEF TypeOK, ReadApproval, Goto, store
    <2> QED BY <1>1, <2>1, <2>2 DEF Request
  <1>2. ASSUME NEW h \in Handlers, Step(h) PROVE TypeOK'
    <2> DEFINE l == handlers[h]
    <2>l. l \in Locals
      BY <1>t DEF TypeOK
    <2>1. CASE CreateCasefile(h)
      <3> DEFINE file == NewFile(l.correlation)
      <3>1. PICK c \in Cases :
               /\ Save(c, file)
               /\ Goto(h, [pc |-> "spawn", case |-> c, file |-> file])
        BY <2>1 DEF CreateCasefile
      <3>2. file \in Casefile
        BY <2>1, <2>l, FileType DEF CreateCasefile
      <3>3. [pc |-> "spawn", case |-> c, file |-> file] \in Locals
        BY <3>2 DEF Locals
      <3> QED BY <1>t, <2>1, <3>1, <3>2, <3>3
              DEF TypeOK, CreateCasefile, Save, Goto
    <2>2. CASE SpawnInvestigation(h)
      <3>1. [pc |-> "triage", file |-> l.file] \in Investigation
        BY <2>2, <2>l, LocalType DEF SpawnInvestigation, Investigation
      <3> QED BY <1>t, <1>i, <2>2, <2>l, <3>1, LocalType
              DEF TypeOK, SpawnInvestigation, Goto, store
    <2>3. CASE RecordDecision(h)
      <3>1. l.case \in Cases /\ l.approval \in Approval
        BY <2>3, <2>l, LocalType DEF RecordDecision
      <3>2. casefiles[l.case] \in Casefile
        BY <1>t, <2>3, <3>1 DEF TypeOK, CopiesInv, RecordDecision
      <3>3. \A pc \in {"execute", "reject"} :
               [pc |-> pc, case |-> l.case, approval |-> l.approval,
                file |-> casefiles[l.case]] \in Locals
        BY <3>1, <3>2 DEF Locals
      <3>4. handlers' \in [Handlers -> Locals]
        BY <1>t, <2>3, <3>3 DEF TypeOK, RecordDecision, Goto
      <3>5. audit' \in [Cases -> [AuditEvents -> Nat]]
        <4>1. l.approval.state \in {"approved", "rejected", "expired"}
          BY <1>t, <2>3, <3>1 DEF CopiesInv, RecordDecision, Approval
        <4>2. \E event \in AuditEvents : Audit(l.case, event)
          BY <2>3, <4>1 DEF RecordDecision, AuditEvents
        <4> QED BY <1>t, <3>1, <4>2 DEF TypeOK, Audit
      <3> QED BY <1>t, <2>3, <3>4, <3>5 DEF TypeOK, RecordDecision
    <2>4. CASE SaveRejection(h)
      <3>1. l.case \in Cases /\ RejectedFile(l) \in Casefile
        BY <2>4, <2>l, LocalType, FileType DEF SaveRejection
      <3> QED BY <1>t, <1>i, <2>4, <3>1
              DEF TypeOK, SaveRejection, Save, Goto
    <2>5. CASE SaveExecuting(h)
      <3>1. l.case \in Cases /\ ExecutingFile(l) \in Casefile
        BY <2>5, <2>l, LocalType, FileType DEF SaveExecuting
      <3>2. [pc |-> "invoke", case |-> l.case, file |-> ExecutingFile(l)]
               \in Locals
        BY <3>1 DEF Locals
      <3> QED BY <1>t, <2>5, <3>1, <3>2
              DEF TypeOK, SaveExecuting, Save, Goto
    <2>6. CASE InvokeRaises(h)
      <3>1. l.case \in Cases
        BY <2>6, <2>l, LocalType DEF InvokeRaises
      <3> QED BY <1>t, <1>i, <2>6, <3>1 DEF TypeOK, InvokeRaises, Goto, store
    <2>7. CASE AuditAction(h)
      <3>1. /\ l.case \in Cases /\ l.outcome \in Outcomes
            /\ l \in [pc : {"report", "close"}, case : Cases,
                      file : Casefile, outcome : Outcomes]
        BY <2>7, <2>l, LocalType DEF AuditAction
      <3>2. [l EXCEPT !.pc = "close"] \in Locals
        BY <3>1 DEF Locals
      <3>3. audit' \in [Cases -> [AuditEvents -> Nat]]
        BY <1>t, <2>7, <3>1 DEF TypeOK, AuditAction, Audit, AuditEvents,
                                Outcomes
      <3> QED BY <1>t, <2>7, <3>2, <3>3 DEF TypeOK, AuditAction, Goto
    <2>8. CASE SaveOutcome(h)
      <3>1. l.case \in Cases /\ ClosedFile(l) \in Casefile
        BY <2>8, <2>l, LocalType, FileType DEF SaveOutcome
      <3> QED BY <1>t, <1>i, <2>8, <3>1
              DEF TypeOK, SaveOutcome, Save, Goto
    <2>9. CASE RefuseDecision(h)
      BY <1>t, <1>i, <2>9 DEF TypeOK, RefuseDecision, Goto, store
    <2>10. CASE Expire(h)
      <3> DEFINE expired == [l.approval EXCEPT !.state = "expired"]
      <3>1. /\ l.case \in Cases /\ l.approval \in Approval
            /\ l \in [pc : {"decision", "evaluate-timeout", "record"},
                      case : Cases, approval : Approval]
        BY <2>10, <2>l, LocalType DEF Expire
      <3>2. expired \in Approval
        BY <3>1 DEF Approval
      <3>3. [l EXCEPT !.pc = "record", !.approval = expired] \in Locals
        BY <3>1, <3>2 DEF Locals
      <3> QED BY <1>t, <2>10, <3>1, <3>2, <3>3 DEF TypeOK, Expire, Goto
    <2>11. CASE NotExpired(h)
      BY <1>t, <1>i, <2>11 DEF TypeOK, NotExpired, Goto, store
    <2>12. ASSUME NEW decision \in {"approved", "rejected"},
                  Decide(h, decision)
           PROVE  TypeOK'
      <3> DEFINE updated == [l.approval EXCEPT !.state = decision,
                                               !.decided_at = now]
      <3>1. /\ l.case \in Cases /\ l.approval \in Approval
            /\ l \in [pc : {"decision", "evaluate-timeout", "record"},
                      case : Cases, approval : Approval]
        BY <2>12, <2>l, LocalType DEF Decide
      <3>2. updated \in Approval
        BY <1>t, <3>1 DEF TypeOK, Approval
      <3>3. [l EXCEPT !.pc = "record", !.approval = updated] \in Locals
        BY <3>1, <3>2 DEF Locals
      <3> QED BY <1>t, <2>12, <3>1, <3>2, <3>3 DEF TypeOK, Decide, Goto
    <2>13. ASSUME NEW outcome \in Outcomes, InvokeAction(h, outcome)
           PROVE  TypeOK'
      <3>1. l.case \in Cases /\ l.file \in Casefile
        BY <2>13, <2>l, LocalType DEF InvokeAction
      <3>2. [pc |-> "report", case |-> l.case, file |-> l.file,
             outcome |-> outcome] \in Locals
        BY <3>1 DEF Locals
      <3> QED BY <1>t, <2>13, <3>1, <3>2 DEF TypeOK, InvokeAction, Goto, store
    <2> QED BY <1>2, <2>1, <2>2, <2>3, <2>4, <2>5, <2>6, <2>7, <2>8, <2>9,
               <2>10, <2>11, <2>12, <2>13 DEF Step
  <1>3. ASSUME NEW c \in Cases, Investigating(c) PROVE TypeOK'
    <2>1. ASSUME NEW file \in Casefile,
                 NEW pc \in {"investigate", "dispatch", "request", "done"},
                 Advance(c, file, pc)
          PROVE  TypeOK'
      <3>1. [pc |-> pc, file |-> file] \in Investigation
        BY <2>1 DEF Investigation
      <3> QED BY <1>t, <2>1, <3>1 DEF TypeOK, Advance, Save
    <2>2. inv[c] # None => inv[c] \in Investigation
      BY <1>t DEF TypeOK
    <2>3. CASE DispatchRaises(c)
      <3>1. [inv[c] EXCEPT !.pc = "raised"] \in Investigation
        BY <2>2, <2>3 DEF DispatchRaises, Investigation
      <3> QED BY <1>t, <2>3, <3>1 DEF TypeOK, DispatchRaises, store
    <2>4. CASE RequestApproval(c)
      <3>1. [inv[c] EXCEPT !.pc = "await"] \in Investigation
        BY <2>2, <2>4 DEF RequestApproval, Investigation
      <3>2. [state |-> "pending", deadline_at |-> now + PendingTimeout,
             decided_at |-> None] \in Approval
        BY <1>t DEF TypeOK, Approval, Time
      <3> QED BY <1>t, <2>4, <3>1, <3>2 DEF TypeOK, RequestApproval
    <2> QED BY <1>3, <2>1, <2>3, <2>4, AdvanceType
  <1>4. CASE Tick
    BY <1>t, <1>4 DEF TypeOK, Tick, Time, store
  <1>5. CASE Crash
    <2>1. \A c \in Cases : Running(c) =>
             [inv[c] EXCEPT !.pc = "raised"] \in Investigation
      BY <1>t DEF TypeOK, Running, Investigation
    <2> QED BY <1>t, <1>i, <1>5, <2>1 DEF TypeOK, Crash, store
  <1>6. CASE UNCHANGED vars
    BY <1>t, <1>6 DEF TypeOK, vars
  <1> QED BY <1>1, <1>2, <1>3, <1>4, <1>5, <1>6 DEF Next

\* upsert_casefile never takes a row away.
LEMMA RowsStay ==
    IndInv /\ [Next]_vars =>
        \A c \in Cases : casefiles[c] # None => casefiles'[c] # None
  <1> SUFFICES ASSUME IndInv, [Next]_vars,
                      NEW c \in Cases, casefiles[c] # None
               PROVE  casefiles'[c] # None
    OBVIOUS
  <1>t. TypeOK
    BY DEF IndInv
  <1>1. ASSUME NEW d \in Cases, NEW file \in Casefile, Save(d, file)
        PROVE  casefiles'[c] # None
    BY <1>t, <1>1, NoneIsNoRow DEF TypeOK, Save
  <1>2. ASSUME NEW h \in Handlers, Step(h)
        PROVE  \/ UNCHANGED casefiles
               \/ \E d \in Cases, file \in Casefile : Save(d, file)
    <2>l. handlers[h] \in Locals
      BY <1>t DEF TypeOK
    <2>1. CASE CreateCasefile(h)
      BY <2>l, <2>1, FileType DEF CreateCasefile
    <2>2. CASE SaveRejection(h)
      BY <2>l, <2>2, LocalType, FileType DEF SaveRejection
    <2>3. CASE SaveExecuting(h)
      BY <2>l, <2>3, LocalType, FileType DEF SaveExecuting
    <2>4. CASE SaveOutcome(h)
      BY <2>l, <2>4, LocalType, FileType DEF SaveOutcome
    <2> QED BY <1>2, <2>1, <2>2, <2>3, <2>4
            DEF Step, SpawnInvestigation, RecordDecision, InvokeRaises,
                AuditAction, RefuseDecision, Expire, NotExpired, Decide,
                InvokeAction, store
  <1>3. ASSUME NEW d \in Cases, Investigating(d) PROVE casefiles'[c] # None
    BY <1>1, <1>3, AdvanceType
    DEF Advance, DispatchRaises, RequestApproval, store
  <1> QED BY <1>2, <1>3, <1>1 DEF Next, Request, Trigger, ReadApproval, Tick,
                                  Crash, vars, store

\* No row goes away, so what the copies rest on stays true.
LEMMA CopiesStep == IndInv /\ [Next]_vars => CopiesInv'
  <1> SUFFICES ASSUME IndInv, [Next]_vars PROVE CopiesInv'
    OBVIOUS
  <1> USE SizesAssumption, NoneIsNoRow
  <1>t. TypeOK /\ CopiesInv
    BY DEF IndInv
  <1>i. Idle.pc = "idle"
    BY DEF Idle
  <1>r. \A c \in Cases : casefiles[c] # None => casefiles'[c] # None
    BY RowsStay
  <1>1. ASSUME NEW h \in Handlers, Request(h) PROVE CopiesInv'
    <2>1. ASSUME NEW correlation \in Correlations, Trigger(h, correlation)
          PROVE CopiesInv'
      BY <1>t, <2>1 DEF TypeOK, CopiesInv, Trigger, Goto, store
    <2>2. ASSUME NEW c \in Cases, NEW action \in {"decision", "evaluate-timeout"},
                 ReadApproval(h, c, action)
          PROVE CopiesInv'
      BY <1>t, <2>2 DEF TypeOK, CopiesInv, ReadApproval, Goto, store
    <2> QED BY <1>1, <2>1, <2>2 DEF Request
  <1>2. ASSUME NEW h \in Handlers, Step(h) PROVE CopiesInv'
    <2> DEFINE l == handlers[h]
    <2>l. l \in Locals
      BY <1>t DEF TypeOK
    <2>k. \A g \in Handlers : handlers[g] \in Locals
      BY <1>t DEF TypeOK
    <2>c. \A g \in Handlers :
             handlers[g].pc \in {"spawn", "decision", "evaluate-timeout",
                                 "record"} => handlers[g].case \in Cases
      BY <2>k, LocalType
    <2>d. ASSUME NEW x, Goto(h, x), x.pc \in {"idle", "reject", "execute",
                                              "invoke", "report", "close"},
                 UNCHANGED <<approvals, inv>>
          PROVE  CopiesInv'
      BY <1>t, <1>r, <2>c, <2>d DEF TypeOK, CopiesInv, Goto
    <2>1. CASE CreateCasefile(h)
      <3> DEFINE file == NewFile(l.correlation)
      <3>1. PICK c \in Cases :
               /\ Save(c, file)
               /\ Goto(h, [pc |-> "spawn", case |-> c, file |-> file])
        BY <2>1 DEF CreateCasefile
      <3>2. file \in Casefile /\ file.outputs = 0
        BY <2>1, <2>l, FileType DEF CreateCasefile, NewFile
      <3>3. casefiles'[c] # None
        BY <1>t, <3>1, <3>2 DEF TypeOK, Save
      <3>4. UNCHANGED <<approvals, inv>>
        BY <2>1 DEF CreateCasefile
      <3> HIDE DEF file
      <3> QED BY <1>t, <1>r, <2>c, <3>1, <3>2, <3>3, <3>4
              DEF TypeOK, CopiesInv, Goto
    <2>2. CASE SpawnInvestigation(h)
      <3>1. l.case \in Cases /\ l.file \in Casefile
        BY <2>2, <2>l, LocalType DEF SpawnInvestigation
      <3> QED BY <1>t, <1>i, <2>2, <3>1
              DEF TypeOK, CopiesInv, SpawnInvestigation, Goto, store
    <2>3. CASE Expire(h)
      <3>1. l.case \in Cases /\ l.approval \in Approval
            /\ l \in [pc : {"decision", "evaluate-timeout", "record"},
                      case : Cases, approval : Approval]
        BY <2>3, <2>l, LocalType DEF Expire
      <3> QED BY <1>t, <1>r, <2>c, <2>3, <3>1
              DEF TypeOK, CopiesInv, Expire, Goto, Approval
    <2>4. ASSUME NEW decision \in {"approved", "rejected"},
                 Decide(h, decision)
          PROVE  CopiesInv'
      <3>1. l.case \in Cases /\ l.approval \in Approval
            /\ l \in [pc : {"decision", "evaluate-timeout", "record"},
                      case : Cases, approval : Approval]
        BY <2>4, <2>l, LocalType DEF Decide
      <3> QED BY <1>t, <1>r, <2>c, <2>4, <3>1
              DEF TypeOK, CopiesInv, Decide, Goto, Approval
    <2>5. CASE \/ RecordDecision(h) \/ SaveRejection(h) \/ SaveExecuting(h)
               \/ InvokeRaises(h) \/ SaveOutcome(h)
               \/ RefuseDecision(h) \/ NotExpired(h)
      BY <1>i, <2>5, <2>d
      DEF RecordDecision, SaveRejection, SaveExecuting, InvokeRaises,
          SaveOutcome, RefuseDecision, NotExpired, store
    <2>6. CASE AuditAction(h)
      <3>1. [l EXCEPT !.pc = "close"].pc = "close"
        BY <2>6, <2>l, LocalType DEF AuditAction
      <3> QED BY <2>6, <2>d, <3>1 DEF AuditAction
    <2>7. ASSUME NEW outcome \in Outcomes, InvokeAction(h, outcome)
          PROVE  CopiesInv'
      BY <2>7, <2>d DEF InvokeAction, store
    <2> QED BY <1>2, <2>1, <2>2, <2>3, <2>4, <2>5, <2>6, <2>7 DEF Step
  <1>3. ASSUME NEW c \in Cases, Investigating(c) PROVE CopiesInv'
    <2>1. \A g \in Handlers :
             handlers[g].pc \in {"spawn", "decision", "evaluate-timeout",
                                 "record"} => handlers[g].case \in Cases
      <3>1. \A g \in Handlers : handlers[g] \in Locals
        BY <1>t DEF TypeOK
      <3> QED BY <3>1, LocalType
    <2>2. /\ handlers' = handlers
          /\ inv[c] # None
          /\ \A d \in Cases : approvals'[d] # None =>
                approvals[d] # None \/ d = c
      BY <1>t, <1>3
      DEF TypeOK, Investigating, Triage, Investigate, Dispatch,
          DispatchRaises, RequestApproval, AwaitApproval, Advance, store
    <2>3. inv[c] \in Investigation /\ inv[c].file \in Casefile
      BY <1>t, <2>2 DEF TypeOK, Investigation
    <2>4. /\ \A d \in Cases \ {c} : inv'[d] = inv[d]
          /\ inv'[c].pc \in {"triage", "investigate"} =>
                inv'[c].file.outputs = 0
          /\ inv'[c].pc = "dispatch" => inv'[c].file.outputs < Specialists
      <3>1. CASE Triage(c)
        <4>1. inv' = [inv EXCEPT ![c] = [pc |-> "investigate",
                         file |-> [inv[c].file EXCEPT !.status = "triaging"]]]
          BY <3>1 DEF Triage, Advance
        <4>2. [inv[c].file EXCEPT !.status = "triaging"].outputs = 0
          BY <1>t, <2>3, <3>1 DEF CopiesInv, Triage, Casefile
        <4> QED BY <1>t, <4>1, <4>2 DEF TypeOK
      <3>2. CASE Investigate(c)
        <4>1. inv' = [inv EXCEPT ![c] = [pc |-> IF Specialists = 0 THEN "request" ELSE "dispatch",
                         file |-> [inv[c].file EXCEPT !.status = "investigating"]]]
          BY <3>2 DEF Investigate, Advance
        <4>2. [inv[c].file EXCEPT !.status = "investigating"].outputs = 0
          BY <1>t, <2>3, <3>2 DEF CopiesInv, Investigate, Casefile
        <4>3. Specialists # 0 => 0 < Specialists
          BY SizesAssumption
        <4> QED BY <1>t, <4>1, <4>2, <4>3 DEF TypeOK
      <3>3. CASE Dispatch(c)
        <4>1. inv' = [inv EXCEPT ![c] =
                        [pc |-> IF inv[c].file.outputs + 1 = Specialists
                                THEN "request" ELSE "dispatch",
                         file |-> [inv[c].file EXCEPT !.outputs = @ + 1]]]
              /\ inv[c].pc = "dispatch" /\ inv[c] # None
          BY <3>3 DEF Dispatch, Advance
        <4>2. [inv[c].file EXCEPT !.outputs = @ + 1].outputs = inv[c].file.outputs + 1
          BY <2>3 DEF Casefile
        <4>3. inv[c].file.outputs \in Nat /\ inv[c].file.outputs < Specialists
          BY <1>t, <2>3, <4>1 DEF CopiesInv, Casefile
        <4> DEFINE file == [inv[c].file EXCEPT !.outputs = @ + 1]
        <4>4. /\ \A d \in Cases \ {c} : inv'[d] = inv[d]
              /\ inv'[c].file = file
              /\ inv'[c].pc = IF inv[c].file.outputs + 1 = Specialists
                              THEN "request" ELSE "dispatch"
          BY <1>t, <4>1 DEF TypeOK
        <4>5. file.outputs = inv[c].file.outputs + 1
          BY <4>2
        <4> HIDE DEF file
        <4> QED BY <4>3, <4>4, <4>5, SizesAssumption
      <3>4. CASE DispatchRaises(c) \/ RequestApproval(c) \/ AwaitApproval(c)
        BY <1>t, <2>3, <3>4
        DEF TypeOK, DispatchRaises, RequestApproval, AwaitApproval, Advance,
            Investigation
      <3> QED BY <1>3, <3>1, <3>2, <3>3, <3>4 DEF Investigating
    <2> QED BY <1>t, <1>r, <2>1, <2>2, <2>4 DEF TypeOK, CopiesInv
  <1>4. CASE Tick
    BY <1>t, <1>4 DEF CopiesInv, Tick, store
  <1>5. CASE Crash
    BY <1>t, <1>i, <1>5 DEF TypeOK, CopiesInv, Crash, Running, Investigation,
                            store
  <1>6. CASE UNCHANGED vars
    BY <1>t, <1>6 DEF CopiesInv, vars
  <1> QED BY <1>1, <1>2, <1>3, <1>4, <1>5, <1>6 DEF Next

(***************************************************************************)
(* Every row of the three tables and every copy a thread holds is          *)
(* well-formed: no report is counted twice, no journal entry or approval   *)
(* state outside the schema is ever written.                               *)
(***************************************************************************)
THEOREM ControllerTypeCorrect == Spec => []TypeOK
  <1>1. IndInv /\ [Next]_vars => IndInv'
    BY TypeStep, CopiesStep DEF IndInv
  <1>2. IndInv => TypeOK
    BY DEF IndInv
  <1> QED BY InitIndInv, <1>1, <1>2, PTL DEF Spec

-----------------------------------------------------------------------------
(***************************************************************************)
(* ActionsAreApproved is not inductive: it does not know of the requests   *)
(* between the audit record of an approval and the tool call.  Each of     *)
(* them stands for one approval that is not used up yet.                   *)
(***************************************************************************)
Going(c) == {h \in Handlers : /\ handlers[h].pc \in {"execute", "invoke"}
                             /\ handlers[h].case = c}

ApprovedInv ==
    \A c \in Cases : executions[c] + Cardinality(Going(c)) <= audit[c]["approved"]

\* The requests on their way to the tool are finitely many.
LEMMA GoingFinite ==
    \A c : IsFiniteSet(Going(c)) /\ Cardinality(Going(c)) \in Nat
  BY HandlersAssumption, FS_Subset, FS_CardinalityType DEF Going

\* One request changes its locals: it joins or leaves the ones going on.
LEMMA GoingStep ==
    ASSUME TypeOK, NEW h \in Handlers, NEW x, Goto(h, x), NEW c
    PROVE  /\ ~(x.pc \in {"execute", "invoke"} /\ x.case = c) =>
                 Cardinality(Going(c)') =
                   IF h \in Going(c) THEN Cardinality(Going(c)) - 1
                                     ELSE Cardinality(Going(c))
           /\ Cardinality(Going(c)') \in Nat
           /\ Cardinality(Going(c)') <= Cardinality(Going(c)) + 1
           /\ h \in Going(c) => Cardinality(Going(c)') <= Cardinality(Going(c))
  <1>1. \A g \in Handlers : handlers'[g] = IF g = h THEN x ELSE handlers[g]
    BY DEF TypeOK, Goto
  <1>2. CASE x.pc \in {"execute", "invoke"} /\ x.case = c
    <2>1. Going(c)' = Going(c) \cup {h}
      BY <1>1, <1>2 DEF Going
    <2>2. IsFiniteSet(Going(c)) /\ Cardinality(Going(c)) \in Nat
      BY GoingFinite
    <2>3. Cardinality(Going(c)') = IF h \in Going(c) THEN Cardinality(Going(c))
                                   ELSE Cardinality(Going(c)) + 1
      BY <2>1, <2>2, FS_AddElement, Zenon
    <2> QED BY <1>2, <2>2, <2>3
  <1>3. CASE ~(x.pc \in {"execute", "invoke"} /\ x.case = c)
    <2>1. Going(c)' = Going(c) \ {h}
      BY <1>1, <1>3 DEF Going
    <2>2. h \in Going(c) => Cardinality(Going(c)) # 0
      BY GoingFinite, FS_EmptySet
    <2>3. Cardinality(Going(c) \ {h}) =
             IF h \in Going(c) THEN Cardinality(Going(c)) - 1
                               ELSE Cardinality(Going(c))
      BY GoingFinite, FS_RemoveElement
    <2>4. Cardinality(Going(c)) \in Nat
      BY GoingFinite
    <2> QED BY <1>3, <2>1, <2>2, <2>3, <2>4
  <1> QED BY <1>2, <1>3

\* Every step keeps the count of approvals ahead of the count of actions.
LEMMA ApprovedStep ==
    IndInv /\ ApprovedInv /\ [Next]_vars => ApprovedInv'
  <1> SUFFICES ASSUME IndInv, ApprovedInv, [Next]_vars, NEW c \in Cases
               PROVE  (executions[c] + Cardinality(Going(c))
                          <= audit[c]["approved"])'
    BY DEF ApprovedInv
  <1>t. /\ TypeOK
        /\ executions[c] \in Nat /\ audit[c]["approved"] \in Nat
        /\ executions[c] + Cardinality(Going(c)) <= audit[c]["approved"]
        /\ Cardinality(Going(c)) \in Nat
    BY GoingFinite DEF IndInv, TypeOK, ApprovedInv, AuditEvents
  <1>i. Idle.pc = "idle"
    BY DEF Idle
  <1>1. ASSUME NEW h \in Handlers, NEW x, Goto(h, x),
               x.pc \notin {"execute", "invoke"},
               executions' = executions,
               audit'[c]["approved"] = audit[c]["approved"]
        PROVE  (executions[c] + Cardinality(Going(c)) <= audit[c]["approved"])'
    BY <1>t, <1>1, GoingStep
  <1>2. ASSUME UNCHANGED <<handlers, executions, audit>>
        PROVE  (executions[c] + Cardinality(Going(c)) <= audit[c]["approved"])'
    BY <1>t, <1>2 DEF Going
  <1>3. ASSUME NEW h \in Handlers, Step(h)
        PROVE  (executions[c] + Cardinality(Going(c)) <= audit[c]["approved"])'
    <2> DEFINE l == handlers[h]
    <2>l. l \in Locals
      BY <1>t DEF TypeOK
    <2>1. CASE \/ CreateCasefile(h) \/ SpawnInvestigation(h)
               \/ SaveRejection(h) \/ SaveOutcome(h) \/ RefuseDecision(h)
               \/ NotExpired(h)
      BY <1>t, <1>i, <1>1, <2>1
      DEF CreateCasefile, SpawnInvestigation, SaveRejection, SaveOutcome,
          RefuseDecision, NotExpired, store
    <2>2. CASE Expire(h)
      <3>1. [l EXCEPT !.pc = "record", !.approval =
               [l.approval EXCEPT !.state = "expired"]].pc = "record"
        BY <2>2, <2>l, LocalType DEF Expire
      <3> QED BY <1>t, <1>1, <2>2, <3>1 DEF Expire
    <2>3. ASSUME NEW decision \in {"approved", "rejected"},
                 Decide(h, decision)
          PROVE  (executions[c] + Cardinality(Going(c))
                     <= audit[c]["approved"])'
      <3>1. [l EXCEPT !.pc = "record", !.approval =
               [l.approval EXCEPT !.state = decision,
                                  !.decided_at = now]].pc = "record"
        BY <2>3, <2>l, LocalType DEF Decide
      <3> QED BY <1>t, <1>1, <2>3, <3>1 DEF Decide
    <2>4. CASE AuditAction(h)
      <3>1. l.outcome \in Outcomes /\ [l EXCEPT !.pc = "close"].pc = "close"
        BY <2>4, <2>l, LocalType DEF AuditAction
      <3>2. audit'[c]["approved"] = audit[c]["approved"]
        BY <1>t, <2>4, <3>1 DEF TypeOK, AuditAction, Audit, Outcomes
      <3> QED BY <1>t, <1>1, <2>4, <3>1, <3>2 DEF AuditAction
    <2>5. CASE RecordDecision(h)
      <3>1. l.case \in Cases
        BY <2>5, <2>l, LocalType DEF RecordDecision
      <3>2. CASE l.approval.state = "approved" /\ l.case = c
        <4>1. audit'[c]["approved"] = audit[c]["approved"] + 1
          BY <1>t, <2>5, <3>2 DEF TypeOK, RecordDecision, Audit, AuditEvents
        <4> QED BY <1>t, <2>5, <4>1, GoingStep DEF RecordDecision
      <3>3. CASE ~(l.approval.state = "approved" /\ l.case = c)
        <4>1. audit'[c]["approved"] = audit[c]["approved"]
          BY <1>t, <2>5, <3>1, <3>3 DEF TypeOK, RecordDecision, Audit
        <4> QED BY <1>t, <2>5, <3>3, <4>1, GoingStep DEF RecordDecision
      <3> QED BY <3>2, <3>3
    <2>6. CASE SaveExecuting(h)
      <3>1. l.case = c => h \in Going(c)
        BY <2>6 DEF SaveExecuting, Going
      <3> QED BY <1>t, <2>6, <3>1, GoingStep DEF SaveExecuting
    <2>7. CASE InvokeRaises(h) \/ \E outcome \in Outcomes : InvokeAction(h, outcome)
      <3>1. l.case \in Cases
        BY <2>7, <2>l, LocalType DEF InvokeRaises, InvokeAction
      <3>2. /\ executions'[c] \in Nat
            /\ executions'[c] <= executions[c] + 1
            /\ l.case # c => executions'[c] = executions[c]
        <4>1. CASE InvokeRaises(h)
          BY <1>t, <3>1, <4>1 DEF TypeOK, InvokeRaises
        <4>2. CASE \E outcome \in Outcomes : InvokeAction(h, outcome)
          BY <1>t, <3>1, <4>2 DEF TypeOK, InvokeAction
        <4> QED BY <2>7, <4>1, <4>2
      <3>3. /\ audit' = audit
            /\ \E x : Goto(h, x) /\ x.pc \in {"idle", "report"}
        <4>1. CASE InvokeRaises(h)
          BY <1>i, <4>1 DEF InvokeRaises, store
        <4>2. ASSUME NEW outcome \in Outcomes, InvokeAction(h, outcome)
              PROVE  /\ audit' = audit
                     /\ \E x : Goto(h, x) /\ x.pc \in {"idle", "report"}
          <5>1. Goto(h, [pc |-> "report", case |-> l.case, file |-> l.file,
                         outcome |-> outcome])
            BY <4>2 DEF InvokeAction
          <5> QED BY <4>2, <5>1 DEF InvokeAction, store
        <4> QED BY <2>7, <4>1, <4>2
      <3>4. l.case = c => h \in Going(c)
        BY <2>7 DEF InvokeRaises, InvokeAction, Going
      <3> QED BY <1>t, <3>2, <3>3, <3>4, GoingStep
    <2> QED BY <1>3, <2>1, <2>2, <2>3, <2>4, <2>5, <2>6, <2>7 DEF Step
  <1>4. ASSUME NEW h \in Handlers, Request(h)
        PROVE  (executions[c] + Cardinality(Going(c)) <= audit[c]["approved"])'
    BY <1>t, <1>1, <1>4 DEF Request, Trigger, ReadApproval, store
  <1>5. ASSUME NEW d \in Cases, Investigating(d)
        PROVE  (executions[c] + Cardinality(Going(c)) <= audit[c]["approved"])'
    BY <1>2, <1>5
    DEF Investigating, Triage, Investigate, Dispatch, DispatchRaises,
        RequestApproval, AwaitApproval, Advance, store
  <1>6. CASE Crash
    <2>1. Going(c)' = {}
      BY <1>i, <1>6 DEF Going, Crash
    <2> QED BY <1>t, <1>6, <2>1, FS_EmptySet DEF Crash, store
  <1>7. CASE Tick \/ UNCHANGED vars
    BY <1>2, <1>7 DEF Tick, vars, store
  <1> QED BY <1>3, <1>4, <1>5, <1>6, <1>7 DEF Next

(***************************************************************************)
(* The write action is never carried out more often than humans approved   *)
(* it on the audit trail, for any number of concurrent decisions, timeouts *)
(* and restarts.                                                           *)
(***************************************************************************)
THEOREM WritesAreApproved == Spec => []ActionsAreApproved
  <1>1. Init => ApprovedInv
    <2> SUFFICES ASSUME Init, NEW c \in Cases
                 PROVE  executions[c] + Cardinality(Going(c))
                           <= audit[c]["approved"]
      BY DEF ApprovedInv
    <2>1. Going(c) = {}
      BY DEF Init, Going, Idle
    <2> QED BY <2>1, FS_EmptySet DEF Init, AuditEvents
  <1>2. IndInv /\ [Next]_vars => IndInv'
    BY TypeStep, CopiesStep DEF IndInv
  <1>3. IndInv /\ ApprovedInv => ActionsAreApproved
    BY GoingFinite
    DEF IndInv, ApprovedInv, ActionsAreApproved, TypeOK, AuditEvents
  <1> QED BY InitIndInv, <1>1, <1>2, ApprovedStep, <1>3, PTL DEF Spec

-----------------------------------------------------------------------------
(***************************************************************************)
(* One casefile at a time, as long as no two threads work on it at once.   *)
(* The invariant says how its rows agree, depending on who is at work on   *)
(* it: its investigation, the request that carries out a decision, or      *)
(* nobody.                                                                 *)
(***************************************************************************)
StatusAt(pc) ==
    CASE pc = "triage" -> "open"
      [] pc = "investigate" -> "triaging"
      [] OTHER -> "investigating"

\* What a request does once the decision is in the approvals table.
Carrying == {"record", "execute", "reject", "invoke", "report", "close"}

\* No request carries out a decision on c.
NoCarrier(c) ==
    \A h \in Handlers : handlers[h].pc \in Carrying => handlers[h].case # c

Pending(c) == approvals[c] # None /\ approvals[c].state = "pending"

\* The case is as its investigation left it: complete, or cut off by a crash
\* between insert_approval and the save that follows.
Undecided(c) ==
    /\ \/ /\ casefiles[c].status = "awaiting-approval"
          /\ casefiles[c].approval = "pending"
       \/ /\ crashes # 0
          /\ casefiles[c].status = "investigating"
    /\ casefiles[c].journal = <<>>
    /\ executions[c] = 0

\* The decision is on the case record.
Recorded(c) ==
    /\ casefiles[c].approval = approvals[c].state
    /\ executions[c] <= 1
    /\ casefiles[c].status # "awaiting-approval"
    /\ approvals[c].state # "approved" =>
          /\ casefiles[c].status = "rejected"
          /\ casefiles[c].journal = <<"blocked">>

CaseInv(c) ==
    /\ casefiles[c] = None => executions[c] = 0
    /\ Running(c) =>
          /\ casefiles[c] = inv[c].file
          /\ inv[c].file.status = StatusAt(inv[c].pc)
          /\ inv[c].file.journal = <<>>
          /\ executions[c] = 0
          /\ inv[c].pc = "await" => Pending(c)
          /\ inv[c].pc # "await" => approvals[c] = None
    /\ ~Running(c) /\ Pending(c) => Undecided(c)
    /\ (/\ approvals[c] # None /\ approvals[c].state # "pending"
        /\ NoCarrier(c) /\ crashes = 0) => Recorded(c)

LocalInv(l) ==
    /\ l.pc = "spawn" =>
          /\ inv[l.case] = None /\ approvals[l.case] = None
          /\ executions[l.case] = 0
          /\ casefiles[l.case] = l.file
          /\ l.file.status = "open" /\ l.file.journal = <<>>
    /\ l.pc \in Carrying \cup {"decision", "evaluate-timeout"} =>
          ~Running(l.case)
    /\ l.pc \in {"decision", "evaluate-timeout", "record", "execute", "reject"} =>
          approvals[l.case] = l.approval
    /\ l.pc \in {"record", "execute", "reject"} => Undecided(l.case)
    /\ l.pc \in {"execute", "reject"} => casefiles[l.case] = l.file
    /\ l.pc = "execute" => l.approval.state = "approved"
    /\ l.pc = "reject" => l.approval.state \in {"rejected", "expired"}
    /\ l.pc \in {"invoke", "report", "close"} =>
          /\ approvals[l.case] # None /\ approvals[l.case].state = "approved"
          /\ casefiles[l.case] = l.file
          /\ l.file.status = "executing" /\ l.file.approval = "approved"
          /\ executions[l.case] <= 1
    /\ l.pc = "invoke" => executions[l.case] = 0

\* At most one request is at work on c, and its copies are what the rows hold.
Serial(c) ==
    /\ CaseInv(c)
    /\ \A g, h \in Handlers : On(g, c) /\ On(h, c) => g = h
    /\ \A h \in Handlers : On(h, c) => LocalInv(handlers[h])

SerialInv == \A c \in Cases \ contested : Serial(c)

-----------------------------------------------------------------------------

\* What CaseInv says of a case is about its rows, its thread and its carrier.
LEMMA CaseFrame ==
  ASSUME NEW c \in Cases, CaseInv(c),
         casefiles'[c] = casefiles[c], approvals'[c] = approvals[c],
         executions'[c] = executions[c], inv'[c] = inv[c], crashes' = crashes,
         NoCarrier(c)' => NoCarrier(c)
  PROVE  CaseInv(c)'
  BY DEF CaseInv, Running, Pending, Undecided, Recorded

LEMMA IdleIsIdle == Idle.pc = "idle"
  BY DEF Idle

\* Whoever carries out a decision is at work on its case.
LEMMA CarriersAreOn ==
  ASSUME NEW c, NEW h \in Handlers, handlers[h].pc \in Carrying, handlers[h].case = c
  PROVE  On(h, c)
  BY DEF On, Carrying

\* Work on other cases leaves everything about this one as it is.
LEMMA SerialFrame ==
  ASSUME NEW c \in Cases, Serial(c),
         casefiles'[c] = casefiles[c], approvals'[c] = approvals[c],
         executions'[c] = executions[c], inv'[c] = inv[c], crashes' = crashes,
         \A h \in Handlers : On(h, c) \/ On(h, c)' => handlers'[h] = handlers[h]
  PROVE  Serial(c)'
  <1>1. \A h \in Handlers : On(h, c)' <=> On(h, c)
    BY DEF On
  <1>2. NoCarrier(c)' => NoCarrier(c)
    BY CarriersAreOn DEF NoCarrier
  <1>3. CaseInv(c)'
    BY <1>2, CaseFrame DEF Serial
  <1>4. ASSUME NEW h \in Handlers, On(h, c)' PROVE LocalInv(handlers[h])'
    <2>1. PICK l : l = handlers[h]
      OBVIOUS
    <2>2. LocalInv(l) /\ handlers'[h] = l /\ l.case = c
      BY <1>1, <1>4, <2>1 DEF Serial, On
    <2>3. LocalInv(l)'
      BY <2>2 DEF LocalInv, Running, Undecided
    <2> QED BY <2>2, <2>3
  <1> QED BY <1>1, <1>3, <1>4 DEF Serial

\* A request alone on its case goes on or begins: the rest of the invariant.
LEMMA AloneStep ==
  ASSUME TypeOK, NEW h \in Handlers, NEW x, Goto(h, x), NEW c \in Cases,
         \A g \in Handlers \ {h} : ~On(g, c),
         LocalInv(x)', CaseInv(c)'
  PROVE  Serial(c)'
  <1>1. \A g \in Handlers : handlers'[g] = IF g = h THEN x ELSE handlers[g]
    BY DEF TypeOK, Goto
  <1>2. \A g \in Handlers \ {h} : ~On(g, c)'
    BY <1>1 DEF On
  <1>3. handlers'[h] = x
    BY <1>1
  <1> QED BY <1>2, <1>3 DEF Serial

\* Who carries out a decision on c, when one request is at work on it.
LEMMA CarrierStep ==
  ASSUME TypeOK, NEW h \in Handlers, NEW x, Goto(h, x), NEW c,
         \A g \in Handlers \ {h} : ~On(g, c)
  PROVE  /\ NoCarrier(c) <=> (handlers[h].pc \in Carrying => handlers[h].case # c)
         /\ NoCarrier(c)' <=> (x.pc \in Carrying => x.case # c)
  <1>1. \A g \in Handlers : handlers'[g] = IF g = h THEN x ELSE handlers[g]
    BY DEF TypeOK, Goto
  <1> QED BY <1>1 DEF NoCarrier, On, Carrying

\* A request that changes no row and whose work on a decision is unchanged.
LEMMA NoRowStep ==
  ASSUME TypeOK, NEW c \in Cases, Serial(c), NEW h \in Handlers, NEW x, Goto(h, x),
         \A g \in Handlers \ {h} : ~On(g, c),
         handlers[h].pc \in Carrying => x.pc \in Carrying /\ x.case = handlers[h].case,
         UNCHANGED <<casefiles, approvals, executions, inv, crashes>>,
         LocalInv(x)'
  PROVE  Serial(c)'
  <1>1. NoCarrier(c)' => NoCarrier(c)
    BY CarrierStep
  <1>2. CaseInv(c)'
    BY <1>1, CaseFrame DEF Serial
  <1> QED BY <1>2, AloneStep

-----------------------------------------------------------------------------

\* Whoever is at work on a case found its row.
LEMMA OnHasRow ==
  ASSUME IndInv, NEW c \in Cases, Serial(c), NEW h \in Handlers, On(h, c)
  PROVE  casefiles[c] # None
  <1>1. handlers[h] \in Locals /\ LocalInv(handlers[h]) /\ CopiesInv
    BY DEF IndInv, TypeOK, Serial
  <1>2. handlers[h].case = c
    BY DEF On
  <1>3. CASE handlers[h].pc \in {"spawn", "decision", "evaluate-timeout", "record"}
    BY <1>1, <1>2, <1>3 DEF CopiesInv
  <1>4. CASE handlers[h].pc \in {"execute", "reject", "invoke", "report", "close"}
    BY <1>1, <1>2, <1>4, LocalType, NoneIsNoRow DEF LocalInv
  <1>5. handlers[h].pc \in Carrying \cup {"spawn", "decision", "evaluate-timeout"}
    BY <1>1 DEF On, Locals, Idle, Carrying
  <1> QED BY <1>3, <1>4, <1>5 DEF Carrying

\* A new request.
LEMMA SerialRequest ==
  ASSUME IndInv, SerialInv, NEW h \in Handlers, Request(h)
  PROVE  SerialInv'
  <1>0. TypeOK
    BY DEF IndInv
  <1>1. ASSUME NEW k \in Correlations, Trigger(h, k), NEW c \in Cases \ contested'
        PROVE  Serial(c)'
    <2>1. PICK x : x = [pc |-> "create", correlation |-> k]
      OBVIOUS
    <2>2. /\ Goto(h, x) /\ handlers[h] = Idle /\ contested' = contested
          /\ UNCHANGED <<casefiles, approvals, executions, inv, crashes>>
      BY <1>1, <2>1 DEF Trigger, store
    <2>3. x.pc = "create"
      BY <2>1
    <2>4. \A g \in Handlers : handlers'[g] = IF g = h THEN x ELSE handlers[g]
      BY <1>0, <2>2 DEF TypeOK, Goto
    <2>5. \A g \in Handlers : On(g, c) \/ On(g, c)' => handlers'[g] = handlers[g]
      BY <2>2, <2>3, <2>4, IdleIsIdle DEF On
    <2>6. Serial(c)
      BY <1>1, <2>2 DEF SerialInv
    <2> QED BY <1>1, <2>2, <2>5, <2>6, SerialFrame
  <1>2. ASSUME NEW d \in Cases, NEW action \in {"decision", "evaluate-timeout"},
               ReadApproval(h, d, action), NEW c \in Cases \ contested'
        PROVE  Serial(c)'
    <2>1. PICK x : x = [pc |-> action, case |-> d, approval |-> approvals[d]]
      OBVIOUS
    <2>2. /\ Goto(h, x) /\ handlers[h] = Idle
          /\ UNCHANGED <<casefiles, approvals, executions, inv, crashes>>
      BY <1>2, <2>1 DEF ReadApproval, store
    <2>3. x.pc = action /\ x.case = d /\ x.approval = approvals[d]
      BY <2>1
    <2>4. \A g \in Handlers : handlers'[g] = IF g = h THEN x ELSE handlers[g]
      BY <1>0, <2>2 DEF TypeOK, Goto
    <2>5. Serial(c)
      BY <1>2 DEF ReadApproval, SerialInv
    <2>6. CASE c # d
      <3>1. \A g \in Handlers : On(g, c) \/ On(g, c)' => handlers'[g] = handlers[g]
        BY <2>2, <2>3, <2>4, <2>6, IdleIsIdle DEF On
      <3> QED BY <1>2, <2>2, <2>5, <3>1, SerialFrame
    <2>7. CASE c = d
      <3>1. ~Running(c) /\ \A g \in Handlers : ~On(g, c)
        BY <1>2, <2>7 DEF ReadApproval
      <3>2. LocalInv(x)'
        BY <2>2, <2>3, <2>7, <3>1 DEF LocalInv, Carrying, Running
      <3> QED BY <1>0, <2>2, <2>5, <3>1, <3>2, IdleIsIdle, NoRowStep DEF Carrying
    <2> QED BY <2>6, <2>7
  <1> QED BY <1>1, <1>2 DEF Request, SerialInv

\* POST /triggers goes on: the casefile gets a row nobody knows of.
LEMMA SerialCreate ==
  ASSUME IndInv, SerialInv, NEW h \in Handlers, CreateCasefile(h)
  PROVE  SerialInv'
  <1>0. TypeOK /\ CopiesInv /\ handlers[h] \in Locals
    BY DEF IndInv, TypeOK
  <1>1. PICK k : k = handlers[h].correlation
    OBVIOUS
  <1>2. PICK d \in Cases :
           /\ casefiles[d] = None
           /\ Save(d, NewFile(k))
           /\ Goto(h, [pc |-> "spawn", case |-> d, file |-> NewFile(k)])
    BY <1>1 DEF CreateCasefile
  <1>3. PICK file : file = NewFile(k)
    OBVIOUS
  <1>4. PICK x : x = [pc |-> "spawn", case |-> d, file |-> file]
    OBVIOUS
  <1>5. /\ x.pc = "spawn" /\ x.case = d /\ x.file = file
        /\ file.status = "open" /\ file.journal = <<>>
    BY <1>3, <1>4 DEF NewFile
  <1>6. file \in Casefile /\ file # None
    BY <1>0, <1>1, <1>3, FileType, NoneIsNoRow DEF CreateCasefile
  <1>7. /\ handlers[h].pc = "create" /\ Goto(h, x)
        /\ UNCHANGED <<approvals, executions, inv, contested, crashes>>
        /\ casefiles' = [casefiles EXCEPT ![d] = file]
    BY <1>2, <1>3, <1>4 DEF CreateCasefile, Save, races
  <1>8. casefiles'[d] = file /\ \A c \in Cases \ {d} : casefiles'[c] = casefiles[c]
    BY <1>0, <1>7 DEF TypeOK
  <1>9. \A g \in Handlers : handlers'[g] = IF g = h THEN x ELSE handlers[g]
    BY <1>0, <1>7 DEF TypeOK, Goto
  <1>10. ASSUME NEW c \in Cases, Serial(c), c # d
         PROVE  Serial(c)'
    <2>1. \A g \in Handlers : On(g, c) \/ On(g, c)' => handlers'[g] = handlers[g]
      BY <1>5, <1>7, <1>9, <1>10 DEF On
    <2> QED BY <1>7, <1>8, <1>10, <2>1, SerialFrame
  <1>11. ASSUME Serial(d)
         PROVE  Serial(d)'
    <2>1. inv[d] = None /\ approvals[d] = None /\ executions[d] = 0
      BY <1>0, <1>2, <1>11 DEF CopiesInv, Serial, CaseInv
    <2>2. LocalInv(x)'
      BY <1>5, <1>7, <1>8, <2>1 DEF LocalInv, Carrying
    <2>3. CaseInv(d)'
      BY <1>6, <1>7, <1>8, <2>1 DEF CaseInv, Running, Pending
    <2>4. \A g \in Handlers : ~On(g, d)
      BY <1>2, <1>11, OnHasRow
    <2> QED BY <1>0, <1>7, <2>2, <2>3, <2>4, AloneStep
  <1> QED BY <1>7, <1>10, <1>11 DEF SerialInv

\* The thread of the investigation is started.
LEMMA SerialSpawn ==
  ASSUME IndInv, NEW c \in Cases, Serial(c), NEW h \in Handlers, On(h, c),
         SpawnInvestigation(h)
  PROVE  Serial(c)'
  <1>0. TypeOK /\ CopiesInv /\ handlers[h] \in Locals /\ LocalInv(handlers[h])
    BY DEF IndInv, TypeOK, Serial
  <1>1. c = handlers[h].case /\ \A g \in Handlers \ {h} : ~On(g, c)
    BY DEF On, Serial
  <1>2. PICK file \in Casefile : file = handlers[h].file
    BY <1>0, LocalType DEF SpawnInvestigation
  <1>3. /\ handlers[h].pc = "spawn" /\ Goto(h, Idle)
        /\ UNCHANGED <<casefiles, approvals, executions, crashes>>
        /\ inv' = [inv EXCEPT ![c] = [pc |-> "triage", file |-> file]]
    BY <1>1, <1>2 DEF SpawnInvestigation, store
  <1>4. inv'[c] = [pc |-> "triage", file |-> file]
    BY <1>0, <1>3 DEF TypeOK
  <1>5. /\ approvals[c] = None /\ executions[c] = 0 /\ casefiles[c] = file
        /\ file.status = "open" /\ file.journal = <<>>
    BY <1>0, <1>1, <1>2, <1>3 DEF LocalInv
  <1>6. inv'[c].pc = "triage" /\ inv'[c].file = file
    BY <1>4
  <1>7. CaseInv(c)'
    BY <1>3, <1>5, <1>6 DEF CaseInv, Running, Pending, StatusAt
  <1>8. PICK x : x = Idle
    OBVIOUS
  <1>9. LocalInv(x)'
    BY <1>8, IdleIsIdle DEF LocalInv, Carrying
  <1> QED BY <1>0, <1>1, <1>3, <1>7, <1>8, <1>9, AloneStep

\* A decision or a timeout is written to the approval it was read from.
LEMMA SerialDecided ==
  ASSUME IndInv, NEW c \in Cases, Serial(c), NEW h \in Handlers, On(h, c),
         NEW updated \in Approval, updated.state # "pending",
         handlers[h].pc \in {"decision", "evaluate-timeout"},
         handlers[h].approval.state = "pending",
         approvals' = [approvals EXCEPT ![handlers[h].case] = updated],
         Goto(h, [handlers[h] EXCEPT !.pc = "record", !.approval = updated]),
         UNCHANGED <<casefiles, executions, inv, crashes>>
  PROVE  Serial(c)'
  <1>0. TypeOK /\ handlers[h] \in Locals /\ LocalInv(handlers[h])
    BY DEF IndInv, TypeOK, Serial
  <1>1. handlers[h] \in [pc : {"decision", "evaluate-timeout", "record"},
                         case : Cases, approval : Approval]
    BY <1>0, LocalType
  <1>2. c = handlers[h].case /\ \A g \in Handlers \ {h} : ~On(g, c)
    BY DEF On, Serial
  <1>3. PICK x : x = [handlers[h] EXCEPT !.pc = "record", !.approval = updated]
    OBVIOUS
  <1>4. x.pc = "record" /\ x.case = c /\ x.approval = updated
    BY <1>1, <1>2, <1>3
  <1>5. approvals'[c] = updated
    BY <1>0, <1>2 DEF TypeOK
  <1>6. /\ ~Running(c) /\ approvals[c] = handlers[h].approval
        /\ handlers[h].approval \in Approval
    BY <1>0, <1>1, <1>2 DEF LocalInv, Carrying
  <1>7. Undecided(c)
    BY <1>6, NoneIsNoRow DEF Serial, CaseInv, Pending
  <1>8. ~Running(c)' /\ Undecided(c)' /\ ~Pending(c)'
    BY <1>5, <1>6, <1>7 DEF Running, Undecided, Pending
  <1>9. Goto(h, x)
    BY <1>3
  <1>10. ~NoCarrier(c)'
    BY <1>0, <1>2, <1>4, <1>9, CarrierStep DEF Carrying
  <1>11. CaseInv(c)'
    BY <1>8, <1>10 DEF Serial, CaseInv
  <1>12. LocalInv(x)'
    BY <1>4, <1>5, <1>8 DEF LocalInv, Carrying
  <1> QED BY <1>0, <1>2, <1>9, <1>11, <1>12, AloneStep

\* What a request that carries out a decision knows of its case.
LEMMA CarrierFacts ==
  ASSUME IndInv, NEW c \in Cases, Serial(c), NEW h \in Handlers, On(h, c),
         handlers[h].pc \in Carrying
  PROVE  /\ casefiles[c] \in Casefile /\ approvals[c] \in Approval
         /\ ~Running(c) /\ ~Pending(c)
         /\ handlers[h].pc \in {"record", "execute", "reject"} => Undecided(c)
         /\ Active(c)
         /\ executions[c] \in Nat /\ executions[c] <= 1
  <1>0. TypeOK /\ CopiesInv /\ handlers[h] \in Locals /\ LocalInv(handlers[h])
    BY DEF IndInv, TypeOK, Serial
  <1>1. c = handlers[h].case
    BY DEF On
  <1>2. approvals[c] # None /\ approvals[c].state # "pending"
    BY <1>0, <1>1, LocalType, NoneIsNoRow DEF LocalInv, Carrying, CopiesInv
  <1>3. casefiles[c] # None
    BY <1>0, <1>2 DEF CopiesInv
  <1>4. casefiles[c] \in Casefile /\ approvals[c] \in Approval /\ executions[c] \in Nat
    BY <1>0, <1>2, <1>3 DEF TypeOK
  <1>5. CASE handlers[h].pc \in {"record", "execute", "reject"}
    <2>1. Undecided(c)
      BY <1>0, <1>1, <1>5 DEF LocalInv
    <2>2. Active(c) /\ executions[c] <= 1
      BY <1>3, <2>1 DEF Undecided, Active, Terminal
    <2> QED BY <1>0, <1>1, <1>2, <1>4, <2>1, <2>2 DEF LocalInv, Pending
  <1>6. CASE handlers[h].pc \in {"invoke", "report", "close"}
    <2>1. casefiles[c].status = "executing" /\ executions[c] <= 1
      BY <1>0, <1>1, <1>6 DEF LocalInv
    <2>2. Active(c)
      BY <1>3, <2>1 DEF Active, Terminal
    <2> QED BY <1>0, <1>1, <1>2, <1>4, <1>6, <2>1, <2>2 DEF LocalInv, Pending
  <1> QED BY <1>5, <1>6 DEF Carrying

\* The request keeps its decision and its case and saves nothing.
LEMMA SerialRecord ==
  ASSUME IndInv, NEW c \in Cases, Serial(c), NEW h \in Handlers, On(h, c),
         RecordDecision(h) \/ AuditAction(h)
  PROVE  Serial(c)'
  <1>0. TypeOK /\ CopiesInv /\ handlers[h] \in Locals /\ LocalInv(handlers[h])
    BY DEF IndInv, TypeOK, Serial
  <1>a. c = handlers[h].case /\ \A g \in Handlers \ {h} : ~On(g, c)
    BY DEF On, Serial
  <1>1. CASE RecordDecision(h)
    <2>2. PICK pc : pc = IF handlers[h].approval.state = "approved"
                         THEN "execute" ELSE "reject"
      OBVIOUS
    <2>3. PICK x : x = [pc |-> pc, case |-> c, approval |-> handlers[h].approval,
                        file |-> casefiles[c]]
      OBVIOUS
    <2>4. /\ x.pc = pc /\ x.case = c /\ x.approval = handlers[h].approval
          /\ x.file = casefiles[c]
      BY <2>3
    <2>5. /\ handlers[h].pc = "record" /\ Goto(h, x)
          /\ UNCHANGED <<casefiles, approvals, executions, inv, crashes>>
      BY <1>1, <1>a, <2>2, <2>3 DEF RecordDecision
    <2>6. /\ approvals[c] = handlers[h].approval /\ Undecided(c) /\ ~Running(c)
      BY <1>0, <1>a, <2>5 DEF LocalInv, Carrying
    <2>7. handlers[h].approval \in Approval /\ handlers[h].approval.state # "pending"
      BY <1>0, <2>5, LocalType DEF CopiesInv
    <2>8. /\ pc \in {"execute", "reject"}
          /\ pc = "execute" => x.approval.state = "approved"
          /\ pc = "reject" => x.approval.state \in {"rejected", "expired"}
      BY <2>2, <2>4, <2>7 DEF Approval
    <2>9. Undecided(c)' /\ ~Running(c)'
      BY <2>5, <2>6 DEF Undecided, Running
    <2>10. LocalInv(x)'
      BY <2>4, <2>5, <2>6, <2>8, <2>9 DEF LocalInv, Carrying
    <2> QED BY <1>0, <1>a, <2>4, <2>5, <2>8, <2>10, NoRowStep DEF Carrying
  <1>2. CASE AuditAction(h)
    <2>1. PICK x : x = [handlers[h] EXCEPT !.pc = "close"]
      OBVIOUS
    <2>2. handlers[h] \in [pc : {"report", "close"}, case : Cases,
                           file : Casefile, outcome : Outcomes]
      BY <1>0, <1>2, LocalType DEF AuditAction
    <2>3. x.pc = "close" /\ x.case = c /\ x.file = handlers[h].file
      BY <1>a, <2>1, <2>2
    <2>4. /\ handlers[h].pc = "report" /\ Goto(h, x)
          /\ UNCHANGED <<casefiles, approvals, executions, inv, crashes>>
      BY <1>2, <2>1 DEF AuditAction
    <2>6. ~Running(c)'
      BY <1>0, <1>a, <2>4 DEF LocalInv, Carrying, Running
    <2>7. LocalInv(x)'
      BY <1>0, <1>a, <2>3, <2>4, <2>6 DEF LocalInv, Carrying
    <2> QED BY <1>0, <1>a, <2>3, <2>4, <2>7, NoRowStep DEF Carrying
  <1> QED BY <1>1, <1>2

\* The ends of a request: nothing to do, or the decision is on the record.
LEMMA SerialEnd ==
  ASSUME IndInv, NEW c \in Cases, Serial(c), NEW h \in Handlers, On(h, c),
         \/ RefuseDecision(h) \/ NotExpired(h)
         \/ SaveRejection(h) \/ SaveOutcome(h) \/ InvokeRaises(h)
  PROVE  Serial(c)'
  <1>0. TypeOK /\ CopiesInv /\ handlers[h] \in Locals /\ LocalInv(handlers[h])
    BY DEF IndInv, TypeOK, Serial
  <1>a. c = handlers[h].case /\ \A g \in Handlers \ {h} : ~On(g, c)
    BY DEF On, Serial
  <1>x. PICK x : x = Idle
    OBVIOUS
  <1>l. LocalInv(x)' /\ x.pc \notin Carrying
    BY <1>x, IdleIsIdle DEF LocalInv, Carrying
  <1>g. Goto(h, x)
    BY <1>x DEF RefuseDecision, NotExpired, SaveRejection, SaveOutcome, InvokeRaises
  <1>1. CASE RefuseDecision(h) \/ NotExpired(h)
    <2>1. /\ handlers[h].pc \in {"decision", "evaluate-timeout"}
          /\ UNCHANGED <<casefiles, approvals, executions, inv, crashes>>
      BY <1>1 DEF RefuseDecision, NotExpired, store
    <2> QED BY <1>0, <1>a, <1>l, <1>g, <2>1, NoRowStep DEF Carrying
  <1>2. CASE SaveRejection(h) \/ SaveOutcome(h) \/ InvokeRaises(h)
    <2>1. handlers[h].pc \in Carrying
      BY <1>2 DEF SaveRejection, SaveOutcome, InvokeRaises, Carrying
    <2>3. /\ casefiles[c] \in Casefile /\ approvals[c] \in Approval
          /\ ~Running(c) /\ ~Pending(c) /\ Active(c)
          /\ handlers[h].pc = "reject" => Undecided(c)
          /\ executions[c] \in Nat /\ executions[c] <= 1
      BY <2>1, CarrierFacts
    <2>4. UNCHANGED <<approvals, inv, crashes>>
      BY <1>2 DEF SaveRejection, SaveOutcome, InvokeRaises, store
    <2>5. ASSUME casefiles'[c] # None, Recorded(c)'
          PROVE  Serial(c)'
      <3>1. ~Running(c)' /\ ~Pending(c)'
        BY <2>3, <2>4 DEF Running, Pending
      <3>2. CaseInv(c)'
        BY <2>5, <3>1 DEF CaseInv
      <3> QED BY <1>0, <1>a, <1>l, <1>g, <3>2, AloneStep
    <2>6. CASE SaveRejection(h)
      <3>1. /\ casefiles'[c] = RejectedFile(handlers[h]) /\ UNCHANGED executions
            /\ handlers[h].pc = "reject"
        BY <1>0, <1>a, <2>6 DEF TypeOK, SaveRejection, Save
      <3>2. /\ handlers[h].file = casefiles[c] /\ handlers[h].approval = approvals[c]
            /\ casefiles[c].journal = <<>> /\ executions[c] = 0
        BY <1>0, <1>a, <2>3, <3>1 DEF LocalInv, Undecided
      <3>3. /\ casefiles'[c].status = "rejected"
            /\ casefiles'[c].approval = approvals[c].state
            /\ casefiles'[c].journal = Append(<<>>, "blocked")
        BY <2>3, <3>1, <3>2 DEF RejectedFile, Casefile
      <3>4. casefiles'[c] # None
        BY <1>0, <3>1, FileType, NoneIsNoRow
      <3>5. Recorded(c)'
        BY <2>4, <3>1, <3>2, <3>3 DEF Recorded
      <3> QED BY <2>5, <3>4, <3>5
    <2>7. CASE SaveOutcome(h)
      <3>1. /\ casefiles'[c] = ClosedFile(handlers[h]) /\ UNCHANGED executions
            /\ handlers[h].pc = "close"
        BY <1>0, <1>a, <2>7 DEF TypeOK, SaveOutcome, Save
      <3>2. /\ handlers[h].file = casefiles[c] /\ casefiles[c].approval = "approved"
            /\ approvals[c].state = "approved"
        BY <1>0, <1>a, <3>1 DEF LocalInv
      <3>3. /\ casefiles'[c].status \in Terminal
            /\ casefiles'[c].approval = "approved"
        BY <2>3, <3>1, <3>2 DEF ClosedFile, Casefile, Terminal
      <3>4. casefiles'[c] # None
        BY <1>0, <3>1, FileType, NoneIsNoRow
      <3>5. Recorded(c)'
        BY <2>3, <2>4, <3>1, <3>2, <3>3 DEF Recorded, Terminal
      <3> QED BY <2>5, <3>4, <3>5
    <2>8. CASE InvokeRaises(h)
      <3>1. /\ handlers[h].pc = "invoke" /\ UNCHANGED casefiles
            /\ \E done \in {0, 1} : executions'[c] = executions[c] + done
        BY <1>0, <1>a, <2>8 DEF TypeOK, InvokeRaises, store
      <3>2. /\ casefiles[c].approval = "approved" /\ approvals[c].state = "approved"
            /\ casefiles[c].status = "executing" /\ executions[c] = 0
        BY <1>0, <1>a, <3>1 DEF LocalInv
      <3>3. Recorded(c)'
        BY <2>4, <3>1, <3>2 DEF Recorded
      <3> QED BY <2>3, <2>5, <3>1, <3>3, NoneIsNoRow
    <2> QED BY <1>2, <2>6, <2>7, <2>8
  <1> QED BY <1>1, <1>2

\* An approved action on its way: the case is executing, then the tool answers.
LEMMA SerialExecute ==
  ASSUME IndInv, NEW c \in Cases, Serial(c), NEW h \in Handlers, On(h, c),
         \/ SaveExecuting(h)
         \/ \E outcome \in Outcomes : InvokeAction(h, outcome)
  PROVE  Serial(c)'
  <1>0. TypeOK /\ CopiesInv /\ handlers[h] \in Locals /\ LocalInv(handlers[h])
    BY DEF IndInv, TypeOK, Serial
  <1>a. c = handlers[h].case /\ \A g \in Handlers \ {h} : ~On(g, c)
    BY DEF On, Serial
  <1>1. handlers[h].pc \in Carrying
    BY DEF SaveExecuting, InvokeAction, Carrying
  <1>3. /\ casefiles[c] \in Casefile /\ approvals[c] \in Approval
        /\ ~Running(c) /\ ~Pending(c) /\ Active(c)
        /\ executions[c] \in Nat
    BY <1>1, CarrierFacts
  <1>4. UNCHANGED <<approvals, inv, crashes>>
    BY DEF SaveExecuting, InvokeAction, store
  <1>5. ~Running(c)' /\ ~Pending(c)'
    BY <1>3, <1>4 DEF Running, Pending
  <1>6. ASSUME NEW x, Goto(h, x), x.pc \in Carrying, x.case = c, LocalInv(x)',
               casefiles'[c] # None
        PROVE  Serial(c)'
    <2>1. ~NoCarrier(c)'
      BY <1>0, <1>a, <1>6, CarrierStep
    <2>2. CaseInv(c)'
      BY <1>5, <1>6, <2>1 DEF CaseInv
    <2> QED BY <1>0, <1>a, <1>6, <2>2, AloneStep
  <1>7. CASE SaveExecuting(h)
    <2>1. PICK file : file = ExecutingFile(handlers[h])
      OBVIOUS
    <2>2. PICK x : x = [pc |-> "invoke", case |-> c, file |-> file]
      OBVIOUS
    <2>3. x.pc = "invoke" /\ x.case = c /\ x.file = file
      BY <2>2
    <2>4. /\ Goto(h, x) /\ handlers[h].pc = "execute" /\ UNCHANGED executions
          /\ casefiles'[c] = file
      BY <1>0, <1>a, <1>7, <2>1, <2>2 DEF TypeOK, SaveExecuting, Save
    <2>5. /\ handlers[h].file = casefiles[c] /\ approvals[c].state = "approved"
          /\ executions[c] = 0
      BY <1>0, <1>a, <2>4 DEF LocalInv, Undecided
    <2>6. /\ file.status = "executing" /\ file.approval = "approved"
      BY <1>3, <2>1, <2>5 DEF ExecutingFile, Casefile
    <2>7. file # None
      BY <1>0, <2>1, <2>4, FileType, NoneIsNoRow
    <2>8. LocalInv(x)'
      BY <1>3, <1>4, <1>5, <2>3, <2>4, <2>5, <2>6, NoneIsNoRow DEF LocalInv, Carrying
    <2> QED BY <1>6, <2>3, <2>4, <2>6, <2>7, <2>8 DEF Carrying
  <1>8. ASSUME NEW outcome \in Outcomes, InvokeAction(h, outcome)
        PROVE  Serial(c)'
    <2>1. PICK x : x = [pc |-> "report", case |-> c, file |-> handlers[h].file,
                        outcome |-> outcome]
      OBVIOUS
    <2>2. x.pc = "report" /\ x.case = c /\ x.file = handlers[h].file
      BY <2>1
    <2>3. /\ Goto(h, x) /\ handlers[h].pc = "invoke" /\ UNCHANGED casefiles
          /\ \E done \in {0, 1} : executions'[c] = executions[c] + done
      BY <1>0, <1>a, <1>8, <2>1 DEF TypeOK, InvokeAction, store
    <2>4. /\ handlers[h].file = casefiles[c] /\ approvals[c].state = "approved"
          /\ casefiles[c].status = "executing" /\ casefiles[c].approval = "approved"
          /\ executions[c] = 0
      BY <1>0, <1>a, <2>3 DEF LocalInv
    <2>5. executions'[c] <= 1
      BY <2>3, <2>4
    <2>6. LocalInv(x)'
      BY <1>3, <1>4, <1>5, <2>2, <2>3, <2>4, <2>5, NoneIsNoRow DEF LocalInv, Carrying
    <2> QED BY <1>3, <1>6, <2>2, <2>3, <2>6, NoneIsNoRow DEF Carrying
  <1> QED BY <1>7, <1>8

\* A request at work on another case, or on none, does not touch this one.
LEMMA ElsewhereStep ==
  ASSUME IndInv, NEW c \in Cases, Serial(c), NEW h \in Handlers, ~On(h, c),
         Step(h), ~CreateCasefile(h)
  PROVE  Serial(c)'
  <1>0. TypeOK /\ handlers[h] \in Locals
    BY DEF IndInv, TypeOK
  <1>1. handlers[h].pc \notin {"idle", "create"}
    BY DEF Step, CreateCasefile, SpawnInvestigation, RecordDecision, SaveRejection,
           SaveExecuting, InvokeRaises, AuditAction, SaveOutcome, RefuseDecision,
           Expire, NotExpired, Decide, InvokeAction
  <1>2. PICK d : d = handlers[h].case
    OBVIOUS
  <1>3. c # d
    BY <1>1, <1>2 DEF On
  <1>4. /\ casefiles'[c] = casefiles[c] /\ approvals'[c] = approvals[c]
        /\ executions'[c] = executions[c] /\ inv'[c] = inv[c] /\ crashes' = crashes
    BY <1>0, <1>2, <1>3
    DEF TypeOK, Step, SpawnInvestigation, RecordDecision, SaveRejection,
        SaveExecuting, InvokeRaises, AuditAction, SaveOutcome, RefuseDecision,
        Expire, NotExpired, Decide, InvokeAction, Save, store
  <1>5. PICK x : Goto(h, x) /\ (x = Idle \/ x.case = d)
    <2>1. CASE Expire(h) \/ \E decision \in {"approved", "rejected"} : Decide(h, decision)
      <3>1. handlers[h] \in [pc : {"decision", "evaluate-timeout", "record"},
                             case : Cases, approval : Approval]
        BY <1>0, <2>1, LocalType DEF Expire, Decide
      <3>2. \A y : [handlers[h] EXCEPT !.pc = "record", !.approval = y].case = d
        BY <1>2, <3>1
      <3> QED BY <2>1, <3>2 DEF Expire, Decide
    <2>2. CASE AuditAction(h)
      <3>1. handlers[h] \in [pc : {"report", "close"}, case : Cases,
                             file : Casefile, outcome : Outcomes]
        BY <1>0, <2>2, LocalType DEF AuditAction
      <3> QED BY <1>2, <2>2, <3>1 DEF AuditAction
    <2>3. CASE \/ SpawnInvestigation(h) \/ SaveRejection(h) \/ SaveOutcome(h)
               \/ RefuseDecision(h) \/ NotExpired(h) \/ InvokeRaises(h)
      BY <2>3 DEF SpawnInvestigation, SaveRejection, SaveOutcome, RefuseDecision,
                  NotExpired, InvokeRaises
    <2>4. CASE RecordDecision(h)
      BY <1>2, <2>4 DEF RecordDecision
    <2>5. CASE SaveExecuting(h)
      BY <1>2, <2>5 DEF SaveExecuting
    <2>6. ASSUME NEW outcome \in Outcomes, InvokeAction(h, outcome)
          PROVE  \E x : Goto(h, x) /\ (x = Idle \/ x.case = d)
      BY <1>2, <2>6 DEF InvokeAction
    <2> QED BY <2>1, <2>2, <2>3, <2>4, <2>5, <2>6 DEF Step
  <1>6. \A g \in Handlers : handlers'[g] = IF g = h THEN x ELSE handlers[g]
    BY <1>0, <1>5 DEF TypeOK, Goto
  <1>7. ~On(h, c)'
    BY <1>3, <1>5, <1>6, IdleIsIdle DEF On
  <1>8. \A g \in Handlers : On(g, c) \/ On(g, c)' => handlers'[g] = handlers[g]
    BY <1>6, <1>7
  <1> QED BY <1>4, <1>8, SerialFrame

\* A request at work on this case.
LEMMA HereStep ==
  ASSUME IndInv, NEW c \in Cases, Serial(c), NEW h \in Handlers, On(h, c), Step(h)
  PROVE  Serial(c)'
  <1>0. TypeOK /\ handlers[h] \in Locals /\ ~CreateCasefile(h)
    BY DEF IndInv, TypeOK, CreateCasefile, On
  <1>3. CASE Expire(h)
    <2>1. PICK updated : updated = [handlers[h].approval EXCEPT !.state = "expired"]
      OBVIOUS
    <2>2. handlers[h].approval \in Approval
      BY <1>0, <1>3, LocalType DEF Expire
    <2>3. updated \in Approval /\ updated.state # "pending"
      BY <2>1, <2>2 DEF Approval
    <2> QED BY <1>3, <2>1, <2>3, SerialDecided DEF Expire
  <1>4. ASSUME NEW decision \in {"approved", "rejected"}, Decide(h, decision)
        PROVE  Serial(c)'
    <2>1. PICK updated : updated = [handlers[h].approval EXCEPT !.state = decision,
                                                               !.decided_at = now]
      OBVIOUS
    <2>2. handlers[h].approval \in Approval /\ now \in Time
      BY <1>0, <1>4, LocalType DEF Decide, TypeOK
    <2>3. updated \in Approval /\ updated.state # "pending"
      BY <2>1, <2>2 DEF Approval
    <2>4. handlers[h].approval.state = "pending"
      BY <1>4 DEF Decide, Decidable
    <2> QED BY <1>4, <2>1, <2>3, <2>4, SerialDecided DEF Decide
  <1> QED BY <1>0, <1>3, <1>4, SerialSpawn, SerialRecord, SerialEnd, SerialExecute DEF Step

LEMMA SerialHandler ==
  ASSUME IndInv, SerialInv, NEW h \in Handlers, Step(h)
  PROVE  SerialInv'
  <1>1. CASE CreateCasefile(h)
    BY <1>1, SerialCreate
  <1>2. CASE ~CreateCasefile(h)
    <2>1. UNCHANGED contested
      BY <1>2
      DEF Step, SpawnInvestigation, RecordDecision, SaveRejection, SaveExecuting,
          InvokeRaises, AuditAction, SaveOutcome, RefuseDecision, Expire, NotExpired,
          Decide, InvokeAction, races
    <2> QED BY <1>2, <2>1, HereStep, ElsewhereStep DEF SerialInv
  <1> QED BY <1>1, <1>2

\* A step of the investigation of this case: nobody else is at work on it.
LEMMA SerialInvestigation ==
  ASSUME IndInv, NEW c \in Cases, Serial(c), Investigating(c)
  PROVE  Serial(c)'
  <1>0. TypeOK /\ CopiesInv /\ CaseInv(c)
    BY DEF IndInv, Serial
  <1>1. Running(c) /\ inv[c] # None
    BY DEF Investigating, Triage, Investigate, Dispatch, DispatchRaises,
           RequestApproval, AwaitApproval, Running
  <1>2. inv[c] \in Investigation /\ inv[c].file \in Casefile
    BY <1>0, <1>1 DEF TypeOK, Investigation
  <1>3. /\ casefiles[c] = inv[c].file /\ inv[c].file.status = StatusAt(inv[c].pc)
        /\ inv[c].file.journal = <<>> /\ executions[c] = 0
        /\ inv[c].pc = "await" => Pending(c)
        /\ inv[c].pc # "await" => approvals[c] = None
    BY <1>0, <1>1 DEF CaseInv
  <1>4. UNCHANGED <<handlers, executions, crashes>>
    BY DEF Investigating, Triage, Investigate, Dispatch, DispatchRaises,
           RequestApproval, AwaitApproval, Advance, store
  <1>5. casefiles'[c] # None
    BY <1>0, <1>1, RowsStay DEF CopiesInv, Next
  <1>6. CaseInv(c)'
    <2>a. ASSUME NEW file, NEW pc \in {"investigate", "dispatch", "request", "done"},
                 Advance(c, file, pc)
          PROVE  /\ casefiles'[c] = file /\ inv'[c] # None
                 /\ inv'[c].file = file /\ inv'[c].pc = pc
                 /\ UNCHANGED <<approvals, executions>>
                 /\ Running(c)' <=> pc \notin {"done", "raised"}
      <3>1. inv'[c] = [pc |-> pc, file |-> file] /\ casefiles'[c] = file
        BY <1>0, <2>a DEF TypeOK, Advance, Save
      <3>2. file \in Casefile
        BY <1>5, <3>1, TypeStep DEF Next, TypeOK
      <3>3. inv'[c] \in Investigation
        BY <3>1, <3>2 DEF Investigation
      <3> QED BY <2>a, <3>1, <3>3, NoneIsNoRow DEF Advance, Running
    <2>1. CASE Triage(c)
      <3>1. PICK file : file = [inv[c].file EXCEPT !.status = "triaging"]
        OBVIOUS
      <3>2. Advance(c, file, "investigate") /\ inv[c].pc = "triage"
        BY <2>1, <3>1 DEF Triage
      <3>3. /\ file.status = "triaging" /\ file.journal = <<>>
        BY <1>2, <1>3, <3>1 DEF Casefile
      <3> QED BY <1>3, <1>5, <2>a, <3>2, <3>3 DEF CaseInv, StatusAt, Pending
    <2>2. CASE Investigate(c)
      <3>1. PICK file : file = [inv[c].file EXCEPT !.status = "investigating"]
        OBVIOUS
      <3>2. PICK pc : pc = IF Specialists = 0 THEN "request" ELSE "dispatch"
        OBVIOUS
      <3>3. Advance(c, file, pc) /\ inv[c].pc = "investigate"
        BY <2>2, <3>1, <3>2 DEF Investigate
      <3>4. /\ file.status = "investigating" /\ file.journal = <<>>
        BY <1>2, <1>3, <3>1 DEF Casefile
      <3> QED BY <1>3, <1>5, <2>a, <3>2, <3>3, <3>4 DEF CaseInv, StatusAt, Pending
    <2>3. CASE Dispatch(c)
      <3>1. PICK file : file = [inv[c].file EXCEPT !.outputs = @ + 1]
        OBVIOUS
      <3>2. PICK pc : pc = IF inv[c].file.outputs + 1 = Specialists
                           THEN "request" ELSE "dispatch"
        OBVIOUS
      <3>3. Advance(c, file, pc) /\ inv[c].pc = "dispatch"
        BY <2>3, <3>1, <3>2 DEF Dispatch
      <3>4. /\ file.status = "investigating" /\ file.journal = <<>>
        BY <1>2, <1>3, <3>1, <3>3 DEF Casefile, StatusAt
      <3> QED BY <1>3, <1>5, <2>a, <3>2, <3>3, <3>4 DEF CaseInv, StatusAt, Pending
    <2>4. CASE DispatchRaises(c)
      <3>1. /\ inv'[c].pc = "raised" /\ UNCHANGED <<casefiles, approvals>>
            /\ inv[c].pc = "dispatch"
        BY <1>0, <1>2, <2>4 DEF TypeOK, Investigation, DispatchRaises, store
      <3> QED BY <1>3, <1>5, <3>1 DEF CaseInv, Running, Pending
    <2>5. CASE RequestApproval(c)
      <3>1. /\ inv'[c].pc = "await" /\ inv'[c].file = inv[c].file
            /\ UNCHANGED casefiles /\ inv[c].pc = "request"
            /\ approvals'[c] # None /\ approvals'[c].state = "pending"
        <4>1. [state |-> "pending", deadline_at |-> now + PendingTimeout,
               decided_at |-> None] \in Approval
          BY <1>0, SizesAssumption DEF TypeOK, Approval, Time
        <4> QED BY <1>0, <1>2, <2>5, <4>1, NoneIsNoRow
                DEF TypeOK, Investigation, RequestApproval
      <3>2. [inv[c] EXCEPT !.pc = "await"] \in Investigation
        BY <1>2 DEF Investigation
      <3>3. inv'[c] # None
        BY <1>0, <2>5, <3>2, NoneIsNoRow DEF TypeOK, RequestApproval
      <3>4. Running(c)'
        BY <3>1, <3>3 DEF Running
      <3> QED BY <1>3, <1>4, <1>5, <3>1, <3>4 DEF CaseInv, Pending, StatusAt
    <2>6. CASE AwaitApproval(c)
      <3>1. PICK file : file = [inv[c].file EXCEPT !.approval = "pending",
                                                   !.status = "awaiting-approval"]
        OBVIOUS
      <3>2. Advance(c, file, "done") /\ inv[c].pc = "await"
        BY <2>6, <3>1 DEF AwaitApproval
      <3>3. /\ file.status = "awaiting-approval" /\ file.journal = <<>>
            /\ file.approval = "pending"
        BY <1>2, <1>3, <3>1 DEF Casefile
      <3>4. Undecided(c)'
        BY <1>3, <2>a, <3>2, <3>3 DEF Undecided
      <3> QED BY <1>3, <1>5, <2>a, <3>2, <3>3, <3>4 DEF CaseInv, Pending
    <2> QED BY <2>1, <2>2, <2>3, <2>4, <2>5, <2>6 DEF Investigating
  <1>7. ASSUME NEW h \in Handlers, On(h, c) PROVE FALSE
    <2>1. LocalInv(handlers[h]) /\ handlers[h] \in Locals /\ handlers[h].case = c
      BY <1>0, <1>7 DEF Serial, TypeOK, On
    <2>2. handlers[h].pc \in Carrying \cup {"spawn", "decision", "evaluate-timeout"}
      BY <1>7, <2>1 DEF On, Locals, Idle, Carrying
    <2> QED BY <1>1, <2>1, <2>2 DEF LocalInv
  <1>8. \A h \in Handlers : ~On(h, c)'
    BY <1>4, <1>7 DEF On
  <1> QED BY <1>6, <1>8 DEF Serial

\* A step of an investigation leaves the other cases alone.
LEMMA SerialElsewhere ==
  ASSUME IndInv, NEW c \in Cases, Serial(c), NEW d \in Cases, d # c, Investigating(d)
  PROVE  Serial(c)'
  <1>1. TypeOK
    BY DEF IndInv
  <1>2. /\ UNCHANGED <<handlers, executions, crashes>>
        /\ casefiles'[c] = casefiles[c] /\ approvals'[c] = approvals[c]
        /\ inv'[c] = inv[c]
    BY <1>1
    DEF TypeOK, Investigating, Triage, Investigate, Dispatch, DispatchRaises,
        RequestApproval, AwaitApproval, Advance, Save, store
  <1> QED BY <1>2, SerialFrame

\* After a crash nobody is at work, and what was cut off counts as a crash.
LEMMA SerialCrash ==
  ASSUME IndInv, NEW c \in Cases, Serial(c), Crash
  PROVE  Serial(c)'
  <1>0. TypeOK
    BY DEF IndInv
  <1>1. /\ UNCHANGED <<casefiles, approvals, executions>>
        /\ crashes' # 0
        /\ \A h \in Handlers : handlers'[h] = Idle
    BY <1>0, SizesAssumption DEF TypeOK, Crash, store
  <1>2. ~Running(c)'
    <2>1. CASE Running(c)
      <3>1. inv'[c].pc = "raised"
        BY <1>0, <2>1, NoneIsNoRow DEF TypeOK, Crash, Running, Investigation
      <3> QED BY <3>1 DEF Running
    <2>2. CASE ~Running(c)
      <3>1. inv'[c] = inv[c]
        BY <2>2 DEF Crash
      <3> QED BY <2>2, <3>1 DEF Running
    <2> QED BY <2>1, <2>2
  <1>3. Pending(c)' => Undecided(c)'
    <2>0. CaseInv(c)
      BY DEF Serial
    <2>1. CASE Running(c)
      BY <1>1, <2>0, <2>1 DEF CaseInv, Pending, Undecided, StatusAt
    <2>2. CASE ~Running(c)
      BY <1>1, <2>0, <2>2 DEF CaseInv, Pending, Undecided
    <2> QED BY <2>1, <2>2
  <1>4. CaseInv(c)'
    BY <1>1, <1>2, <1>3 DEF Serial, CaseInv
  <1>5. \A h \in Handlers : ~On(h, c)'
    BY <1>1, IdleIsIdle DEF On
  <1> QED BY <1>4, <1>5 DEF Serial

\* What threads met on stays on record.
LEMMA RacesStay == [Next]_vars => forked \subseteq forked' /\ contested \subseteq contested'
  <1> SUFFICES ASSUME [Next]_vars PROVE forked \subseteq forked' /\ contested \subseteq contested'
    OBVIOUS
  <1>1. ASSUME NEW h \in Handlers, Request(h)
        PROVE  forked \subseteq forked' /\ contested \subseteq contested'
    BY <1>1 DEF Request, Trigger, ReadApproval
  <1>2. ASSUME NEW h \in Handlers, Step(h) PROVE UNCHANGED races
    BY <1>2 DEF Step, CreateCasefile, SpawnInvestigation, RecordDecision, SaveRejection,
           SaveExecuting, InvokeRaises, AuditAction, SaveOutcome, RefuseDecision,
           Expire, NotExpired, Decide, InvokeAction
  <1>3. ASSUME NEW c \in Cases, Investigating(c) PROVE UNCHANGED races
    BY <1>3 DEF Investigating, Triage, Investigate, Dispatch, DispatchRaises,
           RequestApproval, AwaitApproval, Advance
  <1>4. CASE Tick \/ Crash \/ UNCHANGED vars
    BY <1>4 DEF Tick, Crash, vars, races
  <1> QED BY <1>1, <1>2, <1>3, <1>4 DEF Next, races

LEMMA SerialStep == IndInv /\ SerialInv /\ [Next]_vars => SerialInv'
  <1> SUFFICES ASSUME IndInv, SerialInv, [Next]_vars
               PROVE  SerialInv'
    OBVIOUS
  <1>1. \A c \in Cases \ contested' : c \in Cases /\ Serial(c)
    BY RacesStay DEF SerialInv
  <1>2. ASSUME NEW h \in Handlers, Request(h) \/ Step(h)
        PROVE  SerialInv'
    BY <1>2, SerialRequest, SerialHandler
  <1>3. ASSUME NEW d \in Cases, Investigating(d)
        PROVE  SerialInv'
    BY <1>1, <1>3, SerialInvestigation, SerialElsewhere DEF SerialInv
  <1>4. CASE Crash
    BY <1>1, <1>4, SerialCrash DEF SerialInv
  <1>5. CASE Tick \/ UNCHANGED vars
    <2>1. UNCHANGED <<casefiles, approvals, executions, inv, handlers, crashes>>
      BY <1>5 DEF Tick, vars, store
    <2> QED BY <1>1, <2>1, SerialFrame DEF SerialInv
  <1> QED BY <1>2, <1>3, <1>4, <1>5 DEF Next

LEMMA InitSerial == Init => SerialInv
  <1> SUFFICES ASSUME Init, NEW c \in Cases PROVE Serial(c)
    BY DEF SerialInv
  <1>1. \A h \in Handlers : ~On(h, c)
    BY IdleIsIdle DEF Init, On
  <1>2. /\ casefiles[c] = None /\ approvals[c] = None
        /\ executions[c] = 0 /\ inv[c] = None
    BY DEF Init
  <1>3. CaseInv(c)
    BY <1>2 DEF CaseInv, Running, Pending
  <1> QED BY <1>1, <1>3 DEF Serial

LEMMA SerialHolds == Spec => [](IndInv /\ SerialInv)
  <1>1. IndInv /\ [Next]_vars => IndInv'
    BY TypeStep, CopiesStep DEF IndInv
  <1> QED BY InitIndInv, InitSerial, <1>1, SerialStep, PTL DEF Spec

-----------------------------------------------------------------------------

\* The lifecycle of the document with the transition the code adds.
Lifecycle == LifecycleTable \cup {<<"executing", "rejected">>}

\* A request writes to an existing casefile only while it carries a decision,
\* on a case that is still open.
LEMMA HandlerWrites ==
  ASSUME IndInv, NEW c \in Cases, Serial(c), NEW h \in Handlers, Step(h),
         casefiles[c] # None, casefiles'[c] # casefiles[c]
  PROVE  /\ Active(c) /\ casefiles'[c].correlation = casefiles[c].correlation
         /\ crashes = 0 => <<casefiles[c].status, casefiles'[c].status>> \in Lifecycle
  <1>0. TypeOK /\ CopiesInv /\ handlers[h] \in Locals
    BY DEF IndInv, TypeOK
  <1>1. SaveRejection(h) \/ SaveExecuting(h) \/ SaveOutcome(h)
    <2>1. CASE CreateCasefile(h)
      <3>1. PICK d \in Cases : casefiles[d] = None
                 /\ Save(d, NewFile(handlers[h].correlation))
        BY <2>1 DEF CreateCasefile
      <3> QED BY <1>0, <3>1 DEF Save, TypeOK
    <2> QED BY <2>1
      DEF Step, SpawnInvestigation, RecordDecision, InvokeRaises, AuditAction,
          RefuseDecision, Expire, NotExpired, Decide, InvokeAction, store
  <1>2. handlers[h].pc \in Carrying
    BY <1>1 DEF SaveRejection, SaveExecuting, SaveOutcome, Carrying
  <1>3. handlers[h].case = c
    BY <1>0, <1>1 DEF SaveRejection, SaveExecuting, SaveOutcome, Save, TypeOK
  <1>4. On(h, c) /\ LocalInv(handlers[h])
    BY <1>2, <1>3, CarriersAreOn DEF Serial
  <1>5. /\ Active(c) /\ casefiles[c] \in Casefile
        /\ handlers[h].pc \in {"record", "execute", "reject"} => Undecided(c)
    BY <1>2, <1>4, CarrierFacts
  <1>6. CASE SaveRejection(h)
    <2>1. handlers[h].pc = "reject" /\ casefiles'[c] = RejectedFile(handlers[h])
      BY <1>0, <1>3, <1>6 DEF SaveRejection, Save, TypeOK
    <2>0. handlers[h].file = casefiles[c]
      BY <1>3, <1>4, <2>1 DEF LocalInv
    <2>2. /\ casefiles'[c].status = "rejected"
          /\ casefiles'[c].correlation = casefiles[c].correlation
      BY <1>5, <2>0, <2>1 DEF RejectedFile, Casefile
    <2>3. crashes = 0 => casefiles[c].status = "awaiting-approval"
      BY <1>5, <2>1 DEF Undecided
    <2> QED BY <1>5, <2>2, <2>3 DEF Lifecycle, LifecycleTable
  <1>7. CASE SaveExecuting(h)
    <2>1. handlers[h].pc = "execute" /\ casefiles'[c] = ExecutingFile(handlers[h])
      BY <1>0, <1>3, <1>7 DEF SaveExecuting, Save, TypeOK
    <2>0. handlers[h].file = casefiles[c]
      BY <1>3, <1>4, <2>1 DEF LocalInv
    <2>2. /\ casefiles'[c].status = "executing"
          /\ casefiles'[c].correlation = casefiles[c].correlation
      BY <1>5, <2>0, <2>1 DEF ExecutingFile, Casefile
    <2>3. crashes = 0 => casefiles[c].status = "awaiting-approval"
      BY <1>5, <2>1 DEF Undecided
    <2> QED BY <1>5, <2>2, <2>3 DEF Lifecycle, LifecycleTable
  <1>8. CASE SaveOutcome(h)
    <2>1. handlers[h].pc = "close" /\ casefiles'[c] = ClosedFile(handlers[h])
      BY <1>0, <1>3, <1>8 DEF SaveOutcome, Save, TypeOK
    <2>0. handlers[h].file = casefiles[c] /\ casefiles[c].status = "executing"
      BY <1>3, <1>4, <2>1 DEF LocalInv
    <2>2. /\ casefiles'[c].status \in {"resolved", "rejected"}
          /\ casefiles'[c].correlation = casefiles[c].correlation
      BY <1>5, <2>0, <2>1 DEF ClosedFile, Casefile
    <2> QED BY <1>5, <2>0, <2>2 DEF Lifecycle, LifecycleTable
  <1> QED BY <1>1, <1>6, <1>7, <1>8

\* An investigation writes to its own case, which is still open.
LEMMA InvestigationWrites ==
  ASSUME IndInv, NEW c \in Cases, Serial(c), NEW d \in Cases, Investigating(d),
         casefiles[c] # None, casefiles'[c] # casefiles[c]
  PROVE  /\ Active(c) /\ casefiles'[c].correlation = casefiles[c].correlation
         /\ \/ casefiles'[c].status = casefiles[c].status
            \/ <<casefiles[c].status, casefiles'[c].status>> \in Lifecycle
  <1>0. TypeOK /\ CopiesInv
    BY DEF IndInv
  <1>1. Running(d) /\ inv[d] # None
    BY DEF Investigating, Triage, Investigate, Dispatch, DispatchRaises,
           RequestApproval, AwaitApproval, Running
  <1>2. inv[d] \in Investigation /\ inv[d].file \in Casefile
    BY <1>0, <1>1 DEF TypeOK, Investigation
  <1>d. d = c
    BY <1>0
    DEF TypeOK, Investigating, Triage, Investigate, Dispatch, DispatchRaises,
        RequestApproval, AwaitApproval, Advance, Save, store
  <1>3. casefiles[c] = inv[c].file /\ inv[c].file.status = StatusAt(inv[c].pc)
    BY <1>1, <1>d DEF Serial, CaseInv
  <1>4. casefiles'[c].correlation = casefiles[c].correlation
    <2>1. CASE Triage(c)
      BY <1>0, <1>2, <1>3, <1>d, <2>1 DEF Triage, Advance, Save, TypeOK, Casefile
    <2>2. CASE Investigate(c)
      BY <1>0, <1>2, <1>3, <1>d, <2>2 DEF Investigate, Advance, Save, TypeOK, Casefile
    <2>3. CASE Dispatch(c)
      BY <1>0, <1>2, <1>3, <1>d, <2>3 DEF Dispatch, Advance, Save, TypeOK, Casefile
    <2>4. CASE AwaitApproval(c)
      BY <1>0, <1>2, <1>3, <1>d, <2>4 DEF AwaitApproval, Advance, Save, TypeOK, Casefile
    <2> QED BY <1>d, <2>1, <2>2, <2>3, <2>4
            DEF Investigating, DispatchRaises, RequestApproval, store
  <1>5. Active(c) /\ c = d
    BY <1>3, <1>d DEF Active, StatusAt, Terminal
  <1>6. CASE Triage(d)
    <2>1. inv[d].pc = "triage" /\ casefiles'[d].status = "triaging"
      BY <1>0, <1>2, <1>6 DEF Triage, Advance, Save, TypeOK, Casefile
    <2> QED BY <1>3, <1>4, <1>5, <2>1 DEF StatusAt, Lifecycle, LifecycleTable
  <1>7. CASE Investigate(d)
    <2>1. inv[d].pc = "investigate" /\ casefiles'[d].status = "investigating"
      BY <1>0, <1>2, <1>7 DEF Investigate, Advance, Save, TypeOK, Casefile
    <2> QED BY <1>3, <1>4, <1>5, <2>1 DEF StatusAt, Lifecycle, LifecycleTable
  <1>8. CASE Dispatch(d)
    <2>1. casefiles'[d].status = inv[d].file.status
      BY <1>0, <1>2, <1>8 DEF Dispatch, Advance, Save, TypeOK, Casefile
    <2> QED BY <1>3, <1>4, <1>5, <2>1
  <1>9. CASE AwaitApproval(d)
    <2>1. inv[d].pc = "await" /\ casefiles'[d].status = "awaiting-approval"
      BY <1>0, <1>2, <1>9 DEF AwaitApproval, Advance, Save, TypeOK, Casefile
    <2> QED BY <1>3, <1>4, <1>5, <2>1 DEF StatusAt, Lifecycle, LifecycleTable
  <1> QED BY <1>4, <1>5, <1>6, <1>7, <1>8, <1>9
          DEF Investigating, DispatchRaises, RequestApproval, store

\* Every write to an existing casefile finds it open, and moves its status
\* along the lifecycle as long as no restart cut an investigation off.
LEMMA SerialWrites ==
  ASSUME IndInv, NEW c \in Cases, Serial(c), [Next]_vars,
         casefiles[c] # None, casefiles'[c] # casefiles[c]
  PROVE  /\ Active(c) /\ casefiles'[c].correlation = casefiles[c].correlation
         /\ crashes = 0 =>
               \/ casefiles'[c].status = casefiles[c].status
               \/ <<casefiles[c].status, casefiles'[c].status>> \in Lifecycle
  BY HandlerWrites, InvestigationWrites
  DEF Next, Request, Trigger, ReadApproval, Tick, Crash, vars, store

\* Every write to an existing approval finds it pending.
LEMMA SerialDecisions ==
  ASSUME IndInv, NEW c \in Cases, Serial(c), [Next]_vars,
         approvals[c] # None, approvals'[c] # approvals[c]
  PROVE  Pending(c)
  <1>0. TypeOK
    BY DEF IndInv
  <1>1. ASSUME NEW h \in Handlers, Step(h)
        PROVE  Pending(c)
    <2>1. /\ handlers[h].pc \in {"decision", "evaluate-timeout"}
          /\ handlers[h].approval.state = "pending"
          /\ \E updated : approvals' = [approvals EXCEPT ![handlers[h].case] = updated]
      <3>1. CASE Expire(h)
        BY <3>1 DEF Expire
      <3>2. ASSUME NEW decision \in {"approved", "rejected"}, Decide(h, decision)
            PROVE  /\ handlers[h].pc = "decision"
                   /\ handlers[h].approval.state = "pending"
                   /\ \E updated : approvals' =
                        [approvals EXCEPT ![handlers[h].case] = updated]
        BY <3>2 DEF Decide, Decidable
      <3> QED BY <1>1, <3>1, <3>2
        DEF Step, CreateCasefile, SpawnInvestigation, RecordDecision, SaveRejection,
            SaveExecuting, InvokeRaises, AuditAction, SaveOutcome, RefuseDecision,
            NotExpired, InvokeAction, store
    <2>2. handlers[h].case = c
      BY <1>0, <2>1 DEF TypeOK
    <2>3. LocalInv(handlers[h])
      BY <2>1, <2>2 DEF Serial, On
    <2> QED BY <2>1, <2>2, <2>3 DEF LocalInv, Pending
  <1>2. ASSUME NEW d \in Cases, Investigating(d)
        PROVE  Pending(c)
    <2>1. RequestApproval(d) /\ d = c
      BY <1>0, <1>2
      DEF TypeOK, Investigating, Triage, Investigate, Dispatch, DispatchRaises,
          RequestApproval, AwaitApproval, Advance, store
    <2>2. Running(c) /\ inv[c].pc = "request"
      BY <2>1 DEF RequestApproval, Running
    <2> QED BY <2>2 DEF Serial, CaseInv
  <1> QED BY <1>1, <1>2 DEF Next, Request, Trigger, ReadApproval, Tick, Crash, vars, store

(***************************************************************************)
(* Duplicates.  While the id of a trigger is free, or was taken by another *)
(* trigger that overlapped it, so is what it will insert.                  *)
(***************************************************************************)
DupInv ==
    /\ NoDuplicateUnlessRaced
    /\ \A h \in Handlers, c \in Cases \ contested :
          handlers[h].pc = "create" /\ Active(c)
            /\ casefiles[c].correlation = handlers[h].correlation =>
               handlers[h].correlation \in forked
    /\ \A g, h \in Handlers :
          g # h /\ handlers[g].pc = "create" /\ handlers[h].pc = "create"
            /\ handlers[g].correlation = handlers[h].correlation =>
               handlers[h].correlation \in forked

\* No step but an insert makes a case active that was not.
LEMMA ActiveStays ==
  ASSUME IndInv, NEW c \in Cases, Serial(c), [Next]_vars,
         \A h \in Handlers : ~CreateCasefile(h), Active(c)'
  PROVE  Active(c) /\ casefiles'[c].correlation = casefiles[c].correlation
  <1>1. CASE casefiles'[c] = casefiles[c]
    BY <1>1 DEF Active
  <1>2. CASE casefiles'[c] # casefiles[c] /\ casefiles[c] # None
    BY <1>2, SerialWrites
  <1>3. CASE casefiles'[c] # casefiles[c] /\ casefiles[c] = None
    <2>0. TypeOK /\ CopiesInv
      BY DEF IndInv
    <2>1. ASSUME NEW h \in Handlers, Step(h) PROVE FALSE
      <3>1. SaveRejection(h) \/ SaveExecuting(h) \/ SaveOutcome(h)
        BY <1>3, <2>1
        DEF Step, SpawnInvestigation, RecordDecision, InvokeRaises, AuditAction,
            RefuseDecision, Expire, NotExpired, Decide, InvokeAction, store
      <3>2. handlers[h].case = c
        BY <1>3, <2>0, <3>1 DEF SaveRejection, SaveExecuting, SaveOutcome, Save, TypeOK
      <3>3. On(h, c)
        BY <3>1, <3>2 DEF On, SaveRejection, SaveExecuting, SaveOutcome
      <3> QED BY <1>3, <3>3, OnHasRow
    <2>2. ASSUME NEW d \in Cases, Investigating(d) PROVE FALSE
      <3>1. d = c
        BY <1>3, <2>0, <2>2
        DEF TypeOK, Investigating, Triage, Investigate, Dispatch, DispatchRaises,
            RequestApproval, AwaitApproval, Advance, Save, store
      <3>2. inv[c] # None
        BY <2>2, <3>1 DEF Investigating, Triage, Investigate, Dispatch, DispatchRaises,
                          RequestApproval, AwaitApproval
      <3> QED BY <1>3, <2>0, <3>2 DEF CopiesInv
    <2> QED BY <1>3, <2>1, <2>2
            DEF Next, Request, Trigger, ReadApproval, Tick, Crash, vars, store
  <1> QED BY <1>1, <1>2, <1>3

\* A trigger scans: no active casefile has its id, and overlaps are recorded.
LEMMA DupTrigger ==
  ASSUME IndInv, DupInv, NEW h \in Handlers, NEW k \in Correlations, Trigger(h, k)
  PROVE  DupInv'
  <1>0. TypeOK
    BY DEF IndInv
  <1>1. PICK x : x = [pc |-> "create", correlation |-> k]
    OBVIOUS
  <1>2. /\ Goto(h, x) /\ UNCHANGED <<casefiles, contested>>
        /\ \A c \in Cases : Active(c) => casefiles[c].correlation # k
        /\ forked' = forked \cup Overlapping(k)
    BY <1>1 DEF Trigger, store
  <1>3. \A g \in Handlers : handlers'[g] = IF g = h THEN x ELSE handlers[g]
    BY <1>0, <1>2 DEF TypeOK, Goto
  <1>4. x.pc = "create" /\ x.correlation = k
    BY <1>1
  <1>5. forked \subseteq forked'
    BY <1>2
  <1>6. NoDuplicateUnlessRaced'
    BY <1>2, <1>5 DEF DupInv, NoDuplicateUnlessRaced, Active
  <1>7. ASSUME NEW g \in Handlers \ {h}, handlers[g].pc = "create",
               handlers[g].correlation = k
        PROVE  k \in forked'
    BY <1>2, <1>7 DEF Overlapping
  <1>8. ASSUME NEW g \in Handlers, NEW c \in Cases \ contested, handlers'[g].pc = "create",
               Active(c), casefiles[c].correlation = handlers'[g].correlation
        PROVE  handlers'[g].correlation \in forked'
    <2>1. g # h
      BY <1>2, <1>3, <1>4, <1>8
    <2> QED BY <1>3, <1>5, <1>8, <2>1 DEF DupInv
  <1>9. \A f, g \in Handlers :
           f # g /\ handlers'[f].pc = "create" /\ handlers'[g].pc = "create"
             /\ handlers'[f].correlation = handlers'[g].correlation =>
                handlers'[g].correlation \in forked'
    BY <1>3, <1>4, <1>5, <1>7 DEF DupInv
  <1>10. \A c \in Cases : Active(c)' <=> Active(c)
    BY <1>2 DEF Active
  <1> QED BY <1>2, <1>6, <1>8, <1>9, <1>10 DEF DupInv

\* A casefile is inserted: the scan that found its id free, or an overlap.
LEMMA DupCreate ==
  ASSUME IndInv, DupInv, NEW h \in Handlers, CreateCasefile(h)
  PROVE  DupInv'
  <1>0. TypeOK
    BY DEF IndInv
  <1>1. PICK k : k = handlers[h].correlation
    OBVIOUS
  <1>2. PICK d \in Cases :
           /\ Save(d, NewFile(k))
           /\ Goto(h, [pc |-> "spawn", case |-> d, file |-> NewFile(k)])
    BY <1>1 DEF CreateCasefile
  <1>3. PICK x : x = [pc |-> "spawn", case |-> d, file |-> NewFile(k)]
    OBVIOUS
  <1>4. x.pc = "spawn"
    BY <1>3
  <1>5. /\ handlers[h].pc = "create" /\ UNCHANGED <<forked, contested>>
        /\ \A g \in Handlers : handlers'[g] = IF g = h THEN x ELSE handlers[g]
    BY <1>0, <1>2, <1>3 DEF CreateCasefile, Goto, TypeOK, races
  <1>6. /\ casefiles'[d].correlation = k
        /\ \A c \in Cases \ {d} : casefiles'[c] = casefiles[c]
    BY <1>0, <1>2 DEF Save, NewFile, TypeOK
  <1>7. \A c \in Cases \ {d} : Active(c)' <=> Active(c)
    BY <1>6 DEF Active
  <1>8. ASSUME NEW c \in Cases \ contested, c # d, Active(c), casefiles[c].correlation = k
        PROVE  k \in forked
    BY <1>1, <1>5, <1>8 DEF DupInv
  <1>9. ASSUME NEW c \in Cases \ contested, NEW e \in Cases \ contested, c # e,
               Active(c)', Active(e)',
               casefiles'[c].correlation = casefiles'[e].correlation
        PROVE  casefiles'[c].correlation \in forked
    <2>1. CASE c = d \/ e = d
      BY <1>6, <1>7, <1>8, <1>9, <2>1
    <2>2. CASE c # d /\ e # d
      BY <1>6, <1>7, <1>9, <2>2 DEF DupInv, NoDuplicateUnlessRaced
    <2> QED BY <2>1, <2>2
  <1>10. NoDuplicateUnlessRaced'
    BY <1>5, <1>9 DEF NoDuplicateUnlessRaced
  <1>11. ASSUME NEW g \in Handlers, handlers'[g].pc = "create"
         PROVE  /\ g # h /\ handlers'[g] = handlers[g]
                /\ handlers[g].correlation = k => k \in forked
    <2>1. g # h /\ handlers'[g] = handlers[g]
      BY <1>4, <1>5, <1>11
    <2> QED BY <1>1, <1>5, <1>11, <2>1 DEF DupInv
  <1>12. ASSUME NEW g \in Handlers, NEW c \in Cases \ contested, handlers'[g].pc = "create",
                Active(c)', casefiles'[c].correlation = handlers'[g].correlation
         PROVE  handlers'[g].correlation \in forked
    <2>1. CASE c = d
      BY <1>6, <1>11, <1>12, <2>1
    <2>2. CASE c # d
      BY <1>6, <1>7, <1>11, <1>12, <2>2 DEF DupInv
    <2> QED BY <2>1, <2>2
  <1>13. \A f, g \in Handlers :
            f # g /\ handlers'[f].pc = "create" /\ handlers'[g].pc = "create"
              /\ handlers'[f].correlation = handlers'[g].correlation =>
                 handlers'[g].correlation \in forked
    BY <1>11 DEF DupInv
  <1> QED BY <1>5, <1>10, <1>12, <1>13 DEF DupInv

\* Nothing else begins a trigger or makes a case active.
LEMMA DupElse ==
  ASSUME IndInv, SerialInv, DupInv, [Next]_vars,
         \A h \in Handlers, k \in Correlations : ~Trigger(h, k),
         \A h \in Handlers : ~CreateCasefile(h)
  PROVE  DupInv'
  <1>0. TypeOK
    BY DEF IndInv
  <1>1. forked \subseteq forked' /\ contested \subseteq contested'
    BY RacesStay
  <1>2. ASSUME NEW c \in Cases \ contested', Active(c)'
        PROVE  Active(c) /\ casefiles'[c].correlation = casefiles[c].correlation
    BY <1>1, <1>2, ActiveStays DEF SerialInv
  <1>3. ASSUME NEW g \in Handlers, handlers'[g].pc = "create"
        PROVE  handlers'[g] = handlers[g]
    <2>1. ASSUME NEW h \in Handlers, NEW x, Goto(h, x), x.pc # "create"
          PROVE  handlers'[g] = handlers[g]
      BY <1>0, <1>3, <2>1 DEF TypeOK, Goto
    <2>2. ASSUME NEW h \in Handlers, Request(h)
          PROVE  handlers'[g] = handlers[g]
      <3>1. PICK c \in Cases, action \in {"decision", "evaluate-timeout"} :
               ReadApproval(h, c, action)
        BY <2>2 DEF Request
      <3>2. PICK x : x = [pc |-> action, case |-> c, approval |-> approvals[c]]
        OBVIOUS
      <3>3. Goto(h, x) /\ x.pc # "create"
        BY <3>1, <3>2 DEF ReadApproval
      <3> QED BY <2>1, <3>3
    <2>3. ASSUME NEW h \in Handlers, Step(h)
          PROVE  handlers'[g] = handlers[g]
      <3>1. CASE g = h
        <4>1. handlers[h] \in Locals
          BY <1>0 DEF TypeOK
        <4>2. handlers[h].pc \in {"decision", "evaluate-timeout"} =>
                 \A y : [handlers[h] EXCEPT !.pc = "record", !.approval = y].pc = "record"
          BY <4>1, LocalType
        <4>3. handlers[h].pc = "report" =>
                 [handlers[h] EXCEPT !.pc = "close"].pc = "close"
          BY <4>1, LocalType
        <4>4. CASE Expire(h) \/ \E decision \in {"approved", "rejected"} : Decide(h, decision)
          BY <2>1, <4>2, <4>4 DEF Expire, Decide
        <4>5. CASE AuditAction(h)
          BY <2>1, <4>3, <4>5 DEF AuditAction
        <4>6. CASE \/ SaveRejection(h) \/ SaveOutcome(h) \/ InvokeRaises(h)
                   \/ SpawnInvestigation(h) \/ RefuseDecision(h) \/ NotExpired(h)
          BY <2>1, <4>6, IdleIsIdle DEF SaveRejection, SaveOutcome, InvokeRaises,
             SpawnInvestigation, RefuseDecision, NotExpired
        <4>7. CASE \/ RecordDecision(h) \/ SaveExecuting(h)
                   \/ \E outcome \in Outcomes : InvokeAction(h, outcome)
          BY <2>1, <4>7 DEF RecordDecision, SaveExecuting, InvokeAction
        <4> QED BY <2>3, <4>4, <4>5, <4>6, <4>7 DEF Step
      <3>2. CASE g # h
        BY <1>0, <2>3, <3>2
        DEF TypeOK, Step, SpawnInvestigation, RecordDecision, SaveRejection,
            SaveExecuting, InvokeRaises, AuditAction, SaveOutcome, RefuseDecision,
            Expire, NotExpired, Decide, InvokeAction, Goto
      <3> QED BY <3>1, <3>2
    <2>4. CASE Crash
      BY <1>3, <2>4, IdleIsIdle DEF Crash
    <2>5. CASE \/ Tick \/ UNCHANGED vars
               \/ \E c \in Cases : Investigating(c)
      BY <2>5
      DEF Tick, vars, Investigating, Triage, Investigate, Dispatch, DispatchRaises,
          RequestApproval, AwaitApproval, Advance
    <2> QED BY <2>2, <2>3, <2>4, <2>5 DEF Next
  <1>4. NoDuplicateUnlessRaced'
    BY <1>1, <1>2 DEF DupInv, NoDuplicateUnlessRaced
  <1>5. ASSUME NEW g \in Handlers, NEW c \in Cases \ contested', handlers'[g].pc = "create",
               Active(c)', casefiles'[c].correlation = handlers'[g].correlation
        PROVE  handlers'[g].correlation \in forked'
    BY <1>1, <1>2, <1>3, <1>5 DEF DupInv
  <1>6. \A f, g \in Handlers :
           f # g /\ handlers'[f].pc = "create" /\ handlers'[g].pc = "create"
             /\ handlers'[f].correlation = handlers'[g].correlation =>
                handlers'[g].correlation \in forked'
    BY <1>1, <1>3 DEF DupInv
  <1> QED BY <1>4, <1>5, <1>6 DEF DupInv

-----------------------------------------------------------------------------

\* However requests, investigations, failures and restarts interleave: two
\* casefiles of an incident are active only if two of its triggers overlapped,
\* or two threads were at work on one of the two casefiles at once
\* (kagent.py, _handle_trigger and run_investigation).
THEOREM OneCasePerIncident == Spec => []NoDuplicateUnlessRaced
  <1>1. Init => DupInv
    BY IdleIsIdle DEF Init, DupInv, NoDuplicateUnlessRaced, Active
  <1>2. IndInv /\ SerialInv /\ DupInv /\ [Next]_vars => DupInv'
    BY DupTrigger, DupCreate, DupElse
  <1>3. DupInv => NoDuplicateUnlessRaced
    BY DEF DupInv
  <1> QED BY SerialHolds, <1>1, <1>2, <1>3, PTL DEF Spec

\* The tables tell the same story of every case nobody works on, unless two
\* threads worked on that case at once or the process died (kagent.py,
\* _decide, _evaluate_timeout and _execute_approved_action).
THEOREM TablesAgree == Spec => []TablesAgreeUnlessRaced
  <1>1. IndInv /\ SerialInv => TablesAgreeUnlessRaced
    <2> SUFFICES ASSUME IndInv, crashes = 0, NEW c \in Cases, Serial(c),
                        Quiet(c), approvals[c] # None
                 PROVE  /\ approvals[c].state \in {"rejected", "expired"} =>
                             /\ casefiles[c].status = "rejected"
                             /\ casefiles[c].approval = approvals[c].state
                             /\ casefiles[c].journal = <<"blocked">>
                        /\ casefiles[c].approval = approvals[c].state
                        /\ approvals[c].state = "pending" <=>
                              casefiles[c].status = "awaiting-approval"
                        /\ executions[c] <= 1
      BY DEF TablesAgreeUnlessRaced, RejectionRecorded, SerialInv
    <2>1. ~Running(c) /\ NoCarrier(c) /\ CaseInv(c)
      BY CarriersAreOn DEF Quiet, Serial, NoCarrier
    <2>2. CASE approvals[c].state = "pending"
      <3>1. Undecided(c)
        BY <2>1, <2>2 DEF CaseInv, Pending
      <3> QED BY <2>2, <3>1 DEF Undecided
    <2>3. CASE approvals[c].state # "pending"
      <3>1. Recorded(c)
        BY <2>1, <2>3 DEF CaseInv
      <3> QED BY <2>3, <3>1 DEF Recorded
    <2> QED BY <2>2, <2>3
  <1> QED BY SerialHolds, <1>1, PTL

\* A decision, once written, and a case, once closed, stay as they are unless
\* two threads worked on the case at once, across restarts (kagent.py, _decide
\* and _evaluate_timeout on the copy _handle_approval_action read).
THEOREM DecisionsStayFinal == Spec => DecisionsAreFinal
  <1>1. IndInv /\ SerialInv /\ [Next]_vars =>
          [\A c \in Cases \ contested' :
              /\ approvals[c] # None /\ approvals[c].state # "pending" =>
                    approvals'[c] = approvals[c]
              /\ casefiles[c] # None /\ casefiles[c].status \in Terminal =>
                    casefiles'[c] = casefiles[c]]_vars
    <2> SUFFICES ASSUME IndInv, SerialInv, [Next]_vars, NEW c \in Cases \ contested'
                 PROVE  /\ approvals[c] # None /\ approvals[c].state # "pending" =>
                              approvals'[c] = approvals[c]
                        /\ casefiles[c] # None /\ casefiles[c].status \in Terminal =>
                              casefiles'[c] = casefiles[c]
      OBVIOUS
    <2>1. Serial(c)
      BY RacesStay DEF SerialInv
    <2> QED BY <2>1, SerialWrites, SerialDecisions DEF Active, Pending
  <1> QED BY SerialHolds, <1>1, PTL DEF Spec, DecisionsAreFinal

\* Without overlapping work on the case and without restarts every change of
\* its status is in the documented lifecycle, or the transition the code adds.
THEOREM LifecycleIsFollowed == Spec => LifecycleUnlessRaced
  <1>1. IndInv /\ SerialInv /\ [Next]_vars =>
          [crashes = 0 =>
              \A c \in Cases \ contested' :
                 StatusStep(c, LifecycleTable \cup {<<"executing", "rejected">>})]_vars
    <2> SUFFICES ASSUME IndInv, SerialInv, [Next]_vars, crashes = 0,
                        NEW c \in Cases \ contested', casefiles[c] # None,
                        casefiles'[c].status # casefiles[c].status
                 PROVE  <<casefiles[c].status, casefiles'[c].status>> \in Lifecycle
      BY DEF StatusStep, Lifecycle
    <2>1. Serial(c)
      BY RacesStay DEF SerialInv
    <2> QED BY <2>1, SerialWrites
  <1> QED BY SerialHolds, <1>1, PTL DEF Spec, LifecycleUnlessRaced

-----------------------------------------------------------------------------
(***************************************************************************)
(* What the journals claim.  Every copy of a casefile is a claim about the *)
(* audit trail, since any of them may be written back; and an action that  *)
(* is reported as executed is ahead of the trail until it is audited.      *)
(***************************************************************************)
Done(file) == Cardinality(Executed(file))

\* Requests that have the answer "executed" and have not audited it.
Reporting(c) == {h \in Handlers : /\ handlers[h].pc = "report"
                                  /\ handlers[h].case = c
                                  /\ handlers[h].outcome = "executed"}

\* Requests that hold a copy of a casefile.
Holding == {"spawn", "execute", "reject", "invoke", "report", "close"}

LocalClaim(l) ==
    /\ l.pc \in Holding => Done(l.file) <= audit[l.case]["executed"]
    /\ l.pc = "close" /\ l.outcome = "executed" =>
          Done(l.file) + 1 <= audit[l.case]["executed"]
    /\ l.pc = "spawn" => l.file.status # "resolved"

CaseClaim(c) ==
    /\ casefiles[c] # None =>
          /\ Done(casefiles[c]) <= audit[c]["executed"]
          /\ casefiles[c].status = "resolved" => Executed(casefiles[c]) # {}
    /\ inv[c] # None =>
          /\ Done(inv[c].file) <= audit[c]["executed"]
          /\ inv[c].file.status # "resolved"

JournalInv ==
    /\ \A c \in Cases : audit[c]["executed"] + Cardinality(Reporting(c)) <= executions[c]
    /\ \A c \in Cases : CaseClaim(c)
    /\ \A h \in Handlers : LocalClaim(handlers[h])

\* The executed actions of a journal can be counted, and an entry adds itself.
LEMMA DoneCounts ==
  ASSUME NEW file \in Casefile
  PROVE  /\ IsFiniteSet(Executed(file)) /\ Done(file) \in Nat
         /\ \A g : g.journal = file.journal =>
               Executed(g) = Executed(file) /\ Done(g) = Done(file)
         /\ \A g : g.journal = Append(file.journal, "executed") =>
               Executed(g) # {} /\ Done(g) = Done(file) + 1
         /\ \A g : g.journal = Append(file.journal, "blocked") =>
               Executed(g) = Executed(file) /\ Done(g) = Done(file)
  <1>1. file.journal \in Seq(Outcomes) /\ Len(file.journal) \in Nat
    BY DEF Casefile
  <1>2. IsFiniteSet(1 .. Len(file.journal))
    BY <1>1, FS_Interval
  <1>3. IsFiniteSet(Executed(file))
    BY <1>2, FS_Subset DEF Executed
  <1>4. Done(file) \in Nat
    BY <1>3, FS_CardinalityType DEF Done
  <1>5. \A g : g.journal = file.journal => Executed(g) = Executed(file)
    BY DEF Executed
  <1>6. ASSUME NEW g, g.journal = Append(file.journal, "executed")
        PROVE  Executed(g) # {} /\ Done(g) = Done(file) + 1
    <2> DEFINE n == Len(file.journal) + 1
    <2>1. /\ Len(g.journal) = n /\ g.journal[n] = "executed"
          /\ \A i \in 1 .. Len(file.journal) : g.journal[i] = file.journal[i]
      BY <1>1, <1>6
    <2>2. Executed(g) = Executed(file) \cup {n}
      BY <1>1, <2>1 DEF Executed
    <2>3. n \notin Executed(file)
      BY <1>1 DEF Executed
    <2> QED BY <1>3, <2>2, <2>3, FS_AddElement DEF Done
  <1>7. ASSUME NEW g, g.journal = Append(file.journal, "blocked")
        PROVE  Executed(g) = Executed(file)
    <2> DEFINE n == Len(file.journal) + 1
    <2>1. /\ Len(g.journal) = n /\ g.journal[n] = "blocked"
          /\ \A i \in 1 .. Len(file.journal) : g.journal[i] = file.journal[i]
      BY <1>1, <1>7
    <2> QED BY <1>1, <2>1 DEF Executed
  <1> QED BY <1>3, <1>4, <1>5, <1>6, <1>7 DEF Done

\* Claims stay true while the trail grows.
LEMMA CaseClaimFrame ==
  ASSUME IndInv, NEW c \in Cases, CaseClaim(c),
         casefiles'[c] = casefiles[c], inv'[c] = inv[c],
         audit'[c]["executed"] \in Nat, audit[c]["executed"] <= audit'[c]["executed"]
  PROVE  CaseClaim(c)'
  <1>0. TypeOK
    BY DEF IndInv
  <1>1. /\ casefiles[c] # None => casefiles[c] \in Casefile
        /\ inv[c] # None => inv[c].file \in Casefile
        /\ audit[c]["executed"] \in Nat
    BY <1>0 DEF TypeOK, Investigation, AuditEvents
  <1>2. casefiles[c] # None => Done(casefiles[c]) \in Nat
    BY <1>1, DoneCounts
  <1>3. inv[c] # None => Done(inv[c].file) \in Nat
    BY <1>1, DoneCounts
  <1>4. casefiles[c] # None => Done(casefiles[c]) <= audit'[c]["executed"]
    BY <1>1, <1>2 DEF CaseClaim
  <1>5. inv[c] # None => Done(inv[c].file) <= audit'[c]["executed"]
    BY <1>1, <1>3 DEF CaseClaim
  <1>6. /\ Done(casefiles[c])' = Done(casefiles[c])
        /\ Executed(casefiles[c])' = Executed(casefiles[c])
        /\ Done(inv[c].file)' = Done(inv[c].file)
    BY DEF Done, Executed
  <1> QED BY <1>4, <1>5, <1>6 DEF CaseClaim

LEMMA LocalClaimFrame ==
  ASSUME NEW l \in Locals, LocalClaim(l), TypeOK,
         audit' \in [Cases -> [AuditEvents -> Nat]],
         \A c \in Cases : audit[c]["executed"] <= audit'[c]["executed"]
  PROVE  LocalClaim(l)'
  <1>1. l.pc \in Holding => l.case \in Cases /\ l.file \in Casefile
    BY LocalType DEF Holding
  <1>2. l.pc \in Holding => /\ Done(l.file) \in Nat
                            /\ audit[l.case]["executed"] \in Nat
                            /\ audit'[l.case]["executed"] \in Nat
    BY <1>1, DoneCounts DEF TypeOK, AuditEvents
  <1>3. l.pc \in Holding => Done(l.file) <= audit'[l.case]["executed"]
    BY <1>1, <1>2 DEF LocalClaim
  <1>4. l.pc = "close" /\ l.outcome = "executed" =>
          Done(l.file) + 1 <= audit'[l.case]["executed"]
    BY <1>1, <1>2 DEF LocalClaim, Holding
  <1> QED BY <1>3, <1>4 DEF LocalClaim

LEMMA LocalClaimIdle == LocalClaim(Idle) /\ LocalClaim(Idle)'
  BY IdleIsIdle DEF LocalClaim, Holding

\* The claims of the other requests, and of the one that goes on.
LEMMA ClaimsStep ==
  ASSUME IndInv, TypeOK', JournalInv, NEW h \in Handlers, NEW x, Goto(h, x),
         \A c \in Cases : audit[c]["executed"] <= audit'[c]["executed"],
         LocalClaim(x)'
  PROVE  \A g \in Handlers : LocalClaim(handlers[g])'
  <1> SUFFICES ASSUME NEW g \in Handlers PROVE LocalClaim(handlers[g])'
    OBVIOUS
  <1>0. TypeOK
    BY DEF IndInv
  <1>1. CASE g = h
    <2>1. handlers'[g] = x
      BY <1>0, <1>1 DEF TypeOK, Goto
    <2> QED BY <2>1
  <1>2. CASE g # h
    <2>1. PICK l \in Locals : l = handlers[g]
      BY <1>0 DEF TypeOK
    <2>2. handlers'[g] = l
      BY <1>0, <1>2, <2>1 DEF TypeOK, Goto
    <2>3. LocalClaim(l)
      BY <2>1 DEF JournalInv
    <2>4. LocalClaim(l)'
      BY <1>0, <2>3, LocalClaimFrame DEF TypeOK
    <2> QED BY <2>2, <2>4
  <1> QED BY <1>1, <1>2

\* The requests about to audit an executed action.
LEMMA ReportingStep ==
  ASSUME TypeOK, NEW h \in Handlers, NEW x, Goto(h, x), NEW c
  PROVE  /\ Cardinality(Reporting(c)) \in Nat /\ Cardinality(Reporting(c)') \in Nat
         /\ (x.pc = "report" /\ x.case = c /\ x.outcome = "executed") =>
               Cardinality(Reporting(c)') <= Cardinality(Reporting(c)) + 1
         /\ ~(x.pc = "report" /\ x.case = c /\ x.outcome = "executed") =>
               /\ Cardinality(Reporting(c)') <= Cardinality(Reporting(c))
               /\ h \in Reporting(c) =>
                     Cardinality(Reporting(c)') + 1 = Cardinality(Reporting(c))
  <1>1. \A g \in Handlers : handlers'[g] = IF g = h THEN x ELSE handlers[g]
    BY DEF TypeOK, Goto
  <1>2. IsFiniteSet(Reporting(c)) /\ Cardinality(Reporting(c)) \in Nat
    BY HandlersAssumption, FS_Subset, FS_CardinalityType DEF Reporting
  <1>3. CASE x.pc = "report" /\ x.case = c /\ x.outcome = "executed"
    <2>1. Reporting(c)' = Reporting(c) \cup {h}
      BY <1>1, <1>3 DEF Reporting
    <2> QED BY <1>2, <1>3, <2>1, FS_AddElement
  <1>4. CASE ~(x.pc = "report" /\ x.case = c /\ x.outcome = "executed")
    <2>1. Reporting(c)' = Reporting(c) \ {h}
      BY <1>1, <1>4 DEF Reporting
    <2>2. h \in Reporting(c) => Cardinality(Reporting(c)) # 0
      BY <1>2, FS_EmptySet
    <2>3. Cardinality(Reporting(c) \ {h}) =
             IF h \in Reporting(c) THEN Cardinality(Reporting(c)) - 1
                                   ELSE Cardinality(Reporting(c))
      BY <1>2, FS_RemoveElement
    <2> QED BY <1>2, <1>4, <2>1, <2>2, <2>3
  <1> QED BY <1>3, <1>4

\* A request goes on: what is left to show of the invariant, when the rows of
\* at most one case change.
LEMMA JournalRequest ==
  ASSUME IndInv, TypeOK', JournalInv, NEW h \in Handlers, NEW x, Goto(h, x), NEW c,
         \A d \in Cases \ {c} : casefiles'[d] = casefiles[d] /\ inv'[d] = inv[d],
         \A d \in Cases : audit[d]["executed"] <= audit'[d]["executed"],
         c \in Cases => CaseClaim(c)',
         LocalClaim(x)',
         \A d \in Cases :
            (audit[d]["executed"] + Cardinality(Reporting(d)) <= executions[d])'
  PROVE  JournalInv'
  <1>1. \A d \in Cases : CaseClaim(d)'
    <2> SUFFICES ASSUME NEW d \in Cases, d # c PROVE CaseClaim(d)'
      OBVIOUS
    <2>1. audit'[d]["executed"] \in Nat
      BY DEF TypeOK, AuditEvents
    <2> QED BY <2>1, CaseClaimFrame DEF JournalInv
  <1>2. \A g \in Handlers : LocalClaim(handlers[g])'
    BY ClaimsStep
  <1> QED BY <1>1, <1>2 DEF JournalInv

\* The count of executed actions, when nothing is carried out or audited.
LEMMA CountFrame ==
  ASSUME IndInv, TypeOK', JournalInv, NEW h \in Handlers, NEW x, Goto(h, x),
         x.pc # "report",
         UNCHANGED executions,
         \A d \in Cases : audit'[d]["executed"] = audit[d]["executed"]
  PROVE  /\ \A d \in Cases :
              (audit[d]["executed"] + Cardinality(Reporting(d)) <= executions[d])'
         /\ \A d \in Cases : audit[d]["executed"] <= audit'[d]["executed"]
  <1> SUFFICES ASSUME NEW d \in Cases
               PROVE  /\ (audit[d]["executed"] + Cardinality(Reporting(d)) <= executions[d])'
                      /\ audit[d]["executed"] <= audit'[d]["executed"]
    OBVIOUS
  <1>0. TypeOK
    BY DEF IndInv
  <1>1. audit[d]["executed"] \in Nat /\ executions[d] \in Nat
    BY <1>0 DEF TypeOK, AuditEvents
  <1>2. /\ Cardinality(Reporting(d)) \in Nat /\ Cardinality(Reporting(d)') \in Nat
        /\ Cardinality(Reporting(d)') <= Cardinality(Reporting(d))
    BY <1>0, ReportingStep
  <1>3. audit[d]["executed"] + Cardinality(Reporting(d)) <= executions[d]
    BY DEF JournalInv
  <1> QED BY <1>1, <1>2, <1>3

\* A request that writes no row, and neither acts nor audits an action.
LEMMA JournalIdleStep ==
  ASSUME IndInv, TypeOK', JournalInv, NEW h \in Handlers, NEW x, Goto(h, x),
         x.pc # "report", LocalClaim(x)',
         UNCHANGED <<casefiles, inv, executions>>,
         \A d \in Cases : audit'[d]["executed"] = audit[d]["executed"]
  PROVE  JournalInv'
  <1>1. /\ \A d \in Cases :
             (audit[d]["executed"] + Cardinality(Reporting(d)) <= executions[d])'
        /\ \A d \in Cases : audit[d]["executed"] <= audit'[d]["executed"]
    BY CountFrame
  <1>2. PICK c : c \notin Cases
    <2>1. MaxCases + 1 \notin Cases
      BY SizesAssumption DEF Cases
    <2> QED BY <2>1
  <1> QED BY <1>1, <1>2, JournalRequest

\* A request saves a casefile.
LEMMA JournalSave ==
  ASSUME IndInv, TypeOK', JournalInv, NEW h \in Handlers, NEW x, Goto(h, x),
         x.pc # "report", LocalClaim(x)',
         NEW c \in Cases, NEW file, casefiles' = [casefiles EXCEPT ![c] = file],
         Done(file) <= audit[c]["executed"],
         file.status = "resolved" => Executed(file) # {},
         UNCHANGED <<audit, inv, executions>>
  PROVE  JournalInv'
  <1>0. TypeOK
    BY DEF IndInv
  <1>1. /\ \A d \in Cases :
             (audit[d]["executed"] + Cardinality(Reporting(d)) <= executions[d])'
        /\ \A d \in Cases : audit[d]["executed"] <= audit'[d]["executed"]
    BY CountFrame
  <1>2. casefiles'[c] = file /\ \A d \in Cases \ {c} : casefiles'[d] = casefiles[d]
    BY <1>0 DEF TypeOK
  <1>3. CaseClaim(c)'
    <2>1. /\ Done(casefiles[c])' = Done(file) /\ Executed(casefiles[c])' = Executed(file)
          /\ Done(inv[c].file)' = Done(inv[c].file)
      BY <1>2 DEF Done, Executed
    <2> QED BY <1>2, <2>1 DEF JournalInv, CaseClaim
  <1> QED BY <1>1, <1>2, <1>3, JournalRequest

LEMMA JournalHandler ==
  ASSUME IndInv, TypeOK', JournalInv, NEW h \in Handlers, Step(h)
  PROVE  JournalInv'
  <1>0. TypeOK /\ CopiesInv /\ handlers[h] \in Locals /\ LocalClaim(handlers[h])
    BY DEF IndInv, TypeOK, JournalInv
  <1>1. CASE RefuseDecision(h) \/ NotExpired(h)
    <2>1. PICK x : x = Idle
      OBVIOUS
    <2>2. LocalClaim(x)' /\ x.pc # "report"
      BY <2>1, LocalClaimIdle, IdleIsIdle DEF Idle
    <2>3. Goto(h, x) /\ UNCHANGED <<casefiles, audit, inv, executions>>
      BY <1>1, <2>1 DEF RefuseDecision, NotExpired, store
    <2> QED BY <2>2, <2>3, JournalIdleStep
  <1>2. ASSUME NEW updated,
               Goto(h, [handlers[h] EXCEPT !.pc = "record", !.approval = updated]),
               handlers[h].pc \in {"decision", "evaluate-timeout"},
               UNCHANGED <<casefiles, audit, inv, executions>>
        PROVE  JournalInv'
    <2>1. PICK x : x = [handlers[h] EXCEPT !.pc = "record", !.approval = updated]
      OBVIOUS
    <2>2. x.pc = "record"
      BY <1>0, <1>2, <2>1, LocalType
    <2>3. LocalClaim(x)'
      BY <2>2 DEF LocalClaim, Holding
    <2> QED BY <1>2, <2>1, <2>2, <2>3, JournalIdleStep
  <1>3. CASE Expire(h) \/ \E decision \in {"approved", "rejected"} : Decide(h, decision)
    BY <1>2, <1>3 DEF Expire, Decide
  <1>4. CASE RecordDecision(h)
    <2>1. PICK c \in Cases : c = handlers[h].case
      BY <1>0, <1>4, LocalType DEF RecordDecision
    <2>2. PICK pc \in {"execute", "reject"} :
             pc = IF handlers[h].approval.state = "approved" THEN "execute" ELSE "reject"
      OBVIOUS
    <2>3. PICK x : x = [pc |-> pc, case |-> c, approval |-> handlers[h].approval,
                        file |-> casefiles[c]]
      OBVIOUS
    <2>4. x.pc = pc /\ x.case = c /\ x.file = casefiles[c]
      BY <2>3
    <2>5. /\ handlers[h].pc = "record" /\ Goto(h, x)
          /\ UNCHANGED <<casefiles, executions, inv>>
          /\ \E event \in {"approved", "rejected", "pending", "timeout-deny"} : Audit(c, event)
      <3>1. handlers[h].approval.state \in {"approved", "rejected", "pending", "expired"}
        BY <1>0, <1>4, LocalType DEF RecordDecision, Approval
      <3> QED BY <1>4, <2>1, <2>2, <2>3, <3>1 DEF RecordDecision
    <2>6. \A d \in Cases : audit'[d]["executed"] = audit[d]["executed"]
      BY <1>0, <2>5 DEF TypeOK, Audit, AuditEvents
    <2>7. casefiles[c] # None
      BY <1>0, <2>1, <2>5 DEF CopiesInv
    <2>8. Done(x.file) <= audit'[c]["executed"]
      BY <2>4, <2>6, <2>7 DEF JournalInv, CaseClaim
    <2>9. LocalClaim(x)'
      BY <2>4, <2>8 DEF LocalClaim, Holding
    <2> QED BY <2>4, <2>5, <2>6, <2>9, JournalIdleStep
  <1>5. CASE CreateCasefile(h)
    <2>0. PICK k : k = handlers[h].correlation
      OBVIOUS
    <2>1. PICK file : file = NewFile(k)
      OBVIOUS
    <2>2. PICK c \in Cases : /\ casefiles' = [casefiles EXCEPT ![c] = file]
                             /\ Goto(h, [pc |-> "spawn", case |-> c, file |-> file])
                             /\ UNCHANGED <<audit, inv, executions>>
      BY <1>5, <2>0, <2>1 DEF CreateCasefile, Save
    <2>3. PICK x : x = [pc |-> "spawn", case |-> c, file |-> file]
      OBVIOUS
    <2>4. x.pc = "spawn" /\ x.case = c /\ x.file = file
      BY <2>3
    <2>5. file.status = "open" /\ file.journal = <<>>
      BY <2>1 DEF NewFile
    <2>6. Executed(file) = {}
      BY <2>5 DEF Executed
    <2>7. Done(file) = 0 /\ audit[c]["executed"] \in Nat
      BY <1>0, <2>6, FS_EmptySet DEF Done, TypeOK, AuditEvents
    <2>8. Done(file) <= audit[c]["executed"]
      BY <2>7
    <2>9. LocalClaim(x)'
      BY <2>2, <2>4, <2>5, <2>8 DEF LocalClaim, Holding
    <2> QED BY <2>2, <2>3, <2>4, <2>5, <2>8, <2>9, JournalSave
  <1>6. CASE SpawnInvestigation(h)
    <2>1. PICK c \in Cases : c = handlers[h].case
      BY <1>0, <1>6, LocalType DEF SpawnInvestigation
    <2>2. PICK file : file = handlers[h].file
      OBVIOUS
    <2>3. /\ Goto(h, Idle) /\ UNCHANGED <<casefiles, audit, executions>>
          /\ inv' = [inv EXCEPT ![c] = [pc |-> "triage", file |-> file]]
          /\ handlers[h].pc = "spawn"
      BY <1>6, <2>1, <2>2 DEF SpawnInvestigation, store
    <2>4. inv'[c].file = file /\ \A d \in Cases \ {c} : inv'[d] = inv[d]
      BY <1>0, <2>3 DEF TypeOK
    <2>5. Done(file) <= audit[c]["executed"] /\ file.status # "resolved"
      BY <1>0, <2>1, <2>2, <2>3 DEF LocalClaim, Holding
    <2>6. /\ Done(casefiles[c])' = Done(casefiles[c])
          /\ Executed(casefiles[c])' = Executed(casefiles[c])
          /\ Done(inv[c].file)' = Done(file)
      BY <2>3, <2>4 DEF Done, Executed
    <2>7. CaseClaim(c)'
      BY <2>3, <2>4, <2>5, <2>6 DEF JournalInv, CaseClaim
    <2>8. PICK x : x = Idle
      OBVIOUS
    <2>9. LocalClaim(x)' /\ x.pc # "report"
      BY <2>8, LocalClaimIdle, IdleIsIdle DEF Idle
    <2>10. /\ \A d \in Cases :
                (audit[d]["executed"] + Cardinality(Reporting(d)) <= executions[d])'
           /\ \A d \in Cases : audit[d]["executed"] <= audit'[d]["executed"]
      BY <2>3, <2>8, <2>9, CountFrame
    <2> QED BY <2>3, <2>4, <2>7, <2>8, <2>9, <2>10, JournalRequest
  <1>7. CASE SaveRejection(h)
    <2>1. PICK c \in Cases : c = handlers[h].case
      BY <1>0, <1>7, LocalType DEF SaveRejection
    <2>2. PICK file : file = RejectedFile(handlers[h])
      OBVIOUS
    <2>3. /\ casefiles' = [casefiles EXCEPT ![c] = file] /\ Goto(h, Idle)
          /\ UNCHANGED <<audit, inv, executions>> /\ handlers[h].pc = "reject"
      BY <1>7, <2>1, <2>2 DEF SaveRejection, Save
    <2>4. handlers[h].file \in Casefile
      BY <1>0, <2>3, LocalType
    <2>5. /\ file.status = "rejected"
          /\ file.journal = Append(handlers[h].file.journal, "blocked")
      BY <2>2, <2>4 DEF RejectedFile, Casefile
    <2>6. Done(file) <= audit[c]["executed"]
      BY <1>0, <2>1, <2>3, <2>4, <2>5, DoneCounts DEF LocalClaim, Holding
    <2>7. PICK x : x = Idle
      OBVIOUS
    <2>8. LocalClaim(x)' /\ x.pc # "report"
      BY <2>7, LocalClaimIdle, IdleIsIdle DEF Idle
    <2> QED BY <2>3, <2>5, <2>6, <2>7, <2>8, JournalSave
  <1>8. CASE SaveExecuting(h)
    <2>1. PICK c \in Cases : c = handlers[h].case
      BY <1>0, <1>8, LocalType DEF SaveExecuting
    <2>2. PICK file : file = ExecutingFile(handlers[h])
      OBVIOUS
    <2>3. PICK x : x = [pc |-> "invoke", case |-> c, file |-> file]
      OBVIOUS
    <2>4. /\ casefiles' = [casefiles EXCEPT ![c] = file] /\ Goto(h, x)
          /\ UNCHANGED <<audit, inv, executions>> /\ handlers[h].pc = "execute"
      BY <1>8, <2>1, <2>2, <2>3 DEF SaveExecuting, Save
    <2>5. handlers[h].file \in Casefile
      BY <1>0, <2>4, LocalType
    <2>6. file.status = "executing" /\ file.journal = handlers[h].file.journal
      BY <2>2, <2>5 DEF ExecutingFile, Casefile
    <2>7. Done(file) <= audit[c]["executed"]
      BY <1>0, <2>1, <2>4, <2>5, <2>6, DoneCounts DEF LocalClaim, Holding
    <2>8. x.pc = "invoke" /\ x.case = c /\ x.file = file
      BY <2>3
    <2>9. LocalClaim(x)'
      BY <2>4, <2>7, <2>8 DEF LocalClaim, Holding
    <2> QED BY <2>4, <2>6, <2>7, <2>8, <2>9, JournalSave
  <1>9. CASE SaveOutcome(h)
    <2>1. PICK c \in Cases : c = handlers[h].case
      BY <1>0, <1>9, LocalType DEF SaveOutcome
    <2>2. PICK file : file = ClosedFile(handlers[h])
      OBVIOUS
    <2>3. /\ casefiles' = [casefiles EXCEPT ![c] = file] /\ Goto(h, Idle)
          /\ UNCHANGED <<audit, inv, executions>> /\ handlers[h].pc = "close"
      BY <1>9, <2>1, <2>2 DEF SaveOutcome, Save
    <2>4. handlers[h].file \in Casefile /\ handlers[h].outcome \in Outcomes
      BY <1>0, <2>3, LocalType
    <2>5. /\ file.status = IF handlers[h].outcome = "executed" THEN "resolved" ELSE "rejected"
          /\ file.journal = Append(handlers[h].file.journal, handlers[h].outcome)
      BY <2>2, <2>4 DEF ClosedFile, Casefile
    <2>6. /\ Done(file) <= audit[c]["executed"]
          /\ file.status = "resolved" => Executed(file) # {}
      <3>1. CASE handlers[h].outcome = "executed"
        BY <1>0, <2>1, <2>3, <2>4, <2>5, <3>1, DoneCounts DEF LocalClaim
      <3>2. CASE handlers[h].outcome = "blocked"
        BY <1>0, <2>1, <2>3, <2>4, <2>5, <3>2, DoneCounts DEF LocalClaim, Holding
      <3> QED BY <2>4, <3>1, <3>2 DEF Outcomes
    <2>7. PICK x : x = Idle
      OBVIOUS
    <2>8. LocalClaim(x)' /\ x.pc # "report"
      BY <2>7, LocalClaimIdle, IdleIsIdle DEF Idle
    <2> QED BY <2>3, <2>6, <2>7, <2>8, JournalSave
  <1> DEFINE Counts(d) ==
        (audit[d]["executed"] + Cardinality(Reporting(d)) <= executions[d])'
  <1>10. CASE InvokeRaises(h) \/ \E outcome \in Outcomes : InvokeAction(h, outcome)
    <2>1. PICK c \in Cases : c = handlers[h].case
      BY <1>0, <1>10, LocalType DEF InvokeRaises, InvokeAction
    <2>2. PICK file \in Casefile : file = handlers[h].file
      BY <1>0, <1>10, LocalType DEF InvokeRaises, InvokeAction
    <2>3. \E x : \E done \in {0, 1} :
             /\ Goto(h, x) /\ executions' = [executions EXCEPT ![c] = @ + done]
             /\ UNCHANGED <<casefiles, audit, inv>> /\ handlers[h].pc = "invoke"
             /\ \/ x = Idle
                \/ /\ x.pc = "report" /\ x.case = c /\ x.file = file
                   /\ x.outcome = "executed" => done = 1
      <3>1. CASE InvokeRaises(h)
        BY <2>1, <3>1 DEF InvokeRaises, store
      <3>2. ASSUME NEW outcome \in Outcomes, InvokeAction(h, outcome)
            PROVE  \E x : \E done \in {0, 1} :
                      /\ Goto(h, x) /\ executions' = [executions EXCEPT ![c] = @ + done]
                      /\ UNCHANGED <<casefiles, audit, inv>> /\ handlers[h].pc = "invoke"
                      /\ x.pc = "report" /\ x.case = c /\ x.file = file
                      /\ x.outcome = "executed" => done = 1
        <4>1. PICK x : x = [pc |-> "report", case |-> c, file |-> file, outcome |-> outcome]
          OBVIOUS
        <4>2. x.pc = "report" /\ x.case = c /\ x.file = file /\ x.outcome = outcome
          BY <4>1
        <4>3. Goto(h, x) /\ UNCHANGED <<casefiles, audit, inv>> /\ handlers[h].pc = "invoke"
          BY <2>1, <2>2, <3>2, <4>1 DEF InvokeAction, store
        <4>4. PICK done \in IF outcome = "executed" THEN {1} ELSE {0, 1} :
                 executions' = [executions EXCEPT ![c] = @ + done]
          BY <2>1, <3>2 DEF InvokeAction
        <4>5. done \in {0, 1} /\ (outcome = "executed" => done = 1)
          BY <4>4
        <4> QED BY <4>2, <4>3, <4>4, <4>5
      <3> QED BY <1>10, <3>1, <3>2
    <2>x. PICK x : \E done \in {0, 1} :
             /\ Goto(h, x) /\ executions' = [executions EXCEPT ![c] = @ + done]
             /\ UNCHANGED <<casefiles, audit, inv>> /\ handlers[h].pc = "invoke"
             /\ \/ x = Idle
                \/ /\ x.pc = "report" /\ x.case = c /\ x.file = file
                   /\ x.outcome = "executed" => done = 1
      BY <2>3
    <2>4. PICK done \in {0, 1} :
             /\ Goto(h, x) /\ executions' = [executions EXCEPT ![c] = @ + done]
             /\ UNCHANGED <<casefiles, audit, inv>> /\ handlers[h].pc = "invoke"
             /\ \/ x = Idle
                \/ /\ x.pc = "report" /\ x.case = c /\ x.file = file
                   /\ x.outcome = "executed" => done = 1
      BY <2>x
    <2>5. LocalClaim(x)'
      <3>1. CASE x = Idle
        BY <3>1, LocalClaimIdle DEF Idle
      <3>2. CASE x.pc = "report" /\ x.case = c /\ x.file = file
        BY <1>0, <2>1, <2>2, <2>4, <3>2 DEF LocalClaim, Holding
      <3> QED BY <2>4, <3>1, <3>2
    <2>6. ASSUME NEW d \in Cases PROVE Counts(d)
      <3>1. /\ audit[d]["executed"] \in Nat /\ executions[d] \in Nat /\ executions'[d] \in Nat
            /\ executions'[d] = IF d = c THEN executions[d] + done ELSE executions[d]
        BY <1>0, <2>4 DEF TypeOK, AuditEvents
      <3>2. audit[d]["executed"] + Cardinality(Reporting(d)) <= executions[d]
        BY DEF JournalInv
      <3>3. /\ Cardinality(Reporting(d)) \in Nat /\ Cardinality(Reporting(d)') \in Nat
            /\ Cardinality(Reporting(d)') <=
                  Cardinality(Reporting(d)) + (IF d = c THEN done ELSE 0)
        <4>1. CASE x.pc = "report" /\ x.case = d /\ x.outcome = "executed"
          <5>1. d = c /\ done = 1
            BY <2>4, <4>1, IdleIsIdle
          <5> QED BY <1>0, <2>4, <4>1, <5>1, ReportingStep
        <4>2. CASE ~(x.pc = "report" /\ x.case = d /\ x.outcome = "executed")
          <5>1. /\ Cardinality(Reporting(d)) \in Nat /\ Cardinality(Reporting(d)') \in Nat
                /\ Cardinality(Reporting(d)') <= Cardinality(Reporting(d))
            BY <1>0, <2>4, <4>2, ReportingStep
          <5> QED BY <5>1
        <4> QED BY <4>1, <4>2
      <3> QED BY <2>4, <3>1, <3>2, <3>3
    <2>7. \A d \in Cases : audit[d]["executed"] <= audit'[d]["executed"]
      BY <1>0, <2>4 DEF TypeOK, AuditEvents
    <2>8. CaseClaim(c)'
      BY <1>0, <2>4, <2>7, CaseClaimFrame DEF JournalInv, TypeOK, AuditEvents
    <2> QED BY <2>4, <2>5, <2>6, <2>7, <2>8, JournalRequest
  <1>11. CASE AuditAction(h)
    <2>0. handlers[h] \in [pc : {"report", "close"}, case : Cases, file : Casefile,
                           outcome : Outcomes]
      BY <1>0, <1>11, LocalType DEF AuditAction
    <2>1. PICK c \in Cases : c = handlers[h].case
      BY <2>0
    <2>2. PICK x : x = [handlers[h] EXCEPT !.pc = "close"]
      OBVIOUS
    <2>3. /\ x.pc = "close" /\ x.case = c /\ x.file = handlers[h].file
          /\ x.outcome = handlers[h].outcome
      BY <2>0, <2>1, <2>2
    <2>4. /\ Goto(h, x) /\ UNCHANGED <<casefiles, executions, inv>>
          /\ audit' = [audit EXCEPT ![c][handlers[h].outcome] = @ + 1]
          /\ handlers[h].pc = "report"
      BY <1>11, <2>1, <2>2 DEF AuditAction, Audit
    <2>5. \A d \in Cases :
             /\ audit[d]["executed"] \in Nat /\ audit'[d]["executed"] \in Nat
             /\ audit'[d]["executed"] =
                  IF d = c /\ x.outcome = "executed" THEN audit[d]["executed"] + 1
                                                    ELSE audit[d]["executed"]
      BY <1>0, <2>0, <2>3, <2>4 DEF TypeOK, AuditEvents, Outcomes
    <2>6. \A d \in Cases : audit[d]["executed"] <= audit'[d]["executed"]
      BY <2>5
    <2>7. LocalClaim(x)'
      <3>1. Done(x.file) \in Nat /\ Done(x.file) <= audit[c]["executed"]
        BY <1>0, <2>0, <2>1, <2>3, <2>4, DoneCounts DEF LocalClaim, Holding
      <3>2. /\ Done(x.file) <= audit'[c]["executed"]
            /\ x.outcome = "executed" => Done(x.file) + 1 <= audit'[c]["executed"]
        BY <2>5, <3>1
      <3> QED BY <2>3, <3>2 DEF LocalClaim
    <2>8. ASSUME NEW d \in Cases PROVE Counts(d)
      <3>1. audit[d]["executed"] + Cardinality(Reporting(d)) <= executions[d]
            /\ executions[d] \in Nat
        BY <1>0 DEF JournalInv, TypeOK
      <3>2. (d = c /\ x.outcome = "executed") <=> h \in Reporting(d)
        BY <2>1, <2>3, <2>4 DEF Reporting
      <3>3. /\ Cardinality(Reporting(d)) \in Nat /\ Cardinality(Reporting(d)') \in Nat
            /\ Cardinality(Reporting(d)') <= Cardinality(Reporting(d))
            /\ h \in Reporting(d) =>
                  Cardinality(Reporting(d)') + 1 = Cardinality(Reporting(d))
        BY <1>0, <2>3, <2>4, ReportingStep
      <3> QED BY <2>4, <2>5, <3>1, <3>2, <3>3
    <2>9. CaseClaim(c)'
      BY <2>4, <2>5, <2>6, CaseClaimFrame DEF JournalInv
    <2> QED BY <2>4, <2>6, <2>7, <2>8, <2>9, JournalRequest
  <1> QED BY <1>1, <1>3, <1>4, <1>5, <1>6, <1>7, <1>8, <1>9, <1>10, <1>11 DEF Step, RefuseDecision

\* A step that touches neither requests, trail nor executions.
LEMMA JournalFrame ==
  ASSUME IndInv, TypeOK', JournalInv, UNCHANGED <<handlers, audit, executions>>,
         \A c \in Cases : CaseClaim(c)'
  PROVE  JournalInv'
  <1>0. TypeOK
    BY DEF IndInv
  <1>1. \A c \in Cases : Reporting(c)' = Reporting(c)
    BY DEF Reporting
  <1>2. \A c \in Cases : audit[c]["executed"] <= audit'[c]["executed"]
    BY <1>0 DEF TypeOK, AuditEvents
  <1>3. ASSUME NEW h \in Handlers PROVE LocalClaim(handlers[h])'
    <2>1. PICK l \in Locals : l = handlers[h]
      BY <1>0 DEF TypeOK
    <2>2. LocalClaim(l) /\ handlers'[h] = l
      BY <2>1 DEF JournalInv
    <2>3. LocalClaim(l)'
      BY <1>0, <1>2, <2>2, LocalClaimFrame DEF TypeOK
    <2> QED BY <2>2, <2>3
  <1> QED BY <1>1, <1>3 DEF JournalInv

LEMMA JournalInvestigation ==
  ASSUME IndInv, TypeOK', JournalInv, NEW c \in Cases, Investigating(c)
  PROVE  JournalInv'
  <1>0. TypeOK
    BY DEF IndInv
  <1>1. inv[c] # None
    BY DEF Investigating, Triage, Investigate, Dispatch, DispatchRaises,
           RequestApproval, AwaitApproval
  <1>2. inv[c] \in Investigation /\ inv[c].file \in Casefile
    BY <1>0, <1>1 DEF TypeOK, Investigation
  <1>3. Done(inv[c].file) <= audit[c]["executed"] /\ inv[c].file.status # "resolved"
    BY <1>1 DEF JournalInv, CaseClaim
  <1>4. /\ UNCHANGED <<handlers, audit, executions>>
        /\ \A d \in Cases \ {c} : casefiles'[d] = casefiles[d] /\ inv'[d] = inv[d]
    BY <1>0
    DEF TypeOK, Investigating, Triage, Investigate, Dispatch, DispatchRaises,
        RequestApproval, AwaitApproval, Advance, Save, store
  <1>5. ASSUME NEW file, NEW pc, Advance(c, file, pc),
               file.journal = inv[c].file.journal, file.status # "resolved"
        PROVE  CaseClaim(c)'
    <2>1. casefiles'[c] = file /\ inv'[c].file = file
      BY <1>0, <1>5 DEF TypeOK, Advance, Save
    <2>2. Done(file) <= audit[c]["executed"]
      BY <1>2, <1>3, <1>5, DoneCounts
    <2>3. Done(casefiles[c])' = Done(file) /\ Done(inv[c].file)' = Done(file)
      BY <2>1 DEF Done, Executed
    <2> QED BY <1>4, <1>5, <2>1, <2>2, <2>3 DEF CaseClaim
  <1>6. CaseClaim(c)'
    <2>1. CASE Triage(c)
      <3>1. PICK file : file = [inv[c].file EXCEPT !.status = "triaging"]
        OBVIOUS
      <3>2. file.journal = inv[c].file.journal /\ file.status # "resolved"
        BY <1>2, <3>1 DEF Casefile
      <3> QED BY <1>5, <2>1, <3>1, <3>2 DEF Triage
    <2>2. CASE Investigate(c)
      <3>1. PICK file : file = [inv[c].file EXCEPT !.status = "investigating"]
        OBVIOUS
      <3>2. file.journal = inv[c].file.journal /\ file.status # "resolved"
        BY <1>2, <3>1 DEF Casefile
      <3> QED BY <1>5, <2>2, <3>1, <3>2 DEF Investigate
    <2>3. CASE Dispatch(c)
      <3>1. PICK file : file = [inv[c].file EXCEPT !.outputs = @ + 1]
        OBVIOUS
      <3>2. file.journal = inv[c].file.journal /\ file.status # "resolved"
        BY <1>2, <1>3, <3>1 DEF Casefile
      <3> QED BY <1>5, <2>3, <3>1, <3>2 DEF Dispatch
    <2>4. CASE AwaitApproval(c)
      <3>1. PICK file : file = [inv[c].file EXCEPT !.approval = "pending",
                                                   !.status = "awaiting-approval"]
        OBVIOUS
      <3>2. file.journal = inv[c].file.journal /\ file.status # "resolved"
        BY <1>2, <3>1 DEF Casefile
      <3> QED BY <1>5, <2>4, <3>1, <3>2 DEF AwaitApproval
    <2>5. CASE DispatchRaises(c) \/ RequestApproval(c)
      <3>1. UNCHANGED casefiles /\ inv'[c].file = inv[c].file
        BY <1>0, <1>2, <2>5
        DEF TypeOK, Investigation, DispatchRaises, RequestApproval, store
      <3>2. /\ Done(casefiles[c])' = Done(casefiles[c])
            /\ Executed(casefiles[c])' = Executed(casefiles[c])
            /\ Done(inv[c].file)' = Done(inv[c].file)
        BY <3>1 DEF Done, Executed
      <3> QED BY <1>3, <1>4, <3>1, <3>2 DEF CaseClaim, JournalInv
    <2> QED BY <2>1, <2>2, <2>3, <2>4, <2>5 DEF Investigating
  <1>7. \A d \in Cases : CaseClaim(d)'
    <2> SUFFICES ASSUME NEW d \in Cases, d # c PROVE CaseClaim(d)'
      BY <1>6
    <2>1. audit[d]["executed"] \in Nat
      BY <1>0 DEF TypeOK, AuditEvents
    <2> QED BY <1>4, <2>1, CaseClaimFrame DEF JournalInv
  <1> QED BY <1>4, <1>7, JournalFrame

LEMMA JournalCrash ==
  ASSUME IndInv, TypeOK', JournalInv, Crash
  PROVE  JournalInv'
  <1>0. TypeOK
    BY DEF IndInv
  <1>1. /\ UNCHANGED <<casefiles, audit, executions>>
        /\ \A h \in Handlers : handlers'[h] = Idle
    BY DEF Crash, store
  <1>2. ASSUME NEW c \in Cases PROVE CaseClaim(c)'
    <2>1. inv[c] = None => inv'[c] = None
      BY DEF Crash, Running
    <2>2. inv[c] # None => inv'[c].file = inv[c].file
      BY <1>0 DEF TypeOK, Crash, Investigation
    <2>3. /\ Done(casefiles[c])' = Done(casefiles[c])
          /\ Executed(casefiles[c])' = Executed(casefiles[c])
          /\ inv[c] # None => Done(inv[c].file)' = Done(inv[c].file)
      BY <1>1, <2>2 DEF Done, Executed
    <2> QED BY <1>1, <2>1, <2>2, <2>3 DEF JournalInv, CaseClaim
  <1>3. ASSUME NEW c \in Cases
        PROVE  (audit[c]["executed"] + Cardinality(Reporting(c)) <= executions[c])'
    <2>1. Reporting(c)' = {}
      BY <1>1, IdleIsIdle DEF Reporting
    <2>2. Cardinality(Reporting(c)') = 0
      BY <2>1, FS_EmptySet
    <2>3. Cardinality(Reporting(c)) \in Nat
      BY HandlersAssumption, FS_Subset, FS_CardinalityType DEF Reporting
    <2>4. /\ audit[c]["executed"] + Cardinality(Reporting(c)) <= executions[c]
          /\ audit[c]["executed"] \in Nat /\ executions[c] \in Nat
      BY <1>0 DEF JournalInv, TypeOK, AuditEvents
    <2> QED BY <1>1, <2>2, <2>3, <2>4
  <1>4. \A h \in Handlers : LocalClaim(handlers[h])'
    BY <1>1, LocalClaimIdle
  <1> QED BY <1>2, <1>3, <1>4 DEF JournalInv

LEMMA JournalStep == IndInv /\ JournalInv /\ [Next]_vars => JournalInv'
  <1> SUFFICES ASSUME IndInv, JournalInv, [Next]_vars
               PROVE  JournalInv'
    OBVIOUS
  <1>0. TypeOK' /\ TypeOK
    BY TypeStep DEF IndInv
  <1>1. ASSUME NEW h \in Handlers, Request(h)
        PROVE  JournalInv'
    <2>1. PICK x : Goto(h, x) /\ x.pc \in {"create", "decision", "evaluate-timeout"}
      <3>1. ASSUME NEW k \in Correlations, Trigger(h, k)
            PROVE  \E x : Goto(h, x) /\ x.pc = "create"
        <4>1. [pc |-> "create", correlation |-> k].pc = "create"
          OBVIOUS
        <4> QED BY <3>1, <4>1 DEF Trigger
      <3>2. ASSUME NEW c \in Cases, NEW action \in {"decision", "evaluate-timeout"},
                   ReadApproval(h, c, action)
            PROVE  \E x : Goto(h, x) /\ x.pc = action
        <4>1. [pc |-> action, case |-> c, approval |-> approvals[c]].pc = action
          OBVIOUS
        <4> QED BY <3>2, <4>1 DEF ReadApproval
      <3> QED BY <1>1, <3>1, <3>2 DEF Request
    <2>2. UNCHANGED <<casefiles, audit, executions, inv>>
      BY <1>1 DEF Request, Trigger, ReadApproval, store
    <2>3. LocalClaim(x)'
      BY <2>1 DEF LocalClaim, Holding
    <2> QED BY <1>0, <2>1, <2>2, <2>3, JournalIdleStep
  <1>2. ASSUME NEW h \in Handlers, Step(h)
        PROVE  JournalInv'
    BY <1>0, <1>2, JournalHandler
  <1>3. ASSUME NEW c \in Cases, Investigating(c)
        PROVE  JournalInv'
    BY <1>0, <1>3, JournalInvestigation
  <1>4. CASE Crash
    BY <1>0, <1>4, JournalCrash
  <1>5. CASE Tick \/ UNCHANGED vars
    <2>1. UNCHANGED <<casefiles, audit, executions, inv, handlers>>
      BY <1>5 DEF Tick, vars, store
    <2>2. \A c \in Cases : CaseClaim(c)'
      <3> SUFFICES ASSUME NEW c \in Cases PROVE CaseClaim(c)'
        OBVIOUS
      <3>1. audit[c]["executed"] \in Nat
        BY <1>0 DEF TypeOK, AuditEvents
      <3> QED BY <2>1, <3>1, CaseClaimFrame DEF JournalInv
    <2> QED BY <1>0, <2>1, <2>2, JournalFrame
  <1> QED BY <1>1, <1>2, <1>3, <1>4, <1>5 DEF Next

LEMMA InitJournal == Init => JournalInv
  <1> SUFFICES ASSUME Init PROVE JournalInv
    OBVIOUS
  <1>1. \A c \in Cases : CaseClaim(c)
    BY DEF Init, CaseClaim
  <1>2. \A h \in Handlers : LocalClaim(handlers[h])
    BY LocalClaimIdle DEF Init
  <1>3. ASSUME NEW c \in Cases
        PROVE  audit[c]["executed"] + Cardinality(Reporting(c)) <= executions[c]
    <2>1. Reporting(c) = {}
      BY IdleIsIdle DEF Init, Reporting
    <2>2. audit[c]["executed"] = 0 /\ executions[c] = 0
      BY DEF Init, AuditEvents
    <2> QED BY <2>1, <2>2, FS_EmptySet
  <1> QED BY <1>1, <1>2, <1>3 DEF JournalInv

\* Lost updates and all: no casefile, at any moment and for any number of
\* concurrent requests, claims an executed action that is not on the audit
\* trail, and the trail none that was not carried out (kagent.py,
\* _execute_approved_action and feed_rejection_into_casefile).
THEOREM JournalsClaimOnlyAudited == Spec => []JournalIsAudited
  <1>1. IndInv /\ [Next]_vars => IndInv'
    BY TypeStep, CopiesStep DEF IndInv
  <1>2. IndInv /\ JournalInv => JournalIsAudited
    <2> SUFFICES ASSUME IndInv, JournalInv, NEW c \in Cases
                 PROVE  /\ audit[c]["executed"] <= executions[c]
                        /\ casefiles[c] # None =>
                              /\ Cardinality(Executed(casefiles[c])) <= audit[c]["executed"]
                              /\ casefiles[c].status = "resolved" =>
                                    Executed(casefiles[c]) # {}
      BY DEF JournalIsAudited
    <2>1. Cardinality(Reporting(c)) \in Nat
      BY HandlersAssumption, FS_Subset, FS_CardinalityType DEF Reporting
    <2>2. /\ audit[c]["executed"] + Cardinality(Reporting(c)) <= executions[c]
          /\ audit[c]["executed"] \in Nat /\ executions[c] \in Nat
      BY DEF IndInv, JournalInv, TypeOK, AuditEvents
    <2>3. audit[c]["executed"] <= executions[c]
      BY <2>1, <2>2
    <2> QED BY <2>3 DEF JournalInv, CaseClaim, Done
  <1> QED BY InitIndInv, InitJournal, <1>1, JournalStep, <1>2, PTL DEF Spec

=============================================================================
