------------------------------ MODULE ToolCall ------------------------------
(***************************************************************************)
(* What the MCP gateway promises the agent that calls it, told by the HTTP *)
(* status alone.  A call is open until it is forwarded to a tool service   *)
(* or answered.  "ok" (200) means the tool ran, exactly once.  "refused"   *)
(* (400, 403, 503) means it did not run and never will.  "failed" (500,    *)
(* 502, 504) tells the caller nothing: the tool may have run, or may still *)
(* run after the answer.  It never runs twice.                             *)
(***************************************************************************)
EXTENDS Naturals

CONSTANT Requests

VARIABLES phase, runs

callVars == <<phase, runs>>

Init ==
    /\ phase = [r \in Requests |-> "idle"]
    /\ runs = [r \in Requests |-> 0]

Become(r, p) == phase' = [phase EXCEPT ![r] = p]

Open(r) == phase[r] = "idle" /\ Become(r, "open") /\ UNCHANGED runs

Refuse(r) ==
    phase[r] \in {"idle", "open"} /\ Become(r, "refused") /\ UNCHANGED runs

Forward(r) == phase[r] = "open" /\ Become(r, "sent") /\ UNCHANGED runs

Run(r) ==
    /\ phase[r] \in {"sent", "failed"}
    /\ runs[r] = 0
    /\ runs' = [runs EXCEPT ![r] = 1]
    /\ UNCHANGED phase

Succeed(r) ==
    phase[r] = "sent" /\ runs[r] = 1 /\ Become(r, "ok") /\ UNCHANGED runs

Fail(r) ==
    phase[r] \in {"idle", "open", "sent"} /\ Become(r, "failed") /\ UNCHANGED runs

Next ==
    \E r \in Requests :
        Open(r) \/ Refuse(r) \/ Forward(r) \/ Run(r) \/ Succeed(r) \/ Fail(r)

Spec == Init /\ [][Next]_callVars

=============================================================================
