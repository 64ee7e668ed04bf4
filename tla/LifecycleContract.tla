------------------------- MODULE LifecycleContract --------------------------
(***************************************************************************)
(* What contracts/tenancy/TENANT_LIFECYCLE_CONTRACT_V1.yaml and the overlay *)
(* generation contract promise of one tenant's life, whatever handlers run, *)
(* fail half way or are run again:                                         *)
(*   - the lifecycle moves only along the contract's transitions;          *)
(*   - the retention clock is recorded once per life, while offboarding,   *)
(*     and only ever dropped when a purged id is used again;               *)
(*   - nothing tenant-scoped in the overlay tree is deleted, and no tenant *)
(*     is marked purged, before the recorded window has elapsed with no    *)
(*     legal hold;                                                         *)
(*   - an overlay materialises only for a tenant that is being provisioned *)
(*     or is active.                                                       *)
(***************************************************************************)
EXTENDS Naturals

CONSTANTS Tenants, NoWindow

VARIABLES now, state, window, hold, present

vars == <<now, state, window, hold, present>>

Init ==
    /\ now = 0
    /\ state = [t \in Tenants |-> "none"]
    /\ window = [t \in Tenants |-> NoWindow]
    /\ hold = [t \in Tenants |-> FALSE]
    /\ present = [t \in Tenants |-> FALSE]

\* The deletion of a tenant's data may begin.
Purgeable(t) ==
    /\ state[t] = "offboarding"
    /\ window[t] # NoWindow
    /\ window[t] <= now
    /\ ~hold[t]

\* A fresh life starts without a hold and without a retention clock.
Create(t) ==
    /\ state[t] \in {"none", "purged"}
    /\ window[t] = NoWindow
    /\ state' = [state EXCEPT ![t] = "provisioning"]
    /\ hold' = [hold EXCEPT ![t] = FALSE]
    /\ UNCHANGED <<now, window, present>>

Move(t, from, to) ==
    /\ state[t] \in from
    /\ state' = [state EXCEPT ![t] = to]
    /\ UNCHANGED <<now, window, hold, present>>

Purge(t) ==
    /\ Purgeable(t)
    /\ Move(t, {"offboarding"}, "purged")

RecordWindow(t) ==
    /\ state[t] = "offboarding"
    /\ window[t] = NoWindow
    /\ window'[t] \in Nat
    /\ window' = [window EXCEPT ![t] = window'[t]]
    /\ UNCHANGED <<now, state, hold, present>>

DropWindow(t) ==
    /\ state[t] = "purged"
    /\ window' = [window EXCEPT ![t] = NoWindow]
    /\ UNCHANGED <<now, state, hold, present>>

SetHold(t) ==
    /\ state[t] # "none"
    /\ hold' = [hold EXCEPT ![t] = ~hold[t]]
    /\ UNCHANGED <<now, state, window, present>>

Materialise(t) ==
    /\ state[t] \in {"provisioning", "active"}
    /\ present' = [present EXCEPT ![t] = TRUE]
    /\ UNCHANGED <<now, state, window, hold>>

Delete(t) ==
    /\ Purgeable(t) \/ state[t] = "purged"
    /\ present' = [present EXCEPT ![t] = FALSE]
    /\ UNCHANGED <<now, state, window, hold>>

Tick ==
    /\ now' = now + 1
    /\ UNCHANGED <<state, window, hold, present>>

Next ==
    \/ Tick
    \/ \E t \in Tenants :
          \/ Create(t)
          \/ Move(t, {"provisioning"}, "active")
          \/ Move(t, {"active"}, "suspended")
          \/ Move(t, {"suspended"}, "active")
          \/ Move(t, {"active", "suspended"}, "offboarding")
          \/ RecordWindow(t) \/ DropWindow(t) \/ Purge(t)
          \/ SetHold(t) \/ Materialise(t) \/ Delete(t)

Spec == Init /\ [][Next]_vars
=============================================================================
