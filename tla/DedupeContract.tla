--------------------------- MODULE DedupeContract ---------------------------
(***************************************************************************)
(* What the trigger dispatcher promises, told by its history alone: every  *)
(* matched event and every envelope of the process, with their times,      *)
(* forgotten only in a restart.  An event is told on its own when its key  *)
(* has heard nothing for a dedupe window, in a summary when more than      *)
(* BurstMax events of the key fall into a burst window and none has been   *)
(* summed up in it, and is absorbed otherwise.                             *)
(***************************************************************************)
EXTENDS Naturals, FiniteSets

CONSTANTS Events, Keys, DedupeWindow, BurstWindow, BurstMax

VARIABLES now, processed, sent

vars == <<now, processed, sent>>

Init ==
    /\ now = 0
    /\ processed = {}
    /\ sent = {}

\* The events of k in the burst window that ends now.
Recent(k) ==
    {p.event : p \in {q \in processed : q.key = k /\ now < q.at + BurstWindow}}

Crowded(k, u) == Cardinality(Recent(k) \cup {u}) > BurstMax

Told(k) == \E e \in sent : e.key = k /\ now < e.at + DedupeWindow

SummedUp(k) == \E e \in sent : e.burst /\ e.key = k /\ now < e.at + BurstWindow

Match(k, u) ==
    /\ \A p \in processed : p.event # u
    /\ processed' = processed \cup {[event |-> u, key |-> k, at |-> now]}
    /\ UNCHANGED now

Tell(k, u, burst, covers, count) ==
    sent' = sent \cup {[key |-> k, event |-> u, burst |-> burst, at |-> now,
                        covers |-> covers, suppressed_event_count |-> count]}

Alone(k, u) ==
    Match(k, u) /\ ~Crowded(k, u) /\ ~Told(k) /\ Tell(k, u, FALSE, {}, 0)

SumUp(k, u) ==
    /\ Match(k, u)
    /\ Crowded(k, u)
    /\ ~SummedUp(k)
    /\ LET covers == Recent(k) \cup {u}
       IN  Tell(k, u, TRUE, covers, Cardinality(covers) - 1)

Absorb(k, u) ==
    /\ Match(k, u)
    /\ IF Crowded(k, u) THEN SummedUp(k) ELSE Told(k)
    /\ UNCHANGED sent

\* A poll reads the clock.
Read == now' \in Nat /\ now <= now' /\ UNCHANGED <<processed, sent>>

Forget == processed' = {} /\ sent' = {} /\ UNCHANGED now

Next ==
    \/ \E k \in Keys, u \in Events : Alone(k, u) \/ SumUp(k, u) \/ Absorb(k, u)
    \/ Read
    \/ Forget

Spec == Init /\ [][Next]_vars

=============================================================================
