-------------------------- MODULE McpGatewayProofs --------------------------
(***************************************************************************)
(* The gateway under its two kinds of thread, for any services, threshold  *)
(* and number of requests: the registry agrees with its journal, the two   *)
(* unlocked reads route as one would, only permitted calls run and each of *)
(* them is recorded, and every step is one of ToolCall or a stutter.       *)
(***************************************************************************)
EXTENDS McpGateway, TLAPS

HbActions == {"marked-unhealthy", "re-registered"}

HbPcs == {"sleep", "probe", "alive", "miss", "reset", "setHealthy",
          "setRegistered", "clearHealthy", "clearRegistered", "recordDown"}

RegistryTypeOK ==
    /\ healthy \in [Services -> BOOLEAN]
    /\ registered \in [Services -> BOOLEAN]
    /\ missed \in [Services -> Nat]
    /\ hbLog \in [Services -> Seq(HbActions)]
    /\ hb \in [pc : HbPcs, i : 1..Len(Catalog)]

\* The journal of a service alternates, beginning with a loss.
Alternates(log) ==
    \A i \in 1..Len(log) :
        log[i] = IF i % 2 = 1 THEN "marked-unhealthy" ELSE "re-registered"

\* The journal's last word is that the service is registered.
SaysUp(log) == Len(log) % 2 = 0

\* What an entry says between two rounds of the heartbeat.
Settled(s) ==
    /\ healthy[s] <=> registered[s]
    /\ healthy[s] <=> missed[s] < Threshold
    /\ registered[s] <=> SaysUp(hbLog[s])

\* What is already true of it at each place inside a round.  In both kinds
\* of round the journal says "registered" on the way: recovery is recorded
\* first, a loss last.
InRound(s) ==
    /\ SaysUp(hbLog[s])
    /\ hb.pc \in {"setHealthy", "setRegistered"} => missed[s] < Threshold
    /\ hb.pc = "setRegistered" => healthy[s]
    /\ hb.pc \in {"clearHealthy", "clearRegistered", "recordDown"} =>
           ~(missed[s] < Threshold)
    /\ hb.pc \in {"clearRegistered", "recordDown"} => ~healthy[s]
    /\ hb.pc = "recordDown" => ~registered[s]

EntryInv(s) ==
    /\ Alternates(hbLog[s])
    /\ AtRest(s) => Settled(s)
    /\ ~AtRest(s) => InRound(s)

RegistryInv == RegistryTypeOK /\ \A s \in Services : EntryInv(s)

-----------------------------------------------------------------------------

\* The next record a journal may get keeps it alternating.
LEMMA AppendAlternates ==
  ASSUME NEW log \in Seq(HbActions), Alternates(log), NEW a \in HbActions,
         a = IF SaysUp(log) THEN "marked-unhealthy" ELSE "re-registered"
  PROVE  /\ Append(log, a) \in Seq(HbActions)
         /\ Alternates(Append(log, a))
         /\ SaysUp(Append(log, a)) <=> ~SaysUp(log)
  <1> DEFINE new == Append(log, a)
  <1>1. new \in Seq(HbActions) /\ Len(new) = Len(log) + 1 /\ Len(log) \in Nat
    OBVIOUS
  <1>2. SaysUp(new) <=> ~SaysUp(log)
    BY <1>1 DEF SaysUp
  <1>3. ASSUME NEW i \in 1..Len(new)
        PROVE  new[i] = IF i % 2 = 1 THEN "marked-unhealthy" ELSE "re-registered"
    <2>1. CASE i \in 1..Len(log)
      <3>1. new[i] = log[i]
        BY <2>1
      <3> QED
        BY <3>1, <2>1 DEF Alternates
    <2>2. CASE i = Len(log) + 1
      <3>1. new[i] = a
        BY <2>2, <1>1
      <3>2. i % 2 = 1 <=> SaysUp(log)
        BY <2>2, <1>1 DEF SaysUp
      <3> QED
        BY <3>1, <3>2
    <2> QED
      BY <2>1, <2>2, <1>1
  <1> QED
    BY <1>1, <1>2, <1>3 DEF Alternates

\* The service the heartbeat is at is a registered one.
LEMMA ProbedIsService ==
  ASSUME RegistryTypeOK
  PROVE  Probed \in Services
  BY DEF RegistryTypeOK, Probed, Services

LEMMA InitRegistry == Init => RegistryInv
  <1> SUFFICES ASSUME Init PROVE RegistryInv
    OBVIOUS
  <1> USE DEF Init
  <1>1. RegistryTypeOK
    <2>1. 1 \in 1..Len(Catalog)
      BY GatewayAssumption
    <2>2. hb \in [pc : HbPcs, i : 1..Len(Catalog)]
      BY <2>1 DEF HbPcs
    <2> QED
      BY <2>2 DEF RegistryTypeOK
  <1>2. ASSUME NEW s \in Services
        PROVE  EntryInv(s)
    <2>1. Alternates(hbLog[s]) /\ SaysUp(hbLog[s])
      BY DEF Alternates, SaysUp
    <2>2. AtRest(s)
      BY DEF AtRest
    <2>3. missed[s] < Threshold
      BY GatewayAssumption
    <2>4. Settled(s)
      BY <2>1, <2>3 DEF Settled
    <2> QED
      BY <2>1, <2>2, <2>4 DEF EntryInv
  <1> QED
    BY <1>1, <1>2 DEF RegistryInv

-----------------------------------------------------------------------------
(* One round of the heartbeat. *)

registryState == <<registryVars, hb, hbLog>>

\* A step of another thread touches no registry entry.
LEMMA OtherThreads ==
  ASSUME RegistryInv, UNCHANGED registryState
  PROVE  RegistryInv'
  BY DEF RegistryInv, RegistryTypeOK, EntryInv, Settled, InRound, AtRest, Probed,
         registryState, registryVars

\* The entries the heartbeat is not at keep what they say.
LEMMA OtherEntries ==
  ASSUME RegistryInv, NEW s \in Services, s # Probed,
         healthy'[s] = healthy[s], registered'[s] = registered[s],
         missed'[s] = missed[s], hbLog'[s] = hbLog[s],
         Probed' = Probed \/ hb'.pc \in {"sleep", "probe"}
  PROVE  EntryInv(s)'
  <1>1. AtRest(s) /\ AtRest(s)'
    BY DEF AtRest
  <1>2. Settled(s) /\ Alternates(hbLog[s])
    BY <1>1 DEF RegistryInv, EntryInv
  <1>3. Settled(s)' /\ Alternates(hbLog[s])'
    BY <1>2 DEF Settled
  <1> QED
    BY <1>1, <1>3 DEF EntryInv

LEMMA GotoStays ==
  ASSUME RegistryTypeOK, NEW p \in HbPcs, HbGoto(p)
  PROVE  /\ hb' \in [pc : HbPcs, i : 1..Len(Catalog)]
         /\ hb'.pc = p
         /\ Probed' = Probed
  BY DEF RegistryTypeOK, HbGoto, Probed

LEMMA NextServiceRests ==
  ASSUME RegistryTypeOK, HbNextService
  PROVE  /\ hb' \in [pc : HbPcs, i : 1..Len(Catalog)]
         /\ hb'.pc \in {"sleep", "probe"}
  <1>1. hb.i \in 1..Len(Catalog) /\ Len(Catalog) \in Nat /\ Len(Catalog) >= 1
    BY GatewayAssumption DEF RegistryTypeOK
  <1>2. CASE hb.i = Len(Catalog)
    BY <1>1, <1>2 DEF HbNextService, HbPcs
  <1>3. CASE hb.i # Len(Catalog)
    <2>1. hb.i + 1 \in 1..Len(Catalog)
      BY <1>1, <1>3
    <2> QED
      BY <2>1, <1>3 DEF HbNextService, HbPcs
  <1> QED
    BY <1>2, <1>3

\* A step of the heartbeat concerns the entry it is at.
LEMMA ProbedEntryOnly ==
  ASSUME RegistryInv, RegistryTypeOK', NEW p \in Services, p = Probed, EntryInv(p)',
         \A s \in Services \ {p} :
             /\ healthy'[s] = healthy[s] /\ registered'[s] = registered[s]
             /\ missed'[s] = missed[s] /\ hbLog'[s] = hbLog[s],
         Probed' = Probed \/ hb'.pc \in {"sleep", "probe"}
  PROVE  RegistryInv'
  <1>1. ASSUME NEW s \in Services, s # p
        PROVE  EntryInv(s)'
    <2>1. /\ healthy'[s] = healthy[s] /\ registered'[s] = registered[s]
          /\ missed'[s] = missed[s] /\ hbLog'[s] = hbLog[s]
      BY <1>1
    <2> QED
      BY <2>1, <1>1, OtherEntries
  <1> QED
    BY <1>1 DEF RegistryInv

\* The heartbeat moves between places where it has touched nothing.
LEMMA RestStep ==
  ASSUME RegistryInv, UNCHANGED <<registryVars, hbLog>>,
         hb.pc \in {"sleep", "probe", "alive", "miss"},
         hb' \in [pc : HbPcs, i : 1..Len(Catalog)],
         hb'.pc \in {"sleep", "probe", "alive", "miss"}
  PROVE  RegistryInv'
  <1>1. RegistryTypeOK'
    BY DEF RegistryInv, RegistryTypeOK, registryVars
  <1>2. ASSUME NEW s \in Services
        PROVE  EntryInv(s)'
    <2>1. AtRest(s) /\ AtRest(s)'
      BY DEF AtRest
    <2>2. Settled(s) /\ Alternates(hbLog[s])
      BY <2>1 DEF RegistryInv, EntryInv
    <2>3. Settled(s)' /\ Alternates(hbLog[s])'
      BY <2>2 DEF Settled, registryVars
    <2> QED
      BY <2>1, <2>3 DEF EntryInv
  <1> QED
    BY <1>1, <1>2 DEF RegistryInv

\* Every step of the heartbeat thread preserves the invariant.
LEMMA HeartbeatStep ==
  ASSUME RegistryInv, Heartbeat
  PROVE  RegistryInv'
  <1> DEFINE p == Probed
  <1>0. RegistryTypeOK /\ p \in Services /\ EntryInv(p)
    BY ProbedIsService DEF RegistryInv
  <1>t. /\ healthy \in [Services -> BOOLEAN] /\ registered \in [Services -> BOOLEAN]
        /\ missed \in [Services -> Nat] /\ hbLog \in [Services -> Seq(HbActions)]
    BY <1>0 DEF RegistryTypeOK
  <1>1. CASE HbWake
    <2>1. hb'.pc = "probe" /\ hb' \in [pc : HbPcs, i : 1..Len(Catalog)]
      BY <1>0, <1>1, GotoStays DEF HbWake, HbPcs
    <2> QED
      BY <2>1, <1>1, RestStep DEF HbWake
  <1>2. CASE HbProbeAnswered
    <2>1. hb'.pc = "alive" /\ hb' \in [pc : HbPcs, i : 1..Len(Catalog)]
      BY <1>0, <1>2, GotoStays DEF HbProbeAnswered, HbPcs
    <2> QED
      BY <2>1, <1>2, RestStep DEF HbProbeAnswered
  <1>3. CASE HbProbeFails
    <2>1. hb'.pc = "miss" /\ hb' \in [pc : HbPcs, i : 1..Len(Catalog)]
      BY <1>0, <1>3, GotoStays DEF HbProbeFails, HbPcs
    <2> QED
      BY <2>1, <1>3, RestStep DEF HbProbeFails
  <1>4. CASE HbRecordRecovery
    <2>1. /\ hb'.pc = "reset" /\ Probed' = Probed
          /\ hb' \in [pc : HbPcs, i : 1..Len(Catalog)]
      BY <1>0, <1>4, GotoStays DEF HbRecordRecovery, HbPcs
    <2>2. Settled(p) /\ Alternates(hbLog[p])
      BY <1>0, <1>4 DEF EntryInv, AtRest, HbRecordRecovery
    <2>3. /\ hbLog' \in [Services -> Seq(HbActions)]
          /\ Alternates(hbLog'[p]) /\ SaysUp(hbLog'[p])
          /\ \A s \in Services \ {p} : hbLog'[s] = hbLog[s]
      <3>1. CASE registered[p]
        BY <3>1, <2>2, <1>t, <1>4 DEF HbRecordRecovery, Settled
      <3>2. CASE ~registered[p]
        <4>1. ~SaysUp(hbLog[p])
          BY <3>2, <2>2 DEF Settled
        <4>2. /\ Append(hbLog[p], "re-registered") \in Seq(HbActions)
              /\ Alternates(Append(hbLog[p], "re-registered"))
              /\ SaysUp(Append(hbLog[p], "re-registered"))
          BY <4>1, <2>2, <1>0, <1>t, AppendAlternates DEF HbActions
        <4>3. hbLog' = [hbLog EXCEPT ![p] = Append(@, "re-registered")]
          BY <3>2, <1>4 DEF HbRecordRecovery
        <4> QED
          BY <4>2, <4>3, <1>0, <1>t
      <3> QED
        BY <3>1, <3>2
    <2>4. UNCHANGED <<healthy, registered, missed>>
      BY <1>4 DEF HbRecordRecovery, registryVars
    <2>5. RegistryTypeOK'
      BY <2>1, <2>3, <2>4, <1>t DEF RegistryTypeOK
    <2>6. ~AtRest(p)'
      BY <2>1 DEF AtRest
    <2>7. \A q : q = p => EntryInv(q)'
      BY <2>1, <2>3, <2>6 DEF EntryInv, InRound, AtRest
    <2> QED
      BY <2>1, <2>3, <2>4, <2>5, <2>7, <1>0, ProbedEntryOnly
  <1>5. CASE HbResetMissed
    <2>1. /\ hb'.pc = "setHealthy" /\ Probed' = Probed
          /\ hb' \in [pc : HbPcs, i : 1..Len(Catalog)]
      BY <1>0, <1>5, GotoStays DEF HbResetMissed, HbPcs
    <2>2. Alternates(hbLog[p]) /\ SaysUp(hbLog[p])
      BY <1>0, <1>5 DEF EntryInv, InRound, AtRest, HbResetMissed
    <2>3. /\ missed' \in [Services -> Nat]
          /\ missed'[p] < Threshold
          /\ \A s \in Services \ {p} : missed'[s] = missed[s]
      BY <1>0, <1>t, <1>5, GatewayAssumption DEF HbResetMissed
    <2>4. UNCHANGED <<healthy, registered, hbLog>>
      BY <1>5 DEF HbResetMissed
    <2>5. RegistryTypeOK'
      BY <2>1, <2>3, <2>4, <1>t DEF RegistryTypeOK
    <2>6. \A q : q = p => EntryInv(q)'
      BY <2>1, <2>2, <2>3, <2>4 DEF EntryInv, InRound, AtRest
    <2> QED
      BY <2>1, <2>3, <2>4, <2>5, <2>6, <1>0, ProbedEntryOnly
  <1>6. CASE HbSetHealthy
    <2>1. /\ hb'.pc = "setRegistered" /\ Probed' = Probed
          /\ hb' \in [pc : HbPcs, i : 1..Len(Catalog)]
      BY <1>0, <1>6, GotoStays DEF HbSetHealthy, HbPcs
    <2>2. Alternates(hbLog[p]) /\ SaysUp(hbLog[p]) /\ missed[p] < Threshold
      BY <1>0, <1>6 DEF EntryInv, InRound, AtRest, HbSetHealthy
    <2>3. /\ healthy' \in [Services -> BOOLEAN]
          /\ healthy'[p]
          /\ \A s \in Services \ {p} : healthy'[s] = healthy[s]
      BY <1>0, <1>t, <1>6 DEF HbSetHealthy
    <2>4. UNCHANGED <<missed, registered, hbLog>>
      BY <1>6 DEF HbSetHealthy
    <2>5. RegistryTypeOK'
      BY <2>1, <2>3, <2>4, <1>t DEF RegistryTypeOK
    <2>6. \A q : q = p => EntryInv(q)'
      BY <2>1, <2>2, <2>3, <2>4 DEF EntryInv, InRound, AtRest
    <2> QED
      BY <2>1, <2>3, <2>4, <2>5, <2>6, <1>0, ProbedEntryOnly
  <1>7. CASE HbSetRegistered
    <2>1. hb'.pc \in {"sleep", "probe"} /\ hb' \in [pc : HbPcs, i : 1..Len(Catalog)]
      BY <1>0, <1>7, NextServiceRests DEF HbSetRegistered
    <2>2. Alternates(hbLog[p]) /\ SaysUp(hbLog[p]) /\ missed[p] < Threshold /\ healthy[p]
      BY <1>0, <1>7 DEF EntryInv, InRound, AtRest, HbSetRegistered
    <2>3. /\ registered' \in [Services -> BOOLEAN]
          /\ registered'[p]
          /\ \A s \in Services \ {p} : registered'[s] = registered[s]
      BY <1>0, <1>t, <1>7 DEF HbSetRegistered
    <2>4. UNCHANGED <<missed, healthy, hbLog>>
      BY <1>7 DEF HbSetRegistered
    <2>5. RegistryTypeOK'
      BY <2>1, <2>3, <2>4, <1>t DEF RegistryTypeOK
    <2>6. \A q : q = p => EntryInv(q)'
      BY <2>1, <2>2, <2>3, <2>4 DEF EntryInv, Settled, AtRest
    <2> QED
      BY <2>1, <2>3, <2>4, <2>5, <2>6, <1>0, ProbedEntryOnly
  <1>8. CASE HbCountMiss
    <2>1. Settled(p) /\ Alternates(hbLog[p])
      BY <1>0, <1>8 DEF EntryInv, AtRest, HbCountMiss
    <2>2. /\ missed' \in [Services -> Nat]
          /\ missed[p] >= Threshold => missed'[p] >= Threshold
          /\ \A s \in Services \ {p} : missed'[s] = missed[s]
      BY <1>0, <1>t, <1>8, GatewayAssumption DEF HbCountMiss
    <2>3. UNCHANGED <<healthy, registered, hbLog>>
      BY <1>8 DEF HbCountMiss
    <2>4. /\ missed'[p] < Threshold <=> ~(missed'[p] >= Threshold)
          /\ missed[p] < Threshold <=> ~(missed[p] >= Threshold)
      BY <2>2, <1>t, <1>0, GatewayAssumption
    <2>5. CASE MarksUnhealthy(p) /\ HbGoto("clearHealthy")
      <3>1. /\ hb'.pc = "clearHealthy" /\ Probed' = Probed
            /\ hb' \in [pc : HbPcs, i : 1..Len(Catalog)]
        BY <1>0, <2>5, GotoStays DEF HbPcs
      <3>2. healthy[p] /\ ~(missed'[p] < Threshold)
        BY <2>5, <2>4 DEF MarksUnhealthy
      <3>3. SaysUp(hbLog[p])
        BY <3>2, <2>1 DEF Settled
      <3>4. RegistryTypeOK'
        BY <3>1, <2>2, <2>3, <1>t DEF RegistryTypeOK
      <3>5. \A q : q = p => EntryInv(q)'
        BY <3>1, <3>2, <3>3, <2>1, <2>3 DEF EntryInv, InRound, AtRest
      <3> QED
        BY <3>1, <3>4, <3>5, <2>2, <2>3, <1>0, ProbedEntryOnly
    <2>6. CASE ~MarksUnhealthy(p) /\ HbNextService
      <3>1. hb'.pc \in {"sleep", "probe"} /\ hb' \in [pc : HbPcs, i : 1..Len(Catalog)]
        BY <1>0, <2>6, NextServiceRests
      <3>2. healthy[p] <=> missed'[p] < Threshold
        BY <2>1, <2>2, <2>4, <2>6 DEF MarksUnhealthy, Settled
      <3>3. RegistryTypeOK'
        BY <3>1, <2>2, <2>3, <1>t DEF RegistryTypeOK
      <3>4. \A q : q = p => EntryInv(q)'
        BY <3>1, <3>2, <2>1, <2>3 DEF EntryInv, Settled, AtRest
      <3> QED
        BY <3>1, <3>3, <3>4, <2>2, <2>3, <1>0, ProbedEntryOnly
    <2> QED
      BY <2>5, <2>6, <1>8 DEF HbCountMiss
  <1>9. CASE HbClearHealthy
    <2>1. /\ hb'.pc = "clearRegistered" /\ Probed' = Probed
          /\ hb' \in [pc : HbPcs, i : 1..Len(Catalog)]
      BY <1>0, <1>9, GotoStays DEF HbClearHealthy, HbPcs
    <2>2. Alternates(hbLog[p]) /\ SaysUp(hbLog[p]) /\ ~(missed[p] < Threshold)
      BY <1>0, <1>9 DEF EntryInv, InRound, AtRest, HbClearHealthy
    <2>3. /\ healthy' \in [Services -> BOOLEAN]
          /\ ~healthy'[p]
          /\ \A s \in Services \ {p} : healthy'[s] = healthy[s]
      BY <1>0, <1>t, <1>9 DEF HbClearHealthy
    <2>4. UNCHANGED <<missed, registered, hbLog>>
      BY <1>9 DEF HbClearHealthy
    <2>5. RegistryTypeOK'
      BY <2>1, <2>3, <2>4, <1>t DEF RegistryTypeOK
    <2>6. \A q : q = p => EntryInv(q)'
      BY <2>1, <2>2, <2>3, <2>4 DEF EntryInv, InRound, AtRest
    <2> QED
      BY <2>1, <2>3, <2>4, <2>5, <2>6, <1>0, ProbedEntryOnly
  <1>10. CASE HbClearRegistered
    <2>1. /\ hb'.pc = "recordDown" /\ Probed' = Probed
          /\ hb' \in [pc : HbPcs, i : 1..Len(Catalog)]
      BY <1>0, <1>10, GotoStays DEF HbClearRegistered, HbPcs
    <2>2. Alternates(hbLog[p]) /\ SaysUp(hbLog[p]) /\ ~(missed[p] < Threshold) /\ ~healthy[p]
      BY <1>0, <1>10 DEF EntryInv, InRound, AtRest, HbClearRegistered
    <2>3. /\ registered' \in [Services -> BOOLEAN]
          /\ ~registered'[p]
          /\ \A s \in Services \ {p} : registered'[s] = registered[s]
      BY <1>0, <1>t, <1>10 DEF HbClearRegistered
    <2>4. UNCHANGED <<missed, healthy, hbLog>>
      BY <1>10 DEF HbClearRegistered
    <2>5. RegistryTypeOK'
      BY <2>1, <2>3, <2>4, <1>t DEF RegistryTypeOK
    <2>6. \A q : q = p => EntryInv(q)'
      BY <2>1, <2>2, <2>3, <2>4 DEF EntryInv, InRound, AtRest
    <2> QED
      BY <2>1, <2>3, <2>4, <2>5, <2>6, <1>0, ProbedEntryOnly
  <1>11. CASE HbRecordDown
    <2>1. hb'.pc \in {"sleep", "probe"} /\ hb' \in [pc : HbPcs, i : 1..Len(Catalog)]
      BY <1>0, <1>11, NextServiceRests DEF HbRecordDown
    <2>2. /\ Alternates(hbLog[p]) /\ SaysUp(hbLog[p])
          /\ ~(missed[p] < Threshold) /\ ~healthy[p] /\ ~registered[p]
      BY <1>0, <1>11 DEF EntryInv, InRound, AtRest, HbRecordDown
    <2>3. /\ Append(hbLog[p], "marked-unhealthy") \in Seq(HbActions)
          /\ Alternates(Append(hbLog[p], "marked-unhealthy"))
          /\ ~SaysUp(Append(hbLog[p], "marked-unhealthy"))
      BY <2>2, <1>0, <1>t, AppendAlternates DEF HbActions
    <2>4. /\ hbLog' \in [Services -> Seq(HbActions)]
          /\ Alternates(hbLog'[p]) /\ ~SaysUp(hbLog'[p])
          /\ \A s \in Services \ {p} : hbLog'[s] = hbLog[s]
      BY <2>3, <1>0, <1>t, <1>11 DEF HbRecordDown
    <2>5. UNCHANGED <<healthy, registered, missed>>
      BY <1>11 DEF HbRecordDown, registryVars
    <2>6. RegistryTypeOK'
      BY <2>1, <2>4, <2>5, <1>t DEF RegistryTypeOK
    <2>7. \A q : q = p => EntryInv(q)'
      BY <2>1, <2>2, <2>4, <2>5 DEF EntryInv, Settled, AtRest
    <2> QED
      BY <2>1, <2>4, <2>5, <2>6, <2>7, <1>0, ProbedEntryOnly
  <1> QED
    BY <1>1, <1>2, <1>3, <1>4, <1>5, <1>6, <1>7, <1>8, <1>9, <1>10, <1>11
    DEF Heartbeat

-----------------------------------------------------------------------------

LEMMA NextRegistry ==
  ASSUME RegistryInv, [Next]_vars
  PROVE  RegistryInv'
  <1>1. CASE Heartbeat
    BY <1>1, HeartbeatStep
  <1>2. ASSUME NEW r \in Requests, NEW e \in Envelopes, Receive(r, e)
        PROVE  UNCHANGED registryState
    BY <1>2 DEF Receive, registryState, hbVars
  <1>3. ASSUME NEW r \in Requests, RequestThread(r)
        PROVE  UNCHANGED registryState
    BY <1>3 DEF RequestThread, CheckHealthy, CheckRegistered, TimeOut, RelayFailure,
                RelayResult, registryState, hbVars
  <1>4. ASSUME NEW r \in Requests, HostRuns(r) \/ CallLost(r)
        PROVE  UNCHANGED registryState
    BY <1>4 DEF HostRuns, CallLost, registryState, hbVars
  <1>5. ASSUME NEW s \in Services, HostChanges(s)
        PROVE  UNCHANGED registryState
    BY <1>5 DEF HostChanges, registryState, hbVars
  <1>6. CASE UNCHANGED vars
    <2>1. UNCHANGED registryState
      BY <1>6 DEF vars, registryState, hbVars
    <2> QED
      BY <2>1, OtherThreads
  <1> QED
    BY <1>1, <1>2, <1>3, <1>4, <1>5, <1>6, OtherThreads DEF Next, Step

\* However probes fail and recover, between two rounds of the heartbeat an
\* entry of the registry agrees with itself and with the journal.
THEOREM HealthIsJournalled == Spec => []JournalTellsHealth
  <1>1. RegistryInv => JournalTellsHealth
    <2> SUFFICES ASSUME RegistryInv, NEW s \in Services, AtRest(s)
                 PROVE  /\ healthy[s] = registered[s]
                        /\ healthy[s] <=> missed[s] < Threshold
                        /\ registered[s] <=> Len(hbLog[s]) % 2 = 0
                        /\ \A i \in 1..Len(hbLog[s]) :
                              hbLog[s][i] = IF i % 2 = 1 THEN "marked-unhealthy"
                                            ELSE "re-registered"
      BY DEF JournalTellsHealth
    <2>1. Settled(s) /\ Alternates(hbLog[s])
      BY DEF RegistryInv, EntryInv
    <2>2. healthy[s] \in BOOLEAN /\ registered[s] \in BOOLEAN
      BY DEF RegistryInv, RegistryTypeOK
    <2>3. healthy[s] = registered[s]
      BY <2>1, <2>2 DEF Settled
    <2> QED
      BY <2>1, <2>3 DEF Settled, Alternates, SaysUp
  <1> QED
    BY <1>1, InitRegistry, NextRegistry, PTL DEF Spec

-----------------------------------------------------------------------------
(* The life of a call. *)

Records == {<<>>, <<"executed">>, <<"failed">>, <<"blocked">>}

CallTypeOK ==
    /\ pc \in [Requests -> {"idle", "healthy", "registered", "waiting", "done"}]
    /\ req \in [Requests -> Envelopes \cup {NoEnvelope}]
    /\ answer \in [Requests -> Nat]
    /\ records \in [Requests -> Records]
    /\ call \in [Requests -> {"none", "inflight", "ran", "lost"}]
    /\ runs \in [Requests -> Nat]

Passed(r) == req[r] \in Envelopes /\ Admitted(req[r])

\* A call that was posted is one that passed the checks; what it was answered
\* and what the journal says of it fit what became of the POST.
CallInv(r) ==
    /\ pc[r] \in {"healthy", "registered", "waiting"} => Passed(r)
    /\ pc[r] # "done" => records[r] = <<>>
    /\ call[r] # "none" => Passed(r) /\ pc[r] \in {"waiting", "done"}
    /\ pc[r] = "waiting" => call[r] # "none"
    /\ runs[r] = IF call[r] = "ran" THEN 1 ELSE 0
    /\ records[r] = <<"executed">> => answer[r] = 200 /\ call[r] = "ran"
    /\ records[r] = <<"blocked">> => call[r] = "none"
    /\ pc[r] = "done" /\ call[r] # "none" =>
           /\ answer[r] \in {200, 500, 502, 504}
           /\ answer[r] = 200 => call[r] = "ran"
           /\ req[r].input # "null" => records[r] \in {<<"executed">>, <<"failed">>}

CallsInv == CallTypeOK /\ \A r \in Requests : CallInv(r)

LEMMA InitCalls == Init => CallsInv
  <1> SUFFICES ASSUME Init PROVE CallsInv
    OBVIOUS
  <1>1. CallTypeOK
    <2>1. records \in [Requests -> Records]
      BY DEF Init, Records
    <2>2. req \in [Requests -> Envelopes \cup {NoEnvelope}]
      BY DEF Init
    <2>3. answer \in [Requests -> Nat] /\ runs \in [Requests -> Nat]
      BY DEF Init
    <2>4. /\ pc \in [Requests -> {"idle", "healthy", "registered", "waiting", "done"}]
          /\ call \in [Requests -> {"none", "inflight", "ran", "lost"}]
      BY DEF Init
    <2> QED
      BY <2>1, <2>2, <2>3, <2>4 DEF CallTypeOK
  <1>2. ASSUME NEW r \in Requests PROVE CallInv(r)
    <2>1. /\ pc[r] = "idle" /\ records[r] = <<>> /\ call[r] = "none" /\ runs[r] = 0
      BY DEF Init
    <2>2. <<>> # <<"executed">> /\ <<>> # <<"blocked">>
      OBVIOUS
    <2> QED
      BY <2>1, <2>2 DEF CallInv
  <1> QED
    BY <1>1, <1>2 DEF CallsInv

callState == <<requestVars, hostVars>>

\* The heartbeat and the hosts going down or up touch no call.
LEMMA OtherSteps ==
  ASSUME CallsInv, UNCHANGED callState
  PROVE  CallsInv'
  BY DEF CallsInv, CallTypeOK, CallInv, Passed, callState, requestVars, hostVars

\* A step of one call leaves the others alone.
LEMMA OneCall ==
  ASSUME CallsInv, CallTypeOK', NEW r \in Requests, CallInv(r)',
         \A q \in Requests \ {r} :
             /\ pc'[q] = pc[q] /\ req'[q] = req[q] /\ answer'[q] = answer[q]
             /\ records'[q] = records[q] /\ call'[q] = call[q] /\ runs'[q] = runs[q]
  PROVE  CallsInv'
  <1>1. ASSUME NEW q \in Requests, q # r
        PROVE  CallInv(q)'
    <2>1. CallInv(q)
      BY DEF CallsInv
    <2>2. /\ pc'[q] = pc[q] /\ req'[q] = req[q] /\ answer'[q] = answer[q]
          /\ records'[q] = records[q] /\ call'[q] = call[q] /\ runs'[q] = runs[q]
      BY <1>1
    <2> QED
      BY <2>1, <2>2 DEF CallInv, Passed
  <1> QED
    BY <1>1 DEF CallsInv

\* The answer of a request, with one record for a call that had none.
LEMMA AnswerEffect ==
  ASSUME CallsInv, NEW r \in Requests, pc[r] # "done", NEW status \in Nat,
         NEW outcome \in {"executed", "failed", "blocked"}, Answer(r, status, outcome)
  PROVE  /\ pc' = [pc EXCEPT ![r] = "done"]
         /\ answer' = [answer EXCEPT ![r] = status]
         /\ records' = [records EXCEPT ![r] = <<outcome>>]
         /\ pc'[r] = "done" /\ answer'[r] = status /\ records'[r] = <<outcome>>
         /\ <<outcome>> \in Records
  <1>1. records[r] = <<>>
    BY DEF CallsInv, CallInv
  <1>2. Append(<<>>, outcome) = <<outcome>>
    OBVIOUS
  <1>3. records' = [records EXCEPT ![r] = <<outcome>>]
    BY <1>1, <1>2 DEF Answer
  <1> QED
    BY <1>3 DEF Answer, CallsInv, CallTypeOK, Records

LEMMA AnswerUnrecordedEffect ==
  ASSUME CallsInv, NEW r \in Requests, pc[r] # "done", NEW status \in Nat,
         AnswerUnrecorded(r, status)
  PROVE  /\ pc' = [pc EXCEPT ![r] = "done"]
         /\ answer' = [answer EXCEPT ![r] = status]
         /\ pc'[r] = "done" /\ answer'[r] = status
         /\ records' = records /\ records'[r] = <<>>
  BY DEF AnswerUnrecorded, CallsInv, CallTypeOK, CallInv

LEMMA RecordsDiffer ==
  /\ <<>> # <<"executed">> /\ <<>> # <<"failed">> /\ <<>> # <<"blocked">>
  /\ <<"executed">> # <<"failed">> /\ <<"executed">> # <<"blocked">>
  /\ <<"failed">> # <<"blocked">>
  <1>1. <<>> # <<"executed">> /\ <<>> # <<"failed">> /\ <<>> # <<"blocked">>
    OBVIOUS
  <1>2. /\ <<"executed">>[1] = "executed" /\ <<"failed">>[1] = "failed"
        /\ <<"blocked">>[1] = "blocked"
    OBVIOUS
  <1> QED
    BY <1>1, <1>2

\* A call is received.
LEMMA ReceiveStep ==
  ASSUME CallsInv, NEW r \in Requests, NEW e \in Envelopes, Receive(r, e)
  PROVE  CallsInv'
  <1> DEFINE same == \A q \in Requests \ {r} :
               /\ pc'[q] = pc[q] /\ req'[q] = req[q] /\ answer'[q] = answer[q]
               /\ records'[q] = records[q] /\ call'[q] = call[q] /\ runs'[q] = runs[q]
  <1>0. CallTypeOK /\ CallInv(r)
    BY DEF CallsInv
  <1>1. /\ pc[r] = "idle" /\ call[r] = "none" /\ runs[r] = 0
        /\ UNCHANGED <<call, result, runs>>
        /\ req' \in [Requests -> Envelopes \cup {NoEnvelope}] /\ req'[r] = e
        /\ \A q \in Requests \ {r} : req'[q] = req[q]
    BY <1>0 DEF Receive, CallInv, CallTypeOK, hostVars
  <1>2. CASE Admitted(e) /\ pc' = [pc EXCEPT ![r] = "healthy"] /\ UNCHANGED <<answer, records>>
    <2>1. CallTypeOK'
      BY <1>0, <1>1, <1>2 DEF CallTypeOK
    <2>2. pc'[r] = "healthy" /\ records'[r] = <<>> /\ Passed(r)'
      BY <1>0, <1>1, <1>2 DEF CallTypeOK, CallInv, Passed
    <2>3. CallInv(r)'
      BY <2>2, <1>1, RecordsDiffer DEF CallInv
    <2>4. same
      BY <1>0, <1>1, <1>2 DEF CallTypeOK
    <2> QED
      BY <2>1, <2>3, <2>4, OneCall
  <1>3. ASSUME NEW status \in {400, 500}, AnswerUnrecorded(r, status)
        PROVE  CallsInv'
    <2>1. /\ pc' = [pc EXCEPT ![r] = "done"] /\ answer' = [answer EXCEPT ![r] = status]
          /\ pc'[r] = "done" /\ records' = records /\ records'[r] = <<>>
      BY <1>1, <1>3, AnswerUnrecordedEffect
    <2>2. CallTypeOK'
      BY <1>0, <1>1, <2>1 DEF CallTypeOK
    <2>3. CallInv(r)'
      BY <2>1, <1>1, RecordsDiffer DEF CallInv
    <2>4. same
      BY <1>0, <1>1, <2>1 DEF CallTypeOK
    <2> QED
      BY <2>2, <2>3, <2>4, OneCall
  <1>4. ASSUME NEW status \in {400, 403}, Answer(r, status, "blocked")
        PROVE  CallsInv'
    <2>1. /\ pc' = [pc EXCEPT ![r] = "done"] /\ answer' = [answer EXCEPT ![r] = status]
          /\ records' = [records EXCEPT ![r] = <<"blocked">>]
          /\ pc'[r] = "done" /\ records'[r] = <<"blocked">> /\ <<"blocked">> \in Records
      BY <1>1, <1>4, AnswerEffect
    <2>2. CallTypeOK'
      BY <1>0, <1>1, <2>1 DEF CallTypeOK
    <2>3. CallInv(r)'
      BY <2>1, <1>1, RecordsDiffer DEF CallInv
    <2>4. same
      BY <1>0, <1>1, <2>1 DEF CallTypeOK
    <2> QED
      BY <2>2, <2>3, <2>4, OneCall
  <1> QED
    BY <1>2, <1>3, <1>4 DEF Receive

\* A request thread goes on to the next read, or answers.
LEMMA ThreadStep ==
  ASSUME CallsInv, NEW r \in Requests, RequestThread(r)
  PROVE  CallsInv'
  <1> DEFINE same == \A q \in Requests \ {r} :
               /\ pc'[q] = pc[q] /\ req'[q] = req[q] /\ answer'[q] = answer[q]
               /\ records'[q] = records[q] /\ call'[q] = call[q] /\ runs'[q] = runs[q]
  <1>0. CallTypeOK /\ CallInv(r)
    BY DEF CallsInv
  <1>1. /\ UNCHANGED <<req, result, runs>>
        /\ pc[r] \in {"healthy", "registered", "waiting"} /\ Passed(r) /\ Passed(r)'
    BY <1>0 DEF RequestThread, CheckHealthy, CheckRegistered, TimeOut, RelayFailure,
                RelayResult, CallInv, Passed, hostVars
  <1>2. ASSUME NEW status \in {502, 503, 504}, Answer(r, status, "failed"),
               UNCHANGED call, status = 503 => call[r] = "none"
        PROVE  CallsInv'
    <2>1. /\ pc' = [pc EXCEPT ![r] = "done"] /\ answer' = [answer EXCEPT ![r] = status]
          /\ records' = [records EXCEPT ![r] = <<"failed">>]
          /\ pc'[r] = "done" /\ answer'[r] = status
          /\ records'[r] = <<"failed">> /\ <<"failed">> \in Records
      BY <1>1, <1>2, AnswerEffect
    <2>2. CallTypeOK'
      BY <1>0, <1>1, <1>2, <2>1 DEF CallTypeOK
    <2>3. CallInv(r)'
      BY <2>1, <1>0, <1>1, <1>2, RecordsDiffer DEF CallInv
    <2>4. same
      BY <1>0, <1>1, <1>2, <2>1 DEF CallTypeOK
    <2> QED
      BY <2>2, <2>3, <2>4, OneCall
  <1>3. ASSUME AnswerUnrecorded(r, 500), UNCHANGED call,
               call[r] # "none" => req[r].input = "null"
        PROVE  CallsInv'
    <2>1. /\ pc' = [pc EXCEPT ![r] = "done"] /\ answer' = [answer EXCEPT ![r] = 500]
          /\ pc'[r] = "done" /\ answer'[r] = 500
          /\ records' = records /\ records'[r] = <<>>
      BY <1>1, <1>3, AnswerUnrecordedEffect
    <2>2. CallTypeOK'
      BY <1>0, <1>1, <1>3, <2>1 DEF CallTypeOK
    <2>3. CallInv(r)'
      BY <2>1, <1>0, <1>1, <1>3, RecordsDiffer DEF CallInv
    <2>4. same
      BY <1>0, <1>1, <1>3, <2>1 DEF CallTypeOK
    <2> QED
      BY <2>2, <2>3, <2>4, OneCall
  <1>4. CASE CheckHealthy(r)
    <2>1. call[r] = "none" /\ UNCHANGED call
      BY <1>0, <1>4 DEF CheckHealthy, CallInv, hostVars
    <2>2. CASE pc' = [pc EXCEPT ![r] = "registered"] /\ UNCHANGED <<answer, records>>
      <3>1. CallTypeOK'
        BY <1>0, <1>1, <2>1, <2>2 DEF CallTypeOK
      <3>2. pc'[r] = "registered" /\ records'[r] = <<>>
        BY <1>0, <1>1, <2>2 DEF CallTypeOK, CallInv
      <3>3. CallInv(r)'
        BY <3>2, <1>0, <1>1, <2>1, RecordsDiffer DEF CallInv
      <3>4. same
        BY <1>0, <1>1, <2>1, <2>2 DEF CallTypeOK
      <3> QED
        BY <3>1, <3>3, <3>4, OneCall
    <2> QED
      BY <1>2, <1>4, <2>1, <2>2 DEF CheckHealthy
  <1>5. CASE CheckRegistered(r)
    <2>1. call[r] = "none" /\ pc[r] = "registered"
      BY <1>0, <1>5 DEF CheckRegistered, CallInv
    <2>2. CASE registered[ServiceOf(r)] /\ req[r].timeout = "ok"
      <3>1. /\ call' = [call EXCEPT ![r] = "inflight"]
            /\ pc' = [pc EXCEPT ![r] = "waiting"] /\ UNCHANGED <<answer, records>>
        BY <1>5, <2>2 DEF CheckRegistered
      <3>2. CallTypeOK'
        BY <1>0, <1>1, <3>1 DEF CallTypeOK
      <3>3. pc'[r] = "waiting" /\ records'[r] = <<>> /\ call'[r] = "inflight"
        BY <1>0, <1>1, <3>1 DEF CallTypeOK, CallInv
      <3>4. CallInv(r)'
        BY <3>3, <1>0, <1>1, <2>1, RecordsDiffer DEF CallInv
      <3>5. same
        BY <1>0, <1>1, <3>1 DEF CallTypeOK
      <3> QED
        BY <3>2, <3>4, <3>5, OneCall
    <2>3. CASE ~(registered[ServiceOf(r)] /\ req[r].timeout = "ok")
      <3>1. UNCHANGED call /\ (Answer(r, 503, "failed") \/ AnswerUnrecorded(r, 500))
        BY <1>5, <2>3 DEF CheckRegistered
      <3> QED
        BY <3>1, <2>1, <1>2, <1>3
    <2> QED
      BY <2>2, <2>3
  <1>6. CASE TimeOut(r) \/ RelayFailure(r)
    BY <1>6, <1>2 DEF TimeOut, RelayFailure, hostVars
  <1>7. CASE RelayResult(r)
    <2>1. call[r] = "ran" /\ UNCHANGED call
      BY <1>7 DEF RelayResult, hostVars
    <2>2. CASE req[r].input = "null" /\ AnswerUnrecorded(r, 500)
      BY <2>1, <2>2, <1>3
    <2>3. CASE Answer(r, 200, "executed")
      <3>1. /\ pc' = [pc EXCEPT ![r] = "done"] /\ answer' = [answer EXCEPT ![r] = 200]
            /\ records' = [records EXCEPT ![r] = <<"executed">>]
            /\ pc'[r] = "done" /\ answer'[r] = 200
            /\ records'[r] = <<"executed">> /\ <<"executed">> \in Records
        BY <1>1, <2>3, AnswerEffect
      <3>2. CallTypeOK'
        BY <1>0, <1>1, <2>1, <3>1 DEF CallTypeOK
      <3>3. CallInv(r)'
        BY <3>1, <1>0, <1>1, <2>1, RecordsDiffer DEF CallInv
      <3>4. same
        BY <1>0, <1>1, <2>1, <3>1 DEF CallTypeOK
      <3> QED
        BY <3>2, <3>3, <3>4, OneCall
    <2> QED
      BY <2>2, <2>3, <1>7 DEF RelayResult
  <1> QED
    BY <1>4, <1>5, <1>6, <1>7 DEF RequestThread

\* The host runs the call, or the call is lost.
LEMMA HostStep ==
  ASSUME CallsInv, NEW r \in Requests, HostRuns(r) \/ CallLost(r)
  PROVE  CallsInv'
  <1>0. CallTypeOK /\ CallInv(r)
    BY DEF CallsInv
  <1>1. /\ call[r] = "inflight" /\ runs[r] = 0 /\ UNCHANGED <<pc, req, answer, records>>
    BY <1>0 DEF HostRuns, CallLost, CallInv, requestVars
  <1>2. /\ call' \in [Requests -> {"none", "inflight", "ran", "lost"}]
        /\ runs' \in [Requests -> Nat]
        /\ call'[r] \in {"ran", "lost"} /\ runs'[r] = IF call'[r] = "ran" THEN 1 ELSE 0
        /\ \A q \in Requests \ {r} : call'[q] = call[q] /\ runs'[q] = runs[q]
    BY <1>0, <1>1 DEF HostRuns, CallLost, CallTypeOK
  <1>4. CallTypeOK'
    BY <1>0, <1>1, <1>2 DEF CallTypeOK
  <1>5. CallInv(r)'
    BY <1>0, <1>1, <1>2, RecordsDiffer DEF CallInv, Passed
  <1> QED
    BY <1>1, <1>2, <1>4, <1>5, OneCall

LEMMA NextCalls ==
  ASSUME CallsInv, [Next]_vars
  PROVE  CallsInv'
  <1>1. CASE Heartbeat
    <2>1. UNCHANGED callState
      BY <1>1 DEF Heartbeat, HbWake, HbProbeAnswered, HbProbeFails, HbRecordRecovery,
         HbResetMissed, HbSetHealthy, HbSetRegistered, HbCountMiss, HbClearHealthy,
         HbClearRegistered, HbRecordDown, callState
    <2> QED
      BY <2>1, OtherSteps
  <1>2. CASE \E s \in Services : HostChanges(s)
    <2>1. UNCHANGED callState
      BY <1>2 DEF HostChanges, callState
    <2> QED
      BY <2>1, OtherSteps
  <1>3. CASE UNCHANGED vars
    <2>1. UNCHANGED callState
      BY <1>3 DEF vars, callState
    <2> QED
      BY <2>1, OtherSteps
  <1> QED
    BY <1>1, <1>2, <1>3, ReceiveStep, ThreadStep, HostStep DEF Next, Step

\* A call that a tool host handled and the gateway answered is journalled
\* exactly once, with the outcome its status stands for, unless its input
\* was null and _handle_invoke raised before the record.
THEOREM RunsAreRecorded == Spec => []RunIsRecorded
  <1>1. CallsInv => RunIsRecorded
    <2> SUFFICES ASSUME CallsInv, NEW r \in Requests
                 PROVE  /\ Len(records[r]) <= 1
                        /\ pc[r] = "done" /\ runs[r] > 0 /\ req[r].input # "null" =>
                               records[r] \in {<<"executed">>, <<"failed">>}
                        /\ records[r] = <<"executed">> => answer[r] = 200 /\ runs[r] = 1
                        /\ records[r] = <<"blocked">> => runs[r] = 0
      BY DEF RunIsRecorded
    <2>1. records[r] \in Records /\ CallInv(r)
      BY DEF CallsInv, CallTypeOK
    <2>2. Len(records[r]) <= 1
      <3>1. Len(<<>>) = 0 /\ Len(<<"executed">>) = 1 /\ Len(<<"failed">>) = 1
            /\ Len(<<"blocked">>) = 1
        OBVIOUS
      <3>2. \/ records[r] = <<>> \/ records[r] = <<"executed">>
            \/ records[r] = <<"failed">> \/ records[r] = <<"blocked">>
        BY <2>1 DEF Records
      <3>3. Len(records[r]) \in {0, 1}
        BY <3>1, <3>2
      <3>4. \A n \in {0, 1} : n <= 1
        OBVIOUS
      <3> QED
        BY <3>3, <3>4, Zenon
    <2>3. runs[r] > 0 => call[r] # "none"
      BY <2>1 DEF CallInv
    <2> QED
      BY <2>1, <2>2, <2>3 DEF CallInv
  <1> QED
    BY <1>1, InitCalls, NextCalls, PTL DEF Spec

-----------------------------------------------------------------------------
(* The two unlocked reads of a registry entry. *)

\* A request between its two reads that finds its service registered has
\* met the moment at which it was routable; so has one that was posted.
RouteInv ==
    \A r \in Requests :
        /\ pc[r] = "registered" /\ registered[ServiceOf(r)] => r \in seen
        /\ call[r] # "none" => r \in seen

GatewayInv == RegistryInv /\ CallsInv /\ RouteInv

\* An admitted call names a tool of a registered service.
LEMMA AdmittedService ==
  ASSUME NEW r \in Requests, Passed(r)
  PROVE  ServiceOf(r) \in Services
  BY EnvelopeAssumption DEF Passed, Admitted, Blocked, Malformed, Raises,
     DeniedByPolicy, ServiceOf

\* The entry of a service becomes registered only in a step that leaves it
\* healthy as well.
LEMMA RegisteredIsHealthy ==
  ASSUME RegistryInv, [Next]_vars, NEW s \in Services,
         registered'[s], ~registered[s]
  PROVE  healthy'[s]
  <1>1. CASE HbSetRegistered
    <2>1. RegistryTypeOK /\ Probed \in Services /\ EntryInv(Probed)
      BY ProbedIsService DEF RegistryInv
    <2>2. s = Probed
      BY <1>1, <2>1 DEF HbSetRegistered, RegistryTypeOK
    <2>3. ~AtRest(Probed)
      BY <1>1 DEF HbSetRegistered, AtRest
    <2>4. healthy[s]
      BY <1>1, <2>1, <2>2, <2>3 DEF HbSetRegistered, EntryInv, InRound
    <2> QED
      BY <1>1, <2>4 DEF HbSetRegistered
  <1>2. CASE HbClearRegistered
    <2>1. RegistryTypeOK /\ Probed \in Services
      BY ProbedIsService DEF RegistryInv
    <2> QED
      BY <1>2, <2>1 DEF HbClearRegistered, RegistryTypeOK
  <1>3. CASE Heartbeat /\ ~HbSetRegistered /\ ~HbClearRegistered
    <2>1. UNCHANGED registered
      BY <1>3 DEF Heartbeat, HbWake, HbProbeAnswered, HbProbeFails, HbRecordRecovery,
         HbResetMissed, HbSetHealthy, HbCountMiss, HbClearHealthy, HbRecordDown,
         registryVars
    <2> QED
      BY <2>1
  <1>4. CASE UNCHANGED registered
    BY <1>4
  <1>5. CASE \E r \in Requests : \E e \in Envelopes : Receive(r, e)
    BY <1>5, <1>4 DEF Receive, registryVars
  <1>6. CASE \E r \in Requests : RequestThread(r)
    BY <1>6, <1>4 DEF RequestThread, CheckHealthy, CheckRegistered, TimeOut,
       RelayFailure, RelayResult, registryVars
  <1>7. CASE \E r \in Requests : HostRuns(r) \/ CallLost(r)
    BY <1>7, <1>4 DEF HostRuns, CallLost, registryVars
  <1>8. CASE \E q \in Services : HostChanges(q)
    BY <1>8, <1>4 DEF HostChanges, registryVars
  <1>9. CASE UNCHANGED vars
    BY <1>9, <1>4 DEF vars, registryVars
  <1> QED
    BY <1>1, <1>2, <1>3, <1>5, <1>6, <1>7, <1>8, <1>9 DEF Next, Step

\* How a request gets to its second read.
LEMMA SecondRead ==
  ASSUME CallsInv, [Next]_vars, NEW r \in Requests, pc'[r] = "registered"
  PROVE  /\ req'[r] = req[r] /\ Passed(r)
         /\ \/ pc[r] = "registered"
            \/ healthy[ServiceOf(r)] /\ UNCHANGED registryVars
  <1>0. CallTypeOK /\ \A q \in Requests : CallInv(q)
    BY DEF CallsInv
  <1>1. CASE UNCHANGED <<pc, req>>
    BY <1>0, <1>1 DEF CallInv
  <1>2. ASSUME NEW q \in Requests, NEW e \in Envelopes, Receive(q, e)
        PROVE  /\ pc[r] = "registered" /\ req'[r] = req[r]
    <2>1. pc'[q] \in {"done", "healthy"}
      BY <1>0, <1>2 DEF Receive, Answer, AnswerUnrecorded, CallTypeOK
    <2>2. r # q
      BY <2>1
    <2> QED
      BY <1>0, <1>2, <2>2 DEF Receive, Answer, AnswerUnrecorded, CallTypeOK
  <1>3. ASSUME NEW q \in Requests, RequestThread(q), q # r
        PROVE  pc[r] = "registered" /\ req'[r] = req[r]
    BY <1>0, <1>3 DEF RequestThread, CheckHealthy, CheckRegistered, TimeOut,
       RelayFailure, RelayResult, Answer, AnswerUnrecorded, CallTypeOK
  <1>4. CASE RequestThread(r)
    <2>1. CheckHealthy(r)
      BY <1>0, <1>4 DEF RequestThread, CheckRegistered, TimeOut,
         RelayFailure, RelayResult, Answer, AnswerUnrecorded, CallTypeOK
    <2>2. ReadHealthy(ServiceOf(r))
      BY <1>0, <2>1 DEF CheckHealthy, Answer, CallTypeOK
    <2> QED
      BY <1>0, <2>1, <2>2 DEF CheckHealthy, ReadHealthy, CallInv
  <1>5. CASE Heartbeat
    BY <1>5, <1>1 DEF Heartbeat, HbWake, HbProbeAnswered, HbProbeFails, HbRecordRecovery,
         HbResetMissed, HbSetHealthy, HbSetRegistered, HbCountMiss, HbClearHealthy,
         HbClearRegistered, HbRecordDown, requestVars
  <1>6. CASE \E q \in Requests : HostRuns(q) \/ CallLost(q)
    BY <1>6, <1>1 DEF HostRuns, CallLost, requestVars
  <1>7. CASE \E q \in Services : HostChanges(q)
    BY <1>7, <1>1 DEF HostChanges, requestVars
  <1>8. CASE UNCHANGED vars
    BY <1>8, <1>1 DEF vars, requestVars
  <1>9. pc[r] = "registered" => Passed(r)
    BY <1>0 DEF CallInv
  <1> QED
    BY <1>2, <1>3, <1>4, <1>5, <1>6, <1>7, <1>8, <1>9 DEF Next, Step

\* A call is posted only by a request at its second read, if it finds the
\* service registered.
LEMMA PostedAtSecondRead ==
  ASSUME CallsInv, [Next]_vars, NEW r \in Requests, call[r] = "none",
         call'[r] # "none"
  PROVE  pc[r] = "registered" /\ registered[ServiceOf(r)]
  <1>0. CallTypeOK
    BY DEF CallsInv
  <1>1. CASE UNCHANGED call
    BY <1>1
  <1>2. ASSUME NEW q \in Requests, CheckRegistered(q)
        PROVE  pc[r] = "registered" /\ registered[ServiceOf(r)]
    BY <1>0, <1>2 DEF CheckRegistered, CallTypeOK
  <1>3. ASSUME NEW q \in Requests, HostRuns(q) \/ CallLost(q)
        PROVE  FALSE
    BY <1>0, <1>3 DEF HostRuns, CallLost, CallTypeOK
  <1>4. CASE \E q \in Requests : CheckHealthy(q) \/ TimeOut(q) \/ RelayFailure(q)
                                     \/ RelayResult(q)
    BY <1>4, <1>1 DEF CheckHealthy, TimeOut, RelayFailure, RelayResult, hostVars
  <1>5. CASE Heartbeat
    BY <1>5, <1>1 DEF Heartbeat, HbWake, HbProbeAnswered, HbProbeFails, HbRecordRecovery,
         HbResetMissed, HbSetHealthy, HbSetRegistered, HbCountMiss, HbClearHealthy,
         HbClearRegistered, HbRecordDown, hostVars
  <1>6. CASE \E q \in Requests : \E e \in Envelopes : Receive(q, e)
    BY <1>6, <1>1 DEF Receive, hostVars
  <1>7. CASE \E q \in Services : HostChanges(q)
    BY <1>7, <1>1 DEF HostChanges, hostVars
  <1>8. CASE UNCHANGED vars
    BY <1>8, <1>1 DEF vars, hostVars
  <1> QED
    BY <1>2, <1>3, <1>4, <1>5, <1>6, <1>7, <1>8 DEF Next, Step, RequestThread

LEMMA NextRoute ==
  ASSUME GatewayInv, [Next]_vars
  PROVE  RouteInv'
  <1>0. RegistryInv /\ CallsInv /\ RouteInv
    BY DEF GatewayInv
  <1>1. CASE UNCHANGED vars
    BY <1>0, <1>1 DEF RouteInv, ServiceOf, vars, registryVars, requestVars, hostVars
  <1>2. CASE Next
    <2> SUFFICES ASSUME NEW r \in Requests
                 PROVE  /\ pc'[r] = "registered" /\ registered'[ServiceOf(r)'] => r \in seen'
                        /\ call'[r] # "none" => r \in seen'
      BY DEF RouteInv
    <2>1. seen \subseteq seen'
      BY <1>2 DEF Next, Watch
    <2>2. ASSUME pc'[r] = "registered", registered'[ServiceOf(r)']
          PROVE  r \in seen'
      <3>1. /\ req'[r] = req[r] /\ Passed(r)
            /\ \/ pc[r] = "registered"
               \/ healthy[ServiceOf(r)] /\ UNCHANGED registryVars
        BY <2>2, <1>0, SecondRead
      <3>2. ServiceOf(r)' = ServiceOf(r) /\ ServiceOf(r) \in Services
        BY <3>1, AdmittedService DEF ServiceOf
      <3>3. healthy'[ServiceOf(r)] => r \in seen'
        BY <1>2, <2>2, <3>1, <3>2 DEF Next, Watch, ServiceOf
      <3>4. CASE pc[r] = "registered"
        <4>1. CASE registered[ServiceOf(r)]
          BY <4>1, <3>4, <1>0, <2>1 DEF RouteInv
        <4>2. CASE ~registered[ServiceOf(r)]
          BY <4>2, <1>0, <1>2, <2>2, <3>2, <3>3, RegisteredIsHealthy
        <4> QED
          BY <4>1, <4>2
      <3>5. CASE healthy[ServiceOf(r)] /\ UNCHANGED registryVars
        BY <3>5, <3>3 DEF registryVars
      <3> QED
        BY <3>1, <3>4, <3>5
    <2>3. ASSUME call'[r] # "none"
          PROVE  r \in seen'
      BY <2>3, <1>0, <1>2, <2>1, PostedAtSecondRead DEF RouteInv
    <2> QED
      BY <2>2, <2>3
  <1> QED
    BY <1>1, <1>2

LEMMA GatewayInvariant == Spec => []GatewayInv
  <1>1. Init => RouteInv
    BY DEF Init, RouteInv
  <1>2. Init => GatewayInv
    BY <1>1, InitRegistry, InitCalls DEF GatewayInv
  <1>3. GatewayInv /\ [Next]_vars => GatewayInv'
    BY NextRegistry, NextCalls, NextRoute DEF GatewayInv
  <1> QED
    BY <1>2, <1>3, PTL DEF Spec

\* Whatever the heartbeat does between the two reads of _handle_invoke, a
\* call is posted only to a service that was healthy and registered at one
\* moment in between.
THEOREM RoutedCallsWereRoutable == Spec => []RoutedWasRoutable
  <1>1. GatewayInv => RoutedWasRoutable
    BY DEF GatewayInv, RouteInv, RoutedWasRoutable
  <1> QED
    BY <1>1, GatewayInvariant, PTL

-----------------------------------------------------------------------------
(* The checks of an envelope, against the governance tables. *)

Writes == {"write.low-risk", "write.high-risk", "write.critical"}

\* The tools with a write class are the ones with preconditions, and the
\* preconditions grow with the class.
LEMMA WriteToolsHavePreconditions ==
  ASSUME NEW id \in DOMAIN TOOL_RISK_CLASSES, TOOL_RISK_CLASSES[id] \in Writes
  PROVE  /\ id \in DOMAIN ACTION_PRECONDITIONS
         /\ TOOL_RISK_CLASSES[id] \in {"write.high-risk", "write.critical"} =>
                ACTION_PRECONDITIONS[id].approval /\ ACTION_PRECONDITIONS[id].rollback
         /\ TOOL_RISK_CLASSES[id] = "write.critical" => ACTION_PRECONDITIONS[id].ticket
  <1> DEFINE tools == DOMAIN TOOL_TO_SERVICE
             U == V1("incident-casefile.update")
             P == V1("runbook-plan")
             X == V1("remediation-execute")
  <1>1. PICK t \in tools : id = V1(t)
    BY DEF TOOL_RISK_CLASSES
  <1>2. id[1] = t
    BY <1>1 DEF V1
  <1>3. TOOL_RISK_CLASSES[id] =
          CASE t \in {"incident-search", "metrics-correlation"} -> "read.safe"
            [] t = "incident-casefile.update" -> "write.low-risk"
            [] t = "runbook-plan" -> "write.high-risk"
            [] t = "remediation-execute" -> "write.critical"
            [] OTHER -> "read.sensitive"
    BY <1>2 DEF TOOL_RISK_CLASSES
  <1>4. \/ t = "incident-casefile.update" /\ TOOL_RISK_CLASSES[id] = "write.low-risk"
        \/ t = "runbook-plan" /\ TOOL_RISK_CLASSES[id] = "write.high-risk"
        \/ t = "remediation-execute" /\ TOOL_RISK_CLASSES[id] = "write.critical"
    BY <1>3 DEF Writes
  <1>5. U # P /\ U # X /\ P # X
    BY DEF V1
  <1>6. /\ DOMAIN ACTION_PRECONDITIONS = {U, P, X}
        /\ \A i \in {U, P, X} : ACTION_PRECONDITIONS[i] =
               [approval |-> i # U, rollback |-> i # U, ticket |-> i = X]
    BY DEF ACTION_PRECONDITIONS
  <1>a. /\ ACTION_PRECONDITIONS[P].approval /\ ACTION_PRECONDITIONS[P].rollback
        /\ ACTION_PRECONDITIONS[X].approval /\ ACTION_PRECONDITIONS[X].rollback
        /\ ACTION_PRECONDITIONS[X].ticket
    <2> HIDE DEF U, P, X
    <2>1. ACTION_PRECONDITIONS[P] = [approval |-> P # U, rollback |-> P # U, ticket |-> P = X]
      BY <1>6
    <2>2. ACTION_PRECONDITIONS[X] = [approval |-> X # U, rollback |-> X # U, ticket |-> X = X]
      BY <1>6
    <2>3. /\ ACTION_PRECONDITIONS[P].approval = (P # U)
          /\ ACTION_PRECONDITIONS[P].rollback = (P # U)
          /\ ACTION_PRECONDITIONS[X].approval = (X # U)
          /\ ACTION_PRECONDITIONS[X].rollback = (X # U)
          /\ ACTION_PRECONDITIONS[X].ticket = (X = X)
      BY <2>1, <2>2
    <2> QED
      BY <1>5, <2>3, Zenon
  <1> HIDE DEF U, P, X
  <1>7. CASE t = "incident-casefile.update" /\ TOOL_RISK_CLASSES[id] = "write.low-risk"
    <2>1. id = U
      BY <1>7, <1>1 DEF U
    <2> QED
      BY <2>1, <1>6, <1>7
  <1>8. CASE t = "runbook-plan" /\ TOOL_RISK_CLASSES[id] = "write.high-risk"
    <2>1. id = P
      BY <1>8, <1>1 DEF P
    <2> QED
      BY <2>1, <1>a, <1>6, <1>8
  <1>9. CASE t = "remediation-execute" /\ TOOL_RISK_CLASSES[id] = "write.critical"
    <2>1. id = X
      BY <1>9, <1>1 DEF X
    <2> QED
      BY <2>1, <1>a, <1>6, <1>9
  <1> QED
    BY <1>4, <1>7, <1>8, <1>9

\* What the checks together leave of an envelope.
LEMMA AdmittedIsPermitted ==
  ASSUME NEW e \in Envelopes, Admitted(e)
  PROVE  LET risk == TOOL_RISK_CLASSES[ToolId(e)]
             binding == AGENT_TOOL_BINDINGS[e.caller]
         IN /\ e.scope /\ e.window \in {"none", "ok"}
            /\ ToolId(e) \in binding.tools
            /\ risk \in Writes => e.context # NoContext /\ e.context.allow /\ e.context.target
            /\ risk \in {"write.high-risk", "write.critical"} =>
                  /\ binding.class = "specialist_action"
                  /\ e.context.approval = "approved" /\ e.context.rollback
            /\ risk = "write.critical" => e.context.ticket
  <1> DEFINE id == ToolId(e)
             risk == TOOL_RISK_CLASSES[id]
             binding == AGENT_TOOL_BINDINGS[e.caller]
  <1>1. /\ ~DeniedByPolicy(e) /\ ~RaisesOnInput(e) /\ ~DeniedByWindow(e)
        /\ ~DeniedByAction(e)
    BY DEF Admitted, Malformed, Blocked, Raises
  <1>2. e.scope /\ id \in DOMAIN TOOL_RISK_CLASSES /\ check_agent_binding(e.caller, id, risk)
    BY <1>1 DEF DeniedByPolicy, classify_tool
  <1>3. e.window \in {"none", "ok", "wide", "unparseable", "mixed"}
    BY EnvelopeAssumption DEF Envelope
  <1>4. e.window \in {"none", "ok"}
    BY <1>1, <1>3 DEF RaisesOnInput, DeniedByWindow
  <1>5. id \in binding.tools /\ risk \notin DenyRiskClasses(binding.class)
    BY <1>2 DEF check_agent_binding
  <1>6. risk \in {"write.high-risk", "write.critical"} => binding.class = "specialist_action"
    BY <1>5 DEF DenyRiskClasses
  <1>7. ASSUME risk \in Writes
        PROVE  e.context # NoContext /\ check_action_preconditions(id, e.context)
    BY <1>1, <1>2, <1>7, WriteToolsHavePreconditions DEF DeniedByAction
  <1>8. risk \in Writes => e.context # NoContext /\ e.context.allow /\ e.context.target
    BY <1>7 DEF check_action_preconditions
  <1>9. risk \in {"write.high-risk", "write.critical"} =>
            e.context.approval = "approved" /\ e.context.rollback
    BY <1>2, <1>7, WriteToolsHavePreconditions DEF check_action_preconditions, Writes
  <1>10. risk = "write.critical" => e.context.ticket
    BY <1>2, <1>7, WriteToolsHavePreconditions DEF check_action_preconditions, Writes
  <1> QED
    BY <1>2, <1>4, <1>5, <1>6, <1>8, <1>9, <1>10

\* No tool host handles a call that the governance contracts forbid,
\* whatever envelopes the callers send.
THEOREM OnlyPermittedCallsRun == Spec => []OnlyPermittedRun
  <1>1. GatewayInv => OnlyPermittedRun
    <2> SUFFICES ASSUME GatewayInv, NEW r \in Requests, runs[r] > 0
                 PROVE  LET e == req[r]
                            risk == TOOL_RISK_CLASSES[ToolId(e)]
                            binding == AGENT_TOOL_BINDINGS[e.caller]
                        IN /\ e.scope /\ e.window \in {"none", "ok"}
                           /\ ToolId(e) \in binding.tools
                           /\ risk \in Writes =>
                                 e.context # NoContext /\ e.context.allow /\ e.context.target
                           /\ risk \in {"write.high-risk", "write.critical"} =>
                                 /\ binding.class = "specialist_action"
                                 /\ e.context.approval = "approved" /\ e.context.rollback
                           /\ risk = "write.critical" => e.context.ticket
      BY DEF OnlyPermittedRun, Writes
    <2>1. CallInv(r)
      BY DEF GatewayInv, CallsInv
    <2>2. call[r] # "none"
      BY <2>1 DEF CallInv
    <2>3. req[r] \in Envelopes /\ Admitted(req[r])
      BY <2>1, <2>2 DEF CallInv, Passed
    <2> QED
      BY <2>3, AdmittedIsPermitted
  <1> QED
    BY <1>1, GatewayInvariant, PTL

-----------------------------------------------------------------------------
(* The gateway implements ToolCall. *)

PhaseOf(p, a) ==
    CASE p = "idle" -> "idle"
      [] p \in {"healthy", "registered"} -> "open"
      [] p = "waiting" -> "sent"
      [] p = "done" /\ a = 200 -> "ok"
      [] p = "done" /\ a \in {400, 403, 503} -> "refused"
      [] OTHER -> "failed"

LEMMA PhaseByCall == Phase = [r \in Requests |-> PhaseOf(pc[r], answer[r])]
  BY DEF Phase, PhaseOf

LEMMA PhaseValues ==
  /\ \A a : PhaseOf("idle", a) = "idle"
  /\ \A a : PhaseOf("healthy", a) = "open" /\ PhaseOf("registered", a) = "open"
  /\ \A a : PhaseOf("waiting", a) = "sent"
  /\ PhaseOf("done", 200) = "ok"
  /\ PhaseOf("done", 400) = "refused" /\ PhaseOf("done", 403) = "refused"
  /\ PhaseOf("done", 503) = "refused"
  /\ PhaseOf("done", 500) = "failed" /\ PhaseOf("done", 502) = "failed"
  /\ PhaseOf("done", 504) = "failed"
  BY DEF PhaseOf

\* A step of one thread moves the phase of its own call only.
LEMMA PhaseStep ==
  ASSUME NEW r \in Requests, NEW p,
         PhaseOf(pc'[r], answer'[r]) = p,
         \A q \in Requests \ {r} : pc'[q] = pc[q] /\ answer'[q] = answer[q]
  PROVE  Phase' = [Phase EXCEPT ![r] = p]
  <1>1. Phase' = [q \in Requests |-> PhaseOf(pc'[q], answer'[q])]
    BY DEF Phase, PhaseOf
  <1>2. \A q \in Requests :
            PhaseOf(pc'[q], answer'[q]) = IF q = r THEN p ELSE PhaseOf(pc[q], answer[q])
    OBVIOUS
  <1> QED
    BY <1>1, <1>2, PhaseByCall

LEMMA PhaseStutter ==
  ASSUME \A q \in Requests : PhaseOf(pc'[q], answer'[q]) = PhaseOf(pc[q], answer[q])
  PROVE  Phase' = Phase
  <1>1. Phase' = [q \in Requests |-> PhaseOf(pc'[q], answer'[q])]
    BY DEF Phase, PhaseOf
  <1> QED
    BY <1>1, PhaseByCall

\* What an answer does to the phase.
LEMMA AnswerPhase ==
  ASSUME CallTypeOK, NEW r \in Requests, NEW a,
         pc' = [pc EXCEPT ![r] = "done"], answer' = [answer EXCEPT ![r] = a]
  PROVE  Phase' = [Phase EXCEPT ![r] = PhaseOf("done", a)]
  <1>1. pc'[r] = "done" /\ answer'[r] = a
    BY DEF CallTypeOK
  <1>2. \A q \in Requests \ {r} : pc'[q] = pc[q] /\ answer'[q] = answer[q]
    BY DEF CallTypeOK
  <1> QED
    BY <1>1, <1>2, PhaseStep

\* What a step before the answer does to it.
LEMMA MovePhase ==
  ASSUME CallTypeOK, NEW r \in Requests, NEW p, pc' = [pc EXCEPT ![r] = p],
         UNCHANGED answer
  PROVE  Phase' = [Phase EXCEPT ![r] = PhaseOf(p, answer[r])]
  <1>1. pc'[r] = p /\ answer'[r] = answer[r]
    BY DEF CallTypeOK
  <1>2. \A q \in Requests \ {r} : pc'[q] = pc[q] /\ answer'[q] = answer[q]
    BY DEF CallTypeOK
  <1> QED
    BY <1>1, <1>2, PhaseStep

\* The phase of r moves on, and nothing else of the contract's state.
Moves(r, from, to) ==
    Phase[r] \in from /\ Phase' = [Phase EXCEPT ![r] = to] /\ UNCHANGED runs

Replies(r, a) == pc' = [pc EXCEPT ![r] = "done"] /\ answer' = [answer EXCEPT ![r] = a]

LEMMA AnswersReply ==
  ASSUME NEW r, NEW a
  PROVE  /\ \A o : Answer(r, a, o) => Replies(r, a)
         /\ AnswerUnrecorded(r, a) => Replies(r, a)
  BY DEF Answer, AnswerUnrecorded, Replies

\* The answers 400, 403 and 503 refuse a call.
LEMMA AnswerRefuses ==
  ASSUME CallTypeOK, NEW r \in Requests, NEW a, a = 400 \/ a = 403 \/ a = 503,
         Replies(r, a), Phase[r] \in {"idle", "open"}, UNCHANGED runs
  PROVE  Moves(r, {"idle", "open"}, "refused")
  <1>1. PhaseOf("done", a) = "refused"
    BY PhaseValues
  <1>2. Phase' = [Phase EXCEPT ![r] = PhaseOf("done", a)]
    BY AnswerPhase DEF Replies
  <1>3. Phase' = [Phase EXCEPT ![r] = "refused"]
    BY <1>1, <1>2
  <1> QED
    BY <1>3, Zenon DEF Moves

\* The answers 500, 502 and 504 fail it.
LEMMA AnswerFails ==
  ASSUME CallTypeOK, NEW r \in Requests, NEW a, a = 500 \/ a = 502 \/ a = 504,
         Replies(r, a), Phase[r] \in {"idle", "open", "sent"}, UNCHANGED runs
  PROVE  Moves(r, {"idle", "open", "sent"}, "failed")
  <1>1. PhaseOf("done", a) = "failed"
    BY PhaseValues
  <1>2. Phase' = [Phase EXCEPT ![r] = PhaseOf("done", a)]
    BY AnswerPhase DEF Replies
  <1>3. Phase' = [Phase EXCEPT ![r] = "failed"]
    BY <1>1, <1>2
  <1> QED
    BY <1>3, Zenon DEF Moves

\* And 200 is a success.
LEMMA AnswerSucceeds ==
  ASSUME CallTypeOK, NEW r \in Requests, NEW a, a = 200,
         Replies(r, a), Phase[r] \in {"sent"}, UNCHANGED runs
  PROVE  Moves(r, {"sent"}, "ok")
  <1>1. PhaseOf("done", a) = "ok"
    BY PhaseValues
  <1>2. Phase' = [Phase EXCEPT ![r] = PhaseOf("done", a)]
    BY AnswerPhase DEF Replies
  <1>3. Phase' = [Phase EXCEPT ![r] = "ok"]
    BY <1>1, <1>2
  <1> QED
    BY <1>3, Zenon DEF Moves

\* The moves that are steps of the contract.
LEMMA ContractMoves ==
  ASSUME NEW r
  PROVE  /\ Moves(r, {"idle"}, "open") => Contract!Open(r)
         /\ Moves(r, {"idle", "open"}, "refused") => Contract!Refuse(r)
         /\ Moves(r, {"open"}, "sent") => Contract!Forward(r)
         /\ Moves(r, {"sent"}, "ok") /\ runs[r] = 1 => Contract!Succeed(r)
         /\ Moves(r, {"idle", "open", "sent"}, "failed") => Contract!Fail(r)
  <1>1. Moves(r, {"idle"}, "open") => Contract!Open(r)
    BY Zenon DEF Moves, Contract!Open, Contract!Become
  <1>2. Moves(r, {"idle", "open"}, "refused") => Contract!Refuse(r)
    BY Zenon DEF Moves, Contract!Refuse, Contract!Become
  <1>3. Moves(r, {"open"}, "sent") => Contract!Forward(r)
    BY Zenon DEF Moves, Contract!Forward, Contract!Become
  <1>4. Moves(r, {"sent"}, "ok") /\ runs[r] = 1 => Contract!Succeed(r)
    BY Zenon DEF Moves, Contract!Succeed, Contract!Become
  <1>5. Moves(r, {"idle", "open", "sent"}, "failed") => Contract!Fail(r)
    BY Zenon DEF Moves, Contract!Fail, Contract!Become
  <1> QED
    BY <1>1, <1>2, <1>3, <1>4, <1>5, Zenon

LEMMA ReceiveMoves ==
  ASSUME CallTypeOK, NEW r \in Requests, NEW e \in Envelopes, Receive(r, e)
  PROVE  \/ Moves(r, {"idle"}, "open") \/ Moves(r, {"idle", "open"}, "refused")
         \/ Moves(r, {"idle", "open", "sent"}, "failed")
  <1>1. pc[r] = "idle" /\ UNCHANGED runs
    BY DEF Receive, hostVars
  <1>2. Phase[r] = "idle"
    BY <1>1, PhaseByCall, PhaseValues
  <1>3. Phase[r] \in {"idle"} /\ Phase[r] \in {"idle", "open"}
        /\ Phase[r] \in {"idle", "open", "sent"}
    BY <1>2
  <1>4. ASSUME NEW a, a = 400 \/ a = 403 \/ a = 503, Replies(r, a)
        PROVE  Moves(r, {"idle", "open"}, "refused")
    BY <1>1, <1>3, <1>4, AnswerRefuses
  <1>5. CASE Replies(r, 400)
    BY <1>5, <1>4
  <1>6. CASE Replies(r, 403)
    BY <1>6, <1>4
  <1>7. CASE Replies(r, 500)
    BY <1>1, <1>3, <1>7, AnswerFails
  <1>8. CASE pc' = [pc EXCEPT ![r] = "healthy"] /\ UNCHANGED answer
    <2>1. Phase' = [Phase EXCEPT ![r] = PhaseOf("healthy", answer[r])]
      BY <1>8, MovePhase
    <2>2. PhaseOf("healthy", answer[r]) = "open"
      BY PhaseValues
    <2> QED
      BY <1>1, <1>3, <2>1, <2>2 DEF Moves
  <1>9. \/ Replies(r, 400) \/ Replies(r, 403) \/ Replies(r, 500)
        \/ pc' = [pc EXCEPT ![r] = "healthy"] /\ UNCHANGED answer
    <2>1. \/ AnswerUnrecorded(r, 400)
          \/ AnswerUnrecorded(r, 500)
          \/ Answer(r, IF ~DeniedByPolicy(e) /\ e.window = "unparseable" THEN 400 ELSE 403,
                    "blocked")
          \/ pc' = [pc EXCEPT ![r] = "healthy"] /\ UNCHANGED answer
      BY DEF Receive
    <2> DEFINE a == IF ~DeniedByPolicy(e) /\ e.window = "unparseable" THEN 400 ELSE 403
    <2>2. a = 400 \/ a = 403
      OBVIOUS
    <2>3. Answer(r, a, "blocked") => Replies(r, a)
      BY AnswersReply
    <2>4. \/ AnswerUnrecorded(r, 400) \/ AnswerUnrecorded(r, 500)
          \/ Replies(r, a)
          \/ pc' = [pc EXCEPT ![r] = "healthy"] /\ UNCHANGED answer
      BY <2>1, <2>3
    <2>5. /\ AnswerUnrecorded(r, 400) => Replies(r, 400)
          /\ AnswerUnrecorded(r, 500) => Replies(r, 500)
      BY AnswersReply
    <2> HIDE DEF a
    <2> QED
      BY <2>2, <2>4, <2>5
  <1> QED
    BY <1>5, <1>6, <1>7, <1>8, <1>9, <1>1, <1>3 DEF Moves

LEMMA ReceiveImplements ==
  ASSUME CallsInv, NEW r \in Requests, NEW e \in Envelopes, Receive(r, e)
  PROVE  Contract!Open(r) \/ Contract!Refuse(r) \/ Contract!Fail(r)
  <1>1. CallTypeOK
    BY DEF CallsInv
  <1> QED
    BY <1>1, ReceiveMoves, ContractMoves

\* What each step of a request thread does to the program counter and the
\* answer of its call.
LEMMA ThreadSteps ==
  ASSUME NEW r \in Requests, CallInv(r), RequestThread(r)
  PROVE  /\ UNCHANGED runs
         /\ \/ pc[r] = "healthy" /\ pc' = [pc EXCEPT ![r] = "registered"] /\ UNCHANGED answer
            \/ pc[r] \in {"healthy", "registered"} /\ Replies(r, 503)
            \/ pc[r] \in {"registered", "waiting"} /\ Replies(r, 500)
            \/ pc[r] = "registered" /\ pc' = [pc EXCEPT ![r] = "waiting"] /\ UNCHANGED answer
            \/ pc[r] = "waiting" /\ (Replies(r, 504) \/ Replies(r, 502))
            \/ pc[r] = "waiting" /\ runs[r] = 1 /\ Replies(r, 200)
  <1>1. CASE CheckHealthy(r)
    <2>1. UNCHANGED runs /\ pc[r] = "healthy"
      BY <1>1 DEF CheckHealthy, hostVars
    <2>2. \/ pc' = [pc EXCEPT ![r] = "registered"] /\ UNCHANGED answer
          \/ Replies(r, 503)
      BY <1>1, AnswersReply DEF CheckHealthy
    <2> QED
      BY <2>1, <2>2
  <1>2. CASE CheckRegistered(r)
    <2>1. UNCHANGED runs /\ pc[r] = "registered"
      BY <1>2 DEF CheckRegistered
    <2>2. \/ Replies(r, 503) \/ Replies(r, 500)
          \/ pc' = [pc EXCEPT ![r] = "waiting"] /\ UNCHANGED answer
      BY <1>2, AnswersReply DEF CheckRegistered
    <2> QED
      BY <2>1, <2>2
  <1>3. CASE TimeOut(r)
    <2>1. UNCHANGED runs /\ pc[r] = "waiting"
      BY <1>3 DEF TimeOut, hostVars
    <2>2. Replies(r, 504)
      BY <1>3, AnswersReply DEF TimeOut
    <2> QED
      BY <2>1, <2>2
  <1>4. CASE RelayFailure(r)
    <2>1. UNCHANGED runs /\ pc[r] = "waiting"
      BY <1>4 DEF RelayFailure, hostVars
    <2>2. Replies(r, 502)
      BY <1>4, AnswersReply DEF RelayFailure
    <2> QED
      BY <2>1, <2>2
  <1>5. CASE RelayResult(r)
    <2>1. UNCHANGED runs /\ pc[r] = "waiting" /\ call[r] = "ran"
      BY <1>5 DEF RelayResult, hostVars
    <2>2. Replies(r, 500) \/ Replies(r, 200)
      BY <1>5, AnswersReply DEF RelayResult
    <2>3. runs[r] = 1
      BY <2>1 DEF CallInv
    <2> QED
      BY <2>1, <2>2, <2>3
  <1> QED
    BY <1>1, <1>2, <1>3, <1>4, <1>5 DEF RequestThread

LEMMA ThreadImplements ==
  ASSUME CallsInv, NEW r \in Requests, RequestThread(r)
  PROVE  \/ Contract!Refuse(r) \/ Contract!Forward(r) \/ Contract!Succeed(r)
         \/ Contract!Fail(r) \/ UNCHANGED <<Phase, runs>>
  <1>0. CallTypeOK /\ CallInv(r)
    BY DEF CallsInv
  <1>1. UNCHANGED runs
    BY <1>0, ThreadSteps
  <1>2. /\ pc[r] \in {"healthy", "registered"} => Phase[r] = "open"
        /\ pc[r] = "waiting" => Phase[r] = "sent"
    BY PhaseByCall, PhaseValues
  <1>3. CASE pc[r] = "healthy" /\ pc' = [pc EXCEPT ![r] = "registered"] /\ UNCHANGED answer
    <2>1. pc'[r] = "registered" /\ \A q \in Requests \ {r} : pc'[q] = pc[q]
      BY <1>0, <1>3 DEF CallTypeOK
    <2>2. \A q \in Requests : PhaseOf(pc'[q], answer'[q]) = PhaseOf(pc[q], answer[q])
      BY <1>3, <2>1, PhaseValues
    <2> QED
      BY <1>1, <2>2, PhaseStutter
  <1>4. CASE pc[r] \in {"healthy", "registered"} /\ Replies(r, 503)
    <2>1. Phase[r] \in {"idle", "open"}
      BY <1>2, <1>4
    <2>2. Moves(r, {"idle", "open"}, "refused")
      BY <1>0, <1>1, <1>4, <2>1, AnswerRefuses
    <2> QED
      BY <2>2, ContractMoves
  <1>5. ASSUME NEW a, a = 500 \/ a = 502 \/ a = 504, Replies(r, a),
               pc[r] \in {"registered", "waiting"}
        PROVE  Contract!Fail(r)
    <2>1. Phase[r] \in {"idle", "open", "sent"}
      BY <1>2, <1>5
    <2>2. Moves(r, {"idle", "open", "sent"}, "failed")
      BY <1>0, <1>1, <1>5, <2>1, AnswerFails
    <2> QED
      BY <2>2, ContractMoves
  <1>6. CASE pc[r] = "registered" /\ pc' = [pc EXCEPT ![r] = "waiting"] /\ UNCHANGED answer
    <2>1. Phase' = [Phase EXCEPT ![r] = PhaseOf("waiting", answer[r])]
      BY <1>0, <1>6, MovePhase
    <2>2. PhaseOf("waiting", answer[r]) = "sent" /\ Phase[r] \in {"open"}
      BY <1>2, <1>6, PhaseValues
    <2>3. Moves(r, {"open"}, "sent")
      BY <1>1, <2>1, <2>2 DEF Moves
    <2> QED
      BY <2>3, ContractMoves
  <1>7. CASE pc[r] = "waiting" /\ runs[r] = 1 /\ Replies(r, 200)
    <2>1. Phase[r] \in {"sent"}
      BY <1>2, <1>7
    <2>2. Moves(r, {"sent"}, "ok")
      BY <1>0, <1>1, <1>7, <2>1, AnswerSucceeds
    <2> QED
      BY <1>7, <2>2, ContractMoves
  <1>8. CASE pc[r] \in {"registered", "waiting"} /\ Replies(r, 500)
    BY <1>8, <1>5
  <1>9. CASE pc[r] = "waiting" /\ (Replies(r, 504) \/ Replies(r, 502))
    BY <1>9, <1>5
  <1>10. \/ pc[r] = "healthy" /\ pc' = [pc EXCEPT ![r] = "registered"] /\ UNCHANGED answer
         \/ pc[r] \in {"healthy", "registered"} /\ Replies(r, 503)
         \/ pc[r] \in {"registered", "waiting"} /\ Replies(r, 500)
         \/ pc[r] = "registered" /\ pc' = [pc EXCEPT ![r] = "waiting"] /\ UNCHANGED answer
         \/ pc[r] = "waiting" /\ (Replies(r, 504) \/ Replies(r, 502))
         \/ pc[r] = "waiting" /\ runs[r] = 1 /\ Replies(r, 200)
    BY <1>0, ThreadSteps
  <1> QED
    BY <1>3, <1>4, <1>6, <1>7, <1>8, <1>9, <1>10

LEMMA HostImplements ==
  ASSUME CallsInv, NEW r \in Requests, HostRuns(r)
  PROVE  Contract!Run(r)
  <1>0. CallTypeOK /\ CallInv(r)
    BY DEF CallsInv
  <1>1. call[r] = "inflight"
    BY DEF HostRuns
  <1>2. runs[r] = 0
    BY <1>0, <1>1 DEF CallInv
  <1>3. pc[r] = "waiting" \/ (pc[r] = "done" /\ answer[r] \in {500, 502, 504})
    <2>1. pc[r] = "waiting" \/ pc[r] = "done"
      BY <1>0, <1>1 DEF CallInv
    <2>2. ASSUME pc[r] = "done" PROVE answer[r] \in {500, 502, 504}
      <3>1. call[r] # "none" /\ call[r] # "ran"
        BY <1>1
      <3>2. answer[r] \in {200, 500, 502, 504} /\ (answer[r] = 200 => call[r] = "ran")
        BY <1>0, <2>2, <3>1 DEF CallInv
      <3> QED
        BY <3>1, <3>2
    <2> QED
      BY <2>1, <2>2
  <1>4. Phase[r] \in {"sent", "failed"}
    <2>1. Phase[r] = PhaseOf(pc[r], answer[r])
      BY PhaseByCall
    <2> QED
      BY <1>3, <2>1, PhaseValues
  <1>5. UNCHANGED Phase
    BY DEF Phase, HostRuns, requestVars
  <1>6. runs' = [runs EXCEPT ![r] = 1]
    BY <1>0, <1>2 DEF HostRuns, CallTypeOK
  <1> QED
    BY <1>2, <1>4, <1>5, <1>6 DEF Contract!Run

LEMMA StepImplements ==
  ASSUME CallsInv, [Next]_vars
  PROVE  [Contract!Next]_(Contract!callVars)
  <1>1. CASE UNCHANGED <<pc, answer, runs>>
    <2>1. UNCHANGED Phase
      BY <1>1 DEF Phase
    <2> QED
      BY <1>1, <2>1 DEF Contract!callVars
  <1>2. CASE Heartbeat
    BY <1>2, <1>1 DEF Heartbeat, HbWake, HbProbeAnswered, HbProbeFails, HbRecordRecovery,
         HbResetMissed, HbSetHealthy, HbSetRegistered, HbCountMiss, HbClearHealthy,
         HbClearRegistered, HbRecordDown, requestVars, hostVars
  <1>3. ASSUME NEW r \in Requests, NEW e \in Envelopes, Receive(r, e)
        PROVE  Contract!Next
    BY <1>3, ReceiveImplements DEF Contract!Next
  <1>4. ASSUME NEW r \in Requests, RequestThread(r)
        PROVE  [Contract!Next]_(Contract!callVars)
    BY <1>4, ThreadImplements DEF Contract!Next, Contract!callVars
  <1>5. ASSUME NEW r \in Requests, HostRuns(r)
        PROVE  Contract!Next
    BY <1>5, HostImplements DEF Contract!Next
  <1>6. CASE \E r \in Requests : CallLost(r)
    BY <1>6, <1>1 DEF CallLost, requestVars
  <1>7. CASE \E s \in Services : HostChanges(s)
    BY <1>7, <1>1 DEF HostChanges, requestVars, hostVars
  <1>8. CASE UNCHANGED vars
    BY <1>8, <1>1 DEF vars, requestVars, hostVars
  <1> QED
    BY <1>2, <1>3, <1>4, <1>5, <1>6, <1>7, <1>8 DEF Next, Step

\* Every behaviour of the gateway, its threads and its tool hosts is one the
\* contract of a tool call allows: the status tells the caller the truth
\* about what ran, and nothing runs twice.
THEOREM GatewayImplementsToolCall == Spec => HonoursToolCall
  <1>1. Init => Contract!Init
    <2> SUFFICES ASSUME Init PROVE Contract!Init
      OBVIOUS
    <2>1. Phase = [r \in Requests |-> "idle"]
      BY PhaseByCall, PhaseValues DEF Init
    <2> QED
      BY <2>1 DEF Init, Contract!Init
  <1>2. CallsInv /\ [Next]_vars => [Contract!Next]_(Contract!callVars)
    BY StepImplements
  <1> QED
    BY <1>1, <1>2, InitCalls, NextCalls, PTL DEF Spec, HonoursToolCall, Contract!Spec

=============================================================================
