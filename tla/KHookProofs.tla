---------------------------- MODULE KHookProofs ----------------------------
(***************************************************************************)
(* The dispatcher for any windows, burst limit, keys, events and faults:   *)
(* it drops no matched event in silence, loads the controller with at most *)
(* two envelopes of a key in a burst window, counts every suppressed event *)
(* once and reopens a case only through a summary.                         *)
(***************************************************************************)
EXTENDS KHook, FiniteSetTheorems, TLAPS

\* The envelope for k that was built at time t.
BuiltAt(k, t) == \E e \in sent : e.key = k /\ e.at = t

\* The two clocks a decision compares.
ClockInv ==
    /\ clock \in Time
    /\ now_ts \in Nat
    /\ now_ts <= clock

\* A remembered time is one at which an envelope was really built.
MemoryInv ==
    /\ last_dispatch_ts \in [Keys -> Nat \cup {None}]
    /\ burst_emitted_ts \in [Keys -> Nat \cup {None}]
    /\ \A k \in Keys : last_dispatch_ts[k] # None =>
           last_dispatch_ts[k] <= now_ts /\ BuiltAt(k, last_dispatch_ts[k])
    /\ \A k \in Keys : burst_emitted_ts[k] # None =>
           burst_emitted_ts[k] <= now_ts /\ BuiltAt(k, burst_emitted_ts[k])

CoveredInv == ClockInv /\ MemoryInv /\ EveryEventCovered

-----------------------------------------------------------------------------

\* The empty processor has nothing to cover.
LEMMA InitCovered == Init => CoveredInv
  BY BoundsAssumption
  DEF Init, CoveredInv, ClockInv, MemoryInv, EveryEventCovered, BuiltAt, Time

\* A step that leaves the memory and the histories alone preserves the
\* invariant as long as the clocks only grow.
LEMMA QuietStep ==
  ASSUME CoveredInv,
         clock' \in Time, now_ts' \in Nat, now_ts <= now_ts', now_ts' <= clock',
         UNCHANGED <<last_dispatch_ts, burst_emitted_ts, sent, processed>>
  PROVE  CoveredInv'
  <1> USE DEF CoveredInv
  <1>1. ClockInv'
    BY DEF ClockInv
  <1>2. MemoryInv'
    BY DEF MemoryInv, BuiltAt, ClockInv
  <1>3. EveryEventCovered'
    BY DEF EveryEventCovered
  <1> QED
    BY <1>1, <1>2, <1>3

\* A suppressed event is covered by the envelope whose time the guard
\* compared with, in either suppressing branch.
LEMMA SuppressedCovered ==
  ASSUME CoveredInv,
         NEW k \in Keys, NEW u, NEW last, NEW width \in Nat,
         width <= DedupeWindow,
         last # None, now_ts < last + width,
         last \in Nat, last <= now_ts, BuiltAt(k, last),
         UNCHANGED <<clock, now_ts, last_dispatch_ts, burst_emitted_ts, sent>>,
         processed' = processed \cup {[event |-> u, key |-> k, at |-> now_ts]}
  PROVE  CoveredInv'
  <1> USE DEF CoveredInv
  <1>1. ClockInv'
    BY DEF ClockInv
  <1>2. MemoryInv'
    BY DEF MemoryInv, BuiltAt
  <1>3. now_ts < last + DedupeWindow
    BY WindowsAssumption DEF ClockInv
  <1>4. EveryEventCovered'
    <2> SUFFICES ASSUME NEW p \in processed'
                 PROVE  \E e \in sent : /\ e.key = p.key
                                        /\ e.at <= p.at
                                        /\ p.at < e.at + DedupeWindow
      BY DEF EveryEventCovered
    <2>1. CASE p \in processed
      BY <2>1 DEF EveryEventCovered
    <2>2. CASE p = [event |-> u, key |-> k, at |-> now_ts]
      <3>1. PICK e \in sent : e.key = k /\ e.at = last
        BY DEF BuiltAt
      <3>2. p.key = k /\ p.at = now_ts
        BY <2>2
      <3> QED
        BY <1>3, <3>1, <3>2
    <2> QED
      BY <2>1, <2>2
  <1> QED
    BY <1>1, <1>2, <1>4

\* An event that leads to an envelope of its own key is covered by it.
LEMMA BuiltCovered ==
  ASSUME CoveredInv,
         NEW k \in Keys, NEW u, NEW e, e.key = k, e.at = now_ts,
         sent' = sent \cup {e},
         UNCHANGED <<clock, now_ts>>,
         last_dispatch_ts' = [last_dispatch_ts EXCEPT ![k] = now_ts],
         \/ UNCHANGED burst_emitted_ts
         \/ burst_emitted_ts' = [burst_emitted_ts EXCEPT ![k] = now_ts],
         processed' = processed \cup {[event |-> u, key |-> k, at |-> now_ts]}
  PROVE  CoveredInv'
  <1> USE DEF CoveredInv
  <1>1. ClockInv'
    BY DEF ClockInv
  <1>2. \A l, t : BuiltAt(l, t) => BuiltAt(l, t)'
    BY DEF BuiltAt
  <1>3. BuiltAt(k, now_ts)'
    BY DEF BuiltAt
  <1>4. MemoryInv'
    <2>1. /\ last_dispatch_ts' \in [Keys -> Nat \cup {None}]
          /\ burst_emitted_ts' \in [Keys -> Nat \cup {None}]
      BY DEF MemoryInv, ClockInv
    <2>2. ASSUME NEW l \in Keys, last_dispatch_ts'[l] # None
          PROVE  /\ last_dispatch_ts'[l] <= now_ts'
                 /\ BuiltAt(l, last_dispatch_ts[l])'
      <3>1. CASE l = k
        BY <1>3, <3>1 DEF MemoryInv, ClockInv
      <3>2. CASE l # k
        BY <1>2, <2>2, <3>2 DEF MemoryInv, ClockInv
      <3> QED
        BY <3>1, <3>2
    <2>3. ASSUME NEW l \in Keys, burst_emitted_ts'[l] # None
          PROVE  /\ burst_emitted_ts'[l] <= now_ts'
                 /\ BuiltAt(l, burst_emitted_ts[l])'
      <3>1. CASE l = k
        BY <1>2, <1>3, <2>3, <3>1 DEF MemoryInv, ClockInv
      <3>2. CASE l # k
        BY <1>2, <2>3, <3>2 DEF MemoryInv, ClockInv
      <3> QED
        BY <3>1, <3>2
    <2> QED
      BY <2>1, <2>2, <2>3 DEF MemoryInv
  <1>5. EveryEventCovered'
    <2> SUFFICES ASSUME NEW p \in processed'
                 PROVE  \E f \in sent' : /\ f.key = p.key
                                         /\ f.at <= p.at
                                         /\ p.at < f.at + DedupeWindow
      BY DEF EveryEventCovered
    <2>1. CASE p \in processed
      BY <2>1 DEF EveryEventCovered
    <2>2. CASE p = [event |-> u, key |-> k, at |-> now_ts]
      <3>1. p.key = k /\ p.at = now_ts
        BY <2>2
      <3> QED
        BY <3>1, WindowsAssumption DEF ClockInv
    <2> QED
      BY <2>1, <2>2
  <1> QED
    BY <1>1, <1>4, <1>5

-----------------------------------------------------------------------------

\* The four branches of process() for a matched event.
LEMMA MatchedStep ==
  ASSUME CoveredInv, NEW k \in Keys, NEW u \in Events,
         \/ BurstSuppressed(k, u)
         \/ BurstSummary(k, u)
         \/ Deduped(k, u)
         \/ Dispatch(k, u)
  PROVE  CoveredInv'
  <1> USE DEF Matched, Take
  <1>1. CASE BurstSuppressed(k, u)
    <2>1. burst_emitted_ts[k] # None /\ now_ts < burst_emitted_ts[k] + BurstWindow
      BY <1>1 DEF BurstSuppressed, Within
    <2>2. /\ burst_emitted_ts[k] \in Nat
          /\ burst_emitted_ts[k] <= now_ts
          /\ BuiltAt(k, burst_emitted_ts[k])
      BY <2>1 DEF CoveredInv, MemoryInv
    <2>3. /\ UNCHANGED <<clock, now_ts, last_dispatch_ts, burst_emitted_ts, sent>>
          /\ processed' =
                processed \cup {[event |-> u, key |-> k, at |-> now_ts]}
      BY <1>1 DEF BurstSuppressed
    <2>4. BurstWindow \in Nat /\ BurstWindow <= DedupeWindow
      BY WindowsAssumption
    <2> QED
      BY <2>1, <2>2, <2>3, <2>4, SuppressedCovered
  <1>2. CASE BurstSummary(k, u)
    <2>1. PICK covers, count : Build(k, u, TRUE, covers, count)
      BY <1>2 DEF BurstSummary
    <2> DEFINE e == [key |-> k, event |-> u, burst |-> TRUE, at |-> now_ts,
                     covers |-> covers, suppressed_event_count |-> count]
    <2>2. sent' = sent \cup {e}
      BY <2>1 DEF Build
    <2>3. e.key = k /\ e.at = now_ts
      OBVIOUS
    <2>4. /\ UNCHANGED <<clock, now_ts>>
          /\ last_dispatch_ts' = [last_dispatch_ts EXCEPT ![k] = now_ts]
          /\ burst_emitted_ts' = [burst_emitted_ts EXCEPT ![k] = now_ts]
          /\ processed' =
                processed \cup {[event |-> u, key |-> k, at |-> now_ts]}
      BY <1>2 DEF BurstSummary
    <2> HIDE DEF e
    <2> QED
      BY <2>2, <2>3, <2>4, BuiltCovered
  <1>3. CASE Deduped(k, u)
    <2>1. last_dispatch_ts[k] # None /\ now_ts < last_dispatch_ts[k] + DedupeWindow
      BY <1>3 DEF Deduped, Within
    <2>2. /\ last_dispatch_ts[k] \in Nat
          /\ last_dispatch_ts[k] <= now_ts
          /\ BuiltAt(k, last_dispatch_ts[k])
      BY <2>1 DEF CoveredInv, MemoryInv
    <2>3. /\ UNCHANGED <<clock, now_ts, last_dispatch_ts, burst_emitted_ts, sent>>
          /\ processed' =
                processed \cup {[event |-> u, key |-> k, at |-> now_ts]}
      BY <1>3 DEF Deduped
    <2>4. DedupeWindow \in Nat /\ DedupeWindow <= DedupeWindow
      BY WindowsAssumption
    <2> QED
      BY <2>1, <2>2, <2>3, <2>4, SuppressedCovered
  <1>4. CASE Dispatch(k, u)
    <2> DEFINE e == [key |-> k, event |-> u, burst |-> FALSE, at |-> now_ts,
                     covers |-> {}, suppressed_event_count |-> 0]
    <2>1. sent' = sent \cup {e}
      BY <1>4 DEF Dispatch, Build
    <2>2. e.key = k /\ e.at = now_ts
      OBVIOUS
    <2>3. /\ UNCHANGED <<clock, now_ts, burst_emitted_ts>>
          /\ last_dispatch_ts' = [last_dispatch_ts EXCEPT ![k] = now_ts]
          /\ processed' =
                processed \cup {[event |-> u, key |-> k, at |-> now_ts]}
      BY <1>4 DEF Dispatch
    <2> HIDE DEF e
    <2> QED
      BY <2>1, <2>2, <2>3, BuiltCovered
  <1> QED
    BY <1>1, <1>2, <1>3, <1>4

\* Every step of the loop and of its environment keeps the invariant.
LEMMA CoveredStep == CoveredInv /\ [Next]_vars => CoveredInv'
  <1> SUFFICES ASSUME CoveredInv, [Next]_vars
               PROVE  CoveredInv'
    OBVIOUS
  <1>0. clock \in Time /\ clock \in Nat /\ now_ts \in Nat /\ now_ts <= clock
    BY BoundsAssumption DEF CoveredInv, ClockInv, Time
  <1> DEFINE Same == UNCHANGED <<clock, last_dispatch_ts, burst_emitted_ts,
                                 sent, processed>>
  <1>1. CASE Same /\ now_ts' \in {now_ts, clock}
    BY <1>0, <1>1, QuietStep
  <1>2. CASE Poll
    BY <1>1, <1>2 DEF Poll, processor, history
  <1>3. CASE DuplicateUids
    BY <1>1, <1>3 DEF DuplicateUids, processor, history
  <1>4. CASE Post
    BY <1>1, <1>4 DEF Post, PostDelivered, PostFails, PostTimesOut, Posted,
                      processor
  <1>5. ASSUME NEW u \in Events, Unmatched(u) \/ Malformed(u)
        PROVE  CoveredInv'
    BY <1>1, <1>5 DEF Unmatched, Malformed, Take
  <1>6. ASSUME NEW u \in Events, Process(u)
        PROVE  CoveredInv'
    BY <1>5, <1>6, MatchedStep DEF Process
  <1>7. ASSUME NEW u \in Events, Emit(u) \/ Drop(u)
        PROVE  CoveredInv'
    BY <1>1, <1>7 DEF Emit, Drop, processor, history
  <1>8. ASSUME NEW k \in Keys, CloseCase(k)
        PROVE  CoveredInv'
    BY <1>1, <1>8 DEF CloseCase, processor, history
  <1>9. CASE Tick
    <2>1. clock' \in Time /\ now_ts' = now_ts /\ now_ts' <= clock'
      BY <1>0, <1>9, BoundsAssumption DEF Tick, Time
    <2>2. UNCHANGED <<last_dispatch_ts, burst_emitted_ts, sent, processed>>
      BY <1>9 DEF Tick, processor, history
    <2> QED
      BY <1>0, <2>1, <2>2, QuietStep
  <1>10. CASE Restart
    <2>1. /\ clock' = clock /\ now_ts' = now_ts
          /\ last_dispatch_ts' = [k \in Keys |-> None]
          /\ burst_emitted_ts' = [k \in Keys |-> None]
          /\ processed' = {}
      BY <1>10 DEF Restart
    <2> QED
      BY <1>0, <2>1 DEF CoveredInv, ClockInv, MemoryInv, EveryEventCovered
  <1>11. CASE UNCHANGED vars
    BY <1>1, <1>11 DEF vars
  <1> QED
    BY <1>2, <1>3, <1>4, <1>6, <1>7, <1>8, <1>9, <1>10, <1>11 DEF Next, Loop

\* For any number of events and keys, any windows with BurstWindow at most
\* DedupeWindow and any faults: an event the processor suppressed had an
\* envelope of its own key built less than a dedupe window before it
\* (khook.py 166-204).
THEOREM NothingDroppedSilently == Spec => []EveryEventCovered
  <1>1. CoveredInv => EveryEventCovered
    BY DEF CoveredInv
  <1> QED
    BY InitCovered, CoveredStep, <1>1, PTL DEF Spec

-----------------------------------------------------------------------------
(* The types. *)

\* The envelope on its way was built by this process, and a burst window has
\* a length.
TypeInv ==
    /\ TypeOK
    /\ envelope # None => envelope \in sent
    /\ \A k \in Keys : IsFiniteSet(window[k])

\* The window an event joins is a finite set of entries that holds it.
LEMMA JoinedType ==
  ASSUME TypeInv, NEW k \in Keys, NEW u \in Events
  PROVE  /\ Joined(k, u) \subseteq Entry
         /\ IsFiniteSet(Joined(k, u))
         /\ Cardinality(Joined(k, u)) \in Nat \ {0}
  <1> DEFINE Young == {e \in window[k] : now_ts < e.at + BurstWindow}
             new == [at |-> now_ts, event |-> u]
  <1>1. Young \subseteq window[k] /\ window[k] \subseteq Entry
    BY DEF TypeInv, TypeOK
  <1>2. new \in Entry
    BY DEF TypeInv, TypeOK, Entry
  <1>3. IsFiniteSet(window[k])
    BY DEF TypeInv
  <1>4. IsFiniteSet(Young)
    BY <1>1, <1>3, FS_Subset
  <1>5. IsFiniteSet(Young \cup {new})
    BY <1>4, FS_AddElement
  <1>6. Cardinality(Young \cup {new}) \in Nat
    BY <1>5, FS_CardinalityType
  <1>7. Cardinality(Young \cup {new}) # 0
    BY <1>5, FS_EmptySet
  <1>8. Joined(k, u) = Young \cup {new}
    BY DEF Joined
  <1> QED
    BY <1>1, <1>2, <1>5, <1>6, <1>7, <1>8

\* What Build makes of a summary or of a single event is an envelope.
LEMMA BuildType ==
  ASSUME TypeInv, NEW k \in Keys, NEW u \in Events, NEW burst \in BOOLEAN,
         NEW covers \in SUBSET Events, NEW count \in Nat,
         Build(k, u, burst, covers, count)
  PROVE  /\ envelope' \in Envelope
         /\ sent' = sent \cup {envelope'}
         /\ envelope' \in sent'
         /\ sent' \subseteq Envelope
  BY DEF Build, TypeInv, TypeOK, Envelope

\* The window after a matched event, and the rest of what Matched changes.
LEMMA MatchedType ==
  ASSUME TypeInv, NEW k \in Keys, NEW u \in Events, Matched(k, u)
  PROVE  /\ todo' \subseteq Events /\ seen_uids' \subseteq Events
         /\ UNCHANGED <<clock, label, listed, now_ts, active, faults, opened,
                        undelivered, owed>>
         /\ window' \in [Keys -> SUBSET Entry]
         /\ \A l \in Keys : IsFiniteSet(window'[l])
         /\ processed' \subseteq [event : Events, key : Keys, at : Time]
  <1>1. Joined(k, u) \subseteq Entry /\ IsFiniteSet(Joined(k, u))
    BY JoinedType
  <1>2. window' = [window EXCEPT ![k] = Joined(k, u)]
    BY DEF Matched
  <1>3. window' \in [Keys -> SUBSET Entry]
    BY <1>1, <1>2 DEF TypeInv, TypeOK
  <1>4. \A l \in Keys : IsFiniteSet(window'[l])
    BY <1>1, <1>2 DEF TypeInv, TypeOK
  <1>5. processed' \subseteq [event : Events, key : Keys, at : Time]
    BY DEF Matched, TypeInv, TypeOK
  <1> QED
    BY <1>3, <1>4, <1>5 DEF Matched, Take, TypeInv, TypeOK

LEMMA TypeMatched ==
  ASSUME TypeInv, NEW k \in Keys, NEW u \in Events,
         \/ BurstSuppressed(k, u)
         \/ BurstSummary(k, u)
         \/ Deduped(k, u)
         \/ Dispatch(k, u)
  PROVE  TypeInv'
  <1>1. Matched(k, u)
    BY DEF BurstSuppressed, BurstSummary, Deduped, Dispatch
  <1>2. CASE BurstSuppressed(k, u) \/ Deduped(k, u)
    <2>1. UNCHANGED <<last_dispatch_ts, burst_emitted_ts, envelope, sent>>
      BY <1>2 DEF BurstSuppressed, Deduped
    <2> QED BY <1>1, <2>1, MatchedType DEF TypeInv, TypeOK
  <1>3. ASSUME NEW burst \in BOOLEAN, NEW covers \in SUBSET Events, NEW count \in Nat,
               Build(k, u, burst, covers, count),
               last_dispatch_ts' = [last_dispatch_ts EXCEPT ![k] = now_ts],
               \/ UNCHANGED burst_emitted_ts
               \/ burst_emitted_ts' = [burst_emitted_ts EXCEPT ![k] = now_ts]
        PROVE  TypeInv'
    <2>1. /\ envelope' \in Envelope /\ envelope' \in sent'
          /\ sent' \subseteq Envelope /\ sent \subseteq sent'
      BY <1>3, BuildType
    <2>2. /\ last_dispatch_ts' \in [Keys -> Time \cup {None}]
          /\ burst_emitted_ts' \in [Keys -> Time \cup {None}]
      BY <1>3 DEF TypeInv, TypeOK
    <2> QED BY <1>1, <2>1, <2>2, MatchedType DEF TypeInv, TypeOK
  <1>4. CASE BurstSummary(k, u)
    <2> DEFINE w == Joined(k, u)
               covers == {e.event : e \in w}
               count == Cardinality(w) - 1
    <2>1. covers \in SUBSET Events
      BY JoinedType DEF Entry
    <2>2. count \in Nat
      BY JoinedType
    <2>3. /\ Build(k, u, TRUE, covers, count)
          /\ last_dispatch_ts' = [last_dispatch_ts EXCEPT ![k] = now_ts]
          /\ burst_emitted_ts' = [burst_emitted_ts EXCEPT ![k] = now_ts]
      BY <1>4 DEF BurstSummary
    <2> HIDE DEF covers, count
    <2> QED BY <1>3, <2>1, <2>2, <2>3
  <1>5. CASE Dispatch(k, u)
    <2>1. /\ Build(k, u, FALSE, {}, 0)
          /\ last_dispatch_ts' = [last_dispatch_ts EXCEPT ![k] = now_ts]
          /\ UNCHANGED burst_emitted_ts
      BY <1>5 DEF Dispatch
    <2> QED BY <1>3, <2>1
  <1> QED BY <1>2, <1>4, <1>5

LEMMA InitType == Init => TypeInv
  <1> SUFFICES ASSUME Init PROVE TypeInv
    OBVIOUS
  <1>1. \A k \in Keys : IsFiniteSet(window[k])
    BY FS_EmptySet DEF Init
  <1> QED BY <1>1, BoundsAssumption DEF Init, TypeInv, TypeOK, Time

LEMMA TypeStep == TypeInv /\ [Next]_vars => TypeInv'
  <1> SUFFICES ASSUME TypeInv, [Next]_vars
               PROVE  TypeInv'
    OBVIOUS
  <1> USE DEF TypeInv, TypeOK
  <1>1. CASE Poll
    BY <1>1 DEF Poll, processor
  <1>2. CASE DuplicateUids
    BY <1>2 DEF DuplicateUids, processor, history
  <1>3. CASE Post
    <2>1. /\ envelope \in sent /\ envelope' = None
          /\ owed' = owed \ {envelope.event}
          /\ UNCHANGED <<clock, label, listed, todo, now_ts, seen_uids,
                         last_dispatch_ts, window, burst_emitted_ts, sent, processed>>
      BY <1>3 DEF Post, PostDelivered, PostFails, PostTimesOut, Posted, processor
    <2>2. envelope.event \in Events /\ envelope.key \in Keys
      BY <2>1 DEF Envelope
    <2>3. /\ active' \subseteq Keys /\ opened' \subseteq sent'
      BY <1>3, <2>1, <2>2
      DEF Post, PostDelivered, PostFails, PostTimesOut, HandleTrigger
    <2>4. /\ undelivered' \subseteq Events /\ owed' \subseteq undelivered'
      BY <1>3, <2>1, <2>2 DEF Post, PostDelivered, PostFails, PostTimesOut
    <2>5. faults' \in 0 .. MaxFaults
      BY <1>3, BoundsAssumption DEF Post, PostDelivered, PostFails, PostTimesOut, Fault
    <2> QED BY <2>1, <2>3, <2>4, <2>5
  <1>4. ASSUME NEW u \in Events, Unmatched(u) \/ Malformed(u)
        PROVE  TypeInv'
    BY <1>4 DEF Unmatched, Malformed, Take
  <1>5. ASSUME NEW u \in Events, Process(u)
        PROVE  TypeInv'
    BY <1>4, <1>5, TypeMatched DEF Process
  <1>6. ASSUME NEW u \in Events, Emit(u)
        PROVE  TypeInv'
    BY <1>6 DEF Emit, processor, history
  <1>7. ASSUME NEW u \in Events, Drop(u)
        PROVE  TypeInv'
    BY <1>7, BoundsAssumption DEF Drop, Fault, processor, history
  <1>8. ASSUME NEW k \in Keys, CloseCase(k)
        PROVE  TypeInv'
    BY <1>8 DEF CloseCase, processor, history
  <1>9. CASE Tick
    BY <1>9, BoundsAssumption DEF Tick, Time, processor, history
  <1>10. CASE Restart
    <2>1. \A k \in Keys : IsFiniteSet(window'[k])
      BY <1>10, FS_EmptySet DEF Restart
    <2> QED BY <1>10, <2>1, BoundsAssumption DEF Restart, Fault
  <1>11. CASE UNCHANGED vars
    BY <1>11 DEF vars
  <1> QED
    BY <1>1, <1>2, <1>3, <1>5, <1>6, <1>7, <1>8, <1>9, <1>10, <1>11 DEF Next, Loop

\* The dispatcher's state and its histories keep their types, whatever the
\* number of events, keys and faults.
THEOREM DispatcherTypeCorrect == Spec => []TypeOK
  <1>1. TypeInv => TypeOK
    BY DEF TypeInv
  <1> QED
    BY InitType, TypeStep, <1>1, PTL DEF Spec

-----------------------------------------------------------------------------
(* How often a key is posted. *)

\* The two kinds of envelope a process built.
Solo == {e \in sent : ~e.burst}

Bursts == {e \in sent : e.burst}

\* Two envelopes of S for one key are at least w apart.
Spaced(S, w) ==
    \A e, f \in S : (e.key = f.key /\ e # f) =>
        e.at + w <= f.at \/ f.at + w <= e.at

\* last has, for every key of an envelope in S, a time no older than it.
Remembers(last, S) ==
    \A e \in S : last[e.key] # None /\ e.at <= last[e.key]

SpacingInv ==
    /\ Remembers(last_dispatch_ts, sent)
    /\ Remembers(burst_emitted_ts, Bursts)
    /\ Spaced(Solo, DedupeWindow)
    /\ Spaced(Bursts, BurstWindow)

LEMMA SpacedAdd ==
  ASSUME NEW S, NEW e, NEW w \in Nat, Spaced(S, w), e.at \in Nat,
         \A s \in S : s.at \in Nat,
         \A s \in S : s.key = e.key => s.at + w <= e.at
  PROVE  Spaced(S \cup {e}, w)
  BY DEF Spaced

LEMMA RemembersAdd ==
  ASSUME NEW S, NEW last \in [Keys -> Time \cup {None}], NEW e, NEW k \in Keys,
         NEW t \in Nat, e.key = k, e.at = t, Remembers(last, S),
         \A s \in S : s.key \in Keys /\ s.at \in Nat,
         \A s \in S : s.key = k => s.at <= t
  PROVE  /\ Remembers([last EXCEPT ![k] = t], S \cup {e})
         /\ Remembers([last EXCEPT ![k] = t], S)
  <1>1. t # None /\ t <= t
    BY NoneAssumption
  <1> QED BY <1>1 DEF Remembers

\* What a remembered time says of an older envelope of the same key.
LEMMA SinceLast ==
  ASSUME NEW S, NEW last \in [Keys -> Time \cup {None}], NEW k \in Keys,
         NEW w \in Nat, NEW n \in Nat, n = now_ts,
         Remembers(last, S), ~Within(last[k], w),
         \A s \in S : s.at \in Nat
  PROVE  \A s \in S : s.key = k => s.at + w <= n
  <1> SUFFICES ASSUME NEW s \in S, s.key = k
               PROVE  s.at + w <= n
    OBVIOUS
  <1>1. last[k] # None /\ s.at <= last[k]
    BY DEF Remembers
  <1>2. last[k] \in Nat
    BY <1>1, BoundsAssumption DEF Time
  <1>3. ~(n < last[k] + w)
    BY <1>1 DEF Within
  <1> QED BY <1>1, <1>2, <1>3

\* A built envelope joins the envelopes of its kind.
LEMMA BuildKind ==
  ASSUME NEW k, NEW u, NEW burst \in BOOLEAN, NEW covers, NEW count,
         Build(k, u, burst, covers, count)
  PROVE  /\ envelope'.key = k /\ envelope'.at = now_ts /\ envelope'.event = u
         /\ envelope'.covers = covers /\ envelope'.suppressed_event_count = count
         /\ sent' = sent \cup {envelope'}
         /\ burst => Bursts' = Bursts \cup {envelope'} /\ UNCHANGED Solo
         /\ ~burst => Solo' = Solo \cup {envelope'} /\ UNCHANGED Bursts
  <1>1. envelope' = [key |-> k, event |-> u, burst |-> burst, at |-> now_ts,
                     covers |-> covers, suppressed_event_count |-> count]
        /\ sent' = sent \cup {envelope'}
    BY DEF Build
  <1>2. envelope'.burst = burst
    BY <1>1
  <1>3. burst => Bursts' = Bursts \cup {envelope'} /\ UNCHANGED Solo
    BY <1>1, <1>2, Zenon DEF Bursts, Solo
  <1>4. ~burst => Solo' = Solo \cup {envelope'} /\ UNCHANGED Bursts
    BY <1>1, <1>2, Zenon DEF Bursts, Solo
  <1> QED BY <1>1, <1>3, <1>4

LEMMA SentFacts ==
  ASSUME TypeInv, CoveredInv
  PROVE  /\ now_ts \in Nat /\ now_ts \in Time
         /\ \A e \in sent : e.key \in Keys /\ e.at \in Nat
         /\ last_dispatch_ts \in [Keys -> Time \cup {None}]
         /\ burst_emitted_ts \in [Keys -> Time \cup {None}]
         /\ Solo \subseteq sent /\ Bursts \subseteq sent
  BY BoundsAssumption DEF TypeInv, TypeOK, CoveredInv, ClockInv, Envelope, Time, Solo, Bursts

LEMMA SpacingMatched ==
  ASSUME TypeInv, CoveredInv, SpacingInv, NEW k \in Keys, NEW u \in Events,
         \/ BurstSuppressed(k, u)
         \/ BurstSummary(k, u)
         \/ Deduped(k, u)
         \/ Dispatch(k, u)
  PROVE  SpacingInv'
  <1>1. CASE BurstSuppressed(k, u) \/ Deduped(k, u)
    BY <1>1 DEF BurstSuppressed, Deduped, SpacingInv, Remembers, Spaced, Bursts, Solo
  <1>2. PICK n \in Nat : n = now_ts
    BY SentFacts
  <1>3. \A e \in sent : e.key = k => e.at <= n
    <2> SUFFICES ASSUME NEW e \in sent, e.key = k
                 PROVE  e.at <= n
      OBVIOUS
    <2>1. last_dispatch_ts[k] # None /\ e.at <= last_dispatch_ts[k]
      BY DEF SpacingInv, Remembers
    <2>2. last_dispatch_ts[k] \in Nat /\ last_dispatch_ts[k] <= n
      BY <1>2, <2>1, SentFacts DEF CoveredInv, MemoryInv
    <2> QED BY <2>1, <2>2, SentFacts
  <1>4. DedupeWindow \in Nat /\ BurstWindow \in Nat
    BY WindowsAssumption
  <1>5. CASE BurstSummary(k, u)
    <2>1. PICK covers, count : Build(k, u, TRUE, covers, count)
      BY <1>5 DEF BurstSummary
    <2>2. PICK e : e = envelope'
      OBVIOUS
    <2>3. /\ e.key = k /\ e.at = n /\ sent' = sent \cup {e}
          /\ Bursts' = Bursts \cup {e} /\ Solo' = Solo
      BY <1>2, <2>1, <2>2, BuildKind
    <2>4. /\ last_dispatch_ts' = [last_dispatch_ts EXCEPT ![k] = n]
          /\ burst_emitted_ts' = [burst_emitted_ts EXCEPT ![k] = n]
          /\ ~Within(burst_emitted_ts[k], BurstWindow)
      BY <1>2, <1>5 DEF BurstSummary
    <2>5. Remembers([last_dispatch_ts EXCEPT ![k] = n], sent \cup {e})
      BY <1>3, <2>3, RemembersAdd, SentFacts DEF SpacingInv
    <2>6. Remembers([burst_emitted_ts EXCEPT ![k] = n], Bursts \cup {e})
      BY <1>3, <2>3, RemembersAdd, SentFacts DEF SpacingInv
    <2>7. \A s \in Bursts : s.key = k => s.at + BurstWindow <= n
      BY <1>2, <1>4, <2>4, SinceLast, SentFacts DEF SpacingInv
    <2>8. Spaced(Bursts \cup {e}, BurstWindow)
      BY <1>4, <2>3, <2>7, SpacedAdd, SentFacts DEF SpacingInv
    <2>9. Remembers(last_dispatch_ts, sent)' /\ Remembers(burst_emitted_ts, Bursts)'
      BY <2>3, <2>4, <2>5, <2>6 DEF Remembers
    <2>10. Spaced(Bursts, BurstWindow)' /\ Spaced(Solo, DedupeWindow)'
      BY <2>3, <2>8 DEF SpacingInv, Spaced
    <2> QED BY <2>9, <2>10 DEF SpacingInv
  <1>6. CASE Dispatch(k, u)
    <2>1. Build(k, u, FALSE, {}, 0)
      BY <1>6 DEF Dispatch
    <2>2. PICK e : e = envelope'
      OBVIOUS
    <2>3. /\ e.key = k /\ e.at = n /\ sent' = sent \cup {e}
          /\ Solo' = Solo \cup {e} /\ Bursts' = Bursts
      BY <1>2, <2>1, <2>2, BuildKind
    <2>4. /\ last_dispatch_ts' = [last_dispatch_ts EXCEPT ![k] = n]
          /\ burst_emitted_ts' = burst_emitted_ts
          /\ ~Within(last_dispatch_ts[k], DedupeWindow)
      BY <1>2, <1>6 DEF Dispatch
    <2>5. Remembers([last_dispatch_ts EXCEPT ![k] = n], sent \cup {e})
      BY <1>3, <2>3, RemembersAdd, SentFacts DEF SpacingInv
    <2>6. Remembers(last_dispatch_ts, Solo)
      BY SentFacts DEF SpacingInv, Remembers
    <2>7. \A s \in Solo : s.key = k => s.at + DedupeWindow <= n
      BY <1>2, <1>4, <2>4, <2>6, SinceLast, SentFacts
    <2>8. Spaced(Solo \cup {e}, DedupeWindow)
      BY <1>4, <2>3, <2>7, SpacedAdd, SentFacts DEF SpacingInv
    <2>9. Remembers(last_dispatch_ts, sent)' /\ Remembers(burst_emitted_ts, Bursts)'
      BY <2>3, <2>4, <2>5 DEF Remembers, SpacingInv
    <2>10. Spaced(Bursts, BurstWindow)' /\ Spaced(Solo, DedupeWindow)'
      BY <2>3, <2>8 DEF SpacingInv, Spaced
    <2> QED BY <2>9, <2>10 DEF SpacingInv
  <1> QED BY <1>1, <1>5, <1>6

-----------------------------------------------------------------------------
(* What a summary counts. *)

\* The record of u in processed, when it was matched for k at time t.
Seen(u, k, t) == [event |-> u, key |-> k, at |-> t]

\* Each object is processed once, so processed gives every event one key and
\* one time; windows, single dispatches and summaries speak of those.
CountInv ==
    /\ \A p \in processed : p.event \in seen_uids
    /\ \A p, q \in processed : p.event = q.event => p = q
    /\ \A k \in Keys : \A x \in window[k] : Seen(x.event, k, x.at) \in processed
    /\ \A k \in Keys : \A x \in window[k] : x.at <= now_ts
    /\ \A e \in Solo : Seen(e.event, e.key, e.at) \in processed
    /\ \A e \in Bursts : \A u \in e.covers : \E t \in Time :
           /\ Seen(u, e.key, t) \in processed
           /\ t <= e.at
           /\ e.at < t + BurstWindow
    /\ \A e \in Bursts :
           /\ IsFiniteSet(e.covers)
           /\ Cardinality(e.covers) = e.suppressed_event_count + 1

\* A set whose elements are told apart by their events has as many events.
LEMMA EventsCounted ==
  ASSUME NEW S, IsFiniteSet(S), \A x, y \in S : x.event = y.event => x = y
  PROVE  /\ IsFiniteSet({x.event : x \in S})
         /\ Cardinality({x.event : x \in S}) = Cardinality(S)
  <1> DEFINE T == {x.event : x \in S}
             f == [x \in S |-> x.event]
  <1>1. f \in Bijection(S, T)
    BY DEF Bijection, Injection, Surjection, IsInjective
  <1>2. ExistsBijection(S, T)
    BY <1>1 DEF ExistsBijection
  <1> QED BY <1>2, FS_Bijection

\* After u joined, the window of k holds events this process matched for k,
\* each once and none older than the burst window.
LEMMA JoinedFacts ==
  ASSUME TypeInv, CoveredInv, CountInv, NEW k \in Keys, NEW u \in Events,
         Matched(k, u)
  PROVE  /\ \A x \in Joined(k, u) :
               /\ Seen(x.event, k, x.at) \in processed'
               /\ x.at \in Time /\ x.at <= now_ts /\ now_ts < x.at + BurstWindow
         /\ \A x, y \in Joined(k, u) : x.event = y.event => x = y
         /\ u \notin seen_uids
  <1>0. processed' = processed \cup {Seen(u, k, now_ts)}
    BY DEF Matched, Seen
  <1>1. now_ts \in Time /\ now_ts \in Nat
    BY SentFacts
  <1>2. u \notin seen_uids
    BY DEF Matched, Take
  <1>3. ASSUME NEW x \in Joined(k, u)
        PROVE  /\ Seen(x.event, k, x.at) \in processed'
               /\ x.at \in Time /\ x.at <= now_ts /\ now_ts < x.at + BurstWindow
    <2>1. CASE x \in window[k] /\ now_ts < x.at + BurstWindow
      BY <1>0, <2>1 DEF CountInv, TypeInv, TypeOK, Entry
    <2>2. CASE x = [at |-> now_ts, event |-> u]
      <3>1. x.at = now_ts /\ x.event = u
        BY <2>2
      <3>2. now_ts < now_ts + BurstWindow
        BY <1>1, WindowsAssumption
      <3> QED BY <1>0, <1>1, <3>1, <3>2
    <2> QED BY <2>1, <2>2 DEF Joined
  <1>4. ASSUME NEW x \in Joined(k, u), NEW y \in Joined(k, u), x.event = y.event
        PROVE  x = y
    <2>1. \A z \in window[k] : z \in Entry /\ z.event \in seen_uids
      <3>1. window[k] \in SUBSET Entry
        BY DEF TypeInv, TypeOK
      <3>2. ASSUME NEW z \in window[k] PROVE z.event \in seen_uids
        <4>1. PICK p \in processed : p = Seen(z.event, k, z.at)
          BY DEF CountInv
        <4>2. p.event = z.event
          BY <4>1 DEF Seen
        <4>3. p.event \in seen_uids
          BY DEF CountInv
        <4> QED BY <4>2, <4>3
      <3> QED BY <3>1, <3>2
    <2>2. CASE x \in window[k] /\ y \in window[k]
      <3>1. Seen(x.event, k, x.at) = Seen(y.event, k, y.at)
        BY <1>4, <2>2 DEF CountInv, Seen
      <3>2. x.at = y.at
        BY <3>1 DEF Seen
      <3> QED BY <1>4, <2>1, <2>2, <3>2 DEF Entry
    <2>3. CASE x = [at |-> now_ts, event |-> u] \/ y = [at |-> now_ts, event |-> u]
      BY <1>2, <1>4, <2>1, <2>3 DEF Joined
    <2> QED BY <2>2, <2>3 DEF Joined
  <1> QED BY <1>2, <1>3, <1>4

\* The part of the invariant that every matched event keeps.
LEMMA CountWindows ==
  ASSUME TypeInv, CoveredInv, CountInv, NEW k \in Keys, NEW u \in Events,
         Matched(k, u)
  PROVE  /\ \A p \in processed' : p.event \in seen_uids'
         /\ \A p, q \in processed' : p.event = q.event => p = q
         /\ \A l \in Keys : \A x \in window'[l] : Seen(x.event, l, x.at) \in processed'
         /\ \A l \in Keys : \A x \in window'[l] : x.at <= now_ts'
         /\ processed \subseteq processed'
         /\ Seen(u, k, now_ts) \in processed'
  <1>0. /\ processed' = processed \cup {Seen(u, k, now_ts)}
        /\ seen_uids' = seen_uids \cup {u} /\ u \notin seen_uids /\ now_ts' = now_ts
        /\ window' = [window EXCEPT ![k] = Joined(k, u)]
    BY DEF Matched, Take, Seen
  <1>1. Seen(u, k, now_ts).event = u
    BY DEF Seen
  <1>2. \A p \in processed' : p.event \in seen_uids'
    BY <1>0, <1>1 DEF CountInv
  <1>3. \A p, q \in processed' : p.event = q.event => p = q
    BY <1>0, <1>1 DEF CountInv
  <1>4. ASSUME NEW l \in Keys, NEW x \in window'[l]
        PROVE  Seen(x.event, l, x.at) \in processed' /\ x.at <= now_ts'
    <2>1. CASE l = k
      <3>1. x \in Joined(k, u)
        BY <1>0, <1>4, <2>1 DEF TypeInv, TypeOK
      <3> QED BY <1>0, <2>1, <3>1, JoinedFacts
    <2>2. CASE l # k
      <3>1. x \in window[l]
        BY <1>0, <1>4, <2>2 DEF TypeInv, TypeOK
      <3> QED BY <1>0, <3>1 DEF CountInv
    <2> QED BY <2>1, <2>2
  <1> QED BY <1>0, <1>2, <1>3, <1>4

LEMMA CountMatched ==
  ASSUME TypeInv, CoveredInv, CountInv, NEW k \in Keys, NEW u \in Events,
         \/ BurstSuppressed(k, u)
         \/ BurstSummary(k, u)
         \/ Deduped(k, u)
         \/ Dispatch(k, u)
  PROVE  CountInv'
  <1>0. Matched(k, u)
    BY DEF BurstSuppressed, BurstSummary, Deduped, Dispatch
  <1>1. processed \subseteq processed' /\ Seen(u, k, now_ts) \in processed'
    BY <1>0, CountWindows
  <1> SUFFICES
        /\ \A e \in Solo' : Seen(e.event, e.key, e.at) \in processed'
        /\ \A e \in Bursts' : \A v \in e.covers : \E t \in Time :
               /\ Seen(v, e.key, t) \in processed'
               /\ t <= e.at
               /\ e.at < t + BurstWindow
        /\ \A e \in Bursts' :
               /\ IsFiniteSet(e.covers)
               /\ Cardinality(e.covers) = e.suppressed_event_count + 1
    BY <1>0, CountWindows DEF CountInv, Seen
  <1>2. /\ \A e \in Solo : Seen(e.event, e.key, e.at) \in processed'
        /\ \A e \in Bursts : \A v \in e.covers : \E t \in Time :
               /\ Seen(v, e.key, t) \in processed'
               /\ t <= e.at
               /\ e.at < t + BurstWindow
        /\ \A e \in Bursts :
               /\ IsFiniteSet(e.covers)
               /\ Cardinality(e.covers) = e.suppressed_event_count + 1
    BY <1>1 DEF CountInv
  <1>3. CASE BurstSuppressed(k, u) \/ Deduped(k, u)
    <2>1. Solo' = Solo /\ Bursts' = Bursts
      BY <1>3 DEF BurstSuppressed, Deduped, Solo, Bursts
    <2> QED BY <1>2, <2>1
  <1>4. CASE Dispatch(k, u)
    <2>1. Build(k, u, FALSE, {}, 0)
      BY <1>4 DEF Dispatch
    <2>2. /\ envelope'.key = k /\ envelope'.at = now_ts /\ envelope'.event = u
          /\ Solo' = Solo \cup {envelope'} /\ Bursts' = Bursts
      BY <2>1, BuildKind
    <2> QED BY <1>1, <1>2, <2>2
  <1>5. CASE BurstSummary(k, u)
    <2> DEFINE w == Joined(k, u)
               covers == {e.event : e \in w}
               count == Cardinality(w) - 1
    <2>1. Build(k, u, TRUE, covers, count)
      BY <1>5 DEF BurstSummary
    <2>2. IsFiniteSet(w) /\ Cardinality(w) \in Nat
      BY JoinedType
    <2>3. IsFiniteSet(covers) /\ Cardinality(covers) = count + 1
      BY <1>0, <2>2, JoinedFacts, EventsCounted
    <2>4. \A v \in covers : \E t \in Time :
             /\ Seen(v, k, t) \in processed'
             /\ t <= now_ts
             /\ now_ts < t + BurstWindow
      BY <1>0, JoinedFacts
    <2> HIDE DEF covers, count
    <2>5. /\ envelope'.key = k /\ envelope'.at = now_ts
          /\ envelope'.covers = covers /\ envelope'.suppressed_event_count = count
          /\ Bursts' = Bursts \cup {envelope'} /\ Solo' = Solo
      BY <2>1, BuildKind
    <2> QED BY <1>2, <2>3, <2>4, <2>5
  <1> QED BY <1>3, <1>4, <1>5

-----------------------------------------------------------------------------
(* Both invariants under every step. *)

DispatchInv == TypeInv /\ CoveredInv /\ SpacingInv /\ CountInv

LEMMA InitDispatch == Init => DispatchInv
  <1> SUFFICES ASSUME Init PROVE DispatchInv
    OBVIOUS
  <1>1. TypeInv /\ CoveredInv
    BY InitType, InitCovered
  <1>2. SpacingInv
    BY DEF Init, SpacingInv, Remembers, Spaced, Solo, Bursts
  <1>3. CountInv
    BY DEF Init, CountInv, Solo, Bursts
  <1> QED BY <1>1, <1>2, <1>3 DEF DispatchInv

\* A step that builds nothing and matches nothing keeps them: the poll's
\* clock only grows, and no uid is forgotten.
LEMMA DispatchQuiet ==
  ASSUME DispatchInv, now_ts' \in Nat, now_ts <= now_ts', seen_uids \subseteq seen_uids',
         UNCHANGED <<last_dispatch_ts, burst_emitted_ts, window, sent, processed>>
  PROVE  SpacingInv' /\ CountInv'
  <1>1. Solo' = Solo /\ Bursts' = Bursts
    BY DEF Solo, Bursts
  <1>2. SpacingInv'
    BY <1>1 DEF DispatchInv, SpacingInv, Remembers, Spaced
  <1>3. \A k \in Keys : \A x \in window[k] : x.at <= now_ts'
    <2> SUFFICES ASSUME NEW k \in Keys, NEW x \in window[k]
                 PROVE  x.at <= now_ts'
      OBVIOUS
    <2>1. x.at \in Nat /\ now_ts \in Nat /\ x.at <= now_ts
      BY SentFacts, BoundsAssumption DEF DispatchInv, CountInv, TypeInv, TypeOK, Entry, Time
    <2> QED BY <2>1
  <1>4. CountInv'
    BY <1>1, <1>3 DEF DispatchInv, CountInv, Seen
  <1> QED BY <1>2, <1>4

LEMMA DispatchStep == DispatchInv /\ [Next]_vars => DispatchInv'
  <1> SUFFICES ASSUME DispatchInv, [Next]_vars
               PROVE  SpacingInv' /\ CountInv'
    BY TypeStep, CoveredStep DEF DispatchInv
  <1>0. clock \in Nat /\ now_ts \in Nat /\ now_ts <= clock /\ now_ts <= now_ts
    BY BoundsAssumption DEF DispatchInv, CoveredInv, ClockInv, Time
  <1> DEFINE Same == UNCHANGED <<last_dispatch_ts, burst_emitted_ts, window,
                                 sent, processed>>
  <1>1. CASE Same /\ now_ts' \in {now_ts, clock} /\ seen_uids \subseteq seen_uids'
    BY <1>0, <1>1, DispatchQuiet
  <1>2. CASE Poll
    BY <1>1, <1>2 DEF Poll, processor
  <1>3. CASE DuplicateUids
    BY <1>1, <1>3 DEF DuplicateUids, processor, history
  <1>4. CASE Post
    BY <1>1, <1>4 DEF Post, PostDelivered, PostFails, PostTimesOut, Posted, processor
  <1>5. ASSUME NEW u \in Events, Unmatched(u) \/ Malformed(u)
        PROVE  SpacingInv' /\ CountInv'
    BY <1>1, <1>5 DEF Unmatched, Malformed, Take
  <1>6. ASSUME NEW u \in Events, Process(u)
        PROVE  SpacingInv' /\ CountInv'
    BY <1>5, <1>6, SpacingMatched, CountMatched DEF Process, DispatchInv
  <1>7. ASSUME NEW u \in Events, Emit(u) \/ Drop(u)
        PROVE  SpacingInv' /\ CountInv'
    BY <1>1, <1>7 DEF Emit, Drop, processor, history
  <1>8. ASSUME NEW k \in Keys, CloseCase(k)
        PROVE  SpacingInv' /\ CountInv'
    BY <1>1, <1>8 DEF CloseCase, processor, history
  <1>9. CASE Tick
    BY <1>1, <1>9 DEF Tick, processor, history
  <1>10. CASE Restart
    <2>1. /\ sent' = {} /\ processed' = {} /\ window' = [k \in Keys |-> {}]
      BY <1>10 DEF Restart
    <2>2. Solo' = {} /\ Bursts' = {}
      BY <2>1 DEF Solo, Bursts
    <2>3. SpacingInv'
      BY <2>1, <2>2 DEF SpacingInv, Remembers, Spaced
    <2>4. CountInv'
      BY <2>1, <2>2 DEF CountInv
    <2> QED BY <2>3, <2>4
  <1>11. CASE UNCHANGED vars
    BY <1>1, <1>11 DEF vars
  <1> QED
    BY <1>2, <1>3, <1>4, <1>6, <1>7, <1>8, <1>9, <1>10, <1>11 DEF Next, Loop

LEMMA DispatchHolds == Spec => []DispatchInv
  BY InitDispatch, DispatchStep, PTL DEF Spec

-----------------------------------------------------------------------------
(* The theorems. *)

\* Of any three elements two are equal: at most two elements.
LEMMA AtMostTwo ==
  ASSUME NEW S, \A x, y, z \in S : x = y \/ y = z \/ x = z
  PROVE  Cardinality(S) <= 2
  <1>1. CASE S = {}
    BY <1>1, FS_EmptySet
  <1>2. CASE S # {}
    <2>1. PICK x \in S : TRUE
      BY <1>2
    <2>2. PICK y \in S : S \ {x} = {} \/ y # x
      BY <2>1
    <2>3. S = {x} \cup {y}
      BY <2>2
    <2>4. IsFiniteSet({x}) /\ Cardinality({x}) = 1
      BY FS_Singleton
    <2>5. Cardinality({x} \cup {y}) = IF y \in {x} THEN 1 ELSE 1 + 1
      BY <2>4, FS_AddElement
    <2> QED BY <2>3, <2>5
  <1> QED BY <1>1, <1>2

\* For all windows with BurstWindow at most DedupeWindow, all keys, events and
\* faults: a process builds at most one envelope of each kind for a key in
\* any burst window, so the controller gets at most two (khook.py 174-204).
THEOREM LoadIsBounded == Spec => []AtMostTwoPerWindow
  <1>1. DispatchInv => AtMostTwoPerWindow
    <2> SUFFICES ASSUME DispatchInv, NEW t \in Time, NEW k \in Keys
                 PROVE  Cardinality({e \in sent : /\ e.key = k
                                                  /\ t <= e.at
                                                  /\ e.at < t + BurstWindow}) <= 2
      BY DEF AtMostTwoPerWindow
    <2> DEFINE S == {e \in sent : e.key = k /\ t <= e.at /\ e.at < t + BurstWindow}
    <2>0. /\ t \in Nat /\ DedupeWindow \in Nat /\ BurstWindow \in Nat
          /\ BurstWindow <= DedupeWindow
      BY BoundsAssumption, WindowsAssumption DEF Time
    <2>1. \A e \in S : e.at \in Nat
      BY SentFacts DEF DispatchInv
    <2>2. ASSUME NEW e \in S, NEW f \in S, NEW w \in Nat, BurstWindow <= w,
                 e.at + w <= f.at \/ f.at + w <= e.at
          PROVE  FALSE
      BY <2>0, <2>1, <2>2
    <2>3. \A e, f \in S \cap Solo : e = f
      BY <2>0, <2>2 DEF DispatchInv, SpacingInv, Spaced
    <2>4. \A e, f \in S \cap Bursts : e = f
      BY <2>0, <2>2 DEF DispatchInv, SpacingInv, Spaced
    <2>5. \A e \in S : e \in Solo \/ e \in Bursts
      BY Zenon DEF Solo, Bursts
    <2>6. \A x, y, z \in S : x = y \/ y = z \/ x = z
      BY <2>3, <2>4, <2>5
    <2> HIDE DEF S
    <2>7. Cardinality(S) <= 2
      BY <2>6, AtMostTwo
    <2> QED BY <2>7 DEF S
  <1> QED
    BY DispatchHolds, <1>1, PTL

\* At most one event of a summary was also dispatched on its own: two single
\* dispatches of a key are further apart than the summary's window is wide.
LEMMA OneSingleInSummary ==
  ASSUME DispatchInv, NEW e \in Bursts, NEW u \in e.covers, NEW v \in e.covers,
         u \in Singles, v \in Singles
  PROVE  u = v
  <1>1. PICK t \in Time : /\ Seen(u, e.key, t) \in processed
                          /\ t <= e.at /\ e.at < t + BurstWindow
    BY DEF DispatchInv, CountInv
  <1>2. PICK s \in Time : /\ Seen(v, e.key, s) \in processed
                          /\ s <= e.at /\ e.at < s + BurstWindow
    BY DEF DispatchInv, CountInv
  <1>3. PICK a \in Solo : a.event = u
    BY Zenon DEF Singles, Solo
  <1>4. PICK b \in Solo : b.event = v
    BY Zenon DEF Singles, Solo
  <1>5. Seen(a.event, a.key, a.at) = Seen(u, e.key, t)
    BY <1>1, <1>3 DEF DispatchInv, CountInv, Seen
  <1>6. Seen(b.event, b.key, b.at) = Seen(v, e.key, s)
    BY <1>2, <1>4 DEF DispatchInv, CountInv, Seen
  <1>7. a.key = b.key /\ a.at = t /\ b.at = s
    BY <1>5, <1>6 DEF Seen
  <1>8. a # b => a.at + DedupeWindow <= b.at \/ b.at + DedupeWindow <= a.at
    BY <1>7 DEF DispatchInv, SpacingInv, Spaced
  <1>9. /\ t \in Nat /\ s \in Nat /\ e.at \in Nat
        /\ DedupeWindow \in Nat /\ BurstWindow \in Nat /\ BurstWindow <= DedupeWindow
    BY SentFacts, BoundsAssumption, WindowsAssumption DEF DispatchInv, Time
  <1>10. a = b
    BY <1>1, <1>2, <1>7, <1>8, <1>9
  <1> QED BY <1>3, <1>4, <1>10

\* Two summaries of a key share no event: the second one's window begins
\* after the first was built.
LEMMA SummariesDisjoint ==
  ASSUME DispatchInv, NEW e \in Bursts, NEW f \in Bursts, e.key = f.key, e # f
  PROVE  f.covers \cap e.covers = {}
  <1> SUFFICES ASSUME NEW u \in e.covers, u \in f.covers
               PROVE  FALSE
    OBVIOUS
  <1>1. PICK t \in Time : /\ Seen(u, e.key, t) \in processed
                          /\ t <= e.at /\ e.at < t + BurstWindow
    BY DEF DispatchInv, CountInv
  <1>2. PICK s \in Time : /\ Seen(u, f.key, s) \in processed
                          /\ s <= f.at /\ f.at < s + BurstWindow
    BY DEF DispatchInv, CountInv
  <1>3. Seen(u, e.key, t) = Seen(u, f.key, s)
    BY <1>1, <1>2 DEF DispatchInv, CountInv, Seen
  <1>4. t = s
    BY <1>3 DEF Seen
  <1>5. e.at + BurstWindow <= f.at \/ f.at + BurstWindow <= e.at
    BY DEF DispatchInv, SpacingInv, Spaced
  <1>6. t \in Nat /\ e.at \in Nat /\ f.at \in Nat /\ BurstWindow \in Nat
    BY SentFacts, BoundsAssumption, WindowsAssumption DEF DispatchInv, Time
  <1> QED BY <1>1, <1>2, <1>4, <1>5, <1>6

\* Whatever the windows and the burst limit: the count of a summary is the
\* number of its events that had no envelope of their own, or one less, and
\* no event is in two summaries of its key (khook.py 166-196).
THEOREM CountsAreRight == Spec => []SummariesCountOnce
  <1>1. DispatchInv => SummariesCountOnce
    <2> SUFFICES ASSUME DispatchInv, NEW e \in Bursts
                 PROVE  /\ Cardinality(e.covers \ Singles)
                             \in {e.suppressed_event_count, e.suppressed_event_count + 1}
                        /\ \A f \in Bursts : (f.key = e.key /\ f # e) =>
                              f.covers \cap e.covers = {}
      BY Zenon DEF SummariesCountOnce, Bursts
    <2>1. \A f \in Bursts : (f.key = e.key /\ f # e) => f.covers \cap e.covers = {}
      BY SummariesDisjoint
    <2>2. /\ IsFiniteSet(e.covers) /\ Cardinality(e.covers) = e.suppressed_event_count + 1
          /\ e.suppressed_event_count \in Nat
      BY SentFacts DEF DispatchInv, CountInv, TypeInv, TypeOK, Envelope
    <2>3. CASE e.covers \cap Singles = {}
      <3>1. e.covers \ Singles = e.covers
        BY <2>3
      <3>2. Cardinality(e.covers \ Singles) = e.suppressed_event_count + 1
        BY <2>2, <3>1
      <3> QED BY <2>1, <3>2
    <2>4. CASE e.covers \cap Singles # {}
      <3>1. PICK u \in e.covers : u \in Singles
        BY <2>4
      <3>2. e.covers \ Singles = e.covers \ {u}
        BY <3>1, OneSingleInSummary
      <3>3. Cardinality(e.covers \ {u}) = Cardinality(e.covers) - 1
        BY <2>2, <3>1, FS_RemoveElement
      <3>4. Cardinality(e.covers \ Singles) = e.suppressed_event_count
        BY <2>2, <3>2, <3>3
      <3> QED BY <2>1, <3>4
    <2> QED BY <2>3, <2>4
  <1> QED
    BY DispatchHolds, <1>1, PTL

-----------------------------------------------------------------------------
(* The decisions, told by the history. *)

\* What the memory keeps is what the history still says: no young event has
\* left its window, and a remembered summary was built.
KeptInv ==
    /\ \A k \in Keys, p \in processed :
           p.key = k /\ now_ts < p.at + BurstWindow =>
               \E x \in window[k] : x.event = p.event /\ x.at = p.at
    /\ \A k \in Keys : burst_emitted_ts[k] # None =>
           \E e \in Bursts : e.key = k /\ e.at = burst_emitted_ts[k]

HistoryInv == DispatchInv /\ KeptInv

LEMMA ProcessedTimes ==
  ASSUME TypeInv
  PROVE  \A p \in processed : p.at \in Nat /\ p.key \in Keys
  BY BoundsAssumption DEF TypeInv, TypeOK, Time

\* A matched event joins its window with the young ones, whose age the next
\* decision measures from the same clock reading or a later one.
LEMMA KeptWindows ==
  ASSUME TypeInv, CountInv, KeptInv, NEW k \in Keys, NEW u \in Events, Matched(k, u),
         NEW l \in Keys, NEW p \in processed', p.key = l, now_ts < p.at + BurstWindow
  PROVE  \E x \in window'[l] : x.event = p.event /\ x.at = p.at
  <1>1. /\ processed' = processed \cup {[event |-> u, key |-> k, at |-> now_ts]}
        /\ window' = [window EXCEPT ![k] = Joined(k, u)]
    BY DEF Matched
  <1>2. \A m \in Keys : window'[m] = IF m = k THEN Joined(k, u) ELSE window[m]
    BY <1>1 DEF TypeInv, TypeOK
  <1>3. CASE p \in processed
    <2>1. PICK x \in window[l] : x.event = p.event /\ x.at = p.at
      BY <1>3 DEF KeptInv
    <2>2. l = k => x \in Joined(k, u)
      BY <2>1 DEF Joined
    <2>3. x \in window'[l]
      BY <1>2, <2>1, <2>2
    <2> QED BY <2>1, <2>3
  <1>4. CASE p = [event |-> u, key |-> k, at |-> now_ts]
    <2>1. p.event = u /\ p.at = now_ts /\ l = k
      BY <1>4
    <2>2. [at |-> now_ts, event |-> u] \in Joined(k, u)
      BY DEF Joined
    <2>3. [at |-> now_ts, event |-> u] \in window'[l]
      BY <1>2, <2>1, <2>2
    <2> QED BY <2>1, <2>3
  <1> QED BY <1>1, <1>3, <1>4

LEMMA KeptMatched ==
  ASSUME HistoryInv, NEW k \in Keys, NEW u \in Events,
         \/ BurstSuppressed(k, u)
         \/ BurstSummary(k, u)
         \/ Deduped(k, u)
         \/ Dispatch(k, u)
  PROVE  KeptInv'
  <1>0. TypeInv /\ CoveredInv /\ CountInv /\ KeptInv
    BY DEF HistoryInv, DispatchInv
  <1>1. Matched(k, u)
    BY DEF BurstSuppressed, BurstSummary, Deduped, Dispatch
  <1>2. now_ts' = now_ts
    BY <1>1 DEF Matched, Take
  <1>3. \A l \in Keys, p \in processed' :
            p.key = l /\ now_ts' < p.at + BurstWindow =>
                \E x \in window'[l] : x.event = p.event /\ x.at = p.at
    BY <1>0, <1>1, <1>2, KeptWindows
  <1> SUFFICES ASSUME NEW l \in Keys, burst_emitted_ts'[l] # None
               PROVE  \E e \in Bursts' : e.key = l /\ e.at = burst_emitted_ts'[l]
    BY <1>3 DEF KeptInv
  <1>4. CASE UNCHANGED burst_emitted_ts /\ Bursts \subseteq Bursts'
    BY <1>0, <1>4 DEF KeptInv
  <1>5. CASE BurstSuppressed(k, u) \/ Deduped(k, u)
    BY <1>4, <1>5 DEF BurstSuppressed, Deduped, Bursts
  <1>6. CASE Dispatch(k, u)
    <2>1. Build(k, u, FALSE, {}, 0) /\ UNCHANGED burst_emitted_ts
      BY <1>6 DEF Dispatch
    <2>2. Bursts' = Bursts
      BY <2>1, BuildKind
    <2> QED BY <1>4, <2>1, <2>2
  <1>7. CASE BurstSummary(k, u)
    <2>1. PICK covers, count : Build(k, u, TRUE, covers, count)
      BY <1>7 DEF BurstSummary
    <2>2. /\ Bursts' = Bursts \cup {envelope'}
          /\ envelope'.key = k /\ envelope'.at = now_ts
      BY <2>1, BuildKind
    <2>3. burst_emitted_ts'[l] = IF l = k THEN now_ts ELSE burst_emitted_ts[l]
      BY <1>0, <1>7, SentFacts DEF BurstSummary
    <2>4. CASE l = k
      BY <2>2, <2>3, <2>4
    <2>5. CASE l # k
      BY <1>0, <2>2, <2>3, <2>5 DEF KeptInv
    <2> QED BY <2>4, <2>5
  <1> QED BY <1>5, <1>6, <1>7

LEMMA KeptQuiet ==
  ASSUME HistoryInv, now_ts' \in Nat, now_ts <= now_ts',
         UNCHANGED <<burst_emitted_ts, window, sent, processed>>
  PROVE  KeptInv'
  <1>1. Bursts' = Bursts
    BY DEF Bursts
  <1>2. ASSUME NEW p \in processed, now_ts' < p.at + BurstWindow
        PROVE  now_ts < p.at + BurstWindow
    <2>1. p.at \in Nat /\ now_ts \in Nat /\ BurstWindow \in Nat
      BY ProcessedTimes, SentFacts, WindowsAssumption DEF HistoryInv, DispatchInv
    <2> QED BY <1>2, <2>1
  <1> QED BY <1>1, <1>2 DEF HistoryInv, KeptInv

LEMMA InitHistory == Init => HistoryInv
  <1> SUFFICES ASSUME Init PROVE HistoryInv
    OBVIOUS
  <1>1. KeptInv
    BY DEF Init, KeptInv
  <1> QED BY <1>1, InitDispatch DEF HistoryInv

LEMMA HistoryStep == HistoryInv /\ [Next]_vars => HistoryInv'
  <1> SUFFICES ASSUME HistoryInv, [Next]_vars
               PROVE  KeptInv'
    BY DispatchStep DEF HistoryInv
  <1>0. clock \in Nat /\ now_ts \in Nat /\ now_ts <= clock /\ now_ts <= now_ts
    BY BoundsAssumption DEF HistoryInv, DispatchInv, CoveredInv, ClockInv, Time
  <1> DEFINE Same == UNCHANGED <<burst_emitted_ts, window, sent, processed>>
  <1>1. CASE Same /\ now_ts' \in {now_ts, clock}
    BY <1>0, <1>1, KeptQuiet
  <1>2. CASE Poll \/ DuplicateUids \/ Tick
    BY <1>1, <1>2 DEF Poll, DuplicateUids, Tick, processor, history
  <1>3. CASE Post
    BY <1>1, <1>3 DEF Post, PostDelivered, PostFails, PostTimesOut, Posted, processor
  <1>4. ASSUME NEW u \in Events, Unmatched(u) \/ Malformed(u)
        PROVE  KeptInv'
    BY <1>1, <1>4 DEF Unmatched, Malformed, Take
  <1>5. ASSUME NEW u \in Events, Process(u)
        PROVE  KeptInv'
    BY <1>4, <1>5, KeptMatched DEF Process
  <1>6. ASSUME NEW u \in Events, Emit(u) \/ Drop(u)
        PROVE  KeptInv'
    BY <1>1, <1>6 DEF Emit, Drop, processor, history
  <1>7. ASSUME NEW k \in Keys, CloseCase(k)
        PROVE  KeptInv'
    BY <1>1, <1>7 DEF CloseCase, processor, history
  <1>8. CASE Restart
    <2>1. processed' = {} /\ burst_emitted_ts' = [k \in Keys |-> None]
      BY <1>8 DEF Restart
    <2> QED BY <2>1 DEF KeptInv
  <1>9. CASE UNCHANGED vars
    BY <1>1, <1>9 DEF vars
  <1> QED
    BY <1>2, <1>3, <1>5, <1>6, <1>7, <1>8, <1>9 DEF Next, Loop

-----------------------------------------------------------------------------
(* Which envelopes follow each other within a dedupe window. *)

\* An event that was dispatched on its own no earlier than another envelope
\* for its key, and within the dedupe window of that one, is covered by it.
PriorInv ==
    \A e \in sent, f \in Solo :
        (/\ e # f
         /\ e.key = f.key
         /\ e.at <= f.at
         /\ f.at < e.at + DedupeWindow) => f.event \in e.covers

\* What the window of a new summary covers.
LEMMA NowCovered ==
  ASSUME HistoryInv, NEW k \in Keys, NEW u \in Events,
         NEW f \in Solo, f.key = k, f.at = now_ts
  PROVE  f.event \in {x.event : x \in Joined(k, u)}
  <1>1. PICK p \in processed : p = Seen(f.event, f.key, f.at)
    BY DEF HistoryInv, DispatchInv, CountInv
  <1>2. p.event = f.event /\ p.key = k /\ p.at = now_ts
    BY <1>1 DEF Seen
  <1>3. now_ts \in Nat /\ now_ts < now_ts + BurstWindow
    BY SentFacts, WindowsAssumption DEF HistoryInv, DispatchInv
  <1>4. PICK x \in window[k] : x.event = p.event /\ x.at = p.at
    BY <1>2, <1>3 DEF HistoryInv, KeptInv
  <1>5. x \in Joined(k, u)
    BY <1>2, <1>3, <1>4 DEF Joined
  <1> QED BY <1>2, <1>4, <1>5

LEMMA PriorMatched ==
  ASSUME HistoryInv, PriorInv, NEW k \in Keys, NEW u \in Events,
         \/ BurstSuppressed(k, u)
         \/ BurstSummary(k, u)
         \/ Deduped(k, u)
         \/ Dispatch(k, u)
  PROVE  PriorInv'
  <1>0. TypeInv /\ CoveredInv /\ SpacingInv
    BY DEF HistoryInv, DispatchInv
  <1>1. CASE BurstSuppressed(k, u) \/ Deduped(k, u)
    BY <1>1 DEF BurstSuppressed, Deduped, PriorInv, Solo
  <1>2. PICK n \in Nat : n = now_ts
    BY <1>0, SentFacts
  <1>3. DedupeWindow \in Nat /\ 0 < DedupeWindow
    BY WindowsAssumption
  <1>4. CASE BurstSummary(k, u)
    <2>1. PICK covers, count : /\ Build(k, u, TRUE, covers, count)
                               /\ covers = {x.event : x \in Joined(k, u)}
      BY <1>4 DEF BurstSummary
    <2>2. PICK e : e = envelope'
      OBVIOUS
    <2>3. /\ e.key = k /\ e.at = n /\ e.covers = covers
          /\ sent' = sent \cup {e} /\ Solo' = Solo
      BY <1>2, <2>1, <2>2, BuildKind
    <2>4. ASSUME NEW f \in Solo, f.key = k, n <= f.at
          PROVE  f.event \in covers
      <3>1. last_dispatch_ts[k] # None /\ f.at <= last_dispatch_ts[k]
        BY <1>0, <2>4, SentFacts DEF SpacingInv, Remembers
      <3>2. last_dispatch_ts[k] \in Nat /\ last_dispatch_ts[k] <= n /\ f.at \in Nat
        BY <1>0, <1>2, <3>1, SentFacts DEF CoveredInv, MemoryInv
      <3>3. f.at = now_ts
        BY <1>2, <2>4, <3>1, <3>2
      <3> QED BY <2>1, <2>4, <3>3, NowCovered
    <2> QED BY <2>3, <2>4 DEF PriorInv
  <1>5. CASE Dispatch(k, u)
    <2>1. Build(k, u, FALSE, {}, 0) /\ ~Within(last_dispatch_ts[k], DedupeWindow)
      BY <1>5 DEF Dispatch
    <2>2. PICK e : e = envelope'
      OBVIOUS
    <2>3. /\ e.key = k /\ e.at = n
          /\ sent' = sent \cup {e} /\ Solo' = Solo \cup {e}
      BY <1>2, <2>1, <2>2, BuildKind
    <2>4. \A s \in sent : s.key = k => s.at + DedupeWindow <= n
      BY <1>0, <1>2, <1>3, <2>1, SinceLast, SentFacts DEF SpacingInv
    <2>5. \A s \in sent : s.at \in Nat
      BY <1>0, SentFacts
    <2>6. ASSUME NEW s \in sent, s.key = k
          PROVE  ~(n < s.at + DedupeWindow) /\ ~(n <= s.at)
      BY <1>3, <2>4, <2>5, <2>6
    <2>7. Solo \subseteq sent
      BY DEF Solo
    <2> QED BY <2>3, <2>6, <2>7 DEF PriorInv
  <1> QED BY <1>1, <1>4, <1>5

LEMMA PriorStep == HistoryInv /\ PriorInv /\ [Next]_vars => PriorInv'
  <1> SUFFICES ASSUME HistoryInv, PriorInv, [Next]_vars
               PROVE  PriorInv'
    OBVIOUS
  <1>1. CASE UNCHANGED sent
    BY <1>1 DEF PriorInv, Solo
  <1>2. CASE Poll \/ DuplicateUids \/ Tick
    BY <1>1, <1>2 DEF Poll, DuplicateUids, Tick, history
  <1>3. CASE Post
    BY <1>1, <1>3 DEF Post, PostDelivered, PostFails, PostTimesOut, Posted
  <1>4. ASSUME NEW u \in Events, Process(u)
        PROVE  PriorInv'
    BY <1>1, <1>4, PriorMatched DEF Process, Unmatched, Malformed
  <1>5. ASSUME NEW u \in Events, Emit(u) \/ Drop(u)
        PROVE  PriorInv'
    BY <1>1, <1>5 DEF Emit, Drop, history
  <1>6. ASSUME NEW k \in Keys, CloseCase(k)
        PROVE  PriorInv'
    BY <1>1, <1>6 DEF CloseCase, history
  <1>7. CASE Restart
    BY <1>7 DEF Restart, PriorInv
  <1>8. CASE UNCHANGED vars
    BY <1>1, <1>8 DEF vars
  <1> QED
    BY <1>2, <1>3, <1>4, <1>5, <1>6, <1>7, <1>8 DEF Next, Loop

\* However casefiles close and answers are lost: within the dedupe window of
\* a casefile a process opened, whether on one event or on a burst, it opens
\* another one for the same key only through a summary, never on a later event
\* of its own (khook.py 174-204 against kagent.py 127-136).
THEOREM OnlyBurstsReopen == Spec => []ReopenedOnlyByBurst
  <1>1. Init => PriorInv
    BY DEF Init, PriorInv
  <1>2. HistoryInv /\ PriorInv => ReopenedOnlyByBurst
    <2> SUFFICES ASSUME HistoryInv, PriorInv, NEW e \in opened, NEW f \in opened,
                        e # f, e.key = f.key, e.at <= f.at,
                        f.at < e.at + DedupeWindow, ~f.burst
                 PROVE  f.event \in e.covers
      BY Zenon DEF ReopenedOnlyByBurst
    <2>1. e \in sent /\ f \in sent
      BY DEF HistoryInv, DispatchInv, TypeInv, TypeOK
    <2>2. f \in Solo
      BY <2>1, Zenon DEF Solo
    <2> QED BY <2>1, <2>2 DEF PriorInv
  <1> QED
    BY InitHistory, HistoryStep, PriorStep, <1>1, <1>2, PTL DEF Spec

-----------------------------------------------------------------------------
(* The memory against the history. *)

\* The guards compare with a remembered time what the contract asks of all
\* envelopes of the key.
LEMMA ToldByMemory ==
  ASSUME HistoryInv, NEW k \in Keys
  PROVE  Within(last_dispatch_ts[k], DedupeWindow) <=> Contract!Told(k)
  <1>0. /\ now_ts \in Nat /\ DedupeWindow \in Nat
        /\ \A e \in sent : e.at \in Nat
        /\ last_dispatch_ts[k] # None => last_dispatch_ts[k] \in Nat
    BY SentFacts, WindowsAssumption, BoundsAssumption
    DEF HistoryInv, DispatchInv, CoveredInv, MemoryInv
  <1>1. ASSUME Within(last_dispatch_ts[k], DedupeWindow)
        PROVE  Contract!Told(k)
    <2>1. last_dispatch_ts[k] # None /\ now_ts < last_dispatch_ts[k] + DedupeWindow
      BY <1>1 DEF Within
    <2>2. PICK e \in sent : e.key = k /\ e.at = last_dispatch_ts[k]
      BY <2>1 DEF HistoryInv, DispatchInv, CoveredInv, MemoryInv, BuiltAt
    <2> QED BY <2>1, <2>2 DEF Contract!Told
  <1>2. ASSUME Contract!Told(k)
        PROVE  Within(last_dispatch_ts[k], DedupeWindow)
    <2>1. PICK e \in sent : e.key = k /\ now_ts < e.at + DedupeWindow
      BY <1>2 DEF Contract!Told
    <2>2. last_dispatch_ts[k] # None /\ e.at <= last_dispatch_ts[k]
      BY <2>1 DEF HistoryInv, DispatchInv, SpacingInv, Remembers
    <2>3. now_ts < last_dispatch_ts[k] + DedupeWindow
      BY <1>0, <2>1, <2>2
    <2> QED BY <2>2, <2>3 DEF Within
  <1> QED BY <1>1, <1>2

LEMMA SummedUpByMemory ==
  ASSUME HistoryInv, NEW k \in Keys
  PROVE  Within(burst_emitted_ts[k], BurstWindow) <=> Contract!SummedUp(k)
  <1>0. /\ now_ts \in Nat /\ BurstWindow \in Nat
        /\ \A e \in sent : e.at \in Nat
        /\ burst_emitted_ts[k] # None => burst_emitted_ts[k] \in Nat
    BY SentFacts, WindowsAssumption, BoundsAssumption
    DEF HistoryInv, DispatchInv, CoveredInv, MemoryInv
  <1>1. ASSUME Within(burst_emitted_ts[k], BurstWindow)
        PROVE  Contract!SummedUp(k)
    <2>1. burst_emitted_ts[k] # None /\ now_ts < burst_emitted_ts[k] + BurstWindow
      BY <1>1 DEF Within
    <2>2. PICK e \in Bursts : e.key = k /\ e.at = burst_emitted_ts[k]
      BY <2>1 DEF HistoryInv, KeptInv
    <2>3. e \in sent /\ e.burst
      BY DEF Bursts
    <2> QED BY <2>1, <2>2, <2>3 DEF Contract!SummedUp
  <1>2. ASSUME Contract!SummedUp(k)
        PROVE  Within(burst_emitted_ts[k], BurstWindow)
    <2>1. PICK e \in sent : e.burst /\ e.key = k /\ now_ts < e.at + BurstWindow
      BY <1>2 DEF Contract!SummedUp
    <2>2. e \in Bursts
      BY <2>1 DEF Bursts
    <2>3. burst_emitted_ts[k] # None /\ e.at <= burst_emitted_ts[k]
      BY <2>1, <2>2 DEF HistoryInv, DispatchInv, SpacingInv, Remembers
    <2>4. now_ts < burst_emitted_ts[k] + BurstWindow
      BY <1>0, <2>1, <2>3
    <2> QED BY <2>3, <2>4 DEF Within
  <1> QED BY <1>1, <1>2

\* The window an event joins holds the recent events of its key and itself.
LEMMA JoinedIsRecent ==
  ASSUME HistoryInv, NEW k \in Keys, NEW u \in Events, Matched(k, u)
  PROVE  /\ {x.event : x \in Joined(k, u)} = Contract!Recent(k) \cup {u}
         /\ Cardinality(Joined(k, u)) = Cardinality(Contract!Recent(k) \cup {u})
  <1>0. TypeInv /\ CoveredInv /\ CountInv /\ KeptInv
    BY DEF HistoryInv, DispatchInv
  <1>1. ASSUME NEW x \in Joined(k, u)
        PROVE  x.event \in Contract!Recent(k) \cup {u}
    <2>1. CASE x \in window[k] /\ now_ts < x.at + BurstWindow
      <3>1. PICK p \in processed : p = Seen(x.event, k, x.at)
        BY <1>0, <2>1 DEF CountInv
      <3>2. p.event = x.event /\ p.key = k /\ p.at = x.at
        BY <3>1 DEF Seen
      <3> QED BY <2>1, <3>2 DEF Contract!Recent
    <2>2. CASE x = [at |-> now_ts, event |-> u]
      BY <2>2
    <2> QED BY <2>1, <2>2 DEF Joined
  <1>2. ASSUME NEW v \in Contract!Recent(k) \cup {u}
        PROVE  v \in {x.event : x \in Joined(k, u)}
    <2>1. CASE v = u
      <3>1. [at |-> now_ts, event |-> u] \in Joined(k, u)
        BY DEF Joined
      <3> QED BY <2>1, <3>1
    <2>2. CASE v \in Contract!Recent(k)
      <3>1. PICK p \in processed : /\ v = p.event /\ p.key = k
                                   /\ now_ts < p.at + BurstWindow
        BY <2>2 DEF Contract!Recent
      <3>2. PICK x \in window[k] : x.event = p.event /\ x.at = p.at
        BY <1>0, <3>1 DEF KeptInv
      <3>3. x \in Joined(k, u)
        BY <3>1, <3>2 DEF Joined
      <3> QED BY <3>1, <3>2, <3>3
    <2> QED BY <2>1, <2>2
  <1>3. {x.event : x \in Joined(k, u)} = Contract!Recent(k) \cup {u}
    BY <1>1, <1>2
  <1>4. /\ IsFiniteSet(Joined(k, u))
        /\ \A x, y \in Joined(k, u) : x.event = y.event => x = y
    BY <1>0, JoinedType, JoinedFacts
  <1>5. Cardinality({x.event : x \in Joined(k, u)}) = Cardinality(Joined(k, u))
    BY <1>4, EventsCounted
  <1> QED BY <1>3, <1>5, Zenon

\* An instance has a Cardinality of its own, which is the one of this module.
LEMMA SameCardinality ==
  ASSUME NEW S
  PROVE  Contract!Cardinality(S) = Cardinality(S)
  BY Zenon DEF Contract!Cardinality, Cardinality

\* Each branch of process() is the decision of the contract.
LEMMA BranchDecides ==
  ASSUME HistoryInv, NEW k \in Keys, NEW u \in Events,
         \/ BurstSuppressed(k, u)
         \/ BurstSummary(k, u)
         \/ Deduped(k, u)
         \/ Dispatch(k, u)
  PROVE  Contract!Next
  <1>1. Matched(k, u)
    BY DEF BurstSuppressed, BurstSummary, Deduped, Dispatch
  <1>2. Contract!Match(k, u)
    <2>1. u \notin seen_uids /\ now_ts' = now_ts
          /\ processed' = processed \cup {[event |-> u, key |-> k, at |-> now_ts]}
      BY <1>1 DEF Matched, Take
    <2>2. \A p \in processed : p.event \in seen_uids
      BY DEF HistoryInv, DispatchInv, CountInv
    <2> QED BY <2>1, <2>2 DEF Contract!Match
  <1>3. Overflow(k, u) <=> Contract!Crowded(k, u)
    <2>1. PICK n : n = Cardinality(Joined(k, u))
      OBVIOUS
    <2>2. n = Contract!Cardinality(Contract!Recent(k) \cup {u})
      BY <1>1, <2>1, JoinedIsRecent, SameCardinality, Zenon
    <2>3. Overflow(k, u) <=> n > BurstMax
      BY <2>1, Zenon DEF Overflow
    <2>4. Contract!Crowded(k, u) <=> n > BurstMax
      BY <2>2, Zenon DEF Contract!Crowded
    <2> QED BY <2>3, <2>4
  <1>4. CASE BurstSuppressed(k, u)
    <2>1. Overflow(k, u) /\ Within(burst_emitted_ts[k], BurstWindow) /\ UNCHANGED sent
      BY <1>4 DEF BurstSuppressed
    <2>2. Contract!Absorb(k, u)
      BY <1>2, <1>3, <2>1, SummedUpByMemory, Zenon DEF Contract!Absorb
    <2> QED BY <2>2 DEF Contract!Next
  <1>5. CASE Deduped(k, u)
    <2>1. /\ ~Overflow(k, u) /\ Within(last_dispatch_ts[k], DedupeWindow)
          /\ UNCHANGED sent
      BY <1>5 DEF Deduped
    <2>2. Contract!Absorb(k, u)
      BY <1>2, <1>3, <2>1, ToldByMemory, Zenon DEF Contract!Absorb
    <2> QED BY <2>2 DEF Contract!Next
  <1>6. CASE Dispatch(k, u)
    <2>1. /\ ~Overflow(k, u) /\ ~Within(last_dispatch_ts[k], DedupeWindow)
          /\ Build(k, u, FALSE, {}, 0)
      BY <1>6 DEF Dispatch
    <2>2. Contract!Tell(k, u, FALSE, {}, 0)
      BY <2>1 DEF Build, Contract!Tell
    <2>3. Contract!Alone(k, u)
      BY <1>2, <1>3, <2>1, <2>2, ToldByMemory, Zenon DEF Contract!Alone
    <2> QED BY <2>3 DEF Contract!Next
  <1>7. CASE BurstSummary(k, u)
    <2>1. PICK w : w = Joined(k, u)
      OBVIOUS
    <2>2. /\ Overflow(k, u) /\ ~Within(burst_emitted_ts[k], BurstWindow)
          /\ Build(k, u, TRUE, {e.event : e \in w}, Cardinality(w) - 1)
      BY <1>7, <2>1, Zenon DEF BurstSummary
    <2>3. PICK covers : covers = Contract!Recent(k) \cup {u}
      OBVIOUS
    <2>4. {e.event : e \in w} = covers /\ Cardinality(w) = Cardinality(covers)
      BY <1>1, <2>1, <2>3, JoinedIsRecent, Zenon
    <2>5. Build(k, u, TRUE, covers, Cardinality(covers) - 1)
      BY <2>2, <2>4, Zenon
    <2>6. Contract!Tell(k, u, TRUE, covers, Contract!Cardinality(covers) - 1)
      <3>1. Cardinality(covers) = Contract!Cardinality(covers)
        BY SameCardinality, Zenon
      <3> QED BY <2>5, <3>1, Zenon DEF Build, Contract!Tell
    <2>7. Contract!SumUp(k, u)
      BY <1>2, <1>3, <2>2, <2>3, <2>6, SummedUpByMemory, Zenon DEF Contract!SumUp
    <2> QED BY <2>7 DEF Contract!Next
  <1> QED BY <1>4, <1>5, <1>6, <1>7

LEMMA StepDecides ==
  ASSUME HistoryInv, [Next]_vars
  PROVE  [Contract!Next]_(Contract!vars)
  <1>0. clock \in Nat /\ now_ts <= clock
    BY BoundsAssumption DEF HistoryInv, DispatchInv, CoveredInv, ClockInv, Time
  <1>1. CASE UNCHANGED <<now_ts, processed, sent>>
    BY <1>1 DEF Contract!vars
  <1>2. CASE Poll
    BY <1>0, <1>2 DEF Poll, Contract!Next, Contract!Read
  <1>3. CASE DuplicateUids \/ Tick
    BY <1>1, <1>3 DEF DuplicateUids, Tick, history
  <1>4. CASE Post
    BY <1>1, <1>4 DEF Post, PostDelivered, PostFails, PostTimesOut, Posted
  <1>5. ASSUME NEW u \in Events, Process(u)
        PROVE  [Contract!Next]_(Contract!vars)
    <2>1. CASE Unmatched(u) \/ Malformed(u)
      BY <1>1, <2>1 DEF Unmatched, Malformed, Take
    <2> QED BY <1>5, <2>1, BranchDecides DEF Process
  <1>6. ASSUME NEW u \in Events, Emit(u) \/ Drop(u)
        PROVE  [Contract!Next]_(Contract!vars)
    BY <1>1, <1>6 DEF Emit, Drop, history
  <1>7. ASSUME NEW k \in Keys, CloseCase(k)
        PROVE  [Contract!Next]_(Contract!vars)
    BY <1>1, <1>7 DEF CloseCase, history
  <1>8. CASE Restart
    BY <1>8 DEF Restart, Contract!Next, Contract!Forget
  <1>9. CASE UNCHANGED vars
    BY <1>1, <1>9 DEF vars
  <1> QED
    BY <1>2, <1>3, <1>4, <1>5, <1>6, <1>7, <1>8, <1>9 DEF Next, Loop

\* The dispatcher refines its contract: with a pruned window and two times per
\* key it decides of every event what its whole history would.
THEOREM MemoryDecidesAsHistory == Spec => DecidesFromHistory
  <1>1. Init => Contract!Init
    BY DEF Init, Contract!Init
  <1>2. HistoryInv /\ [Next]_vars => [Contract!Next]_(Contract!vars)
    BY StepDecides
  <1> QED
    BY <1>1, <1>2, InitHistory, HistoryStep, PTL
    DEF Spec, DecidesFromHistory, Contract!Spec

============================================================================
