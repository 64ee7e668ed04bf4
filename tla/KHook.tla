------------------------------- MODULE KHook -------------------------------
(***************************************************************************)
(* The khook trigger dispatcher (services/ai/airuntime/khook.py): a single *)
(* loop lists the Kubernetes events, passes each to the in-memory          *)
(* EventProcessor, which suppresses duplicates and sums up bursts, and     *)
(* posts what is left to the kagent controller.                            *)
(*                                                                         *)
(* The list API returns the same objects at every poll, all events of one  *)
(* poll are processed at the one clock reading taken after the fetch, and  *)
(* a restart forgets everything.  The controller (kagent.py) is reduced to *)
(* whether a casefile is active for a correlation key.                     *)
(***************************************************************************)
EXTENDS Naturals, FiniteSets

CONSTANTS
    MaxEvents,     \* bound: Event objects ever created
    Keys,          \* dedupe keys, one for each correlation key
    DedupeWindow,  \* DEDUPE_WINDOW_SECONDS
    BurstWindow,   \* BURST_WINDOW_SECONDS
    BurstMax,      \* BURST_MAX_PER_WINDOW
    MaxTime,       \* bound: the last clock reading
    MaxFaults,     \* bound: restarts, failed posts and objects dropped,
                   \* together
    None           \* no object, no entry, no envelope

\* A burst is shorter than the memory of what was dispatched.
ASSUME WindowsAssumption ==
    /\ DedupeWindow \in Nat
    /\ BurstWindow \in Nat
    /\ BurstMax \in Nat \ {0}
    /\ 0 < BurstWindow
    /\ BurstWindow <= DedupeWindow

ASSUME BoundsAssumption ==
    /\ MaxEvents \in Nat
    /\ MaxTime \in Nat
    /\ MaxFaults \in Nat

\* None is not a time.
ASSUME NoneAssumption == None \notin Nat

VARIABLES
    clock,             \* time.monotonic()
    label,             \* what each Event object is, None until it exists
    listed,            \* the objects the event list API returns
    todo,              \* the rest of raw_events in the current poll
    now_ts,            \* the clock reading of the current poll
    seen_uids,         \* _seen_uids
    last_dispatch_ts,  \* _last_dispatch_ts
    window,            \* _window
    burst_emitted_ts,  \* _burst_emitted_ts
    envelope,          \* the envelope process() returned, not posted yet
    active,            \* keys the controller has an unfinished casefile for
    faults,            \* what MaxFaults counts
    sent,              \* history: the envelopes this process built
    processed,         \* history: the matched events it processed, and when
    opened,            \* history: its envelopes that opened a casefile
    undelivered,       \* history: events whose dispatch failed, not posted since
    owed               \* history: those of them the current poll listed again

processor == <<seen_uids, last_dispatch_ts, window, burst_emitted_ts>>

history == <<sent, processed, opened, undelivered, owed>>

vars == <<clock, label, listed, todo, now_ts, seen_uids, last_dispatch_ts,
          window, burst_emitted_ts, envelope, active, faults, sent, processed, opened, undelivered, owed>>

-----------------------------------------------------------------------------

Time == 0 .. MaxTime

\* uids; the model numbers them in the order of creation.
Events == 1 .. MaxEvents

\* What match_hook and normalize_event make of an object: its key, no hook,
\* or a hook and a required field that is missing.
Labels == Keys \cup {"unmatched", "malformed"}

\* One entry of a burst window; the uid stands for the event's timestamp.  An
\* event enters a window once, so the list is a set: what process() asks of it
\* is its length and which entries are young enough to stay.
Entry == [at : Time, event : Events]

\* For a summary, covers holds the events of the burst window it stands for
\* and suppressed_event_count the number it reports.
Envelope == [key : Keys, event : Events, burst : BOOLEAN, at : Time,
             covers : SUBSET Events, suppressed_event_count : Nat]

TypeOK ==
    /\ clock \in Time
    /\ label \in [Events -> Labels \cup {None}]
    /\ listed \subseteq Events
    /\ todo \subseteq Events
    /\ now_ts \in Time
    /\ seen_uids \subseteq Events
    /\ last_dispatch_ts \in [Keys -> Time \cup {None}]
    /\ window \in [Keys -> SUBSET Entry]
    /\ burst_emitted_ts \in [Keys -> Time \cup {None}]
    /\ envelope \in Envelope \cup {None}
    /\ active \subseteq Keys
    /\ faults \in 0 .. MaxFaults
    /\ sent \subseteq Envelope
    /\ processed \subseteq [event : Events, key : Keys, at : Time]
    /\ opened \subseteq sent
    /\ undelivered \subseteq Events
    /\ owed \subseteq undelivered

Init ==
    /\ clock = 0
    /\ label = [u \in Events |-> None]
    /\ listed = {}
    /\ todo = {}
    /\ now_ts = 0
    /\ seen_uids = {}
    /\ last_dispatch_ts = [k \in Keys |-> None]
    /\ window = [k \in Keys |-> {}]
    /\ burst_emitted_ts = [k \in Keys |-> None]
    /\ envelope = None
    /\ active = {}
    /\ faults = 0
    /\ sent = {}
    /\ processed = {}
    /\ opened = {}
    /\ undelivered = {}
    /\ owed = {}

-----------------------------------------------------------------------------
(* The cluster: an object appears, and the API server drops it after a     *)
(* while.  A poll works on the list it fetched and on one clock reading,   *)
(* so what happens meanwhile is the same as if it happened after the poll: *)
(* the model lets it happen then.                                          *)

\* A step MaxFaults bounds.
Fault ==
    /\ faults < MaxFaults
    /\ faults' = faults + 1

Polling == todo # {} \/ envelope # None

Emit(u) ==
    /\ ~Polling
    /\ label[u] = None
    /\ \A v \in 1 .. u - 1 : label[v] # None
    /\ \E l \in Labels : label' = [label EXCEPT ![u] = l]
    /\ listed' = listed \cup {u}
    /\ UNCHANGED <<clock, todo, now_ts, processor, envelope, active, faults,
                   history>>

Drop(u) ==
    /\ ~Polling
    /\ Fault
    /\ u \in listed
    /\ listed' = listed \ {u}
    /\ UNCHANGED <<clock, label, todo, now_ts, processor, envelope, active,
                   history>>

-----------------------------------------------------------------------------
(* The poll loop. *)

\* A failed fetch changes nothing, so only a successful one is a step.
Poll ==
    /\ ~Polling
    /\ todo' = listed
    /\ now_ts' = clock
    /\ owed' = undelivered \cap listed
    /\ UNCHANGED <<clock, label, listed, processor, envelope, active, faults,
                   sent, processed, opened, undelivered>>

\* process() returns at once for an object it has seen and changes nothing,
\* so the model skips all of them in one step.
DuplicateUids ==
    /\ envelope = None
    /\ todo \cap seen_uids # {}
    /\ todo' = todo \ seen_uids
    /\ UNCHANGED <<clock, label, listed, now_ts, processor, envelope, active,
                   faults, history>>

\* process() takes a new object; the order is the API server's.
Take(u) ==
    /\ envelope = None
    /\ todo \cap seen_uids = {}
    /\ u \in todo
    /\ todo' = todo \ {u}
    /\ seen_uids' = seen_uids \cup {u}
    /\ UNCHANGED <<clock, label, listed, now_ts, active, faults, opened,
                   undelivered, owed>>

Unmatched(u) ==
    /\ Take(u)
    /\ label[u] = "unmatched"
    /\ UNCHANGED <<last_dispatch_ts, window, burst_emitted_ts, envelope, sent,
                   processed>>

\* Mutant: the exception ends the loop before the uid is recorded.
MalformedStalls(u) ==
    /\ envelope = None
    /\ u \in todo
    /\ label[u] = "malformed"
    /\ UNCHANGED vars

\* normalize_event raises after the uid was recorded; the loop goes on.
Malformed(u) ==
    /\ Take(u)
    /\ label[u] = "malformed"
    /\ UNCHANGED <<last_dispatch_ts, window, burst_emitted_ts, envelope, sent,
                   processed>>

\* Mutant: an entry as old as the window stays.
JoinedClosed(k, u) ==
    {e \in window[k] : now_ts <= e.at + BurstWindow}
        \cup {[at |-> now_ts, event |-> u]}

\* The burst window of k once u has joined it and old entries have left.
Joined(k, u) ==
    {e \in window[k] : now_ts < e.at + BurstWindow}
        \cup {[at |-> now_ts, event |-> u]}

Overflow(k, u) == Cardinality(Joined(k, u)) > BurstMax

\* Mutant: the window's last instant belongs to it.
WithinClosed(last, width) == last # None /\ now_ts <= last + width

Within(last, width) == last # None /\ now_ts < last + width

Matched(k, u) ==
    /\ Take(u)
    /\ label[u] = k
    /\ window' = [window EXCEPT ![k] = Joined(k, u)]
    /\ processed' = processed \cup {[event |-> u, key |-> k, at |-> now_ts]}

BurstSuppressed(k, u) ==
    /\ Matched(k, u)
    /\ Overflow(k, u)
    /\ Within(burst_emitted_ts[k], BurstWindow)
    /\ UNCHANGED <<last_dispatch_ts, burst_emitted_ts, envelope, sent>>

Build(k, u, burst, covers, count) ==
    LET e == [key |-> k, event |-> u, burst |-> burst, at |-> now_ts,
              covers |-> covers, suppressed_event_count |-> count]
    IN  /\ envelope' = e
        /\ sent' = sent \cup {e}

\* Mutant: the time of the summary is not recorded.
BurstSummaryForgets(k, u) ==
    /\ Matched(k, u)
    /\ Overflow(k, u)
    /\ ~Within(burst_emitted_ts[k], BurstWindow)
    /\ last_dispatch_ts' = [last_dispatch_ts EXCEPT ![k] = now_ts]
    /\ LET w == Joined(k, u)
       IN  Build(k, u, TRUE, {e.event : e \in w}, Cardinality(w) - 1)
    /\ UNCHANGED burst_emitted_ts

\* Mutant: the time of the summary is not recorded as that of a dispatch.
BurstSummaryForgetsDispatch(k, u) ==
    /\ Matched(k, u)
    /\ Overflow(k, u)
    /\ ~Within(burst_emitted_ts[k], BurstWindow)
    /\ burst_emitted_ts' = [burst_emitted_ts EXCEPT ![k] = now_ts]
    /\ LET w == Joined(k, u)
       IN  Build(k, u, TRUE, {e.event : e \in w}, Cardinality(w) - 1)
    /\ UNCHANGED last_dispatch_ts

BurstSummary(k, u) ==
    /\ Matched(k, u)
    /\ Overflow(k, u)
    /\ ~Within(burst_emitted_ts[k], BurstWindow)
    /\ burst_emitted_ts' = [burst_emitted_ts EXCEPT ![k] = now_ts]
    /\ last_dispatch_ts' = [last_dispatch_ts EXCEPT ![k] = now_ts]
    /\ LET w == Joined(k, u)
       IN  Build(k, u, TRUE, {e.event : e \in w}, Cardinality(w) - 1)

Deduped(k, u) ==
    /\ Matched(k, u)
    /\ ~Overflow(k, u)
    /\ Within(last_dispatch_ts[k], DedupeWindow)
    /\ UNCHANGED <<last_dispatch_ts, burst_emitted_ts, envelope, sent>>

\* Mutant: the dispatch records its expiry instead of its time.
DispatchExpiry(k, u) ==
    /\ Matched(k, u)
    /\ ~Overflow(k, u)
    /\ ~Within(last_dispatch_ts[k], DedupeWindow)
    /\ last_dispatch_ts' =
           [last_dispatch_ts EXCEPT ![k] = now_ts + DedupeWindow]
    /\ Build(k, u, FALSE, {}, 0)
    /\ UNCHANGED burst_emitted_ts

Dispatch(k, u) ==
    /\ Matched(k, u)
    /\ ~Overflow(k, u)
    /\ ~Within(last_dispatch_ts[k], DedupeWindow)
    /\ last_dispatch_ts' = [last_dispatch_ts EXCEPT ![k] = now_ts]
    /\ Build(k, u, FALSE, {}, 0)
    /\ UNCHANGED burst_emitted_ts

-----------------------------------------------------------------------------
(* Posting an envelope, and the controller it reaches. *)

\* An active casefile of the same correlation id absorbs the trigger.
HandleTrigger ==
    /\ active' = active \cup {envelope.key}
    /\ opened' = IF envelope.key \in active THEN opened
                 ELSE opened \cup {envelope}

Posted ==
    /\ envelope # None
    /\ envelope' = None
    /\ owed' = owed \ {envelope.event}
    /\ UNCHANGED <<clock, label, listed, todo, now_ts, processor, sent,
                   processed>>

PostDelivered ==
    /\ Posted
    /\ HandleTrigger
    /\ undelivered' = undelivered \ {envelope.event}
    /\ UNCHANGED faults

\* Unreachable, or answered with status >= 400: logged and counted.
PostFails ==
    /\ Posted
    /\ Fault
    /\ undelivered' = undelivered \cup {envelope.event}
    /\ UNCHANGED <<active, opened>>

\* The controller handled the trigger and its answer was lost.
PostTimesOut ==
    /\ Posted
    /\ Fault
    /\ HandleTrigger
    /\ undelivered' = undelivered \cup {envelope.event}

\* The casefile reaches a terminal status.
CloseCase(k) ==
    /\ k \in active
    /\ active' = active \ {k}
    /\ UNCHANGED <<clock, label, listed, todo, now_ts, processor, envelope,
                   faults, history>>

-----------------------------------------------------------------------------

Tick ==
    /\ ~Polling
    /\ clock < MaxTime
    /\ clock' = clock + 1
    /\ UNCHANGED <<label, listed, todo, now_ts, processor, envelope, active,
                   faults, history>>

\* A new process starts from an empty EventProcessor.
Restart ==
    /\ Fault
    /\ todo' = {}
    /\ envelope' = None
    /\ seen_uids' = {}
    /\ last_dispatch_ts' = [k \in Keys |-> None]
    /\ window' = [k \in Keys |-> {}]
    /\ burst_emitted_ts' = [k \in Keys |-> None]
    /\ sent' = {}
    /\ processed' = {}
    /\ opened' = {}
    /\ undelivered' = {}
    /\ owed' = {}
    /\ UNCHANGED <<clock, label, listed, now_ts, active>>

Process(u) ==
    \/ Unmatched(u)
    \/ Malformed(u)
    \/ \E k \in Keys : \/ BurstSuppressed(k, u)
                      \/ BurstSummary(k, u)
                      \/ Deduped(k, u)
                      \/ Dispatch(k, u)

Post == PostDelivered \/ PostFails \/ PostTimesOut

Loop == Poll \/ DuplicateUids \/ Post \/ \E u \in Events : Process(u)

Next ==
    \/ Loop
    \/ \E u \in Events : Emit(u) \/ Drop(u)
    \/ \E k \in Keys : CloseCase(k)
    \/ Tick
    \/ Restart

Spec == Init /\ [][Next]_vars

\* The loop never blocks: a poll has a timeout, a post has a timeout, and both
\* go on after any exception.  Polls are assumed not to fail for ever.
FairSpec == Spec /\ WF_vars(Loop)

-----------------------------------------------------------------------------
(* Properties. *)

\* No matched event is dropped in silence: whichever of the four branches of
\* process() it took, an envelope for its key was built at most a dedupe
\* window before (khook.py 174-204; "suppress_new_investigation" and
\* "aggregate_and_emit_single_summary" of DEDUPE_BURST_CONTROL_V1.yaml).
EveryEventCovered ==
    \A p \in processed : \E e \in sent :
        e.key = p.key /\ e.at <= p.at /\ p.at < e.at + DedupeWindow

\* However the events arrive, a key is posted at most twice in any burst
\* window, once on its own and once as a summary: what one process can load
\* the controller with, also in the first poll after a restart, when every
\* listed event is new to it.
AtMostTwoPerWindow ==
    \A t \in Time, k \in Keys :
        Cardinality({e \in sent : /\ e.key = k
                                  /\ t <= e.at
                                  /\ e.at < t + BurstWindow}) <= 2

\* The events a process dispatched on their own.
Singles == {e.event : e \in {s \in sent : ~s.burst}}

\* A summary never reports more suppressed events than its window holds, and
\* no two summaries of a key count an event twice.  (It may report one less:
\* the count takes for granted that one event of the window was dispatched on
\* its own, which is not so when the dispatch is older than the window.)
SummariesCountOnce ==
    \A e \in sent : e.burst =>
        /\ Cardinality(e.covers \ Singles)
               \in {e.suppressed_event_count, e.suppressed_event_count + 1}
        /\ \A f \in sent : (f.burst /\ f.key = e.key /\ f # e) =>
                              f.covers \cap e.covers = {}

\* Within the dedupe window of a casefile it opened, on its own event or on a
\* burst, a process opens another for the same key only through a burst
\* summary (khook.py 174-204 against the controller's own dedupe, kagent.py
\* 127-136): a later event on its own never does, even when the first casefile
\* is closed by then.  (A summary covers the event that was dispatched on its
\* own just before it, in the same clock reading.)
ReopenedOnlyByBurst ==
    \A e, f \in opened :
        (/\ e # f
         /\ e.key = f.key
         /\ e.at <= f.at
         /\ f.at < e.at + DedupeWindow) => f.burst \/ f.event \in e.covers

\* The pruned window and the two remembered times of a key decide as the whole
\* history of its events and envelopes would (khook.py 165-204 against
\* DEDUPE_BURST_CONTROL_V1.yaml): nothing that still matters is pruned, nothing
\* that no longer does is consulted, and a summary names the events it stands
\* for.
Contract == INSTANCE DedupeContract WITH now <- now_ts

DecidesFromHistory == Contract!Spec

\* "Controller unreachable: log and retry next poll." (khook.py 279): when a
\* poll has listed an event again whose dispatch had failed, it is posted
\* again before the poll ends.
RetriedNextPoll == ~Polling => owed = {}

\* An object that stays listed is looked at: a duplicate, an object without a
\* required field or an unreachable controller never stalls the loop.
EventsAreProcessed ==
    \A u \in Events : (u \in listed) ~> (u \in seen_uids \/ u \notin listed)

====
