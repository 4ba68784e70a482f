------------------------- MODULE TelemetryIngestion -------------------------
(***************************************************************************)
(* Meter telemetry: POST /v1/connectors/{id}/sync (apps/api/main.py), the   *)
(* ingestion processor (apps/worker/ingestion.py) with its circuit breaker  *)
(* (packages/connectors/base.py), the raw landing zone, the time series and *)
(* the connector offsets.  Every append and the offset are transactions of  *)
(* their own.  The meter's HTTPS service is external: it answers a window   *)
(* with its intervals in it, or with a page of them and a cursor, or fails. *)
(***************************************************************************)
EXTENDS Integers, Sequences, FiniteSets, Functions

CONSTANTS
    Handlers,   \* API handlers that synchronise the one connector and stream
    Intervals,  \* what the meter holds: [id, timestamp, value, unit]
    Starts,     \* starts a client may give of its own
    MaxEnd,     \* the latest end a client asks for
    FailureThreshold,
    None

VARIABLES
    raw_events,         \* event id -> the interval landed under it, or None
    timeseries_points,  \* timestamp -> [value, unit, raw_event_id], or None
    offset,             \* the row of connector_offsets: [cursor, watermark]
    breaker,            \* [failures, opened]: opened is "no", "open" or "cooled"
    sync,               \* handler -> its sync, or None
    synced              \* ghost: the times in windows committed after one whole answer

vars == <<raw_events, timeseries_points, offset, breaker, sync, synced>>

EventIds == {i.id : i \in Intervals}
Timestamps == 0 .. MaxEnd

\* Normalizer.normalize: power to kW and energy to kWh, here in thousandths; an event
\* with an unreadable payload raises.
Factor == [W |-> 1, kW |-> 1000, MW |-> 1000000, Wh |-> 1, kWh |-> 1000, MWh |-> 1000000]
Readable(event) == event.value # None
Normalize(event) ==
    [value |-> event.value * (IF event.unit \in DOMAIN Factor THEN Factor[event.unit] ELSE 1),
     unit |-> IF event.unit \in {"W", "kW", "MW"} THEN "kW"
              ELSE IF event.unit \in {"Wh", "kWh", "MWh"} THEN "kWh" ELSE event.unit,
     raw_event_id |-> event.id]

Closed == [failures |-> 0, opened |-> "no"]

Init ==
    /\ raw_events = [id \in EventIds |-> None]
    /\ timeseries_points = [t \in Timestamps |-> None]
    /\ offset = [cursor |-> None, watermark |-> None]
    /\ breaker = Closed
    /\ sync = [h \in Handlers |-> None]
    /\ synced = {}

\* sync_connector up to the callback: the window starts where the client says, or else
\* at the stored watermark; without either, or with an empty window, it is refused.
Start(given) == IF given # None THEN given ELSE offset.watermark

Begin(h, given, end) ==
    /\ sync[h] = None
    /\ Start(given) # None /\ Start(given) < end
    /\ sync' = [sync EXCEPT ![h] = [start |-> Start(given), end |-> end, cursor |-> offset.cursor,
                                    whole |-> FALSE, pc |-> "pull", events |-> <<>>]]
    /\ UNCHANGED <<raw_events, timeseries_points, offset, breaker, synced>>

\* HttpsMeterConnector.pull is one GET.  Without a cursor the meter answers the whole
\* window, in some order, or its first page and a cursor; given a cursor it answers a page.
\* The breaker is consulted next, and refuses while it is open; it closes when the last
\* event is through, or at once when there is none.
InWindow(h) == {i \in Intervals : sync[h].start <= i.timestamp /\ i.timestamp < sync[h].end}
Orders(S) == Bijection(1 .. Cardinality(S), S)

MeterAnswers(h) ==
    (IF sync[h].cursor = None THEN [events : Orders(InWindow(h)), next : {None}] ELSE {})
    \cup (IF sync[h].cursor # None \/ Cardinality(InWindow(h)) > 1
          THEN [events : {<<i>> : i \in InWindow(h)},
                next : {"more"} \cup (IF sync[h].cursor = None THEN {} ELSE {None})]
          ELSE {})

Pull(h) ==
    /\ sync[h] # None /\ sync[h].pc = "pull"
    /\ breaker.opened # "open"
    /\ \E answer \in MeterAnswers(h) :
         sync' = [sync EXCEPT ![h].events = answer.events, ![h].cursor = answer.next,
                              ![h].whole = sync[h].cursor = None /\ answer.next = None,
                              ![h].pc = IF answer.events = <<>> THEN "commit" ELSE "raw"]
    /\ breaker' = IF sync'[h].pc = "commit" THEN Closed ELSE breaker
    /\ UNCHANGED <<raw_events, timeseries_points, offset, synced>>

\* The pull failed, the window is empty, the circuit is open, or the process died.
GiveUp(h) ==
    /\ sync[h] # None
    /\ sync' = [sync EXCEPT ![h] = None]
    /\ UNCHANGED <<raw_events, timeseries_points, offset, breaker, synced>>

\* CircuitBreaker.execute counts an exception of the ingestion and opens at the threshold.
Failure(h) ==
    /\ breaker' = [failures |-> IF breaker.failures < FailureThreshold THEN breaker.failures + 1
                                ELSE FailureThreshold,
                   opened |-> IF breaker.failures + 1 >= FailureThreshold THEN "open" ELSE breaker.opened]
    /\ sync' = [sync EXCEPT ![h] = None]
    /\ UNCHANGED <<raw_events, timeseries_points, offset, synced>>

\* RawLanding.append: insert, or compare the payload with the one landed before.
LandRaw(h) ==
    /\ sync[h] # None /\ sync[h].pc = "raw"
    /\ LET event == Head(sync[h].events)
       IN IF raw_events[event.id] \in {None, event}
          THEN /\ raw_events' = [raw_events EXCEPT ![event.id] = event]
               /\ sync' = [sync EXCEPT ![h].pc = "point"]
               /\ UNCHANGED <<timeseries_points, offset, breaker, synced>>
          ELSE Failure(h)

\* TimeSeriesStore.append of the normalised event, also for a duplicate raw event.
SamePoint(a, b) == a.value = b.value /\ a.unit = b.unit

StorePoint(h) ==
    /\ sync[h] # None /\ sync[h].pc = "point"
    /\ LET event == Head(sync[h].events)
           stored == timeseries_points[event.timestamp]
       IN IF Readable(event) /\ (stored = None \/ SamePoint(stored, Normalize(event)))
          THEN /\ timeseries_points' = [timeseries_points EXCEPT ![event.timestamp] =
                                          IF stored = None THEN Normalize(event) ELSE @]
               /\ sync' = [sync EXCEPT ![h].events = Tail(@),
                                       ![h].pc = IF Len(sync[h].events) = 1 THEN "commit" ELSE "raw"]
               /\ breaker' = IF sync'[h].pc = "commit" THEN Closed ELSE breaker
               /\ UNCHANGED <<raw_events, offset, synced>>
          ELSE Failure(h)

\* An append fails for a reason of its own: a database error, say.
AppendFails(h) ==
    /\ sync[h] # None /\ sync[h].pc \in {"raw", "point"}
    /\ Failure(h)

\* The batch is through: the offset is committed in a transaction of its own, whatever it
\* holds by then.
MutantCommittable(h) == sync[h] # None /\ sync[h].pc \in {"raw", "commit"}
Committable(h) == sync[h] # None /\ sync[h].pc = "commit"

Commit(h) ==
    /\ Committable(h)
    /\ offset' = [cursor |-> sync[h].cursor, watermark |-> sync[h].end]
    /\ synced' = IF sync[h].whole THEN synced \cup (sync[h].start .. sync[h].end - 1) ELSE synced
    /\ sync' = [sync EXCEPT ![h] = None]
    /\ UNCHANGED <<raw_events, timeseries_points, breaker>>

\* recovery_seconds pass: one more attempt is let through.
Cool ==
    /\ breaker.opened = "open"
    /\ breaker' = [breaker EXCEPT !.opened = "cooled"]
    /\ UNCHANGED <<raw_events, timeseries_points, offset, sync, synced>>

SyncConnector(h) ==
    \/ \E given \in Starts \cup {None}, end \in 1 .. MaxEnd : Begin(h, given, end)
    \/ Pull(h) \/ LandRaw(h) \/ StorePoint(h) \/ AppendFails(h)
    \/ Commit(h) \/ GiveUp(h)

Next == (\E h \in Handlers : SyncConnector(h)) \/ Cool

Spec == Init /\ [][Next]_vars

-----------------------------------------------------------------------------
\* Properties

\* Type invariant of the tables, the breaker and the syncs.
TypeOK ==
    /\ \A id \in EventIds : raw_events[id] \in {i \in Intervals : i.id = id} \cup {None}
    /\ \A t \in Timestamps : timeseries_points[t] # None => timeseries_points[t].raw_event_id \in EventIds
    /\ offset \in [cursor : {None, "more"}, watermark : (1 .. MaxEnd) \cup {None}]
    /\ breaker \in [failures : 0 .. FailureThreshold, opened : {"no", "open", "cooled"}]
    /\ \A h \in Handlers : sync[h] # None =>
          sync[h].pc \in {"pull", "raw", "point", "commit"}

\* A window is never committed with a hole: every interval the meter holds in a window that
\* it answered whole is landed under its id and its timestamp has a point of the same
\* normalised value, and every point comes from a landed event, although syncs overlap,
\* regress the watermark, fail part-way or die (sync_connector, ingest, RawLanding.append,
\* TimeSeriesStore.append).  After a page the watermark passes over what was not sent.
SyncedIsStored ==
    /\ \A i \in Intervals : i.timestamp \in synced =>
         /\ raw_events[i.id] = i
         /\ timeseries_points[i.timestamp] # None
         /\ SamePoint(timeseries_points[i.timestamp], Normalize(i))
    /\ \A t \in Timestamps : timeseries_points[t] # None =>
         LET source == raw_events[timeseries_points[t].raw_event_id]
         IN source # None /\ source.timestamp = t /\ Normalize(source) = timeseries_points[t]
=============================================================================
