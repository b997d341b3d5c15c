--------------------------- MODULE TelemetryStore ----------------------------
(***************************************************************************)
(* The telemetry half of internal/persistence/store.go under concurrent    *)
(* POST /telemetry requests: Ingest commits a batch to the database and    *)
(* then, under the store's mutex, appends it to the in-memory history;     *)
(* anomalies found in the batch are then merged into a bounded buffer.     *)
(* Beside the requests runs the pruning goroutine of cmd/vyomm-api, and    *)
(* the process may die and be started again on the same database.          *)
(*                                                                         *)
(* Of a sample, what is kept is its host, the time it was observed at, if  *)
(* it passes Validate and which signals breach their detection thresholds. *)
(***************************************************************************)
EXTENDS Integers, Sequences, SequencesExt, FiniteSets, Storage

CONSTANTS
    Hosts,
    Workers,                \* requests that can be in flight at once
    Signals,                \* names of the detection checks
    Shapes,                 \* batches: sequences of [host, age, valid, breaches]
    Retention,              \* retention window, in ticks
    Window,                 \* detection window, in ticks
    TicksPerSecond,         \* clock readings that RFC 3339 writes down alike
    maxHistoryPerDevice,
    maxAnomalies,
    MaxClock,               \* bound: last clock reading
    MaxIngests,             \* bound: requests
    MaxFaults,              \* bound: failing transactions
    MaxRestarts             \* bound: crashes of the process

ASSUME TelemetryConstants ==
    /\ Shapes \subseteq Seq([host : Hosts, age : Int, valid : BOOLEAN,
                             breaches : Seq(Signals)])
    /\ {Retention, maxAnomalies, MaxClock, MaxIngests, MaxFaults, MaxRestarts}
           \subseteq Nat
    /\ {Window, TicksPerSecond, maxHistoryPerDevice} \subseteq Nat \ {0}

VARIABLES
    table,                  \* table telemetry, in order of insertion
    latest,                 \* map: host -> sample
    history,                \* map: host -> samples
    anomalies,              \* the anomaly buffer
    worker,                 \* worker -> where its request stands
    clock,
    accepted,               \* samples in batches answered with 200
    ingests, faults, restarts

memory == <<latest, history, anomalies>>
counts == <<ingests, faults, restarts>>
vars == <<table, memory, worker, clock, accepted, counts>>

Sample == [host : Hosts, observed : Int, breaches : Seq(Signals)]

Idle == [pc |-> "idle"]
AllIdle == \A w \in Workers : worker[w] = Idle

\* Time.Format with RFC 3339: the fraction of a second is lost.
Format(t) == t \div TicksPerSecond

\* The oldest observed_at that is still within the retention window.
Cutoff == Format(clock - Retention)

HistoryOf(h) == IF h \in DOMAIN history THEN history[h] ELSE << >>

\* The first n elements of s.
KeepFirst(s, n) == IF Len(s) > n THEN SubSeq(s, 1, n) ELSE s

\* Mutant of KeepLast: no bound.
KeepAll(s, n) == s

\* The last n elements of s.
KeepLast(s, n) == IF Len(s) > n THEN SubSeq(s, Len(s) - n + 1, Len(s)) ELSE s

OfHost(samples, h) == Where(samples, {d \in Range(samples) : d.host = h})

HostsIn(samples) == {samples[i].host : i \in DOMAIN samples}

Init ==
    /\ table = << >>
    /\ latest = << >>
    /\ history = << >>
    /\ anomalies = << >>
    /\ worker = [w \in Workers |-> Idle]
    /\ clock = 0
    /\ accepted = {}
    /\ ingests = 0 /\ faults = 0 /\ restarts = 0

-----------------------------------------------------------------------------

\* handleIngestTelemetry reads the clock and Ingest sorts out the rows that fail
\* Validate.  A device stamps its samples itself, so they may arrive late, out of
\* order, or stamped with a time to come.
ReceiveBatch(w, shape) ==
    LET Observed(d) == [host |-> d.host, observed |-> clock - d.age,
                        breaches |-> d.breaches]
        passing == Where(shape, {d \in Range(shape) : d.valid})
        valid == [i \in DOMAIN passing |-> Observed(passing[i])]
    IN  /\ worker[w] = Idle
        /\ ingests < MaxIngests
        /\ ingests' = ingests + 1
        /\ worker' = [worker EXCEPT ![w] =
               [pc |-> IF valid = << >> THEN "append" ELSE "commit",
                now |-> clock, valid |-> valid]]
        /\ UNCHANGED <<table, memory, clock, accepted, faults, restarts>>

\* Ingest's transaction: all rows of the batch or none.
CommitBatch(w) ==
    /\ worker[w].pc = "commit"
    /\ table' = table \o worker[w].valid
    /\ worker' = [worker EXCEPT ![w].pc = "append"]
    /\ UNCHANGED <<memory, clock, accepted, counts>>

\* Mutant of CommitFails: the error is not returned.
CommitFailsUnnoticed(w) ==
    /\ worker[w].pc = "commit"
    /\ faults < MaxFaults
    /\ faults' = faults + 1
    /\ worker' = [worker EXCEPT ![w].pc = "append"]
    /\ UNCHANGED <<table, memory, clock, accepted, ingests, restarts>>

\* The transaction fails; Ingest returns before it touches memory and the
\* request is answered with 500.
CommitFails(w) ==
    /\ worker[w].pc = "commit"
    /\ faults < MaxFaults
    /\ faults' = faults + 1
    /\ worker' = [worker EXCEPT ![w] = Idle]
    /\ UNCHANGED <<table, memory, clock, accepted, ingests, restarts>>

\* appendHistoryLocked for every sample of the batch, under the mutex.
AppendHistory(w) ==
    LET valid == worker[w].valid
        hosts == HostsIn(valid)
    IN  /\ worker[w].pc = "append"
        /\ latest' = [h \in DOMAIN latest \cup hosts |->
                         IF h \in hosts
                         THEN OfHost(valid, h)[Len(OfHost(valid, h))]
                         ELSE latest[h]]
        /\ history' = [h \in DOMAIN history \cup hosts |->
                          KeepLast(HistoryOf(h) \o OfHost(valid, h),
                                   maxHistoryPerDevice)]
        /\ worker' = [worker EXCEPT ![w].pc = "record"]
        /\ UNCHANGED <<table, anomalies, clock, accepted, counts>>

\* Detect: one anomaly per breached check, with an ID that is the same for all
\* breaches of that check by that host within one detection window.
Detect(samples, now) ==
    LET Anomaly(d, signal) ==
            [id |-> <<d.host, signal, now \div Window>>, detected |-> now]
        Found(d) == [i \in DOMAIN d.breaches |-> Anomaly(d, d.breaches[i])]
    IN  FlattenSeq([i \in DOMAIN samples |-> Found(samples[i])])

\* Mutant of AddAnomaly: no deduplication.
AddAnomalyAlways(buffer, a) == <<a>> \o buffer

\* One turn of addAnomaliesLocked's loop.
AddAnomaly(buffer, a) ==
    IF \E i \in DOMAIN buffer : buffer[i].id = a.id
    THEN buffer
    ELSE <<a>> \o buffer

\* addAnomaliesLocked: all turns of the loop, then the bound.
AddAnomalies(buffer, found) ==
    LET after[n \in 0..Len(found)] ==
            IF n = 0 THEN buffer ELSE AddAnomaly(after[n - 1], found[n])
    IN  KeepFirst(after[Len(found)], maxAnomalies)

\* detectAnomalies and RecordAnomalies, after which the batch goes on to incident
\* correlation (module IncidentService) and is answered with 200.
RecordAnomalies(w) ==
    /\ worker[w].pc = "record"
    /\ anomalies' = AddAnomalies(anomalies, Detect(worker[w].valid, worker[w].now))
    /\ accepted' = accepted \cup Range(worker[w].valid)
    /\ worker' = [worker EXCEPT ![w] = Idle]
    /\ UNCHANGED <<table, latest, history, clock, counts>>

\* Mutant of Prune: the last second of the window goes too.
PruneInclusive ==
    /\ \E i \in DOMAIN table : Format(table[i].observed) <= Cutoff
    /\ table' = Where(table, {d \in Range(table) : Format(d.observed) > Cutoff})
    /\ UNCHANGED <<memory, worker, clock, accepted, counts>>

\* Mutant of Prune: the retention is subtracted twice.
PruneLate ==
    LET cutoff == Format(clock - 2 * Retention)
    IN  /\ \E i \in DOMAIN table : Format(table[i].observed) < cutoff
        /\ table' = Where(table, {d \in Range(table) : Format(d.observed) >= cutoff})
        /\ UNCHANGED <<memory, worker, clock, accepted, counts>>

\* Store.Prune, run by the goroutine of startRetentionPruning.
Prune ==
    /\ \E i \in DOMAIN table : Format(table[i].observed) < Cutoff
    /\ table' = Where(table, {d \in Range(table) : Format(d.observed) >= Cutoff})
    /\ UNCHANGED <<memory, worker, clock, accepted, counts>>

Tick ==
    /\ clock < MaxClock
    /\ clock' = clock + 1
    /\ UNCHANGED <<table, memory, worker, accepted, counts>>

\* The rows of host h within the retention window.
RowsOf(h) ==
    {i \in DOMAIN table : table[i].host = h /\ Format(table[i].observed) >= Cutoff}

\* The history appendHistoryLocked builds from rows taken in the order of s.
HistoryFrom(s) == KeepLast([n \in DOMAIN s |-> table[s[n]]], maxHistoryPerDevice)

\* Mutant of RestoredHistories: ORDER BY observed_at DESC.
NewestFirstHistories(h) ==
    LET descending == [i \in RowsOf(h) |-> 0 - Format(table[i].observed)]
    IN  {HistoryFrom(s) : s \in Ordered(RowsOf(h), descending)}

\* The histories restore may build for host h: ORDER BY observed_at ASC.
RestoredHistories(h) ==
    LET observedAt == [i \in RowsOf(h) |-> Format(table[i].observed)]
    IN  {HistoryFrom(s) : s \in Ordered(RowsOf(h), observedAt)}

\* The process dies, with every request in flight, and a new one starts.
Restart ==
    LET hosts == {h \in Hosts : RowsOf(h) # {}}
    IN  /\ restarts < MaxRestarts
        /\ restarts' = restarts + 1
        /\ history' \in {f \in [hosts -> UNION {RestoredHistories(h) : h \in hosts}] :
                            \A h \in hosts : f[h] \in RestoredHistories(h)}
        /\ latest' = [h \in hosts |-> history'[h][Len(history'[h])]]
        /\ anomalies' = << >>
        /\ worker' = [w \in Workers |-> Idle]
        /\ UNCHANGED <<table, clock, accepted, ingests, faults>>

Next ==
    \/ \E w \in Workers :
           \/ \E shape \in Shapes : ReceiveBatch(w, shape)
           \/ CommitBatch(w) \/ CommitFails(w)
           \/ AppendHistory(w) \/ RecordAnomalies(w)
    \/ Prune
    \/ Tick
    \/ Restart

Spec == Init /\ [][Next]_vars

\* The pruning goroutine's ticker keeps firing.
FairSpec == Spec /\ WF_vars(Prune)

-----------------------------------------------------------------------------

\* The types of the state, and the two bounds on memory: history per device and
\* the anomaly buffer.
TypeOK ==
    /\ table \in Seq(Sample)
    /\ \A h \in DOMAIN latest : latest[h] \in Sample
    /\ \A h \in DOMAIN history : history[h] \in Seq(Sample)
                                 /\ Len(history[h]) <= maxHistoryPerDevice
    /\ anomalies \in Seq([id : Hosts \X Signals \X Nat, detected : Nat])
    /\ Len(anomalies) <= maxAnomalies
    /\ \A w \in Workers :
           \/ worker[w] = Idle
           \/ worker[w] \in [pc : {"commit", "append", "record"}, now : Nat,
                             valid : Seq(Sample)]
    /\ clock \in 0..MaxClock
    /\ accepted \subseteq Sample
    /\ ingests \in 0..MaxIngests
    /\ faults \in 0..MaxFaults /\ restarts \in 0..MaxRestarts

InWindow(d) == Format(d.observed) >= Cutoff

Times(d, samples) == Cardinality({i \in DOMAIN samples : samples[i] = d})

\* The forecast and the device list look at the same data: the latest sample of
\* a host is the last of its history, whichever requests and restarts built it.
LatestEndsHistory ==
    /\ DOMAIN latest = DOMAIN history
    /\ \A h \in DOMAIN latest : latest[h] = history[h][Len(history[h])]

\* Memory shows nothing that a restart would lose for any reason but its age:
\* each sample in a history is in the table at least as often, until it leaves
\* the retention window.  A batch whose transaction failed is not shown.
MemoryBackedByTable ==
    \A h \in DOMAIN history : \A i \in DOMAIN history[h] :
        LET d == history[h][i] IN
        InWindow(d) => Times(d, history[h]) <= Times(d, table)

\* A sample answered with 200 is neither pruned nor lost in a crash while it is
\* within the retention window, and it is in its host's history unless that is
\* full.
AcceptedSurvive ==
    \A d \in accepted :
        InWindow(d) => /\ Times(d, table) > 0
                       /\ \/ Times(d, HistoryOf(d.host)) > 0
                          \/ Len(HistoryOf(d.host)) = maxHistoryPerDevice

\* Whatever batches are recorded in whatever order, no anomaly is in the buffer
\* twice.
AnomaliesDistinct ==
    \A i, j \in DOMAIN anomalies : anomalies[i].id = anomalies[j].id => i = j

\* The rows of h were inserted in the order they were observed in, each in a
\* second of its own.
InOrder(h) ==
    \A i, j \in DOMAIN table :
        i < j /\ table[i].host = h /\ table[j].host = h
            => Format(table[i].observed) < Format(table[j].observed)

\* A restart at rest gives every host back the history it had, less what has
\* left the retention window, provided its samples came in order and requests
\* one at a time.
RestoreKeepsHistory ==
    [][ restarts' # restarts /\ AllIdle =>
            \A h \in Hosts :
                InOrder(h) => HistoryOf(h)' = SelectSeq(HistoryOf(h), InWindow) ]_vars

\* What GET /telemetry shows for a host does not go back in time with a restart, to
\* the second: though a late sample be the latest in memory, the rows it competes
\* with are read in the order of observation, and the table has whatever memory had.
RestartShowsNoOlder ==
    [][ restarts' # restarts =>
            \A h \in DOMAIN latest :
                InWindow(latest[h]) =>
                    /\ h \in DOMAIN latest'
                    /\ Format(latest'[h].observed) >= Format(latest[h].observed) ]_vars

\* The fix for unbounded growth: rows that have left the retention window do not
\* stay in the table.
ExpiredRowsGo ==
    (\E i \in DOMAIN table : ~InWindow(table[i]))
        ~> (\A i \in DOMAIN table : InWindow(table[i]))

=============================================================================
