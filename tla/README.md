# VYOMM: specification and verification

VYOMM's Go server takes in telemetry of network devices, detects anomalies,
correlates faults into incidents, and lets people decide on those. This
directory holds TLA+ models of the parts of it that keep state and of the
functions that decide what is an anomaly, an incident or a risk, TLC runs on
small instances, and TLAPS proofs of their safety properties for instances of
any size. `PROJECT.json` maps every definition to the lines it models.

## The system

| Component | State | Operations | Talks to |
|---|---|---|---|
| `incidents.Store` (`internal/incidents/store.go`) | `incidents` by ID, `byOccurrence` (key to IDs, oldest first), `decisions` by ID, one mutex | `Upsert`, `Decide`, `Restore`, and the reads `List`, `Active`, `History`, `Decisions` | called by `persistence.Store` |
| Incident persistence (`internal/persistence/store.go`) | tables `incidents`, `incident_decisions`; one database connection | `UpsertIncident`, `DecideIncident`, `restore` | memory first, then SQLite; nothing is held in between |
| Telemetry persistence (same file) | table `telemetry`; `latest`, `history`, `anomalies` under `mu` | `Ingest`, `RecordAnomalies`, `Prune`, `restore` | SQLite first, then memory |
| HTTP handlers (`internal/api/handlers.go`) | none; Prometheus gauges and counters | ingest, decide, reads | one goroutine per request |
| Process (`cmd/vyomm-api/main.go`) | | start, pruning goroutine, graceful stop | `NewStore`, `Prune`, `Close` |
| Correlation, detection, validation, forecast, runbooks, configuration | none | pure functions | called by the handlers |
| Simulator (`cmd/vyomm-simulator`) | | one batch, three attempts | POST /telemetry |
| Python backend, front ends, deployment | superseded, or no state of the system | | |

What is hard here:

* **Two stores, no common lock.** `UpsertIncident` and `DecideIncident` change
  memory under one mutex and the database in a later step. Requests interleave
  between the two, operations fail between them, and the process may die there.
* **Memory is rebuilt from the database.** What a restart gives back is what
  happened to be written, with times cut to whole seconds and with whatever
  order SQL leaves open.
* **Metrics are a third copy** of the state, changed by yet another step, and
  not restored.
* **Recurrence.** `Upsert` looks only at the last occurrence of a key, yet
  decisions may come on any occurrence, at any time and again.
* **Telemetry comes when it comes.** Senders stamp their samples, so they can be
  late or ahead of the server's clock; two requests can commit in one order and be appended in the other; history and
  anomaly buffer are cut at their limits; pruning runs beside all that.
* **Stopping in order.** The process is signalled while requests are in flight;
  draining has a time limit, the pruner is told to stop but not waited for, and
  the store is closed by a deferred call. A listener that fails leaves main
  waiting for a signal.
* **At-least-once delivery.** The simulator repeats a batch whose answer it did
  not get, and `Ingest` is not idempotent.
* **Thresholds in two places.** Detection and correlation judge the same
  readings by tables of their own, and one rule judges a router by its
  neighbours in the same batch.

What each component owes:

* the incident store: one active incident per key; a gapless linked history;
  statuses that agree with the audit trail; nothing erased;
* incident persistence: an acknowledged decision survives; nothing is closed
  without an audit row; the database shows nothing memory does not; audit trails
  keep their order;
* telemetry: an accepted sample survives until it is out of the retention
  window; memory never shows what was rolled back; a restart does not show an
  older sample than before; limits hold; expired rows go;
* GET /incidents: an answer that does not contradict itself, though read twice;
* the process: it stops when told to, and cuts no request off before its time limit;
* the simulator: a reported success is stored, and `post` comes to an end;
* detection, correlation, forecast: they agree with each other; grouping devices
  that are no neighbours into one batch changes nothing; a forecast follows the trend.

## Modules

| Module | Models |
|---|---|
| `IncidentLog` | what incident tracking promises: per key a log of occurrences, each the sequence of verdicts on it |
| `IncidentStore` | `incidents.Store`: one action per method, atomic because each holds the mutex throughout |
| `Storage` | the Go map assignment, `SELECT ... ORDER BY`, which leaves the order of equal rows open, and the loop that keeps some elements of a slice |
| `IncidentService` | handlers and persistence on top of `IncidentStore`: requests in flight, database, metrics, failures, restarts |
| `IncidentReads` | GET /incidents beside the writers of `IncidentStore`: `List`, then `Active` |
| `TelemetryStore` | `Ingest`, `RecordAnomalies`, `Prune`, `restore` of telemetry, the pruning goroutine |
| `ApiProcess` | `cmd/vyomm-api`: start, listener, pruner, signal, draining, deferred calls, death and restart |
| `Simulator` | `cmd/vyomm-simulator`'s `post` against `ApiProcess`, over connections that break |
| `Devices` | a device sample, `Validate`, and the simulator's `Generate` |
| `Detection`, `Correlation`, `Forecast` | the threshold checks; the rules and the neighbours; the extrapolation |
| `Analysis` | the four put together: what a batch leads to, and what its history forecasts |
| `Config` | `load` and `RetentionDuration` |
| `MC...` | constants for the runs |
| `IncidentStoreProofs`, `IncidentReadsProofs` | theorems about `IncidentStore` (with the refinement) and `IncidentReads` |
| `IncidentServiceProofs`, `DatabaseProofs` | theorems about `IncidentService`: what holds of decisions; how database, memory and metrics relate |
| `TelemetryStoreProofs` | theorems about `TelemetryStore` |
| `DeliveryProofs` | theorems about `ApiProcess` and `Simulator` |
| `AnalysisProofs` | theorems about `Analysis` and the functions below it |
| `StorageProofs` | lemmas about `Storage` and about loops in general |

**IncidentStore.** `incidents`, `byOccurrence` and `decisions` are the three
maps. `Upsert(key, now)` is either the early return (`Ongoing(key)`) or
`Create`; `Decide` changes status and time and extends the trail. The time is an
argument: callers read the clock before they take the mutex, so the times of
successive calls come in any order, and the module lets them. An ID is
`<<digest, sequence>>`; the digest is a constant operator, because 24 bits of
SHA-1 promise nothing. Severity, devices, confidence and the like are copied from the
candidate and never change; they are left out.

**IncidentService.** A worker is one request. Its program counter names the
point between two accesses to shared state:

    upsert -> insert -> count -> upsert ... -> idle     POST /telemetry
    decide -> persist -> uncount -> idle                POST /incidents/{id}/decision

`upsert` and `decide` take the store's mutex, `insert` and `persist` the
database connection (a statement or a transaction is atomic: the pool holds one
connection), `count` and `uncount` the metrics. `InsertFails` and `PersistFails`
are the error paths: the first is logged and skips the metrics, the second is
answered with 404; neither takes back what memory has. `Restart` is the death of
the process and the start of the next: requests in flight are gone, the maps are
rebuilt from the tables in every order SQL allows, the metrics start at zero.
`Format` and `Parse` lose the fraction of a second. SQLite does not enforce
`REFERENCES` unless asked to, and the code does not ask, so a decision row
may name an incident without a row.

**TelemetryStore.** A request goes `commit -> append -> record`: the
transaction of `Ingest`, `appendHistoryLocked` for the batch, detection and
`RecordAnomalies`. A batch with no valid row skips the transaction, as the code
does. A sample is its host, its `observed_at` and the checks it breaches; whether
it passes `Validate` is part of the input. `Prune` compares whole seconds, as
`restore` does. A prune that fails, or that finds nothing, changes nothing and
is no step of the model. `Cutoff` is read in the step that deletes; in the code
the DELETE may wait for the connection and then use an older cutoff, which
deletes a subset now and the rest on the next tick.

**IncidentReads.** The reader holds what it has read so far. `MostRecent` is the
set of incidents `Active` may return: ties are broken by the order in which Go
iterates over a map. The order of the list is a function of what it shows and is
left out.

**ApiProcess and Simulator.** `main` names the point main has reached:

    down -> loading -> opening -> wiring -> serving
         -> draining -> stopping -> closing -> exiting -> down

Between them lie the calls that can be observed from outside. `Shutdown` closes
the listener in the same step that ends `serving`; `Drained` and `DrainTimesOut`
are its two ways to return; `StopPruning` and `CloseStore` are the deferred calls,
last deferred first. Nothing waits for the pruner, which may call `Prune` on a
closed database. `handlers` maps each connection to where its request stands:

    accepted -> received -> writing -> ok | error

`Accept` needs the listener, and nothing after it does: a connection accepted
before `Shutdown` still gets its handler. `Begin` needs an open database, and
`Commit` does not: a transaction that was begun outlives `Close`. `Drop` closes a
connection that no request came on. A client is `ready`, `connecting`, `waiting`, `done` or `failed`. `Break`
is any error of `client.Post`: the handler, if there is one, goes on, since
`Ingest` does not look at the request's context. A batch that arrives in part
changes nothing and counts as dropped. `stored` and
`unheard` hold attempts, so that copies of one batch can be told apart.

**Devices, Detection, Correlation, Forecast, Analysis.** Readings are integers
in tenths. A hostname is its letters, its number and if it is written
`prefix-NN`, which is all that `numericSuffix` and `resolveNeighbors` see. The
slope of a forecast is a fraction, so points carry a common denominator and the
clamping and the risk levels are exact (floating-point rounding is not
modelled). `ForecastWindow` is 18 in the code, so that the cut of a history at 90
samples, which `Analysis` leaves out, does not reach the forecast. `Ingest` of
`Analysis` is the handler without its storage, which the other modules have.
Confidences and texts are only displayed and are left out.

**Config.** `WellFormed` is the conjunction of load's checks, `Wrap` the width of
`time.Duration`. `WordSize` and `Hour` are parameters, because the checker's own
integers are too short for 64 bits; only their ratio matters.

## Runs

| Run | Instance | What it shows |
|---|---|---|
| `store` | 2 keys, up to 3 occurrences each, 2 decisions, 2 clock readings in any order, 1 reader | types, `LinkedHistory`, `AtMostOneActive`, `StatusFollowsTrail`, `NothingErased`, that the store implements `IncidentLog`, and for GET /incidents `ActiveNotShownClosed` and `ActiveIsMostRecent` |
| `service_concurrent` | 2 requests in flight, 2 batches of two faults, 2 decisions, 1 failing operation, 1 crash | `DatabaseNeverAhead`, `NothingLeftUnsaved`, `AnsweredDecisionsSurvive`, `NoSilentClose`, `MetricsBalanced` |
| `service_sequential` | 1 request at a time, 3 batches, 2 decisions, 2 crashes | memory and database agree at rest; recurrence rules and the order of the audit trails survive restarts |
| `telemetry_concurrent` | 2 requests in flight, 3 batches (fresh, late, ahead of the clock, invalid), 1 failing transaction, 1 crash | `LatestEndsHistory`, `MemoryBackedByTable`, `AcceptedSurvive`, `AnomaliesDistinct`, `RestartShowsNoOlder`, and the two memory limits |
| `telemetry_sequential` | 1 request at a time, 4 batches of fresh samples, 1 crash | a restart gives the history back; expired rows go |
| `delivery` | 1 simulator with 3 attempts, so up to 3 handlers at once; 3 starts of the process | `StopCutsNothingOff`, `AcknowledgedIsStored`, `RepeatsOnlyUnheard`; a signalled process ends, every post ends |
| `analysis` | 12 800 batches around the thresholds, 1 024 sets of hosts, 5 scenarios, rejected rows, series of up to 4 samples with a window of 3 | `IncidentsHaveAnomalies`, `NeighboursAdjacent`, `BatchesCutBetweenStrangers`, `RiskFollowsTrend` |
| `service_race`, `service_two_active`, `service_gauge`, `service_not_found`, `config_retention` | the smallest instance that shows it | the findings below |

Why the bounds are enough. The incident store looks at one key and its last
occurrence, so three occurrences (first, middle, last) of two keys (this one,
another) cover what `Upsert` and `Decide` can tell apart; the proofs then drop
the bounds. In the service every disagreement needs two requests on one incident and one
failure or crash at one point; with two workers, two rounds of reports and two
decisions each of them can meet any step of the other, a recurrence included.
`TicksPerSecond = 2` puts two readings into one second and others into
different ones. In the telemetry runs the histories hold two samples and the
buffer three anomalies while batches bring two breaches each, so both limits are
reached and passed; the clock runs beyond the retention window. In `delivery`
simulators meet only in the set of handlers, and one of them already has
abandoned handlers beside its present one; three starts let a batch meet a
process before, during and after each of its ends. In `analysis` every reading
takes a value just above each threshold of detection and correlation and one
well below, in every combination with every role, alone, beside calm and busy
neighbours, and beside a device that is none; the hosts include numbers 0 to 3, an unknown prefix, a name
that is not padded and one without digits; the series pass the window.

`CHECK_DEADLOCK FALSE`: the models stop when their bounds on requests are used
up, and a server without requests is idle.

What some properties leave open. `NothingLeftUnsaved` speaks of incidents and
decisions that are missing in the database, not of what a row says, which
`service_race` is about. `AuditOrderSurvives` is about seconds: decisions of one
second may come back in any order. `StopCutsNothingOff` is about requests; the
pruner may still meet a closed database, and its error is logged.
`NeighboursAdjacent` takes "numeric suffix within 1" from the comment at
`incidents.go:240`; the code finds only such devices, but not all of them: names
not written with two digits, and number 00, are missed, and the property asks for
the others.
`BatchesCutBetweenStrangers` does not say that grouping is without effect, only
that it is between devices that are no neighbours.

**Fairness.** `FairSpec` of `TelemetryStore` has weak fairness of `Prune`: the
ticker keeps firing and the prune does not fail forever. `Simulator` has weak
fairness of main's own steps, of each handler, and of the client's steps: a
goroutine that can run is run, an accepting listener accepts, a database call
returns, a response on a connection that is up arrives, and a connection breaks
when its other end is gone. No other connection has to break:
`http.DefaultClient` has no timeout, and `PostEnds` does not lean on one. The
ten seconds of `Shutdown` may be over at any time while handlers run.

## Proofs

Every theorem is about a specification with its constants left open: any set of
keys, workers, hosts or simulators, any batches, any bounds on requests, failures
and restarts.

| Module | Theorem | Property | Hypotheses |
|---|---|---|---|
| `IncidentStoreProofs` | `StoreTypeOK`, `StoreLinkedHistory`, `StoreAtMostOneActive`, `StoreStatusFollowsTrail` | the invariants of run `store` | `NoCollision` |
| | `StoreNothingErased` | its action property | `NoCollision` |
| | `StoreImplementsLog` | the refinement of `IncidentLog` | `NoCollision` |
| `IncidentReadsProofs` | `ReadActiveNotShownClosed`, `ReadActiveIsMostRecent` | a response of GET /incidents does not contradict itself | `NoCollision` |
| `IncidentServiceProofs` | `ServiceKeepsTypes`, `ServiceAnsweredDecisionsSurvive`, `ServiceNoSilentClose` | `ServiceTypeOK`, `AnsweredDecisionsSurvive`, `NoSilentClose` | none |
| `DatabaseProofs` | `ServiceDatabaseNeverAhead` | `DatabaseNeverAhead` | `DistinctDigests` |
| | `ServiceNothingLeftUnsaved` | `NothingLeftUnsaved` | none |
| | `ServiceMetricsBalanced` | `MetricsBalanced` | `DistinctDigests` |
| | `ServiceConsistentAtRest` | `ConsistentAtRest` | `OneAtATime`, `NeverFails`, `DistinctDigests` |
| `TelemetryStoreProofs` | `TelemetryKeepsTypes`, `TelemetryLatestEndsHistory`, `TelemetryAnomaliesDistinct`, `TelemetryAcceptedSurvive`, `TelemetryMemoryBackedByTable`, `TelemetryRestartShowsNoOlder` | the invariants and the action property of run `telemetry_concurrent` | none |
| `DeliveryProofs` | `DeliveryStopCutsNothingOff`, `DeliveryAcknowledgedIsStored`, `DeliveryRepeatsOnlyUnheard` | the invariants of run `delivery` | none |
| `AnalysisProofs` | `AnalysisIncidentsHaveAnomalies`, `AnalysisNeighboursAdjacent`, `AnalysisBatchesCutBetweenStrangers`, `AnalysisRiskFollowsTrend` | the invariants of run `analysis` | `Typed` |

### What they assume

* `NoCollision`: IDs of different keys at one sequence number differ. The code
  does not guarantee it: `incidents.go:286` calls the ID "globally unique", but its
  digest is cut to 24 bits, and without the hypothesis `Upsert` replaces an
  incident of another key. So it is a hypothesis of the theorems and not an
  assumption of the module.
* `DistinctDigests`: at one sequence number the digest tells keys *and times*
  apart. The service needs the stronger form, because a crash loses an occurrence
  that was not saved, and its number is given out again: only the time of creation
  tells the new occurrence from rows that the old one may have left in the audit
  table. What does not need it (no lost and no silent decision, nothing left
  unsaved) is proved without it.
* `OneAtATime` and `NeverFails`, for `ConsistentAtRest` only: at most one worker,
  and no failing database operation; crashes are allowed. Run `service_race`
  shows that with two requests at once the property is false.
* `Typed`: the batches given to `Analysis` are sequences of samples, with
  integer readings of any size and any hostname.
* The modules' assumptions on constants. Of those, `ClockConstants` says that
  `Times` has all readings of the clock and the beginnings of their seconds, and
  `ServiceConstants` that the set of workers is finite, as goroutines are.

TLC evaluates `NoCollision` and the assumptions on constants on every run; the
constants of the runs satisfy the other hypotheses too.

### Along which argument

**Incident store.** `AtMostOneActive` is not inductive: `Upsert` checks the
*last* occurrence only, so a state with an active middle occurrence and a closed
last one would let it create a second active incident. The invariant `IInv` adds

* `OnlyLastActive`: an active incident is the last of its key's history. `Decide`
  never sets a status back to active, and `Create` appends only when the former
  last one is closed;
* `IDsDetermined`: an incident's ID is the one made from its key, number and
  creation time, so that a fresh ID is fresh, under `NoCollision`;
* `LinkedHistory` and `TypeOK`, which tie an incident to its place in the
  history, and `StatusFollowsTrail`.

For the refinement, `Create` maps to `Recur`: that *all* earlier occurrences
have a verdict, which `IncidentLog` asks for, follows from `OnlyLastActive` and
`StatusFollowsTrail`. `Decide` maps to `Judge` on the place `LinkedHistory`
gives, and the early return of `Upsert` to a stutter.

**GET /incidents.** `Remembered` says in which way the list is out of date when
`Active` is read: what it shows closed still is closed, and what it shows active
may have been decided since. It follows from what `NothingErased` says of a step.

**Decisions in the service.** `ServiceInv` follows a decision on its way.
`Promises`: a request about to answer has its decision in both trail and audit
table. `AuditRecorded`: what the audit table has, the trails in memory have, to the
second; a restart rebuilds the trails from the table, so it keeps that.
`ClosedRecorded` and `ClosedAudited`: a closed incident, and a closed row, is
backed by a decision. `AnswersAudited` is the property itself. None of it
mentions that IDs are unique: a decision is found by ID, whatever the ID stands
for.

**Database and memory.** `MatchInv` says that a row, an incident and a request
with the same ID are about the same occurrence (`RowsMatch`, `Created`). The hard
part is that a number is given out again after a crash, so `Births` says that
each incident was created at a time already passed, and that, while the request
of that time is at work, the history still counts the incident: one batch
cannot make the same ID twice. `SavedInv` counts: unless something failed,
every incident has a row or a request about to insert it (`Inserted`), and the
decisions of a trail are as many as its audit rows and the requests about to write
one together (`Persisted`). `BalanceInv` does the same for the metrics,
until the first failure or restart: the gauge plus the requests about to raise it equals the open incidents plus
those about to lower it. `Cardinality` of the sets of requests changes by one
with each step, which is where `Workers` has to be finite. `RestInv` is the
sequential case: with one request at a time rows are up to date except for the
one about to be written (`RowsUpToDate`, `WritesCurrent`, `TrailsAudited`).

**Telemetry.** `Stored`: a sample still in the window that was accepted, or whose
transaction is through, is in the table. `Shown`: once its request has appended
it, it is in its history as well, unless that is full. `NoneEmpty` gives every known host a sample, and so a latest
one. `MemoryBackedByTable` is about numbers, since samples may be equal:
`Backed` says that the copies in the history and those in committed batches not
yet appended together are no more than the copies in the table, `OwnHosts` that a
history has samples of its host only. `Prune` takes rows only once they are
out of the window that the property speaks of. `RestartShowsNoOlder` puts the two
together: the latest sample before the restart has a row (`LatestInTable`), and what
`restore` ends with is as new as any row (`RestoredEndsNewest`).

**Process and simulator.** `ProcessInv`: how far main has come determines what
is left of the process: past `Shutdown` there is no handler unless it timed out,
and the listener no longer accepts new ones. `HandlerInv`:
a handler belongs to the attempt its client waits for or to one given up, and its
batch is stored if and only if it is about to answer with success. `GivenUp`: an attempt given up is never answered.

**Analysis.** The lemmas are about the functions and hold for all arguments:
`ThresholdsAgree` compares the two tables of thresholds for all readings;
`PointFacts` bounds an extrapolated point and orders it against the last sample,
and `RiskMonotone` carries that order over to the risk; `ResolveFacts` says what
`resolveNeighbors` finds, by an invariant `Resolved` of its loop, and
`NamesAdjacent` that the names it tries are those of adjacent numbers. For
`BatchesCutBetweenStrangers`, a device finds the same neighbours in its part as in the
whole batch (`SameNeighbours`, from `ResolveFacts`), so every rule gives the same
verdict there (`SameCandidates`, `VerdictInPart`). `AnalysisInv`
has the stored samples valid and histories not empty.

**Loops.** Theorems about recursive definitions are by induction, and the
library's induction theorems take a predicate, which the provers at hand cannot
instantiate. `StorageProofs` states induction over a *set* of numbers instead
(`Induction`), which follows from the order of the naturals being well-founded, and with it
that a loop written as a recursive function has the values its equations say
(`LoopExists`). That is why `Where`, `TryName` and `AddAnomalies` are written as
loops, and not with `SelectSeq` and `FoldLeft`.

### Only model-checked

* Liveness: `ExpiredRowsGo`, `SignalEndsProcess`, `PostEnds`.
  Fairness is beyond the prover.
* `RestoreKeepsHistory`, that a restart gives the history back, and
  `AuditOrderSurvives`, that it gives the audit trails back in order.
* `AtMostOneActive` and `LinkedHistory` of the *service* that takes one request at
  a time and restarts (`service_sequential`); of the store they are proved.

## Findings

1. `service_race`. `persistence/store.go` calls memory "kept consistent with
   SQLite". A decision on an incident whose INSERT has not run yet updates no
   row; the INSERT then stores the incident as active. After a restart a decided
   incident is active again, with its decision in the audit trail. Only another
   decision on it would set the row right.
2. `service_two_active`. A crash after a decision changed memory and before its
   transaction, while the recurrence it allowed is already inserted, restores
   two active incidents of one key.
3. `service_gauge`. `vyomm_incidents_active` starts from zero after a restart
   while active incidents are restored; deciding on one drives it negative.
4. `service_not_found`. A failing transaction is answered with 404, though the
   incident exists and, in memory, has been decided.
5. `config_retention`. `Load` accepts any positive number of hours;
   `RetentionDuration` multiplies it by `time.Hour` and overflows from 2 562 048
   hours on. With a negative retention the cutoff lies in the future and `Prune`
   deletes every row.

Seen while modelling, and not made into runs: history is in order of arrival
and only after a restart "oldest first" (`persistence/store.go:34`); devices
numbered 00, or written without a leading zero, are nobody's neighbours, though
`incidents.go:240` counts every device "whose numeric suffix is within 1"; a router under full load is judged by its
neighbours alone once one is in its batch; a forecast step is the slope per
*sample*, though `forecast.go:121` speaks of five-minute increments; the sampling
ratio may be set to NaN.

## Not modelled

* Runbook retrieval: a count of matching words and a stable sort over documents
  that never change; nothing interacts with it.
* Routing, CORS and the request metrics of `server.go`, the conversions of
  `dto.go`, and the handlers that copy one snapshot taken under a lock
  (telemetry, anomalies, decisions, health): no state of the system is
  changed or combined there. The scenario endpoints answer 501.
* `riskiestDevice`, the default of GET /forecast: a maximum over one snapshot.
* `observed_at` in forecasts: `Build` does not read it.
* Tracing and logging, which do not act on the state.
* The Python backend and simulator, which the Go programs replace; front ends
  and deployment files.

`PROJECT.json` lists them one by one.

## Plan

1. *Done:* `IncidentLog`, `IncidentStore` and its proofs, `IncidentService`,
   `TelemetryStore`.
2. *Done:* `IncidentReads`, `ApiProcess`, `Simulator`, the pure modules and
   `Analysis`, `Config`.
3. *Done:* every other invariant, and the action properties but for two, of the passing runs proved: `IncidentServiceProofs`,
   `DatabaseProofs`, `TelemetryStoreProofs`, `DeliveryProofs`, `IncidentReadsProofs`,
   `AnalysisProofs`, on the lemmas of `StorageProofs`.
4. `LinkedHistory` and `AtMostOneActive` of the sequential service across restarts:
   a crash may lose the last occurrence of a key, so the proof needs that without
   failures only the request in flight can have an occurrence that is not saved.
5. `RestoreKeepsHistory`, with the lemmas about `Where`, and `AuditOrderSurvives`.
