--------------------------- MODULE IncidentService ---------------------------
(***************************************************************************)
(* The incident half of the API server: the correlation loop and the       *)
(* decision handler of internal/api/handlers.go, running concurrently, on  *)
(* top of UpsertIncident and DecideIncident of                             *)
(* internal/persistence/store.go, which change the in-memory store first   *)
(* and the database afterwards, with nothing held in between.              *)
(*                                                                         *)
(* One worker is one HTTP request in flight.  Its steps are the points at  *)
(* which it touches shared state: the in-memory store (under its mutex),   *)
(* the database (one connection, so a statement or a transaction is        *)
(* atomic), the metrics.  A database operation may fail, and the process   *)
(* may die at any moment and be started again on the same database.        *)
(***************************************************************************)
EXTENDS IncidentStore, Integers, FiniteSets, Storage

CONSTANTS
    Workers,            \* requests that can be in flight at once
    Batches,            \* what Correlate finds in a batch: sequences of keys
    Severities,
    SeverityOf,         \* key -> severity: fixed by the rule behind the key
    UnknownID,          \* an ID no incident ever gets
    TicksPerSecond,     \* clock readings that RFC 3339 writes down alike
    MaxFaults,          \* bound: failing database operations
    MaxRestarts         \* bound: crashes of the process

ASSUME ServiceConstants ==
    /\ IsFiniteSet(Workers)
    /\ Batches \subseteq Seq(Keys)
    /\ SeverityOf \in [Keys -> Severities]
    /\ TicksPerSecond \in Nat \ {0}
    /\ MaxFaults \in Nat
    /\ MaxRestarts \in Nat

VARIABLES
    rows,               \* table incidents: ID -> row
    decisionRows,       \* table incident_decisions, in order of insertion
    active,             \* gauge vyomm_incidents_active, by severity
    resolved,           \* counter vyomm_incidents_resolved_total, by severity
    recurred,           \* counter vyomm_incidents_recurred_total
    worker,             \* worker -> where its request stands
    answers,            \* what clients were told about their decisions
    ingests, decides,   \* requests received so far
    faults, restarts    \* failures so far

metrics == <<active, resolved, recurred>>
database == <<rows, decisionRows>>
environment == <<answers, ingests, decides, faults, restarts>>
serviceVars == <<storeVars, database, metrics, worker, environment>>

Idle == [pc |-> "idle"]

AllIdle == \A w \in Workers : worker[w] = Idle

\* Clock.Now: every request reads the clock once, and later requests read later
\* times.
Now == ingests + decides

\* Time.Format and time.Parse with RFC 3339: the fraction of a second is lost.
Format(t) == t \div TicksPerSecond
Parse(s) == s * TicksPerSecond

\* Times has every reading that the clock can show, and the beginnings of seconds
\* that restore makes of them.
ASSUME ClockConstants ==
    /\ 0..(MaxOccurrences + MaxDecisions) \subseteq Times
    /\ \A t \in Times : Parse(Format(t)) \in Times

\* An incident as INSERT writes it.
Row(inc) ==
    [key |-> inc.key, seq |-> inc.seq, status |-> inc.status,
     created |-> Format(inc.created), updated |-> Format(inc.updated)]

\* A row as restore reads it back.
Restored(id, row) ==
    [id |-> id, key |-> row.key, seq |-> row.seq, status |-> row.status,
     created |-> Parse(row.created), updated |-> Parse(row.updated)]

Step(w, next) == worker' = [worker EXCEPT ![w] = next]

Answer(w, code) ==
    answers' = answers \cup {[id |-> worker[w].id, status |-> worker[w].status,
                              at |-> worker[w].now, code |-> code]}

-----------------------------------------------------------------------------
(* POST /telemetry: the incident.correlated step.  Telemetry itself is       *)
(* stored before that and is not part of this module.                        *)

\* handleIngestTelemetry reads the clock and Correlate finds its candidates.
ReceiveBatch(w, batch) ==
    /\ worker[w] = Idle
    /\ ingests < MaxOccurrences
    /\ ingests' = ingests + 1
    /\ Step(w, [pc |-> "upsert", now |-> Now, todo |-> batch])
    /\ UNCHANGED <<storeVars, database, metrics, answers, decides, faults, restarts>>

\* UpsertIncident, up to the point where incidents.Store.Upsert returns.
UpsertCandidate(w) ==
    /\ worker[w].pc = "upsert"
    /\ worker[w].todo # << >>
    /\ LET key == Head(worker[w].todo)
           now == worker[w].now
       IN  /\ Upsert(key, now)
           /\ IF Ongoing(key)
              THEN Step(w, [worker[w] EXCEPT !.todo = Tail(@)])
              ELSE Step(w, [pc |-> "insert", now |-> now,
                            todo |-> Tail(worker[w].todo),
                            inc |-> Occurrence(key, now)])
    /\ UNCHANGED <<database, metrics, environment>>

\* Mutant of InsertIncident: writes the incident as it is by now.
InsertCurrent(w) ==
    /\ worker[w].pc = "insert"
    /\ worker[w].inc.id \notin DOMAIN rows
    /\ rows' = Put(rows, worker[w].inc.id, Row(incidents[worker[w].inc.id]))
    /\ Step(w, [worker[w] EXCEPT !.pc = "count"])
    /\ UNCHANGED <<storeVars, decisionRows, metrics, environment>>

\* The INSERT of UpsertIncident writes the incident as it was when Upsert
\* returned it.
InsertIncident(w) ==
    /\ worker[w].pc = "insert"
    /\ worker[w].inc.id \notin DOMAIN rows
    /\ rows' = Put(rows, worker[w].inc.id, Row(worker[w].inc))
    /\ Step(w, [worker[w] EXCEPT !.pc = "count"])
    /\ UNCHANGED <<storeVars, decisionRows, metrics, environment>>

\* The INSERT fails, on a primary key already taken or for a reason of the
\* database's own: the error is logged, the loop goes on with the next
\* candidate and the metrics of this one are skipped.  The incident stays in
\* memory.
InsertFails(w) ==
    /\ worker[w].pc = "insert"
    /\ worker[w].inc.id \in DOMAIN rows \/ faults < MaxFaults
    /\ faults' = IF worker[w].inc.id \in DOMAIN rows THEN faults ELSE faults + 1
    /\ Step(w, [pc |-> "upsert", now |-> worker[w].now, todo |-> worker[w].todo])
    /\ UNCHANGED <<storeVars, database, metrics, answers, ingests, decides, restarts>>

\* correlateIncidents counts the occurrence it created.
CountCreated(w) ==
    /\ worker[w].pc = "count"
    /\ active' = [active EXCEPT ![SeverityOf[worker[w].inc.key]] = @ + 1]
    /\ recurred' = IF worker[w].inc.seq > 1 THEN recurred + 1 ELSE recurred
    /\ Step(w, [pc |-> "upsert", now |-> worker[w].now, todo |-> worker[w].todo])
    /\ UNCHANGED <<storeVars, database, resolved, environment>>

\* The candidates are dealt with and the request is answered.
AnswerBatch(w) ==
    /\ worker[w].pc = "upsert"
    /\ worker[w].todo = << >>
    /\ Step(w, Idle)
    /\ UNCHANGED <<storeVars, database, metrics, environment>>

-----------------------------------------------------------------------------
(* POST /incidents/{id}/decision.                                            *)

\* handleDecideIncident, after it has checked that the status is one of the two
\* verdicts.  Clients know IDs from GET /incidents, or make them up.
ReceiveDecision(w, id, status) ==
    /\ worker[w] = Idle
    /\ decides < MaxDecisions
    /\ decides' = decides + 1
    /\ Step(w, [pc |-> "decide", now |-> Now, id |-> id, status |-> status])
    /\ UNCHANGED <<storeVars, database, metrics, answers, ingests, faults, restarts>>

\* DecideIncident, up to the point where incidents.Store.Decide returns.
DecideInMemory(w) ==
    /\ worker[w].pc = "decide"
    /\ Decide(worker[w].id, worker[w].status, worker[w].now)
    /\ Step(w, [pc |-> "persist", now |-> worker[w].now, id |-> worker[w].id,
                status |-> worker[w].status,
                wasActive |-> incidents[worker[w].id].status = "active"])
    /\ UNCHANGED <<database, metrics, environment>>

\* incidents.Store.Decide does not know the ID.
DecideUnknown(w) ==
    /\ worker[w].pc = "decide"
    /\ worker[w].id \notin DOMAIN incidents
    /\ Answer(w, 404)
    /\ Step(w, Idle)
    /\ UNCHANGED <<storeVars, database, metrics, ingests, decides, faults, restarts>>

\* The UPDATE of DecideIncident, which may find no row.
UpdateRow(w) ==
    LET id == worker[w].id IN
    rows' = IF id \in DOMAIN rows
            THEN [rows EXCEPT ![id] = [@ EXCEPT !.status = worker[w].status,
                                                !.updated = Format(worker[w].now)]]
            ELSE rows

\* The row DecideIncident inserts into the audit table.
AuditRow(w) ==
    [id |-> worker[w].id, status |-> worker[w].status, at |-> Format(worker[w].now)]

\* Mutant of PersistDecision: the audit row is left out.
PersistStatusOnly(w) ==
    /\ worker[w].pc = "persist"
    /\ UpdateRow(w)
    /\ Step(w, [worker[w] EXCEPT !.pc = "uncount"])
    /\ UNCHANGED <<decisionRows, storeVars, metrics, environment>>

\* Mutant of PersistDecision: the audit row is inserted only if the UPDATE found
\* the incident.
PersistIfFound(w) ==
    /\ worker[w].pc = "persist"
    /\ UpdateRow(w)
    /\ decisionRows' = IF worker[w].id \in DOMAIN rows
                       THEN Append(decisionRows, AuditRow(w)) ELSE decisionRows
    /\ Step(w, [worker[w] EXCEPT !.pc = "uncount"])
    /\ UNCHANGED <<storeVars, metrics, environment>>

\* The transaction of DecideIncident.  Foreign keys are not enforced, so the
\* decision is inserted whether or not the incident has a row.
PersistDecision(w) ==
    /\ worker[w].pc = "persist"
    /\ UpdateRow(w)
    /\ decisionRows' = Append(decisionRows, AuditRow(w))
    /\ Step(w, [worker[w] EXCEPT !.pc = "uncount"])
    /\ UNCHANGED <<storeVars, metrics, environment>>

\* The transaction fails and is rolled back.  The handler answers every error of
\* DecideIncident with 404; what Decide did in memory stays.
PersistFails(w) ==
    /\ worker[w].pc = "persist"
    /\ faults < MaxFaults
    /\ faults' = faults + 1
    /\ Answer(w, 404)
    /\ Step(w, Idle)
    /\ UNCHANGED <<storeVars, database, metrics, ingests, decides, restarts>>

\* The severity label of the incident a decision is about.
SeverityDecided(w) == SeverityOf[incidents[worker[w].id].key]

\* The resolved counter counts every decision that says so.
CountResolved(w) ==
    resolved' = IF worker[w].status = "resolved"
                THEN [resolved EXCEPT ![SeverityDecided(w)] = @ + 1]
                ELSE resolved

\* Mutant of CountDecided: the gauge goes down with every decision.
CountDecidedAlways(w) ==
    /\ worker[w].pc = "uncount"
    /\ active' = [active EXCEPT ![SeverityDecided(w)] = @ - 1]
    /\ CountResolved(w)
    /\ Answer(w, 200)
    /\ Step(w, Idle)
    /\ UNCHANGED <<storeVars, database, recurred, ingests, decides, faults, restarts>>

\* handleDecideIncident adjusts the metrics and answers.
CountDecided(w) ==
    /\ worker[w].pc = "uncount"
    /\ active' = IF worker[w].wasActive
                 THEN [active EXCEPT ![SeverityDecided(w)] = @ - 1]
                 ELSE active
    /\ CountResolved(w)
    /\ Answer(w, 200)
    /\ Step(w, Idle)
    /\ UNCHANGED <<storeVars, database, recurred, ingests, decides, faults, restarts>>

-----------------------------------------------------------------------------

\* Mutant of RestoredIncidents: closed incidents are not kept in memory.
RestoredOpenIncidents ==
    [id \in {x \in DOMAIN rows : rows[x].status = "active"} |-> Restored(id, rows[id])]

\* restore: every row becomes an incident.
RestoredIncidents == [id \in DOMAIN rows |-> Restored(id, rows[id])]

\* The rows of key.
OccurrencesOf(key) == {id \in DOMAIN rows : rows[id].key = key}

\* Mutant of RestoredHistories: the query has no ORDER BY.
UnorderedHistories(key) ==
    Ordered(OccurrencesOf(key), [id \in OccurrencesOf(key) |-> 0])

\* The histories restore may build: ORDER BY occurrence_key, occurrence_sequence.
RestoredHistories(key) ==
    Ordered(OccurrencesOf(key), [id \in OccurrencesOf(key) |-> rows[id].seq])

\* The decisions of the rows s, as restore reads them back.
Decisions(s) == [i \in DOMAIN s |-> [status |-> decisionRows[s[i]].status,
                                    at |-> Parse(decisionRows[s[i]].at)]]

\* The rows of the audit table about id.
DecisionsOn(id) == {n \in DOMAIN decisionRows : decisionRows[n].id = id}

\* Mutant of RestoredTrails: the query has no ORDER BY.
UnorderedTrails(id) ==
    {Decisions(s) : s \in Ordered(DecisionsOn(id), [n \in DecisionsOn(id) |-> 0])}

\* Mutant of RestoredTrails: decisions are written and never read back.
NoTrails(id) == {<< >>}

\* The audit trails restore may build: ORDER BY decided_at.
RestoredTrails(id) ==
    {Decisions(s) :
        s \in Ordered(DecisionsOn(id), [n \in DecisionsOn(id) |-> decisionRows[n].at])}

\* The process dies, with every request in flight, and a new one starts: NewStore,
\* restore and incidents.Store.Restore rebuild the maps from the tables, and the
\* metrics start from zero.
Restart ==
    /\ restarts < MaxRestarts
    /\ restarts' = restarts + 1
    /\ incidents' = RestoredIncidents
    /\ byOccurrence' \in {h \in [Keys -> UNION {RestoredHistories(k) : k \in Keys}] :
                             \A k \in Keys : h[k] \in RestoredHistories(k)}
    /\ LET decided == {decisionRows[n].id : n \in DOMAIN decisionRows} IN
       decisions' \in {d \in [decided -> UNION {RestoredTrails(id) : id \in decided}] :
                          \A id \in decided : d[id] \in RestoredTrails(id)}
    /\ active' = [s \in Severities |-> 0]
    /\ resolved' = [s \in Severities |-> 0]
    /\ recurred' = 0
    /\ worker' = [w \in Workers |-> Idle]
    /\ UNCHANGED <<database, answers, ingests, decides, faults>>

-----------------------------------------------------------------------------

ServiceInit ==
    /\ Init
    /\ rows = << >>
    /\ decisionRows = << >>
    /\ active = [s \in Severities |-> 0]
    /\ resolved = [s \in Severities |-> 0]
    /\ recurred = 0
    /\ worker = [w \in Workers |-> Idle]
    /\ answers = {}
    /\ ingests = 0 /\ decides = 0
    /\ faults = 0 /\ restarts = 0

\* What a request in flight does without waiting for anybody.
Serve(w) ==
    \/ UpsertCandidate(w) \/ InsertIncident(w) \/ InsertFails(w)
    \/ CountCreated(w) \/ AnswerBatch(w)
    \/ DecideInMemory(w) \/ DecideUnknown(w)
    \/ PersistDecision(w) \/ PersistFails(w) \/ CountDecided(w)

Receive(w) ==
    \/ \E batch \in Batches : ReceiveBatch(w, batch)
    \/ \E id \in DOMAIN incidents \cup {UnknownID}, status \in Verdicts :
           ReceiveDecision(w, id, status)

ServiceNext ==
    \/ \E w \in Workers : Serve(w) \/ Receive(w)
    \/ Restart

ServiceSpec == ServiceInit /\ [][ServiceNext]_serviceVars

-----------------------------------------------------------------------------
\* Where a request may stand while the store has the incidents ids.
Position(ids, r) ==
    \/ r = Idle
    \/ r \in [pc : {"upsert"}, now : Times, todo : Seq(Keys)]
    \/ \E id \in ids :
           r \in [pc : {"insert", "count"}, now : Times, todo : Seq(Keys),
                  inc : IncidentAt(id)]
    \/ r \in [pc : {"decide"}, now : Times, id : ids \cup {UnknownID},
              status : Verdicts]
    \/ r \in [pc : {"persist", "uncount"}, now : Times, id : ids,
              status : Verdicts, wasActive : BOOLEAN]

\* The types of the service's state; a request in flight refers only to
\* incidents the store has.
ServiceTypeOK ==
    /\ \A id \in DOMAIN incidents : incidents[id] \in IncidentAt(id)
    /\ byOccurrence \in [Keys -> Seq(DOMAIN incidents)]
    /\ \A id \in DOMAIN decisions : decisions[id] \in Seq(Decision)
    /\ \A id \in DOMAIN rows :
           rows[id] \in [key : Keys, seq : Nat \ {0}, status : Statuses,
                         created : Nat, updated : Nat]
    /\ active \in [Severities -> Int]
    /\ resolved \in [Severities -> Nat]
    /\ recurred \in Nat
    /\ \A w \in Workers : Position(DOMAIN incidents, worker[w])
    /\ ingests \in 0..MaxOccurrences /\ decides \in 0..MaxDecisions
    /\ faults \in 0..MaxFaults /\ restarts \in 0..MaxRestarts

\* The trail of id holds a decision that the database knows as status at second.
InTrail(id, status, second) ==
    \E i \in DOMAIN Trail(id) :
        Trail(id)[i].status = status /\ Format(Trail(id)[i].at) = second

\* The audit table holds a decision on id with status, made at second.
InAudit(id, status, second) ==
    \E n \in DOMAIN decisionRows :
        decisionRows[n] = [id |-> id, status |-> status, at |-> second]

\* Memory is written first and the database follows: whatever the interleaving,
\* the failures and the crashes, the database never shows an incident or a
\* decision that the store, and so GET /incidents, does not show.
DatabaseNeverAhead ==
    /\ \A id \in DOMAIN rows :
           /\ id \in DOMAIN incidents
           /\ rows[id].key = incidents[id].key
           /\ rows[id].seq = incidents[id].seq
           /\ rows[id].created = Format(incidents[id].created)
           /\ rows[id].status # "active" => InTrail(id, rows[id].status, rows[id].updated)
    /\ \A n \in DOMAIN decisionRows :
           InTrail(decisionRows[n].id, decisionRows[n].status, decisionRows[n].at)

\* Unless a database operation failed, the incidents and decisions that memory has
\* and the database has not are on their way: each incident without a row has a
\* request about to insert it, and a trail is longer than its audit rows by the
\* requests about to persist one.  What a row says of its incident is not claimed.
NothingLeftUnsaved ==
    faults = 0 =>
        /\ \A id \in DOMAIN incidents \ DOMAIN rows :
               \E w \in Workers : worker[w].pc = "insert" /\ worker[w].inc.id = id
        /\ \A id \in DOMAIN incidents :
               Len(Trail(id)) =
                   Cardinality({n \in DOMAIN decisionRows : decisionRows[n].id = id})
                   + Cardinality({w \in Workers : worker[w].pc = "persist"
                                                  /\ worker[w].id = id})

\* A decision answered with 200 is in the audit table, and in the audit trail
\* that GET /decisions shows, from then on: across failures and crashes.
AnsweredDecisionsSurvive ==
    \A a \in answers :
        a.code = 200 => /\ InAudit(a.id, a.status, Format(a.at))
                        /\ InTrail(a.id, a.status, Format(a.at))

\* No incident is closed without a decision to show for it, in memory or in the
\* database, before or after a restart.
NoSilentClose ==
    /\ \A id \in DOMAIN incidents :
           incidents[id].status # "active" =>
               InTrail(id, incidents[id].status, Format(incidents[id].updated))
    /\ \A id \in DOMAIN rows :
           rows[id].status # "active" => InAudit(id, rows[id].status, rows[id].updated)

\* Until something fails, the gauge differs from the number of active incidents
\* exactly by the requests that have changed the store and have yet to say so,
\* and likewise the recurrence counter: no interleaving counts an occurrence
\* twice or forgets one.
MetricsBalanced ==
    faults = 0 /\ restarts = 0 =>
        /\ \A s \in Severities :
               active[s]
               + Cardinality({w \in Workers : worker[w].pc \in {"insert", "count"}
                                              /\ SeverityOf[worker[w].inc.key] = s})
               - Cardinality({w \in Workers :
                                 /\ worker[w].pc \in {"persist", "uncount"}
                                 /\ worker[w].wasActive
                                 /\ SeverityOf[incidents[worker[w].id].key] = s})
               = Cardinality({id \in DOMAIN incidents :
                                 /\ incidents[id].status = "active"
                                 /\ SeverityOf[incidents[id].key] = s})
        /\ recurred
           + Cardinality({w \in Workers : worker[w].pc \in {"insert", "count"}
                                          /\ worker[w].inc.seq > 1})
           = Cardinality({id \in DOMAIN incidents : incidents[id].seq > 1})

\* "kept consistent with SQLite by UpsertIncident/DecideIncident": when no
\* request is in flight, the tables hold exactly what the maps hold.  True of
\* requests that come one at a time.
ConsistentAtRest ==
    AllIdle =>
        /\ DOMAIN rows = DOMAIN incidents
        /\ \A id \in DOMAIN incidents : rows[id] = Row(incidents[id])
        /\ \A id \in DOMAIN incidents : \A i \in DOMAIN Trail(id) :
               InAudit(id, Trail(id)[i].status, Format(Trail(id)[i].at))

\* The seconds in which the decisions on id were made, in the order of its trail.
DecidedAt(id) == [i \in DOMAIN Trail(id) |-> Format(Trail(id)[i].at)]

\* The audit trail of an incident tells its decisions in the order they were made.
\* A restart at rest reads them back from one table, all incidents together, and
\* each trail has its decisions in that order again, but for those of one second.
\* True of requests that come one at a time.
AuditOrderSurvives ==
    [][ restarts' # restarts /\ AllIdle =>
            \A id \in DOMAIN incidents : DecidedAt(id)' = DecidedAt(id) ]_serviceVars

\* What the gauge is for: at rest it shows how many incidents are active.
GaugeAccurate ==
    AllIdle =>
        \A s \in Severities :
            active[s] = Cardinality({id \in DOMAIN incidents :
                                        /\ incidents[id].status = "active"
                                        /\ SeverityOf[incidents[id].key] = s})

\* "Returns an error if the incident does not exist so callers can return a
\* proper 404": a 404 means that there is no such incident.
NotFoundIsTrue == \A a \in answers : a.code = 404 => a.id \notin DOMAIN incidents

=============================================================================
