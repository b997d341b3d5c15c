----------------------- MODULE IncidentServiceProofs -------------------------
(***************************************************************************)
(* Proofs about IncidentService: the store, the database and the requests  *)
(* in flight, for any number of workers, any batches and any number of     *)
(* database failures and crashes.                                          *)
(***************************************************************************)
EXTENDS IncidentService, IncidentStoreProofs, StorageProofs

\* IDs that NewIncidentID makes, and times as the database writes them.
IDs == {NewIncidentID(k, n, t) : k \in Keys, n \in Nat \ {0}, t \in Times}
Seconds == {Format(t) : t \in Times}

RowRecord ==
    [key : Keys, seq : Nat \ {0}, status : Statuses, created : Seconds, updated : Seconds]

AuditRecord == [id : IDs, status : Verdicts, at : Seconds]

\* Trails trails hold a decision on id with status, made at second.
Recorded(trails, id, status, second) ==
    /\ id \in DOMAIN trails
    /\ \E i \in DOMAIN trails[id] :
           trails[id][i].status = status /\ Format(trails[id][i].at) = second

\* Audit table table holds it.
Audited(table, id, status, second) ==
    \E n \in DOMAIN table : table[n] = [id |-> id, status |-> status, at |-> second]

-----------------------------------------------------------------------------
(* The inductive invariant: the types, part by part, and what is known of a  *)
(* decision on its way from memory to the database to the client.            *)

StoreTypes ==
    /\ \A id \in DOMAIN incidents : incidents[id] \in IncidentAt(id)
    /\ DOMAIN incidents \subseteq IDs
    /\ byOccurrence \in [Keys -> Seq(DOMAIN incidents)]
    /\ \A id \in DOMAIN decisions : decisions[id] \in Seq(Decision)

TableTypes ==
    /\ IsFiniteSet(DOMAIN rows)
    /\ DOMAIN rows \subseteq IDs
    /\ \A id \in DOMAIN rows : rows[id] \in RowRecord
    /\ decisionRows \in Seq(AuditRecord)

MetricTypes ==
    /\ active \in [Severities -> Int]
    /\ resolved \in [Severities -> Nat]
    /\ recurred \in Nat

WorkerTypes ==
    /\ DOMAIN worker = Workers
    /\ \A w \in Workers : Position(DOMAIN incidents, worker[w])

CountTypes ==
    /\ ingests \in 0..MaxOccurrences /\ decides \in 0..MaxDecisions
    /\ faults \in 0..MaxFaults /\ restarts \in 0..MaxRestarts

\* What a request knows when it stands at r: the incident it is about to insert
\* was active when it was created, the decision it is about to persist is in the
\* trail, and the one it is about to answer is in the audit table as well.
Promise(r, trails, table) ==
    /\ r.pc \in {"insert", "count"} => r.inc.status = "active"
    /\ r.pc \in {"persist", "uncount"} =>
           Recorded(trails, r.id, r.status, Format(r.now))
    /\ r.pc = "uncount" => Audited(table, r.id, r.status, Format(r.now))

Promises == \A w \in Workers : Promise(worker[w], decisions, decisionRows)

AuditRecorded ==
    \A n \in DOMAIN decisionRows :
        Recorded(decisions, decisionRows[n].id, decisionRows[n].status, decisionRows[n].at)

ClosedRecorded ==
    \A id \in DOMAIN incidents :
        incidents[id].status # "active" =>
            Recorded(decisions, id, incidents[id].status, Format(incidents[id].updated))

ClosedAudited ==
    \A id \in DOMAIN rows :
        rows[id].status # "active" =>
            Audited(decisionRows, id, rows[id].status, rows[id].updated)

AnswersAudited ==
    \A a \in answers :
        a.code = 200 => Audited(decisionRows, a.id, a.status, Format(a.at))

ServiceTypes == StoreTypes /\ TableTypes /\ MetricTypes /\ WorkerTypes /\ CountTypes

ServiceInv ==
    /\ ServiceTypes
    /\ Promises
    /\ AuditRecorded
    /\ ClosedRecorded
    /\ ClosedAudited
    /\ AnswersAudited

-----------------------------------------------------------------------------

\* RFC 3339 reads back the seconds it has written.
LEMMA FormatParse ==
    /\ \A t \in Nat : Format(t) \in Nat
    /\ \A s \in Nat : Format(Parse(s)) = s
<1>1. TicksPerSecond \in Nat \ {0}
  BY ServiceConstants
<1>2. \A t \in Nat : Format(t) \in Nat
  BY <1>1 DEF Format
<1>3. ASSUME NEW s \in Nat PROVE Format(Parse(s)) = s
  <2>1. PICK x \in Nat : x = s * TicksPerSecond
    BY <1>1
  <2>2. PICK q \in Int, r \in Int : q = x \div TicksPerSecond /\ r = x % TicksPerSecond
    BY <1>1
  <2>3. x = TicksPerSecond * q + r /\ 0 <= r /\ r < TicksPerSecond
    BY <1>1, <2>2
  <2>4. (s - q) * TicksPerSecond = r
    BY <1>1, <2>1, <2>3
  <2>5. s - q = 0
    BY <1>1, <2>3, <2>4
  <2> QED
    BY <2>1, <2>2, <2>5 DEF Format, Parse
<1> QED
  BY <1>2, <1>3

\* Seconds are natural numbers, and restore turns them into clock readings.
LEMMA SecondFacts ==
    /\ Seconds \subseteq Nat
    /\ \A s \in Seconds : Parse(s) \in Times /\ Format(Parse(s)) = s
    /\ \A t \in Times : Format(t) \in Seconds
BY FormatParse, StoreConstants, ClockConstants DEF Seconds

\* A request that stands somewhere stands there still when incidents are added.
LEMMA PositionGrows ==
    ASSUME NEW ids, NEW more, ids \subseteq more, NEW r, Position(ids, r)
    PROVE  Position(more, r)
BY DEF Position

\* The fields of a request, by where it stands.
LEMMA PositionFields ==
    ASSUME NEW ids, NEW r, Position(ids, r)
    PROVE  /\ r = Idle \/ r.now \in Times
           /\ r.pc = "upsert" =>
                  r \in [pc : {"upsert"}, now : Times, todo : Seq(Keys)]
           /\ r.pc \in {"insert", "count"} =>
                  /\ r = [pc |-> r.pc, now |-> r.now, todo |-> r.todo, inc |-> r.inc]
                  /\ r.todo \in Seq(Keys)
                  /\ r.inc.id \in ids
                  /\ r.inc \in IncidentAt(r.inc.id)
           /\ r.pc = "decide" =>
                  /\ r.status \in Verdicts
                  /\ r.id \in ids \cup {UnknownID}
           /\ r.pc \in {"persist", "uncount"} =>
                  /\ r = [pc |-> r.pc, now |-> r.now, id |-> r.id,
                          status |-> r.status, wasActive |-> r.wasActive]
                  /\ r.status \in Verdicts
                  /\ r.id \in ids
                  /\ r.wasActive \in BOOLEAN
           /\ r.pc \in {"idle", "upsert", "insert", "count", "decide", "persist", "uncount"}
<1>1. CASE r = Idle
  BY <1>1 DEF Idle
<1>2. CASE r \in [pc : {"upsert"}, now : Times, todo : Seq(Keys)]
  BY <1>2
<1>3. ASSUME NEW id \in ids,
             r \in [pc : {"insert", "count"}, now : Times, todo : Seq(Keys),
                    inc : IncidentAt(id)]
      PROVE  /\ r.now \in Times
             /\ r.pc \in {"insert", "count"}
             /\ r = [pc |-> r.pc, now |-> r.now, todo |-> r.todo, inc |-> r.inc]
             /\ r.todo \in Seq(Keys)
             /\ r.inc.id \in ids
             /\ r.inc \in IncidentAt(r.inc.id)
  BY <1>3 DEF IncidentAt
<1>4. CASE r \in [pc : {"decide"}, now : Times, id : ids \cup {UnknownID},
                  status : Verdicts]
  BY <1>4
<1>5. CASE r \in [pc : {"persist", "uncount"}, now : Times, id : ids,
                  status : Verdicts, wasActive : BOOLEAN]
  BY <1>5
<1> QED
  BY <1>1, <1>2, <1>3, <1>4, <1>5 DEF Position

-----------------------------------------------------------------------------
(* What the store's operations do to the types and to the trails.            *)

\* Creating an occurrence adds an active incident, or puts one in the place of
\* another with the same ID, and leaves the trails alone.
LEMMA CreateStore ==
    ASSUME StoreTypes, NEW key \in Keys, NEW now \in Times, Create(key, now)
    PROVE  /\ StoreTypes'
           /\ LET inc == Occurrence(key, now) IN
              /\ inc \in IncidentAt(inc.id)
              /\ inc.id \in IDs
              /\ inc.status = "active"
              /\ DOMAIN incidents' = DOMAIN incidents \cup {inc.id}
              /\ incidents'[inc.id] = inc
              /\ \A x \in DOMAIN incidents : x # inc.id => incidents'[x] = incidents[x]
           /\ decisions' = decisions
<1> DEFINE inc == Occurrence(key, now)
           id == inc.id
           n == Len(byOccurrence[key]) + 1
<1>1. byOccurrence[key] \in Seq(DOMAIN incidents) /\ n \in Nat \ {0}
  BY DEF StoreTypes
<1>2. /\ inc = [id |-> id, key |-> key, seq |-> n, status |-> "active",
                created |-> now, updated |-> now]
      /\ id = NewIncidentID(key, n, now)
  BY DEF Occurrence
<1>3. /\ DOMAIN incidents' = DOMAIN incidents \cup {id}
      /\ incidents'[id] = inc
      /\ \A x \in DOMAIN incidents : x # id => incidents'[x] = incidents[x]
  BY DEF Create, Put
<1>4. /\ decisions' = decisions
      /\ byOccurrence' = [byOccurrence EXCEPT ![key] = Append(@, id)]
  BY DEF Create
<1>5. id \in IDs
  BY <1>1, <1>2 DEF IDs
<1> HIDE DEF inc, id, n
<1>6. inc \in IncidentAt(id)
  BY <1>1, <1>2 DEF IncidentAt, Statuses
<1>7. inc.status = "active"
  BY <1>2
<1>8. \A x \in DOMAIN incidents' : incidents'[x] \in IncidentAt(x)
  BY <1>3, <1>6 DEF StoreTypes
<1>9. byOccurrence' \in [Keys -> Seq(DOMAIN incidents')]
  <2>1. \A k \in Keys : byOccurrence[k] \in Seq(DOMAIN incidents')
    BY <1>3 DEF StoreTypes
  <2>2. Append(byOccurrence[key], id) \in Seq(DOMAIN incidents')
    BY <1>3, <2>1
  <2> QED
    BY <1>4, <2>1, <2>2 DEF StoreTypes
<1>10. StoreTypes'
  BY <1>3, <1>4, <1>5, <1>8, <1>9 DEF StoreTypes
<1> QED
  BY <1>3, <1>4, <1>5, <1>6, <1>7, <1>10 DEF inc, id

\* Deciding changes the status and the time of one incident and adds the decision
\* to its trail; no trail loses anything.
LEMMA DecideStore ==
    ASSUME StoreTypes, NEW id \in DOMAIN incidents, NEW status \in Verdicts,
           NEW now \in Times, Decide(id, status, now)
    PROVE  /\ StoreTypes'
           /\ DOMAIN incidents' = DOMAIN incidents
           /\ incidents'[id].status = status /\ incidents'[id].updated = now
           /\ incidents'[id].key = incidents[id].key
           /\ incidents'[id].seq = incidents[id].seq
           /\ incidents'[id].created = incidents[id].created
           /\ \A x \in DOMAIN incidents : x # id => incidents'[x] = incidents[x]
           /\ Recorded(decisions', id, status, Format(now))
           /\ \A x, st, sec : Recorded(decisions, x, st, sec)
                                  => Recorded(decisions', x, st, sec)
<1> DEFINE d == [status |-> status, at |-> now]
<1>1. /\ DOMAIN incidents' = DOMAIN incidents
      /\ incidents'[id] = [incidents[id] EXCEPT !.status = status, !.updated = now]
      /\ \A x \in DOMAIN incidents : x # id => incidents'[x] = incidents[x]
      /\ byOccurrence' = byOccurrence
  BY DEF Decide
<1>2. incidents[id] \in IncidentAt(id)
  BY DEF StoreTypes
<1>3. /\ incidents'[id] \in IncidentAt(id)
      /\ incidents'[id].status = status /\ incidents'[id].updated = now
      /\ incidents'[id].key = incidents[id].key
      /\ incidents'[id].seq = incidents[id].seq
      /\ incidents'[id].created = incidents[id].created
  BY <1>1, <1>2 DEF IncidentAt, Statuses
<1>4. /\ DOMAIN decisions' = DOMAIN decisions \cup {id}
      /\ decisions'[id] = Append(Trail(id), d)
      /\ \A x \in DOMAIN decisions : x # id => decisions'[x] = decisions[x]
  BY DEF Decide, Put
<1>5. d \in Decision
  BY DEF Decision
<1>6. Trail(id) \in Seq(Decision)
  <2>1. CASE id \in DOMAIN decisions
    BY <2>1 DEF StoreTypes, Trail
  <2>2. CASE id \notin DOMAIN decisions
    BY <2>2 DEF Trail
  <2> QED
    BY <2>1, <2>2
<1>7. /\ Append(Trail(id), d) \in Seq(Decision)
      /\ Len(Append(Trail(id), d)) = Len(Trail(id)) + 1
      /\ Len(Trail(id)) \in Nat
      /\ Append(Trail(id), d)[Len(Trail(id)) + 1] = d
      /\ \A i \in DOMAIN Trail(id) : /\ i \in DOMAIN Append(Trail(id), d)
                                     /\ Append(Trail(id), d)[i] = Trail(id)[i]
  BY <1>5, <1>6
<1>8. StoreTypes'
  <2>1. \A x \in DOMAIN incidents' : incidents'[x] \in IncidentAt(x)
    BY <1>1, <1>3 DEF StoreTypes
  <2>2. \A x \in DOMAIN decisions' : decisions'[x] \in Seq(Decision)
    BY <1>4, <1>7 DEF StoreTypes
  <2> QED
    BY <1>1, <2>1, <2>2 DEF StoreTypes
<1>9. Recorded(decisions', id, status, Format(now))
  <2>1. Len(Trail(id)) + 1 \in DOMAIN decisions'[id]
    BY <1>4, <1>7
  <2>2. decisions'[id][Len(Trail(id)) + 1] = d
    BY <1>4, <1>7
  <2> QED
    BY <1>4, <2>1, <2>2 DEF Recorded
<1>10. ASSUME NEW x, NEW st, NEW sec, Recorded(decisions, x, st, sec)
       PROVE  Recorded(decisions', x, st, sec)
  <2>1. CASE x = id
    <3>1. PICK i \in DOMAIN Trail(id) :
              Trail(id)[i].status = st /\ Format(Trail(id)[i].at) = sec
      BY <1>10, <2>1 DEF Recorded, Trail
    <3>2. i \in DOMAIN decisions'[id] /\ decisions'[id][i] = Trail(id)[i]
      BY <1>4, <1>7
    <3> QED
      BY <1>4, <2>1, <3>1, <3>2 DEF Recorded
  <2>2. CASE x # id
    BY <1>4, <1>10, <2>2 DEF Recorded
  <2> QED
    BY <2>1, <2>2
<1> QED
  BY <1>1, <1>3, <1>8, <1>9, <1>10

\* restore rebuilds a store with the same incidents as the table, and every row of
\* the audit table is in a trail again.
LEMMA RestartStore ==
    ASSUME TableTypes, Restart
    PROVE  /\ StoreTypes'
           /\ DOMAIN incidents' = DOMAIN rows
           /\ \A id \in DOMAIN rows : incidents'[id] = Restored(id, rows[id])
           /\ \A id, st, sec : Audited(decisionRows, id, st, sec)
                                   => Recorded(decisions', id, st, sec)
<1>1. /\ DOMAIN incidents' = DOMAIN rows
      /\ \A id \in DOMAIN rows : incidents'[id] = Restored(id, rows[id])
  BY DEF Restart, RestoredIncidents
<1>2. \A id \in DOMAIN rows : Restored(id, rows[id]) \in IncidentAt(id)
  <2> SUFFICES ASSUME NEW id \in DOMAIN rows
               PROVE  Restored(id, rows[id]) \in IncidentAt(id)
    OBVIOUS
  <2>1. rows[id] \in RowRecord
    BY DEF TableTypes
  <2> QED
    BY <2>1, SecondFacts DEF RowRecord, Restored, IncidentAt
<1>3. byOccurrence' \in [Keys -> Seq(DOMAIN rows)]
  <2>1. /\ byOccurrence' \in [Keys -> UNION {RestoredHistories(k) : k \in Keys}]
        /\ \A k \in Keys : byOccurrence'[k] \in RestoredHistories(k)
    BY DEF Restart
  <2>2. ASSUME NEW k \in Keys PROVE byOccurrence'[k] \in Seq(DOMAIN rows)
    <3>1. OccurrencesOf(k) \subseteq DOMAIN rows
      BY DEF OccurrencesOf
    <3>2. IsFiniteSet(OccurrencesOf(k))
      BY <3>1, FS_Subset DEF TableTypes
    <3>3. byOccurrence'[k] \in Ordered(OccurrencesOf(k),
                                  [id \in OccurrencesOf(k) |-> rows[id].seq])
      BY <2>1 DEF RestoredHistories
    <3>4. byOccurrence'[k] \in Seq(OccurrencesOf(k))
      BY <3>2, <3>3, OrderedEnumerates
    <3> QED
      BY <3>1, <3>4, SeqMonotonic
  <2> QED
    BY <2>1, <2>2
<1> DEFINE decided == {decisionRows[n].id : n \in DOMAIN decisionRows}
           Found(id) == {n \in DOMAIN decisionRows : decisionRows[n].id = id}
           Entry(n) == [status |-> decisionRows[n].status, at |-> Parse(decisionRows[n].at)]
<1>4. /\ DOMAIN decisions' = decided
      /\ \A id \in decided : decisions'[id] \in RestoredTrails(id)
  BY DEF Restart
<1>5. ASSUME NEW id \in decided
      PROVE  /\ decisions'[id] \in Seq(Decision)
             /\ \A n \in Found(id) :
                    \E i \in DOMAIN decisions'[id] : decisions'[id][i] = Entry(n)
  <2>1. DOMAIN decisionRows = 1..Len(decisionRows) /\ Len(decisionRows) \in Nat
    BY DEF TableTypes
  <2>2. IsFiniteSet(Found(id))
    <3>1. IsFiniteSet(1..Len(decisionRows))
      BY <2>1, FS_Interval
    <3> QED
      BY <2>1, <3>1, FS_Subset
  <2>3. PICK s \in Ordered(Found(id), [n \in Found(id) |-> decisionRows[n].at]) :
            decisions'[id] = [i \in DOMAIN s |-> Entry(s[i])]
    BY <1>4 DEF RestoredTrails, DecisionsOn, Decisions
  <2> HIDE DEF Found, Entry
  <2>4. /\ s \in Seq(Found(id))
        /\ DOMAIN s = 1..Len(s) /\ Len(s) \in Nat
        /\ \A x \in Found(id) : \E i \in 1..Len(s) : s[i] = x
    BY <2>2, <2>3, OrderedEnumerates
  <2>5. \A n \in Found(id) : Entry(n) \in Decision
    <3> SUFFICES ASSUME NEW n \in Found(id) PROVE Entry(n) \in Decision
      OBVIOUS
    <3>1. decisionRows[n] \in AuditRecord
      BY <2>1 DEF TableTypes, Found
    <3> QED
      BY <3>1, SecondFacts DEF AuditRecord, Decision, Entry
  <2>6. \A i \in 1..Len(s) : s[i] \in Found(id)
    BY <2>4
  <2>7. decisions'[id] \in [1..Len(s) -> Decision]
    BY <2>3, <2>4, <2>5, <2>6
  <2>8. decisions'[id] \in Seq(Decision)
    BY <2>4, <2>7, FunctionIsSeq
  <2> QED
    BY <2>3, <2>4, <2>8
<1>6. StoreTypes'
  BY <1>1, <1>2, <1>3, <1>4, <1>5 DEF StoreTypes, TableTypes
<1>7. ASSUME NEW id, NEW st, NEW sec, Audited(decisionRows, id, st, sec)
      PROVE  Recorded(decisions', id, st, sec)
  <2>1. PICK n \in DOMAIN decisionRows :
            decisionRows[n] = [id |-> id, status |-> st, at |-> sec]
    BY <1>7 DEF Audited
  <2>2. id \in decided /\ n \in Found(id) /\ Entry(n) = [status |-> st, at |-> Parse(sec)]
    BY <2>1
  <2>3. sec \in Seconds
    <3>1. decisionRows[n] \in AuditRecord
      BY DEF TableTypes
    <3> QED
      BY <2>1, <3>1 DEF AuditRecord
  <2>4. PICK i \in DOMAIN decisions'[id] : decisions'[id][i] = Entry(n)
    BY <1>5, <2>2
  <2>5. decisions'[id][i].status = st /\ decisions'[id][i].at = Parse(sec)
    BY <2>2, <2>4
  <2> QED
    BY <1>4, <2>2, <2>3, <2>5, SecondFacts DEF Recorded
<1> QED
  BY <1>1, <1>6, <1>7

-----------------------------------------------------------------------------

\* One request moves and nothing is taken out of the trails or the audit table:
\* the other requests stand where they stood and know what they knew.
LEMMA WorkerMoves ==
    ASSUME WorkerTypes, Promises, NEW w \in Workers, NEW r,
           worker' = [worker EXCEPT ![w] = r],
           DOMAIN incidents \subseteq DOMAIN incidents',
           Position(DOMAIN incidents', r),
           \A x, st, sec : Recorded(decisions, x, st, sec) => Recorded(decisions', x, st, sec),
           \A x, st, sec : Audited(decisionRows, x, st, sec)
                               => Audited(decisionRows', x, st, sec),
           Promise(r, decisions', decisionRows')
    PROVE  WorkerTypes' /\ Promises'
<1>1. DOMAIN worker' = Workers /\ worker'[w] = r
      /\ \A v \in Workers : v # w => worker'[v] = worker[v]
  BY DEF WorkerTypes
<1>2. \A v \in Workers : Position(DOMAIN incidents', worker'[v])
  BY <1>1, PositionGrows DEF WorkerTypes
<1>3. \A v \in Workers : Promise(worker'[v], decisions', decisionRows')
  BY <1>1 DEF Promises, Promise
<1> QED
  BY <1>1, <1>2, <1>3 DEF WorkerTypes, Promises

\* A request arrives.
LEMMA ReceiveInv ==
    ASSUME ServiceInv, NEW w \in Workers, Receive(w)
    PROVE  ServiceInv'
<1> USE DEF ServiceInv, ServiceTypes
<1>1. PICK r : /\ worker' = [worker EXCEPT ![w] = r]
               /\ Position(DOMAIN incidents, r)
               /\ r.pc \in {"upsert", "decide"}
               /\ CountTypes'
               /\ UNCHANGED <<storeVars, database, metrics, answers>>
  <2>1. ASSUME NEW batch \in Batches, ReceiveBatch(w, batch)
        PROVE  /\ Position(DOMAIN incidents, [pc |-> "upsert", now |-> Now, todo |-> batch])
               /\ CountTypes'
    <3>1. Now \in Times /\ CountTypes'
      BY <2>1, StoreConstants, ClockConstants DEF ReceiveBatch, Now, CountTypes
    <3> QED
      BY <3>1, ServiceConstants DEF Position
  <2>2. ASSUME NEW id \in DOMAIN incidents \cup {UnknownID}, NEW status \in Verdicts,
               ReceiveDecision(w, id, status)
        PROVE  /\ Position(DOMAIN incidents, [pc |-> "decide", now |-> Now, id |-> id,
                                              status |-> status])
               /\ CountTypes'
    <3>1. Now \in Times /\ CountTypes'
      BY <2>2, StoreConstants, ClockConstants DEF ReceiveDecision, Now, CountTypes
    <3> QED
      BY <3>1 DEF Position
  <2>3. ASSUME NEW batch \in Batches, ReceiveBatch(w, batch)
        PROVE  \E r : /\ worker' = [worker EXCEPT ![w] = r]
                      /\ Position(DOMAIN incidents, r)
                      /\ r.pc \in {"upsert", "decide"}
                      /\ CountTypes'
                      /\ UNCHANGED <<storeVars, database, metrics, answers>>
    <3> WITNESS [pc |-> "upsert", now |-> Now, todo |-> batch]
    <3> QED
      BY <2>1, <2>3 DEF ReceiveBatch, Step
  <2>4. ASSUME NEW id \in DOMAIN incidents \cup {UnknownID}, NEW status \in Verdicts,
               ReceiveDecision(w, id, status)
        PROVE  \E r : /\ worker' = [worker EXCEPT ![w] = r]
                      /\ Position(DOMAIN incidents, r)
                      /\ r.pc \in {"upsert", "decide"}
                      /\ CountTypes'
                      /\ UNCHANGED <<storeVars, database, metrics, answers>>
    <3> WITNESS [pc |-> "decide", now |-> Now, id |-> id, status |-> status]
    <3> QED
      BY <2>2, <2>4 DEF ReceiveDecision, Step
  <2> QED
    BY <2>3, <2>4 DEF Receive
<1>2. /\ incidents' = incidents /\ byOccurrence' = byOccurrence /\ decisions' = decisions
      /\ rows' = rows /\ decisionRows' = decisionRows /\ answers' = answers
      /\ active' = active /\ resolved' = resolved /\ recurred' = recurred
  BY <1>1 DEF storeVars, database, metrics
<1>3. Promise(r, decisions', decisionRows')
  BY <1>1 DEF Promise
<1>4. WorkerTypes' /\ Promises'
  BY <1>1, <1>2, <1>3, WorkerMoves
<1>5. StoreTypes' /\ TableTypes' /\ MetricTypes'
  BY <1>2 DEF StoreTypes, TableTypes, MetricTypes
<1> QED
  BY <1>1, <1>2, <1>4, <1>5 DEF AuditRecorded, ClosedRecorded, ClosedAudited,
                                AnswersAudited

\* A request that neither decides nor touches the tables moves on: the rest of
\* the invariant follows from what is known of the incidents.
LEMMA QuietStep ==
    ASSUME ServiceInv, NEW w \in Workers, NEW r,
           worker' = [worker EXCEPT ![w] = r],
           StoreTypes', MetricTypes', CountTypes',
           DOMAIN incidents \subseteq DOMAIN incidents',
           \A id \in DOMAIN incidents' :
               \/ incidents'[id].status = "active"
               \/ id \in DOMAIN incidents /\ incidents'[id] = incidents[id],
           UNCHANGED <<decisions, rows, decisionRows>>,
           \A a \in answers' : a \in answers \/ a.code # 200
                               \/ Audited(decisionRows, a.id, a.status, Format(a.at)),
           Position(DOMAIN incidents', r),
           Promise(r, decisions, decisionRows)
    PROVE  ServiceInv'
<1> USE DEF ServiceInv, ServiceTypes
<1>1. WorkerTypes' /\ Promises'
  BY WorkerMoves
<1>2. TableTypes'
  BY DEF TableTypes
<1>3. AuditRecorded' /\ ClosedAudited'
  BY DEF AuditRecorded, ClosedAudited
<1>4. ClosedRecorded'
  BY DEF ClosedRecorded
<1>5. AnswersAudited'
  BY DEF AnswersAudited
<1> QED
  BY <1>1, <1>2, <1>3, <1>4, <1>5

\* The steps of the correlation loop.
LEMMA BatchStepInv ==
    ASSUME ServiceInv, NEW w \in Workers,
           UpsertCandidate(w) \/ InsertFails(w) \/ CountCreated(w) \/ AnswerBatch(w)
    PROVE  ServiceInv'
<1> USE DEF ServiceInv, ServiceTypes
<1> DEFINE r0 == worker[w]
<1>0. Position(DOMAIN incidents, r0) /\ Promise(r0, decisions, decisionRows)
  BY DEF WorkerTypes, Promises
<1>1. CASE UpsertCandidate(w)
  <2> DEFINE key == Head(r0.todo)
             now == r0.now
  <2>1. r0.pc = "upsert" /\ r0.todo # << >>
    BY <1>1 DEF UpsertCandidate
  <2>2. /\ r0 \in [pc : {"upsert"}, now : Times, todo : Seq(Keys)]
        /\ r0.todo \in Seq(Keys) /\ now \in Times
    BY <1>0, <2>1, PositionFields DEF Idle
  <2>3. key \in Keys /\ Tail(r0.todo) \in Seq(Keys)
    BY <2>1, <2>2
  <2>4. /\ UNCHANGED <<rows, decisionRows, active, resolved, recurred, answers,
                       ingests, decides, faults, restarts>>
        /\ MetricTypes' /\ CountTypes'
    BY <1>1 DEF UpsertCandidate, database, metrics, environment, MetricTypes, CountTypes
  <2>5. CASE Ongoing(key)
    <3> DEFINE r == [r0 EXCEPT !.todo = Tail(r0.todo)]
    <3>1. r \in [pc : {"upsert"}, now : Times, todo : Seq(Keys)]
      BY <2>2, <2>3
    <3>2. /\ worker' = [worker EXCEPT ![w] = r]
          /\ UNCHANGED storeVars
      BY <1>1, <2>5 DEF UpsertCandidate, Step, Upsert, Create
    <3> HIDE DEF r
    <3>3. Position(DOMAIN incidents', r) /\ Promise(r, decisions, decisionRows)
      BY <2>2, <2>3, <3>1 DEF Position, Promise
    <3>4. /\ incidents' = incidents /\ byOccurrence' = byOccurrence
          /\ decisions' = decisions /\ StoreTypes'
      BY <3>2 DEF storeVars, StoreTypes
    <3> QED
      BY <2>4, <3>2, <3>3, <3>4, QuietStep
  <2>6. CASE ~Ongoing(key)
    <3> DEFINE inc == Occurrence(key, now)
               r == [pc |-> "insert", now |-> now, todo |-> Tail(r0.todo), inc |-> inc]
    <3>1. worker' = [worker EXCEPT ![w] = r] /\ Create(key, now)
      BY <1>1, <2>6 DEF UpsertCandidate, Step, Upsert
    <3>2. /\ StoreTypes'
          /\ inc \in IncidentAt(inc.id)
          /\ inc.status = "active"
          /\ DOMAIN incidents' = DOMAIN incidents \cup {inc.id}
          /\ incidents'[inc.id] = inc
          /\ \A x \in DOMAIN incidents : x # inc.id => incidents'[x] = incidents[x]
          /\ decisions' = decisions
      BY <2>2, <2>3, <3>1, CreateStore
    <3> HIDE DEF inc
    <3>3. Position(DOMAIN incidents', r) /\ Promise(r, decisions, decisionRows)
      BY <2>2, <2>3, <3>2 DEF Position, Promise
    <3> HIDE DEF r
    <3>4. \A id \in DOMAIN incidents' :
              \/ incidents'[id].status = "active"
              \/ id \in DOMAIN incidents /\ incidents'[id] = incidents[id]
      BY <3>2
    <3> QED
      BY <2>4, <3>1, <3>2, <3>3, <3>4, QuietStep
  <2> QED
    BY <2>5, <2>6
<1>2. ASSUME NEW r, worker' = [worker EXCEPT ![w] = r], UNCHANGED storeVars,
             UNCHANGED database, UNCHANGED answers, MetricTypes', CountTypes',
             r = Idle \/ r \in [pc : {"upsert"}, now : Times, todo : Seq(Keys)]
      PROVE  ServiceInv'
  <2>1. Position(DOMAIN incidents', r) /\ Promise(r, decisions, decisionRows)
    BY <1>2 DEF Position, Promise, Idle
  <2>2. /\ incidents' = incidents /\ byOccurrence' = byOccurrence
        /\ decisions' = decisions /\ rows' = rows /\ decisionRows' = decisionRows
        /\ StoreTypes'
    BY <1>2 DEF storeVars, database, StoreTypes
  <2> QED
    BY <1>2, <2>1, <2>2, QuietStep
<1>3. CASE InsertFails(w)
  <2>1. r0.pc = "insert"
    BY <1>3 DEF InsertFails
  <2>2. r0.todo \in Seq(Keys) /\ r0.now \in Times
    BY <1>0, <2>1, PositionFields DEF Idle
  <2>3. MetricTypes' /\ CountTypes'
    BY <1>3, ServiceConstants DEF InsertFails, MetricTypes, CountTypes, metrics
  <2> QED
    BY <1>2, <1>3, <2>2, <2>3 DEF InsertFails, Step
<1>4. CASE CountCreated(w)
  <2>1. r0.pc = "count"
    BY <1>4 DEF CountCreated
  <2>2. r0.todo \in Seq(Keys) /\ r0.now \in Times /\ r0.inc.key \in Keys
    BY <1>0, <2>1, PositionFields DEF Idle, IncidentAt
  <2>3. SeverityOf[r0.inc.key] \in Severities
    BY <2>2, ServiceConstants
  <2>4. CountTypes' /\ MetricTypes'
    BY <1>4, <2>3 DEF CountCreated, MetricTypes, CountTypes, environment
  <2> QED
    BY <1>2, <1>4, <2>2, <2>4 DEF CountCreated, Step, environment
<1>5. CASE AnswerBatch(w)
  <2>1. MetricTypes' /\ CountTypes'
    BY <1>5 DEF AnswerBatch, MetricTypes, CountTypes, metrics, environment
  <2> QED
    BY <1>2, <1>5, <2>1 DEF AnswerBatch, Step, environment
<1> QED
  BY <1>1, <1>3, <1>4, <1>5

\* The INSERT writes an active incident, which needs no decision to show for it.
LEMMA InsertInv ==
    ASSUME ServiceInv, NEW w \in Workers, InsertIncident(w)
    PROVE  ServiceInv'
<1> USE DEF ServiceInv, ServiceTypes
<1> DEFINE r0 == worker[w]
           inc == r0.inc
           r == [r0 EXCEPT !.pc = "count"]
<1>1. /\ r0.pc = "insert" /\ r0.inc.id \notin DOMAIN rows
      /\ rows' = Put(rows, r0.inc.id, Row(r0.inc))
      /\ worker' = [worker EXCEPT ![w] = r]
      /\ UNCHANGED <<storeVars, decisionRows, metrics, environment>>
  BY DEF InsertIncident, Step
<1>2. Position(DOMAIN incidents, r0) /\ Promise(r0, decisions, decisionRows)
  BY DEF WorkerTypes, Promises
<1>3. /\ r0 = [pc |-> "insert", now |-> r0.now, todo |-> r0.todo, inc |-> inc]
      /\ r0.todo \in Seq(Keys) /\ r0.now \in Times
      /\ inc.id \in DOMAIN incidents
      /\ inc \in IncidentAt(inc.id)
      /\ inc.status = "active"
  BY <1>1, <1>2, PositionFields DEF Idle, Promise
<1>4. r \in [pc : {"count"}, now : Times, todo : Seq(Keys), inc : {inc}]
  BY <1>3
<1>5. /\ incidents' = incidents /\ byOccurrence' = byOccurrence /\ decisions' = decisions
      /\ decisionRows' = decisionRows /\ answers' = answers
      /\ StoreTypes' /\ MetricTypes' /\ CountTypes'
  BY <1>1 DEF storeVars, metrics, environment, StoreTypes, MetricTypes, CountTypes
<1> HIDE DEF r
<1>6. Position(DOMAIN incidents', r) /\ Promise(r, decisions', decisionRows')
  BY <1>3, <1>4, <1>5 DEF Position, Promise
<1>7. WorkerTypes' /\ Promises'
  BY <1>1, <1>5, <1>6, WorkerMoves
<1>8. /\ DOMAIN rows' = DOMAIN rows \cup {inc.id}
      /\ rows'[inc.id] = Row(inc)
      /\ \A id \in DOMAIN rows : rows'[id] = rows[id]
  BY <1>1 DEF Put
<1>9. Row(inc) \in RowRecord /\ Row(inc).status = "active"
  BY <1>3, SecondFacts DEF Row, RowRecord, IncidentAt
<1>10. IsFiniteSet(DOMAIN rows')
  <2>1. IsFiniteSet(DOMAIN rows)
    BY DEF TableTypes
  <2>2. IsFiniteSet(DOMAIN rows \cup {inc.id})
    BY <2>1, FS_AddElement, Zenon
  <2> QED
    BY <1>8, <2>2, Zenon
<1>11. TableTypes'
  <2>1. DOMAIN rows' \subseteq IDs
    BY <1>3, <1>8 DEF TableTypes, StoreTypes
  <2>2. \A id \in DOMAIN rows' : rows'[id] \in RowRecord
    BY <1>8, <1>9 DEF TableTypes
  <2>3. (decisionRows \in Seq(AuditRecord))'
    BY <1>5 DEF TableTypes
  <2> QED
    BY <1>10, <2>1, <2>2, <2>3 DEF TableTypes
<1>12. ClosedAudited'
  BY <1>5, <1>8, <1>9 DEF ClosedAudited
<1> QED
  BY <1>5, <1>7, <1>11, <1>12 DEF AuditRecorded, ClosedRecorded, AnswersAudited

\* Deciding in memory puts the decision into the trail.
LEMMA DecideInMemoryInv ==
    ASSUME ServiceInv, NEW w \in Workers, DecideInMemory(w)
    PROVE  ServiceInv'
<1> USE DEF ServiceInv, ServiceTypes
<1> DEFINE r0 == worker[w]
           was == incidents[r0.id].status = "active"
           r == [pc |-> "persist", now |-> r0.now, id |-> r0.id, status |-> r0.status,
                 wasActive |-> was]
<1>1. /\ r0.pc = "decide" /\ r0.id \in DOMAIN incidents
      /\ Decide(r0.id, r0.status, r0.now)
      /\ worker' = [worker EXCEPT ![w] = r]
      /\ UNCHANGED <<database, metrics, environment>>
  BY DEF DecideInMemory, Step, Decide
<1>2. r0.status \in Verdicts /\ r0.now \in Times
  BY <1>1, PositionFields DEF WorkerTypes, Idle
<1>3. /\ StoreTypes'
      /\ DOMAIN incidents' = DOMAIN incidents
      /\ incidents'[r0.id].status = r0.status /\ incidents'[r0.id].updated = r0.now
      /\ \A x \in DOMAIN incidents : x # r0.id => incidents'[x] = incidents[x]
      /\ Recorded(decisions', r0.id, r0.status, Format(r0.now))
      /\ \A x, st, sec : Recorded(decisions, x, st, sec) => Recorded(decisions', x, st, sec)
  <2>1. PICK id, status, now : id = r0.id /\ status = r0.status /\ now = r0.now
    OBVIOUS
  <2>2. Decide(id, status, now)
    BY <1>1, <2>1 DEF Decide
  <2>3. id \in DOMAIN incidents /\ status \in Verdicts /\ now \in Times
    BY <1>1, <1>2, <2>1
  <2>4. /\ StoreTypes'
        /\ DOMAIN incidents' = DOMAIN incidents
        /\ incidents'[id].status = status /\ incidents'[id].updated = now
        /\ \A x \in DOMAIN incidents : x # id => incidents'[x] = incidents[x]
        /\ Recorded(decisions', id, status, Format(now))
        /\ \A x, st, sec : Recorded(decisions, x, st, sec)
                               => Recorded(decisions', x, st, sec)
    BY <2>2, <2>3, DecideStore
  <2> QED
    BY <2>1, <2>4
<1>4. /\ rows' = rows /\ decisionRows' = decisionRows /\ answers' = answers
      /\ TableTypes' /\ MetricTypes' /\ CountTypes'
  BY <1>1 DEF database, metrics, environment, TableTypes, MetricTypes, CountTypes
<1>5. was \in BOOLEAN
  OBVIOUS
<1> HIDE DEF was
<1>6. Position(DOMAIN incidents', r)
  BY <1>1, <1>2, <1>3, <1>5 DEF Position
<1>7. Promise(r, decisions', decisionRows')
  BY <1>3 DEF Promise
<1> HIDE DEF r
<1>8. WorkerTypes' /\ Promises'
  BY <1>1, <1>3, <1>4, <1>6, <1>7, WorkerMoves
<1>9. AuditRecorded' /\ ClosedAudited' /\ AnswersAudited'
  BY <1>3, <1>4 DEF AuditRecorded, ClosedAudited, AnswersAudited
<1>10. ClosedRecorded'
  BY <1>3 DEF ClosedRecorded
<1> QED
  BY <1>3, <1>4, <1>8, <1>9, <1>10

\* The transaction adds the audit row together with the status it explains.
LEMMA PersistInv ==
    ASSUME ServiceInv, NEW w \in Workers, PersistDecision(w)
    PROVE  ServiceInv'
<1> USE DEF ServiceInv, ServiceTypes
<1> DEFINE r0 == worker[w]
           id == r0.id
           d == [id |-> id, status |-> r0.status, at |-> Format(r0.now)]
           r == [r0 EXCEPT !.pc = "uncount"]
<1>1. /\ r0.pc = "persist"
      /\ decisionRows' = Append(decisionRows, d)
      /\ worker' = [worker EXCEPT ![w] = r]
      /\ UNCHANGED <<storeVars, metrics, environment>>
  BY DEF PersistDecision, Step, AuditRow
<1>2. rows' = IF id \in DOMAIN rows
              THEN [rows EXCEPT ![id] = [rows[id] EXCEPT !.status = r0.status,
                                                        !.updated = Format(r0.now)]]
              ELSE rows
  BY DEF PersistDecision, UpdateRow
<1>3. /\ r0 = [pc |-> "persist", now |-> r0.now, id |-> id, status |-> r0.status,
               wasActive |-> r0.wasActive]
      /\ r0.status \in Verdicts /\ r0.now \in Times /\ id \in DOMAIN incidents
      /\ r0.wasActive \in BOOLEAN
      /\ Recorded(decisions, id, r0.status, Format(r0.now))
  BY <1>1, PositionFields DEF WorkerTypes, Idle, Promises, Promise
<1>4. /\ incidents' = incidents /\ byOccurrence' = byOccurrence /\ decisions' = decisions
      /\ answers' = answers
      /\ StoreTypes' /\ MetricTypes' /\ CountTypes'
  BY <1>1 DEF storeVars, metrics, environment, StoreTypes, MetricTypes, CountTypes
<1>5. d \in AuditRecord
  BY <1>3, SecondFacts DEF AuditRecord, StoreTypes
<1>6. /\ decisionRows' \in Seq(AuditRecord)
      /\ DOMAIN decisionRows' = DOMAIN decisionRows \cup {Len(decisionRows) + 1}
      /\ decisionRows'[Len(decisionRows) + 1] = d
      /\ \A n \in DOMAIN decisionRows : decisionRows'[n] = decisionRows[n]
  BY <1>1, <1>5 DEF TableTypes
<1>7. /\ Audited(decisionRows', id, r0.status, Format(r0.now))
      /\ \A x, st, sec : Audited(decisionRows, x, st, sec)
                             => Audited(decisionRows', x, st, sec)
  BY <1>6 DEF Audited
<1>8. r = [pc |-> "uncount", now |-> r0.now, id |-> id, status |-> r0.status,
           wasActive |-> r0.wasActive]
  <2>1. r0 \in [pc : {"persist"}, now : {r0.now}, id : {id}, status : {r0.status},
                wasActive : {r0.wasActive}]
    BY <1>3
  <2>2. r \in [pc : {"uncount"}, now : {r0.now}, id : {id}, status : {r0.status},
               wasActive : {r0.wasActive}]
    BY <2>1
  <2> HIDE DEF r
  <2> QED
    BY <2>2
<1> HIDE DEF r
<1>9. Position(DOMAIN incidents', r) /\ Promise(r, decisions', decisionRows')
  BY <1>3, <1>4, <1>7, <1>8 DEF Position, Promise
<1>10. WorkerTypes' /\ Promises'
  BY <1>1, <1>4, <1>7, <1>9, WorkerMoves
<1>11. /\ DOMAIN rows' = DOMAIN rows
       /\ \A x \in DOMAIN rows : x # id => rows'[x] = rows[x]
       /\ id \in DOMAIN rows => /\ rows'[id] \in RowRecord
                                /\ rows'[id].status = r0.status
                                /\ rows'[id].updated = Format(r0.now)
  <2>1. CASE id \in DOMAIN rows
    <3>1. rows[id] \in RowRecord /\ Format(r0.now) \in Seconds
      BY <1>3, <2>1, SecondFacts DEF TableTypes
    <3> QED
      BY <1>2, <1>3, <2>1, <3>1 DEF RowRecord, Statuses
  <2>2. CASE id \notin DOMAIN rows
    BY <1>2, <2>2
  <2> QED
    BY <2>1, <2>2
<1>12. TableTypes'
  BY <1>6, <1>11 DEF TableTypes
<1>13. ClosedAudited'
  BY <1>7, <1>11 DEF ClosedAudited
<1>14. AuditRecorded'
  BY <1>3, <1>4, <1>6 DEF AuditRecorded
<1>15. AnswersAudited'
  BY <1>4, <1>7 DEF AnswersAudited
<1>16. ClosedRecorded'
  BY <1>4 DEF ClosedRecorded
<1> QED
  BY <1>4, <1>10, <1>12, <1>13, <1>14, <1>15, <1>16

\* The steps that answer a decision.
LEMMA AnswerDecisionInv ==
    ASSUME ServiceInv, NEW w \in Workers,
           DecideUnknown(w) \/ PersistFails(w) \/ CountDecided(w)
    PROVE  ServiceInv'
<1> USE DEF ServiceInv, ServiceTypes
<1>1. /\ UNCHANGED storeVars /\ UNCHANGED database
      /\ worker' = [worker EXCEPT ![w] = Idle]
      /\ StoreTypes' /\ CountTypes'
  BY ServiceConstants DEF DecideUnknown, PersistFails, CountDecided, Step, StoreTypes,
                          CountTypes, storeVars
<1>2. MetricTypes'
  <2>1. CASE DecideUnknown(w) \/ PersistFails(w)
    BY <2>1 DEF DecideUnknown, PersistFails, metrics, MetricTypes
  <2>2. CASE CountDecided(w)
    <3>1. worker[w].id \in DOMAIN incidents
      BY <2>2, PositionFields DEF CountDecided, WorkerTypes
    <3>2. SeverityDecided(w) \in Severities
      BY <3>1, ServiceConstants DEF SeverityDecided, StoreTypes, IncidentAt
    <3> QED
      BY <2>2, <3>2 DEF CountDecided, CountResolved, MetricTypes
  <2> QED
    BY <2>1, <2>2
<1>3. \A a \in answers' : a \in answers \/ a.code # 200
                          \/ Audited(decisionRows, a.id, a.status, Format(a.at))
  <2>1. CASE DecideUnknown(w) \/ PersistFails(w)
    BY <2>1 DEF DecideUnknown, PersistFails, Answer
  <2>2. CASE CountDecided(w)
    BY <2>2 DEF CountDecided, Answer, Promises, Promise
  <2> QED
    BY <2>1, <2>2
<1>4. Position(DOMAIN incidents', Idle) /\ Promise(Idle, decisions, decisionRows)
  BY DEF Position, Promise, Idle
<1> QED
  BY <1>1, <1>2, <1>3, <1>4, QuietStep DEF storeVars, database

\* A crash loses what memory alone knew; what restore reads back satisfies the
\* invariant.
LEMMA RestartInv ==
    ASSUME ServiceInv, Restart
    PROVE  ServiceInv'
<1> USE DEF ServiceInv, ServiceTypes
<1>1. /\ StoreTypes'
      /\ DOMAIN incidents' = DOMAIN rows
      /\ \A id \in DOMAIN rows : incidents'[id] = Restored(id, rows[id])
      /\ \A id, st, sec : Audited(decisionRows, id, st, sec)
                              => Recorded(decisions', id, st, sec)
  BY RestartStore
<1>2. /\ rows' = rows /\ decisionRows' = decisionRows /\ answers' = answers
      /\ worker' = [w \in Workers |-> Idle]
      /\ TableTypes' /\ CountTypes'
  BY ServiceConstants DEF Restart, database, TableTypes, CountTypes
<1>3. MetricTypes'
  BY DEF Restart, MetricTypes
<1>4. WorkerTypes' /\ Promises'
  BY <1>2 DEF WorkerTypes, Position, Promises, Promise, Idle
<1>5. AuditRecorded'
  <2> SUFFICES ASSUME NEW n \in DOMAIN decisionRows
               PROVE  Recorded(decisions', decisionRows[n].id, decisionRows[n].status,
                               decisionRows[n].at)
    BY <1>2 DEF AuditRecorded
  <2>1. decisionRows[n] \in AuditRecord
    BY DEF TableTypes
  <2>2. Audited(decisionRows, decisionRows[n].id, decisionRows[n].status,
                decisionRows[n].at)
    BY <2>1 DEF Audited, AuditRecord
  <2> QED
    BY <1>1, <2>2
<1>6. ClosedRecorded'
  <2> SUFFICES ASSUME NEW id \in DOMAIN rows, incidents'[id].status # "active"
               PROVE  Recorded(decisions', id, incidents'[id].status,
                               Format(incidents'[id].updated))
    BY <1>1 DEF ClosedRecorded
  <2>1. rows[id] \in RowRecord
    BY DEF TableTypes
  <2>2. /\ incidents'[id].status = rows[id].status
        /\ incidents'[id].updated = Parse(rows[id].updated)
    BY <1>1 DEF Restored
  <2>3. Format(Parse(rows[id].updated)) = rows[id].updated
    BY <2>1, SecondFacts DEF RowRecord
  <2> QED
    BY <1>1, <2>2, <2>3 DEF ClosedAudited
<1> QED
  BY <1>1, <1>2, <1>3, <1>4, <1>5, <1>6 DEF ClosedAudited, AnswersAudited

-----------------------------------------------------------------------------

\* Every step of the service preserves the invariant.
LEMMA ServiceNextInv == ServiceInv /\ [ServiceNext]_serviceVars => ServiceInv'
<1> SUFFICES ASSUME ServiceInv, [ServiceNext]_serviceVars PROVE ServiceInv'
  OBVIOUS
<1>1. CASE UNCHANGED serviceVars
  <2>1. /\ UNCHANGED <<incidents, byOccurrence, decisions, rows, decisionRows, active>>
        /\ UNCHANGED <<resolved, recurred, worker, answers, ingests, decides, faults,
                       restarts>>
    BY <1>1 DEF serviceVars, storeVars, database, metrics, environment
  <2>2. ServiceTypes'
    BY <2>1 DEF ServiceInv, ServiceTypes, StoreTypes, TableTypes, MetricTypes,
                WorkerTypes, CountTypes
  <2> QED
    BY <2>1, <2>2 DEF ServiceInv, Promises, AuditRecorded, ClosedRecorded, ClosedAudited,
                      AnswersAudited
<1>2. CASE Restart
  BY <1>2, RestartInv
<1>3. ASSUME NEW w \in Workers, Receive(w) PROVE ServiceInv'
  BY <1>3, ReceiveInv
<1>4. ASSUME NEW w \in Workers, Serve(w) PROVE ServiceInv'
  BY <1>4, BatchStepInv, InsertInv, DecideInMemoryInv, PersistInv, AnswerDecisionInv
     DEF Serve
<1> QED
  BY <1>1, <1>2, <1>3, <1>4 DEF ServiceNext

\* An empty store on an empty database satisfies it.
LEMMA ServiceInitInv == ServiceInit => ServiceInv
<1> SUFFICES ASSUME ServiceInit PROVE ServiceInv
  OBVIOUS
<1>1. /\ incidents = << >> /\ decisions = << >> /\ rows = << >> /\ decisionRows = << >>
      /\ byOccurrence = [k \in Keys |-> << >>]
      /\ DOMAIN << >> = {}
  BY DEF ServiceInit, Init
<1>2. StoreTypes
  BY <1>1 DEF StoreTypes
<1>3. TableTypes
  BY <1>1, FS_EmptySet DEF TableTypes
<1>4. MetricTypes /\ CountTypes
  BY StoreConstants, ServiceConstants DEF ServiceInit, MetricTypes, CountTypes
<1>5. WorkerTypes /\ Promises
  BY DEF ServiceInit, WorkerTypes, Promises, Promise, Position, Idle
<1>6. AuditRecorded /\ ClosedRecorded /\ ClosedAudited /\ AnswersAudited
  BY <1>1 DEF ServiceInit, AuditRecorded, ClosedRecorded, ClosedAudited, AnswersAudited
<1> QED
  BY <1>2, <1>3, <1>4, <1>5, <1>6 DEF ServiceInv, ServiceTypes

\* The invariant holds in every reachable state, across failures and crashes.
THEOREM ServiceInvariant == ServiceSpec => []ServiceInv
BY ServiceInitInv, ServiceNextInv, PTL DEF ServiceSpec

\* InTrail and InAudit, in the terms of the invariant.
LEMMA InTrailRecorded ==
    ASSUME NEW id, NEW status, NEW second
    PROVE  /\ InTrail(id, status, second) <=> Recorded(decisions, id, status, second)
           /\ InAudit(id, status, second) <=> Audited(decisionRows, id, status, second)
BY DEF InTrail, InAudit, Recorded, Audited, Trail

\* A request in flight refers only to incidents the store has, and every map and
\* table keeps its type, whatever fails and whenever the process dies.
THEOREM ServiceKeepsTypes == ServiceSpec => []ServiceTypeOK
<1>1. ServiceInv => ServiceTypeOK
  <2> SUFFICES ASSUME ServiceInv PROVE ServiceTypeOK
    OBVIOUS
  <2>1. \A id \in DOMAIN rows :
            rows[id] \in [key : Keys, seq : Nat \ {0}, status : Statuses,
                          created : Nat, updated : Nat]
    BY SecondFacts DEF ServiceInv, ServiceTypes, TableTypes, RowRecord
  <2> QED
    BY <2>1 DEF ServiceInv, ServiceTypes, StoreTypes, MetricTypes, WorkerTypes,
                CountTypes, ServiceTypeOK
<1> QED
  BY <1>1, ServiceInvariant, PTL

\* A decision answered with 200 is in the audit table and in the trail from then
\* on, for any number of requests, failed transactions and crashes.
THEOREM ServiceAnsweredDecisionsSurvive == ServiceSpec => []AnsweredDecisionsSurvive
<1>1. ServiceInv => AnsweredDecisionsSurvive
  <2> SUFFICES ASSUME ServiceInv, NEW a \in answers, a.code = 200
               PROVE  /\ InAudit(a.id, a.status, Format(a.at))
                      /\ InTrail(a.id, a.status, Format(a.at))
    BY DEF AnsweredDecisionsSurvive
  <2>1. PICK n \in DOMAIN decisionRows :
            decisionRows[n] = [id |-> a.id, status |-> a.status, at |-> Format(a.at)]
    BY DEF ServiceInv, AnswersAudited, Audited
  <2>2. Recorded(decisions, a.id, a.status, Format(a.at))
    BY <2>1 DEF ServiceInv, AuditRecorded
  <2> QED
    BY <2>1, <2>2, InTrailRecorded DEF Audited
<1> QED
  BY <1>1, ServiceInvariant, PTL

\* No incident is closed, in memory or in the database, without a decision to
\* show for it.
THEOREM ServiceNoSilentClose == ServiceSpec => []NoSilentClose
<1>1. ServiceInv => NoSilentClose
  BY InTrailRecorded DEF ServiceInv, ClosedRecorded, ClosedAudited, NoSilentClose
<1> QED
  BY <1>1, ServiceInvariant, PTL

=============================================================================
