--------------------------- MODULE DatabaseProofs ----------------------------
(***************************************************************************)
(* Proofs about IncidentService: the database is never ahead of memory,    *)
(* and never behind for good unless one of its operations failed.  The     *)
(* second part counts: what memory has and the database has not is on its  *)
(* way, one request for each piece, and the metrics are off by exactly the *)
(* requests that have yet to adjust them.  In the third, requests come one *)
(* at a time, and memory and database agree whenever there is none.        *)
(***************************************************************************)
EXTENDS IncidentServiceProofs

\* Digests at the same sequence number tell keys and times apart.  A crash may
\* lose an occurrence that was never saved, and its number is then given out
\* again: the time is what tells the new occurrence from the old one.
DistinctDigests ==
    \A k1, k2 \in Keys, n \in Nat \ {0}, t1, t2 \in Times :
        Digest(k1, n, t1) = Digest(k2, n, t2) => k1 = k2 /\ t1 = t2

\* Every incident was created by a request that has been received; while that
\* request is at work, its key's history still counts the incident.
Births ==
    \A id \in DOMAIN incidents :
        \E t \in Times :
            /\ id = NewIncidentID(incidents[id].key, incidents[id].seq, t)
            /\ t < Now
            /\ \A w \in Workers :
                   worker[w] # Idle /\ worker[w].now = t =>
                       incidents[id].seq <= Len(byOccurrence[incidents[id].key])

\* A request at work has read the clock before the next one will.
Received == \A w \in Workers : worker[w] # Idle => worker[w].now < Now

\* x and y are the same occurrence.
SameOccurrence(x, y) == x.key = y.key /\ x.seq = y.seq /\ x.created = y.created

\* The incident a request has created is in the store as it was created, but for
\* its status.
Created ==
    \A w \in Workers :
        worker[w].pc \in {"insert", "count"} =>
            SameOccurrence(incidents[worker[w].inc.id], worker[w].inc)

\* A row is about the incident with its ID.
RowOf(row, inc) ==
    row.key = inc.key /\ row.seq = inc.seq /\ row.created = Format(inc.created)

RowsMatch ==
    \A id \in DOMAIN rows : id \in DOMAIN incidents /\ RowOf(rows[id], incidents[id])

MatchInv ==
    /\ ServiceInv
    /\ Births
    /\ Received
    /\ Created
    /\ RowsMatch

-----------------------------------------------------------------------------

\* A request that moves on without creating an incident or writing one, and a
\* store and a database in which nothing but status and time of update change.
LEMMA MatchKept ==
    ASSUME MatchInv, ServiceInv', NEW w \in Workers, NEW r,
           worker' = [worker EXCEPT ![w] = r],
           r = Idle \/ (worker[w] # Idle /\ r.now = worker[w].now),
           r.pc \in {"insert", "count"} =>
               worker[w].pc \in {"insert", "count"} /\ r.inc = worker[w].inc,
           DOMAIN incidents' = DOMAIN incidents,
           \A id \in DOMAIN incidents : SameOccurrence(incidents'[id], incidents[id]),
           DOMAIN rows' = DOMAIN rows,
           \A id \in DOMAIN rows : SameOccurrence(rows'[id], rows[id]),
           UNCHANGED <<byOccurrence, ingests, decides>>
    PROVE  MatchInv'
<1> USE DEF MatchInv
<1>1. worker'[w] = r /\ \A v \in Workers : v # w => worker'[v] = worker[v]
  BY DEF ServiceInv, ServiceTypes, WorkerTypes
<1>2. \A v \in Workers :
          /\ worker'[v] # Idle => worker[v] # Idle /\ worker'[v].now = worker[v].now
          /\ worker'[v].pc \in {"insert", "count"} =>
                 worker[v].pc \in {"insert", "count"} /\ worker'[v].inc = worker[v].inc
  BY <1>1
<1>3. Now' = Now
  BY DEF Now
<1>4. Births'
  <2> SUFFICES ASSUME NEW id \in DOMAIN incidents
               PROVE  \E t \in Times :
                          /\ id = NewIncidentID(incidents'[id].key, incidents'[id].seq, t)
                          /\ t < Now
                          /\ \A v \in Workers :
                                 worker'[v] # Idle /\ worker'[v].now = t =>
                                     incidents'[id].seq <= Len(byOccurrence[incidents'[id].key])
    BY <1>3 DEF Births, Idle
  <2>1. PICK t \in Times :
            /\ id = NewIncidentID(incidents[id].key, incidents[id].seq, t)
            /\ t < Now
            /\ \A v \in Workers :
                   worker[v] # Idle /\ worker[v].now = t =>
                       incidents[id].seq <= Len(byOccurrence[incidents[id].key])
    BY DEF Births
  <2> QED
    BY <1>2, <2>1 DEF SameOccurrence
<1>5. Received'
  BY <1>2, <1>3 DEF Received, Idle
<1>6. Created'
  <2> SUFFICES ASSUME NEW v \in Workers, worker'[v].pc \in {"insert", "count"}
               PROVE  SameOccurrence(incidents'[worker'[v].inc.id], worker'[v].inc)
    BY DEF Created
  <2>1. worker[v].pc \in {"insert", "count"} /\ worker'[v].inc = worker[v].inc
    BY <1>2
  <2>2. worker[v].inc.id \in DOMAIN incidents
    BY <2>1, PositionFields DEF ServiceInv, ServiceTypes, WorkerTypes
  <2> QED
    BY <2>1, <2>2 DEF Created, SameOccurrence
<1>7. RowsMatch'
  BY DEF RowsMatch, RowOf, SameOccurrence
<1> QED
  BY <1>4, <1>5, <1>6, <1>7

\* The ID of a new occurrence is not in use, although numbers may be given out
\* again after a crash.
LEMMA BirthFresh ==
    ASSUME DistinctDigests, MatchInv, NEW w \in Workers, NEW key \in Keys,
           worker[w] # Idle
    PROVE  Occurrence(key, worker[w].now).id \notin DOMAIN incidents
<1> DEFINE now == worker[w].now
           n == Len(byOccurrence[key]) + 1
           id == NewIncidentID(key, n, now)
<1>1. now \in Times
  BY PositionFields DEF MatchInv, ServiceInv, ServiceTypes, WorkerTypes
<1>2. n \in Nat \ {0} /\ Len(byOccurrence[key]) \in Nat
  BY DEF MatchInv, ServiceInv, ServiceTypes, StoreTypes
<1>3. SUFFICES ASSUME id \in DOMAIN incidents PROVE FALSE
  BY DEF Occurrence
<1>4. incidents[id].key \in Keys /\ incidents[id].seq \in Nat \ {0}
  BY <1>3 DEF MatchInv, ServiceInv, ServiceTypes, StoreTypes, IncidentAt
<1>5. PICK t \in Times :
          /\ id = NewIncidentID(incidents[id].key, incidents[id].seq, t)
          /\ \A v \in Workers :
                 worker[v] # Idle /\ worker[v].now = t =>
                     incidents[id].seq <= Len(byOccurrence[incidents[id].key])
  BY <1>3 DEF MatchInv, Births
<1>6. incidents[id].seq = n /\ Digest(incidents[id].key, n, t) = Digest(key, n, now)
  BY <1>5 DEF NewIncidentID
<1>7. incidents[id].key = key /\ t = now
  BY <1>1, <1>2, <1>4, <1>6 DEF DistinctDigests
<1>8. n <= Len(byOccurrence[key])
  BY <1>5, <1>6, <1>7
<1> QED
  BY <1>2, <1>8

\* Creating an occurrence overwrites nothing.
LEMMA CreateMatch ==
    ASSUME DistinctDigests, MatchInv, ServiceInv', NEW w \in Workers, NEW key \in Keys,
           NEW now, NEW r,
           worker[w] # Idle, now = worker[w].now, Create(key, now),
           worker' = [worker EXCEPT ![w] = r],
           r # Idle, r.now = now, r.inc = Occurrence(key, now),
           UNCHANGED <<rows, ingests, decides>>
    PROVE  /\ MatchInv'
           /\ Occurrence(key, now).id \notin DOMAIN incidents
<1> USE DEF MatchInv
<1> DEFINE inc == Occurrence(key, now)
           id == inc.id
           n == Len(byOccurrence[key]) + 1
<1>1. id \notin DOMAIN incidents
  BY BirthFresh
<1>2. now \in Times /\ now < Now
  BY PositionFields DEF ServiceInv, ServiceTypes, WorkerTypes, Received
<1>3. /\ DOMAIN incidents' = DOMAIN incidents \cup {id}
      /\ incidents'[id] = inc
      /\ \A x \in DOMAIN incidents : incidents'[x] = incidents[x]
      /\ inc \in IncidentAt(id)
  <2>1. StoreTypes
    BY DEF ServiceInv, ServiceTypes
  <2> QED
    BY <1>1, <1>2, <2>1, CreateStore
<1>4. inc.key = key /\ inc.seq = n /\ id = NewIncidentID(key, n, now)
  BY DEF Occurrence
<1>5. /\ byOccurrence[key] \in Seq(DOMAIN incidents)
      /\ byOccurrence' = [byOccurrence EXCEPT ![key] = Append(@, id)]
      /\ \A k \in Keys : Len(byOccurrence[k]) \in Nat
      /\ DOMAIN byOccurrence = Keys
  BY DEF Create, ServiceInv, ServiceTypes, StoreTypes
<1> HIDE DEF inc, id
<1>6. /\ Len(byOccurrence'[key]) = n
      /\ \A k \in Keys : k # key => byOccurrence'[k] = byOccurrence[k]
  BY <1>5
<1>7. worker'[w] = r /\ \A v \in Workers : v # w => worker'[v] = worker[v]
  BY DEF ServiceInv, ServiceTypes, WorkerTypes
<1>8. \A v \in Workers : worker'[v] # Idle => worker[v] # Idle /\ worker'[v].now = worker[v].now
  BY <1>7
<1>9. Now' = Now
  BY DEF Now
<1>10. Births'
  <2> SUFFICES ASSUME NEW x \in DOMAIN incidents'
               PROVE  \E t \in Times :
                          /\ x = NewIncidentID(incidents'[x].key, incidents'[x].seq, t)
                          /\ t < Now
                          /\ \A v \in Workers :
                                 worker'[v] # Idle /\ worker'[v].now = t =>
                                     incidents'[x].seq <= Len(byOccurrence'[incidents'[x].key])
    BY <1>9 DEF Births, Idle
  <2>1. CASE x = id
    <3>1. incidents'[x].seq <= Len(byOccurrence'[incidents'[x].key])
      BY <1>3, <1>4, <1>5, <1>6, <2>1
    <3> QED
      BY <1>2, <1>3, <1>4, <2>1, <3>1
  <2>2. CASE x # id
    <3>1. x \in DOMAIN incidents /\ incidents'[x] = incidents[x]
      BY <1>3, <2>2
    <3>2. incidents[x].key \in Keys /\ incidents[x].seq \in Nat
      BY <3>1 DEF ServiceInv, ServiceTypes, StoreTypes, IncidentAt
    <3>3. PICK t \in Times :
              /\ x = NewIncidentID(incidents[x].key, incidents[x].seq, t)
              /\ t < Now
              /\ \A v \in Workers :
                     worker[v] # Idle /\ worker[v].now = t =>
                         incidents[x].seq <= Len(byOccurrence[incidents[x].key])
      BY <3>1 DEF Births
    <3>4. Len(byOccurrence[incidents[x].key]) <= Len(byOccurrence'[incidents[x].key])
          /\ Len(byOccurrence'[incidents[x].key]) \in Nat
      BY <1>5, <1>6, <3>2
    <3>5. \A v \in Workers :
              worker'[v] # Idle /\ worker'[v].now = t =>
                  incidents[x].seq <= Len(byOccurrence'[incidents[x].key])
      BY <1>5, <1>8, <3>2, <3>3, <3>4
    <3> QED
      BY <3>1, <3>3, <3>5
  <2> QED
    BY <2>1, <2>2
<1>11. Received'
  BY <1>8, <1>9 DEF Received, Idle
<1>12. Created'
  <2> SUFFICES ASSUME NEW v \in Workers, worker'[v].pc \in {"insert", "count"}
               PROVE  SameOccurrence(incidents'[worker'[v].inc.id], worker'[v].inc)
    BY DEF Created
  <2>1. CASE v = w
    BY <1>3, <1>7, <2>1 DEF SameOccurrence, id, inc
  <2>2. CASE v # w
    <3>1. worker'[v] = worker[v] /\ worker[v].inc.id \in DOMAIN incidents
      BY <1>7, <2>2, PositionFields DEF ServiceInv, ServiceTypes, WorkerTypes
    <3> QED
      BY <1>3, <3>1 DEF Created, SameOccurrence
  <2> QED
    BY <2>1, <2>2
<1>13. RowsMatch'
  BY <1>3 DEF RowsMatch
<1> QED
  BY <1>1, <1>10, <1>11, <1>12, <1>13 DEF id, inc

\* The steps of requests.
LEMMA ServeMatch ==
    ASSUME DistinctDigests, MatchInv, ServiceInv', NEW w \in Workers, Serve(w)
    PROVE  MatchInv'
<1> DEFINE r0 == worker[w]
<1>0. /\ Position(DOMAIN incidents, r0)
      /\ StoreTypes /\ TableTypes
  BY DEF MatchInv, ServiceInv, ServiceTypes, WorkerTypes
<1>1. ASSUME NEW r, worker' = [worker EXCEPT ![w] = r],
             r = Idle \/ (r0 # Idle /\ r.now = r0.now),
             r.pc \in {"insert", "count"} =>
                 r0.pc \in {"insert", "count"} /\ r.inc = r0.inc,
             UNCHANGED storeVars, UNCHANGED rows, UNCHANGED <<ingests, decides>>
      PROVE  MatchInv'
  BY <1>1, MatchKept DEF storeVars, SameOccurrence
<1>2. CASE UpsertCandidate(w)
  <2> DEFINE key == Head(r0.todo)
             now == r0.now
  <2>1. /\ r0.pc = "upsert" /\ r0.todo # << >>
        /\ UNCHANGED rows /\ UNCHANGED <<ingests, decides>>
    BY <1>2 DEF UpsertCandidate, database, environment
  <2>2. r0 \in [pc : {"upsert"}, now : Times, todo : Seq(Keys)] /\ r0 # Idle
    BY <1>0, <2>1, PositionFields DEF Idle
  <2>3. CASE Ongoing(key)
    <3> DEFINE r == [r0 EXCEPT !.todo = Tail(r0.todo)]
    <3>1. /\ worker' = [worker EXCEPT ![w] = r]
          /\ UNCHANGED storeVars
      BY <1>2, <2>3 DEF UpsertCandidate, Step, Upsert, Create
    <3>2. r.pc = "upsert" /\ r.now = r0.now
      BY <2>2
    <3> HIDE DEF r
    <3> QED
      BY <1>1, <2>1, <2>2, <3>1, <3>2
  <2>4. CASE ~Ongoing(key)
    <3> DEFINE r == [pc |-> "insert", now |-> now, todo |-> Tail(r0.todo),
                     inc |-> Occurrence(key, now)]
    <3>1. worker' = [worker EXCEPT ![w] = r] /\ Create(key, now)
      BY <1>2, <2>4 DEF UpsertCandidate, Step, Upsert
    <3>2. key \in Keys
      BY <2>1, <2>2
    <3>3. r # Idle /\ r.now = now /\ r.inc = Occurrence(key, now)
      BY DEF Idle
    <3> HIDE DEF r
    <3> QED
      BY <2>1, <2>2, <3>1, <3>2, <3>3, CreateMatch
  <2> QED
    BY <2>3, <2>4
<1>3. CASE InsertIncident(w)
  <2> DEFINE r == [r0 EXCEPT !.pc = "count"]
             inc == r0.inc
  <2>1. /\ r0.pc = "insert" /\ inc.id \notin DOMAIN rows
        /\ rows' = Put(rows, inc.id, Row(inc))
        /\ worker' = [worker EXCEPT ![w] = r]
        /\ UNCHANGED storeVars /\ UNCHANGED <<ingests, decides>>
    BY <1>3 DEF InsertIncident, Step, environment
  <2>2. /\ r0 = [pc |-> "insert", now |-> r0.now, todo |-> r0.todo, inc |-> inc]
        /\ inc.id \in DOMAIN incidents
        /\ r0 # Idle
    BY <1>0, <2>1, PositionFields DEF Idle
  <2>3. r.pc = "count" /\ r.now = r0.now /\ r.inc = inc
    BY <2>2
  <2> HIDE DEF r
  <2>4. worker'[w] = r /\ \A v \in Workers : v # w => worker'[v] = worker[v]
    BY <2>1 DEF MatchInv, ServiceInv, ServiceTypes, WorkerTypes
  <2>5. Now' = Now /\ incidents' = incidents /\ byOccurrence' = byOccurrence
    BY <2>1 DEF Now, storeVars
  <2>6. \A v \in Workers :
            worker'[v] # Idle => worker[v] # Idle /\ worker'[v].now = worker[v].now
    BY <2>2, <2>3, <2>4
  <2>7. Births'
    <3> SUFFICES ASSUME NEW id \in DOMAIN incidents
                 PROVE  \E t \in Times :
                            /\ id = NewIncidentID(incidents[id].key, incidents[id].seq, t)
                            /\ t < Now
                            /\ \A v \in Workers :
                                   worker'[v] # Idle /\ worker'[v].now = t =>
                                       incidents[id].seq <= Len(byOccurrence[incidents[id].key])
      BY <2>5 DEF Births, Idle
    <3> QED
      BY <2>6 DEF MatchInv, Births
  <2>8. Received'
    BY <2>5, <2>6 DEF MatchInv, Received, Idle
  <2>9. Created'
    BY <2>1, <2>2, <2>3, <2>4, <2>5 DEF MatchInv, Created
  <2>10. RowsMatch'
    <3>1. RowOf(Row(inc), incidents[inc.id])
      BY <2>1 DEF MatchInv, Created, SameOccurrence, RowOf, Row
    <3>2. /\ DOMAIN rows' = DOMAIN rows \cup {inc.id}
          /\ rows'[inc.id] = Row(inc)
          /\ \A id \in DOMAIN rows : rows'[id] = rows[id]
      BY <2>1 DEF Put
    <3> QED
      BY <2>2, <2>5, <3>1, <3>2 DEF MatchInv, RowsMatch
  <2> QED
    BY <2>7, <2>8, <2>9, <2>10 DEF MatchInv
<1>4. CASE InsertFails(w) \/ CountCreated(w)
  <2> DEFINE r == [pc |-> "upsert", now |-> r0.now, todo |-> r0.todo]
  <2>1. /\ worker' = [worker EXCEPT ![w] = r]
        /\ UNCHANGED storeVars /\ UNCHANGED rows /\ UNCHANGED <<ingests, decides>>
        /\ r0 # Idle
    BY <1>4 DEF InsertFails, CountCreated, Step, environment, database, Idle
  <2>2. r.pc = "upsert" /\ r.now = r0.now
    OBVIOUS
  <2> HIDE DEF r
  <2> QED
    BY <1>1, <2>1, <2>2
<1>5. CASE AnswerBatch(w) \/ DecideUnknown(w) \/ PersistFails(w) \/ CountDecided(w)
  <2>1. /\ worker' = [worker EXCEPT ![w] = Idle]
        /\ UNCHANGED storeVars /\ UNCHANGED rows /\ UNCHANGED <<ingests, decides>>
    BY <1>5 DEF AnswerBatch, DecideUnknown, PersistFails, CountDecided, Step, environment,
                database
  <2> QED
    BY <1>1, <2>1 DEF Idle
<1>6. CASE DecideInMemory(w)
  <2> DEFINE r == [pc |-> "persist", now |-> r0.now, id |-> r0.id, status |-> r0.status,
                   wasActive |-> incidents[r0.id].status = "active"]
  <2>1. /\ r0.pc = "decide" /\ Decide(r0.id, r0.status, r0.now)
        /\ worker' = [worker EXCEPT ![w] = r]
        /\ UNCHANGED rows /\ UNCHANGED <<ingests, decides>>
    BY <1>6 DEF DecideInMemory, Step, database, environment
  <2>2. r.pc = "persist" /\ r.now = r0.now /\ r0 # Idle
    BY <2>1 DEF Idle
  <2> HIDE DEF r
  <2>3. \A id \in DOMAIN incidents : incidents[id] \in IncidentAt(id)
    BY <1>0 DEF StoreTypes
  <2>4. /\ DOMAIN incidents' = DOMAIN incidents
        /\ byOccurrence' = byOccurrence
        /\ \A id \in DOMAIN incidents : SameOccurrence(incidents'[id], incidents[id])
    BY <2>1, <2>3 DEF Decide, SameOccurrence, IncidentAt
  <2>5. \A id \in DOMAIN rows : SameOccurrence(rows'[id], rows[id])
    BY <2>1 DEF SameOccurrence
  <2> QED
    BY <2>1, <2>2, <2>4, <2>5, MatchKept
<1>7. CASE PersistDecision(w)
  <2> DEFINE r == [r0 EXCEPT !.pc = "uncount"]
             id == r0.id
  <2>1. /\ r0.pc = "persist"
        /\ worker' = [worker EXCEPT ![w] = r]
        /\ UNCHANGED storeVars /\ UNCHANGED <<ingests, decides>>
        /\ rows' = IF id \in DOMAIN rows
                   THEN [rows EXCEPT ![id] = [rows[id] EXCEPT !.status = r0.status,
                                                             !.updated = Format(r0.now)]]
                   ELSE rows
    BY <1>7 DEF PersistDecision, Step, environment, UpdateRow
  <2>2. r0 = [pc |-> "persist", now |-> r0.now, id |-> r0.id, status |-> r0.status,
              wasActive |-> r0.wasActive] /\ r0 # Idle
    BY <1>0, <2>1, PositionFields DEF Idle
  <2>3. r.pc = "uncount" /\ r.now = r0.now
    BY <2>2
  <2> HIDE DEF r
  <2>4. \A x \in DOMAIN rows : rows[x] \in RowRecord
    BY <1>0 DEF TableTypes
  <2>5. DOMAIN rows' = DOMAIN rows
        /\ \A x \in DOMAIN rows : SameOccurrence(rows'[x], rows[x])
    BY <2>1, <2>4 DEF SameOccurrence, RowRecord
  <2>6. \A x \in DOMAIN incidents : SameOccurrence(incidents[x], incidents[x])
    BY DEF SameOccurrence
  <2> QED
    BY <2>1, <2>2, <2>3, <2>5, <2>6, MatchKept DEF storeVars
<1> QED
  BY <1>2, <1>3, <1>4, <1>5, <1>6, <1>7 DEF Serve

\* A new request reads a clock that no earlier one has read.
LEMMA ReceiveMatch ==
    ASSUME MatchInv, ServiceInv', NEW w \in Workers, Receive(w)
    PROVE  MatchInv'
<1>1. /\ Now' = Now + 1 /\ Now \in Nat
      /\ UNCHANGED <<incidents, byOccurrence, rows>>
      /\ worker'[w].now = Now /\ worker'[w].pc \notin {"insert", "count"}
      /\ \A v \in Workers : v # w => worker'[v] = worker[v]
  <2>1. DOMAIN worker = Workers /\ ingests \in Nat /\ decides \in Nat
    BY DEF MatchInv, ServiceInv, ServiceTypes, WorkerTypes, CountTypes
  <2>2. ASSUME NEW batch \in Batches, ReceiveBatch(w, batch)
        PROVE  /\ Now' = Now + 1
               /\ UNCHANGED <<incidents, byOccurrence, rows>>
               /\ worker'[w].now = Now /\ worker'[w].pc \notin {"insert", "count"}
               /\ \A v \in Workers : v # w => worker'[v] = worker[v]
    BY <2>1, <2>2 DEF ReceiveBatch, Now, Step, storeVars, database
  <2>3. ASSUME NEW id \in DOMAIN incidents \cup {UnknownID}, NEW status \in Verdicts,
               ReceiveDecision(w, id, status)
        PROVE  /\ Now' = Now + 1
               /\ UNCHANGED <<incidents, byOccurrence, rows>>
               /\ worker'[w].now = Now /\ worker'[w].pc \notin {"insert", "count"}
               /\ \A v \in Workers : v # w => worker'[v] = worker[v]
    BY <2>1, <2>3 DEF ReceiveDecision, Now, Step, storeVars, database
  <2>4. Now \in Nat
    BY <2>1 DEF Now
  <2> QED
    BY <2>2, <2>3, <2>4 DEF Receive
<1>2. Births'
  <2> SUFFICES ASSUME NEW id \in DOMAIN incidents
               PROVE  \E t \in Times :
                          /\ id = NewIncidentID(incidents[id].key, incidents[id].seq, t)
                          /\ t < Now + 1
                          /\ \A v \in Workers :
                                 worker'[v] # Idle /\ worker'[v].now = t =>
                                     incidents[id].seq <= Len(byOccurrence[incidents[id].key])
    BY <1>1 DEF Births, Idle
  <2>1. PICK t \in Times :
            /\ id = NewIncidentID(incidents[id].key, incidents[id].seq, t)
            /\ t < Now
            /\ \A v \in Workers :
                   worker[v] # Idle /\ worker[v].now = t =>
                       incidents[id].seq <= Len(byOccurrence[incidents[id].key])
    BY DEF MatchInv, Births
  <2>2. t \in Nat /\ t < Now + 1
    BY <1>1, <2>1, StoreConstants
  <2>3. \A v \in Workers :
            worker'[v] # Idle /\ worker'[v].now = t =>
                incidents[id].seq <= Len(byOccurrence[incidents[id].key])
    BY <1>1, <2>1, <2>2
  <2> QED
    BY <2>1, <2>2, <2>3
<1>3. Received'
  <2> SUFFICES ASSUME NEW v \in Workers, worker'[v] # Idle PROVE worker'[v].now < Now + 1
    BY <1>1 DEF Received, Idle
  <2>1. CASE v = w
    BY <1>1, <2>1
  <2>2. CASE v # w
    <3>1. worker[v].now \in Times /\ worker[v].now < Now /\ worker'[v] = worker[v]
      BY <1>1, <2>2, PositionFields
         DEF MatchInv, ServiceInv, ServiceTypes, WorkerTypes, Received
    <3>2. \A a, b \in Nat : a < b => a < b + 1
      OBVIOUS
    <3>3. worker[v].now \in Nat
      BY <3>1, StoreConstants
    <3>4. worker[v].now < Now + 1
      BY <1>1, <3>1, <3>2, <3>3
    <3> QED
      BY <3>1, <3>4
  <2> QED
    BY <2>1, <2>2
<1>4. Created' /\ RowsMatch'
  BY <1>1 DEF MatchInv, Created, RowsMatch
<1> QED
  BY <1>2, <1>3, <1>4 DEF MatchInv

\* restore reads back incidents that memory had under the same IDs.
LEMMA RestartMatch ==
    ASSUME MatchInv, ServiceInv', Restart
    PROVE  MatchInv'
<1>1. /\ DOMAIN incidents' = DOMAIN rows
      /\ \A id \in DOMAIN rows : incidents'[id] = Restored(id, rows[id])
  BY RestartStore DEF MatchInv, ServiceInv, ServiceTypes
<1>2. /\ rows' = rows /\ worker' = [w \in Workers |-> Idle] /\ Now' = Now
  BY DEF Restart, database, Now
<1>3. \A id \in DOMAIN rows :
          /\ id \in DOMAIN incidents
          /\ incidents'[id].key = incidents[id].key
          /\ incidents'[id].seq = incidents[id].seq
          /\ incidents'[id].key = rows[id].key
          /\ incidents'[id].seq = rows[id].seq
          /\ incidents'[id].created = Parse(rows[id].created)
          /\ Format(Parse(rows[id].created)) = rows[id].created
  <2> SUFFICES ASSUME NEW id \in DOMAIN rows
               PROVE  /\ id \in DOMAIN incidents
                      /\ incidents'[id].key = incidents[id].key
                      /\ incidents'[id].seq = incidents[id].seq
                      /\ incidents'[id].key = rows[id].key
                      /\ incidents'[id].seq = rows[id].seq
                      /\ incidents'[id].created = Parse(rows[id].created)
                      /\ Format(Parse(rows[id].created)) = rows[id].created
    OBVIOUS
  <2>1. rows[id].created \in Seconds
    BY DEF MatchInv, ServiceInv, ServiceTypes, TableTypes, RowRecord
  <2>2. /\ incidents'[id].key = rows[id].key
        /\ incidents'[id].seq = rows[id].seq
        /\ incidents'[id].created = Parse(rows[id].created)
    BY <1>1 DEF Restored
  <2> QED
    BY <2>1, <2>2, SecondFacts DEF MatchInv, RowsMatch, RowOf
<1>4. Births'
  <2> SUFFICES ASSUME NEW id \in DOMAIN rows
               PROVE  \E t \in Times :
                          /\ id = NewIncidentID(incidents'[id].key, incidents'[id].seq, t)
                          /\ t < Now
    BY <1>1, <1>2 DEF Births, Idle
  <2> QED
    BY <1>3 DEF MatchInv, Births
<1>5. Received' /\ Created'
  BY <1>2 DEF Received, Created, Idle
<1>6. RowsMatch'
  BY <1>1, <1>2, <1>3 DEF RowsMatch, RowOf
<1> QED
  BY <1>4, <1>5, <1>6 DEF MatchInv

\* Rows and incidents match in every reachable state.
THEOREM MatchInvariant == ASSUME DistinctDigests PROVE ServiceSpec => []MatchInv
<1>1. ServiceInit => MatchInv
  <2> SUFFICES ASSUME ServiceInit PROVE MatchInv
    OBVIOUS
  <2>1. ServiceInv
    BY ServiceInitInv
  <2>2. DOMAIN incidents = {} /\ DOMAIN rows = {} /\ worker = [w \in Workers |-> Idle]
    BY DEF ServiceInit, Init
  <2> QED
    BY <2>1, <2>2 DEF MatchInv, Births, Received, Created, RowsMatch, Idle
<1>2. MatchInv /\ [ServiceNext]_serviceVars => MatchInv'
  <2> SUFFICES ASSUME MatchInv, [ServiceNext]_serviceVars PROVE MatchInv'
    OBVIOUS
  <2>1. ServiceInv'
    BY ServiceNextInv DEF MatchInv
  <2>2. CASE UNCHANGED serviceVars
    <3>1. UNCHANGED <<incidents, byOccurrence, rows, worker, ingests, decides>>
      BY <2>2 DEF serviceVars, storeVars, database, environment
    <3> QED
      BY <2>1, <3>1 DEF MatchInv, Births, Received, Created, RowsMatch, Now, Idle
  <2> QED
    BY <2>1, <2>2, ServeMatch, ReceiveMatch, RestartMatch DEF ServiceNext
<1> QED
  BY <1>1, <1>2, PTL DEF ServiceSpec

\* The database never shows an incident or a decision that memory does not show,
\* whatever the interleaving of requests, the failures and the crashes.
THEOREM ServiceDatabaseNeverAhead ==
    ASSUME DistinctDigests PROVE ServiceSpec => []DatabaseNeverAhead
<1>1. MatchInv => DatabaseNeverAhead
  <2> SUFFICES ASSUME MatchInv PROVE DatabaseNeverAhead
    OBVIOUS
  <2>1. ASSUME NEW id \in DOMAIN rows, rows[id].status # "active"
        PROVE  InTrail(id, rows[id].status, rows[id].updated)
    <3>1. PICK n \in DOMAIN decisionRows :
              decisionRows[n] = [id |-> id, status |-> rows[id].status,
                                 at |-> rows[id].updated]
      BY <2>1 DEF MatchInv, ServiceInv, ClosedAudited, Audited
    <3>2. Recorded(decisions, id, rows[id].status, rows[id].updated)
      BY <3>1 DEF MatchInv, ServiceInv, AuditRecorded
    <3> QED
      BY <3>2, InTrailRecorded
  <2>2. \A n \in DOMAIN decisionRows :
            InTrail(decisionRows[n].id, decisionRows[n].status, decisionRows[n].at)
    BY InTrailRecorded DEF MatchInv, ServiceInv, AuditRecorded
  <2>3. \A id \in DOMAIN rows :
            /\ id \in DOMAIN incidents
            /\ rows[id].key = incidents[id].key
            /\ rows[id].seq = incidents[id].seq
            /\ rows[id].created = Format(incidents[id].created)
    BY DEF MatchInv, RowsMatch, RowOf
  <2> QED
    BY <2>1, <2>2, <2>3 DEF DatabaseNeverAhead
<1> QED
  BY <1>1, MatchInvariant, PTL

-----------------------------------------------------------------------------

\* The audit rows of id, and the requests about to write one more.
AuditOf(id) == {n \in DOMAIN decisionRows : decisionRows[n].id = id}
Persisting(id) == {w \in Workers : worker[w].pc = "persist" /\ worker[w].id = id}

Inserted ==
    \A id \in DOMAIN incidents \ DOMAIN rows :
        \E w \in Workers : worker[w].pc = "insert" /\ worker[w].inc.id = id

\* The count holds of every ID, not only of those the store knows: a trail may
\* outlive its incident, which a crash loses when its row was never written.
Persisted ==
    \A id \in IDs :
        Len(Trail(id)) = Cardinality(AuditOf(id)) + Cardinality(Persisting(id))

SavedInv ==
    /\ ServiceInv
    /\ faults = 0 => Inserted /\ Persisted

-----------------------------------------------------------------------------

\* Two subsets of a finite set that differ in one element at most.
LEMMA CountsDiffer ==
    ASSUME NEW S, IsFiniteSet(S), NEW A \in SUBSET S, NEW B \in SUBSET S, NEW x \in S,
           \A y \in S : y # x => (y \in A <=> y \in B)
    PROVE  /\ Cardinality(A) \in Nat /\ Cardinality(B) \in Nat
           /\ (x \in A <=> x \in B) => Cardinality(B) = Cardinality(A)
           /\ x \notin A /\ x \in B => Cardinality(B) = Cardinality(A) + 1
           /\ x \in A /\ x \notin B => Cardinality(A) = Cardinality(B) + 1
<1>1. IsFiniteSet(A) /\ IsFiniteSet(B)
  BY FS_Subset
<1>2. Cardinality(A) \in Nat /\ Cardinality(B) \in Nat
  BY <1>1, FS_CardinalityType
<1>3. (x \in A <=> x \in B) => A = B
  OBVIOUS
<1>4. x \notin A /\ x \in B => B = A \cup {x}
  OBVIOUS
<1>5. x \in A /\ x \notin B => A = B \cup {x}
  OBVIOUS
<1>6. /\ x \notin A => Cardinality(A \cup {x}) = Cardinality(A) + 1
      /\ x \notin B => Cardinality(B \cup {x}) = Cardinality(B) + 1
  BY <1>1, FS_AddElement
<1> QED
  BY <1>2, <1>3, <1>4, <1>5, <1>6

\* The audit rows of an ID can be counted.
LEMMA AuditFinite ==
    ASSUME TableTypes, NEW id
    PROVE  IsFiniteSet(AuditOf(id)) /\ Cardinality(AuditOf(id)) \in Nat
<1>1. DOMAIN decisionRows = 1..Len(decisionRows) /\ Len(decisionRows) \in Nat
  BY DEF TableTypes
<1>2. IsFiniteSet(1..Len(decisionRows))
  BY <1>1, FS_Interval
<1>3. AuditOf(id) \subseteq 1..Len(decisionRows)
  BY <1>1 DEF AuditOf
<1>4. IsFiniteSet(AuditOf(id))
  BY <1>2, <1>3, FS_Subset
<1> QED
  BY <1>4, FS_CardinalityType

\* A step that saves or creates nothing without a request to show for it.
LEMMA InsertedKept ==
    ASSUME WorkerTypes, Inserted, NEW w \in Workers, NEW r,
           worker' = [worker EXCEPT ![w] = r],
           \A id \in DOMAIN incidents' \ DOMAIN rows' :
               \/ /\ id \in DOMAIN incidents \ DOMAIN rows
                  /\ worker[w].pc = "insert" => worker[w].inc.id # id
               \/ r.pc = "insert" /\ r.inc.id = id
    PROVE  Inserted'
<1>1. worker'[w] = r /\ \A v \in Workers : v # w => worker'[v] = worker[v]
  BY DEF WorkerTypes
<1> SUFFICES ASSUME NEW id \in DOMAIN incidents' \ DOMAIN rows'
             PROVE  \E v \in Workers : worker'[v].pc = "insert" /\ worker'[v].inc.id = id
  BY DEF Inserted
<1>2. CASE r.pc = "insert" /\ r.inc.id = id
  BY <1>1, <1>2
<1>3. CASE /\ id \in DOMAIN incidents \ DOMAIN rows
           /\ worker[w].pc = "insert" => worker[w].inc.id # id
  <2>1. PICK v \in Workers : worker[v].pc = "insert" /\ worker[v].inc.id = id
    BY <1>3 DEF Inserted
  <2> QED
    BY <1>1, <1>3, <2>1
<1> QED
  BY <1>2, <1>3

\* A step of a request that is not about to persist a decision.
LEMMA PersistedKept ==
    ASSUME WorkerTypes, Persisted, NEW w \in Workers, NEW r,
           worker' = [worker EXCEPT ![w] = r],
           worker[w].pc # "persist", r.pc # "persist",
           UNCHANGED <<decisions, decisionRows>>
    PROVE  Persisted'
<1>1. worker'[w] = r /\ \A v \in Workers : v # w => worker'[v] = worker[v]
  BY DEF WorkerTypes
<1>2. \A id : Persisting(id)' = Persisting(id)
  BY <1>1 DEF Persisting
<1>3. \A id : AuditOf(id)' = AuditOf(id) /\ Trail(id)' = Trail(id)
  BY DEF AuditOf, Trail
<1> QED
  BY <1>2, <1>3 DEF Persisted

\* A request that changes nothing that memory and database are to agree on.
LEMMA SavedQuiet ==
    ASSUME SavedInv, ServiceInv', NEW w \in Workers, NEW r,
           worker' = [worker EXCEPT ![w] = r],
           worker[w].pc \notin {"insert", "persist"}, r.pc \notin {"insert", "persist"},
           UNCHANGED <<storeVars, database, faults>>
    PROVE  SavedInv'
<1>1. WorkerTypes
  BY DEF SavedInv, ServiceInv, ServiceTypes
<1>2. UNCHANGED <<incidents, decisions, rows, decisionRows>>
  BY DEF storeVars, database
<1>3. CASE faults = 0
  <2>1. Inserted /\ Persisted
    BY <1>3 DEF SavedInv
  <2>2. Inserted'
    BY <1>1, <1>2, <2>1, InsertedKept
  <2>3. Persisted'
    BY <1>1, <1>2, <2>1, PersistedKept
  <2> QED
    BY <2>2, <2>3 DEF SavedInv
<1> QED
  BY <1>3 DEF SavedInv

\* The requests of POST /telemetry.
LEMMA BatchSaved ==
    ASSUME SavedInv, ServiceInv', NEW w \in Workers,
           \/ UpsertCandidate(w) \/ InsertIncident(w) \/ InsertFails(w)
           \/ CountCreated(w) \/ AnswerBatch(w)
    PROVE  SavedInv'
<1> DEFINE r0 == worker[w]
<1>0. StoreTypes /\ WorkerTypes /\ CountTypes /\ Position(DOMAIN incidents, r0)
  BY DEF SavedInv, ServiceInv, ServiceTypes, WorkerTypes
<1>1. ASSUME NEW r, worker' = [worker EXCEPT ![w] = r],
             r0.pc # "persist", r.pc # "persist",
             UNCHANGED <<decisions, decisionRows>>,
             faults' = 0 =>
                 /\ faults = 0
                 /\ \A id \in DOMAIN incidents' \ DOMAIN rows' :
                        \/ /\ id \in DOMAIN incidents \ DOMAIN rows
                           /\ r0.pc = "insert" => r0.inc.id # id
                        \/ r.pc = "insert" /\ r.inc.id = id
      PROVE  SavedInv'
  <2>1. CASE faults' = 0
    <3>1. Inserted /\ Persisted
      BY <1>1, <2>1 DEF SavedInv
    <3>2. Inserted'
      BY <1>0, <1>1, <2>1, <3>1, InsertedKept
    <3>3. Persisted'
      BY <1>0, <1>1, <3>1, PersistedKept
    <3> QED
      BY <3>2, <3>3 DEF SavedInv
  <2> QED
    BY <2>1 DEF SavedInv
<1>2. CASE UpsertCandidate(w)
  <2> DEFINE key == Head(r0.todo)
             now == r0.now
  <2>1. /\ r0.pc = "upsert" /\ r0.todo # << >>
        /\ UNCHANGED <<rows, decisionRows, faults>>
    BY <1>2 DEF UpsertCandidate, database, environment
  <2>2. r0 \in [pc : {"upsert"}, now : Times, todo : Seq(Keys)]
    BY <1>0, <2>1, PositionFields
  <2>3. CASE Ongoing(key)
    <3> DEFINE r == [r0 EXCEPT !.todo = Tail(r0.todo)]
    <3>1. worker' = [worker EXCEPT ![w] = r] /\ UNCHANGED <<incidents, decisions>>
      BY <1>2, <2>3 DEF UpsertCandidate, Step, Upsert, Create, storeVars
    <3>2. r.pc = "upsert"
      BY <2>2
    <3> HIDE DEF r
    <3> QED
      BY <1>1, <2>1, <3>1, <3>2
  <2>4. CASE ~Ongoing(key)
    <3> DEFINE inc == Occurrence(key, now)
               r == [pc |-> "insert", now |-> now, todo |-> Tail(r0.todo), inc |-> inc]
    <3>1. worker' = [worker EXCEPT ![w] = r] /\ Create(key, now)
      BY <1>2, <2>4 DEF UpsertCandidate, Step, Upsert
    <3>2. DOMAIN incidents' = DOMAIN incidents \cup {inc.id} /\ decisions' = decisions
      BY <3>1 DEF Create, Put
    <3>3. r.pc = "insert" /\ r.inc = inc
      OBVIOUS
    <3> HIDE DEF r, inc
    <3> QED
      BY <1>1, <2>1, <3>1, <3>2, <3>3
  <2> QED
    BY <2>3, <2>4
<1>3. CASE InsertIncident(w)
  <2> DEFINE r == [r0 EXCEPT !.pc = "count"]
  <2>1. /\ r0.pc = "insert"
        /\ rows' = Put(rows, r0.inc.id, Row(r0.inc))
        /\ worker' = [worker EXCEPT ![w] = r]
        /\ UNCHANGED <<incidents, decisions, decisionRows, faults>>
    BY <1>3 DEF InsertIncident, Step, environment, storeVars
  <2>2. r0 = [pc |-> "insert", now |-> r0.now, todo |-> r0.todo, inc |-> r0.inc]
    BY <1>0, <2>1, PositionFields
  <2>3. r.pc = "count"
    BY <2>2
  <2>4. DOMAIN rows' = DOMAIN rows \cup {r0.inc.id}
    BY <2>1 DEF Put
  <2> HIDE DEF r
  <2> QED
    BY <1>1, <2>1, <2>3, <2>4
<1>4. CASE InsertFails(w)
  <2> DEFINE r == [pc |-> "upsert", now |-> r0.now, todo |-> r0.todo]
  <2>1. /\ r0.pc = "insert"
        /\ worker' = [worker EXCEPT ![w] = r]
        /\ UNCHANGED <<incidents, decisions, rows, decisionRows>>
        /\ faults' = IF r0.inc.id \in DOMAIN rows THEN faults ELSE faults + 1
    BY <1>4 DEF InsertFails, Step, storeVars, database
  <2>2. r.pc = "upsert"
    OBVIOUS
  <2>3. faults' = 0 => faults = 0 /\ r0.inc.id \in DOMAIN rows
    BY <1>0, <2>1, ServiceConstants DEF CountTypes
  <2> HIDE DEF r
  <2> QED
    BY <1>1, <2>1, <2>2, <2>3
<1>5. CASE CountCreated(w)
  <2> DEFINE r == [pc |-> "upsert", now |-> r0.now, todo |-> r0.todo]
  <2>1. /\ r0.pc = "count" /\ worker' = [worker EXCEPT ![w] = r]
        /\ UNCHANGED <<storeVars, database, faults>>
    BY <1>5 DEF CountCreated, Step, environment
  <2>2. r.pc = "upsert"
    OBVIOUS
  <2> HIDE DEF r
  <2> QED
    BY <2>1, <2>2, SavedQuiet
<1>6. CASE AnswerBatch(w)
  <2>1. /\ r0.pc = "upsert" /\ worker' = [worker EXCEPT ![w] = Idle]
        /\ UNCHANGED <<storeVars, database, faults>>
    BY <1>6 DEF AnswerBatch, Step, environment
  <2>2. Idle.pc = "idle"
    BY DEF Idle
  <2> QED
    BY <2>1, <2>2, SavedQuiet
<1> QED
  BY <1>2, <1>3, <1>4, <1>5, <1>6

\* Deciding makes a trail longer by one, and its request owes the audit table a row.
LEMMA DecideSaved ==
    ASSUME SavedInv, ServiceInv', NEW w \in Workers, DecideInMemory(w)
    PROVE  SavedInv'
<1> DEFINE r0 == worker[w]
<1>0. StoreTypes /\ WorkerTypes /\ Position(DOMAIN incidents, r0)
  BY DEF SavedInv, ServiceInv, ServiceTypes, WorkerTypes
<1> DEFINE r == [pc |-> "persist", now |-> r0.now, id |-> r0.id, status |-> r0.status,
                 wasActive |-> incidents[r0.id].status = "active"]
<1>1. /\ r0.pc = "decide" /\ Decide(r0.id, r0.status, r0.now)
      /\ worker' = [worker EXCEPT ![w] = r]
      /\ UNCHANGED <<rows, decisionRows, faults>>
  BY DEF DecideInMemory, Step, database, environment
<1>2. r.pc = "persist" /\ r.id = r0.id
  OBVIOUS
<1> HIDE DEF r
<1>3. CASE faults = 0
  <2>1. Inserted /\ Persisted
    BY <1>3 DEF SavedInv
  <2>2. DOMAIN incidents' = DOMAIN incidents
    BY <1>1 DEF Decide
  <2>3. Inserted'
    BY <1>0, <1>1, <2>1, <2>2, InsertedKept
  <2>4. Persisted'
    <3> SUFFICES ASSUME NEW id \in IDs
                 PROVE  Len(Trail(id)') =
                            Cardinality(AuditOf(id)') + Cardinality(Persisting(id)')
      BY DEF Persisted
    <3>1. AuditOf(id)' = AuditOf(id) /\ Cardinality(AuditOf(id)) \in Nat
      BY <1>1, AuditFinite DEF AuditOf, SavedInv, ServiceInv, ServiceTypes
    <3>2. Trail(id) \in Seq(Decision)
      BY <1>0 DEF StoreTypes, Trail
    <3>3. worker'[w] = r /\ \A v \in Workers : v # w => worker'[v] = worker[v]
      BY <1>0, <1>1 DEF WorkerTypes
    <3>4. /\ Persisting(id) \in SUBSET Workers /\ Persisting(id)' \in SUBSET Workers
          /\ \A v \in Workers : v # w => (v \in Persisting(id) <=> v \in Persisting(id)')
          /\ w \notin Persisting(id)
          /\ w \in Persisting(id)' <=> id = r0.id
      BY <1>1, <1>2, <3>3 DEF Persisting
    <3>5. /\ Cardinality(Persisting(id)) \in Nat /\ Cardinality(Persisting(id)') \in Nat
          /\ id # r0.id => Cardinality(Persisting(id)') = Cardinality(Persisting(id))
          /\ id = r0.id => Cardinality(Persisting(id)') = Cardinality(Persisting(id)) + 1
      BY <3>4, CountsDiffer, ServiceConstants
    <3>6. id # r0.id => Trail(id)' = Trail(id)
      BY <1>1 DEF Decide, Put, Trail
    <3>7. id = r0.id => Len(Trail(id)') = Len(Trail(id)) + 1
      <4>1. id = r0.id =>
                Trail(id)' = Append(Trail(id), [status |-> r0.status, at |-> r0.now])
        BY <1>1 DEF Decide, Put, Trail
      <4> QED
        BY <3>2, <4>1
    <3>8. Len(Trail(id)) = Cardinality(AuditOf(id)) + Cardinality(Persisting(id))
      BY <2>1 DEF Persisted
    <3> QED
      BY <3>1, <3>5, <3>6, <3>7, <3>8
  <2> QED
    BY <2>3, <2>4 DEF SavedInv
<1> QED
  BY <1>1, <1>3 DEF SavedInv

\* Persisting pays the row: one audit row more, one request less that owes one.
LEMMA PersistSaved ==
    ASSUME SavedInv, ServiceInv', NEW w \in Workers, PersistDecision(w)
    PROVE  SavedInv'
<1> DEFINE r0 == worker[w]
           r == [r0 EXCEPT !.pc = "uncount"]
           n == Len(decisionRows) + 1
<1>0. WorkerTypes /\ TableTypes /\ Position(DOMAIN incidents, r0)
  BY DEF SavedInv, ServiceInv, ServiceTypes, WorkerTypes
<1>1. /\ r0.pc = "persist"
      /\ worker' = [worker EXCEPT ![w] = r]
      /\ UNCHANGED <<incidents, decisions, faults>>
      /\ DOMAIN rows' = DOMAIN rows
      /\ decisionRows' = Append(decisionRows, AuditRow(w))
  BY DEF PersistDecision, Step, environment, UpdateRow, storeVars
<1>2. r0 = [pc |-> "persist", now |-> r0.now, id |-> r0.id, status |-> r0.status,
            wasActive |-> r0.wasActive]
  BY <1>0, <1>1, PositionFields
<1>3. r.pc = "uncount"
  BY <1>2
<1>4. AuditRow(w).id = r0.id
  BY DEF AuditRow
<1> HIDE DEF r
<1>5. CASE faults = 0
  <2>1. Inserted /\ Persisted
    BY <1>5 DEF SavedInv
  <2>2. Inserted'
    BY <1>0, <1>1, <2>1, InsertedKept
  <2>3. Persisted'
    <3> SUFFICES ASSUME NEW id \in IDs
                 PROVE  Len(Trail(id)') =
                            Cardinality(AuditOf(id)') + Cardinality(Persisting(id)')
      BY DEF Persisted
    <3>1. Trail(id)' = Trail(id)
      BY <1>1 DEF Trail
    <3>2. worker'[w] = r /\ \A v \in Workers : v # w => worker'[v] = worker[v]
      BY <1>0, <1>1 DEF WorkerTypes
    <3>3. /\ Persisting(id) \in SUBSET Workers /\ Persisting(id)' \in SUBSET Workers
          /\ \A v \in Workers : v # w => (v \in Persisting(id) <=> v \in Persisting(id)')
          /\ w \in Persisting(id) <=> id = r0.id
          /\ w \notin Persisting(id)'
      BY <1>1, <1>3, <3>2 DEF Persisting
    <3>4. /\ Cardinality(Persisting(id)) \in Nat /\ Cardinality(Persisting(id)') \in Nat
          /\ id # r0.id => Cardinality(Persisting(id)') = Cardinality(Persisting(id))
          /\ id = r0.id => Cardinality(Persisting(id)) = Cardinality(Persisting(id)') + 1
      BY <3>3, CountsDiffer, ServiceConstants
    <3>5. /\ DOMAIN decisionRows = 1..Len(decisionRows) /\ Len(decisionRows) \in Nat
          /\ DOMAIN decisionRows' = 1..n
          /\ decisionRows'[n] = AuditRow(w)
          /\ \A i \in 1..Len(decisionRows) : decisionRows'[i] = decisionRows[i]
      <4>1. decisionRows \in Seq(AuditRecord) /\ decisionRows' \in Seq(AuditRecord)
        BY <1>0 DEF TableTypes, ServiceInv, ServiceTypes
      <4>2. PICK d : d = AuditRow(w)
        OBVIOUS
      <4> QED
        BY <1>1, <4>1, <4>2
    <3>6. /\ AuditOf(id) \in SUBSET (1..n) /\ AuditOf(id)' \in SUBSET (1..n)
          /\ \A i \in 1..n : i # n => (i \in AuditOf(id) <=> i \in AuditOf(id)')
          /\ n \notin AuditOf(id)
          /\ n \in AuditOf(id)' <=> id = r0.id
      BY <1>4, <3>5 DEF AuditOf
    <3>7. IsFiniteSet(1..n) /\ n \in 1..n
      BY <3>5, FS_Interval
    <3>8. /\ Cardinality(AuditOf(id)) \in Nat /\ Cardinality(AuditOf(id)') \in Nat
          /\ id # r0.id => Cardinality(AuditOf(id)') = Cardinality(AuditOf(id))
          /\ id = r0.id => Cardinality(AuditOf(id)') = Cardinality(AuditOf(id)) + 1
      <4> HIDE DEF n
      <4> QED
        BY <3>6, <3>7, CountsDiffer
    <3>9. Len(Trail(id)) = Cardinality(AuditOf(id)) + Cardinality(Persisting(id))
      BY <2>1 DEF Persisted
    <3> QED
      BY <3>1, <3>4, <3>8, <3>9
  <2> QED
    BY <2>2, <2>3 DEF SavedInv
<1> QED
  BY <1>1, <1>5 DEF SavedInv

\* restore rebuilds memory from the tables, and no request is left to owe anything.
LEMMA RestartSaved ==
    ASSUME SavedInv, ServiceInv', Restart
    PROVE  SavedInv'
<1>1. TableTypes
  BY DEF SavedInv, ServiceInv, ServiceTypes
<1>2. /\ DOMAIN incidents' = DOMAIN rows /\ UNCHANGED <<rows, decisionRows>>
      /\ worker' = [w \in Workers |-> Idle]
  BY DEF Restart, RestoredIncidents, database
<1>3. Inserted'
  BY <1>2 DEF Inserted
<1>4. Persisted'
  <2> SUFFICES ASSUME NEW id \in IDs
               PROVE  Len(Trail(id)') =
                          Cardinality(AuditOf(id)') + Cardinality(Persisting(id)')
    BY DEF Persisted
  <2>1. Persisting(id)' = {} /\ Cardinality({}) = 0
    BY <1>2, FS_EmptySet DEF Persisting, Idle
  <2>2. AuditOf(id)' = AuditOf(id) /\ IsFiniteSet(AuditOf(id))
        /\ Cardinality(AuditOf(id)) \in Nat
    BY <1>1, <1>2, AuditFinite DEF AuditOf
  <2> DEFINE decided == {decisionRows[n].id : n \in DOMAIN decisionRows}
  <2>3. /\ DOMAIN decisions' = decided
        /\ \A x \in decided : decisions'[x] \in RestoredTrails(x)
    BY DEF Restart
  <2>4. CASE id \in decided
    <3> DEFINE Entry(n) == [status |-> decisionRows[n].status,
                            at |-> Parse(decisionRows[n].at)]
    <3>1. PICK s \in Ordered(AuditOf(id), [n \in AuditOf(id) |-> decisionRows[n].at]) :
              decisions'[id] = [i \in DOMAIN s |-> Entry(s[i])]
      BY <2>3, <2>4 DEF RestoredTrails, DecisionsOn, Decisions, AuditOf
    <3>2. Len(s) = Cardinality(AuditOf(id)) /\ DOMAIN s = 1..Len(s)
      BY <2>2, <3>1, OrderedEnumerates
    <3> DEFINE m == Cardinality(AuditOf(id))
    <3> HIDE DEF Entry
    <3>3. decisions'[id] \in [1..m -> {Entry(x) : x \in {s[i] : i \in DOMAIN s}}]
      BY <3>1, <3>2
    <3>4. Len(decisions'[id]) = m
      BY <2>2, <3>3, FunctionIsSeq
    <3>5. Trail(id)' = decisions'[id]
      BY <2>3, <2>4 DEF Trail
    <3> QED
      BY <2>1, <2>2, <3>4, <3>5
  <2>5. CASE id \notin decided
    <3>1. Trail(id)' = << >> /\ AuditOf(id) = {}
      BY <2>3, <2>5 DEF Trail, AuditOf
    <3> QED
      BY <2>1, <2>2, <3>1
  <2> QED
    BY <2>4, <2>5
<1> QED
  BY <1>3, <1>4 DEF SavedInv

\* Every step of the service keeps the accounts of what is still to be saved.
LEMMA SavedNext == SavedInv /\ [ServiceNext]_serviceVars => SavedInv'
<1> SUFFICES ASSUME SavedInv, [ServiceNext]_serviceVars PROVE SavedInv'
  OBVIOUS
<1>1. ServiceInv'
  BY ServiceNextInv DEF SavedInv
<1>2. CASE UNCHANGED serviceVars
  <2>1. UNCHANGED <<incidents, decisions, rows, decisionRows, worker, faults>>
    BY <1>2 DEF serviceVars, storeVars, database, environment
  <2> QED
    BY <1>1, <2>1 DEF SavedInv, Inserted, Persisted, AuditOf, Persisting, Trail
<1>3. ASSUME NEW w \in Workers, DecideUnknown(w) \/ CountDecided(w)
      PROVE  SavedInv'
  <2>1. /\ worker[w].pc \in {"decide", "uncount"}
        /\ worker' = [worker EXCEPT ![w] = Idle]
        /\ UNCHANGED <<storeVars, database, faults>>
    BY <1>3 DEF DecideUnknown, CountDecided, Step
  <2>2. Idle.pc = "idle"
    BY DEF Idle
  <2> QED
    BY <1>1, <2>1, <2>2, SavedQuiet
<1>4. ASSUME NEW w \in Workers, PersistFails(w)
      PROVE  SavedInv'
  <2>1. faults' # 0
    BY <1>4, ServiceConstants DEF PersistFails, SavedInv, ServiceInv, ServiceTypes, CountTypes
  <2> QED
    BY <1>1, <2>1 DEF SavedInv
<1>5. ASSUME NEW w \in Workers, NEW batch \in Batches, ReceiveBatch(w, batch)
      PROVE  SavedInv'
  <2> DEFINE r == [pc |-> "upsert", now |-> Now, todo |-> batch]
  <2>1. /\ worker[w].pc = "idle" /\ worker' = [worker EXCEPT ![w] = r]
        /\ UNCHANGED <<storeVars, database, faults>>
    BY <1>5 DEF ReceiveBatch, Step, Idle
  <2>2. r.pc = "upsert"
    OBVIOUS
  <2> HIDE DEF r
  <2> QED
    BY <1>1, <2>1, <2>2, SavedQuiet
<1>6. ASSUME NEW w \in Workers, NEW id, NEW status, ReceiveDecision(w, id, status)
      PROVE  SavedInv'
  <2> DEFINE r == [pc |-> "decide", now |-> Now, id |-> id, status |-> status]
  <2>1. /\ worker[w].pc = "idle" /\ worker' = [worker EXCEPT ![w] = r]
        /\ UNCHANGED <<storeVars, database, faults>>
    BY <1>6 DEF ReceiveDecision, Step, Idle
  <2>2. r.pc = "decide"
    OBVIOUS
  <2> HIDE DEF r
  <2> QED
    BY <1>1, <2>1, <2>2, SavedQuiet
<1> QED
  BY <1>1, <1>2, <1>3, <1>4, <1>5, <1>6, BatchSaved, DecideSaved, PersistSaved, RestartSaved
     DEF ServiceNext, Serve, Receive

\* The accounts are balanced from the start.
LEMMA SavedInit == ServiceInit => SavedInv
<1> SUFFICES ASSUME ServiceInit PROVE SavedInv
  OBVIOUS
<1>1. ServiceInv
  BY ServiceInitInv
<1>2. /\ DOMAIN incidents = {} /\ DOMAIN decisions = {} /\ DOMAIN decisionRows = {}
      /\ worker = [w \in Workers |-> Idle]
  BY DEF ServiceInit, Init
<1>3. \A id \in IDs : Trail(id) = << >> /\ AuditOf(id) = {} /\ Persisting(id) = {}
  BY <1>2 DEF Trail, AuditOf, Persisting, Idle
<1>4. Len(<< >>) = 0 /\ Cardinality({}) = 0
  BY FS_EmptySet
<1>5. Persisted
  <2> SUFFICES ASSUME NEW id \in IDs
               PROVE  Len(Trail(id)) =
                          Cardinality(AuditOf(id)) + Cardinality(Persisting(id))
    BY DEF Persisted
  <2>1. /\ Len(Trail(id)) = 0
        /\ Cardinality(AuditOf(id)) = 0
        /\ Cardinality(Persisting(id)) = 0
    BY <1>3, <1>4
  <2> QED
    BY <2>1
<1>6. Inserted
  BY <1>2 DEF Inserted
<1> QED
  BY <1>1, <1>5, <1>6 DEF SavedInv

\* Unless a database operation failed, each unsaved incident has a request about
\* to insert it, and each trail is longer than its audit rows by exactly the
\* requests about to persist a decision.
THEOREM ServiceNothingLeftUnsaved == ServiceSpec => []NothingLeftUnsaved
<1>1. SavedInv => NothingLeftUnsaved
  <2> SUFFICES ASSUME SavedInv, faults = 0 PROVE NothingLeftUnsaved
    BY DEF NothingLeftUnsaved
  <2>1. DOMAIN incidents \subseteq IDs
    BY DEF SavedInv, ServiceInv, ServiceTypes, StoreTypes
  <2> QED
    BY <2>1 DEF SavedInv, Inserted, Persisted, AuditOf, Persisting, NothingLeftUnsaved
<1> QED
  BY <1>1, SavedInit, SavedNext, PTL DEF ServiceSpec

-----------------------------------------------------------------------------
(* The metrics.  Requests about to count what they created, requests about   *)
(* to count what they closed, and what the metrics are to show.              *)

Creating(s) ==
    {w \in Workers : worker[w].pc \in {"insert", "count"}
                     /\ SeverityOf[worker[w].inc.key] = s}
Closing(s) ==
    {w \in Workers : /\ worker[w].pc \in {"persist", "uncount"}
                     /\ worker[w].wasActive
                     /\ SeverityOf[incidents[worker[w].id].key] = s}
Open(s) ==
    {id \in DOMAIN incidents : /\ incidents[id].status = "active"
                               /\ SeverityOf[incidents[id].key] = s}
Recurring ==
    {w \in Workers : worker[w].pc \in {"insert", "count"} /\ worker[w].inc.seq > 1}
Recurrences == {id \in DOMAIN incidents : incidents[id].seq > 1}

Balance ==
    faults = 0 /\ restarts = 0 =>
        /\ \A s \in Severities :
               active[s] + Cardinality(Creating(s)) - Cardinality(Closing(s))
               = Cardinality(Open(s))
        /\ recurred + Cardinality(Recurring) = Cardinality(Recurrences)

\* The row that a request is about to insert is nobody else's, so the INSERT
\* fails only if the database does.
Inserting ==
    \A w \in Workers : worker[w].pc = "insert" =>
        /\ worker[w].inc.id \notin DOMAIN rows
        /\ \A v \in Workers :
               v # w /\ worker[v].pc = "insert" => worker[v].inc.id # worker[w].inc.id

BalanceInv ==
    /\ MatchInv
    /\ IsFiniteSet(DOMAIN incidents)
    /\ Inserting
    /\ Balance

\* A step that creates no incident and writes no row but the one it was to write.
LEMMA InsertingKept ==
    ASSUME WorkerTypes, Inserting, NEW w \in Workers, NEW r,
           worker' = [worker EXCEPT ![w] = r], r.pc # "insert",
           \A id \in DOMAIN rows' :
               id \in DOMAIN rows \/ (worker[w].pc = "insert" /\ worker[w].inc.id = id)
    PROVE  Inserting'
<1>1. worker'[w] = r /\ \A v \in Workers : v # w => worker'[v] = worker[v]
  BY DEF WorkerTypes
<1> QED
  BY <1>1 DEF Inserting

\* A request that moves on without touching the store's incidents or a metric,
\* and still has, or still has not, its occurrence or its decision to count.
LEMMA BalanceKept ==
    ASSUME WorkerTypes, Balance, NEW w \in Workers, NEW r,
           worker' = [worker EXCEPT ![w] = r],
           UNCHANGED <<incidents, active, recurred, faults, restarts>>,
           r.pc \in {"insert", "count"} <=> worker[w].pc \in {"insert", "count"},
           r.pc \in {"insert", "count"} => r.inc = worker[w].inc,
           r.pc \in {"persist", "uncount"} <=> worker[w].pc \in {"persist", "uncount"},
           r.pc \in {"persist", "uncount"} =>
               r.id = worker[w].id /\ r.wasActive = worker[w].wasActive
    PROVE  Balance'
<1>1. worker'[w] = r /\ \A v \in Workers : v # w => worker'[v] = worker[v]
  BY DEF WorkerTypes
<1>2. \A s : Creating(s)' = Creating(s)
  BY <1>1 DEF Creating
<1>3. \A s : Closing(s)' = Closing(s)
  BY <1>1 DEF Closing
<1>4. Recurring' = Recurring
  BY <1>1 DEF Recurring
<1>5. Recurrences' = Recurrences /\ \A s : Open(s)' = Open(s)
  BY DEF Recurrences, Open
<1> QED
  BY <1>2, <1>3, <1>4, <1>5 DEF Balance

\* A new occurrence is one more open incident, and one more to be counted.
LEMMA CreateBalance ==
    ASSUME DistinctDigests, BalanceInv, NEW w \in Workers, NEW key \in Keys, NEW now, NEW r,
           worker[w].pc = "upsert", now = worker[w].now, Create(key, now),
           worker' = [worker EXCEPT ![w] = r],
           r.pc = "insert", r.inc = Occurrence(key, now),
           UNCHANGED <<rows, active, recurred, faults, restarts>>
    PROVE  IsFiniteSet(DOMAIN incidents)' /\ Inserting' /\ Balance'
<1> DEFINE inc == Occurrence(key, now)
           id == inc.id
<1>0. /\ MatchInv /\ WorkerTypes /\ StoreTypes /\ IsFiniteSet(DOMAIN incidents)
      /\ IsFiniteSet(Workers) /\ SeverityOf \in [Keys -> Severities]
      /\ DOMAIN rows \subseteq DOMAIN incidents /\ MetricTypes
  BY ServiceConstants DEF BalanceInv, MatchInv, ServiceInv, ServiceTypes, RowsMatch
<1>1. worker[w] # Idle /\ now \in Times
  BY <1>0, PositionFields DEF Idle, WorkerTypes
<1>2. id \notin DOMAIN incidents
  BY <1>0, <1>1, BirthFresh
<1>3. /\ inc.status = "active" /\ inc.key = key
      /\ DOMAIN incidents' = DOMAIN incidents \cup {id}
      /\ incidents'[id] = inc
      /\ \A x \in DOMAIN incidents : incidents'[x] = incidents[x]
  BY <1>2 DEF Create, Put, Occurrence
<1>4. worker'[w] = r /\ \A v \in Workers : v # w => worker'[v] = worker[v]
  BY <1>0 DEF WorkerTypes
<1>5. /\ \A v \in Workers : worker[v].pc \in {"insert", "count"} =>
             worker[v].inc.id \in DOMAIN incidents
      /\ \A v \in Workers : worker[v].pc \in {"persist", "uncount"} =>
             worker[v].id \in DOMAIN incidents
  BY <1>0, PositionFields DEF WorkerTypes
<1> HIDE DEF inc, id
<1>6. r.inc = inc /\ inc.id = id
  BY DEF inc, id
<1>7. IsFiniteSet(DOMAIN incidents')
  BY <1>0, <1>3, FS_AddElement
<1>8. Inserting'
  BY <1>0, <1>2, <1>4, <1>5, <1>6 DEF Inserting, BalanceInv
<1>9. ASSUME faults = 0, restarts = 0, NEW s \in Severities
      PROVE  active'[s] + Cardinality(Creating(s)') - Cardinality(Closing(s)')
             = Cardinality(Open(s)')
  <2>1. /\ Creating(s) \in SUBSET Workers /\ Creating(s)' \in SUBSET Workers
        /\ \A v \in Workers : v # w => (v \in Creating(s) <=> v \in Creating(s)')
        /\ w \notin Creating(s)
        /\ w \in Creating(s)' <=> SeverityOf[key] = s
    BY <1>3, <1>4, <1>6 DEF Creating
  <2>2. /\ Cardinality(Creating(s)) \in Nat /\ Cardinality(Creating(s)') \in Nat
        /\ SeverityOf[key] = s =>
               Cardinality(Creating(s)') = Cardinality(Creating(s)) + 1
        /\ SeverityOf[key] # s => Cardinality(Creating(s)') = Cardinality(Creating(s))
    BY <1>0, <2>1, CountsDiffer
  <2>3. /\ Open(s) \in SUBSET DOMAIN incidents' /\ Open(s)' \in SUBSET DOMAIN incidents'
        /\ \A x \in DOMAIN incidents' : x # id => (x \in Open(s) <=> x \in Open(s)')
        /\ id \notin Open(s)
        /\ id \in Open(s)' <=> SeverityOf[key] = s
        /\ id \in DOMAIN incidents'
    BY <1>2, <1>3 DEF Open
  <2>4. /\ Cardinality(Open(s)) \in Nat /\ Cardinality(Open(s)') \in Nat
        /\ SeverityOf[key] = s => Cardinality(Open(s)') = Cardinality(Open(s)) + 1
        /\ SeverityOf[key] # s => Cardinality(Open(s)') = Cardinality(Open(s))
    BY <1>7, <2>3, CountsDiffer
  <2>5. Closing(s)' = Closing(s) /\ Cardinality(Closing(s)) \in Nat
    <3>1. Closing(s)' = Closing(s)
      BY <1>3, <1>4, <1>5 DEF Closing
    <3>2. Closing(s) \in SUBSET Workers
      BY DEF Closing
    <3> QED
      BY <1>0, <3>1, <3>2, FS_Subset, FS_CardinalityType
  <2>6. active[s] + Cardinality(Creating(s)) - Cardinality(Closing(s))
        = Cardinality(Open(s))
    BY <1>9 DEF BalanceInv, Balance
  <2>7. active[s] \in Int
    BY <1>0 DEF MetricTypes
  <2> QED
    BY <2>2, <2>4, <2>5, <2>6, <2>7
<1>10. ASSUME faults = 0, restarts = 0
       PROVE  recurred' + Cardinality(Recurring') = Cardinality(Recurrences')
  <2>1. /\ Recurring \in SUBSET Workers /\ Recurring' \in SUBSET Workers
        /\ \A v \in Workers : v # w => (v \in Recurring <=> v \in Recurring')
        /\ w \notin Recurring
        /\ w \in Recurring' <=> inc.seq > 1
    BY <1>4, <1>6 DEF Recurring
  <2>2. /\ Cardinality(Recurring) \in Nat /\ Cardinality(Recurring') \in Nat
        /\ inc.seq > 1 => Cardinality(Recurring') = Cardinality(Recurring) + 1
        /\ ~(inc.seq > 1) => Cardinality(Recurring') = Cardinality(Recurring)
    BY <1>0, <2>1, CountsDiffer
  <2>3. /\ Recurrences \in SUBSET DOMAIN incidents'
        /\ Recurrences' \in SUBSET DOMAIN incidents'
        /\ \A x \in DOMAIN incidents' : x # id => (x \in Recurrences <=> x \in Recurrences')
        /\ id \notin Recurrences
        /\ id \in Recurrences' <=> inc.seq > 1
        /\ id \in DOMAIN incidents'
    BY <1>2, <1>3 DEF Recurrences
  <2>4. /\ Cardinality(Recurrences) \in Nat /\ Cardinality(Recurrences') \in Nat
        /\ inc.seq > 1 => Cardinality(Recurrences') = Cardinality(Recurrences) + 1
        /\ ~(inc.seq > 1) => Cardinality(Recurrences') = Cardinality(Recurrences)
    BY <1>7, <2>3, CountsDiffer
  <2>5. recurred + Cardinality(Recurring) = Cardinality(Recurrences)
    BY <1>10 DEF BalanceInv, Balance
  <2>6. recurred \in Nat
    BY <1>0 DEF MetricTypes
  <2> QED
    BY <2>2, <2>4, <2>5, <2>6
<1> QED
  BY <1>7, <1>8, <1>9, <1>10 DEF Balance

\* correlateIncidents counts the occurrence its request created.
LEMMA CountCreatedBalance ==
    ASSUME BalanceInv, NEW w \in Workers, CountCreated(w)
    PROVE  Balance'
<1> DEFINE r0 == worker[w]
           r == [pc |-> "upsert", now |-> r0.now, todo |-> r0.todo]
           sev == SeverityOf[r0.inc.key]
<1>0. /\ WorkerTypes /\ IsFiniteSet(Workers) /\ SeverityOf \in [Keys -> Severities]
      /\ Position(DOMAIN incidents, r0) /\ IsFiniteSet(DOMAIN incidents) /\ MetricTypes
  BY ServiceConstants DEF BalanceInv, MatchInv, ServiceInv, ServiceTypes, WorkerTypes
<1>1. /\ r0.pc = "count"
      /\ active' = [active EXCEPT ![sev] = @ + 1]
      /\ recurred' = IF r0.inc.seq > 1 THEN recurred + 1 ELSE recurred
      /\ worker' = [worker EXCEPT ![w] = r]
      /\ UNCHANGED <<incidents, faults, restarts>>
  BY DEF CountCreated, Step, storeVars, environment
<1>2. worker'[w] = r /\ (\A v \in Workers : v # w => worker'[v] = worker[v])
      /\ r.pc = "upsert"
  BY <1>0, <1>1 DEF WorkerTypes
<1>3. sev \in Severities
  BY <1>0, <1>1, PositionFields DEF IncidentAt
<1> HIDE DEF r
<1>4. ASSUME faults = 0, restarts = 0, NEW s \in Severities
      PROVE  active'[s] + Cardinality(Creating(s)') - Cardinality(Closing(s)')
             = Cardinality(Open(s)')
  <2>1. /\ Creating(s) \in SUBSET Workers /\ Creating(s)' \in SUBSET Workers
        /\ \A v \in Workers : v # w => (v \in Creating(s) <=> v \in Creating(s)')
        /\ w \in Creating(s) <=> sev = s
        /\ w \notin Creating(s)'
    BY <1>1, <1>2 DEF Creating
  <2>2. /\ Cardinality(Creating(s)) \in Nat /\ Cardinality(Creating(s)') \in Nat
        /\ sev = s => Cardinality(Creating(s)) = Cardinality(Creating(s)') + 1
        /\ sev # s => Cardinality(Creating(s)') = Cardinality(Creating(s))
    <3> HIDE DEF sev
    <3> QED
      BY <1>0, <2>1, CountsDiffer
  <2>3. Closing(s)' = Closing(s) /\ Open(s)' = Open(s)
    BY <1>1, <1>2 DEF Closing, Open
  <2>4. Closing(s) \in SUBSET Workers /\ Open(s) \in SUBSET DOMAIN incidents
    BY DEF Closing, Open
  <2>5. Cardinality(Closing(s)) \in Nat /\ Cardinality(Open(s)) \in Nat
    BY <1>0, <2>4, FS_Subset, FS_CardinalityType
  <2>6. /\ active[s] \in Int
        /\ active'[s] = IF sev = s THEN active[s] + 1 ELSE active[s]
    BY <1>0, <1>1, <1>3 DEF MetricTypes
  <2>7. active[s] + Cardinality(Creating(s)) - Cardinality(Closing(s))
        = Cardinality(Open(s))
    BY <1>4 DEF BalanceInv, Balance
  <2> QED
    BY <2>2, <2>3, <2>5, <2>6, <2>7
<1>5. ASSUME faults = 0, restarts = 0
      PROVE  recurred' + Cardinality(Recurring') = Cardinality(Recurrences')
  <2>1. /\ Recurring \in SUBSET Workers /\ Recurring' \in SUBSET Workers
        /\ \A v \in Workers : v # w => (v \in Recurring <=> v \in Recurring')
        /\ w \in Recurring <=> r0.inc.seq > 1
        /\ w \notin Recurring'
    BY <1>1, <1>2 DEF Recurring
  <2>2. /\ Cardinality(Recurring) \in Nat /\ Cardinality(Recurring') \in Nat
        /\ r0.inc.seq > 1 => Cardinality(Recurring) = Cardinality(Recurring') + 1
        /\ ~(r0.inc.seq > 1) => Cardinality(Recurring') = Cardinality(Recurring)
    BY <1>0, <2>1, CountsDiffer
  <2>3. Recurrences' = Recurrences
    BY <1>1 DEF Recurrences
  <2>4. recurred + Cardinality(Recurring) = Cardinality(Recurrences) /\ recurred \in Nat
    BY <1>0, <1>5 DEF BalanceInv, Balance, MetricTypes
  <2> QED
    BY <1>1, <2>2, <2>3, <2>4
<1> QED
  BY <1>1, <1>4, <1>5 DEF Balance

\* A decision on an active incident leaves one incident less open, and one more
\* request to take it off the gauge; a decision on a closed one leaves both.
LEMMA DecideBalance ==
    ASSUME BalanceInv, NEW w \in Workers, DecideInMemory(w)
    PROVE  Balance' /\ DOMAIN incidents' = DOMAIN incidents
<1> DEFINE r0 == worker[w]
           was == incidents[r0.id].status = "active"
           sev == SeverityOf[incidents[r0.id].key]
           r == [pc |-> "persist", now |-> r0.now, id |-> r0.id, status |-> r0.status,
                 wasActive |-> was]
<1>0. /\ WorkerTypes /\ IsFiniteSet(Workers) /\ StoreTypes
      /\ Position(DOMAIN incidents, r0) /\ IsFiniteSet(DOMAIN incidents) /\ MetricTypes
  BY ServiceConstants DEF BalanceInv, MatchInv, ServiceInv, ServiceTypes, WorkerTypes
<1>1. /\ r0.pc = "decide" /\ Decide(r0.id, r0.status, r0.now)
      /\ worker' = [worker EXCEPT ![w] = r]
      /\ UNCHANGED <<active, recurred, faults, restarts>>
  BY DEF DecideInMemory, Step, metrics, environment
<1>2. /\ worker'[w] = r /\ \A v \in Workers : v # w => worker'[v] = worker[v]
      /\ r.pc = "persist" /\ r.id = r0.id /\ r.wasActive = was
  BY <1>0, <1>1 DEF WorkerTypes
<1>3. /\ r0.id \in DOMAIN incidents /\ r0.status # "active"
      /\ DOMAIN incidents' = DOMAIN incidents
      /\ incidents'[r0.id].status = r0.status
      /\ \A x \in DOMAIN incidents : /\ incidents'[x].key = incidents[x].key
                                     /\ incidents'[x].seq = incidents[x].seq
                                     /\ x # r0.id => incidents'[x] = incidents[x]
  <2>1. \A x \in DOMAIN incidents : incidents[x] \in IncidentAt(x)
    BY <1>0 DEF StoreTypes
  <2>2. r0.status \in Verdicts
    BY <1>0, <1>1, PositionFields
  <2> QED
    BY <1>1, <2>1, <2>2 DEF Decide, IncidentAt, Verdicts
<1>4. \A v \in Workers : worker[v].pc \in {"persist", "uncount"} =>
          worker[v].id \in DOMAIN incidents
  BY <1>0, PositionFields DEF WorkerTypes
<1> HIDE DEF r
<1>5. ASSUME faults = 0, restarts = 0, NEW s \in Severities
      PROVE  active'[s] + Cardinality(Creating(s)') - Cardinality(Closing(s)')
             = Cardinality(Open(s)')
  <2> DEFINE gone == was /\ sev = s
  <2>1. Creating(s)' = Creating(s)
    BY <1>1, <1>2 DEF Creating
  <2>2. Creating(s) \in SUBSET Workers
    BY DEF Creating
  <2>3. Cardinality(Creating(s)) \in Nat
    BY <1>0, <2>2, FS_Subset, FS_CardinalityType
  <2>4. /\ Closing(s) \in SUBSET Workers /\ Closing(s)' \in SUBSET Workers
        /\ \A v \in Workers : v # w => (v \in Closing(s) <=> v \in Closing(s)')
        /\ w \notin Closing(s)
        /\ w \in Closing(s)' <=> gone
    <3>1. Closing(s) \in SUBSET Workers /\ Closing(s)' \in SUBSET Workers
      BY DEF Closing
    <3>2. \A v \in Workers : v # w => (v \in Closing(s) <=> v \in Closing(s)')
      BY <1>2, <1>3, <1>4 DEF Closing
    <3>3. w \notin Closing(s)
      BY <1>1 DEF Closing
    <3>4. w \in Closing(s)' <=>
              r.wasActive /\ SeverityOf[incidents'[r0.id].key] = s
      BY <1>2 DEF Closing
    <3>5. incidents'[r0.id].key = incidents[r0.id].key
      BY <1>3
    <3>6. r.wasActive <=> was
      BY <1>2
    <3> QED
      BY <3>1, <3>2, <3>3, <3>4, <3>5, <3>6
  <2>5. /\ Open(s) \in SUBSET DOMAIN incidents /\ Open(s)' \in SUBSET DOMAIN incidents
        /\ \A x \in DOMAIN incidents : x # r0.id => (x \in Open(s) <=> x \in Open(s)')
        /\ r0.id \in Open(s) <=> gone
        /\ r0.id \notin Open(s)'
    BY <1>3 DEF Open
  <2> HIDE DEF gone
  <2>6. /\ Cardinality(Closing(s)) \in Nat /\ Cardinality(Closing(s)') \in Nat
        /\ gone => Cardinality(Closing(s)') = Cardinality(Closing(s)) + 1
        /\ ~gone => Cardinality(Closing(s)') = Cardinality(Closing(s))
    BY <1>0, <2>4, CountsDiffer
  <2>7. /\ Cardinality(Open(s)) \in Nat /\ Cardinality(Open(s)') \in Nat
        /\ gone => Cardinality(Open(s)) = Cardinality(Open(s)') + 1
        /\ ~gone => Cardinality(Open(s)') = Cardinality(Open(s))
    BY <1>0, <1>3, <2>5, CountsDiffer
  <2>8. /\ active[s] + Cardinality(Creating(s)) - Cardinality(Closing(s))
           = Cardinality(Open(s))
        /\ active[s] \in Int
    BY <1>0, <1>5 DEF BalanceInv, Balance, MetricTypes
  <2>9. active'[s] = active[s]
    BY <1>1
  <2> QED
    BY <2>1, <2>3, <2>6, <2>7, <2>8, <2>9
<1>6. Recurring' = Recurring /\ Recurrences' = Recurrences
  BY <1>1, <1>2, <1>3 DEF Recurring, Recurrences
<1> QED
  BY <1>1, <1>3, <1>5, <1>6 DEF BalanceInv, Balance

\* handleDecideIncident takes off the gauge what its decision closed.
LEMMA CountDecidedBalance ==
    ASSUME BalanceInv, NEW w \in Workers, CountDecided(w)
    PROVE  Balance'
<1> DEFINE r0 == worker[w]
           sev == SeverityOf[incidents[r0.id].key]
<1>0. /\ WorkerTypes /\ IsFiniteSet(Workers) /\ SeverityOf \in [Keys -> Severities]
      /\ StoreTypes
      /\ Position(DOMAIN incidents, r0) /\ IsFiniteSet(DOMAIN incidents) /\ MetricTypes
  BY ServiceConstants DEF BalanceInv, MatchInv, ServiceInv, ServiceTypes, WorkerTypes
<1>1. /\ r0.pc = "uncount"
      /\ active' = IF r0.wasActive THEN [active EXCEPT ![sev] = @ - 1] ELSE active
      /\ worker' = [worker EXCEPT ![w] = Idle]
      /\ UNCHANGED <<incidents, recurred, faults, restarts>>
  BY DEF CountDecided, SeverityDecided, Step, storeVars
<1>2. /\ worker'[w].pc = "idle"
      /\ \A v \in Workers : v # w => worker'[v] = worker[v]
  BY <1>0, <1>1 DEF WorkerTypes, Idle
<1>3. sev \in Severities
  BY <1>0, <1>1, PositionFields DEF IncidentAt, StoreTypes
<1>4. ASSUME faults = 0, restarts = 0, NEW s \in Severities
      PROVE  active'[s] + Cardinality(Creating(s)') - Cardinality(Closing(s)')
             = Cardinality(Open(s)')
  <2> DEFINE gone == r0.wasActive /\ sev = s
  <2>1. Creating(s)' = Creating(s) /\ Open(s)' = Open(s)
    BY <1>1, <1>2 DEF Creating, Open
  <2>2. Creating(s) \in SUBSET Workers /\ Open(s) \in SUBSET DOMAIN incidents
    BY DEF Creating, Open
  <2>3. Cardinality(Creating(s)) \in Nat /\ Cardinality(Open(s)) \in Nat
    BY <1>0, <2>2, FS_Subset, FS_CardinalityType
  <2>4. /\ Closing(s) \in SUBSET Workers /\ Closing(s)' \in SUBSET Workers
        /\ \A v \in Workers : v # w => (v \in Closing(s) <=> v \in Closing(s)')
        /\ w \in Closing(s) <=> gone
        /\ w \notin Closing(s)'
    BY <1>1, <1>2 DEF Closing
  <2>5. /\ active[s] \in Int
        /\ active'[s] = IF gone THEN active[s] - 1 ELSE active[s]
    BY <1>0, <1>1, <1>3 DEF MetricTypes
  <2> HIDE DEF gone
  <2>6. /\ Cardinality(Closing(s)) \in Nat /\ Cardinality(Closing(s)') \in Nat
        /\ gone => Cardinality(Closing(s)) = Cardinality(Closing(s)') + 1
        /\ ~gone => Cardinality(Closing(s)') = Cardinality(Closing(s))
    BY <1>0, <2>4, CountsDiffer
  <2>7. active[s] + Cardinality(Creating(s)) - Cardinality(Closing(s))
        = Cardinality(Open(s))
    BY <1>4 DEF BalanceInv, Balance
  <2> QED
    BY <2>1, <2>3, <2>5, <2>6, <2>7
<1>5. Recurring' = Recurring /\ Recurrences' = Recurrences
  BY <1>1, <1>2 DEF Recurring, Recurrences
<1> QED
  BY <1>1, <1>4, <1>5 DEF BalanceInv, Balance

\* The steps of a request in flight.
LEMMA ServeBalance ==
    ASSUME DistinctDigests, BalanceInv, MatchInv', NEW w \in Workers, Serve(w)
    PROVE  BalanceInv'
<1> DEFINE r0 == worker[w]
<1>0. /\ WorkerTypes /\ Inserting /\ Balance /\ CountTypes
      /\ Position(DOMAIN incidents, r0) /\ IsFiniteSet(DOMAIN incidents)
  BY DEF BalanceInv, MatchInv, ServiceInv, ServiceTypes, WorkerTypes
<1>1. ASSUME NEW r, worker' = [worker EXCEPT ![w] = r], r.pc # "insert",
             \A id \in DOMAIN rows' :
                 id \in DOMAIN rows \/ (r0.pc = "insert" /\ r0.inc.id = id),
             DOMAIN incidents' = DOMAIN incidents, Balance'
      PROVE  BalanceInv'
  BY <1>0, <1>1, InsertingKept DEF BalanceInv
<1>2. CASE UpsertCandidate(w)
  <2> DEFINE key == Head(r0.todo)
             now == r0.now
  <2>1. /\ r0.pc = "upsert" /\ r0.todo # << >>
        /\ UNCHANGED <<rows, active, recurred, faults, restarts>>
    BY <1>2 DEF UpsertCandidate, database, metrics, environment
  <2>2. r0 \in [pc : {"upsert"}, now : Times, todo : Seq(Keys)]
    BY <1>0, <2>1, PositionFields
  <2>3. CASE Ongoing(key)
    <3> DEFINE r == [r0 EXCEPT !.todo = Tail(r0.todo)]
    <3>1. worker' = [worker EXCEPT ![w] = r] /\ incidents' = incidents
      BY <1>2, <2>3 DEF UpsertCandidate, Step, Upsert, Create, storeVars
    <3>2. r.pc = "upsert"
      BY <2>2
    <3> HIDE DEF r
    <3>3. Balance'
      BY <1>0, <2>1, <3>1, <3>2, BalanceKept
    <3> QED
      BY <1>1, <2>1, <3>1, <3>2, <3>3
  <2>4. CASE ~Ongoing(key)
    <3> DEFINE r == [pc |-> "insert", now |-> now, todo |-> Tail(r0.todo),
                     inc |-> Occurrence(key, now)]
    <3>1. worker' = [worker EXCEPT ![w] = r] /\ Create(key, now)
      BY <1>2, <2>4 DEF UpsertCandidate, Step, Upsert
    <3>2. key \in Keys
      BY <2>1, <2>2
    <3>3. r.pc = "insert" /\ r.inc = Occurrence(key, now)
      OBVIOUS
    <3> HIDE DEF r
    <3> QED
      BY <2>1, <3>1, <3>2, <3>3, CreateBalance DEF BalanceInv
  <2> QED
    BY <2>3, <2>4
<1>3. CASE InsertIncident(w)
  <2> DEFINE r == [r0 EXCEPT !.pc = "count"]
  <2>1. /\ r0.pc = "insert"
        /\ DOMAIN rows' = DOMAIN rows \cup {r0.inc.id}
        /\ worker' = [worker EXCEPT ![w] = r]
        /\ UNCHANGED <<incidents, active, recurred, faults, restarts>>
    BY <1>3 DEF InsertIncident, Put, Step, environment, metrics, storeVars
  <2>2. r0 = [pc |-> "insert", now |-> r0.now, todo |-> r0.todo, inc |-> r0.inc]
    BY <1>0, <2>1, PositionFields
  <2>3. r.pc = "count" /\ r.inc = r0.inc
    BY <2>2
  <2> HIDE DEF r
  <2>4. Balance'
    BY <1>0, <2>1, <2>3, BalanceKept
  <2> QED
    BY <1>1, <2>1, <2>3, <2>4
<1>4. CASE InsertFails(w)
  <2> DEFINE r == [pc |-> "upsert", now |-> r0.now, todo |-> r0.todo]
  <2>1. /\ r0.pc = "insert"
        /\ worker' = [worker EXCEPT ![w] = r]
        /\ UNCHANGED <<incidents, rows>>
        /\ faults' = IF r0.inc.id \in DOMAIN rows THEN faults ELSE faults + 1
    BY <1>4 DEF InsertFails, Step, storeVars, database
  <2>2. r.pc = "upsert"
    OBVIOUS
  <2>3. faults' # 0
    BY <1>0, <2>1, ServiceConstants DEF Inserting, CountTypes
  <2> HIDE DEF r
  <2>4. Balance'
    BY <2>3 DEF Balance
  <2> QED
    BY <1>1, <2>1, <2>2, <2>4
<1>5. CASE CountCreated(w)
  <2> DEFINE r == [pc |-> "upsert", now |-> r0.now, todo |-> r0.todo]
  <2>1. worker' = [worker EXCEPT ![w] = r] /\ UNCHANGED <<incidents, rows>>
    BY <1>5 DEF CountCreated, Step, storeVars, database
  <2>2. r.pc = "upsert"
    OBVIOUS
  <2> HIDE DEF r
  <2> QED
    BY <1>1, <1>5, <2>1, <2>2, CountCreatedBalance
<1>6. CASE AnswerBatch(w) \/ DecideUnknown(w)
  <2>1. /\ r0.pc \in {"upsert", "decide"} /\ worker' = [worker EXCEPT ![w] = Idle]
        /\ UNCHANGED <<incidents, rows, active, recurred, faults, restarts>>
    BY <1>6 DEF AnswerBatch, DecideUnknown, Step, storeVars, database, metrics, environment
  <2>2. Idle.pc = "idle"
    BY DEF Idle
  <2>3. Balance'
    BY <1>0, <2>1, <2>2, BalanceKept
  <2> QED
    BY <1>1, <2>1, <2>2, <2>3
<1>7. CASE DecideInMemory(w)
  <2> DEFINE r == [pc |-> "persist", now |-> r0.now, id |-> r0.id, status |-> r0.status,
                   wasActive |-> incidents[r0.id].status = "active"]
  <2>1. worker' = [worker EXCEPT ![w] = r] /\ rows' = rows
    BY <1>7 DEF DecideInMemory, Step, database
  <2>2. r.pc = "persist"
    OBVIOUS
  <2> HIDE DEF r
  <2> QED
    BY <1>1, <1>7, <2>1, <2>2, DecideBalance
<1>8. CASE PersistDecision(w)
  <2> DEFINE r == [r0 EXCEPT !.pc = "uncount"]
  <2>1. /\ r0.pc = "persist"
        /\ worker' = [worker EXCEPT ![w] = r]
        /\ UNCHANGED <<incidents, active, recurred, faults, restarts>>
        /\ DOMAIN rows' = DOMAIN rows
    BY <1>8 DEF PersistDecision, Step, environment, UpdateRow, storeVars, metrics
  <2>2. r0 = [pc |-> "persist", now |-> r0.now, id |-> r0.id, status |-> r0.status,
              wasActive |-> r0.wasActive]
    BY <1>0, <2>1, PositionFields
  <2>3. r.pc = "uncount" /\ r.id = r0.id /\ r.wasActive = r0.wasActive
    BY <2>2
  <2> HIDE DEF r
  <2>4. Balance'
    BY <1>0, <2>1, <2>3, BalanceKept
  <2> QED
    BY <1>1, <2>1, <2>3, <2>4
<1>9. CASE PersistFails(w) \/ CountDecided(w)
  <2>1. worker' = [worker EXCEPT ![w] = Idle] /\ UNCHANGED <<incidents, rows>>
    BY <1>9 DEF PersistFails, CountDecided, Step, storeVars, database
  <2>2. Idle.pc = "idle"
    BY DEF Idle
  <2>3. PersistFails(w) => faults' # 0
    BY <1>0, ServiceConstants DEF PersistFails, CountTypes
  <2>4. Balance'
    BY <1>9, <2>3, CountDecidedBalance DEF Balance
  <2> QED
    BY <1>1, <2>1, <2>2, <2>4
<1> QED
  BY <1>2, <1>3, <1>4, <1>5, <1>6, <1>7, <1>8, <1>9 DEF Serve

\* Every step of the service keeps the metrics in balance.
LEMMA BalanceNext ==
    ASSUME DistinctDigests
    PROVE  BalanceInv /\ MatchInv' /\ [ServiceNext]_serviceVars => BalanceInv'
<1> SUFFICES ASSUME BalanceInv, MatchInv', [ServiceNext]_serviceVars PROVE BalanceInv'
  OBVIOUS
<1>0. /\ WorkerTypes /\ Inserting /\ Balance /\ TableTypes /\ CountTypes
      /\ IsFiniteSet(DOMAIN incidents)
  BY DEF BalanceInv, MatchInv, ServiceInv, ServiceTypes
<1>1. CASE UNCHANGED serviceVars
  <2>1. UNCHANGED <<incidents, rows, active, recurred, worker, faults, restarts>>
    BY <1>1 DEF serviceVars, storeVars, database, metrics, environment
  <2> QED
    BY <1>0, <2>1 DEF BalanceInv, Inserting, Balance, Creating, Closing, Open, Recurring,
                      Recurrences
<1>2. ASSUME NEW w \in Workers, NEW r, worker' = [worker EXCEPT ![w] = r],
             worker[w] = Idle, r.pc \in {"upsert", "decide"},
             UNCHANGED <<storeVars, database, metrics, faults, restarts>>
      PROVE  BalanceInv'
  <2>1. UNCHANGED <<incidents, rows, active, recurred, faults, restarts>>
        /\ worker[w].pc = "idle"
    BY <1>2 DEF storeVars, database, metrics, Idle
  <2>2. Balance'
    BY <1>0, <1>2, <2>1, BalanceKept
  <2>3. Inserting'
    BY <1>0, <1>2, <2>1, InsertingKept
  <2> QED
    BY <1>0, <2>1, <2>2, <2>3 DEF BalanceInv
<1>3. ASSUME NEW w \in Workers, NEW batch \in Batches, ReceiveBatch(w, batch)
      PROVE  BalanceInv'
  <2> DEFINE r == [pc |-> "upsert", now |-> Now, todo |-> batch]
  <2>1. /\ worker[w] = Idle /\ worker' = [worker EXCEPT ![w] = r]
        /\ UNCHANGED <<storeVars, database, metrics, faults, restarts>>
    BY <1>3 DEF ReceiveBatch, Step
  <2>2. r.pc = "upsert"
    OBVIOUS
  <2> HIDE DEF r
  <2> QED
    BY <1>2, <2>1, <2>2
<1>4. ASSUME NEW w \in Workers, NEW id, NEW status, ReceiveDecision(w, id, status)
      PROVE  BalanceInv'
  <2> DEFINE r == [pc |-> "decide", now |-> Now, id |-> id, status |-> status]
  <2>1. /\ worker[w] = Idle /\ worker' = [worker EXCEPT ![w] = r]
        /\ UNCHANGED <<storeVars, database, metrics, faults, restarts>>
    BY <1>4 DEF ReceiveDecision, Step
  <2>2. r.pc = "decide"
    OBVIOUS
  <2> HIDE DEF r
  <2> QED
    BY <1>2, <2>1, <2>2
<1>5. CASE Restart
  <2>1. /\ DOMAIN incidents' = DOMAIN rows /\ restarts' = restarts + 1
        /\ worker' = [w \in Workers |-> Idle]
    BY <1>5 DEF Restart, RestoredIncidents
  <2>2. restarts' # 0
    BY <1>0, <2>1, ServiceConstants DEF CountTypes
  <2>3. Inserting'
    BY <2>1 DEF Inserting, Idle
  <2> QED
    BY <1>0, <2>1, <2>2, <2>3 DEF BalanceInv, Balance, TableTypes
<1> QED
  BY <1>1, <1>3, <1>4, <1>5, ServeBalance DEF ServiceNext, Receive

\* Everything starts from zero.
LEMMA BalanceInit == ServiceInit /\ MatchInv => BalanceInv
<1> SUFFICES ASSUME ServiceInit, MatchInv PROVE BalanceInv
  OBVIOUS
<1>1. /\ DOMAIN incidents = {} /\ worker = [w \in Workers |-> Idle]
      /\ active = [s \in Severities |-> 0] /\ recurred = 0
  BY DEF ServiceInit, Init
<1>2. /\ \A s : Creating(s) = {} /\ Closing(s) = {} /\ Open(s) = {}
      /\ Recurring = {} /\ Recurrences = {}
  BY <1>1 DEF Creating, Closing, Open, Recurring, Recurrences, Idle
<1>3. Cardinality({}) = 0 /\ IsFiniteSet({})
  BY FS_EmptySet
<1>4. ASSUME NEW s \in Severities
      PROVE  active[s] + Cardinality(Creating(s)) - Cardinality(Closing(s))
             = Cardinality(Open(s))
  <2>1. /\ active[s] = 0 /\ Cardinality(Creating(s)) = 0
        /\ Cardinality(Closing(s)) = 0 /\ Cardinality(Open(s)) = 0
    BY <1>1, <1>2, <1>3
  <2> QED
    BY <2>1
<1>5. recurred + Cardinality(Recurring) = Cardinality(Recurrences)
  BY <1>1, <1>2, <1>3
<1>6. Inserting
  BY <1>1 DEF Inserting, Idle
<1> QED
  BY <1>1, <1>3, <1>4, <1>5, <1>6 DEF BalanceInv, Balance

\* Until something fails, the gauge of active incidents and the recurrence counter
\* are off by exactly the requests that have yet to adjust them, however many
\* requests there are and however they interleave.
THEOREM ServiceMetricsBalanced ==
    ASSUME DistinctDigests PROVE ServiceSpec => []MetricsBalanced
<1>1. BalanceInv => MetricsBalanced
  BY DEF BalanceInv, Balance, MetricsBalanced, Creating, Closing, Open, Recurring,
         Recurrences
<1> QED
  BY <1>1, MatchInvariant, BalanceInit, BalanceNext, PTL DEF ServiceSpec

-----------------------------------------------------------------------------
(* Requests that come one at a time, and a database that never fails: then   *)
(* memory and database differ by what the one request in flight has yet to   *)
(* write, and at rest not at all.                                            *)

OneAtATime == \A v, w \in Workers : v = w

NeverFails == MaxFaults = 0

\* The row has the status of the incident, and its time of update.
UpToDate(row, inc) == row.status = inc.status /\ row.updated = Format(inc.updated)

RowsUpToDate ==
    \A id \in DOMAIN rows :
        \/ UpToDate(rows[id], incidents[id])
        \/ \E w \in Workers : worker[w].pc = "persist" /\ worker[w].id = id

\* What a request is about to write is what the store holds.
AboutToWrite(r, incs) ==
    /\ r.pc = "insert" => incs[r.inc.id] = r.inc
    /\ r.pc = "persist" => incs[r.id].status = r.status /\ incs[r.id].updated = r.now

WritesCurrent == \A w \in Workers : AboutToWrite(worker[w], incidents)

TrailsAudited ==
    \A id \in DOMAIN decisions : \A i \in DOMAIN decisions[id] :
        \/ Audited(decisionRows, id, decisions[id][i].status, Format(decisions[id][i].at))
        \/ \E w \in Workers : /\ worker[w].pc = "persist" /\ worker[w].id = id
                              /\ decisions[id][i].status = worker[w].status
                              /\ decisions[id][i].at = worker[w].now

RestInv ==
    /\ MatchInv
    /\ RowsUpToDate
    /\ WritesCurrent
    /\ TrailsAudited

\* The one request moves to r without touching memory or database.
LEMMA RestQuiet ==
    ASSUME OneAtATime, RestInv, MatchInv', NEW w \in Workers, NEW r,
           worker' = [worker EXCEPT ![w] = r], worker[w].pc # "persist",
           r.pc \notin {"insert", "persist"},
           UNCHANGED <<incidents, decisions, rows, decisionRows>>
    PROVE  RestInv'
<1>1. \A v \in Workers : v = w /\ worker[v].pc # "persist" /\ worker'[v] = r
  BY DEF OneAtATime, RestInv, MatchInv, ServiceInv, ServiceTypes, WorkerTypes
<1>2. RowsUpToDate'
  BY <1>1 DEF RestInv, RowsUpToDate
<1>3. WritesCurrent'
  BY <1>1 DEF WritesCurrent, AboutToWrite
<1>4. TrailsAudited'
  BY <1>1 DEF RestInv, TrailsAudited
<1> QED
  BY <1>2, <1>3, <1>4 DEF RestInv

\* The one request creates an occurrence.
LEMMA RestCreate ==
    ASSUME OneAtATime, DistinctDigests, RestInv, MatchInv', NEW w \in Workers, NEW r,
           NEW key \in Keys, worker' = [worker EXCEPT ![w] = r],
           worker[w].pc = "upsert", Create(key, worker[w].now),
           r.pc = "insert", r.inc = Occurrence(key, worker[w].now),
           UNCHANGED <<rows, decisionRows>>
    PROVE  RestInv'
<1>1. MatchInv /\ WorkerTypes /\ StoreTypes
  BY DEF RestInv, MatchInv, ServiceInv, ServiceTypes
<1>2. worker[w] # Idle
  BY DEF Idle
<1>3. worker[w].now \in Times
  BY <1>1, <1>2, PositionFields DEF WorkerTypes
<1>4. r.inc.id \notin DOMAIN incidents
  BY <1>1, <1>2, BirthFresh
<1>5. PICK now : now = worker[w].now
  OBVIOUS
<1>6. Create(key, now) /\ now \in Times /\ r.inc = Occurrence(key, now)
  BY <1>3, <1>5 DEF Create, Occurrence
<1>7. /\ incidents'[r.inc.id] = r.inc
      /\ \A x \in DOMAIN incidents : x # r.inc.id => incidents'[x] = incidents[x]
      /\ decisions' = decisions
  BY <1>1, <1>6, CreateStore
<1>8. \A v \in Workers : v = w /\ worker[v].pc # "persist" /\ worker'[v] = r
  BY <1>1 DEF OneAtATime, WorkerTypes
<1>9. \A id \in DOMAIN rows : incidents'[id] = incidents[id]
  BY <1>1, <1>4, <1>7 DEF MatchInv, RowsMatch
<1>10. RowsUpToDate'
  BY <1>8, <1>9 DEF RestInv, RowsUpToDate
<1>11. WritesCurrent'
  BY <1>7, <1>8 DEF WritesCurrent, AboutToWrite
<1>12. TrailsAudited'
  BY <1>7, <1>8 DEF RestInv, TrailsAudited
<1> QED
  BY <1>10, <1>11, <1>12 DEF RestInv

\* The one request writes the row of the occurrence it has created.
LEMMA RestInsert ==
    ASSUME OneAtATime, RestInv, MatchInv', NEW w \in Workers, InsertIncident(w)
    PROVE  RestInv'
<1> DEFINE r0 == worker[w]
           r == [r0 EXCEPT !.pc = "count"]
<1>1. MatchInv /\ WorkerTypes /\ Position(DOMAIN incidents, r0)
  BY DEF RestInv, MatchInv, ServiceInv, ServiceTypes, WorkerTypes
<1>2. /\ r0.pc = "insert"
      /\ DOMAIN rows' = DOMAIN rows \cup {r0.inc.id}
      /\ rows'[r0.inc.id] = Row(r0.inc)
      /\ \A id \in DOMAIN rows : id # r0.inc.id => rows'[id] = rows[id]
      /\ worker' = [worker EXCEPT ![w] = r]
      /\ UNCHANGED <<incidents, decisions, decisionRows>>
  BY DEF InsertIncident, Put, Step, environment, storeVars
<1>3. r0 = [pc |-> "insert", now |-> r0.now, todo |-> r0.todo, inc |-> r0.inc]
  BY <1>1, <1>2, PositionFields
<1>4. r.pc = "count"
  BY <1>3
<1> HIDE DEF r
<1>5. \A v \in Workers : v = w /\ worker[v].pc # "persist" /\ worker'[v] = r
  BY <1>1, <1>2 DEF OneAtATime, WorkerTypes
<1>6. incidents[r0.inc.id] = r0.inc
  BY <1>2 DEF RestInv, WritesCurrent, AboutToWrite
<1>7. UpToDate(rows'[r0.inc.id], incidents'[r0.inc.id])
  BY <1>2, <1>6 DEF UpToDate, Row
<1>8. RowsUpToDate'
  <2>1. \A id \in DOMAIN rows' : UpToDate(rows'[id], incidents'[id])
    BY <1>2, <1>5, <1>7 DEF RestInv, RowsUpToDate
  <2> QED
    BY <2>1 DEF RowsUpToDate
<1>9. WritesCurrent'
  BY <1>4, <1>5 DEF WritesCurrent, AboutToWrite
<1>10. TrailsAudited'
  BY <1>2, <1>5 DEF RestInv, TrailsAudited
<1> QED
  BY <1>8, <1>9, <1>10 DEF RestInv

\* The one request decides in memory: only its incident differs from its row, and
\* only its decision is not in the audit table.
LEMMA RestDecide ==
    ASSUME OneAtATime, RestInv, MatchInv', NEW w \in Workers, DecideInMemory(w)
    PROVE  RestInv'
<1> DEFINE r0 == worker[w]
           r == [pc |-> "persist", now |-> r0.now, id |-> r0.id, status |-> r0.status,
                 wasActive |-> incidents[r0.id].status = "active"]
<1>1. MatchInv /\ WorkerTypes /\ StoreTypes /\ Position(DOMAIN incidents, r0)
  BY DEF RestInv, MatchInv, ServiceInv, ServiceTypes, WorkerTypes
<1>2. /\ r0.pc = "decide" /\ r0.id \in DOMAIN incidents
      /\ Decide(r0.id, r0.status, r0.now)
      /\ worker' = [worker EXCEPT ![w] = r]
      /\ UNCHANGED <<rows, decisionRows>>
  BY DEF DecideInMemory, Step, Decide, database
<1>3. r0.status \in Verdicts /\ r0.now \in Times
  BY <1>1, <1>2, PositionFields DEF Idle
<1>4. PICK id, status, now : id = r0.id /\ status = r0.status /\ now = r0.now
  OBVIOUS
<1>5. r.pc = "persist" /\ r.id = id /\ r.status = status /\ r.now = now
  BY <1>4
<1> HIDE DEF r
<1>6. \A v \in Workers : v = w /\ worker[v].pc # "persist" /\ worker'[v] = r
  BY <1>1, <1>2 DEF OneAtATime, WorkerTypes
<1>7. Decide(id, status, now)
  BY <1>2, <1>4 DEF Decide
<1>8. /\ incidents'[id].status = status /\ incidents'[id].updated = now
      /\ \A x \in DOMAIN incidents : x # id => incidents'[x] = incidents[x]
  <2>1. id \in DOMAIN incidents /\ status \in Verdicts /\ now \in Times
    BY <1>2, <1>3, <1>4
  <2> QED
    BY <1>1, <1>7, <2>1, DecideStore
<1>9. RowsUpToDate'
  <2> SUFFICES ASSUME NEW x \in DOMAIN rows', x # id
               PROVE  UpToDate(rows'[x], incidents'[x])
    BY <1>5, <1>6 DEF RowsUpToDate
  <2>1. x \in DOMAIN incidents
    BY <1>1, <1>2 DEF MatchInv, RowsMatch
  <2> QED
    BY <1>2, <1>6, <1>8, <2>1 DEF RestInv, RowsUpToDate
<1>10. WritesCurrent'
  BY <1>5, <1>6, <1>8 DEF WritesCurrent, AboutToWrite
<1>11. TrailsAudited'
  <2> DEFINE d == [status |-> status, at |-> now]
  <2>1. /\ DOMAIN decisions' = DOMAIN decisions \cup {id}
        /\ decisions'[id] = Append(Trail(id), d)
        /\ \A x \in DOMAIN decisions : x # id => decisions'[x] = decisions[x]
    BY <1>7 DEF Decide, Put
  <2>2. Trail(id) \in Seq(Decision) /\ d \in Decision
    <3>1. d \in Decision
      BY <1>3, <1>4 DEF Decision
    <3>2. CASE id \in DOMAIN decisions
      BY <1>1, <3>1, <3>2 DEF StoreTypes, Trail
    <3>3. CASE id \notin DOMAIN decisions
      BY <3>1, <3>3 DEF Trail
    <3> QED
      BY <3>2, <3>3
  <2> SUFFICES ASSUME NEW x \in DOMAIN decisions', NEW i \in DOMAIN decisions'[x]
               PROVE  \/ Audited(decisionRows', x, decisions'[x][i].status,
                                 Format(decisions'[x][i].at))
                      \/ \E v \in Workers : /\ worker'[v].pc = "persist"
                                            /\ worker'[v].id = x
                                            /\ decisions'[x][i].status = worker'[v].status
                                            /\ decisions'[x][i].at = worker'[v].now
    BY DEF TrailsAudited
  <2>3. \A y \in DOMAIN decisions : \A j \in DOMAIN decisions[y] :
            Audited(decisionRows', y, decisions[y][j].status, Format(decisions[y][j].at))
    BY <1>2, <1>6 DEF RestInv, TrailsAudited
  <2>4. CASE x # id
    BY <2>1, <2>3, <2>4
  <2>5. CASE x = id
    <3>1. \/ i \in DOMAIN Trail(id) /\ decisions'[x][i] = Trail(id)[i]
          \/ decisions'[x][i] = d
      BY <2>1, <2>2, <2>5
    <3>2. CASE i \in DOMAIN Trail(id) /\ decisions'[x][i] = Trail(id)[i]
      BY <2>3, <2>5, <3>2 DEF Trail
    <3>3. CASE decisions'[x][i] = d
      BY <1>5, <1>6, <2>5, <3>3
    <3> QED
      BY <3>1, <3>2, <3>3
  <2> QED
    BY <2>4, <2>5
<1> QED
  BY <1>9, <1>10, <1>11 DEF RestInv

\* The transaction of the one request brings both tables up to date.
LEMMA RestPersist ==
    ASSUME OneAtATime, RestInv, MatchInv', NEW w \in Workers, PersistDecision(w)
    PROVE  RestInv'
<1> DEFINE r0 == worker[w]
           r == [r0 EXCEPT !.pc = "uncount"]
<1>1. MatchInv /\ WorkerTypes /\ TableTypes /\ Position(DOMAIN incidents, r0)
  BY DEF RestInv, MatchInv, ServiceInv, ServiceTypes, WorkerTypes
<1>2. /\ r0.pc = "persist"
      /\ UpdateRow(w)
      /\ decisionRows' = Append(decisionRows, AuditRow(w))
      /\ worker' = [worker EXCEPT ![w] = r]
      /\ UNCHANGED <<incidents, decisions>>
  BY DEF PersistDecision, Step, storeVars
<1>3. r0 = [pc |-> "persist", now |-> r0.now, id |-> r0.id, status |-> r0.status,
            wasActive |-> r0.wasActive]
      /\ r0.status \in Verdicts /\ r0.id \in DOMAIN incidents /\ r0.now \in Times
  BY <1>1, <1>2, PositionFields DEF Idle
<1>4. r.pc = "uncount"
  BY <1>3
<1> HIDE DEF r
<1>5. \A v \in Workers : v = w /\ worker'[v] = r
  BY <1>1, <1>2 DEF OneAtATime, WorkerTypes
<1>6. /\ DOMAIN rows' = DOMAIN rows
      /\ \A id \in DOMAIN rows : id # r0.id => rows'[id] = rows[id]
      /\ r0.id \in DOMAIN rows => /\ rows'[r0.id].status = r0.status
                                  /\ rows'[r0.id].updated = Format(r0.now)
  <2>1. \A id \in DOMAIN rows : rows[id] \in RowRecord
    BY <1>1 DEF TableTypes
  <2> QED
    BY <1>2, <2>1 DEF UpdateRow, RowRecord
<1>7. incidents[r0.id].status = r0.status /\ incidents[r0.id].updated = r0.now
  BY <1>2 DEF RestInv, WritesCurrent, AboutToWrite
<1>8. RowsUpToDate'
  <2> SUFFICES ASSUME NEW id \in DOMAIN rows' PROVE UpToDate(rows'[id], incidents'[id])
    BY DEF RowsUpToDate
  <2>1. CASE id = r0.id
    BY <1>2, <1>6, <1>7, <2>1 DEF UpToDate
  <2>2. CASE id # r0.id
    BY <1>2, <1>5, <1>6, <2>2 DEF RestInv, RowsUpToDate, UpToDate
  <2> QED
    BY <2>1, <2>2
<1>9. WritesCurrent'
  BY <1>4, <1>5 DEF WritesCurrent, AboutToWrite
<1>10. /\ Audited(decisionRows', r0.id, r0.status, Format(r0.now))
       /\ \A x, st, sec : Audited(decisionRows, x, st, sec) => Audited(decisionRows', x, st, sec)
  <2>1. PICK e : e = AuditRow(w)
    OBVIOUS
  <2>2. e = [id |-> r0.id, status |-> r0.status, at |-> Format(r0.now)]
    BY <2>1 DEF AuditRow
  <2>3. decisionRows \in Seq(AuditRecord) /\ decisionRows' = Append(decisionRows, e)
    BY <1>1, <1>2, <2>1 DEF TableTypes
  <2>4. e \in AuditRecord
    BY <1>1, <1>3, <2>2, SecondFacts DEF AuditRecord, MatchInv, ServiceInv, ServiceTypes, StoreTypes
  <2>5. /\ Len(decisionRows) + 1 \in DOMAIN decisionRows'
        /\ decisionRows'[Len(decisionRows) + 1] = e
        /\ \A n \in DOMAIN decisionRows : n \in DOMAIN decisionRows'
                                          /\ decisionRows'[n] = decisionRows[n]
    BY <2>3, <2>4
  <2>6. Audited(decisionRows', r0.id, r0.status, Format(r0.now))
    BY <2>2, <2>5 DEF Audited
  <2>7. ASSUME NEW x, NEW st, NEW sec, Audited(decisionRows, x, st, sec)
        PROVE  Audited(decisionRows', x, st, sec)
    BY <2>5, <2>7 DEF Audited
  <2> QED
    BY <2>6, <2>7
<1>11. TrailsAudited'
  <2> SUFFICES ASSUME NEW id \in DOMAIN decisions', NEW i \in DOMAIN decisions'[id]
               PROVE  Audited(decisionRows', id, decisions'[id][i].status,
                              Format(decisions'[id][i].at))
    BY DEF TrailsAudited
  <2>1. CASE Audited(decisionRows, id, decisions[id][i].status, Format(decisions[id][i].at))
    BY <1>2, <1>10, <2>1
  <2>2. CASE \E v \in Workers : /\ worker[v].pc = "persist" /\ worker[v].id = id
                                /\ decisions[id][i].status = worker[v].status
                                /\ decisions[id][i].at = worker[v].now
    <3>1. id = r0.id /\ decisions[id][i].status = r0.status /\ decisions[id][i].at = r0.now
      BY <1>5, <2>2
    <3> QED
      BY <1>2, <1>10, <3>1
  <2> QED
    BY <1>2, <2>1, <2>2 DEF RestInv, TrailsAudited
<1> QED
  BY <1>8, <1>9, <1>11 DEF RestInv

\* A new process reads what it would write.
LEMMA RestRestart ==
    ASSUME RestInv, MatchInv', Restart
    PROVE  RestInv'
<1>1. TableTypes
  BY DEF RestInv, MatchInv, ServiceInv, ServiceTypes
<1>2. /\ \A id \in DOMAIN rows : incidents'[id] = Restored(id, rows[id])
      /\ UNCHANGED <<rows, decisionRows>>
      /\ \A w \in Workers : worker'[w] = Idle
  BY DEF Restart, RestoredIncidents, database
<1>3. RowsUpToDate'
  <2> SUFFICES ASSUME NEW id \in DOMAIN rows' PROVE UpToDate(rows'[id], incidents'[id])
    BY DEF RowsUpToDate
  <2>1. rows[id] \in RowRecord
    BY <1>1, <1>2 DEF TableTypes
  <2>2. Format(Parse(rows[id].updated)) = rows[id].updated
    BY <2>1, SecondFacts DEF RowRecord
  <2>3. rows'[id] = rows[id] /\ incidents'[id] = Restored(id, rows[id])
    BY <1>2
  <2>4. /\ incidents'[id].status = rows[id].status
        /\ incidents'[id].updated = Parse(rows[id].updated)
    BY <2>3 DEF Restored
  <2> QED
    BY <2>2, <2>3, <2>4 DEF UpToDate
<1>4. WritesCurrent'
  BY <1>2 DEF WritesCurrent, AboutToWrite, Idle
<1>5. TrailsAudited'
  <2> SUFFICES ASSUME NEW id \in DOMAIN decisions', NEW i \in DOMAIN decisions'[id]
               PROVE  Audited(decisionRows', id, decisions'[id][i].status,
                              Format(decisions'[id][i].at))
    BY DEF TrailsAudited
  <2> DEFINE Entry(n) == [status |-> decisionRows[n].status, at |-> Parse(decisionRows[n].at)]
  <2>1. decisions'[id] \in RestoredTrails(id)
    BY DEF Restart
  <2>2. PICK s \in Ordered(AuditOf(id), [n \in AuditOf(id) |-> decisionRows[n].at]) :
            decisions'[id] = [j \in DOMAIN s |-> Entry(s[j])]
    BY <2>1 DEF RestoredTrails, DecisionsOn, Decisions, AuditOf
  <2>3. IsFiniteSet(AuditOf(id))
    BY <1>1, AuditFinite
  <2>4. s \in Seq(AuditOf(id)) /\ DOMAIN s = 1..Len(s)
    BY <2>2, <2>3, OrderedEnumerates
  <2>5. PICK n : n = s[i]
    OBVIOUS
  <2>6. n \in AuditOf(id) /\ decisions'[id][i] = Entry(n)
    BY <2>2, <2>4, <2>5
  <2>7. n \in DOMAIN decisionRows /\ decisionRows[n].id = id
    BY <2>6 DEF AuditOf
  <2>8. decisionRows[n] \in AuditRecord
    BY <1>1, <2>7 DEF TableTypes
  <2>9. Format(Parse(decisionRows[n].at)) = decisionRows[n].at
    BY <2>8, SecondFacts DEF AuditRecord
  <2>10. decisionRows[n] = [id |-> id, status |-> decisions'[id][i].status,
                            at |-> Format(decisions'[id][i].at)]
    BY <2>6, <2>7, <2>8, <2>9 DEF AuditRecord
  <2> QED
    BY <1>2, <2>7, <2>10 DEF Audited
<1> QED
  BY <1>3, <1>4, <1>5 DEF RestInv

\* Every step of a service whose requests come one at a time.
LEMMA RestNext ==
    ASSUME OneAtATime, NeverFails, DistinctDigests
    PROVE  RestInv /\ MatchInv' /\ [ServiceNext]_serviceVars => RestInv'
<1> SUFFICES ASSUME RestInv, MatchInv', [ServiceNext]_serviceVars PROVE RestInv'
  OBVIOUS
<1>1. CASE UNCHANGED serviceVars
  <2>1. UNCHANGED <<incidents, decisions, rows, decisionRows, worker>>
    BY <1>1 DEF serviceVars, storeVars, database
  <2> QED
    BY <2>1 DEF RestInv, RowsUpToDate, WritesCurrent, TrailsAudited
<1>2. ASSUME NEW w \in Workers, Receive(w) PROVE RestInv'
  <2>1. PICK r : /\ worker' = [worker EXCEPT ![w] = r]
                 /\ worker[w] = Idle
                 /\ r.pc \notin {"insert", "persist"}
                 /\ UNCHANGED <<incidents, decisions, rows, decisionRows>>
    <3>1. CASE \E batch \in Batches : ReceiveBatch(w, batch)
      BY <3>1 DEF ReceiveBatch, Step, storeVars, database
    <3>2. CASE \E id \in DOMAIN incidents \cup {UnknownID}, status \in Verdicts :
                   ReceiveDecision(w, id, status)
      BY <3>2 DEF ReceiveDecision, Step, storeVars, database
    <3> QED
      BY <1>2, <3>1, <3>2 DEF Receive
  <2>2. worker[w].pc # "persist"
    BY <2>1 DEF Idle
  <2> QED
    BY <2>1, <2>2, RestQuiet
<1>3. ASSUME NEW w \in Workers, UpsertCandidate(w) PROVE RestInv'
  <2> DEFINE r0 == worker[w]
             key == Head(r0.todo)
  <2>1. r0.pc = "upsert" /\ r0.todo # << >> /\ UNCHANGED <<rows, decisionRows>>
    BY <1>3 DEF UpsertCandidate, database
  <2>2. r0 \in [pc : {"upsert"}, now : Times, todo : Seq(Keys)]
    BY <2>1, PositionFields DEF RestInv, MatchInv, ServiceInv, ServiceTypes, WorkerTypes
  <2>3. CASE Ongoing(key)
    <3> DEFINE r == [r0 EXCEPT !.todo = Tail(r0.todo)]
    <3>1. worker' = [worker EXCEPT ![w] = r] /\ UNCHANGED <<incidents, decisions>>
      BY <1>3, <2>3 DEF UpsertCandidate, Step, Upsert, Create, storeVars
    <3>2. r.pc = "upsert"
      BY <2>2
    <3> HIDE DEF r
    <3> QED
      BY <2>1, <3>1, <3>2, RestQuiet
  <2>4. CASE ~Ongoing(key)
    <3> DEFINE r == [pc |-> "insert", now |-> r0.now, todo |-> Tail(r0.todo),
                     inc |-> Occurrence(key, r0.now)]
    <3>1. worker' = [worker EXCEPT ![w] = r] /\ Create(key, r0.now)
      BY <1>3, <2>4 DEF UpsertCandidate, Step, Upsert
    <3>2. key \in Keys
      BY <2>1, <2>2
    <3>3. r.pc = "insert" /\ r.inc = Occurrence(key, r0.now)
      OBVIOUS
    <3> HIDE DEF r
    <3> QED
      BY <2>1, <3>1, <3>2, <3>3, RestCreate
  <2> QED
    BY <2>3, <2>4
<1>4. ASSUME NEW w \in Workers,
             InsertFails(w) \/ CountCreated(w) \/ AnswerBatch(w) \/ DecideUnknown(w)
                 \/ CountDecided(w)
      PROVE  RestInv'
  <2>1. PICK r : /\ worker' = [worker EXCEPT ![w] = r]
                 /\ worker[w].pc # "persist"
                 /\ r.pc \notin {"insert", "persist"}
                 /\ UNCHANGED <<incidents, decisions, rows, decisionRows>>
    <3>1. CASE InsertFails(w)
      BY <3>1 DEF InsertFails, Step, storeVars, database
    <3>2. CASE CountCreated(w)
      BY <3>2 DEF CountCreated, Step, storeVars, database
    <3>3. CASE AnswerBatch(w)
      BY <3>3 DEF AnswerBatch, Step, storeVars, database, Idle
    <3>4. CASE DecideUnknown(w)
      BY <3>4 DEF DecideUnknown, Step, storeVars, database, Idle
    <3>5. CASE CountDecided(w)
      BY <3>5 DEF CountDecided, Step, storeVars, database, Idle
    <3> QED
      BY <1>4, <3>1, <3>2, <3>3, <3>4, <3>5
  <2> QED
    BY <2>1, RestQuiet
<1>5. ASSUME NEW w \in Workers, PersistFails(w) PROVE FALSE
  <2>1. faults \in 0..0
    BY DEF NeverFails, RestInv, MatchInv, ServiceInv, ServiceTypes, CountTypes
  <2> QED
    BY <1>5, <2>1 DEF PersistFails, NeverFails
<1> QED
  BY <1>1, <1>2, <1>3, <1>4, <1>5, RestInsert, RestDecide, RestPersist, RestRestart
     DEF ServiceNext, Serve

\* When requests come one at a time and the database does not fail, tables and maps
\* agree whenever no request is in flight, through any number of crashes: what
\* the race of service_race shows takes two requests at once.
THEOREM ServiceConsistentAtRest ==
    ASSUME OneAtATime, NeverFails, DistinctDigests
    PROVE  ServiceSpec => []ConsistentAtRest
<1>1. ServiceInit /\ MatchInv => RestInv
  <2> SUFFICES ASSUME ServiceInit, MatchInv PROVE RestInv
    OBVIOUS
  <2>1. /\ DOMAIN rows = {} /\ DOMAIN decisions = {}
        /\ \A w \in Workers : worker[w].pc = "idle"
    BY DEF ServiceInit, Init, Idle
  <2> QED
    BY <2>1 DEF RestInv, RowsUpToDate, WritesCurrent, AboutToWrite, TrailsAudited
<1>2. RestInv /\ SavedInv => ConsistentAtRest
  <2> SUFFICES ASSUME RestInv, SavedInv, AllIdle
               PROVE  /\ DOMAIN rows = DOMAIN incidents
                      /\ \A id \in DOMAIN incidents : rows[id] = Row(incidents[id])
                      /\ \A id \in DOMAIN incidents : \A i \in DOMAIN Trail(id) :
                             InAudit(id, Trail(id)[i].status, Format(Trail(id)[i].at))
    BY DEF ConsistentAtRest
  <2>1. \A w \in Workers : worker[w].pc = "idle"
    BY DEF AllIdle, Idle
  <2>2. faults = 0
    BY DEF NeverFails, RestInv, MatchInv, ServiceInv, ServiceTypes, CountTypes
  <2>3. DOMAIN rows = DOMAIN incidents
    BY <2>1, <2>2 DEF SavedInv, Inserted, RestInv, MatchInv, RowsMatch
  <2>4. ASSUME NEW id \in DOMAIN incidents PROVE rows[id] = Row(incidents[id])
    <3>1. rows[id] \in RowRecord
      BY <2>3 DEF RestInv, MatchInv, ServiceInv, ServiceTypes, TableTypes
    <3>2. RowOf(rows[id], incidents[id]) /\ UpToDate(rows[id], incidents[id])
      BY <2>1, <2>3 DEF RestInv, MatchInv, RowsMatch, RowsUpToDate
    <3> QED
      BY <3>1, <3>2 DEF RowRecord, RowOf, UpToDate, Row
  <2>5. ASSUME NEW id \in DOMAIN incidents, NEW i \in DOMAIN Trail(id)
        PROVE  InAudit(id, Trail(id)[i].status, Format(Trail(id)[i].at))
    <3>1. id \in DOMAIN decisions /\ Trail(id) = decisions[id]
      BY DEF Trail
    <3> QED
      BY <2>1, <3>1 DEF RestInv, TrailsAudited, Audited, InAudit
  <2> QED
    BY <2>3, <2>4, <2>5
<1> QED
  BY <1>1, <1>2, RestNext, MatchInvariant, SavedInit, SavedNext, PTL DEF ServiceSpec

=============================================================================
