------------------------ MODULE TelemetryStoreProofs -------------------------
(***************************************************************************)
(* Proofs about TelemetryStore: the table, the history and the anomaly     *)
(* buffer, for any number of requests at once, any batches, any clock and  *)
(* any number of failing transactions and crashes.                         *)
(***************************************************************************)
EXTENDS TelemetryStore, StorageProofs

AnomalyRecord == [id : Hosts \X Signals \X Nat, detected : Nat]

\* The last n elements of a sequence.
LEMMA KeepLastFacts ==
    ASSUME NEW S, NEW s \in Seq(S), NEW n \in Nat \ {0}
    PROVE  /\ KeepLast(s, n) \in Seq(S)
           /\ Len(KeepLast(s, n)) <= n
           /\ KeepLast(s, n) = s \/ Len(KeepLast(s, n)) = n
           /\ s # << >> => /\ KeepLast(s, n) # << >>
                           /\ KeepLast(s, n)[Len(KeepLast(s, n))] = s[Len(s)]
<1>1. CASE Len(s) > n
  <2>1. KeepLast(s, n) = SubSeq(s, Len(s) - n + 1, Len(s))
    BY <1>1 DEF KeepLast
  <2> DEFINE m == Len(s) - n + 1
  <2>2. m \in 1..Len(s) /\ Len(s) - m + 1 = n
    BY <1>1
  <2>3. SubSeq(s, m, Len(s)) \in Seq(S)
    BY <2>2
  <2>4. Len(SubSeq(s, m, Len(s))) = n
    BY <2>2
  <2>5. SubSeq(s, m, Len(s))[n] = s[Len(s)]
    BY <2>2
  <2>6. PICK u : u = KeepLast(s, n)
    OBVIOUS
  <2>7. u \in Seq(S) /\ Len(u) = n /\ u[n] = s[Len(s)]
    BY <2>1, <2>3, <2>4, <2>5, <2>6
  <2> QED
    BY <2>6, <2>7
<1>2. CASE ~(Len(s) > n)
  BY <1>2 DEF KeepLast
<1> QED
  BY <1>1, <1>2

\* The first n elements of a sequence.
LEMMA KeepFirstFacts ==
    ASSUME NEW S, NEW s \in Seq(S), NEW n \in Nat
    PROVE  /\ KeepFirst(s, n) \in Seq(S)
           /\ Len(KeepFirst(s, n)) <= n /\ Len(KeepFirst(s, n)) <= Len(s)
           /\ \A i \in 1..Len(KeepFirst(s, n)) : KeepFirst(s, n)[i] = s[i]
<1>1. CASE Len(s) > n
  <2>1. KeepFirst(s, n) = SubSeq(s, 1, n)
    BY <1>1 DEF KeepFirst
  <2>2. SubSeq(s, 1, n) \in Seq(S) /\ Len(SubSeq(s, 1, n)) = n
    BY <1>1
  <2>3. \A i \in 1..n : SubSeq(s, 1, n)[i] = s[i]
    BY <1>1
  <2> QED
    BY <1>1, <2>1, <2>2, <2>3
<1>2. CASE ~(Len(s) > n)
  BY <1>2 DEF KeepFirst
<1> QED
  BY <1>1, <1>2

\* The samples of a host in a batch.
LEMMA OfHostFacts ==
    ASSUME NEW samples \in Seq(Sample), NEW h
    PROVE  /\ OfHost(samples, h) \in Seq(Sample)
           /\ \A d \in Range(samples) : d.host = h => d \in Range(OfHost(samples, h))
           /\ \A d \in Range(OfHost(samples, h)) : d \in Range(samples) /\ d.host = h
           /\ h \in HostsIn(samples) => OfHost(samples, h) # << >>
           /\ h \notin HostsIn(samples) => OfHost(samples, h) = << >>
<1>1. PICK T : T = {d \in Range(samples) : d.host = h}
  OBVIOUS
<1>2. PICK u : u = OfHost(samples, h)
  OBVIOUS
<1>3. u \in Seq(Sample) /\ Range(u) = Range(samples) \cap T
  <2>1. u = Where(samples, T)
    BY <1>1, <1>2 DEF OfHost
  <2> QED
    BY <2>1, WhereRange
<1>4. h \in HostsIn(samples) => u # << >>
  BY <1>1, <1>3 DEF HostsIn, Range
<1>5. h \notin HostsIn(samples) => u = << >>
  <2> SUFFICES ASSUME u # << >> PROVE h \in HostsIn(samples)
    OBVIOUS
  <2>1. u[1] \in Range(u)
    BY <1>3 DEF Range
  <2>2. u[1] \in Range(samples) /\ u[1].host = h
    BY <1>1, <1>3, <2>1
  <2> QED
    BY <2>2 DEF HostsIn, Range
<1> QED
  BY <1>1, <1>2, <1>3, <1>4, <1>5

\* Detect's anomalies have the ID of a host, a signal and a time bucket.
LEMMA DetectType ==
    ASSUME NEW samples \in Seq(Sample), NEW now \in Nat
    PROVE  Detect(samples, now) \in Seq(AnomalyRecord)
<1> DEFINE Anomaly(d, signal) ==
               [id |-> <<d.host, signal, now \div Window>>, detected |-> now]
           Found(d) == [i \in DOMAIN d.breaches |-> Anomaly(d, d.breaches[i])]
           seqs == [i \in DOMAIN samples |-> Found(samples[i])]
<1>1. now \div Window \in Nat
  <2>1. Window \in Nat \ {0}
    BY TelemetryConstants
  <2> QED
    BY <2>1
<1>2. ASSUME NEW d \in Sample PROVE Found(d) \in Seq(AnomalyRecord)
  <2>1. d.breaches \in Seq(Signals) /\ d.host \in Hosts
    BY DEF Sample
  <2>2. \A i \in 1..Len(d.breaches) : Anomaly(d, d.breaches[i]) \in AnomalyRecord
    BY <1>1, <2>1 DEF AnomalyRecord
  <2> HIDE DEF Anomaly
  <2>3. Found(d) \in [1..Len(d.breaches) -> AnomalyRecord]
    BY <2>1, <2>2
  <2> QED
    BY <2>1, <2>3
<1> HIDE DEF Found
<1>3. seqs \in [1..Len(samples) -> Seq(AnomalyRecord)]
  BY <1>2
<1>4. seqs \in Seq(Seq(AnomalyRecord))
  BY <1>3
<1>5. Detect(samples, now) = FlattenSeq(seqs)
  BY DEF Detect, Found
<1> QED
  BY <1>4, <1>5, FlattenFacts

\* Buffers in which no anomaly is twice.
Distinct(b) == \A i, j \in 1..Len(b) : b[i].id = b[j].id => i = j
Buffers == {b \in Seq(AnomalyRecord) : Distinct(b)}

\* One turn of addAnomaliesLocked's loop keeps the buffer free of duplicates.
LEMMA AddAnomalyFacts ==
    ASSUME NEW b \in Buffers, NEW a \in AnomalyRecord
    PROVE  AddAnomaly(b, a) \in Buffers
<1>1. b \in Seq(AnomalyRecord) /\ Distinct(b) /\ DOMAIN b = 1..Len(b)
  BY DEF Buffers
<1>2. CASE \E i \in DOMAIN b : b[i].id = a.id
  BY <1>2 DEF AddAnomaly
<1>3. CASE ~ \E i \in DOMAIN b : b[i].id = a.id
  <2>1. PICK c : c = <<a>> \o b
    OBVIOUS
  <2>2. c \in Seq(AnomalyRecord) /\ Len(c) = Len(b) + 1 /\ Len(b) \in Nat /\ c[1] = a
    BY <1>1, <2>1
  <2>3. \A i \in 1..Len(b) : c[i + 1] = b[i]
    BY <1>1, <2>1
  <2>4. ASSUME NEW i \in 1..Len(c), i # 1 PROVE i - 1 \in 1..Len(b) /\ c[i] = b[i - 1]
    <3>1. i - 1 \in 1..Len(b) /\ (i - 1) + 1 = i
      BY <2>2, <2>4
    <3> QED
      BY <2>3, <3>1
  <2>5. ASSUME NEW i \in 1..Len(c), NEW j \in 1..Len(c), c[i].id = c[j].id PROVE i = j
    <3>1. CASE i = 1 /\ j # 1
      BY <1>1, <1>3, <2>2, <2>4, <2>5, <3>1
    <3>2. CASE i # 1 /\ j = 1
      BY <1>1, <1>3, <2>2, <2>4, <2>5, <3>2
    <3>3. CASE i # 1 /\ j # 1
      <4>1. i - 1 = j - 1
        BY <1>1, <2>4, <2>5, <3>3 DEF Distinct
      <4> QED
        BY <4>1
    <3> QED
      BY <3>1, <3>2, <3>3
  <2>6. AddAnomaly(b, a) = c
    BY <1>3, <2>1 DEF AddAnomaly
  <2> QED
    BY <2>2, <2>5, <2>6 DEF Buffers, Distinct
<1> QED
  BY <1>2, <1>3

\* The values of addAnomaliesLocked's loop.
IsAdding(f, buffer, found) ==
    f = [n \in 0..Len(found) |->
            IF n = 0 THEN buffer ELSE AddAnomaly(f[n - 1], found[n])]

\* addAnomaliesLocked keeps the buffer within its bound and free of duplicates,
\* whatever anomalies it is given.
LEMMA AddAnomaliesFacts ==
    ASSUME NEW buffer \in Buffers, NEW found \in Seq(AnomalyRecord)
    PROVE  /\ AddAnomalies(buffer, found) \in Buffers
           /\ Len(AddAnomalies(buffer, found)) <= maxAnomalies
<1> DEFINE n == Len(found)
           step == [p \in Buffers \X (1..n) |-> AddAnomaly(p[1], found[p[2]])]
<1>1. n \in Nat /\ \A i \in 1..n : found[i] \in AnomalyRecord
  OBVIOUS
<1>2. step \in [Buffers \X (1..n) -> Buffers]
  BY <1>1, AddAnomalyFacts
<1>3. PICK f : IsLoop(f, n, Buffers, buffer, step)
  <2> HIDE DEF step, n
  <2> QED
    BY <1>1, <1>2, LoopExists
<1>4. f \in [0..n -> Buffers] /\ f[0] = buffer
  BY <1>3 DEF IsLoop
<1>5. ASSUME NEW i \in 1..n PROVE f[i] = AddAnomaly(f[i - 1], found[i])
  <2>1. f[i - 1] \in Buffers
    BY <1>1, <1>4
  <2>2. f[i] = step[<<f[i - 1], i>>]
    BY <1>3 DEF IsLoop
  <2> QED
    BY <2>1, <2>2
<1>6. IsAdding(f, buffer, found)
  <2> DEFINE g == [i \in 0..Len(found) |->
                      IF i = 0 THEN buffer ELSE AddAnomaly(f[i - 1], found[i])]
  <2>1. ASSUME NEW i \in 0..n PROVE f[i] = g[i]
    <3>1. CASE i = 0
      BY <1>1, <1>4, <3>1
    <3>2. CASE i # 0
      BY <1>1, <1>5, <3>2
    <3> QED
      BY <3>1, <3>2
  <2>2. f = g
    BY <1>4, <2>1
  <2> QED
    BY <2>2 DEF IsAdding
<1> DEFINE h == CHOOSE x : IsAdding(x, buffer, found)
<1>7. IsAdding(h, buffer, found)
  BY <1>6
<1>8. AddAnomalies(buffer, found) = KeepFirst(h[n], maxAnomalies)
  BY DEF AddAnomalies, IsAdding
<1> HIDE DEF h
<1>9. h[0] = buffer /\ \A i \in 1..n : h[i] = AddAnomaly(h[i - 1], found[i])
  <2> DEFINE g == [i \in 0..Len(found) |->
                      IF i = 0 THEN buffer ELSE AddAnomaly(h[i - 1], found[i])]
  <2>1. h = g
    BY <1>7 DEF IsAdding
  <2>2. g[0] = buffer /\ \A i \in 1..n : g[i] = AddAnomaly(h[i - 1], found[i])
    BY <1>1
  <2> HIDE DEF g
  <2> QED
    BY <2>1, <2>2
<1> DEFINE Good == {m \in 0..n : h[m] \in Buffers}
<1>10. 0 \in Good
  BY <1>1, <1>9
<1>11. ASSUME NEW m \in 1..n, m - 1 \in Good PROVE m \in Good
  BY <1>1, <1>9, <1>11, AddAnomalyFacts
<1>12. h[n] \in Buffers
  <2> HIDE DEF Good
  <2>1. \A i \in 0..n : i \in Good
    BY <1>1, <1>10, <1>11, Induction
  <2> QED
    BY <1>1, <2>1 DEF Good
<1>13. PICK b : b = h[n]
  OBVIOUS
<1>14. PICK k : k = AddAnomalies(buffer, found)
  OBVIOUS
<1>15. /\ k \in Seq(AnomalyRecord) /\ Len(k) <= maxAnomalies /\ Len(k) <= Len(b)
       /\ \A i \in 1..Len(k) : k[i] = b[i]
  <2>1. b \in Seq(AnomalyRecord) /\ k = KeepFirst(b, maxAnomalies) /\ maxAnomalies \in Nat
    BY <1>8, <1>12, <1>13, <1>14, TelemetryConstants DEF Buffers
  <2> QED
    BY <2>1, KeepFirstFacts
<1>16. Distinct(b) /\ b \in Seq(AnomalyRecord)
  BY <1>12, <1>13 DEF Buffers
<1>17. Distinct(k)
  <2> SUFFICES ASSUME NEW i \in 1..Len(k), NEW j \in 1..Len(k), k[i].id = k[j].id
               PROVE  i = j
    BY DEF Distinct
  <2>1. i \in 1..Len(b) /\ j \in 1..Len(b)
    BY <1>15, <1>16
  <2>2. b[i].id = b[j].id
    BY <1>15
  <2> QED
    BY <1>16, <2>1, <2>2 DEF Distinct
<1> QED
  BY <1>14, <1>15, <1>17 DEF Buffers

-----------------------------------------------------------------------------

\* The conjuncts of TypeOK, grouped, with the domain of worker.
MemoryTypes ==
    /\ \A h \in DOMAIN latest : latest[h] \in Sample
    /\ \A h \in DOMAIN history : /\ history[h] \in Seq(Sample)
                                 /\ Len(history[h]) <= maxHistoryPerDevice
    /\ anomalies \in Seq(AnomalyRecord)
    /\ Len(anomalies) <= maxAnomalies

Request == [pc : {"commit", "append", "record"}, now : Nat, valid : Seq(Sample)]

WorkerTypes ==
    /\ DOMAIN worker = Workers
    /\ worker = [w \in Workers |-> worker[w]]
    /\ \A w \in Workers : worker[w] = Idle \/ worker[w] \in Request

CountTypes ==
    /\ clock \in 0..MaxClock
    /\ ingests \in 0..MaxIngests
    /\ faults \in 0..MaxFaults /\ restarts \in 0..MaxRestarts

TelemetryTypes ==
    /\ table \in Seq(Sample) /\ accepted \subseteq Sample
    /\ MemoryTypes /\ WorkerTypes /\ CountTypes

\* Sample d is in the batch of a request that stands at one of the stages.
InFlight(d, stages) ==
    \E w \in Workers : worker[w].pc \in stages /\ d \in Range(worker[w].valid)

\* A sample that was committed is in the table while it is within the window.
Stored ==
    \A d \in Sample :
        (d \in accepted \/ InFlight(d, {"append", "record"})) /\ InWindow(d)
            => d \in Range(table)

\* A sample that went into the history is still there, unless that is full.
Shown ==
    \A d \in Sample :
        (d \in accepted \/ InFlight(d, {"record"})) /\ InWindow(d)
            => \/ d \in Range(HistoryOf(d.host))
               \/ Len(HistoryOf(d.host)) = maxHistoryPerDevice

\* A host that is in the map has a history.
NoneEmpty == \A h \in DOMAIN history : history[h] # << >>

TelemetryInv ==
    /\ TelemetryTypes
    /\ NoneEmpty
    /\ LatestEndsHistory
    /\ AnomaliesDistinct
    /\ Stored
    /\ Shown

-----------------------------------------------------------------------------

\* Dividing by a positive number keeps the order.
LEMMA DivMonotone ==
    ASSUME NEW a \in Int, NEW b \in Int, a <= b, NEW n \in Nat \ {0}
    PROVE  a \div n \in Int /\ b \div n \in Int /\ a \div n <= b \div n
<1>1. PICK p \in Int, q \in Int, r \in Int, s \in Int :
          p = a \div n /\ r = a % n /\ q = b \div n /\ s = b % n
  OBVIOUS
<1>2. /\ a = n * p + r /\ 0 <= r /\ r < n
      /\ b = n * q + s /\ 0 <= s /\ s < n
  BY <1>1
<1>3. ASSUME p > q PROVE FALSE
  <2>1. PICK e \in Nat : p = q + 1 + e
    <3>1. p - q - 1 \in Nat /\ p = q + 1 + (p - q - 1)
      BY <1>3
    <3> QED
      BY <3>1
  <2>2. n * p = n * q + n + n * e /\ n * e >= 0
    BY <2>1
  <2> QED
    BY <1>2, <2>2
<1> QED
  BY <1>1, <1>3

\* Time only takes samples out of the window.
LEMMA WindowShrinks ==
    ASSUME clock \in Nat, clock' \in Nat, clock <= clock', NEW d \in Sample, InWindow(d)'
    PROVE  InWindow(d)
<1>1. PICK c \in Nat, e \in Nat : c = clock /\ e = clock' /\ c <= e
  BY Zenon
<1>2. TicksPerSecond \in Nat \ {0} /\ Retention \in Nat
  BY TelemetryConstants
<1>3. c - Retention \in Int /\ e - Retention \in Int /\ c - Retention <= e - Retention
  <2>1. PICK r \in Nat : r = Retention
    BY <1>2
  <2>2. c <= e
    BY <1>1
  <2>3. c - r \in Int /\ e - r \in Int /\ c - r <= e - r
    BY <2>2, SMT
  <2> QED
    BY <2>1, <2>3
<1>4. PICK x, y : x = Format(c - Retention) /\ y = Format(e - Retention)
  OBVIOUS
<1>5. x \in Int /\ y \in Int /\ x <= y
  BY <1>2, <1>3, <1>4, DivMonotone DEF Format
<1>6. d.observed \in Int
  BY DEF Sample
<1>7. PICK o : o = Format(d.observed)
  OBVIOUS
<1>8. o \in Int
  BY <1>2, <1>6, <1>7 DEF Format
<1>9. o >= y
  BY <1>1, <1>4, <1>7 DEF InWindow, Cutoff, Format
<1>10. o >= x
  BY <1>5, <1>8, <1>9
<1> QED
  BY <1>1, <1>4, <1>7, <1>10 DEF InWindow, Cutoff

\* The invariant holds of the empty store.
LEMMA TelemetryInit == Init => TelemetryInv
<1> SUFFICES ASSUME Init PROVE TelemetryInv
  OBVIOUS
<1> USE TelemetryConstants DEF Init
<1>1. TelemetryTypes
  BY DEF TelemetryTypes, MemoryTypes, WorkerTypes, CountTypes
<1>2. NoneEmpty /\ LatestEndsHistory /\ AnomaliesDistinct
  BY DEF NoneEmpty, LatestEndsHistory, AnomaliesDistinct
<1>3. \A w \in Workers : worker[w].pc = "idle"
  BY DEF Idle
<1>4. Stored /\ Shown
  BY <1>3 DEF Stored, Shown, InFlight
<1> QED
  BY <1>1, <1>2, <1>4 DEF TelemetryInv

\* A request moves on: what is in flight afterwards was before, or is its own.
LEMMA WorkerSet ==
    ASSUME WorkerTypes, NEW w \in Workers, NEW r, r = Idle \/ r \in Request,
           worker' = [worker EXCEPT ![w] = r]
    PROVE  /\ WorkerTypes'
           /\ \A d, stages : InFlight(d, stages)' =>
                  InFlight(d, stages) \/ (r.pc \in stages /\ d \in Range(r.valid))
<1>1. /\ worker'[w] = r
      /\ \A x \in Workers : x # w => worker'[x] = worker[x]
      /\ DOMAIN worker' = Workers
      /\ worker' = [x \in Workers |-> worker'[x]]
  BY DEF WorkerTypes
<1>2. \A x \in Workers : worker'[x] = Idle \/ worker'[x] \in Request
  BY <1>1 DEF WorkerTypes
<1>3. ASSUME NEW d, NEW stages, InFlight(d, stages)'
      PROVE  InFlight(d, stages) \/ (r.pc \in stages /\ d \in Range(r.valid))
  <2>1. PICK x \in Workers : worker'[x].pc \in stages /\ d \in Range(worker'[x].valid)
    BY <1>3 DEF InFlight, Range
  <2>2. CASE x = w
    BY <1>1, <2>1, <2>2
  <2>3. CASE x # w
    BY <1>1, <2>1, <2>3 DEF InFlight
  <2> QED
    BY <2>2, <2>3
<1>4. WorkerTypes'
  BY <1>1, <1>2 DEF WorkerTypes, Idle
<1> QED
  BY <1>3, <1>4

\* A request that is not idle, and the same request one stage further.
LEMMA StageSet ==
    ASSUME WorkerTypes, NEW w \in Workers, worker[w].pc # "idle",
           NEW stage \in {"commit", "append", "record"},
           worker' = [worker EXCEPT ![w].pc = stage]
    PROVE  \E r \in Request : /\ r.pc = stage /\ r.valid = worker[w].valid
                              /\ r.now = worker[w].now
                              /\ worker' = [worker EXCEPT ![w] = r]
                              /\ worker[w] \in Request
<1>1. worker[w] \in Request
  BY DEF WorkerTypes, Idle
<1>2. PICK r : r = [worker[w] EXCEPT !.pc = stage]
  OBVIOUS
<1>3. r \in Request /\ r.pc = stage /\ r.valid = worker[w].valid /\ r.now = worker[w].now
  BY <1>1, <1>2 DEF Request
<1>4. worker' = [worker EXCEPT ![w] = r]
  BY <1>2
<1> QED
  BY <1>1, <1>3, <1>4

\* A row of a batch, as it comes in.
Row == [host : Hosts, age : Int, valid : BOOLEAN, breaches : Seq(Signals)]

\* A request is received: its valid samples wait to be committed.
LEMMA ReceiveBatchKeeps ==
    ASSUME TelemetryInv, NEW w \in Workers, NEW shape \in Shapes, ReceiveBatch(w, shape)
    PROVE  TelemetryInv'
<1> DEFINE Observed(d) == [host |-> d.host, observed |-> clock - d.age,
                           breaches |-> d.breaches]
           passing == Where(shape, {d \in Range(shape) : d.valid})
           valid == [i \in DOMAIN passing |-> Observed(passing[i])]
<1> USE DEF TelemetryInv, TelemetryTypes
<1>1. shape \in Seq(Row) /\ clock \in Nat
  <2>1. Shapes \subseteq Seq(Row) /\ MaxClock \in Nat
    BY TelemetryConstants DEF Row
  <2> QED
    BY <2>1 DEF CountTypes
<1>2. PICK p : p = passing
  OBVIOUS
<1>3. p \in Seq(Row)
  BY <1>1, <1>2, WhereRange
<1>4. PICK v : v = [i \in DOMAIN p |-> Observed(p[i])]
  OBVIOUS
<1>5. v \in Seq(Sample)
  <2>1. \A i \in 1..Len(p) : Observed(p[i]) \in Sample
    <3> SUFFICES ASSUME NEW i \in 1..Len(p) PROVE Observed(p[i]) \in Sample
      OBVIOUS
    <3>1. p[i] \in Row
      BY <1>3
    <3> QED
      BY <1>1, <3>1 DEF Row, Sample
  <2> HIDE DEF Observed
  <2>2. Len(p) \in Nat /\ v \in [1..Len(p) -> Sample]
    BY <1>3, <1>4, <2>1
  <2> QED
    BY <1>3, <2>2
<1>6. PICK r : r = [pc |-> IF v = << >> THEN "append" ELSE "commit",
                    now |-> clock, valid |-> v]
  OBVIOUS
<1>7. worker' = [worker EXCEPT ![w] = r]
  BY <1>2, <1>4, <1>6 DEF ReceiveBatch
<1>8. r \in Request /\ (r.pc \in {"append", "record"} => r.valid = << >> /\ r.pc = "append")
  BY <1>1, <1>5, <1>6 DEF Request
<1>9. /\ WorkerTypes'
      /\ \A d, stages : InFlight(d, stages)' =>
             InFlight(d, stages) \/ (r.pc \in stages /\ d \in Range(r.valid))
  BY <1>7, <1>8, WorkerSet
<1>10. \A d : /\ InFlight(d, {"append", "record"})' => InFlight(d, {"append", "record"})
              /\ InFlight(d, {"record"})' => InFlight(d, {"record"})
  <2> SUFFICES ASSUME NEW d
               PROVE  /\ InFlight(d, {"append", "record"})' => InFlight(d, {"append", "record"})
                      /\ InFlight(d, {"record"})' => InFlight(d, {"record"})
    OBVIOUS
  <2>1. r.pc \in {"append", "record"} => d \notin Range(r.valid)
    BY <1>8 DEF Range
  <2>2. r.pc # "record"
    BY <1>8
  <2> QED
    BY <1>9, <2>1, <2>2
<1>11. /\ ingests < MaxIngests /\ ingests' = ingests + 1
       /\ UNCHANGED <<table, memory, clock, accepted, faults, restarts>>
  BY DEF ReceiveBatch
<1>12. CountTypes' /\ MemoryTypes' /\ table' \in Seq(Sample) /\ accepted' \subseteq Sample
  BY <1>11, TelemetryConstants DEF CountTypes, MemoryTypes, memory
<1>13. NoneEmpty' /\ LatestEndsHistory' /\ AnomaliesDistinct'
  BY <1>11 DEF NoneEmpty, LatestEndsHistory, AnomaliesDistinct, memory
<1>14. \A d : InWindow(d)' = InWindow(d) /\ HistoryOf(d.host)' = HistoryOf(d.host)
  BY <1>11 DEF InWindow, Cutoff, HistoryOf, memory
<1>15. Stored' /\ Shown'
  BY <1>10, <1>11, <1>14 DEF Stored, Shown
<1> QED
  BY <1>9, <1>12, <1>13, <1>15

\* The elements of a concatenation.
LEMMA ConcatRange ==
    ASSUME NEW S, NEW s \in Seq(S), NEW t \in Seq(S)
    PROVE  s \o t \in Seq(S) /\ Range(s \o t) = Range(s) \cup Range(t)
<1>1. PICK u : u = s \o t
  OBVIOUS
<1>2. /\ u \in Seq(S) /\ Len(u) = Len(s) + Len(t) /\ Len(s) \in Nat /\ Len(t) \in Nat
      /\ \A i \in 1..Len(s) : u[i] = s[i]
      /\ \A i \in 1..Len(t) : u[Len(s) + i] = t[i]
  BY <1>1, ConcatFacts
<1>3. DOMAIN s = 1..Len(s) /\ DOMAIN t = 1..Len(t) /\ DOMAIN u = 1..Len(u)
  BY <1>2
<1>4. ASSUME NEW i \in 1..Len(u) PROVE u[i] \in Range(s) \cup Range(t)
  <2>1. CASE i <= Len(s)
    <3>1. i \in 1..Len(s)
      BY <1>2, <2>1
    <3>2. u[i] = s[i]
      BY <1>2, <3>1
    <3> QED
      BY <1>3, <3>1, <3>2 DEF Range
  <2>2. CASE ~(i <= Len(s))
    <3>1. i - Len(s) \in 1..Len(t) /\ Len(s) + (i - Len(s)) = i
      BY <1>2, <2>2
    <3>2. u[i] = t[i - Len(s)]
      BY <1>2, <3>1
    <3> QED
      BY <1>3, <3>1, <3>2 DEF Range
  <2> QED
    BY <2>1, <2>2
<1>5. ASSUME NEW i \in 1..Len(s) PROVE s[i] \in Range(u)
  <2>1. i \in 1..Len(u) /\ u[i] = s[i]
    BY <1>2
  <2> QED
    BY <1>3, <2>1 DEF Range
<1>6. ASSUME NEW i \in 1..Len(t) PROVE t[i] \in Range(u)
  <2>1. Len(s) + i \in 1..Len(u) /\ u[Len(s) + i] = t[i]
    BY <1>2
  <2> QED
    BY <1>3, <2>1 DEF Range
<1>7. Range(u) = Range(s) \cup Range(t)
  <2>1. Range(u) \subseteq Range(s) \cup Range(t)
    BY <1>3, <1>4 DEF Range
  <2>2. Range(s) \subseteq Range(u)
    BY <1>3, <1>5 DEF Range
  <2>3. Range(t) \subseteq Range(u)
    BY <1>3, <1>6 DEF Range
  <2> QED
    BY <2>1, <2>2, <2>3
<1> QED
  BY <1>1, <1>2, <1>7

\* The batch is committed: its samples are in the table.
LEMMA CommitBatchKeeps ==
    ASSUME TelemetryInv, NEW w \in Workers, CommitBatch(w)
    PROVE  TelemetryInv'
<1> USE DEF TelemetryInv, TelemetryTypes
<1>1. /\ worker[w].pc = "commit" /\ table' = table \o worker[w].valid
      /\ worker' = [worker EXCEPT ![w].pc = "append"]
      /\ UNCHANGED <<memory, clock, accepted, counts>>
  BY DEF CommitBatch
<1>2. PICK r \in Request : /\ r.pc = "append" /\ r.valid = worker[w].valid
                           /\ worker' = [worker EXCEPT ![w] = r]
  BY <1>1, StageSet
<1>3. /\ WorkerTypes'
      /\ \A d, stages : InFlight(d, stages)' =>
             InFlight(d, stages) \/ (r.pc \in stages /\ d \in Range(r.valid))
  BY <1>2, WorkerSet
<1>4. r.valid \in Seq(Sample)
  BY DEF Request
<1>5. table' \in Seq(Sample) /\ Range(table') = Range(table) \cup Range(r.valid)
  BY <1>1, <1>2, <1>4, ConcatRange
<1>6. CountTypes' /\ MemoryTypes' /\ accepted' \subseteq Sample
  BY <1>1 DEF CountTypes, MemoryTypes, memory, counts
<1>7. NoneEmpty' /\ LatestEndsHistory' /\ AnomaliesDistinct'
  BY <1>1 DEF NoneEmpty, LatestEndsHistory, AnomaliesDistinct, memory
<1>8. \A d : InWindow(d)' = InWindow(d) /\ HistoryOf(d.host)' = HistoryOf(d.host)
  BY <1>1 DEF InWindow, Cutoff, HistoryOf, memory
<1>9. Stored'
  <2> SUFFICES ASSUME NEW d \in Sample, InWindow(d)',
                      (d \in accepted \/ InFlight(d, {"append", "record"}))'
               PROVE  d \in Range(table')
    BY DEF Stored, Range
  <2>1. d \in accepted \/ InFlight(d, {"append", "record"}) \/ d \in Range(r.valid)
    BY <1>1, <1>3
  <2> QED
    BY <1>5, <1>8, <2>1 DEF Stored
<1>10. Shown'
  <2>1. \A d : InFlight(d, {"record"})' => InFlight(d, {"record"})
    BY <1>2, <1>3
  <2> QED
    BY <1>1, <1>8, <2>1 DEF Shown
<1> QED
  BY <1>3, <1>5, <1>6, <1>7, <1>9, <1>10

\* The transaction fails: nothing is stored, and nothing shown.
LEMMA CommitFailsKeeps ==
    ASSUME TelemetryInv, NEW w \in Workers, CommitFails(w)
    PROVE  TelemetryInv'
<1> USE DEF TelemetryInv, TelemetryTypes
<1>1. /\ worker' = [worker EXCEPT ![w] = Idle]
      /\ faults < MaxFaults /\ faults' = faults + 1
      /\ UNCHANGED <<table, memory, clock, accepted, ingests, restarts>>
  BY DEF CommitFails
<1>2. /\ WorkerTypes'
      /\ \A d, stages : InFlight(d, stages)' =>
             InFlight(d, stages) \/ (Idle.pc \in stages /\ d \in Range(Idle.valid))
  BY <1>1, WorkerSet
<1>3. \A d : /\ InFlight(d, {"append", "record"})' => InFlight(d, {"append", "record"})
             /\ InFlight(d, {"record"})' => InFlight(d, {"record"})
  <2>1. Idle.pc = "idle"
    BY DEF Idle
  <2> QED
    BY <1>2, <2>1
<1>4. CountTypes' /\ MemoryTypes' /\ table' \in Seq(Sample) /\ accepted' \subseteq Sample
  BY <1>1, TelemetryConstants DEF CountTypes, MemoryTypes, memory
<1>5. NoneEmpty' /\ LatestEndsHistory' /\ AnomaliesDistinct'
  BY <1>1 DEF NoneEmpty, LatestEndsHistory, AnomaliesDistinct, memory
<1>6. \A d : InWindow(d)' = InWindow(d) /\ HistoryOf(d.host)' = HistoryOf(d.host)
  BY <1>1 DEF InWindow, Cutoff, HistoryOf, memory
<1>7. Stored' /\ Shown'
  BY <1>1, <1>3, <1>6 DEF Stored, Shown
<1> QED
  BY <1>2, <1>4, <1>5, <1>7

\* The anomalies are merged, and the batch is answered with 200.
LEMMA RecordAnomaliesKeeps ==
    ASSUME TelemetryInv, NEW w \in Workers, RecordAnomalies(w)
    PROVE  TelemetryInv'
<1> USE DEF TelemetryInv, TelemetryTypes
<1>1. PICK r : r = worker[w]
  OBVIOUS
<1>2. /\ r.pc = "record"
      /\ anomalies' = AddAnomalies(anomalies, Detect(r.valid, r.now))
      /\ accepted' = accepted \cup Range(r.valid)
      /\ worker' = [worker EXCEPT ![w] = Idle]
      /\ UNCHANGED <<table, latest, history, clock, counts>>
  BY <1>1 DEF RecordAnomalies
<1>3. r \in Request /\ r.valid \in Seq(Sample) /\ r.now \in Nat
  BY <1>1, <1>2 DEF WorkerTypes, Request, Idle
<1>4. /\ WorkerTypes'
      /\ \A d, stages : InFlight(d, stages)' =>
             InFlight(d, stages) \/ (Idle.pc \in stages /\ d \in Range(Idle.valid))
  BY <1>2, WorkerSet
<1>5. \A d : /\ InFlight(d, {"append", "record"})' => InFlight(d, {"append", "record"})
             /\ InFlight(d, {"record"})' => InFlight(d, {"record"})
  <2>1. Idle.pc = "idle"
    BY DEF Idle
  <2> QED
    BY <1>4, <2>1
<1>6. anomalies' \in Buffers /\ Len(anomalies') <= maxAnomalies
  <2>1. anomalies \in Seq(AnomalyRecord) /\ DOMAIN anomalies = 1..Len(anomalies)
    BY DEF MemoryTypes
  <2>2. anomalies \in Buffers
    BY <2>1 DEF Buffers, Distinct, AnomaliesDistinct
  <2>3. Detect(r.valid, r.now) \in Seq(AnomalyRecord)
    BY <1>3, DetectType
  <2>4. PICK b, f : b = anomalies /\ f = Detect(r.valid, r.now)
    OBVIOUS
  <2>5. AddAnomalies(b, f) \in Buffers /\ Len(AddAnomalies(b, f)) <= maxAnomalies
    BY <2>2, <2>3, <2>4, AddAnomaliesFacts
  <2> QED
    BY <1>2, <2>4, <2>5
<1>7. PICK k : k = anomalies'
  OBVIOUS
<1>8. k \in Seq(AnomalyRecord) /\ Distinct(k) /\ DOMAIN k = 1..Len(k)
  BY <1>6, <1>7 DEF Buffers
<1>9. AnomaliesDistinct'
  <2>1. \A i, j \in DOMAIN k : k[i].id = k[j].id => i = j
    BY <1>8 DEF Distinct
  <2> QED
    BY <1>7, <2>1 DEF AnomaliesDistinct
<1>10. CountTypes' /\ MemoryTypes' /\ table' \in Seq(Sample)
  BY <1>2, <1>6, <1>7, <1>8 DEF CountTypes, MemoryTypes, counts
<1>11. accepted' \subseteq Sample
  BY <1>2, <1>3 DEF Range
<1>12. NoneEmpty' /\ LatestEndsHistory'
  BY <1>2 DEF NoneEmpty, LatestEndsHistory
<1>13. \A d : InWindow(d)' = InWindow(d) /\ HistoryOf(d.host)' = HistoryOf(d.host)
  BY <1>2 DEF InWindow, Cutoff, HistoryOf
<1>14. \A d : d \in accepted' =>
             \/ d \in accepted
             \/ InFlight(d, {"record"}) /\ InFlight(d, {"append", "record"})
  BY <1>1, <1>2 DEF InFlight
<1>15. Stored' /\ Shown'
  BY <1>2, <1>5, <1>13, <1>14 DEF Stored, Shown
<1> QED
  BY <1>4, <1>9, <1>10, <1>11, <1>12, <1>15

\* KeepLast of a longer sequence: an element of it that is gone, or a part of it
\* that had the full length, leaves the full length behind.
LEMMA KeepLastGrows ==
    ASSUME NEW S, NEW s \in Seq(S), NEW t \in Seq(S), NEW n \in Nat \ {0}
    PROVE  /\ \A d \in Range(s \o t) :
                  d \in Range(KeepLast(s \o t, n)) \/ Len(KeepLast(s \o t, n)) = n
           /\ Len(s) = n => Len(KeepLast(s \o t, n)) = n
<1>1. PICK u, k : u = s \o t /\ k = KeepLast(u, n)
  OBVIOUS
<1>2. u \in Seq(S) /\ Len(u) = Len(s) + Len(t) /\ Len(s) \in Nat /\ Len(t) \in Nat
  BY <1>1, ConcatFacts
<1>3. k \in Seq(S) /\ Len(k) <= n /\ (k = u \/ Len(k) = n)
  BY <1>1, <1>2, KeepLastFacts
<1>4. Len(s) = n => Len(k) = n
  BY <1>2, <1>3
<1> QED
  BY <1>1, <1>3, <1>4

\* The batch goes into the history.
LEMMA AppendHistoryKeeps ==
    ASSUME TelemetryInv, NEW w \in Workers, AppendHistory(w)
    PROVE  TelemetryInv'
<1> USE DEF TelemetryInv, TelemetryTypes
<1>1. PICK valid, hosts : valid = worker[w].valid /\ hosts = HostsIn(valid)
  OBVIOUS
<1>2. /\ worker[w].pc = "append"
      /\ latest' = [h \in DOMAIN latest \cup hosts |->
                       IF h \in hosts
                       THEN OfHost(valid, h)[Len(OfHost(valid, h))]
                       ELSE latest[h]]
      /\ history' = [h \in DOMAIN history \cup hosts |->
                        KeepLast(HistoryOf(h) \o OfHost(valid, h), maxHistoryPerDevice)]
      /\ worker' = [worker EXCEPT ![w].pc = "record"]
      /\ UNCHANGED <<table, anomalies, clock, accepted, counts>>
  BY <1>1 DEF AppendHistory
<1>3. PICK r \in Request : /\ r.pc = "record" /\ r.valid = worker[w].valid
                           /\ worker' = [worker EXCEPT ![w] = r]
  BY <1>2, StageSet
<1>4. /\ WorkerTypes'
      /\ \A d, stages : InFlight(d, stages)' =>
             InFlight(d, stages) \/ (r.pc \in stages /\ d \in Range(r.valid))
  BY <1>3, WorkerSet
<1>5. valid \in Seq(Sample) /\ r.valid = valid
  BY <1>1, <1>3 DEF Request
<1>6. DOMAIN latest = DOMAIN history /\ DOMAIN latest' = DOMAIN history'
  BY <1>2 DEF LatestEndsHistory
<1>7. maxHistoryPerDevice \in Nat \ {0}
  BY TelemetryConstants
<1>8. ASSUME NEW h PROVE HistoryOf(h) \in Seq(Sample)
  BY DEF HistoryOf, MemoryTypes
<1>9. ASSUME NEW h \in DOMAIN history'
      PROVE  /\ history'[h] \in Seq(Sample)
             /\ Len(history'[h]) <= maxHistoryPerDevice
             /\ history'[h] # << >>
             /\ latest'[h] \in Sample
             /\ latest'[h] = history'[h][Len(history'[h])]
  <2>1. PICK a, b : a = HistoryOf(h) /\ b = OfHost(valid, h)
    OBVIOUS
  <2>2. /\ a \in Seq(Sample) /\ b \in Seq(Sample)
        /\ h \in hosts => b # << >>
        /\ h \notin hosts => b = << >>
    BY <1>1, <1>5, <1>8, <2>1, OfHostFacts
  <2>3. PICK u : u = a \o b
    OBVIOUS
  <2>4. u \in Seq(Sample) /\ Len(u) = Len(a) + Len(b)
    BY <2>2, <2>3
  <2>5. history'[h] = KeepLast(u, maxHistoryPerDevice)
    BY <1>2, <2>1, <2>3
  <2>6. /\ h \in hosts => latest'[h] = b[Len(b)]
        /\ h \notin hosts => latest'[h] = latest[h] /\ h \in DOMAIN history
    BY <1>2, <1>6, <2>1
  <2>7. u # << >> /\ u[Len(u)] = latest'[h] /\ latest'[h] \in Sample
    <3>1. CASE h \in hosts
      <4>1. Len(b) \in 1..Len(b) /\ Len(a) \in Nat
        BY <2>2, <3>1
      <4>2. u[Len(a) + Len(b)] = b[Len(b)] /\ b[Len(b)] \in Sample
        BY <2>2, <2>3, <4>1
      <4>3. u # << >>
        BY <2>4, <4>1
      <4> QED
        BY <2>4, <2>6, <3>1, <4>2, <4>3
    <3>2. CASE h \notin hosts
      <4>1. u = a /\ a = history[h]
        BY <2>1, <2>2, <2>3, <2>6, <3>2 DEF HistoryOf
      <4>2. history[h] # << >> /\ latest[h] = history[h][Len(history[h])] /\ latest[h] \in Sample
        BY <1>6, <2>6, <3>2 DEF NoneEmpty, LatestEndsHistory, MemoryTypes
      <4> QED
        BY <2>6, <3>2, <4>1, <4>2
    <3> QED
      BY <3>1, <3>2
  <2>8. PICK k : k = KeepLast(u, maxHistoryPerDevice)
    OBVIOUS
  <2>9. /\ k \in Seq(Sample) /\ Len(k) <= maxHistoryPerDevice
        /\ k # << >> /\ k[Len(k)] = u[Len(u)]
    BY <1>7, <2>4, <2>7, <2>8, KeepLastFacts
  <2> QED
    BY <2>5, <2>7, <2>8, <2>9
<1>10. /\ MemoryTypes' /\ CountTypes' /\ NoneEmpty' /\ LatestEndsHistory' /\ AnomaliesDistinct'
       /\ table' \in Seq(Sample) /\ accepted' \subseteq Sample
  <2>1. MemoryTypes'
    BY <1>2, <1>6, <1>9 DEF MemoryTypes
  <2>2. CountTypes' /\ table' \in Seq(Sample) /\ accepted' \subseteq Sample
    BY <1>2 DEF CountTypes, counts
  <2>3. NoneEmpty' /\ LatestEndsHistory'
    BY <1>6, <1>9 DEF NoneEmpty, LatestEndsHistory
  <2>4. AnomaliesDistinct'
    BY <1>2 DEF AnomaliesDistinct
  <2> QED
    BY <2>1, <2>2, <2>3, <2>4
<1>11. \A d : InWindow(d)' = InWindow(d)
  BY <1>2 DEF InWindow, Cutoff
<1>12. Stored'
  <2>1. \A d : InFlight(d, {"append", "record"})' => InFlight(d, {"append", "record"})
    BY <1>1, <1>2, <1>4, <1>5 DEF InFlight
  <2> QED
    BY <1>2, <1>11, <2>1 DEF Stored
<1>13. Shown'
  <2> SUFFICES ASSUME NEW d \in Sample, InWindow(d)', (d \in accepted \/ InFlight(d, {"record"}))'
               PROVE  \/ d \in Range(HistoryOf(d.host)')
                      \/ Len(HistoryOf(d.host)') = maxHistoryPerDevice
    BY DEF Shown, Range
  <2>1. PICK h, a, b, k : /\ h = d.host /\ a = HistoryOf(h) /\ b = OfHost(valid, h)
                          /\ k = HistoryOf(h)'
    OBVIOUS
  <2>2. /\ a \in Seq(Sample) /\ b \in Seq(Sample)
        /\ d \in Range(valid) => d \in Range(b)
        /\ h \notin hosts => b = << >>
    BY <1>1, <1>5, <1>8, <2>1, OfHostFacts
  <2>3. k = KeepLast(a \o b, maxHistoryPerDevice)
    <3>1. CASE h \in DOMAIN history'
      BY <1>2, <2>1, <3>1 DEF HistoryOf
    <3>2. CASE h \notin DOMAIN history'
      <4>1. k = << >> /\ a = << >> /\ b = << >>
        BY <1>2, <2>1, <2>2, <3>2 DEF HistoryOf
      <4> QED
        BY <1>7, <4>1 DEF KeepLast
    <3> QED
      BY <3>1, <3>2
  <2>4. \/ d \in Range(a) \cup Range(b)
        \/ Len(a) = maxHistoryPerDevice
    <3>1. d \in accepted \/ InFlight(d, {"record"}) \/ d \in Range(valid)
      BY <1>2, <1>4, <1>5
    <3> QED
      BY <1>11, <2>1, <2>2, <3>1 DEF Shown
  <2>5. Range(a \o b) = Range(a) \cup Range(b)
    BY <2>2, ConcatRange
  <2>6. d \in Range(k) \/ Len(k) = maxHistoryPerDevice
    BY <1>7, <2>2, <2>3, <2>4, <2>5, KeepLastGrows
  <2> QED
    BY <2>1, <2>6
<1> QED
  BY <1>4, <1>10, <1>12, <1>13

\* Pruning leaves the rows within the window alone.
LEMMA PruneKeeps ==
    ASSUME TelemetryInv, Prune
    PROVE  TelemetryInv'
<1> USE DEF TelemetryInv, TelemetryTypes
<1>1. PICK t, T : /\ t = table
                  /\ T = {d \in Range(table) : Format(d.observed) >= Cutoff}
  OBVIOUS
<1>2. table' = Where(t, T) /\ UNCHANGED <<memory, worker, clock, accepted, counts>>
  BY <1>1 DEF Prune
<1>3. table' \in Seq(Sample) /\ Range(table') = Range(t) \cap T
  BY <1>1, <1>2, WhereRange
<1>4. /\ MemoryTypes' /\ CountTypes' /\ WorkerTypes' /\ accepted' \subseteq Sample
      /\ NoneEmpty' /\ LatestEndsHistory' /\ AnomaliesDistinct'
  BY <1>2 DEF MemoryTypes, CountTypes, WorkerTypes, NoneEmpty, LatestEndsHistory,
              AnomaliesDistinct, memory, counts, Idle
<1>5. \A d : /\ InWindow(d)' = InWindow(d) /\ HistoryOf(d.host)' = HistoryOf(d.host)
             /\ \A stages : InFlight(d, stages)' = InFlight(d, stages)
  BY <1>2 DEF InWindow, Cutoff, HistoryOf, InFlight, memory, Range
<1>6. Shown'
  BY <1>2, <1>5 DEF Shown
<1>7. Stored'
  <2> SUFFICES ASSUME NEW d \in Sample, InWindow(d)',
                      (d \in accepted \/ InFlight(d, {"append", "record"}))'
               PROVE  d \in Range(table')
    BY DEF Stored, Range
  <2>1. d \in Range(table) /\ InWindow(d)
    BY <1>2, <1>5 DEF Stored
  <2> QED
    BY <1>1, <1>3, <2>1 DEF InWindow
<1> QED
  BY <1>3, <1>4, <1>6, <1>7

\* Time passes.
LEMMA TickKeeps ==
    ASSUME TelemetryInv, Tick
    PROVE  TelemetryInv'
<1> USE DEF TelemetryInv, TelemetryTypes
<1>1. /\ clock < MaxClock /\ clock' = clock + 1
      /\ UNCHANGED <<table, memory, worker, accepted, counts>>
  BY DEF Tick
<1>2. clock \in Nat /\ clock' \in Nat /\ clock <= clock' /\ CountTypes'
  <2>1. MaxClock \in Nat
    BY TelemetryConstants
  <2> QED
    BY <1>1, <2>1 DEF CountTypes, counts
<1>3. /\ MemoryTypes' /\ WorkerTypes' /\ accepted' \subseteq Sample /\ table' \in Seq(Sample)
      /\ NoneEmpty' /\ LatestEndsHistory' /\ AnomaliesDistinct'
  BY <1>1 DEF MemoryTypes, WorkerTypes, NoneEmpty, LatestEndsHistory, AnomaliesDistinct,
              memory, Idle
<1>4. \A d : /\ HistoryOf(d.host)' = HistoryOf(d.host)
             /\ \A stages : InFlight(d, stages)' = InFlight(d, stages)
  BY <1>1 DEF HistoryOf, InFlight, memory, Range
<1>5. \A d \in Sample : InWindow(d)' => InWindow(d)
  BY <1>2, WindowShrinks
<1>6. Stored' /\ Shown'
  BY <1>1, <1>4, <1>5 DEF Stored, Shown
<1> QED
  BY <1>2, <1>3, <1>6

\* A history restore may build holds the rows of its host that are within the
\* window, all of them unless it is full, and is not empty unless there are none.
LEMMA RestoredFacts ==
    ASSUME TelemetryTypes, NEW h, NEW f \in RestoredHistories(h)
    PROVE  /\ f \in Seq(Sample) /\ Len(f) <= maxHistoryPerDevice
           /\ RowsOf(h) # {} => f # << >>
           /\ \A i \in RowsOf(h) : table[i] \in Range(f) \/ Len(f) = maxHistoryPerDevice
<1> DEFINE observedAt == [i \in RowsOf(h) |-> Format(table[i].observed)]
<1>1. PICK s \in Ordered(RowsOf(h), observedAt) : f = HistoryFrom(s)
  BY DEF RestoredHistories
<1>2. RowsOf(h) \subseteq 1..Len(table) /\ Len(table) \in Nat /\ table \in Seq(Sample)
  BY DEF RowsOf, TelemetryTypes
<1>3. IsFiniteSet(RowsOf(h))
  <2>1. IsFiniteSet(1..Len(table))
    BY <1>2, FS_Interval
  <2> QED
    BY <1>2, <2>1, FS_Subset
<1>4. PICK R, rank : R = RowsOf(h) /\ rank = observedAt
  OBVIOUS
<1>5. /\ s \in Seq(R) /\ Len(s) = Cardinality(R) /\ DOMAIN s = 1..Len(s)
      /\ \A x \in R : \E i \in 1..Len(s) : s[i] = x
  <2>1. IsFiniteSet(R) /\ s \in Ordered(R, rank)
    BY <1>3, <1>4
  <2> QED
    BY <2>1, OrderedEnumerates
<1>6. PICK g : g = [n \in DOMAIN s |-> table[s[n]]]
  OBVIOUS
<1>7. g \in Seq(Sample) /\ Len(g) = Len(s)
  <2>1. \A n \in 1..Len(s) : table[s[n]] \in Sample
    BY <1>2, <1>4, <1>5
  <2>2. Len(s) \in Nat /\ g \in [1..Len(s) -> Sample]
    BY <1>5, <1>6, <2>1
  <2> QED
    BY <2>2
<1>8. maxHistoryPerDevice \in Nat \ {0}
  BY TelemetryConstants
<1>9. /\ f \in Seq(Sample) /\ Len(f) <= maxHistoryPerDevice
      /\ f = g \/ Len(f) = maxHistoryPerDevice
      /\ g # << >> => f # << >>
  <2>1. f = KeepLast(g, maxHistoryPerDevice)
    BY <1>1, <1>6 DEF HistoryFrom
  <2> QED
    BY <1>7, <1>8, <2>1, KeepLastFacts
<1>10. ASSUME NEW i \in RowsOf(h) PROVE table[i] \in Range(g) /\ g # << >>
  <2>1. PICK n \in 1..Len(s) : s[n] = i
    BY <1>4, <1>5
  <2>2. n \in DOMAIN g /\ g[n] = table[i]
    BY <1>5, <1>6, <2>1
  <2> QED
    BY <1>7, <2>2 DEF Range
<1> QED
  BY <1>9, <1>10

\* The process dies and a new one reads the table.
LEMMA RestartKeeps ==
    ASSUME TelemetryInv, Restart
    PROVE  TelemetryInv'
<1> USE DEF TelemetryInv, TelemetryTypes
<1>1. PICK hosts : hosts = {h \in Hosts : RowsOf(h) # {}}
  OBVIOUS
<1>2. /\ restarts < MaxRestarts /\ restarts' = restarts + 1
      /\ DOMAIN history' = hosts
      /\ \A h \in hosts : history'[h] \in RestoredHistories(h)
      /\ latest' = [h \in hosts |-> history'[h][Len(history'[h])]]
      /\ anomalies' = << >>
      /\ worker' = [w \in Workers |-> Idle]
      /\ UNCHANGED <<table, clock, accepted, ingests, faults>>
  BY <1>1 DEF Restart
<1>3. ASSUME NEW h \in hosts
      PROVE  /\ history'[h] \in Seq(Sample) /\ Len(history'[h]) <= maxHistoryPerDevice
             /\ history'[h] # << >>
             /\ \A i \in RowsOf(h) : \/ table[i] \in Range(history'[h])
                                     \/ Len(history'[h]) = maxHistoryPerDevice
  <2>1. RowsOf(h) # {}
    BY <1>1
  <2>2. PICK f : f = history'[h]
    OBVIOUS
  <2>3. f \in RestoredHistories(h)
    BY <1>2, <2>2
  <2> QED
    BY <2>1, <2>2, <2>3, RestoredFacts
<1>4. ASSUME NEW h \in hosts PROVE latest'[h] \in Sample
  <2>1. PICK f : f = history'[h]
    OBVIOUS
  <2>2. f \in Seq(Sample) /\ f # << >> /\ latest'[h] = f[Len(f)]
    BY <1>2, <1>3, <2>1
  <2> QED
    BY <2>2
<1>5. MemoryTypes'
  BY <1>2, <1>3, <1>4, TelemetryConstants DEF MemoryTypes
<1>6. CountTypes' /\ table' \in Seq(Sample) /\ accepted' \subseteq Sample
  BY <1>2, TelemetryConstants DEF CountTypes
<1>7. WorkerTypes'
  BY <1>2 DEF WorkerTypes, Idle
<1>8. NoneEmpty' /\ LatestEndsHistory' /\ AnomaliesDistinct'
  BY <1>2, <1>3 DEF NoneEmpty, LatestEndsHistory, AnomaliesDistinct
<1>9. \A d, stages : "idle" \notin stages => ~InFlight(d, stages)'
  BY <1>2 DEF InFlight, Idle
<1>10. \A d : InWindow(d)' = InWindow(d)
  BY <1>2 DEF InWindow, Cutoff
<1>11. Stored'
  BY <1>2, <1>9, <1>10 DEF Stored
<1>12. Shown'
  <2> SUFFICES ASSUME NEW d \in Sample, InWindow(d)', (d \in accepted \/ InFlight(d, {"record"}))'
               PROVE  \/ d \in Range(HistoryOf(d.host)')
                      \/ Len(HistoryOf(d.host)') = maxHistoryPerDevice
    BY DEF Shown, Range
  <2>1. d \in Range(table) /\ InWindow(d)
    BY <1>2, <1>9, <1>10 DEF Stored
  <2>2. PICK i \in DOMAIN table : table[i] = d
    BY <2>1 DEF Range
  <2>3. i \in RowsOf(d.host)
    BY <2>1, <2>2 DEF RowsOf, InWindow
  <2>4. d.host \in hosts
    BY <1>1, <2>3 DEF Sample
  <2>5. HistoryOf(d.host)' = history'[d.host]
    BY <1>2, <2>4 DEF HistoryOf
  <2> QED
    BY <1>3, <2>2, <2>3, <2>4, <2>5
<1> QED
  BY <1>5, <1>6, <1>7, <1>8, <1>11, <1>12

\* Every step of the store keeps the invariant.
LEMMA TelemetryStep ==
    ASSUME TelemetryInv, [Next]_vars
    PROVE  TelemetryInv'
<1>1. ASSUME NEW w \in Workers, NEW shape \in Shapes, ReceiveBatch(w, shape)
      PROVE  TelemetryInv'
  BY <1>1, ReceiveBatchKeeps
<1>2. ASSUME NEW w \in Workers, CommitBatch(w) PROVE TelemetryInv'
  BY <1>2, CommitBatchKeeps
<1>3. ASSUME NEW w \in Workers, CommitFails(w) PROVE TelemetryInv'
  BY <1>3, CommitFailsKeeps
<1>4. ASSUME NEW w \in Workers, AppendHistory(w) PROVE TelemetryInv'
  BY <1>4, AppendHistoryKeeps
<1>5. ASSUME NEW w \in Workers, RecordAnomalies(w) PROVE TelemetryInv'
  BY <1>5, RecordAnomaliesKeeps
<1>6. CASE Prune
  BY <1>6, PruneKeeps
<1>7. CASE Tick
  BY <1>7, TickKeeps
<1>8. CASE Restart
  BY <1>8, RestartKeeps
<1>9. CASE UNCHANGED vars
  BY <1>9 DEF vars, memory, counts, TelemetryInv, TelemetryTypes, MemoryTypes, WorkerTypes,
              CountTypes, NoneEmpty, LatestEndsHistory, AnomaliesDistinct, Stored, Shown,
              InFlight, InWindow, Cutoff, HistoryOf, Idle, Range
<1> QED
  BY <1>1, <1>2, <1>3, <1>4, <1>5, <1>6, <1>7, <1>8, <1>9 DEF Next

\* The invariant of the telemetry store, in every reachable state.
THEOREM TelemetryInvariant == Spec => []TelemetryInv
<1>1. TelemetryInv /\ [Next]_vars => TelemetryInv'
  BY TelemetryStep
<1> QED
  BY <1>1, TelemetryInit, PTL DEF Spec

-----------------------------------------------------------------------------

\* Ingest, RecordAnomalies, Prune and restore keep the types of the tables and
\* the maps, and the bounds on a device's history and on the anomaly buffer.
THEOREM TelemetryKeepsTypes == Spec => []TypeOK
<1>1. TelemetryInv => TypeOK
  BY DEF TelemetryInv, TelemetryTypes, MemoryTypes, WorkerTypes, CountTypes, TypeOK,
         AnomalyRecord, Request
<1> QED
  BY <1>1, TelemetryInvariant, PTL

\* appendHistoryLocked and restore keep the latest sample of every host at the
\* end of its history, whichever requests and restarts built it.
THEOREM TelemetryLatestEndsHistory == Spec => []LatestEndsHistory
<1>1. TelemetryInv => LatestEndsHistory
  BY DEF TelemetryInv
<1> QED
  BY <1>1, TelemetryInvariant, PTL

\* addAnomaliesLocked keeps no anomaly twice, whichever batches are recorded at
\* once and in whatever order.
THEOREM TelemetryAnomaliesDistinct == Spec => []AnomaliesDistinct
<1>1. TelemetryInv => AnomaliesDistinct
  BY DEF TelemetryInv
<1> QED
  BY <1>1, TelemetryInvariant, PTL

\* An element of a sequence is in it at least once.
LEMMA TimesPositive ==
    ASSUME NEW S, NEW s \in Seq(S), NEW d \in Range(s)
    PROVE  Times(d, s) > 0
<1> DEFINE P == {i \in DOMAIN s : s[i] = d}
<1>1. Len(s) \in Nat /\ P \subseteq 1..Len(s) /\ P # {}
  BY DEF Range
<1>2. IsFiniteSet(1..Len(s))
  BY <1>1, FS_Interval
<1>3. IsFiniteSet(P)
  BY <1>1, <1>2, FS_Subset
<1> HIDE DEF P
<1>4. Cardinality(P) \in Nat /\ Cardinality(P) # 0
  BY <1>1, <1>3, FS_CardinalityType, FS_EmptySet
<1> QED
  BY <1>4 DEF Times, P

\* A sample answered with 200 is in the table, and in its host's history unless
\* that is full, while it is within the retention window: no failing transaction,
\* concurrent request, pruning or crash takes it away.
THEOREM TelemetryAcceptedSurvive == Spec => []AcceptedSurvive
<1>1. ASSUME TelemetryInv, NEW d \in accepted, InWindow(d)
      PROVE  /\ Times(d, table) > 0
             /\ \/ Times(d, HistoryOf(d.host)) > 0
                \/ Len(HistoryOf(d.host)) = maxHistoryPerDevice
  <2>1. d \in Sample /\ table \in Seq(Sample) /\ d \in Range(table)
    BY <1>1 DEF TelemetryInv, TelemetryTypes, Stored
  <2>2. PICK h : h = HistoryOf(d.host)
    OBVIOUS
  <2>3. h \in Seq(Sample)
    BY <1>1, <2>2 DEF HistoryOf, TelemetryInv, TelemetryTypes, MemoryTypes
  <2>4. d \in Range(h) \/ Len(h) = maxHistoryPerDevice
    BY <1>1, <2>1, <2>2 DEF TelemetryInv, Shown
  <2>5. Times(d, table) > 0
    BY <2>1, TimesPositive
  <2>6. d \in Range(h) => Times(d, h) > 0
    BY <2>3, TimesPositive
  <2> QED
    BY <2>2, <2>4, <2>5, <2>6
<1>2. TelemetryInv => AcceptedSurvive
  BY <1>1 DEF AcceptedSurvive
<1> QED
  BY <1>2, TelemetryInvariant, PTL

-----------------------------------------------------------------------------

\* Sets with a bijection between them have the same size.
LEMMA SameSize ==
    ASSUME NEW S, IsFiniteSet(S), NEW T, NEW f \in [S -> T],
           \A x, y \in S : f[x] = f[y] => x = y,
           \A y \in T : \E x \in S : f[x] = y
    PROVE  IsFiniteSet(T) /\ Cardinality(T) = Cardinality(S)
<1>1. f \in Injection(S, T) /\ f \in Surjection(S, T)
  BY DEF Injection, Surjection, IsInjective
<1> QED
  BY <1>1, FS_Surjection

\* Sizes of disjoint sets add up.
LEMMA DisjointSize ==
    ASSUME NEW A, IsFiniteSet(A), NEW B, IsFiniteSet(B), A \cap B = {}
    PROVE  /\ IsFiniteSet(A \cup B)
           /\ Cardinality(A \cup B) = Cardinality(A) + Cardinality(B)
<1>1. /\ IsFiniteSet(A \cup B)
      /\ Cardinality(A \cup B) = Cardinality(A) + Cardinality(B) - Cardinality(A \cap B)
  BY FS_Union
<1>2. Cardinality(A \cap B) = 0 /\ Cardinality(A) \in Nat /\ Cardinality(B) \in Nat
  BY FS_EmptySet, FS_CardinalityType
<1> QED
  BY <1>1, <1>2

\* The places of d in s can be counted.
LEMMA TimesType ==
    ASSUME NEW S, NEW s \in Seq(S), NEW d
    PROVE  /\ IsFiniteSet({i \in DOMAIN s : s[i] = d})
           /\ Times(d, s) \in Nat
<1> DEFINE P == {i \in DOMAIN s : s[i] = d}
<1>1. Len(s) \in Nat /\ P \subseteq 1..Len(s)
  OBVIOUS
<1>2. IsFiniteSet(1..Len(s))
  BY <1>1, FS_Interval
<1>3. IsFiniteSet(P)
  BY <1>1, <1>2, FS_Subset
<1> QED
  BY <1>3, FS_CardinalityType DEF Times

\* Concatenation adds up what its parts hold.
LEMMA TimesConcat ==
    ASSUME NEW S, NEW s \in Seq(S), NEW t \in Seq(S), NEW d
    PROVE  Times(d, s \o t) = Times(d, s) + Times(d, t)
<1>1. PICK u : u = s \o t
  OBVIOUS
<1>2. /\ u \in Seq(S) /\ Len(u) = Len(s) + Len(t) /\ Len(s) \in Nat /\ Len(t) \in Nat
      /\ \A i \in 1..Len(s) : u[i] = s[i]
      /\ \A i \in 1..Len(t) : u[Len(s) + i] = t[i]
  BY <1>1, ConcatFacts
<1>3. DOMAIN s = 1..Len(s) /\ DOMAIN t = 1..Len(t) /\ DOMAIN u = 1..Len(u)
  BY <1>2
<1>4. PICK A, B, C : /\ A = {i \in DOMAIN s : s[i] = d}
                     /\ B = {i \in DOMAIN t : t[i] = d}
                     /\ C = {i \in DOMAIN u : u[i] = d /\ i > Len(s)}
  OBVIOUS
<1>5. IsFiniteSet(A) /\ IsFiniteSet(B) /\ Cardinality(A) \in Nat /\ Cardinality(B) \in Nat
  BY <1>4, TimesType, FS_CardinalityType
<1>6. IsFiniteSet(C) /\ Cardinality(C) = Cardinality(B)
  <2> DEFINE f == [i \in B |-> Len(s) + i]
  <2>1. \A i \in B : i \in 1..Len(t) /\ t[i] = d
    BY <1>3, <1>4
  <2>2. ASSUME NEW i \in B PROVE Len(s) + i \in C
    <3>1. i \in 1..Len(t) /\ t[i] = d
      BY <2>1
    <3>2. Len(s) + i \in 1..Len(u) /\ Len(s) + i > Len(s)
      BY <1>2, <3>1
    <3> QED
      BY <1>2, <1>3, <1>4, <3>1, <3>2
  <2>3. f \in [B -> C]
    BY <2>2
  <2>4. \A i, j \in B : f[i] = f[j] => i = j
    BY <1>2, <2>1
  <2>5. ASSUME NEW k \in C PROVE \E i \in B : f[i] = k
    <3>1. k \in 1..Len(u) /\ u[k] = d /\ k > Len(s)
      BY <1>3, <1>4
    <3>2. k - Len(s) \in 1..Len(t) /\ Len(s) + (k - Len(s)) = k
      BY <1>2, <3>1
    <3>3. t[k - Len(s)] = d
      BY <1>2, <3>1, <3>2
    <3>4. k - Len(s) \in B
      BY <1>3, <1>4, <3>2, <3>3
    <3> QED
      BY <3>2, <3>4
  <2> HIDE DEF f
  <2> QED
    BY <1>5, <2>3, <2>4, <2>5, SameSize
<1>7. {i \in DOMAIN u : u[i] = d} = A \cup C
  <2>1. ASSUME NEW i \in DOMAIN u PROVE u[i] = d <=> i \in A \/ i \in C
    <3>1. CASE i > Len(s)
      <4>1. i \notin A
        BY <1>2, <1>3, <1>4, <3>1
      <4> QED
        BY <1>4, <3>1, <4>1
    <3>2. CASE ~(i > Len(s))
      <4>1. i \in 1..Len(s) /\ u[i] = s[i]
        BY <1>2, <1>3, <3>2
      <4> QED
        BY <1>3, <1>4, <3>2, <4>1
    <3> QED
      BY <3>1, <3>2
  <2>2. A \subseteq DOMAIN u /\ C \subseteq DOMAIN u
    BY <1>2, <1>3, <1>4
  <2> QED
    BY <2>1, <2>2
<1>8. A \cap C = {}
  BY <1>2, <1>3, <1>4
<1>9. Cardinality(A \cup C) = Cardinality(A) + Cardinality(C)
  BY <1>5, <1>6, <1>8, DisjointSize
<1> QED
  BY <1>1, <1>4, <1>6, <1>7, <1>9 DEF Times

\* A bound on the length takes away, and adds nothing.
LEMMA TimesKeepLast ==
    ASSUME NEW S, NEW s \in Seq(S), NEW n \in Nat \ {0}, NEW d
    PROVE  Times(d, KeepLast(s, n)) <= Times(d, s)
<1>1. CASE Len(s) > n
  <2>1. PICK m, u, v : /\ m = Len(s) - n /\ u = SubSeq(s, 1, m)
                       /\ v = SubSeq(s, m + 1, Len(s))
    OBVIOUS
  <2>2. m \in 1..Len(s) /\ m + 1 \in 1..Len(s) /\ Len(s) \in Nat
    BY <1>1, <2>1
  <2>3. u \in Seq(S) /\ Len(u) = m /\ \A i \in 1..m : u[i] = s[i]
    BY <2>1, <2>2
  <2>4. v \in Seq(S) /\ Len(v) = Len(s) - m /\ \A i \in 1..(Len(s) - m) : v[i] = s[m + i]
    BY <2>1, <2>2
  <2>5. PICK c : c = u \o v
    OBVIOUS
  <2>6. /\ c \in Seq(S) /\ Len(c) = Len(u) + Len(v)
        /\ \A i \in 1..Len(u) : c[i] = u[i]
        /\ \A i \in 1..Len(v) : c[Len(u) + i] = v[i]
    <3>1. u \in Seq(S) /\ v \in Seq(S)
      BY <2>3, <2>4
    <3> QED
      BY <2>5, <3>1, ConcatFacts
  <2>7. ASSUME NEW i \in 1..Len(s) PROVE c[i] = s[i]
    <3>1. CASE i <= m
      BY <2>2, <2>3, <2>6, <3>1
    <3>2. CASE ~(i <= m)
      <4>1. i - m \in 1..(Len(s) - m) /\ m + (i - m) = i
        BY <2>2, <3>2
      <4>2. c[Len(u) + (i - m)] = v[i - m]
        BY <2>4, <2>6, <4>1
      <4> QED
        BY <2>3, <2>4, <4>1, <4>2
    <3> QED
      BY <3>1, <3>2
  <2>8. c = s
    <3>1. DOMAIN c = 1..Len(s) /\ DOMAIN s = 1..Len(s)
      BY <2>2, <2>3, <2>4, <2>6
    <3> QED
      BY <2>6, <2>7, <3>1
  <2>9. Times(d, s) = Times(d, u) + Times(d, v)
    BY <2>3, <2>4, <2>5, <2>8, TimesConcat
  <2>10. Times(d, u) \in Nat /\ Times(d, v) \in Nat
    BY <2>3, <2>4, TimesType
  <2>11. KeepLast(s, n) = v
    BY <1>1, <2>1 DEF KeepLast
  <2> QED
    BY <2>9, <2>10, <2>11
<1>2. CASE ~(Len(s) > n)
  <2>1. KeepLast(s, n) = s
    BY <1>2 DEF KeepLast
  <2>2. Times(d, s) \in Nat
    BY TimesType
  <2> QED
    BY <2>1, <2>2
<1> QED
  BY <1>1, <1>2

\* An element is added at the end.
LEMMA TimesAppend ==
    ASSUME NEW S, NEW s \in Seq(S), NEW x \in S, NEW d
    PROVE  Times(d, Append(s, x)) = IF x = d THEN Times(d, s) + 1 ELSE Times(d, s)
<1>1. Append(s, x) = s \o <<x>> /\ <<x>> \in Seq(S)
  OBVIOUS
<1>2. Times(d, Append(s, x)) = Times(d, s) + Times(d, <<x>>)
  BY <1>1, TimesConcat
<1>3. Times(d, s) \in Nat
  BY TimesType
<1>4. Times(d, <<x>>) = IF x = d THEN 1 ELSE 0
  <2> DEFINE P == {i \in DOMAIN <<x>> : <<x>>[i] = d}
  <2>1. x = d => P = {1}
    OBVIOUS
  <2>2. x # d => P = {}
    OBVIOUS
  <2> HIDE DEF P
  <2>3. Times(d, <<x>>) = Cardinality(P)
    BY DEF Times, P
  <2> QED
    BY <2>1, <2>2, <2>3, FS_EmptySet, FS_Singleton
<1> QED
  BY <1>2, <1>3, <1>4

\* Where keeps an element as often as it was there.
LEMMA TimesWhere ==
    ASSUME NEW S, NEW s \in Seq(S), NEW T, NEW d \in T
    PROVE  Times(d, Where(s, T)) = Times(d, s)
<1>1. PICK f : IsWhere(f, s, T) /\ Where(s, T) = f[Len(s)]
  BY WhereLoop
<1>2. f[0] = << >> /\ \A i \in 1..Len(s) :
          f[i] = IF s[i] \in T THEN Append(f[i - 1], s[i]) ELSE f[i - 1]
  <2> DEFINE g == [n \in 0..Len(s) |->
                      IF n = 0 THEN << >>
                      ELSE IF s[n] \in T THEN Append(f[n - 1], s[n]) ELSE f[n - 1]]
  <2>1. f = g
    BY <1>1 DEF IsWhere
  <2>2. g[0] = << >> /\ \A i \in 1..Len(s) :
            g[i] = IF s[i] \in T THEN Append(f[i - 1], s[i]) ELSE f[i - 1]
    OBVIOUS
  <2> HIDE DEF g
  <2> QED
    BY <2>1, <2>2
<1> DEFINE P(m) == {i \in 1..m : s[i] = d}
           Good == {m \in 0..Len(s) : f[m] \in Seq(S) /\ Times(d, f[m]) = Cardinality(P(m))}
<1>3. Len(s) \in Nat
  OBVIOUS
<1>4. \A m \in 0..Len(s) : IsFiniteSet(P(m)) /\ Cardinality(P(m)) \in Nat
  <2> SUFFICES ASSUME NEW m \in 0..Len(s)
               PROVE  IsFiniteSet(P(m)) /\ Cardinality(P(m)) \in Nat
    OBVIOUS
  <2>1. IsFiniteSet(1..m) /\ P(m) \subseteq 1..m
    BY <1>3, FS_Interval
  <2> HIDE DEF P
  <2>2. IsFiniteSet(P(m))
    BY <2>1, FS_Subset
  <2> QED
    BY <2>2, FS_CardinalityType
<1>5. 0 \in Good
  <2>1. P(0) = {}
    OBVIOUS
  <2>2. Times(d, << >>) = Cardinality({})
    <3>1. {i \in DOMAIN << >> : << >>[i] = d} = {}
      OBVIOUS
    <3> QED
      BY <3>1 DEF Times
  <2>3. << >> \in Seq(S)
    OBVIOUS
  <2> HIDE DEF P
  <2>4. f[0] \in Seq(S) /\ Times(d, f[0]) = Cardinality(P(0))
    BY <1>2, <2>1, <2>2, <2>3, Zenon
  <2>5. 0 \in 0..Len(s)
    BY <1>3
  <2> QED
    BY <2>4, <2>5
<1>6. ASSUME NEW m \in 1..Len(s), m - 1 \in Good PROVE m \in Good
  <2>1. PICK u : u = f[m - 1]
    OBVIOUS
  <2>2. u \in Seq(S) /\ Times(d, u) = Cardinality(P(m - 1)) /\ s[m] \in S
    BY <1>6, <2>1
  <2>3. m - 1 \in 0..Len(s) /\ m \in 0..Len(s) /\ m \notin P(m - 1)
    BY <1>3
  <2>4. s[m] = d => P(m) = P(m - 1) \cup {m}
    BY <1>3
  <2>5. s[m] # d => P(m) = P(m - 1)
    BY <1>3
  <2> HIDE DEF P
  <2>6. Cardinality(P(m)) = IF s[m] = d THEN Cardinality(P(m - 1)) + 1 ELSE Cardinality(P(m - 1))
    BY <1>4, <2>3, <2>4, <2>5, FS_AddElement
  <2>7. CASE s[m] \in T
    <3>1. f[m] = Append(u, s[m])
      BY <1>2, <2>1, <2>7
    <3>2. Times(d, f[m]) = IF s[m] = d THEN Times(d, u) + 1 ELSE Times(d, u)
      BY <2>2, <3>1, TimesAppend
    <3>3. f[m] \in Seq(S)
      BY <2>2, <3>1
    <3> QED
      BY <2>2, <2>3, <2>6, <3>2, <3>3
  <2>8. CASE s[m] \notin T
    <3>1. f[m] = u /\ s[m] # d
      BY <1>2, <2>1, <2>8
    <3> QED
      BY <2>2, <2>3, <2>6, <3>1
  <2> QED
    BY <2>7, <2>8
<1>7. Len(s) \in Good
  <2> HIDE DEF Good
  <2>1. \A i \in 0..Len(s) : i \in Good
    BY <1>3, <1>5, <1>6, Induction
  <2> QED
    BY <1>3, <2>1
<1>8. Times(d, s) = Cardinality(P(Len(s)))
  <2>1. DOMAIN s = 1..Len(s)
    OBVIOUS
  <2> QED
    BY <2>1 DEF Times
<1> QED
  BY <1>1, <1>7, <1>8

\* The rows of a history that restore builds are as many rows of the table.
LEMMA TimesRestored ==
    ASSUME TelemetryTypes, NEW h, NEW f \in RestoredHistories(h), NEW d
    PROVE  Times(d, f) <= Times(d, table)
<1> DEFINE observedAt == [i \in RowsOf(h) |-> Format(table[i].observed)]
<1>1. PICK s \in Ordered(RowsOf(h), observedAt) : f = HistoryFrom(s)
  BY DEF RestoredHistories
<1>2. PICK t, n, g : /\ t = table /\ n = Cardinality(RowsOf(h))
                     /\ g = [i \in DOMAIN s |-> t[s[i]]]
  OBVIOUS
<1>3. t \in Seq(Sample) /\ RowsOf(h) \subseteq DOMAIN t
  BY <1>2 DEF TelemetryTypes, RowsOf
<1>4. s \in [1..n -> RowsOf(h)] /\ \A i, j \in 1..n : i < j => s[i] # s[j]
  BY <1>1, <1>2 DEF Ordered
<1>5. n \in Nat
  <2>1. RowsOf(h) \subseteq 1..Len(t) /\ Len(t) \in Nat
    BY <1>3
  <2>2. IsFiniteSet(1..Len(t))
    BY <2>1, FS_Interval
  <2>3. IsFiniteSet(RowsOf(h))
    BY <2>1, <2>2, FS_Subset
  <2> QED
    BY <1>2, <2>3, FS_CardinalityType
<1>6. g \in Seq(Sample) /\ DOMAIN g = 1..n
  <2>1. \A i \in 1..n : t[s[i]] \in Sample
    BY <1>3, <1>4
  <2>2. g \in [1..n -> Sample]
    BY <1>2, <1>4, <2>1
  <2> QED
    BY <1>5, <2>2
<1>7. Times(d, g) <= Times(d, t)
  <2>1. PICK A, B : /\ A = {i \in DOMAIN g : g[i] = d}
                    /\ B = {i \in DOMAIN t : t[i] = d}
    OBVIOUS
  <2>2. IsFiniteSet(A) /\ IsFiniteSet(B)
    BY <1>3, <1>6, <2>1, TimesType
  <2>3. PICK q : q = [i \in A |-> s[i]]
    OBVIOUS
  <2>4. q \in [A -> B]
    <3>1. ASSUME NEW i \in A PROVE s[i] \in B
      <4>1. i \in 1..n /\ g[i] = d /\ g[i] = t[s[i]] /\ s[i] \in DOMAIN t
        BY <1>2, <1>3, <1>4, <1>6, <2>1
      <4> QED
        BY <2>1, <4>1
    <3> QED
      BY <2>3, <3>1
  <2>5. \A i, j \in A : q[i] = q[j] => i = j
    <3> SUFFICES ASSUME NEW i \in A, NEW j \in A, q[i] = q[j], i # j PROVE FALSE
      OBVIOUS
    <3>1. i \in 1..n /\ j \in 1..n /\ s[i] = s[j]
      BY <1>6, <2>1, <2>3
    <3>2. i < j \/ j < i
      BY <1>5, <3>1
    <3> QED
      BY <1>4, <3>1, <3>2
  <2>6. q \in Injection(A, B)
    BY <2>4, <2>5 DEF Injection, IsInjective
  <2>7. Cardinality(A) <= Cardinality(B)
    BY <2>2, <2>6, FS_Injection
  <2> QED
    BY <2>1, <2>7 DEF Times
<1>8. Times(d, f) <= Times(d, g) /\ Times(d, f) \in Nat /\ Times(d, g) \in Nat
  <2>1. f = KeepLast(g, maxHistoryPerDevice) /\ maxHistoryPerDevice \in Nat \ {0}
    BY <1>1, <1>2, TelemetryConstants DEF HistoryFrom
  <2>2. f \in Seq(Sample)
    BY <1>6, <2>1, KeepLastFacts
  <2> QED
    BY <1>6, <2>1, <2>2, TimesKeepLast, TimesType
<1>9. Times(d, t) \in Nat
  BY <1>3, TimesType
<1> QED
  BY <1>2, <1>7, <1>8, <1>9

\* A bound on the length adds no element.
LEMMA KeepLastRange ==
    ASSUME NEW S, NEW s \in Seq(S), NEW n \in Nat \ {0}
    PROVE  Range(KeepLast(s, n)) \subseteq Range(s)
<1>1. CASE Len(s) > n
  <2>1. PICK m, v : m = Len(s) - n /\ v = SubSeq(s, m + 1, Len(s))
    OBVIOUS
  <2>2. m \in 1..Len(s) /\ m + 1 \in 1..Len(s) /\ Len(s) \in Nat
    BY <1>1, <2>1
  <2>3. v \in Seq(S) /\ Len(v) = Len(s) - m /\ \A i \in 1..(Len(s) - m) : v[i] = s[m + i]
    BY <2>1, <2>2
  <2>4. DOMAIN v = 1..(Len(s) - m) /\ DOMAIN s = 1..Len(s)
    BY <2>3
  <2>5. ASSUME NEW i \in 1..(Len(s) - m) PROVE v[i] \in Range(s)
    <3>1. m + i \in 1..Len(s) /\ v[i] = s[m + i]
      BY <2>2, <2>3
    <3> QED
      BY <2>4, <3>1 DEF Range
  <2>6. KeepLast(s, n) = v
    BY <1>1, <2>1 DEF KeepLast
  <2> QED
    BY <2>4, <2>5, <2>6 DEF Range
<1>2. CASE ~(Len(s) > n)
  BY <1>2 DEF KeepLast
<1> QED
  BY <1>1, <1>2

-----------------------------------------------------------------------------

\* Where d stands in batches that are committed and not yet in the history, when
\* requests stand as f says.
ComingIn(f, d) ==
    {p \in Workers \X Nat : /\ f[p[1]].pc = "append"
                            /\ p[2] \in DOMAIN f[p[1]].valid
                            /\ f[p[1]].valid[p[2]] = d}

Coming(d) == ComingIn(worker, d)

\* A history holds samples of its host only.
OwnHosts == \A h \in DOMAIN history : \A d \in Range(history[h]) : d.host = h

\* The table has a row for every place of a sample in a history or in a committed
\* batch on its way there.
Backed ==
    \A d \in Sample :
        /\ IsFiniteSet(Coming(d))
        /\ InWindow(d) => Times(d, HistoryOf(d.host)) + Cardinality(Coming(d))
                              <= Times(d, table)

BackedInv == TelemetryInv /\ OwnHosts /\ Backed

\* One request has a batch on its way in g, and none in f.
LEMMA ComingDiffers ==
    ASSUME NEW f, NEW g, NEW w \in Workers, \A x \in Workers : x # w => f[x] = g[x],
           f[w].pc # "append", g[w].pc = "append", g[w].valid \in Seq(Sample), NEW d
    PROVE  /\ IsFiniteSet(ComingIn(g, d)) => IsFiniteSet(ComingIn(f, d))
           /\ IsFiniteSet(ComingIn(f, d)) =>
                  /\ IsFiniteSet(ComingIn(g, d))
                  /\ Cardinality(ComingIn(g, d)) =
                         Cardinality(ComingIn(f, d)) + Times(d, g[w].valid)
<1>0. PICK v : v = g[w].valid
  OBVIOUS
<1>1. PICK A, B, P : /\ A = ComingIn(f, d) /\ B = ComingIn(g, d) /\ v = g[w].valid
                     /\ P = {i \in DOMAIN v : v[i] = d}
  BY <1>0
<1>2. PICK Q : Q = {p \in Workers \X Nat : p[1] = w /\ p[2] \in P}
  OBVIOUS
<1>3. P \subseteq Nat /\ IsFiniteSet(P) /\ Cardinality(P) = Times(d, v)
  <2>1. v \in Seq(Sample)
    BY <1>0
  <2>2. P \subseteq Nat
    BY <1>1, <2>1
  <2>3. IsFiniteSet(P)
    <3>1. IsFiniteSet({i \in DOMAIN v : v[i] = d})
      BY <2>1, TimesType
    <3> QED
      BY <1>1, <3>1
  <2>4. Cardinality(P) = Times(d, v)
    BY <1>1 DEF Times
  <2> QED
    BY <2>2, <2>3, <2>4
<1>4. IsFiniteSet(Q) /\ Cardinality(Q) = Cardinality(P)
  <2>1. PICK q : q = [i \in P |-> <<w, i>>]
    OBVIOUS
  <2>2. q \in [P -> Q]
    BY <1>2, <1>3, <2>1
  <2>3. \A i, j \in P : q[i] = q[j] => i = j
    BY <2>1
  <2>4. \A p \in Q : \E i \in P : q[i] = p
    BY <1>2, <2>1
  <2> QED
    BY <1>3, <2>2, <2>3, <2>4, SameSize
<1>5. B = A \cup Q
  <2>1. ASSUME NEW p \in Workers \X Nat PROVE p \in B <=> p \in A \/ p \in Q
    <3>1. CASE p[1] = w
      <4>1. p \notin A
        BY <1>1, <3>1 DEF ComingIn
      <4>2. p \in B <=> p[2] \in P
        BY <1>1, <3>1 DEF ComingIn
      <4>3. p \in Q <=> p[2] \in P
        BY <1>2, <3>1
      <4> QED
        BY <4>1, <4>2, <4>3
    <3>2. CASE p[1] # w
      <4>1. p[1] \in Workers
        OBVIOUS
      <4>2. f[p[1]] = g[p[1]]
        BY <3>2, <4>1
      <4>3. p \in A <=> p \in B
        BY <1>1, <4>2 DEF ComingIn
      <4>4. p \notin Q
        BY <1>2, <3>2
      <4> QED
        BY <4>3, <4>4
    <3> QED
      BY <3>1, <3>2
  <2>2. A \subseteq Workers \X Nat /\ B \subseteq Workers \X Nat /\ Q \subseteq Workers \X Nat
    BY <1>1, <1>2 DEF ComingIn
  <2> QED
    BY <2>1, <2>2
<1>6. A \cap Q = {}
  BY <1>1, <1>2 DEF ComingIn
<1>7. IsFiniteSet(B) => IsFiniteSet(A)
  BY <1>5, FS_Subset
<1>8. IsFiniteSet(A) => /\ IsFiniteSet(B)
                        /\ Cardinality(B) = Cardinality(A) + Cardinality(Q)
  BY <1>4, <1>5, <1>6, DisjointSize
<1> QED
  BY <1>1, <1>3, <1>4, <1>7, <1>8

\* The request has nothing on its way, in f or in g.
LEMMA ComingSame ==
    ASSUME NEW f, NEW g, NEW w \in Workers, \A x \in Workers : x # w => f[x] = g[x],
           f[w].pc # "append", g[w].pc # "append" \/ g[w].valid = << >>, NEW d
    PROVE  ComingIn(f, d) = ComingIn(g, d)
<1>1. ASSUME NEW p \in Workers \X Nat PROVE p \in ComingIn(f, d) <=> p \in ComingIn(g, d)
  <2>1. CASE p[1] = w
    BY <2>1 DEF ComingIn
  <2>2. CASE p[1] # w
    <3>1. p[1] \in Workers
      OBVIOUS
    <3>2. f[p[1]] = g[p[1]]
      BY <2>2, <3>1
    <3> QED
      BY <3>2 DEF ComingIn
  <2> QED
    BY <2>1, <2>2
<1> QED
  BY <1>1 DEF ComingIn

\* A step that changes neither the table nor the history, and brings nothing on
\* the way.
LEMMA BackedFrame ==
    ASSUME BackedInv, TelemetryInv', clock' \in Nat, clock <= clock',
           UNCHANGED <<table, history>>, \A d \in Sample : Coming(d)' = Coming(d)
    PROVE  BackedInv'
<1>1. clock \in Nat
  BY TelemetryConstants DEF BackedInv, TelemetryInv, TelemetryTypes, CountTypes
<1>2. OwnHosts'
  BY DEF BackedInv, OwnHosts, Range
<1>3. ASSUME NEW d \in Sample
      PROVE  /\ IsFiniteSet(Coming(d))'
             /\ InWindow(d)' => (Times(d, HistoryOf(d.host)) + Cardinality(Coming(d))
                                    <= Times(d, table))'
  <2>1. Coming(d)' = Coming(d)
    OBVIOUS
  <2>2. InWindow(d)' => InWindow(d)
    BY <1>1, WindowShrinks
  <2>3. IsFiniteSet(Coming(d)) /\ (InWindow(d) =>
            Times(d, HistoryOf(d.host)) + Cardinality(Coming(d)) <= Times(d, table))
    BY DEF BackedInv, Backed
  <2>4. HistoryOf(d.host)' = HistoryOf(d.host)
    BY DEF HistoryOf
  <2> QED
    BY <2>1, <2>2, <2>3, <2>4 DEF Times
<1>4. Backed'
  BY <1>3 DEF Backed
<1> QED
  BY <1>2, <1>4 DEF BackedInv

\* The requests, after one of them has moved on.
LEMMA MovedOn ==
    ASSUME WorkerTypes, NEW w \in Workers, NEW r, worker' = [worker EXCEPT ![w] = r]
    PROVE  worker'[w] = r /\ \A x \in Workers : x # w => worker[x] = worker'[x]
BY DEF WorkerTypes

\* Steps of a request that put nothing on the way.
LEMMA BackedMoves ==
    ASSUME BackedInv, TelemetryInv', NEW w \in Workers, NEW r,
           worker' = [worker EXCEPT ![w] = r], worker[w].pc # "append",
           r.pc # "append" \/ r.valid = << >>,
           UNCHANGED <<table, history, clock>>
    PROVE  BackedInv'
<1>1. PICK f, g : f = worker /\ g = worker'
  OBVIOUS
<1>2. g[w] = r /\ \A x \in Workers : x # w => f[x] = g[x]
  BY <1>1, MovedOn DEF BackedInv, TelemetryInv, TelemetryTypes
<1>3. ASSUME NEW d \in Sample PROVE ComingIn(f, d) = ComingIn(g, d)
  <2>1. f[w].pc # "append" /\ (g[w].pc # "append" \/ g[w].valid = << >>)
    BY <1>1, <1>2
  <2> QED
    BY <1>2, <2>1, ComingSame
<1>4. \A d \in Sample : Coming(d)' = Coming(d)
  BY <1>1, <1>3 DEF Coming, ComingIn
<1>5. clock' \in Nat /\ clock <= clock'
  BY TelemetryConstants DEF BackedInv, TelemetryInv, TelemetryTypes, CountTypes
<1> QED
  BY <1>4, <1>5, BackedFrame

\* The batch is committed: it is in the table, and on its way to the history.
LEMMA CommitBatchBacked ==
    ASSUME BackedInv, TelemetryInv', NEW w \in Workers, CommitBatch(w)
    PROVE  BackedInv'
<1>1. /\ worker[w].pc = "commit" /\ table' = table \o worker[w].valid
      /\ worker' = [worker EXCEPT ![w].pc = "append"]
      /\ UNCHANGED <<memory, clock, accepted, counts>>
  BY DEF CommitBatch
<1>2. WorkerTypes /\ table \in Seq(Sample) /\ TelemetryTypes
  BY DEF BackedInv, TelemetryInv, TelemetryTypes
<1>3. PICK r \in Request : /\ r.pc = "append" /\ r.valid = worker[w].valid
                           /\ worker' = [worker EXCEPT ![w] = r]
  BY <1>1, <1>2, StageSet
<1>4. PICK f, g, t, v : f = worker /\ g = worker' /\ t = table /\ v = r.valid
  OBVIOUS
<1>5. v \in Seq(Sample) /\ table' = t \o v
  BY <1>1, <1>3, <1>4 DEF Request
<1>6. g[w] = r /\ f[w].pc = "commit" /\ \A x \in Workers : x # w => f[x] = g[x]
  BY <1>1, <1>2, <1>3, <1>4, MovedOn
<1>7. ASSUME NEW d \in Sample
      PROVE  /\ IsFiniteSet(Coming(d))'
             /\ InWindow(d)' => (Times(d, HistoryOf(d.host)) + Cardinality(Coming(d))
                                    <= Times(d, table))'
  <2>1. PICK A, B, h : A = ComingIn(f, d) /\ B = ComingIn(g, d) /\ h = HistoryOf(d.host)
    OBVIOUS
  <2>2. Coming(d) = A /\ Coming(d)' = B /\ HistoryOf(d.host)' = h /\ InWindow(d)' = InWindow(d)
    BY <1>1, <1>4, <2>1 DEF Coming, ComingIn, HistoryOf, InWindow, Cutoff, memory
  <2>3. IsFiniteSet(A) /\ (InWindow(d) => Times(d, h) + Cardinality(A) <= Times(d, t))
    BY <1>4, <2>1, <2>2 DEF BackedInv, Backed
  <2>4. IsFiniteSet(B) /\ Cardinality(B) = Cardinality(A) + Times(d, v)
    <3>1. /\ f[w].pc # "append" /\ g[w].pc = "append"
          /\ g[w].valid = v /\ g[w].valid \in Seq(Sample)
      BY <1>3, <1>4, <1>5, <1>6
    <3>2. /\ IsFiniteSet(ComingIn(g, d))
          /\ Cardinality(ComingIn(g, d)) = Cardinality(ComingIn(f, d)) + Times(d, g[w].valid)
      BY <1>6, <2>1, <2>3, <3>1, ComingDiffers
    <3> QED
      BY <2>1, <3>1, <3>2
  <2>5. Times(d, t \o v) = Times(d, t) + Times(d, v)
    BY <1>2, <1>4, <1>5, TimesConcat
  <2>6. h \in Seq(Sample)
    BY <1>2, <2>1 DEF HistoryOf, TelemetryTypes, MemoryTypes
  <2>7. /\ Times(d, t) \in Nat /\ Times(d, v) \in Nat /\ Times(d, h) \in Nat
        /\ Cardinality(A) \in Nat
    BY <1>2, <1>4, <1>5, <2>3, <2>6, TimesType, FS_CardinalityType
  <2>8. InWindow(d) => Times(d, h) + Cardinality(B) <= Times(d, t \o v)
    BY <2>3, <2>4, <2>5, <2>7
  <2> QED
    BY <1>5, <2>2, <2>4, <2>8 DEF Times
<1>8. OwnHosts'
  BY <1>1 DEF BackedInv, OwnHosts, Range, memory
<1> QED
  BY <1>7, <1>8 DEF BackedInv, Backed

\* A host's part of a batch holds d no more often than the batch does.
LEMMA TimesOfHost ==
    ASSUME NEW samples \in Seq(Sample), NEW d
    PROVE  Times(d, OfHost(samples, d.host)) <= Times(d, samples)
<1>1. PICK T : T = {x \in Range(samples) : x.host = d.host}
  OBVIOUS
<1>2. OfHost(samples, d.host) = Where(samples, T)
  BY <1>1 DEF OfHost
<1>3. CASE d \in T
  <2>1. Times(d, Where(samples, T)) = Times(d, samples)
    BY <1>3, TimesWhere
  <2>2. Times(d, samples) \in Nat
    BY TimesType
  <2> QED
    BY <1>2, <2>1, <2>2
<1>4. CASE d \notin T
  <2>1. PICK u : u = Where(samples, T)
    OBVIOUS
  <2>2. u \in Seq(Sample) /\ d \notin Range(u)
    BY <1>4, <2>1, WhereRange
  <2>3. {i \in DOMAIN u : u[i] = d} = {}
    BY <2>2 DEF Range
  <2>4. Times(d, u) = 0
    BY <2>3, FS_EmptySet DEF Times
  <2>5. Times(d, samples) \in Nat
    BY TimesType
  <2> QED
    BY <1>2, <2>1, <2>4, <2>5
<1> QED
  BY <1>3, <1>4

\* The batch goes into the history, and is on its way no longer.
LEMMA AppendHistoryBacked ==
    ASSUME BackedInv, TelemetryInv', NEW w \in Workers, AppendHistory(w)
    PROVE  BackedInv'
<1>1. PICK valid, hosts : valid = worker[w].valid /\ hosts = HostsIn(valid)
  OBVIOUS
<1>2. /\ worker[w].pc = "append"
      /\ history' = [h \in DOMAIN history \cup hosts |->
                        KeepLast(HistoryOf(h) \o OfHost(valid, h), maxHistoryPerDevice)]
      /\ worker' = [worker EXCEPT ![w].pc = "record"]
      /\ UNCHANGED <<table, anomalies, clock, accepted, counts>>
  BY <1>1 DEF AppendHistory
<1>3. WorkerTypes /\ table \in Seq(Sample) /\ TelemetryTypes
  BY DEF BackedInv, TelemetryInv, TelemetryTypes
<1>4. PICK r \in Request : /\ r.pc = "record" /\ r.valid = worker[w].valid
                           /\ worker' = [worker EXCEPT ![w] = r]
  BY <1>2, <1>3, StageSet
<1>5. PICK f, g, t : f = worker /\ g = worker' /\ t = table
  OBVIOUS
<1>6. valid \in Seq(Sample)
  BY <1>1, <1>4 DEF Request
<1>7. /\ f[w].pc = "append" /\ f[w].valid = valid /\ g[w].pc # "append"
      /\ \A x \in Workers : x # w => g[x] = f[x]
  BY <1>1, <1>2, <1>3, <1>4, <1>5, MovedOn
<1>8. maxHistoryPerDevice \in Nat \ {0}
  BY TelemetryConstants
<1>9. ASSUME NEW h
      PROVE  /\ HistoryOf(h) \in Seq(Sample) /\ OfHost(valid, h) \in Seq(Sample)
             /\ HistoryOf(h)' = KeepLast(HistoryOf(h) \o OfHost(valid, h), maxHistoryPerDevice)
  <2>1. HistoryOf(h) \in Seq(Sample)
    BY <1>3 DEF HistoryOf, TelemetryTypes, MemoryTypes
  <2>2. OfHost(valid, h) \in Seq(Sample) /\ (h \notin hosts => OfHost(valid, h) = << >>)
    BY <1>1, <1>6, OfHostFacts
  <2>3. CASE h \in DOMAIN history'
    BY <1>2, <2>1, <2>2, <2>3 DEF HistoryOf
  <2>4. CASE h \notin DOMAIN history'
    <3>1. HistoryOf(h)' = << >> /\ HistoryOf(h) = << >> /\ OfHost(valid, h) = << >>
      BY <1>2, <2>2, <2>4 DEF HistoryOf
    <3>2. KeepLast(<< >> \o << >>, maxHistoryPerDevice) = << >>
      BY <1>8 DEF KeepLast
    <3> QED
      BY <2>1, <2>2, <3>1, <3>2
  <2> QED
    BY <2>3, <2>4
<1>10. ASSUME NEW d \in Sample
       PROVE  /\ IsFiniteSet(Coming(d))'
              /\ InWindow(d)' => (Times(d, HistoryOf(d.host)) + Cardinality(Coming(d))
                                     <= Times(d, table))'
  <2>1. PICK A, B : A = ComingIn(f, d) /\ B = ComingIn(g, d)
    OBVIOUS
  <2>2. PICK a, b, k : /\ a = HistoryOf(d.host) /\ b = OfHost(valid, d.host)
                       /\ k = HistoryOf(d.host)'
    OBVIOUS
  <2>3. Coming(d) = A /\ Coming(d)' = B /\ table' = t /\ InWindow(d)' = InWindow(d)
    BY <1>2, <1>5, <2>1 DEF Coming, ComingIn, InWindow, Cutoff
  <2>4. IsFiniteSet(A) /\ (InWindow(d) => Times(d, a) + Cardinality(A) <= Times(d, t))
    BY <1>5, <2>2, <2>3 DEF BackedInv, Backed
  <2>5. IsFiniteSet(B) /\ Cardinality(A) = Cardinality(B) + Times(d, valid)
    <3>1. f[w].valid \in Seq(Sample)
      BY <1>6, <1>7
    <3>2. IsFiniteSet(ComingIn(f, d)) => IsFiniteSet(ComingIn(g, d))
      BY <1>7, <3>1, ComingDiffers
    <3>3. IsFiniteSet(ComingIn(g, d)) =>
              Cardinality(ComingIn(f, d)) = Cardinality(ComingIn(g, d)) + Times(d, f[w].valid)
      BY <1>7, <3>1, ComingDiffers
    <3> QED
      BY <1>7, <2>1, <2>4, <3>2, <3>3
  <2>6. a \in Seq(Sample) /\ b \in Seq(Sample) /\ k = KeepLast(a \o b, maxHistoryPerDevice)
    BY <1>9, <2>2
  <2>7. PICK u : u = a \o b
    OBVIOUS
  <2>8. u \in Seq(Sample) /\ Times(d, u) = Times(d, a) + Times(d, b)
    BY <2>6, <2>7, TimesConcat
  <2>9. k \in Seq(Sample) /\ Times(d, k) <= Times(d, u)
    BY <1>8, <2>6, <2>7, <2>8, KeepLastFacts, TimesKeepLast
  <2>10. Times(d, b) <= Times(d, valid)
    BY <1>6, <2>2, TimesOfHost
  <2>11. /\ Times(d, a) \in Nat /\ Times(d, b) \in Nat /\ Times(d, k) \in Nat
         /\ Times(d, valid) \in Nat /\ Times(d, t) \in Nat /\ Cardinality(B) \in Nat
    BY <1>3, <1>5, <1>6, <2>5, <2>6, <2>9, TimesType, FS_CardinalityType
  <2>12. InWindow(d) => Times(d, k) + Cardinality(B) <= Times(d, t)
    BY <2>4, <2>5, <2>8, <2>9, <2>10, <2>11
  <2> QED
    BY <2>2, <2>3, <2>5, <2>12 DEF Times
<1>11. OwnHosts'
  <2> SUFFICES ASSUME NEW h \in DOMAIN history', NEW d \in Range(history'[h]) PROVE d.host = h
    BY DEF OwnHosts, Range
  <2>1. PICK a, b, k : a = HistoryOf(h) /\ b = OfHost(valid, h) /\ k = history'[h]
    OBVIOUS
  <2>2. a \in Seq(Sample) /\ b \in Seq(Sample) /\ k = KeepLast(a \o b, maxHistoryPerDevice)
    BY <1>2, <1>9, <2>1
  <2>3. a \o b \in Seq(Sample) /\ Range(a \o b) = Range(a) \cup Range(b)
    BY <2>2, ConcatRange
  <2>4. d \in Range(a) \/ d \in Range(b)
    BY <1>8, <2>1, <2>2, <2>3, KeepLastRange
  <2>5. d \in Range(b) => d.host = h
    BY <1>6, <2>1, OfHostFacts
  <2>6. d \in Range(a) => d.host = h
    <3>1. CASE h \in DOMAIN history
      BY <2>1, <3>1 DEF HistoryOf, BackedInv, OwnHosts
    <3>2. CASE h \notin DOMAIN history
      BY <2>1, <3>2 DEF HistoryOf, Range
    <3> QED
      BY <3>1, <3>2
  <2> QED
    BY <2>4, <2>5, <2>6
<1> QED
  BY <1>10, <1>11 DEF BackedInv, Backed

\* Pruning takes rows that are outside the window.
LEMMA PruneBacked ==
    ASSUME BackedInv, TelemetryInv', Prune
    PROVE  BackedInv'
<1>1. PICK t, T : /\ t = table
                  /\ T = {d \in Range(table) : Format(d.observed) >= Cutoff}
  OBVIOUS
<1>2. table' = Where(t, T) /\ UNCHANGED <<memory, worker, clock, accepted, counts>>
  BY <1>1 DEF Prune
<1>3. t \in Seq(Sample) /\ TelemetryTypes
  BY <1>1 DEF BackedInv, TelemetryInv, TelemetryTypes
<1>4. ASSUME NEW d \in Sample
      PROVE  /\ IsFiniteSet(Coming(d))'
             /\ InWindow(d)' => (Times(d, HistoryOf(d.host)) + Cardinality(Coming(d))
                                    <= Times(d, table))'
  <2>1. PICK A, h, u : A = Coming(d) /\ h = HistoryOf(d.host) /\ u = Where(t, T)
    OBVIOUS
  <2>2. Coming(d)' = A /\ HistoryOf(d.host)' = h /\ InWindow(d)' = InWindow(d)
    BY <1>2, <2>1 DEF Coming, ComingIn, HistoryOf, InWindow, Cutoff, memory
  <2>3. IsFiniteSet(A) /\ (InWindow(d) => Times(d, h) + Cardinality(A) <= Times(d, t))
    BY <1>1, <2>1 DEF BackedInv, Backed
  <2>4. h \in Seq(Sample) /\ u \in Seq(Sample)
    BY <1>3, <2>1, WhereRange DEF HistoryOf, TelemetryTypes, MemoryTypes
  <2>5. /\ Times(d, t) \in Nat /\ Times(d, h) \in Nat /\ Times(d, u) \in Nat
        /\ Cardinality(A) \in Nat
    BY <1>3, <2>3, <2>4, TimesType, FS_CardinalityType
  <2>6. ASSUME InWindow(d) PROVE Times(d, u) = Times(d, t)
    <3>1. CASE d \in Range(t)
      <4>1. d \in T
        BY <1>1, <2>6, <3>1 DEF InWindow
      <4> QED
        BY <1>3, <2>1, <4>1, TimesWhere
    <3>2. CASE d \notin Range(t)
      <4>1. d \notin Range(u)
        BY <1>3, <2>1, <3>2, WhereRange
      <4>2. {i \in DOMAIN t : t[i] = d} = {} /\ {i \in DOMAIN u : u[i] = d} = {}
        BY <3>2, <4>1 DEF Range
      <4> QED
        BY <4>2 DEF Times
    <3> QED
      BY <3>1, <3>2
  <2>7. InWindow(d) => Times(d, h) + Cardinality(A) <= Times(d, u)
    BY <2>3, <2>5, <2>6
  <2> QED
    BY <1>2, <2>1, <2>2, <2>3, <2>7 DEF Times
<1>5. OwnHosts'
  BY <1>2 DEF BackedInv, OwnHosts, Range, memory
<1> QED
  BY <1>4, <1>5 DEF BackedInv, Backed

\* restore puts a host's rows into its history, and no others.
LEMMA RestoredOwn ==
    ASSUME TelemetryTypes, NEW h, NEW f \in RestoredHistories(h), NEW d \in Range(f)
    PROVE  d.host = h
<1> DEFINE observedAt == [i \in RowsOf(h) |-> Format(table[i].observed)]
<1>1. PICK s \in Ordered(RowsOf(h), observedAt) : f = HistoryFrom(s)
  BY DEF RestoredHistories
<1>2. PICK n, g : n = Cardinality(RowsOf(h)) /\ g = [i \in DOMAIN s |-> table[s[i]]]
  OBVIOUS
<1>3. s \in [1..n -> RowsOf(h)]
  BY <1>1, <1>2 DEF Ordered
<1>4. \A i \in RowsOf(h) : table[i] \in Sample /\ table[i].host = h
  BY DEF RowsOf, TelemetryTypes
<1>5. n \in Nat
  <2>1. RowsOf(h) \subseteq 1..Len(table) /\ Len(table) \in Nat
    BY DEF RowsOf, TelemetryTypes
  <2>2. IsFiniteSet(1..Len(table))
    BY <2>1, FS_Interval
  <2>3. IsFiniteSet(RowsOf(h))
    BY <2>1, <2>2, FS_Subset
  <2> QED
    BY <1>2, <2>3, FS_CardinalityType
<1>6. g \in Seq(Sample) /\ \A i \in DOMAIN g : g[i].host = h
  <2>1. \A i \in 1..n : table[s[i]] \in Sample /\ table[s[i]].host = h
    BY <1>3, <1>4
  <2>2. g \in [1..n -> Sample] /\ \A i \in 1..n : g[i].host = h
    BY <1>2, <1>3, <2>1
  <2> QED
    BY <1>5, <2>2
<1>7. f = KeepLast(g, maxHistoryPerDevice) /\ maxHistoryPerDevice \in Nat \ {0}
  BY <1>1, <1>2, TelemetryConstants DEF HistoryFrom
<1>8. d \in Range(g)
  BY <1>6, <1>7, KeepLastRange
<1> QED
  BY <1>6, <1>8 DEF Range

\* restore builds the histories from the table, and nothing is on its way.
LEMMA RestartBacked ==
    ASSUME BackedInv, TelemetryInv', Restart
    PROVE  BackedInv'
<1>1. PICK hosts : hosts = {h \in Hosts : RowsOf(h) # {}}
  OBVIOUS
<1>2. /\ DOMAIN history' = hosts
      /\ \A h \in hosts : history'[h] \in RestoredHistories(h)
      /\ worker' = [w \in Workers |-> Idle]
      /\ UNCHANGED table
  BY <1>1 DEF Restart
<1>3. TelemetryTypes /\ table \in Seq(Sample)
  BY DEF BackedInv, TelemetryInv, TelemetryTypes
<1>4. OwnHosts'
  <2> SUFFICES ASSUME NEW h \in hosts, NEW d \in Range(history'[h]) PROVE d.host = h
    BY <1>2 DEF OwnHosts, Range
  <2>1. PICK f : f = history'[h]
    OBVIOUS
  <2> QED
    BY <1>2, <1>3, <2>1, RestoredOwn
<1>5. ASSUME NEW d \in Sample
      PROVE  /\ IsFiniteSet(Coming(d))'
             /\ InWindow(d)' => (Times(d, HistoryOf(d.host)) + Cardinality(Coming(d))
                                    <= Times(d, table))'
  <2>1. Coming(d)' = {}
    <3>1. \A p \in Workers \X Nat : worker'[p[1]].pc = "idle"
      BY <1>2 DEF Idle
    <3> QED
      BY <3>1 DEF Coming, ComingIn
  <2>2. PICK t, k : t = table /\ k = HistoryOf(d.host)'
    OBVIOUS
  <2>3. Times(d, t) \in Nat
    BY <1>3, <2>2, TimesType
  <2>4. Times(d, k) \in Nat /\ Times(d, k) <= Times(d, t)
    <3>1. CASE d.host \in hosts
      <4>1. k \in RestoredHistories(d.host)
        BY <1>2, <2>2, <3>1 DEF HistoryOf
      <4>2. k \in Seq(Sample)
        BY <1>3, <4>1, RestoredFacts
      <4>3. Times(d, k) <= Times(d, table)
        BY <1>3, <4>1, TimesRestored
      <4> QED
        BY <2>2, <4>2, <4>3, TimesType
    <3>2. CASE d.host \notin hosts
      <4>1. k = << >>
        BY <1>2, <2>2, <3>2 DEF HistoryOf
      <4>2. {i \in DOMAIN k : k[i] = d} = {}
        BY <4>1
      <4>3. Times(d, k) = 0
        BY <4>2, FS_EmptySet DEF Times
      <4> QED
        BY <2>3, <4>3
    <3> QED
      BY <3>1, <3>2
  <2>5. Cardinality({}) = 0 /\ IsFiniteSet({})
    BY FS_EmptySet
  <2>6. Times(d, k) + Cardinality({}) <= Times(d, t)
    BY <2>3, <2>4, <2>5
  <2> QED
    BY <1>2, <2>1, <2>2, <2>5, <2>6 DEF Times
<1> QED
  BY <1>4, <1>5 DEF BackedInv, Backed

\* The table backs what the empty store shows.
LEMMA BackedInit == Init => BackedInv
<1> SUFFICES ASSUME Init PROVE BackedInv
  OBVIOUS
<1>1. TelemetryInv
  BY TelemetryInit
<1>2. OwnHosts
  BY DEF Init, OwnHosts
<1>3. ASSUME NEW d \in Sample
      PROVE  /\ IsFiniteSet(Coming(d))
             /\ Times(d, HistoryOf(d.host)) + Cardinality(Coming(d)) <= Times(d, table)
  <2>1. Coming(d) = {}
    <3>1. \A p \in Workers \X Nat : worker[p[1]].pc = "idle"
      BY DEF Init, Idle
    <3> QED
      BY <3>1 DEF Coming, ComingIn
  <2>2. HistoryOf(d.host) = << >> /\ table = << >>
    BY DEF Init, HistoryOf
  <2>3. Cardinality({}) = 0 /\ IsFiniteSet({})
    BY FS_EmptySet
  <2>4. Times(d, << >>) = 0
    <3>1. {i \in DOMAIN << >> : << >>[i] = d} = {}
      OBVIOUS
    <3> QED
      BY <2>3, <3>1 DEF Times
  <2> QED
    BY <2>1, <2>2, <2>3, <2>4
<1> QED
  BY <1>1, <1>2, <1>3 DEF BackedInv, Backed

\* Every step keeps the histories backed by the table.
LEMMA BackedStep ==
    ASSUME BackedInv, [Next]_vars
    PROVE  BackedInv'
<1>1. TelemetryInv'
  BY TelemetryStep DEF BackedInv
<1>2. clock \in Nat
  BY TelemetryConstants DEF BackedInv, TelemetryInv, TelemetryTypes, CountTypes
<1>3. ASSUME NEW w \in Workers, NEW shape \in Shapes, ReceiveBatch(w, shape)
      PROVE  BackedInv'
  <2>1. PICK v : worker' = [worker EXCEPT ![w] =
                    [pc |-> IF v = << >> THEN "append" ELSE "commit",
                     now |-> clock, valid |-> v]]
    BY <1>3 DEF ReceiveBatch
  <2>2. PICK r : r = [pc |-> IF v = << >> THEN "append" ELSE "commit",
                      now |-> clock, valid |-> v]
    OBVIOUS
  <2>3. worker' = [worker EXCEPT ![w] = r] /\ (r.pc # "append" \/ r.valid = << >>)
    BY <2>1, <2>2
  <2>4. worker[w].pc # "append" /\ UNCHANGED <<table, history, clock>>
    BY <1>3 DEF ReceiveBatch, Idle, memory
  <2> QED
    BY <1>1, <2>3, <2>4, BackedMoves
<1>4. ASSUME NEW w \in Workers, CommitBatch(w) PROVE BackedInv'
  BY <1>1, <1>4, CommitBatchBacked
<1>5. ASSUME NEW w \in Workers, CommitFails(w) PROVE BackedInv'
  <2>1. /\ worker' = [worker EXCEPT ![w] = Idle] /\ worker[w].pc # "append"
        /\ Idle.pc # "append" /\ UNCHANGED <<table, history, clock>>
    BY <1>5 DEF CommitFails, Idle, memory
  <2> QED
    BY <1>1, <2>1, BackedMoves
<1>6. ASSUME NEW w \in Workers, AppendHistory(w) PROVE BackedInv'
  BY <1>1, <1>6, AppendHistoryBacked
<1>7. ASSUME NEW w \in Workers, RecordAnomalies(w) PROVE BackedInv'
  <2>1. /\ worker' = [worker EXCEPT ![w] = Idle] /\ worker[w].pc # "append"
        /\ Idle.pc # "append" /\ UNCHANGED <<table, history, clock>>
    BY <1>7 DEF RecordAnomalies, Idle
  <2> QED
    BY <1>1, <2>1, BackedMoves
<1>8. CASE Prune
  BY <1>1, <1>8, PruneBacked
<1>9. CASE Tick
  <2>1. clock' \in Nat /\ clock <= clock' /\ UNCHANGED <<table, history>>
    BY <1>2, <1>9 DEF Tick, memory
  <2>2. \A d \in Sample : Coming(d)' = Coming(d)
    BY <1>9 DEF Tick, Coming, ComingIn
  <2> QED
    BY <1>1, <2>1, <2>2, BackedFrame
<1>10. CASE Restart
  BY <1>1, <1>10, RestartBacked
<1>11. CASE UNCHANGED vars
  <2>1. clock' \in Nat /\ clock <= clock' /\ UNCHANGED <<table, history>>
    BY <1>2, <1>11 DEF vars, memory
  <2>2. \A d \in Sample : Coming(d)' = Coming(d)
    BY <1>11 DEF vars, Coming, ComingIn
  <2> QED
    BY <1>1, <2>1, <2>2, BackedFrame
<1> QED
  BY <1>3, <1>4, <1>5, <1>6, <1>7, <1>8, <1>9, <1>10, <1>11 DEF Next

\* Ingest shows in memory only what its transaction has committed: each sample of
\* a history is in the table at least as often until it leaves the retention
\* window, for all interleavings of requests with pruning, failures and crashes.
THEOREM TelemetryMemoryBackedByTable == Spec => []MemoryBackedByTable
<1>1. BackedInv /\ [Next]_vars => BackedInv'
  BY BackedStep
<1>2. BackedInv => MemoryBackedByTable
  <2> SUFFICES ASSUME BackedInv, NEW h \in DOMAIN history, NEW i \in DOMAIN history[h],
                      InWindow(history[h][i])
               PROVE  Times(history[h][i], history[h]) <= Times(history[h][i], table)
    BY DEF MemoryBackedByTable
  <2>1. PICK d, k, t : d = history[h][i] /\ k = history[h] /\ t = table
    OBVIOUS
  <2>2. k \in Seq(Sample) /\ t \in Seq(Sample)
    BY <2>1 DEF BackedInv, TelemetryInv, TelemetryTypes, MemoryTypes
  <2>3. d \in Sample /\ d \in Range(k)
    BY <2>1, <2>2 DEF Range
  <2>4. d.host = h /\ HistoryOf(d.host) = k
    BY <2>1, <2>3 DEF BackedInv, OwnHosts, HistoryOf
  <2>5. IsFiniteSet(Coming(d)) /\ Times(d, k) + Cardinality(Coming(d)) <= Times(d, t)
    BY <2>1, <2>3, <2>4 DEF BackedInv, Backed
  <2>6. Times(d, k) \in Nat /\ Times(d, t) \in Nat /\ Cardinality(Coming(d)) \in Nat
    BY <2>2, <2>5, TimesType, FS_CardinalityType
  <2>7. Times(d, k) <= Times(d, t)
    BY <2>5, <2>6
  <2> QED
    BY <2>1, <2>7
<1> QED
  BY <1>1, <1>2, BackedInit, PTL DEF Spec

-----------------------------------------------------------------------------

\* The last sample of a history that restore builds is as new as any row of the
\* host within the window.
LEMMA RestoredEndsNewest ==
    ASSUME TelemetryTypes, NEW h, NEW f \in RestoredHistories(h), NEW i \in RowsOf(h)
    PROVE  Format(f[Len(f)].observed) >= Format(table[i].observed)
<1> DEFINE observedAt == [j \in RowsOf(h) |-> Format(table[j].observed)]
<1>1. PICK s \in Ordered(RowsOf(h), observedAt) : f = HistoryFrom(s)
  BY DEF RestoredHistories
<1>2. RowsOf(h) \subseteq 1..Len(table) /\ Len(table) \in Nat /\ table \in Seq(Sample)
  BY DEF RowsOf, TelemetryTypes
<1>3. IsFiniteSet(RowsOf(h))
  <2>1. IsFiniteSet(1..Len(table))
    BY <1>2, FS_Interval
  <2> QED
    BY <1>2, <2>1, FS_Subset
<1>4. PICK R, rank : R = RowsOf(h) /\ rank = observedAt
  OBVIOUS
<1>5. /\ s \in Seq(R) /\ Len(s) = Cardinality(R) /\ DOMAIN s = 1..Len(s)
      /\ \A x \in R : \E n \in 1..Len(s) : s[n] = x
  <2>1. IsFiniteSet(R) /\ s \in Ordered(R, rank)
    BY <1>3, <1>4
  <2> QED
    BY <2>1, OrderedEnumerates
<1>6. PICK n \in 1..Len(s) : s[n] = i
  BY <1>4, <1>5
<1>7. PICK g : g = [m \in DOMAIN s |-> table[s[m]]]
  OBVIOUS
<1>8. g \in Seq(Sample) /\ Len(g) = Len(s) /\ g # << >>
  <2>1. \A m \in 1..Len(s) : table[s[m]] \in Sample
    BY <1>2, <1>4, <1>5
  <2>2. Len(s) \in Nat /\ g \in [1..Len(s) -> Sample]
    BY <1>5, <1>7, <2>1
  <2> QED
    BY <1>6, <2>2
<1>9. f[Len(f)] = g[Len(g)]
  <2>1. f = KeepLast(g, maxHistoryPerDevice) /\ maxHistoryPerDevice \in Nat \ {0}
    BY <1>1, <1>7, TelemetryConstants DEF HistoryFrom
  <2> QED
    BY <1>8, <2>1, KeepLastFacts
<1>10. PICK l \in 1..Len(s) : l = Len(s)
  BY <1>5, <1>6
<1>11. f[Len(f)] = table[s[l]] /\ s[l] \in R
  BY <1>5, <1>7, <1>8, <1>9, <1>10
<1>12. n = l \/ rank[s[n]] <= rank[s[l]]
  <2>1. s \in Ordered(R, rank)
    BY <1>4
  <2>2. \A a, b \in DOMAIN s : a < b => rank[s[a]] <= rank[s[b]]
    BY <2>1 DEF Ordered
  <2> QED
    BY <1>5, <1>6, <1>10, <2>2
<1>13. ASSUME NEW x \in R PROVE rank[x] = Format(table[x].observed) /\ rank[x] \in Int
  <2>1. table[x] \in Sample
    BY <1>2, <1>4
  <2>2. table[x].observed \in Int /\ TicksPerSecond \in Nat \ {0}
    BY <2>1, TelemetryConstants DEF Sample
  <2> QED
    BY <1>4, <2>2 DEF Format
<1>14. rank[s[n]] <= rank[s[l]]
  BY <1>5, <1>6, <1>11, <1>12, <1>13
<1> QED
  BY <1>4, <1>6, <1>11, <1>13, <1>14

\* A sample that memory shows is a row of the table while it is within the window.
LEMMA LatestInTable ==
    ASSUME BackedInv, NEW h \in DOMAIN latest, InWindow(latest[h])
    PROVE  /\ h \in Hosts
           /\ \E i \in RowsOf(h) : table[i] = latest[h]
<1>1. PICK d, k, t : d = latest[h] /\ k = history[h] /\ t = table
  OBVIOUS
<1>2. k \in Seq(Sample) /\ t \in Seq(Sample) /\ k # << >> /\ d = k[Len(k)] /\ h \in DOMAIN history
  BY <1>1 DEF BackedInv, TelemetryInv, TelemetryTypes, MemoryTypes, NoneEmpty, LatestEndsHistory
<1>3. d \in Sample /\ d \in Range(k)
  <2>1. Len(k) \in 1..Len(k) /\ DOMAIN k = 1..Len(k)
    BY <1>2
  <2> QED
    BY <1>2, <2>1 DEF Range
<1>4. d.host = h /\ HistoryOf(d.host) = k
  <2>1. d \in Range(history[h])
    BY <1>1, <1>3
  <2>2. d.host = h
    BY <1>2, <2>1 DEF BackedInv, OwnHosts
  <2> QED
    BY <1>1, <1>2, <2>2 DEF HistoryOf
<1>5. IsFiniteSet(Coming(d)) /\ Times(d, k) + Cardinality(Coming(d)) <= Times(d, t)
  BY <1>1, <1>3, <1>4 DEF BackedInv, Backed
<1>6. /\ Times(d, k) \in Nat /\ Times(d, t) \in Nat /\ Cardinality(Coming(d)) \in Nat
      /\ Times(d, k) > 0
  BY <1>2, <1>3, <1>5, TimesType, TimesPositive, FS_CardinalityType
<1>7. Times(d, t) # 0
  BY <1>5, <1>6
<1>8. PICK i \in DOMAIN t : t[i] = d
  <2> SUFFICES ASSUME \A i \in DOMAIN t : t[i] # d PROVE FALSE
    OBVIOUS
  <2>1. {i \in DOMAIN t : t[i] = d} = {}
    OBVIOUS
  <2>2. Cardinality({}) = 0
    BY FS_EmptySet, Zenon
  <2> QED
    BY <1>7, <2>1, <2>2 DEF Times
<1>9. i \in RowsOf(h)
  BY <1>1, <1>4, <1>8 DEF RowsOf, InWindow
<1> QED
  BY <1>1, <1>3, <1>4, <1>8, <1>9 DEF Sample

\* After a restart no host is shown with an older sample than before, for any
\* batches and in whatever order they came: restore reads the rows in the order of
\* observation, and the table has every sample that memory showed.
THEOREM TelemetryRestartShowsNoOlder == Spec => RestartShowsNoOlder
<1>1. ASSUME BackedInv, Next, restarts' # restarts,
             NEW h \in DOMAIN latest, InWindow(latest[h])
      PROVE  h \in DOMAIN latest' /\ Format(latest'[h].observed) >= Format(latest[h].observed)
  <2>1. Restart
    BY <1>1 DEF Next, ReceiveBatch, CommitBatch, CommitFails, AppendHistory,
                RecordAnomalies, Prune, Tick, counts
  <2>2. PICK i \in RowsOf(h) : table[i] = latest[h]
    BY <1>1, LatestInTable
  <2>3. h \in Hosts /\ RowsOf(h) # {}
    BY <1>1, <2>2, LatestInTable
  <2>4. /\ h \in DOMAIN latest' /\ history'[h] \in RestoredHistories(h)
        /\ latest'[h] = history'[h][Len(history'[h])]
    <3>1. PICK hosts : hosts = {g \in Hosts : RowsOf(g) # {}}
      OBVIOUS
    <3>2. /\ latest' = [g \in hosts |-> history'[g][Len(history'[g])]]
          /\ \A g \in hosts : history'[g] \in RestoredHistories(g)
      BY <2>1, <3>1 DEF Restart
    <3> QED
      BY <2>3, <3>1, <3>2
  <2>5. PICK f : f = history'[h]
    OBVIOUS
  <2>6. Format(f[Len(f)].observed) >= Format(table[i].observed)
    BY <1>1, <2>4, <2>5, RestoredEndsNewest DEF BackedInv, TelemetryInv
  <2> QED
    BY <2>2, <2>4, <2>5, <2>6
<1>2. BackedInv /\ [Next]_vars =>
          [ restarts' # restarts =>
                \A h \in DOMAIN latest :
                    InWindow(latest[h]) =>
                        /\ h \in DOMAIN latest'
                        /\ Format(latest'[h].observed) >= Format(latest[h].observed) ]_vars
  BY <1>1
<1>3. BackedInv /\ [Next]_vars => BackedInv'
  BY BackedStep
<1> QED
  BY <1>2, <1>3, BackedInit, PTL DEF Spec, RestartShowsNoOlder

=============================================================================
