--------------------------- MODULE AnalysisProofs ----------------------------
(***************************************************************************)
(* Proofs about Analysis: what detection, correlation and forecast make of *)
(* any batch of devices, with any readings, and of any history.            *)
(***************************************************************************)
EXTENDS Analysis, StorageProofs

\* The batches are sequences of samples, whatever their readings.
Typed == \A h : BatchesAfter(h) \subseteq Seq(Device)

-----------------------------------------------------------------------------

\* The least element of a set of numbers.
LEMMA MinFacts ==
    ASSUME NEW S, S \subseteq Nat, S # {}
    PROVE  Min(S) \in S /\ \A y \in S : Min(S) <= y
<1>1. PICK m \in S : \A k \in S : ~(<<k, m>> \in OpToRel(<, Nat))
  BY NatLessThanWellFounded, WFMin
<1>2. ASSUME NEW k \in S PROVE m <= k
  <2>1. k \in Nat /\ m \in Nat
    OBVIOUS
  <2>2. k < m => <<k, m>> \in OpToRel(<, Nat)
    BY <2>1 DEF OpToRel
  <2>3. ~(k < m)
    BY <1>1, <2>2, Zenon
  <2> QED
    BY <2>1, <2>3
<1> QED
  BY <1>2 DEF Min

\* The greatest element of a set of numbers up to n.
LEMMA MaxFacts ==
    ASSUME NEW n \in Nat, NEW S, S \subseteq 0..n, S # {}
    PROVE  Max(S) \in S /\ \A y \in S : Max(S) >= y
<1>1. PICK T : T = {n - x : x \in S}
  OBVIOUS
<1>2. T \subseteq Nat /\ T # {}
  <2>1. \A x \in S : n - x \in Nat
    OBVIOUS
  <2> QED
    BY <1>1, <2>1
<1>3. PICK t \in T : \A y \in T : t <= y
  BY <1>2, MinFacts
<1>4. PICK m \in S : t = n - m
  BY <1>1
<1>5. ASSUME NEW k \in S PROVE m >= k
  <2>1. n - m <= n - k
    BY <1>1, <1>3, <1>4
  <2>2. m \in 0..n /\ k \in 0..n
    OBVIOUS
  <2> QED
    BY <2>1, <2>2
<1> QED
  BY <1>5 DEF Max

\* The greater and the lesser of two numbers.
LEMMA PairFacts ==
    ASSUME NEW a \in Int, NEW b \in Int
    PROVE  /\ Max({a, b}) = IF a >= b THEN a ELSE b
           /\ Min({a, b}) = IF a <= b THEN a ELSE b
BY DEF Max, Min

\* The first element that passes a test, here the first rule that matches.
LEMMA FirstMatch ==
    ASSUME NEW s, Len(s) \in Nat
    PROVE  LET first == SelectInSeq(s, LAMBDA r : r.match)
           IN  \/ first = 0 /\ \A i \in 1..Len(s) : ~s[i].match
               \/ first \in 1..Len(s) /\ s[first].match
<1>1. PICK I : I = {i \in 1..Len(s) : s[i].match}
  OBVIOUS
<1>2. SelectInSeq(s, LAMBDA r : r.match) = IF I # {} THEN Min(I) ELSE 0
  BY <1>1 DEF SelectInSeq
<1>3. I # {} => Min(I) \in I
  <2>1. I \subseteq Nat
    BY <1>1
  <2> QED
    BY <2>1, MinFacts
<1> QED
  BY <1>1, <1>2, <1>3

\* A candidate comes from a rule that matches its device.
LEMMA CandidateFacts ==
    ASSUME NEW d, NEW devices
    PROVE  \/ CandidatesFor(d, devices) = << >>
           \/ \E k \in 1..6 : \E c :
                  /\ CandidatesFor(d, devices) = <<c>>
                  /\ Rules(d, ResolveNeighbors(d, devices))[k].match
                  /\ c.key = <<Rules(d, ResolveNeighbors(d, devices))[k].cause, d.host>>
                  /\ c.severity = Rules(d, ResolveNeighbors(d, devices))[k].severity
<1>1. PICK n : n = ResolveNeighbors(d, devices)
  OBVIOUS
<1>2. PICK rules : rules = Rules(d, n)
  OBVIOUS
<1>3. Len(rules) = 6
  BY <1>2 DEF Rules
<1>4. PICK first : first = SelectInSeq(rules, LAMBDA r : r.match)
  OBVIOUS
<1>5. first = 0 \/ (first \in 1..6 /\ rules[first].match)
  <2>1. Len(rules) \in Nat
    BY <1>3
  <2> QED
    BY <1>3, <1>4, <2>1, FirstMatch
<1>6. PICK c : c = [key |-> <<rules[first].cause, d.host>>,
                    severity |-> rules[first].severity,
                    affected |-> <<d.host>> \o [i \in 1..Min({2, Len(n)}) |-> n[i].host]]
  OBVIOUS
<1>7. CandidatesFor(d, devices) = IF first = 0 THEN << >> ELSE <<c>>
  BY <1>1, <1>2, <1>4, <1>6 DEF CandidatesFor
<1>8. c.key = <<rules[first].cause, d.host>> /\ c.severity = rules[first].severity
  BY <1>6
<1> QED
  BY <1>1, <1>2, <1>5, <1>7, <1>8

\* The elements of sequences, put one after the other.
LEMMA FlattenElements ==
    ASSUME NEW seqs, NEW n \in Nat, DOMAIN seqs = 1..n, seqs = [i \in 1..n |-> seqs[i]],
           \A i \in 1..n : seqs[i] \in Seq(Range(seqs[i]))
    PROVE  Range(FlattenSeq(seqs)) = UNION {Range(seqs[i]) : i \in 1..n}
<1>1. PICK S : S = UNION {Range(seqs[i]) : i \in 1..n}
  OBVIOUS
<1>2. ASSUME NEW i \in 1..n
      PROVE  seqs[i] \in Seq(S) /\ DOMAIN seqs[i] = 1..Len(seqs[i])
  <2>1. PICK s, R : s = seqs[i] /\ R = Range(seqs[i])
    OBVIOUS
  <2>2. s \in Seq(R) /\ R \subseteq S
    BY <1>1, <2>1
  <2>3. s \in Seq(S) /\ DOMAIN s = 1..Len(s)
    BY <2>2
  <2> QED
    BY <2>1, <2>3
<1>3. seqs \in Seq(Seq(S)) /\ Len(seqs) = n
  <2>1. seqs \in [1..n -> Seq(S)]
    BY <1>2
  <2> QED
    BY <2>1
<1>4. PICK u : u = FlattenSeq(seqs)
  OBVIOUS
<1>5. /\ u \in Seq(S)
      /\ \A i \in 1..Len(seqs) : \A j \in 1..Len(seqs[i]) :
             \E k \in 1..Len(u) : u[k] = seqs[i][j]
      /\ \A k \in 1..Len(u) :
             \E i \in 1..Len(seqs) : \E j \in 1..Len(seqs[i]) : u[k] = seqs[i][j]
  <2>1. seqs \in Seq(Seq(S))
    BY <1>3
  <2>2. /\ FlattenSeq(seqs) \in Seq(S)
        /\ \A i \in 1..Len(seqs) : \A j \in 1..Len(seqs[i]) :
               \E k \in 1..Len(FlattenSeq(seqs)) : FlattenSeq(seqs)[k] = seqs[i][j]
        /\ \A k \in 1..Len(FlattenSeq(seqs)) :
               \E i \in 1..Len(seqs) : \E j \in 1..Len(seqs[i]) :
                   FlattenSeq(seqs)[k] = seqs[i][j]
    BY <2>1, FlattenFacts, Zenon
  <2> QED
    BY <1>4, <2>2, Zenon
<1>6. DOMAIN u = 1..Len(u)
  BY <1>5
<1>7. ASSUME NEW x \in Range(u) PROVE x \in S
  BY <1>5, <1>7 DEF Range
<1>8. ASSUME NEW x \in S PROVE x \in Range(u)
  <2>1. PICK i \in 1..n : x \in Range(seqs[i])
    BY <1>1
  <2>2. PICK j \in DOMAIN seqs[i] : x = seqs[i][j]
    BY <2>1 DEF Range
  <2>3. i \in 1..Len(seqs) /\ j \in 1..Len(seqs[i])
    BY <1>2, <1>3
  <2>4. PICK k \in 1..Len(u) : u[k] = seqs[i][j]
    BY <1>5, <2>3
  <2> QED
    BY <1>6, <2>2, <2>4 DEF Range
<1> QED
  BY <1>1, <1>4, <1>7, <1>8

\* A sample that breaches a check has an anomaly with the severity of its reading.
LEMMA DetectInFacts ==
    ASSUME NEW d
    PROVE  /\ DetectIn(d) \in Seq(Range(DetectIn(d)))
           /\ \A i \in 1..5 : Breached(d, Checks[i]) =>
                  \E j \in DOMAIN DetectIn(d) :
                      /\ DetectIn(d)[j].device = d.host
                      /\ DetectIn(d)[j].severity = Severity(d[Checks[i].field], Checks[i])
<1>1. Checks \in Seq(Range(Checks)) /\ Len(Checks) = 5
  <2>1. Len(Checks) = 5 /\ Checks = [i \in 1..5 |-> Checks[i]]
    BY DEF Checks
  <2>2. \A i \in 1..5 : Checks[i] \in Range(Checks)
    BY <2>1 DEF Range
  <2> QED
    BY <2>1, <2>2
<1>2. PICK T, b : T = {c \in Range(Checks) : Breached(d, c)} /\ b = Where(Checks, T)
  OBVIOUS
<1>3. b \in Seq(Range(Checks)) /\ Range(b) = Range(Checks) \cap T
  BY <1>1, <1>2, WhereRange
<1>4. PICK u : u = [i \in DOMAIN b |-> [device |-> d.host, signal |-> b[i].signal,
                                        severity |-> Severity(d[b[i].field], b[i])]]
  OBVIOUS
<1>5. DetectIn(d) = u
  BY <1>2, <1>4 DEF DetectIn
<1>6. u \in Seq(Range(u)) /\ DOMAIN u = DOMAIN b
  <2>1. Len(b) \in Nat /\ DOMAIN b = 1..Len(b)
    BY <1>3
  <2>2. DOMAIN u = 1..Len(b) /\ u = [i \in 1..Len(b) |-> u[i]]
    BY <1>4, <2>1
  <2>3. u \in [1..Len(b) -> Range(u)]
    BY <2>2 DEF Range
  <2> QED
    BY <2>1, <2>2, <2>3
<1>7. ASSUME NEW i \in 1..5, Breached(d, Checks[i])
      PROVE  \E j \in DOMAIN u : /\ u[j].device = d.host
                                 /\ u[j].severity = Severity(d[Checks[i].field], Checks[i])
  <2>1. PICK c : c = Checks[i]
    OBVIOUS
  <2>2. c \in Range(Checks)
    BY <1>1, <2>1 DEF Range
  <2>3. c \in Range(b)
    BY <1>2, <1>3, <1>7, <2>1, <2>2
  <2>4. PICK j \in DOMAIN b : b[j] = c
    BY <2>3 DEF Range
  <2>5. u[j].device = d.host /\ u[j].severity = Severity(d[c.field], c)
    BY <1>4, <2>4
  <2> QED
    BY <1>6, <2>1, <2>4, <2>5
<1> QED
  BY <1>5, <1>6, <1>7

-----------------------------------------------------------------------------

ValidSamples == {d \in Device : Validate(d)}

\* What the last batch led to, and the histories, of valid samples only.
AnalysisInv ==
    /\ valid \in Seq(ValidSamples)
    /\ anomalies = Detect(valid)
    /\ candidates = Correlate(valid)
    /\ \A h \in DOMAIN history : history[h] \in Seq(ValidSamples) /\ history[h] # << >>

\* The invariant holds before the first batch.
LEMMA AnalysisInit == Init => AnalysisInv
<1> SUFFICES ASSUME Init PROVE AnalysisInv
  OBVIOUS
<1>1. valid = << >> /\ anomalies = << >> /\ candidates = << >> /\ history = << >>
  BY DEF Init
<1>2. Detect(<< >>) = << >> /\ Correlate(<< >>) = << >>
  <2>1. [i \in DOMAIN << >> |-> DetectIn(<< >>[i])] = << >>
    OBVIOUS
  <2>2. [i \in DOMAIN << >> |-> CandidatesFor(<< >>[i], << >>)] = << >>
    OBVIOUS
  <2>3. FlattenSeq(<< >>) = << >>
    BY DEF FlattenSeq
  <2> QED
    BY <2>1, <2>2, <2>3 DEF Detect, Correlate
<1> QED
  BY <1>1, <1>2 DEF AnalysisInv

\* Every batch keeps it.
LEMMA AnalysisStep ==
    ASSUME Typed, AnalysisInv, [Next]_vars
    PROVE  AnalysisInv'
<1>1. CASE UNCHANGED vars
  BY <1>1 DEF vars, AnalysisInv
<1>2. CASE Next
  <2>1. PICK batch \in BatchesAfter(history) : Ingest(batch)
    BY <1>2 DEF Next
  <2>2. batch \in Seq(Device)
    BY DEF Typed
  <2>3. PICK v, T : v = valid' /\ T = {d \in Range(batch) : Validate(d)}
    OBVIOUS
  <2>4. v = Where(batch, T)
    BY <2>1, <2>3 DEF Ingest
  <2>5. v \in Seq(Device) /\ Range(v) = Range(batch) \cap T
    BY <2>2, <2>4, WhereRange
  <2>6. v \in Seq(ValidSamples)
    <3>1. \A i \in 1..Len(v) : v[i] \in ValidSamples
      <4> SUFFICES ASSUME NEW i \in 1..Len(v) PROVE v[i] \in ValidSamples
        OBVIOUS
      <4>1. v[i] \in Device /\ v[i] \in Range(v)
        BY <2>5 DEF Range
      <4>2. Validate(v[i])
        BY <2>3, <2>5, <4>1
      <4> QED
        BY <4>1, <4>2 DEF ValidSamples
    <3> QED
      BY <2>5, <3>1
  <2>7. ASSUME NEW h \in DOMAIN history'
        PROVE  history'[h] \in Seq(ValidSamples) /\ history'[h] # << >>
    <3>1. PICK H, a, b : /\ H = {d \in Range(v) : d.host = h}
                         /\ a = HistoryOf(h)
                         /\ b = Where(v, H)
      <4>1. PICK H : H = {d \in Range(v) : d.host = h}
        OBVIOUS
      <4> QED
        BY <4>1
    <3>2. history'[h] = a \o b /\ (h \in DOMAIN history \/ h \in HostsIn(v))
      BY <2>1, <2>3, <3>1 DEF Ingest
    <3>3. b \in Seq(ValidSamples) /\ Range(b) = Range(v) \cap H
      BY <2>6, <3>1, WhereRange
    <3>4. a \in Seq(ValidSamples) /\ (h \in DOMAIN history => a # << >>)
      BY <3>1 DEF HistoryOf, AnalysisInv
    <3>5. h \in HostsIn(v) => b # << >>
      <4> SUFFICES ASSUME h \in HostsIn(v) PROVE b # << >>
        OBVIOUS
      <4>1. PICK i \in DOMAIN v : v[i].host = h
        BY DEF HostsIn
      <4>2. v[i] \in Range(b)
        BY <3>1, <3>3, <4>1 DEF Range
      <4> QED
        BY <4>2 DEF Range
    <3>6. a # << >> \/ b # << >>
      BY <3>2, <3>4, <3>5
    <3>7. a \o b \in Seq(ValidSamples) /\ a \o b # << >>
      BY <3>3, <3>4, <3>6
    <3> QED
      BY <3>2, <3>7
  <2>8. anomalies' = Detect(v) /\ candidates' = Correlate(v)
    BY <2>1, <2>3 DEF Ingest
  <2> QED
    BY <2>3, <2>6, <2>7, <2>8 DEF AnalysisInv
<1> QED
  BY <1>1, <1>2

\* The invariant of the analysis, in every reachable state.
THEOREM AnalysisInvariant == ASSUME Typed PROVE Spec => []AnalysisInv
<1>1. AnalysisInv /\ [Next]_vars => AnalysisInv'
  BY AnalysisStep
<1> QED
  BY <1>1, AnalysisInit, PTL DEF Spec

-----------------------------------------------------------------------------

\* The two tables of thresholds agree: a device that a rule matches breaches a
\* check, and for a critical rule not by little.
LEMMA ThresholdsAgree ==
    ASSUME NEW d \in ValidSamples, NEW n, NEW k \in 1..6, Rules(d, n)[k].match
    PROVE  \E i \in 1..5 :
               /\ Breached(d, Checks[i])
               /\ Rules(d, n)[k].severity = "critical"
                      => Severity(d[Checks[i].field], Checks[i]) # "medium"
<1>1. /\ d.cpu \in Int /\ d.memory \in Int /\ d.latency \in Int /\ d.loss \in Int
      /\ d.temperature \in Int
  BY DEF ValidSamples, Device
<1>2. CASE k = 1
  <2>1. d.cpu > 950
    <3>1. Congested(d, n)
      BY <1>2 DEF Rules
    <3> QED
      BY <3>1 DEF Congested
  <2>2. Breached(d, Checks[1])
    BY <1>1, <2>1 DEF Breached, Checks
  <2>3. Severity(d[Checks[1].field], Checks[1]) # "medium"
    BY <1>1, <2>1 DEF Severity, Checks
  <2> QED
    BY <2>2, <2>3
<1>3. CASE k = 2
  <2>1. d.latency > 900 /\ Rules(d, n)[k].severity = "high"
    <3>1. FirewallSaturated(d) /\ Rules(d, n)[k].severity = "high"
      BY <1>3 DEF Rules
    <3> QED
      BY <3>1 DEF FirewallSaturated
  <2>2. Breached(d, Checks[3])
    BY <1>1, <2>1 DEF Breached, Checks
  <2> QED
    BY <2>1, <2>2
<1>4. CASE k = 3
  <2>1. d.memory > 940 /\ Rules(d, n)[k].severity = "high"
    <3>1. MemoryLeaking(d) /\ Rules(d, n)[k].severity = "high"
      BY <1>4 DEF Rules
    <3> QED
      BY <3>1 DEF MemoryLeaking
  <2>2. Breached(d, Checks[2])
    BY <1>1, <2>1 DEF Breached, Checks
  <2> QED
    BY <2>1, <2>2
<1>5. CASE k = 4
  <2>1. d.loss > 70 /\ Rules(d, n)[k].severity = "high"
    <3>1. LosingPackets(d) /\ Rules(d, n)[k].severity = "high"
      BY <1>5 DEF Rules
    <3> QED
      BY <3>1 DEF LosingPackets
  <2>2. Breached(d, Checks[4])
    BY <1>1, <2>1 DEF Breached, Checks
  <2> QED
    BY <2>1, <2>2
<1>6. CASE k = 5
  <2>1. d.temperature > 840 /\ Rules(d, n)[k].severity = "high"
    <3>1. Overheating(d) /\ Rules(d, n)[k].severity = "high"
      BY <1>6 DEF Rules
    <3> QED
      BY <3>1 DEF Overheating
  <2>2. Breached(d, Checks[5])
    BY <1>1, <2>1 DEF Breached, Checks
  <2> QED
    BY <2>1, <2>2
<1>7. CASE k = 6
  <2>1. d.latency > 1400
    <3>1. EdgeUnstable(d)
      BY <1>7 DEF Rules
    <3> QED
      BY <3>1 DEF EdgeUnstable
  <2>2. Breached(d, Checks[3])
    BY <1>1, <2>1 DEF Breached, Checks
  <2>3. Severity(d[Checks[3].field], Checks[3]) # "medium"
    BY <1>1, <2>1 DEF Severity, Checks
  <2> QED
    BY <2>2, <2>3
<1> QED
  BY <1>2, <1>3, <1>4, <1>5, <1>6, <1>7

\* The candidates Correlate returns are those of the devices.
LEMMA CorrelateFacts ==
    ASSUME NEW devices \in Seq(ValidSamples)
    PROVE  Range(Correlate(devices)) =
               UNION {Range(CandidatesFor(devices[i], devices)) : i \in DOMAIN devices}
<1>1. PICK n, seqs : /\ n = Len(devices)
                     /\ seqs = [i \in DOMAIN devices |-> CandidatesFor(devices[i], devices)]
  OBVIOUS
<1>2. n \in Nat /\ DOMAIN devices = 1..n /\ DOMAIN seqs = 1..n /\ seqs = [i \in 1..n |-> seqs[i]]
  BY <1>1
<1>3. ASSUME NEW i \in 1..n PROVE seqs[i] \in Seq(Range(seqs[i]))
  <2>1. seqs[i] = << >> \/ \E x : seqs[i] = <<x>>
    BY <1>1, <1>2, CandidateFacts
  <2>2. ASSUME NEW x, seqs[i] = <<x>> PROVE seqs[i] \in Seq(Range(seqs[i]))
    <3>1. x \in Range(<<x>>)
      BY DEF Range
    <3> QED
      BY <2>2, <3>1
  <2>3. ASSUME seqs[i] = << >> PROVE seqs[i] \in Seq(Range(seqs[i]))
    BY <2>3
  <2>4. CASE seqs[i] = << >>
    BY <2>3, <2>4
  <2>5. CASE \E x : seqs[i] = <<x>>
    BY <2>2, <2>5
  <2> QED
    BY <2>1, <2>4, <2>5
<1>4. Range(FlattenSeq(seqs)) = UNION {Range(seqs[i]) : i \in 1..n}
  BY <1>2, <1>3, FlattenElements
<1>5. Correlate(devices) = FlattenSeq(seqs)
  BY <1>1 DEF Correlate
<1>6. \A i \in 1..n : seqs[i] = CandidatesFor(devices[i], devices)
  BY <1>1, <1>2
<1> QED
  BY <1>2, <1>4, <1>5, <1>6

\* The anomalies of every device are among those Detect returns.
LEMMA DetectFacts ==
    ASSUME NEW devices \in Seq(ValidSamples), NEW i \in DOMAIN devices,
           NEW a \in Range(DetectIn(devices[i]))
    PROVE  a \in Range(Detect(devices))
<1>1. PICK n, seqs : n = Len(devices) /\ seqs = [j \in DOMAIN devices |-> DetectIn(devices[j])]
  OBVIOUS
<1>2. n \in Nat /\ DOMAIN devices = 1..n /\ DOMAIN seqs = 1..n /\ seqs = [j \in 1..n |-> seqs[j]]
  BY <1>1
<1>3. \A j \in 1..n : seqs[j] \in Seq(Range(seqs[j]))
  BY <1>1, <1>2, DetectInFacts
<1>4. Range(FlattenSeq(seqs)) = UNION {Range(seqs[j]) : j \in 1..n}
  BY <1>2, <1>3, FlattenElements
<1>5. a \in Range(seqs[i])
  BY <1>1, <1>2
<1>6. a \in Range(FlattenSeq(seqs))
  BY <1>2, <1>4, <1>5
<1> QED
  BY <1>1, <1>6 DEF Detect

\* Correlate raises no incident whose device Detect finds nothing wrong with, and
\* no critical one for a reading that is barely above its threshold: for all
\* readings and all batches.
THEOREM AnalysisIncidentsHaveAnomalies ==
    ASSUME Typed PROVE Spec => []IncidentsHaveAnomalies
<1>1. AnalysisInv => IncidentsHaveAnomalies
  <2> SUFFICES ASSUME AnalysisInv, NEW i \in DOMAIN candidates
               PROVE  \E j \in DOMAIN anomalies :
                          /\ anomalies[j].device = candidates[i].key[2]
                          /\ candidates[i].severity = "critical"
                                 => anomalies[j].severity # "medium"
    BY DEF IncidentsHaveAnomalies
  <2>1. PICK v, c : v = valid /\ c = candidates[i]
    OBVIOUS
  <2>2. v \in Seq(ValidSamples) /\ c \in Range(Correlate(v)) /\ anomalies = Detect(v)
    BY <2>1 DEF AnalysisInv, Range
  <2>3. PICK m \in DOMAIN v : c \in Range(CandidatesFor(v[m], v))
    BY <2>2, CorrelateFacts
  <2>4. PICK d, n : d = v[m] /\ n = ResolveNeighbors(v[m], v)
    OBVIOUS
  <2>5. PICK k \in 1..6 : /\ Rules(d, n)[k].match
                          /\ c.key = <<Rules(d, n)[k].cause, d.host>>
                          /\ c.severity = Rules(d, n)[k].severity
    <3>1. CandidatesFor(d, v) # << >>
      BY <2>3, <2>4 DEF Range
    <3>2. PICK k \in 1..6 : \E x : /\ CandidatesFor(d, v) = <<x>>
                                   /\ Rules(d, n)[k].match
                                   /\ x.key = <<Rules(d, n)[k].cause, d.host>>
                                   /\ x.severity = Rules(d, n)[k].severity
      BY <2>4, <3>1, CandidateFacts
    <3>3. PICK x : /\ CandidatesFor(d, v) = <<x>>
                   /\ Rules(d, n)[k].match
                   /\ x.key = <<Rules(d, n)[k].cause, d.host>>
                   /\ x.severity = Rules(d, n)[k].severity
      BY <3>2
    <3>4. x = c
      BY <2>3, <2>4, <3>3 DEF Range
    <3> QED
      BY <3>3, <3>4
  <2>6. d \in ValidSamples
    BY <2>2, <2>4
  <2>7. PICK e \in 1..5 :
            /\ Breached(d, Checks[e])
            /\ Rules(d, n)[k].severity = "critical"
                   => Severity(d[Checks[e].field], Checks[e]) # "medium"
    BY <2>5, <2>6, ThresholdsAgree
  <2>8. PICK j \in DOMAIN DetectIn(d) :
            /\ DetectIn(d)[j].device = d.host
            /\ DetectIn(d)[j].severity = Severity(d[Checks[e].field], Checks[e])
    BY <2>7, DetectInFacts
  <2>9. PICK a : a = DetectIn(d)[j]
    OBVIOUS
  <2>10. a \in Range(DetectIn(d))
    BY <2>9 DEF Range
  <2>11. a \in Range(anomalies)
    BY <2>2, <2>4, <2>10, DetectFacts
  <2>12. PICK z \in DOMAIN anomalies : anomalies[z] = a
    BY <2>11 DEF Range
  <2>13. c.key[2] = d.host
    BY <2>5
  <2> QED
    BY <2>1, <2>5, <2>7, <2>8, <2>9, <2>12, <2>13
<1> QED
  BY <1>1, AnalysisInvariant, PTL

-----------------------------------------------------------------------------

\* Inequalities survive a common positive factor and, going back, the division by it.
LEMMA Scaling ==
    ASSUME NEW a \in Int, NEW b \in Int, NEW p \in Nat, p >= 1
    PROVE  /\ a * p \in Int
           /\ a >= b => a * p >= b * p
           /\ a > b => a * p > b * p
           /\ a >= 0 /\ a <= b * p => a \div p >= 0 /\ a \div p <= b
<1>1. a * p \in Int /\ b * p \in Int
  OBVIOUS
<1>2. a > b => a * p > b * p
  OBVIOUS
<1>3. a >= b => a * p >= b * p
  BY <1>1, <1>2
<1>4. ASSUME a >= 0, a <= b * p PROVE a \div p >= 0 /\ a \div p <= b
  <2>1. PICK q \in Int : q = a \div p
    OBVIOUS
  <2>2. q * p <= a /\ a < q * p + p
    BY <2>1
  <2>3. q >= 0
    BY <1>4, <2>2
  <2>4. q <= b
    BY <1>1, <1>4, <2>2
  <2> QED
    BY <2>1, <2>3, <2>4
<1> QED
  BY <1>1, <1>2, <1>3, <1>4

\* The samples the forecast looks at: the last of the history is the last of them.
LEMMA RecentFacts ==
    ASSUME NEW s \in Seq(ValidSamples), s # << >>
    PROVE  LET r == Recent(s)
               from == Max({1, Len(s) - ForecastWindow + 1})
           IN  /\ Len(r) \in Nat \ {0}
               /\ from \in 1..Len(s)
               /\ r[Len(r)] = s[Len(s)]
               /\ r[1] = s[from]
               /\ Per(r) \in Nat /\ Per(r) >= 1
<1>1. PICK from : from = Max({1, Len(s) - ForecastWindow + 1})
  OBVIOUS
<1>2. Len(s) \in Nat /\ Len(s) >= 1 /\ ForecastWindow \in Nat /\ ForecastWindow >= 1
  BY ForecastConstants
<1>3. from \in 1..Len(s)
  <2>1. Len(s) - ForecastWindow + 1 \in Int
    BY <1>2
  <2>2. from = IF 1 >= Len(s) - ForecastWindow + 1 THEN 1 ELSE Len(s) - ForecastWindow + 1
    BY <1>1, <2>1, PairFacts
  <2> QED
    BY <1>2, <2>2
<1>4. PICK r : r = SubSeq(s, from, Len(s))
  OBVIOUS
<1>5. Len(r) = Len(s) - from + 1 /\ \A i \in 1..(Len(s) - from + 1) : r[i] = s[from + i - 1]
  BY <1>2, <1>3, <1>4
<1>6. Len(r) \in Nat \ {0} /\ r[Len(r)] = s[Len(s)] /\ r[1] = s[from]
  <2>1. Len(r) \in 1..(Len(s) - from + 1) /\ 1 \in 1..(Len(s) - from + 1)
    BY <1>2, <1>3, <1>5
  <2>2. from + Len(r) - 1 = Len(s) /\ from + 1 - 1 = from
    BY <1>2, <1>3, <1>5
  <2> QED
    BY <1>5, <2>1, <2>2
<1>7. Per(r) \in Nat /\ Per(r) >= 1
  <2>1. Len(r) - 1 \in Int
    BY <1>6
  <2>2. Per(r) = IF 1 >= Len(r) - 1 THEN 1 ELSE Len(r) - 1
    BY <2>1, PairFacts DEF Per
  <2> QED
    BY <2>1, <2>2
<1>8. Recent(s) = r
  BY <1>1, <1>4 DEF Recent
<1> QED
  BY <1>1, <1>3, <1>6, <1>7, <1>8

\* A point of the forecast, against the last sample and the first of those looked
\* at: its readings stay in range and move the way the samples did.
LEMMA PointFacts ==
    ASSUME NEW s \in Seq(ValidSamples), s # << >>, NEW steps \in Steps
    PROVE  LET r == Recent(s)
               p == PointAt(r, steps)
               last == s[Len(s)]
               first == s[Max({1, Len(s) - ForecastWindow + 1})]
           IN  /\ p.per \in Nat /\ p.per >= 1
               /\ p.cpu \in Int /\ p.cpu >= 0 /\ p.cpu <= 1000 * p.per
               /\ p.latency \in Int /\ p.latency >= 0
               /\ p.loss \in Int /\ p.loss >= 0
               /\ last.cpu >= first.cpu => p.cpu >= last.cpu * p.per
               /\ last.cpu <= first.cpu => p.cpu <= last.cpu * p.per
               /\ last.latency >= first.latency => p.latency >= last.latency * p.per
               /\ last.latency <= first.latency => p.latency <= last.latency * p.per
               /\ last.loss >= first.loss => p.loss >= last.loss * p.per
               /\ last.loss <= first.loss => p.loss <= last.loss * p.per
<1>1. PICK r, per : r = Recent(s) /\ per = Per(Recent(s))
  OBVIOUS
<1>2. PICK last : last = s[Len(s)]
  OBVIOUS
<1>3. PICK first : first = s[Max({1, Len(s) - ForecastWindow + 1})]
  OBVIOUS
<1>4. /\ r[Len(r)] = last /\ r[1] = first
      /\ per \in Nat /\ per >= 1
      /\ last \in ValidSamples /\ first \in ValidSamples
  <2>1. /\ Max({1, Len(s) - ForecastWindow + 1}) \in 1..Len(s)
        /\ r[Len(r)] = last /\ r[1] = first
        /\ per \in Nat /\ per >= 1
    BY <1>1, <1>2, <1>3, RecentFacts
  <2>2. Len(s) \in 1..Len(s)
    OBVIOUS
  <2> QED
    BY <1>2, <1>3, <2>1, <2>2
<1>5. /\ last.cpu \in 0..1000 /\ last.cpu \in Nat /\ first.cpu \in Int
      /\ last.latency \in Nat /\ first.latency \in Int
      /\ last.loss \in Nat /\ first.loss \in Int
  <2>1. /\ last.cpu \in Int /\ last.latency \in Int /\ last.loss \in Int
        /\ first.cpu \in Int /\ first.latency \in Int /\ first.loss \in Int
    BY <1>4 DEF ValidSamples, Device
  <2>2. last.cpu \in 0..1000 /\ last.latency >= 0 /\ last.loss >= 0
    BY <1>4 DEF ValidSamples, Validate, InRange
  <2>3. last.latency \in Nat /\ last.loss \in Nat
    BY <2>1, <2>2
  <2>4. last.cpu \in Nat
    <3>1. PICK a \in 0..1000 : a = last.cpu
      BY <2>2
    <3>2. a \in Nat
      OBVIOUS
    <3> QED
      BY <3>1, <3>2, Zenon
  <2> QED
    BY <2>1, <2>2, <2>3, <2>4, Zenon
<1>6. steps \in Nat /\ steps >= 1
  BY DEF Steps
<1>7. ASSUME NEW f \in {"cpu", "latency", "loss"}
      PROVE  /\ Project(r, f, steps) \in Int
             /\ last[f] >= first[f] => Project(r, f, steps) >= last[f] * per
             /\ last[f] <= first[f] => Project(r, f, steps) <= last[f] * per
             /\ last[f] * per \in Int /\ last[f] * per >= 0
  <2>1. last[f] \in Nat /\ first[f] \in Int
    <3>1. CASE f = "cpu"
      BY <1>5, <3>1
    <3>2. CASE f = "latency"
      BY <1>5, <3>2
    <3>3. CASE f = "loss"
      BY <1>5, <3>3
    <3> QED
      BY <3>1, <3>2, <3>3
  <2>2. PICK a \in Int, b \in Int : a = last[f] /\ b = first[f]
    BY <2>1
  <2>3. Project(r, f, steps) = a * per + (a - b) * steps
    BY <1>1, <1>4, <2>2 DEF Project
  <2>4. a * per \in Int /\ a * per >= 0
    <3>1. a >= 0 /\ 0 * per = 0
      BY <1>4, <2>1, <2>2
    <3> QED
      BY <1>4, <3>1, Scaling
  <2>5. (a - b) * steps \in Int
    BY <1>6
  <2>6. a >= b => (a - b) * steps >= 0
    <3>1. a - b \in Int /\ (a >= b => a - b >= 0) /\ 0 * steps = 0
      BY <1>6
    <3> QED
      BY <1>6, <3>1, Scaling
  <2>7. a <= b => (a - b) * steps <= 0
    <3>1. a - b \in Int /\ (a <= b => 0 >= a - b) /\ 0 * steps = 0
      BY <1>6
    <3> QED
      BY <1>6, <3>1, Scaling
  <2> QED
    BY <2>2, <2>3, <2>4, <2>5, <2>6, <2>7
<1>8. PICK p : p = PointAt(r, steps)
  OBVIOUS
<1>9. p.per = per
  BY <1>1, <1>8 DEF PointAt
<1>10. ASSUME NEW f \in {"latency", "loss"}
       PROVE  /\ p[f] \in Int /\ p[f] >= 0
              /\ last[f] >= first[f] => p[f] >= last[f] * per
              /\ last[f] <= first[f] => p[f] <= last[f] * per
  <2>1. PICK v : v = Project(r, f, steps)
    OBVIOUS
  <2>2. p[f] = Max({0, v})
    <3>1. CASE f = "latency"
      BY <1>8, <2>1, <3>1 DEF PointAt
    <3>2. CASE f = "loss"
      BY <1>8, <2>1, <3>2 DEF PointAt
    <3> QED
      BY <3>1, <3>2
  <2>3. /\ v \in Int /\ last[f] * per \in Int /\ last[f] * per >= 0
        /\ last[f] >= first[f] => v >= last[f] * per
        /\ last[f] <= first[f] => v <= last[f] * per
    BY <1>7, <2>1
  <2>4. p[f] = IF 0 >= v THEN 0 ELSE v
    BY <2>2, <2>3, PairFacts
  <2> QED
    BY <2>3, <2>4
<1>11. /\ p.cpu \in Int /\ p.cpu >= 0 /\ p.cpu <= 1000 * per
       /\ last.cpu >= first.cpu => p.cpu >= last.cpu * per
       /\ last.cpu <= first.cpu => p.cpu <= last.cpu * per
  <2>1. PICK v, hi : v = Project(r, "cpu", steps) /\ hi = 1000 * per
    OBVIOUS
  <2>2. p.cpu = Min({Max({v, 0}), hi})
    BY <1>1, <1>8, <2>1 DEF PointAt, Clamp
  <2>3. hi \in Int /\ hi >= 0 /\ last.cpu * per <= hi
    <3>1. PICK a \in 0..1000 : a = last.cpu
      BY <1>5
    <3>2. 1000 >= a /\ 1000 \in Int /\ a \in Int
      OBVIOUS
    <3>3. 1000 * per >= a * per
      BY <1>4, <3>2, Scaling
    <3> QED
      BY <1>4, <2>1, <3>1, <3>3
  <2>4. /\ v \in Int /\ last["cpu"] * per \in Int /\ last["cpu"] * per >= 0
        /\ last["cpu"] >= first["cpu"] => v >= last["cpu"] * per
        /\ last["cpu"] <= first["cpu"] => v <= last["cpu"] * per
    BY <1>7, <2>1
  <2>5. PICK w : w = Max({v, 0})
    OBVIOUS
  <2>6. w = IF v >= 0 THEN v ELSE 0
    BY <2>4, <2>5, PairFacts
  <2>7. p.cpu = IF w <= hi THEN w ELSE hi
    <3>1. w \in Int /\ hi \in Int
      BY <2>3, <2>4, <2>6
    <3>2. p.cpu = Min({w, hi})
      BY <2>2, <2>5
    <3> QED
      BY <3>1, <3>2, PairFacts
  <2> QED
    BY <2>1, <2>3, <2>4, <2>6, <2>7
<1>12. /\ p.latency \in Int /\ p.latency >= 0
       /\ last.latency >= first.latency => p.latency >= last.latency * per
       /\ last.latency <= first.latency => p.latency <= last.latency * per
  BY <1>10
<1>13. /\ p.loss \in Int /\ p.loss >= 0
       /\ last.loss >= first.loss => p.loss >= last.loss * per
       /\ last.loss <= first.loss => p.loss <= last.loss * per
  BY <1>10
<1> QED
  BY <1>1, <1>2, <1>3, <1>4, <1>8, <1>9, <1>11, <1>12, <1>13

\* A greater score is no lower a risk, the denominators being taken into account.
LEMMA RiskMonotone ==
    ASSUME NEW x \in Int, NEW y \in Int, NEW p \in Nat, p >= 1
    PROVE  /\ y >= x * p => RiskFromScore(y, p) >= RiskFromScore(x, 1)
           /\ y <= x * p => RiskFromScore(y, p) <= RiskFromScore(x, 1)
<1>1. x * p \in Int
  BY Scaling
<1>2. ASSUME NEW k \in {54000, 72000, 90000}
      PROVE  /\ k * p \in Int
             /\ x > k => x * p > k * p
             /\ k >= x => k * p >= x * p
  <2>1. k \in Int
    OBVIOUS
  <2> QED
    BY <2>1, Scaling
<1>3. /\ 54000 * p \in Int /\ (x > 54000 => x * p > 54000 * p)
      /\ 54000 >= x => 54000 * p >= x * p
  BY <1>2
<1>4. /\ 72000 * p \in Int /\ (x > 72000 => x * p > 72000 * p)
      /\ 72000 >= x => 72000 * p >= x * p
  BY <1>2
<1>5. /\ 90000 * p \in Int /\ (x > 90000 => x * p > 90000 * p)
      /\ 90000 >= x => 90000 * p >= x * p
  BY <1>2
<1>6. 54000 * p < 72000 * p /\ 72000 * p < 90000 * p
  OBVIOUS
<1>7. PICK u, v, w, z : u = 54000 * p /\ v = 72000 * p /\ w = 90000 * p /\ z = x * p
  OBVIOUS
<1>8. RiskFromScore(y, p) = CASE y > w -> 4 [] y > v /\ y <= w -> 3
                              [] y > u /\ y <= v -> 2 [] y <= u -> 1
  BY <1>7 DEF RiskFromScore
<1>9. RiskFromScore(x, 1) = CASE x > 90000 -> 4 [] x > 72000 /\ x <= 90000 -> 3
                              [] x > 54000 /\ x <= 72000 -> 2 [] x <= 54000 -> 1
  BY DEF RiskFromScore
<1>10. RiskFromScore(y, p) = IF y > w THEN 4 ELSE IF y > v THEN 3 ELSE IF y > u THEN 2 ELSE 1
  <2>1. u \in Int /\ v \in Int /\ w \in Int /\ u < v /\ v < w
    BY <1>3, <1>4, <1>5, <1>6, <1>7
  <2> QED
    BY <1>8, <2>1
<1>11. RiskFromScore(x, 1) = IF x > 90000 THEN 4 ELSE IF x > 72000 THEN 3
                             ELSE IF x > 54000 THEN 2 ELSE 1
  BY <1>9
<1>12. /\ u \in Int /\ v \in Int /\ w \in Int /\ z \in Int /\ u < v /\ v < w
       /\ x > 54000 => z > u
       /\ 54000 >= x => u >= z
       /\ x > 72000 => z > v
       /\ 72000 >= x => v >= z
       /\ x > 90000 => z > w
       /\ 90000 >= x => w >= z
  BY <1>1, <1>3, <1>4, <1>5, <1>6, <1>7
<1>13. y >= z => RiskFromScore(y, p) >= RiskFromScore(x, 1)
  BY <1>10, <1>11, <1>12
<1>14. y <= z => RiskFromScore(y, p) <= RiskFromScore(x, 1)
  BY <1>10, <1>11, <1>12
<1> QED
  BY <1>7, <1>13, <1>14

\* The risk moves with the readings.
LEMMA RiskOfPoint ==
    ASSUME NEW d \in ValidSamples, NEW p, p.per \in Nat, p.per >= 1,
           p.cpu \in Int, p.latency \in Int, p.loss \in Int
    PROVE  /\ p.cpu >= d.cpu * p.per /\ p.latency >= d.latency * p.per
              /\ p.loss >= d.loss * p.per => RiskAt(p) >= RiskOf(d)
           /\ p.cpu <= d.cpu * p.per /\ p.latency <= d.latency * p.per
              /\ p.loss <= d.loss * p.per => RiskAt(p) <= RiskOf(d)
<1>1. d.cpu \in Int /\ d.latency \in Int /\ d.loss \in Int
  BY DEF ValidSamples, Device
<1>2. PICK a \in Int, b \in Int, c \in Int : a = d.cpu /\ b = d.latency /\ c = d.loss
  BY <1>1
<1>3. PICK e \in Int, f \in Int, g \in Int, n \in Nat :
          e = p.cpu /\ f = p.latency /\ g = p.loss /\ n = p.per
  OBVIOUS
<1>4. PICK x \in Int : x = 40 * a + 25 * b + 800 * c
  OBVIOUS
<1>5. PICK y \in Int : y = 40 * e + 25 * f + 800 * g
  OBVIOUS
<1>6. RiskAt(p) = RiskFromScore(y, n)
  BY <1>3, <1>5 DEF RiskAt
<1>7. RiskOf(d) = RiskFromScore(x, 1)
  BY <1>2, <1>4 DEF RiskOf, RiskAt
<1>8. x * n = 40 * (a * n) + 25 * (b * n) + 800 * (c * n)
  BY <1>4
<1>9. PICK an \in Int, bn \in Int, cn \in Int : an = a * n /\ bn = b * n /\ cn = c * n
  OBVIOUS
<1>10. x * n = 40 * an + 25 * bn + 800 * cn
  BY <1>8, <1>9
<1>11. e >= an /\ f >= bn /\ g >= cn => y >= x * n
  BY <1>5, <1>10
<1>12. e <= an /\ f <= bn /\ g <= cn => y <= x * n
  BY <1>5, <1>10
<1>13. /\ y >= x * n => RiskFromScore(y, n) >= RiskFromScore(x, 1)
       /\ y <= x * n => RiskFromScore(y, n) <= RiskFromScore(x, 1)
  BY <1>3, RiskMonotone
<1> QED
  BY <1>2, <1>3, <1>6, <1>7, <1>9, <1>11, <1>12, <1>13

\* The forecast risk is no lower than the present one where no reading has fallen,
\* and no higher where none has risen, over any history.
THEOREM AnalysisRiskFollowsTrend == ASSUME Typed PROVE Spec => []RiskFollowsTrend
<1>1. AnalysisInv => RiskFollowsTrend
  <2> SUFFICES ASSUME AnalysisInv, NEW h \in DOMAIN history
               PROVE  LET last == history[h][Len(history[h])]
                          first == history[h][Max({1, Len(history[h]) - ForecastWindow + 1})]
                          risk == Build(h, history[h]).risk
                      IN  /\ (\A f \in {"cpu", "latency", "loss"} : last[f] >= first[f])
                                 => risk >= RiskOf(last)
                          /\ (\A f \in {"cpu", "latency", "loss"} : last[f] <= first[f])
                                 => risk <= RiskOf(last)
    BY DEF RiskFollowsTrend
  <2>1. PICK s : s = history[h] /\ s \in Seq(ValidSamples) /\ s # << >>
    BY DEF AnalysisInv
  <2>2. PICK last : last = s[Len(s)]
    OBVIOUS
  <2>3. PICK first : first = s[Max({1, Len(s) - ForecastWindow + 1})]
    OBVIOUS
  <2>4. PICK p : p = PointAt(Recent(s), 6)
    OBVIOUS
  <2>5. 6 \in Steps
    BY DEF Steps
  <2>6. Build(h, s).risk = RiskAt(p)
    BY <2>1, <2>4, <2>5 DEF Build
  <2>7. /\ p.per \in Nat /\ p.per >= 1
        /\ p.cpu \in Int /\ p.latency \in Int /\ p.loss \in Int
        /\ last.cpu >= first.cpu => p.cpu >= last.cpu * p.per
        /\ last.cpu <= first.cpu => p.cpu <= last.cpu * p.per
        /\ last.latency >= first.latency => p.latency >= last.latency * p.per
        /\ last.latency <= first.latency => p.latency <= last.latency * p.per
        /\ last.loss >= first.loss => p.loss >= last.loss * p.per
        /\ last.loss <= first.loss => p.loss <= last.loss * p.per
    BY <2>1, <2>2, <2>3, <2>4, <2>5, PointFacts
  <2>8. last \in ValidSamples
    <3>1. Len(s) \in 1..Len(s)
      BY <2>1
    <3> QED
      BY <2>1, <2>2, <3>1
  <2>9. ASSUME \A f \in {"cpu", "latency", "loss"} : last[f] >= first[f]
        PROVE  RiskAt(p) >= RiskOf(last)
    <3>1. last.cpu >= first.cpu /\ last.latency >= first.latency /\ last.loss >= first.loss
      BY <2>9
    <3> QED
      BY <2>7, <2>8, <3>1, RiskOfPoint
  <2>10. ASSUME \A f \in {"cpu", "latency", "loss"} : last[f] <= first[f]
         PROVE  RiskAt(p) <= RiskOf(last)
    <3>1. last.cpu <= first.cpu /\ last.latency <= first.latency /\ last.loss <= first.loss
      BY <2>10
    <3> QED
      BY <2>7, <2>8, <3>1, RiskOfPoint
  <2> QED
    BY <2>1, <2>2, <2>3, <2>6, <2>9, <2>10
<1> QED
  BY <1>1, AnalysisInvariant, PTL

-----------------------------------------------------------------------------

\* byHost holds the hosts of the batch, and for each one of its samples.
LEMMA ByHostFacts ==
    ASSUME NEW S, NEW devices \in Seq(S), NEW h
    PROVE  \/ ByHost(devices, h) = 0 /\ h \notin HostsIn(devices)
           \/ /\ ByHost(devices, h) \in 1..Len(devices)
              /\ devices[ByHost(devices, h)].host = h
              /\ h \in HostsIn(devices)
              /\ ByHost(devices, h) # 0
              /\ \A j \in 1..Len(devices) : devices[j].host = h => j <= ByHost(devices, h)
<1>1. PICK I : I = {i \in 1..Len(devices) : devices[i].host = h}
  OBVIOUS
<1>2. ByHost(devices, h) = IF I # {} THEN Max(I) ELSE 0
  BY <1>1 DEF ByHost, SelectLastInSeq
<1>3. Len(devices) \in Nat /\ I \subseteq 0..Len(devices)
  BY <1>1
<1>4. I # {} => Max(I) \in I /\ \A j \in I : j <= Max(I)
  <2>1. I # {} => Max(I) \in I /\ \A j \in I : Max(I) >= j
    BY <1>3, MaxFacts
  <2>2. \A j \in I : j \in Int
    BY <1>3
  <2> QED
    BY <2>1, <2>2
<1>5. I = {} <=> h \notin HostsIn(devices)
  BY <1>1 DEF HostsIn
<1> QED
  BY <1>1, <1>2, <1>3, <1>4, <1>5

\* out has the values of resolveNeighbors' loop over the names.
IsResolve(out, names, d, devices) ==
    out = [k \in 0..Len(names) |->
              IF k = 0 THEN << >> ELSE TryName(out[k - 1], names[k], d, devices)]

\* f has the successive values of that loop, and ResolveNeighbors the last of them.
LoopValues(f, S, names, d, devices) ==
    /\ ResolveNeighbors(d, devices) = f[Len(names)]
    /\ f \in [0..Len(names) -> Seq(S)]
    /\ f[0] = << >>
    /\ \A i \in 1..Len(names) : f[i] = TryName(f[i - 1], names[i], d, devices)

\* There are such values: the recursive definition defines something.
LEMMA ResolveLoop ==
    ASSUME NEW S, NEW devices \in Seq(S), NEW d, NEW names, Len(names) \in Nat,
           names = CandidateNames(d.host)
    PROVE  \E f : LoopValues(f, S, names, d, devices)
<1> DEFINE n == Len(names)
           step == [p \in Seq(S) \X (1..n) |-> TryName(p[1], names[p[2]], d, devices)]
<1>1. ASSUME NEW u \in Seq(S), NEW h PROVE TryName(u, h, d, devices) \in Seq(S)
  <2>1. ByHost(devices, h) # 0 => devices[ByHost(devices, h)] \in S
    <3>1. ByHost(devices, h) = 0 \/ ByHost(devices, h) \in 1..Len(devices)
      BY ByHostFacts
    <3> QED
      BY <3>1
  <2> QED
    BY <2>1 DEF TryName
<1>2. n \in Nat /\ << >> \in Seq(S) /\ step \in [Seq(S) \X (1..n) -> Seq(S)]
  BY <1>1
<1>3. PICK f : IsLoop(f, n, Seq(S), << >>, step)
  <2> HIDE DEF step, n
  <2> QED
    BY <1>2, LoopExists
<1>4. f \in [0..n -> Seq(S)] /\ f[0] = << >>
  BY <1>3 DEF IsLoop
<1>5. ASSUME NEW i \in 1..n PROVE f[i] = TryName(f[i - 1], names[i], d, devices)
  <2>1. f[i - 1] \in Seq(S)
    BY <1>2, <1>4
  <2>2. f[i] = step[<<f[i - 1], i>>]
    BY <1>3 DEF IsLoop
  <2> QED
    BY <2>1, <2>2
<1>6. IsResolve(f, names, d, devices)
  <2> DEFINE g == [k \in 0..n |->
                      IF k = 0 THEN << >> ELSE TryName(f[k - 1], names[k], d, devices)]
  <2>1. DOMAIN f = 0..n /\ DOMAIN g = 0..n
    BY <1>4
  <2>2. ASSUME NEW i \in 0..n PROVE f[i] = g[i]
    <3>1. CASE i = 0
      BY <1>2, <1>4, <3>1
    <3>2. CASE i # 0
      <4>1. i \in 1..n
        BY <1>2, <3>2
      <4> QED
        BY <1>5, <3>2, <4>1
    <3> QED
      BY <3>1, <3>2
  <2>3. f = g
    <3> HIDE DEF n
    <3> QED
      BY <1>4, <2>1, <2>2
  <2> QED
    BY <2>3 DEF IsResolve
<1> DEFINE h == CHOOSE g : IsResolve(g, names, d, devices)
<1>7. IsResolve(h, names, d, devices)
  BY <1>6
<1>8. ResolveNeighbors(d, devices) = h[n]
  BY DEF ResolveNeighbors, IsResolve
<1>9. DOMAIN h = 0..n /\ h[0] = << >>
      /\ \A i \in 1..n : h[i] = TryName(h[i - 1], names[i], d, devices)
  <2>1. PICK e : e = h
    OBVIOUS
  <2>2. e = [k \in 0..n |-> IF k = 0 THEN << >> ELSE TryName(e[k - 1], names[k], d, devices)]
    BY <1>7, <2>1 DEF IsResolve
  <2>3. PICK g : g = [k \in 0..n |->
                         IF k = 0 THEN << >> ELSE TryName(e[k - 1], names[k], d, devices)]
    OBVIOUS
  <2>4. DOMAIN g = 0..n /\ g[0] = << >>
        /\ \A i \in 1..n : g[i] = TryName(e[i - 1], names[i], d, devices)
    BY <1>2, <2>3
  <2>5. g = e
    BY <2>2, <2>3
  <2> QED
    BY <2>1, <2>4, <2>5
<1> DEFINE Good == {i \in 0..n : h[i] \in Seq(S)}
<1> HIDE DEF h, n
<1>10. 0 \in Good /\ \A i \in 1..n : i - 1 \in Good => i \in Good
  <2>1. 0 \in Good
    <3>1. h[0] \in Seq(S)
      BY <1>2, <1>9, Zenon
    <3>2. 0 \in 0..n
      BY <1>2
    <3> QED
      BY <3>1, <3>2
  <2>2. ASSUME NEW i \in 1..n, i - 1 \in Good PROVE i \in Good
    <3>1. h[i - 1] \in Seq(S) /\ h[i] = TryName(h[i - 1], names[i], d, devices)
      BY <1>9, <2>2
    <3>2. h[i] \in Seq(S)
      BY <1>1, <3>1
    <3>3. i \in 0..n
      BY <1>2
    <3> QED
      BY <3>2, <3>3
  <2> QED
    BY <2>1, <2>2
<1>11. \A i \in 0..n : i \in Good
  <2> HIDE DEF Good
  <2> QED
    BY <1>2, <1>10, Induction
<1>12. h \in [0..n -> Seq(S)]
  <2>1. h = [i \in 0..n |-> h[i]]
    BY <1>7, <1>9 DEF IsResolve, n
  <2> QED
    BY <1>11, <2>1
<1>13. LoopValues(h, S, names, d, devices)
  BY <1>8, <1>9, <1>12 DEF LoopValues, n
<1> QED
  BY <1>13

\* After each name tried: the hosts found are the names so far that are in the
\* batch, without d's, each once, and with the sample byHost holds.
Resolved(m, u, names, d, devices) ==
    /\ HostsIn(u) = {g \in HostsIn(devices) : g # d.host /\ \E i \in 1..m : names[i] = g}
    /\ \A k, l \in 1..Len(u) : k # l => u[k].host # u[l].host
    /\ \A k \in 1..Len(u) : u[k] = devices[ByHost(devices, u[k].host)]

\* Trying a name keeps this.
LEMMA TryNameKeeps ==
    ASSUME NEW S, NEW devices \in Seq(S), NEW d, NEW names, NEW m \in Nat, m >= 1,
           NEW u \in Seq(S), Resolved(m - 1, u, names, d, devices)
    PROVE  Resolved(m, TryName(u, names[m], d, devices), names, d, devices)
<1>1. PICK h, b : h = names[m] /\ b = ByHost(devices, names[m])
  OBVIOUS
<1>2. PICK w : w = TryName(u, h, d, devices)
  OBVIOUS
<1>3. \/ b = 0 /\ h \notin HostsIn(devices)
      \/ /\ b \in 1..Len(devices) /\ devices[b].host = h
         /\ h \in HostsIn(devices) /\ b # 0
  BY <1>1, ByHostFacts
<1>4. HostsIn(u) = {u[i].host : i \in DOMAIN u}
  BY DEF HostsIn
<1>5. \A g : (\E i \in 1..m : names[i] = g) <=> (\E i \in 1..(m - 1) : names[i] = g) \/ g = h
  <2>1. \A i : i \in 1..m <=> i \in 1..(m - 1) \/ i = m
    OBVIOUS
  <2> QED
    BY <1>1, <2>1
<1>6. CASE h = d.host \/ h \in HostsIn(u) \/ b = 0
  <2>1. w = u
    BY <1>1, <1>2, <1>4, <1>6 DEF TryName
  <2>2. HostsIn(u) = {g \in HostsIn(devices) : g # d.host /\ \E i \in 1..m : names[i] = g}
    BY <1>3, <1>5, <1>6 DEF Resolved
  <2> QED
    BY <1>1, <1>2, <2>1, <2>2 DEF Resolved
<1>7. CASE ~(h = d.host \/ h \in HostsIn(u) \/ b = 0)
  <2>1. PICK e : e = devices[b]
    OBVIOUS
  <2>2. w = Append(u, e)
    BY <1>1, <1>2, <1>4, <1>7, <2>1 DEF TryName
  <2>3. e \in S /\ e.host = h
    BY <1>3, <1>7, <2>1
  <2>4. /\ Len(w) = Len(u) + 1 /\ Len(u) \in Nat
        /\ DOMAIN w = 1..(Len(u) + 1) /\ DOMAIN u = 1..Len(u)
        /\ w[Len(u) + 1] = e
        /\ \A i \in 1..Len(u) : w[i] = u[i]
    BY <2>2, <2>3
  <2>5. HostsIn(w) = HostsIn(u) \cup {h}
    <3>1. \A i : i \in DOMAIN w <=> i \in DOMAIN u \/ i = Len(u) + 1
      BY <2>4
    <3> QED
      BY <2>3, <2>4, <3>1 DEF HostsIn
  <2>6. HostsIn(w) = {g \in HostsIn(devices) : g # d.host /\ \E i \in 1..m : names[i] = g}
    BY <1>3, <1>5, <1>7, <2>5 DEF Resolved
  <2>7. \A k \in 1..Len(u) : u[k].host # h
    BY <1>4, <1>7, <2>4
  <2>8. ASSUME NEW k \in 1..Len(w), NEW l \in 1..Len(w), k # l PROVE w[k].host # w[l].host
    <3>1. \A i \in 1..Len(w) : i \in 1..Len(u) \/ i = Len(u) + 1
      BY <2>4
    <3>2. \A i, j \in 1..Len(u) : i # j => u[i].host # u[j].host
      BY DEF Resolved
    <3>3. CASE k \in 1..Len(u) /\ l \in 1..Len(u)
      BY <2>4, <2>8, <3>2, <3>3
    <3>4. CASE k \in 1..Len(u) /\ l = Len(u) + 1
      BY <2>3, <2>4, <2>7, <3>4
    <3>5. CASE k = Len(u) + 1 /\ l \in 1..Len(u)
      BY <2>3, <2>4, <2>7, <3>5
    <3> QED
      BY <2>8, <3>1, <3>3, <3>4, <3>5
  <2>9. ASSUME NEW k \in 1..Len(w) PROVE w[k] = devices[ByHost(devices, w[k].host)]
    <3>1. CASE k \in 1..Len(u)
      BY <2>4, <3>1 DEF Resolved
    <3>2. CASE k = Len(u) + 1
      BY <1>1, <2>1, <2>3, <2>4, <3>2
    <3> QED
      BY <2>4, <3>1, <3>2
  <2> QED
    BY <1>1, <1>2, <2>6, <2>8, <2>9 DEF Resolved
<1> QED
  BY <1>6, <1>7

\* What resolveNeighbors returns, in terms of the names it tries.
LEMMA ResolveFacts ==
    ASSUME NEW S, NEW devices \in Seq(S), NEW d, NEW names, Len(names) \in Nat,
           names = CandidateNames(d.host)
    PROVE  /\ ResolveNeighbors(d, devices) \in Seq(S)
           /\ Resolved(Len(names), ResolveNeighbors(d, devices), names, d, devices)
<1>0. PICK f : LoopValues(f, S, names, d, devices)
  BY ResolveLoop
<1>1. /\ ResolveNeighbors(d, devices) = f[Len(names)]
      /\ f \in [0..Len(names) -> Seq(S)]
      /\ f[0] = << >>
      /\ \A i \in 1..Len(names) : f[i] = TryName(f[i - 1], names[i], d, devices)
  BY <1>0 DEF LoopValues
<1> DEFINE n == Len(names)
           Good == {i \in 0..n : Resolved(i, f[i], names, d, devices)}
<1>2. Resolved(0, << >>, names, d, devices)
  <2>1. HostsIn(<< >>) = {}
    BY DEF HostsIn
  <2> QED
    BY <2>1 DEF Resolved
<1>3. ASSUME NEW i \in 1..n, i - 1 \in Good PROVE i \in Good
  <2>1. i \in Nat /\ i >= 1 /\ i - 1 \in 0..n /\ i \in 0..n
    OBVIOUS
  <2>2. f[i - 1] \in Seq(S) /\ Resolved(i - 1, f[i - 1], names, d, devices)
    BY <1>1, <1>3, <2>1
  <2>3. Resolved(i, TryName(f[i - 1], names[i], d, devices), names, d, devices)
    BY <2>1, <2>2, TryNameKeeps
  <2> QED
    BY <1>1, <2>1, <2>3
<1>4. 0 \in Good
  BY <1>1, <1>2
<1>5. n \in Nat
  OBVIOUS
<1>6. \A i \in 0..n : i \in Good
  <2> HIDE DEF Good, n
  <2> QED
    BY <1>3, <1>4, <1>5, Induction
<1>7. n \in 0..n
  BY <1>5
<1> QED
  BY <1>1, <1>6, <1>7

\* The names tried for a host.
LEMMA NamesTried ==
    ASSUME NEW h
    PROVE  /\ Len(CandidateNames(h)) \in Nat
           /\ DOMAIN CandidateNames(h) = 1..Len(CandidateNames(h))
           /\ \A g : g \in Range(CandidateNames(h)) <=>
                  \E i \in 1..4 : \E j \in 1..3 :
                      g = Name(HostPrefixes[i], Max({1, NumericSuffix(h) + Offsets[j]}))
<1>1. PICK N : N = [i \in 1..4 |-> [j \in 1..3 |->
                       Name(HostPrefixes[i], Max({1, NumericSuffix(h) + Offsets[j]}))]]
  OBVIOUS
<1>2. DOMAIN HostPrefixes = 1..4 /\ DOMAIN Offsets = 1..3
  BY DEF HostPrefixes, Offsets
<1>3. CandidateNames(h) = FlattenSeq(N)
  BY <1>1, <1>2 DEF CandidateNames
<1>4. DOMAIN N = 1..4 /\ N = [i \in 1..4 |-> N[i]] /\ 4 \in Nat
  BY <1>1
<1>5. ASSUME NEW i \in 1..4
      PROVE  N[i] = [j \in 1..3 |-> N[i][j]] /\ DOMAIN N[i] = 1..3
  BY <1>1
<1>6. ASSUME NEW i \in 1..4 PROVE N[i] \in Seq(Range(N[i]))
  <2>1. N[i] \in [1..3 -> Range(N[i])]
    BY <1>5 DEF Range
  <2>2. PICK s, R : s = N[i] /\ R = Range(N[i])
    OBVIOUS
  <2>3. PICK n \in Nat : n = 3
    OBVIOUS
  <2>4. s \in [1..n -> R]
    BY <2>1, <2>2, <2>3
  <2>5. s \in Seq(R)
    BY <2>4
  <2> QED
    BY <2>2, <2>5
<1>7. Range(FlattenSeq(N)) = UNION {Range(N[i]) : i \in 1..4}
  BY <1>4, <1>6, FlattenElements
<1>8. PICK S : S = UNION {Range(N[i]) : i \in 1..4}
  OBVIOUS
<1>9. FlattenSeq(N) \in Seq(S)
  <2>1. N \in Seq(Seq(S))
    <3>1. \A i \in 1..4 : N[i] \in Seq(S)
      BY <1>6, <1>8
    <3> QED
      BY <1>4, <3>1
  <2> QED
    BY <2>1, FlattenFacts
<1>10. \A g : g \in S <=>
           \E i \in 1..4 : \E j \in 1..3 :
               g = Name(HostPrefixes[i], Max({1, NumericSuffix(h) + Offsets[j]}))
  <2>1. \A i \in 1..4 : \A j \in 1..3 :
            N[i][j] = Name(HostPrefixes[i], Max({1, NumericSuffix(h) + Offsets[j]}))
    BY <1>1
  <2>2. \A i \in 1..4 : Range(N[i]) = {N[i][j] : j \in 1..3}
    BY <1>5 DEF Range
  <2> QED
    BY <1>8, <2>1, <2>2
<1>11. PICK u : u = CandidateNames(h)
  OBVIOUS
<1>12. u \in Seq(S) /\ Range(u) = S
  BY <1>3, <1>7, <1>8, <1>9, <1>11
<1>13. Len(u) \in Nat /\ DOMAIN u = 1..Len(u)
  BY <1>12
<1> QED
  BY <1>10, <1>11, <1>12, <1>13, Zenon

\* The names tried for a host are those adjacent to it that are written the usual
\* way and numbered from 1.
LEMMA NamesAdjacent ==
    ASSUME NEW h \in Hostname, NEW g \in Hostname
    PROVE  /\ g \in Range(CandidateNames(h)) => Adjacent(h, g)
           /\ Adjacent(h, g) /\ g = Name(g.prefix, g.number) /\ g.number >= 1
                  => g \in Range(CandidateNames(h))
<1>1. PICK k \in Nat : k = NumericSuffix(h)
  BY DEF NumericSuffix, Hostname, NoNumber
<1>2. DOMAIN HostPrefixes = 1..4 /\ Offsets[1] = 0 /\ Offsets[2] = 1 /\ Offsets[3] = -1
  BY DEF HostPrefixes, Offsets
<1>3. /\ Max({1, k + 0}) = IF k = 0 THEN 1 ELSE k
      /\ Max({1, k + 1}) = k + 1
      /\ Max({1, k + -1}) = IF k \in {0, 1} THEN 1 ELSE k - 1
  <2>1. k + 0 \in Int /\ k + 1 \in Int /\ k + -1 \in Int /\ 1 \in Int
    OBVIOUS
  <2>2. /\ Max({1, k + 0}) = IF 1 >= k + 0 THEN 1 ELSE k + 0
        /\ Max({1, k + 1}) = IF 1 >= k + 1 THEN 1 ELSE k + 1
        /\ Max({1, k + -1}) = IF 1 >= k + -1 THEN 1 ELSE k + -1
    BY <2>1, PairFacts
  <2> QED
    BY <1>1, <2>2
<1>4. ASSUME g \in Range(CandidateNames(h)) PROVE Adjacent(h, g)
  <2>1. PICK i \in 1..4, j \in 1..3 :
            g = Name(HostPrefixes[i], Max({1, NumericSuffix(h) + Offsets[j]}))
    BY <1>4, NamesTried
  <2>2. g.prefix = HostPrefixes[i]
    BY <2>1 DEF Name
  <2>3. g.number = Max({1, k + Offsets[j]})
    BY <1>1, <2>1 DEF Name
  <2>4. \/ g.number = k /\ k >= 1
        \/ g.number = k + 1
        \/ g.number = k - 1 /\ k >= 2
    <3>1. CASE j = 1
      BY <1>2, <1>3, <2>3, <3>1
    <3>2. CASE j = 2
      BY <1>2, <1>3, <2>3, <3>2
    <3>3. CASE j = 3
      BY <1>2, <1>3, <2>3, <3>3
    <3> QED
      BY <3>1, <3>2, <3>3
  <2>5. g.number \in Int /\ g.number >= 1 /\ k - g.number \in {-1, 0, 1}
    BY <2>4
  <2>7. NumericSuffix(g) = g.number
    BY <2>5 DEF NumericSuffix, NoNumber
  <2>6. g.prefix \in Range(HostPrefixes)
    BY <1>2, <2>2 DEF Range
  <2> QED
    BY <1>1, <2>5, <2>6, <2>7 DEF Adjacent
<1>5. ASSUME Adjacent(h, g), g = Name(g.prefix, g.number), g.number >= 1
      PROVE  g \in Range(CandidateNames(h))
  <2>1. PICK i \in 1..4 : g.prefix = HostPrefixes[i]
    BY <1>2, <1>5 DEF Adjacent, Range
  <2>2. g.number \in Nat /\ g.number >= 1 /\ k - g.number \in {-1, 0, 1}
    <3>1. g.number \in Nat
      BY <1>5 DEF Hostname, NoNumber
    <3>2. NumericSuffix(g) = g.number
      BY <1>5, <3>1 DEF NumericSuffix, NoNumber
    <3> QED
      BY <1>1, <1>5, <3>1, <3>2 DEF Adjacent
  <2>3. PICK j \in 1..3 : g.number = Max({1, k + Offsets[j]})
    <3>1. CASE k - g.number = 0
      <4>1. g.number = Max({1, k + Offsets[1]})
        BY <1>2, <1>3, <2>2, <3>1
      <4> QED
        BY <4>1
    <3>2. CASE k - g.number = -1
      <4>1. g.number = Max({1, k + Offsets[2]})
        BY <1>2, <1>3, <2>2, <3>2
      <4> QED
        BY <4>1
    <3>3. CASE k - g.number = 1
      <4>1. g.number = Max({1, k + Offsets[3]})
        BY <1>2, <1>3, <2>2, <3>3
      <4> QED
        BY <4>1
    <3> QED
      BY <2>2, <3>1, <3>2, <3>3
  <2>5. g = Name(HostPrefixes[i], Max({1, NumericSuffix(h) + Offsets[j]}))
    BY <1>1, <1>5, <2>1, <2>3
  <2> QED
    BY <2>5, NamesTried, Zenon
<1> QED
  BY <1>4, <1>5

\* A sequence of samples of different hosts has as many of them as hosts.
LEMMA DistinctHosts ==
    ASSUME NEW S, NEW u \in Seq(S), \A k, l \in 1..Len(u) : k # l => u[k].host # u[l].host
    PROVE  Len(u) = Cardinality(HostsIn(u))
<1> SUFFICES ASSUME NEW n \in Nat, n = Len(u) PROVE n = Cardinality(HostsIn(u))
  OBVIOUS
<1>1. PICK H : H = HostsIn(u)
  OBVIOUS
<1>2. PICK f : f = [k \in 1..n |-> u[k].host]
  OBVIOUS
<1>3. DOMAIN u = 1..n
  BY <1>1
<1>4. H = {f[k] : k \in 1..n}
  BY <1>1, <1>2, <1>3 DEF HostsIn
<1>5. f \in [1..n -> H]
  BY <1>2, <1>4
<1>6. \A k, l \in 1..n : f[k] = f[l] => k = l
  BY <1>1, <1>2
<1>7. f \in Bijection(1..n, H)
  <2>1. f \in Injection(1..n, H)
    BY <1>5, <1>6 DEF Injection, IsInjective
  <2>2. f \in Surjection(1..n, H)
    BY <1>4, <1>5 DEF Surjection
  <2> QED
    BY <2>1, <2>2 DEF Bijection
<1>8. IsFiniteSet(1..n) /\ Cardinality(1..n) = n
  <2>1. 1 \in Int /\ n \in Int
    OBVIOUS
  <2>2. IsFiniteSet(1..n) /\ Cardinality(1..n) = IF 1 > n THEN 0 ELSE n - 1 + 1
    BY <2>1, FS_Interval, Zenon
  <2> QED
    BY <2>2
<1>9. Cardinality(H) = Cardinality(1..n)
  <2>1. ExistsBijection(1..n, H)
    BY <1>7 DEF ExistsBijection
  <2> QED
    BY <1>8, <2>1, FS_Bijection
<1> QED
  BY <1>1, <1>8, <1>9

\* For every device, whatever the batch, the neighbours found are devices of the
\* batch within one of its number, each once and with the last of its samples, and
\* all of those that are written prefix-NN with a number from 1.
THEOREM AnalysisNeighboursAdjacent == ASSUME Typed PROVE Spec => []NeighboursAdjacent
<1>1. AnalysisInv => NeighboursAdjacent
  <2> SUFFICES ASSUME AnalysisInv, NEW i \in DOMAIN valid
               PROVE  LET d == valid[i]
                          n == ResolveNeighbors(d, valid)
                          adjacent == {g \in HostsIn(valid) \ {d.host} : Adjacent(d.host, g)}
                      IN  /\ HostsIn(n) \subseteq adjacent
                          /\ \A g \in adjacent :
                                 g = Name(g.prefix, g.number) /\ g.number >= 1
                                     => g \in HostsIn(n)
                          /\ Len(n) = Cardinality(HostsIn(n))
                          /\ \A k \in DOMAIN n : n[k] = valid[ByHost(valid, n[k].host)]
    BY DEF NeighboursAdjacent
  <2>1. PICK v : v = valid /\ v \in Seq(ValidSamples)
    BY DEF AnalysisInv
  <2>2. PICK d : d = v[i]
    OBVIOUS
  <2>3. \A j \in DOMAIN v : v[j].host \in Hostname
    BY <2>1 DEF ValidSamples, Device
  <2>4. d.host \in Hostname
    BY <2>1, <2>2, <2>3
  <2>5. PICK names, n : names = CandidateNames(d.host) /\ n = ResolveNeighbors(d, v)
    OBVIOUS
  <2>6. Len(names) \in Nat /\ DOMAIN names = 1..Len(names)
    BY <2>5, NamesTried
  <2>7. n \in Seq(ValidSamples) /\ Resolved(Len(names), n, names, d, v)
    BY <2>1, <2>5, <2>6, ResolveFacts
  <2>8. PICK adjacent : adjacent = {g \in HostsIn(v) \ {d.host} : Adjacent(d.host, g)}
    OBVIOUS
  <2>9. \A g : g \in HostsIn(n) <=> g \in HostsIn(v) /\ g # d.host /\ g \in Range(names)
    BY <2>6, <2>7 DEF Resolved, Range
  <2>10. ASSUME NEW g \in HostsIn(v)
         PROVE  /\ g \in Range(names) => Adjacent(d.host, g)
                /\ Adjacent(d.host, g) /\ g = Name(g.prefix, g.number) /\ g.number >= 1
                       => g \in Range(names)
    <3>1. g \in Hostname
      BY <2>3 DEF HostsIn
    <3> QED
      BY <2>4, <2>5, <3>1, NamesAdjacent
  <2>11. HostsIn(n) \subseteq adjacent
    BY <2>8, <2>9, <2>10
  <2>12. \A g \in adjacent : g = Name(g.prefix, g.number) /\ g.number >= 1 => g \in HostsIn(n)
    BY <2>8, <2>9, <2>10
  <2>13. Len(n) = Cardinality(HostsIn(n))
    <3>1. \A k, l \in 1..Len(n) : k # l => n[k].host # n[l].host
      BY <2>7 DEF Resolved
    <3> QED
      BY <2>7, <3>1, DistinctHosts
  <2>14. \A k \in DOMAIN n : n[k] = v[ByHost(v, n[k].host)]
    <3>1. DOMAIN n = 1..Len(n)
      BY <2>7
    <3> QED
      BY <2>7, <3>1 DEF Resolved
  <2> QED
    BY <2>1, <2>2, <2>5, <2>8, <2>11, <2>12, <2>13, <2>14
<1> QED
  BY <1>1, AnalysisInvariant, PTL

-----------------------------------------------------------------------------

\* byHost holds the same sample of h for both batches, or none for either.
SameSample(A, B, h) ==
    \/ ByHost(A, h) = 0 /\ ByHost(B, h) = 0
    \/ /\ ByHost(A, h) # 0 /\ ByHost(B, h) # 0
       /\ A[ByHost(A, h)] = B[ByHost(B, h)]

\* The neighbours depend on the samples of the names tried and on nothing else.
LEMMA SameNeighbours ==
    ASSUME NEW S, NEW A \in Seq(S), NEW B \in Seq(S), NEW d, NEW names,
           Len(names) \in Nat, names = CandidateNames(d.host),
           \A i \in 1..Len(names) : SameSample(A, B, names[i])
    PROVE  ResolveNeighbors(d, A) = ResolveNeighbors(d, B)
<1>a. PICK f : LoopValues(f, S, names, d, A)
  BY ResolveLoop
<1>b. PICK g : LoopValues(g, S, names, d, B)
  BY ResolveLoop
<1>1. /\ ResolveNeighbors(d, A) = f[Len(names)]
      /\ f[0] = << >>
      /\ \A i \in 1..Len(names) : f[i] = TryName(f[i - 1], names[i], d, A)
  BY <1>a DEF LoopValues
<1>2. /\ ResolveNeighbors(d, B) = g[Len(names)]
      /\ g[0] = << >>
      /\ \A i \in 1..Len(names) : g[i] = TryName(g[i - 1], names[i], d, B)
  BY <1>b DEF LoopValues
<1> DEFINE n == Len(names)
           Good == {i \in 0..n : f[i] = g[i]}
<1>3. n \in Nat /\ 0 \in Good
  BY <1>1, <1>2
<1>4. ASSUME NEW i \in 1..n, i - 1 \in Good PROVE i \in Good
  <2>1. SameSample(A, B, names[i]) /\ f[i - 1] = g[i - 1] /\ i \in 0..n
    BY <1>3, <1>4
  <2>2. f[i] = TryName(f[i - 1], names[i], d, A) /\ g[i] = TryName(g[i - 1], names[i], d, B)
    BY <1>1, <1>2
  <2>3. TryName(f[i - 1], names[i], d, A) = TryName(g[i - 1], names[i], d, B)
    BY <2>1 DEF TryName, SameSample
  <2> QED
    BY <2>1, <2>2, <2>3
<1>5. \A i \in 0..n : i \in Good
  <2> HIDE DEF Good, n
  <2> QED
    BY <1>3, <1>4, Induction
<1>6. f[n] = g[n]
  BY <1>3, <1>5
<1> QED
  BY <1>1, <1>2, <1>6

\* A part of a batch that holds every sample of h in it, in their order, has the
\* same last sample of h.
LEMMA SampleOfPart ==
    ASSUME NEW S, NEW v \in Seq(S), NEW part \in Seq(S), NEW k \in Nat, NEW h,
           k + Len(part) <= Len(v),
           \A j \in 1..Len(part) : part[j] = v[k + j],
           \A j \in 1..Len(v) : v[j].host = h => j - k \in 1..Len(part)
    PROVE  SameSample(v, part, h)
<1>1. PICK a, b : a = ByHost(v, h) /\ b = ByHost(part, h)
  OBVIOUS
<1>2. \/ a = 0 /\ h \notin HostsIn(v)
      \/ /\ a \in 1..Len(v) /\ v[a].host = h /\ h \in HostsIn(v) /\ a # 0
         /\ \A j \in 1..Len(v) : v[j].host = h => j <= a
  BY <1>1, ByHostFacts
<1>3. \/ b = 0 /\ h \notin HostsIn(part)
      \/ /\ b \in 1..Len(part) /\ part[b].host = h /\ h \in HostsIn(part) /\ b # 0
         /\ \A j \in 1..Len(part) : part[j].host = h => j <= b
  BY <1>1, ByHostFacts
<1>4. Len(v) \in Nat /\ Len(part) \in Nat /\ DOMAIN v = 1..Len(v) /\ DOMAIN part = 1..Len(part)
  OBVIOUS
<1>5. CASE a = 0
  <2>1. b = 0
    <3> SUFFICES ASSUME b # 0 PROVE FALSE
      OBVIOUS
    <3>1. b \in 1..Len(part) /\ part[b].host = h
      BY <1>3
    <3>2. k + b \in 1..Len(v) /\ v[k + b].host = h
      BY <1>4, <3>1
    <3>3. h \in HostsIn(v)
      BY <1>4, <3>2 DEF HostsIn
    <3> QED
      BY <1>2, <1>5, <3>3
  <2> QED
    BY <1>1, <1>5, <2>1 DEF SameSample
<1>6. CASE a # 0
  <2>1. a \in 1..Len(v) /\ v[a].host = h /\ \A j \in 1..Len(v) : v[j].host = h => j <= a
    BY <1>2, <1>6
  <2>2. PICK c \in 1..Len(part) : c = a - k
    BY <2>1
  <2>3. a = k + c /\ part[c] = v[a]
    BY <2>1, <2>2
  <2>4. b \in 1..Len(part) /\ part[b].host = h /\ b # 0 /\ c <= b
    <3>1. part[c].host = h
      BY <2>1, <2>3
    <3>2. h \in HostsIn(part)
      BY <1>4, <3>1 DEF HostsIn
    <3> QED
      BY <1>3, <3>1, <3>2
  <2>5. k + b \in 1..Len(v) /\ v[k + b].host = h
    BY <1>4, <2>4
  <2>6. k + b <= a
    BY <2>1, <2>5
  <2>7. b = c
    BY <2>3, <2>4, <2>6
  <2> QED
    BY <1>1, <1>6, <2>3, <2>4, <2>7 DEF SameSample
<1> QED
  BY <1>5, <1>6

\* The verdict on a device depends on the batch only through its neighbours.
LEMMA SameCandidates ==
    ASSUME NEW d, NEW A, NEW B, ResolveNeighbors(d, A) = ResolveNeighbors(d, B)
    PROVE  CandidatesFor(d, A) = CandidatesFor(d, B)
BY DEF CandidatesFor

\* A device gets the same verdict in a part of the batch as in the whole, if no
\* device outside the part is a neighbour of it.
LEMMA VerdictInPart ==
    ASSUME NEW v \in Seq(ValidSamples), NEW part \in Seq(ValidSamples), NEW k \in Nat,
           NEW d \in ValidSamples,
           k + Len(part) <= Len(v),
           \A j \in 1..Len(part) : part[j] = v[k + j],
           \A j \in 1..Len(v) : Adjacent(d.host, v[j].host) => j - k \in 1..Len(part)
    PROVE  CandidatesFor(d, v) = CandidatesFor(d, part)
<1>1. PICK names : names = CandidateNames(d.host)
  OBVIOUS
<1>2. Len(names) \in Nat /\ DOMAIN names = 1..Len(names)
  BY <1>1, NamesTried
<1>3. ASSUME NEW i \in 1..Len(names) PROVE SameSample(v, part, names[i])
  <2>1. PICK h : h = names[i] /\ h \in Range(CandidateNames(d.host))
    BY <1>1, <1>2 DEF Range
  <2>2. ASSUME NEW j \in 1..Len(v), v[j].host = h PROVE j - k \in 1..Len(part)
    <3>0. v[j] \in ValidSamples
      OBVIOUS
    <3>1. d.host \in Hostname /\ v[j].host \in Hostname
      BY <3>0 DEF ValidSamples, Device
    <3>2. Adjacent(d.host, v[j].host)
      BY <2>1, <2>2, <3>1, NamesAdjacent
    <3> QED
      BY <3>2
  <2>3. SameSample(v, part, h)
    BY <2>2, SampleOfPart
  <2> QED
    BY <2>1, <2>3
<1>4. ResolveNeighbors(d, v) = ResolveNeighbors(d, part)
  BY <1>1, <1>2, <1>3, SameNeighbours
<1> QED
  BY <1>4, SameCandidates

\* A batch of any devices may be cut between devices that are no neighbours, and
\* Correlate finds the same incidents in the two parts as in the whole.
THEOREM AnalysisBatchesCutBetweenStrangers ==
    ASSUME Typed PROVE Spec => []BatchesCutBetweenStrangers
<1>1. AnalysisInv => BatchesCutBetweenStrangers
  <2> SUFFICES ASSUME AnalysisInv, NEW k \in 0..Len(valid),
                      \A h \in HostsIn(SubSeq(valid, 1, k)) :
                      \A g \in HostsIn(SubSeq(valid, k + 1, Len(valid))) :
                          ~Adjacent(h, g) /\ ~Adjacent(g, h)
               PROVE  Range(candidates) =
                          Range(Correlate(SubSeq(valid, 1, k)))
                              \cup Range(Correlate(SubSeq(valid, k + 1, Len(valid))))
    BY DEF BatchesCutBetweenStrangers
  <2>1. PICK v : v = valid /\ v \in Seq(ValidSamples)
    BY DEF AnalysisInv
  <2>2. PICK front, rear : front = SubSeq(v, 1, k) /\ rear = SubSeq(v, k + 1, Len(v))
    OBVIOUS
  <2>3. k \in Nat /\ k <= Len(v) /\ Len(v) \in Nat /\ DOMAIN v = 1..Len(v)
    BY <2>1
  <2>4. /\ front \in Seq(ValidSamples) /\ Len(front) = k /\ DOMAIN front = 1..k
        /\ \A j \in 1..k : front[j] = v[j]
    BY <2>1, <2>2, <2>3
  <2>5. /\ rear \in Seq(ValidSamples) /\ Len(rear) = Len(v) - k
        /\ DOMAIN rear = 1..(Len(v) - k)
        /\ \A j \in 1..(Len(v) - k) : rear[j] = v[k + j]
    <3>0. Len(v) - k \in Nat
      BY <2>3
    <3>1. PICK n \in Nat : n = Len(v) - k
      BY <3>0
    <3>2. PICK g : g = [j \in 1..n |-> v[k + j]]
      OBVIOUS
    <3>3. rear = g
      <4>1. rear = [j \in 1..(Len(v) - (k + 1) + 1) |-> v[(k + 1) + j - 1]]
        BY <2>2 DEF SubSeq
      <4>2. Len(v) - (k + 1) + 1 = n
        BY <2>3, <3>1
      <4>3. \A j \in 1..n : (k + 1) + j - 1 = k + j
        BY <2>3, <3>1
      <4> QED
        BY <3>2, <4>1, <4>2, <4>3
    <3>4. \A j \in 1..n : k + j \in 1..Len(v)
      BY <2>3, <3>1
    <3>5. g \in Seq(ValidSamples) /\ Len(g) = n /\ DOMAIN g = 1..n
      BY <2>1, <3>2, <3>4
    <3> QED
      BY <3>1, <3>2, <3>3, <3>5
  <2>6. \A i \in 1..k : \A j \in 1..(Len(v) - k) :
            ~Adjacent(v[i].host, v[k + j].host) /\ ~Adjacent(v[k + j].host, v[i].host)
    <3>1. \A i \in 1..k : v[i].host \in HostsIn(front)
      BY <2>4 DEF HostsIn
    <3>2. \A j \in 1..(Len(v) - k) : v[k + j].host \in HostsIn(rear)
      BY <2>5 DEF HostsIn
    <3> QED
      BY <2>1, <2>2, <3>1, <3>2
  <2>7. ASSUME NEW i \in 1..k PROVE CandidatesFor(v[i], v) = CandidatesFor(front[i], front)
    <3>1. v[i] \in ValidSamples /\ front[i] = v[i]
      BY <2>1, <2>3, <2>4
    <3>2. ASSUME NEW j \in 1..Len(v), Adjacent(v[i].host, v[j].host)
          PROVE  j - 0 \in 1..Len(front)
      <4>1. j \in 1..k \/ (j - k \in 1..(Len(v) - k) /\ j = k + (j - k))
        BY <2>3
      <4> QED
        BY <2>4, <2>6, <3>2, <4>1
    <3>3. /\ 0 + Len(front) <= Len(v) /\ 0 \in Nat
          /\ \A j \in 1..Len(front) : front[j] = v[0 + j]
      BY <2>3, <2>4
    <3>4. CandidatesFor(v[i], v) = CandidatesFor(v[i], front)
      BY <2>1, <2>4, <3>1, <3>2, <3>3, VerdictInPart
    <3> QED
      BY <3>1, <3>4
  <2>8. ASSUME NEW i \in 1..(Len(v) - k)
        PROVE  CandidatesFor(v[k + i], v) = CandidatesFor(rear[i], rear)
    <3>1. v[k + i] \in ValidSamples /\ rear[i] = v[k + i]
      BY <2>1, <2>3, <2>5
    <3>2. ASSUME NEW j \in 1..Len(v), Adjacent(v[k + i].host, v[j].host)
          PROVE  j - k \in 1..Len(rear)
      <4>1. j \in 1..k \/ j - k \in 1..(Len(v) - k)
        BY <2>3
      <4> QED
        BY <2>5, <2>6, <3>2, <4>1
    <3>3. /\ k + Len(rear) <= Len(v)
          /\ \A j \in 1..Len(rear) : rear[j] = v[k + j]
      BY <2>3, <2>5
    <3>4. PICK d : d = v[k + i] /\ d \in ValidSamples
      BY <3>1
    <3>5. \A j \in 1..Len(v) : Adjacent(d.host, v[j].host) => j - k \in 1..Len(rear)
      BY <3>2, <3>4
    <3>6. CandidatesFor(d, v) = CandidatesFor(d, rear)
      BY <2>1, <2>3, <2>5, <3>3, <3>4, <3>5, VerdictInPart
    <3> QED
      BY <3>1, <3>4, <3>6
  <2>9. /\ Range(Correlate(v)) = UNION {Range(CandidatesFor(v[i], v)) : i \in 1..Len(v)}
        /\ Range(Correlate(front)) =
               UNION {Range(CandidatesFor(front[i], front)) : i \in 1..k}
        /\ Range(Correlate(rear)) =
               UNION {Range(CandidatesFor(rear[i], rear)) : i \in 1..(Len(v) - k)}
    BY <2>1, <2>3, <2>4, <2>5, CorrelateFacts
  <2>10. ASSUME NEW c
         PROVE  c \in Range(Correlate(v)) <=>
                    c \in Range(Correlate(front)) \/ c \in Range(Correlate(rear))
    <3>1. c \in Range(Correlate(v)) <=>
              \E i \in 1..Len(v) : c \in Range(CandidatesFor(v[i], v))
      BY <2>9
    <3>2. c \in Range(Correlate(front)) <=>
              \E i \in 1..k : c \in Range(CandidatesFor(v[i], v))
      BY <2>7, <2>9
    <3>3. c \in Range(Correlate(rear)) <=>
              \E i \in 1..(Len(v) - k) : c \in Range(CandidatesFor(v[k + i], v))
      BY <2>8, <2>9
    <3>4. \A i \in 1..Len(v) : i \in 1..k \/ (i - k \in 1..(Len(v) - k) /\ i = k + (i - k))
      BY <2>3
    <3>5. (\A i \in 1..k : i \in 1..Len(v)) /\ \A i \in 1..(Len(v) - k) : k + i \in 1..Len(v)
      BY <2>3
    <3> QED
      BY <3>1, <3>2, <3>3, <3>4, <3>5
  <2>11. Range(Correlate(v)) = Range(Correlate(front)) \cup Range(Correlate(rear))
    BY <2>10
  <2> QED
    BY <2>1, <2>2, <2>11 DEF AnalysisInv
<1> QED
  BY <1>1, AnalysisInvariant, PTL

=============================================================================
