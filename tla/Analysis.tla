------------------------------- MODULE Analysis ------------------------------
(***************************************************************************)
(* What POST /telemetry makes of a batch, and GET /forecast of the history *)
(* that batches build up: validation, detection, correlation and forecast  *)
(* together.  Each is a pure function; how their results are stored, with  *)
(* requests at once and failures, is in TelemetryStore and IncidentService.*)
(***************************************************************************)
EXTENDS Correlation, Detection, Forecast

CONSTANTS
    BatchesAfter(_),        \* the batches that may come after a history
    MaxSamples              \* bound: samples of one device

ASSUME AnalysisConstants == MaxSamples \in Nat

VARIABLES
    valid,                  \* the devices of the last batch that pass Validate
    anomalies,              \* what Detect found in them
    candidates,             \* what Correlate made of them
    history                 \* map: host -> samples

vars == <<valid, anomalies, candidates, history>>

HistoryOf(h) == IF h \in DOMAIN history THEN history[h] ELSE << >>

HostsIn(devices) == {devices[i].host : i \in DOMAIN devices}

Init == valid = << >> /\ anomalies = << >> /\ candidates = << >> /\ history = << >>

\* handleIngestTelemetry: the valid rows are kept, then looked at for anomalies
\* and, as a batch, for incidents.  A history is not cut to maxHistoryPerDevice: the
\* forecast looks at fewer samples than are kept.
Ingest(batch) ==
    /\ valid' = Where(batch, {d \in Range(batch) : Validate(d)})
    /\ history' = [h \in DOMAIN history \cup HostsIn(valid') |->
                      HistoryOf(h) \o Where(valid', {d \in Range(valid') : d.host = h})]
    /\ anomalies' = Detect(valid')
    /\ candidates' = Correlate(valid')

Next ==
    \E batch \in BatchesAfter(history) :
        /\ \A h \in HostsIn(batch) : Len(HistoryOf(h)) < MaxSamples
        /\ Ingest(batch)

Spec == Init /\ [][Next]_vars

-----------------------------------------------------------------------------

\* Correlation and detection read the same telemetry with thresholds of their own.
\* They agree: the device of every incident shows an anomaly in the same batch, and
\* that of a critical incident one that is more than medium.
IncidentsHaveAnomalies ==
    \A i \in DOMAIN candidates : \E j \in DOMAIN anomalies :
        /\ anomalies[j].device = candidates[i].key[2]
        /\ candidates[i].severity = "critical" => anomalies[j].severity # "medium"

\* h and g are neighbours by their names: "devices whose numeric suffix is within 1
\* of the target's", "across router/switch/firewall/gateway prefixes".
Adjacent(h, g) ==
    /\ g.prefix \in Range(HostPrefixes)
    /\ NumericSuffix(h) - NumericSuffix(g) \in {-1, 0, 1}

\* The names resolveNeighbors tries find nothing but neighbours, each once and with
\* its last sample in the batch, and of the neighbours every one that is written
\* prefix-NN and numbered from 1.  They miss the others, a device numbered 00 or
\* written rtr-2, though the comment quoted above counts these too.
NeighboursAdjacent ==
    \A i \in DOMAIN valid :
        LET d == valid[i]
            n == ResolveNeighbors(d, valid)
            adjacent == {g \in HostsIn(valid) \ {d.host} : Adjacent(d.host, g)}
        IN  /\ HostsIn(n) \subseteq adjacent
            /\ \A g \in adjacent :
                   g = Name(g.prefix, g.number) /\ g.number >= 1 => g \in HostsIn(n)
            /\ Len(n) = Cardinality(HostsIn(n))
            /\ \A k \in DOMAIN n : n[k] = valid[ByHost(valid, n[k].host)]

\* Which devices share a batch is up to the sender, and a router under full load is
\* judged by the others of its batch.  That matters between neighbours only: where
\* no device is a neighbour of one on the other side, the batch may be cut in two
\* and the same incidents are found.
BatchesCutBetweenStrangers ==
    \A k \in 0..Len(valid) :
        LET front == SubSeq(valid, 1, k)
            rear == SubSeq(valid, k + 1, Len(valid))
        IN  (\A h \in HostsIn(front), g \in HostsIn(rear) : ~Adjacent(h, g) /\ ~Adjacent(g, h))
                => Range(candidates) = Range(Correlate(front)) \cup Range(Correlate(rear))

\* The risk of the sample d itself.
RiskOf(d) == RiskAt([cpu |-> d.cpu, latency |-> d.latency, loss |-> d.loss, per |-> 1])

\* The forecast risk follows the trend: a device none of whose readings has fallen
\* over the last samples is forecast at its present risk or above, and one none of
\* whose readings has risen at its present risk or below.
RiskFollowsTrend ==
    \A h \in DOMAIN history :
        LET last == history[h][Len(history[h])]
            first == history[h][Max({1, Len(history[h]) - ForecastWindow + 1})]
            risk == Build(h, history[h]).risk
        IN  /\ (\A f \in {"cpu", "latency", "loss"} : last[f] >= first[f])
                   => risk >= RiskOf(last)
            /\ (\A f \in {"cpu", "latency", "loss"} : last[f] <= first[f])
                   => risk <= RiskOf(last)

=============================================================================
