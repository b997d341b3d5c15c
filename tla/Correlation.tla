----------------------------- MODULE Correlation -----------------------------
(***************************************************************************)
(* internal/incidents/incidents.go: which faults the devices of one batch  *)
(* show.  Left out of a candidate: its confidence, and the recommended     *)
(* action and the minutes to the breach of the SLA, fixed for each rule.   *)
(***************************************************************************)
EXTENDS Devices, SequencesExt, FiniteSetsExt

\* The highest reading among the neighbours; the device's own counts only when
\* it has no neighbour in the batch.
MaxReading(neighbors, field, fallback) ==
    IF neighbors = << >> THEN fallback
    ELSE Max({neighbors[i][field] : i \in DOMAIN neighbors})

Congested(d, n) ==
    /\ d.role = "router" /\ d.cpu > 950
    /\ MaxReading(n, "latency", d.latency) > 1000
    /\ MaxReading(n, "loss", d.loss) > 50

FirewallSaturated(d) ==
    d.role = "firewall" /\ (d.cpu > 900 \/ d.bandwidth > 920) /\ d.latency > 900

MemoryLeaking(d) == d.memory > 940 /\ d.cpu > 800

LosingPackets(d) == d.loss > 70 /\ d.latency > 1200

Overheating(d) == d.temperature > 840 /\ d.role = "switch"

EdgeUnstable(d) == d.role = "gateway" /\ d.latency > 1400 /\ d.loss > 40

\* The rules in their order, each with its severity and its verdict on d.
Rules(d, n) == <<
    [cause |-> "Congestion Incident",     severity |-> "critical", match |-> Congested(d, n)],
    [cause |-> "Firewall Saturation",     severity |-> "high",     match |-> FirewallSaturated(d)],
    [cause |-> "Memory Leak",             severity |-> "high",     match |-> MemoryLeaking(d)],
    [cause |-> "Packet Loss Degradation", severity |-> "high",     match |-> LosingPackets(d)],
    [cause |-> "Switch Overheating",      severity |-> "high",     match |-> Overheating(d)],
    [cause |-> "BGP Edge Instability",    severity |-> "critical", match |-> EdgeUnstable(d)] >>

NumericSuffix(host) == IF host.number = NoNumber THEN 1 ELSE host.number

HostPrefixes == <<"rtr", "sw", "fw", "gw">>

Offsets == <<0, 1, -1>>

\* Mutant of CandidateNames: the neighbour below is left out.
NamesAtOrAbove(host) ==
    LET At(prefix) == [i \in 1..2 |->
                          Name(prefix, Max({1, NumericSuffix(host) + Offsets[i]}))]
    IN  FlattenSeq([i \in DOMAIN HostPrefixes |-> At(HostPrefixes[i])])

\* Mutant of CandidateNames: the second neighbour above is tried as well.
NamesUpToTwoAbove(host) ==
    LET At(prefix) == [i \in 1..4 |->
                          Name(prefix, Max({1, NumericSuffix(host) + <<0, 1, -1, 2>>[i]}))]
    IN  FlattenSeq([i \in DOMAIN HostPrefixes |-> At(HostPrefixes[i])])

\* The names resolveNeighbors tries, in its order; numbers below 1 become 1.
CandidateNames(host) ==
    LET At(prefix) == [i \in DOMAIN Offsets |->
                          Name(prefix, Max({1, NumericSuffix(host) + Offsets[i]}))]
    IN  FlattenSeq([i \in DOMAIN HostPrefixes |-> At(HostPrefixes[i])])

\* byHost: the last sample of a host in the batch.
ByHost(devices, host) == SelectLastInSeq(devices, LAMBDA d : d.host = host)

\* One name tried: its sample is a neighbour's, unless the name has been seen.
TryName(out, name, d, devices) ==
    IF name = d.host \/ name \in {out[i].host : i \in DOMAIN out} \/ ByHost(devices, name) = 0
    THEN out
    ELSE Append(out, devices[ByHost(devices, name)])

\* The samples of the names tried that are in the batch, each once and not d's.
ResolveNeighbors(d, devices) ==
    LET names == CandidateNames(d.host)
        out[k \in 0..Len(names)] ==
            IF k = 0 THEN << >> ELSE TryName(out[k - 1], names[k], d, devices)
    IN  out[Len(names)]

\* The candidate for one device: the first rule that matches.  The neighbours are
\* distinct and d is none of them, so dedupe finds nothing to remove.
CandidatesFor(d, devices) ==
    LET n == ResolveNeighbors(d, devices)
        rules == Rules(d, n)
        first == SelectInSeq(rules, LAMBDA r : r.match)
        affected == <<d.host>> \o [i \in 1..Min({2, Len(n)}) |-> n[i].host]
    IN  IF first = 0 THEN << >>
        ELSE << [key |-> <<rules[first].cause, d.host>>,
                 severity |-> rules[first].severity,
                 affected |-> affected] >>

Correlate(devices) ==
    FlattenSeq([i \in DOMAIN devices |-> CandidatesFor(devices[i], devices)])

=============================================================================
