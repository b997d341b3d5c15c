-------------------------- MODULE MCIncidentService --------------------------
(* Bounds for IncidentService: two faults of different severity.            *)
EXTENDS IncidentService

CONSTANTS k1, k2

MCDigest(key, seq, now) == <<key, now>>

MCTimes == 0..(MaxOccurrences + MaxDecisions)

\* One fault or both.
MCBatches == {<<k1>>, <<k1, k2>>}

\* Both faults in every batch, so that the workers meet on two keys.
BothFaults == {<<k1, k2>>}

MCSeverityOf == [k \in Keys |-> IF k = k1 THEN "critical" ELSE "high"]

=============================================================================
