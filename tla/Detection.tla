------------------------------ MODULE Detection ------------------------------
(***************************************************************************)
(* internal/detection/anomaly.go: the threshold checks on one batch.  The  *)
(* IDs and their time buckets are in module TelemetryStore.                *)
(***************************************************************************)
EXTENDS Integers, Sequences, SequencesExt, Storage

\* The table of checks: signal, warning and critical threshold.
Checks == <<
    [signal |-> "cpu_saturation",  field |-> "cpu",         warning |-> 880, critical |-> 970],
    [signal |-> "memory_pressure", field |-> "memory",      warning |-> 860, critical |-> 960],
    [signal |-> "high_latency",    field |-> "latency",     warning |-> 850, critical |-> 1500],
    [signal |-> "packet_loss",     field |-> "loss",        warning |-> 35,  critical |-> 80],
    [signal |-> "thermal_drift",   field |-> "temperature", warning |-> 720, critical |-> 860] >>

\* Mutant of Breached: the critical threshold decides.
BreachedCritically(d, c) == d[c.field] >= c.critical

\* A breach starts at the warning threshold itself.
Breached(d, c) == d[c.field] >= c.warning

\* The score is the share of the critical threshold that is reached, at most 1.
Severity(v, c) ==
    CASE v >= c.critical            -> "critical"
      [] v < c.critical /\ 100 * v > 82 * c.critical  -> "high"
      [] 100 * v <= 82 * c.critical -> "medium"

\* The anomalies of one sample, in the order of the table.
DetectIn(d) ==
    LET breaches == Where(Checks, {c \in Range(Checks) : Breached(d, c)})
    IN  [i \in DOMAIN breaches |->
            [device |-> d.host, signal |-> breaches[i].signal,
             severity |-> Severity(d[breaches[i].field], breaches[i])]]

Detect(devices) == FlattenSeq([i \in DOMAIN devices |-> DetectIn(devices[i])])

=============================================================================
