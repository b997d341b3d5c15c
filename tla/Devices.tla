------------------------------- MODULE Devices -------------------------------
(***************************************************************************)
(* internal/telemetry/model.go: a device sample and its validation, and    *)
(* the batches cmd/vyomm-simulator generates.                              *)
(*                                                                         *)
(* Readings are in tenths of their unit, since thresholds have one decimal *)
(* place.  Of a hostname, what the code looks at is kept: its letters, the *)
(* number its digits make up (NoNumber without digits), and if it is       *)
(* written the way Sprintf("%s-%02d") writes it.                           *)
(***************************************************************************)
EXTENDS Integers, Sequences

NoNumber == -1

\* Sprintf("%s-%02d", prefix, n).
Name(prefix, n) == [prefix |-> prefix, number |-> n, padded |-> TRUE]

Hostname == [prefix : STRING, number : Nat \cup {NoNumber}, padded : BOOLEAN]

\* A sample as it comes in, before it is validated.
Device == [host : Hostname, role : STRING, status : STRING,
           cpu : Int, memory : Int, bandwidth : Int, temperature : Int,
           latency : Int, loss : Int]

Roles == {"router", "switch", "firewall", "gateway"}

HealthStatuses == {"healthy", "warning", "critical"}

\* The ranges Validate asks for.  The temperature may be anything.
InRange(d) ==
    /\ d.cpu \in 0..1000 /\ d.memory \in 0..1000 /\ d.bandwidth \in 0..1000
    /\ d.loss >= 0 /\ d.latency >= 0

\* A hostname and observed_at are there in every sample considered here.
Validate(d) == d.role \in Roles /\ d.status \in HealthStatuses /\ InRange(d)

\* The device every scenario starts from; the seed chooses its CPU load.
Base(cpu) ==
    [host |-> Name("rtr", 1), role |-> "router", cpu |-> cpu, memory |-> 400,
     bandwidth |-> 200, temperature |-> 500, latency |-> 150, loss |-> 1,
     status |-> "healthy"]

Scenarios == {"cpu-saturation", "memory-pressure", "high-latency", "packet-loss",
              "healthy-baseline"}

\* Generate for each of its scenarios.
Generate(scenario, cpu) ==
    LET base == Base(cpu) IN
    << CASE scenario = "cpu-saturation"   -> [base EXCEPT !.cpu = 980]
         [] scenario = "memory-pressure"  -> [base EXCEPT !.memory = 950, !.cpu = 850]
         [] scenario = "high-latency"     -> [base EXCEPT !.latency = 900]
         [] scenario = "packet-loss"      -> [base EXCEPT !.loss = 85, !.latency = 1300]
         [] scenario = "healthy-baseline" -> base >>

=============================================================================
