-------------------------- MODULE MCTelemetryStore ---------------------------
(* Batches for TelemetryStore: h1 breaches two checks, h2 none.              *)
EXTENDS TelemetryStore

CONSTANTS h1, h2

Reading(h, age, valid) ==
    [host |-> h, age |-> age, valid |-> valid,
     breaches |-> IF h = h1 THEN <<"cpu_saturation", "high_latency">> ELSE << >>]

\* Fresh samples of both hosts, a late one, one stamped ahead of the clock, and one
\* that Validate rejects.
MixedShapes == {<<Reading(h1, 0, TRUE), Reading(h2, 0, TRUE)>>,
                <<Reading(h1, 1, TRUE)>>,
                <<Reading(h2, -1, TRUE)>>,
                <<Reading(h2, 0, FALSE)>>}

\* Samples as the simulator sends them: stamped when they are sent.
FreshShapes == {<<Reading(h1, 0, TRUE)>>, <<Reading(h2, 0, TRUE), Reading(h1, 0, TRUE)>>}

=============================================================================
