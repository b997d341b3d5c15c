----------------------------- MODULE MCAnalysis ------------------------------
(* Batches for Analysis: one device with readings just above and well below   *)
(* every threshold, alone or with neighbours; every set of ten healthy         *)
(* devices; the simulator's scenarios; and series of one device.               *)
EXTENDS Analysis

PrefixOf(role) ==
    CASE role = "router" -> "rtr" [] role = "switch" -> "sw"
      [] role = "firewall" -> "fw" [] role = "gateway" -> "gw"

Focus == [host : {Name(PrefixOf(r), 2) : r \in Roles}, role : Roles,
          cpu : {400, 801, 901, 951}, memory : {400, 941}, bandwidth : {200, 921},
          temperature : {500, 841}, latency : {150, 901, 1001, 1201, 1401},
          loss : {1, 41, 51, 71}, status : {"healthy"}]

Healthy(host) == [Base(400) EXCEPT !.host = host]

Busy(host) == [Base(400) EXCEPT !.host = host, !.latency = 1001, !.loss = 51]

Neighbourhoods == { << >>, <<Healthy(Name("rtr", 3))>>, <<Healthy(Name("gw", 4))>>,
                    <<Busy(Name("sw", 1)), Healthy(Name("sw", 1))>>,
                    <<Healthy(Name("rtr", 3)), Busy(Name("gw", 1))>> }

FocusBatches ==
    {<<d>> \o n : d \in {f \in Focus : f.host.prefix = PrefixOf(f.role)}, n \in Neighbourhoods}

Unpadded == [Name("rtr", 2) EXCEPT !.padded = FALSE]

Unnumbered == [prefix |-> "gateway", number |-> NoNumber, padded |-> FALSE]

Sites == << Name("rtr", 0), Name("rtr", 1), Name("rtr", 2), Name("sw", 1), Name("sw", 2),
            Name("fw", 3), Name("gw", 2), Name("edge", 2), Unpadded, Unnumbered >>

TopologyBatches ==
    { LET s == SelectSeq(Sites, LAMBDA h : h \in hosts)
      IN  [i \in DOMAIN s |-> Healthy(s[i])] : hosts \in SUBSET Range(Sites) }

ScenarioBatches ==
    {Generate(s, cpu) : s \in Scenarios, cpu \in {400, 490}}

RejectedBatches ==
    { <<[Base(400) EXCEPT !.loss = -1], Healthy(Name("sw", 1))>>,
      <<[Base(400) EXCEPT !.role = "hub"]>>, <<[Base(400) EXCEPT !.cpu = 1001]>> }

Monitored == Name("rtr", 7)

Series == { <<[Base(cpu) EXCEPT !.host = Monitored, !.latency = l, !.loss = 1]>> :
               cpu \in {100, 990}, l \in {100, 1800, 3000} }

\* One batch of any kind, or a series of samples of the monitored device.
MCBatchesAfter(h) ==
    IF h = << >>
    THEN FocusBatches \cup TopologyBatches \cup ScenarioBatches \cup RejectedBatches
             \cup Series
    ELSE IF DOMAIN h = {Monitored} THEN Series ELSE {}

=============================================================================
