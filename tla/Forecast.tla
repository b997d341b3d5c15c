------------------------------- MODULE Forecast ------------------------------
(***************************************************************************)
(* internal/forecast/forecast.go: the linear extrapolation of one device's *)
(* recent samples.  A slope is a quotient, so the readings of a point are  *)
(* kept as numerators, in tenths, over the common denominator per.  The    *)
(* confidence of a forecast, a function of the number of samples, is left  *)
(* out.                                                                    *)
(***************************************************************************)
EXTENDS Devices, FiniteSetsExt

CONSTANT ForecastWindow     \* samples looked at; 18 in the code

ASSUME ForecastConstants == ForecastWindow \in Nat \ {0}

Steps == 1..6

\* Mutant of Recent: the oldest samples instead of the newest.
Oldest(history) == SubSeq(history, 1, Min({Len(history), ForecastWindow}))

\* The last ForecastWindow samples.
Recent(history) ==
    SubSeq(history, Max({1, Len(history) - ForecastWindow + 1}), Len(history))

\* The denominator of the slope over the samples s; 1 where there is no slope.
Per(s) == Max({1, Len(s) - 1})

\* The reading field, so many steps after the last sample of s.
Project(s, field, steps) ==
    LET last == s[Len(s)][field]
    IN  last * Per(s) + (last - s[1][field]) * steps

Clamp(v, lo, hi) == Min({Max({v, lo}), hi})

PointAt(s, steps) ==
    [cpu     |-> Clamp(Project(s, "cpu", steps), 0, 1000 * Per(s)),
     latency |-> Max({0, Project(s, "latency", steps)}),
     loss    |-> Max({0, Project(s, "loss", steps)}),
     per     |-> Per(s)]

\* The levels in ascending order.
RiskLevels == <<"low", "medium", "high", "critical">>

\* riskFromScore, as an index of RiskLevels; the score is in thousandths.
RiskFromScore(score, per) ==
    CASE score > 90000 * per -> 4
      [] score > 72000 * per /\ score <= 90000 * per -> 3
      [] score > 54000 * per /\ score <= 72000 * per -> 2
      [] score <= 54000 * per -> 1

RiskAt(point) ==
    RiskFromScore(40 * point.cpu + 25 * point.latency + 800 * point.loss, point.per)

Pending == [prefix |-> "pending", number |-> NoNumber, padded |-> FALSE]

EmptyResult ==
    [device |-> Pending, risk |-> 1,
     points |-> [i \in Steps |-> [cpu |-> 0, latency |-> 0, loss |-> 0, per |-> 1]]]

Build(device, history) ==
    LET s == Recent(history)
        points == [i \in Steps |-> PointAt(s, i)]
    IN  IF history = << >> THEN EmptyResult
        ELSE [device |-> device, risk |-> RiskAt(points[6]), points |-> points]

=============================================================================
