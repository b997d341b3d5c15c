------------------------------ MODULE MCConfig -------------------------------
(* Durations of 12 bits with 36 units to the hour: the longest is 56 hours. *)
EXTENDS Config

SetOrNot(values) == {<< >>} \cup {<<v>> : v \in values}

MCEnvironments ==
    [mode : SetOrNot({"trial", "production"}), hours : SetOrNot({0, 1, 56, 57, 100}),
     origins : SetOrNot({{}, {"http://vyomm"}}), ratio : SetOrNot({0, 101, NaN}),
     level : SetOrNot({"warn", "loud"})]

=============================================================================
