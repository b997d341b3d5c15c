-------------------------------- MODULE Config -------------------------------
(***************************************************************************)
(* internal/config/config.go: the configuration that Load makes of the     *)
(* environment.  A variable is << >> when it is unset or empty, which the  *)
(* code treats alike, and <<v>> when it is set to v.  Of the list of       *)
(* origins, the set that is left after trimming is kept; of the log level, *)
(* the word in lower case.  Hours that do not parse are rejected together  *)
(* with 0, and stand as 0; a ratio that does not parse stands as 101.      *)
(* Paths, addresses and the settings of the language model are taken as    *)
(* they are.                                                               *)
(***************************************************************************)
EXTENDS Integers, Sequences

CONSTANTS
    WordSize,               \* bits of a time.Duration; 64 in the code
    Hour,                   \* time.Hour, in the units of a time.Duration
    Environments            \* the environments a process may be started in

VARIABLE config             \* what Load returned: << >> before, NoConfig for an error

EnvironmentModes == {"trial", "nvml-mock", "real-gpu"}

LogLevels == {"debug", "info", "warn", "error"}

\* The values load starts from; the ratio is in percent.
Defaults == [mode |-> "trial", hours |-> 24, ratio |-> 20, level |-> "info",
             origins |-> {"http://localhost:5173", "http://localhost:8080"}]

NoConfig == [failed |-> TRUE]

\* ParseFloat reads "NaN" as a number, which is neither below 0 nor above 1.
NaN == -1

\* A variable that is set passes its check.
WellFormed(env) ==
    /\ env.mode # << >> => env.mode[1] \in EnvironmentModes
    /\ env.hours # << >> => env.hours[1] > 0
    /\ env.origins # << >> => env.origins[1] # {}
    /\ env.ratio # << >> => env.ratio[1] \in 0..100 \cup {NaN}
    /\ env.level # << >> => env.level[1] \in LogLevels

Load(env) ==
    /\ config = << >>
    /\ config' = IF WellFormed(env)
                 THEN [v \in DOMAIN Defaults |->
                          IF env[v] = << >> THEN Defaults[v] ELSE env[v][1]]
                 ELSE NoConfig

\* A product as a signed word of WordSize bits holds it.
Wrap(n) == ((n + 2^(WordSize - 1)) % 2^WordSize) - 2^(WordSize - 1)

RetentionDuration(c) == Wrap(c.hours * Hour)

Init == config = << >>

Next == \E env \in Environments : Load(env)

Spec == Init /\ [][Next]_config

-----------------------------------------------------------------------------

\* "RetentionDuration returns the configured telemetry retention window": the
\* window that Prune and restore work with is as long as the hours configured.
RetentionIsConfigured ==
    config \notin {<< >>, NoConfig} => RetentionDuration(config) = config.hours * Hour

=============================================================================
