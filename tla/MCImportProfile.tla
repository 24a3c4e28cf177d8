--------------------------- MODULE MCImportProfile ---------------------------
(* Instances of ImportProfile for TLC.                                       *)
EXTENDS ImportProfile, TLC

\* Configurations on both sides of the schema's and the limits' boundaries.
Delays(initial, max) ==
    [retryPolicy |-> [initialDelayMs |-> initial, maxDelayMs |-> max]]
InitialDelay(x) == [retryPolicy |-> [initialDelayMs |-> x]]
MaxDelay(x) == [retryPolicy |-> [maxDelayMs |-> x]]
BatchSize(x) == [executionPolicy |-> [batchSize |-> x]]
BatchTimeout(x) == [timeoutPolicy |-> [batchTimeoutSeconds |-> x]]
JobTimeout(x) == [timeoutPolicy |-> [jobTimeoutSeconds |-> x]]
Mode(m) == [errorPolicy |-> [mode |-> m]]
Threshold(rows, rate) ==
    [errorPolicy |-> [mode |-> "STOP_ON_ERROR_THRESHOLD",
                      maxErrorRows |-> rows, maxErrorRate |-> rate]]

Complete(patch) == deepMerge(SYSTEM_BASELINE_CONFIG, patch)

ClientSymmetry == Permutations(Clients)

Plain(text) == [text |-> text, padded |-> FALSE]
Padded(text) == [text |-> text, padded |-> TRUE]

\* Several clients: two profiles, two delays that an update may not cross.
RaceInitial == [p \in {"p1"} |-> "a"]
RaceNames == {"a", ""}
RaceRawNames == {Plain("a"), Padded("a"), Plain("")}
RaceConfigs == {SYSTEM_BASELINE_CONFIG}
RacePatches == {InitialDelay(20000), MaxDelay(10000)}

\* One client: a profile is created and updated, jobs override it.
ChainInitial == [p \in {"p1"} |-> "a"]
ChainNames == {"a", ""}
ChainConfigs == {}
ChainPatches ==
    {Delays(100, 499), Delays(60000, 60000), Delays(30000, 300001),
     InitialDelay(99), InitialDelay(30001), MaxDelay(999),
     BatchSize(1000), BatchSize(1001), BatchTimeout(1800), BatchTimeout(1801), JobTimeout(59), JobTimeout(86401),
     JobTimeout(86400), Mode("STOP_ON_ERROR_THRESHOLD"), Threshold(0, 0),
     Threshold(Null, 1), Threshold(0, Null), Mode("SKIP"), Mode("ALL_OR_NOTHING"),
     [errorPolicy |-> [maxErrorRows |-> Null]],
     [retryPolicy |-> [maxAttempts |-> Null]],
     [retryPolicy |-> [maxAttempts |-> 11]],
     [executionPolicy |-> [maxConcurrentBatches |-> 10]],
     [executionPolicy |-> [batchsize |-> 10]],
     [importPolicy |-> [batchSize |-> 10]],
     [retryPolicy |-> [backoffMultiplier |-> 99]],
     Empty}
=============================================================================
