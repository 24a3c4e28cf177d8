---------------------------- MODULE ImportConfig ----------------------------
(***************************************************************************)
(* The configuration of an import job: its schema, its merge and its       *)
(* resolution (ConfigurationValidator and ConfigurationResolverService).   *)
(*                                                                         *)
(* A configuration is a function from policies to functions from fields to *)
(* values; a partial one leaves policies or fields out of a DOMAIN.        *)
(* Numbers are integers: maxErrorRate and backoffMultiplier count in       *)
(* hundredths.                                                             *)
(***************************************************************************)
EXTENDS Integers

CONSTANT Null   \* JSON's null: @IsOptional() lets it pass for any field

Modes == {"CONTINUE_ON_ROW_ERROR", "STOP_ON_ROW_ERROR",
          "STOP_ON_ERROR_THRESHOLD", "ALL_OR_NOTHING"}

\* null is neither a number nor one of the modes.
ASSUME NullAssumption == Null \notin Int /\ Null \notin Modes

\* The whitelisted fields of each policy.
Fields ==
    [errorPolicy     |-> {"mode", "maxErrorRows", "maxErrorRate"},
     retryPolicy     |-> {"maxAttempts", "initialDelayMs", "maxDelayMs",
                          "backoffMultiplier"},
     timeoutPolicy   |-> {"jobTimeoutSeconds", "batchTimeoutSeconds",
                          "idleTimeoutSeconds"},
     executionPolicy |-> {"batchSize", "maxConcurrentBatches"}]

Policies == DOMAIN Fields

\* Fields a complete configuration may leave out.
OptionalFields == {"maxErrorRows", "maxErrorRate"}

-----------------------------------------------------------------------------
(* The constraints of the configuration DTOs.                              *)

Least ==
    [maxErrorRows |-> 0, maxErrorRate |-> 0,
     maxAttempts |-> 1, initialDelayMs |-> 0, maxDelayMs |-> 0,
     backoffMultiplier |-> 100,
     jobTimeoutSeconds |-> 1, batchTimeoutSeconds |-> 1,
     idleTimeoutSeconds |-> 1,
     batchSize |-> 1, maxConcurrentBatches |-> 1]

Admits(field, x) ==
    IF field = "mode" THEN x \in Modes
    ELSE x >= Least[field] /\ (field = "maxErrorRate" => x <= 100)

\* validateSync with whitelist and forbidNonWhitelisted, on one policy.
SectionOk(policy, section, optional) ==
    /\ DOMAIN section \subseteq Fields[policy]
    /\ \A f \in Fields[policy] :
        \/ f \in DOMAIN section /\ section[f] # Null /\ Admits(f, section[f])
        \/ f \in optional /\ (f \in DOMAIN section => section[f] = Null)

\* JavaScript compares null as 0.
Num(x) == IF x = Null THEN 0 ELSE x

Defined(config, policy, field) ==
    policy \in DOMAIN config /\ field \in DOMAIN config[policy]

\* config[policy][small] <= config[policy][large], if both are given.
Ordered(config, policy, small, large) ==
    Defined(config, policy, small) /\ Defined(config, policy, large)
        => Num(config[policy][small]) <= Num(config[policy][large])

DelaysOrdered(config) ==
    Ordered(config, "retryPolicy", "initialDelayMs", "maxDelayMs")

TimeoutsOrdered(config) ==
    Ordered(config, "timeoutPolicy", "batchTimeoutSeconds", "jobTimeoutSeconds")

ThresholdGiven(config) ==
    config.errorPolicy["mode"] = "STOP_ON_ERROR_THRESHOLD" =>
        \E f \in OptionalFields :
            Defined(config, "errorPolicy", f) /\ Num(config.errorPolicy[f]) > 0

validatePartial(config) ==
    /\ \A p \in DOMAIN config : p \in Policies /\ SectionOk(p, config[p], Fields[p])
    /\ DelaysOrdered(config)
    /\ TimeoutsOrdered(config)

validateCrossFieldConstraints(config) ==
    /\ ThresholdGiven(config)
    /\ DelaysOrdered(config)
    /\ TimeoutsOrdered(config)

validateComplete(config) ==
    /\ DOMAIN config = Policies
    /\ \A p \in Policies : SectionOk(p, config[p], OptionalFields)
    /\ validateCrossFieldConstraints(config)

-----------------------------------------------------------------------------
(* Merging and resolving.                                                  *)

\* {...base, ...override}
spread(base, override) ==
    [f \in DOMAIN base \cup DOMAIN override |->
        IF f \in DOMAIN override THEN override[f] ELSE base[f]]

\* Spread policy by policy; an absent policy overrides nothing.
mergePolicies(base, override) ==    \* mutant: shallow, a policy is replaced
    [p \in Policies |-> IF p \in DOMAIN override THEN override[p] ELSE base[p]]

deepMerge(base, override) ==
    [p \in Policies |-> IF p \in DOMAIN override THEN spread(base[p], override[p])
                        ELSE base[p]]

SYSTEM_BASELINE_CONFIG ==
    [errorPolicy     |-> [mode |-> "CONTINUE_ON_ROW_ERROR",
                          maxErrorRows |-> 1000, maxErrorRate |-> 5],
     retryPolicy     |-> [maxAttempts |-> 3, initialDelayMs |-> 1000,
                          maxDelayMs |-> 30000, backoffMultiplier |-> 200],
     timeoutPolicy   |-> [jobTimeoutSeconds |-> 1800,
                          batchTimeoutSeconds |-> 60,
                          idleTimeoutSeconds |-> 300],
     executionPolicy |-> [batchSize |-> 500, maxConcurrentBatches |-> 1]]

\* The declared limits, by field.
Limit(min, max) == [min |-> min, max |-> max]

SYSTEM_SAFETY_LIMITS ==
    [batchSize            |-> Limit(1, 1000),
     maxConcurrentBatches |-> Limit(1, 10),
     maxAttempts          |-> Limit(1, 10),
     initialDelayMs       |-> Limit(100, 60000),
     maxDelayMs           |-> Limit(500, 300000),
     jobTimeoutSeconds    |-> Limit(10, 86400),
     batchTimeoutSeconds  |-> Limit(5, 1800)]

AtMost(config, policy, field) ==
    config[policy][field] <= SYSTEM_SAFETY_LIMITS[field].max

limitsWithoutBatchTimeout(config) ==    \* mutant: the last limit is missing
    /\ AtMost(config, "executionPolicy", "batchSize")
    /\ AtMost(config, "executionPolicy", "maxConcurrentBatches")
    /\ AtMost(config, "retryPolicy", "maxAttempts")
    /\ config.retryPolicy.initialDelayMs >= SYSTEM_SAFETY_LIMITS.initialDelayMs.min
    /\ AtMost(config, "timeoutPolicy", "jobTimeoutSeconds")

\* The comparisons the code makes, each with one end of one limit.
enforceSystemSafetyLimits(config) ==
    /\ AtMost(config, "executionPolicy", "batchSize")
    /\ AtMost(config, "executionPolicy", "maxConcurrentBatches")
    /\ AtMost(config, "retryPolicy", "maxAttempts")
    /\ config.retryPolicy.initialDelayMs >= SYSTEM_SAFETY_LIMITS.initialDelayMs.min
    /\ AtMost(config, "timeoutPolicy", "jobTimeoutSeconds")
    /\ AtMost(config, "timeoutPolicy", "batchTimeoutSeconds")

Empty == [p \in {} |-> Null]

\* What resolve() merges: the profile over the baseline, the overrides over both.
Effective(profileConfig, overrides) ==
    deepMerge(deepMerge(SYSTEM_BASELINE_CONFIG, profileConfig), overrides)

\* Why resolve() throws, or "none".
ResolveError(profileConfig, overrides) ==
    LET effective == Effective(profileConfig, overrides) IN
    IF \/ ~validatePartial(profileConfig)
       \/ ~validatePartial(overrides)
       \/ ~validateComplete(effective)
    THEN "INVALID"
    ELSE IF ~enforceSystemSafetyLimits(effective) THEN "CONFIG_QUOTA_EXCEEDED"
    ELSE "none"
=============================================================================
