-------------------------- MODULE ImportConfigProofs --------------------------
(***************************************************************************)
(* What the merge and the resolution of configurations compute, for every  *)
(* profile and every set of overrides.                                     *)
(***************************************************************************)
EXTENDS ImportConfig, TLAPS

-----------------------------------------------------------------------------
(* The schema and the baseline.                                            *)

(* There are four policies.                                                *)
LEMMA FourPolicies ==
    /\ Policies = {"errorPolicy", "retryPolicy", "timeoutPolicy",
                   "executionPolicy"}
    /\ Fields["errorPolicy"] = {"mode", "maxErrorRows", "maxErrorRate"}
    /\ Fields["retryPolicy"] = {"maxAttempts", "initialDelayMs", "maxDelayMs",
                                "backoffMultiplier"}
    /\ Fields["timeoutPolicy"] = {"jobTimeoutSeconds", "batchTimeoutSeconds",
                                  "idleTimeoutSeconds"}
    /\ Fields["executionPolicy"] = {"batchSize", "maxConcurrentBatches"}
  BY DEF Policies, Fields

(* The baseline gives every field of every policy.                         *)
LEMMA BaselineGivesAll ==
    /\ DOMAIN SYSTEM_BASELINE_CONFIG = Policies
    /\ \A p \in Policies : DOMAIN SYSTEM_BASELINE_CONFIG[p] = Fields[p]
<1>1. DOMAIN SYSTEM_BASELINE_CONFIG = Policies
  BY FourPolicies DEF SYSTEM_BASELINE_CONFIG
<1>2. DOMAIN SYSTEM_BASELINE_CONFIG["errorPolicy"] = Fields["errorPolicy"]
  BY FourPolicies DEF SYSTEM_BASELINE_CONFIG
<1>3. DOMAIN SYSTEM_BASELINE_CONFIG["retryPolicy"] = Fields["retryPolicy"]
  BY FourPolicies DEF SYSTEM_BASELINE_CONFIG
<1>4. DOMAIN SYSTEM_BASELINE_CONFIG["timeoutPolicy"] = Fields["timeoutPolicy"]
  BY FourPolicies DEF SYSTEM_BASELINE_CONFIG
<1>5. DOMAIN SYSTEM_BASELINE_CONFIG["executionPolicy"] = Fields["executionPolicy"]
  BY FourPolicies DEF SYSTEM_BASELINE_CONFIG
<1> QED
  BY <1>1, <1>2, <1>3, <1>4, <1>5, FourPolicies

(* The baseline passes the validation that profiles and jobs must pass.    *)
THEOREM BaselineValid == validateComplete(SYSTEM_BASELINE_CONFIG)
<1> DEFINE C == SYSTEM_BASELINE_CONFIG
<1>1. SectionOk("errorPolicy", C["errorPolicy"], OptionalFields)
  BY FourPolicies, NullAssumption
  DEF SectionOk, Admits, Least, Modes, SYSTEM_BASELINE_CONFIG
<1>2. SectionOk("retryPolicy", C["retryPolicy"], OptionalFields)
  BY FourPolicies, NullAssumption
  DEF SectionOk, Admits, Least, SYSTEM_BASELINE_CONFIG
<1>3. SectionOk("timeoutPolicy", C["timeoutPolicy"], OptionalFields)
  BY FourPolicies, NullAssumption
  DEF SectionOk, Admits, Least, SYSTEM_BASELINE_CONFIG
<1>4. SectionOk("executionPolicy", C["executionPolicy"], OptionalFields)
  BY FourPolicies, NullAssumption
  DEF SectionOk, Admits, Least, SYSTEM_BASELINE_CONFIG
<1>5. validateCrossFieldConstraints(C)
  <2>1. ThresholdGiven(C)
    BY DEF ThresholdGiven, SYSTEM_BASELINE_CONFIG
  <2>2. DelaysOrdered(C)
    BY NullAssumption DEF DelaysOrdered, Ordered, Num, SYSTEM_BASELINE_CONFIG
  <2>3. TimeoutsOrdered(C)
    BY NullAssumption DEF TimeoutsOrdered, Ordered, Num, SYSTEM_BASELINE_CONFIG
  <2> QED
    BY <2>1, <2>2, <2>3 DEF validateCrossFieldConstraints
<1> QED
  BY <1>1, <1>2, <1>3, <1>4, <1>5, FourPolicies, BaselineGivesAll
  DEF validateComplete

-----------------------------------------------------------------------------
(* The merge.                                                              *)

(* A merge defines a field when the override or the base does, and takes   *)
(* the override's value first, sibling fields being left alone.            *)
LEMMA MergeFacts ==
    ASSUME NEW base, NEW override, NEW p \in Policies
    PROVE  /\ DOMAIN deepMerge(base, override) = Policies
           /\ DOMAIN deepMerge(base, override)[p] =
                  DOMAIN base[p] \cup
                  (IF p \in DOMAIN override THEN DOMAIN override[p] ELSE {})
           /\ \A f \in DOMAIN deepMerge(base, override)[p] :
                  deepMerge(base, override)[p][f] =
                      IF Defined(override, p, f) THEN override[p][f]
                      ELSE base[p][f]
<1>1. CASE p \in DOMAIN override
  BY <1>1 DEF deepMerge, spread, Defined
<1>2. CASE p \notin DOMAIN override
  BY <1>2 DEF deepMerge, spread, Defined
<1> QED
  BY <1>1, <1>2

(* The three tiers: a field of a resolved configuration is the override's  *)
(* if the job gives it, else the profile's, else the baseline's.           *)
THEOREM ThreeTiers ==
    ASSUME NEW profileConfig, NEW overrides,
           NEW p \in Policies, NEW f \in Fields[p]
    PROVE  LET effective == Effective(profileConfig, overrides) IN
           /\ Defined(effective, p, f)
           /\ effective[p][f] =
                  IF Defined(overrides, p, f) THEN overrides[p][f]
                  ELSE IF Defined(profileConfig, p, f) THEN profileConfig[p][f]
                  ELSE SYSTEM_BASELINE_CONFIG[p][f]
<1> DEFINE inner == deepMerge(SYSTEM_BASELINE_CONFIG, profileConfig)
           outer == deepMerge(inner, overrides)
<1>1. f \in DOMAIN SYSTEM_BASELINE_CONFIG[p]
  BY BaselineGivesAll
<1>2. /\ f \in DOMAIN inner[p]
      /\ inner[p][f] = IF Defined(profileConfig, p, f) THEN profileConfig[p][f]
                       ELSE SYSTEM_BASELINE_CONFIG[p][f]
  BY <1>1, MergeFacts
<1> HIDE DEF inner
<1>3. /\ DOMAIN outer = Policies
      /\ f \in DOMAIN outer[p]
      /\ outer[p][f] = IF Defined(overrides, p, f) THEN overrides[p][f]
                       ELSE inner[p][f]
  BY <1>2, MergeFacts
<1>4. Effective(profileConfig, overrides) = outer
  BY DEF Effective, inner
<1> QED
  BY <1>2, <1>3, <1>4 DEF Defined

(* The schema is closed under merging: when a valid patch is merged into a *)
(* valid configuration, what update() and resolve() can still refuse is a  *)
(* null where a value is required, or a rule that relates two fields.      *)
THEOREM MergeKeepsSchema ==
    ASSUME NEW base, NEW patch,
           validateComplete(base), validatePartial(patch),
           \A p \in DOMAIN patch : \A f \in DOMAIN patch[p] :
               patch[p][f] = Null => f \in OptionalFields,
           validateCrossFieldConstraints(deepMerge(base, patch))
    PROVE  validateComplete(deepMerge(base, patch))
<1> DEFINE merged == deepMerge(base, patch)
<1>1. DOMAIN merged = Policies
  BY FourPolicies, MergeFacts
<1>2. ASSUME NEW p \in Policies
      PROVE  SectionOk(p, merged[p], OptionalFields)
  <2>1. SectionOk(p, base[p], OptionalFields)
    BY DEF validateComplete
  <2>2. p \in DOMAIN patch => SectionOk(p, patch[p], Fields[p])
    BY DEF validatePartial
  <2>3. /\ DOMAIN merged[p] = DOMAIN base[p] \cup
               (IF p \in DOMAIN patch THEN DOMAIN patch[p] ELSE {})
        /\ \A f \in DOMAIN merged[p] :
               merged[p][f] = IF Defined(patch, p, f) THEN patch[p][f]
                              ELSE base[p][f]
    BY MergeFacts
  <2> HIDE DEF merged
  <2>4. DOMAIN merged[p] \subseteq Fields[p]
    BY <2>1, <2>2, <2>3 DEF SectionOk
  <2>5. ASSUME NEW f \in Fields[p]
        PROVE  \/ f \in DOMAIN merged[p] /\ merged[p][f] # Null
                      /\ Admits(f, merged[p][f])
               \/ /\ f \in OptionalFields
                  /\ f \in DOMAIN merged[p] => merged[p][f] = Null
    <3>1. CASE Defined(patch, p, f)
      <4>1. f \in DOMAIN merged[p] /\ merged[p][f] = patch[p][f]
        BY <3>1, <2>3 DEF Defined
      <4>2. CASE patch[p][f] = Null
        BY <3>1, <4>1, <4>2 DEF Defined
      <4>3. CASE patch[p][f] # Null
        BY <3>1, <4>1, <4>3, <2>2 DEF Defined, SectionOk
      <4> QED
        BY <4>2, <4>3
    <3>2. CASE ~Defined(patch, p, f)
      <4>1. f \in DOMAIN merged[p] <=> f \in DOMAIN base[p]
        BY <3>2, <2>3 DEF Defined
      <4>2. f \in DOMAIN merged[p] => merged[p][f] = base[p][f]
        BY <3>2, <2>3
      <4> QED
        BY <4>1, <4>2, <2>1 DEF SectionOk
    <3> QED
      BY <3>1, <3>2
  <2> QED
    BY <2>4, <2>5 DEF SectionOk
<1> QED
  BY <1>1, <1>2 DEF validateComplete

-----------------------------------------------------------------------------
(* The resolution.                                                         *)

(* What resolve() has checked of a configuration that it returns.          *)
LEMMA Resolved ==
    ASSUME NEW profileConfig, NEW overrides,
           ResolveError(profileConfig, overrides) = "none"
    PROVE  /\ validateComplete(Effective(profileConfig, overrides))
           /\ enforceSystemSafetyLimits(Effective(profileConfig, overrides))
  BY DEF ResolveError
=============================================================================
