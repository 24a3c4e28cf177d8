--------------------------- MODULE EmployeeUpdate ---------------------------
(***************************************************************************)
(* validateAndResolveForUpdate(): the references of a partial update,      *)
(* looked up one awaited query at a time against the projections and the   *)
(* employee's current assignment.  Nothing in the code calls it yet, so    *)
(* its caller (PATCH /employees/:id of specs/006) is external: it may pass *)
(* any body the DTO admits, and any stored assignment or none.             *)
(* Module Directory drives the projections and the assignments.            *)
(***************************************************************************)
EXTENDS Integers

CONSTANTS
    Updaters,   \* calls that may be in progress at once
    Entities,   \* projected master-data entities
    Patches,    \* the reference fields of a body: those it contains, each
                \* with an entity, or None for a null
    None,
    MaxCalls    \* bound: calls

VARIABLES
    projection,   \* the projections, as in EmployeeCreate
    placements,   \* the references of the stored assignments
    step,         \* the reference each call is about to look up, "return"
                  \* or "idle"
    patch,        \* its body
    current,      \* the references of the assignment it was given
    resolved,     \* what it has resolved so far
    seen,         \* history: the rows of its references since it was called
    calls

callVars == <<step, patch, current, resolved, seen>>
vars == <<projection, placements, callVars, calls>>

-----------------------------------------------------------------------------
Kinds == <<"company", "department", "location", "grade", "jobTitle">>
Units == {"department", "location"}

Nothing == [k \in {} |-> None]    \* no field at all

Init ==
    /\ step = [u \in Updaters |-> "idle"]
    /\ patch = [u \in Updaters |-> Nothing]
    /\ current = [u \in Updaters |-> Nothing]
    /\ resolved = [u \in Updaters |-> Nothing]
    /\ seen = [u \in Updaters |-> {}]
    /\ calls = 0

\* A field of the current assignment, undefined or null when it has none.
Stored(cur, k) == IF k \in DOMAIN cur THEN cur[k] ELSE None

\* dto.companyId ?? currentAssignment?.companyId
EffectiveCompany(p, cur) ==
    IF Stored(p, "company") # None THEN p["company"] ELSE Stored(cur, "company")

KeptUnitsUnchecked(p, cur) == FALSE    \* mutant: kept units are not checked

\* The body has a companyId, and not the current one; a null is not.
MovesCompany(p, cur) ==
    "company" \in DOMAIN p /\ p["company"] # Stored(cur, "company")

UndefinedClears(p, cur, k) ==    \* mutant: a field left out counts as null
    IF k = "company" THEN EffectiveCompany(p, cur) ELSE Stored(p, k)

\* What a kind will refer to: a given field wins, a null clears.
Reference(p, cur, k) ==
    IF k = "company" THEN EffectiveCompany(p, cur)
    ELSE IF k \in DOMAIN p THEN p[k]
    ELSE Stored(cur, k)

KindsOf(p, cur) == {i \in DOMAIN Kinds : Reference(p, cur, Kinds[i]) # None}

RowsOf(p, cur, rows) ==
    LET refs == {Reference(p, cur, Kinds[i]) : i \in KindsOf(p, cur)} IN
    {<<e, rows[e].status, rows[e].company>> : e \in refs}

\* Remember what the calls in progress could have seen.
Witness(rows) ==
    seen' = [u \in Updaters |->
        IF step[u] = "idle" THEN {}
        ELSE seen[u] \cup RowsOf(patch[u], current[u], rows)]

-----------------------------------------------------------------------------
Call(u) ==
    /\ step[u] = "idle"
    /\ calls < MaxCalls
    /\ calls' = calls + 1
    /\ \E p \in Patches, cur \in placements \cup {Nothing} :
        /\ patch' = [patch EXCEPT ![u] = p]
        /\ current' = [current EXCEPT ![u] = cur]
        /\ seen' = [seen EXCEPT ![u] = RowsOf(p, cur, projection)]
    /\ step' = [step EXCEPT ![u] = "company"]
    /\ UNCHANGED <<projection, placements, resolved>>

\* The call is over: it has returned, or thrown COMPANY_NOT_FOUND and the
\* like or INVALID_ORGANIZATION_ASSIGNMENT.
End(u) ==
    /\ step' = [step EXCEPT ![u] = "idle"]
    /\ patch' = [patch EXCEPT ![u] = Nothing]
    /\ current' = [current EXCEPT ![u] = Nothing]
    /\ resolved' = [resolved EXCEPT ![u] = Nothing]
    /\ seen' = [seen EXCEPT ![u] = {}]

Resolve(u, kind, found) ==
    LET p == patch[u]
        cur == current[u]
        at == CHOOSE i \in DOMAIN Kinds : Kinds[i] = kind
        later == {i \in KindsOf(p, cur) : i > at}
    IN
    /\ resolved' = [resolved EXCEPT ![u] =
                        [k \in DOMAIN @ \cup (IF found THEN {kind} ELSE {}) |->
                            Reference(p, cur, k)]]
    /\ step' = [step EXCEPT ![u] =
                    IF later = {} THEN "return"
                    ELSE Kinds[CHOOSE i \in later : \A j \in later : i <= j]]
    /\ UNCHANGED <<patch, current, seen>>

\* The company must be there and ACTIVE.
ValidateCompany(u) ==
    LET company == EffectiveCompany(patch[u], current[u]) IN
    /\ step[u] = "company"
    /\ IF company = None THEN End(u)
       ELSE IF projection[company].status # "ACTIVE" THEN End(u)
       ELSE Resolve(u, "company", TRUE)
    /\ UNCHANGED <<projection, placements, calls>>

\* A given reference must be ACTIVE; a unit must belong to the effective
\* company if it is given, or kept while the company changes.  A kept
\* reference without a row is left out of the result.
ValidateReference(u, kind) ==
    LET p == patch[u]
        cur == current[u]
        row == projection[Reference(p, cur, kind)]
        given == kind \in DOMAIN p
    IN
    /\ step[u] = kind
    /\ IF given /\ row.status # "ACTIVE" THEN End(u)
       ELSE IF /\ kind \in Units
               /\ given \/ MovesCompany(p, cur)
               /\ row.status = "ABSENT" \/ row.company # EffectiveCompany(p, cur)
       THEN End(u)
       ELSE Resolve(u, kind, row.status # "ABSENT")
    /\ UNCHANGED <<projection, placements, calls>>

\* The caller gets the resolved references.
Return(u) ==
    /\ step[u] = "return"
    /\ End(u)
    /\ UNCHANGED <<projection, placements, calls>>

-----------------------------------------------------------------------------
Validate(u) ==
    \/ ValidateCompany(u)
    \/ \E kind \in {"department", "location", "grade", "jobTitle"} :
        ValidateReference(u, kind)
    \/ Return(u)

-----------------------------------------------------------------------------
(* Properties                                                              *)

(* FR-011 of specs/006: a unit the update gives was, at one moment of the   *)
(* call, ACTIVE and in the company the update ends in; a unit that is kept  *)
(* while the company changes belonged to the new company at one moment.     *)
UpdatedUnitsBelong ==
    \A u \in Updaters : step[u] = "return" =>
        LET company == resolved[u]["company"] IN
        \A k \in DOMAIN resolved[u] \cap Units :
            /\ k \in DOMAIN patch[u] =>
                <<resolved[u][k], "ACTIVE", company>> \in seen[u]
            /\ company # Stored(current[u], "company") =>
                \E s \in {"ACTIVE", "INACTIVE"} :
                    <<resolved[u][k], s, company>> \in seen[u]

(* SC-006 of specs/006: fields the body leaves out keep their values.  The  *)
(* look-up of a kept reference may find no row and then drops it silently,  *)
(* so this rests on what creation validated and on no handler deleting.     *)
UntouchedReferencesKept ==
    \A u \in Updaters : step[u] = "return" =>
        \A k \in DOMAIN current[u] \ DOMAIN patch[u] :
            k \in DOMAIN resolved[u] /\ resolved[u][k] = current[u][k]
=============================================================================
