------------------------------ MODULE Directory ------------------------------
(***************************************************************************)
(* The service as a whole: the handlers of one department (Projection),    *)
(* the requests that create employees (EmployeeCreate) and the look-ups of *)
(* partial updates (EmployeeUpdate), over the same rows.  The other        *)
(* entities do not change.  What EmployeeCreate assumes of its projections *)
(* is here what the handlers do to them.                                   *)
(***************************************************************************)
EXTENDS Integers, Sequences, FiniteSets

CONSTANTS
    Workers, Statuses, FailedCount,
    MaxVersion, MaxFaults, MaxCrashes, MaxRebalances,
    Clients, Requests, MaxRequests,
    Updaters, Patches, MaxCalls,
    None,
    Department,   \* the entity the handlers project
    Companies,    \* the companies it may belong to
    CompanyAt,    \* CompanyAt[a] is the company in the attributes of version a
    Others,       \* the remaining entities, ACTIVE and without a company
    MaxChanges    \* bound: writes of the department's row that requests can see

\* The provisioning of the department.
VARIABLES hist, row, pc, event, entity, loaded, tries, assigned,
          settled, dlq, faults, crashes, rebalances,
          overtaken, peak, torn

\* The requests and the calls.
VARIABLES employees, profiles, assignments, outbox,
          stage, request, id, tx, wasActive, requests,
          step, patch, current, resolved, seen, calls

\* History: how often the department's row changed in a way requests can see,
\* the version it showed when a request arrived (Unsure once racing handlers
\* had torn the row while the request ran), and the same by employee id.
VARIABLES changes, shown, shownTo

Unsure == -1

Entities == {Department} \cup Companies \cup Others

\* What the other modules assume of the constants they get from here.  Other
\* rows of the same projections are not modelled: a name is one entity.
ASSUME EntitiesAssumption ==
    /\ None \notin Entities
    /\ Department \notin Companies \cup Others
ASSUME CompanyAtAssumption ==
    /\ CompanyAt \in Seq(Companies)
    /\ Len(CompanyAt) > 0 /\ Len(CompanyAt) >= MaxVersion
ASSUME StatusesAssumption == Statuses = {"ACTIVE", "INACTIVE"}
ASSUME RequestsAssumption ==
    \A body \in Requests :
        /\ "company" \in DOMAIN body.refs
        /\ DOMAIN body.refs \subseteq
               {"company", "department", "location", "grade", "jobTitle"}
        /\ \A k \in DOMAIN body.refs : body.refs[k] \in Entities
ASSUME BoundsAssumption ==
    /\ FailedCount \in Nat \ {0}
    /\ MaxVersion \in Nat /\ MaxFaults \in Nat /\ MaxCrashes \in Nat
    /\ MaxRebalances \in Nat /\ MaxRequests \in Nat /\ MaxChanges \in Nat

\* A row that was never upserted has no company.
CompanyOf(attrs) == IF attrs \in DOMAIN CompanyAt THEN CompanyAt[attrs] ELSE None

\* What a look-up of each entity finds.
Rows ==
    [e \in Entities |->
        IF e # Department THEN [status |-> "ACTIVE", company |-> None]
        ELSE IF row.version = 0 THEN [status |-> "ABSENT", company |-> CompanyAt[1]]
        ELSE [status |-> row.status, company |-> CompanyOf(row.attrs)]]

P == INSTANCE Projection WITH Kind <- "department", Envelopes <- {TRUE}

E == INSTANCE EmployeeCreate WITH
    Homes <- [e \in Entities |-> IF e = Department THEN Companies ELSE {None}],
    Projected <- [e \in Entities |->
        IF e = Department THEN [status |-> "ABSENT", company |-> CompanyAt[1]]
        ELSE [status |-> "ACTIVE", company |-> None]],
    Staff <- {},
    projection <- Rows, pc <- stage, MaxFaults <- 0, faults <- 0

U == INSTANCE EmployeeUpdate WITH
    projection <- Rows,
    placements <- {a.refs : a \in assignments}

provisionVars == <<hist, row, pc, event, entity, loaded, tries, assigned,
                   settled, dlq, faults, crashes, rebalances,
                   overtaken, peak, torn>>
createVars == <<employees, profiles, assignments, outbox,
                stage, request, id, tx, requests>>
updateVars == <<step, patch, current, resolved, calls>>
vars == <<provisionVars, createVars, wasActive, updateVars, seen, changes, shown, shownTo>>

Init ==
    /\ P!Init
    /\ E!Init
    /\ U!Init
    /\ shown = [c \in Clients |-> 0]
    /\ shownTo = <<>>

-----------------------------------------------------------------------------
\* A step of provisioning; what it changes is seen by whatever is in progress.
Beside(provisioning) ==
    /\ provisioning
    /\ UNCHANGED <<createVars, updateVars, shownTo>>
    /\ IF Rows' = Rows THEN UNCHANGED changes
       ELSE changes < MaxChanges /\ changes' = changes + 1
    /\ shown' = [c \in Clients |->
                    IF torn' /\ stage[c] # "idle" THEN Unsure ELSE shown[c]]
    /\ E!Witness(Rows')
    /\ U!Witness(Rows')

Publish == Beside(P!Setting)
Provision(w) == Beside(P!Handle(w))
Fail(w) == Beside(P!Disturb(w))

\* Bound: one request at a time besides the handlers.  A creation and an
\* update share nothing but the stored assignments.
NoneInProgress ==
    /\ \A c \in Clients : stage[c] = "idle"
    /\ \A u \in Updaters : step[u] = "idle"

CreateArrives(c) ==
    /\ NoneInProgress
    /\ UNCHANGED provisionVars
    /\ E!Arrive(c)
    /\ shown' = [shown EXCEPT ![c] = IF torn THEN Unsure ELSE row.version]
    /\ UNCHANGED <<updateVars, seen, shownTo>>

CreateProceeds(c) ==
    /\ UNCHANGED provisionVars
    /\ E!Serve(c)
    /\ shownTo' = IF assignments' = assignments \/ shown[c] = Unsure THEN shownTo
                  ELSE Append(shownTo, [id |-> id[c], version |-> shown[c]])
    /\ shown' = IF stage'[c] = "idle" THEN [shown EXCEPT ![c] = 0] ELSE shown
    /\ UNCHANGED <<updateVars, seen>>

UpdateArrives(u) ==
    /\ NoneInProgress
    /\ UNCHANGED <<provisionVars, createVars, wasActive, changes, shown, shownTo>>
    /\ U!Call(u)

UpdateProceeds(u) ==
    /\ UNCHANGED <<provisionVars, createVars, wasActive, changes, shown, shownTo>>
    /\ U!Validate(u)

Next ==
    \/ Publish
    \/ \E w \in Workers : Provision(w) \/ Fail(w)
    \/ \E c \in Clients : CreateArrives(c) \/ CreateProceeds(c)
    \/ \E u \in Updaters : UpdateArrives(u) \/ UpdateProceeds(u)

Spec == Init /\ [][Next]_vars

-----------------------------------------------------------------------------
(* Properties                                                              *)

(* The handlers keep what EmployeeCreate assumes of its surroundings (rows  *)
(* change one at a time, are never deleted and always name a company the    *)
(* unit may belong to), so all that holds there holds of the whole.         *)
ImplementsCreate == E!Spec

(* FR-007 and FR-002 of specs/004 end to end: the department of a committed *)
(* assignment is, in that company and ACTIVE, a state Setting published,    *)
(* and no older than what the projection showed when the request arrived,   *)
(* unless racing replicas had torn the row while the request ran.  Status   *)
(* events that overtake updates must not make up a combination.             *)
PlacementsWerePublished ==
    \A i \in DOMAIN shownTo : \A a \in assignments :
        a.id = shownTo[i].id /\ "department" \in DOMAIN a.refs =>
            \E v \in DOMAIN hist :
                /\ v >= shownTo[i].version
                /\ hist[v].status = "ACTIVE"
                /\ CompanyAt[hist[v].attrs] = a.refs["company"]

UpdatedUnitsBelong == U!UpdatedUnitsBelong
UntouchedReferencesKept == U!UntouchedReferencesKept
=============================================================================
