--------------------------- MODULE EmployeeCreate ---------------------------
(***************************************************************************)
(* POST /employees for one tenant: EmployeeService.create() with its       *)
(* reference and manager validators and the outbox.  Requests interleave   *)
(* at every awaited query; the projections they validate against keep      *)
(* changing (module Projection).  The four inserts of a request run in one *)
(* READ COMMITTED transaction.                                             *)
(***************************************************************************)
EXTENDS Integers, FiniteSets

CONSTANTS
    Clients,      \* requests that may be in flight at once
    Entities,     \* projected master-data entities
    Homes,        \* the companies each entity may belong to ({None}: none)
    Projected,    \* the projections at the start
    Staff,        \* employees that exist at the start
    Requests,     \* the bodies a request may carry
    None,         \* an optional field that is left out
    MaxRequests,  \* bound: requests that arrive
    MaxChanges,   \* bound: changes of projected entities
    MaxFaults     \* bound: database errors

VARIABLES
    projection,   \* its [status, company]; "ABSENT" when there is no row
    employees, profiles, assignments, outbox,   \* the committed tables
    pc,           \* where each client's request is
    request,      \* its body
    id,           \* the employee id its row will get
    tx,           \* the tables its open transaction has inserted into
    wasActive,    \* history: the <<entity, company>> of the request that were
                  \* ACTIVE at some moment since it arrived
    requests, changes, faults

tables == <<employees, profiles, assignments, outbox>>
clientVars == <<pc, request, id, tx>>
vars == <<projection, tables, clientVars, wasActive, requests, changes, faults>>

-----------------------------------------------------------------------------
\* The order in which validateAndResolve looks references up.
Kinds == <<"company", "department", "location", "grade", "jobTitle">>
KindSet == {Kinds[i] : i \in DOMAIN Kinds}
Position(kind) == CHOOSE i \in DOMAIN Kinds : Kinds[i] = kind
Tables == <<"employee", "profile", "assignment", "outbox">>
TableSet == {Tables[i] : i \in DOMAIN Tables}

NotFound ==
    [company |-> "COMPANY_NOT_FOUND", department |-> "DEPARTMENT_NOT_FOUND",
     location |-> "LOCATION_NOT_FOUND", grade |-> "GRADE_NOT_FOUND",
     jobTitle |-> "JOB_TITLE_NOT_FOUND"]

Units == {"department", "location"}

IsActive(e) == projection[e].status = "ACTIVE"

ProjectionStatuses == {"ABSENT", "ACTIVE", "INACTIVE"}
EmployeeStatuses == {"INVITED", "ONBOARDING", "ACTIVE", "INACTIVE", "TERMINATED"}

\* Every row of a projection.
ProjectionRows ==
    [status : ProjectionStatuses, company : UNION {Homes[e] : e \in Entities}]

ASSUME ProjectedAssumption ==
    /\ Projected \in [Entities -> ProjectionRows]
    /\ \A e \in Entities : Projected[e].company \in Homes[e]

\* The database has made the codes of the first employees unique, and gives
\* later rows ids of their own.
ASSUME StaffAssumption ==
    /\ \A e \in Staff : e.status \in EmployeeStatuses /\ e.id \notin 1 .. MaxRequests
    /\ \A e, f \in Staff : e.code = f.code => e = f

\* The DTO requires a company and passes only reference fields.
ASSUME RequestAssumption ==
    \A body \in Requests :
        /\ "company" \in DOMAIN body.refs
        /\ DOMAIN body.refs \subseteq KindSet
        /\ \A k \in DOMAIN body.refs : body.refs[k] \in Entities

ASSUME BoundAssumption ==
    MaxRequests \in Nat /\ MaxChanges \in Nat /\ MaxFaults \in Nat

NoRequest == [code |-> None]

Init ==
    /\ projection = Projected
    /\ employees = Staff
    /\ profiles = {e.id : e \in Staff}
    /\ assignments = {}
    /\ outbox = {}
    /\ pc = [c \in Clients |-> "idle"]
    /\ request = [c \in Clients |-> NoRequest]
    /\ id = [c \in Clients |-> 0]
    /\ tx = [c \in Clients |-> {}]
    /\ wasActive = [c \in Clients |-> {}]
    /\ requests = 0
    /\ changes = 0
    /\ faults = 0

-----------------------------------------------------------------------------
(* The surroundings.                                                       *)

\* The rows of the request's entities that are ACTIVE now.
ActiveOf(body, rows) ==
    {<<e, rows[e].company>> :
        e \in {body.refs[k] : k \in {k \in DOMAIN body.refs :
                                     rows[body.refs[k]].status = "ACTIVE"}}}

Witness(rows) ==
    wasActive' = [c \in Clients |->
        IF pc[c] = "idle" THEN {}
        ELSE wasActive[c] \cup ActiveOf(request[c], rows)]

\* A provisioning handler writes an entity's row: its status, its company (an
\* upsert may move a unit), or both.  No handler deletes one.
ProjectionChanges ==
    /\ changes < MaxChanges
    /\ changes' = changes + 1
    /\ \E e \in Entities, s \in {"ACTIVE", "INACTIVE"} : \E company \in Homes[e] :
        LET new == [status |-> s, company |-> company] IN
        /\ projection[e] # new
        /\ projection' = [projection EXCEPT ![e] = new]
    /\ Witness(projection')
    /\ UNCHANGED <<tables, clientVars, requests, faults>>

Arrive(c) ==
    /\ pc[c] = "idle"
    /\ requests < MaxRequests
    /\ requests' = requests + 1
    /\ \E body \in Requests :
        /\ request' = [request EXCEPT ![c] = body]
        /\ wasActive' = [wasActive EXCEPT ![c] = ActiveOf(body, projection)]
    /\ id' = [id EXCEPT ![c] = requests + 1]
    /\ pc' = [pc EXCEPT ![c] = "code"]
    /\ UNCHANGED <<projection, tables, tx, changes, faults>>

Goto(c, label) ==
    /\ pc' = [pc EXCEPT ![c] = label]
    /\ UNCHANGED <<request, id, tx, wasActive>>

Answers == {"created", "DUPLICATE_EMPLOYEE_CODE", "INVALID_ORGANIZATION_ASSIGNMENT",
            "MANAGER_NOT_FOUND", "INVALID_MANAGER", "ERROR"}
           \cup {NotFound[k] : k \in KindSet}

\* The request ends; a transaction that was not committed is rolled back.
Answer(c, answer) ==
    /\ answer \in Answers
    /\ pc' = [pc EXCEPT ![c] = "idle"]
    /\ request' = [request EXCEPT ![c] = NoRequest]
    /\ id' = [id EXCEPT ![c] = 0]
    /\ tx' = [tx EXCEPT ![c] = {}]
    /\ wasActive' = [wasActive EXCEPT ![c] = {}]

-----------------------------------------------------------------------------
(* Validation, outside the transaction.                                    *)

\* Reads are of committed rows.
CheckCode(c) ==
    /\ pc[c] = "code"
    /\ IF \E e \in employees : e.code = request[c].code
       THEN Answer(c, "DUPLICATE_EMPLOYEE_CODE")
       ELSE Goto(c, "company")
    /\ UNCHANGED <<projection, tables, requests, changes, faults>>

\* What follows the reference of this kind: the next one given, the manager
\* if there is one, or the transaction.
NextStep(c, kind) ==
    LET later == {i \in DOMAIN Kinds :
                     i > Position(kind) /\ Kinds[i] \in DOMAIN request[c].refs}
    IN  IF later # {} THEN Kinds[CHOOSE i \in later : \A j \in later : i <= j]
        ELSE IF request[c].manager # None THEN "manager"
        ELSE "employee"

ReferenceStatusIgnored(c, kind) ==    \* mutant: an inactive reference passes
    LET row == projection[request[c].refs[kind]] IN
    /\ pc[c] = kind
    /\ IF row.status = "ABSENT" THEN Answer(c, NotFound[kind])
       ELSE IF kind \in Units /\ row.company # request[c].refs["company"]
       THEN Answer(c, "INVALID_ORGANIZATION_ASSIGNMENT")
       ELSE Goto(c, NextStep(c, kind))
    /\ UNCHANGED <<projection, tables, requests, changes, faults>>

ReferenceCompanyIgnored(c, kind) ==    \* mutant: any company's unit passes
    /\ pc[c] = kind
    /\ IF ~IsActive(request[c].refs[kind]) THEN Answer(c, NotFound[kind])
       ELSE Goto(c, NextStep(c, kind))
    /\ UNCHANGED <<projection, tables, requests, changes, faults>>

\* validateAndResolve: one awaited look-up per reference.
ValidateReference(c, kind) ==
    LET ref == request[c].refs[kind] IN
    /\ pc[c] = kind
    /\ IF ~IsActive(ref) THEN Answer(c, NotFound[kind])
       ELSE IF kind \in Units
               /\ projection[ref].company # request[c].refs["company"]
       THEN Answer(c, "INVALID_ORGANIZATION_ASSIGNMENT")
       ELSE Goto(c, NextStep(c, kind))
    /\ UNCHANGED <<projection, tables, requests, changes, faults>>

AnyManager(e) == TRUE    \* mutant: an ineligible manager passes

EligibleManager(e) ==
    /\ e.status \notin {"TERMINATED", "INACTIVE"}
    /\ e.employmentStatus \notin {"ENDED", "SUSPENDED"}

ValidateManager(c) ==
    LET found == {e \in employees : e.id = request[c].manager} IN
    /\ pc[c] = "manager"
    /\ IF found = {} THEN Answer(c, "MANAGER_NOT_FOUND")
       ELSE IF \A e \in found : ~EligibleManager(e) THEN Answer(c, "INVALID_MANAGER")
       ELSE Goto(c, "employee")
    /\ UNCHANGED <<projection, tables, requests, changes, faults>>

-----------------------------------------------------------------------------
(* The transaction.                                                        *)

\* One more insert of the open transaction.
InsertInto(c, table, label) ==
    /\ pc' = [pc EXCEPT ![c] = label]
    /\ tx' = [tx EXCEPT ![c] = @ \cup {table}]
    /\ UNCHANGED <<request, id, wasActive>>

\* uq_employees_tenant_employee_code: an insert waits for an open transaction
\* that has inserted the same code, and fails if the code is committed.
LockKept(c) ==    \* mutant: the transaction of the row stays open
    \/ \E b \in Clients \ {c} : tx[b] # {} /\ request[b].code = request[c].code
    \/ \E e \in employees : e.code = request[c].code

CodeLocked(c) ==
    \E b \in Clients \ {c} : tx[b] # {} /\ request[b].code = request[c].code

CodeFree(c) == FALSE    \* mutant: the table has no unique constraint

CodeTaken(c) == \E e \in employees : e.code = request[c].code

InsertEmployee(c) ==
    /\ pc[c] = "employee"
    /\ ~CodeLocked(c)
    /\ IF CodeTaken(c) \/ ~request[c].datesOrdered THEN Answer(c, "ERROR")
       ELSE InsertInto(c, "employee", "profile")
    /\ UNCHANGED <<projection, tables, requests, changes, faults>>

InsertProfile(c) ==
    /\ pc[c] = "profile"
    /\ InsertInto(c, "profile", "assignment")
    /\ UNCHANGED <<projection, tables, requests, changes, faults>>

InsertAssignment(c) ==
    /\ pc[c] = "assignment"
    /\ InsertInto(c, "assignment", "outbox")
    /\ UNCHANGED <<projection, tables, requests, changes, faults>>

\* mutant: the event is written by a connection outside the transaction
InsertOutboxOutside(c) ==
    /\ pc[c] = "outbox"
    /\ Goto(c, "commit")
    /\ outbox' = outbox \cup {id[c]}
    /\ UNCHANGED <<projection, employees, profiles, assignments,
                   requests, changes, faults>>

\* fromEmployeeCreated
InsertOutbox(c) ==
    /\ pc[c] = "outbox"
    /\ InsertInto(c, "outbox", "commit")
    /\ UNCHANGED <<projection, tables, requests, changes, faults>>

StatusSwapped(c) ==    \* mutant: the two status columns change places
    [id |-> id[c], code |-> request[c].code, employmentStatus |-> "INVITED",
     status |-> request[c].employmentStatus]

EmployeeRow(c) ==
    [id |-> id[c], code |-> request[c].code, status |-> "INVITED",
     employmentStatus |-> request[c].employmentStatus]

AssignmentRow(c) ==
    [id |-> id[c], refs |-> request[c].refs, manager |-> request[c].manager,
     wasActive |-> wasActive[c]]

With(c, table, rows) == IF table \in tx[c] THEN rows ELSE {}

\* mutant: employee and profile are committed, the rest follows
CommitTwice(c) ==
    /\ pc[c] = "commit"
    /\ IF "employee" \in tx[c]
       THEN /\ employees' = employees \cup {EmployeeRow(c)}
            /\ profiles' = profiles \cup {id[c]}
            /\ tx' = [tx EXCEPT ![c] = @ \ {"employee"}]
            /\ UNCHANGED <<assignments, outbox, pc, request, id, wasActive>>
       ELSE /\ assignments' = assignments \cup {AssignmentRow(c)}
            /\ outbox' = outbox \cup {id[c]}
            /\ Answer(c, "created")
            /\ UNCHANGED <<employees, profiles>>
    /\ UNCHANGED <<projection, requests, changes, faults>>

\* The commit publishes what the transaction inserted.  Its answer may be
\* lost, and then the client is told of an error.
Commit(c) ==
    /\ pc[c] = "commit"
    /\ employees' = employees \cup With(c, "employee", {EmployeeRow(c)})
    /\ profiles' = profiles \cup With(c, "profile", {id[c]})
    /\ assignments' = assignments \cup With(c, "assignment", {AssignmentRow(c)})
    /\ outbox' = outbox \cup With(c, "outbox", {id[c]})
    /\ \/ Answer(c, "created") /\ UNCHANGED faults
       \/ Answer(c, "ERROR") /\ faults < MaxFaults /\ faults' = faults + 1
    /\ UNCHANGED <<projection, requests, changes>>

\* Any query may fail; inside the transaction that rolls it back.
Fault(c) ==
    /\ pc[c] # "idle"
    /\ faults < MaxFaults
    /\ faults' = faults + 1
    /\ Answer(c, "ERROR")
    /\ UNCHANGED <<projection, tables, requests, changes>>

-----------------------------------------------------------------------------
Serve(c) ==
    \/ CheckCode(c)
    \/ \E kind \in KindSet : ValidateReference(c, kind)
    \/ ValidateManager(c)
    \/ InsertEmployee(c)
    \/ InsertProfile(c)
    \/ InsertAssignment(c)
    \/ InsertOutbox(c)
    \/ Commit(c)

Next ==
    \/ ProjectionChanges
    \/ \E c \in Clients : Arrive(c) \/ Serve(c) \/ Fault(c)

Spec == Init /\ [][Next]_vars

\* The event loop runs every request whose query has returned.
FairSpec == Spec /\ \A c \in Clients : WF_vars(Serve(c))

-----------------------------------------------------------------------------
(* Properties                                                              *)

Ids == {e.id : e \in employees}

TypeOK ==
    /\ projection \in [Entities -> ProjectionRows]
    /\ \A e \in Entities : projection[e].company \in Homes[e]
    /\ \A e \in employees : e.status \in EmployeeStatuses
    /\ pc \in [Clients -> {"idle", "code", "manager", "commit"} \cup KindSet \cup TableSet]
    /\ request \in [Clients -> Requests \cup {NoRequest}]
    /\ id \in [Clients -> 0 .. MaxRequests]
    /\ tx \in [Clients -> SUBSET TableSet]
    /\ \A c \in Clients : \A seen \in wasActive[c] :
        seen[1] \in Entities /\ seen[2] \in Homes[seen[1]]
    /\ requests \in 0 .. MaxRequests
    /\ changes \in 0 .. MaxChanges
    /\ faults \in 0 .. MaxFaults

(* An employee code names one employee, although the look-up that answers   *)
(* DUPLICATE_EMPLOYEE_CODE is many awaits before the insert.                *)
CodesUnique ==
    \A e, f \in employees : e.code = f.code => e = f

(* SC-001 and SC-003 of specs/004: an employee, its profile, its assignment *)
(* and its directory.employee.created event exist together or not at all,   *)
(* whichever query fails and whether or not the commit was answered.        *)
AllOrNothing ==
    LET created == Ids \ {e.id : e \in Staff} IN
    /\ profiles = Ids
    /\ {a.id : a \in assignments} = created
    /\ outbox = created

(* US2: every entity an assignment names was ACTIVE at some moment while    *)
(* its request ran, however the projections moved between the look-ups.     *)
ReferencesWereActive ==
    \A a \in assignments : \A k \in DOMAIN a.refs :
        \E seen \in a.wasActive : seen[1] = a.refs[k]

(* FR-007: department and location belong to the assignment's company.  The *)
(* unit may be moved or deactivated at any await; there must have been one  *)
(* moment of the request at which it was both ACTIVE and in that company.   *)
OneOrganization ==
    \A a \in assignments : \A k \in DOMAIN a.refs \cap Units :
        <<a.refs[k], a.refs["company"]>> \in a.wasActive

(* FR-008: a manager is a committed employee who may manage, and never the  *)
(* employee itself, although the look-up precedes the transaction.          *)
ManagersCanManage ==
    \A a \in assignments : a.manager # None =>
        /\ a.manager # a.id
        /\ \E e \in employees :
            /\ e.id = a.manager
            /\ e.status \notin {"TERMINATED", "INACTIVE"}
            /\ e.employmentStatus \notin {"ENDED", "SUSPENDED"}

(* SC-001 of specs/004 as a refinement: whatever the requests in flight do, *)
(* the committed tables change only as the registry may: by one whole       *)
(* dossier, with a code nobody has and a manager who was there already.     *)
Registry == INSTANCE EmployeeRegistry WITH
    Founders  <- {[id |-> e.id, code |-> e.code] : e \in Staff},
    employees <- {[id |-> e.id, code |-> e.code] : e \in employees},
    reports   <- {[id |-> a.id, manager |-> a.manager] : a \in assignments},
    events    <- outbox

ImplementsRegistry == Registry!Spec

(* No request waits for ever, although inserts of the same code wait for    *)
(* each other's transactions.                                               *)
EveryRequestEnds == \A c \in Clients : pc[c] # "idle" ~> pc[c] = "idle"
=============================================================================
