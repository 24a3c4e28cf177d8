--------------------------- MODULE DirectoryProofs ---------------------------
(***************************************************************************)
(* Theorems about the composition, with any number of replicas: the        *)
(* requests do not disturb provisioning, provisioning keeps what           *)
(* EmployeeCreate assumes of its surroundings, and what a committed        *)
(* assignment names was published unless replicas raced meanwhile.  What   *)
(* was proved about the two components is instantiated, not repeated.      *)
(***************************************************************************)
EXTENDS Directory, TLAPS

PP == INSTANCE ProjectionRaceProofs WITH Kind <- "department", Envelopes <- {TRUE}

EP == INSTANCE EmployeeCreateProofs WITH
    Homes <- [e \in Entities |-> IF e = Department THEN Companies ELSE {None}],
    Projected <- [e \in Entities |->
        IF e = Department THEN [status |-> "ABSENT", company |-> CompanyAt[1]]
        ELSE [status |-> "ACTIVE", company |-> None]],
    Staff <- {},
    projection <- Rows, pc <- stage, MaxFaults <- 0, faults <- 0

-----------------------------------------------------------------------------
(* P and PP, and E and EP, are instances of the same modules, so their      *)
(* actions are the same.                                                    *)
LEMMA SameSetting == P!Setting <=> PP!Setting
BY DEF P!Setting, PP!Setting, P!SettingCreates, PP!SettingCreates,
  P!SettingUpdates, PP!SettingUpdates, P!SettingChangesStatus, PP!SettingChangesStatus,
  P!Publish, PP!Publish, P!envVars, PP!envVars, P!jobVars, PP!jobVars,
  P!pastVars, PP!pastVars,
  P!StatusTypes, PP!StatusTypes, P!EventTypes, PP!EventTypes, P!Handler, PP!Handler,
  P!Handlers, PP!Handlers, P!DepartmentHandler, PP!DepartmentHandler,
  P!CompanyHandler, PP!CompanyHandler, P!LocationHandler, PP!LocationHandler,
  P!GradeHandler, PP!GradeHandler, P!JobTitleHandler, PP!JobTitleHandler,
  P!Upsert, PP!Upsert

LEMMA SameHandling ==
  ASSUME NEW w \in Workers
  PROVE  /\ P!Handle(w) <=> PP!Handle(w)
         /\ P!Disturb(w) <=> PP!Disturb(w)
<1> USE DEF P!envVars, PP!envVars, P!pastVars, PP!pastVars, P!jobVars, PP!jobVars, P!held, PP!held,
  P!EventTypes, PP!EventTypes, P!Handler, PP!Handler,
  P!Handlers, PP!Handlers, P!DepartmentHandler, PP!DepartmentHandler,
  P!CompanyHandler, PP!CompanyHandler, P!LocationHandler, PP!LocationHandler,
  P!GradeHandler, PP!GradeHandler, P!JobTitleHandler, PP!JobTitleHandler,
  P!Upsert, PP!Upsert, P!Effect, PP!Effect, P!NoStatus, PP!NoStatus, P!Absent, PP!Absent,
  P!Exists, PP!Exists, P!Payload, PP!Payload, P!Published, PP!Published,
  P!Topic, PP!Topic, P!IsHead, PP!IsHead, P!Goto, PP!Goto, P!Begin, PP!Begin,
  P!Start, PP!Start, P!Restart, PP!Restart, P!Finish, PP!Finish, P!Return, PP!Return,
  P!Proceed, PP!Proceed, P!Save, PP!Save, P!Stale, PP!Stale, P!Changed, PP!Changed,
  P!Saved, PP!Saved, P!InsertConflict, PP!InsertConflict, P!HandlerThrows, PP!HandlerThrows,
  P!Checked, PP!Checked, P!Remember, PP!Remember
<1>1. P!Handle(w) <=> PP!Handle(w)
  BY DEF P!Handle, PP!Handle, P!Deliver, PP!Deliver, P!StaleCheck, PP!StaleCheck,
    P!UpsertProjection, PP!UpsertProjection, P!UpdateStatus, PP!UpdateStatus,
    P!SaveLoads, PP!SaveLoads, P!SaveWrites, PP!SaveWrites,
    P!InsertFails, PP!InsertFails, P!Ack, PP!Ack
<1>2. P!Disturb(w) <=> PP!Disturb(w)
  BY DEF P!Disturb, PP!Disturb, P!DatabaseFault, PP!DatabaseFault, P!Crash, PP!Crash,
    P!Rebalance, PP!Rebalance
<1>3. QED BY <1>1, <1>2

LEMMA SameServe ==
  ASSUME NEW c \in Clients
  PROVE  E!Serve(c) <=> EP!Serve(c)
BY DEF E!Serve, EP!Serve, E!CheckCode, EP!CheckCode,
  E!ValidateReference, EP!ValidateReference, E!ValidateManager, EP!ValidateManager,
  E!InsertEmployee, EP!InsertEmployee, E!InsertProfile, EP!InsertProfile,
  E!InsertAssignment, EP!InsertAssignment, E!InsertOutbox, EP!InsertOutbox,
  E!Commit, EP!Commit, E!KindSet, EP!KindSet, E!Kinds, EP!Kinds, E!Answer, EP!Answer,
  E!Answers, EP!Answers, E!NoRequest, EP!NoRequest, E!NotFound, EP!NotFound,
  E!Goto, EP!Goto, E!NextStep, EP!NextStep, E!Position, EP!Position,
  E!IsActive, EP!IsActive, E!Units, EP!Units, E!EligibleManager, EP!EligibleManager,
  E!CodeTaken, EP!CodeTaken, E!CodeLocked, EP!CodeLocked, E!InsertInto, EP!InsertInto,
  E!With, EP!With, E!EmployeeRow, EP!EmployeeRow, E!AssignmentRow, EP!AssignmentRow,
  E!tables, EP!tables

LEMMA SameArrivals ==
  /\ E!Init <=> EP!Init
  /\ E!vars = EP!vars
  /\ E!ProjectionChanges <=> EP!ProjectionChanges
  /\ \A c \in Clients : E!Arrive(c) <=> EP!Arrive(c)
BY DEF E!Init, EP!Init, E!NoRequest, EP!NoRequest, E!vars, EP!vars, E!tables, EP!tables,
  E!clientVars, EP!clientVars, E!ProjectionChanges, EP!ProjectionChanges,
  E!Witness, EP!Witness, E!ActiveOf, EP!ActiveOf, E!Arrive, EP!Arrive

-----------------------------------------------------------------------------
(* The constants the components get satisfy what their proofs assume.       *)
LEMMA ProvisioningAssumptions ==
  /\ "department" \in DOMAIN PP!Handlers
  /\ {"ACTIVE", "INACTIVE"} \subseteq Statuses
  /\ FailedCount \in Nat \ {0} /\ MaxVersion \in Nat /\ MaxFaults \in Nat
  /\ MaxCrashes \in Nat /\ MaxRebalances \in Nat
BY StatusesAssumption, BoundsAssumption DEF PP!Handlers

HomesOf == [e \in Entities |-> IF e = Department THEN Companies ELSE {None}]
AtFirst ==
    [e \in Entities |->
        IF e = Department THEN [status |-> "ABSENT", company |-> CompanyAt[1]]
        ELSE [status |-> "ACTIVE", company |-> None]]

LEMMA CreationAssumptions ==
  /\ AtFirst \in [Entities -> EP!ProjectionRows]
  /\ \A e \in Entities : AtFirst[e].company \in HomesOf[e]
  /\ \A body \in Requests :
        /\ "company" \in DOMAIN body.refs
        /\ DOMAIN body.refs \subseteq EP!KindSet
        /\ \A k \in DOMAIN body.refs : body.refs[k] \in Entities
  /\ MaxRequests \in Nat /\ MaxChanges \in Nat /\ 0 \in Nat
<1>1. CompanyAt[1] \in Companies
  BY CompanyAtAssumption
<1>2. \A e \in Entities : AtFirst[e].company \in HomesOf[e]
  BY <1>1 DEF AtFirst, HomesOf
<1>3. AtFirst \in [Entities -> EP!ProjectionRows]
  <2> SUFFICES ASSUME NEW e \in Entities
               PROVE  AtFirst[e] \in EP!ProjectionRows
    BY DEF AtFirst
  <2>1. AtFirst[e].company \in UNION {HomesOf[x] : x \in Entities}
    BY <1>2
  <2>2. AtFirst[e] \in [status : EP!ProjectionStatuses,
                         company : UNION {HomesOf[x] : x \in Entities}]
    BY <2>1 DEF AtFirst, EP!ProjectionStatuses
  <2>3. QED BY <2>2 DEF EP!ProjectionRows, HomesOf
<1>4. {"company", "department", "location", "grade", "jobTitle"} \subseteq EP!KindSet
  BY DEF EP!KindSet, EP!Kinds
<1>5. QED BY <1>2, <1>3, <1>4, RequestsAssumption, BoundsAssumption

LEMMA ProvisioningInvariants ==
  PP!Spec => [](PP!RaceInv /\ PP!CleanInv /\ PP!ReplicaInv)
<1>1. PP!Spec => []PP!RaceInv
  BY PP!RaceInvHolds, ProvisioningAssumptions
<1>2. PP!Spec => []PP!CleanInv
  BY PP!CleanInvHolds, ProvisioningAssumptions
<1>3. PP!Spec => []PP!ReplicaInv
  BY PP!ReplicaInvHolds, ProvisioningAssumptions
<1>4. QED BY <1>1, <1>2, <1>3, PTL

LEMMA ValidStep == EP!ValidInv /\ [EP!Next]_(EP!vars) => EP!ValidInv'
BY EP!ValidStep, CreationAssumptions DEF AtFirst, HomesOf

LEMMA RegistryStep == EP!RegistryInv /\ [EP!Next]_(EP!vars) => EP!RegistryInv'
BY EP!RegistryStep, CreationAssumptions DEF AtFirst, HomesOf

-----------------------------------------------------------------------------
(* Provisioning, undisturbed by the requests.                               *)

ProvisionInv == PP!RaceInv /\ PP!CleanInv /\ PP!ReplicaInv

LEMMA ProvisionStep == [Next]_vars => [PP!Next]_(PP!vars)
<1> SUFFICES ASSUME [Next]_vars PROVE [PP!Next]_(PP!vars)
  OBVIOUS
<1>1. UNCHANGED provisionVars => UNCHANGED PP!vars
  BY DEF provisionVars, PP!vars, PP!jobVars, PP!envVars, PP!pastVars
<1>2. CASE Publish
  BY <1>2, SameSetting DEF Publish, Beside, PP!Next
<1>3. ASSUME NEW w \in Workers, Provision(w) \/ Fail(w)
      PROVE  PP!Next
  BY <1>3, SameHandling DEF Provision, Fail, Beside, PP!Next
<1>4. QED BY <1>1, <1>2, <1>3
          DEF Next, vars, CreateArrives, CreateProceeds, UpdateArrives, UpdateProceeds

LEMMA SameProvisionInit == P!Init <=> PP!Init
BY DEF P!Init, PP!Init, P!Absent, PP!Absent, P!NoStatus, PP!NoStatus

LEMMA ProvisionInvHolds == Spec => []ProvisionInv
<1>1. Init => PP!Init
  BY SameProvisionInit DEF Init
<1>2. [Next]_vars => [PP!Next]_(PP!vars)
  BY ProvisionStep
<1>3. Spec => PP!Spec
  BY <1>1, <1>2, PTL DEF Spec, PP!Spec
<1>4. QED BY <1>3, ProvisioningInvariants, PTL DEF ProvisionInv

(* What the requests find in the department's row: columns that were        *)
(* published.  Since the only status event of a department deactivates it,  *)
(* a row that is ACTIVE and was not torn was written by an upsert and is    *)
(* the published state of its version as a whole.                           *)
SoundRow ==
    /\ row.version \in Nat /\ peak \in Nat
    /\ hist \in Seq(PP!Event) /\ Len(hist) \in Nat
    /\ ~torn => row.version = peak
    /\ row.version > 0 =>
        /\ row.status \in {"ACTIVE", "INACTIVE"}
        /\ row.attrs \in 1 .. Len(hist)
        /\ ~torn /\ row.status = "ACTIVE" =>
            /\ row.version \in 1 .. Len(hist)
            /\ hist[row.version].status = "ACTIVE"
            /\ hist[row.version].attrs = row.attrs

LEMMA RowIsSound == ProvisionInv => SoundRow
<1> SUFFICES ASSUME ProvisionInv PROVE SoundRow
  OBVIOUS
<1>1. PP!TypeOK /\ PP!StatusEventsAgree /\ PP!AttrsAge
  BY DEF ProvisionInv, PP!RaceInv, PP!CleanInv, PP!TypeInv
<1>2. /\ row.version \in Nat /\ peak \in Nat /\ hist \in Seq(PP!Event) /\ Len(hist) \in Nat
      /\ PP!Published = 1 .. Len(hist)
  BY <1>1 DEF PP!TypeOK, PP!Row, PP!Published
<1>2a. \A v \in 1 .. Len(hist) : hist[v] \in PP!Event
  BY <1>2
<1>3. ASSUME row.version > 0
      PROVE  /\ row.status \in {"ACTIVE", "INACTIVE"}
             /\ row.attrs \in 1 .. Len(hist)
  <2>1. PP!PublishedAttrs(row.attrs) /\ PP!PublishedStatus(row.status)
    BY <1>3 DEF ProvisionInv, PP!ReplicaInv, PP!Sound, PP!Exists
  <2>2. PICK v \in 1 .. Len(hist) : row.status = hist[v].status
    BY <1>2, <2>1 DEF PP!PublishedStatus
  <2>3. hist[v].status \in {"ACTIVE", "INACTIVE"}
    BY <1>2a, StatusesAssumption DEF PP!Event
  <2>4. PICK u \in 1 .. Len(hist) : row.attrs = hist[u].attrs
    BY <1>2, <2>1 DEF PP!PublishedAttrs
  <2>5. hist[u].attrs \in 1 .. u
    BY <1>1, <1>2 DEF PP!AttrsAge
  <2>6. QED BY <1>2, <2>2, <2>3, <2>4, <2>5
<1>4. ~torn => row.version = peak
  BY DEF ProvisionInv, PP!CleanInv, PP!CleanRow
<1>5. ASSUME row.version > 0, ~torn
      PROVE  /\ row.version \in 1 .. Len(hist)
             /\ row.status = hist[row.version].status
             /\ PP!Effect(row.version) = PP!Upsert => row.attrs = hist[row.version].attrs
  BY <1>2, <1>5 DEF ProvisionInv, PP!CleanInv, PP!CleanRow, PP!AtMostBehind, PP!Exists
<1>6. ASSUME row.version > 0, ~torn, row.status = "ACTIVE"
      PROVE  PP!Effect(row.version) = PP!Upsert
  <2>1. hist[row.version].type \in DOMAIN PP!Handler
    BY <1>2a, <1>5, <1>6 DEF PP!Event, PP!EventTypes
  <2>2. PP!Effect(row.version) \in {PP!Upsert, "INACTIVE"}
    BY <2>1 DEF PP!Effect, PP!Handler, PP!Handlers, PP!DepartmentHandler
  <2>3. PP!Effect(row.version) # PP!Upsert => row.status = PP!Effect(row.version)
    BY <1>1, <1>2, <1>5, <1>6 DEF PP!StatusEventsAgree
  <2>4. QED BY <1>6, <2>2, <2>3
<1>7. QED BY <1>2, <1>3, <1>4, <1>5, <1>6 DEF SoundRow

LEMMA RowStaysSound == ProvisionInv' => SoundRow'
BY RowIsSound, PTL

LEMMA RowsAre ==
  /\ Rows \in [Entities -> {Rows[e] : e \in Entities}]
  /\ Department \in Entities
  /\ \A e \in Entities \ {Department} : Rows[e] = [status |-> "ACTIVE", company |-> None]
  /\ row.version = 0 => Rows[Department] = [status |-> "ABSENT", company |-> CompanyAt[1]]
  /\ row.version # 0 =>
        Rows[Department] = [status |-> row.status, company |-> CompanyOf(row.attrs)]
BY DEF Rows, Entities

(* The company of the department's row is one it may belong to.             *)
KnownCompany ==
    row.version > 0 => /\ CompanyOf(row.attrs) = CompanyAt[row.attrs]
                       /\ CompanyOf(row.attrs) \in Companies

LEMMA CompanyIsKnown == SoundRow /\ Len(hist) <= MaxVersion => KnownCompany
<1> SUFFICES ASSUME SoundRow, Len(hist) <= MaxVersion, row.version > 0
             PROVE  /\ CompanyOf(row.attrs) = CompanyAt[row.attrs]
                    /\ CompanyOf(row.attrs) \in Companies
  BY DEF KnownCompany
<1>1. row.attrs \in 1 .. Len(CompanyAt)
  BY CompanyAtAssumption, BoundsAssumption DEF SoundRow
<1>2. QED BY <1>1, CompanyAtAssumption DEF CompanyOf

LEMMA CompanyStaysKnown == (SoundRow /\ Len(hist) <= MaxVersion)' => KnownCompany'
BY CompanyIsKnown, PTL

-----------------------------------------------------------------------------
(* The refinement of EmployeeCreate: what the handlers do to the row is, to *)
(* the requests, ProjectionChanges.                                         *)

Counted == changes \in Nat /\ Len(hist) <= MaxVersion

IdleForgets == \A c \in Clients : stage[c] = "idle" => wasActive[c] = {}

CreateInv ==
    /\ EP!ValidInv
    /\ EP!RegistryInv
    /\ Counted
    /\ IdleForgets

(* Setting publishes one version at a time, up to the bound.                *)
LEMMA HistoryIsBounded ==
  ASSUME ProvisionInv, Len(hist) <= MaxVersion, [PP!Next]_(PP!vars)
  PROVE  Len(hist') <= MaxVersion /\ \A v \in DOMAIN hist : hist'[v] = hist[v] /\ v \in DOMAIN hist'
<1>1. PP!TypeOK /\ PP!TypeInv /\ hist \in Seq(PP!Event) /\ Len(hist) \in Nat
  BY DEF ProvisionInv, PP!RaceInv, PP!TypeInv, PP!TypeOK
<1>2. CASE PP!Setting
  <2>1. Len(hist) < MaxVersion
    BY <1>2 DEF PP!Setting, PP!SettingCreates, PP!SettingUpdates,
                PP!SettingChangesStatus, PP!Publish
  <2>2. /\ Len(hist') = Len(hist) + 1 /\ hist' \in Seq(PP!Event)
        /\ \A v \in PP!Published : hist'[v] = hist[v]
    BY <1>1, <1>2, PP!PublishAppends, ProvisioningAssumptions
  <2>3. QED BY <1>1, <2>1, <2>2, BoundsAssumption DEF PP!Published
<1>3. CASE \E w \in Workers : PP!Handle(w) \/ PP!Disturb(w)
  <2>1. PICK w \in Workers : PP!Handle(w) \/ PP!Disturb(w)
    BY <1>3
  <2>2. hist' = hist
    BY <1>1, <2>1, PP!Moves, ProvisioningAssumptions
  <2>3. QED BY <2>2
<1>4. CASE UNCHANGED PP!vars
  BY <1>4 DEF PP!vars
<1>5. QED BY <1>2, <1>3, <1>4 DEF PP!Next

(* The row does not go away.                                                *)
LEMMA RowIsKept ==
  ASSUME ProvisionInv, [PP!Next]_(PP!vars), row.version > 0
  PROVE  row'.version > 0
BY PP!RowStays, ProvisioningAssumptions DEF ProvisionInv, PP!Exists

(* A step of provisioning that changes what requests find gives the         *)
(* department one other state of a row that exists.                         *)
LEMMA RowsChange ==
  ASSUME ProvisionInv, ProvisionInv', Len(hist) <= MaxVersion,
         [PP!Next]_(PP!vars), Rows' # Rows
  PROVE  LET new == [status |-> row'.status, company |-> CompanyOf(row'.attrs)] IN
         /\ row'.status \in {"ACTIVE", "INACTIVE"}
         /\ new.company \in Companies
         /\ Rows[Department] # new
         /\ Rows' = [Rows EXCEPT ![Department] = new]
<1> DEFINE new == [status |-> row'.status, company |-> CompanyOf(row'.attrs)]
<1>1. row.version \in Nat /\ row'.version \in Nat
  BY RowIsSound, RowStaysSound DEF SoundRow
<1>2. row'.version > 0
  <2>1. CASE row.version > 0
    BY <2>1, RowIsKept
  <2>2. CASE ~(row.version > 0)
    <3>1. row.version = 0
      BY <1>1, <2>2
    <3>2. row'.version # 0
      BY <3>1 DEF Rows
    <3>3. QED BY <1>1, <3>2
  <2>3. QED BY <2>1, <2>2
<1>3. /\ row'.status \in {"ACTIVE", "INACTIVE"}
      /\ CompanyOf(row'.attrs) \in Companies
  <2>1. KnownCompany'
    BY CompanyStaysKnown, RowStaysSound, HistoryIsBounded
  <2>2. QED BY <1>2, <2>1, RowStaysSound DEF SoundRow, KnownCompany, CompanyOf
<1>4. /\ DOMAIN Rows = Entities /\ DOMAIN Rows' = Entities /\ Department \in Entities
      /\ \A e \in Entities \ {Department} : Rows'[e] = Rows[e]
      /\ Rows'[Department] = new
  BY <1>2 DEF Rows, Entities, CompanyOf
<1>5. Rows = [e \in Entities |-> Rows[e]] /\ Rows' = [e \in Entities |-> Rows'[e]]
  BY DEF Rows
<1>6. Rows' = [Rows EXCEPT ![Department] = new]
  <2> HIDE DEF new
  <2>1. \A e \in Entities : Rows'[e] = [Rows EXCEPT ![Department] = new][e]
    BY <1>4
  <2>2. QED BY <1>4, <1>5, <2>1
<1>7. Rows[Department] # new
  BY <1>4, <1>5
<1>8. QED BY <1>3, <1>6, <1>7

LEMMA ProvisioningImplementsChange ==
  ASSUME ProvisionInv, ProvisionInv', CreateInv, [PP!Next]_(PP!vars),
         NEW provisioning, Beside(provisioning)
  PROVE  [E!Next]_(E!vars) /\ Counted' /\ IdleForgets'
<1>1. Len(hist') <= MaxVersion /\ changes \in Nat /\ Len(hist) <= MaxVersion
  BY HistoryIsBounded DEF CreateInv, Counted
<1>2. /\ UNCHANGED <<employees, profiles, assignments, outbox, stage, request, id, tx, requests>>
      /\ IF Rows' = Rows THEN UNCHANGED changes
         ELSE changes < MaxChanges /\ changes' = changes + 1
      /\ E!Witness(Rows')
  BY DEF Beside, createVars
<1>3. IdleForgets'
  BY <1>2 DEF E!Witness, IdleForgets
<1>4. CASE Rows' = Rows
  <2>1. wasActive' = wasActive
    <3>1. wasActive \in [Clients -> SUBSET (Entities \X EP!AllHomes)]
      BY DEF CreateInv, EP!ValidInv, EP!TypeInv, EP!ClientsTyped
    <3>2. \A c \in Clients : wasActive'[c] = wasActive[c]
      BY <1>2, <1>4, <3>1 DEF E!Witness, CreateInv, IdleForgets, EP!ValidInv, EP!Validated,
         E!ActiveOf, EP!ActiveOf
    <3>3. wasActive' = [c \in Clients |-> wasActive'[c]]
      BY <1>2 DEF E!Witness
    <3>4. QED BY <3>1, <3>2, <3>3
  <2>2. QED BY <1>1, <1>2, <1>3, <1>4, <2>1 DEF E!vars, E!tables, E!clientVars, Counted
<1>5. CASE Rows' # Rows
  <2> DEFINE new == [status |-> row'.status, company |-> CompanyOf(row'.attrs)]
  <2>1. /\ row'.status \in {"ACTIVE", "INACTIVE"}
        /\ CompanyOf(row'.attrs) \in Companies
        /\ Rows[Department] # new
        /\ Rows' = [Rows EXCEPT ![Department] = new]
    BY <1>1, <1>5, RowsChange
  <2>2. changes < MaxChanges /\ changes' = changes + 1
    BY <1>2, <1>5
  <2>3. Department \in Entities
    BY DEF Entities
  <2>4. \E e \in Entities, s \in {"ACTIVE", "INACTIVE"} :
          \E company \in [x \in Entities |-> IF x = Department THEN Companies ELSE {None}][e] :
            /\ Rows[e] # [status |-> s, company |-> company]
            /\ Rows' = [Rows EXCEPT ![e] = [status |-> s, company |-> company]]
    BY <2>1, <2>3
  <2>5. E!ProjectionChanges
    BY <1>2, <2>2, <2>4 DEF E!ProjectionChanges, E!tables, E!clientVars
  <2>6. QED BY <1>1, <1>3, <2>2, <2>5 DEF E!Next, Counted
<1>6. QED BY <1>4, <1>5

(* E and EP take the same steps: no step of the composition is a fault.     *)
LEMMA SameCreateStep == [E!Next]_(E!vars) => [EP!Next]_(EP!vars)
<1>1. \A c \in Clients : ~E!Fault(c)
  BY DEF E!Fault
<1>2. E!Next => EP!Next
  BY <1>1, SameArrivals, SameServe DEF E!Next, EP!Next
<1>3. UNCHANGED E!vars => UNCHANGED EP!vars
  BY DEF E!vars, EP!vars, E!tables, EP!tables, E!clientVars, EP!clientVars
<1>4. QED BY <1>2, <1>3

LEMMA CreateInit == Init => E!Init /\ CreateInv
<1> SUFFICES ASSUME Init PROVE E!Init /\ CreateInv
  OBVIOUS
<1>1. E!Init
  BY DEF Init
<1>2. EP!Init
  BY <1>1, SameArrivals
<1>3. EP!ValidInv /\ EP!RegistryInv
  BY <1>2, EP!ValidInit, EP!RegistryInit, CreationAssumptions DEF AtFirst, HomesOf
<1>4. hist = <<>> /\ row.version = 0
  BY DEF Init, P!Init, P!Absent
<1>5. Counted
  BY <1>1, <1>4, BoundsAssumption DEF E!Init, Counted
<1>6. IdleForgets
  BY <1>1 DEF E!Init, IdleForgets
<1>7. QED BY <1>1, <1>3, <1>5, <1>6 DEF CreateInv

(* A request that goes on adds nothing to its history, and forgets it when  *)
(* it is answered.                                                          *)
LEMMA ServeForgets ==
  ASSUME CreateInv, NEW c \in Clients, E!Serve(c)
  PROVE  /\ changes' = changes
         /\ stage[c] # "idle"
         /\ wasActive'[c] = IF stage'[c] = "idle" THEN {} ELSE wasActive[c]
         /\ \A b \in Clients \ {c} :
               stage'[b] = stage[b] /\ wasActive'[b] = wasActive[b]
<1> DEFINE Kept ==
      /\ wasActive'[c] = IF stage'[c] = "idle" THEN {} ELSE wasActive[c]
      /\ \A b \in Clients \ {c} :
            stage'[b] = stage[b] /\ wasActive'[b] = wasActive[b]
<1>1. /\ stage \in [Clients -> EP!Labels]
      /\ wasActive \in [Clients -> SUBSET (Entities \X EP!AllHomes)]
  BY DEF CreateInv, EP!ValidInv, EP!TypeInv, EP!ClientsTyped
<1>2. ASSUME NEW answer, E!Answer(c, answer) PROVE Kept
  BY <1>1, <1>2 DEF E!Answer
<1>3. ASSUME NEW label, label # "idle", stage' = [stage EXCEPT ![c] = label],
             wasActive' = wasActive
      PROVE  Kept
  BY <1>1, <1>3
<1> HIDE DEF Kept
<1>4. ASSUME E!CheckCode(c) PROVE Kept
  BY <1>2, <1>3, <1>4 DEF E!CheckCode, E!Goto
<1>5. ASSUME NEW kind \in E!KindSet, E!ValidateReference(c, kind)
      PROVE  Kept /\ changes' = changes
  <2>1. kind \in EP!KindSet /\ E!NextStep(c, kind) = EP!NextStep(c, kind)
    BY DEF E!KindSet, EP!KindSet, E!Kinds, EP!Kinds, E!NextStep, EP!NextStep,
           E!Position, EP!Position
  <2>2. /\ EP!NextStep(c, kind) \in EP!KindSet \cup {"manager", "employee"}
        /\ EP!KindSet = {"company", "department", "location", "grade", "jobTitle"}
    BY <2>1, EP!NextStepSkipsNone, EP!KindFacts, CreationAssumptions DEF AtFirst, HomesOf
  <2>3. E!NextStep(c, kind) # "idle"
    BY <2>1, <2>2
  <2>4. QED BY <1>2, <1>3, <1>5, <2>3 DEF E!ValidateReference, E!Goto
<1>6. ASSUME E!ValidateManager(c) PROVE Kept
  BY <1>2, <1>3, <1>6 DEF E!ValidateManager, E!Goto
<1>7. ASSUME E!InsertEmployee(c) PROVE Kept
  BY <1>2, <1>3, <1>7 DEF E!InsertEmployee, E!InsertInto
<1>8. ASSUME E!InsertProfile(c) \/ E!InsertAssignment(c) \/ E!InsertOutbox(c)
      PROVE  Kept
  BY <1>3, <1>8 DEF E!InsertProfile, E!InsertAssignment, E!InsertOutbox, E!InsertInto
<1>9. ASSUME E!Commit(c) PROVE Kept
  BY <1>2, <1>9 DEF E!Commit
<1>10. Kept
  BY <1>4, <1>5, <1>6, <1>7, <1>8, <1>9 DEF E!Serve
<1>11. changes' = changes
  BY <1>5 DEF E!Serve, E!CheckCode, E!ValidateManager, E!InsertEmployee,
     E!InsertProfile, E!InsertAssignment, E!InsertOutbox, E!Commit
<1>12. stage[c] # "idle"
  BY DEF E!Serve, E!CheckCode, E!ValidateReference, E!ValidateManager, E!InsertEmployee,
     E!InsertProfile, E!InsertAssignment, E!InsertOutbox, E!Commit, E!KindSet, E!Kinds
<1>13. QED BY <1>10, <1>11, <1>12 DEF Kept

(* A step of a request leaves provisioning alone.                           *)
LEMMA RequestImplementsStep ==
  ASSUME CreateInv, NEW c \in Clients, CreateArrives(c) \/ CreateProceeds(c)
  PROVE  E!Next /\ Counted' /\ IdleForgets'
<1>1. row' = row /\ hist' = hist
  BY DEF CreateArrives, CreateProceeds, provisionVars
<1>2. E!Arrive(c) \/ E!Serve(c)
  BY DEF CreateArrives, CreateProceeds
<1>3. E!Next
  BY <1>2 DEF E!Next
<1>4. IdleForgets' /\ changes' = changes
  <2>1. CASE E!Arrive(c)
    BY <2>1 DEF E!Arrive, CreateInv, IdleForgets, EP!ValidInv, EP!TypeInv, EP!ClientsTyped
  <2>2. CASE E!Serve(c)
    BY <2>2, ServeForgets DEF CreateInv, IdleForgets
  <2>3. QED BY <1>2, <2>1, <2>2
<1>5. QED BY <1>1, <1>3, <1>4 DEF CreateInv, Counted

LEMMA CreateStep ==
  ASSUME ProvisionInv, ProvisionInv', CreateInv, [Next]_vars
  PROVE  [E!Next]_(E!vars) /\ CreateInv'
<1>1. [PP!Next]_(PP!vars)
  BY ProvisionStep
<1>2. [E!Next]_(E!vars) /\ Counted' /\ IdleForgets'
  <2>1. CASE Publish
    BY <1>1, <2>1, ProvisioningImplementsChange DEF Publish
  <2>2. ASSUME NEW w \in Workers, Provision(w) \/ Fail(w)
        PROVE  [E!Next]_(E!vars) /\ Counted' /\ IdleForgets'
    BY <1>1, <2>2, ProvisioningImplementsChange DEF Provision, Fail
  <2>3. ASSUME NEW c \in Clients, CreateArrives(c) \/ CreateProceeds(c)
        PROVE  [E!Next]_(E!vars) /\ Counted' /\ IdleForgets'
    BY <2>3, RequestImplementsStep
  <2>4. ASSUME UNCHANGED <<provisionVars, createVars, wasActive, changes>>
        PROVE  [E!Next]_(E!vars) /\ Counted' /\ IdleForgets'
    <3>1. row' = row /\ hist' = hist /\ Rows' = Rows
      BY <2>4 DEF provisionVars, Rows
    <3>2. UNCHANGED E!vars
      BY <2>4, <3>1 DEF createVars, E!vars, E!tables, E!clientVars
    <3>3. stage' = stage /\ wasActive' = wasActive /\ changes' = changes
      BY <2>4 DEF createVars
    <3>4. Counted' /\ IdleForgets'
      BY <3>1, <3>3 DEF CreateInv, Counted, IdleForgets
    <3>5. QED BY <3>2, <3>4
  <2>5. ASSUME NEW u \in Updaters, UpdateArrives(u) \/ UpdateProceeds(u)
        PROVE  [E!Next]_(E!vars) /\ Counted' /\ IdleForgets'
    BY <2>4, <2>5 DEF UpdateArrives, UpdateProceeds
  <2>6. CASE UNCHANGED vars
    BY <2>4, <2>6 DEF vars
  <2>7. QED BY <2>1, <2>2, <2>3, <2>5, <2>6 DEF Next
<1>3. EP!ValidInv' /\ EP!RegistryInv'
  BY <1>2, SameCreateStep, ValidStep, RegistryStep DEF CreateInv
<1>4. QED BY <1>2, <1>3 DEF CreateInv

LEMMA CreateInvHolds == Spec => [](ProvisionInv /\ CreateInv)
<1>1. Init => CreateInv
  BY CreateInit
<1>2. ProvisionInv /\ ProvisionInv' /\ CreateInv /\ [Next]_vars => CreateInv'
  BY CreateStep
<1>3. QED BY <1>1, <1>2, ProvisionInvHolds, PTL DEF Spec

(* However many replicas race, retry, crash or reorder, their handlers are  *)
(* to the requests what EmployeeCreate assumes: rows change one at a time,  *)
(* are never deleted, and name a company the unit may belong to.  So every  *)
(* theorem of EmployeeCreateProofs holds of the composition.                *)
THEOREM DirectoryImplementsCreate == Spec => ImplementsCreate
<1>1. Init => E!Init
  BY CreateInit
<1>2. ProvisionInv /\ ProvisionInv' /\ CreateInv /\ [Next]_vars => [E!Next]_(E!vars)
  BY CreateStep
<1>3. QED BY <1>1, <1>2, CreateInvHolds, PTL DEF Spec, ImplementsCreate, E!Spec

-----------------------------------------------------------------------------
(* What a committed assignment names.  The department was seen ACTIVE in    *)
(* that company at some moment of the request.  Unless replicas had torn    *)
(* the row by then, a row that is ACTIVE is the published state of its      *)
(* version, which has not gone back since the request arrived.              *)

WasPublished(company, since) ==
    \E v \in DOMAIN hist :
        /\ v >= since
        /\ hist[v].status = "ACTIVE"
        /\ CompanyAt[hist[v].attrs] = company

ShownBefore ==
    /\ shown \in [Clients -> Nat \cup {Unsure}]
    /\ \A c \in Clients : stage[c] # "idle" /\ shown[c] # Unsure =>
        ~torn /\ shown[c] <= row.version

SeenPublished ==
    \A c \in Clients : shown[c] # Unsure =>
        \A s \in wasActive[c] :
            s[1] = Department => WasPublished(s[2], shown[c])

ShownToAssigned ==
    /\ shownTo \in Seq([id : Nat, version : Nat])
    /\ \A i \in DOMAIN shownTo : \E a \in assignments : a.id = shownTo[i].id

PlacedInv ==
    /\ ShownBefore
    /\ SeenPublished
    /\ ShownToAssigned
    /\ PlacementsWerePublished

(* What a request would find in the row now.                                *)
RowShows ==
    ~torn /\ Rows[Department].status = "ACTIVE" =>
        \A since \in Nat : since <= row.version =>
            WasPublished(Rows[Department].company, since)

LEMMA RowIsPublished == SoundRow /\ Len(hist) <= MaxVersion => RowShows
<1> SUFFICES ASSUME SoundRow, Len(hist) <= MaxVersion, ~torn,
                    Rows[Department].status = "ACTIVE",
                    NEW since \in Nat, since <= row.version
             PROVE  WasPublished(Rows[Department].company, since)
  BY DEF RowShows
<1>1. row.version \in Nat /\ row.version # 0
  <2>1. row.version = 0 => Rows[Department].status = "ABSENT"
    BY RowsAre
  <2>2. QED BY <2>1 DEF SoundRow
<1>2. row.status = "ACTIVE" /\ Rows[Department].company = CompanyOf(row.attrs)
  BY <1>1, RowsAre
<1>3. /\ row.version \in DOMAIN hist
      /\ hist[row.version].status = "ACTIVE" /\ hist[row.version].attrs = row.attrs
  BY <1>1, <1>2 DEF SoundRow
<1>4. CompanyAt[row.attrs] = CompanyOf(row.attrs)
  BY <1>1, CompanyIsKnown DEF KnownCompany
<1>5. QED BY <1>2, <1>3, <1>4 DEF WasPublished

LEMMA RowStaysPublished == (SoundRow /\ Len(hist) <= MaxVersion)' => RowShows'
BY RowIsPublished, PTL

(* A look-up sees the department only through its row.                      *)
LEMMA SightOfDepartment ==
  ASSUME NEW body \in Requests, NEW rows,
         NEW s \in E!ActiveOf(body, rows), s[1] = Department
  PROVE  s[2] = rows[Department].company /\ rows[Department].status = "ACTIVE"
BY DEF E!ActiveOf

(* A department that a request has validated is the one the handlers        *)
(* project: the other entities belong to no company.                        *)
LEMMA ValidatedDepartment ==
  ASSUME CreateInv, NEW c \in Clients, stage[c] = "commit",
         "department" \in DOMAIN request[c].refs
  PROVE  <<Department, request[c].refs["company"]>> \in wasActive[c]
<1> DEFINE refs == request[c].refs
<1>1. request[c] \in Requests
  BY DEF CreateInv, EP!ValidInv, EP!TypeInv, EP!ClientsTyped, EP!Consistent
<1>2. "department" \in EP!Passed(c)
  <2>1. "commit" \notin EP!KindSet
    BY EP!KindFacts, CreationAssumptions DEF AtFirst, HomesOf
  <2>2. QED BY <2>1 DEF EP!Passed
<1>3. <<refs["department"], refs["company"]>> \in wasActive[c]
  BY <1>2 DEF CreateInv, EP!ValidInv, EP!Validated, EP!WasValid, EP!Units
<1>4. /\ refs["department"] \in Entities
      /\ refs["company"] \in HomesOf[refs["department"]]
  <2>1. \A seen2 \in wasActive[c] :
          seen2[1] \in Entities /\ seen2[2] \in HomesOf[seen2[1]]
    BY DEF CreateInv, EP!ValidInv, EP!TypeInv, EP!ClientsTyped, HomesOf
  <2>2. QED BY <1>3, <2>1
<1>5. refs["company"] \in Entities
  BY <1>1, RequestsAssumption
<1>6. refs["department"] = Department
  BY <1>4, <1>5, EntitiesAssumption DEF HomesOf
<1>7. QED BY <1>3, <1>6

(* What was published stays published.                                      *)
LEMMA PublishedStays ==
  ASSUME \A v \in DOMAIN hist : hist'[v] = hist[v] /\ v \in DOMAIN hist',
         NEW company, NEW since, WasPublished(company, since)
  PROVE  WasPublished(company, since)'
BY DEF WasPublished

LEMMA AppendFacts ==
  ASSUME NEW S, NEW s \in Seq(S), NEW e \in S
  PROVE  /\ Append(s, e) \in Seq(S)
         /\ \A i \in DOMAIN Append(s, e) :
               \/ i \in DOMAIN s /\ Append(s, e)[i] = s[i]
               \/ Append(s, e)[i] = e
OBVIOUS

LEMMA CommitPlaces ==
  ASSUME CreateInv, PlacedInv, NEW c \in Clients, EP!Commit(c), hist' = hist,
         shownTo' = IF assignments' = assignments \/ shown[c] = Unsure THEN shownTo
                    ELSE Append(shownTo, [id |-> id[c], version |-> shown[c]])
  PROVE  ShownToAssigned' /\ PlacementsWerePublished'
<1> DEFINE new == EP!AssignmentRow(c)
           entry == [id |-> id[c], version |-> shown[c]]
           Entries == [id : Nat, version : Nat]
<1>1. /\ stage[c] = "commit"
      /\ assignments' = assignments \cup {new}
      /\ id[c] \notin EP!Ids
  BY EP!CommitFacts, CreationAssumptions DEF CreateInv, AtFirst, HomesOf
<1>2. new.id = id[c] /\ new.refs = request[c].refs
  BY DEF EP!AssignmentRow
<1>3. \A a \in assignments : a.id # id[c]
  BY <1>1 DEF CreateInv, EP!RegistryInv, EP!AllOrNothing
<1>4. new \notin assignments /\ new \in assignments'
  BY <1>1, <1>2, <1>3
<1>5. /\ shownTo \in Seq(Entries)
      /\ \/ shownTo' = shownTo
         \/ shown[c] # Unsure /\ shownTo' = Append(shownTo, entry)
  BY <1>4 DEF PlacedInv, ShownToAssigned
<1>6. shown[c] # Unsure => entry \in Entries
  BY DEF PlacedInv, ShownBefore, CreateInv, EP!ValidInv, EP!TypeInv, EP!TypeOK
<1> HIDE DEF new, entry, Entries
<1>7. /\ shownTo' \in Seq(Entries)
      /\ \A i \in DOMAIN shownTo' :
            \/ i \in DOMAIN shownTo /\ shownTo'[i] = shownTo[i]
            \/ shown[c] # Unsure /\ shownTo'[i] = entry
  <2>1. CASE shownTo' = shownTo
    BY <1>5, <2>1
  <2>2. CASE shown[c] # Unsure /\ shownTo' = Append(shownTo, entry)
    BY <1>5, <1>6, <2>2, AppendFacts
  <2>3. QED BY <1>5, <2>1, <2>2
<1>8. ShownToAssigned'
  <2>1. entry.id = new.id /\ assignments \subseteq assignments'
    BY <1>1, <1>2 DEF entry
  <2>2. \A i \in DOMAIN shownTo' : \E a \in assignments' : a.id = shownTo'[i].id
    BY <1>4, <1>7, <2>1 DEF PlacedInv, ShownToAssigned
  <2>3. QED BY <1>7, <2>2 DEF ShownToAssigned, Entries
<1>9. ASSUME "department" \in DOMAIN new.refs, shown[c] # Unsure
      PROVE  WasPublished(new.refs["company"], shown[c])
  BY <1>1, <1>2, <1>9, ValidatedDepartment DEF PlacedInv, SeenPublished
<1>10. ASSUME NEW i \in DOMAIN shownTo', NEW a \in assignments',
              a.id = shownTo'[i].id, "department" \in DOMAIN a.refs
       PROVE  WasPublished(a.refs["company"], shownTo'[i].version)
  <2>1. CASE i \in DOMAIN shownTo /\ shownTo'[i] = shownTo[i]
    <3>1. a.id # id[c]
      BY <1>3, <1>10, <2>1 DEF PlacedInv, ShownToAssigned
    <3>2. a \in assignments
      BY <1>1, <1>2, <3>1
    <3>3. QED BY <1>10, <2>1, <3>2
             DEF PlacedInv, PlacementsWerePublished, WasPublished
  <2>2. CASE shown[c] # Unsure /\ shownTo'[i] = entry
    <3>1. a = new
      BY <1>1, <1>3, <1>10, <2>2 DEF entry
    <3>2. QED BY <1>9, <1>10, <2>2, <3>1 DEF entry
  <2>3. QED BY <1>7, <2>1, <2>2
<1>11. PlacementsWerePublished'
  BY <1>10 DEF PlacementsWerePublished, WasPublished
<1>12. QED BY <1>8, <1>11

LEMMA ProceedPlaces ==
  ASSUME CreateInv, PlacedInv, NEW c \in Clients, CreateProceeds(c)
  PROVE  ShownToAssigned' /\ PlacementsWerePublished'
<1>1. hist' = hist /\ EP!Serve(c)
  BY SameServe DEF CreateProceeds, provisionVars
<1>2. CASE EP!Commit(c)
  BY <1>1, <1>2, CommitPlaces DEF CreateProceeds
<1>3. CASE ~EP!Commit(c)
  <2>1. assignments' = assignments
    BY <1>1, <1>3 DEF EP!Serve, EP!CheckCode, EP!ValidateReference, EP!ValidateManager,
       EP!InsertEmployee, EP!InsertProfile, EP!InsertAssignment, EP!InsertOutbox, EP!tables
  <2>2. shownTo' = shownTo
    BY <2>1 DEF CreateProceeds
  <2>3. QED BY <1>1, <2>1, <2>2
           DEF PlacedInv, ShownToAssigned, PlacementsWerePublished
<1>4. QED BY <1>2, <1>3

LEMMA PlacedStep ==
  ASSUME ProvisionInv, ProvisionInv', CreateInv, CreateInv', PlacedInv,
         [Next]_vars
  PROVE  PlacedInv'
<1>1. [PP!Next]_(PP!vars)
  BY ProvisionStep
<1>2. \A v \in DOMAIN hist : hist'[v] = hist[v] /\ v \in DOMAIN hist'
  BY <1>1, HistoryIsBounded DEF CreateInv, Counted
<1>3. RowShows /\ RowShows'
  BY RowIsSound, RowStaysSound, RowIsPublished, RowStaysPublished DEF CreateInv, Counted
<1>4. /\ row.version \in Nat /\ row'.version \in Nat
      /\ ~torn /\ ~torn' => row.version <= row'.version
  <2>1. peak <= peak'
    BY <1>1, PP!PeakStays, ProvisioningAssumptions DEF ProvisionInv
  <2>2. /\ row.version \in Nat /\ row'.version \in Nat
        /\ ~torn => row.version = peak
        /\ ~torn' => row'.version = peak'
    BY RowIsSound, RowStaysSound DEF SoundRow
  <2>3. QED BY <2>1, <2>2
<1>5. /\ stage \in [Clients -> EP!Labels]
      /\ wasActive \in [Clients -> SUBSET (Entities \X EP!AllHomes)]
      /\ \A c \in Clients : stage[c] # "idle" => request[c] \in Requests
  BY DEF CreateInv, EP!ValidInv, EP!TypeInv, EP!ClientsTyped, EP!Consistent
<1>6. ASSUME NEW provisioning, Beside(provisioning)
      PROVE  PlacedInv'
  <2>1. /\ UNCHANGED <<assignments, shownTo, stage, request>>
        /\ shown' = [c \in Clients |->
              IF torn' /\ stage[c] # "idle" THEN Unsure ELSE shown[c]]
        /\ wasActive' = [c \in Clients |->
              IF stage[c] = "idle" THEN {}
              ELSE wasActive[c] \cup E!ActiveOf(request[c], Rows')]
    BY <1>6 DEF Beside, createVars, E!Witness
  <2>2. ShownBefore'
    <3>1. shown' \in [Clients -> Nat \cup {Unsure}]
      BY <2>1 DEF PlacedInv, ShownBefore
    <3>2. ASSUME NEW c \in Clients, stage[c] # "idle", shown'[c] # Unsure
          PROVE  ~torn' /\ shown'[c] <= row'.version
      <4>1. ~torn' /\ shown'[c] = shown[c]
        BY <2>1, <3>2
      <4>2. ~torn /\ shown[c] <= row.version /\ shown[c] \in Nat
        BY <3>2, <4>1 DEF PlacedInv, ShownBefore, Unsure
      <4>3. row.version <= row'.version
        BY <1>4, <4>1, <4>2
      <4>4. shown'[c] <= row'.version
        BY <1>4, <4>1, <4>2, <4>3
      <4>5. QED BY <4>1, <4>4
    <3>3. QED BY <2>1, <3>1, <3>2 DEF ShownBefore, Unsure
  <2>3. ASSUME NEW c \in Clients, NEW s \in wasActive'[c], s[1] = Department,
               shown'[c] # Unsure
        PROVE  WasPublished(s[2], shown[c])'
    <3>0. stage[c] # "idle" /\ shown'[c] = shown[c] /\ shown[c] # Unsure /\ ~torn'
      BY <2>1, <2>3
    <3>1. CASE s \in wasActive[c]
      BY <1>2, <2>3, <3>0, <3>1, PublishedStays DEF PlacedInv, SeenPublished, WasPublished
    <3>2. CASE s \notin wasActive[c]
      <4>1. s \in E!ActiveOf(request[c], Rows') /\ request[c] \in Requests
        BY <1>5, <2>1, <2>3, <3>2
      <4>2. s[2] = Rows'[Department].company /\ Rows'[Department].status = "ACTIVE"
        BY <2>3, <4>1, SightOfDepartment
      <4>3. shown'[c] \in Nat /\ shown'[c] <= row'.version
        BY <2>1, <2>2, <2>3, <3>0 DEF ShownBefore, Unsure
      <4>4. QED BY <1>3, <3>0, <4>2, <4>3 DEF RowShows, WasPublished
    <3>3. QED BY <3>1, <3>2
  <2>4. SeenPublished'
    BY <2>3 DEF SeenPublished, WasPublished
  <2>5. ShownToAssigned'
    BY <2>1 DEF PlacedInv, ShownToAssigned
  <2>6. PlacementsWerePublished'
    BY <1>2, <2>1 DEF PlacedInv, PlacementsWerePublished
  <2>7. QED BY <2>2, <2>4, <2>5, <2>6 DEF PlacedInv
<1>7. ASSUME NEW c \in Clients, CreateArrives(c)
      PROVE  PlacedInv'
  <2>1. /\ row' = row /\ hist' = hist /\ shownTo' = shownTo /\ assignments' = assignments
        /\ shown' = [shown EXCEPT ![c] = IF torn THEN Unsure ELSE row.version]
        /\ torn' = torn /\ E!Arrive(c)
    BY <1>7 DEF CreateArrives, provisionVars, E!Arrive, E!tables
  <2>2. ShownBefore'
    <3>1. shown' \in [Clients -> Nat \cup {Unsure}]
      BY <1>4, <2>1 DEF PlacedInv, ShownBefore
    <3>2. ASSUME NEW b \in Clients, stage'[b] # "idle", shown'[b] # Unsure
          PROVE  ~torn /\ shown'[b] <= row.version
      <4>1. CASE b = c
        <5>1. ~torn /\ shown'[b] = row.version
          BY <2>1, <3>2, <4>1 DEF PlacedInv, ShownBefore
        <5>2. QED BY <1>4, <5>1
      <4>2. CASE b # c
        BY <1>5, <2>1, <3>2, <4>2 DEF PlacedInv, ShownBefore, E!Arrive
      <4>3. QED BY <4>1, <4>2
    <3>3. QED BY <2>1, <3>1, <3>2 DEF ShownBefore, Unsure
  <2>3. PICK body \in Requests :
          wasActive' = [wasActive EXCEPT ![c] = E!ActiveOf(body, Rows)]
    BY <2>1 DEF E!Arrive
  <2>4. ASSUME NEW b \in Clients, NEW s \in wasActive'[b], s[1] = Department,
               shown'[b] # Unsure
        PROVE  WasPublished(s[2], shown'[b])
    <3>1. CASE b # c
      BY <1>5, <2>1, <2>3, <2>4, <3>1 DEF PlacedInv, SeenPublished, ShownBefore
    <3>2. CASE b = c
      <4>1. s \in E!ActiveOf(body, Rows)
        BY <1>5, <2>3, <2>4, <3>2
      <4>2. s[2] = Rows[Department].company /\ Rows[Department].status = "ACTIVE"
        BY <2>4, <4>1, SightOfDepartment
      <4>3. shown'[b] = row.version /\ ~torn
        BY <2>1, <2>4, <3>2 DEF PlacedInv, ShownBefore
      <4>4. QED BY <1>3, <1>4, <4>2, <4>3 DEF RowShows
    <3>3. QED BY <3>1, <3>2
  <2>5. SeenPublished'
    BY <2>1, <2>4 DEF SeenPublished, WasPublished
  <2>6. ShownToAssigned' /\ PlacementsWerePublished'
    BY <2>1 DEF PlacedInv, ShownToAssigned, PlacementsWerePublished
  <2>7. QED BY <2>2, <2>5, <2>6 DEF PlacedInv
<1>8. ASSUME NEW c \in Clients, CreateProceeds(c)
      PROVE  PlacedInv'
  <2>1. row' = row /\ hist' = hist /\ torn' = torn
    BY <1>8 DEF CreateProceeds, provisionVars
  <2>2. shown' = IF stage'[c] = "idle" THEN [shown EXCEPT ![c] = 0] ELSE shown
    BY <1>8 DEF CreateProceeds
  <2>3. ShownBefore'
    <3>1. shown' \in [Clients -> Nat \cup {Unsure}]
      BY <2>2 DEF PlacedInv, ShownBefore
    <3>2. ASSUME NEW b \in Clients, stage'[b] # "idle", shown'[b] # Unsure
          PROVE  ~torn /\ shown'[b] <= row.version
      <4>1. stage[b] # "idle"
        BY <1>8, <3>2, ServeForgets DEF CreateProceeds
      <4>2. shown'[b] = shown[b]
        BY <2>2, <3>2 DEF PlacedInv, ShownBefore
      <4>3. QED BY <3>2, <4>1, <4>2 DEF PlacedInv, ShownBefore
    <3>3. QED BY <2>1, <3>1, <3>2 DEF ShownBefore, Unsure
  <2>4. ASSUME NEW b \in Clients, NEW s \in wasActive'[b], s[1] = Department,
               shown'[b] # Unsure
        PROVE  WasPublished(s[2], shown'[b])
    <3>1. /\ s \in wasActive[b]
          /\ b = c => stage'[c] # "idle"
      BY <1>8, <2>4, ServeForgets DEF CreateProceeds
    <3>2. shown'[b] = shown[b]
      BY <2>2, <3>1 DEF PlacedInv, ShownBefore
    <3>3. QED BY <2>4, <3>1, <3>2 DEF PlacedInv, SeenPublished
  <2>5. SeenPublished'
    BY <2>1, <2>4 DEF SeenPublished, WasPublished
  <2>6. QED BY <1>8, <2>3, <2>5, ProceedPlaces DEF PlacedInv
<1>9. ASSUME UNCHANGED <<provisionVars, createVars, wasActive, shown, shownTo>>
      PROVE  PlacedInv'
  BY <1>9 DEF provisionVars, createVars, PlacedInv, ShownBefore, SeenPublished, WasPublished,
     ShownToAssigned, PlacementsWerePublished
<1>10. QED BY <1>6, <1>7, <1>8, <1>9
          DEF Next, vars, Publish, Provision, Fail, UpdateArrives, UpdateProceeds

(* However many replicas handle events: the department of every committed   *)
(* assignment is, in that company and ACTIVE, a state Setting published, no *)
(* older than what the projection showed when the request arrived, unless   *)
(* racing replicas had torn the row while the request ran.  Events that     *)
(* overtake each other, retry or fail make up no combination.               *)
THEOREM PlacementsArePublished == Spec => []PlacementsWerePublished
<1>1. Init => PlacedInv
  BY DEF Init, E!Init, P!Init, P!Absent, PlacedInv, ShownBefore, SeenPublished,
     ShownToAssigned, PlacementsWerePublished
<1>2. /\ ProvisionInv /\ ProvisionInv' /\ CreateInv /\ CreateInv' /\ PlacedInv /\ [Next]_vars
      => PlacedInv'
  BY PlacedStep
<1>3. Spec => []PlacedInv
  BY <1>1, <1>2, CreateInvHolds, PTL DEF Spec
<1>4. PlacedInv => PlacementsWerePublished
  BY DEF PlacedInv
<1>5. QED BY <1>3, <1>4, PTL

-----------------------------------------------------------------------------
(* Partial updates.  A kept reference is found because creation validated   *)
(* it and no handler deletes a row; what a call checked of a unit it saw in *)
(* one row at one moment.                                                   *)

Present(e) == Rows[e].status # "ABSENT"

(* What the look-ups of creation found is never gone.                       *)
PresentInv ==
    /\ \A c \in Clients : \A s \in wasActive[c] : Present(s[1])
    /\ \A a \in assignments :
        /\ DOMAIN a.refs \subseteq EP!KindSet
        /\ \A k \in DOMAIN a.refs : a.refs[k] \in Entities /\ Present(a.refs[k])

RefersTo(u, k) == U!Reference(patch[u], current[u], k)
NewCompany(u) == U!EffectiveCompany(patch[u], current[u])

(* The kinds that a call has done with.                                     *)
Done(u) ==
    {k \in EP!KindSet : step[u] = "return" \/ EP!Position(k) < EP!Position(step[u])}

(* What a call has made sure of a unit it resolved.                         *)
Checked(u, k) ==
    /\ k \in DOMAIN patch[u] => <<RefersTo(u, k), "ACTIVE", NewCompany(u)>> \in seen[u]
    /\ k \notin DOMAIN patch[u] /\ U!MovesCompany(patch[u], current[u]) =>
          \E s \in {"ACTIVE", "INACTIVE"} : <<RefersTo(u, k), s, NewCompany(u)>> \in seen[u]

CallInv(u) ==
    /\ step[u] \in EP!KindSet \cup {"return"}
    /\ DOMAIN current[u] \subseteq EP!KindSet
    /\ \A k \in DOMAIN current[u] : current[u][k] \in Entities /\ Present(current[u][k])
    /\ U!RowsOf(patch[u], current[u], Rows) \subseteq seen[u]
    /\ step[u] \in EP!KindSet \ {"company"} => RefersTo(u, step[u]) # None
    /\ step[u] # "company" => "company" \in DOMAIN resolved[u]
    /\ DOMAIN resolved[u] \subseteq Done(u)
    /\ \A k \in DOMAIN resolved[u] : resolved[u][k] = RefersTo(u, k)
    /\ \A k \in (Done(u) \cap DOMAIN current[u]) \ DOMAIN patch[u] : k \in DOMAIN resolved[u]
    /\ \A k \in DOMAIN resolved[u] \cap U!Units : Checked(u, k)

UpdateInv ==
    /\ DOMAIN step = Updaters /\ DOMAIN patch = Updaters /\ DOMAIN current = Updaters
    /\ DOMAIN resolved = Updaters /\ DOMAIN seen = Updaters
    /\ \A u \in Updaters :
        IF step[u] = "idle" THEN DOMAIN resolved[u] = {} ELSE CallInv(u)

LEMMA PresentStays ==
  ASSUME ProvisionInv, ProvisionInv', [Next]_vars,
         NEW e \in Entities, Present(e)
  PROVE  Present(e)'
<1>1. CASE e # Department
  BY <1>1 DEF Present, Rows
<1>2. CASE e = Department
  <2>1. row.version > 0
    BY <1>2, RowIsSound DEF Present, Rows, SoundRow
  <2>2. row'.version > 0 /\ row'.version # 0 /\ row'.status \in {"ACTIVE", "INACTIVE"}
    BY <2>1, ProvisionStep, RowIsKept, RowStaysSound DEF SoundRow
  <2>3. Rows'[Department] = [status |-> row'.status, company |-> CompanyOf(row'.attrs)]
    BY <2>2 DEF Rows, Entities, CompanyOf
  <2>4. QED BY <1>2, <2>2, <2>3 DEF Present
<1>3. QED BY <1>1, <1>2

LEMMA PresentInit == Init => PresentInv
BY DEF Init, E!Init, PresentInv

LEMMA ServePresent ==
  ASSUME CreateInv, CreateInv', PresentInv, NEW c \in Clients, CreateProceeds(c)
  PROVE  PresentInv'
<1>1. Rows' = Rows /\ E!Serve(c) /\ EP!Serve(c)
  BY SameServe DEF CreateProceeds, provisionVars, Rows
<1>2. \A b \in Clients : \A s \in wasActive'[b] : Present(s[1])
  BY <1>1, ServeForgets DEF PresentInv
<1>3. CASE EP!Commit(c)
  <2>1. stage[c] = "commit" /\ assignments' = assignments \cup {EP!AssignmentRow(c)}
    BY <1>3, EP!CommitFacts, CreationAssumptions DEF CreateInv, AtFirst, HomesOf
  <2>2. EP!AssignmentRow(c).refs = request[c].refs
        /\ EP!AssignmentRow(c).wasActive = wasActive[c]
    BY DEF EP!AssignmentRow
  <2>3. request[c] \in Requests
    BY <2>1 DEF CreateInv, EP!ValidInv, EP!TypeInv, EP!ClientsTyped, EP!Consistent
  <2>4. /\ DOMAIN request[c].refs \subseteq EP!KindSet
        /\ \A k \in DOMAIN request[c].refs : request[c].refs[k] \in Entities
    BY <2>3, CreationAssumptions DEF AtFirst, HomesOf
  <2>5. \A k \in DOMAIN request[c].refs : \E s \in wasActive[c] : s[1] = request[c].refs[k]
    <3>1. \A k \in EP!Passed(c) : \E s \in wasActive[c] : s[1] = request[c].refs[k]
      BY DEF CreateInv, EP!ValidInv, EP!Validated, EP!WasValid
    <3>2. "commit" \notin EP!KindSet
      BY EP!KindFacts, CreationAssumptions DEF AtFirst, HomesOf
    <3>3. QED BY <2>1, <3>1, <3>2 DEF EP!Passed
  <2>6. \A k \in DOMAIN request[c].refs : Present(request[c].refs[k])
    BY <2>5 DEF PresentInv
  <2>7. \A a \in assignments' :
          /\ DOMAIN a.refs \subseteq EP!KindSet
          /\ \A k \in DOMAIN a.refs : a.refs[k] \in Entities /\ Present(a.refs[k])
    BY <2>1, <2>2, <2>4, <2>6 DEF PresentInv
  <2>8. QED BY <1>1, <1>2, <2>7 DEF PresentInv, Present
<1>4. CASE ~EP!Commit(c)
  <2>1. assignments' = assignments
    BY <1>1, <1>4 DEF EP!Serve, EP!CheckCode, EP!ValidateReference, EP!ValidateManager,
       EP!InsertEmployee, EP!InsertProfile, EP!InsertAssignment, EP!InsertOutbox, EP!tables
  <2>2. QED BY <1>1, <1>2, <2>1 DEF PresentInv, Present
<1>5. QED BY <1>3, <1>4

LEMMA PresentStep ==
  ASSUME ProvisionInv, ProvisionInv', CreateInv, CreateInv', PresentInv,
         [Next]_vars
  PROVE  PresentInv'
<1>1. \A e \in Entities : Present(e) => Present(e)'
  BY PresentStays
<1>2. /\ \A c \in Clients : stage[c] # "idle" => request[c] \in Requests
      /\ DOMAIN wasActive = Clients
      /\ \A c \in Clients : \A s \in wasActive[c] : s[1] \in Entities
  BY DEF CreateInv, EP!ValidInv, EP!TypeInv, EP!ClientsTyped, EP!Consistent
<1>3. ASSUME NEW body \in Requests, NEW rows, NEW s \in E!ActiveOf(body, rows)
      PROVE  s[1] \in Entities /\ rows[s[1]].status = "ACTIVE"
  BY <1>3, RequestsAssumption DEF E!ActiveOf
<1>4. ASSUME NEW provisioning, Beside(provisioning)
      PROVE  PresentInv'
  <2>1. /\ assignments' = assignments
        /\ wasActive' = [c \in Clients |->
              IF stage[c] = "idle" THEN {}
              ELSE wasActive[c] \cup E!ActiveOf(request[c], Rows')]
    BY <1>4 DEF Beside, createVars, E!Witness
  <2>2. ASSUME NEW c \in Clients, NEW s \in wasActive'[c]
        PROVE  Present(s[1])'
    <3>1. CASE s \in wasActive[c]
      BY <1>1, <1>2, <3>1 DEF PresentInv
    <3>2. CASE s \notin wasActive[c]
      <4>1. s \in E!ActiveOf(request[c], Rows') /\ request[c] \in Requests
        BY <1>2, <2>1, <2>2, <3>2
      <4>2. Rows'[s[1]].status = "ACTIVE"
        BY <1>3, <4>1
      <4>3. QED BY <4>2 DEF Present
    <3>3. QED BY <3>1, <3>2
  <2>3. QED BY <1>1, <2>1, <2>2 DEF PresentInv, Present
<1>5. ASSUME NEW c \in Clients, CreateArrives(c)
      PROVE  PresentInv'
  <2>1. assignments' = assignments /\ E!Arrive(c) /\ Rows' = Rows
    BY <1>5 DEF CreateArrives, E!Arrive, E!tables, provisionVars, Rows
  <2>2. PICK body \in Requests :
          wasActive' = [wasActive EXCEPT ![c] = E!ActiveOf(body, Rows)]
    BY <2>1 DEF E!Arrive
  <2>3. ASSUME NEW b \in Clients, NEW s \in wasActive'[b]
        PROVE  Present(s[1])
    <3>1. CASE b # c
      BY <1>2, <2>2, <2>3, <3>1 DEF PresentInv
    <3>2. CASE b = c
      <4>1. s \in E!ActiveOf(body, Rows)
        BY <1>2, <2>2, <2>3, <3>2
      <4>2. QED BY <1>3, <4>1 DEF Present
    <3>3. QED BY <3>1, <3>2
  <2>4. QED BY <2>1, <2>3 DEF PresentInv, Present
<1>6. ASSUME NEW c \in Clients, CreateProceeds(c)
      PROVE  PresentInv'
  BY <1>6, ServePresent
<1>7. ASSUME UNCHANGED <<provisionVars, createVars, wasActive>>
      PROVE  PresentInv'
  BY <1>7 DEF provisionVars, createVars, PresentInv, Present, Rows
<1>8. QED BY <1>4, <1>5, <1>6, <1>7
         DEF Next, vars, Publish, Provision, Fail, UpdateArrives, UpdateProceeds

-----------------------------------------------------------------------------
(* The look-ups of an update.                                               *)

KindList == {"company", "department", "location", "grade", "jobTitle"}

LEMMA UpdateKinds ==
  /\ EP!KindSet = KindList
  /\ DOMAIN U!Kinds = 1 .. 5
  /\ EP!Position("company") = 1
  /\ \A k \in KindList :
        /\ EP!Position(k) \in 1 .. 5
        /\ U!Kinds[EP!Position(k)] = k
        /\ (CHOOSE i \in DOMAIN U!Kinds : U!Kinds[i] = k) = EP!Position(k)
  /\ \A i \in 1 .. 5 : U!Kinds[i] \in KindList /\ EP!Position(U!Kinds[i]) = i
  /\ \A k \in KindList : EP!Position(k) = 1 => k = "company"
<1>1. U!Kinds = EP!Kinds
  BY DEF U!Kinds, EP!Kinds
<1>2. \A k : (CHOOSE i \in DOMAIN U!Kinds : U!Kinds[i] = k) = EP!Position(k)
  BY <1>1 DEF EP!Position
<1>3. U!Kinds[1] = "company"
  BY DEF U!Kinds
<1>4. QED BY <1>1, <1>2, <1>3, EP!KindFacts, CreationAssumptions DEF AtFirst, HomesOf, KindList

(* The kind that is looked up after this one.                               *)
LookUpAfter(p, cur, at) ==
    LET later == {i \in U!KindsOf(p, cur) : i > at} IN
    IF later = {} THEN "return"
    ELSE U!Kinds[CHOOSE i \in later : \A j \in later : i <= j]
NextLookUp(p, cur, kind) == LookUpAfter(p, cur, EP!Position(kind))

LEMMA NextLookUpSkipsNone ==
  ASSUME NEW p, NEW cur, NEW kind \in KindList
  PROVE  LET next == NextLookUp(p, cur, kind) IN
         /\ next \in (KindList \ {"company"}) \cup {"return"}
         /\ next # "return" =>
                /\ EP!Position(next) > EP!Position(kind)
                /\ U!Reference(p, cur, next) # None
         /\ \A k \in KindList :
                /\ EP!Position(k) > EP!Position(kind)
                /\ next = "return" \/ EP!Position(k) < EP!Position(next)
                => U!Reference(p, cur, k) = None
<1> DEFINE later == {i \in U!KindsOf(p, cur) : i > EP!Position(kind)}
           first == CHOOSE i \in later : \A j \in later : i <= j
<1>1. later \subseteq 1 .. 5
  BY UpdateKinds DEF U!KindsOf
<1>2. ASSUME NEW k \in KindList, EP!Position(k) > EP!Position(kind), EP!Position(k) \notin later
      PROVE  U!Reference(p, cur, k) = None
  BY <1>2, UpdateKinds DEF U!KindsOf
<1>3. \A i \in later : i > EP!Position(kind) /\ U!Reference(p, cur, U!Kinds[i]) # None
  BY DEF U!KindsOf
<1>4. NextLookUp(p, cur, kind) = IF later = {} THEN "return" ELSE U!Kinds[first]
  BY DEF NextLookUp, LookUpAfter
<1> HIDE DEF later
<1>5. CASE later # {}
  <2>1. \E i \in later : \A j \in later : i <= j
    BY <1>1, <1>5, EP!LeastOfFive, CreationAssumptions DEF AtFirst, HomesOf
  <2>2. first \in later /\ \A j \in later : first <= j
    BY <2>1
  <2> HIDE DEF first
  <2>3. /\ U!Kinds[first] \in KindList /\ EP!Position(U!Kinds[first]) = first
        /\ first > EP!Position(kind) /\ U!Reference(p, cur, U!Kinds[first]) # None
        /\ EP!Position(kind) \in 1 .. 5 /\ first \in 1 .. 5
    BY <1>1, <1>3, <2>2, UpdateKinds
  <2>4. U!Kinds[first] # "company" /\ U!Kinds[first] # "return"
    <3>1. "return" \notin KindList
      BY DEF KindList
    <3>2. QED BY <2>3, <3>1, UpdateKinds
  <2>5. ASSUME NEW k \in KindList, EP!Position(k) > EP!Position(kind), EP!Position(k) < first
        PROVE  U!Reference(p, cur, k) = None
    <3>1. EP!Position(k) \notin later
      BY <1>1, <2>2, <2>3, <2>5, UpdateKinds
    <3>2. QED BY <1>2, <2>5, <3>1
  <2>6. QED BY <1>4, <1>5, <2>3, <2>4, <2>5
<1>6. CASE later = {}
  BY <1>2, <1>4, <1>6
<1>7. QED BY <1>5, <1>6

(* The calls of the other updaters are not touched.                         *)
LEMMA OthersKept ==
  ASSUME UpdateInv, NEW u \in Updaters, Rows' = Rows,
         DOMAIN step' = Updaters, DOMAIN patch' = Updaters, DOMAIN current' = Updaters,
         DOMAIN resolved' = Updaters, DOMAIN seen' = Updaters,
         \A v \in Updaters \ {u} :
            /\ step'[v] = step[v] /\ patch'[v] = patch[v] /\ current'[v] = current[v]
            /\ resolved'[v] = resolved[v] /\ seen'[v] = seen[v],
         IF step'[u] = "idle" THEN DOMAIN resolved'[u] = {} ELSE CallInv(u)'
  PROVE  UpdateInv'
<1>1. ASSUME NEW v \in Updaters \ {u}, step[v] # "idle" PROVE CallInv(v)'
  <2>1. CallInv(v)
    BY <1>1 DEF UpdateInv
  <2>2. QED BY <1>1, <2>1 DEF CallInv, Checked, Done, RefersTo, NewCompany, Present
<1>2. QED BY <1>1 DEF UpdateInv

LEMMA CallEnds ==
  ASSUME UpdateInv, NEW u \in Updaters, Rows' = Rows, U!End(u)
  PROVE  UpdateInv'
<1>1. step'[u] = "idle" /\ DOMAIN resolved'[u] = {}
  BY DEF U!End, U!Nothing, UpdateInv
<1>2. /\ DOMAIN step' = Updaters /\ DOMAIN patch' = Updaters /\ DOMAIN current' = Updaters
      /\ DOMAIN resolved' = Updaters /\ DOMAIN seen' = Updaters
      /\ \A v \in Updaters \ {u} :
            /\ step'[v] = step[v] /\ patch'[v] = patch[v] /\ current'[v] = current[v]
            /\ resolved'[v] = resolved[v] /\ seen'[v] = seen[v]
  BY DEF U!End, UpdateInv
<1>3. QED BY <1>1, <1>2, OthersKept

(* A look-up that passes keeps what is known of its call, if it resolves    *)
(* the company and every kept reference, and a unit only when checked.      *)
LEMMA CallResolves ==
  ASSUME UpdateInv, NEW u \in Updaters, NEW kind \in KindList, step[u] = kind,
         Rows' = Rows, NEW found \in BOOLEAN, U!Resolve(u, kind, found),
         kind = "company" => found,
         kind \in DOMAIN current[u] \ DOMAIN patch[u] => found,
         found /\ kind \in U!Units => Checked(u, kind)
  PROVE  UpdateInv'
<1> DEFINE next == NextLookUp(patch[u], current[u], kind)
           more == IF found THEN {kind} ELSE {}
<1>1. "idle" \notin KindList /\ CallInv(u)
  BY DEF UpdateInv, KindList
<1>2. /\ step' = [step EXCEPT ![u] = next]
      /\ resolved' = [resolved EXCEPT ![u] =
            [k \in DOMAIN resolved[u] \cup more |-> RefersTo(u, k)]]
      /\ patch' = patch /\ current' = current /\ seen' = seen
  <2>1. (CHOOSE i \in DOMAIN U!Kinds : U!Kinds[i] = kind) = EP!Position(kind)
    BY UpdateKinds
  <2>2. step' = [step EXCEPT ![u] = next]
    <3>1. step' = [step EXCEPT ![u] = LookUpAfter(patch[u], current[u],
                      CHOOSE i \in DOMAIN U!Kinds : U!Kinds[i] = kind)]
      BY DEF U!Resolve, LookUpAfter
    <3>2. QED BY <2>1, <3>1 DEF NextLookUp
  <2>3. QED BY <2>2 DEF U!Resolve, RefersTo
<1> HIDE DEF more, next
<1>3. /\ step'[u] = next
      /\ DOMAIN resolved'[u] = DOMAIN resolved[u] \cup more
      /\ \A k \in DOMAIN resolved'[u] : resolved'[u][k] = RefersTo(u, k)
  BY <1>2 DEF UpdateInv
<1>4. /\ next \in (KindList \ {"company"}) \cup {"return"}
      /\ next # "return" =>
            EP!Position(next) > EP!Position(kind) /\ RefersTo(u, next) # None
      /\ \A k \in KindList :
            /\ EP!Position(k) > EP!Position(kind)
            /\ next = "return" \/ EP!Position(k) < EP!Position(next)
            => RefersTo(u, k) = None
  BY NextLookUpSkipsNone DEF next, RefersTo
<1>5. \A k \in KindList : RefersTo(u, k)' = RefersTo(u, k) /\ NewCompany(u)' = NewCompany(u)
  BY <1>2 DEF RefersTo, NewCompany
<1>6. KindList = EP!KindSet /\ \A k \in KindList : EP!Position(k) \in 1 .. 5
  BY UpdateKinds
<1>7. Done(u) = {k \in KindList : EP!Position(k) < EP!Position(kind)}
  <2>1. kind # "return"
    BY DEF KindList
  <2>2. QED BY <1>6, <2>1 DEF Done
<1>8. Done(u)' = {k \in KindList : next = "return" \/ EP!Position(k) < EP!Position(next)}
  BY <1>3, <1>6 DEF Done
<1>9. Done(u) \cup {kind} \subseteq Done(u)'
  BY <1>4, <1>6, <1>7, <1>8
<1>10. ASSUME NEW k \in Done(u)', k \notin Done(u), k # kind
       PROVE  RefersTo(u, k) = None
  <2>1. k \in KindList /\ EP!Position(k) # EP!Position(kind)
    BY <1>8, <1>10, UpdateKinds
  <2>2. EP!Position(k) > EP!Position(kind)
    BY <1>6, <1>7, <1>10, <2>1
  <2>3. QED BY <1>4, <1>8, <1>10, <2>1, <2>2
<1>11. CallInv(u)'
  <2>1. step'[u] \in EP!KindSet \cup {"return"} /\ step'[u] # "company"
    BY <1>3, <1>4, <1>6
  <2>2. /\ DOMAIN current'[u] \subseteq EP!KindSet
        /\ \A k \in DOMAIN current'[u] :
              current'[u][k] \in Entities /\ Rows'[current'[u][k]].status # "ABSENT"
        /\ U!RowsOf(patch'[u], current'[u], Rows') \subseteq seen'[u]
    BY <1>1, <1>2 DEF CallInv, Present
  <2>3. step'[u] \in EP!KindSet \ {"company"} =>
            U!Reference(patch'[u], current'[u], step'[u]) # None
    <3>1. "return" \notin KindList
      BY DEF KindList
    <3>2. step'[u] \in EP!KindSet => RefersTo(u, step'[u]) # None
      BY <1>3, <1>4, <1>6, <3>1
    <3>3. QED BY <1>2, <3>2 DEF RefersTo
  <2>4. "company" \in DOMAIN resolved'[u]
    BY <1>1, <1>3 DEF CallInv, more
  <2>5. DOMAIN resolved'[u] \subseteq Done(u)'
    BY <1>1, <1>3, <1>9 DEF CallInv, more
  <2>6. \A k \in DOMAIN resolved'[u] : resolved'[u][k] = RefersTo(u, k)'
    BY <1>3, <1>5, <1>6, <2>5 DEF Done
  <2>7. ASSUME NEW k \in (Done(u)' \cap DOMAIN current'[u]) \ DOMAIN patch'[u]
        PROVE  k \in DOMAIN resolved'[u]
    <3>1. k \in DOMAIN current[u] \ DOMAIN patch[u]
      BY <1>2, <2>7
    <3>2. CASE k \in Done(u)
      BY <1>1, <1>3, <3>1, <3>2 DEF CallInv
    <3>3. CASE k = kind
      BY <1>3, <3>1, <3>3 DEF more
    <3>4. CASE k \notin Done(u) /\ k # kind
      <4>1. RefersTo(u, k) = None
        BY <1>10, <2>7, <3>4
      <4>2. k # "company"
        <5>1. k = "company" => EP!Position(k) = 1
          BY UpdateKinds
        <5>2. EP!Position(kind) \in 1 .. 5 /\ kind # k
          BY <1>6, <3>4
        <5>3. k \in KindList
          BY <1>8, <2>7
        <5>4. k = "company" => EP!Position(kind) # 1
          BY <5>2, UpdateKinds
        <5>5. QED BY <1>7, <3>4, <5>1, <5>2, <5>3, <5>4
      <4>3. RefersTo(u, k) = current[u][k]
        BY <3>1, <4>2 DEF RefersTo, U!Reference, U!Stored
      <4>4. current[u][k] \in Entities
        BY <1>1, <3>1 DEF CallInv
      <4>5. QED BY <4>1, <4>3, <4>4, EntitiesAssumption
    <3>5. QED BY <3>2, <3>3, <3>4
  <2>8. \A k \in DOMAIN resolved'[u] \cap U!Units : Checked(u, k)'
    <3>1. \A k \in DOMAIN resolved'[u] \cap U!Units : Checked(u, k)
      BY <1>1, <1>3 DEF CallInv, more
    <3>2. \A k : Checked(u, k)' <=> Checked(u, k)
      BY <1>2 DEF Checked, RefersTo, NewCompany
    <3>3. QED BY <3>1, <3>2
  <2>9. step'[u] \in EP!KindSet \ {"company"} => RefersTo(u, step[u])' # None
    BY <2>3 DEF RefersTo
  <2>10. QED BY <2>1, <2>2, <2>4, <2>5, <2>6, <2>7, <2>8, <2>9 DEF CallInv, Present
<1>12. step'[u] # "idle"
  BY <1>1, <1>3, <1>4
<1>13. QED BY <1>2, <1>11, <1>12, OthersKept DEF UpdateInv

LEMMA LookUpKeeps ==
  ASSUME CreateInv, UpdateInv, Rows' = Rows, NEW u \in Updaters,
         NEW kind \in {"department", "location", "grade", "jobTitle"},
         U!ValidateReference(u, kind)
  PROVE  UpdateInv'
<1> DEFINE p == patch[u]
           cur == current[u]
           ref == RefersTo(u, kind)
           found == Rows[ref].status # "ABSENT"
<1>1. step[u] = kind /\ kind \in KindList /\ kind # "company" /\ CallInv(u)
  BY DEF U!ValidateReference, UpdateInv, KindList
<1>2. CASE U!End(u)
  BY <1>2, CallEnds
<1>3. CASE ~U!End(u)
  <2>1. /\ U!Resolve(u, kind, found)
        /\ kind \in DOMAIN p => Rows[ref].status = "ACTIVE"
        /\ kind \in U!Units /\ (kind \in DOMAIN p \/ U!MovesCompany(p, cur)) =>
              found /\ Rows[ref].company = NewCompany(u)
    BY <1>3 DEF U!ValidateReference, RefersTo, NewCompany
  <2>2. ref # None
    BY <1>1, UpdateKinds DEF CallInv
  <2>3. <<ref, Rows[ref].status, Rows[ref].company>> \in seen[u]
    <3>1. /\ EP!Position(kind) \in U!KindsOf(p, cur)
          /\ ref = U!Reference(p, cur, U!Kinds[EP!Position(kind)])
      BY <1>1, <2>2, UpdateKinds DEF U!KindsOf, RefersTo
    <3>2. <<ref, Rows[ref].status, Rows[ref].company>> \in U!RowsOf(p, cur, Rows)
      BY <3>1 DEF U!RowsOf
    <3>3. QED BY <1>1, <3>2 DEF CallInv
  <2>4. kind \notin DOMAIN p => kind \in DOMAIN cur /\ ref = cur[kind]
    BY <1>1, <2>2 DEF RefersTo, U!Reference, U!Stored
  <2>5. kind \notin DOMAIN p => found /\ Rows[ref].status \in {"ACTIVE", "INACTIVE"}
    <3>1. kind \notin DOMAIN p => ref \in Entities /\ found
      BY <1>1, <2>4 DEF CallInv, Present
    <3>2. \A e \in Entities : Rows[e].status \in {"ABSENT", "ACTIVE", "INACTIVE"}
      BY DEF CreateInv, EP!ValidInv, EP!TypeInv, EP!TypeOK, EP!ProjectionRows,
             EP!ProjectionStatuses
    <3>3. QED BY <3>1, <3>2
  <2>6. kind \in U!Units => Checked(u, kind)
    BY <2>1, <2>3, <2>5 DEF Checked
  <2>7. found \in BOOLEAN
    OBVIOUS
  <2>8. kind \in DOMAIN cur \ DOMAIN p => found
    BY <2>5
  <2> HIDE DEF found
  <2>9. QED BY <1>1, <2>1, <2>6, <2>7, <2>8, CallResolves
<1>4. QED BY <1>2, <1>3

LEMMA ValidateKeeps ==
  ASSUME CreateInv, UpdateInv, Rows' = Rows, NEW u \in Updaters, U!Validate(u)
  PROVE  UpdateInv'
<1>1. CASE U!ValidateCompany(u)
  <2>1. CASE U!End(u)
    BY <2>1, CallEnds
  <2>2. CASE ~U!End(u)
    <3>1. step[u] = "company" /\ U!Resolve(u, "company", TRUE)
      BY <1>1, <2>2 DEF U!ValidateCompany
    <3>2. "company" \in KindList /\ "company" \notin U!Units
      BY DEF KindList, U!Units
    <3>3. QED BY <3>1, <3>2, CallResolves
  <2>3. QED BY <2>1, <2>2
<1>2. ASSUME NEW kind \in {"department", "location", "grade", "jobTitle"},
             U!ValidateReference(u, kind)
      PROVE  UpdateInv'
  BY <1>2, LookUpKeeps
<1>3. CASE U!Return(u)
  BY <1>3, CallEnds DEF U!Return
<1>4. QED BY <1>1, <1>2, <1>3 DEF U!Validate

(* A call starts with a stored assignment, whose entities are there.        *)
LEMMA CallStarts ==
  ASSUME PresentInv, UpdateInv, Rows' = Rows, NEW u \in Updaters, U!Call(u)
  PROVE  UpdateInv'
<1>1. PICK p \in Patches, cur \in {a.refs : a \in assignments} \cup {U!Nothing} :
        /\ patch' = [patch EXCEPT ![u] = p]
        /\ current' = [current EXCEPT ![u] = cur]
        /\ seen' = [seen EXCEPT ![u] = U!RowsOf(p, cur, Rows)]
  BY DEF U!Call
<1>2. /\ step' = [step EXCEPT ![u] = "company"] /\ resolved' = resolved
      /\ step[u] = "idle"
  BY DEF U!Call
<1>3. /\ step'[u] = "company" /\ patch'[u] = p /\ current'[u] = cur
      /\ seen'[u] = U!RowsOf(p, cur, Rows) /\ DOMAIN resolved'[u] = {}
  BY <1>1, <1>2 DEF UpdateInv
<1>4. /\ DOMAIN cur \subseteq EP!KindSet
      /\ \A k \in DOMAIN cur : cur[k] \in Entities /\ Present(cur[k])
  BY <1>1 DEF PresentInv, U!Nothing
<1>5. Done(u)' = {}
  <2>1. \A k \in EP!KindSet : ~(EP!Position(k) < EP!Position("company"))
    BY UpdateKinds
  <2>2. QED BY <1>3, <2>1 DEF Done
<1>6. "company" \in EP!KindSet
  BY UpdateKinds DEF KindList
<1>7. CallInv(u)'
  BY <1>3, <1>4, <1>5, <1>6 DEF CallInv, Present
<1>8. /\ DOMAIN step' = Updaters /\ DOMAIN patch' = Updaters /\ DOMAIN current' = Updaters
      /\ DOMAIN resolved' = Updaters /\ DOMAIN seen' = Updaters
      /\ \A v \in Updaters \ {u} :
            /\ step'[v] = step[v] /\ patch'[v] = patch[v] /\ current'[v] = current[v]
            /\ resolved'[v] = resolved[v] /\ seen'[v] = seen[v]
  BY <1>1, <1>2 DEF UpdateInv
<1>9. QED BY <1>3, <1>7, <1>8, OthersKept

LEMMA UpdateInit == Init => UpdateInv
BY DEF Init, U!Init, U!Nothing, UpdateInv

LEMMA UpdateStep ==
  ASSUME ProvisionInv, ProvisionInv', CreateInv, PresentInv, UpdateInv,
         [Next]_vars
  PROVE  UpdateInv'
<1>1. \A e \in Entities : Present(e) => Present(e)'
  BY PresentStays
<1>2. ASSUME NEW provisioning, Beside(provisioning)
      PROVE  UpdateInv'
  <2>1. /\ UNCHANGED <<step, patch, current, resolved>>
        /\ seen' = [u \in Updaters |->
              IF step[u] = "idle" THEN {}
              ELSE seen[u] \cup U!RowsOf(patch[u], current[u], Rows')]
    BY <1>2 DEF Beside, updateVars, U!Witness
  <2>2. ASSUME NEW u \in Updaters, step[u] # "idle" PROVE CallInv(u)'
    <3>1. /\ CallInv(u) /\ seen[u] \subseteq seen'[u]
          /\ U!RowsOf(patch[u], current[u], Rows') \subseteq seen'[u]
      BY <2>1, <2>2 DEF UpdateInv
    <3>2. \A k \in DOMAIN resolved[u] \cap U!Units : Checked(u, k)'
      <4>1. \A k \in DOMAIN resolved[u] \cap U!Units : Checked(u, k)
        BY <3>1 DEF CallInv
      <4>2. QED BY <2>1, <3>1, <4>1 DEF Checked, RefersTo, NewCompany
    <3>3. \A k \in DOMAIN current[u] :
            current[u][k] \in Entities /\ Rows'[current[u][k]].status # "ABSENT"
      BY <1>1, <3>1 DEF CallInv, Present
    <3>4. /\ Done(u)' = Done(u)
          /\ \A k : RefersTo(u, k)' = RefersTo(u, k)
          /\ RefersTo(u, step[u])' = RefersTo(u, step[u])
      BY <2>1 DEF Done, RefersTo
    <3>5. QED BY <2>1, <3>1, <3>2, <3>3, <3>4 DEF CallInv, Present
  <2>3. QED BY <2>1, <2>2 DEF UpdateInv
<1>3. ASSUME NEW u \in Updaters, UpdateArrives(u)
      PROVE  UpdateInv'
  <2>1. Rows' = Rows /\ U!Call(u)
    BY <1>3 DEF UpdateArrives, provisionVars, Rows
  <2>2. QED BY <2>1, CallStarts
<1>4. ASSUME NEW u \in Updaters, UpdateProceeds(u)
      PROVE  UpdateInv'
  <2>1. Rows' = Rows /\ U!Validate(u)
    BY <1>4 DEF UpdateProceeds, provisionVars, Rows
  <2>2. QED BY <2>1, ValidateKeeps
<1>5. ASSUME UNCHANGED <<provisionVars, updateVars, seen>>
      PROVE  UpdateInv'
  <2>1. Rows' = Rows /\ UNCHANGED <<step, patch, current, resolved, seen>>
    BY <1>5 DEF provisionVars, updateVars, Rows
  <2>2. \A u \in Updaters : CallInv(u) => CallInv(u)'
    BY <2>1 DEF CallInv, Checked, Done, RefersTo, NewCompany, Present
  <2>3. QED BY <2>1, <2>2 DEF UpdateInv
<1>6. QED BY <1>2, <1>3, <1>4, <1>5
         DEF Next, vars, Publish, Provision, Fail, CreateArrives, CreateProceeds

LEMMA UpdateInvHolds == Spec => []UpdateInv
<1>1. Init => PresentInv /\ UpdateInv
  BY PresentInit, UpdateInit
<1>2. /\ ProvisionInv /\ ProvisionInv' /\ CreateInv /\ CreateInv' /\ PresentInv /\ [Next]_vars
      => PresentInv'
  BY PresentStep
<1>3. /\ ProvisionInv /\ ProvisionInv' /\ CreateInv /\ PresentInv /\ UpdateInv /\ [Next]_vars
      => UpdateInv'
  BY UpdateStep
<1>4. Spec => [](PresentInv /\ UpdateInv)
  BY <1>1, <1>2, <1>3, CreateInvHolds, PTL DEF Spec
<1>5. QED BY <1>4, PTL

(* A unit that a partial update gives was, at one moment of the call,       *)
(* ACTIVE in the company the update ends in; one that is kept while the     *)
(* company changes belonged to the new company at one moment, however many  *)
(* replicas change the rows meanwhile.                                      *)
THEOREM UpdatesKeepUnitsTogether == Spec => []UpdatedUnitsBelong
<1>1. UpdateInv => UpdatedUnitsBelong
  <2> SUFFICES ASSUME UpdateInv, NEW u \in Updaters, step[u] = "return",
                      NEW k \in DOMAIN resolved[u] \cap U!Units
               PROVE  LET company == resolved[u]["company"] IN
                      /\ k \in DOMAIN patch[u] =>
                            <<resolved[u][k], "ACTIVE", company>> \in seen[u]
                      /\ company # U!Stored(current[u], "company") =>
                            \E s \in {"ACTIVE", "INACTIVE"} :
                                <<resolved[u][k], s, company>> \in seen[u]
    BY DEF UpdatedUnitsBelong, U!UpdatedUnitsBelong
  <2>1. CallInv(u)
    BY DEF UpdateInv
  <2>2. resolved[u]["company"] = NewCompany(u)
    BY <2>1 DEF CallInv, RefersTo, NewCompany, U!Reference
  <2>3. resolved[u][k] = RefersTo(u, k) /\ Checked(u, k)
    BY <2>1 DEF CallInv
  <2>4. NewCompany(u) # U!Stored(current[u], "company") =>
            U!MovesCompany(patch[u], current[u])
    BY DEF NewCompany, U!EffectiveCompany, U!MovesCompany, U!Stored
  <2>5. QED BY <2>2, <2>3, <2>4 DEF Checked
<1>2. QED BY <1>1, UpdateInvHolds, PTL

(* A reference that a partial update leaves out is resolved to itself: no   *)
(* look-up of a kept reference ever finds its row gone, however many        *)
(* replicas write it and whatever fails.                                    *)
THEOREM UntouchedReferencesStay == Spec => []UntouchedReferencesKept
<1>1. UpdateInv => UntouchedReferencesKept
  <2> SUFFICES ASSUME UpdateInv, NEW u \in Updaters, step[u] = "return",
                      NEW k \in DOMAIN current[u] \ DOMAIN patch[u]
               PROVE  k \in DOMAIN resolved[u] /\ resolved[u][k] = current[u][k]
    BY DEF UntouchedReferencesKept, U!UntouchedReferencesKept
  <2>1. CallInv(u)
    BY DEF UpdateInv
  <2>2. k \in Done(u)
    BY <2>1 DEF CallInv, Done
  <2>3. k \in DOMAIN resolved[u] /\ resolved[u][k] = RefersTo(u, k)
    BY <2>1, <2>2 DEF CallInv
  <2>4. RefersTo(u, k) = current[u][k]
    BY DEF RefersTo, U!Reference, U!EffectiveCompany, U!Stored
  <2>5. QED BY <2>3, <2>4
<1>2. QED BY <1>1, UpdateInvHolds, PTL
=============================================================================
