------------------------ MODULE EmployeeCreateProofs ------------------------
(***************************************************************************)
(* Theorems about employee creation, for every value of the constants: any *)
(* requests in flight, any projections, any number of faults.              *)
(***************************************************************************)
EXTENDS EmployeeCreate, TLAPS

-----------------------------------------------------------------------------
(* The order in which references are looked up.                            *)

LEMMA KindFacts ==
    /\ KindSet = {"company", "department", "location", "grade", "jobTitle"}
    /\ TableSet = {"employee", "profile", "assignment", "outbox"}
    /\ DOMAIN Kinds = 1 .. 5
    /\ \A k \in KindSet : Position(k) \in 1 .. 5 /\ Kinds[Position(k)] = k
    /\ \A i \in 1 .. 5 : Kinds[i] \in KindSet /\ Position(Kinds[i]) = i
<1>1. DOMAIN Kinds = 1 .. 5 /\ DOMAIN Tables = 1 .. 4
  BY DEF Kinds, Tables
<1>2. KindSet = {Kinds[1], Kinds[2], Kinds[3], Kinds[4], Kinds[5]}
  BY <1>1 DEF KindSet
<1>3. /\ Kinds[1] = "company" /\ Kinds[2] = "department" /\ Kinds[3] = "location"
      /\ Kinds[4] = "grade" /\ Kinds[5] = "jobTitle"
  BY DEF Kinds
<1>4. TableSet = {Tables[1], Tables[2], Tables[3], Tables[4]}
  BY <1>1 DEF TableSet
<1>5. TableSet = {"employee", "profile", "assignment", "outbox"}
  BY <1>4 DEF Tables
<1>6. ASSUME NEW k \in KindSet
      PROVE  Position(k) \in 1 .. 5 /\ Kinds[Position(k)] = k
  <2>1. \E i \in DOMAIN Kinds : Kinds[i] = k
    BY DEF KindSet
  <2>2. QED BY <1>1, <2>1 DEF Position
<1>7. ASSUME NEW i \in 1 .. 5 PROVE Kinds[i] \in KindSet /\ Position(Kinds[i]) = i
  <2>1. Kinds[i] \in KindSet
    BY <1>1 DEF KindSet
  <2>2. Position(Kinds[i]) \in 1 .. 5 /\ Kinds[Position(Kinds[i])] = Kinds[i]
    BY <1>6, <2>1
  <2>3. QED BY <1>3, <2>1, <2>2
<1>8. QED BY <1>1, <1>2, <1>3, <1>5, <1>6, <1>7

(* The kinds that are looked up before this one.                            *)
Before(kind) == {k \in KindSet : Position(k) < Position(kind)}

LEMMA LeastOfFive ==
  ASSUME NEW S \in SUBSET (1 .. 5), S # {}
  PROVE  \E i \in S : \A j \in S : i <= j
<1>1. CASE 1 \in S
  BY <1>1
<1>2. CASE 1 \notin S /\ 2 \in S
  BY <1>2
<1>3. CASE 1 \notin S /\ 2 \notin S /\ 3 \in S
  BY <1>3
<1>4. CASE 1 \notin S /\ 2 \notin S /\ 3 \notin S
  <2>1. CASE 4 \in S
    BY <1>4, <2>1
  <2>2. CASE 4 \notin S
    <3>1. \A j \in S : j = 5
      BY <1>4, <2>2
    <3>2. PICK i \in S : TRUE
      OBVIOUS
    <3>3. \A j \in S : i <= j
      BY <3>1, <3>2
    <3>4. QED BY <3>2, <3>3
  <2>3. QED BY <2>1, <2>2
<1>5. QED BY <1>1, <1>2, <1>3, <1>4

(* The label after a look-up is a reference that was given, and skips none; *)
(* or the manager if one was given; or the transaction.                     *)
LEMMA NextStepSkipsNone ==
  ASSUME NEW c, NEW kind \in KindSet
  PROVE  LET next == NextStep(c, kind)
             given == DOMAIN request[c].refs \cap KindSet
         IN  \/ /\ next \in given
                /\ given \cap Before(next) \subseteq Before(kind) \cup {kind}
             \/ /\ next = IF request[c].manager # None THEN "manager" ELSE "employee"
                /\ given \subseteq Before(kind) \cup {kind}
<1> DEFINE given == DOMAIN request[c].refs \cap KindSet
           later == {i \in DOMAIN Kinds :
                        i > Position(kind) /\ Kinds[i] \in DOMAIN request[c].refs}
           first == CHOOSE i \in later : \A j \in later : i <= j
<1>1. later \subseteq 1 .. 5
  BY KindFacts
<1>2. ASSUME NEW k \in given, Position(k) \notin later PROVE k \in Before(kind) \cup {kind}
  BY <1>2, KindFacts DEF Before
<1> HIDE DEF later
<1>3. CASE later # {}
  <2>1. \E i \in later : \A j \in later : i <= j
    BY <1>1, <1>3, LeastOfFive
  <2>2. first \in later /\ \A j \in later : first <= j
    BY <2>1
  <2> HIDE DEF first
  <2>3. Kinds[first] \in given /\ Position(Kinds[first]) = first
    BY <1>1, <2>2, KindFacts DEF later
  <2>4. ASSUME NEW k \in given \cap Before(Kinds[first]) PROVE k \in Before(kind) \cup {kind}
    <3>1. Position(k) < first /\ Position(k) \in 1 .. 5
      BY <2>3, KindFacts DEF Before
    <3>2. Position(k) \notin later
      BY <1>1, <2>2, <3>1
    <3>3. QED BY <1>2, <3>2
  <2>5. NextStep(c, kind) = Kinds[first]
    BY <1>3 DEF NextStep, later, first
  <2>6. QED BY <2>3, <2>4, <2>5
<1>4. CASE later = {}
  <2>1. NextStep(c, kind) = IF request[c].manager # None THEN "manager" ELSE "employee"
    BY <1>4 DEF NextStep, later
  <2>2. QED BY <1>2, <1>4, <2>1
<1>5. QED BY <1>3, <1>4

-----------------------------------------------------------------------------
(* Type correctness, with what a label says about its request: a busy       *)
(* client has a request of the input, a look-up names a reference that was  *)
(* given, and the open transaction holds what has been inserted so far.     *)

Labels == {"idle", "code", "manager", "commit"} \cup KindSet \cup TableSet

Inserted(label) ==
    IF label = "profile" THEN {"employee"}
    ELSE IF label = "assignment" THEN {"employee", "profile"}
    ELSE IF label = "outbox" THEN {"employee", "profile", "assignment"}
    ELSE IF label = "commit" THEN TableSet
    ELSE {}

Consistent(c) ==
    /\ pc[c] # "idle" => request[c] \in Requests
    /\ pc[c] \in KindSet => pc[c] \in DOMAIN request[c].refs
    /\ pc[c] = "manager" => request[c].manager # None
    /\ tx[c] = Inserted(pc[c])

AllHomes == UNION {Homes[e] : e \in Entities}

ClientsTyped ==
    /\ pc \in [Clients -> Labels]
    /\ request \in [Clients -> Requests \cup {NoRequest}]
    /\ id \in [Clients -> 0 .. MaxRequests]
    /\ tx \in [Clients -> SUBSET TableSet]
    /\ wasActive \in [Clients -> SUBSET (Entities \X AllHomes)]
    /\ \A c \in Clients : \A seen \in wasActive[c] :
        seen[1] \in Entities /\ seen[2] \in Homes[seen[1]]
    /\ \A c \in Clients : Consistent(c)

TypeInv == TypeOK /\ ClientsTyped

LEMMA ActiveOfTyped ==
  ASSUME NEW body \in Requests, NEW rows \in [Entities -> ProjectionRows],
         \A e \in Entities : rows[e].company \in Homes[e]
  PROVE  /\ ActiveOf(body, rows) \subseteq Entities \X AllHomes
         /\ \A seen \in ActiveOf(body, rows) :
                seen[1] \in Entities /\ seen[2] \in Homes[seen[1]]
BY RequestAssumption DEF ActiveOf, AllHomes

LEMMA InsertedFacts ==
    /\ \A label \in {"idle", "code", "manager", "employee"} \cup KindSet : Inserted(label) = {}
    /\ Inserted("profile") = {"employee"}
    /\ Inserted("assignment") = Inserted("profile") \cup {"profile"}
    /\ Inserted("outbox") = Inserted("assignment") \cup {"assignment"}
    /\ Inserted("commit") = Inserted("outbox") \cup {"outbox"}
    /\ Inserted("commit") = TableSet
BY KindFacts DEF Inserted

(* What the three ways to go on do to a client's state.                     *)
LEMMA AnswerTyped ==
  ASSUME ClientsTyped, NEW c \in Clients, NEW answer, Answer(c, answer)
  PROVE  ClientsTyped'
<1>1. Consistent(c)'
  BY KindFacts, InsertedFacts DEF ClientsTyped, Answer, Consistent
<1>2. \A b \in Clients \ {c} : Consistent(b)'
  BY DEF ClientsTyped, Answer, Consistent
<1>3. QED BY <1>1, <1>2, BoundAssumption DEF ClientsTyped, Answer, Labels

LEMMA GotoTyped ==
  ASSUME ClientsTyped, NEW c \in Clients, NEW label \in Labels \ {"idle"}, Goto(c, label),
         pc[c] # "idle", Inserted(label) = Inserted(pc[c]),
         label \in KindSet => label \in DOMAIN request[c].refs,
         label = "manager" => request[c].manager # None
  PROVE  ClientsTyped'
<1>1. Consistent(c)'
  BY DEF ClientsTyped, Goto, Consistent
<1>2. \A b \in Clients \ {c} : Consistent(b)'
  BY DEF ClientsTyped, Goto, Consistent
<1>3. QED BY <1>1, <1>2 DEF ClientsTyped, Goto

LEMMA InsertTyped ==
  ASSUME ClientsTyped, NEW c \in Clients, NEW table \in TableSet,
         NEW label \in {"profile", "assignment", "outbox", "commit"}, InsertInto(c, table, label),
         pc[c] # "idle", Inserted(label) = Inserted(pc[c]) \cup {table}
  PROVE  ClientsTyped'
<1>1. Consistent(c)'
  BY KindFacts DEF ClientsTyped, InsertInto, Consistent
<1>2. \A b \in Clients \ {c} : Consistent(b)'
  BY DEF ClientsTyped, InsertInto, Consistent
<1>3. QED BY <1>1, <1>2, KindFacts DEF ClientsTyped, InsertInto, Labels

LEMMA InitTypeInv == Init => TypeInv
<1> SUFFICES ASSUME Init PROVE TypeInv
  OBVIOUS
<1>1. \A c \in Clients : Consistent(c)
  BY KindFacts, InsertedFacts DEF Init, Consistent
<1>2. ClientsTyped
  BY <1>1, BoundAssumption DEF Init, ClientsTyped, Labels
<1>3. QED BY <1>2, ProjectedAssumption, StaffAssumption, BoundAssumption
         DEF Init, TypeInv, TypeOK, ClientsTyped, Labels

LEMMA TypeInvStep == TypeInv /\ [Next]_vars => TypeInv'
<1> SUFFICES ASSUME TypeInv, [Next]_vars PROVE TypeInv'
  OBVIOUS
<1> USE DEF clientVars, tables
<1>1. CASE ProjectionChanges
  <2>1. PICK e \in Entities, s \in {"ACTIVE", "INACTIVE"} : \E company \in Homes[e] :
          projection' = [projection EXCEPT ![e] = [status |-> s, company |-> company]]
    BY <1>1 DEF ProjectionChanges
  <2>2. /\ projection' \in [Entities -> ProjectionRows]
        /\ \A f \in Entities : projection'[f].company \in Homes[f]
    BY <2>1 DEF TypeInv, TypeOK, ProjectionRows, ProjectionStatuses
  <2>3. \A c \in Clients : pc[c] # "idle" => request[c] \in Requests
    BY DEF TypeInv, ClientsTyped, Consistent
  <2>4. ASSUME NEW c \in Clients, pc[c] # "idle"
        PROVE  /\ ActiveOf(request[c], projection') \subseteq Entities \X AllHomes
               /\ \A seen \in ActiveOf(request[c], projection') :
                      seen[1] \in Entities /\ seen[2] \in Homes[seen[1]]
    BY <2>2, <2>3, <2>4, ActiveOfTyped
  <2>5. /\ wasActive' \in [Clients -> SUBSET (Entities \X AllHomes)]
        /\ \A c \in Clients : \A seen \in wasActive'[c] :
              seen[1] \in Entities /\ seen[2] \in Homes[seen[1]]
    BY <1>1, <2>4 DEF ProjectionChanges, Witness, TypeInv, ClientsTyped
  <2>6. ClientsTyped'
    BY <1>1, <2>5 DEF ProjectionChanges, TypeInv, ClientsTyped, Consistent
  <2>7. changes' \in 0 .. MaxChanges
    BY <1>1, BoundAssumption DEF ProjectionChanges, TypeInv, TypeOK
  <2>8. QED BY <1>1, <2>2, <2>6, <2>7 DEF ProjectionChanges, TypeInv, TypeOK, ClientsTyped, Labels
<1>2. ASSUME NEW c \in Clients, Arrive(c) PROVE TypeInv'
  <2>1. PICK body \in Requests :
          /\ request' = [request EXCEPT ![c] = body]
          /\ wasActive' = [wasActive EXCEPT ![c] = ActiveOf(body, projection)]
    BY <1>2 DEF Arrive
  <2>2. /\ ActiveOf(body, projection) \subseteq Entities \X AllHomes
        /\ \A seen \in ActiveOf(body, projection) :
              seen[1] \in Entities /\ seen[2] \in Homes[seen[1]]
    BY ActiveOfTyped DEF TypeInv, TypeOK
  <2>3. Consistent(c)'
    <3>1. pc'[c] = "code" /\ request'[c] = body /\ tx'[c] = tx[c] /\ tx[c] = Inserted("idle")
      BY <1>2, <2>1 DEF Arrive, TypeInv, ClientsTyped, Consistent
    <3>2. QED BY <3>1, KindFacts, InsertedFacts DEF Consistent
  <2>4. \A b \in Clients \ {c} : Consistent(b)'
    BY <1>2, <2>1 DEF Arrive, TypeInv, ClientsTyped, Consistent
  <2>5. requests' \in 0 .. MaxRequests /\ id' \in [Clients -> 0 .. MaxRequests]
    BY <1>2, BoundAssumption DEF Arrive, TypeInv, TypeOK, ClientsTyped
  <2>6. ClientsTyped'
    BY <1>2, <2>1, <2>2, <2>3, <2>4, <2>5 DEF Arrive, TypeInv, ClientsTyped, Labels
  <2>7. QED BY <1>2, <2>5, <2>6 DEF Arrive, TypeInv, TypeOK, ClientsTyped, Labels
<1>3. ASSUME ClientsTyped', projection' = projection, requests' = requests, changes' = changes,
             faults' \in 0 .. MaxFaults,
             \A e \in employees' : e.status \in EmployeeStatuses
      PROVE  TypeInv'
  BY <1>3 DEF TypeInv, TypeOK, ClientsTyped, Labels
<1>4. ASSUME ClientsTyped', projection' = projection, employees' = employees,
             requests' = requests, changes' = changes, faults' = faults
      PROVE  TypeInv'
  BY <1>3, <1>4 DEF TypeInv, TypeOK
<1>5. ASSUME NEW c \in Clients, CheckCode(c) PROVE TypeInv'
  <2>1. CASE Answer(c, "DUPLICATE_EMPLOYEE_CODE")
    BY <1>4, <1>5, <2>1, AnswerTyped DEF CheckCode, TypeInv
  <2>2. CASE Goto(c, "company")
    <3>1. "company" \in DOMAIN request[c].refs /\ pc[c] = "code"
      BY <1>5, RequestAssumption DEF CheckCode, TypeInv, ClientsTyped, Consistent
    <3>2. ClientsTyped'
      BY <2>2, <3>1, GotoTyped, KindFacts, InsertedFacts DEF TypeInv, Labels
    <3>3. QED BY <1>4, <1>5, <3>2 DEF CheckCode
  <2>3. QED BY <1>5, <2>1, <2>2 DEF CheckCode
<1>6. ASSUME NEW c \in Clients, NEW kind \in KindSet, ValidateReference(c, kind) PROVE TypeInv'
  <2>1. CASE \E answer : Answer(c, answer)
    BY <1>4, <1>6, <2>1, AnswerTyped DEF ValidateReference, TypeInv
  <2>2. CASE Goto(c, NextStep(c, kind))
    <3>1. /\ NextStep(c, kind) \in (DOMAIN request[c].refs \cap KindSet) \cup {"manager", "employee"}
          /\ NextStep(c, kind) = "manager" => request[c].manager # None
      BY NextStepSkipsNone, KindFacts
    <3>2. /\ pc[c] = kind /\ pc[c] # "idle"
          /\ NextStep(c, kind) \in Labels \ {"idle"}
          /\ NextStep(c, kind) \in KindSet => NextStep(c, kind) \in DOMAIN request[c].refs
      BY <1>6, <3>1, KindFacts DEF ValidateReference, Labels
    <3>3. Inserted(NextStep(c, kind)) = {} /\ Inserted(pc[c]) = {}
      BY <3>1, <3>2, InsertedFacts
    <3>4. ClientsTyped'
      BY <2>2, <3>1, <3>2, <3>3, GotoTyped DEF TypeInv
    <3>5. QED BY <1>4, <1>6, <3>4 DEF ValidateReference
  <2>3. QED BY <1>6, <2>1, <2>2 DEF ValidateReference
<1>7. ASSUME NEW c \in Clients, ValidateManager(c) PROVE TypeInv'
  <2>1. CASE \E answer : Answer(c, answer)
    BY <1>4, <1>7, <2>1, AnswerTyped DEF ValidateManager, TypeInv
  <2>2. CASE Goto(c, "employee")
    <3>1. /\ pc[c] = "manager" /\ Inserted("employee") = Inserted("manager")
          /\ "employee" \in Labels \ {"idle"} /\ "employee" \notin KindSet
      BY <1>7, KindFacts, InsertedFacts DEF ValidateManager, Labels
    <3>2. ClientsTyped'
      BY <2>2, <3>1, GotoTyped DEF TypeInv
    <3>3. QED BY <1>4, <1>7, <3>2 DEF ValidateManager
  <2>3. QED BY <1>7, <2>1, <2>2 DEF ValidateManager
<1>8. ASSUME NEW c \in Clients, InsertEmployee(c) PROVE TypeInv'
  <2>1. CASE Answer(c, "ERROR")
    BY <1>4, <1>8, <2>1, AnswerTyped DEF InsertEmployee, TypeInv
  <2>2. CASE InsertInto(c, "employee", "profile")
    <3>1. ClientsTyped'
      BY <1>8, <2>2, InsertTyped, KindFacts, InsertedFacts DEF InsertEmployee, TypeInv
    <3>2. QED BY <1>4, <1>8, <3>1 DEF InsertEmployee
  <2>3. QED BY <1>8, <2>1, <2>2 DEF InsertEmployee
<1>9. ASSUME NEW c \in Clients, InsertProfile(c) \/ InsertAssignment(c) \/ InsertOutbox(c)
      PROVE  TypeInv'
  <2>1. ClientsTyped'
    BY <1>9, InsertTyped, KindFacts, InsertedFacts
       DEF InsertProfile, InsertAssignment, InsertOutbox, TypeInv
  <2>2. QED BY <1>4, <1>9, <2>1 DEF InsertProfile, InsertAssignment, InsertOutbox
<1>10. ASSUME NEW c \in Clients, Commit(c) PROVE TypeInv'
  <2>1. ClientsTyped'
    BY <1>10, AnswerTyped DEF Commit, TypeInv
  <2>2. \A e \in employees' : e.status \in EmployeeStatuses
    BY <1>10 DEF Commit, With, EmployeeRow, EmployeeStatuses, TypeInv, TypeOK
  <2>3. faults' \in 0 .. MaxFaults
    BY <1>10, BoundAssumption DEF Commit, TypeInv, TypeOK
  <2>4. QED BY <1>3, <1>10, <2>1, <2>2, <2>3 DEF Commit
<1>11. ASSUME NEW c \in Clients, Fault(c) PROVE TypeInv'
  <2>1. ClientsTyped' /\ faults' \in 0 .. MaxFaults
    BY <1>11, AnswerTyped, BoundAssumption DEF Fault, TypeInv, TypeOK
  <2>2. QED BY <1>3, <1>11, <2>1 DEF Fault, TypeInv, TypeOK
<1>12. CASE UNCHANGED vars
  BY <1>12 DEF vars, TypeInv, TypeOK, ClientsTyped, Consistent
<1>13. QED BY <1>1, <1>2, <1>5, <1>6, <1>7, <1>8, <1>9, <1>10, <1>11, <1>12 DEF Next, Serve

(* Whatever requests are in flight and however the projections change,      *)
(* every variable keeps its type.                                           *)
THEOREM CreateTypeCorrect == Spec => []TypeOK
<1>1. Spec => []TypeInv
  BY InitTypeInv, TypeInvStep, PTL DEF Spec
<1>2. QED BY <1>1, PTL DEF TypeInv

-----------------------------------------------------------------------------
(* The committed tables.  What keeps codes unique is not the look-up at the *)
(* start of a request but the insert: while a transaction is open nobody    *)
(* else has its code, in the table or in an open transaction.               *)

IdsApart ==
    /\ \A c \in Clients : pc[c] # "idle" => id[c] \in 1 .. requests /\ id[c] \notin Ids
    /\ \A b, c \in Clients : b # c /\ pc[b] # "idle" /\ pc[c] # "idle" => id[b] # id[c]
    /\ \A e \in employees \ Staff : e.id \in 1 .. requests
    /\ Staff \subseteq employees

CodesHeld == \A c \in Clients : tx[c] # {} => ~CodeTaken(c) /\ ~CodeLocked(c)

(* From the validation of its manager to the commit, a request's manager is *)
(* a committed employee who may manage.                                     *)
ManagerFound(c) ==
    pc[c] \in TableSet \cup {"commit"} /\ request[c].manager # None =>
        \E e \in employees : e.id = request[c].manager /\ EligibleManager(e)

RegistryInv ==
    /\ TypeInv
    /\ IdsApart
    /\ CodesHeld
    /\ CodesUnique
    /\ AllOrNothing
    /\ \A c \in Clients : ManagerFound(c)
    /\ ManagersCanManage

(* A step of one client that leaves the tables alone keeps the invariant if *)
(* its own part is kept.                                                    *)
LEMMA TablesKept ==
  ASSUME RegistryInv, TypeInv', NEW c \in Clients,
         UNCHANGED <<tables, requests>>,
         \A b \in Clients \ {c} :
            pc'[b] = pc[b] /\ request'[b] = request[b] /\ id'[b] = id[b] /\ tx'[b] = tx[b],
         pc'[c] # "idle" => pc[c] # "idle" /\ id'[c] = id[c] /\ request'[c] = request[c],
         tx'[c] # {} => request'[c] = request[c] /\ ~CodeTaken(c) /\ ~CodeLocked(c),
         ManagerFound(c)'
  PROVE  RegistryInv'
<1> USE DEF tables
<1>1. IdsApart'
  BY DEF RegistryInv, IdsApart, Ids
<1>2. CodesHeld'
  BY DEF RegistryInv, CodesHeld, CodeTaken, CodeLocked
<1>3. \A b \in Clients : ManagerFound(b)'
  BY DEF RegistryInv, ManagerFound
<1>4. CodesUnique' /\ AllOrNothing' /\ ManagersCanManage'
  BY DEF RegistryInv, CodesUnique, AllOrNothing, Ids, ManagersCanManage
<1>5. QED BY <1>1, <1>2, <1>3, <1>4 DEF RegistryInv

(* A request ends without having committed.                                 *)
LEMMA EndKeepsRegistry ==
  ASSUME RegistryInv, TypeInv', NEW c \in Clients, NEW answer, Answer(c, answer),
         UNCHANGED <<tables, requests>>
  PROVE  RegistryInv'
<1>1. /\ pc'[c] = "idle" /\ tx'[c] = {}
      /\ \A b \in Clients \ {c} :
            pc'[b] = pc[b] /\ request'[b] = request[b] /\ id'[b] = id[b] /\ tx'[b] = tx[b]
  BY DEF Answer, RegistryInv, TypeInv, ClientsTyped
<1>2. ManagerFound(c)'
  BY <1>1, KindFacts DEF ManagerFound
<1>3. QED BY <1>1, <1>2, TablesKept

LEMMA GotoKeepsRegistry ==
  ASSUME RegistryInv, TypeInv', NEW c \in Clients, NEW label, Goto(c, label),
         pc[c] # "idle", UNCHANGED <<tables, requests>>,
         label = "employee" /\ request[c].manager # None =>
            \E e \in employees : e.id = request[c].manager /\ EligibleManager(e),
         label \notin {"profile", "assignment", "outbox", "commit"}
  PROVE  RegistryInv'
<1>1. /\ pc'[c] = label /\ tx'[c] = tx[c] /\ request'[c] = request[c] /\ id'[c] = id[c]
      /\ \A b \in Clients \ {c} :
            pc'[b] = pc[b] /\ request'[b] = request[b] /\ id'[b] = id[b] /\ tx'[b] = tx[b]
  BY DEF Goto, RegistryInv, TypeInv, ClientsTyped
<1>2. ManagerFound(c)'
  BY <1>1, KindFacts DEF ManagerFound, tables
<1>3. QED BY <1>1, <1>2, TablesKept DEF RegistryInv, CodesHeld

LEMMA InsertKeepsRegistry ==
  ASSUME RegistryInv, TypeInv', NEW c \in Clients, NEW table, NEW label,
         InsertInto(c, table, label),
         pc[c] \in TableSet, UNCHANGED <<tables, requests>>,
         ~CodeTaken(c), ~CodeLocked(c)
  PROVE  RegistryInv'
<1>1. /\ pc'[c] = label /\ request'[c] = request[c] /\ id'[c] = id[c]
      /\ \A b \in Clients \ {c} :
            pc'[b] = pc[b] /\ request'[b] = request[b] /\ id'[b] = id[b] /\ tx'[b] = tx[b]
  BY DEF InsertInto, RegistryInv, TypeInv, ClientsTyped
<1>2. ManagerFound(c)'
  BY <1>1 DEF ManagerFound, tables, RegistryInv
<1>3. pc[c] # "idle"
  BY KindFacts
<1>4. QED BY <1>1, <1>2, <1>3, TablesKept

(* A commit adds one whole dossier: a new id, a free code, a manager who is *)
(* there.                                                                   *)
LEMMA CommitFacts ==
  ASSUME RegistryInv, NEW c \in Clients, Commit(c)
  PROVE  /\ pc[c] = "commit" /\ tx[c] # {}
         /\ employees' = employees \cup {EmployeeRow(c)}
         /\ profiles' = profiles \cup {id[c]}
         /\ assignments' = assignments \cup {AssignmentRow(c)}
         /\ outbox' = outbox \cup {id[c]}
         /\ id[c] \in 1 .. requests
         /\ id[c] \notin Ids
         /\ \A e \in Staff : e.id # id[c]
         /\ \A e \in employees : e.code # request[c].code
         /\ request[c].manager # None =>
                \E e \in employees : e.id = request[c].manager /\ EligibleManager(e)
<1>1. pc[c] = "commit" /\ tx[c] = {"employee", "profile", "assignment", "outbox"}
  BY KindFacts, InsertedFacts DEF Commit, RegistryInv, TypeInv, ClientsTyped, Consistent
<1>2. /\ employees' = employees \cup {EmployeeRow(c)}
      /\ profiles' = profiles \cup {id[c]}
      /\ assignments' = assignments \cup {AssignmentRow(c)}
      /\ outbox' = outbox \cup {id[c]}
  BY <1>1 DEF Commit, With
<1>3. id[c] \in 1 .. requests /\ id[c] \notin Ids
  BY <1>1 DEF RegistryInv, IdsApart
<1>4. \A e \in Staff : e.id # id[c]
  BY <1>3, StaffAssumption DEF RegistryInv, IdsApart, Ids
<1>5. \A e \in employees : e.code # request[c].code
  BY <1>1 DEF RegistryInv, CodesHeld, CodeTaken
<1>6. request[c].manager # None =>
        \E e \in employees : e.id = request[c].manager /\ EligibleManager(e)
  BY <1>1 DEF RegistryInv, ManagerFound
<1>7. QED BY <1>1, <1>2, <1>3, <1>4, <1>5, <1>6

LEMMA CommitKeepsRegistry ==
  ASSUME RegistryInv, TypeInv', NEW c \in Clients, Commit(c)
  PROVE  RegistryInv'
<1>1. /\ pc'[c] = "idle" /\ tx'[c] = {} /\ requests' = requests
      /\ \A b \in Clients \ {c} :
            pc'[b] = pc[b] /\ request'[b] = request[b] /\ id'[b] = id[b] /\ tx'[b] = tx[b]
  BY DEF Commit, Answer, RegistryInv, TypeInv, ClientsTyped
<1>2. Ids' = Ids \cup {id[c]}
  <2>1. EmployeeRow(c).id = id[c]
    BY DEF EmployeeRow
  <2>2. employees' = employees \cup {EmployeeRow(c)}
    BY CommitFacts
  <2>3. QED BY <2>1, <2>2 DEF Ids
<1>3. pc[c] # "idle" /\ tx[c] # {}
  BY CommitFacts
<1>4. IdsApart'
  <2>1. \A b \in Clients : pc'[b] # "idle" => id'[b] \in 1 .. requests' /\ id'[b] \notin Ids'
    BY <1>1, <1>2, <1>3 DEF RegistryInv, IdsApart
  <2>2. \A e \in employees' \ Staff : e.id \in 1 .. requests'
    BY <1>1, CommitFacts DEF RegistryInv, IdsApart, EmployeeRow
  <2>3. Staff \subseteq employees'
    BY CommitFacts DEF RegistryInv, IdsApart
  <2>4. QED BY <1>1, <2>1, <2>2, <2>3 DEF RegistryInv, IdsApart
<1>5. CodesHeld'
  <2>1. ASSUME NEW b \in Clients \ {c}, tx'[b] # {} PROVE ~CodeTaken(b)' /\ ~CodeLocked(b)'
    <3>1. ~CodeTaken(b) /\ ~CodeLocked(b)
      BY <1>1, <2>1 DEF RegistryInv, CodesHeld
    <3>2. request[c].code # request[b].code
      BY <1>3, <3>1 DEF CodeLocked
    <3>3. ~CodeTaken(b)'
      BY <1>1, <3>1, <3>2, CommitFacts DEF CodeTaken, EmployeeRow
    <3>4. ~CodeLocked(b)'
      BY <1>1, <3>1 DEF CodeLocked
    <3>5. QED BY <3>3, <3>4
  <2>2. QED BY <1>1, <2>1 DEF CodesHeld
<1>6. CodesUnique'
  <2>1. \A e \in employees : e.code # EmployeeRow(c).code
    BY CommitFacts DEF EmployeeRow
  <2>2. QED BY <2>1, CommitFacts DEF RegistryInv, CodesUnique
<1>7. AllOrNothing'
  <2>1. profiles' = Ids'
    BY <1>2, CommitFacts DEF RegistryInv, AllOrNothing
  <2>2. Ids' \ {e.id : e \in Staff} = (Ids \ {e.id : e \in Staff}) \cup {id[c]}
    BY <1>2, CommitFacts
  <2>3. outbox' = Ids' \ {e.id : e \in Staff}
    BY <2>2, CommitFacts DEF RegistryInv, AllOrNothing
  <2>4. {a.id : a \in assignments'} = {a.id : a \in assignments} \cup {id[c]}
    <3>1. AssignmentRow(c).id = id[c] /\ assignments' = assignments \cup {AssignmentRow(c)}
      BY CommitFacts DEF AssignmentRow
    <3>2. QED BY <3>1
  <2>5. {a.id : a \in assignments'} = Ids' \ {e.id : e \in Staff}
    BY <2>2, <2>4 DEF RegistryInv, AllOrNothing
  <2>6. QED BY <2>1, <2>3, <2>5 DEF AllOrNothing
<1>8. \A b \in Clients : ManagerFound(b)'
  <2>1. employees \subseteq employees'
    BY CommitFacts
  <2>2. ManagerFound(c)'
    BY <1>1, KindFacts DEF ManagerFound
  <2>3. ASSUME NEW b \in Clients \ {c} PROVE ManagerFound(b)'
    BY <1>1, <2>1 DEF RegistryInv, ManagerFound, EligibleManager
  <2>4. QED BY <2>2, <2>3
<1>9. ManagersCanManage'
  <2>1. employees \subseteq employees'
    BY CommitFacts
  <2>2. /\ AssignmentRow(c).manager = request[c].manager
        /\ AssignmentRow(c).id = id[c]
    BY DEF AssignmentRow
  <2>3. ASSUME NEW a \in assignments', a.manager # None
        PROVE  /\ a.manager # a.id
               /\ \E e \in employees : e.id = a.manager /\ EligibleManager(e)
    <3>1. CASE a \in assignments
      BY <2>3, <3>1 DEF RegistryInv, ManagersCanManage, EligibleManager
    <3>2. CASE a = AssignmentRow(c)
      BY <2>2, <2>3, <3>2, CommitFacts DEF Ids
    <3>3. QED BY <2>3, <3>1, <3>2, CommitFacts
  <2>4. QED BY <2>1, <2>3 DEF ManagersCanManage, EligibleManager
<1>10. QED BY <1>4, <1>5, <1>6, <1>7, <1>8, <1>9 DEF RegistryInv

LEMMA RegistryStep == RegistryInv /\ [Next]_vars => RegistryInv'
<1> SUFFICES ASSUME RegistryInv, [Next]_vars PROVE RegistryInv'
  OBVIOUS
<1>1. TypeInv'
  BY TypeInvStep DEF RegistryInv
<1>2. CASE ProjectionChanges \/ UNCHANGED vars
  <2>1. UNCHANGED <<employees, profiles, assignments, outbox, pc, request, id, tx, requests>>
    BY <1>2 DEF ProjectionChanges, vars, tables, clientVars
  <2>2. QED BY <1>1, <2>1 DEF RegistryInv, IdsApart, CodesHeld, CodeTaken, CodeLocked,
               CodesUnique, AllOrNothing, Ids, ManagerFound, ManagersCanManage
<1>3. ASSUME NEW c \in Clients, Arrive(c) PROVE RegistryInv'
  <2>1. /\ pc'[c] = "code" /\ tx'[c] = {} /\ id'[c] = requests + 1
        /\ \A b \in Clients \ {c} :
              pc'[b] = pc[b] /\ request'[b] = request[b] /\ id'[b] = id[b] /\ tx'[b] = tx[b]
    BY <1>3, KindFacts, InsertedFacts
       DEF Arrive, RegistryInv, TypeInv, ClientsTyped, Consistent
  <2>2. /\ requests \in Nat /\ requests' = requests + 1 /\ requests + 1 \in 1 .. MaxRequests
        /\ UNCHANGED <<employees, profiles, assignments, outbox>>
    BY <1>3, BoundAssumption DEF Arrive, tables, RegistryInv, TypeInv, TypeOK
  <2>3. requests + 1 \notin Ids
    BY <2>2, StaffAssumption DEF RegistryInv, IdsApart, Ids
  <2>4. IdsApart'
    BY <2>1, <2>2, <2>3 DEF RegistryInv, IdsApart, Ids
  <2>5. CodesHeld'
    BY <2>1, <2>2 DEF RegistryInv, CodesHeld, CodeTaken, CodeLocked
  <2>6. \A b \in Clients : ManagerFound(b)'
    BY <2>1, <2>2, KindFacts DEF RegistryInv, ManagerFound
  <2>7. CodesUnique' /\ AllOrNothing' /\ ManagersCanManage'
    BY <2>2 DEF RegistryInv, CodesUnique, AllOrNothing, Ids, ManagersCanManage
  <2>8. QED BY <1>1, <2>4, <2>5, <2>6, <2>7 DEF RegistryInv
<1>4. ASSUME NEW c \in Clients, CheckCode(c) PROVE RegistryInv'
  BY <1>1, <1>4, EndKeepsRegistry, GotoKeepsRegistry DEF CheckCode
<1>5. ASSUME NEW c \in Clients, NEW kind \in KindSet, ValidateReference(c, kind)
      PROVE  RegistryInv'
  <2>1. CASE \E answer : Answer(c, answer)
    BY <1>1, <1>5, <2>1, EndKeepsRegistry DEF ValidateReference
  <2>2. CASE Goto(c, NextStep(c, kind))
    <3>1. /\ NextStep(c, kind) \in KindSet \cup {"manager", "employee"}
          /\ NextStep(c, kind) = "employee" => request[c].manager = None
      BY NextStepSkipsNone, KindFacts
    <3>2. /\ NextStep(c, kind) \notin {"profile", "assignment", "outbox", "commit"}
          /\ pc[c] # "idle"
      BY <1>5, <3>1, KindFacts DEF ValidateReference
    <3>3. QED BY <1>1, <1>5, <2>2, <3>1, <3>2, GotoKeepsRegistry DEF ValidateReference
  <2>3. QED BY <1>5, <2>1, <2>2 DEF ValidateReference
<1>6. ASSUME NEW c \in Clients, ValidateManager(c) PROVE RegistryInv'
  <2>1. CASE \E answer : Answer(c, answer)
    BY <1>1, <1>6, <2>1, EndKeepsRegistry DEF ValidateManager
  <2>2. CASE ~\E answer : Answer(c, answer)
    BY <1>1, <1>6, <2>2, GotoKeepsRegistry DEF ValidateManager
  <2>3. QED BY <2>1, <2>2
<1>7. ASSUME NEW c \in Clients, InsertEmployee(c) PROVE RegistryInv'
  <2>1. CASE Answer(c, "ERROR")
    BY <1>1, <1>7, <2>1, EndKeepsRegistry DEF InsertEmployee
  <2>2. CASE ~Answer(c, "ERROR")
    BY <1>1, <1>7, <2>2, InsertKeepsRegistry, KindFacts DEF InsertEmployee
  <2>3. QED BY <2>1, <2>2
<1>8. ASSUME NEW c \in Clients, InsertProfile(c) \/ InsertAssignment(c) \/ InsertOutbox(c)
      PROVE  RegistryInv'
  <2>1. pc[c] \in {"profile", "assignment", "outbox"} /\ tx[c] # {}
    BY <1>8, InsertedFacts
       DEF InsertProfile, InsertAssignment, InsertOutbox, RegistryInv, TypeInv, ClientsTyped,
           Consistent
  <2>2. ~CodeTaken(c) /\ ~CodeLocked(c)
    BY <2>1 DEF RegistryInv, CodesHeld
  <2>3. QED BY <1>1, <1>8, <2>1, <2>2, InsertKeepsRegistry, KindFacts
               DEF InsertProfile, InsertAssignment, InsertOutbox
<1>9. ASSUME NEW c \in Clients, Commit(c) PROVE RegistryInv'
  BY <1>1, <1>9, CommitKeepsRegistry
<1>10. ASSUME NEW c \in Clients, Fault(c) PROVE RegistryInv'
  BY <1>1, <1>10, EndKeepsRegistry DEF Fault
<1>11. QED BY <1>2, <1>3, <1>4, <1>5, <1>6, <1>7, <1>8, <1>9, <1>10 DEF Next, Serve

LEMMA RegistryInit == Init => RegistryInv
<1> SUFFICES ASSUME Init PROVE RegistryInv
  OBVIOUS
<1>1. IdsApart /\ CodesHeld
  BY DEF Init, IdsApart, CodesHeld, Ids
<1>2. CodesUnique /\ AllOrNothing /\ ManagersCanManage
  BY StaffAssumption DEF Init, CodesUnique, AllOrNothing, Ids, ManagersCanManage
<1>3. \A c \in Clients : ManagerFound(c)
  BY KindFacts DEF Init, ManagerFound
<1>4. QED BY <1>1, <1>2, <1>3, InitTypeInv DEF RegistryInv

LEMMA RegistryInvHolds == Spec => []RegistryInv
BY RegistryInit, RegistryStep, PTL DEF Spec

(* Two requests with one code cannot both commit, whatever their look-ups   *)
(* saw: the unique index and its wait for open transactions suffice.        *)
THEOREM CodesStayUnique == Spec => []CodesUnique
BY RegistryInvHolds, PTL DEF RegistryInv

(* Whichever query fails and whether or not a commit was answered, the four *)
(* tables hold the same employees.                                          *)
THEOREM CreationIsAtomic == Spec => []AllOrNothing
BY RegistryInvHolds, PTL DEF RegistryInv

(* A manager who was eligible when looked up still is when the assignment   *)
(* that names them is committed, and is not the new employee.               *)
THEOREM ManagersStayEligible == Spec => []ManagersCanManage
BY RegistryInvHolds, PTL DEF RegistryInv

-----------------------------------------------------------------------------
(* The refinement of EmployeeRegistry: a commit registers one dossier, and  *)
(* no other step moves the tables.                                          *)

(* The mapping of employees keeps ids and codes.                            *)
LEMMA MappingKeeps ==
  ASSUME NEW S
  PROVE  LET mapped == {[id |-> e.id, code |-> e.code] : e \in S} IN
         /\ {m.id : m \in mapped} = {e.id : e \in S}
         /\ {m.code : m \in mapped} = {e.code : e \in S}
<1> DEFINE mapped == {[id |-> e.id, code |-> e.code] : e \in S}
<1>1. ASSUME NEW m \in mapped PROVE \E e \in S : m.id = e.id /\ m.code = e.code
  OBVIOUS
<1>2. ASSUME NEW e \in S PROVE \E m \in mapped : m.id = e.id /\ m.code = e.code
  <2>1. [id |-> e.id, code |-> e.code] \in mapped
    OBVIOUS
  <2>2. QED BY <2>1
<1> HIDE DEF mapped
<1>3. /\ {m.id : m \in mapped} = {e.id : e \in S}
      /\ {m.code : m \in mapped} = {e.code : e \in S}
  BY <1>1, <1>2
<1>4. QED BY <1>3 DEF mapped

LEMMA CommitRegisters ==
  ASSUME RegistryInv, NEW c \in Clients, Commit(c)
  PROVE  Registry!Next
<1> DEFINE member == [id |-> id[c], code |-> request[c].code]
           report == [id |-> id[c], manager |-> request[c].manager]
           members == {[id |-> e.id, code |-> e.code] : e \in employees}
           reports == {[id |-> a.id, manager |-> a.manager] : a \in assignments}
<1>1. EmployeeRow(c).id = id[c] /\ EmployeeRow(c).code = request[c].code
  BY DEF EmployeeRow
<1>2. AssignmentRow(c).id = id[c] /\ AssignmentRow(c).manager = request[c].manager
  BY DEF AssignmentRow
<1>3. members' = members \cup {member}
  BY <1>1, CommitFacts
<1>4. reports' = reports \cup {report}
  BY <1>2, CommitFacts
<1>5. {m.id : m \in members} = Ids /\ {m.code : m \in members} = {e.code : e \in employees}
  BY MappingKeeps DEF Ids
<1>6. member \in members' \ members
  BY <1>3, <1>5, CommitFacts
<1>7. report \in reports' \ reports
  <2>1. ASSUME NEW r \in reports PROVE r.id \in Ids
    <3>1. PICK a \in assignments : r = [id |-> a.id, manager |-> a.manager]
      OBVIOUS
    <3>2. QED BY <3>1 DEF RegistryInv, AllOrNothing
  <2>2. QED BY <1>4, <2>1, CommitFacts
<1>8. report.manager \in Ids \cup {None}
  BY CommitFacts DEF Ids
<1>9. Registry!Register(member.id, member.code, report.manager)
  BY <1>3, <1>4, <1>5, <1>8, CommitFacts DEF Registry!Register, Registry!Ids, Registry!Codes
<1>10. QED BY <1>6, <1>7, <1>9 DEF Registry!Next, Registry!Register

(* The committed tables implement the abstract registry.                    *)
THEOREM CreateImplementsRegistry == Spec => ImplementsRegistry
<1>1. Init => Registry!Init
  <2> SUFFICES ASSUME Init PROVE Registry!Init
    OBVIOUS
  <2>1. profiles = Registry!Ids
    BY MappingKeeps DEF Init, Registry!Ids
  <2>2. QED BY <2>1 DEF Init, Registry!Init
<1>2. RegistryInv /\ [Next]_vars => [Registry!Next]_(Registry!registry)
  <2> SUFFICES ASSUME RegistryInv, [Next]_vars PROVE [Registry!Next]_(Registry!registry)
    OBVIOUS
  <2>1. CASE UNCHANGED tables
    BY <2>1 DEF tables, Registry!registry
  <2>2. CASE \E c \in Clients : Commit(c)
    BY <2>2, CommitRegisters
  <2>3. QED BY <2>1, <2>2
       DEF Next, vars, ProjectionChanges, Arrive, Fault, Serve, CheckCode, ValidateReference,
           ValidateManager, InsertEmployee, InsertProfile, InsertAssignment, InsertOutbox
<1>3. QED BY <1>1, <1>2, RegistryInvHolds, PTL DEF Spec, ImplementsRegistry, Registry!Spec

-----------------------------------------------------------------------------
(* What an assignment names.  A look-up adds nothing to the history: the    *)
(* entity it finds ACTIVE is there already, since the history has every     *)
(* entity of the request that is or was ACTIVE.                             *)

(* The references that have been looked up.                                 *)
Passed(c) ==
    IF pc[c] \in {"idle", "code"} THEN {}
    ELSE IF pc[c] \in KindSet THEN DOMAIN request[c].refs \cap Before(pc[c])
    ELSE DOMAIN request[c].refs

WasValid(refs, history, kind) ==
    /\ \E seen \in history : seen[1] = refs[kind]
    /\ kind \in Units => <<refs[kind], refs["company"]>> \in history

Validated(c) ==
    /\ pc[c] # "idle" => ActiveOf(request[c], projection) \subseteq wasActive[c]
    /\ \A k \in Passed(c) : WasValid(request[c].refs, wasActive[c], k)

AssignmentsValid ==
    \A a \in assignments : \A k \in DOMAIN a.refs : WasValid(a.refs, a.wasActive, k)

ValidInv ==
    /\ TypeInv
    /\ \A c \in Clients : Validated(c)
    /\ AssignmentsValid

(* Nothing that has been recorded is forgotten while a request runs.        *)
LEMMA MoreHistory ==
  ASSUME NEW refs, NEW history, NEW more, NEW k, WasValid(refs, history, k), history \subseteq more
  PROVE  WasValid(refs, more, k)
BY DEF WasValid

LEMMA ValidatedKept ==
  ASSUME ValidInv, TypeInv', NEW c \in Clients, assignments' = assignments, projection' = projection,
         \A b \in Clients \ {c} :
            pc'[b] = pc[b] /\ request'[b] = request[b] /\ wasActive'[b] = wasActive[b],
         Validated(c)'
  PROVE  ValidInv'
<1>1. \A b \in Clients \ {c} : Validated(b)'
  BY DEF ValidInv, Validated, Passed
<1>2. QED BY <1>1 DEF ValidInv, AssignmentsValid

LEMMA EndKeepsValid ==
  ASSUME ValidInv, TypeInv', NEW c \in Clients, NEW answer, Answer(c, answer),
         assignments' = assignments, projection' = projection
  PROVE  ValidInv'
<1>1. pc'[c] = "idle" /\ \A b \in Clients \ {c} :
        pc'[b] = pc[b] /\ request'[b] = request[b] /\ wasActive'[b] = wasActive[b]
  BY DEF Answer, ValidInv, TypeInv, ClientsTyped
<1>2. Validated(c)'
  BY <1>1 DEF Validated, Passed
<1>3. QED BY <1>1, <1>2, ValidatedKept

(* A client goes on with the same request; what it has passed now was       *)
(* passed before or is valid.                                               *)
LEMMA GoOnKeepsValid ==
  ASSUME ValidInv, TypeInv', NEW c \in Clients, NEW label, pc' = [pc EXCEPT ![c] = label],
         pc[c] # "idle",
         UNCHANGED <<request, wasActive, assignments, projection>>,
         \A k \in Passed(c)' \ Passed(c) : WasValid(request[c].refs, wasActive[c], k)
  PROVE  ValidInv'
<1>1. \A b \in Clients \ {c} : pc'[b] = pc[b]
  BY DEF ValidInv, TypeInv, ClientsTyped
<1>2. Validated(c)'
  BY DEF ValidInv, Validated
<1>3. QED BY <1>1, <1>2, ValidatedKept

LEMMA ValidStep == ValidInv /\ [Next]_vars => ValidInv'
<1> SUFFICES ASSUME ValidInv, [Next]_vars PROVE ValidInv'
  OBVIOUS
<1> USE DEF tables, clientVars
<1>1. TypeInv'
  BY TypeInvStep DEF ValidInv
<1>2. \A c \in Clients : pc \in [Clients -> Labels] /\ wasActive \in [Clients -> SUBSET (Entities \X AllHomes)]
  BY DEF ValidInv, TypeInv, ClientsTyped
<1>3. CASE ProjectionChanges
  <2>1. ASSUME NEW c \in Clients PROVE Validated(c)'
    <3>1. CASE pc[c] = "idle"
      BY <1>3, <3>1 DEF ProjectionChanges, Validated, Passed
    <3>2. CASE pc[c] # "idle"
      <4>1. wasActive'[c] = wasActive[c] \cup ActiveOf(request[c], projection')
        BY <1>3, <3>2 DEF ProjectionChanges, Witness
      <4>2. Passed(c)' = Passed(c) /\ request'[c] = request[c]
        BY <1>3 DEF ProjectionChanges, Passed
      <4>3. \A k \in Passed(c) : WasValid(request[c].refs, wasActive'[c], k)
        BY <4>1, MoreHistory DEF ValidInv, Validated
      <4>4. ActiveOf(request[c], projection)' = ActiveOf(request[c], projection')
        BY <1>3 DEF ProjectionChanges, ActiveOf
      <4>5. QED BY <4>1, <4>2, <4>3, <4>4 DEF Validated, WasValid
    <3>3. QED BY <3>1, <3>2
  <2>2. QED BY <1>1, <1>3, <2>1 DEF ProjectionChanges, ValidInv, AssignmentsValid
<1>4. ASSUME NEW c \in Clients, Arrive(c) PROVE ValidInv'
  <2>1. PICK body \in Requests :
          /\ request' = [request EXCEPT ![c] = body]
          /\ wasActive' = [wasActive EXCEPT ![c] = ActiveOf(body, projection)]
    BY <1>4 DEF Arrive
  <2>2. /\ pc'[c] = "code" /\ request'[c] = body /\ wasActive'[c] = ActiveOf(body, projection)
        /\ \A b \in Clients \ {c} :
              pc'[b] = pc[b] /\ request'[b] = request[b] /\ wasActive'[b] = wasActive[b]
        /\ UNCHANGED <<assignments, projection>>
    BY <1>4, <2>1 DEF Arrive, ValidInv, TypeInv, ClientsTyped
  <2>3. Validated(c)'
    BY <2>2 DEF Validated, Passed, ActiveOf
  <2>4. QED BY <1>1, <2>2, <2>3, ValidatedKept
<1>5. ASSUME NEW c \in Clients, CheckCode(c) PROVE ValidInv'
  <2>1. CASE Answer(c, "DUPLICATE_EMPLOYEE_CODE")
    BY <1>1, <1>5, <2>1, EndKeepsValid DEF CheckCode
  <2>2. CASE Goto(c, "company")
    <3>1. pc'[c] = "company" /\ pc[c] = "code"
      BY <1>2, <1>5, <2>2 DEF CheckCode, Goto
    <3>2. Before("company") = {}
      <4>1. Position("company") = 1
        BY KindFacts DEF Kinds
      <4>2. QED BY <4>1, KindFacts DEF Before
    <3>3. Passed(c)' = {}
      BY <3>1, <3>2, KindFacts DEF Passed
    <3>4. QED BY <1>1, <1>5, <2>2, <3>1, <3>3, GoOnKeepsValid DEF CheckCode, Goto
  <2>3. QED BY <1>5, <2>1, <2>2 DEF CheckCode
<1>6. ASSUME NEW c \in Clients, NEW kind \in KindSet, ValidateReference(c, kind) PROVE ValidInv'
  <2>1. CASE \E answer : Answer(c, answer)
    BY <1>1, <1>6, <2>1, EndKeepsValid DEF ValidateReference
  <2>2. CASE ~\E answer : Answer(c, answer)
    <3> DEFINE refs == request[c].refs
               next == NextStep(c, kind)
    <3>1. /\ pc[c] = kind /\ IsActive(refs[kind]) /\ Goto(c, next)
          /\ kind \in Units => projection[refs[kind]].company = refs["company"]
          /\ UNCHANGED <<projection, assignments>>
      BY <1>6, <2>2 DEF ValidateReference
    <3>2. pc[c] # "idle" /\ pc[c] # "code" /\ kind \in DOMAIN refs
      BY <3>1, KindFacts DEF ValidInv, TypeInv, ClientsTyped, Consistent
    <3>3. <<refs[kind], projection[refs[kind]].company>> \in wasActive[c]
      BY <3>1, <3>2 DEF ValidInv, Validated, ActiveOf, IsActive
    <3>4. WasValid(refs, wasActive[c], kind)
      <4>1. <<refs[kind], projection[refs[kind]].company>>[1] = refs[kind]
        OBVIOUS
      <4>2. QED BY <3>1, <3>3, <4>1 DEF WasValid
    <3>5. DOMAIN refs \subseteq KindSet
      BY <3>2, RequestAssumption DEF ValidInv, TypeInv, ClientsTyped, Consistent
    <3>6. Passed(c) = DOMAIN refs \cap Before(kind)
      BY <3>1, <3>2 DEF Passed
    <3>7. pc'[c] = next /\ request' = request /\ wasActive' = wasActive
          /\ pc' = [pc EXCEPT ![c] = next]
      BY <1>2, <3>1 DEF Goto
    <3>8. Passed(c)' \subseteq Passed(c) \cup {kind}
      <4>1. CASE next \in KindSet
        <5>1. DOMAIN refs \cap Before(next) \subseteq Before(kind) \cup {kind}
          BY <3>5, <4>1, NextStepSkipsNone, KindFacts
        <5>2. Passed(c)' = DOMAIN refs \cap Before(next)
          BY <3>7, <4>1, KindFacts DEF Passed
        <5>3. QED BY <3>6, <5>1, <5>2
      <4>2. CASE next \notin KindSet
        <5>1. DOMAIN refs \subseteq Before(kind) \cup {kind}
          BY <3>5, <4>2, NextStepSkipsNone
        <5>2. Passed(c)' \subseteq DOMAIN refs
          BY <3>7 DEF Passed
        <5>3. QED BY <3>6, <5>1, <5>2
      <4>3. QED BY <4>1, <4>2
    <3>9. QED BY <1>1, <3>1, <3>2, <3>4, <3>7, <3>8, GoOnKeepsValid
  <2>3. QED BY <2>1, <2>2
<1>7. ASSUME NEW c \in Clients, NEW label \in {"employee", "profile", "assignment", "outbox", "commit"},
             pc[c] \in {"manager"} \cup TableSet, pc' = [pc EXCEPT ![c] = label],
             UNCHANGED <<request, wasActive, assignments, projection>>
      PROVE  ValidInv'
  <2>1. pc'[c] = label
    BY <1>2, <1>7
  <2>2. Passed(c)' = Passed(c) /\ pc[c] # "idle"
    BY <1>7, <2>1, KindFacts DEF Passed
  <2>3. QED BY <1>1, <1>7, <2>2, GoOnKeepsValid
<1>8. ASSUME NEW c \in Clients, ValidateManager(c) PROVE ValidInv'
  <2>1. CASE \E answer : Answer(c, answer)
    BY <1>1, <1>8, <2>1, EndKeepsValid DEF ValidateManager
  <2>2. CASE ~\E answer : Answer(c, answer)
    BY <1>7, <1>8, <2>2 DEF ValidateManager, Goto
  <2>3. QED BY <2>1, <2>2
<1>9. ASSUME NEW c \in Clients, InsertEmployee(c) PROVE ValidInv'
  <2>1. CASE Answer(c, "ERROR")
    BY <1>1, <1>9, <2>1, EndKeepsValid DEF InsertEmployee
  <2>2. CASE ~Answer(c, "ERROR")
    BY <1>7, <1>9, <2>2, KindFacts DEF InsertEmployee, InsertInto
  <2>3. QED BY <2>1, <2>2
<1>10. ASSUME NEW c \in Clients, InsertProfile(c) \/ InsertAssignment(c) \/ InsertOutbox(c)
       PROVE  ValidInv'
  BY <1>7, <1>10, KindFacts DEF InsertProfile, InsertAssignment, InsertOutbox, InsertInto
<1>11. ASSUME NEW c \in Clients, Commit(c) PROVE ValidInv'
  <2>1. /\ pc'[c] = "idle" /\ pc[c] = "commit"
        /\ \A b \in Clients \ {c} :
              pc'[b] = pc[b] /\ request'[b] = request[b] /\ wasActive'[b] = wasActive[b]
        /\ projection' = projection /\ assignments' \subseteq assignments \cup {AssignmentRow(c)}
    BY <1>11 DEF Commit, With, Answer, ValidInv, TypeInv, ClientsTyped
  <2>2. \A b \in Clients \ {c} : Validated(b)'
    BY <2>1 DEF ValidInv, Validated, Passed
  <2>3. Validated(c)'
    BY <2>1 DEF Validated, Passed
  <2>4. \A k \in DOMAIN request[c].refs : WasValid(request[c].refs, wasActive[c], k)
    BY <2>1, KindFacts DEF ValidInv, Validated, Passed
  <2>5. AssignmentRow(c).refs = request[c].refs /\ AssignmentRow(c).wasActive = wasActive[c]
    BY DEF AssignmentRow
  <2>6. AssignmentsValid'
    BY <2>1, <2>4, <2>5 DEF ValidInv, AssignmentsValid
  <2>7. QED BY <1>1, <2>2, <2>3, <2>6 DEF ValidInv
<1>12. ASSUME NEW c \in Clients, Fault(c) PROVE ValidInv'
  BY <1>1, <1>12, EndKeepsValid DEF Fault
<1>13. CASE UNCHANGED vars
  BY <1>1, <1>13 DEF vars, ValidInv, Validated, Passed, AssignmentsValid, ActiveOf
<1>14. QED BY <1>3, <1>4, <1>5, <1>6, <1>8, <1>9, <1>10, <1>11, <1>12, <1>13 DEF Next, Serve

LEMMA ValidInit == Init => ValidInv
BY InitTypeInv DEF Init, ValidInv, Validated, Passed, AssignmentsValid

LEMMA ValidInvHolds == Spec => []ValidInv
BY ValidInit, ValidStep, PTL DEF Spec

(* However the projections change between the look-ups, every entity of an  *)
(* assignment was ACTIVE at some moment of its request.                     *)
THEOREM ReferencesStayJustified == Spec => []ReferencesWereActive
<1>1. ValidInv => ReferencesWereActive
  BY DEF ValidInv, AssignmentsValid, WasValid, ReferencesWereActive
<1>2. QED BY <1>1, ValidInvHolds, PTL

(* Even when a unit is moved or deactivated at any await, there was one     *)
(* moment of the request at which it was ACTIVE in the company assigned.    *)
THEOREM UnitsBelongTogether == Spec => []OneOrganization
<1>1. ValidInv => OneOrganization
  BY DEF ValidInv, AssignmentsValid, WasValid, OneOrganization
<1>2. QED BY <1>1, ValidInvHolds, PTL
=============================================================================
